------------------------------ MODULE MCMsgQueue -------------------------------
(* MsgQueue with as many nodes as make lists with a first, an inner and a last *)
(* node, and a spare one; nodes and stamps are interchangeable.                *)
EXTENDS MsgQueue, TLC

Symmetry == Permutations(Node) \cup Permutations(Stamp)
================================================================================
