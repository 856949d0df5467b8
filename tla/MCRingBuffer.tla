----------------------------- MODULE MCRingBuffer ------------------------------
(* RingBuffer on a ring small enough for every wrap and overflow to happen: a  *)
(* chunk may be longer than the ring, so one put can overwrite all of it.      *)
EXTENDS RingBuffer
================================================================================
