-------------------------------- MODULE MCFraming ------------------------------
(* One or two frames, one fault; data that look like a message of their own, data that the *)
(* port alters, and a length that it alters.                                               *)
EXTENDS Framing

MCDatas == {<<1>>, <<0, 1>>, <<9, 0>>}
================================================================================
