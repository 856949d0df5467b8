---------------------------- MODULE MCServerSession ----------------------------
(* ServerSession with queues of two or three messages, one message in flight   *)
(* on the connection and one or two faults: a lost or refused connection, a    *)
(* silence of the server, a socket() that fails.  The stamp counter starts at  *)
(* 2 and counts to StampMod.                                                   *)
EXTENDS ServerSession
================================================================================
