------------------------------- MODULE ByteQueue -------------------------------
(***************************************************************************)
(* What the callers of buffer_ex.c rely on: a queue of at most N bytes     *)
(* that never refuses a byte (a full queue forgets its oldest byte), gives *)
(* bytes back in the order they came, and can be emptied at once.          *)
(***************************************************************************)
EXTENDS Naturals, Sequences

CONSTANTS N,      \* capacity of the queue, in bytes
          Byte    \* the bytes themselves

VARIABLES queue,  \* the bytes stored, oldest first
          out     \* the bytes handed over by the current read

Init == queue = <<>> /\ out = <<>>

Enqueue(b) ==
  /\ queue' = IF Len(queue) = N THEN Append(Tail(queue), b) ELSE Append(queue, b)
  /\ UNCHANGED out

NewRead == out' = <<>> /\ UNCHANGED queue

Dequeue ==
  /\ queue # <<>>
  /\ out' = Append(out, Head(queue))
  /\ queue' = Tail(queue)

Clear == queue' = <<>> /\ UNCHANGED out

Next == (\E b \in Byte : Enqueue(b)) \/ NewRead \/ Dequeue \/ Clear

Spec == Init /\ [][Next]_<<queue, out>>
================================================================================
