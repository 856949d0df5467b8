--------------------------------- MODULE Fifo ----------------------------------
(***************************************************************************)
(* What the threads of the gateway expect of a message queue: messages     *)
(* come out in the order they went in, none lost, none twice.              *)
(***************************************************************************)
EXTENDS Sequences

CONSTANTS Stamp,  \* a message, known by its stamp
          None    \* what a get leaves in its argument when the queue is empty

VARIABLES queue,  \* the waiting messages, oldest first
          taken   \* the message the last get returned

Init == queue = <<>> /\ taken = None

Put(s) == queue' = Append(queue, s) /\ UNCHANGED taken

Get == IF queue = <<>> THEN taken' = None /\ UNCHANGED queue
                       ELSE taken' = Head(queue) /\ queue' = Tail(queue)

Next == (\E s \in Stamp : Put(s)) \/ Get

Spec == Init /\ [][Next]_<<queue, taken>>
================================================================================
