------------------------------- MODULE MsgQueue --------------------------------
(***************************************************************************)
(* The message queue of src/twrt/src/proc.c: a doubly linked list whose    *)
(* first node points back at itself, whose last node points on at itself,  *)
(* and whose only node stays allocated, without data, when it is empty.    *)
(* twrt.c keeps two pointers per queue, one to put at (msg_q_tx) and one   *)
(* to get at (msg_q_tx_h); every call runs under the queue's mutex, so a   *)
(* call is one step.                                                       *)
(*                                                                         *)
(* msg_q_rx and msg_q_tx are driven by put and get alone; msg_q_tx_req is  *)
(* also deleted from by stamp, which moves its get pointer: `pure' says    *)
(* that it has not been.  A call that follows a pointer to freed memory    *)
(* has no defined outcome: the queue is then broken, and nothing is said   *)
(* of it any more.                                                         *)
(***************************************************************************)
EXTENDS Naturals, FiniteSets, SequencesExt

CONSTANTS Node,   \* the addresses calloc hands out, one per list node
          Stamp,  \* a message, known by its stamp
          None    \* msg.data == NULL

ASSUME QueueAssumption == IsFiniteSet(Node) /\ Node # {} /\ None \notin Stamp

VARIABLES alive,   \* the allocated nodes
          prev,    \* prev and next of every node; a freed node keeps its last
          next,
          msg,     \* the message in a node, or None
          q,       \* the pointer callers put at: msg_q_rx, msg_q_tx, msg_q_tx_req
          q_h,     \* the pointer callers get at: msg_q_rx_h and so on
          taken,   \* the message the last get copied out
          count,   \* what the last message_queue_del_stamp returned
          broken,  \* a freed node has been used
          pure     \* message_queue_del_stamp has not been called

vars == <<alive, prev, next, msg, q, q_h, taken, count, broken, pure>>

\* The nodes met when the links of f are followed from n, n first.
Walk(f, n) == LET at[k \in 0..Cardinality(Node)] == IF k = 0 THEN n ELSE f[at[k - 1]]
              IN  at

ToHead(n) == Walk(prev, n)[Cardinality(Node)]
ToTail(n) == Walk(next, n)[Cardinality(Node)]

\* The list n belongs to, first node first.
List(n) == LET w == Walk(next, ToHead(n))
           IN  SubSeq([k \in 1..Cardinality(Node) |-> w[k - 1]],
                      1, Cardinality(Range(w)))

\* message_queue_getlen: only a lone node is asked whether it holds a message.
GetLen(n) == IF Len(List(n)) = 1 /\ msg[ToHead(n)] = None THEN 0 ELSE Len(List(n))

\* All a call reaches from n is allocated.
Sound(n) == Range(Walk(prev, n)) \cup Range(Walk(next, ToHead(n))) \subseteq alive

Break == broken' = TRUE /\ UNCHANGED <<alive, prev, next, msg, q, q_h, taken, count, pure>>

\* message_queue_init
Init == \E n \in Node :
          /\ alive = {n} /\ q = n /\ q_h = n
          /\ prev = [m \in Node |-> m] /\ next = [m \in Node |-> m]
          /\ msg = [m \in Node |-> None]
          /\ taken = None /\ count = 0 /\ broken = FALSE /\ pure = TRUE

\* Mutant of Link: the new node's address is not returned.
LinkForgotten(s) == \E n \in Node \ alive :
                      /\ alive' = alive \cup {n}
                      /\ next' = [next EXCEPT ![q] = n, ![n] = n]
                      /\ prev' = [prev EXCEPT ![n] = q]
                      /\ msg' = [msg EXCEPT ![n] = s]
                      /\ q' = q

\* message_queue_put at q: a node behind q, whatever q points at.
Link(s) == \E n \in Node \ alive :
             /\ alive' = alive \cup {n}
             /\ next' = [next EXCEPT ![q] = n, ![n] = n]
             /\ prev' = [prev EXCEPT ![n] = q]
             /\ msg' = [msg EXCEPT ![n] = s]
             /\ q' = n

Put(s) == /\ ~broken
          /\ IF ~Sound(q) THEN Break ELSE
               /\ IF GetLen(q) = 0
                    THEN /\ msg' = [msg EXCEPT ![q] = s]
                         /\ UNCHANGED <<alive, prev, next, q>>
                    ELSE Link(s)
               /\ UNCHANGED <<q_h, taken, count, broken, pure>>

\* Mutant of Unlink: the new first node still points back at the freed one.
UnlinkHalf == /\ alive' = alive \ {q_h}
              /\ q_h' = next[q_h]
              /\ UNCHANGED <<prev, next>>

\* message_queue_get at q_h: the node q_h points at is freed unless it is alone.
Unlink == LET rest == next[q_h]
          IN  /\ alive' = alive \ {q_h}
              /\ prev' = [prev EXCEPT ![rest] = rest]
              /\ q_h' = rest
              /\ UNCHANGED next

Get == /\ ~broken
       /\ IF ~Sound(q_h) THEN Break ELSE
            /\ taken' = IF GetLen(q_h) = 0 THEN None ELSE msg[q_h]
            /\ msg' = IF GetLen(q_h) = 0 THEN msg ELSE [msg EXCEPT ![q_h] = None]
            /\ IF GetLen(q_h) <= 1 THEN UNCHANGED <<alive, prev, next, q_h>> ELSE Unlink
            /\ UNCHANGED <<q, count, broken, pure>>

\* Mutant of DelInner: the previous node still points on at the freed one.
DelInnerHalf(s, st, n) ==
  IF st.msg[n] # s THEN st ELSE
    [ alive |-> st.alive \ {n}, count |-> st.count + 1,
      msg   |-> [st.msg EXCEPT ![n] = None],
      prev  |-> [st.prev EXCEPT ![st.next[n]] =
                   IF st.prev[n] = n THEN st.next[n] ELSE st.prev[n]],
      next  |-> st.next ]

\* The turn of message_queue_del_stamp's loop at a node n that is not the last.
DelInner(s, st, n) ==
  LET p == st.prev[n]
      x == st.next[n]
  IN  IF st.msg[n] # s THEN st ELSE
        [ alive |-> st.alive \ {n}, count |-> st.count + 1,
          msg   |-> [st.msg EXCEPT ![n] = None],
          prev  |-> [st.prev EXCEPT ![x] = IF p = n THEN x ELSE p],
          next  |-> IF p = n THEN st.next ELSE [st.next EXCEPT ![p] = x] ]

\* What follows the loop: the last node stays, without a message, if it is alone.
DelLast(s, st, n) ==
  LET p == st.prev[n]
  IN  IF st.msg[n] # s
        THEN [ h |-> n, count |-> st.count, alive |-> st.alive,
               msg |-> st.msg, prev |-> st.prev, next |-> st.next ]
        ELSE [ h     |-> p, count |-> st.count + 1,
               alive |-> IF p = n THEN st.alive ELSE st.alive \ {n},
               msg   |-> [st.msg EXCEPT ![n] = None], prev |-> st.prev,
               next  |-> [st.next EXCEPT ![p] = p] ]

\* message_queue_del_stamp(&q_h, s): the scan starts at the real head, and q_h is left
\* where it ends, at the end of the list.
DelStamp(s) ==
  LET list  == List(q_h)
      start == [alive |-> alive, prev |-> prev, next |-> next, msg |-> msg, count |-> 0]
      inner == FoldLeft(LAMBDA st, n : DelInner(s, st, n), start, Front(list))
      end   == DelLast(s, inner, Last(list))
  IN  /\ ~broken
      /\ IF ~Sound(q_h) THEN Break ELSE
           /\ alive' = end.alive /\ prev' = end.prev /\ next' = end.next
           /\ msg' = end.msg /\ count' = end.count /\ q_h' = end.h
           /\ pure' = FALSE
           /\ UNCHANGED <<q, taken, broken>>

\* Mutant of FindStamp: the scan starts behind the first message.
FindStampFromSecond(s) == LET list == List(q_h)
                              seen == IF Len(list) = 1 THEN list ELSE Tail(list)
                          IN  Cardinality({n \in ToSet(seen) : msg[n] = s})

\* message_queue_find_stamp at q_h: with two or more messages the count stops
\* before the last one.
FindStamp(s) == LET list == List(q_h)
                    seen == IF Len(list) = 1 THEN list ELSE Front(list)
                IN  Cardinality({n \in ToSet(seen) : msg[n] = s})

Messages == LET list == List(q_h)
            IN  IF GetLen(q_h) = 0 THEN <<>> ELSE [i \in 1..Len(list) |-> msg[list[i]]]

\* Requests carry a stamp of their own until the stamps wrap (twrt.c:182, 194); the
\* messages of the other queues may share one.
Next == (\E s \in Stamp : Put(s) \/ DelStamp(s)) \/ Get

Spec == Init /\ [][Next]_vars

--------------------------------------------------------------------------------
TypeOK == /\ alive \subseteq Node /\ q \in Node /\ q_h \in Node
          /\ prev \in [Node -> Node] /\ next \in [Node -> Node]
          /\ msg \in [Node -> Stamp \cup {None}]
          /\ taken \in Stamp \cup {None}
          /\ count \in 0..Cardinality(Node) /\ broken \in BOOLEAN
          /\ pure \in BOOLEAN

\* Until message_queue_del_stamp is called, the two pointers of a queue stay at the
\* two ends of one list made of exactly the allocated nodes, the links of which agree,
\* and a node without a message is alone: what put, get and getlen each assume.
PointersAtEnds ==
  /\ ~broken
  /\ ToSet(List(q_h)) = alive
  /\ q_h = ToHead(q) /\ q = ToTail(q_h)
  /\ \A n \in alive : next[n] # n => prev[next[n]] = n
  /\ Cardinality(alive) > 1 => \A n \in alive : msg[n] # None

QueueInv == TypeOK /\ (pure => PointersAtEnds)

\* Driven by put and get alone, the linked list is a lossless FIFO.
Abstract == INSTANCE Fifo WITH queue <- Messages
LosslessFifo == Abstract!Init /\ [][pure' => Abstract!Next]_vars

\* message_queue_del_stamp removes every message with the stamp, returns how many
\* it removed, and keeps the others in their order, wherever the nodes are.
DelStampExact ==
  [][\A s \in Stamp : DelStamp(s) /\ ~broken' =>
       /\ Messages' = SelectSeq(Messages, LAMBDA m : m # s)
       /\ count' = Len(Messages) - Len(Messages')]_vars

\* message_queue_find_stamp never reports a message that is not there, and misses
\* at most the newest one.
FindStampBounds ==
  ~broken /\ Sound(q_h) => \A s \in Stamp :
    LET real == Cardinality({i \in DOMAIN Messages : Messages[i] = s})
    IN  FindStamp(s) \in (real - 1)..real
        /\ (FindStamp(s) < real => Messages[Len(Messages)] = s)

================================================================================
