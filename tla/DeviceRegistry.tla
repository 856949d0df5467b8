----------------------------- MODULE DeviceRegistry ----------------------------
(***************************************************************************)
(* What the gateway promises of the devices it knows: for each the status  *)
(* it last reported, or that the server knew at a newer stamp, and the     *)
(* stamp that counts the changes.                                          *)
(***************************************************************************)
EXTENDS Integers, FiniteSets

CONSTANTS Dev, Value, Zero, Alarm, Size, MaxStamp

VARIABLES reg,    \* the devices known, each with its value and stamp
          ustamp  \* the stamp the server gave the gateway

Stamp == -1..MaxStamp
Known == DOMAIN reg

Init == reg = <<>> /\ ustamp = -1

Set(d, e) == LET r == reg IN reg' = [x \in DOMAIN r \cup {d} |-> IF x = d THEN e ELSE r[x]]

\* A device reports a value.  A new one starts with the gateway's stamp.
Report(d, v) == /\ IF d \in Known THEN Set(d, [value |-> <<d, v>>, stamp |-> reg[d].stamp + 1])
                                  ELSE /\ Cardinality(Known) < Size
                                       /\ Set(d, [value |-> <<d, v>>, stamp |-> ustamp])
                /\ UNCHANGED ustamp

\* The value of an alarm is forgotten once it has been passed on.
Quiet(d) == d \in Known \cap Alarm /\ Set(d, [reg[d] EXCEPT !.value = <<d, Zero>>]) /\ UNCHANGED ustamp

\* The server's value counts if its stamp is newer.
Sync(d, s, v) == /\ d \in Known /\ reg[d].stamp < s
                 /\ Set(d, [value |-> <<d, v>>, stamp |-> s]) /\ UNCHANGED ustamp

AckStamp(s) == ustamp' = s /\ reg' = [d \in Known |-> [reg[d] EXCEPT !.stamp = s]]

RootSync(s) == ustamp < s /\ ustamp' = s /\ UNCHANGED reg

Delete(d) == /\ d \in Known /\ reg' = [x \in Known \ {d} |-> reg[x]]
             /\ UNCHANGED ustamp

Next == \/ \E d \in Dev : Quiet(d) \/ Delete(d) \/ \E v \in Value : Report(d, v)
        \/ \E d \in Dev, s \in Stamp, v \in Value : Sync(d, s, v)
        \/ \E s \in Stamp : AckStamp(s) \/ RootSync(s)
================================================================================
