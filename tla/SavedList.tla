------------------------------- MODULE SavedList -------------------------------
(***************************************************************************)
(* What the gateway promises of a list that it keeps in memory and saves   *)
(* on request, its scenes and its installs: at most Size entries, no two   *)
(* with the same id, in the order they were first set.  Setting one again  *)
(* replaces its body and nothing else.  A save that has ended is what a    *)
(* restart finds; one that has not may leave any beginning of the list.    *)
(***************************************************************************)
EXTENDS SequencesExt

CONSTANTS Size, Id, Body,
          Displaces,  \* an entry too many takes the place of the last, or is not taken
          Cuts, Zeros \* a save cut short may leave an entry with a body of Zeros

VARIABLES list,    \* the list
          kept,    \* the list as it was last saved
          done     \* whether that save has ended

Pos(id) == {i \in DOMAIN list : list[i].id = id}

Init == list = <<>> /\ kept = <<>> /\ done = TRUE

Replace(id, body) ==
  \E i \in Pos(id) : list' = [list EXCEPT ![i].body = body]

\* An entry of type 0 is accepted, but it is not in the list.
Add(e) ==
  LET room == IF Len(list) = Size THEN Front(list) ELSE list
  IN  /\ Pos(e.id) = {} /\ (Displaces \/ Len(list) < Size)
      /\ list' = IF e.type = 0 THEN room ELSE Append(room, e)

Drop(id) == \E i \in Pos(id) : list' = RemoveAt(list, i)

Edit == /\ \/ \E id \in Id : Drop(id) \/ \E body \in Body : Replace(id, body)
           \/ \E e \in [id : Id, type : {0, 1}, body : Body] : Add(e)
        /\ UNCHANGED <<kept, done>>

StartSave == done /\ kept' = list /\ done' = FALSE /\ UNCHANGED list

EndSave == ~done /\ done' = TRUE /\ UNCHANGED <<list, kept>>

Restart ==
  /\ \/ done /\ list' = kept
     \/ ~done /\ \E k \in 0..Len(kept) :
          \/ list' = SubSeq(kept, 1, k)
          \/ Cuts /\ k > 0 /\ list' = SubSeq(kept, 1, k - 1) \o <<[kept[k] EXCEPT !.body = Zeros]>>
  /\ kept' = list' /\ done' = TRUE

Next == Edit \/ StartSave \/ EndSave \/ Restart

Spec == Init /\ [][Next]_<<list, kept, done>>
================================================================================
