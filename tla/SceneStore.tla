------------------------------- MODULE SceneStore ------------------------------
(***************************************************************************)
(* The scenes of the gateway: the array sys.sces, the functions of         *)
(* src/twrt/src/sys.c that edit, delete, save and load it, and the         *)
(* messages SET_SCENE, DELETE_SCENE and FINISH_SCENE of twrt.c that call   *)
(* them.  The array is used from its start up to the first scene whose     *)
(* scene_type is 0.  Messages are handled one at a time here; nothing in   *)
(* the code keeps two handlers apart.  A step is a search with the write   *)
(* it leads to, one turn of the shift that closes a gap, or the record of  *)
(* one scene in the file.                                                  *)
(***************************************************************************)
EXTENDS Naturals, SequencesExt, Selection

CONSTANTS MaxScene,  \* MAX_SCENE_NUM
          Id,        \* host_id_major with host_id_minor
          NullId,    \* the ids of a slot filled with zeros, which a message may also carry
          Body,      \* triggers and items
          Zeros      \* a body of zeros: of a slot not in use, and what calloc leaves of
                     \* one that the file holds only the beginning of

ASSUME SceneAssumption == /\ MaxScene \in Nat \ {0}
                          /\ NullId \in Id /\ Zeros \in Body

VARIABLES sces,   \* sys.sces, from 1
          file,   \* the records in FILE_SCENE
          pc, n,  \* what the handler is doing, and at which slot
          saved   \* the scenes that the last FINISH_SCENE was to save, or that the
                  \* last start found

vars == <<sces, file, pc, n, saved>>

Slot  == 1..MaxScene
Scene == [id : Id, type : {0, 1}, body : Body]   \* the types above 0 are alike
Empty == [id |-> NullId, type |-> 0, body |-> Zeros]

\* The scenes in use, in their order.
Used   == {m \in Slot : sces[m].type > 0}
Listed == Selected(sces, Used)

Init == /\ sces = [m \in Slot |-> Empty] /\ file = <<>>
        /\ pc = "idle" /\ n = 0 /\ saved = <<>>

Stops(id, m) == sces[m].type = 0 \/ sces[m].id = id

\* Mutant of EditSlot: a search that finds nothing stands at the first slot.
EditSlotWraps(id, m) ==
  IF Stops(id, m) THEN \A k \in 1..(m - 1) : ~Stops(id, k)
                  ELSE m = 1 /\ \A k \in Slot : ~Stops(id, k)

\* sys_edit_scene: the search ends at a slot not in use or with the same ids, or has
\* run through the array and stands at its last slot.
EditSlot(id, m) == /\ \A k \in 1..(m - 1) : ~Stops(id, k)
                   /\ Stops(id, m) \/ m = MaxScene

\* An old scene keeps its type, name and host_mac.
EditScene(e) ==
  \E m \in Slot :
    /\ EditSlot(e.id, m)
    /\ sces' = [sces EXCEPT ![m] = IF @.type > 0 /\ @.id = e.id
                                     THEN [@ EXCEPT !.body = e.body] ELSE e]

SetScene(e) == /\ pc = "idle" /\ EditScene(e)
               /\ UNCHANGED <<file, pc, n, saved>>

\* sys_del_scene looks at every slot, in use or not.
DeleteScene(id) ==
  \E m \in Slot :
    /\ pc = "idle"
    /\ sces[m].id = id /\ \A k \in 1..(m - 1) : sces[k].id # id
    /\ sces' = [sces EXCEPT ![m] = Empty]
    /\ pc' = "shift" /\ n' = m + 1
    /\ UNCHANGED <<file, saved>>

\* Mutant of Shift: the slot that was moved is not cleared.
ShiftCopies == /\ pc = "shift"
               /\ IF n > MaxScene \/ sces[n].type = 0
                    THEN pc' = "idle" /\ n' = 0 /\ UNCHANGED sces
                    ELSE sces' = [sces EXCEPT ![n - 1] = sces[n]] /\ n' = n + 1 /\ UNCHANGED pc
               /\ UNCHANGED <<file, saved>>

Shift == /\ pc = "shift"
         /\ IF n > MaxScene \/ sces[n].type = 0
              THEN pc' = "idle" /\ n' = 0 /\ UNCHANGED sces
              ELSE /\ sces' = [sces EXCEPT ![n - 1] = sces[n], ![n] = Empty]
                   /\ n' = n + 1 /\ UNCHANGED pc
         /\ UNCHANGED <<file, saved>>

\* Mutant of FinishScene: the file is opened without being emptied.
FinishSceneAppends == /\ pc = "idle" /\ pc' = "save" /\ n' = 1
                      /\ saved' = Listed
                      /\ UNCHANGED <<sces, file>>

\* sys_update_scene: fopen(..., "w+") empties the file.
FinishScene == /\ pc = "idle" /\ pc' = "save" /\ n' = 1
               /\ file' = <<>> /\ saved' = Listed
               /\ UNCHANGED sces

\* Mutant of Save: the loop ends before the last slot.
SaveButLast == /\ pc = "save"
               /\ IF n >= MaxScene \/ sces[n].type = 0
                    THEN pc' = "idle" /\ n' = 0 /\ UNCHANGED file
                    ELSE file' = Append(file, sces[n]) /\ n' = n + 1 /\ UNCHANGED pc
               /\ UNCHANGED <<sces, saved>>

Save == /\ pc = "save"
        /\ IF n > MaxScene \/ sces[n].type = 0
             THEN pc' = "idle" /\ n' = 0 /\ UNCHANGED file
             ELSE file' = Append(file, sces[n]) /\ n' = n + 1 /\ UNCHANGED pc
        /\ UNCHANGED <<sces, saved>>

\* sys_get_scene, into an array of zeros
Load(records) == [m \in Slot |-> IF m <= Len(records) THEN records[m] ELSE Empty]

\* The process dies and starts again.  What stdio had not flushed is lost: the file
\* ends after any record, or within the items of one, which fread then returns short.
Restart ==
  /\ \E k \in 0..Len(file) :
       \/ (pc = "save" \/ k = Len(file)) /\ file' = SubSeq(file, 1, k)
       \/ pc = "save" /\ k > 0
            /\ file' = Append(SubSeq(file, 1, k - 1), [file[k] EXCEPT !.body = Zeros])
  /\ sces' = Load(file') /\ saved' = file'
  /\ pc' = "idle" /\ n' = 0

Next == \/ \E e \in Scene : SetScene(e)
        \/ \E id \in Id : DeleteScene(id)
        \/ Shift \/ FinishScene \/ Save \/ Restart

Spec == Init /\ [][Next]_vars

--------------------------------------------------------------------------------
TypeOK == /\ sces \in [Slot -> Scene]
          /\ file \in Seq([id : Id, type : {1}, body : Body]) /\ Len(file) <= MaxScene
          /\ pc \in {"idle", "shift", "save"} /\ n \in 0..(MaxScene + 1)

\* The scenes in use have no gap before or between them, but for the one the shift is
\* closing: what every loop that stops at the first scene_type <= 0 assumes.
NoGap == \A m \in Slot : sces[m].type > 0 =>
           \A k \in 1..(m - 1) : sces[k].type > 0 \/ (pc = "shift" /\ k = n - 1)

\* No two scenes in use have the same host ids, so a find and a delete are of the scene
\* that was set, although slots beyond the end keep the ids of scenes of type 0.
UniqueIds == \A m, k \in Slot :
               sces[m].type > 0 /\ sces[k].type > 0 /\ sces[m].id = sces[k].id => m = k

\* Why that lasts: the slot before the one the shift looks at is the gap, and the save
\* has written the slots before the one it looks at.
HandlerInv == /\ pc = "shift" => n >= 2 /\ sces[n - 1].type = 0
              /\ pc = "save" => /\ n = Len(file) + 1
                                 /\ \A m \in DOMAIN file : file[m] = sces[m]

\* A start finds no scene twice in the file.
FileInv == \A m, k \in DOMAIN file : file[m].id = file[k].id => m = k

SceneInv == TypeOK /\ NoGap /\ UniqueIds /\ HandlerInv /\ FileInv

\* Slots, gaps, shifts and the file together are the list of scenes: every message is
\* one change of it, closing the gap is none, and a restart finds what was saved, or
\* the beginning of what was being saved.
Abstract == INSTANCE SavedList WITH Size <- MaxScene, Displaces <- TRUE, Cuts <- TRUE,
                                    list <- Listed, kept <- saved, done <- pc # "save"
ImplementsSavedList == Abstract!Spec

\* Once it is written the file holds exactly the scenes of the last FINISH_SCENE: the
\* save stops neither early nor late, and until then no message changes them.
FileIsSaved == saved = IF pc = "save" THEN Listed ELSE file
================================================================================
