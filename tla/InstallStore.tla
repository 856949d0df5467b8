------------------------------ MODULE InstallStore -----------------------------
(***************************************************************************)
(* The install list of the gateway, the names and places of its devices:   *)
(* sys.znode_install_list, the functions of src/twrt/src/sys.c that edit,  *)
(* delete, save and load it, and the messages SET_INSTALL, DEL_INSTALL and *)
(* FINISH_INSTALL of twrt.c.  Steps and messages are as in SceneStore.     *)
(*                                                                         *)
(* Two of the functions leave the array when it is full: an edit writes    *)
(* before it, into the device table, and a shift reads and moves what is   *)
(* behind it, the scenes.  The list is then said to have strayed, and      *)
(* nothing is said of it any more.                                         *)
(* Left out: restoring the backup of a full device table at the start      *)
(* writes its last record over the beginning of the first install.         *)
(***************************************************************************)
EXTENDS Naturals, SequencesExt, Selection

CONSTANTS ZnetSize,  \* ZNET_SIZE
          Id, NullId, Body, Zeros  \* as in SceneStore; a body is name, pos and posType

ASSUME InstallAssumption == /\ ZnetSize \in Nat \ {0}
                            /\ NullId \in Id /\ Zeros \in Body

VARIABLES ins,    \* sys.znode_install_list, from 1
          file,   \* the records in FILE_INSTALL
          pc, n,  \* what the handler is doing, and at which slot
          strayed,  \* the code has written outside the array
          saved   \* the installs that the last FINISH_INSTALL was to save, or that the
                  \* last start found

vars == <<ins, file, pc, n, strayed, saved>>

Slot    == 1..ZnetSize
Install == [id : Id, type : {0, 1}, body : Body]
Empty   == [id |-> NullId, type |-> 0, body |-> Zeros]

\* The installs in use, in their order.
Used   == {m \in Slot : ins[m].type > 0}
Listed == Selected(ins, Used)

Init == /\ ins = [m \in Slot |-> Empty] /\ file = <<>>
        /\ pc = "idle" /\ n = 0 /\ strayed = FALSE /\ saved = <<>>

Idle == pc = "idle" /\ ~strayed

\* Mutant of Stops: the loops end before the last slot.
StopsButLast(id, m) == m < ZnetSize /\ (ins[m].type = 0 \/ ins[m].id = id)

\* The searches of edit and delete end here.
Stops(id, m) == ins[m].type = 0 \/ ins[m].id = id

FirstStop(id, m) == Stops(id, m) /\ \A k \in 1..(m - 1) : ~Stops(id, k)

\* sys_edit_dev_install.  An old install keeps its type.  A search that ends at no slot
\* leaves idx at -1, which is below ZNET_SIZE.
SetInstall(e) ==
  /\ Idle
  /\ \/ \E m \in Slot :
          /\ FirstStop(e.id, m)
          /\ ins' = [ins EXCEPT ![m] = IF @.type > 0 THEN [@ EXCEPT !.body = e.body] ELSE e]
          /\ UNCHANGED strayed
     \/ /\ \A m \in Slot : ~Stops(e.id, m)
        /\ strayed' = TRUE /\ UNCHANGED ins
  /\ UNCHANGED <<file, pc, n, saved>>

\* sys_del_dev_install
DelInstall(id) ==
  \E m \in Slot :
    /\ Idle /\ FirstStop(id, m) /\ ins[m].id = id
    /\ ins' = [ins EXCEPT ![m] = Empty]
    /\ pc' = "shift" /\ n' = m + 1
    /\ UNCHANGED <<file, strayed, saved>>

\* Mutant of Shift: the slot that was moved is not cleared.
ShiftCopies ==
  /\ pc = "shift" /\ ~strayed
  /\ \/ /\ n \in Slot /\ ins[n].type > 0
        /\ ins' = [ins EXCEPT ![n - 1] = ins[n]]
        /\ n' = n + 1 /\ UNCHANGED <<pc, strayed>>
     \/ /\ n \in Slot => ins[n].type = 0
        /\ pc' = "idle" /\ n' = 0 /\ UNCHANGED <<ins, strayed>>
  /\ UNCHANGED <<file, saved>>

\* The loop tests m where it means n: behind the array it goes on, or stops, by what
\* the first scene holds.
Shift ==
  /\ pc = "shift" /\ ~strayed
  /\ \/ /\ n \in Slot /\ ins[n].type > 0
        /\ ins' = [ins EXCEPT ![n - 1] = ins[n], ![n] = Empty]
        /\ n' = n + 1 /\ UNCHANGED <<pc, strayed>>
     \/ /\ n \in Slot => ins[n].type = 0
        /\ pc' = "idle" /\ n' = 0 /\ UNCHANGED <<ins, strayed>>
     \/ /\ n \notin Slot
        /\ strayed' = TRUE /\ UNCHANGED <<ins, pc, n>>
  /\ UNCHANGED <<file, saved>>

\* sys_update_dev_install
FinishInstall == /\ Idle /\ pc' = "save" /\ n' = 1
                 /\ file' = <<>> /\ saved' = Listed
                 /\ UNCHANGED <<ins, strayed>>

\* Mutant of Save: the loop begins at the second slot.
SaveFromSecond ==
  /\ pc = "save"
  /\ IF n > ZnetSize \/ ins[n].type = 0
       THEN pc' = "idle" /\ n' = 0 /\ UNCHANGED file
       ELSE /\ file' = IF n > 1 THEN Append(file, ins[n]) ELSE file
            /\ n' = n + 1 /\ UNCHANGED pc
  /\ UNCHANGED <<ins, strayed, saved>>

Save == /\ pc = "save"
        /\ IF n > ZnetSize \/ ins[n].type = 0
             THEN pc' = "idle" /\ n' = 0 /\ UNCHANGED file
             ELSE file' = Append(file, ins[n]) /\ n' = n + 1 /\ UNCHANGED pc
        /\ UNCHANGED <<ins, strayed, saved>>

\* sys_get_dev_install: only whole records are read.
Load(records) == [m \in Slot |-> IF m <= Len(records) THEN records[m] ELSE Empty]

\* The process dies and starts again; a save that has not ended is cut short.
Restart ==
  /\ ~strayed
  /\ \E k \in 0..Len(file) :
       (pc = "save" \/ k = Len(file)) /\ file' = SubSeq(file, 1, k)
  /\ ins' = Load(file') /\ saved' = file'
  /\ pc' = "idle" /\ n' = 0 /\ UNCHANGED strayed

Next == \/ \E e \in Install : SetInstall(e)
        \/ \E id \in Id : DelInstall(id)
        \/ Shift \/ FinishInstall \/ Save \/ Restart

Spec == Init /\ [][Next]_vars

--------------------------------------------------------------------------------
TypeOK == /\ ins \in [Slot -> Install]
          /\ file \in Seq([id : Id, type : {1}, body : Body]) /\ Len(file) <= ZnetSize
          /\ pc \in {"idle", "shift", "save"} /\ n \in 0..(ZnetSize + 1)
          /\ strayed \in BOOLEAN

\* The installs in use have no gap before or between them but the one being closed.
NoGap == \A m \in Slot : ins[m].type > 0 =>
           \A k \in 1..(m - 1) : ins[k].type > 0 \/ (pc = "shift" /\ k = n - 1)

\* No two installs in use have the same id.
UniqueIds == \A m, k \in Slot :
               ins[m].type > 0 /\ ins[k].type > 0 /\ ins[m].id = ins[k].id => m = k

\* Why that lasts: the slot before the one the shift looks at is the only gap, and the
\* save has written the slots before the one it looks at.
HandlerInv == /\ pc = "shift" => /\ n >= 2 /\ ins[n - 1].type = 0
                                  /\ \A k \in 1..(n - 2) : ins[k].type > 0
              /\ pc = "save" => /\ n = Len(file) + 1
                                 /\ \A m \in DOMAIN file : file[m] = ins[m]

\* A start finds no install twice in the file.
FileInv == \A m, k \in DOMAIN file : file[m].id = file[k].id => m = k

InstallInv == TypeOK /\ NoGap /\ UniqueIds /\ HandlerInv /\ FileInv

\* The code leaves the array only when it is full, or was before the delete.
StraysOnlyWhenFull ==
  [][strayed' /\ ~strayed => /\ \A m \in 1..(ZnetSize - 1) : ins[m].type > 0
                             /\ pc = "idle" => ins[ZnetSize].type > 0]_vars

\* Once it is written the file holds exactly the installs of the last FINISH_INSTALL, and
\* until then no message changes these.
FileIsSaved == saved = IF pc = "save" THEN Listed ELSE file

\* As long as it has not, slots, gaps, shifts and the file are one saved list.
Abstract == INSTANCE SavedList WITH Size <- ZnetSize, Displaces <- FALSE, Cuts <- FALSE,
                                    list <- Listed, kept <- saved, done <- pc # "save"
ImplementsSavedList == Abstract!Spec
================================================================================
