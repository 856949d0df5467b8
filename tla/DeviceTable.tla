------------------------------ MODULE DeviceTable ------------------------------
(***************************************************************************)
(* The devices of the gateway: sys.znode_list with the functions of        *)
(* src/twrt/src/sys.c that update, synchronise, back up and restore it,    *)
(* and the messages DATA_STAT, DATA_REQ_SYNC, DATA_ACK_STAMP and           *)
(* DATA_DEL_ZNODE of twrt.c.  Messages are handled one at a time; the      *)
(* backup is written by run_sys_ptask, a slot per step.                    *)
(*                                                                         *)
(* A slot is its fields in the order they have in memory: id, type,        *)
(* status_len, the pointer status and u_stamp; of type and status_len it   *)
(* is told whether they are zero, for then the slot is empty.  A backup    *)
(* record is sizeof(znode_install) bytes from the slot on, more than a     *)
(* znode has: it holds the next slots too and the head of one more, and    *)
(* restoring it writes them too.  stdio writes the file in blocks that end *)
(* anywhere within a record: a backup that does not come to its end may    *)
(* leave any part of one.  All statuses have one length here, a slot past  *)
(* the end of the table reads as empty, and the stamp of an empty slot,    *)
(* which nothing reads, is -1.                                             *)
(***************************************************************************)
EXTENDS Integers, SequencesExt

CONSTANTS Dev, NoDev,      \* device ids, and the id of a slot filled with zeros
          Value, Zero,     \* what a status can be, and the status of zeros
          Alarm,           \* the devices of type 110, 113, 115 and 118
          ZnetSize,        \* ZNET_SIZE
          Spill,           \* whole slots that a record holds beyond its own
          MaxStamp,        \* bound of the stamps
          Tears,           \* bound: after how many fields the file may end in a record
          Overlap          \* whether messages are handled during a backup

\* The fields of a slot as a file can end in them: half of the id, the id, type,
\* status_len, u_stamp; of a record, with its head of three, and the status, of two.
SlotLen   == 5
RecordLen == SlotLen * (Spill + 1) + 3
Full      == RecordLen + 2

ASSUME DeviceAssumption == /\ ZnetSize \in Nat \ {0} /\ Spill \in Nat /\ MaxStamp \in Nat
                           /\ NoDev \notin Dev /\ Zero \in Value /\ Alarm \subseteq Dev
                           /\ Overlap \in BOOLEAN /\ Tears \subseteq 1..Full

VARIABLES znodes,  \* sys.znode_list, from 1
          ustamp,  \* sys.u_stamp
          reset,   \* the slot whose alarm DATA_STAT is about to clear, or 0
          file,    \* FILE_ZNET_BAKUP: the number of devices, the records, and of the last
                   \* record how much
          bk,      \* the slot that the backup looks at next, or 0
          kept,    \* the devices as the last backup began, none if it was cut short
          cut,     \* whether it was cut short
          torn     \* whether a start has read a record that was cut behind a free slot

vars == <<znodes, ustamp, reset, file, bk, kept, cut, torn>>

Slot  == 1..ZnetSize
Stamp == -1..MaxStamp

\* A status is marked with the device that it is of: <<d, v>>.  Wild is a pointer of an
\* earlier process, or none.
Wild   == <<NoDev, Zero>>
Status == Dev \X Value

Empty == [id |-> NoDev, type |-> FALSE, len |-> FALSE, status |-> Wild, stamp |-> -1]
Znode == [id : Dev \cup {NoDev}, type : BOOLEAN, len : BOOLEAN,
          status : Status \cup {Wild}, stamp : Stamp]

\* A znode of status v and stamp s
NodeOf(d, v, s) == [id |-> d, type |-> TRUE, len |-> TRUE, status |-> <<d, v>>, stamp |-> s]

\* Not znode_isempty.  The searches for an id do not ask it: a slot may be empty and have one.
IsUsed(z) == z.type /\ z.len
InUse(m)  == IsUsed(znodes[m])
Has(d)    == {m \in Slot : znodes[m].id = d}

\* The devices of a table, each with its value and stamp.
UsedIn(t)    == {m \in Slot : IsUsed(t[m])}
DevicesOf(t) == [d \in {t[m].id : m \in UsedIn(t)} |->
                   LET z == t[CHOOSE m \in UsedIn(t) : t[m].id = d]
                   IN  [value |-> z.status, stamp |-> z.stamp]]
Devices == DevicesOf(znodes)

EmptyFile == [cnt |-> 0, recs |-> <<>>, tear |-> Full]

Init == /\ znodes = [m \in Slot |-> Empty] /\ ustamp = -1 /\ reset = 0
        /\ file = EmptyFile /\ bk = 0 /\ kept = Devices /\ cut = FALSE /\ torn = FALSE

\* run_sys_msg_rx is free to handle a message.
Handling == reset = 0 /\ (Overlap \/ bk = 0)

\* sys_znode_update: the slot of a device, or else the first empty one.
IsFound(d, m) == znodes[m].id = d /\ \A k \in 1..(m - 1) : znodes[k].id # d

\* Mutant of IsFree: the search for an empty slot does not wait for that of the device.
IsFreeOnly(d, m) == ~InUse(m) /\ \A k \in 1..(m - 1) : InUse(k)

IsFree(d, m) == Has(d) = {} /\ ~InUse(m) /\ \A k \in 1..(m - 1) : InUse(k)

\* DATA_STAT.  The program is not followed further once it writes to a wild pointer, or to
\* the status of an empty slot that has the device's id.
Stat(d, v) ==
  \E m \in Slot, s \in Stamp :
    /\ Handling
    /\ \/ IsFound(d, m) /\ InUse(m) /\ znodes[m].status # Wild /\ s = znodes[m].stamp + 1
       \/ IsFree(d, m) /\ s = ustamp
    /\ znodes' = [znodes EXCEPT ![m] = NodeOf(d, v, s)]
    /\ reset' = IF d \in Alarm THEN m ELSE 0
    /\ UNCHANGED <<ustamp, file, bk, kept, cut, torn>>

\* The end of DATA_STAT, after the status of an alarm has been sent.
ResetAlarm == /\ reset # 0 /\ (Overlap \/ bk = 0)
              /\ znodes' = [znodes EXCEPT ![reset].status = <<znodes[reset].id, Zero>>]
              /\ reset' = 0
              /\ UNCHANGED <<ustamp, file, bk, kept, cut, torn>>

\* Mutant of Newer: the status with the lower stamp wins.
NewerSwapped(m, s) == znodes[m].stamp > s
Newer(m, s) == znodes[m].stamp <= s

\* sys_sync.  When the gateway's status is newer it is sent back and nothing changes.
ReqSync(d, s, v) ==
  \E m \in Slot :
    /\ Handling /\ IsFound(d, m) /\ InUse(m) /\ znodes[m].status # Wild /\ Newer(m, s)
    /\ znodes' = [znodes EXCEPT ![m] = NodeOf(d, v, s)]
    /\ UNCHANGED <<ustamp, reset, file, bk, kept, cut, torn>>

RootSync(s) == /\ Handling /\ ustamp < s /\ ustamp' = s
               /\ UNCHANGED <<znodes, reset, file, bk, kept, cut, torn>>

AckStamp(s) == /\ Handling /\ ustamp' = s
               /\ znodes' = [m \in Slot |-> IF InUse(m) THEN [znodes[m] EXCEPT !.stamp = s]
                                                       ELSE znodes[m]]
               /\ UNCHANGED <<reset, file, bk, kept, cut, torn>>

DelZnode(d) == \E m \in Slot :
                 /\ Handling /\ IsFound(d, m) /\ (InUse(m) => znodes[m].status # Wild)
                 /\ znodes' = [znodes EXCEPT ![m] = Empty]
                 /\ UNCHANGED <<ustamp, reset, file, bk, kept, cut, torn>>

\* run_sys_ptask, when TIMER_BAKUP is over or 20 updates have come: sys_znet_bakup
\* empties the file and writes the number of devices.
BakupStart == LET cnt == Cardinality({m \in Slot : InUse(m)})
              IN  /\ bk = 0 /\ cnt > 0 /\ (Overlap \/ reset = 0)
                  /\ file' = [EmptyFile EXCEPT !.cnt = cnt] /\ bk' = 1
                  /\ kept' = Devices /\ cut' = FALSE
                  /\ UNCHANGED <<znodes, ustamp, reset, torn>>

\* What a record holds: the slot and the next ones but for their statuses, which are
\* pointers, and the status of the slot.
Record(m) == [slots  |-> [i \in 0..(Spill + 1) |->
                            IF m + i \in Slot THEN [znodes[m + i] EXCEPT !.status = Wild] ELSE Empty],
              status |-> znodes[m].status]

\* Mutant of BakupSlot: the loop ends at the first empty slot.
BakupSlotStops ==
  /\ bk \in Slot
  /\ file' = IF InUse(bk) THEN [file EXCEPT !.recs = Append(@, Record(bk))] ELSE file
  /\ bk' = IF InUse(bk) THEN bk + 1 ELSE ZnetSize + 1
  /\ UNCHANGED <<znodes, ustamp, reset, kept, cut, torn>>

BakupSlot ==
  /\ bk \in Slot /\ (InUse(bk) => znodes[bk].status # Wild)
  /\ file' = IF InUse(bk) THEN [file EXCEPT !.recs = Append(@, Record(bk))] ELSE file
  /\ bk' = bk + 1
  /\ UNCHANGED <<znodes, ustamp, reset, kept, cut, torn>>

\* fclose: the whole file has been written.
BakupEnd == bk = ZnetSize + 1 /\ bk' = 0
            /\ UNCHANGED <<znodes, ustamp, reset, file, kept, cut, torn>>

\* A slot of zeros, and a with the first n fields of b written over it.  Half of an id over
\* another makes one that no device has.
Zeros == [Empty EXCEPT !.stamp = 0]
Over(a, b, n) == [id     |-> IF n < 1 \/ a.id = b.id THEN a.id ELSE IF n = 1 THEN NoDev ELSE b.id,
                  type   |-> IF n > 2 THEN b.type ELSE a.type,
                  len    |-> IF n > 3 THEN b.len ELSE a.len,
                  status |-> Wild,
                  stamp  |-> IF n > 4 THEN b.stamp ELSE a.stamp]

\* a after the first t fields of a record whose own slot is i slots before it
Written(a, rec, i, t) ==
  LET n == (IF t < RecordLen THEN t ELSE RecordLen) - SlotLen * i
  IN  IF n > 0 THEN Over(a, rec.slots[i], n) ELSE a

\* sys_znet_restore.  fread is never negative: past the end of the file the loop goes on, a
\* slot keeps what has been written into it, of records that were not whole too, and gets
\* the status read before, g when there was none.  Slots beyond the number of devices keep
\* a pointer of the file.
Load(f, g) ==
  LET last   == IF f.cnt < Len(f.recs) THEN f.cnt ELSE Len(f.recs)
      tear   == IF last = Len(f.recs) THEN f.tear ELSE Full
      under(m) == IF last > 1 THEN Written(Zeros, f.recs[last - 1], m - last + 1, RecordLen) ELSE Zeros
      slot(m)  == IF m < last THEN Over(Zeros, f.recs[m].slots[0], SlotLen)
                  ELSE IF last > 0 THEN Written(under(m), f.recs[last], m - last, tear) ELSE Zeros
      buff   == IF last > 0 /\ tear = Full THEN f.recs[last].status
                ELSE IF last > 1 /\ tear < Full - 1 THEN f.recs[last - 1].status ELSE g
      status(m) == IF m < last THEN f.recs[m].status ELSE IF m <= f.cnt THEN buff ELSE Wild
  IN  [m \in Slot |-> [slot(m) EXCEPT !.status = status(m)]]

\* The rest of sys_init for the table: the type and the stamp of empty slots
Flushed(t) == [m \in Slot |-> IF IsUsed(t[m]) THEN t[m]
                              ELSE [t[m] EXCEPT !.type = FALSE, !.status = Wild, !.stamp = -1]]

\* What a start may find: a file that is whole leaves nothing open.
Loads(f) == {Flushed(Load(f, g)) : g \in IF f.tear = Full THEN {Wild} ELSE Status}

\* The last record of the file was cut in its slots, and is not that of the slot behind
\* the one of the record before.
TornGap(f) == LET k == Len(f.recs)
              IN  k > 1 /\ f.tear < RecordLen /\ f.recs[k - 1].slots[1].id # f.recs[k].slots[0].id

\* The process dies, or the power fails, and starts again; what had not reached the file
\* is lost.
Restart ==
  /\ ustamp' = -1 /\ reset' = 0 /\ bk' = 0
  /\ \/ bk = 0 /\ UNCHANGED <<file, kept, cut>>
     \/ /\ bk # 0 /\ cut' = TRUE /\ kept' = <<>>
        /\ \/ file' = EmptyFile
           \/ file' = [file EXCEPT !.recs = <<>>]
           \/ \E k \in 1..Len(file.recs), t \in Tears :
                file' = [file EXCEPT !.recs = SubSeq(@, 1, k), !.tear = t]
  /\ znodes' \in Loads(file')
  /\ torn' = (torn \/ TornGap(file'))

Next == \/ \E d \in Dev, v \in Value : Stat(d, v)
        \/ \E d \in Dev, s \in Stamp, v \in Value : ReqSync(d, s, v)
        \/ \E d \in Dev : DelZnode(d)
        \/ \E s \in 0..MaxStamp : RootSync(s) \/ AckStamp(s)
        \/ ResetAlarm \/ BakupStart \/ BakupSlot \/ BakupEnd \/ Restart

Spec == Init /\ [][Next]_vars

--------------------------------------------------------------------------------
Records == {r \in [slots : [0..(Spill + 1) -> Znode], status : Status] : IsUsed(r.slots[0])}
File    == [cnt : 0..ZnetSize, recs : Seq(Records), tear : 1..Full]

TypeOK == /\ znodes \in [Slot -> Znode] /\ ustamp \in Stamp
          /\ reset \in 0..ZnetSize /\ bk \in 0..(ZnetSize + 1) /\ file \in File
          /\ Len(file.recs) <= IF bk # 0 THEN bk - 1 ELSE ZnetSize
          /\ cut \in BOOLEAN /\ torn \in BOOLEAN
          /\ (bk # 0 => ~cut) /\ (~cut => file.tear = Full)

\* No device is in two slots, not even as the id of an empty one, so that each report, sync
\* and delete finds the one; and a slot in use is a device's.  A start from a record that
\* was cut behind a free slot may break it.
UniqueIds == ~torn => /\ \A m, k \in Slot : znodes[m].id # NoDev /\ znodes[m].id = znodes[k].id => m = k
                      /\ \A m \in Slot : InUse(m) => znodes[m].id # NoDev

\* An alarm about to be cleared has not lost its slot.
AlarmInv == reset # 0 => InUse(reset) /\ znodes[reset].id \in Alarm /\ znodes[reset].status # Wild

\* No device is in two records, nor does a record spill one that it or an earlier holds;
\* what two records of slots next to each other both hold is the same; and a restart that
\* reads a record torn behind a free slot has been noted.
FileInv == ~torn =>
  /\ ~TornGap(file)
  /\ \A i \in 1..Len(file.recs) :
       LET rec == file.recs[i].slots
       IN  /\ \A q, r \in 0..(Spill + 1) : rec[q].id = rec[r].id /\ rec[q].id # NoDev => q = r
           /\ \A j \in 1..(i - 1), q \in 0..(Spill + 1) : rec[q].id # file.recs[j].slots[0].id
           /\ \A q \in 0..(Spill + 1) : IsUsed(rec[q]) => rec[q].id # NoDev
           /\ i > 1 /\ file.recs[i - 1].slots[1].id = rec[0].id =>
                \A q \in 0..Spill : file.recs[i - 1].slots[q + 1] = rec[q]

\* A backup has written the slots in use of those behind it, in order and as they are.
Used(p)  == Cardinality({k \in 1..p : InUse(k)})
BakupInv == bk # 0 =>
              /\ kept = Devices /\ file.cnt = Used(ZnetSize) /\ Len(file.recs) = Used(bk - 1)
              /\ \A i \in 1..Len(file.recs) :
                   \E p \in 1..(bk - 1) : InUse(p) /\ Used(p) = i /\ file.recs[i] = Record(p)

\* With no backup on its way, the file of one that ended holds the devices of it.
RestInv == bk = 0 /\ ~cut /\ ~torn =>
             DevicesOf(Flushed(Load(file, Wild))) = kept

TableInv == TypeOK /\ UniqueIds /\ AlarmInv /\ FileInv /\ BakupInv /\ RestInv

\* The case that src/doc/sync.proc excludes: equal stamps, and the server's status counts.
EqualStamps == \E d \in Dev, s \in Stamp, v \in Value :
                 ReqSync(d, s, v) /\ \E m \in Has(d) : znodes[m].stamp = s

\* Slots and searches are a registry of devices: every message is one change of it, as
\* sync.proc describes it but for equal stamps.
Registry == INSTANCE DeviceRegistry WITH reg <- Devices, Size <- ZnetSize
ImplementsRegistry ==
  /\ Registry!Init
  /\ [][~torn => UNCHANGED <<Devices, ustamp>> \/ Registry!Next \/ EqualStamps \/ Restart]_vars

\* A start after a backup that has ended finds every device of it, with its status and
\* its stamp.
RestartRestores == [][bk = 0 /\ ~cut /\ ~torn /\ Restart => Devices' = kept]_vars

\* A device has a status of its own: one that it has reported, or that the server knew
\* of it.
OwnStatus == \A m \in Slot : InUse(m) => znodes[m].status[1] = znodes[m].id
================================================================================
