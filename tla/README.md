# TLA+ of the smart_tuwa gateway

This directory holds a TLA+ development of the home gateway daemon `twrt`
(`src/twrt/src`): modules translated from its C sources, TLC configurations that
check them on small instances, and theorems about them that TLAPS checks for every
value of the constants. `PROJECT.json` lists the runs, the mutants that show that
each property can be broken by a plausible bug, the source lines of every
definition, the hazards of the code, the findings and the theorems.

To check: `tlc -config MCSession.cfg MCServerSession` (each run names its module and
its configuration), `tlapm ByteStreamProofs.tla`.

## 1. The system

The daemon runs on a router between three kinds of peers: a ZigBee coordinator on a
serial line, behind which the home's devices ("znodes") are; one cloud server over
TCP; and up to three local users over TCP, usually phones. All three speak the same
framed messages (`proc.c`). The process has these threads, all in `twrt.c`:

| thread | what it does |
|---|---|
| `main` | connects to the server, asks for the license and the stamp, once a second |
| `run_client_rx` | `recv` on the server's socket, parses, puts into `msg_q_rx` |
| `run_sys_msg_rx` | takes from `msg_q_rx`, `handle_msg_rx` |
| `run_sys_msg_tx` | takes from `msg_q_tx`, routes to the server (a thread `run_client_tx` per message, joined) or to the serial line |
| `run_serial_rx` | reads the serial line, parses, puts into `msg_q_rx` |
| `run_sys_ptask` | timers: expire requests, pulse, watchdog, device sync, serial stall, backup |
| `run_localhost`, `run_localuser_rx` | accept local users; per user `recv`, parse, `handle_local_message` |

`mut_msg_rx` and `mut_msg_tx` guard the message queues. Nothing guards the rest of
what the threads share: `sys.server_status`, `sys.lic_status`, the timers,
`client.fd`, the device table, the scenes, the installs, the local users and the
ring of the serial line.

### Components, their state and what makes them right

| component (source) | state | operations | correct when |
|---|---|---|---|
| Byte ring buffer (`buffer_ex.c`) | cells, `p_c`, `p_rw`, `overflow` | create, flush, put, get, read, getlen | it is a byte queue that forgets its oldest byte when full |
| Message queue (`proc.c` 236-420) | a doubly linked list, a put and a get pointer | put, get, getlen, find_stamp, del_stamp | it is a lossless FIFO; deletion removes exactly one stamp's messages; no freed node is used |
| Server session (`twrt.c` `main`, client, msg and ptask threads; `simple_inet.c`) | status of connection and license, stamps, timers, three queues, the socket | connect, license, stamp, pulse, expiry, watchdog, disconnect | nothing but the license request goes out before the license; requests are told apart; the session comes up again after a lost connection or a silence |
| Message framing (`proc.c` 116-206) | a ring per byte source | bytes2message, message2bytes | every frame in the stream is delivered once, in order, and the parser resynchronises |
| Serial link (`twrt.c`, `simple_serial.c`) | the port, `buff_serial`, the stall timer | rx, tx, reopen, flush | as for framing, with a flush from another thread |
| Device table (`sys.c` 5-109, 394-424; `twrt.c`) | `sys.znode_list`, `sys.u_stamp` | report, sync, stamp, delete | no device in two slots; a status belongs to its device; stamps decide which status is newer |
| Backup of the device table (`sys.c` 980-1081) | `FILE_ZNET_BAKUP` | backup, restore | a restart finds what the last complete backup held |
| Scenes (`sys.c` 564-785) | `sys.sces`, `FILE_SCENE` | edit, delete, save, load; find, trigger, learn | one scene per pair of host ids, no gaps, a saved file restores them |
| Install list (`sys.c` 427-562) | `sys.znode_install_list`, `FILE_INSTALL` | edit, delete, save, load | the same, within the array |
| Local users (`sys.c` 123-263, `twrt.c` 511-760) | three slots | accept, login, evict, timeout, delete | a slot belongs to one connection; a message acts for the user who sent it |
| Gateway configuration (`gw_control.c`) | password, license, AP and station files | get, set, reset | a key is replaced only by who names it |
| Start-up (`config.c`, `utils.c`, `string_ex.c`) | none of its own | parsing | - |
| Shell scripts, UDP broadcaster, Android client, test bed | outside the daemon | - | - |
| Older variants (`twrt_db.c`, `twrt_scene_db.c`, `test.c`, `playground.c`) | not in the daemon's Makefile | - | - |

How they interact: bytes reach a ring, the parser turns them into messages, the
messages go through `msg_q_rx` to `handle_msg_rx`, which changes the tables and
puts answers into `msg_q_tx`; requests sent to the server wait in `msg_q_tx_req`
for their answer, found by stamp. Timers of `ptask` act on all of it. A local user's
message is handled on that user's thread, on the same tables.

### What is hard here

- **Interleaving without locks.** Four threads call `on_inet_client_disconnect`;
  the license is checked by one thread and the message sent by another; a socket
  number is read and used later, on whatever connection it has become.
- **Time.** Requests expire while their answers are on the way; the watchdog
  compares with a timer that another thread sets a little later.
- **Restarts.** Saves empty the file before they write; a crash leaves a prefix, which may end
  within a record, and what reads it back does not notice.
- **Arrays without a length.** Every loop stops at the first unused slot, while a
  delete opens a gap and closes it in steps; searches in a full array end outside or
  at the wrong slot.
- **Errors nobody looks at.** A failed `socket()` leaves -1 where the next call expects a
  descriptor; a command for a device is gone when the port is off; the port's settings change
  bytes of a binary protocol.
- **Pointers into lists.** `message_queue_del_stamp` stores the end of its scan into
  the get pointer.

`PROJECT.json` lists these as hazards with their lines and the properties for them.

## 2. Modules

| module | models | composes |
|---|---|---|
| `ByteQueue` | abstract: a bounded byte queue that forgets the oldest byte | |
| `RingBuffer` | `buffer_ex.c`, one step per turn of a loop | refines `ByteQueue` |
| `Fifo` | abstract: a queue of messages | |
| `MsgQueue` | the linked list of `proc.c` on a heap of nodes | refines `Fifo`, until a deletion |
| `MsgQueueProofs` | three theorems | |
| `Framing` | `bytes2message` and the three loops that feed it; the serial port | over the byte queue that `RingBuffer` implements |
| `ByteStreamProofs` | one theorem about `Framing`, three about `RingBuffer` | extends both |
| `ServerSession` | the six threads of the session, the server, the network and the clock | uses what `MsgQueue` shows: FIFOs, and what `find_stamp` and `del_stamp` do |
| `ServerSessionProofs` | four theorems | |
| `Selection` | choosing elements of a sequence by their places | used by `ServerSession`, `SceneStore`, `InstallStore` |
| `SavedList` | abstract: a list of entries, edited in memory, saved and reloaded | |
| `SceneStore` | `sys.sces` and its file | refines `SavedList` |
| `SceneStoreProofs` | three theorems | |
| `InstallStore` | `sys.znode_install_list` and its file | refines `SavedList` |
| `InstallStoreProofs` | four theorems | |
| `DeviceRegistry` | abstract: the known devices, their statuses and stamps | |
| `DeviceTable` | `sys.znode_list`, its messages, backup and restore | refines `DeviceRegistry` |
| `DeviceTableProofs` | four theorems | |
| `SceneControl` | panels, sensors, lights and the fan: learning and playing scenes | uses the list that `SceneStore` shows `sys.sces` to be |
| `SceneControlProofs` | one theorem | |
| `LocalUsers` | the three slots, `run_localhost`, a thread per user, the broadcast of `run_sys_msg_rx` | |
| `LocalUsersProofs` | one theorem | |
| `MC*` | constants and symmetry for TLC | |

### RingBuffer

Pointers are offsets: `p_head` is 0, `p_tail` is N - 1. `Put(bytes)` and `Get(len)`
are the calls; `PutTurn` and `GetTurn` are one turn of their loops, so that a
property that only holds between calls would be seen to fail within one. The ring has
one thread here: `buff_client` and the users' rings have one; that `buff_serial` is also
flushed by `ptask` is in `Framing`, a whole turn of a loop at a time. The module's
names are its own (`RingInit`, `RingSpec`), so that `ByteStreamProofs` can extend it
beside `Framing`. `ReadCell` is the index arithmetic of `buffer_ring_byte_read`, which
the parser uses to look at a frame before it takes it.

### MsgQueue

Nodes are addresses; `prev`, `next` and `msg` are the heap; `alive` is what is
allocated. `q` and `q_h` are the two pointers `twrt.c` keeps per queue. A call holds
the queue's mutex, so a call is a step. `Sound` says what a call may touch; a call
that would reach a freed node sets `broken`, after which no property says anything.
`Spec` has `Put`, `Get` and `DelStamp`; `FindStamp` only reads. `pure` says that nothing has been
deleted yet: this is all of the life of `msg_q_rx` and `msg_q_tx`, and `LosslessFifo` says
that the list then refines `Fifo`. After a deletion, as in `msg_q_tx_req`, the get pointer
is elsewhere and only `QueueInv`, `FindStampBounds` and `DelStampExact` are claimed.

### Framing

| code | actions |
|---|---|
| `bytes2message`, proc.c 116-184 | `Scan` (no header at the head), `Wait` (too short), `Peek`, `Take` (the fixed part), `Data` |
| `run_serial_rx` 203-243, `run_client_rx` 294-332, `run_localuser_rx` 578-665 | `Read`, `PutByte`, `ReadNothing`, `ReadError`, `ReadClose`; `kind` says which |
| `run_sys_ptask`, 828-840 | `PtLook` (once a second), `PtFlush` |
| `run_serial_tx`, 245-292 | `TxStart`, `TxWrite`, `TxClose`, `TxOff` |
| `main`, 119-128, `serial_open` | `MainOpen`, `MainOn` |
| coordinator, server, application, network (external) | `Send`, `Lose`, `Noise`, `Cut`, `PortFails` |

A symbol carries, beside its value, the frame and the place in it that it is from, which the code
does not see: `FrameOf` then tells whether a message is a frame that was sent, and which.
`serial_open` sets ICRNL (simple_serial.c:32), so a `Read` of the serial line turns every symbol
of value `Cr` into `Nl`, in data, ids and lengths alike (`Icrnl`); such a symbol is no part of its
frame any more. The other two connections change nothing. `bytes2message` is cut at each access to
the ring, because `ptask` may flush between two of them: a get of more than there is leaves the
buffer as it was. `spoilt` counts what the gateway itself spoils (a flush of a ring that is not
empty, a symbol overwritten or altered), `faults` what goes wrong outside.

### SceneControl

| code | actions |
|---|---|
| DATA_STAT of a panel, 985-1204 and 1866-2017 | `Press` (a key at THEME_CTRL plays its scene), `Learn` (a key at THEME_LEARN takes a snapshot) |
| DATA_STAT of a sensor, of another device | `SensorStat`, `LightStat` |
| DATA_CTRL, DATA_SCENE_CTRL | `Ctrl`, `SceneCtrl` |
| DATA_SET_SCENE, DATA_DELETE_SCENE | `SetScene`, `DeleteScene` |
| `run_sys_msg_tx`, 462-474, with `run_serial_tx`, 245-292 | `Deliver`, `Discard` |
| a hand at the switch (external) | `Switch` |

The code has each handler twice, for the server and coordinator and for the local users;
`direct` is TRUE for the first, and says what differs: who gets the fan's item, whether the
fan is in a snapshot, and whether the panel gets an answer. `learnt` and `goal` remember what
a key was taught last and what the last scene played is to bring about. A command for which the
port is off, or which finds it broken, is taken from the queue and not sent again (`Discard`):
what was to come about for that light is then not expected any more, unless a later command for
it is in the queue. The state of the port is `Framing`'s; here it may be off at any time. What
has been written is assumed to reach the light.

### LocalUsers

| code | actions |
|---|---|
| `localuser_delete`, sys.c 146-152 | `DelClose`, `DelUnset`, `DelDone`, by any thread |
| `run_localhost`, twrt.c 543-561 | `Accept`, `AcceptFails`, `Login` (one slot per step), `Start`, `Evict` (one slot per step) |
| `run_localuser_rx`, 578-681 | `RxRecv`, `RxEof`, `RxData` with `RxNothing`, `RxAuth`, `HandleLocal`; `PutTx`, `GetInstall` when it needs `mut_msg_tx` |
| a message to a user, 607-608, 743-798 | `Spawn`, `Join`, `Sent` |
| `run_sys_msg_rx`, 953-984 | `HubTake`, `HubPut`, `HubTurn` |
| the application (external) | `HangUp` |

A step is one access to what the threads share. A connection and its thread have one number;
a descriptor is a small number that `accept` hands out again, so that a thread of a user who
was evicted may close, or read from, the connection of the next. `foreign` says that another
than a slot's own thread has begun to delete it; `clash` that one thread has joined another's
sender, which has no defined outcome and ends the model.

### ServerSession

A step is a critical section of one mutex or one access to the state that is shared
without one; `pc` says where a thread is between two of them.

| code | actions |
|---|---|
| `main`, twrt.c 116-198 | `MainConnect`, `MainConnectFails`, `MainArm`, `MainReadLic`, `MainPutAuth`, `MainPutStamp` |
| `on_inet_client_disconnect`, 388-423 | `Disconnect1`, `Disconnect2`, for four callers |
| `inet_client_close`, simple_inet.c 40-64 | `Disconnect3` (`close`), `Disconnect4` (`socket`) |
| `run_client_rx`, 294-332 | `RxTurn` (the status is read), `RxRecv`, `RxNothing` |
| `run_sys_msg_rx`, `handle_msg_rx` | `MsgRx` with `HandleAckAuth`, `HandleAckStamp`, `HandleAckPulse` |
| `run_sys_msg_tx`, `run_client_tx`, 334-505 | `TxPop`, `TxRoute` (status), `TxGate` (license), `TxSend` |
| `run_sys_ptask`, 800-889 | `PtExpire`, `PtReport`, `PtWatch` |
| server, network, clock (external) | `SrvAnswer`, `SrvPulse`, `LoseConnection`, `LongSilence` |

`sock` says what `client.fd` is: a socket, a number that has been closed, or -1 (`"none"`).
`close` fails unless it is a socket, and `inet_client_close` then returns without a new one:
of two threads that disconnect at once one may so leave with the other's socket still to come,
and after one failed `socket()` no socket is ever made again.

The queues are sequences. `msg_q_tx_req` keeps two flags of its pointers:
`head_moved` (the get pointer is at the last node) and `tail_freed` (the put pointer
is at a freed one); a step that uses a freed node ends the model (`run = "ub"`).
`main` returns when the license is INVALID (`run = "exited"`). Time is not counted:
`silent` says that TIMER_PULSE_ACK has passed, and a request may expire at any time,
or, when `Prompt`, once nothing of it is in flight.

### SceneStore and InstallStore

A message is its search with the write it leads to; a delete is then one `Shift` per
slot it moves, and a save one `Save` per record, so that a restart may fall between
any two. `Restart` cuts an unfinished file at any record (`stdio` had not flushed the
rest); a scene's record has several parts, so a scene may also come back with zeros
for its items. `NullId` are the zeros of an unused slot, which a message may carry
too. A scene of type 0 is written but not in use; the types above 0 are alike. In
`SceneStore` a new scene in a full array replaces the last (`Displaces`); in
`InstallStore` a full array makes the code write in front of it or read behind it:
the model then sets `strayed` and stops.

### DeviceTable

A slot is its fields in the order of their memory: `id`, `type`, `status_len` (of these two,
whether they are zero), `status`, `u_stamp`. One step per message, except that DATA_STAT clears an
alarm in a second step (`ResetAlarm`), as it does after its sends. The searches for an id do not
ask whether the slot is in use, and DATA_DEL_ZNODE may so find an empty slot that kept an id.

The backup is `BakupStart`, one `BakupSlot` per slot, and `BakupEnd`, the `fclose`. A record is
`sizeof(znode_install)` bytes of `znode_list`, that is the slot, the next `Spill` whole ones (2
with the router's 32-bit layout) and the head of one more, and a restore writes over them too.
`stdio` writes in blocks of 4096 bytes, whose ends do not fall between records: an unfinished
backup may end after any field of a record, or within its id or its status (`tear`, from the set
`Tears`). `Load` keeps what `fread` has stored of such a record over what the records before have
spilled there (`Over`, `Written`), since its result is only compared with `< 0`, and takes the
status that was read before; which one that is is open when there was none, or only part of one.
Half an id over another id is taken for the id of no device. `Flushed` is what the rest of
`sys_init` does to empty slots.

A record of a slot behind a free one, cut within what it holds of slots, can leave one device
in two slots: its own, and the one the record before has spilled it to. `TornGap` is this case and
`torn` remembers it; nothing is claimed after it. A status carries the device it is of, so that a
status in the wrong slot can be seen; `Wild` is a pointer that a restart read from the file, and
the model does not follow the program once it is used. `Overlap` says whether messages are handled
during a backup. `DeviceRegistry` follows `src/doc/sync.proc`, where a status with an equal stamp
changes nothing; `ImplementsRegistry` names the one step in which the code does otherwise
(`EqualStamps`).

## 3. Runs

| run | instance | shows |
|---|---|---|
| `ring_buffer` | N = 3, two byte values, puts of up to 4 | `RingInv`, `ReadPeeks`, refinement of `ByteQueue` |
| `msg_queue` | 4 nodes, 3 stamps, symmetric | `QueueInv`, `FindStampBounds`, `DelStampExact`, refinement of `Fifo` until a deletion (`LosslessFifo`) |
| `session` | queues of 2, one fault, both verdicts, repeated answers | `TypeOK`, `NothingBeforeLicense`, `StampsIncrease`, `AckCountsOnce` |
| `session_live` | queues of 2, two faults, stamps that wrap, prompt server | `Established` |
| `unauthed_send` | as `session` | violation: `StoppedUnlessAuthed` |
| `scene_store` | 3 slots, 4 ids, 2 bodies | `SceneInv`, `FileIsSaved`, refinement of `SavedList` |
| `install_store` | 3 slots, 4 ids, 2 bodies | `InstallInv`, `FileIsSaved`, `StraysOnlyWhenFull`, refinement of `SavedList` |
| `device_table` | 3 slots, 3 devices (all alarms), one value, `Spill` 1, stamps -1 and 0, three places to tear a record, symmetric, until `torn` | `TableInv`, refinement of `DeviceRegistry`, `RestartRestores` |
| `own_status` | 2 slots, 3 devices, 2 values, `Spill` 2, with `Overlap` | violation: `OwnStatus` |
| `framing` | a ring of 5 symbols, reads of 2, two frames with data `<<Cr>>`, `<<0, Cr>>` or `<<Header, 0>>`, one fault | `FramingInv`, `SerialDrains`, `PortReopens` |
| `scene_control` | 2 scenes, a panel with two keys, a sensor, a light, the fan, 3 scenes of an app, a queue of 2 | `ControlInv`, `Restores` |
| `local_users` | one slot, two connections, two descriptors | `UsersInv`, `HungUpLeaves`, `LoginEnds`, `BroadcastEnds` |

Why the bounds are enough:

- *Ring.* Three cells are a first, an inner and a last one. A put of four is longer
  than the ring, so a put laps both pointers; every pair of pointers, with and
  without overflow, is reached.
- *Queues.* Four nodes make lists of a first, inner and last node, plus a spare one
  that `calloc` may hand out again. Three stamps allow a deletion at each place. A
  node that is not free cannot be put, so puts wait: this bounds `MSG_Q_MAX_LEN`,
  which the code never enforces either.
- *Session.* Two requests (license and stamp) are all that can be outstanding with
  distinct purposes; two places per queue let one overtake nothing but be followed
  by another. One fault takes the session down, in any state, and every thread may
  be inside the old connection while the new one comes up; in `session_live` a second one may
  fall into that repair, and be a failed `socket()`. `StampMod` = 5 gives
  three stamps before the wrap in `session` (`Wraps` = FALSE, for order is a
  property of stamps that have not wrapped); with 3 they wrap in `session_live`.
  The handler needs two free places in `msg_q_tx`, hence `MaxTx` = 2.
- *Scenes, installs.* Three slots have a gap with slots on either side; three ids and
  the zero id overfill them. Two bodies tell an old entry from a replaced one and
  from zeros.
- *Framing.* The longest frame is four symbols, so a ring of five holds one and a part of the
  next, and a read of two cuts frames anywhere. `Cr` is 1, so that the port alters data and the length of a
  frame with one symbol of data. One symbol lost, added or cut off leaves half
  a frame in front of a whole one; data that hold a header let the parser start inside a
  frame. Three looks of `ptask` are needed for a flush, at any point of the parse.
- *Scene control.* Two scenes for two keys and three of an app overfill the list; one light
  and the fan tell the two ways an item goes. The queue holds one scene, so that commands for
  the same light wait behind one another.
- *Local users.* With one slot every second user evicts the first, whose thread lives on; two
  descriptors let the old thread meet a reused one. The descriptor that `GET_INSTALL` and the
  broadcast send to is then the same, which is the case where they wait for each other.
- *Devices.* Three slots have a free one between two in use, and a record spills to the next slot
  or past the end. A record is torn in its own slot behind `status_len` (4), in the slot it spills
  to (8), or between two records (15, `Full`). Two stamps tell a newer status from an
  older one. One value is enough for the table, since a status carries its device; `own_status` has
  a full table of two slots with two values. Longer tables, other tears and other statuses are
  the theorems'. The run does not follow a table after `torn`, since nothing is said of it then.

Deadlock is checked except where the process may really stop or wait for good: `session*`
(`main` returns, or freed memory was used), `msg_queue` (a freed node was used),
`install_store` (strayed), `local_users` (clash, or nobody connects any more) and `framing`
(the peer is silent).

### Fairness

Each of the four modules with liveness has a `LiveSpec`. In `ServerSession` the threads are
endless loops that the scheduler does not starve, so `Main`, `ClientRx`, `MsgRx` and `MsgTx` are
taken again and again. `Main` has strong fairness, because under `Prompt` a report in `msg_q_tx`
puts off its turn, which in the code comes once a second in any case; the others have weak
fairness. A timer that is over is seen by `ptask` in its next cycle (`PtExpire`, `PtWatch`, weak),
and a thread that disconnects goes on (`Disconnect`). The server answers what it has received
(`SrvAnswer`); it is not assumed to send pulses, nor that the network loses nothing: faults are
free to happen up to their bound, and no fairness forces them.

`session_live` also assumes `Prompt`: the server answers a request once and within
TIMER_REQ (two seconds), and what takes milliseconds is done before the next turn of
`main` or `ptask`, which sleep a second between turns. Without it a server that
always answers late never establishes a session, which is no fault of the gateway.
`Established` says nothing once the process has ended (`run # "up"`; the
verdict is fixed to TRUE there, so this is only the freed-memory case), nor after a `socket()`
that failed (`sock = "none"`): the code never recovers from that (section 5).

In `LocalUsers` no thread that can go on is starved, a mutex that is let go again and again
is got in the end (strong, for the two steps that take it), and a peer that is sent
something reads it or hangs up. Nobody need connect, send or hang up, and nothing need be
taken for a timeout. All three properties end at `clash`.

In `Framing` each thread goes on; nobody need send anything, to or from the gateway. A port
that hangs gives no error: only a write finds it out, or a read when an older `errno` is left,
so `PortReopens` promises a new port after an error, and after a hang-up only if something is
written. In `SceneControl` the queue is served (`Deliver` or `Discard`) and a light whose status is
not the known one reports (`LightStat`); nobody need press, set or switch anything, and the port
may be off for ever: `Restores` says nothing of a run in which commands are discarded again and
again.

## 4. Proofs

Every theorem holds for every value of the constants under the named ASSUME of its
module (positive sizes, types, "the zeros are a value", "nobody is not a panel"); TLC
evaluates these on each run. Five have a hypothesis more, `~Wraps` (session) or
`~Overlap` (devices), which is explained below. The proofs of `[]Inv` all go the same way:
an invariant that implies `Inv` holds at the start and is kept by every action, one lemma
or step per action.

| theorem | says | the inductive invariant |
|---|---|---|
| `RingSafe`, `ReadIsPeek` | `[]RingInv`, `[]ReadPeeks` | `RingInv`: `PointerOrder` alone is not inductive, a get in progress must be known to have its bytes (`LenCoversGet`) |
| `RingImplementsByteQueue` | `ByteQueue` is implemented | the same; contents are compared cell by cell (`ContentsCells`) |
| `FramesSafe` | `[]FramingInv` | `IInv`, see below |
| `QueueSafe` | `[]QueueInv` | `ChainInv`, see below |
| `QueueIsFifo` | `Fifo` is implemented until a deletion | the same |
| `FindStampSafe` | `[]FindStampBounds` | the types |
| `SessionTypeOK` | `[]TypeOK` | `TypeOK` |
| `LicenseFirst` | `[]NothingBeforeLicense` | `SessionInv`: the property already speaks of every place an acceptance can be (the connection, `msg_q_rx`, `lic_status`, the message behind the gate), so the types of those places are all it needs |
| `StampOrder`, `AckOnce` | `[]StampsIncrease`, `[]AckCountsOnce`, while the counter has not wrapped | `Order`: the requests outstanding and those still to be sent are each in the order of their stamps, the first before the second, all below the next stamp, and a stamp that was answered is that of none of them |
| `SceneSafe`, `InstallSafe` | `[]SceneInv`, `[]InstallInv` | themselves: `NoGap` and `UniqueIds` need `HandlerInv` (the slot in front of the shift is the only gap; the save has written exactly the slots behind it), a restart needs `FileInv`, because the next array is the file |
| `SceneSaved`, `InstallSaved` | `[]FileIsSaved` | with the former |
| `StraysFull` | `StraysOnlyWhenFull` | `InstallInv` |
| `SceneImplementsList`, `InstallImplementsList` | `SavedList` is implemented | the former; `NoGap` gives `ListForm`: the k-th entry is in slot k, or in the next from the gap on |
| `TableTyped` | the types, and that the alarm to be cleared is in its slot, also with `Overlap` | `Typed` |
| `TableSafe` | `[]TableInv`, without `Overlap` | itself: `UniqueIds` goes through a restart, also from a torn file, by `FileInv` (what two records of adjacent slots both hold is the same), that by `BakupInv` (the records are those of the slots in use up to `bk`), and a completed file by `RestInv` |
| `BakupRestored`, `TableImplementsRegistry` | `RestartRestores`; `DeviceRegistry` is implemented but for `EqualStamps` | `TableInv` |
| `UsersSafe` | `[]UsersInv` | `UsersInd`, see below |
| `ControlSafe` | `[]ControlInv` | `ControlInd`: with `Blank`, that a slot not in use is mistaken for no scene by its ids or the mac of a panel, which is what the search by mac relies on |

**Framing.** `FramingInv` speaks of the messages queued and not of what is in the ring, so it
is far from inductive. The proof looks at everything that is still to be parsed as one stream
`C`: what has been taken of the current message (`Ahead`), the ring, the put in progress, the
line, and the first symbol of the frame that will be sent next. `IInv` is `TypeOK`, what the
reading thread holds between two steps (`Hand`) and, for `C`, that there are lengths of the
frames sent and a function `f` along it such that

- it is `Legal`: symbols are in the order they were sent, any of them may be missing and noise
  may be between them, and a symbol that is the header or the length of its frame says what
  the peer wrote;
- no frame that is already queued, or an earlier one, has a symbol in it;
- it `Covers` the wrong messages to come: `f` falls at every break and at every header inside of
  data, where a message that is no frame may begin; the wrong messages queued and `f[1]` are
  together at most the breaks and headers there have been;
- as long as there was no break it is `Tidy`: it goes on with the frame after the last queued.

Each action of the line or the gateway is then one of three changes of a stream: a part is cut out
(`CutLegal`, `CutCovers`: a loss, a flush, a symbol scanned or overwritten), noise comes in (also
in the place of a symbol that ICRNL alters), or a frame is added at the end (`SentLegal`,
`SentCovers`); `ChainTaken` is the message that is taken. The flush of `ptask` between `Peek`,
`Take` and `Data` is why there is `Short`: the fixed part is still to be put into a message whose
data are gone, and has been paid for. `FramingAssumption` asks two things of the frames sent: that
with one more read each fits the ring (20000 bytes; reads of the server's connection bring 255),
and that a length is not the header (nor are `Cr` and `Nl`): it has two bytes, and the header
four. That a length of 16705 is "AA", and with data that begin with "DD" makes "AADD", is left
out.

**Message queue.** `PointersAtEnds` follows links with `Walk`. `ChainInv` says the same of a
sequence that exists: the nodes of `Chain` are linked both ways and are the allocated ones,
`q_h` is the first, `q` the last. Put and get change one end of it. That `Walk` computes that
sequence, for every number of nodes, is an induction over its steps; it is done as a least
counterexample (`Least`, from the well-foundedness of `<`), the form of induction that needs
no operator as a parameter. `pure` stays as the guard: after `message_queue_del_stamp` the
pointers are elsewhere, which is what the code does. `FindStampSafe` needs no chain: it counts along
whatever list the get pointer is left on.

**Local users.** `UsersInv` says that a slot in use is attended and, while each slot was deleted
by its own thread only (`foreign = 0`), that connections are not lost. `UsersInd` adds where each
thread can be (`ThreadInv`), that the connection being let in has no thread yet (`HostInv`),
that the last thread of a slot has worked at no other (`SlotInv`), that a connection is behind
one descriptor (`FdInv`), and, under `foreign = 0`, that a thread serves the slot it was made
for until it clears it (`OwnInv`).

**Hypotheses.** `~Wraps`: the stamp has 32 bits; once it has come round a request can share one
with another that is still waiting, and both properties fail, so they are about the time before.
`~Overlap`: no message is handled between two records of a backup. The code does not exclude it
(section 5 says what then happens), so `TableTyped`, with no hypothesis, says what is left. Nor do
these theorems speak of a table after a start that read a record torn behind a free slot (`torn`):
a device may then have two slots; and `RestartRestores` is about a backup that came to its end
(`~cut`). `FramesSafe` counts a symbol that ICRNL altered as one that is missing from its frame:
on the serial line frames with a byte 13 are therefore among those of which it only says that each
wrong message has its cause. `MessageAssumption` says which messages an app may send: scenes that
are in use; scenes of type 0 are in `SceneStore`. `InstallSafe` and what follows from it are about
the code up to the step that leaves the array, with which the model ends.

To be within the provers' reach, three definitions choose elements by their places
(`Selection`) instead of with `SelectSeq`; what `Selected` returns is proved from the
cardinality of sets of places.

Only model-checked:

- `DelStampExact`: it compares with `SelectSeq`, whose recursion the provers do not see, after
  a loop over a list the get pointer may be anywhere in.
- `Established`, `SerialDrains`, `PortReopens`, `HungUpLeaves`, `LoginEnds`, `BroadcastEnds` and
  `Restores`: liveness under fairness (and the ENABLED that fairness stands for) is out of
  the prover's reach.
- the two violations of section 5, which are counterexamples.

## 5. What the checks found

With a run:

- **Messages reach the server on a connection it has not accepted** (twrt.c:478;
  twrt.c:178 "communication to server will be stopped"). The gate reads `lic_status`,
  the send comes later, and a late acknowledgement makes the status VALID after the
  disconnect has reset it. `NothingBeforeLicense` is what does hold, and is proved:
  there has been an acceptance at some time.
- **A restore from a short backup mixes up devices** (sys.c:1068): `fread` is never
  negative, so the loop goes on with the status read before, and keeps the part of a record
  it has read (sys.c:1064).

Seen while modelling, without a violation run of their own:

- `find_stamp` overlooks the last of several requests (proc.c:383; proc.h:284 "find if stamp is
  in the queue"): `main` asks it whether its request for the license is still outstanding
  (twrt.c:181) and queues a second. `FindStampBounds` shows that this is the only error it
  makes, as long as no freed node is reached.
- `del_stamp` moves the get pointer to the newest request (proc.c:363; proc.h:276 "get one
  message from the head of the queue"): the next get takes the newest and frees a node that
  others still point at. `QueueInv` follows the queue up to there.
- A key that is taught while an app has set a scene under the panel's id and another mac is
  stored in the app's scene, and not found by the key again (twrt.c:1049; `Mislaid`).
- Of several scenes with one trigger the last is played (sys.c:921: the `break` leaves only the
  search within a scene). The fan's item goes to the coordinator, not to the fan, for a trigger
  and for a panel that a local user reports for (twrt.c:1216, 1887). Eight bytes of a status
  are compared with a scene's, also when the device has sent fewer.
- `run_serial_rx` looks at `errno` also when `read` has returned 0, which does not set it
  (twrt.c:228). `ptask` counts a ring as stuck when it has three times the same length, though
  not in a row: `cnt` is kept when the length changes (twrt.c:830-840). After a partial write
  `run_serial_tx` writes `len` bytes again, not `len - pos` (twrt.c:259).
- A thread may join the sender of another: both use `usr->thrd_tx` (twrt.c:972). GET_INSTALL of
  the whole list holds `mut_msg_tx` while it sends (twrt.c:2241-2256), so one user who does not
  read stops every thread that has a message for the server; `BroadcastEnds` rests on him
  reading or hanging up.
- DATA_GET_SCENE of one scene puts `msg_tx` in the queue before it is assigned (twrt.c:1682).
- MSG_Q_MAX_LEN (proc.h:259) is not looked at: the queues have no limit.
- `set_password` and `set_lic` compare first and write later, and empty the file in between:
  of two sets of one key the second may replace a key it does not name (gw_control.c:69).
  DATA_SET_LIC changes the file and `sys.lic` (twrt.c:2538 "update sys lic"), but `main` sends
  the message it has made at the start (twrt.c:110), until a restart.
- A write that fails is never noticed when the access point or the station is set
  (`w_res < 0`, gw_control.c:178 and after, of a `size_t`), and `reset_ap` copies the access
  point's file over the station's (gw_control.c:322).
- `main` returns when the license is INVALID (twrt.c:177-191), where the comment at
  twrt.c:178 says that the rest of the program keeps functioning.
- `main` sets `server_status` before `timer_pulse_ack` (twrt.c:159-160), and not at
  all when `connect` succeeds at once (173): the watchdog may take a connection down
  for the silence of the one before. `Established` includes this case.
- `sys_sync` replaces a status whose stamp is equal (sys.c:416), where
  `src/doc/sync.proc` says to do nothing. `DeviceRegistry` does what the document says, and
  `EqualStamps` is the exception in `ImplementsRegistry`.
- The serial port is opened with ICRNL (simple_serial.c:32): every byte 13 of the binary frames
  is read as 10, in data, ids and lengths. `FramingInv` counts these as breaks; a frame whose
  length is altered swallows the next ones or leaves a part of itself.
- After one `socket()` that fails in `inet_client_close`, `client.fd` is -1, `close(-1)` fails
  each time and no socket is made again (simple_inet.c:48): the session never comes up until a
  restart. TLC finds it as a violation of `Established` without `sock = "none"`.
- A command for a device is taken from the queue and lost, without a retry, when the port is
  off or breaks (twrt.c:463, 257-292): `Discard`, and why `Restores` has a condition.
- A device can have two slots without `Overlap` too: a backup cut within the record of a slot that
  is behind a free one (sys.c:1064; `TornGap`) leaves the copy that the record before has spilled
  beside the part of its own. TLC finds it as a violation of `UniqueIds` without `torn`.
- In a full install list an edit writes to index -1 (sys.c:523), and the shift of a
  delete has no end (sys.c:545 tests `m`, not `n`). `StraysOnlyWhenFull` shows that
  neither happens before.
- A device can have two slots. When a device is recorded by a backup, deleted, and registered
  again in another slot before that one is recorded, the file has two records of it, and after
  a restart so has the table (twrt.c:896-912). TLC finds it, with `Overlap`, as a violation of
  `UniqueIds`; hence `~Overlap` in the theorems.
- A record of a backup is `sizeof(znode_install)`, not `sizeof(znode)` (sys.c:1063):
  restoring a full table writes over the first install.

## 6. What is abstracted

Message contents other than kind, stamp and verdict; the answers that handlers queue for the
server and the local users where they change no state of the model; statuses of a device all have
one length; messages to the tables are handled one at a time in `SceneStore`, `InstallStore`,
`DeviceTable` and `SceneControl` (`run_sys_msg_rx` alone; local users' threads may really
interleave with it); a file that cannot be opened or written; counters are bounded, each bound is
a constant and appears in a guard. `DelZnode`, `ReqSync` and `Stat` stop at a `Wild` pointer,
whose use is undefined, the last two also at an empty slot that kept an id, to whose status they
would write.
The stamp of an empty slot, which nothing reads, is -1; a status of which a torn record holds half
is any status.

In `ServerSession` and `Framing` a closed descriptor's number is not given to another
file or socket of the process, although `client.fd` and `srl.fd` keep it until they are assigned: a
second `close` would then take that one. `connect` and the `select` after it are one step, the
first `socket()`, at the start, succeeds, and the handler of the license's answer waits for room
in the bounded `msg_q_tx`.

In `Framing` the header is one symbol and the rest of the fixed part another, the length; the
ring is counted in symbols; a write to the serial line is whole, and `serial_open` succeeds. In
`LocalUsers` there is no clock: a slot may have timed out whenever that is looked at, and which
one is the oldest is open; a list that is sent has two entries. In `SceneControl` a handler is
one step, an item of a scene is one state, and a panel's status is a row of keys.

## 7. Not modelled, and the plan

In this order:

1. `gw_control.c`: the password and the license, each a file that is compared, emptied and
   written without a lock; the files of access point and station, which are handed to the
   shell scripts `ap_update` and `sta_update` while `ap_fix` copies them.
2. Two handlers at once on `SceneStore`, `DeviceTable` and `SceneControl` (twrt.c:1608, 1232):
   the properties of these modules do not hold then, so the question is what is left of them.
3. `RingBuffer` with the flush of `ptask` inside a turn of its loops.
4. The Android client: `connect` against the asynchronous `disconnect` it starts.

Theorems to add: `DelStampExact`, with the messages that stay chosen by their places and a
lemma about one turn of the scan, from any place of the list, and with it what holds of the
two pointers after a deletion; what is left of `Listed` and `UniqueIds` when two handlers
overlap, once that is modelled.

Not planned: start-up and configuration parsing (straight-line code), shell scripts
and the UDP broadcaster (no state), the test bed, and the older variants of the
daemon that its Makefile does not build.
