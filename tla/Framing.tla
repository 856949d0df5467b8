-------------------------------- MODULE Framing --------------------------------
(***************************************************************************)
(* From bytes to messages: the three loops that read a device into a ring  *)
(* and parse it with bytes2message of src/twrt/src/proc.c - run_serial_rx  *)
(* on the serial line of the coordinator, run_client_rx on the server's    *)
(* connection and run_localuser_rx on a local user's - and whatever else   *)
(* touches the serial ring and port: run_sys_ptask, which flushes a ring   *)
(* that looks stuck, run_serial_tx, which may find the port broken, and    *)
(* main, which opens it again.  No lock guards the ring, the port or       *)
(* sys.serial_status.  `kind' says which of the three loops is looked at.  *)
(*                                                                         *)
(* The header of a frame is one symbol here, the rest of its fixed part    *)
(* another, the data length; the ring is the ByteQueue RingBuffer          *)
(* implements, counted in symbols.  What a 13 does in the data it does in  *)
(* the ids of the fixed part, too.                                         *)
(***************************************************************************)
EXTENDS Naturals, FiniteSets, SequencesExt

CONSTANTS Header,     \* MSG_HEADER_GW
          Cr, Nl,     \* 13 and 10: ICRNL, which serial_open sets, makes the one of the other
          Datas,      \* the data a message may carry: Header may occur in it
          RingLen,    \* BUFF_RING_LEN
          Chunk,      \* SERIAL_BUFF_LEN, INET_BUFF_LEN; a local user's is BUFF_IO_LEN
          MaxFrames,  \* bound: frames the peer sends
          MaxFaults   \* bound: what goes wrong on the way

Fixed == 2            \* MSG_LEN_FIXED and MSG_LEN_MIN, which are equal

ASSUME FramingAssumption ==
  /\ Header \in Nat /\ Cr \in Nat \ {Header} /\ Nl \in Nat \ {Header}
  /\ RingLen \in Nat /\ Chunk \in 1..RingLen
  /\ MaxFrames \in Nat /\ MaxFaults \in Nat /\ Datas # {}
  /\ \A d \in Datas : d \in Seq(Nat) /\ Len(d) # Header /\ Len(d) + Fixed - 1 + Chunk <= RingLen

VARIABLES kind,     \* "serial", "client" or "local"
          line,     \* the symbols on their way
          ring,     \* buff_serial, buff_client or the user's buff
          rest,     \* what the put in progress has still to store
          rx,       \* what the reading thread does next
          pre,      \* pre_bytes: the fixed part of the message being taken
          got,      \* the frame of each message put into the queue, 0 if it is none
          sent,     \* how many frames the peer has sent
          heads,    \* how many headers there were in their data
          faults,   \* what went wrong on the line
          spoilt,   \* what the gateway itself spoilt: flushes, overwritten and altered symbols
          look,     \* lenOld, cnt of run_sys_ptask; flush is 1 before its flush
          status,   \* sys.serial_status
          port,     \* the descriptor srl.fd: "up", "error", "hung" or "closed"
          tx,       \* what run_serial_tx does next
          main      \* what main does next about the port

vars == <<kind, line, ring, rest, rx, pre, got, sent, heads, faults, spoilt, look,
          status, port, tx, main>>

stream == <<line, sent, heads, faults>>
parser == <<ring, rest, rx, pre, got, spoilt>>
link   == <<status, port, tx, main>>

\* Symbol i of frame k, of value v; frame 0 is noise.
Symbol(v, k, i) == [v |-> v, k |-> k, i |-> i]
Zeros(n) == [i \in 1..n |-> Symbol(0, 0, 0)]

\* message2bytes
Frame(k, d) == LET v == <<Header, Len(d)>> \o d
               IN  [i \in 1..(Len(d) + Fixed) |-> Symbol(v[i], k, i)]

\* The frame a message is, 0 when it was put together of something else.
FrameOf(syms) == IF \A i \in DOMAIN syms : syms[i].k = syms[1].k /\ syms[i].i = i
                 THEN syms[1].k ELSE 0

Init == /\ kind \in {"serial", "client", "local"}
        /\ line = <<>> /\ ring = <<>> /\ rest = <<>> /\ pre = Zeros(Fixed)
        /\ rx = "parse" /\ got = <<>> /\ sent = 0 /\ heads = 0 /\ faults = 0 /\ spoilt = 0
        /\ look = [lenOld |-> 0, cnt |-> 0, flush |-> 0]
        /\ status = "off" /\ port = "closed" /\ tx = "idle" /\ main = "look"

--------------------------------------------------------------------------------
(* bytes2message, up to each place where the ring may have been flushed meanwhile *)

\* A header has come to the head of the ring, or something else; a whole message.
Found   == Len(ring) >= Fixed /\ ring[1].v = Header
Strayed == Len(ring) >= Fixed /\ ring[1].v # Header
\* Mutant of Whole: the fixed part is not counted.
WholeShort == Found /\ Len(ring) >= ring[2].v

Whole   == Found /\ Len(ring) >= ring[2].v + Fixed

Scan ==
  /\ rx = "parse" /\ Strayed
  /\ ring' = Tail(ring)
  /\ UNCHANGED <<kind, stream, rest, rx, pre, got, spoilt, look, link>>

\* Too short for a message: return 0
Wait ==
  /\ rx = "parse" /\ ~Strayed /\ ~Whole
  /\ rx' = "read"
  /\ UNCHANGED <<kind, stream, ring, rest, pre, got, spoilt, look, link>>

Peek ==
  /\ rx = "parse" /\ Whole
  /\ pre' = SubSeq(ring, 1, Fixed) /\ rx' = "take"
  /\ UNCHANGED <<kind, stream, ring, rest, got, spoilt, look, link>>

\* A get of more than there is leaves pre_bytes as they were peeked.
Take ==
  /\ rx = "take" /\ rx' = "data"
  /\ ring' = IF Len(ring) >= Fixed THEN SubSeq(ring, Fixed + 1, Len(ring)) ELSE ring
  /\ UNCHANGED <<kind, stream, rest, pre, got, spoilt, look, link>>

\* The data, which stay the zeros of calloc when the get fails, and the message into the
\* queue.  run_localuser_rx then reads again, the others parse again.
Data ==
  LET n    == pre[2].v
      data == IF Len(ring) >= n THEN SubSeq(ring, 1, n) ELSE Zeros(n)
  IN  /\ rx = "data" /\ rx' = IF kind = "local" THEN "read" ELSE "parse"
      /\ ring' = IF Len(ring) >= n THEN SubSeq(ring, n + 1, Len(ring)) ELSE ring
      /\ got' = Append(got, FrameOf(pre \o data))
      /\ UNCHANGED <<kind, stream, rest, pre, spoilt, look, link>>

bytes2message == Scan \/ Wait \/ Peek \/ Take \/ Data

--------------------------------------------------------------------------------
(* The read and the put *)

\* How much one read may bring
MaxRead == IF kind = "local" THEN RingLen ELSE Chunk

\* The coordinator's port has ICRNL set: a byte 13 is read as 10, in whatever it is.
Altered(s) == kind = "serial" /\ s.v = Cr
Icrnl(s)   == IF Altered(s) THEN Symbol(Nl, 0, 0) ELSE s

Readable == line # <<>> /\ (kind = "serial" => status = "on" /\ port = "up")

Read ==
  /\ rx = "read" /\ Readable
  /\ \E n \in 1..MaxRead :
       /\ n <= Len(line)
       /\ rest' = [i \in 1..n |-> Icrnl(line[i])]
       /\ line' = SubSeq(line, n + 1, Len(line))
       /\ spoilt' = spoilt + Cardinality({i \in 1..n : Altered(line[i])})
  /\ rx' = "put"
  /\ UNCHANGED <<kind, sent, heads, faults, ring, pre, got, look, link>>

\* One turn of buffer_ring_byte_put: a full ring forgets its oldest.
PutByte ==
  /\ rx = "put"
  /\ ring' = IF Len(ring) = RingLen THEN Append(Tail(ring), Head(rest))
                                    ELSE Append(ring, Head(rest))
  /\ spoilt' = IF Len(ring) = RingLen THEN spoilt + 1 ELSE spoilt
  /\ rest' = Tail(rest)
  /\ rx' = IF Len(rest) = 1 THEN "parse" ELSE "put"
  /\ UNCHANGED <<kind, stream, pre, got, look, link>>

\* EAGAIN, or a port that is off: run_serial_rx parses again before the next read.  A
\* read of a port that hangs returns 0 and leaves errno as the last call set it.
ReadNothing ==
  /\ rx = "read" /\ kind = "serial" /\ ~Readable
  /\ status = "on" => port \in {"up", "hung"}
  /\ rx' = "parse"
  /\ UNCHANGED <<kind, stream, ring, rest, pre, got, spoilt, look, link>>

\* Mutant of ReadError: the port is closed and the status stays on.
ReadErrorStaysOn ==
  /\ rx = "read" /\ kind = "serial" /\ status = "on" /\ port # "up"
  /\ rx' = "close"
  /\ UNCHANGED <<kind, stream, ring, rest, pre, got, spoilt, look, link>>

\* sys.serial_status = SERIAL_OFF, before the close
ReadError ==
  /\ rx = "read" /\ kind = "serial" /\ status = "on" /\ port # "up"
  /\ status' = "off" /\ rx' = "close"
  /\ UNCHANGED <<kind, stream, ring, rest, pre, got, spoilt, look, port, tx, main>>

\* serial_close of what srl.fd has become
ReadClose ==
  /\ rx = "close"
  /\ port' = "closed" /\ rx' = "parse"
  /\ UNCHANGED <<kind, stream, ring, rest, pre, got, spoilt, look, status, tx, main>>

RxStep == bytes2message \/ Read \/ PutByte \/ ReadNothing \/ ReadError \/ ReadClose

--------------------------------------------------------------------------------
(* run_sys_ptask, run_serial_tx and main *)

\* Mutant of PtLook: the count starts again whenever the flush is due.
PtLookNever ==
  LET len == Len(ring)
  IN  /\ kind = "serial" /\ look.flush = 0
      /\ IF len = look.lenOld /\ len > 0
           THEN look' = [look EXCEPT !.cnt = IF look.cnt = 2 THEN 0 ELSE look.cnt + 1]
           ELSE look' = [look EXCEPT !.lenOld = len]
      /\ UNCHANGED <<kind, stream, parser, link>>

\* Once a second: the same length for the third time, though not in a row (cnt keeps its
\* value when the length has changed), is taken for a ring that is stuck.
PtLook ==
  LET len == Len(ring)
  IN  /\ kind = "serial" /\ look.flush = 0
      /\ IF len = look.lenOld /\ len > 0
           THEN look' = IF look.cnt = 2 THEN [look EXCEPT !.flush = 1]
                                        ELSE [look EXCEPT !.cnt = look.cnt + 1]
           ELSE look' = [look EXCEPT !.lenOld = len]
      /\ UNCHANGED <<kind, stream, parser, link>>

PtFlush ==
  /\ look.flush = 1
  /\ look' = [look EXCEPT !.flush = 0, !.cnt = 0]
  /\ ring' = <<>> /\ spoilt' = IF ring = <<>> THEN spoilt ELSE spoilt + 1
  /\ UNCHANGED <<kind, stream, rest, rx, pre, got, link>>

\* A message for the coordinator, when the port is on
TxStart ==
  /\ kind = "serial" /\ tx = "idle" /\ status = "on"
  /\ tx' = "write"
  /\ UNCHANGED <<kind, stream, parser, look, status, port, main>>

\* The turns of run_serial_tx's loop: written, or not on any more, or an error
TxWrite ==
  /\ tx = "write"
  /\ tx' = IF status = "on" /\ port # "up" THEN "close" ELSE "idle"
  /\ UNCHANGED <<kind, stream, parser, look, status, port, main>>

\* serial_close before SERIAL_OFF
TxClose ==
  /\ tx = "close" /\ tx' = "off" /\ port' = "closed"
  /\ UNCHANGED <<kind, stream, parser, look, status, main>>

TxOff ==
  /\ tx = "off" /\ tx' = "idle" /\ status' = "off"
  /\ UNCHANGED <<kind, stream, parser, look, port, main>>

\* serial_open, which sets the port's modes (ICRNL is one of them: see Read) and flushes
\* what has arrived, and then the status
MainOpen ==
  /\ kind = "serial" /\ main = "look" /\ status = "off"
  /\ port' = "up" /\ main' = "on" /\ line' = <<>>
  /\ spoilt' = IF line = <<>> THEN spoilt ELSE spoilt + 1
  /\ UNCHANGED <<kind, sent, heads, faults, ring, rest, rx, pre, got, look, status, tx>>

MainOn ==
  /\ main = "on" /\ main' = "look" /\ status' = "on"
  /\ UNCHANGED <<kind, stream, parser, look, port, tx>>

--------------------------------------------------------------------------------
(* The peer and the line *)

Send == \E d \in Datas :
          /\ sent < MaxFrames /\ sent' = sent + 1
          /\ line' = line \o Frame(sent + 1, d)
          /\ heads' = heads + Cardinality({i \in DOMAIN d : d[i] = Header})
          /\ UNCHANGED <<kind, faults, parser, look, link>>

Fault == faults < MaxFaults /\ faults' = faults + 1

\* A symbol lost, or one that nobody sent, on the serial line
Lose  == /\ kind = "serial" /\ line # <<>> /\ Fault
         /\ line' = Tail(line)
         /\ UNCHANGED <<kind, sent, heads, parser, look, link>>

Noise == /\ kind = "serial" /\ Fault
         /\ \E v \in {0, Header} : line' = <<Symbol(v, 0, 0)>> \o line
         /\ UNCHANGED <<kind, sent, heads, parser, look, link>>

\* The server's connection breaks and main connects again: buff_client is not flushed.
Cut   == /\ kind = "client" /\ Fault
         /\ line # <<>> \/ ring # <<>>
         /\ line' = <<>>
         /\ UNCHANGED <<kind, sent, heads, parser, look, link>>

PortFails ==
  /\ kind = "serial" /\ port = "up" /\ Fault
  /\ port' \in {"error", "hung"}
  /\ UNCHANGED <<kind, line, sent, heads, parser, look, status, tx, main>>

Next == \/ RxStep \/ PtLook \/ PtFlush
        \/ TxStart \/ TxWrite \/ TxClose \/ TxOff \/ MainOpen \/ MainOn
        \/ Send \/ Lose \/ Noise \/ Cut \/ PortFails

Spec == Init /\ [][Next]_vars

\* Every thread goes on; nobody need send anything in either direction.
LiveSpec == /\ Spec
            /\ WF_vars(RxStep)
            /\ WF_vars(PtLook \/ PtFlush)
            /\ WF_vars(TxWrite \/ TxClose \/ TxOff)
            /\ WF_vars(MainOpen \/ MainOn)

--------------------------------------------------------------------------------
SymbolSet == [v : Nat, k : 0..MaxFrames, i : Nat]

TypeOK == /\ kind \in {"serial", "client", "local"}
          /\ line \in Seq(SymbolSet) /\ ring \in Seq(SymbolSet) /\ rest \in Seq(SymbolSet)
          /\ Len(ring) <= RingLen
          /\ rx \in {"parse", "take", "data", "read", "put", "close"}
          /\ pre \in [1..Fixed -> SymbolSet]
          /\ got \in Seq(0..MaxFrames)
          /\ sent \in 0..MaxFrames /\ heads \in Nat /\ faults \in 0..MaxFaults /\ spoilt \in Nat
          /\ look \in [lenOld : 0..RingLen, cnt : 0..2, flush : {0, 1}]
          /\ status \in {"on", "off"} /\ port \in {"up", "error", "hung", "closed"}
          /\ tx \in {"idle", "write", "close", "off"} /\ main \in {"look", "on"}

\* As long as nothing goes wrong on the line and the gateway spoils nothing, the messages
\* in the queue are the frames sent, each once, in order, whatever the chunks they come in
\* and whatever looks like a header inside of them.
AsSent == faults + spoilt = 0 => \A n \in DOMAIN got : got[n] = n

\* And whatever goes wrong, no frame is delivered twice or late, and a message made of
\* something else needs a break in the stream, an altered symbol or a header in the data
\* for each.
Fakes  == {n \in DOMAIN got : got[n] = 0}
Resync == /\ \A m, n \in DOMAIN got \ Fakes : m < n => got[m] < got[n]
          /\ Cardinality(Fakes) <= faults + spoilt + (IF faults + spoilt = 0 THEN 0 ELSE heads)

\* The server's connection never overruns the ring while it delivers what the server sent.
NoOverrun == kind = "client" /\ faults = 0 => spoilt = 0

FramingInv == TypeOK /\ AsSent /\ Resync /\ NoOverrun

\* Half a message that nothing completes, or a length no ring can hold, does not keep the
\* coordinator's messages out for ever: the ring is empty again and again.
SerialDrains == kind = "serial" => []<>(ring = <<>>)

\* A port that reports errors is opened again, although run_serial_rx, run_serial_tx and
\* main set its status and close it in different orders; one that hangs is opened again
\* when something is written to it.
PortReopens == (kind = "serial" /\ (port \in {"error", "closed"} \/ (port = "hung" /\ tx = "write")))
                 ~> port = "up"
================================================================================
