------------------------------- MODULE RingBuffer ------------------------------
(***************************************************************************)
(* The ring buffer of src/twrt/src/buffer_ex.c, which stands between every *)
(* byte source of the gateway (serial line, server socket, local user      *)
(* sockets) and the message parser.  Pointers are offsets from p_head, so  *)
(* p_head is 0 and p_tail is N - 1.  One step is one turn of the loop in   *)
(* buffer_ring_byte_put or buffer_ring_byte_get.                           *)
(***************************************************************************)
EXTENDS Integers, Sequences

CONSTANTS N,        \* buff->len, the size given to buffer_ring_byte_create
          Byte,     \* the values of a char the callers tell apart
          MaxChunk  \* the most bytes one put brings (one read of the device)

ASSUME RingAssumption == /\ N \in Nat \ {0}
                         /\ MaxChunk \in Nat
                         /\ Byte # {}

VARIABLES data,      \* the N cells
          p_c,       \* offset of the cell the next byte goes to
          p_rw,      \* offset of the oldest byte
          overflow,  \* 1 when p_c has wrapped around and p_rw has not, else 0
          todo,      \* bytes the put in progress has still to store
          want,      \* bytes the get in progress has still to remove
          copied     \* what the last get has copied to its caller

ringVars == <<data, p_c, p_rw, overflow, todo, want, copied>>

p_tail == N - 1
Chunks  == UNION {[1..n -> Byte] : n \in 0..MaxChunk}

GetLen == IF overflow = 1 THEN p_tail - p_rw + p_c + 1 ELSE p_c - p_rw

\* Mutant of ReadCell: one cell too far behind the wrap.
ReadCellOffByOne(m) == IF p_rw + m <= p_tail THEN data[p_rw + m]
                                             ELSE data[m - (p_tail - p_rw)]

\* The m-th byte buffer_ring_byte_read copies, m counted from 0 as in the loop.
ReadCell(m) == IF p_rw + m <= p_tail THEN data[p_rw + m]
                                     ELSE data[m - (p_tail - p_rw) - 1]

Idle == todo = <<>> /\ want = 0

\* calloc leaves zeros in the cells; no property reads a cell before it is put.
RingInit == /\ \E b \in Byte : data = [i \in 0..p_tail |-> b]
            /\ p_c = 0 /\ p_rw = 0 /\ overflow = 0
            /\ todo = <<>> /\ want = 0 /\ copied = <<>>

Flush == /\ Idle
         /\ \E b \in Byte : data' = [i \in 0..p_tail |-> b]
         /\ p_c' = 0 /\ p_rw' = 0 /\ overflow' = 0
         /\ UNCHANGED <<todo, want, copied>>

Put(bytes) == /\ Idle
              /\ todo' = bytes
              /\ UNCHANGED <<data, p_c, p_rw, overflow, want, copied>>

\* Mutant of PutTurn: the oldest byte is not given up when the ring is full.
PutTurnOverruns ==
  /\ todo # <<>>
  /\ data' = [data EXCEPT ![p_c] = Head(todo)]
  /\ p_c' = IF p_c + 1 > p_tail THEN 0 ELSE p_c + 1
  /\ overflow' = IF p_c + 1 > p_tail THEN 1 ELSE overflow
  /\ todo' = Tail(todo)
  /\ UNCHANGED <<p_rw, want, copied>>

PutTurn ==
  LET wraps == p_c + 1 > p_tail
      c     == IF wraps THEN 0 ELSE p_c + 1
      rw    == IF wraps /\ overflow = 1 /\ p_rw = p_tail THEN c ELSE p_rw
  IN  /\ todo # <<>>
      /\ data' = [data EXCEPT ![p_c] = Head(todo)]
      /\ p_c' = c
      /\ overflow' = IF wraps THEN 1 ELSE overflow
      /\ p_rw' = IF c > rw /\ overflow' = 1 THEN c ELSE rw
      /\ todo' = Tail(todo)
      /\ UNCHANGED <<want, copied>>

\* A get of nothing, or of more than there is, returns before its loop.
Get(len) == /\ Idle
            /\ len <= GetLen /\ len # 0
            /\ want' = len
            /\ copied' = <<>>
            /\ UNCHANGED <<data, p_c, p_rw, overflow, todo>>

\* Mutant of GetTurn: the wrap of p_rw does not end the overflow.
GetTurnKeepsOverflow ==
  /\ want > 0
  /\ copied' = Append(copied, data[p_rw])
  /\ p_rw' = IF p_rw + 1 > p_tail THEN 0 ELSE p_rw + 1
  /\ want' = want - 1
  /\ UNCHANGED <<data, p_c, overflow, todo>>

GetTurn ==
  LET wraps == p_rw + 1 > p_tail
  IN  /\ want > 0
      /\ copied' = Append(copied, data[p_rw])
      /\ p_rw' = IF wraps THEN 0 ELSE p_rw + 1
      /\ overflow' = IF wraps THEN 0 ELSE overflow
      /\ want' = want - 1
      /\ UNCHANGED <<data, p_c, todo>>

RingNext == \/ Flush
            \/ \E bytes \in Chunks : Put(bytes)
            \/ PutTurn
            \/ \E len \in 1..N : Get(len)
            \/ GetTurn

RingSpec == RingInit /\ [][RingNext]_ringVars

--------------------------------------------------------------------------------
RingTypeOK == /\ data \in [0..p_tail -> Byte]
              /\ p_c \in 0..p_tail
              /\ p_rw \in 0..p_tail
              /\ overflow \in {0, 1}
              /\ todo \in Seq(Byte)
              /\ want \in 0..N
              /\ copied \in Seq(Byte)

\* The two pointers never pass each other: without overflow the oldest byte is
\* not beyond the next free cell, with overflow it is not before it, which is
\* what makes both branches of buffer_ring_byte_getlen (and its comments) right.
PointerOrder == IF overflow = 1 THEN p_c <= p_rw ELSE p_rw <= p_c

\* The length the parser sees is never negative and never beyond the capacity,
\* and a get in progress always has the bytes it was promised: nothing between
\* the check at its start and its last turn takes them away.
LenCoversGet == GetLen \in 0..N /\ want <= GetLen

\* The strengthening of the two that every step preserves.
RingInv == RingTypeOK /\ PointerOrder /\ LenCoversGet

\* The bytes in the ring, oldest first, by modular arithmetic.
Contents == [i \in 1..GetLen |-> data[(p_rw + i - 1) % N]]

\* buffer_ring_byte_read, with its own index arithmetic for the cells behind
\* the wrap, shows the bytes that the following gets will return.
ReadPeeks == \A m \in 0..(GetLen - 1) : ReadCell(m) = Contents[m + 1]

\* The pointer machinery implements the byte queue: every turn of a loop is one
\* Enqueue or Dequeue, and a byte is lost only when the ring is full.
Abstract == INSTANCE ByteQueue WITH queue <- Contents, out <- copied
ImplementsByteQueue == Abstract!Spec
================================================================================
