----------------------------- MODULE ByteBuffer -----------------------------
(***************************************************************************)
(* switch_buffer.c: one switch_buffer_t, of its three kinds: of fixed      *)
(* size, growing, or a partition (a read-only window on bytes of others).  *)
(* head is an offset into data.  The callers of a buffer exclude each      *)
(* other by a mutex of their own, so a call is a step.                     *)
(***************************************************************************)
EXTENDS Integers, Sequences

CONSTANTS
  Byte,      \* the bytes
  Sizes,     \* the lengths calls are given
  Starts,    \* the lengths buffers are created with
  Limits,    \* max_len of a growing buffer, 0 for none
  Blocks,    \* its blocksize
  Loops,     \* what switch_buffer_set_loops is given
  BbRoom     \* bound of the model: no buffer grows beyond it

ASSUME BufferAssumption ==
  /\ Byte # {} /\ Loops \subseteq Int
  /\ Sizes \subseteq Nat /\ Starts \subseteq Nat \ {0} /\ Limits \subseteq Nat /\ Blocks \subseteq Nat

VARIABLES
  kind, max_len, blocksize,  \* flags and limits, set at creation
  buf,      \* data, datalen, head, used, actually_used
  loops,
  got       \* the bytes the last reading call copied out

settings == <<kind, max_len, blocksize>>
bbvars == <<settings, buf, loops, got>>

Memory(n) == [0 .. n - 1 -> Byte]
Buffer(d, n, h, u, a) == [data |-> d, datalen |-> n, head |-> h, used |-> u, actually_used |-> a]
Whole(d, n) == Buffer(d, n, 0, n, n)

switch_buffer_zero(b) == Buffer(b.data, b.datalen, 0, 0, 0)

\* switch_buffer_create, switch_buffer_create_dynamic, switch_buffer_create_partition
BbInit ==
  /\ kind \in {"fixed", "dynamic", "partition"}
  /\ max_len \in (IF kind = "dynamic" THEN Limits ELSE {0})
  /\ blocksize \in (IF kind = "dynamic" THEN Blocks ELSE {0})
  /\ \E n \in Starts : \E d \in Memory(n) :
       buf = IF kind = "partition" THEN Whole(d, n) ELSE switch_buffer_zero(Whole(d, n))
  /\ loops = 0
  /\ got = <<>>

-----------------------------------------------------------------------------
\* Bytes copied out of the memory, from an offset on.
Copy(b, from, n) == [i \in 1 .. n |-> b.data[from + i - 1]]
Reading(b, n) == IF b.used >= n THEN n ELSE b.used
Tossed(b, n) ==
  Buffer(b.data, b.datalen, b.head + Reading(b, n), b.used - Reading(b, n), b.actually_used)
Rewound(b) == Buffer(b.data, b.datalen, 0, b.actually_used, b.actually_used)

switch_buffer_toss ==
  /\ \E n \in Sizes : buf' = Tossed(buf, n)
  /\ UNCHANGED <<settings, loops, got>>

switch_buffer_read ==
  /\ \E n \in Sizes : buf' = Tossed(buf, n) /\ got' = Copy(buf, buf.head, Reading(buf, n))
  /\ UNCHANGED <<settings, loops>>

switch_buffer_peek ==
  /\ \E n \in Sizes : got' = Copy(buf, buf.head, Reading(buf, n))
  /\ UNCHANGED <<settings, buf, loops>>

\* A read that returns nothing starts again from the beginning, if any loops
\* are left; asking for no bytes is such a read, too.
switch_buffer_read_loop ==
  /\ \E n \in Sizes :
       /\ Reading(buf, n) = 0
       /\ loops' = IF loops > 0 THEN loops - 1 ELSE loops
       /\ IF loops' = 0 THEN buf' = buf /\ got' = <<>>
          ELSE /\ buf' = Tossed(Rewound(buf), n)
               /\ got' = Copy(buf, 0, Reading(Rewound(buf), n))
  /\ UNCHANGED settings

switch_buffer_set_loops ==
  /\ loops' \in Loops
  /\ UNCHANGED <<settings, buf, got>>

-----------------------------------------------------------------------------
\* Slip: the bytes are not moved.
CompactedUnmoved(b, n) ==
  IF b.datalen - b.actually_used >= n THEN b ELSE Buffer(b.data, b.datalen, 0, b.used, b.used)

\* Bytes already read are overwritten by those still to be read, if the room
\* behind these is too small.
Compacted(b, n) ==
  IF b.datalen - b.actually_used >= n THEN b
  ELSE Buffer([i \in 0 .. b.datalen - 1 |->
                 IF i < b.used THEN b.data[b.head + i] ELSE b.data[i]],
              b.datalen, 0, b.used, b.used)

Fits(b, n) == b.datalen - b.used >= n
\* Slip: no limit.
GrowsAlways(b, n) == kind = "dynamic" /\ ~Fits(b, n)
MayGrow(b, n) == kind = "dynamic" /\ ~Fits(b, n) /\ (max_len = 0 \/ b.used + n <= max_len)
NewSize(b, n) == b.datalen + (IF blocksize > n THEN blocksize ELSE n)

\* realloc: the bytes added hold anything.
Grown(b, n) ==
  {Buffer([i \in 0 .. NewSize(b, n) - 1 |-> IF i < b.datalen THEN b.data[i] ELSE fill],
          NewSize(b, n), 0, b.used, b.actually_used) : fill \in Byte}

Stored(b, s) ==
  LET end == b.head + b.used
  IN Buffer([i \in 0 .. b.datalen - 1 |->
               IF i \in end .. end + Len(s) - 1 THEN s[i - end + 1] ELSE b.data[i]],
            b.datalen, b.head, b.used + Len(s), b.actually_used + Len(s))

\* switch_buffer_write: the bytes are taken, or refused since there is no room
\* or realloc fails.
Written(b, s) ==
  LET c == Compacted(b, Len(s))
  IN {Stored(r, s) : r \in IF MayGrow(c, Len(s)) THEN Grown(c, Len(s))
                           ELSE IF Fits(c, Len(s)) THEN {c} ELSE {}}
Refused(b, s) == {c \in {Compacted(b, Len(s))} : ~Fits(c, Len(s))}
Write(b, s) == Written(b, s) \cup Refused(b, s)

\* What may be written.  A write of no bytes, which returns used, changes nothing.
Texts == UNION {[1 .. n -> Byte] : n \in Sizes \ {0}}
Writing ==
  /\ kind # "partition"
  /\ buf'.datalen <= BbRoom
  /\ UNCHANGED <<settings, loops, got>>

switch_buffer_write == (\E s \in Texts : buf' \in Write(buf, s)) /\ Writing

\* When there is no room everything is given up.
switch_buffer_zwrite ==
  /\ \E s \in Texts :
       \/ buf' \in Written(buf, s)
       \/ \E c \in Refused(buf, s) : buf' \in Write(switch_buffer_zero(c), s)
  /\ Writing

\* When there is no room as many of the oldest bytes are given up.
switch_buffer_slide_write ==
  /\ \E s \in Texts :
       \/ buf' \in Written(buf, s)
       \/ \E c \in Refused(buf, s) : buf' \in Write(Tossed(c, Len(s)), s)
  /\ Writing

\* switch_buffer_zero, or switch_buffer_zwrite of nothing into an empty buffer.
Zero ==
  /\ buf' = switch_buffer_zero(buf)
  /\ UNCHANGED <<settings, loops, got>>

\* switch_buffer_set_partition_data, switch_buffer_reset_partition_data
SetPartition ==
  /\ kind = "partition"
  /\ \/ \E n \in Starts : \E d \in Memory(n) : buf' = Whole(d, n)
     \/ buf' = Whole(buf.data, buf.datalen)
  /\ UNCHANGED <<settings, loops, got>>

BbNext ==
  \/ switch_buffer_toss \/ switch_buffer_read \/ switch_buffer_peek
  \/ switch_buffer_read_loop \/ switch_buffer_set_loops
  \/ switch_buffer_write \/ switch_buffer_zwrite \/ switch_buffer_slide_write
  \/ Zero \/ SetPartition
BbSpec == BbInit /\ [][BbNext]_bbvars
-----------------------------------------------------------------------------
\* The bytes in use lie within the memory, and what a replay would start with
\* ends where the bytes in use end: no call copies from or to memory outside
\* the buffer, whatever calls came before it.
Laid(b) ==
  /\ b.datalen \in Nat /\ b.head \in Nat /\ b.used \in Nat
  /\ b.data \in Memory(b.datalen)
  /\ b.actually_used = b.head + b.used
  /\ b.actually_used <= b.datalen
BufferLayout == kind \in {"fixed", "dynamic", "partition"} /\ loops \in Int /\ Laid(buf)

\* A limited buffer grows past its limit by less than one block or one write,
\* though only the bytes in use are compared with the limit
\* (switch_buffer.c:329), never the memory.
CapacityBounded ==
  kind = "dynamic" /\ max_len > 0 =>
    \/ buf.datalen \in Starts
    \/ buf.datalen < max_len + (IF blocksize > max_len THEN blocksize ELSE max_len)

\* The buffer is the queue of ByteQueue: what was written comes out once, in
\* order, over compaction, growth, failed allocations and replays.
Content(b) == Copy(b, b.head, b.used)
Past(b) == Copy(b, 0, b.head)
Queue == INSTANCE ByteQueue WITH
  window <- kind = "partition", queue <- Content(buf), past <- Past(buf)
IsByteQueue == Queue!QSpec
=============================================================================
