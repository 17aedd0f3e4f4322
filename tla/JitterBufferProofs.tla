------------------------- MODULE JitterBufferProofs -------------------------
(***************************************************************************)
(* Proofs about the jitter buffer, for the three types, any limits, delays *)
(* and losses, any place of the 16-bit wrap and a reset by another thread  *)
(* at any moment.  JbAssumption and SpanAssumption are all that is asked   *)
(* of the constants.                                                       *)
(*                                                                         *)
(* JbInv carries the sets of nodes, the count of frames and the requests   *)
(* for what is missing.  In it, Sets says how visible, hashed and          *)
(* allocated nodes nest; VideoCount and PlainCount what complete_frames    *)
(* counts, by frames or by packets; Known that next_seq lies behind every  *)
(* packet that is there, but for packets from before the wrap.             *)
(* OrderInv carries the order of playing: the next number wanted is that   *)
(* of a packet behind the last one played.                                 *)
(*                                                                         *)
(* Each operator of the model has a lemma that says what it leaves alone   *)
(* (... Aside), what it keeps of the invariant (... Keeps, ... Good) or    *)
(* where it leaves the target (... Aims).                                  *)
(***************************************************************************)
EXTENDS JitterBuffer, FiniteSetTheorems, WellFoundedInduction, TLAPS

(***************************************************************************)
(* The fields of switch_jb_t                                               *)
(***************************************************************************)

Fields ==
  {"complete_frames", "target_seq", "period", "write_init", "highest_wrote_seq",
   "highest_wrote_ts", "next_seq", "read_init", "highest_read_seq", "highest_read_ts",
   "frame_len", "min_frame_len", "max_frame_len", "node_list", "version1", "hashed",
   "allocated_nodes", "packet_count", "max_packet_len", "missing_seq_hash", "highest_dropped_ts",
   "buffer_lag", "flush"}
Whole(b) == b = [f \in Fields |-> b[f]]

\* Those that the proofs are about, and the steps that leave them alone.
SameNodes(b, c) ==
  /\ c.node_list = b.node_list /\ c.hashed = b.hashed /\ c.version1 = b.version1
  /\ c.allocated_nodes = b.allocated_nodes
SameCount(b, c) ==
  /\ c.complete_frames = b.complete_frames
  /\ c.write_init = b.write_init /\ c.highest_wrote_ts = b.highest_wrote_ts
SameLimits(b, c) ==
  c.max_frame_len = b.max_frame_len /\ c.max_packet_len = b.max_packet_len
SameAsked(b, c) == c.next_seq = b.next_seq /\ c.missing_seq_hash = b.missing_seq_hash
Same(b, c) ==
  /\ Whole(c) /\ SameNodes(b, c) /\ SameCount(b, c) /\ SameLimits(b, c) /\ SameAsked(b, c)

\* The target length, and the counters of the period.
LEMMA LengthAside ==
  ASSUME NEW b, Whole(b), NEW i
  PROVE  Same(b, jb_frame_inc(b, i)) /\ jb_frame_inc(b, i).target_seq = b.target_seq
BY DEF Whole, Fields, Same, SameNodes, SameCount, SameLimits, SameAsked, jb_frame_inc

\* A hit is counted and nothing else changes.
LEMMA HitAside ==
  ASSUME NEW b, Whole(b)
  PROVE  Same(b, jb_hit(b)) /\ jb_hit(b).target_seq = b.target_seq
BY DEF Whole, Fields, Same, SameNodes, SameCount, SameLimits, SameAsked, jb_hit

\* The packet that is asked for next.
LEMMA AimAside ==
  ASSUME NEW b, Whole(b), NEW x
  PROVE  Same(b, [b EXCEPT !.target_seq = x]) /\ [b EXCEPT !.target_seq = x].target_seq = x
BY DEF Whole, Fields, Same, SameNodes, SameCount, SameLimits, SameAsked

\* So is a miss.
LEMMA MissAside ==
  ASSUME NEW b, Whole(b)
  PROVE  Same(b, jb_miss(b)) /\ jb_miss(b).target_seq = b.target_seq
BY DEF Whole, Fields, Same, SameNodes, SameCount, SameLimits, SameAsked, jb_miss

\* A poll may start or end the lag of a text buffer; what is held stays.
LEMMA PollAside ==
  ASSUME NEW b, Whole(b)
  PROVE  Same(b, Polled(b)) /\ Polled(b).target_seq = b.target_seq
BY DEF Whole, Fields, Same, SameNodes, SameCount, SameLimits, SameAsked, Polled

\* The end of a period may change the length of the frames aimed at, not what is held.
LEMMA PeriodAside ==
  ASSUME NEW b, Whole(b)
  PROVE  Same(b, NextPeriod(b)) /\ NextPeriod(b).target_seq = b.target_seq
<1>1. CASE b.period.count + 1 < PERIOD_LEN
  BY <1>1 DEF Whole, Fields, Same, SameNodes, SameCount, SameLimits, SameAsked, NextPeriod
<1>2. CASE ~(b.period.count + 1 < PERIOD_LEN)
  <2> DEFINE c == IF b.period.good >= PERIOD_LEN - Slack THEN jb_frame_inc(b, -1) ELSE b
  <2>1. Same(b, c) /\ c.target_seq = b.target_seq
    BY LengthAside DEF Same, SameNodes, SameCount, SameLimits, SameAsked
  <2>2. NextPeriod(b) = [c EXCEPT !.period = [NoPeriod EXCEPT !.count = 1]]
    BY <1>2 DEF NextPeriod
  <2> HIDE DEF c
  <2> QED BY <2>1, <2>2 DEF Whole, Fields, Same, SameNodes, SameCount, SameLimits, SameAsked
<1> QED BY <1>1, <1>2

\* switch_jb_reset.
Emptied(b, c) ==
  /\ Whole(c)
  /\ c.node_list = {} /\ c.hashed = {} /\ c.version1 = {}
  /\ c.allocated_nodes = b.allocated_nodes
  /\ c.missing_seq_hash = IF IsVideo THEN {} ELSE b.missing_seq_hash
ClearedIn(c) ==
  /\ c.complete_frames = 0 /\ c.write_init = FALSE /\ c.highest_wrote_ts = 0
  /\ c.next_seq = 0 /\ c.target_seq = 0

\* switch_jb_reset, first half: every node is hidden.
LEMMA Hidden ==
  ASSUME NEW b, Whole(b)
  PROVE  /\ Emptied(b, hide_nodes(b)) /\ SameCount(b, hide_nodes(b)) /\ SameLimits(b, hide_nodes(b))
         /\ hide_nodes(b).next_seq = b.next_seq /\ hide_nodes(b).target_seq = b.target_seq
BY DEF Whole, Fields, Emptied, SameCount, SameLimits, hide_nodes

\* switch_jb_reset, second half: the fields start anew, the nodes stay.
LEMMA FieldsCleared ==
  ASSUME NEW b, Whole(b)
  PROVE  /\ Whole(With(Cleared, b)) /\ ClearedIn(With(Cleared, b))
         /\ SameNodes(b, With(Cleared, b)) /\ SameLimits(b, With(Cleared, b))
         /\ With(Cleared, b).missing_seq_hash = b.missing_seq_hash
<1>1. DOMAIN b = Fields
  BY DEF Whole
<1>2. DOMAIN Cleared = {"complete_frames", "target_seq", "period", "write_init", "highest_wrote_seq",
        "highest_wrote_ts", "next_seq", "read_init", "highest_read_seq", "highest_read_ts"}
  BY DEF Cleared
<1>3. ClearedIn(Cleared)
  BY DEF Cleared, ClearedIn
<1>4. DOMAIN Cleared \cup DOMAIN b = Fields
  BY <1>1, <1>2 DEF Fields
<1>5. With(Cleared, b) = [f \in Fields |-> IF f \in DOMAIN Cleared THEN Cleared[f] ELSE b[f]]
  BY <1>4 DEF With
<1>6. Whole(With(Cleared, b))
  BY <1>5 DEF Whole
<1>7. ClearedIn(With(Cleared, b))
  BY <1>2, <1>3, <1>5 DEF ClearedIn, Fields
<1>8. SameNodes(b, With(Cleared, b)) /\ SameLimits(b, With(Cleared, b))
      /\ With(Cleared, b).missing_seq_hash = b.missing_seq_hash
  BY <1>2, <1>5 DEF SameNodes, SameLimits, Fields
<1> QED BY <1>6, <1>7, <1>8

\* Both halves leave an empty buffer.
LEMMA Reset ==
  ASSUME NEW b, Whole(b)
  PROVE  /\ Emptied(b, switch_jb_reset(b)) /\ ClearedIn(switch_jb_reset(b))
         /\ SameLimits(b, switch_jb_reset(b))
<1> DEFINE c == hide_nodes(b)
<1>1. Emptied(b, c) /\ SameLimits(b, c)
  BY Hidden
<1>2. switch_jb_reset(b) = With(Cleared, c)
  BY DEF switch_jb_reset
<1> HIDE DEF c
<1>3. Whole(c)
  BY <1>1 DEF Emptied
<1>4. /\ Whole(With(Cleared, c)) /\ ClearedIn(With(Cleared, c))
      /\ SameNodes(c, With(Cleared, c)) /\ SameLimits(c, With(Cleared, c))
      /\ With(Cleared, c).missing_seq_hash = c.missing_seq_hash
  BY <1>3, FieldsCleared
<1> QED BY <1>1, <1>2, <1>4 DEF Emptied, SameNodes, SameLimits

\* switch_jb_create.
LEMMA Created == JbInit => Whole(jb) /\ Emptied(jb, jb) /\ ClearedIn(jb)
BY DEF JbInit, Whole, Fields, Emptied, ClearedIn, With, Cleared, IsVideo

-----------------------------------------------------------------------------
(***************************************************************************)
(* Sequence numbers and time stamps of the packets sent                    *)
(***************************************************************************)

\* A number less than twice the modulus wraps at most once.
LEMMA Wraps ==
  ASSUME NEW m \in Nat \ {0}, NEW x \in 0..(2 * m - 1)
  PROVE  x % m = IF x < m THEN x ELSE x - m
OBVIOUS

\* The sequence number of a packet, without the modulus.
LEMMA SeqOfPacket ==
  ASSUME base \in 0..SeqMod - 1, NEW n \in 0..SeqMod - 1
  PROVE  /\ SeqOf(n) = IF base + n < SeqMod THEN base + n ELSE (base + n) - SeqMod
         /\ SeqOf(n) \in Seqs
<1>1. SeqMod \in Nat \ {0}
  BY JbAssumption
<1>2. base + n \in 0..(2 * SeqMod - 1)
  BY <1>1
<1>3. SeqOf(n) = IF base + n < SeqMod THEN base + n ELSE (base + n) - SeqMod
  <2> DEFINE x == base + n
  <2>1. x \in 0..(2 * SeqMod - 1)
    BY <1>2
  <2> HIDE DEF x
  <2>2. x % SeqMod = IF x < SeqMod THEN x ELSE x - SeqMod
    BY <1>1, <2>1, Wraps
  <2> QED BY <1>1, <2>2 DEF x, SeqOf
<1> QED BY <1>1, <1>3 DEF Seqs

\* The number after a number.
LEMMA AfterSeq ==
  ASSUME NEW q \in Seqs
  PROVE  After(q) \in Seqs /\ After(q) = IF q = SeqMod - 1 THEN 0 ELSE q + 1
<1>1. SeqMod \in Nat \ {0}
  BY JbAssumption
<1>2. SeqMod \in Nat /\ SeqMod > 1
  BY JbAssumption
<1>3. q + 1 \in 0..(2 * SeqMod - 1)
  BY <1>2 DEF Seqs
<1>4. (q + 1) % SeqMod = IF q + 1 < SeqMod THEN q + 1 ELSE (q + 1) - SeqMod
  <2> DEFINE x == q + 1
  <2>1. x \in 0..(2 * SeqMod - 1)
    BY <1>3
  <2> HIDE DEF x
  <2>2. x % SeqMod = IF x < SeqMod THEN x ELSE x - SeqMod
    BY <1>1, <2>1, Wraps
  <2> QED BY <1>1, <2>2 DEF x
<1> QED BY <1>2, <1>4 DEF After, Seqs

\* Frames are numbered from 1.
LEMMA TsOfPacket ==
  ASSUME NEW n \in 1..Horizon
  PROVE  TsOf(n) \in 1..Horizon
<1>1. FrameSize \in Nat \ {0} /\ Horizon \in Nat
  BY JbAssumption
<1>2. (n - 1) \div FrameSize \in 0..n - 1
  BY <1>1
<1> QED BY <1>1, <1>2 DEF TsOf

\* The first of some numbers.
LEMMA Least ==
  ASSUME NEW S, S \subseteq Nat, S # {}
  PROVE  Min(S) \in S
<1>1. \E x \in S : \A y \in S : ~(<<y, x>> \in OpToRel(<, Nat))
  BY NatLessThanWellFounded, WFMin
<1>2. PICK x \in S : \A y \in S : ~(<<y, x>> \in OpToRel(<, Nat))
  BY <1>1
<1>3. \A y \in S : ~(y < x)
  <2>1. ASSUME NEW y \in S, y < x
        PROVE  <<y, x>> \in OpToRel(<, Nat)
    BY <2>1 DEF OpToRel
  <2> QED BY <1>2, <2>1
<1>4. \A y \in S : x =< y
  BY <1>3
<1> QED BY <1>4 DEF Min

\* A count within its width is itself.
LEMMA Counts ==
  ASSUME NEW k \in 0..CountMod - 1
  PROVE  Count(k) = k
<1>1. CountMod \in Nat
  BY JbAssumption
<1> QED BY <1>1 DEF Count

-----------------------------------------------------------------------------
(***************************************************************************)
(* The nodes, and what complete_frames counts                              *)
(***************************************************************************)

Packets == (1..Horizon) \X (1..Nodes)
\* max_frame_len is one of those it was created with or set to.
FrameLimits == {l[2] : l \in JbLimits \cup {JbFrames[jbType]}}

\* How the sets of nodes nest; numbers are within 16 bits.
Sets(b) ==
  /\ b.node_list \subseteq Packets /\ b.hashed \subseteq b.node_list /\ b.version1 \subseteq b.node_list
  /\ b.allocated_nodes \in 0..Nodes /\ Cardinality(b.node_list) <= b.allocated_nodes
  /\ b.target_seq \in Seqs /\ b.next_seq \in Seqs /\ b.missing_seq_hash \subseteq Seqs
  /\ b.max_frame_len \in FrameLimits

\* A frame is counted when the next begins, so there are no more of them than
\* time stamps; those whose first packet is there are counted.
VideoCount(b) ==
  /\ b.write_init \in BOOLEAN /\ b.highest_wrote_ts \in 0..Horizon
  /\ b.complete_frames \in Nat /\ b.complete_frames <= b.highest_wrote_ts
  /\ Cardinality(b.version1) <= b.complete_frames
  /\ ~b.write_init => b.complete_frames = 0

\* Packets are counted one by one.
PlainCount(b) == b.complete_frames \in Nat /\ b.complete_frames <= Cardinality(b.node_list)

\* The nodes are finitely many.
LEMMA NodesFinite ==
  ASSUME NEW S, S \subseteq Packets
  PROVE  IsFiniteSet(S) /\ Cardinality(S) \in Nat
<1>1. IsFiniteSet(1..Horizon) /\ IsFiniteSet(1..Nodes)
  <2>1. Horizon \in Int /\ Nodes \in Int /\ 1 \in Int
    BY JbAssumption
  <2> QED BY <2>1, FS_Interval
<1>2. IsFiniteSet(Packets)
  BY <1>1, FS_Product DEF Packets
<1>3. IsFiniteSet(S)
  BY <1>2, FS_Subset
<1> QED BY <1>3, FS_CardinalityType

\* A part of the nodes is no more than the whole.
LEMMA FewerNodes ==
  ASSUME NEW S, NEW T, S \subseteq T, T \subseteq Packets
  PROVE  Cardinality(S) <= Cardinality(T)
BY NodesFinite, FS_Subset

\* What leaves nodes, counts and limits alone keeps what is known of them.
LEMMA SameKeeps ==
  ASSUME NEW b, NEW c, Same(b, c), c.target_seq \in Seqs, Sets(b)
  PROVE  Sets(c) /\ (VideoCount(b) => VideoCount(c)) /\ (PlainCount(b) => PlainCount(c))
BY DEF Same, SameNodes, SameCount, SameLimits, SameAsked, Sets, VideoCount, PlainCount

\* An empty buffer is in order.
LEMMA EmptiedKeeps ==
  ASSUME NEW b, NEW c, Emptied(b, c), SameLimits(b, c), Sets(b), c.target_seq \in Seqs, c.next_seq \in Seqs
  PROVE  Sets(c)
<1>1. Cardinality({}) = 0
  BY FS_EmptySet
<1>2. c.missing_seq_hash \subseteq Seqs
  BY DEF Emptied, Sets
<1>3. c.allocated_nodes \in 0..Nodes /\ Cardinality(c.node_list) <= c.allocated_nodes
  BY <1>1, JbAssumption DEF Emptied, Sets
<1> QED BY <1>2, <1>3 DEF Emptied, SameLimits, Sets

\* So is one that was reset.
LEMMA ResetKeeps ==
  ASSUME NEW b, Whole(b), Sets(b)
  PROVE  /\ Whole(switch_jb_reset(b)) /\ Sets(switch_jb_reset(b))
         /\ VideoCount(switch_jb_reset(b)) /\ PlainCount(switch_jb_reset(b))
<1> DEFINE c == switch_jb_reset(b)
<1>1. Emptied(b, c) /\ ClearedIn(c) /\ SameLimits(b, c)
  BY Reset
<1>2. SeqMod \in Nat /\ SeqMod > 0 /\ Horizon \in Nat
  BY JbAssumption
<1>3. c.target_seq \in Seqs /\ c.next_seq \in Seqs
  BY <1>1, <1>2 DEF ClearedIn, Seqs
<1>4. Sets(c)
  BY <1>1, <1>3, EmptiedKeeps
<1>5. Cardinality({}) = 0
  BY FS_EmptySet
<1>6. /\ c.write_init = FALSE /\ c.highest_wrote_ts = 0 /\ c.complete_frames = 0
      /\ c.version1 = {} /\ c.node_list = {}
  BY <1>1 DEF Emptied, ClearedIn
<1>7. Cardinality(c.version1) = 0 /\ Cardinality(c.node_list) = 0
  BY <1>5, <1>6
<1>8. c.write_init \in BOOLEAN /\ c.complete_frames \in Nat /\ c.highest_wrote_ts \in 0..Horizon
  <2> HIDE DEF c
  <2>1. c.write_init \in BOOLEAN
    BY <1>6, Zenon
  <2>2. c.complete_frames \in Nat
    BY <1>6
  <2>3. c.highest_wrote_ts \in 0..Horizon
    BY <1>2, <1>6
  <2> QED BY <2>1, <2>2, <2>3
<1>9. VideoCount(c)
  BY <1>6, <1>7, <1>8 DEF VideoCount
<1>10. PlainCount(c)
  BY <1>6, <1>7 DEF PlainCount
<1> QED BY <1>1, <1>4, <1>9, <1>10 DEF Emptied

\* hide_node.
LEMMA HideKeeps ==
  ASSUME NEW b, Whole(b), Sets(b), NEW s \in b.node_list
  PROVE  /\ Whole(hide_node(b, s)) /\ Sets(hide_node(b, s)) /\ SameAsked(b, hide_node(b, s))
         /\ hide_node(b, s).node_list = b.node_list \ {s}
         /\ IsVideo /\ VideoCount(b) => VideoCount(hide_node(b, s))
         /\ ~IsVideo => hide_node(b, s).complete_frames = b.complete_frames
<1> DEFINE c == hide_node(b, s)
           entry == Found(b, SeqNo(s))
<1>1. /\ Whole(c) /\ SameLimits(b, c) /\ SameAsked(b, c)
      /\ c.node_list = b.node_list \ {s} /\ c.hashed = b.hashed \ entry /\ c.version1 = b.version1 \ {s}
      /\ c.allocated_nodes = b.allocated_nodes /\ c.target_seq = b.target_seq
      /\ c.write_init = b.write_init /\ c.highest_wrote_ts = b.highest_wrote_ts
      /\ c.complete_frames = IF IsVideo /\ entry # {} /\ s \in b.version1
                             THEN Count(b.complete_frames - 1) ELSE b.complete_frames
  BY DEF Whole, Fields, SameLimits, SameAsked, hide_node
<1>2. s \in b.hashed => s \in entry
  BY DEF Found
<1>3. c.hashed \subseteq c.node_list /\ c.version1 \subseteq c.node_list /\ c.node_list \subseteq Packets
  BY <1>1, <1>2 DEF Sets
<1>4. Cardinality(c.node_list) <= Cardinality(b.node_list)
      /\ Cardinality(c.node_list) \in Nat /\ Cardinality(b.node_list) \in Nat
  BY <1>1, <1>3, FewerNodes, NodesFinite DEF Sets
<1>5. Cardinality(c.node_list) <= c.allocated_nodes /\ c.allocated_nodes \in 0..Nodes
  BY <1>1, <1>4, JbAssumption DEF Sets
<1>6. Sets(c)
  BY <1>1, <1>3, <1>5 DEF Sets, SameLimits, SameAsked
<1>7. ASSUME IsVideo, VideoCount(b)
      PROVE  VideoCount(c)
  <2>1. b.version1 \subseteq Packets
    BY DEF Sets
  <2>2. IsFiniteSet(b.version1) /\ Cardinality(b.version1) \in Nat
    BY <2>1, NodesFinite
  <2>3. CASE s \in b.version1
    <3>1. Cardinality(c.version1) = Cardinality(b.version1) - 1
      BY <1>1, <2>2, <2>3, FS_RemoveElement
    <3>2. Horizon < CountMod /\ CountMod \in Nat /\ Horizon \in Nat
      BY JbAssumption, SpanAssumption
    <3>3. b.complete_frames \in 1..Horizon
      BY <1>7, <2>2, <2>3, <3>1, <3>2, <1>1, NodesFinite, FS_EmptySet DEF VideoCount
    <3>4. Count(b.complete_frames - 1) = b.complete_frames - 1
      BY <3>2, <3>3, Counts
    <3>5. c.complete_frames \in {b.complete_frames, b.complete_frames - 1}
      BY <1>1, <3>4
    <3> QED BY <1>1, <1>7, <2>2, <3>1, <3>2, <3>3, <3>5 DEF VideoCount
  <2>4. CASE s \notin b.version1
    <3>1. c.version1 = b.version1 /\ c.complete_frames = b.complete_frames
      BY <1>1, <2>4
    <3> QED BY <1>1, <1>7, <3>1 DEF VideoCount
  <2> QED BY <2>3, <2>4
<1> QED BY <1>1, <1>6, <1>7

\* The packet of a node.
LEMMA PacketOf ==
  ASSUME base \in Bases, NEW s \in Packets
  PROVE  s[1] \in 1..Horizon /\ s[1] \in 0..SeqMod - 1 /\ SeqNo(s) \in Seqs /\ Ts(s) \in 1..Horizon
<1>1. Horizon \in Nat /\ Ahead \in Nat /\ Tries \in Nat /\ SeqMod \in Nat /\ Horizon + Ahead + 2 * Tries < SeqMod
      /\ base \in 0..SeqMod - 1
  BY JbAssumption
<1>2. s[1] \in 1..Horizon
  BY DEF Packets
<1>3. s[1] \in 0..SeqMod - 1
  BY <1>1, <1>2
<1> QED BY <1>1, <1>2, <1>3, SeqOfPacket, TsOfPacket DEF SeqNo, Ts

\* Hiding the nodes of a time stamp: whichever of them uncount a frame, they are
\* among those that start one.
LEMMA DropTsKeeps ==
  ASSUME NEW b, Whole(b), Sets(b), VideoCount(b), NEW t, NEW counted \in Counted(b, t)
  PROVE  /\ Whole(drop_ts(b, t, counted)) /\ Sets(drop_ts(b, t, counted))
         /\ VideoCount(drop_ts(b, t, counted)) /\ SameAsked(b, drop_ts(b, t, counted))
         /\ drop_ts(b, t, counted).node_list \subseteq b.node_list
<1> DEFINE c == drop_ts(b, t, counted)
           gone == OfTs(b, t)
<1>1. /\ Whole(c) /\ SameLimits(b, c) /\ SameAsked(b, c)
      /\ c.node_list = b.node_list \ gone /\ c.hashed = b.hashed \ gone /\ c.version1 = b.version1 \ gone
      /\ c.allocated_nodes = b.allocated_nodes /\ c.target_seq = b.target_seq
      /\ c.write_init = b.write_init /\ c.highest_wrote_ts = b.highest_wrote_ts
      /\ c.complete_frames = Count(b.complete_frames - Cardinality(counted))
  BY DEF Whole, Fields, SameLimits, SameAsked, drop_ts
<1>2. counted \subseteq gone \cap b.version1
  BY DEF Counted
<1> HIDE DEF c, gone
<1>3. c.node_list \subseteq Packets /\ c.hashed \subseteq c.node_list /\ c.version1 \subseteq c.node_list
  BY <1>1 DEF Sets
<1>4. Cardinality(c.node_list) <= Cardinality(b.node_list)
      /\ Cardinality(c.node_list) \in Nat /\ Cardinality(b.node_list) \in Nat
  BY <1>1, <1>3, FewerNodes, NodesFinite DEF Sets
<1>5. Cardinality(c.node_list) <= c.allocated_nodes /\ c.allocated_nodes \in 0..Nodes
  BY <1>1, <1>4, JbAssumption DEF Sets
<1>6. Sets(c)
  BY <1>1, <1>3, <1>5 DEF Sets, SameLimits, SameAsked
<1>7. b.version1 \subseteq Packets /\ counted \subseteq b.version1 /\ c.version1 \subseteq b.version1 \ counted
  BY <1>1, <1>2 DEF Sets
<1>8. /\ Cardinality(b.version1) \in Nat /\ Cardinality(counted) \in Nat /\ Cardinality(c.version1) \in Nat
      /\ Cardinality(b.version1 \ counted) = Cardinality(b.version1) - Cardinality(counted)
      /\ Cardinality(c.version1) <= Cardinality(b.version1 \ counted)
  <2>1. b.version1 \ counted \subseteq Packets /\ counted \subseteq Packets /\ c.version1 \subseteq Packets
    BY <1>7
  <2>2. IsFiniteSet(b.version1) /\ b.version1 \cap counted = counted
    BY <1>7, NodesFinite
  <2>3. Cardinality(b.version1 \ counted) = Cardinality(b.version1) - Cardinality(b.version1 \cap counted)
    BY <2>2, FS_Difference
  <2> QED BY <1>7, <2>1, <2>2, <2>3, NodesFinite, FewerNodes
<1>9. Horizon < CountMod /\ CountMod \in Nat /\ Horizon \in Nat
  BY JbAssumption, SpanAssumption
<1>10. /\ b.complete_frames \in Nat /\ b.complete_frames <= Horizon
       /\ Cardinality(b.version1) <= b.complete_frames /\ Cardinality(counted) <= Cardinality(b.version1)
  <2>1. Cardinality(counted) <= Cardinality(b.version1)
    BY <1>7, FewerNodes
  <2> QED BY <1>9, <2>1 DEF VideoCount
<1>11. c.complete_frames = b.complete_frames - Cardinality(counted)
  <2>1. b.complete_frames - Cardinality(counted) \in 0..CountMod - 1
    BY <1>8, <1>9, <1>10
  <2> QED BY <1>1, <2>1, Counts
<1>12. VideoCount(c)
  <2>1. c.complete_frames \in Nat /\ c.complete_frames <= c.highest_wrote_ts
        /\ Cardinality(c.version1) <= c.complete_frames
    BY <1>1, <1>8, <1>9, <1>10, <1>11 DEF VideoCount
  <2>2. c.write_init \in BOOLEAN /\ c.highest_wrote_ts \in 0..Horizon
    BY <1>1 DEF VideoCount
  <2>3. ASSUME ~c.write_init
        PROVE  c.complete_frames = 0
    <3>1. b.complete_frames = 0
      BY <1>1, <2>3 DEF VideoCount
    <3> QED BY <1>8, <1>10, <1>11, <3>1
  <2> QED BY <2>1, <2>2, <2>3 DEF VideoCount
<1> QED BY <1>1, <1>6, <1>12 DEF c

\* The packet that leaves: counted off from what was not 0.
LEMMA TakenKeeps ==
  ASSUME base \in Bases, NEW b, Whole(b), Sets(b), NEW s \in b.node_list
  PROVE  /\ Whole(Taken(b, s)) /\ Sets(Taken(b, s)) /\ SameAsked(b, Taken(b, s))
         /\ Taken(b, s).node_list = b.node_list \ {s}
         /\ IsVideo /\ VideoCount(b) => VideoCount(Taken(b, s))
         /\ ~IsVideo /\ PlainCount(b) /\ b.complete_frames # 0 => PlainCount(Taken(b, s))
<1>1. s \in Packets
  BY DEF Sets
<1>2. After(SeqNo(s)) \in Seqs
  BY <1>1, PacketOf, AfterSeq
<1>3. CASE IsVideo
  <2>1. PICK c : Taken(b, s) = hide_node(c, s) /\ Same(b, c) /\ c.target_seq = After(SeqNo(s))
    <3> DEFINE highest == IF ~b.read_init \/ check_seq(SeqNo(s), b.highest_read_seq)
                          THEN SeqNo(s) ELSE b.highest_read_seq
               newer == ~b.read_init \/ (check_seq(SeqNo(s), highest) /\ Ts(s) > b.highest_read_ts)
               c == [[b EXCEPT !.read_init = TRUE, !.highest_read_seq = highest,
                               !.highest_read_ts = IF newer THEN Ts(s) ELSE @]
                     EXCEPT !.target_seq = After(SeqNo(s))]
    <3>1. Taken(b, s) = hide_node(c, s)
      BY <1>3 DEF Taken
    <3> HIDE DEF highest, newer
    <3>2. Same(b, c) /\ c.target_seq = After(SeqNo(s))
      BY DEF Whole, Fields, Same, SameNodes, SameCount, SameLimits, SameAsked
    <3> QED BY <3>1, <3>2
  <2>2. Whole(c) /\ Sets(c) /\ (VideoCount(b) => VideoCount(c)) /\ s \in c.node_list
        /\ c.node_list = b.node_list /\ SameAsked(b, c)
    BY <1>2, <2>1, SameKeeps DEF Same, SameNodes
  <2> QED BY <1>3, <2>1, <2>2, HideKeeps DEF SameAsked
<1>4. CASE ~IsVideo
  <2>1. PICK c : /\ Taken(b, s) = hide_node(c, s)
                 /\ Whole(c) /\ SameNodes(b, c) /\ SameLimits(b, c) /\ SameAsked(b, c)
                 /\ c.target_seq = After(SeqNo(s)) /\ c.complete_frames = Count(b.complete_frames - 1)
    <3> DEFINE c == [[b EXCEPT !.complete_frames = Count(@ - 1)] EXCEPT !.target_seq = After(SeqNo(s))]
    <3>1. Taken(b, s) = hide_node(c, s)
      BY <1>4 DEF Taken
    <3>2. /\ Whole(c) /\ SameNodes(b, c) /\ SameLimits(b, c) /\ SameAsked(b, c)
          /\ c.target_seq = After(SeqNo(s)) /\ c.complete_frames = Count(b.complete_frames - 1)
      BY DEF Whole, Fields, SameNodes, SameLimits, SameAsked
    <3> QED BY <3>1, <3>2
  <2>2. Sets(c) /\ s \in c.node_list
    BY <1>2, <2>1 DEF Sets, SameNodes, SameLimits, SameAsked
  <2>3. ASSUME PlainCount(b), b.complete_frames # 0
        PROVE  PlainCount(Taken(b, s))
    <3>1. IsFiniteSet(b.node_list) /\ Cardinality(b.node_list) \in Nat
      BY NodesFinite DEF Sets
    <3>2. Cardinality(b.node_list \ {s}) = Cardinality(b.node_list) - 1
      BY <3>1, FS_RemoveElement
    <3>3. Nodes \in Nat /\ CountMod \in Nat /\ Nodes < CountMod
      BY JbAssumption
    <3>4. b.complete_frames - 1 \in 0..CountMod - 1
      BY <2>3, <3>1, <3>3 DEF PlainCount, Sets
    <3>5. Taken(b, s).complete_frames = b.complete_frames - 1
      BY <1>4, <2>1, <2>2, <3>4, HideKeeps, Counts
    <3>6. Taken(b, s).node_list = b.node_list \ {s}
      BY <2>1, <2>2, HideKeeps DEF SameNodes
    <3> QED BY <2>3, <3>1, <3>2, <3>5, <3>6 DEF PlainCount
  <2> QED BY <1>4, <2>1, <2>2, <2>3, HideKeeps DEF SameNodes, SameAsked
<1> QED BY <1>3, <1>4

-----------------------------------------------------------------------------
(***************************************************************************)
(* switch_jb_get_packet                                                    *)
(***************************************************************************)

\* What a look for the next packet leaves as it should be.
Looks(b, p) ==
  /\ Whole(p.b) /\ Sets(p.b) /\ SameAsked(b, p.b) /\ p.b.node_list \subseteq b.node_list
  /\ p.s = None \/ p.s \in p.b.node_list
  /\ IsVideo => VideoCount(p.b)
  /\ ~IsVideo => p.b.complete_frames = b.complete_frames /\ p.b.node_list = b.node_list

\* A buffer that differs in its target and what is not looked at here.
LEMMA Aside ==
  ASSUME NEW b, NEW c, NEW s, NEW anew, Same(b, c), Sets(b), IsVideo => VideoCount(b),
         c.target_seq \in Seqs, s = None \/ s \in b.node_list
  PROVE  Looks(b, Chosen(c, s, anew))
<1>1. Sets(c) /\ (IsVideo => VideoCount(c))
  BY SameKeeps
<1>2. Chosen(c, s, anew).b = c /\ Chosen(c, s, anew).s = s
  BY DEF Chosen
<1> QED BY <1>1, <1>2 DEF Looks, Same, SameNodes, SameCount

\* A search that starts anew finds a node of the buffer or none.
LEMMA StartLooks ==
  ASSUME NEW b, Whole(b), Sets(b), IsVideo => VideoCount(b), NEW p \in Start(b)
  PROVE  Looks(b, p)
<1>1. Anchors(b) \subseteq b.node_list
  BY DEF Anchors, Found, Lowest, Sets
<1>2. PICK s \in IF Anchors(b) = {} THEN {None} ELSE Anchors(b) : p = Chosen(jb_hit(b), s, TRUE)
  BY DEF Start
<1>3. s = None \/ s \in b.node_list
  BY <1>1, <1>2
<1>4. Same(b, jb_hit(b)) /\ jb_hit(b).target_seq \in Seqs
  BY HitAside DEF Sets
<1> QED BY <1>2, <1>3, <1>4, Aside

\* So does one that skips what is missing; it may reset the buffer on the way.
LEMMA SkipAheadLooks ==
  ASSUME base \in Bases, NEW b, Whole(b), Sets(b), IsVideo, VideoCount(b), NEW p \in SkipAhead(b)
  PROVE  Looks(b, p)
<1> DEFINE b1 == jb_miss(b)
           b2 == IF b1.period.miss > 1 /\ ~b1.period.inc
                 THEN [jb_frame_inc(b1, 1) EXCEPT !.period.inc = TRUE] ELSE b1
           Later(x) == (b.target_seq + x) % SeqMod
           hits == {x \in 1 .. Tries : Found(b, Later(x)) # {}}
<1>1. Same(b, b1) /\ b1.target_seq = b.target_seq
  BY MissAside
<1>2. Same(b, b2) /\ b2.target_seq = b.target_seq
  <2>1. Same(b1, jb_frame_inc(b1, 1)) /\ jb_frame_inc(b1, 1).target_seq = b1.target_seq
    BY <1>1, LengthAside DEF Same
  <2> DEFINE longer == jb_frame_inc(b1, 1)
  <2> HIDE DEF b1, longer
  <2>2. Same(b, [longer EXCEPT !.period.inc = TRUE])
        /\ [longer EXCEPT !.period.inc = TRUE].target_seq = b.target_seq
    BY <1>1, <2>1 DEF longer, Whole, Fields, Same, SameNodes, SameCount, SameLimits, SameAsked
  <2> QED BY <1>1, <2>2 DEF longer
<1>3. Sets(b2) /\ VideoCount(b2) /\ Whole(b2)
  <2> HIDE DEF b2
  <2>1. b2.target_seq \in Seqs
    BY <1>2 DEF Sets
  <2> QED BY <1>2, <2>1, SameKeeps DEF Same
<1>4. CASE hits = {}
  <2>1. p = Chosen([b2 EXCEPT !.target_seq = Later(Tries)], None, FALSE)
    BY <1>4 DEF SkipAhead
  <2>2. Later(Tries) \in Seqs
    BY JbAssumption DEF Sets, Seqs
  <2> DEFINE c == [b2 EXCEPT !.target_seq = Later(Tries)]
  <2>3. Same(b, c) /\ c.target_seq \in Seqs
    <3> HIDE DEF b2, Later
    <3> QED BY <1>2, <2>2 DEF Whole, Fields, Same, SameNodes, SameCount, SameLimits, SameAsked
  <2> QED BY <2>1, <2>3, Aside
<1>5. CASE hits # {}
  <2>1. PICK s \in Found(b, Later(Min(hits))) :
          p \in IF MarkOf(s[1]) \/ Ts(s) = b.highest_read_ts
                THEN UNION {Start([drop_ts(b2, Ts(s), c) EXCEPT !.target_seq = 0])
                            : c \in Counted(b, Ts(s))}
                ELSE {Chosen([b2 EXCEPT !.target_seq = Later(Min(hits))], s, FALSE)}
    BY <1>5 DEF SkipAhead
  <2>2. s \in b.node_list /\ SeqNo(s) = Later(Min(hits))
    BY <2>1 DEF Found, Sets
  <2>3. CASE MarkOf(s[1]) \/ Ts(s) = b.highest_read_ts
    <3>1. PICK counted \in Counted(b, Ts(s)) : p \in Start([drop_ts(b2, Ts(s), counted) EXCEPT !.target_seq = 0])
      BY <2>1, <2>3
    <3>2. counted \in Counted(b2, Ts(s))
      <4>1. b2.node_list = b.node_list /\ b2.hashed = b.hashed /\ b2.version1 = b.version1
        BY <1>2 DEF Same, SameNodes
      <4> HIDE DEF b2
      <4> QED BY <3>1, <4>1 DEF Counted, OfTs, Found
    <3> DEFINE c == drop_ts(b2, Ts(s), counted)
    <3>3. Whole(c) /\ Sets(c) /\ VideoCount(c) /\ SameAsked(b2, c) /\ c.node_list \subseteq b2.node_list
      BY <1>3, <3>2, DropTsKeeps
    <3> DEFINE d == [c EXCEPT !.target_seq = 0]
    <3>4. Same(c, d) /\ d.target_seq \in Seqs
      <4> HIDE DEF c
      <4>1. 0 \in Seqs
        BY JbAssumption DEF Seqs
      <4>2. Same(c, [c EXCEPT !.target_seq = 0]) /\ [c EXCEPT !.target_seq = 0].target_seq = 0
        BY ONLY <3>3, AimAside
      <4> QED BY <4>1, <4>2
    <3>5. Whole(d) /\ Sets(d) /\ VideoCount(d)
      <4> HIDE DEF c, d
      <4>1. Sets(d) /\ (VideoCount(c) => VideoCount(d))
        BY ONLY <3>3, <3>4, SameKeeps, Zenon
      <4>2. Whole(d)
        BY ONLY <3>4 DEF Same
      <4> QED BY <3>3, <4>1, <4>2
    <3>6. Looks(d, p)
      BY <3>1, <3>5, StartLooks
    <3> HIDE DEF c, d, b2
    <3>7. SameAsked(b, d) /\ d.node_list \subseteq b.node_list
      BY <1>2, <3>3, <3>4 DEF Same, SameNodes, SameAsked
    <3> QED BY <3>6, <3>7 DEF Looks, SameAsked
  <2>4. CASE ~(MarkOf(s[1]) \/ Ts(s) = b.highest_read_ts)
    <3>1. p = Chosen([b2 EXCEPT !.target_seq = Later(Min(hits))], s, FALSE)
      BY <2>1, <2>4
    <3>2. Later(Min(hits)) \in Seqs
      BY <2>2, PacketOf DEF Sets
    <3> DEFINE c == [b2 EXCEPT !.target_seq = Later(Min(hits))]
    <3>3. Same(b, c) /\ c.target_seq \in Seqs
      <4> HIDE DEF b2, Later, hits
      <4> QED BY <1>2, <3>2 DEF Whole, Fields, Same, SameNodes, SameCount, SameLimits, SameAsked
    <3> QED BY <2>2, <3>1, <3>3, Aside
  <2> QED BY <2>3, <2>4
<1> QED BY <1>4, <1>5

\* So does the search for the next packet,
LEMMA NextLooks ==
  ASSUME base \in Bases, NEW b, Whole(b), Sets(b), IsVideo => VideoCount(b), NEW p \in jb_next_packet(b)
  PROVE  Looks(b, p)
<1>1. CASE b.target_seq = 0
  BY <1>1, StartLooks DEF jb_next_packet
<1>2. CASE b.target_seq # 0 /\ Found(b, b.target_seq) # {}
  <2>1. PICK s \in Found(b, b.target_seq) : p = Chosen(jb_hit(b), s, FALSE)
    BY <1>2 DEF jb_next_packet
  <2>2. s \in b.node_list
    BY <2>1 DEF Found, Sets
  <2>3. Same(b, jb_hit(b)) /\ jb_hit(b).target_seq \in Seqs
    BY HitAside DEF Sets
  <2> QED BY <2>1, <2>2, <2>3, Aside
<1>3. CASE b.target_seq # 0 /\ Found(b, b.target_seq) = {} /\ IsVideo
  BY <1>3, SkipAheadLooks DEF jb_next_packet
<1>4. CASE b.target_seq # 0 /\ Found(b, b.target_seq) = {} /\ ~IsVideo
  <2> DEFINE m == jb_miss(b)
             c == [m EXCEPT !.target_seq = After(@)]
  <2>1. p = Chosen(c, None, FALSE)
    BY <1>4 DEF jb_next_packet
  <2>2. Same(b, m) /\ m.target_seq = b.target_seq
    BY MissAside
  <2>3. After(b.target_seq) \in Seqs
    BY AfterSeq DEF Sets
  <2>4. Same(b, c) /\ c.target_seq \in Seqs
    <3> HIDE DEF m
    <3> QED BY <2>2, <2>3 DEF Whole, Fields, Same, SameNodes, SameCount, SameLimits, SameAsked
  <2> QED BY <2>1, <2>4, Aside
<1> QED BY <1>1, <1>2, <1>3, <1>4

\* and the whole of what a get does before it takes a node.
LEMMA LookedLooks ==
  ASSUME base \in Bases, Whole(jb), Sets(jb), IsVideo => VideoCount(jb), NEW p \in Looked
  PROVE  Looks(jb, p)
<1> DEFINE c == NextPeriod(Polled(jb))
<1>1. Same(jb, Polled(jb)) /\ Polled(jb).target_seq = jb.target_seq
  BY PollAside
<1>2. Same(Polled(jb), c) /\ c.target_seq = jb.target_seq
  BY <1>1, PeriodAside DEF Same
<1> HIDE DEF c
<1>3. Same(jb, c)
  BY <1>1, <1>2 DEF Same, SameNodes, SameCount, SameLimits, SameAsked
<1>4. Whole(c) /\ Sets(c) /\ (IsVideo => VideoCount(c))
  BY <1>2, <1>3, SameKeeps DEF Same, Sets
<1>5. Looks(c, p)
  BY <1>4, NextLooks DEF Looked, c
<1> QED BY <1>3, <1>5 DEF Looks, Same, SameNodes, SameCount, SameAsked

-----------------------------------------------------------------------------
(***************************************************************************)
(* switch_jb_put_packet                                                    *)
(***************************************************************************)

\* With fewer nodes visible than there are, one is left for the packet.
LEMMA NodeLeft ==
  ASSUME NEW b, NEW n \in 1..Horizon, Sets(b), Cardinality(b.node_list) < Nodes
  PROVE  NewNode(b, n) \in Packets /\ NewNode(b, n)[1] = n /\ NewNode(b, n) \notin b.node_list
<1>1. \E k \in 1..Nodes : <<n, k>> \notin b.node_list
  <2>1. SUFFICES ASSUME \A k \in 1..Nodes : <<n, k>> \in b.node_list
                 PROVE  FALSE
    OBVIOUS
  <2>2. {n} \X (1..Nodes) \subseteq b.node_list
    <3> SUFFICES ASSUME NEW p \in {n} \X (1..Nodes)
                 PROVE  p \in b.node_list
      OBVIOUS
    <3>1. PICK k \in 1..Nodes : p = <<n, k>>
      OBVIOUS
    <3> QED BY ONLY <2>1, <3>1
  <2>3. Nodes \in Nat /\ IsFiniteSet({n}) /\ Cardinality({n}) = 1
    BY JbAssumption, FS_Singleton
  <2>4. IsFiniteSet(1..Nodes) /\ Cardinality(1..Nodes) = Nodes
    BY <2>3, FS_Interval
  <2>5. Cardinality({n} \X (1..Nodes)) = 1 * Nodes
    <3>1. Cardinality({n} \X (1..Nodes)) = Cardinality({n}) * Cardinality(1..Nodes)
      BY ONLY <2>3, <2>4, FS_Product, Zenon
    <3> QED BY ONLY <2>3, <2>4, <3>1
  <2>6. Cardinality({n} \X (1..Nodes)) <= Cardinality(b.node_list)
    BY <2>2, FewerNodes DEF Sets
  <2> QED BY <2>3, <2>5, <2>6, NodesFinite DEF Sets
<1> DEFINE k == CHOOSE k \in 1..Nodes : <<n, k>> \notin b.node_list
<1>2. k \in 1..Nodes /\ <<n, k>> \notin b.node_list
  BY <1>1
<1>3. NewNode(b, n) = <<n, k>>
  BY DEF NewNode
<1> HIDE DEF k
<1> QED BY <1>2, <1>3 DEF Packets

\* There is a node to put a packet in, hidden or new.
Room(b) == HasFree(b) \/ b.allocated_nodes < Nodes

\* A packet put into a node of the buffer is held once more.
LEMMA InNodeKeeps ==
  ASSUME NEW b, NEW n \in 1..Horizon, Whole(b), Sets(b), Room(b)
  PROVE  LET s == NewNode(b, n)  c == InNode(b, n) IN
         /\ Whole(c) /\ Sets(c) /\ SameCount(b, c) /\ SameAsked(b, c)
         /\ s[1] = n /\ s \in c.node_list /\ c.node_list = b.node_list \cup {s}
         /\ c.version1 = b.version1 /\ Cardinality(c.node_list) = Cardinality(b.node_list) + 1
         /\ c.target_seq = b.target_seq
<1> DEFINE s == NewNode(b, n)
           c == InNode(b, n)
<1>1. /\ Whole(c) /\ SameCount(b, c) /\ SameAsked(b, c) /\ SameLimits(b, c)
      /\ c.node_list = b.node_list \cup {s} /\ c.version1 = b.version1
      /\ c.hashed = (b.hashed \ Found(b, SeqOf(n))) \cup {s} /\ c.target_seq = b.target_seq
      /\ c.allocated_nodes = IF HasFree(b) THEN b.allocated_nodes ELSE b.allocated_nodes + 1
  BY DEF Whole, Fields, SameCount, SameAsked, SameLimits, InNode
<1>2. IsFiniteSet(b.node_list) /\ Cardinality(b.node_list) \in Nat
  BY NodesFinite DEF Sets
<1>3. Nodes \in Nat
  BY JbAssumption
<1>4. Cardinality(b.node_list) < Nodes
  BY <1>2, <1>3 DEF Sets, Room, HasFree
<1>5. s \in Packets /\ s[1] = n /\ s \notin b.node_list
  BY <1>4, NodeLeft
<1> HIDE DEF s, c
<1>6. Cardinality(c.node_list) = Cardinality(b.node_list) + 1
  <2>1. Cardinality(b.node_list \cup {s}) = Cardinality(b.node_list) + 1
    BY <1>2, <1>5, FS_AddElement
  <2> QED BY <1>1, <2>1
<1>7. c.node_list \subseteq Packets /\ c.hashed \subseteq c.node_list /\ c.version1 \subseteq c.node_list
  BY <1>1, <1>5 DEF Sets
<1>8. c.allocated_nodes \in 0..Nodes /\ Cardinality(c.node_list) <= c.allocated_nodes
  BY <1>1, <1>2, <1>3, <1>6 DEF Sets, Room, HasFree
<1>9. Sets(c)
  BY <1>1, <1>7, <1>8 DEF Sets, SameAsked, SameLimits
<1> QED BY <1>1, <1>5, <1>6, <1>9 DEF s, c

\* A packet of video counts a frame when it is the first of its frame.
LEMMA WroteVideo ==
  ASSUME NEW b, NEW n \in 1..Horizon, NEW s, Whole(b), Sets(b), IsVideo, VideoCount(b),
         b.write_init => s \in b.node_list
  PROVE  LET c == Wrote(b, n, s) IN
         /\ Whole(c) /\ Sets(c) /\ SameAsked(b, c) /\ c.node_list = b.node_list /\ VideoCount(c)
         /\ c.target_seq = b.target_seq
<1> DEFINE q == SeqOf(n)
           w == b.highest_wrote_seq
           highest == IF ~b.write_init \/ q > w \/ (w > SeqMod - 1 - Change /\ q < Change)
                      THEN q ELSE w
           newer == b.write_init /\ check_seq(q, highest) /\ TsOf(n) > b.highest_wrote_ts
           count == Min({b.packet_count + 1, Nodes})
           c == [b EXCEPT !.packet_count = IF newer THEN 0 ELSE count,
                          !.max_packet_len = IF newer /\ count > @ THEN count ELSE @,
                          !.complete_frames = IF newer THEN Count(@ + 1) ELSE @,
                          !.version1 = IF newer THEN @ \cup {s} ELSE @,
                          !.highest_wrote_ts = IF newer \/ ~b.write_init THEN TsOf(n) ELSE @,
                          !.highest_wrote_seq = highest, !.write_init = TRUE]
<1>1. Wrote(b, n, s) = c
  BY DEF Wrote
<1>2. newer => b.write_init /\ TsOf(n) > b.highest_wrote_ts
  OBVIOUS
<1> HIDE DEF newer, highest, count
<1>3. /\ Whole(c) /\ SameAsked(b, c)
      /\ c.node_list = b.node_list /\ c.hashed = b.hashed /\ c.allocated_nodes = b.allocated_nodes
      /\ c.target_seq = b.target_seq /\ c.max_frame_len = b.max_frame_len
      /\ c.complete_frames = IF newer THEN Count(b.complete_frames + 1) ELSE b.complete_frames
      /\ c.version1 = IF newer THEN b.version1 \cup {s} ELSE b.version1
      /\ c.highest_wrote_ts = IF newer \/ ~b.write_init THEN TsOf(n) ELSE b.highest_wrote_ts
      /\ c.write_init = TRUE
  <2>0. Whole(c)
    BY ONLY Whole(b), ZenonT(60) DEF Whole, Fields
  <2>1. Whole(c) /\ SameAsked(b, c)
    BY ONLY Whole(b), <2>0 DEF Whole, Fields, SameAsked
  <2>2. /\ c.node_list = b.node_list /\ c.hashed = b.hashed
        /\ c.allocated_nodes = b.allocated_nodes
        /\ c.target_seq = b.target_seq /\ c.max_frame_len = b.max_frame_len
    BY ONLY Whole(b) DEF Whole, Fields
  <2>3. /\ c.complete_frames = IF newer THEN Count(b.complete_frames + 1) ELSE b.complete_frames
        /\ c.version1 = IF newer THEN b.version1 \cup {s} ELSE b.version1
    BY ONLY Whole(b) DEF Whole, Fields
  <2>4. /\ c.highest_wrote_ts = IF newer \/ ~b.write_init THEN TsOf(n) ELSE b.highest_wrote_ts
        /\ c.write_init = TRUE
    BY ONLY Whole(b) DEF Whole, Fields
  <2> QED BY ONLY <2>1, <2>2, <2>3, <2>4
<1> HIDE DEF c
<1>4. Sets(c)
  <2>1. c.version1 \subseteq c.node_list
    BY <1>2, <1>3 DEF Sets
  <2> QED BY <1>3, <2>1 DEF Sets, SameAsked
<1>5. /\ Horizon \in Nat /\ CountMod \in Nat /\ Horizon < CountMod /\ TsOf(n) \in 1..Horizon
      /\ b.complete_frames \in Nat /\ b.highest_wrote_ts \in 0..Horizon
      /\ b.complete_frames <= b.highest_wrote_ts /\ Cardinality(b.version1) <= b.complete_frames
      /\ (~b.write_init => b.complete_frames = 0)
  BY JbAssumption, SpanAssumption, TsOfPacket DEF VideoCount
<1>6. IsFiniteSet(b.version1) /\ Cardinality(b.version1) \in Nat
  BY NodesFinite DEF Sets
<1>7. c.write_init \in BOOLEAN /\ c.write_init
  BY <1>3, Zenon
<1>8. CASE newer
  <2>1. b.complete_frames + 1 \in 0..CountMod - 1 /\ b.complete_frames + 1 <= TsOf(n)
    BY <1>2, <1>5, <1>8
  <2>2. c.complete_frames = b.complete_frames + 1 /\ c.highest_wrote_ts = TsOf(n)
    BY <1>3, <1>8, <2>1, Counts
  <2>3. Cardinality(b.version1 \cup {s}) <= Cardinality(b.version1) + 1
        /\ Cardinality(b.version1 \cup {s}) \in Nat
    <3>1. CASE s \in b.version1
      <4>1. b.version1 \cup {s} = b.version1
        BY <3>1
      <4> QED BY <1>6, <4>1
    <3>2. CASE s \notin b.version1
      <4>1. Cardinality(b.version1 \cup {s}) = Cardinality(b.version1) + 1
        BY <1>6, <3>2, FS_AddElement
      <4> QED BY <1>6, <4>1
    <3> QED BY <3>1, <3>2
  <2>4. Cardinality(c.version1) <= c.complete_frames
    BY <1>3, <1>5, <1>6, <1>8, <2>2, <2>3
  <2> QED BY <1>1, <1>3, <1>4, <1>5, <1>7, <2>1, <2>2, <2>4 DEF VideoCount
<1>9. CASE ~newer
  <2>1. c.complete_frames = b.complete_frames /\ c.version1 = b.version1
    BY <1>3, <1>9
  <2>2. c.highest_wrote_ts \in 0..Horizon /\ c.complete_frames <= c.highest_wrote_ts
    BY <1>3, <1>5, <1>9
  <2> QED BY <1>1, <1>3, <1>4, <1>5, <1>7, <2>1, <2>2 DEF VideoCount
<1> QED BY <1>8, <1>9

\* A packet of audio or text is a frame.
LEMMA WroteOther ==
  ASSUME NEW b, NEW n, NEW s, Whole(b), Sets(b), ~IsVideo
  PROVE  LET c == Wrote(b, n, s) IN
         /\ Whole(c) /\ Sets(c) /\ SameAsked(b, c) /\ c.node_list = b.node_list
         /\ c.complete_frames = Count(b.complete_frames + 1) /\ c.target_seq = b.target_seq
<1> DEFINE c == [b EXCEPT !.complete_frames = Count(@ + 1)]
<1>1. Wrote(b, n, s) = c
  BY DEF Wrote
<1>2. /\ Whole(c) /\ SameNodes(b, c) /\ SameLimits(b, c) /\ SameAsked(b, c)
      /\ c.target_seq = b.target_seq /\ c.complete_frames = Count(b.complete_frames + 1)
  BY DEF Whole, Fields, SameNodes, SameLimits, SameAsked
<1> HIDE DEF c
<1> QED BY <1>1, <1>2 DEF Sets, SameNodes, SameLimits, SameAsked

\* What a packet leaves of the buffer: nothing, or itself beside the others.
Blank(c) == c.node_list = {} /\ c.next_seq = 0 /\ c.missing_seq_hash = {}

\* add_node keeps the count in agreement with the nodes; it may reset the buffer first.
LEMMA AddNodeKeeps ==
  ASSUME NEW b, NEW n \in 1..Horizon, Whole(b), Sets(b), IsVideo => VideoCount(b), TooMany(b) \/ Room(b)
  PROVE  LET c == add_node(b, n) IN
         /\ Whole(c) /\ Sets(c) /\ (IsVideo => VideoCount(c))
         /\ ~IsVideo /\ PlainCount(b) => PlainCount(c)
         /\ ~IsVideo => c.missing_seq_hash = b.missing_seq_hash
         /\ c.target_seq \in {b.target_seq, 0}
         /\ \A r \in c.node_list : r \in b.node_list \/ r[1] = n
         /\ IsVideo => \/ Blank(c)
                       \/ \E s : s[1] = n /\ c.node_list = b.node_list \cup {s} /\ SameAsked(b, c)
<1> DEFINE c == add_node(b, n)
           s == NewNode(b, n)
           kept == InNode(b, n)
<1>1. CASE TooMany(b)
  <2>1. c = switch_jb_reset(b)
    BY <1>1 DEF add_node
  <2> HIDE DEF c
  <2>2. Emptied(b, c) /\ ClearedIn(c) /\ Whole(c) /\ Sets(c) /\ VideoCount(c) /\ PlainCount(c)
    BY <2>1, Reset, ResetKeeps
  <2>3. /\ IsVideo => Blank(c)
        /\ ~IsVideo => c.missing_seq_hash = b.missing_seq_hash
        /\ c.target_seq = 0 /\ c.node_list = {}
    BY <2>2 DEF Emptied, ClearedIn, Blank
  <2> QED BY <2>2, <2>3 DEF c
<1>2. CASE ~TooMany(b)
  <2>1. /\ Whole(kept) /\ Sets(kept) /\ SameCount(b, kept) /\ SameAsked(b, kept)
        /\ s[1] = n /\ s \in kept.node_list /\ kept.node_list = b.node_list \cup {s}
        /\ kept.version1 = b.version1 /\ Cardinality(kept.node_list) = Cardinality(b.node_list) + 1
        /\ kept.target_seq = b.target_seq
    BY <1>2, InNodeKeeps
  <2>2. CASE Jumped(kept, SeqOf(n))
    <3>1. IsVideo
      BY <2>2 DEF Jumped
    <3> DEFINE r == switch_jb_reset(kept)
    <3>2. c = Wrote(r, n, s)
      BY <1>2, <2>2 DEF add_node
    <3>3. Emptied(kept, r) /\ ClearedIn(r) /\ Whole(r) /\ Sets(r) /\ VideoCount(r)
      BY <2>1, Reset, ResetKeeps
    <3> HIDE DEF c, r, s
    <3>4. ~r.write_init
      BY <3>3 DEF ClearedIn
    <3>5. Whole(c) /\ Sets(c) /\ SameAsked(r, c) /\ c.node_list = r.node_list /\ VideoCount(c)
          /\ c.target_seq = r.target_seq
      BY <3>1, <3>2, <3>3, <3>4, WroteVideo
    <3>6. Blank(c) /\ c.target_seq = 0 /\ c.node_list = {}
      BY <3>1, <3>3, <3>5 DEF Emptied, ClearedIn, SameAsked, Blank
    <3> QED BY <3>1, <3>5, <3>6 DEF c
  <2>3. CASE ~Jumped(kept, SeqOf(n))
    <3>1. c = Wrote(kept, n, s)
      BY <1>2, <2>3 DEF add_node
    <3> HIDE DEF c, s, kept
    <3>2. CASE IsVideo
      <4>1. VideoCount(kept)
        BY <2>1, <3>2 DEF VideoCount, SameCount
      <4>2. Whole(c) /\ Sets(c) /\ SameAsked(kept, c) /\ c.node_list = kept.node_list /\ VideoCount(c)
            /\ c.target_seq = kept.target_seq
        BY <2>1, <3>1, <3>2, <4>1, WroteVideo
      <4>3. s[1] = n /\ c.node_list = b.node_list \cup {s} /\ SameAsked(b, c) /\ c.target_seq = b.target_seq
        BY <2>1, <4>2 DEF SameAsked
      <4> QED BY <3>2, <4>2, <4>3 DEF c
    <3>3. CASE ~IsVideo
      <4>1. /\ Whole(c) /\ Sets(c) /\ SameAsked(kept, c) /\ c.node_list = kept.node_list
            /\ c.complete_frames = Count(kept.complete_frames + 1) /\ c.target_seq = kept.target_seq
        BY <2>1, <3>1, <3>3, WroteOther
      <4>2. ASSUME PlainCount(b)
            PROVE  PlainCount(c)
        <5>1. b.complete_frames \in Nat /\ b.complete_frames <= Cardinality(b.node_list)
              /\ kept.complete_frames = b.complete_frames
          BY <2>1, <4>2 DEF PlainCount, SameCount
        <5>2. Cardinality(b.node_list) \in Nat /\ Nodes \in Nat /\ CountMod \in Nat /\ Nodes < CountMod
          BY NodesFinite, JbAssumption DEF Sets
        <5>3. Cardinality(kept.node_list) <= Nodes
          BY <2>1, <5>2 DEF Sets
        <5>4. b.complete_frames + 1 \in 0..CountMod - 1
          BY <2>1, <5>1, <5>2, <5>3
        <5>5. c.complete_frames = b.complete_frames + 1
          BY <4>1, <5>1, <5>4, Counts
        <5> QED BY <2>1, <4>1, <5>1, <5>2, <5>5 DEF PlainCount
      <4>3. c.missing_seq_hash = b.missing_seq_hash /\ c.target_seq = b.target_seq
            /\ c.node_list = b.node_list \cup {s} /\ s[1] = n
        BY <2>1, <4>1 DEF SameAsked
      <4> QED BY <3>3, <4>1, <4>2, <4>3 DEF c
    <3> QED BY <3>2, <3>3
  <2> QED BY <2>2, <2>3
<1> QED BY <1>1, <1>2

\* The number a video buffer wants, and the gap it closes or takes for a new start.
Want(b, q) == IF b.next_seq = 0 THEN q ELSE b.next_seq
Anew(b, q) == q - Want(b, q) > b.max_frame_len /\ q - Want(b, q) > BigGap

\* What a packet does to the missing numbers: it comes late, next, after a gap, or
\* from a sender that has jumped, and then the buffer is reset.
LEMMA GapCases ==
  ASSUME NEW b, NEW q \in Seqs, Whole(b), Sets(b), IsVideo
  PROVE  LET c == Gap(b, q)  want == Want(b, q) IN
         /\ Whole(c) /\ SameLimits(b, c) /\ c.target_seq \in Seqs /\ c.target_seq \in {b.target_seq, 0}
         /\ c.next_seq = IF q >= want \/ want - q > Rewind THEN After(q) ELSE b.next_seq
         /\ \/ /\ q <= want /\ SameNodes(b, c) /\ SameCount(b, c)
               /\ c.missing_seq_hash = b.missing_seq_hash \ {q}
            \/ /\ q > want /\ Anew(b, q) /\ Emptied(b, c)
               /\ c.complete_frames = 0 /\ c.write_init = FALSE /\ c.highest_wrote_ts = 0
            \/ /\ q > want /\ ~Anew(b, q) /\ SameNodes(b, c) /\ SameCount(b, c)
               /\ c.missing_seq_hash = (b.missing_seq_hash \ {q}) \cup (want .. q - 1)
<1> DEFINE want == IF b.next_seq = 0 THEN q ELSE b.next_seq
           late == q \in b.missing_seq_hash /\ q < b.target_seq
           b0 == IF late THEN jb_frame_inc(b, 1) ELSE b
           b1 == [b0 EXCEPT !.missing_seq_hash = @ \ {q}]
           b2 == IF b1.frame_len < q - want THEN jb_frame_inc(b1, 1) ELSE b1
           b3 == IF q <= want THEN b1
                 ELSE IF q - want > b1.max_frame_len /\ q - want > BigGap THEN switch_jb_reset(b1)
                 ELSE [b2 EXCEPT !.missing_seq_hash = @ \cup (want .. q - 1)]
           c == IF q >= want \/ want - q > Rewind THEN [b3 EXCEPT !.next_seq = After(q)] ELSE b3
<1>1. Gap(b, q) = c /\ Want(b, q) = want
  BY DEF Gap, Want
<1>2. SeqMod \in Nat /\ SeqMod > 0 /\ 0 \in Seqs /\ want \in Seqs
  BY JbAssumption DEF Seqs, Sets
<1>3. Same(b, b0) /\ b0.target_seq = b.target_seq
  BY LengthAside DEF Same, SameNodes, SameCount, SameLimits, SameAsked
<1> HIDE DEF late, b0, want
<1>4. /\ Whole(b1) /\ SameNodes(b, b1) /\ SameCount(b, b1) /\ SameLimits(b, b1)
      /\ b1.next_seq = b.next_seq /\ b1.target_seq = b.target_seq
      /\ b1.missing_seq_hash = b.missing_seq_hash \ {q}
  BY <1>3 DEF Whole, Fields, Same, SameNodes, SameCount, SameLimits, SameAsked
<1> HIDE DEF b1
<1>5. Same(b1, b2) /\ b2.target_seq = b1.target_seq
  BY <1>4, LengthAside DEF Same, SameNodes, SameCount, SameLimits, SameAsked
<1> HIDE DEF b2
<1>6. CASE q <= want
  <2>1. b3 = b1
    BY <1>6
  <2>2. /\ Whole(c) /\ SameNodes(b1, c) /\ SameCount(b1, c) /\ SameLimits(b1, c)
        /\ c.target_seq = b1.target_seq /\ c.missing_seq_hash = b1.missing_seq_hash
        /\ c.next_seq = IF q >= want \/ want - q > Rewind THEN After(q) ELSE b1.next_seq
    <3> HIDE DEF b3
    <3> QED BY <1>4, <2>1 DEF Whole, Fields, SameNodes, SameCount, SameLimits
  <2> HIDE DEF c, b3
  <2>3. c.target_seq = b.target_seq
    BY <1>4, <2>2
  <2> QED BY <1>1, <1>4, <1>6, <2>2, <2>3 DEF SameNodes, SameCount, SameLimits, Sets
<1>7. CASE q > want /\ Anew(b, q)
  <2>1. b3 = switch_jb_reset(b1)
    <3>1. q - want > b1.max_frame_len /\ q - want > BigGap /\ ~(q <= want)
      BY <1>1, <1>2, <1>4, <1>7 DEF Anew, SameLimits, Seqs
    <3> QED BY <3>1
  <2> HIDE DEF b3
  <2>2. Emptied(b1, b3) /\ ClearedIn(b3) /\ SameLimits(b1, b3)
    BY <1>4, <2>1, Reset
  <2>3. c = [b3 EXCEPT !.next_seq = After(q)]
    BY <1>2, <1>7 DEF Seqs
  <2> HIDE DEF c
  <2>4. /\ Whole(c) /\ SameLimits(b3, c) /\ c.next_seq = After(q) /\ c.target_seq = b3.target_seq
        /\ SameNodes(b3, c) /\ SameCount(b3, c) /\ c.missing_seq_hash = b3.missing_seq_hash
    BY <2>2, <2>3 DEF Emptied, Whole, Fields, SameLimits, SameNodes, SameCount
  <2>5. Emptied(b, c) /\ SameLimits(b, c) /\ c.target_seq \in Seqs /\ c.target_seq = 0
    BY <1>2, <1>4, <2>2, <2>4 DEF Emptied, ClearedIn, SameNodes, SameLimits
  <2>6. c.complete_frames = 0 /\ c.write_init = FALSE /\ c.highest_wrote_ts = 0
    BY <2>2, <2>4 DEF ClearedIn, SameCount
  <2>7. q >= want
    BY <1>2, <1>7 DEF Seqs
  <2> QED BY <1>1, <1>7, <2>4, <2>5, <2>6, <2>7
<1>8. CASE q > want /\ ~Anew(b, q)
  <2>1. b3 = [b2 EXCEPT !.missing_seq_hash = @ \cup (want .. q - 1)]
    <3>1. ~(q - want > b1.max_frame_len /\ q - want > BigGap) /\ ~(q <= want)
      BY <1>1, <1>2, <1>4, <1>8 DEF Anew, SameLimits, Seqs
    <3> QED BY <3>1
  <2> HIDE DEF b3
  <2>2. /\ Whole(b3) /\ SameNodes(b2, b3) /\ SameCount(b2, b3) /\ SameLimits(b2, b3)
        /\ b3.target_seq = b2.target_seq /\ b3.missing_seq_hash = b2.missing_seq_hash \cup (want .. q - 1)
    BY <1>5, <2>1 DEF Whole, Fields, Same, SameNodes, SameCount, SameLimits
  <2>3. c = [b3 EXCEPT !.next_seq = After(q)] /\ q >= want
    BY <1>2, <1>8 DEF Seqs
  <2> HIDE DEF c
  <2>4. /\ Whole(c) /\ SameNodes(b3, c) /\ SameCount(b3, c) /\ SameLimits(b3, c) /\ c.next_seq = After(q)
        /\ c.target_seq = b3.target_seq /\ c.missing_seq_hash = b3.missing_seq_hash
    BY <2>2, <2>3 DEF Whole, Fields, SameNodes, SameCount, SameLimits
  <2>5. SameNodes(b, c) /\ SameCount(b, c) /\ SameLimits(b, c)
        /\ c.target_seq \in Seqs /\ c.target_seq = b.target_seq
    BY <1>4, <1>5, <2>2, <2>4 DEF Same, SameNodes, SameCount, SameLimits, Sets
  <2>6. c.missing_seq_hash = (b.missing_seq_hash \ {q}) \cup (want .. q - 1)
    BY <1>4, <1>5, <2>2, <2>4 DEF Same, SameAsked
  <2> QED BY <1>1, <1>8, <2>3, <2>4, <2>5, <2>6
<1>9. q \in Int /\ want \in Int
  BY <1>2 DEF Seqs
<1>10. q <= want \/ q > want
  BY <1>9
<1> QED BY <1>6, <1>7, <1>8, <1>10, Zenon

\* Each of these keeps nodes and counts in order.
LEMMA GapKeeps ==
  ASSUME NEW b, NEW q \in Seqs, Whole(b), Sets(b), IsVideo, VideoCount(b), TooMany(b) \/ Room(b)
  PROVE  LET c == Gap(b, q) IN
         /\ Whole(c) /\ Sets(c) /\ VideoCount(c) /\ (TooMany(c) \/ Room(c))
         /\ c.target_seq \in {b.target_seq, 0} /\ c.node_list \subseteq b.node_list
<1> DEFINE c == Gap(b, q)
           want == Want(b, q)
<1>1. /\ Whole(c) /\ SameLimits(b, c) /\ c.target_seq \in Seqs /\ c.target_seq \in {b.target_seq, 0}
      /\ c.next_seq = IF q >= want \/ want - q > Rewind THEN After(q) ELSE b.next_seq
      /\ \/ SameNodes(b, c) /\ SameCount(b, c)
            /\ c.missing_seq_hash \subseteq b.missing_seq_hash \cup (want .. q - 1)
         \/ /\ Emptied(b, c)
            /\ c.complete_frames = 0 /\ c.write_init = FALSE /\ c.highest_wrote_ts = 0
  <2>1. /\ Whole(c) /\ SameLimits(b, c) /\ c.target_seq \in Seqs /\ c.target_seq \in {b.target_seq, 0}
        /\ c.next_seq = IF q >= want \/ want - q > Rewind THEN After(q) ELSE b.next_seq
        /\ \/ /\ q <= want /\ SameNodes(b, c) /\ SameCount(b, c)
              /\ c.missing_seq_hash = b.missing_seq_hash \ {q}
           \/ /\ q > want /\ Anew(b, q) /\ Emptied(b, c)
              /\ c.complete_frames = 0 /\ c.write_init = FALSE /\ c.highest_wrote_ts = 0
           \/ /\ q > want /\ ~Anew(b, q) /\ SameNodes(b, c) /\ SameCount(b, c)
              /\ c.missing_seq_hash = (b.missing_seq_hash \ {q}) \cup (want .. q - 1)
    BY ONLY GapCases, IsVideo, Whole(b), Sets(b), q \in Seqs, Zenon
  <2> HIDE DEF c, want
  <2>2. b.missing_seq_hash \ {q} \subseteq b.missing_seq_hash \cup (want .. q - 1)
    OBVIOUS
  <2> QED BY ONLY <2>1, <2>2
<1> HIDE DEF c
<1>2. c.next_seq \in Seqs
  BY <1>1, AfterSeq DEF Sets
<1>3. want .. q - 1 \subseteq Seqs
  BY JbAssumption DEF Want, Sets, Seqs
<1> HIDE DEF want
<1>4. CASE SameNodes(b, c) /\ SameCount(b, c) /\ c.missing_seq_hash \subseteq b.missing_seq_hash \cup (want .. q - 1)
  <2>1. Sets(c) /\ VideoCount(c)
    BY <1>1, <1>2, <1>3, <1>4 DEF Sets, VideoCount, SameNodes, SameCount, SameLimits
  <2>2. TooMany(c) \/ Room(c)
    BY <1>1, <1>4 DEF SameNodes, SameLimits, TooMany, HasFree, NodeLimit, Room
  <2>3. c.node_list \subseteq b.node_list
    BY <1>4 DEF SameNodes
  <2> QED BY <1>1, <2>1, <2>2, <2>3 DEF c
<1>5. CASE Emptied(b, c) /\ c.complete_frames = 0 /\ c.write_init = FALSE /\ c.highest_wrote_ts = 0
  <2>1. Sets(c)
    BY <1>1, <1>2, <1>5, EmptiedKeeps
  <2>2. Cardinality(c.node_list) = 0 /\ Cardinality(c.version1) = 0 /\ Horizon \in Nat /\ Nodes \in Nat \ {0}
    BY <1>5, FS_EmptySet, JbAssumption DEF Emptied
  <2>3. c.write_init \in BOOLEAN
    BY <1>5, Zenon
  <2>4. VideoCount(c)
    BY <1>5, <2>2, <2>3 DEF VideoCount
  <2>5. Room(c)
    BY <2>1, <2>2 DEF Room, HasFree, Sets
  <2>6. c.node_list \subseteq b.node_list
    BY <1>5 DEF Emptied
  <2> QED BY <1>1, <2>1, <2>4, <2>5, <2>6 DEF c
<1> QED BY <1>1, <1>4, <1>5

-----------------------------------------------------------------------------
(***************************************************************************)
(* What is asked for again                                                 *)
(***************************************************************************)

\* The last number before the wrap has been sent after packet n, of k.
Gone(n, k) == \E m \in n + 1 .. k : SeqOf(m) = SeqMod - 1

\* next_seq follows a packet sent after all that are there, except those from
\* before the wrap once it has been passed.
Behind(s, m, k) == s[1] <= m \/ Gone(s[1], k) \/ SeqNo(s) = SeqMod - 1
Known(b, k) ==
  /\ \A s \in b.node_list : s[1] <= k
  /\ \/ b.next_seq = 0 /\ b.node_list = {}
     \/ \E m \in 1..k : b.next_seq = After(SeqOf(m)) /\ \A s \in b.node_list : Behind(s, m, k)
  /\ \A s \in b.node_list : SeqNo(s) \in b.missing_seq_hash => Gone(s[1], k)

\* Fewer nodes, and fewer numbers asked for.
LEMMA LessKnown ==
  ASSUME NEW b, NEW c, NEW k, Known(b, k), c.node_list \subseteq b.node_list,
         c.next_seq = b.next_seq, c.missing_seq_hash \subseteq b.missing_seq_hash
  PROVE  Known(c, k)
BY DEF Known

\* Nothing is asked for by a buffer that asks for nothing.
LEMMA BlankKnown ==
  ASSUME NEW c, NEW k, Blank(c)
  PROVE  Known(c, k)
BY DEF Known, Blank

\* Past the wrap every packet before it has been sent.
LEMMA WrapSent ==
  ASSUME base \in Bases, NEW n \in Nat, NEW k \in 0..Horizon, n < (SeqMod - 1) - base, (SeqMod - 1) - base <= k
  PROVE  Gone(n, k)
<1> DEFINE w == (SeqMod - 1) - base
<1>1. SeqMod \in Nat /\ base \in 0..SeqMod - 1 /\ Horizon \in Nat
  BY JbAssumption
<1>2. w \in 0..SeqMod - 1 /\ w \in n + 1 .. k
  BY <1>1
<1>3. base + w = SeqMod - 1
  BY <1>1
<1> HIDE DEF w
<1>4. SeqOf(w) = SeqMod - 1
  BY <1>1, <1>2, <1>3, SeqOfPacket
<1> QED BY <1>2, <1>4 DEF Gone

\* What has been passed stays passed.
LEMMA StillGone ==
  ASSUME NEW n, NEW j \in Int, NEW k \in Int, j <= k, n \in Int, Gone(n, j)
  PROVE  Gone(n, k)
BY DEF Gone

\* The gap a packet leaves, whenever it comes, is not one of packets that are
\* there: the packets between it and the one before are those that are missing.
LEMMA PutKnown ==
  ASSUME IsVideo, jbType \in JbTypes, base \in Bases, sent \in 0..Horizon,
         NEW b, Whole(b), Sets(b), Known(b, sent),
         NEW n \in 1..Horizon, n >= sent - Late[jbType], NEW k, k = IF n > sent THEN n ELSE sent,
         NEW c, c = Gap(b, SeqOf(n)),
         NEW d, NEW s, s[1] = n, d.node_list = c.node_list \cup {s}, SameAsked(c, d)
  PROVE  Known(d, k)
<1> DEFINE q == SeqOf(n)
           want == Want(b, q)
           L == Late[jbType]
<1>1. /\ SeqMod \in Nat /\ SeqMod > 0 /\ Horizon \in Nat /\ base \in 0..SeqMod - 1 /\ Horizon < SeqMod - 1
      /\ Rewind \in Nat /\ BigGap \in Nat /\ L \in Nat
      /\ Rewind + Horizon <= SeqMod /\ L < Rewind /\ BigGap + L + 1 < SeqMod
  <2>1. SeqMod \in Nat /\ SeqMod > 0 /\ Horizon \in Nat /\ base \in 0..SeqMod - 1 /\ Horizon < SeqMod - 1
        /\ Rewind \in Nat /\ BigGap \in Nat /\ L \in Nat
    BY JbAssumption
  <2>2. Rewind + Horizon <= SeqMod /\ L < Rewind /\ BigGap + L + 1 < SeqMod
    BY SpanAssumption
  <2> QED BY <2>1, <2>2
<1>2. b.max_frame_len \in Nat /\ b.max_frame_len + L + 1 < SeqMod
  <2>1. PICK l \in JbLimits \cup {JbFrames[jbType]} : b.max_frame_len = l[2]
    BY DEF Sets, FrameLimits
  <2>2. l[2] + Late[jbType] + 1 < SeqMod
    BY SpanAssumption
  <2>3. l[2] \in Nat
    BY JbAssumption
  <2> QED BY <2>1, <2>2, <2>3
<1>3. k \in 0..Horizon /\ sent <= k /\ n <= k /\ n \in 1..k /\ k \in Int /\ sent \in Int
  BY <1>1
<1>4. n \in 0..SeqMod - 1 /\ q \in Seqs /\ q = (IF base + n < SeqMod THEN base + n ELSE (base + n) - SeqMod)
  BY <1>1, SeqOfPacket
<1>5. /\ c.next_seq = IF q >= want \/ want - q > Rewind THEN After(q) ELSE b.next_seq
      /\ \/ /\ q <= want /\ c.node_list = b.node_list
            /\ c.missing_seq_hash = b.missing_seq_hash \ {q}
         \/ /\ q > want /\ Anew(b, q) /\ c.node_list = {} /\ c.missing_seq_hash = {}
         \/ /\ q > want /\ ~Anew(b, q) /\ c.node_list = b.node_list
            /\ c.missing_seq_hash = (b.missing_seq_hash \ {q}) \cup (want .. q - 1)
  <2> HIDE DEF q
  <2>1. c = Gap(b, q)
    BY DEF q
  <2>2. /\ c.next_seq = IF q >= want \/ want - q > Rewind THEN After(q) ELSE b.next_seq
        /\ \/ /\ q <= want /\ SameNodes(b, c) /\ SameCount(b, c)
              /\ c.missing_seq_hash = b.missing_seq_hash \ {q}
           \/ q > want /\ Anew(b, q) /\ Emptied(b, c)
           \/ /\ q > want /\ ~Anew(b, q) /\ SameNodes(b, c) /\ SameCount(b, c)
              /\ c.missing_seq_hash = (b.missing_seq_hash \ {q}) \cup (want .. q - 1)
    <3> DEFINE g == Gap(b, q)
    <3>1. /\ g.next_seq = IF q >= want \/ want - q > Rewind THEN After(q) ELSE b.next_seq
          /\ \/ /\ q <= want /\ SameNodes(b, g) /\ SameCount(b, g)
                /\ g.missing_seq_hash = b.missing_seq_hash \ {q}
             \/ /\ q > want /\ Anew(b, q) /\ Emptied(b, g)
                /\ g.complete_frames = 0 /\ g.write_init = FALSE /\ g.highest_wrote_ts = 0
             \/ /\ q > want /\ ~Anew(b, q) /\ SameNodes(b, g) /\ SameCount(b, g)
                /\ g.missing_seq_hash = (b.missing_seq_hash \ {q}) \cup (want .. q - 1)
      <4>1. q \in Seqs
        BY <1>4
      <4> QED BY <4>1, GapCases, Zenon
    <3>2. c = g
      BY <2>1
    <3> HIDE DEF g, want
    <3> QED BY <3>1, <3>2
  <2> HIDE DEF want
  <2>3. Emptied(b, c) => c.node_list = {} /\ c.missing_seq_hash = {}
    BY DEF Emptied
  <2>4. SameNodes(b, c) => c.node_list = b.node_list
    BY DEF SameNodes
  <2> QED BY <2>2, <2>3, <2>4
<1>6. d.next_seq = c.next_seq /\ d.missing_seq_hash = c.missing_seq_hash /\ SeqNo(s) = q
  BY DEF SameAsked, SeqNo
<1> HIDE DEF q, L
<1>7. \A r \in b.node_list : r[1] \in 1..Horizon /\ SeqNo(r) \in Seqs
                             /\ SeqNo(r) = IF base + r[1] < SeqMod THEN base + r[1] ELSE (base + r[1]) - SeqMod
  BY <1>1, PacketOf, SeqOfPacket DEF Sets, SeqNo
<1>8. \A r \in d.node_list : r[1] <= k
  <2>1. \A r \in b.node_list : r[1] <= sent
    BY DEF Known
  <2> QED BY <1>3, <1>5, <1>7, <2>1
<1>9. \A r \in b.node_list : Gone(r[1], sent) => Gone(r[1], k)
  BY <1>3, <1>7, StillGone
<1>10. ASSUME c.missing_seq_hash \subseteq b.missing_seq_hash \ {q}
       PROVE  \A r \in d.node_list : SeqNo(r) \in d.missing_seq_hash => Gone(r[1], k)
  <2>1. \A r \in b.node_list : SeqNo(r) \in b.missing_seq_hash => Gone(r[1], sent)
    BY DEF Known
  <2> QED BY <1>5, <1>6, <1>9, <1>10, <2>1
\* The packet is the one next_seq follows.
<1>11. ASSUME c.next_seq = After(q), \A r \in c.node_list : Behind(r, n, k)
       PROVE  \E m \in 1..k : d.next_seq = After(SeqOf(m)) /\ \A r \in d.node_list : Behind(r, m, k)
  <2>1. Behind(s, n, k)
    BY DEF Behind
  <2> QED BY <1>3, <1>6, <1>11, <2>1 DEF q
<1>12. CASE b.next_seq = 0
  <2>1. want = q
    BY <1>12 DEF Want
  <2>2. c.node_list = b.node_list /\ c.missing_seq_hash = b.missing_seq_hash \ {q} /\ c.next_seq = After(q)
    BY <1>4, <1>5, <2>1 DEF Seqs
  <2>3. \A r \in b.node_list : Behind(r, n, k)
    <3>1. CASE b.node_list = {}
      BY <3>1
    <3>2. CASE b.node_list # {}
      <4>1. PICK m \in 1..sent : After(SeqOf(m)) = 0 /\ \A r \in b.node_list : Behind(r, m, sent)
        BY <1>12, <3>2 DEF Known
      <4>2. m \in 0..SeqMod - 1 /\ SeqOf(m) \in Seqs
        BY <1>1, SeqOfPacket
      <4>3. SeqOf(m) = SeqMod - 1
        BY <1>1, <4>1, <4>2, AfterSeq DEF Seqs
      <4>4. ASSUME NEW r \in b.node_list
            PROVE  Behind(r, n, k)
        <5>1. CASE r[1] < m
          <6>1. m \in r[1] + 1 .. k
            BY <1>1, <1>3, <1>7, <5>1
          <6>2. Gone(r[1], k)
            BY <4>3, <6>1 DEF Gone
          <6> QED BY <6>2 DEF Behind
        <5>2. CASE r[1] = m
          BY <4>3, <5>2 DEF Behind, SeqNo
        <5>3. CASE Gone(r[1], sent) \/ SeqNo(r) = SeqMod - 1
          BY <1>9, <5>3 DEF Behind
        <5> QED BY <1>7, <4>1, <5>1, <5>2, <5>3 DEF Behind
      <4> QED BY <4>4
    <3> QED BY <3>1, <3>2
  <2> QED BY <1>8, <1>10, <1>11, <2>2, <2>3 DEF Known
<1>13. CASE b.next_seq # 0
  <2>1. PICK m \in 1..sent : b.next_seq = After(SeqOf(m)) /\ \A r \in b.node_list : Behind(r, m, sent)
    BY <1>13 DEF Known
  <2>2. m \in 0..SeqMod - 1 /\ SeqOf(m) \in Seqs /\ m \in Int
        /\ SeqOf(m) = (IF base + m < SeqMod THEN base + m ELSE (base + m) - SeqMod)
    BY <1>1, SeqOfPacket
  <2>3. want = SeqOf(m) + 1
    BY <1>13, <2>1, <2>2, AfterSeq DEF Want
  <2> HIDE DEF want
  <2>4. \A r \in b.node_list : Behind(r, m, k)
    BY <1>9, <2>1 DEF Behind
  <2>5. m <= n => \A r \in b.node_list : Behind(r, n, k)
    BY <1>3, <1>7, <2>2, <2>4 DEF Behind
  <2>6. m <= sent /\ n >= sent - L /\ n \in 1..Horizon /\ m \in 1..Horizon
    BY <1>1 DEF L
  <2>7. CASE q = want
    <3>1. n = m + 1
      BY <1>1, <1>4, <2>2, <2>3, <2>6, <2>7
    <3>2. c.next_seq = After(q) /\ c.node_list = b.node_list /\ c.missing_seq_hash = b.missing_seq_hash \ {q}
      BY <1>4, <1>5, <2>7 DEF Seqs
    <3> QED BY <1>8, <1>10, <1>11, <2>2, <2>5, <3>1, <3>2 DEF Known
  <2>8. CASE q < want
    <3>1. c.node_list = b.node_list /\ c.missing_seq_hash = b.missing_seq_hash \ {q}
          /\ c.next_seq = IF want - q > Rewind THEN After(q) ELSE b.next_seq
      BY <1>4, <1>5, <2>2, <2>3, <2>8 DEF Seqs
    <3>2. CASE n <= m
      <4>1. want - q <= Rewind
        BY <1>1, <1>4, <2>2, <2>3, <2>6, <2>8, <3>2
      <4>2. d.next_seq = After(SeqOf(m)) /\ m \in 1..k
        BY <1>1, <1>3, <1>4, <1>6, <2>1, <2>2, <2>3, <3>1, <4>1 DEF Seqs
      <4>3. \A r \in d.node_list : Behind(r, m, k)
        <5>1. Behind(s, m, k)
          BY <3>2 DEF Behind
        <5> QED BY <2>4, <3>1, <5>1
      <4> QED BY <1>8, <1>10, <3>1, <4>2, <4>3 DEF Known
    <3>3. CASE n > m
      <4>1. want - q > Rewind
        BY <1>1, <1>4, <2>2, <2>3, <2>6, <2>8, <3>3
      <4>2. m <= n
        BY <2>2, <3>3, <1>4
      <4> QED BY <1>8, <1>10, <1>11, <2>5, <3>1, <4>1, <4>2 DEF Known
    <3> QED BY <1>4, <2>2, <3>2, <3>3
  <2>9. CASE q > want /\ Anew(b, q)
    <3>1. c.node_list = {} /\ c.missing_seq_hash = {} /\ c.next_seq = After(q)
      BY <1>4, <1>5, <2>2, <2>3, <2>9 DEF Seqs
    <3> QED BY <1>6, <1>8, <1>10, <1>11, <3>1 DEF Known
  <2>10. CASE q > want /\ ~Anew(b, q)
    <3>1. c.node_list = b.node_list /\ c.next_seq = After(q)
          /\ c.missing_seq_hash = (b.missing_seq_hash \ {q}) \cup (want .. q - 1)
      BY <1>4, <1>5, <2>2, <2>3, <2>10 DEF Seqs
    <3>2. ~(q - want > b.max_frame_len /\ q - want > BigGap)
      BY <2>10 DEF Anew, want
    <3>3. n > m
      BY <1>1, <1>2, <1>4, <2>2, <2>3, <2>6, <2>10, <3>2
    <3>4. ASSUME NEW r \in b.node_list, SeqNo(r) \in want .. q - 1
          PROVE  Gone(r[1], k)
      <4>1. SeqNo(r) # SeqMod - 1
        BY <1>1, <1>4, <2>2, <2>3, <3>4 DEF Seqs
      <4>2. CASE r[1] <= m
        <5>1. r[1] < (SeqMod - 1) - base /\ (SeqMod - 1) - base <= k
          BY <1>1, <1>3, <1>4, <1>7, <2>2, <2>3, <2>6, <2>10, <3>3, <3>4, <4>1, <4>2
        <5>2. r[1] \in Nat
          BY <1>7
        <5> QED BY <1>3, <5>1, <5>2, WrapSent
      <4> QED BY <2>4, <4>1, <4>2 DEF Behind
    <3>5. \A r \in d.node_list : SeqNo(r) \in d.missing_seq_hash => Gone(r[1], k)
      <4>1. \A r \in b.node_list : SeqNo(r) \in b.missing_seq_hash => Gone(r[1], k)
        BY <1>9 DEF Known
      <4>2. q \notin want .. q - 1
        BY <1>4 DEF Seqs
      <4> QED BY <1>6, <3>1, <3>4, <4>1, <4>2
    <3>6. \A r \in b.node_list : Behind(r, n, k)
      BY <1>4, <2>2, <2>5, <3>3
    <3> QED BY <1>8, <1>11, <3>1, <3>5, <3>6 DEF Known
  <2>11. q \in Int /\ want \in Int
    BY <1>4, <2>2, <2>3 DEF Seqs
  <2>12. q = want \/ q < want \/ q > want
    BY <2>11
  <2> QED BY <2>7, <2>8, <2>9, <2>10, <2>12
<1> QED BY <1>12, <1>13

\* What is known stays known when more is sent.
LEMMA LaterKnown ==
  ASSUME NEW b, Sets(b), NEW j \in Int, NEW k \in Int, j <= k, Known(b, j)
  PROVE  Known(b, k)
<1>1. \A s \in b.node_list : s[1] \in Int
  BY JbAssumption DEF Sets, Packets
<1>2. \A s \in b.node_list : s[1] <= j
  BY DEF Known
<1>3. \A s \in b.node_list : s[1] <= k
  BY <1>1, <1>2
<1>4. \A s \in b.node_list : Gone(s[1], j) => Gone(s[1], k)
  BY <1>1, StillGone
<1>5. \A s \in b.node_list : SeqNo(s) \in b.missing_seq_hash => Gone(s[1], k)
  BY <1>4 DEF Known
<1>6. ASSUME NEW m \in 1..j, b.next_seq = After(SeqOf(m)), \A s \in b.node_list : Behind(s, m, j)
      PROVE  \E x \in 1..k : b.next_seq = After(SeqOf(x)) /\ \A s \in b.node_list : Behind(s, x, k)
  <2>1. m \in 1..k
    OBVIOUS
  <2>2. \A s \in b.node_list : Behind(s, m, k)
    BY <1>4, <1>6 DEF Behind
  <2> QED BY <1>6, <2>1, <2>2
<1>7. \/ b.next_seq = 0 /\ b.node_list = {}
      \/ \E x \in 1..k : b.next_seq = After(SeqOf(x)) /\ \A s \in b.node_list : Behind(s, x, k)
  BY <1>6 DEF Known
<1> QED BY <1>3, <1>5, <1>7 DEF Known

-----------------------------------------------------------------------------
(***************************************************************************)
(* The invariant                                                           *)
(***************************************************************************)

\* A buffer when k packets have been sent.
Good(b, k) ==
  /\ Whole(b) /\ Sets(b)
  /\ IsVideo => VideoCount(b) /\ Known(b, k)
  /\ ~IsVideo => b.missing_seq_hash = {}

\* It is good after every call, and counts its packets unless a reset by another
\* thread is half way or came in the middle of a get.
JbInv ==
  /\ jbType \in JbTypes /\ base \in Bases /\ sent \in 0..Horizon /\ resetting \in BOOLEAN
  /\ resetting => jbType = "audio"
  /\ Good(jb, sent)
  /\ IsVideo \/ raced \/ resetting \/ PlainCount(jb)

\* What leaves nodes, counts and requests alone keeps a good buffer good.
LEMMA SameGood ==
  ASSUME NEW b, NEW c, NEW k, Good(b, k), Same(b, c), c.target_seq \in Seqs
  PROVE  Good(c, k) /\ (PlainCount(b) => PlainCount(c))
<1>1. Sets(c) /\ (VideoCount(b) => VideoCount(c)) /\ (PlainCount(b) => PlainCount(c))
  BY SameKeeps DEF Good
<1>2. Known(b, k) => Known(c, k)
  BY LessKnown DEF Same, SameNodes, SameAsked
<1> QED BY <1>1, <1>2 DEF Good, Same, SameAsked

\* A reset leaves a good buffer.
LEMMA ResetGood ==
  ASSUME NEW b, NEW k, Good(b, k)
  PROVE  Good(switch_jb_reset(b), k) /\ PlainCount(switch_jb_reset(b))
<1> DEFINE c == switch_jb_reset(b)
<1>1. Whole(c) /\ Sets(c) /\ VideoCount(c) /\ PlainCount(c)
  BY ResetKeeps DEF Good
<1>2. Emptied(b, c) /\ ClearedIn(c)
  BY Reset DEF Good
<1> HIDE DEF c
<1>3. IsVideo => Blank(c)
  BY <1>2 DEF Emptied, ClearedIn, Blank
<1>4. ~IsVideo => c.missing_seq_hash = {}
  BY <1>2 DEF Emptied, Good
<1> QED BY <1>1, <1>3, <1>4, BlankKnown DEF Good, c

\* So does the limit on the number of frames held.
LEMMA SettledGood ==
  ASSUME NEW b, NEW k, Good(b, k)
  PROVE  Good(Settled(b), k) /\ (~IsVideo => Settled(b) = b)
BY ResetGood DEF Settled, TooBig

\* So does a search.
LEMMA LooksGood ==
  ASSUME NEW b, NEW k, NEW p, Good(b, k), Looks(b, p)
  PROVE  Good(p.b, k) /\ (~IsVideo /\ PlainCount(b) => PlainCount(p.b))
<1>1. Known(b, k) => Known(p.b, k)
  BY LessKnown DEF Looks, SameAsked
<1> QED BY <1>1 DEF Good, Looks, SameAsked, PlainCount

\* So does taking a node out.
LEMMA TakenGood ==
  ASSUME base \in Bases, NEW b, NEW k, Good(b, k), NEW s \in b.node_list
  PROVE  /\ Good(Taken(b, s), k)
         /\ ~IsVideo /\ PlainCount(b) /\ b.complete_frames # 0 => PlainCount(Taken(b, s))
<1> DEFINE c == Taken(b, s)
<1>1. /\ Whole(c) /\ Sets(c) /\ SameAsked(b, c) /\ c.node_list = b.node_list \ {s}
      /\ IsVideo /\ VideoCount(b) => VideoCount(c)
      /\ ~IsVideo /\ PlainCount(b) /\ b.complete_frames # 0 => PlainCount(c)
  BY TakenKeeps DEF Good
<1> HIDE DEF c
<1>2. Known(b, k) => Known(c, k)
  BY <1>1, LessKnown DEF SameAsked
<1> QED BY <1>1, <1>2 DEF Good, SameAsked, c

\* So does a packet that comes in.
LEMMA AcceptedGood ==
  ASSUME JbInv, NEW n \in 1..Horizon, n >= sent - Late[jbType], TooMany(jb) \/ Room(jb),
         NEW k, k = IF n > sent THEN n ELSE sent
  PROVE  /\ Good(Accepted(jb, n), k)
         /\ ~IsVideo /\ PlainCount(jb) => PlainCount(Accepted(jb, n))
         /\ Accepted(jb, n).target_seq \in {jb.target_seq, 0}
         /\ \A r \in Accepted(jb, n).node_list : r \in jb.node_list \/ r[1] = n
<1> DEFINE fresh == [jb EXCEPT !.highest_dropped_ts = 0]
           q == SeqOf(n)
           c == IF IsVideo THEN Gap(fresh, q) ELSE fresh
           d == add_node(c, n)
<1>1. Accepted(jb, n) = d
  BY DEF Accepted
<1>2. Same(jb, fresh) /\ fresh.target_seq = jb.target_seq
  BY DEF JbInv, Good, Whole, Fields, Same, SameNodes, SameCount, SameLimits, SameAsked
<1> HIDE DEF fresh
<1>3. Good(fresh, sent) /\ (PlainCount(jb) => PlainCount(fresh)) /\ Whole(fresh) /\ Sets(fresh)
  BY <1>2, SameGood DEF JbInv, Good, Sets
<1>4. TooMany(fresh) \/ Room(fresh)
  BY <1>2 DEF Same, SameNodes, SameLimits, TooMany, HasFree, NodeLimit, Room
<1>5. q \in Seqs
  <2>1. Horizon \in Nat /\ SeqMod \in Nat /\ Horizon < SeqMod /\ base \in 0..SeqMod - 1
    BY JbAssumption DEF JbInv
  <2>2. n \in 0..SeqMod - 1
    BY <2>1
  <2> QED BY <2>1, <2>2, SeqOfPacket
<1>6. Horizon \in Nat /\ sent \in Int /\ k \in Int /\ sent <= k
  BY JbAssumption DEF JbInv
<1>7. CASE IsVideo
  <2>1. c = Gap(fresh, q)
    BY <1>7
  <2>2. Whole(c) /\ Sets(c) /\ VideoCount(c) /\ (TooMany(c) \/ Room(c))
        /\ c.target_seq \in {fresh.target_seq, 0} /\ c.node_list \subseteq fresh.node_list
    BY <1>3, <1>4, <1>5, <1>7, <2>1, GapKeeps DEF Good
  <2> HIDE DEF c
  <2>3. /\ Whole(d) /\ Sets(d) /\ VideoCount(d) /\ d.target_seq \in {c.target_seq, 0}
        /\ \A r \in d.node_list : r \in c.node_list \/ r[1] = n
        /\ \/ Blank(d)
           \/ \E s : s[1] = n /\ d.node_list = c.node_list \cup {s} /\ SameAsked(c, d)
    BY <1>7, <2>2, AddNodeKeeps
  <2> HIDE DEF d
  <2>4. ASSUME NEW s, s[1] = n, d.node_list = c.node_list \cup {s}, SameAsked(c, d)
        PROVE  Known(d, k)
    <3>1. Known(fresh, sent)
      BY <1>3, <1>7 DEF Good
    <3>2. jbType \in JbTypes /\ base \in Bases /\ sent \in 0..Horizon
      BY DEF JbInv
    <3> QED BY <1>3, <1>7, <2>1, <2>4, <3>1, <3>2, PutKnown DEF q
  <2>5. Known(d, k)
    BY <2>3, <2>4, BlankKnown
  <2>6. d.target_seq \in {jb.target_seq, 0} /\ \A r \in d.node_list : r \in jb.node_list \/ r[1] = n
    BY <1>2, <2>2, <2>3 DEF Same, SameNodes
  <2> QED BY <1>1, <1>7, <2>3, <2>5, <2>6 DEF Good
<1>8. CASE ~IsVideo
  <2>1. c = fresh
    BY <1>8
  <2> HIDE DEF c
  <2>2. /\ Whole(d) /\ Sets(d) /\ (PlainCount(c) => PlainCount(d))
        /\ d.missing_seq_hash = c.missing_seq_hash /\ d.target_seq \in {c.target_seq, 0}
        /\ \A r \in d.node_list : r \in c.node_list \/ r[1] = n
    BY <1>3, <1>4, <1>8, <2>1, AddNodeKeeps
  <2> HIDE DEF d
  <2>3. d.target_seq \in {jb.target_seq, 0} /\ \A r \in d.node_list : r \in jb.node_list \/ r[1] = n
    BY <1>2, <2>1, <2>2 DEF Same, SameNodes
  <2> QED BY <1>1, <1>3, <1>8, <2>1, <2>2, <2>3 DEF Good
<1> QED BY <1>7, <1>8

\* What is good of the new fields, by the type and the numbers that stay.
LEMMA GoodThen ==
  ASSUME jbType' = jbType, base' = base, Good(jb', sent')
  PROVE  Good(jb, sent)' /\ (PlainCount(jb') => PlainCount(jb)') /\ (IsVideo' <=> IsVideo)
<1>1. IsVideo' <=> IsVideo
  BY DEF IsVideo
<1>2. Whole(jb)' /\ Sets(jb)'
  BY DEF Good, Whole, Sets, FrameLimits, Packets, Seqs
<1>3. PlainCount(jb') => PlainCount(jb)'
  BY DEF PlainCount
<1>4. IsVideo => VideoCount(jb)' /\ Known(jb, sent)'
  <2>1. VideoCount(jb') => VideoCount(jb)'
    BY DEF VideoCount
  <2>2. Known(jb', sent') => Known(jb, sent)'
    BY DEF Known, Behind, Gone, SeqNo, SeqOf, After
  <2> QED BY <2>1, <2>2 DEF Good
<1>5. ~IsVideo => (jb.missing_seq_hash = {})'
  BY DEF Good
<1> QED BY <1>1, <1>2, <1>3, <1>4, <1>5 DEF Good

\* The invariant holds of a buffer that was created.
LEMMA JbInvInit == JbInit => JbInv
<1> SUFFICES ASSUME JbInit PROVE JbInv
  OBVIOUS
<1>1. jbType \in JbTypes /\ base \in Bases /\ sent = 0 /\ resetting = FALSE
  BY DEF JbInit
<1>2. Whole(jb) /\ Emptied(jb, jb) /\ ClearedIn(jb)
  BY Created
<1>3. jb.allocated_nodes = 0 /\ jb.missing_seq_hash = {} /\ jb.max_frame_len = JbFrames[jbType][2]
  BY DEF JbInit, With, Cleared
<1>4. SeqMod \in Nat /\ SeqMod > 0 /\ Horizon \in Nat /\ Nodes \in Nat
  BY JbAssumption
<1>5. Cardinality(jb.node_list) = 0 /\ Cardinality(jb.version1) = 0
  BY <1>2, FS_EmptySet DEF Emptied
<1>6. jb.max_frame_len \in FrameLimits
  BY <1>3 DEF FrameLimits
<1>7. Sets(jb)
  BY <1>2, <1>3, <1>4, <1>5, <1>6 DEF Emptied, ClearedIn, Sets, Seqs
<1>8. jb.write_init \in BOOLEAN
  BY <1>2, Zenon DEF ClearedIn
<1>9. VideoCount(jb) /\ PlainCount(jb)
  <2>1. jb.complete_frames = 0 /\ jb.highest_wrote_ts = 0
    BY <1>2 DEF ClearedIn
  <2> QED BY <1>4, <1>5, <1>8, <2>1 DEF VideoCount, PlainCount
<1>10. Known(jb, sent)
  BY <1>2, <1>3, BlankKnown DEF Blank, Emptied, ClearedIn
<1>11. Good(jb, sent)
  BY <1>2, <1>3, <1>7, <1>9, <1>10 DEF Good
<1>12. sent \in 0..Horizon
  BY <1>1, <1>4
<1>13. resetting \in BOOLEAN /\ ~resetting
  BY <1>1, Zenon
<1> QED BY <1>1, <1>9, <1>11, <1>12, <1>13 DEF JbInv

\* A step that leaves the type, the numbers and the other thread alone.
LEMMA Kept ==
  ASSUME JbInv, jbType' = jbType, base' = base, sent' \in 0..Horizon,
         resetting' = resetting, raced => raced' \/ PlainCount(jb'),
         Good(jb', sent'), ~IsVideo /\ PlainCount(jb) => PlainCount(jb')
  PROVE  JbInv'
<1>1. Good(jb, sent)' /\ (PlainCount(jb') => PlainCount(jb)') /\ (IsVideo' <=> IsVideo)
  BY GoodThen
<1>2. (IsVideo \/ raced \/ resetting \/ PlainCount(jb))'
  BY <1>1 DEF JbInv
<1>3. /\ jbType' \in JbTypes /\ base' \in Bases /\ sent' \in 0..Horizon /\ resetting' \in BOOLEAN
      /\ resetting' => jbType' = "audio"
  BY DEF JbInv
<1>4. (jbType \in JbTypes /\ base \in Bases /\ sent \in 0..Horizon /\ resetting \in BOOLEAN)'
      /\ (resetting => jbType = "audio")'
  BY <1>3
<1> QED BY <1>1, <1>2, <1>4 DEF JbInv

\* switch_jb_put_packet keeps it,
LEMMA PutKeeps == JbInv /\ switch_jb_put_packet => JbInv'
<1> SUFFICES ASSUME JbInv, switch_jb_put_packet PROVE JbInv'
  OBVIOUS
<1>1. PICK n \in 1 .. Horizon :
        /\ n >= sent - Late[jbType]
        /\ HasFree(jb) \/ TooMany(jb) \/ jb.allocated_nodes < Nodes
        /\ sent' = IF n > sent THEN n ELSE sent
        /\ jb' = IF TsOf(n) < jb.highest_dropped_ts THEN jb ELSE Accepted(jb, n)
        /\ UNCHANGED <<jbType, base, resetting, raced, out>>
  BY DEF switch_jb_put_packet
<1>2. Horizon \in Nat /\ sent \in 0..Horizon /\ Good(jb, sent) /\ Sets(jb)
  BY JbAssumption DEF JbInv, Good
<1>3. sent' \in 0..Horizon /\ sent <= sent' /\ sent \in Int /\ sent' \in Int
  BY <1>1, <1>2
<1>4. CASE TsOf(n) < jb.highest_dropped_ts
  <2>1. jb' = jb
    BY <1>1, <1>4
  <2>2. Known(jb, sent) => Known(jb, sent')
    BY <1>2, <1>3, LaterKnown
  <2>3. Good(jb', sent')
    BY <1>2, <2>1, <2>2 DEF Good
  <2> QED BY <1>1, <1>3, <2>1, <2>3, Kept
<1>5. CASE ~(TsOf(n) < jb.highest_dropped_ts)
  <2>1. jb' = Accepted(jb, n)
    BY <1>1, <1>5
  <2>2. TooMany(jb) \/ Room(jb)
    BY <1>1 DEF Room
  <2>3. Good(Accepted(jb, n), sent') /\ (~IsVideo /\ PlainCount(jb) => PlainCount(Accepted(jb, n)))
    BY <1>1, <2>2, AcceptedGood
  <2> QED BY <1>1, <1>3, <2>1, <2>3, Kept
<1> QED BY <1>4, <1>5

\* and switch_jb_get_packet,
LEMMA GetKeeps == JbInv /\ switch_jb_get_packet => JbInv'
<1> SUFFICES ASSUME JbInv, switch_jb_get_packet PROVE JbInv'
  OBVIOUS
<1>1. /\ Good(jb, sent) /\ Whole(jb) /\ Sets(jb) /\ jb.target_seq \in Seqs /\ (IsVideo => VideoCount(jb))
      /\ base \in Bases /\ sent \in 0..Horizon
  BY DEF JbInv, Good, Sets
<1>2. CASE GetNothing
  <2> DEFINE c == [jb EXCEPT !.flush = FALSE]
  <2>1. Same(jb, c) /\ c.target_seq = jb.target_seq
    BY <1>1 DEF Whole, Fields, Same, SameNodes, SameCount, SameLimits, SameAsked
  <2>2. jb' = c /\ UNCHANGED <<jbType, base, sent, resetting, raced>>
    BY <1>2 DEF GetNothing, Returns
  <2> HIDE DEF c
  <2>3. Good(c, sent) /\ (PlainCount(jb) => PlainCount(c))
    BY <1>1, <2>1, SameGood
  <2> QED BY <1>1, <2>2, <2>3, Kept
<1>3. CASE GetLater
  <2> DEFINE c == Polled(jb)
  <2>1. Same(jb, c) /\ c.target_seq = jb.target_seq
    BY <1>1, PollAside
  <2>2. jb' = Settled(c) /\ UNCHANGED <<jbType, base, sent, resetting, raced>>
    BY <1>3 DEF GetLater, Returns
  <2> HIDE DEF c
  <2>3. Good(c, sent) /\ (PlainCount(jb) => PlainCount(c))
    BY <1>1, <2>1, SameGood
  <2>4. Good(Settled(c), sent) /\ (~IsVideo => Settled(c) = c)
    BY <2>3, SettledGood
  <2> QED BY <1>1, <2>2, <2>3, <2>4, Kept
<1>4. CASE GetPacket
  <2>1. PICK p \in Looked : p.s # None /\ jb' = Settled(Taken(p.b, p.s))
                            /\ UNCHANGED <<jbType, base, sent, resetting, raced>>
    BY <1>4 DEF GetPacket
  <2>2. Looks(jb, p)
    BY <1>1, LookedLooks
  <2>3. Good(p.b, sent) /\ (~IsVideo /\ PlainCount(jb) => PlainCount(p.b)) /\ p.s \in p.b.node_list
    BY <1>1, <2>1, <2>2, LooksGood DEF Looks
  <2> DEFINE c == Taken(p.b, p.s)
  <2>4. /\ Good(c, sent)
        /\ ~IsVideo /\ PlainCount(p.b) /\ p.b.complete_frames # 0 => PlainCount(c)
    BY <1>1, <2>3, TakenGood
  <2>5. jb.complete_frames # 0
    BY <1>4 DEF GetPacket
  <2>6. ~IsVideo => p.b.complete_frames # 0
    BY <2>2, <2>5 DEF Looks
  <2>7. jb' = Settled(c)
    BY <2>1
  <2> HIDE DEF c
  <2>8. Good(Settled(c), sent) /\ (~IsVideo => Settled(c) = c)
    BY <2>4, SettledGood
  <2> QED BY <1>1, <2>1, <2>3, <2>4, <2>6, <2>7, <2>8, Kept
<1>5. CASE GetMissing
  <2>1. PICK p \in Looked : IF IsVideo THEN Returns(Settled(p.b))
          ELSE IF p.b.period.consecMiss > p.b.frame_len
               THEN Returns(jb_frame_inc(p.b, 1)) ELSE Returns(p.b)
    BY <1>5 DEF GetMissing
  <2>2. Looks(jb, p)
    BY <1>1, LookedLooks
  <2>3. Good(p.b, sent) /\ (~IsVideo /\ PlainCount(jb) => PlainCount(p.b))
    BY <1>1, <2>2, LooksGood
  <2>4. Same(p.b, jb_frame_inc(p.b, 1)) /\ jb_frame_inc(p.b, 1).target_seq \in Seqs
    BY <2>2, LengthAside DEF Looks, Sets
  <2>5. Good(jb_frame_inc(p.b, 1), sent) /\ (PlainCount(p.b) => PlainCount(jb_frame_inc(p.b, 1)))
    BY <2>3, <2>4, SameGood
  <2>6. Good(Settled(p.b), sent)
    BY <2>3, SettledGood
  <2>7. UNCHANGED <<jbType, base, sent, resetting, raced>>
    BY <2>1 DEF Returns
  <2>8. /\ jb' \in {Settled(p.b), jb_frame_inc(p.b, 1), p.b}
        /\ ~IsVideo => jb' \in {jb_frame_inc(p.b, 1), p.b}
    BY <2>1 DEF Returns
  <2>9. Good(jb', sent) /\ (~IsVideo /\ PlainCount(jb) => PlainCount(jb'))
    BY <2>3, <2>5, <2>6, <2>8
  <2> QED BY <1>1, <2>7, <2>9, Kept
<1> QED BY <1>2, <1>3, <1>4, <1>5 DEF switch_jb_get_packet

\* and the other calls of the reader,
LEMMA CallsKeep == JbInv /\ (switch_jb_poll \/ switch_jb_set_frames \/ switch_jb_pop_nack \/ ReaderReset) => JbInv'
<1> SUFFICES ASSUME JbInv, switch_jb_poll \/ switch_jb_set_frames \/ switch_jb_pop_nack \/ ReaderReset
             PROVE  JbInv'
  OBVIOUS
<1>1. /\ Good(jb, sent) /\ Whole(jb) /\ Sets(jb) /\ jb.target_seq \in Seqs
      /\ sent \in 0..Horizon
  BY DEF JbInv, Good, Sets
<1>2. CASE switch_jb_poll
  <2>1. jb' = Polled(jb) /\ UNCHANGED <<jbType, base, sent, resetting, raced>>
    BY <1>2 DEF switch_jb_poll
  <2>2. Same(jb, Polled(jb)) /\ Polled(jb).target_seq \in Seqs
    BY <1>1, PollAside
  <2>3. Good(Polled(jb), sent) /\ (PlainCount(jb) => PlainCount(Polled(jb)))
    BY <1>1, <2>2, SameGood
  <2> QED BY <1>1, <2>1, <2>3, Kept
<1>3. CASE switch_jb_set_frames
  <2>1. UNCHANGED <<jbType, base, sent, resetting, raced>>
    BY <1>3 DEF switch_jb_set_frames
  <2>2. PICK l \in JbLimits : \E len : jb' = [jb EXCEPT !.min_frame_len = l[1], !.max_frame_len = l[2], !.frame_len = len]
    BY <1>3 DEF switch_jb_set_frames
  <2>3. PICK len : jb' = [jb EXCEPT !.min_frame_len = l[1], !.max_frame_len = l[2], !.frame_len = len]
    BY <2>2
  <2>4. /\ Whole(jb') /\ SameNodes(jb, jb') /\ SameCount(jb, jb') /\ SameAsked(jb, jb')
        /\ jb'.max_frame_len = l[2] /\ jb'.target_seq = jb.target_seq
    BY <1>1, <2>3 DEF Whole, Fields, SameNodes, SameCount, SameAsked
  <2>5. jb'.max_frame_len \in FrameLimits
    BY <2>4 DEF FrameLimits
  <2>6. Sets(jb') /\ (VideoCount(jb) => VideoCount(jb')) /\ (PlainCount(jb) => PlainCount(jb'))
    BY <1>1, <2>4, <2>5 DEF Sets, VideoCount, PlainCount, SameNodes, SameCount, SameAsked
  <2>7. Known(jb, sent) => Known(jb', sent)
    BY <2>4, LessKnown DEF SameNodes, SameAsked
  <2>8. Good(jb', sent)
    BY <1>1, <2>4, <2>6, <2>7 DEF Good, SameAsked
  <2> QED BY <1>1, <2>1, <2>6, <2>8, Kept
<1>4. CASE switch_jb_pop_nack
  <2>1. IsVideo /\ UNCHANGED <<jbType, base, sent, resetting, raced>>
    BY <1>4 DEF switch_jb_pop_nack
  <2>2. PICK still \in SUBSET jb.missing_seq_hash : jb' = [jb EXCEPT !.missing_seq_hash = still]
    <3>1. PICK soon \in SUBSET jb.missing_seq_hash :
            jb' = [jb EXCEPT !.missing_seq_hash = {q \in @ : q \in soon \/ q >= jb.target_seq - jb.frame_len}]
      BY <1>4 DEF switch_jb_pop_nack
    <3> DEFINE still == {q \in jb.missing_seq_hash : q \in soon \/ q >= jb.target_seq - jb.frame_len}
    <3>2. still \in SUBSET jb.missing_seq_hash /\ jb' = [jb EXCEPT !.missing_seq_hash = still]
      BY <3>1
    <3> QED BY <3>2
  <2>3. /\ Whole(jb') /\ SameNodes(jb, jb') /\ SameCount(jb, jb') /\ SameLimits(jb, jb')
        /\ jb'.missing_seq_hash = still /\ jb'.next_seq = jb.next_seq /\ jb'.target_seq = jb.target_seq
    BY <1>1, <2>2 DEF Whole, Fields, SameNodes, SameCount, SameLimits
  <2>4. Sets(jb') /\ (VideoCount(jb) => VideoCount(jb'))
    BY <1>1, <2>3 DEF Sets, VideoCount, SameNodes, SameCount, SameLimits
  <2>5. Known(jb, sent) => Known(jb', sent)
    BY <2>3, LessKnown DEF SameNodes
  <2>6. Good(jb', sent)
    BY <1>1, <2>1, <2>3, <2>4, <2>5 DEF Good
  <2> QED BY <1>1, <2>1, <2>6, Kept
<1>5. CASE ReaderReset
  <2>1. jb' = switch_jb_reset(jb) /\ raced' = FALSE /\ UNCHANGED <<jbType, base, sent, resetting>>
    BY <1>5 DEF ReaderReset
  <2>2. Good(switch_jb_reset(jb), sent) /\ PlainCount(switch_jb_reset(jb))
    BY <1>1, ResetGood
  <2> QED BY <1>1, <2>1, <2>2, Kept
<1> QED BY <1>2, <1>3, <1>4, <1>5

\* The fields of an audio or text buffer cleared, its nodes left.
LEMMA ClearedGood ==
  ASSUME NEW b, NEW k, Good(b, k), ~IsVideo
  PROVE  Good(With(Cleared, b), k) /\ PlainCount(With(Cleared, b))
         /\ With(Cleared, b).node_list = b.node_list
<1> DEFINE c == With(Cleared, b)
<1>1. /\ Whole(c) /\ ClearedIn(c) /\ SameNodes(b, c) /\ SameLimits(b, c)
      /\ c.missing_seq_hash = b.missing_seq_hash
  BY FieldsCleared DEF Good
<1> HIDE DEF c
<1>2. 0 \in Seqs
  BY JbAssumption DEF Seqs
<1>3. Sets(c)
  BY <1>1, <1>2 DEF Good, Sets, ClearedIn, SameNodes, SameLimits
<1>4. Cardinality(c.node_list) \in Nat
  BY <1>3, NodesFinite DEF Sets
<1>5. PlainCount(c)
  BY <1>1, <1>4 DEF ClearedIn, PlainCount
<1> QED BY <1>1, <1>3, <1>5 DEF Good, SameNodes, c

\* and a reset of another thread, in two halves.
LEMMA RaceKeeps == JbInv /\ (ResetNodes \/ ResetFields \/ ResetFieldsInGet) => JbInv'
<1> SUFFICES ASSUME JbInv, ResetNodes \/ ResetFields \/ ResetFieldsInGet PROVE JbInv'
  OBVIOUS
<1>1. /\ jbType = "audio" /\ ~IsVideo /\ base \in Bases /\ sent \in 0..Horizon /\ jbType \in JbTypes
      /\ Good(jb, sent) /\ Whole(jb) /\ Sets(jb)
  BY DEF ResetNodes, ResetFields, ResetFieldsInGet, JbInv, Good, IsVideo
<1>2. UNCHANGED <<jbType, base, sent>> /\ resetting' \in BOOLEAN
  BY DEF ResetNodes, ResetFields, ResetFieldsInGet
<1>3. ASSUME Good(jb', sent), raced' \/ resetting' \/ PlainCount(jb')
      PROVE  JbInv'
  <2>1. Good(jb, sent)' /\ (PlainCount(jb') => PlainCount(jb)')
    BY <1>2, <1>3, GoodThen
  <2> QED BY <1>1, <1>2, <1>3, <2>1 DEF JbInv
<1>4. CASE ResetNodes
  <2> DEFINE c == hide_nodes(jb)
  <2>1. jb' = c /\ resetting'
    BY <1>4 DEF ResetNodes
  <2>2. Emptied(jb, c) /\ SameLimits(jb, c) /\ c.next_seq = jb.next_seq /\ c.target_seq = jb.target_seq
    BY <1>1, Hidden
  <2> HIDE DEF c
  <2>3. Sets(c)
    BY <1>1, <2>2, EmptiedKeeps DEF Sets
  <2>4. Good(c, sent)
    BY <1>1, <2>2, <2>3 DEF Good, Emptied
  <2> QED BY <1>3, <2>1, <2>4
<1>5. CASE ResetFields
  BY <1>1, <1>3, <1>5, ClearedGood DEF ResetFields
<1>6. CASE ResetFieldsInGet
  <2>1. PICK p \in Looked : p.s # None /\ jb' = Taken(With(Cleared, p.b), p.s)
    BY <1>6 DEF ResetFieldsInGet
  <2>2. raced'
    BY <1>6 DEF ResetFieldsInGet
  <2>3. Looks(jb, p)
    BY <1>1, LookedLooks
  <2>4. Good(p.b, sent) /\ p.s \in p.b.node_list
    BY <1>1, <2>1, <2>3, LooksGood DEF Looks
  <2>5. Good(With(Cleared, p.b), sent) /\ p.s \in With(Cleared, p.b).node_list
    BY <1>1, <2>4, ClearedGood
  <2>6. Good(jb', sent)
    BY <1>1, <2>1, <2>5, TakenGood
  <2> QED BY <1>3, <2>2, <2>6
<1> QED BY <1>4, <1>5, <1>6

\* It holds in every reachable state.
LEMMA JbInvariant == JbSpec => []JbInv
<1>1. JbInit => JbInv
  BY JbInvInit
<1>2. JbInv /\ [JbNext]_jbvars => JbInv'
  <2> SUFFICES ASSUME JbInv, [JbNext]_jbvars PROVE JbInv'
    OBVIOUS
  <2>1. CASE JbNext
    BY <2>1, PutKeeps, GetKeeps, CallsKeep, RaceKeeps DEF JbNext
  <2>2. CASE UNCHANGED jbvars
    <3>1. UNCHANGED <<jbType, base, sent, jb, resetting, raced>>
      BY <2>2 DEF jbvars
    <3>2. Good(jb', sent') /\ (PlainCount(jb) => PlainCount(jb')) /\ sent' \in 0..Horizon
      BY <3>1 DEF JbInv
    <3> QED BY <3>1, <3>2, Kept
  <2> QED BY <2>1, <2>2
<1> QED BY <1>1, <1>2, PTL DEF JbSpec

\* The sets of nodes nest as switch_jitterbuffer.c keeps them, over every call
\* and a reset by another thread: what the hash points to is visible, and there
\* are no more visible nodes than allocated ones.
THEOREM JbTypesHold == JbSpec => []JbTypeOK
<1>1. JbInv => JbTypeOK
  <2> SUFFICES ASSUME JbInv PROVE JbTypeOK
    OBVIOUS
  <2>1. Sets(jb) /\ Nodes \in Nat
    BY JbAssumption DEF JbInv, Good
  <2>2. Cardinality(jb.node_list) \in Nat
    BY <2>1, NodesFinite DEF Sets
  <2>3. jb.allocated_nodes \in Cardinality(jb.node_list) .. Nodes
    BY <2>1, <2>2 DEF Sets
  <2> QED BY <2>1, <2>3 DEF JbInv, JbTypeOK, Sets, Packets
<1> QED BY <1>1, JbInvariant, PTL

\* complete_frames counts what is there: never more packets than an audio or
\* text buffer has, no fewer frames than begin in a video buffer, so that taking
\* one off never wraps the unsigned count.
THEOREM CountHolds == JbSpec => []CountStaysWithin
<1>1. JbInv => CountStaysWithin
  <2> SUFFICES ASSUME JbInv PROVE CountStaysWithin
    OBVIOUS
  <2>1. CASE IsVideo
    <3>1. Sets(jb) /\ VideoCount(jb)
      BY <2>1 DEF JbInv, Good
    <3>2. jb.version1 \subseteq Packets
      BY <3>1 DEF Sets
    <3>3. Cardinality(jb.hashed \cap jb.version1) <= Cardinality(jb.version1)
      BY <3>2, FewerNodes
    <3>4. Cardinality(jb.hashed \cap jb.version1) \in Nat /\ Cardinality(jb.version1) \in Nat
      BY <3>2, NodesFinite
    <3> QED BY <2>1, <3>1, <3>3, <3>4 DEF CountStaysWithin, VideoCount
  <2>2. CASE ~IsVideo
    BY <2>2 DEF JbInv, CountStaysWithin, PlainCount
  <2> QED BY <2>1, <2>2
<1> QED BY <1>1, JbInvariant, PTL

\* What switch_jb_pop_nack asks the sender to repeat is not in the buffer,
\* whatever is lost, late, doubled or reset, short of the packets from before the
\* wrap: the gap put_packet fills in lies after all that is there.
THEOREM AskedIsMissing == JbSpec => []NackOnlyMissing
<1>1. JbInv => NackOnlyMissing
  BY DEF JbInv, Good, Known, Gone, Passed, NackOnlyMissing
<1> QED BY <1>1, JbInvariant, PTL

-----------------------------------------------------------------------------
(***************************************************************************)
(* The order of playing                                                    *)
(***************************************************************************)

\* The number the reader wants next is that of a packet after the last one it
\* played, sent or soon to be; or it has none.
Target(t, last, e) == t = 0 \/ \E m \in last + 1 .. e : t = SeqOf(m)
Aim(b, last, k) ==
  /\ \A s \in b.node_list : s[1] <= k
  /\ Target(b.target_seq, last, k + Ahead + Tries)
OrderInv == out.last \in 0..Horizon /\ Aim(jb, out.last, sent)

\* In the reader's range a number is that of one packet.
LEMMA SeqOnce ==
  ASSUME base \in Bases, NEW x \in 0..SeqMod - 1, NEW y \in 0..SeqMod - 1, SeqOf(x) = SeqOf(y)
  PROVE  x = y
<1>1. SeqMod \in Nat /\ base \in 0..SeqMod - 1
  BY JbAssumption
<1>2. SeqOf(x) = IF base + x < SeqMod THEN base + x ELSE (base + x) - SeqMod
  BY <1>1, SeqOfPacket
<1>3. SeqOf(y) = IF base + y < SeqMod THEN base + y ELSE (base + y) - SeqMod
  BY <1>1, SeqOfPacket
<1>4. (IF base + x < SeqMod THEN base + x ELSE (base + x) - SeqMod)
      = (IF base + y < SeqMod THEN base + y ELSE (base + y) - SeqMod)
  BY <1>2, <1>3, Zenon
<1> QED BY <1>1, <1>4

\* Looking ahead by x numbers is looking for the packet sent x later.
LEMMA SeqLater ==
  ASSUME base \in Bases, NEW m \in 0..SeqMod - 1, NEW x \in Nat, m + x <= SeqMod - 1
  PROVE  (SeqOf(m) + x) % SeqMod = SeqOf(m + x)
<1>1. SeqMod \in Nat \ {0} /\ base \in 0..SeqMod - 1 /\ m + x \in 0..SeqMod - 1
  BY JbAssumption
<1>2. SeqOf(m) \in Seqs /\ SeqOf(m) = IF base + m < SeqMod THEN base + m ELSE (base + m) - SeqMod
  BY <1>1, SeqOfPacket
<1>3. SeqOf(m + x) = IF base + (m + x) < SeqMod THEN base + (m + x) ELSE (base + (m + x)) - SeqMod
  <2> DEFINE y == m + x
  <2>1. y \in 0..SeqMod - 1
    BY <1>1
  <2> HIDE DEF y
  <2>2. SeqOf(y) = IF base + y < SeqMod THEN base + y ELSE (base + y) - SeqMod
    BY <1>1, <2>1, SeqOfPacket
  <2> QED BY <2>2 DEF y
<1> DEFINE z == SeqOf(m) + x
<1>4. z \in 0..(2 * SeqMod - 1)
  BY <1>1, <1>2 DEF Seqs
<1>5. z % SeqMod = IF z < SeqMod THEN z ELSE z - SeqMod
  <2> HIDE DEF z
  <2> QED BY <1>1, <1>4, Wraps
<1>6. z = IF base + m < SeqMod THEN base + (m + x) ELSE (base + (m + x)) - SeqMod
  BY <1>1, <1>2
<1> HIDE DEF z
<1>7. z % SeqMod = SeqOf(m + x)
  BY <1>1, <1>3, <1>4, <1>5, <1>6
<1> QED BY <1>7 DEF z

\* A buffer that keeps its target, or drops it, and gets no packet from ahead.
LEMMA AimKept ==
  ASSUME NEW b, NEW c, NEW last \in Int, NEW j \in Int, NEW k \in Int, j <= k, Aim(b, last, j),
         c.target_seq \in {b.target_seq, 0}, Sets(b),
         \A r \in c.node_list : r \in b.node_list \/ r[1] <= k
  PROVE  Aim(c, last, k)
<1>1. Ahead \in Nat /\ Tries \in Nat
  BY JbAssumption
<1>2. \A r \in b.node_list : r[1] \in Int /\ r[1] <= j
  BY JbAssumption DEF Aim, Sets, Packets
<1>3. \A r \in c.node_list : r[1] <= k
  BY <1>2
<1>4. Target(b.target_seq, last, j + Ahead + Tries)
  BY DEF Aim
<1>5. Target(c.target_seq, last, k + Ahead + Tries)
  <2>1. last + 1 .. j + Ahead + Tries \subseteq last + 1 .. k + Ahead + Tries
    BY <1>1
  <2> QED BY <1>4, <2>1 DEF Target
<1> QED BY <1>3, <1>5 DEF Aim

\* A packet found where the reader looks is one after the last it played.
LEMMA FoundLater ==
  ASSUME base \in Bases, NEW b, Sets(b), NEW m \in Nat, NEW x \in Nat, m + x <= SeqMod - 1,
         NEW s \in Found(b, (SeqOf(m) + x) % SeqMod)
  PROVE  s[1] = m + x /\ s \in b.node_list
<1>1. SeqMod \in Nat
  BY JbAssumption
<1>2. s \in b.node_list /\ s \in Packets /\ SeqNo(s) = (SeqOf(m) + x) % SeqMod
  BY DEF Found, Sets
<1>3. m \in 0..SeqMod - 1 /\ m + x \in 0..SeqMod - 1
  BY <1>1
<1>4. SeqOf(s[1]) = SeqOf(m + x)
  BY <1>2, <1>3, SeqLater DEF SeqNo
<1>5. s[1] \in 0..SeqMod - 1
  BY <1>2, PacketOf
<1> QED BY <1>2, <1>3, <1>4, <1>5, SeqOnce

\* Starting anew, without a target.
LEMMA StartAims ==
  ASSUME NEW b, Whole(b), b.target_seq = 0, NEW p \in Start(b)
  PROVE  p.anew = TRUE /\ p.b.target_seq = 0
<1>1. PICK s : p = Chosen(jb_hit(b), s, TRUE)
  BY DEF Start
<1>2. jb_hit(b).target_seq = 0
  BY HitAside
<1> QED BY <1>1, <1>2 DEF Chosen

\* The reader is not so far ahead of the sender that it waits.
Near(b, k) == \A j \in Ahead .. Ahead + Tries : b.target_seq # SeqOf(k + j)
Aims(b, p, last, k) ==
  /\ p.s = None \/ p.anew = TRUE \/ p.s[1] > last
  /\ p.s = None /\ Near(b, k) => Target(p.b.target_seq, last, k + Ahead + Tries)

\* A search that skips what is missing aims behind the last packet played.
LEMMA SkipAheadAims ==
  ASSUME base \in Bases, NEW b, Whole(b), Sets(b), VideoCount(b), IsVideo,
         NEW last \in 0..Horizon, NEW k \in 0..Horizon, NEW m \in last + 1 .. k + Ahead + Tries,
         b.target_seq = SeqOf(m), NEW p \in SkipAhead(b)
  PROVE  Aims(b, p, last, k)
<1> DEFINE b1 == jb_miss(b)
           b2 == IF b1.period.miss > 1 /\ ~b1.period.inc
                 THEN [jb_frame_inc(b1, 1) EXCEPT !.period.inc = TRUE] ELSE b1
           Later(x) == (b.target_seq + x) % SeqMod
           hits == {x \in 1 .. Tries : Found(b, Later(x)) # {}}
<1>1. /\ SeqMod \in Nat /\ Horizon \in Nat /\ Ahead \in Nat /\ Tries \in Nat
      /\ Horizon + Ahead + 2 * Tries < SeqMod /\ m \in Nat
  BY JbAssumption
<1>2. Whole(b2) /\ SameNodes(b, b2)
  <2>1. Same(b, b1)
    BY MissAside
  <2> DEFINE longer == jb_frame_inc(b1, 1)
  <2>2. Same(b1, longer)
    BY <2>1, LengthAside DEF Same
  <2> HIDE DEF b1, longer
  <2>3. Whole([longer EXCEPT !.period.inc = TRUE]) /\ SameNodes(b, [longer EXCEPT !.period.inc = TRUE])
    BY <2>1, <2>2 DEF Whole, Fields, Same, SameNodes
  <2> QED BY <2>1, <2>3 DEF longer, Same
<1>3. \A x \in 0..Tries : m + x <= SeqMod - 1 /\ Later(x) = SeqOf(m + x) /\ m + x \in Nat
  <2>1. \A x \in 0..Tries : m + x <= SeqMod - 1 /\ m \in 0..SeqMod - 1 /\ m + x \in Nat /\ x \in Nat
    BY <1>1
  <2> QED BY <2>1, SeqLater
\* What is looked for is in reach when the reader is near.
<1>4. ASSUME NEW x \in 0..Tries, Near(b, k)
      PROVE  Target(Later(x), last, k + Ahead + Tries)
  <2>1. m < k + Ahead
    <3>1. SUFFICES ASSUME m >= k + Ahead PROVE FALSE
      BY <1>1
    <3> DEFINE j == m - k
    <3>2. j \in Ahead .. Ahead + Tries /\ k + j = m
      BY <1>1, <3>1
    <3> HIDE DEF j
    <3> QED BY <1>4, <3>2 DEF Near
  <2>2. m + x \in last + 1 .. k + Ahead + Tries
    BY <1>1, <2>1
  <2> QED BY <1>3, <2>2 DEF Target
<1>5. CASE hits = {}
  <2>1. p = Chosen([b2 EXCEPT !.target_seq = Later(Tries)], None, FALSE)
    BY <1>5 DEF SkipAhead
  <2>2. [b2 EXCEPT !.target_seq = Later(Tries)].target_seq = Later(Tries)
    <3> HIDE DEF b2, Later
    <3> QED BY <1>2 DEF Whole, Fields
  <2>3. p.s = None /\ p.b.target_seq = Later(Tries)
    BY <2>1, <2>2 DEF Chosen
  <2>4. Tries \in 0..Tries
    BY <1>1
  <2> HIDE DEF Later
  <2> QED BY <1>4, <2>3, <2>4 DEF Aims
<1>6. CASE hits # {}
  <2>1. PICK s \in Found(b, Later(Min(hits))) :
          p \in IF MarkOf(s[1]) \/ Ts(s) = b.highest_read_ts
                THEN UNION {Start([drop_ts(b2, Ts(s), c) EXCEPT !.target_seq = 0])
                            : c \in Counted(b, Ts(s))}
                ELSE {Chosen([b2 EXCEPT !.target_seq = Later(Min(hits))], s, FALSE)}
    BY <1>6 DEF SkipAhead
  <2>2. Min(hits) \in 1..Tries
    <3>1. hits \subseteq Nat /\ hits \subseteq 1..Tries
      BY <1>1
    <3> HIDE DEF hits
    <3> QED BY <1>6, <3>1, Least
  <2> DEFINE x == Min(hits)
  <2> HIDE DEF hits, x
  <2>3. x \in 0..Tries /\ x \in Nat /\ x >= 1 /\ m \in Nat
    BY <1>1, <2>2 DEF x
  <2>4. s \in Found(b, (SeqOf(m) + x) % SeqMod) /\ m + x <= SeqMod - 1
    BY <1>3, <2>1, <2>3 DEF x
  <2>5. s[1] = m + x
    BY <2>3, <2>4, FoundLater
  <2>6. s[1] > last
    BY <1>1, <2>3, <2>5
  <2>7. CASE MarkOf(s[1]) \/ Ts(s) = b.highest_read_ts
    <3>1. PICK counted \in Counted(b, Ts(s)) : p \in Start([drop_ts(b2, Ts(s), counted) EXCEPT !.target_seq = 0])
      BY <2>1, <2>7
    <3> DEFINE d == [drop_ts(b2, Ts(s), counted) EXCEPT !.target_seq = 0]
    <3>2. Whole(d) /\ d.target_seq = 0
      <4> HIDE DEF b2
      <4> QED BY <1>2 DEF drop_ts, Whole, Fields
    <3> HIDE DEF d
    <3>3. p \in Start(d)
      BY <3>1 DEF d
    <3>4. p.anew = TRUE /\ p.b.target_seq = 0
      BY <3>2, <3>3, StartAims
    <3> QED BY <3>4 DEF Aims, Target
  <2>8. CASE ~(MarkOf(s[1]) \/ Ts(s) = b.highest_read_ts)
    <3>1. p = Chosen([b2 EXCEPT !.target_seq = Later(x)], s, FALSE)
      BY <2>1, <2>8 DEF x
    <3>2. [b2 EXCEPT !.target_seq = Later(x)].target_seq = Later(x)
      <4> HIDE DEF b2, Later
      <4> QED BY <1>2 DEF Whole, Fields
    <3>3. p.s = s /\ p.b.target_seq = Later(x)
      BY <3>1, <3>2 DEF Chosen
    <3> HIDE DEF Later
    <3> QED BY <1>4, <2>3, <2>6, <3>3 DEF Aims
  <2> QED BY <2>7, <2>8
<1> QED BY <1>5, <1>6

\* So does the search for the next packet,
LEMMA NextAims ==
  ASSUME base \in Bases, NEW b, Whole(b), Sets(b), IsVideo => VideoCount(b),
         NEW last \in 0..Horizon, NEW k \in 0..Horizon, Aim(b, last, k), NEW p \in jb_next_packet(b)
  PROVE  Aims(b, p, last, k)
<1>1. CASE b.target_seq = 0
  <2>1. p \in Start(b)
    BY <1>1 DEF jb_next_packet
  <2>2. p.anew = TRUE /\ p.b.target_seq = 0
    BY <1>1, <2>1, StartAims
  <2> QED BY <2>2 DEF Aims, Target
<1>2. CASE b.target_seq # 0
  <2>1. PICK m \in last + 1 .. k + Ahead + Tries : b.target_seq = SeqOf(m)
    BY <1>2 DEF Aim, Target
  <2>2. /\ SeqMod \in Nat /\ Horizon \in Nat /\ Ahead \in Nat /\ Tries \in Nat
        /\ Horizon + Ahead + 2 * Tries < SeqMod /\ m \in Nat /\ m \in 0..SeqMod - 1
    BY JbAssumption
  <2>3. CASE Found(b, b.target_seq) # {}
    <3>1. PICK s \in Found(b, b.target_seq) : p = Chosen(jb_hit(b), s, FALSE)
      BY <1>2, <2>3 DEF jb_next_packet
    <3>2. s \in Packets /\ SeqOf(s[1]) = SeqOf(m)
      BY <2>1, <3>1 DEF Found, Sets, SeqNo
    <3>3. s[1] = m
      BY <2>2, <3>2, PacketOf, SeqOnce
    <3>4. s[1] > last
      BY <2>2, <3>3
    <3>5. p.s = s /\ p.b.target_seq = b.target_seq
      BY <3>1, HitAside DEF Chosen
    <3> QED BY <2>1, <3>4, <3>5 DEF Aims, Target
  <2>4. CASE Found(b, b.target_seq) = {} /\ IsVideo
    <3>1. p \in SkipAhead(b)
      BY <1>2, <2>4 DEF jb_next_packet
    <3> QED BY <2>1, <2>4, <3>1, SkipAheadAims
  <2>5. CASE Found(b, b.target_seq) = {} /\ ~IsVideo
    <3> DEFINE c == [jb_miss(b) EXCEPT !.target_seq = After(@)]
    <3>1. p = Chosen(c, None, FALSE)
      BY <1>2, <2>5 DEF jb_next_packet
    <3>2. c.target_seq = After(b.target_seq)
      BY MissAside DEF Same, Whole, Fields
    <3>3. p.s = None /\ p.b.target_seq = After(SeqOf(m))
      BY <2>1, <3>1, <3>2 DEF Chosen
    <3>4. ASSUME Near(b, k)
          PROVE  m + 1 \in last + 1 .. k + Ahead + Tries /\ After(SeqOf(m)) = SeqOf(m + 1)
      <4>1. m < k + Ahead
        <5>1. SUFFICES ASSUME m >= k + Ahead PROVE FALSE
          BY <2>2
        <5> DEFINE j == m - k
        <5>2. j \in Ahead .. Ahead + Tries /\ k + j = m
          BY <2>2, <5>1
        <5> HIDE DEF j
        <5> QED BY <2>1, <3>4, <5>2 DEF Near
      <4>2. m + 1 <= SeqMod - 1 /\ m + 1 \in last + 1 .. k + Ahead + Tries
        BY <2>2, <4>1
      <4> QED BY <2>2, <4>2, SeqLater DEF After
    <3> QED BY <3>3, <3>4 DEF Aims, Target
  <2> QED BY <2>3, <2>4, <2>5
<1> QED BY <1>1, <1>2

\* and the whole of what a get does before it takes a node.
LEMMA LookedAims ==
  ASSUME JbInv, OrderInv, NEW p \in Looked
  PROVE  Aims(jb, p, out.last, sent)
<1> DEFINE c == NextPeriod(Polled(jb))
<1>1. Good(jb, sent) /\ Whole(jb) /\ Sets(jb) /\ (IsVideo => VideoCount(jb)) /\ base \in Bases
      /\ sent \in 0..Horizon /\ out.last \in 0..Horizon /\ Aim(jb, out.last, sent)
  BY DEF JbInv, Good, OrderInv
<1>2. Same(jb, Polled(jb)) /\ Polled(jb).target_seq = jb.target_seq
  BY <1>1, PollAside
<1>3. Same(Polled(jb), c) /\ c.target_seq = jb.target_seq
  BY <1>2, PeriodAside DEF Same
<1> HIDE DEF c
<1>4. Same(jb, c)
  BY <1>2, <1>3 DEF Same, SameNodes, SameCount, SameLimits, SameAsked
<1>5. Whole(c) /\ Sets(c) /\ (IsVideo => VideoCount(c))
  BY <1>1, <1>3, <1>4, SameKeeps DEF Same, Sets
<1>6. Aim(c, out.last, sent)
  BY <1>1, <1>3, <1>4 DEF Aim, Same, SameNodes
<1>7. Aims(c, p, out.last, sent)
  BY <1>1, <1>5, <1>6, NextAims DEF Looked, c
<1> QED BY <1>3, <1>7 DEF Aims, Near

\* The packet taken is behind the number wanted next.
LEMMA TakenAim ==
  ASSUME base \in Bases, NEW b, Whole(b), Sets(b), NEW s \in b.node_list, NEW k \in 0..Horizon,
         \A r \in b.node_list : r[1] <= k
  PROVE  Aim(Taken(b, s), s[1], k) /\ s[1] \in 0..Horizon
<1>1. /\ SeqMod \in Nat /\ Horizon \in Nat /\ Ahead \in Nat \ {0} /\ Tries \in Nat
      /\ Horizon + Ahead + 2 * Tries < SeqMod
  BY JbAssumption
<1>2. s \in Packets /\ s[1] \in 1..Horizon /\ s[1] \in 0..SeqMod - 1 /\ s[1] <= k
  BY PacketOf DEF Sets
<1>3. Taken(b, s).node_list = b.node_list \ {s}
  BY TakenKeeps
<1>4. Taken(b, s).target_seq = After(SeqNo(s))
  <2>1. ASSUME NEW d, Whole(d), NEW t
        PROVE  hide_node([d EXCEPT !.target_seq = t], s).target_seq = t
    BY <2>1 DEF Whole, Fields, hide_node
  <2> DEFINE highest == IF ~b.read_init \/ check_seq(SeqNo(s), b.highest_read_seq)
                        THEN SeqNo(s) ELSE b.highest_read_seq
             newer == ~b.read_init \/ (check_seq(SeqNo(s), highest) /\ Ts(s) > b.highest_read_ts)
             video == [b EXCEPT !.read_init = TRUE, !.highest_read_seq = highest,
                                !.highest_read_ts = IF newer THEN Ts(s) ELSE @]
             other == [b EXCEPT !.complete_frames = Count(@ - 1)]
             d == IF IsVideo THEN video ELSE other
  <2>2. Taken(b, s) = hide_node([d EXCEPT !.target_seq = After(SeqNo(s))], s)
    BY DEF Taken
  <2> HIDE DEF highest, newer
  <2>3. Whole(video) /\ Whole(other)
    BY DEF Whole, Fields
  <2> HIDE DEF video, other
  <2>4. Whole(d)
    BY <2>3
  <2> HIDE DEF d
  <2> QED BY <2>1, <2>2, <2>4
<1>5. s[1] + 1 \in s[1] + 1 .. k + Ahead + Tries /\ s[1] + 1 <= SeqMod - 1
  BY <1>1, <1>2
<1>6. After(SeqNo(s)) = SeqOf(s[1] + 1)
  <2> DEFINE n == s[1]
  <2>1. n \in 0..SeqMod - 1 /\ n + 1 <= SeqMod - 1
    BY <1>2, <1>5
  <2> HIDE DEF n
  <2>2. (SeqOf(n) + 1) % SeqMod = SeqOf(n + 1)
    BY <2>1, SeqLater
  <2> QED BY <2>2 DEF n, After, SeqNo
<1>7. Target(Taken(b, s).target_seq, s[1], k + Ahead + Tries)
  BY <1>4, <1>5, <1>6 DEF Target
<1> QED BY <1>1, <1>2, <1>3, <1>7 DEF Aim

\* The invariant is about the target and what was played.
LEMMA OrderThen ==
  ASSUME base' = base, out'.last \in 0..Horizon, Aim(jb', out'.last, sent')
  PROVE  OrderInv'
BY DEF OrderInv, Aim, Target, SeqOf

\* A step that plays nothing.
LEMMA Unplayed ==
  ASSUME JbInv, OrderInv, base' = base, out' = out, sent' \in 0..Horizon, sent <= sent',
         jb'.target_seq \in {jb.target_seq, 0},
         \A r \in jb'.node_list : r \in jb.node_list \/ r[1] <= sent'
  PROVE  OrderInv'
<1>1. Sets(jb) /\ Aim(jb, out.last, sent) /\ out.last \in 0..Horizon /\ sent \in 0..Horizon
  BY DEF JbInv, Good, OrderInv
<1>2. out.last \in Int /\ sent \in Int /\ sent' \in Int
  BY <1>1, JbAssumption
<1>3. Aim(jb', out.last, sent')
  BY <1>1, <1>2, AimKept
<1> QED BY <1>1, <1>3, OrderThen

\* The limit on the number of frames keeps the target or drops it.
LEMMA SettledAim ==
  ASSUME NEW b, Whole(b), Sets(b)
  PROVE  Settled(b).target_seq \in {b.target_seq, 0} /\ Settled(b).node_list \subseteq b.node_list
BY Reset DEF Settled, Emptied, ClearedIn

\* A get plays a packet behind the last one, or says that it starts anew.
LEMMA OrderGet ==
  ASSUME JbInv, OrderInv, switch_jb_get_packet
  PROVE  OrderInv' /\ (out'.turn # out.turn /\ ~out'.anew => out'.last > out.last)
<1>1. /\ Good(jb, sent) /\ Whole(jb) /\ Sets(jb) /\ base \in Bases /\ (IsVideo => VideoCount(jb))
      /\ sent \in 0..Horizon /\ sent <= sent /\ out.last \in 0..Horizon /\ Aim(jb, out.last, sent)
      /\ sent \in Int /\ out.last \in Int
  BY JbAssumption DEF JbInv, Good, OrderInv
<1>2. CASE GetNothing
  <2>1. jb' = [jb EXCEPT !.flush = FALSE] /\ UNCHANGED <<base, sent, out>>
    BY <1>2 DEF GetNothing, Returns
  <2>2. jb'.target_seq = jb.target_seq /\ jb'.node_list = jb.node_list
    BY <1>1, <2>1 DEF Whole, Fields
  <2> QED BY <1>1, <2>1, <2>2, Unplayed
<1>3. CASE GetLater
  <2>1. jb' = Settled(Polled(jb)) /\ UNCHANGED <<base, sent, out>>
    BY <1>3 DEF GetLater, Returns
  <2>2. Same(jb, Polled(jb)) /\ Polled(jb).target_seq = jb.target_seq
    BY <1>1, PollAside
  <2>3. Whole(Polled(jb)) /\ Sets(Polled(jb)) /\ Polled(jb).node_list = jb.node_list
    BY <1>1, <2>2, SameKeeps DEF Same, SameNodes, Sets
  <2>4. jb'.target_seq \in {jb.target_seq, 0} /\ jb'.node_list \subseteq jb.node_list
    BY <2>1, <2>2, <2>3, SettledAim
  <2> QED BY <1>1, <2>1, <2>4, Unplayed
<1>4. CASE GetPacket
  <2>1. PICK p \in Looked : /\ p.s # None /\ jb' = Settled(Taken(p.b, p.s))
                            /\ out' = [last |-> p.s[1], turn |-> ~out.turn, anew |-> p.anew]
                            /\ UNCHANGED <<base, sent>>
    BY <1>4 DEF GetPacket
  <2>2. Looks(jb, p) /\ Aims(jb, p, out.last, sent)
    BY <1>1, LookedLooks, LookedAims
  <2>3. Whole(p.b) /\ Sets(p.b) /\ p.s \in p.b.node_list /\ p.b.node_list \subseteq jb.node_list
    BY <2>1, <2>2 DEF Looks
  <2>4. \A r \in p.b.node_list : r[1] <= sent
    BY <1>1, <2>3 DEF Aim
  <2> DEFINE c == Taken(p.b, p.s)
  <2>5. Aim(c, p.s[1], sent) /\ p.s[1] \in 0..Horizon /\ p.s[1] \in Int
    BY <1>1, <2>3, <2>4, TakenAim, JbAssumption
  <2>6. Whole(c) /\ Sets(c)
    BY <1>1, <2>3, TakenKeeps
  <2>7. jb' = Settled(c)
    BY <2>1
  <2> HIDE DEF c
  <2>8. jb'.target_seq \in {c.target_seq, 0} /\ jb'.node_list \subseteq c.node_list
    BY <2>6, <2>7, SettledAim
  <2>9. Aim(jb', p.s[1], sent)
    BY <1>1, <2>5, <2>6, <2>8, AimKept
  <2>10. out'.last = p.s[1] /\ out'.anew = p.anew
    BY <2>1
  <2>11. OrderInv'
    BY <2>1, <2>5, <2>9, <2>10, OrderThen
  <2>12. ~out'.anew => out'.last > out.last
    BY <2>1, <2>2, <2>10 DEF Aims
  <2> QED BY <2>11, <2>12
<1>5. CASE GetMissing
  <2>1. /\ Near(jb, sent)
        /\ \E p \in Looked :
             /\ p.s = None
             /\ IF IsVideo THEN Returns(Settled(p.b))
                ELSE IF p.b.period.consecMiss > p.b.frame_len
                     THEN Returns(jb_frame_inc(p.b, 1)) ELSE Returns(p.b)
    BY <1>5 DEF GetMissing, Near
  <2>2. PICK p \in Looked :
             /\ p.s = None
             /\ IF IsVideo THEN Returns(Settled(p.b))
                ELSE IF p.b.period.consecMiss > p.b.frame_len
                     THEN Returns(jb_frame_inc(p.b, 1)) ELSE Returns(p.b)
    BY <2>1
  <2>3. Looks(jb, p) /\ Aims(jb, p, out.last, sent)
    BY <1>1, LookedLooks, LookedAims
  <2>4. Whole(p.b) /\ Sets(p.b) /\ p.b.node_list \subseteq jb.node_list
    BY <2>3 DEF Looks
  <2>5. Aim(p.b, out.last, sent)
    BY <1>1, <2>1, <2>2, <2>3, <2>4 DEF Aim, Aims
  <2>6. UNCHANGED <<base, sent, out>> /\ jb' \in {Settled(p.b), jb_frame_inc(p.b, 1), p.b}
    BY <2>2 DEF Returns
  <2>7. jb'.target_seq \in {p.b.target_seq, 0} /\ jb'.node_list \subseteq p.b.node_list
    <3>1. CASE jb' = Settled(p.b)
      BY <2>4, <3>1, SettledAim
    <3>2. CASE jb' = jb_frame_inc(p.b, 1)
      BY <2>4, <3>2, LengthAside DEF Same, SameNodes
    <3>3. CASE jb' = p.b
      BY <3>3
    <3> QED BY <2>6, <3>1, <3>2, <3>3
  <2>8. Aim(jb', out.last, sent)
    BY <1>1, <2>4, <2>5, <2>7, AimKept
  <2> QED BY <1>1, <2>6, <2>8, OrderThen
<1> QED BY <1>2, <1>3, <1>4, <1>5 DEF switch_jb_get_packet

\* No other call plays anything.
LEMMA OrderOther ==
  ASSUME JbInv, OrderInv,
         \/ switch_jb_put_packet \/ switch_jb_poll \/ switch_jb_set_frames \/ switch_jb_pop_nack
         \/ ReaderReset \/ ResetNodes \/ ResetFields
  PROVE  OrderInv' /\ out' = out
<1>1. /\ Good(jb, sent) /\ Whole(jb) /\ Sets(jb) /\ base \in Bases
      /\ sent \in 0..Horizon /\ sent <= sent /\ sent \in Int /\ Horizon \in Nat
  BY JbAssumption DEF JbInv, Good
<1>2. CASE switch_jb_put_packet
  <2>1. PICK n \in 1 .. Horizon :
          /\ n >= sent - Late[jbType]
          /\ HasFree(jb) \/ TooMany(jb) \/ jb.allocated_nodes < Nodes
          /\ sent' = IF n > sent THEN n ELSE sent
          /\ jb' = IF TsOf(n) < jb.highest_dropped_ts THEN jb ELSE Accepted(jb, n)
          /\ UNCHANGED <<base, out>>
    BY <1>2 DEF switch_jb_put_packet
  <2>2. sent' \in 0..Horizon /\ sent <= sent' /\ n <= sent'
    BY <1>1, <2>1
  <2>3. TooMany(jb) \/ Room(jb)
    BY <2>1 DEF Room
  <2>4. /\ Accepted(jb, n).target_seq \in {jb.target_seq, 0}
        /\ \A r \in Accepted(jb, n).node_list : r \in jb.node_list \/ r[1] = n
    BY <2>1, <2>3, AcceptedGood
  <2>5. jb' = jb \/ jb' = Accepted(jb, n)
    BY <2>1
  <2>6. jb'.target_seq \in {jb.target_seq, 0}
        /\ \A r \in jb'.node_list : r \in jb.node_list \/ r[1] = n
    BY <2>4, <2>5
  <2>7. \A r \in jb'.node_list : r \in jb.node_list \/ r[1] <= sent'
    BY <2>2, <2>6
  <2> QED BY <2>1, <2>2, <2>6, <2>7, Unplayed
<1>3. ASSUME UNCHANGED <<base, sent, out>>, jb'.target_seq \in {jb.target_seq, 0},
             jb'.node_list \subseteq jb.node_list
      PROVE  OrderInv' /\ out' = out
  <2>1. base' = base /\ out' = out /\ sent' = sent
    BY <1>3
  <2> QED BY <1>1, <1>3, <2>1, Unplayed
<1>4. CASE switch_jb_poll
  <2>1. Same(jb, Polled(jb)) /\ Polled(jb).target_seq = jb.target_seq
    BY <1>1, PollAside
  <2> QED BY <1>3, <1>4, <2>1 DEF switch_jb_poll, Same, SameNodes
<1>5. CASE switch_jb_set_frames
  <2>1. UNCHANGED <<base, sent, out>>
    BY <1>5 DEF switch_jb_set_frames
  <2>2. PICK l, len : jb' = [jb EXCEPT !.min_frame_len = l[1], !.max_frame_len = l[2], !.frame_len = len]
    BY <1>5 DEF switch_jb_set_frames
  <2>3. jb'.target_seq = jb.target_seq /\ jb'.node_list = jb.node_list
    BY <1>1, <2>2 DEF Whole, Fields
  <2> QED BY <1>3, <2>1, <2>3
<1>6. CASE switch_jb_pop_nack
  <2>1. UNCHANGED <<base, sent, out>>
    BY <1>6 DEF switch_jb_pop_nack
  <2>2. PICK soon : jb' = [jb EXCEPT !.missing_seq_hash = {q \in @ : q \in soon \/ q >= jb.target_seq - jb.frame_len}]
    BY <1>6 DEF switch_jb_pop_nack
  <2>3. jb'.target_seq = jb.target_seq /\ jb'.node_list = jb.node_list
    BY <1>1, <2>2 DEF Whole, Fields
  <2> QED BY <1>3, <2>1, <2>3
<1>7. CASE ReaderReset
  <2>1. jb' = switch_jb_reset(jb) /\ UNCHANGED <<base, sent, out>>
    BY <1>7 DEF ReaderReset
  <2> QED BY <1>1, <1>3, <2>1, Reset DEF Emptied, ClearedIn
<1>8. CASE ResetNodes
  <2>1. jb' = hide_nodes(jb) /\ UNCHANGED <<base, sent, out>>
    BY <1>8 DEF ResetNodes
  <2> QED BY <1>1, <1>3, <2>1, Hidden DEF Emptied
<1>9. CASE ResetFields
  <2>1. jb' = With(Cleared, jb) /\ UNCHANGED <<base, sent, out>>
    BY <1>9 DEF ResetFields
  <2> QED BY <1>1, <1>3, <2>1, FieldsCleared DEF ClearedIn, SameNodes
<1> QED BY <1>2, <1>4, <1>5, <1>6, <1>7, <1>8, <1>9

\* A get that another thread resets in the middle plays in order, too.
LEMMA OrderRace ==
  ASSUME JbInv, OrderInv, ResetFieldsInGet
  PROVE  OrderInv' /\ (~out'.anew => out'.last > out.last)
<1>1. /\ jbType = "audio" /\ ~IsVideo /\ Whole(jb) /\ Sets(jb) /\ Good(jb, sent) /\ base \in Bases
      /\ sent \in 0..Horizon /\ Aim(jb, out.last, sent)
  BY DEF ResetFieldsInGet, JbInv, Good, IsVideo, OrderInv
<1>2. PICK p \in Looked : /\ p.s # None /\ jb' = Taken(With(Cleared, p.b), p.s)
                          /\ out' = [last |-> p.s[1], turn |-> ~out.turn, anew |-> p.anew]
  BY DEF ResetFieldsInGet
<1>3. UNCHANGED <<base, sent>>
  BY DEF ResetFieldsInGet
<1>4. Looks(jb, p) /\ Aims(jb, p, out.last, sent)
  BY <1>1, LookedLooks, LookedAims
<1>5. Good(p.b, sent) /\ p.s \in p.b.node_list /\ p.b.node_list \subseteq jb.node_list
  BY <1>1, <1>2, <1>4, LooksGood DEF Looks
<1> DEFINE c == With(Cleared, p.b)
<1>6. Whole(c) /\ Sets(c) /\ p.s \in c.node_list /\ c.node_list \subseteq jb.node_list
  BY <1>1, <1>5, ClearedGood DEF Good
<1>7. \A r \in c.node_list : r[1] <= sent
  BY <1>1, <1>6 DEF Aim
<1> HIDE DEF c
<1>8. Aim(Taken(c, p.s), p.s[1], sent) /\ p.s[1] \in 0..Horizon
  BY <1>1, <1>6, <1>7, TakenAim
<1>9. out'.last = p.s[1] /\ out'.anew = p.anew /\ jb' = Taken(c, p.s)
  BY <1>2 DEF c
<1>10. OrderInv'
  BY <1>3, <1>8, <1>9, OrderThen
<1>11. ~out'.anew => out'.last > out.last
  BY <1>2, <1>4, <1>9 DEF Aims
<1> QED BY <1>10, <1>11

\* Packets leave the buffer in the order they were sent, over loss, delay,
\* duplicates, the wrap and a reset in the middle of a get, except when the
\* reader has no target: the number it looks for is always one of a packet after
\* the last it played.
THEOREM PlayedInOrder == JbSpec => InOrder
<1>1. JbInit => OrderInv
  <2> SUFFICES ASSUME JbInit PROVE OrderInv
    OBVIOUS
  <2>1. out.last = 0 /\ sent = 0 /\ Horizon \in Nat
    BY JbAssumption DEF JbInit
  <2>2. jb.node_list = {} /\ jb.target_seq = 0
    BY Created DEF Emptied, ClearedIn
  <2> QED BY <2>1, <2>2 DEF OrderInv, Aim, Target
<1>2. JbInv /\ OrderInv /\ [JbNext]_jbvars
      => OrderInv' /\ [out'.turn # out.turn /\ ~out'.anew => out'.last > out.last]_jbvars
  <2> SUFFICES ASSUME JbInv, OrderInv, [JbNext]_jbvars
               PROVE  OrderInv' /\ (out'.turn # out.turn /\ ~out'.anew => out'.last > out.last)
    OBVIOUS
  <2>1. CASE switch_jb_get_packet
    BY <2>1, OrderGet
  <2>2. CASE ResetFieldsInGet
    BY <2>2, OrderRace
  <2>3. CASE \/ switch_jb_put_packet \/ switch_jb_poll \/ switch_jb_set_frames \/ switch_jb_pop_nack
             \/ ReaderReset \/ ResetNodes \/ ResetFields
    BY <2>3, OrderOther
  <2>4. CASE UNCHANGED jbvars
    <3>1. UNCHANGED <<base, sent, jb, out>>
      BY <2>4 DEF jbvars
    <3>2. Aim(jb', out'.last, sent') /\ out'.last \in 0..Horizon
      BY <3>1 DEF OrderInv
    <3>3. OrderInv'
      BY <3>1, <3>2, OrderThen
    <3> QED BY <3>1, <3>3
  <2> QED BY <2>1, <2>2, <2>3, <2>4 DEF JbNext
<1> QED BY <1>1, <1>2, JbInvariant, PTL DEF JbSpec, InOrder
=============================================================================
