---------------------------- MODULE JitterBuffer ----------------------------
(***************************************************************************)
(* switch_jitterbuffer.c: one switch_jb_t between the packets that arrive  *)
(* and the reader that plays them, in its three types (audio and text by   *)
(* sequence number, video by sequence number and frame).                   *)
(*                                                                         *)
(* A packet is its number n in the order of sending; on the wire it has    *)
(* the sequence number SeqOf(n), which wraps, and the time stamp TsOf(n),  *)
(* which does not wrap within the horizon.  The network loses, duplicates  *)
(* and delays packets.  The node list is a set of visible nodes <<n, k>>,  *)
(* the k-th copy of packet n; its order matters only among copies, and     *)
(* there the model takes any.  The reader's thread puts and gets (under    *)
(* jb->mutex); another thread may reset the buffer, whose fields it clears *)
(* after it has given the mutex back.  The mode by time stamps             *)
(* (jb_use_timestamps) and the queue of sent packets (SJB_QUEUE_ONLY) are  *)
(* left out.                                                               *)
(***************************************************************************)
EXTENDS Integers, FiniteSets, FiniteSetsExt

CONSTANTS
  JbTypes,     \* the types to model, of "audio", "text", "video"
  SeqMod,      \* 2^16
  CountMod,    \* 2^32, of complete_frames
  Bases,       \* where the sequence numbers may start
  Horizon,     \* how many packets are sent
  Late,        \* per type: how far behind the newest a packet may arrive
  Ahead,       \* how far the reader may run ahead of the sender
  FrameSize,   \* packets of a video frame
  JbFrames,    \* per type: the pair <<min, max>> it is created with
  JbLimits,    \* pairs switch_jb_set_frames is called with
  Nodes,       \* nodes the model has room for
  PERIOD_LEN,  \* 250
  Slack,       \* 5, of PERIOD_LEN - 5
  BigGap,      \* 17, of put_packet
  Rewind,      \* 1000, of put_packet
  Change,      \* 100, of add_node
  Tries,       \* 10, of jb_next_packet_by_seq
  Lag          \* 10, of switch_jb_poll

ASSUME JbAssumption ==
  /\ JbTypes \subseteq {"audio", "text", "video"}
  /\ SeqMod \in Nat /\ CountMod \in Nat /\ Nodes < CountMod /\ Horizon \in Nat /\ Tries \in Nat /\ Ahead \in Nat \ {0}
  /\ Horizon + Ahead + 2 * Tries < SeqMod
  /\ Bases \subseteq 0 .. SeqMod - 1
  /\ Late \in [JbTypes -> Nat] /\ Nodes \in Nat \ {0} /\ FrameSize \in Nat \ {0}
  /\ JbLimits \subseteq (Nat \ {0}) \X Nat
  /\ JbFrames \in [JbTypes -> (Nat \ {0}) \X Nat]
  /\ \A l \in JbLimits \cup {JbFrames[t] : t \in JbTypes} : l[1] <= l[2]
  /\ {PERIOD_LEN, Slack, BigGap, Rewind, Change, Lag} \subseteq Nat

\* Delays, limits and what is sent are small beside the sequence numbers: a
\* packet from before the wrap looks far ahead, one from after it far behind.
\* There are fewer frames than complete_frames can count.
ASSUME SpanAssumption ==
  /\ Horizon < CountMod
  /\ Rewind + Horizon <= SeqMod
  /\ \A t \in JbTypes :
       /\ Late[t] < Rewind /\ BigGap + Late[t] + 1 < SeqMod
       /\ \A l \in JbLimits \cup {JbFrames[t]} : l[2] + Late[t] + 1 < SeqMod

VARIABLES
  jbType, base,  \* chosen at creation, and by the sender
  sent,          \* the newest packet that has arrived
  jb,            \* the fields of switch_jb_t, below
  resetting,     \* another thread is inside switch_jb_reset
  raced,         \* its fields were cleared in the middle of a get
  out            \* what the last get returned, and the last packet it played

jbvars == <<jbType, base, sent, jb, resetting, raced, out>>

Seqs == 0 .. SeqMod - 1
SeqOf(n) == (base + n) % SeqMod
TsOf(n) == ((n - 1) \div FrameSize) + 1
MarkOf(n) == n % FrameSize = 0
After(q) == (q + 1) % SeqMod
Count(k) == k % CountMod
IsVideo == jbType = "video"

\* The fields of the period, and those switch_jb_reset clears beside them.
NoPeriod == [count |-> 0, good |-> 0, consecMiss |-> 0, miss |-> 0, inc |-> FALSE]
Cleared ==
  [complete_frames |-> 0, target_seq |-> 0, period |-> NoPeriod,
   write_init |-> FALSE, highest_wrote_seq |-> 0, highest_wrote_ts |-> 0, next_seq |-> 0,
   read_init |-> FALSE, highest_read_seq |-> 0, highest_read_ts |-> 0]

\* The record b with the fields of r in it.
With(r, b) == [f \in DOMAIN r \cup DOMAIN b |-> IF f \in DOMAIN r THEN r[f] ELSE b[f]]

\* switch_jb_create.  node_list: the visible nodes; version1: those whose packet
\* starts a frame (video); hashed: those node_hash points to.
JbInit ==
  /\ jbType \in JbTypes
  /\ base \in Bases
  /\ sent = 0
  /\ LET l == JbFrames[jbType]
     IN jb = With(Cleared,
            [frame_len |-> l[1], min_frame_len |-> l[1], max_frame_len |-> l[2],
             node_list |-> {}, version1 |-> {}, hashed |-> {},
             allocated_nodes |-> 0, packet_count |-> 0, max_packet_len |-> 0,
             missing_seq_hash |-> {}, highest_dropped_ts |-> 0,
             buffer_lag |-> 0, flush |-> FALSE])
  /\ resetting = FALSE /\ raced = FALSE
  /\ out = [last |-> 0, turn |-> FALSE, anew |-> FALSE]

SeqNo(s) == SeqOf(s[1])
Ts(s) == TsOf(s[1])
Found(b, q) == {s \in b.hashed : SeqNo(s) = q}
Lowest(b) == {s \in b.node_list : \A r \in b.node_list : SeqNo(s) <= SeqNo(r)}

\* One sequence number is not behind the other, allowing for the wrap.
check_seq(x, y) == x >= y \/ (y > (SeqMod - 1) \div 2 /\ x < (SeqMod - 1) \div 2)

jb_frame_inc(b, i) ==
  [b EXCEPT !.frame_len = IF i > 0
                          THEN IF @ + i < b.max_frame_len THEN @ + i ELSE b.max_frame_len
                          ELSE IF @ + i > b.min_frame_len THEN @ + i ELSE b.min_frame_len]

\* Slip: the beginning of a frame stays counted as there.
HideKeepsFirst(b, s) ==
  [b EXCEPT !.node_list = @ \ {s}, !.hashed = @ \ Found(b, SeqNo(s))]

\* A node made invisible takes the entry of its sequence number out of the
\* hash, even if the entry is another node's; only then a frame is uncounted.
hide_node(b, s) ==
  LET entry == Found(b, SeqNo(s))
  IN [b EXCEPT !.node_list = @ \ {s}, !.hashed = @ \ entry, !.version1 = @ \ {s},
               !.complete_frames = IF IsVideo /\ entry # {} /\ s \in b.version1
                                   THEN Count(@ - 1) ELSE @]

\* Hiding all nodes of a time stamp.  Of several nodes with one sequence
\* number the first in the list finds the entry, so which frames are uncounted
\* depends on the order of the list: counted is one of Counted(b, t).
OfTs(b, t) == {s \in b.node_list : Ts(s) = t}
Counted(b, t) ==
  LET marked == {s \in OfTs(b, t) \cap b.version1 : Found(b, SeqNo(s)) # {}}
      single == {s \in marked : \A r \in b.node_list \ {s} : r[1] # s[1]}
  IN {c \in SUBSET marked : single \subseteq c}
drop_ts(b, t, counted) ==
  [b EXCEPT !.node_list = @ \ OfTs(b, t),
            !.hashed = @ \ OfTs(b, t), !.version1 = @ \ OfTs(b, t),
            !.complete_frames = Count(@ - Cardinality(counted)),
            !.highest_dropped_ts = t]

hide_nodes(b) ==
  [b EXCEPT !.node_list = {}, !.hashed = {}, !.version1 = {},
            !.missing_seq_hash = IF IsVideo THEN {} ELSE @]
switch_jb_reset(b) == With(Cleared, hide_nodes(b))

-----------------------------------------------------------------------------
(***************************************************************************)
(* switch_jb_put_packet                                                    *)
(***************************************************************************)

\* new_node: a hidden node, or another one, or nothing when there are too many.
HasFree(b) == Cardinality(b.node_list) < b.allocated_nodes
NodeLimit(b) == b.max_frame_len * (IF IsVideo /\ b.max_packet_len > 2 THEN b.max_packet_len ELSE 2)
TooMany(b) == ~HasFree(b) /\ b.allocated_nodes > NodeLimit(b)
NewNode(b, n) == <<n, CHOOSE k \in 1 .. Nodes : <<n, k>> \notin b.node_list>>

\* add_node: the packet in its node, entered in the hash in place of another
\* node of its number.
InNode(b, n) ==
  [b EXCEPT !.node_list = @ \cup {NewNode(b, n)},
            !.hashed = (@ \ Found(b, SeqOf(n))) \cup {NewNode(b, n)},
            !.allocated_nodes = IF HasFree(b) THEN @ ELSE @ + 1]

\* add_node: a jump of the sender resets the buffer, the new packet included.
Jumped(b, q) ==
  /\ IsVideo /\ b.write_init
  /\ LET w == b.highest_wrote_seq
         distance == IF w > SeqMod - 1 - Change /\ q < Change THEN (SeqMod - 1 - w) + q
                     ELSE IF q > w THEN q - w ELSE w - q
     IN distance >= Change

\* add_node: a packet of a newer frame completes the one before it.  What only
\* a video buffer reads is not kept for the others.  packet_count stops at
\* Nodes: a frame that large sets no limit the model could reach.
Wrote(b, n, s) ==
  LET q == SeqOf(n)
      w == b.highest_wrote_seq
      highest == IF ~b.write_init \/ q > w \/ (w > SeqMod - 1 - Change /\ q < Change)
                 THEN q ELSE w
      newer == b.write_init /\ check_seq(q, highest) /\ TsOf(n) > b.highest_wrote_ts
      count == Min({b.packet_count + 1, Nodes})
      video == [b EXCEPT !.packet_count = IF newer THEN 0 ELSE count,
                         !.max_packet_len = IF newer /\ count > @ THEN count ELSE @,
                         !.complete_frames = IF newer THEN Count(@ + 1) ELSE @,
                         !.version1 = IF newer THEN @ \cup {s} ELSE @,
                         !.highest_wrote_ts = IF newer \/ ~b.write_init THEN TsOf(n) ELSE @,
                         !.highest_wrote_seq = highest, !.write_init = TRUE]
      other == [b EXCEPT !.complete_frames = Count(@ + 1)]
  IN IF IsVideo THEN video ELSE other

add_node(b, n) ==
  IF TooMany(b) THEN switch_jb_reset(b)
  ELSE LET kept == InNode(b, n)
       IN Wrote(IF Jumped(kept, SeqOf(n)) THEN switch_jb_reset(kept) ELSE kept, n, NewNode(b, n))

\* Slip: a packet that arrives is still asked for.
GapKeepsAsking(b, q) ==
  LET want == IF b.next_seq = 0 THEN q ELSE b.next_seq
  IN IF q < want THEN b
     ELSE [b EXCEPT !.missing_seq_hash = @ \cup (want .. q - 1), !.next_seq = After(q)]

\* What a video buffer learns from the gap between the packet it got and the
\* one it wanted: a packet asked for again, packets missing, or a new start.
Gap(b, q) ==
  LET want == IF b.next_seq = 0 THEN q ELSE b.next_seq
      late == q \in b.missing_seq_hash /\ q < b.target_seq
      b1 == [(IF late THEN jb_frame_inc(b, 1) ELSE b) EXCEPT !.missing_seq_hash = @ \ {q}]
      b2 == IF b1.frame_len < q - want THEN jb_frame_inc(b1, 1) ELSE b1
      b3 == IF q <= want THEN b1
            ELSE IF q - want > b1.max_frame_len /\ q - want > BigGap THEN switch_jb_reset(b1)
            ELSE [b2 EXCEPT !.missing_seq_hash = @ \cup (want .. q - 1)]
  IN IF q >= want \/ want - q > Rewind THEN [b3 EXCEPT !.next_seq = After(q)] ELSE b3

Accepted(b, n) ==
  LET fresh == [b EXCEPT !.highest_dropped_ts = 0]
  IN add_node(IF IsVideo THEN Gap(fresh, SeqOf(n))
              ELSE fresh, n)

\* A packet arrives: a new one, with those between lost or delayed, or one from
\* behind, late or a second time.
switch_jb_put_packet ==
  \E n \in 1 .. Horizon :
    /\ n >= sent - Late[jbType] /\ n <= sent + Late[jbType] + 1
    /\ HasFree(jb) \/ TooMany(jb) \/ jb.allocated_nodes < Nodes
    /\ sent' = IF n > sent THEN n ELSE sent
    /\ jb' = IF TsOf(n) < jb.highest_dropped_ts THEN jb ELSE Accepted(jb, n)
    /\ UNCHANGED <<jbType, base, resetting, raced, out>>

-----------------------------------------------------------------------------
(***************************************************************************)
(* switch_jb_get_packet                                                    *)
(***************************************************************************)

jb_hit(b) == [b EXCEPT !.period.good = @ + 1, !.period.consecMiss = 0]
jb_miss(b) == [b EXCEPT !.period.miss = IF IsVideo THEN @ + 1 ELSE @, !.period.consecMiss = @ + 1, !.period.good = 0]

\* Slip: the lag starts anew with every look.
PolledForEver(b) ==
  IF jbType # "text" \/ b.complete_frames >= b.frame_len THEN b
  ELSE [b EXCEPT !.buffer_lag = IF b.complete_frames # 0 THEN Lag ELSE @]

\* The text buffer gives up waiting for more after a few looks.
Polled(b) ==
  IF jbType # "text" \/ b.complete_frames >= b.frame_len THEN b
  ELSE LET lag == IF b.complete_frames # 0 /\ b.buffer_lag = 0 THEN Lag ELSE b.buffer_lag
       IN [b EXCEPT !.buffer_lag = IF lag > 0 THEN lag - 1 ELSE 0,
                    !.flush = @ \/ lag = 1]

NextPeriod(b) ==
  IF b.period.count + 1 < PERIOD_LEN THEN [b EXCEPT !.period.count = @ + 1]
  ELSE [(IF b.period.good >= PERIOD_LEN - Slack THEN jb_frame_inc(b, -1) ELSE b)
        EXCEPT !.period = [NoPeriod EXCEPT !.count = 1]]

\* Without a target: the packet numbered 0, or the lowest.
Anchors(b) == IF Found(b, 0) # {} THEN Found(b, 0) ELSE Lowest(b)
None == <<>>
Chosen(b, s, anew) == [b |-> b, s |-> s, anew |-> anew]
Start(b) == {Chosen(jb_hit(b), s, TRUE) : s \in IF Anchors(b) = {} THEN {None} ELSE Anchors(b)}

\* A video buffer looks some numbers ahead, and gives up the frame it finds
\* there if its beginning is lost; then it starts anew.
SkipAhead(b) ==
  LET b1 == jb_miss(b)
      b2 == IF b1.period.miss > 1 /\ ~b1.period.inc
            THEN [jb_frame_inc(b1, 1) EXCEPT !.period.inc = TRUE] ELSE b1
      Later(x) == (b.target_seq + x) % SeqMod
      hits == {x \in 1 .. Tries : Found(b, Later(x)) # {}}
  IN IF hits = {} THEN {Chosen([b2 EXCEPT !.target_seq = Later(Tries)], None, FALSE)}
     ELSE UNION {IF MarkOf(s[1]) \/ Ts(s) = b.highest_read_ts
                 THEN UNION {Start([drop_ts(b2, Ts(s), c) EXCEPT !.target_seq = 0])
                             : c \in Counted(b, Ts(s))}
                 ELSE {Chosen([b2 EXCEPT !.target_seq = Later(Min(hits))], s, FALSE)}
                 : s \in Found(b, Later(Min(hits)))}

jb_next_packet(b) ==
  IF b.target_seq = 0 THEN Start(b)
  ELSE IF Found(b, b.target_seq) # {}
       THEN {Chosen(jb_hit(b), s, FALSE) : s \in Found(b, b.target_seq)}
       ELSE IF IsVideo THEN SkipAhead(b)
       ELSE {Chosen([jb_miss(b) EXCEPT !.target_seq = After(@)], None, FALSE)}

\* Slips: the packet stays counted; the next one wanted is this one.
TakenCounted(b, s) ==
  hide_node([b EXCEPT !.target_seq = After(SeqNo(s))], s)
TakenAgain(b, s) ==
  hide_node([b EXCEPT !.complete_frames = IF IsVideo THEN @ ELSE Count(@ - 1),
                      !.target_seq = SeqNo(s)], s)

\* The packet leaves the buffer.
Taken(b, s) ==
  LET highest == IF ~b.read_init \/ check_seq(SeqNo(s), b.highest_read_seq)
                 THEN SeqNo(s) ELSE b.highest_read_seq
      newer == ~b.read_init \/ (check_seq(SeqNo(s), highest) /\ Ts(s) > b.highest_read_ts)
      video == [b EXCEPT !.read_init = TRUE, !.highest_read_seq = highest,
                         !.highest_read_ts = IF newer THEN Ts(s) ELSE @]
      other == [b EXCEPT !.complete_frames = Count(@ - 1)]
  IN hide_node([(IF IsVideo THEN video ELSE other) EXCEPT !.target_seq = After(SeqNo(s))], s)

TooBig(b) == IsVideo /\ b.complete_frames > b.max_frame_len * 2
Settled(b) == IF TooBig(b) THEN switch_jb_reset(b) ELSE b

\* No packet is returned; what the status tells the caller is not modelled.
Returns(b) ==
  /\ jb' = b
  /\ UNCHANGED <<jbType, base, sent, resetting, raced, out>>

\* Nothing is buffered.
GetNothing ==
  /\ jb.complete_frames = 0
  /\ Returns([jb EXCEPT !.flush = FALSE])

Ready == jb.complete_frames >= jb.frame_len \/ Polled(jb).flush

\* Not enough is buffered.
GetLater ==
  /\ jb.complete_frames # 0 /\ ~Ready
  /\ Returns(Settled(Polled(jb)))

Looked == jb_next_packet(NextPeriod(Polled(jb)))

GetPacket ==
  /\ jb.complete_frames # 0 /\ Ready
  /\ \E p \in Looked :
       /\ p.s # None
       /\ jb' = Settled(Taken(p.b, p.s))
       /\ out' = [last |-> p.s[1], turn |-> ~out.turn, anew |-> p.anew]
       /\ UNCHANGED <<jbType, base, sent, resetting, raced>>

\* The packet is missing: the buffer grows after too many of these.
GetMissing ==
  /\ jb.complete_frames # 0 /\ Ready
  /\ \A k \in Ahead .. Ahead + Tries : jb.target_seq # SeqOf(sent + k)
  /\ \E p \in Looked :
       /\ p.s = None
       /\ IF IsVideo THEN Returns(Settled(p.b))
          ELSE IF p.b.period.consecMiss > p.b.frame_len
               THEN Returns(jb_frame_inc(p.b, 1)) ELSE Returns(p.b)

switch_jb_get_packet == GetNothing \/ GetLater \/ GetPacket \/ GetMissing

-----------------------------------------------------------------------------
(***************************************************************************)
(* The other calls                                                         *)
(***************************************************************************)

\* The RTP reader also polls the buffer of video and text.
switch_jb_poll ==
  /\ jbType = "text"
  /\ jb' = Polled(jb)
  /\ UNCHANGED <<jbType, base, sent, resetting, raced, out>>

switch_jb_set_frames ==
  /\ \E l \in JbLimits :
       LET lowest == jb.frame_len = jb.min_frame_len
           len == IF jb.frame_len > l[2] THEN l[2]
                  ELSE IF jb.frame_len < l[1] THEN l[1] ELSE jb.frame_len
       IN jb' = [jb EXCEPT !.min_frame_len = l[1], !.max_frame_len = l[2],
                           !.frame_len = IF lowest THEN l[1] ELSE len]
  /\ UNCHANGED <<jbType, base, sent, resetting, raced, out>>

\* The sequence numbers asked for again; those too far back are forgotten,
\* except the ones asked for a short while ago.
switch_jb_pop_nack ==
  /\ IsVideo
  /\ \E soon \in SUBSET jb.missing_seq_hash :
       jb' = [jb EXCEPT !.missing_seq_hash =
                {q \in @ : q \in soon \/ q >= jb.target_seq - jb.frame_len}]
  /\ UNCHANGED <<jbType, base, sent, resetting, raced, out>>

\* The reader's thread resets the buffer (a new source, a digit, a flush).
ReaderReset ==
  /\ jb' = switch_jb_reset(jb)
  /\ raced' = FALSE
  /\ UNCHANGED <<jbType, base, sent, resetting, out>>

\* Another thread resets an audio buffer (switch_rtp_set_flag, switch_rtp_reset_jb):
\* jb->mutex is held while the nodes are hidden, not while the fields are cleared.
ResetNodes ==
  /\ jbType = "audio" /\ ~resetting
  /\ jb' = hide_nodes(jb)
  /\ resetting' = TRUE
  /\ UNCHANGED <<jbType, base, sent, raced, out>>
ResetFields ==
  /\ resetting
  /\ jb' = With(Cleared, jb)
  /\ resetting' = FALSE
  /\ raced' = FALSE
  /\ UNCHANGED <<jbType, base, sent, out>>

\* The same in the middle of a get that has found complete_frames not 0: the
\* count is taken down from 0.
ResetFieldsInGet ==
  /\ resetting
  /\ jb.complete_frames # 0 /\ Ready
  /\ \E p \in Looked :
       /\ p.s # None
       /\ jb' = Taken(With(Cleared, p.b), p.s)
       /\ out' = [last |-> p.s[1], turn |-> ~out.turn, anew |-> p.anew]
  /\ resetting' = FALSE
  /\ raced' = TRUE
  /\ UNCHANGED <<jbType, base, sent>>

JbNext ==
  \/ switch_jb_put_packet \/ switch_jb_get_packet \/ switch_jb_poll
  \/ switch_jb_set_frames \/ switch_jb_pop_nack
  \/ ReaderReset \/ ResetNodes \/ ResetFields \/ ResetFieldsInGet

\* The reader's thread reads as long as the session lasts.
JbFairness == WF_jbvars(switch_jb_get_packet)
JbSpec == JbInit /\ [][JbNext]_jbvars /\ JbFairness
-----------------------------------------------------------------------------
\* Types, and how the sets of nodes nest.
JbTypeOK ==
  /\ jbType \in JbTypes /\ base \in Bases /\ sent \in 0 .. Horizon
  /\ resetting \in BOOLEAN
  /\ jb.node_list \subseteq (1 .. Horizon) \X (1 .. Nodes)
  /\ jb.allocated_nodes \in Cardinality(jb.node_list) .. Nodes
  /\ jb.hashed \subseteq jb.node_list /\ jb.version1 \subseteq jb.node_list
  /\ {jb.target_seq, jb.next_seq} \subseteq Seqs
  /\ jb.missing_seq_hash \subseteq Seqs

\* complete_frames, which decides whether the reader gets anything, is what is
\* there: an audio or text buffer never counts more packets than are visible,
\* unless a reset by another thread is under way or has hit a get; a video
\* buffer counts every frame whose first packet can still be found, so hiding
\* one never takes the unsigned count below zero.
CountStaysWithin ==
  IF IsVideo THEN Cardinality(jb.hashed \cap jb.version1) <= jb.complete_frames
             ELSE raced \/ resetting \/ jb.complete_frames <= Cardinality(jb.node_list)

\* What a video buffer asks the sender to repeat is not in the buffer, however
\* late, early or often packets came and whatever was reset in between.  Packets
\* from before the wrap are excepted once the last of them has been sent: next_seq
\* is 0 after it, which put_packet takes for none (:1212), so that a late packet
\* puts next_seq back among the packets that are there.
Passed(n) == \E m \in n + 1 .. sent : SeqOf(m) = SeqMod - 1
NackOnlyMissing ==
  \A s \in jb.node_list : SeqNo(s) \in jb.missing_seq_hash => Passed(s[1])

\* Packets are played in the order they were sent, over loss, delay,
\* duplicates and the wrap, except when the buffer starts anew without a target
\* (switch_jitterbuffer.c:728), which the wrap to 0 looks like.
InOrder ==
  [][out'.turn # out.turn /\ ~out'.anew => out'.last > out.last]_jbvars

\* A text packet the reader has not passed is not stuck in the buffer: the
\* reader gives up waiting for more (switch_jb_poll), and gaps are passed over.
InFront(n) ==
  /\ jbType = "text" /\ jb.target_seq # 0
  /\ \E s \in jb.hashed : s[1] = n
  /\ \E m \in 1 .. n : jb.target_seq = SeqOf(m)
TextComesOut == \A n \in 1 .. Horizon : InFront(n) ~> ~InFront(n)
=============================================================================
