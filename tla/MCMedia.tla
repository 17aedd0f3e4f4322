------------------------------ MODULE MCMedia ------------------------------
(***************************************************************************)
(* Model-checking instance of the two buffers of the media core.  They     *)
(* share nothing, so one of them runs while the other stands still.        *)
(***************************************************************************)
EXTENDS JitterBuffer, ByteBuffer

VARIABLE part   \* the buffer that runs
mediavars == <<part, jbvars, bbvars>>

Created == [t \in JbTypes |-> IF t = "text" THEN <<2, 2>> ELSE <<1, 2>>]
\* Video looks at packets that are late by two, too.
Delays == [t \in JbTypes |-> IF t = "video" THEN 2 ELSE 1]
Limited == {<<1, 2>>}
LoopsGiven == {-1, 1}
\* Video looks at gaps before the wrap, too.
StartsAt == [t \in JbTypes |-> IF t = "video" THEN Bases ELSE {Max(Bases)}]

Init ==
  /\ JbInit /\ BbInit /\ base \in StartsAt[jbType]
  /\ \/ part = "jitter" /\ kind = "fixed" /\ buf = switch_buffer_zero(Whole([i \in 0 .. 1 |-> "x"], 2))
     \/ part = "bytes" /\ jbType = "audio"
JitterNext == part = "jitter" /\ JbNext /\ UNCHANGED <<part, bbvars>>
BytesNext == part = "bytes" /\ BbNext /\ UNCHANGED <<part, jbvars>>
Next == JitterNext \/ BytesNext
\* The reader's thread of JbFairness, of which TextComesOut needs the text buffer's.
Reads == part = "jitter" /\ jbType = "text" /\ switch_jb_get_packet /\ UNCHANGED <<part, bbvars>>
MediaSpec == Init /\ [][Next]_mediavars /\ WF_mediavars(Reads)
=============================================================================
