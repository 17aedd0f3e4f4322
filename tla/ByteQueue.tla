----------------------------- MODULE ByteQueue -----------------------------
(***************************************************************************)
(* What a switch_buffer_t promises: a queue of bytes.  Writes go to the    *)
(* end, whole or not at all; reads come from the front; what was read may  *)
(* be read once more from the start, as long as nothing made the buffer    *)
(* forget it.                                                              *)
(***************************************************************************)
EXTENDS Sequences, Integers

CONSTANTS
  Byte,   \* the bytes
  Sizes,  \* how many a call asks for
  Texts   \* what a call may write

VARIABLES
  window,  \* the bytes belong to somebody else, who may exchange them
  queue,   \* the bytes still to be read
  past,    \* the bytes a replay starts with
  got      \* the bytes the last reading call returned

qvars == <<window, queue, past, got>>

QInit == window \in BOOLEAN /\ queue \in Seq(Byte) /\ past = <<>> /\ got = <<>>

Reading(s, n) == IF n <= Len(s) THEN n ELSE Len(s)
Front(s, n) == SubSeq(s, 1, Reading(s, n))
Rest(s, n) == SubSeq(s, Reading(s, n) + 1, Len(s))

\* Taking bytes away from the front, for the reader or for nobody.
Take(n) ==
  /\ queue' = Rest(queue, n) /\ past' = past \o Front(queue, n)
  /\ got' \in {got, Front(queue, n)}
Peek(n) == got' = Front(queue, n) /\ UNCHANGED <<queue, past>>

\* Everything kept is read again.
Replay(n) ==
  LET all == past \o queue
  IN queue' = Rest(all, n) /\ past' = Front(all, n) /\ got' = Front(all, n)

\* Bytes are appended; room may be made by forgetting what was read.
Put(s) ==
  /\ ~window
  /\ queue' = queue \o s /\ past' \in {past, <<>>} /\ UNCHANGED got
Forget == past' = <<>> /\ UNCHANGED <<queue, got>>

\* Room is made by giving up as much of the front, or everything.
Slide(s) ==
  /\ ~window
  /\ queue' \in {Rest(queue, Len(s)) \o s, Rest(queue, Len(s))}
  /\ past' = <<>> /\ UNCHANGED got
Renew(s) == ~window /\ queue' \in {s, <<>>} /\ past' = <<>> /\ UNCHANGED got
Clear == queue' = <<>> /\ past' = <<>> /\ UNCHANGED got
Exchange == window /\ queue' \in Seq(Byte) /\ past' = <<>> /\ UNCHANGED got

QNext ==
  /\ \/ \E n \in Sizes : Take(n) \/ Peek(n) \/ Replay(n)
     \/ \E s \in Texts : Put(s) \/ Slide(s) \/ Renew(s)
     \/ Forget \/ Clear \/ Exchange
  /\ UNCHANGED window
QSpec == QInit /\ [][QNext]_qvars
=============================================================================
