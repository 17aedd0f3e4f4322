------------------------- MODULE ConferenceRecording -------------------------
(***************************************************************************)
(* conference_record.c: recordings of a conference.  Each is a thread that *)
(* joins the conference as a member without a channel.  The conference     *)
(* keeps a list of them (rec_node_head, under flag_mutex) and three        *)
(* counters: record_count and auto_recording, which nothing guards, and    *)
(* recording_members (under conference->mutex).  They are asked for by API *)
(* commands, which hold the conference's read lock, or by the monitor.     *)
(* Sound, canvases and pausing are left out.                               *)
(***************************************************************************)
EXTENDS Integers, FiniteSets, Sequences, SequencesExt

CONSTANTS
  Persons,                    \* members with a channel
  Recs, Files,                \* recordings by number, and the files they are written to
  auto_file,                  \* the file of conference->auto_record
  min_recording_participants,
  auto_restart                \* CFLAG_CONF_RESTART_AUTO_RECORD

ASSUME RecordingAssumption ==
  /\ auto_file \in Files /\ Recs \subseteq Nat /\ Persons \cap Recs = {}
  /\ min_recording_participants \in {1, 2} /\ auto_restart \in BOOLEAN

VARIABLES
  room,      \* "up", "ending" (CFLAG_RUNNING cleared), "destroyed"
  tree,      \* conference->members, the newest first
  rec,       \* per recording: phase, file, auto, run (MFLAG_RUNNING), added
  nodes,     \* rec_node_head
  counts,    \* record_count, recording_members, auto_recording
  auto,      \* conference->auto_record is set
  undefined, \* a member without a session was asked for its channel, or a
             \* recording looked at a conference that is gone
  raced,     \* history: updates of record_count overlapped
  twice,     \* history: a command looked for its file before another had started one
  dropped    \* history: a recording took others out of the list with it

recvars == <<room, tree, rec, nodes, counts, auto, undefined, raced, twice, dropped>>

NewRec == [phase |-> "none", file |-> auto_file, auto |-> FALSE, run |-> TRUE, added |-> FALSE]
At(ps) == {r \in Recs : rec[r].phase \in ps}
IsNext(r) == r \in At({"none"}) /\ \A s \in At({"none"}) : r <= s
Moved(r, p) == [rec EXCEPT ![r].phase = p]
Count == Cardinality({p \in Persons : p \in ToSet(tree)})
Without(m) == RemoveFirst(tree, m)

\* Who holds conference->rwlock: people, commands, recordings.
Readers == (Persons \cap ToSet(tree))
             \cup At({"asked", "opening", "running", "ending", "deleted", "counted"})

RecInit ==
  /\ room = "up" /\ tree = <<>>
  /\ rec = [r \in Recs |-> NewRec]
  /\ nodes = <<>>
  /\ counts = [record_count |-> 0, recording_members |-> 0, auto_recording |-> 0]
  /\ auto \in BOOLEAN
  /\ undefined = FALSE /\ raced = FALSE /\ twice = FALSE /\ dropped = FALSE

\* The counters after an update of record_count.  When another is about to
\* update it, too, it is no longer followed: nothing in here depends on it.
Counted(r, d, c) ==
  /\ raced' = (raced \/ At({"asked", "deleted"}) \ {r} # {})
  /\ counts' = [c EXCEPT !.record_count = IF raced' THEN 0 ELSE @ + d]

-----------------------------------------------------------------------------
(***************************************************************************)
(* People, commands and the monitor                                        *)
(***************************************************************************)

Joins(p) ==
  /\ room = "up" /\ p \notin ToSet(tree)
  /\ tree' = <<p>> \o tree
  /\ UNCHANGED <<room, rec, nodes, counts, auto, undefined, raced, twice, dropped>>
Parts(p) ==
  /\ p \in ToSet(tree)
  /\ tree' = Without(p)
  /\ UNCHANGED <<room, rec, nodes, counts, auto, undefined, raced, twice, dropped>>

\* Slip: nobody looks whether the file is in use.
InUseByNobody(f) == FALSE
InUse(f) == \E i \in DOMAIN nodes : rec[nodes[i]].file = f

\* conference_api_sub_record: the list is looked through, flag_mutex given back,
\* and the recording counted and launched.
AsksToRecord(r, f) ==
  /\ room = "up" /\ IsNext(r) /\ ~InUse(f)
  /\ rec' = [rec EXCEPT ![r].phase = "asked", ![r].file = f]
  /\ UNCHANGED <<room, tree, nodes, counts, auto, undefined, raced, twice, dropped>>
conference_api_sub_record(r) ==
  /\ rec[r].phase = "asked"
  /\ Counted(r, 1, counts)
  /\ rec' = Moved(r, "launched")
  /\ nodes' = <<r>> \o nodes
  /\ twice' = (twice \/ \E s \in At({"asked"}) \ {r} : rec[s].file = rec[r].file)
  /\ UNCHANGED <<room, tree, auto, undefined, dropped>>

\* Slip: auto_recording is not looked at.
WantedAgain == auto /\ Count >= min_recording_participants
\* The minimum number of participants is there.
Wanted == auto /\ counts.auto_recording = 0 /\ Count >= min_recording_participants

\* The monitor, in its pass.  The newest member is taken for one with a channel.
AutoRecords(r) ==
  /\ room = "up" /\ IsNext(r) /\ Wanted
  /\ Counted(r, 1, [counts EXCEPT !.auto_recording = @ + 1])
  /\ IF Head(tree) \in Recs
     THEN undefined' = TRUE /\ UNCHANGED <<rec, nodes>>
     ELSE /\ rec' = [rec EXCEPT ![r].phase = "launched", ![r].auto = TRUE]
          /\ nodes' = <<r>> \o nodes
          /\ UNCHANGED undefined
  /\ UNCHANGED <<room, tree, auto, twice, dropped>>

\* Of one file, or of all: only those that have become members.
conference_record_stop ==
  /\ room = "up"
  /\ \E f \in Files :
       \E stopped \in {ToSet(tree) \cap Recs, {r \in ToSet(tree) \cap Recs : rec[r].file = f}} :
         /\ stopped # {}
         /\ rec' = [r \in Recs |-> IF r \in stopped THEN [rec[r] EXCEPT !.run = FALSE] ELSE rec[r]]
         /\ auto' = (auto /\ (auto_restart \/ \A r \in stopped : ~rec[r].auto))
  /\ UNCHANGED <<room, tree, nodes, counts, undefined, raced, twice, dropped>>

\* The monitor's end: everyone is told to go, CFLAG_RUNNING is cleared, and the
\* write lock waits for those who hold the conference.
RoomEnds ==
  /\ room = "up"
  /\ room' = "ending"
  /\ rec' = [r \in Recs |-> IF r \in ToSet(tree) THEN [rec[r] EXCEPT !.run = FALSE] ELSE rec[r]]
  /\ UNCHANGED <<tree, nodes, counts, auto, undefined, raced, twice, dropped>>
RoomGone ==
  /\ room = "ending" /\ Readers = {}
  /\ room' = "destroyed"
  /\ UNCHANGED <<tree, rec, nodes, counts, auto, undefined, raced, twice, dropped>>

-----------------------------------------------------------------------------
(***************************************************************************)
(* conference_record_thread_run                                            *)
(***************************************************************************)

\* A lock that is not to be had, since the room is ending: the thread ends, and
\* the recording stays counted and listed.
RecLocks(r) ==
  /\ rec[r].phase = "launched"
  /\ \/ room # "destroyed" /\ rec' = Moved(r, "opening") /\ UNCHANGED undefined
     \/ room = "ending" /\ rec' = Moved(r, "lost") /\ UNCHANGED undefined
     \/ room = "destroyed" /\ undefined' = TRUE /\ UNCHANGED rec
  /\ UNCHANGED <<room, tree, nodes, counts, auto, raced, twice, dropped>>

\* Slip: the member is added and not counted.
OpensUncounted(r) ==
  /\ rec[r].phase = "opening"
  /\ rec' = [rec EXCEPT ![r].phase = "running", ![r].added = TRUE]
  /\ tree' = <<r>> \o tree
  /\ UNCHANGED <<room, nodes, counts, auto, undefined, raced, twice, dropped>>
\* The file is opened and the member added.
Opens(r) ==
  /\ rec[r].phase = "opening"
  /\ rec' = [rec EXCEPT ![r].phase = "running", ![r].added = TRUE]
  /\ tree' = <<r>> \o tree
  /\ counts' = [counts EXCEPT !.recording_members = @ + 1]
  /\ UNCHANGED <<room, nodes, auto, undefined, raced, twice, dropped>>
\* No memory, no file, or no timer.
FailsToOpen(r) ==
  /\ rec[r].phase = "opening"
  /\ rec' = Moved(r, "ending")
  /\ UNCHANGED <<room, tree, nodes, counts, auto, undefined, raced, twice, dropped>>

WriteFails(r) ==
  /\ rec[r].phase = "running"
  /\ rec' = [rec EXCEPT ![r].run = FALSE]
  /\ UNCHANGED <<room, tree, nodes, counts, auto, undefined, raced, twice, dropped>>

\* Slip: it goes on until it is stopped.
GoesOnUntilStopped(r) == rec[r].run
GoesOn(r) == rec[r].run /\ room = "up" /\ Count > 0

LoopEnds(r) ==
  /\ rec[r].phase = "running" /\ ~GoesOn(r)
  /\ rec' = Moved(r, "ending")
  /\ UNCHANGED <<room, tree, nodes, counts, auto, undefined, raced, twice, dropped>>

\* conference_member_del, whether it was added or not.
RecMemberDel(r) ==
  /\ rec[r].phase = "ending"
  /\ rec' = Moved(r, "deleted")
  /\ tree' = Without(r)
  /\ counts' = [counts EXCEPT !.recording_members = @ - 1]
  /\ UNCHANGED <<room, nodes, auto, undefined, raced, twice, dropped>>

Uncounts(r) ==
  /\ rec[r].phase = "deleted"
  /\ Counted(r, -1, IF rec[r].auto /\ counts.auto_recording > 0
                    THEN [counts EXCEPT !.auto_recording = @ - 1] ELSE counts)
  /\ rec' = Moved(r, "counted")
  /\ UNCHANGED <<room, tree, nodes, auto, undefined, twice, dropped>>

\* Slip: only the head of the list is taken out.
UnlinkedHead(r) == IF nodes # <<>> /\ Head(nodes) = r THEN Tail(nodes) ELSE nodes
\* The list begins behind the one that is taken out, if it is found.
Unlinked(r) ==
  IF r \in ToSet(nodes) THEN SubSeq(nodes, 1 + CHOOSE i \in DOMAIN nodes : nodes[i] = r, Len(nodes))
  ELSE nodes

RecEnds(r) ==
  /\ rec[r].phase = "counted"
  /\ nodes' = Unlinked(r)
  /\ dropped' = (dropped \/ (r \in ToSet(nodes) /\ Head(nodes) # r))
  /\ rec' = Moved(r, "gone")
  /\ UNCHANGED <<room, tree, counts, auto, undefined, raced, twice>>

-----------------------------------------------------------------------------
RecSteps(r) ==
  \/ conference_api_sub_record(r)
  \/ RecLocks(r) \/ Opens(r) \/ FailsToOpen(r) \/ LoopEnds(r)
  \/ RecMemberDel(r) \/ Uncounts(r) \/ RecEnds(r)

\* After what is undefined nothing is said of the program.
RecNext ==
  /\ ~undefined
  /\ \/ \E p \in Persons : Joins(p) \/ Parts(p)
     \/ conference_record_stop \/ RoomEnds \/ RoomGone
     \/ \E r \in Recs : \/ AutoRecords(r) \/ WriteFails(r) \/ RecSteps(r)
                        \/ \E f \in Files : AsksToRecord(r, f)

\* Threads go on, and those who were hung up leave.
RecFairness ==
  /\ WF_recvars(~undefined /\ RoomGone)
  /\ \A p \in Persons : WF_recvars(~undefined /\ room = "ending" /\ Parts(p))
  /\ \A r \in Recs : WF_recvars(~undefined /\ RecSteps(r))
RecSpec == RecInit /\ [][RecNext]_recvars /\ RecFairness

-----------------------------------------------------------------------------
(***************************************************************************)
(* Properties                                                              *)
(***************************************************************************)

RecTypeOK ==
  /\ room \in {"up", "ending", "destroyed"}
  /\ \A i \in DOMAIN tree : tree[i] \in Persons \cup Recs
  /\ \A r \in Recs : rec[r].file \in Files /\ rec[r].run \in BOOLEAN /\ rec[r].added \in BOOLEAN
  /\ counts.auto_recording \in Nat /\ counts.record_count \in Int

\* The list never leads to a recording whose memory is gone, though taking one
\* out forgets all that were launched after it.
ListIsLive ==
  /\ ToSet(nodes) \cap At({"none", "asked", "gone"}) = {}
  /\ \A i, j \in DOMAIN nodes : nodes[i] = nodes[j] => i = j

\* No file is written by two recordings that were asked for by command, unless
\* two commands looked at once, or the list had forgotten the first.
FileWrittenOnce ==
  \A r, s \in At({"running", "ending"}) :
    r # s /\ ~rec[r].auto /\ ~rec[s].auto /\ rec[r].file = rec[s].file => twice \/ dropped

\* One automatic recording at a time.
OneAutoRecording ==
  undefined \/ Cardinality({r \in At({"launched", "opening", "running", "ending", "deleted"}) : rec[r].auto}) <= 1

\* While a recording is a member it is counted as one, so that it gets its
\* pictures; unless one that could not be opened was counted off for it.
MembersTell ==
  \/ ToSet(tree) \cap Recs = {} \/ counts.recording_members > 0
  \/ \E r \in At({"deleted", "counted", "gone"}) : ~rec[r].added

\* record_count tells whether the conference is being recorded, if no updates of
\* it overlapped; a recording that was lost is counted for ever.
CountTells ==
  raced \/ undefined \/
  counts.record_count = Cardinality(At({"launched", "opening", "running", "ending", "deleted", "lost"}))

\* Both counts tell what is being recorded, whatever fails or ends early.
RecordingsAreCounted == MembersTell /\ CountTells

\* A conference that ends is not held up by its recordings.
RoomGoes == (room = "ending") ~> (room = "destroyed" \/ undefined)
=============================================================================
