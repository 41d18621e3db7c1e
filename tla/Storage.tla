------------------------------ MODULE Storage ------------------------------
(***************************************************************************)
(* The durable state of one Node: the segmented WAL (internal/wal), the    *)
(* Snapshot files (internal/snapshot) and the two threads that write them: *)
(* the event loop (runRaft and raftRuntime.step), which persists what the  *)
(* Raft core asks for, and the goroutine that installs a local Snapshot.   *)
(* They share the WAL under its mutex, one call at a time, and the process *)
(* may stop between any two writes.                                        *)
(*                                                                         *)
(* stable is what the core takes to be durable, acked what the calls that  *)
(* returned made so.  Recovery reads neither: the properties compare them  *)
(* with what it returns.  The two differ when a process stops between the  *)
(* write and the sync of a record: Open finds the record and syncs nothing,*)
(* and a power failure may still take it.                                  *)
(***************************************************************************)
EXTENDS WALRecovery

CONSTANT
    Limits          \* what a run may exercise: see limits

ASSUME StorageAssumption ==
    \A l \in Limits :
        /\ NoVote \notin l.voters
        /\ {l.index, l.term, l.segments, l.frames} \subseteq Nat
        /\ RecoverSegments(<<[header |-> TRUE, frames |-> l.before]>>).ok
        /\ l.operations \subseteq {"Truncate", "Compact", "Receive"}
        /\ l.failures \subseteq {"Power", "Process", "Header", "Directory"}

VARIABLES
    segments,       \* the segment files, oldest first; the last one is active
    synced,         \* what of the active segment is on stable storage: its header and
                    \* this many frames; -1 when not even the header is
    files,          \* the Snapshot files
    up,             \* the process runs
    wal,            \* the fields of the open WAL
    calls,          \* the WAL calls the loop has yet to make in the present step
    lock,           \* the WAL call that holds the mutex
    snap,           \* the local Snapshot being installed
    stable,         \* what the core takes to be durable
    acked,          \* what the calls that returned made durable, and the frames
                    \* recovered since that no sync has covered
    limits          \* the bounds, operations and failures of this behaviour

Voter       == limits.voters     \* the Nodes a vote may be for
MaxIndex    == limits.index      \* bound: log positions
MaxTerm     == limits.term       \* bound: Terms
MaxSegments == limits.segments   \* bound: segment files present at once
MaxFrames   == limits.frames     \* bound: frames on disk when a step of the core begins
Before      == limits.before     \* the records of calls that returned before it begins
Operations  == limits.operations \* the optional ones: "Truncate", "Compact", "Receive"
Failures    == limits.failures   \* "Power": unsynced frames may be lost; "Process": none
                                 \* is; "Header": a new segment may lack its header;
                                 \* "Directory": power failures lose unsynced new files

vars == <<segments, synced, files, up, wal, calls, lock, snap, stable, acked, limits>>

Idle == [phase |-> "idle", todo |-> <<>>, frames |-> <<>>, by |-> "loop"]

NoSnap == [stage |-> "none", index |-> 0, term |-> 0]

\* The first segment as Open leaves it: its identity records, and so its header,
\* are synced, the directory is not.
FirstSegment == [header |-> TRUE, linked |-> FALSE, frames |-> <<>>]

Acknowledge(s) == [state |-> s, frames |-> <<>>]

\* What a record means to the core once it is durable: persistLog, truncateLog,
\* commitIndexPersisted, and handleInstallSnapshot or compactLog for a checkpoint.
Effect(s, f) ==
    CASE f.kind = "Hard" -> [s EXCEPT !.hard = f.hard]
      [] f.kind = "Entry" -> [s EXCEPT !.log = Append(@, f.term)]
      [] f.kind = "Truncation" -> [s EXCEPT !.log = SubSeq(@, 1, f.index - s.base - 1)]
      [] f.kind = "Commit" -> [s EXCEPT !.commit = f.index]
      [] f.kind = "Checkpoint" ->
            CASE f.index <= s.base -> s
              [] f.index > s.base /\ f.index <= LastIndex(s) /\ TermAt(s, f.index) = f.term ->
                    [DropThrough(s, f.index, f.term) EXCEPT !.commit = Max({@, f.index})]
              [] OTHER -> [s EXCEPT !.base = f.index, !.baseTerm = f.term, !.log = <<>>,
                                    !.commit = Max({@, f.index})]

\* The fields of a WAL that holds state s.
Fields(s) == [lastLogIndex |-> LastIndex(s), commitIndex |-> s.commit, hardState |-> s.hard,
              snapshotIndex |-> s.base]

\* A WAL that was created, and perhaps written to, since its process started.
Init ==
    /\ limits \in Limits
    /\ segments = <<[FirstSegment EXCEPT !.frames = Before]>>
    /\ synced = Len(Before)
    /\ files = {}
    /\ up = TRUE
    /\ stable = FoldLeft(Effect, NewState, Before)
    /\ wal = Fields(stable)
    /\ calls = <<>>
    /\ lock = Idle
    /\ snap = NoSnap
    /\ acked = Acknowledge(stable)

Active == segments[Len(segments)]

----------------------------------------------------------------------------
(***************************************************************************)
(* What the event loop asks of the WAL.  A step of the core asks for one   *)
(* of these; the loop makes the calls of a step one after the other.       *)
(***************************************************************************)
BetweenSteps ==
    /\ up
    /\ calls = <<>>
    /\ lock.by = "loop" => lock = Idle
    /\ Len(Frames(segments)) < MaxFrames

Ask(cs) ==
    /\ calls' = cs
    /\ UNCHANGED <<segments, synced, files, up, wal, lock, snap, stable, acked>>

\* PersistHardState: a later Term, or the first vote of the present one.
PersistHardState ==
    /\ BetweenSteps
    /\ \E t \in Max({1, stable.hard.term})..MaxTerm, v \in Voter \union {NoVote} :
          /\ t = stable.hard.term => stable.hard.votedFor = NoVote /\ v # NoVote
          /\ Ask(<<[op |-> "SaveHardState", hard |-> [term |-> t, votedFor |-> v]]>>)

\* PersistLogEntries: one or two entries that follow the log, or that replace a
\* conflicting suffix of it; a truncation is a WAL call of its own.
PersistLogEntries ==
    /\ BetweenSteps
    /\ \E first \in stable.commit + 1 .. LastIndex(stable) + 1,
          terms \in BoundedSeq(1..stable.hard.term, 2) :
          /\ terms # <<>>
          /\ first + Len(terms) - 1 <= MaxIndex
          /\ TermAt(stable, first - 1) <= terms[1]
          /\ Len(terms) = 2 => terms[1] <= terms[2]
          /\ first <= LastIndex(stable) =>
                "Truncate" \in Operations /\ TermAt(stable, first) # terms[1]
          /\ Ask((IF first <= LastIndex(stable)
                  THEN <<[op |-> "TruncateLog", first |-> first]>> ELSE <<>>)
                 \o <<[op |-> "SaveLogEntries", first |-> first, terms |-> terms]>>)

\* PersistCommitIndex.
PersistCommitIndex ==
    /\ BetweenSteps
    /\ \E index \in stable.commit + 1 .. LastIndex(stable) :
          Ask(<<[op |-> "SaveCommitIndex", index |-> index]>>)

\* runRaft on the last chunk of a valid Snapshot: the file is saved, then the WAL
\* is told.  A Snapshot holds committed history, so it agrees with this Node's.
ReceiveSnapshot ==
    /\ "Receive" \in Operations
    /\ BetweenSteps
    /\ \E index \in 1..MaxIndex, term \in 1..stable.hard.term :
          /\ index >= stable.base
          /\ index <= stable.commit => term = TermAt(stable, index)
          /\ index > stable.commit => term >= TermAt(stable, stable.commit)
          /\ files' = files \union {[index |-> index, term |-> term]}
          /\ calls' = <<[op |-> "InstallSnapshot", index |-> index, term |-> term]>>
    /\ UNCHANGED <<segments, synced, up, wal, lock, snap, stable, acked>>

\* startSnapshot: the loop captures the applied state and starts the goroutine.
StartSnapshot ==
    /\ "Compact" \in Operations
    /\ BetweenSteps
    /\ snap = NoSnap
    /\ snap' = [stage |-> "captured", index |-> stable.commit,
                term |-> TermAt(stable, stable.commit)]
    /\ UNCHANGED <<segments, synced, files, up, wal, calls, lock, stable, acked>>

\* installSnapshot, first half: Save; a Snapshot at index 0 compacts nothing.
SaveSnapshot ==
    /\ up
    /\ snap.stage = "captured"
    /\ files' = files \union {[index |-> snap.index, term |-> snap.term]}
    /\ snap' = IF snap.index = 0 THEN NoSnap ELSE [snap EXCEPT !.stage = "saved"]
    /\ UNCHANGED <<segments, synced, up, wal, calls, lock, stable, acked>>

----------------------------------------------------------------------------
(***************************************************************************)
(* The WAL calls: the checks each makes under the mutex, the frames it     *)
(* appends, and the step that completes it.                                *)
(***************************************************************************)
Accepted(c) ==
    CASE c.op = "SaveHardState" -> TRUE
      [] c.op = "SaveLogEntries" -> c.first = wal.lastLogIndex + 1
      [] c.op = "TruncateLog" -> wal.commitIndex < c.first /\ c.first <= wal.lastLogIndex + 1
      [] c.op = "SaveCommitIndex" -> wal.commitIndex <= c.index /\ c.index <= wal.lastLogIndex
      [] c.op = "InstallSnapshot" -> c.index >= wal.snapshotIndex

\* Mutated: the checkpoint does not carry the Term and vote.
CheckpointWithoutVote(index, term, commit) ==
    [kind |-> "Checkpoint", hard |-> NewState.hard, commit |-> commit, index |-> index, term |-> term]

\* The record installSnapshotCheckpoint appends.
Checkpoint(index, term, commit) ==
    [kind |-> "Checkpoint", hard |-> wal.hardState, commit |-> commit, index |-> index, term |-> term]

FramesOf(c) ==
    CASE c.op = "SaveHardState" -> <<[kind |-> "Hard", hard |-> c.hard]>>
      [] c.op = "SaveLogEntries" ->
            [i \in 1..Len(c.terms) |->
                [kind |-> "Entry", index |-> c.first + i - 1, term |-> c.terms[i]]]
      [] c.op = "TruncateLog" -> <<[kind |-> "Truncation", index |-> c.first]>>
      [] c.op = "SaveCommitIndex" -> <<[kind |-> "Commit", index |-> c.index]>>
      [] c.op = "InstallSnapshot" ->
            <<Checkpoint(c.index, c.term, Max({wal.commitIndex, c.index}))>>

Hold(frames, by) ==
    /\ up
    /\ lock = Idle
    /\ lock' = [phase |-> "append", todo |-> frames, frames |-> frames, by |-> by]
    /\ UNCHANGED <<segments, synced, files, up, wal, stable, acked>>

StartCall ==
    /\ calls # <<>>
    /\ Accepted(Head(calls))
    /\ Hold(FramesOf(Head(calls)), "loop")
    /\ calls' = Tail(calls)
    /\ UNCHANGED snap

\* installSnapshot, second half: Compact.
StartCompact ==
    /\ snap.stage = "saved"
    /\ snap.index <= wal.commitIndex
    /\ Hold(<<Checkpoint(snap.index, snap.term, wal.commitIndex)>>, "snapshot")
    /\ UNCHANGED <<calls, snap>>

\* appendRecord: a frame goes to the active segment, or a full segment is synced
\* and the frame's new segment created.  Frames differ in size, so any segment
\* that holds one may be full.
CreateSegment ==
    /\ up
    /\ lock.todo # <<>>
    /\ Active.header
    /\ Active.frames # <<>>
    /\ Len(segments) < MaxSegments
    /\ segments' = Append(segments, [header |-> FALSE, linked |-> FALSE, frames |-> <<>>])
    /\ synced' = -1
    /\ UNCHANGED <<files, up, wal, calls, lock, snap, stable, acked>>

WriteHeader ==
    /\ up
    /\ ~Active.header
    /\ segments' = [segments EXCEPT ![Len(segments)].header = TRUE]
    /\ UNCHANGED <<synced, files, up, wal, calls, lock, snap, stable, acked>>

WriteFrame ==
    /\ up
    /\ lock.todo # <<>>
    /\ Active.header
    /\ segments' = [segments EXCEPT ![Len(segments)].frames = Append(@, Head(lock.todo))]
    /\ lock' = [lock EXCEPT !.todo = Tail(@)]
    /\ UNCHANGED <<synced, files, up, wal, calls, snap, stable, acked>>

IsCheckpoint == lock.frames[1].kind = "Checkpoint"

\* Mutated: a truncation leaves the WAL's end of the log where it was.
KeepEnd(frames) ==
    LET f == frames[1]
    IN  CASE f.kind = "Checkpoint" -> [wal EXCEPT !.snapshotIndex = f.index]
          [] f.kind = "Hard" -> [wal EXCEPT !.hardState = f.hard]
          [] f.kind = "Entry" -> [wal EXCEPT !.lastLogIndex = @ + Len(frames)]
          [] f.kind = "Truncation" -> wal
          [] f.kind = "Commit" -> [wal EXCEPT !.commitIndex = f.index]

\* The fields of the WAL once the frames of a call are synced.
WALAfter(frames) ==
    LET f == frames[1]
    IN  CASE f.kind = "Checkpoint" -> [wal EXCEPT !.snapshotIndex = f.index]
          [] f.kind = "Hard" -> [wal EXCEPT !.hardState = f.hard]
          [] f.kind = "Entry" -> [wal EXCEPT !.lastLogIndex = @ + Len(frames)]
          [] f.kind = "Truncation" -> [wal EXCEPT !.lastLogIndex = f.index - 1]
          [] f.kind = "Commit" -> [wal EXCEPT !.commitIndex = f.index]

\* Mutated: SaveLogEntries returns before its records are synced.
ReturnUnsynced ==
    /\ up
    /\ lock.phase = "append" /\ lock.todo = <<>>
    /\ synced' = IF \E i \in 1..Len(lock.frames) : lock.frames[i].kind = "Entry"
                 THEN synced ELSE Len(Active.frames)
    /\ stable' = FoldLeft(Effect, stable, lock.frames)
    /\ acked' = Acknowledge(stable')
    /\ wal' = WALAfter(lock.frames)
    /\ lock' = IF IsCheckpoint THEN [lock EXCEPT !.phase = "remove"] ELSE Idle
    /\ UNCHANGED <<segments, files, up, calls, snap>>

\* The sync that ends SaveHardState, SaveLogEntries, TruncateLog and
\* SaveCommitIndex, and the one in installSnapshotCheckpoint.
Sync ==
    /\ up
    /\ lock.phase = "append" /\ lock.todo = <<>>
    /\ synced' = Len(Active.frames)
    /\ stable' = FoldLeft(Effect, stable, lock.frames)
    /\ acked' = Acknowledge(stable')
    /\ wal' = WALAfter(lock.frames)
    /\ lock' = IF IsCheckpoint THEN [lock EXCEPT !.phase = "remove"] ELSE Idle
    /\ UNCHANGED <<segments, files, up, calls, snap>>

Removable == {i \in 1..Len(segments) - 1 : Covered(segments[i], lock.frames[1].index)}

Without(segs, gone) ==
    LET kept == SetToSortSeq((1..Len(segs)) \ gone, <)
    IN  [i \in 1..Len(kept) |-> segs[kept[i]]]

\* The directory is synced: every segment in it stays.
Linked(segs) == [i \in 1..Len(segs) |-> [segs[i] EXCEPT !.linked = TRUE]]

\* The end of installSnapshotCheckpoint: the covered segments are deleted and the
\* directory synced.  InstallSnapshot advances the WAL's indices; a finished local
\* Snapshot lets the next one start.
RemoveCovered ==
    /\ up
    /\ lock.phase = "remove"
    /\ segments' = Linked(Without(segments, Removable))
    /\ LET index == lock.frames[1].index
       IN  IF lock.by = "loop"
           THEN /\ wal' = [wal EXCEPT !.commitIndex = Max({@, index}), !.lastLogIndex = Max({@, index})]
                /\ UNCHANGED snap
           ELSE snap' = NoSnap /\ UNCHANGED wal
    /\ lock' = Idle
    /\ UNCHANGED <<synced, files, up, calls, stable, acked>>

----------------------------------------------------------------------------
(***************************************************************************)
(* Stopping and restarting.  A call whose check fails ends runRaft; the    *)
(* files it leaves are those of a killed process.                          *)
(***************************************************************************)
Stop ==
    /\ up' = FALSE
    /\ calls' = <<>>
    /\ snap' = NoSnap
    /\ UNCHANGED <<files, wal, lock, stable, acked>>

Refuse ==
    /\ up
    /\ lock = Idle
    /\ calls # <<>>
    /\ ~Accepted(Head(calls))
    /\ Stop
    /\ UNCHANGED <<segments, synced>>

\* The segments a stop may leave: the covered ones are deleted one by one, and a
\* deletion may be lost until the directory is synced; the active segment keeps
\* k frames, and may end in a frame cut short.
Leaving(gone, k, torn) ==
    Without([segments EXCEPT ![Len(segments)].frames =
                 SubSeq(@, 1, k) \o (IF torn THEN <<[kind |-> "Torn"]>> ELSE <<>>)], gone)

Deletions == IF lock.phase = "remove" THEN SUBSET Removable ELSE {{}}

Crash ==
    /\ up
    /\ Active.header
    /\ \E gone \in Deletions, k \in Max({0, synced})..Len(Active.frames), torn \in BOOLEAN :
          /\ torn => k < Len(Active.frames) \/ lock.todo # <<>>
          /\ \/ /\ "Power" \in Failures
                /\ segments' = Linked(Leaving(gone, k, torn))
                /\ synced' = k
             \/ /\ "Process" \in Failures
                /\ k = Len(Active.frames)
                /\ segments' = Leaving(gone, k, torn)
                /\ UNCHANGED synced
    /\ Stop

\* A stop that leaves a new segment without its header: it was not written yet, or
\* not synced when the power failed.
CrashBeforeHeader ==
    /\ "Header" \in Failures
    /\ up
    /\ ~Active.header \/ ("Power" \in Failures /\ synced = -1)
    /\ segments' = [segments EXCEPT ![Len(segments)].header = FALSE,
                                    ![Len(segments)].frames = <<>>]
    /\ Stop
    /\ UNCHANGED synced

\* A power failure that loses the newest segment files, whose directory entries no
\* sync has covered.  The directory takes its changes in order, so the deletions
\* that followed are lost with them.
CrashLosesFiles ==
    /\ "Directory" \in Failures
    /\ up
    /\ \E n \in 0..Len(segments) - 1 :
          /\ \A i \in n + 1..Len(segments) : ~segments[i].linked
          /\ segments' = Linked(SubSeq(segments, 1, n))
          /\ synced' = IF n = 0 THEN -1 ELSE Len(segments[n].frames)
    /\ Stop

Recovered == LoadNewest(RecoverSegments(segments), files)

\* Everything recovery reads is on stable storage once it has cut an interrupted
\* frame, because truncateFinalFrame syncs the segment; Open itself syncs nothing.
AllSynced == Interrupted(segments) \/ segments = <<>> \/ synced = Len(Active.frames)

\* The frames of the interrupted call that were written.
Written == SubSeq(lock.frames, 1, Len(lock.frames) - Len(lock.todo))

\* Open and openRaftRuntime; a Node whose recovery fails does not start, and an
\* empty directory gets its first segment.
Recover ==
    /\ ~up
    /\ Recovered.ok
    /\ segments' = IF segments = <<>> THEN <<FirstSegment>> ELSE TruncateFinalFrame(segments)
    /\ synced' = IF AllSynced THEN Len(segments'[Len(segments')].frames) ELSE synced
    /\ up' = TRUE
    /\ wal' = Fields(RecoverSegments(segments))
    /\ stable' = Recovered
    /\ acked' = IF AllSynced THEN Acknowledge(Recovered)
                ELSE [acked EXCEPT !.frames = @ \o Written]
    /\ lock' = Idle
    /\ UNCHANGED <<files, calls, snap>>

----------------------------------------------------------------------------
LoopStep ==
    \/ PersistHardState
    \/ PersistLogEntries
    \/ PersistCommitIndex
    \/ ReceiveSnapshot
    \/ StartSnapshot
    \/ StartCall

WALStep ==
    \/ CreateSegment
    \/ WriteHeader
    \/ WriteFrame
    \/ Sync
    \/ RemoveCovered

Next ==
    /\ \/ LoopStep
       \/ SaveSnapshot
       \/ StartCompact
       \/ WALStep
       \/ Refuse
       \/ Crash
       \/ CrashBeforeHeader
       \/ CrashLosesFiles
       \/ Recover
    /\ UNCHANGED limits

Spec == Init /\ [][Next]_vars

----------------------------------------------------------------------------
(***************************************************************************)
(* Properties.                                                             *)
(***************************************************************************)
\* Every frame is one the WAL writes, the unsynced part of the active segment is
\* its tail, and no thread holds the mutex once the process has stopped.
TypeOK ==
    /\ \A i \in 1..Len(segments) :
          /\ ~segments[i].header => i = Len(segments) /\ segments[i].frames = <<>>
          /\ \A j \in 1..Len(segments[i].frames) : segments[i].frames[j].kind = "Torn" =>
                ~up /\ i = Len(segments) /\ j = Len(segments[i].frames)
    /\ synced \in -1..(IF segments = <<>> THEN 0 ELSE Len(Active.frames))
    /\ acked.frames # <<>> => "Process" \in Failures
    /\ files \subseteq [index : 0..MaxIndex, term : 0..MaxTerm]
    /\ up \in BOOLEAN
    /\ lock.phase \in {"idle", "append", "remove"} /\ lock.by \in {"loop", "snapshot"}
    /\ snap.stage \in {"none", "captured", "saved"}
    /\ stable.ok /\ stable.base <= stable.commit /\ stable.commit <= LastIndex(stable)

\* r holds the history of s, from a base that may be newer.
SameHistory(r, s) ==
    /\ r.hard = s.hard /\ r.commit = s.commit /\ LastIndex(r) = LastIndex(s)
    /\ r.base \in s.base..s.commit
    /\ \A i \in r.base..LastIndex(r) : TermAt(r, i) = TermAt(s, i)

\* No truncation together with a Snapshot, no received Snapshot, every segment has
\* its header; and where Snapshots are taken, one kind of stop only: a Snapshot of
\* a commit index that was recovered and never synced may outlive it.  Recovery is
\* exact then; otherwise it may shorten or refuse.
PlainHistory ==
    /\ Operations \in {{}, {"Truncate"}, {"Compact"}}
    /\ "Header" \notin Failures
    /\ "Compact" \in Operations => Cardinality(Failures) = 1

\* Power failures keep the segment files, whose directory entries createSegment
\* does not sync.
FilesKept == "Directory" \notin Failures

\* A Node that stopped anywhere can start again: whatever stops leave of the
\* segments and Snapshot files of a plain history, Open and LoadNewest return no
\* error (the README's "Recovers from restarts").
RestartSucceeds == ~up /\ PlainHistory => Recovered.ok

\* The frames that may or may not be there when recovery reads the disk.
InDoubt == acked.frames \o lock.frames

\* The Term, vote, log and commit index that recovery returns in a plain history are
\* those of the WAL calls that returned, plus at most a prefix of the records of
\* the calls that stops interrupted since the last one returned: through any
\* sequence of process stops and power failures that keep the segment files,
\* nothing acknowledged is lost and nothing cut comes back.
RecoversAcknowledged ==
    ~up /\ PlainHistory /\ FilesKept /\ Recovered.ok =>
        \E k \in 0..Len(InDoubt) :
            SameHistory(Recovered, FoldLeft(Effect, acked.state, SubSeq(InDoubt, 1, k)))

\* Whatever becomes of the uncommitted suffix, a Node that starts again after stops
\* that keep the segment files has the Term and vote and every committed entry
\* that WAL calls returned for, in its Snapshot or its log, and commits nothing it
\* does not hold.
CommittedSurvives ==
    ~up /\ FilesKept /\ Recovered.ok =>
        LET r == Recovered
            s == acked.state
        IN  /\ r.hard \in {s.hard} \union
                  {InDoubt[i].hard : i \in {j \in 1..Len(InDoubt) : InDoubt[j].kind = "Hard"}}
            /\ s.commit <= r.commit
            /\ s.base <= r.base /\ r.base <= r.commit /\ r.commit <= LastIndex(r)
            /\ \A i \in r.base..s.commit : TermAt(r, i) = TermAt(s, i)

\* The WAL accepts what the core asks of it: its own idea of where the log ends and
\* what is committed never drifts from the core's in a plain history, so no legal
\* step stops the Node.
CallsAccepted ==
    PlainHistory /\ up /\ lock = Idle /\ calls # <<>> => Accepted(Head(calls))

=============================================================================
