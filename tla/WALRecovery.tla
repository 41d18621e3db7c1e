---------------------------- MODULE WALRecovery ----------------------------
(***************************************************************************)
(* The recovery half of internal/wal/wal.go and internal/snapshot: what a  *)
(* Node reads back from its WAL segments and Snapshot files, as pure       *)
(* operators.                                                              *)
(*                                                                         *)
(* A segment is [header, linked, frames], linked when its directory entry  *)
(* is synced; a frame is one checksummed record, and [kind |-> "Torn"] one *)
(* cut short by an interrupted write.                                      *)
(* An entry is known by its index and Term (two entries that agree on both *)
(* are the same entry), a Snapshot file by its included index and Term.    *)
(* The identity records are the same on every Node that gets this far and  *)
(* are left out.                                                           *)
(***************************************************************************)
EXTENDS Integers, SequencesExt

CONSTANT NoVote

\* RecoveredState; ok is FALSE once recovery has returned an error, and the log
\* holds the Terms of the entries that follow index base.
NewState == [ok |-> TRUE, hard |-> [term |-> 0, votedFor |-> NoVote],
             base |-> 0, baseTerm |-> 0, log |-> <<>>, commit |-> 0]

LastIndex(s) == s.base + Len(s.log)

TermAt(s, i) == IF i = s.base THEN s.baseTerm ELSE s.log[i - s.base]

Fail(s) == [s EXCEPT !.ok = FALSE]

\* applyRecord, one operator per kind of record.
ApplyHard(s, f) ==
    IF f.hard.term < s.hard.term \/ (f.hard.term = s.hard.term /\ s.hard.votedFor # NoVote)
    THEN s
    ELSE [s EXCEPT !.hard = f.hard]

ApplyEntry(s, f) ==
    CASE f.index <= s.base -> s
      [] f.index = LastIndex(s) + 1 -> [s EXCEPT !.log = Append(@, f.term)]
      [] OTHER -> Fail(s)

ApplyTruncation(s, f) ==
    IF f.index <= s.base \/ f.index > LastIndex(s) + 1 \/ f.index <= s.commit
    THEN Fail(s)
    ELSE [s EXCEPT !.log = SubSeq(@, 1, f.index - s.base - 1)]

ApplyCommit(s, f) ==
    CASE f.index < s.commit -> s
      [] f.index > LastIndex(s) -> Fail(s)
      [] OTHER -> [s EXCEPT !.commit = f.index]

ApplyCheckpoint(s, f) ==
    IF f.index > s.base THEN Fail(s) ELSE s

ApplyRecord(s, f) ==
    CASE f.kind = "Hard" -> ApplyHard(s, f)
      [] f.kind = "Entry" -> ApplyEntry(s, f)
      [] f.kind = "Truncation" -> ApplyTruncation(s, f)
      [] f.kind = "Commit" -> ApplyCommit(s, f)
      [] f.kind = "Checkpoint" -> ApplyCheckpoint(s, f)
      [] f.kind = "Torn" -> Fail(s)

Frames(segs) == FlattenSeq([i \in 1..Len(segs) |-> segs[i].frames])

\* newestCompactionCheckpoint: the last checkpoint in segment order; recovery
\* starts from what it records.
NewestCheckpoint(segs) ==
    LET checkpoints == SelectSeq(Frames(segs), LAMBDA f : f.kind = "Checkpoint")
    IN  IF checkpoints = <<>>
        THEN NewState
        ELSE LET c == Last(checkpoints)
             IN  [NewState EXCEPT !.ok = c.index <= c.commit, !.hard = c.hard,
                                  !.base = c.index, !.baseTerm = c.term, !.commit = c.commit]

\* The last segment ends in a frame cut short.
Interrupted(segs) ==
    /\ segs # <<>>
    /\ LET final == segs[Len(segs)].frames
       IN  final # <<>> /\ Last(final).kind = "Torn"

\* Mutated: the interrupted final frame is left in the segment.
KeepFinalFrame(segs) == segs

\* truncateFinalFrame: an interrupted final frame is cut from the last segment.
TruncateFinalFrame(segs) ==
    IF Interrupted(segs) THEN [segs EXCEPT ![Len(segs)].frames = Front(@)] ELSE segs

\* Mutated: an interrupted final frame is an error like any other.
RejectFinalFrame(segs) ==
    FoldLeft(ApplyRecord, NewestCheckpoint(segs), Frames(segs))

\* recoverSegments and readSegment: every retained record is applied, in order, to
\* the newest checkpoint; a segment shorter than its header is an error, and so is
\* an interrupted frame, unless it is the final one.
RecoverSegments(segs) ==
    IF \E i \in 1..Len(segs) : ~segs[i].header
    THEN Fail(NewState)
    ELSE FoldLeft(ApplyRecord, NewestCheckpoint(segs),
                  IF Interrupted(segs) THEN Front(Frames(segs)) ELSE Frames(segs))

\* matchesWAL: the Snapshot file's position is in the committed history of the WAL.
MatchesWAL(file, s) ==
    /\ file.index <= s.commit
    /\ CASE file.index = 0 -> file.term = 0
         [] file.index = s.base /\ file.index # 0 -> file.term = s.baseTerm
         [] OTHER -> /\ file.index > s.base
                     /\ file.index <= LastIndex(s)
                     /\ file.term = TermAt(s, file.index)

\* The recovered state from index i on, the included position of a Snapshot.
DropThrough(s, i, t) ==
    [s EXCEPT !.base = i, !.baseTerm = t,
              !.log = SubSeq(@, i - s.base + 1, Len(@))]

\* LoadNewest, and openRaftRuntime's use of it: the newest Snapshot that matches
\* the WAL becomes the base of the log; files that all fail to match are an error,
\* and without a file the state machine starts empty at index 0.
LoadNewest(s, files) ==
    LET matching == {f \in files : MatchesWAL(f, s)}
        newest == CHOOSE f \in matching : \A g \in matching : g.index <= f.index
    IN  CASE ~s.ok -> s
          [] s.ok /\ matching # {} ->
                IF newest.index < s.base
                THEN [s EXCEPT !.base = newest.index, !.baseTerm = newest.term]
                ELSE DropThrough(s, newest.index, newest.term)
          [] s.ok /\ files = {} -> [s EXCEPT !.base = 0, !.baseTerm = 0]
          [] OTHER -> Fail(s)

\* segmentCoveredBySnapshot: no entry and no truncation beyond the Snapshot.
Covered(segment, index) ==
    \A i \in 1..Len(segment.frames) :
        segment.frames[i].kind \in {"Entry", "Truncation"} => segment.frames[i].index <= index

=============================================================================
