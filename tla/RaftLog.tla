------------------------------- MODULE RaftLog -------------------------------
(***************************************************************************)
(* The log of a Node whose history is uncompacted (logBaseIndex = 0), as   *)
(* the pure functions of internal/raft/raft.go read and edit it.  A log is *)
(* a sequence of entries; the position of an entry is its Index, so the    *)
(* index check of entriesToAppend (raft.go:1357) holds by construction.    *)
(* An entry keeps its term and its command; every command other than       *)
(* NoOp is opaque to consensus.                                            *)
(***************************************************************************)
EXTENDS Integers, Sequences, FiniteSetsExt

\* termAt: 0 outside the log.
TermAt(l, i) == IF i \in 1..Len(l) THEN l[i].term ELSE 0

LastLogTerm(l) == TermAt(l, Len(l))

\* Mutated: any candidate is up to date.
AnyLogIsUpToDate(candidateTerm, candidateIndex, l) == TRUE

\* candidateLogIsUpToDate, logIsAtLeastAsUpToDate.
CandidateLogIsUpToDate(candidateTerm, candidateIndex, l) ==
    \/ candidateTerm > LastLogTerm(l)
    \/ candidateTerm = LastLogTerm(l) /\ candidateIndex >= Len(l)

\* matches: the consistency check of AppendEntries.
Matches(l, i, t) == (i = 0 /\ t = 0) \/ (i <= Len(l) /\ TermAt(l, i) = t)

\* entriesBatch: entries first..Len(l), cut after maxBatch of them.  The code
\* cuts by bytes and always takes at least one entry; every entry here has
\* the same size.
EntriesBatch(l, first, maxBatch) ==
    SubSeq(l, first, Min({Len(l), first + maxBatch - 1}))

\* The offsets of `entries` whose entry the log does not hold.
NewOffsets(l, prev, entries) ==
    {k \in 1..Len(entries) : \/ prev + k > Len(l)
                             \/ TermAt(l, prev + k) # entries[k].term}

\* entriesToAppend fails when an entry contradicts a committed one.
ContradictsCommitted(l, commit, prev, entries) ==
    LET new == NewOffsets(l, prev, entries)
    IN  new # {} /\ prev + Min(new) <= commit

\* Mutated: the log is cut after prev even when nothing conflicts.
AppendNewAlwaysCut(l, prev, entries) == SubSeq(l, 1, prev) \o entries

\* entriesToAppend, truncateLog and appendEntries: skip the entries the log
\* holds, cut the log at the first one it does not, append the rest.
AppendNew(l, prev, entries) ==
    LET new == NewOffsets(l, prev, entries)
    IN  IF new = {} THEN l
        ELSE SubSeq(l, 1, prev + Min(new) - 1)
             \o SubSeq(entries, Min(new), Len(entries))

\* conflictHint: the term at index i and the first index of its run.
ConflictHint(l, i) ==
    IF i \notin 1..Len(l)
    THEN [term |-> 0, index |-> Len(l) + 1]
    ELSE [term  |-> TermAt(l, i),
          index |-> Min({k \in 1..i : \A j \in k..i : TermAt(l, j) = TermAt(l, i)})]

\* nextIndexFromConflict: after the last entry of the conflicting term if the
\* log has one, else where the peer's hint points.
NextIndexFromConflict(l, conflictTerm, conflictIndex) ==
    LET ofTerm == {i \in 1..Len(l) : l[i].term = conflictTerm}
        next   == IF conflictTerm # 0 /\ ofTerm # {} THEN Max(ofTerm) + 1
                  ELSE Max({conflictIndex, 1})
    IN  Min({next, Len(l) + 1})
=============================================================================
