------------------------------ MODULE Transfer ------------------------------
(***************************************************************************)
(* Repairing one Follower over compacted logs: AppendEntries with its      *)
(* conflict hints, InstallSnapshot in chunks, and the messages between the *)
(* Follower and the two other members, either of which may lead.           *)
(*                                                                         *)
(* history is the log the two members agree on; all of it is committed     *)
(* (Raft shows how).  A deposed Leader goes on with the part it holds until *)
(* it learns better.  Each pair of Nodes exchanges messages in order: a     *)
(* Node makes one Send RPC at a time.  A Send that failed may still have    *)
(* been accepted by its target.                                            *)
(***************************************************************************)
EXTENDS Integers, Sequences, FiniteSets, SequencesExt, FiniteSetsExt

CONSTANTS
    Member,      \* the two Nodes other than the Follower
    NoFile,
    TwoChunks,   \* the indices whose Snapshot takes two chunks
    CompactAt,   \* bound: the indices of the members' Snapshots
    MaxIndex,    \* bound: length of the history
    MaxTerm,     \* bound: terms
    MaxBatch,    \* entries in a request
    MaxQueue,    \* bound: messages between the Follower and a member
    MaxFailures, \* bound: failures
    FaultLoads   \* the faults that may come together: see faults

ASSUME TransferAssumption ==
    /\ Cardinality(Member) = 2
    /\ MaxQueue \in Nat \ {0}
    /\ \A l \in FaultLoads : l \subseteq {"Send", "Response", "Restart", "Election", "Compaction", "Delay"}

VARIABLES
    history,     \* terms of the committed entries
    held,        \* how much of it each member holds
    base,        \* logBaseIndex of each member
    term,        \* the term of each member
    leads,       \* the members that take themselves for the Leader
    progress,    \* what each Leader keeps about the Follower
    follower,    \* the Follower's core, state machine and process
    incoming,    \* the Snapshot the Follower is receiving
    toFollower, toMember, \* messages on their way, for each member
    failures,
    faults       \* "Send": a member's Send fails; "Response": one of the
                 \* Follower's; "Restart": the Follower does; "Election": the
                 \* other member wins one; "Compaction": of the Follower's log;
                 \* "Delay": answers take longer than a heartbeat interval

vars == <<history, held, base, term, leads, progress, follower, incoming,
          toFollower, toMember, failures, faults>>

NotInFlight == [id |-> 0, commit |-> 0]
NoProgress == [match |-> 0, next |-> 0, append |-> NotInFlight, snapshot |-> 0]

TermIn(l, i) == IF i \in DOMAIN l THEN l[i] ELSE 0

-----------------------------------------------------------------------------
(* The Follower's log above its base *)

LastIndex(f) == f.base + Len(f.log)

TermAt(f, i) ==
    CASE i = f.base -> f.baseTerm
      [] i > f.base /\ i <= LastIndex(f) -> f.log[i - f.base]
      [] OTHER -> 0

Matches(f, i, t) == (i = 0 /\ t = 0) \/ (i <= LastIndex(f) /\ TermAt(f, i) = t)

ConflictHint(f, i) ==
    IF i = 0 \/ i > LastIndex(f) THEN [term |-> 0, index |-> LastIndex(f) + 1]
    ELSE [term |-> TermAt(f, i),
          index |-> Min({j \in f.base + 1 .. i : \A k \in j .. i : TermAt(f, k) = TermAt(f, i)} \cup {i})]

\* Offsets of the entries the Follower does not have as they are.
Differing(f, m) == {k \in DOMAIN m.entries : TermAt(f, m.prev + k) # m.entries[k]}

\* entriesToAppend refuses to replace what is committed.
Appendable(f, m) == \A k \in Differing(f, m) : k = Min(Differing(f, m)) => m.prev + k > f.commit

\* Mutated: what the Follower has at an index is taken for what was sent.
AppendedByIndex(f, m) ==
    [f EXCEPT !.log = @ \o SubSeq(m.entries, LastIndex(f) - m.prev + 1, Len(m.entries))]

Appended(f, m) ==
    IF Differing(f, m) = {} THEN f
    ELSE LET k == Min(Differing(f, m))
         IN  [f EXCEPT !.log = SubSeq(@, 1, m.prev + k - f.base - 1)
                                   \o SubSeq(m.entries, k, Len(m.entries))]

\* Mutated: entries that did not come yet are committed.
CommittedBeyond(f, leaderCommit) ==
    [f EXCEPT !.commit = Max({@, leaderCommit}), !.lastApplied = Max({@, leaderCommit}),
              !.machine = @ \cup (f.lastApplied + 1 .. leaderCommit)]

\* advanceFollowerCommit and applyThrough.
Committed(f, leaderCommit) ==
    LET c == Max({f.commit, Min({leaderCommit, LastIndex(f)})})
    IN  [f EXCEPT !.commit = c, !.lastApplied = Max({@, c}),
                  !.machine = @ \cup (f.lastApplied + 1 .. c)]

-----------------------------------------------------------------------------
(* The Leader's progress *)

\* Request identities are only compared, so one that is nowhere in use is new.
UsedIDs(n) ==
    {progress[n].append.id, progress[n].snapshot}
        \cup {m.id : m \in Range(toFollower[n]) \cup Range(toMember[n])}
NewID(n) == Min({i \in 1 .. MaxQueue + 3 : i \notin UsedIDs(n)})

LogOf(n) == SubSeq(history, 1, held[n])

\* What a Leader with that knowledge of the Follower has committed.
CommitOf(n, p) == Max({Min(Range(held)), Min({p.match, held[n]})})

\* sendSnapshot: a chunk of the file at the Leader's present base.
Length(i) == IF i \in TwoChunks THEN 2 ELSE 1
Chunk(n, id, offset) ==
    [type |-> "InstallSnapshot", term |-> term[n], id |-> id, index |-> base[n],
     indexTerm |-> TermIn(history, base[n]), file |-> <<n, base[n]>>, length |-> Length(base[n]),
     offset |-> offset, done |-> offset + 1 >= Length(base[n])]

\* entriesBatch bounds a request.
AppendRequest(n, t, l, c, id, next) ==
    [type |-> "AppendEntries", term |-> t, id |-> id, prev |-> next - 1,
     prevTerm |-> TermIn(l, next - 1),
     entries |-> SubSeq(l, next, Min({Len(l), next + MaxBatch - 1})), commit |-> c]

Nothing(p) == [p |-> p, out |-> <<>>]

\* sendAppendEntriesTo, for a Leader of term t with log l, committed up to c: its
\* progress after it and the message it sends, if any.
Send(n, t, p, l, c) ==
    LET next == IF p.next = 0 \/ p.next > Len(l) + 1 THEN Len(l) + 1 ELSE p.next
        id   == NewID(n)
    IN  CASE p.append.id # 0 -> Nothing(p)
          [] p.append.id = 0 /\ next <= base[n] /\ p.snapshot # 0 -> Nothing(p)
          [] p.append.id = 0 /\ next <= base[n] /\ p.snapshot = 0 ->
                [p |-> [p EXCEPT !.snapshot = id], out |-> <<Chunk(n, id, 0)>>]
          [] OTHER ->
                [p |-> [p EXCEPT !.append = [id |-> id, commit |-> c]],
                 out |-> <<AppendRequest(n, t, l, c, id, next)>>]

\* Mutated: a failed chunk is not given up.
ForgetAppend(p, id) == [p EXCEPT !.append = IF @.id = id THEN NotInFlight ELSE @]

\* handleAppendEntriesFailed.
Forget(p, id) ==
    [p EXCEPT !.append = IF @.id = id THEN NotInFlight ELSE @,
              !.snapshot = IF @ = id THEN 0 ELSE @]

\* sendSnapshot refuses an offset beyond the file: a shorter one has replaced it.
BeyondFile(m) == m.type = "InstallSnapshot" /\ m.offset >= m.length

\* The RPC succeeds, or fails, whether or not the target accepted it, and the
\* core is told.  q is what is queued before it.
Transmit(n, sent, q) ==
    \/ /\ follower.up \/ sent.out = <<>>
       /\ progress' = [progress EXCEPT ![n] = sent.p]
       /\ toFollower' = [toFollower EXCEPT ![n] = q \o sent.out]
       /\ UNCHANGED failures
    \/ /\ sent.out # <<>>
       /\ progress' = [progress EXCEPT ![n] = Forget(sent.p, Head(sent.out).id)]
       /\ \/ /\ follower.up
             /\ "Send" \in faults
             /\ failures < MaxFailures
             /\ failures' = failures + 1
             /\ \E queue \in {q, q \o sent.out} : toFollower' = [toFollower EXCEPT ![n] = queue]
          \/ /\ ~follower.up \/ BeyondFile(Head(sent.out))
             /\ toFollower' = [toFollower EXCEPT ![n] = q]
             /\ UNCHANGED failures

-----------------------------------------------------------------------------
(* The members *)

\* A Leader begins an exchange when the last one is over, or before its answer came.
Room(n) ==
    LET queued == Len(toFollower[n]) + Len(toMember[n])
    IN  queued = 0 \/ ("Delay" \in faults /\ queued < MaxQueue)

Newest(n) == n \in leads /\ \A m \in Member : term[m] <= term[n]

\* heartbeatRound: an AppendEntries without answer is given up.
Heartbeat(n) ==
    LET p == [progress[n] EXCEPT !.append = NotInFlight]
    IN  /\ n \in leads
        /\ Room(n)
        /\ Transmit(n, Send(n, term[n], p, LogOf(n), CommitOf(n, p)), toFollower[n])
        /\ UNCHANGED <<history, held, base, term, leads, follower, incoming, toMember>>

\* A proposal, persisted.
Propose(n) ==
    /\ Newest(n)
    /\ Len(history) < MaxIndex
    /\ Room(n)
    /\ history' = Append(history, term[n])
    /\ held' = [held EXCEPT ![n] = Len(history) + 1]
    /\ Transmit(n, Send(n, term[n], progress[n], history', CommitOf(n, progress[n])), toFollower[n])
    /\ UNCHANGED <<base, term, leads, follower, incoming, toMember>>

\* The other member has learned of the newest Leader and holds what it holds.
\* The Leader commits, and says so to its peers.
Follow(m) ==
    \E n \in Member \ {m} :
        /\ Newest(n)
        /\ m \in leads \/ held[m] < Len(history)
        /\ Room(n)
        /\ leads' = leads \ {m}
        /\ term' = [term EXCEPT ![m] = term[n]]
        /\ held' = [held EXCEPT ![m] = Len(history)]
        /\ LET sent == IF held[m] < Len(history)
                       THEN Send(n, term[n], progress[n], LogOf(n), Len(history))
                       ELSE Nothing(progress[n])
           IN  Transmit(n, sent, toFollower[n])
        /\ UNCHANGED <<history, base, follower, incoming, toMember>>

\* SnapshotCompacted, at a member: a local Snapshot of what it applied is done.
Compact(m) ==
    /\ \E i \in CompactAt \cap (base[m] + 1 .. CommitOf(m, progress[m])) : base' = [base EXCEPT ![m] = i]
    /\ UNCHANGED <<history, held, term, leads, progress, follower, incoming, toFollower,
                   toMember, failures>>

\* A member that holds everything wins an election by the vote of the other, which
\* steps down, or of the Follower, and sends its no-op.
Elect(n) ==
    LET t == Max(Range(term) \cup {follower.term}) + 1
        p == [NoProgress EXCEPT !.next = Len(history) + 2]
    IN  /\ "Election" \in faults
        /\ t <= MaxTerm
        /\ n \notin leads
        /\ held[n] = Len(history)
        /\ Len(history) < MaxIndex
        /\ Room(n)
        /\ history' = Append(history, t)
        /\ held' = [held EXCEPT ![n] = Len(history) + 1]
        /\ \/ /\ leads' = {n}
              /\ term' = [m \in Member |-> t]
              /\ UNCHANGED follower
           \/ /\ follower.up
              /\ \/ TermAt(follower, LastIndex(follower)) < TermIn(history, Len(history))
                 \/ /\ TermAt(follower, LastIndex(follower)) = TermIn(history, Len(history))
                    /\ LastIndex(follower) <= Len(history)
              /\ leads' = leads \cup {n}
              /\ term' = [term EXCEPT ![n] = t]
              /\ follower' = [follower EXCEPT !.term = t]
        /\ Transmit(n, Send(n, t, p, history', CommitOf(n, p)), toFollower[n])
        /\ UNCHANGED <<base, incoming, toMember>>

\* nextIndexFromConflict; termAt is 0 below the base.
NextIndexFromConflict(n, m) ==
    LET l     == LogOf(n)
        found == {i \in Max({1, base[n]}) .. Len(l) : l[i] = m.conflictTerm}
        next  == IF m.conflictTerm # 0 /\ found # {} THEN Max(found) + 1 ELSE m.conflictIndex
    IN  Min({Max({1, next}), Len(l) + 1})

StepDown(n, t) ==
    /\ leads' = leads \ {n}
    /\ term' = [term EXCEPT ![n] = t]
    /\ progress' = [progress EXCEPT ![n] = NoProgress]
    /\ UNCHANGED <<toFollower, failures>>

Ignore == UNCHANGED <<leads, term, progress, toFollower, failures>>

\* handleAppendEntriesResponse.
HandleAppendEntriesResponse(n, m) ==
    LET pending == progress[n].append
        p == [progress[n] EXCEPT
                !.append = NotInFlight,
                !.match = IF m.success THEN Max({@, m.match}) ELSE @,
                !.next = IF m.success THEN Max({progress[n].match, m.match}) + 1
                         ELSE NextIndexFromConflict(n, m)]
        c == CommitOf(n, p)
    IN  CASE m.term > term[n] -> StepDown(n, m.term)
          [] m.term <= term[n] /\ (n \notin leads \/ m.term # term[n]
                                   \/ (pending.id # 0 /\ m.id # pending.id)) -> Ignore
          [] OTHER ->
                /\ Transmit(n, IF \/ c > CommitOf(n, progress[n]) \/ ~m.success
                                  \/ p.next <= held[n] \/ pending.commit < c
                               THEN Send(n, term[n], p, LogOf(n), c) ELSE Nothing(p), toFollower[n])
                /\ UNCHANGED <<leads, term>>

\* Mutated: the Follower is taken to hold the present Snapshot, not the one it has.
AfterPresent(p, m) == [p EXCEPT !.match = Max({@, Max(Range(base))}), !.next = Max(Range(base)) + 1]

AfterInstall(p, m) == [p EXCEPT !.match = Max({@, m.index}), !.next = m.index + 1]

\* handleInstallSnapshotResponse: the next chunk is of the present base.
HandleInstallSnapshotResponse(n, m) ==
    LET p == [progress[n] EXCEPT !.snapshot = 0]
        q == AfterInstall(p, m)
        more == [p |-> progress[n], out |-> <<Chunk(n, m.id, m.nextOffset)>>]
    IN  CASE m.term > term[n] -> StepDown(n, m.term)
          [] m.term <= term[n] /\ (n \notin leads \/ m.term # term[n]
                                   \/ m.id # progress[n].snapshot) -> Ignore
          [] OTHER ->
                /\ Transmit(n, CASE ~m.success -> Nothing(p)
                                 [] m.success /\ ~m.done -> more
                                 [] OTHER -> Send(n, term[n], q, LogOf(n), CommitOf(n, q)),
                            toFollower[n])
                /\ UNCHANGED <<leads, term>>

MemberReceives(n) ==
    /\ toMember[n] # <<>>
    /\ LET m == Head(toMember[n])
       IN  IF m.type = "AppendEntriesResponse" THEN HandleAppendEntriesResponse(n, m)
           ELSE HandleInstallSnapshotResponse(n, m)
    /\ toMember' = [toMember EXCEPT ![n] = Tail(@)]
    /\ UNCHANGED <<history, held, base, follower, incoming>>

-----------------------------------------------------------------------------
(* The Follower *)

AtTerm(f, t) == [f EXCEPT !.term = Max({@, t})]

AppendResponse(f, m, success, hint) ==
    [type |-> "AppendEntriesResponse", term |-> f.term, id |-> m.id, success |-> success,
     match |-> LastIndex(f), conflictTerm |-> hint.term, conflictIndex |-> hint.index]

NoHint == [term |-> 0, index |-> 0]

\* handleAppendEntries: the Follower after it and its answer.
HandleAppendEntries(m) ==
    LET f == AtTerm(follower, m.term)
        refuse(hint) == [f |-> f, out |-> AppendResponse(f, m, FALSE, hint)]
        accepted == Committed(Appended(f, m), m.commit)
    IN  CASE m.term < follower.term -> refuse(NoHint)
          [] m.term >= follower.term /\ ~Matches(f, m.prev, m.prevTerm) ->
                refuse(ConflictHint(f, m.prev))
          [] m.term >= follower.term /\ Matches(f, m.prev, m.prevTerm) /\ ~Appendable(f, m) ->
                refuse(ConflictHint(f, m.prev + 1))
          [] OTHER -> [f |-> accepted, out |-> AppendResponse(accepted, m, TRUE, NoHint)]

\* runRaft's copy of the Snapshot, begun anew by the first chunk.
Staged(m) ==
    IF m.offset = 0 THEN [file |-> m.file, index |-> m.index, term |-> m.indexTerm,
                          length |-> m.length, data |-> <<>>]
    ELSE incoming

\* The chunk continues it.  The file stands for the checksum of its contents.
Fits(m) ==
    LET i == Staged(m)
    IN  /\ i # NoFile
        /\ <<i.index, i.term, i.length, i.file>> = <<m.index, m.indexTerm, m.length, m.file>>
        /\ m.offset = Len(i.data)

\* A chunk at the end of its file is empty.
WithChunk(i, m) ==
    [i EXCEPT !.data = @ \o (IF m.offset < m.length THEN <<m.offset>> ELSE <<>>)]

Valid(i) == Len(i.data) = i.length /\ \A k \in DOMAIN i.data : i.data[k] = k - 1

\* handleInstallSnapshot on an installed Snapshot: a log that holds the
\* Snapshot's last entry keeps what follows it.
Installed(f, m) ==
    LET keeps == m.index <= LastIndex(f) /\ TermAt(f, m.index) = m.indexTerm
    IN  IF m.index <= f.base THEN f
        ELSE [f EXCEPT !.log = IF keeps THEN SubSeq(@, m.index - f.base + 1, Len(@)) ELSE <<>>,
                       !.base = m.index, !.baseTerm = m.indexTerm,
                       !.commit = Max({@, m.index}), !.lastApplied = m.index]

SnapshotResponse(f, m, success, nextOffset, done) ==
    [type |-> "InstallSnapshotResponse", term |-> f.term, id |-> m.id, index |-> m.index,
     success |-> success, nextOffset |-> nextOffset, done |-> done]

\* Mutated: the state machine is left as it was.
RestoredWAL(m) == [follower EXCEPT !.walBase = m.index]

\* WAL.InstallSnapshot and restore.
Restored(m) == [follower EXCEPT !.walBase = m.index, !.machine = 1 .. m.index]

\* Mutated: a Snapshot the WAL has already is refused.
NotNewer(m) == m.index <= follower.walBase

\* WAL.InstallSnapshot refuses a Snapshot older than the one it has.
Older(m) == m.index < follower.walBase

\* The Snapshot arm of runRaft: the Snapshot is saved, the WAL told and the
\* state machine restored before the core sees the request.
HandleInstallSnapshot(m) ==
    LET fits      == Fits(m)
        staged    == IF fits THEN WithChunk(Staged(m), m) ELSE Staged(m)
        installs  == fits /\ m.done /\ Valid(staged)
        success   == fits /\ (m.done => Valid(staged))
        restored  == IF installs THEN Restored(m) ELSE follower
        f         == AtTerm(restored, m.term)
        g         == IF installs THEN Installed(f, m) ELSE f
        answer    == IF m.term < follower.term
                     THEN SnapshotResponse(f, m, FALSE, m.offset, FALSE)
                     ELSE SnapshotResponse(g, m, success,
                              IF success THEN Len(staged.data) ELSE 0, installs)
    IN  [f |-> IF m.term < follower.term THEN restored ELSE g, out |-> answer,
         incoming |-> IF fits /\ m.done THEN NoFile ELSE staged,
         refused |-> installs /\ Older(m)]

\* The answer is sent; nobody is told when that fails.
Respond(n, out) ==
    \/ /\ toMember' = [toMember EXCEPT ![n] = Append(@, out)]
       /\ UNCHANGED failures
    \/ /\ "Response" \in faults
       /\ failures < MaxFailures
       /\ failures' = failures + 1
       /\ UNCHANGED toMember

\* The owner loop takes a message; the Node stops when the WAL refuses a Snapshot.
FollowerReceives(n) ==
    /\ follower.up
    /\ toFollower[n] # <<>>
    /\ LET m == Head(toFollower[n])
       IN  IF m.type = "AppendEntries"
           THEN LET r == HandleAppendEntries(m)
                IN  /\ follower' = r.f
                    /\ Respond(n, r.out)
                    /\ toFollower' = [toFollower EXCEPT ![n] = Tail(@)]
                    /\ UNCHANGED incoming
           ELSE LET r == HandleInstallSnapshot(m)
                IN  IF r.refused
                    THEN /\ follower' = [follower EXCEPT !.up = FALSE]
                         /\ toFollower' = [x \in Member |-> <<>>]
                         /\ UNCHANGED <<incoming, toMember, failures>>
                    ELSE /\ follower' = r.f
                         /\ incoming' = r.incoming
                         /\ Respond(n, r.out)
                         /\ toFollower' = [toFollower EXCEPT ![n] = Tail(@)]
    /\ UNCHANGED <<history, held, base, term, leads, progress>>

\* The Follower's own Snapshot of what it applied is done.
CompactFollower ==
    /\ "Compaction" \in faults
    /\ follower.up
    /\ follower.lastApplied > follower.base
    /\ follower' = [follower EXCEPT
           !.base = follower.lastApplied, !.walBase = Max({@, follower.lastApplied}),
           !.baseTerm = TermAt(follower, follower.lastApplied),
           !.log = SubSeq(@, follower.lastApplied - follower.base + 1, Len(@))]
    /\ UNCHANGED <<history, held, base, term, leads, progress, incoming, toFollower,
                   toMember, failures>>

\* The process stops, and what its queue holds is lost.
StopFollower ==
    /\ "Restart" \in faults
    /\ failures < MaxFailures
    /\ failures' = failures + 1
    /\ follower.up
    /\ follower' = [follower EXCEPT !.up = FALSE]
    /\ toFollower' = [n \in Member |-> <<>>]
    /\ UNCHANGED <<history, held, base, term, leads, progress, incoming, toMember>>

\* Recovery starts from the WAL's checkpoint and applies what is committed.
StartFollower ==
    LET f == follower
        c == Max({f.commit, f.walBase})
    IN  /\ ~f.up
        /\ follower' = [f EXCEPT
               !.up = TRUE, !.base = f.walBase, !.baseTerm = TermIn(history, f.walBase),
               !.log = SubSeq(@, f.walBase - f.base + 1, Len(@)),
               !.commit = c, !.lastApplied = c, !.machine = 1 .. c]
        /\ incoming' = NoFile
        /\ UNCHANGED <<history, held, base, term, leads, progress, toFollower, toMember, failures>>

-----------------------------------------------------------------------------
\* A Leader of term 2 and its peer hold three entries and compacted some; the
\* Follower has none, missed the second, or holds one that was never committed.
Init ==
    /\ history = <<1, 1, 2>>
    /\ held = [n \in Member |-> 3]
    /\ base \in [Member -> {0, 2}]
    /\ term = [n \in Member |-> 2]
    /\ leads = {CHOOSE n \in Member : TRUE}
    /\ progress = [n \in Member |-> [NoProgress EXCEPT !.next = 4]]
    /\ \E l \in {<<>>, <<1>>, <<1, 1, 1>>} :
           LET c == Min({1, Len(l)})
           IN  follower = [term |-> 1, base |-> 0, baseTerm |-> 0, log |-> l, commit |-> c,
                              lastApplied |-> c, machine |-> 1 .. c, walBase |-> 0, up |-> TRUE]
    /\ incoming = NoFile
    /\ toFollower = [n \in Member |-> <<>>]
    /\ toMember = [n \in Member |-> <<>>]
    /\ failures = 0
    /\ faults \in FaultLoads

Next ==
    /\ \/ \E n \in Member : Heartbeat(n) \/ Propose(n) \/ Follow(n) \/ Compact(n)
                            \/ Elect(n) \/ MemberReceives(n) \/ FollowerReceives(n)
       \/ CompactFollower
       \/ StopFollower
       \/ StartFollower
    /\ UNCHANGED faults

Spec == Init /\ [][Next]_vars

\* Timers fire, queues are served and the process is started again.
FairSpec ==
    /\ Spec
    /\ WF_vars((\E n \in Member : Heartbeat(n)) /\ UNCHANGED faults)
    /\ WF_vars((\E n \in Member : MemberReceives(n)) /\ UNCHANGED faults)
    /\ WF_vars((\E n \in Member : FollowerReceives(n)) /\ UNCHANGED faults)
    /\ WF_vars((\E n \in Member : Follow(n)) /\ UNCHANGED faults)
    /\ WF_vars(StartFollower /\ UNCHANGED faults)

-----------------------------------------------------------------------------
(* Properties *)

\* Every variable has its type, and the Follower's base, applied and committed
\* indices stay in that order within its log.
TypeOK ==
    /\ history \in Seq(Nat)
    /\ held \in [Member -> 0 .. Len(history)]
    /\ \A n \in Member : base[n] <= held[n]
    /\ leads \subseteq Member
    /\ follower.base <= follower.lastApplied /\ follower.lastApplied <= follower.commit
    /\ follower.commit <= LastIndex(follower)
    /\ incoming # NoFile => Len(incoming.data) < incoming.length
    /\ failures \in 0 .. MaxFailures

\* Whatever is cut from its log, restored over it or repeated, the entries the
\* Follower takes for committed are the Cluster's (handleAppendEntries,
\* handleInstallSnapshot).
CommittedKept ==
    /\ follower.commit <= Len(history)
    /\ \A i \in follower.base .. follower.commit : TermAt(follower, i) = TermIn(history, i)

\* A Leader counts nothing towards a commit that the Follower does not hold, be
\* it from an AppendEntries or a Snapshot, also when the answer is late and the
\* Leader compacted meanwhile (handleInstallSnapshotResponse).
MatchIndexSound ==
    \A n \in leads :
        /\ progress[n].match <= LastIndex(follower)
        /\ \A i \in follower.base .. progress[n].match : TermAt(follower, i) = TermIn(history, i)

\* Under one Leader, and as long as the Follower does not compact, its state
\* machine is that of the entries the core takes for applied, although runRaft
\* restores it before the core sees the Snapshot.
MachineIsApplied ==
    faults \cap {"Election", "Compaction"} = {} => follower.machine = 1 .. follower.lastApplied

\* Under the same conditions the WAL never refuses a Snapshot, which would stop
\* the Node.
StaysUp == faults \cap {"Election", "Compaction", "Restart"} = {} => follower.up

\* If only Sends of the Leader fail, the Follower is repaired, whatever the
\* Leader compacts meanwhile (heartbeatRound, handleAppendEntriesFailed).
CatchesUp == faults \subseteq {"Send"} => <>[](follower.commit = Len(history))

\* runtime_loop.go:204: the next timer or inbound message retries protocol
\* progress.  So a message that is lost once does not keep the Follower behind.
RetriesProgress == <>[](follower.commit = Len(history))
=============================================================================
