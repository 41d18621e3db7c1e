------------------------------- MODULE MCRaft -------------------------------
(***************************************************************************)
(* Instances of Raft for TLC.  A run starts from empty disks (Spec) or     *)
(* from a state the Cluster reaches from there: the messages sent on the   *)
(* way have been delivered or are lost, unless the state lists them, and   *)
(* requests are numbered anew.                                             *)
(***************************************************************************)
EXTENDS RaftRefinement, TLC

CONSTANTS n1, n2, n3, a

\* What a run exercises; the other bounds are constants.
VARIABLE
    limits \* of the starting state chosen: who can talk to whom, the types of
           \* message delivered again, how long proposals may make a log

\* The terms each Node campaigns for.
N3InTerm5 == n1 :> {} @@ n2 :> {} @@ n3 :> {5}
N1N2      == n1 :> {2, 3} @@ n2 :> {2, 3} @@ n3 :> {}
Rivalries == n1 :> {} @@ n2 :> {2, 22} @@ n3 :> {22, 32}

\* Who can talk to whom.
AllLinks  == Node \X Node
ViaN1     == {l \in AllLinks : n1 \in {l[1], l[2]}}
ViaN2     == {l \in AllLinks : n2 \in {l[1], l[2]}}
ViaN3     == {l \in AllLinks : n3 \in {l[1], l[2]}}
WithoutN1 == {l \in AllLinks : n1 \notin {l[1], l[2]}}
WithoutN3 == {l \in AllLinks : n3 # l[2]}

E(t, c) == [term |-> t, cmd |-> c]

\* n1, elected in term t by every Node, knows which of the entries its peers
\* hold, and its no-op is applied.  Budgets are what is left of the bounds.
LedByN1(t, logs, commits) ==
    [role      |-> [n \in Node |-> IF n = n1 THEN "Leader" ELSE "Follower"],
     term      |-> [n \in Node |-> t],
     votedFor  |-> [n \in Node |-> n1],
     leaderID  |-> [n \in Node |-> n1],
     votes     |-> [n \in Node |-> IF n = n1 THEN Node ELSE {}],
     log       |-> logs,
     commit    |-> commits,
     match     |-> [n \in Node |-> [p \in Node |->
                       IF n = n1 /\ p # n1 THEN Len(logs[p]) ELSE 0]],
     next      |-> [n \in Node |-> [p \in Node |->
                       CASE n # n1 -> 0
                         [] n = n1 /\ p # n1 -> Len(logs[p]) + 1
                         [] OTHER -> Min({i \in DOMAIN logs[n1] : logs[n1][i].term = t}) + 1]],
     inFlight  |-> [n \in Node |-> [p \in Node |-> NotInFlight]],
     requestID |-> [n \in Node |-> NoIndex],
     readReady |-> [n \in Node |-> n = n1],
     reads     |-> [n \in Node |-> NoReads],
     readID    |-> [n \in Node |-> MaxReads],
     readFloor |-> [n \in Node |-> [r \in ReadID |-> 0]],
     msgs      |-> {},
     restarts  |-> 0,
     heartbeats |-> 0,
     limits    |-> [links |-> AllLinks, redelivered |-> {}, logLen |-> 0]]

StartsIn(s) ==
    /\ role = s.role
    /\ term = s.term
    /\ votedFor = s.votedFor
    /\ leaderID = s.leaderID
    /\ recentLeaderContact = [n \in Node |-> s.leaderID[n] \notin {n, NoNode}]
    /\ votes = s.votes
    /\ preVotes = s.votes
    /\ electionTimer = [n \in Node |-> TRUE]
    /\ log = s.log
    /\ commitIndex = s.commit
    /\ activePeers = [n \in Node |-> {}]
    /\ matchIndex = s.match
    /\ nextIndex = s.next
    /\ appendInFlight = s.inFlight
    /\ nextRequestID = s.requestID
    /\ readReady = s.readReady
    /\ pendingReads = s.reads
    /\ nextReadID = s.readID
    /\ readFloor = s.readFloor
    /\ msgs = s.msgs
    /\ delivered = {}
    /\ restarts = MaxRestarts - s.restarts
    /\ heartbeats = MaxHeartbeats - s.heartbeats
    /\ limits = s.limits

Permits(m) ==
    /\ <<m.from, m.to>> \in limits.links
    /\ m \in delivered => m.type \in limits.redelivered

\* Next within the limits of the starting state.
Within ==
    /\ \/ \E n \in Node : LocalEvent(n) /\ UNCHANGED delivered
       \/ \E m \in msgs : Permits(m) /\ Deliver(m) /\ (Receive(m.to, m) \/ CrashDuringAppend(m.to, m))
    /\ \A n \in Node : role[n] = "Leader" /\ Len(log'[n]) > Len(log[n]) => Len(log[n]) < limits.logLen
    /\ UNCHANGED limits

\* The no-op of n1 is committed everywhere.
Settled(t) == LedByN1(t, [n \in Node |-> <<E(t, NoOp)>>], [n \in Node |-> 1])

\* n1 takes proposals and nobody campaigns.
Replicating ==
    [Settled(10) EXCEPT !.limits.logLen = 3]

\* n1 took command a, and failed to send it; n2 campaigns.
Proposed ==
    [Settled(1) EXCEPT
        !.log[n1] = <<E(1, NoOp), E(1, a)>>, !.restarts = 1, !.heartbeats = 1,
        !.limits.links = ViaN3, !.limits.redelivered = {"AppendEntries"}]

\* Or sent it to n3 alone, which acknowledged it: only n1 knows it committed.
Acknowledged(t) ==
    LET ofA == <<E(t, NoOp), E(t, a)>>
    IN  LedByN1(t, n1 :> ofA @@ n2 :> <<E(t, NoOp)>> @@ n3 :> ofA, n1 :> 2 @@ n2 :> 1 @@ n3 :> 1)

\* n3 campaigns without n1 and reads.
Succeeding ==
    [Acknowledged(31) EXCEPT !.readID = [n \in Node |-> 0], !.limits.links = WithoutN1]

\* n2 and n3 campaign for the same term and have only n1 to vote for them.
Rivals ==
    [Settled(21) EXCEPT
        !.restarts = 1, !.limits.links = ViaN1,
        !.limits.redelivered = {"VoteRequest", "VoteResponse"}]

\* n3 confirmed read 1 of n1 and then won term 12 by the vote of n2, which it
\* has probed; n1 has learned neither.
Deposed ==
    [Settled(11) EXCEPT
        !.role[n3] = "Leader", !.votes[n3] = {n2, n3},
        !.term[n2] = 12, !.term[n3] = 12, !.votedFor[n2] = n3, !.votedFor[n3] = n3,
        !.leaderID[n2] = n3, !.leaderID[n3] = n3,
        !.log[n3] = <<E(11, NoOp), E(12, NoOp)>>,
        !.next[n3] = n1 :> 3 @@ n2 :> 2 @@ n3 :> 3,
        !.inFlight[n1] = [p \in Node |-> IF p = n1 THEN NotInFlight
                                         ELSE [requestID |-> 1, leaderCommit |-> 1]],
        !.requestID[n1] = n1 :> 0 @@ n2 :> 1 @@ n3 :> 1,
        !.readID = n1 :> 1 @@ n2 :> 0 @@ n3 :> 0,
        !.reads[n1] = [r \in ReadID |-> IF r = 1 THEN {n1} ELSE {}],
        !.readFloor[n1] = [r \in ReadID |-> IF r = 1 THEN 1 ELSE 0],
        !.msgs = {[type |-> "AppendEntriesResponse", from |-> n3, to |-> n1, term |-> 11,
                   requestID |-> 1, success |-> TRUE, matchIndex |-> 1,
                   conflictTerm |-> 0, conflictIndex |-> 0, readID |-> 1]},
        !.heartbeats = 1, !.limits.links = ViaN3]

\* n3 won term 12 by the vote of n2, which it has probed, while n1 waits for
\* command a and has learned nothing.
Displaced ==
    LET settled == Settled(11)
    IN  [Deposed EXCEPT !.log[n1] = <<E(11, NoOp), E(11, a)>>,
                        !.inFlight = settled.inFlight, !.requestID = settled.requestID,
                        !.readID = settled.readID, !.reads = settled.reads,
                        !.readFloor = settled.readFloor, !.msgs = {}, !.heartbeats = 2]

\* n1 led terms 1 and 2, n3 term 3, each no-op after the first reaching no
\* peer.  Elected again by n2, n1 leads term 4 and has probed n2, whose
\* election timer fired since; n3 campaigns.
Diverged ==
    [LedByN1(4, n1 :> <<E(1, NoOp), E(2, NoOp), E(4, NoOp)>>
                @@ n2 :> <<E(1, NoOp)>>
                @@ n3 :> <<E(1, NoOp), E(3, NoOp)>>, [n \in Node |-> 1])
     EXCEPT
        !.role[n2] = "PreCandidate", !.votes[n1] = {n1, n2}, !.votes[n2] = {n2},
        !.votedFor[n3] = NoNode, !.leaderID[n2] = NoNode, !.leaderID[n3] = NoNode,
        !.match[n1] = NoIndex, !.next[n1] = n1 :> 4 @@ n2 :> 2 @@ n3 :> 4,
        !.readReady[n1] = FALSE,
        !.restarts = 1, !.heartbeats = 1, !.limits.links = ViaN2]

\* Proposals replicated, logs that diverged repaired, a deposed Leader's log replaced.
ReplicationSpec ==
    /\ \E s \in {Replicating, Diverged, Displaced} : StartsIn(s)
    /\ [][Within]_<<vars, limits>>

\* A Leader is succeeded: by one Node, by one of two, before and after it learns so.
SuccessionSpec ==
    /\ \E s \in {Proposed, Succeeding, Rivals, Deposed} : StartsIn(s)
    /\ [][Within]_<<vars, limits>>

\* n1 led term 1 and sent n3 a heartbeat that has not arrived.  n3 led term 2,
\* elected by n2, and its no-op reached nobody.  n1 campaigns for term 3.
Delayed ==
    [Settled(1) EXCEPT
        !.role = n1 :> "Candidate" @@ n2 :> "Follower" @@ n3 :> "Leader",
        !.term = n1 :> 3 @@ n2 :> 2 @@ n3 :> 2,
        !.votedFor = n1 :> n1 @@ n2 :> n3 @@ n3 :> n3,
        !.leaderID = [n \in Node |-> IF n = n1 THEN NoNode ELSE n3],
        !.votes = n1 :> {n1} @@ n2 :> {} @@ n3 :> {n2, n3},
        !.log[n3] = <<E(1, NoOp), E(2, NoOp)>>,
        !.match = [n \in Node |-> NoIndex],
        !.next = [n \in Node |-> IF n = n3 THEN [p \in Node |-> 3] ELSE NoIndex],
        !.requestID[n1] = n1 :> 0 @@ n2 :> 0 @@ n3 :> 1,
        !.readReady = [n \in Node |-> FALSE],
        !.msgs = {[type |-> "AppendEntries", from |-> n1, to |-> n3, term |-> 1, requestID |-> 1,
                   prevLogIndex |-> 1, prevLogTerm |-> 1, entries |-> <<>>,
                   leaderCommit |-> 1, readID |-> 0]} \cup
                 {[type |-> "VoteRequest", from |-> n1, to |-> p, term |-> 3,
                   lastLogIndex |-> 1, lastLogTerm |-> 1] : p \in {n2, n3}}]

DelayedSpec == StartsIn(Delayed) /\ [][Within]_<<vars, limits>>

\* n1 leads term 1 and a is on n1 and n3.  n3 timed out, was granted the
\* pre-vote of n1, asked for votes in term 2 and stopped for good.
Abandoned ==
    [Acknowledged(1) EXCEPT
        !.role[n3] = "Candidate", !.term[n3] = 2, !.votedFor[n3] = n3,
        !.leaderID[n3] = NoNode, !.votes[n3] = {n3},
        !.msgs = {[type |-> "VoteRequest", from |-> n3, to |-> p, term |-> 2,
                   lastLogIndex |-> 2, lastLogTerm |-> 1] : p \in {n1, n2}},
        !.heartbeats = 1, !.limits.links = WithoutN3,
        !.limits.redelivered = {"PreVoteRequest"}]

\* The timers of n1 and n2 fire and their messages to each other arrive.
Live == {n1, n2}
LiveMajoritySpec ==
    /\ StartsIn(Abandoned)
    /\ [][Within]_<<vars, limits>>
    /\ \A n \in Live :
           /\ WF_vars(StartPreVote(n) /\ UNCHANGED delivered)
           /\ WF_vars(\E m \in msgs : /\ m.from \in Live /\ m.to = n
                                      /\ Deliver(m) /\ Receive(n, m))

\* README.md:11: the Cluster continues after one Node fails while the other two
\* can communicate, so one of them comes to lead (or a campaign for term 3,
\* where the bound ends the run, begins).
LiveMajorityElects == []<>(\E n \in Live : role[n] = "Leader" \/ term[n] >= 3)
=============================================================================
