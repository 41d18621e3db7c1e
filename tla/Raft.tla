-------------------------------- MODULE Raft --------------------------------
(***************************************************************************)
(* A cluster of Nodes of internal/raft, each driven by raftRuntime.step.   *)
(*                                                                         *)
(* Grain of atomicity.  The runtime (raft_runtime.go:80) completes every   *)
(* Persist action of a step, feeding the completion back to the core,      *)
(* before it takes another event, and hands messages to the transport only *)
(* when the step is over.  One event is therefore one action here: the     *)
(* durable and the volatile copy of term, vote, log and commit index agree *)
(* between steps, and lastApplied equals commitIndex.  A crash inside a    *)
(* step that writes more than one record is CrashDuringAppend; a crash     *)
(* inside any other step leaves what that step followed by Restart leaves. *)
(*                                                                         *)
(* Network.  msgs is the set of all messages ever sent.  Any of them may   *)
(* be delivered at any later time or never: messages are lost, delayed and *)
(* reordered; those of the types in Redelivered are duplicated as well.    *)
(*                                                                         *)
(* History is uncompacted: no Snapshot is taken or sent.                   *)
(***************************************************************************)
EXTENDS RaftLog, FiniteSets

CONSTANTS
    Node,          \* the members of the Cluster
    NoNode,        \* the empty NodeID
    Command,       \* what clients propose
    NoOp,          \* the entry a new Leader appends
    MaxBatch,      \* entries in one AppendEntries
    ElectionTerms, \* bound: the terms each Node may campaign for; the requests of
                   \* any other campaign are lost
    Links,         \* bound: <<from, to>> where messages get through
    FailingPeers,  \* bound: peers to whom a Send RPC may fail
    MaxLogLen,     \* bound: no proposal is appended beyond this index
    MaxRequestID,  \* bound: AppendEntries from a Node to one peer, per process
    MaxHeartbeats, \* bound: heartbeat rounds in the Cluster
    MaxReads,      \* bound: reads a Node takes, per process
    MaxRestarts,   \* bound: process restarts in the Cluster
    Redelivered    \* bound: the types of message delivered more than once

ASSUME NodeAssumption ==
    /\ IsFiniteSet(Node)
    /\ Cardinality(Node) > 1
    /\ NoNode \notin Node
    /\ NoOp \notin Command

ASSUME BoundAssumption ==
    /\ MaxBatch \in Nat \ {0}
    /\ ElectionTerms \in [Node -> SUBSET Nat]
    /\ Links \subseteq Node \X Node
    /\ FailingPeers \subseteq Node
    /\ MaxLogLen \in Nat
    /\ MaxRequestID \in Nat
    /\ MaxHeartbeats \in Nat
    /\ MaxReads \in Nat
    /\ MaxRestarts \in Nat

VARIABLES
    \* election state; term and votedFor are durable
    role, term, votedFor, leaderID, recentLeaderContact, votes, preVotes,
    electionTimer,      \* the runtime's election timer is running
    \* durable log
    log, commitIndex,
    \* what a Leader knows of its peers
    activePeers, matchIndex, nextIndex, appendInFlight, nextRequestID,
    \* reads: acknowledgements of each pending read, {} when not pending
    readReady, pendingReads, nextReadID,
    \* the messages sent and, of them, the ones delivered
    msgs, delivered,
    \* restarts and heartbeat rounds so far
    restarts, heartbeats,
    \* history: the highest commit index in the Cluster when a read began
    readFloor

electionVars == <<role, term, votedFor, leaderID, recentLeaderContact, votes, preVotes>>
logVars      == <<log, commitIndex>>
leaderVars   == <<activePeers, matchIndex, nextIndex, appendInFlight>>
readVars     == <<readReady, pendingReads>>
readIDVars   == <<nextReadID, readFloor>>

vars == <<electionVars, electionTimer, logVars, leaderVars, nextRequestID,
          readVars, readIDVars, msgs, restarts, heartbeats, delivered>>

Role   == {"Follower", "PreCandidate", "Candidate", "Leader"}
ReadID == 1..MaxReads
Peers(n) == Node \ {n}

\* quorum: a strict majority of the Cluster.
IsQuorum(S) == Cardinality(S) >= Cardinality(Node) \div 2 + 1

Entry == [term : Nat, cmd : Command \cup {NoOp}]

(***************************************************************************)
(* Messages.  A RequestID is compared only with the request in flight to   *)
(* the same peer, so each Node numbers its requests per peer.              *)
(***************************************************************************)
PreVoteRequests  == [type : {"PreVoteRequest"}, from : Node, to : Node, term : Nat,
                     lastLogIndex : Nat, lastLogTerm : Nat]
PreVoteResponses == [type : {"PreVoteResponse"}, from : Node, to : Node,
                     term : Nat, currentTerm : Nat, granted : BOOLEAN]
VoteRequests     == [type : {"VoteRequest"}, from : Node, to : Node, term : Nat,
                     lastLogIndex : Nat, lastLogTerm : Nat]
VoteResponses    == [type : {"VoteResponse"}, from : Node, to : Node,
                     term : Nat, granted : BOOLEAN]
AppendRequests   == [type : {"AppendEntries"}, from : Node, to : Node,
                     term : Nat, requestID : Nat, prevLogIndex : Nat,
                     prevLogTerm : Nat, entries : Seq(Entry),
                     leaderCommit : Nat, readID : Nat]
AppendResponses  == [type : {"AppendEntriesResponse"}, from : Node, to : Node,
                     term : Nat, requestID : Nat, success : BOOLEAN,
                     matchIndex : Nat, conflictTerm : Nat,
                     conflictIndex : Nat, readID : Nat]
Message == PreVoteRequests \cup PreVoteResponses \cup VoteRequests
           \cup VoteResponses \cup AppendRequests \cup AppendResponses

NotInFlight == [requestID |-> 0, leaderCommit |-> 0]
NoReads     == [r \in ReadID |-> {}]
NoIndex     == [p \in Node |-> 0]

Init ==
    /\ role = [n \in Node |-> "Follower"]
    /\ term = [n \in Node |-> 0]
    /\ votedFor = [n \in Node |-> NoNode]
    /\ leaderID = [n \in Node |-> NoNode]
    /\ recentLeaderContact = [n \in Node |-> FALSE]
    /\ votes = [n \in Node |-> {}]
    /\ preVotes = [n \in Node |-> {}]
    /\ electionTimer = [n \in Node |-> TRUE]
    /\ log = [n \in Node |-> <<>>]
    /\ commitIndex = [n \in Node |-> 0]
    /\ activePeers = [n \in Node |-> {}]
    /\ matchIndex = [n \in Node |-> NoIndex]
    /\ nextIndex = [n \in Node |-> NoIndex]
    /\ appendInFlight = [n \in Node |-> [p \in Node |-> NotInFlight]]
    /\ nextRequestID = [n \in Node |-> NoIndex]
    /\ readReady = [n \in Node |-> FALSE]
    /\ pendingReads = [n \in Node |-> NoReads]
    /\ nextReadID = [n \in Node |-> 0]
    /\ readFloor = [n \in Node |-> [r \in ReadID |-> 0]]
    /\ msgs = {}
    /\ delivered = {}
    /\ restarts = 0
    /\ heartbeats = 0

Send(ms) == msgs' = msgs \cup ms

-----------------------------------------------------------------------------
(* Elections *)

\* The vote Node n holds in term t >= term[n].
VoteAt(n, t) == IF t > term[n] THEN NoNode ELSE votedFor[n]

\* becomeFollower, with the vote the handler leaves.  Neither this nor any
\* caller below it restarts the election timer unless it says so.
BecomeFollower(n, t, leader, vote) ==
    /\ role' = [role EXCEPT ![n] = "Follower"]
    /\ term' = [term EXCEPT ![n] = t]
    /\ votedFor' = [votedFor EXCEPT ![n] = vote]
    /\ leaderID' = [leaderID EXCEPT ![n] = leader]
    /\ recentLeaderContact' = [recentLeaderContact EXCEPT ![n] = leader # NoNode]
    /\ votes' = [votes EXCEPT ![n] = {}]
    /\ preVotes' = [preVotes EXCEPT ![n] = {}]
    /\ activePeers' = [activePeers EXCEPT ![n] = {}]
    /\ matchIndex' = [matchIndex EXCEPT ![n] = NoIndex]
    /\ nextIndex' = [nextIndex EXCEPT ![n] = NoIndex]
    /\ appendInFlight' = [appendInFlight EXCEPT ![n] = [p \in Node |-> NotInFlight]]
    /\ readReady' = [readReady EXCEPT ![n] = FALSE]
    /\ pendingReads' = [pendingReads EXCEPT ![n] = NoReads]

\* A response of a higher term: adopt the term, persist it, send nothing.
AdoptHigherTerm(n, t) ==
    /\ t > term[n]
    /\ BecomeFollower(n, t, NoNode, NoNode)
    /\ UNCHANGED <<electionTimer, logVars, nextRequestID, readIDVars, msgs, restarts, heartbeats>>

\* ElectionTimeout at a Leader: startPreVote returns at once, and the timer
\* that fired is not restarted.
ElectionTimeoutAtLeader(n) ==
    /\ electionTimer[n]
    /\ role[n] = "Leader"
    /\ electionTimer' = [electionTimer EXCEPT ![n] = FALSE]
    /\ UNCHANGED <<electionVars, logVars, leaderVars, nextRequestID, readVars,
                   readIDVars, msgs, restarts, heartbeats>>

\* startPreVote.
StartPreVote(n) ==
    /\ electionTimer[n]
    /\ role[n] # "Leader"
    /\ recentLeaderContact' = [recentLeaderContact EXCEPT ![n] = FALSE]
    /\ leaderID' = [leaderID EXCEPT ![n] = NoNode]
    /\ role' = [role EXCEPT ![n] = "PreCandidate"]
    /\ preVotes' = [preVotes EXCEPT ![n] = {n}]
    /\ Send({[type |-> "PreVoteRequest", from |-> n, to |-> p, term |-> term[n] + 1,
              lastLogIndex |-> Len(log[n]), lastLogTerm |-> LastLogTerm(log[n])] :
                p \in {p \in Peers(n) : term[n] + 1 \in ElectionTerms[n]}})
    /\ UNCHANGED <<term, votedFor, votes, electionTimer, logVars, leaderVars,
                   nextRequestID, readVars, readIDVars, restarts, heartbeats>>

\* handlePreVoteRequest.
GrantsPreVote(n, m) ==
    /\ m.term >= term[n] + 1
    /\ ~recentLeaderContact[n]
    /\ CandidateLogIsUpToDate(m.lastLogTerm, m.lastLogIndex, log[n])

HandlePreVoteRequest(n, m) ==
    /\ m.type = "PreVoteRequest"
    /\ Send({[type |-> "PreVoteResponse", from |-> n, to |-> m.from, term |-> m.term,
              currentTerm |-> term[n], granted |-> GrantsPreVote(n, m)]})
    /\ UNCHANGED <<electionVars, electionTimer, logVars, leaderVars, nextRequestID,
                   readVars, readIDVars, restarts, heartbeats>>

\* startElection.
StartElection(n) ==
    /\ role' = [role EXCEPT ![n] = "Candidate"]
    /\ term' = [term EXCEPT ![n] = @ + 1]
    /\ votedFor' = [votedFor EXCEPT ![n] = n]
    /\ leaderID' = [leaderID EXCEPT ![n] = NoNode]
    /\ readReady' = [readReady EXCEPT ![n] = FALSE]
    /\ votes' = [votes EXCEPT ![n] = {n}]
    /\ electionTimer' = [electionTimer EXCEPT ![n] = TRUE]
    /\ Send({[type |-> "VoteRequest", from |-> n, to |-> p, term |-> term[n] + 1,
              lastLogIndex |-> Len(log[n]), lastLogTerm |-> LastLogTerm(log[n])] : p \in Peers(n)})

\* handlePreVoteResponse.
HandlePreVoteResponse(n, m) ==
    /\ m.type = "PreVoteResponse"
    /\ \/ AdoptHigherTerm(n, m.currentTerm)
       \/ /\ m.currentTerm <= term[n]
          /\ role[n] = "PreCandidate"
          /\ m.term = term[n] + 1
          /\ m.granted
          /\ preVotes' = [preVotes EXCEPT ![n] = @ \cup {m.from}]
          /\ IF IsQuorum(preVotes[n] \cup {m.from})
             THEN StartElection(n)
             ELSE UNCHANGED <<role, term, votedFor, leaderID, readReady, votes,
                              electionTimer, msgs>>
          /\ UNCHANGED <<recentLeaderContact, logVars, leaderVars, nextRequestID,
                         pendingReads, readIDVars, restarts, heartbeats>>

\* Mutated: a Node forgets that it has voted.
CanAlwaysVote(n, m) == TRUE

\* canVote of handleVoteRequest.
CanVote(n, m) == VoteAt(n, m.term) \in {NoNode, m.from}

\* handleVoteRequest.
GrantsVote(n, m) ==
    /\ m.term >= term[n]
    /\ CanVote(n, m)
    /\ CandidateLogIsUpToDate(m.lastLogTerm, m.lastLogIndex, log[n])

HandleVoteRequest(n, m) ==
    /\ m.type = "VoteRequest"
    /\ LET grant == GrantsVote(n, m)
           vote  == IF grant THEN m.from ELSE VoteAt(n, m.term)
       IN  /\ Send({[type |-> "VoteResponse", from |-> n, to |-> m.from,
                     term |-> Max({term[n], m.term}), granted |-> grant]})
           /\ IF m.term > term[n]
              THEN BecomeFollower(n, m.term, NoNode, vote)
              ELSE /\ votedFor' = [votedFor EXCEPT ![n] = vote]
                   /\ UNCHANGED <<role, term, leaderID, recentLeaderContact, votes,
                                  preVotes, leaderVars, readVars>>
    /\ UNCHANGED <<electionTimer, logVars, nextRequestID, readIDVars, restarts, heartbeats>>

-----------------------------------------------------------------------------
(* Replication at the Leader *)

\* pendingReadFor: the oldest pending read that peer p has not acknowledged.
PendingReadFor(n, p) ==
    LET missing == {r \in ReadID : pendingReads[n][r] # {} /\ p \notin pendingReads[n][r]}
    IN  IF missing = {} THEN 0 ELSE Min(missing)

PendingReads(n) == [p \in Node |-> PendingReadFor(n, p)]

\* Where sendAppendEntriesTo starts: not beyond the end of the log.
FirstToSend(next, l) == Min({next, Len(l) + 1})

\* The request sendAppendEntriesTo builds for peer p.
AppendRequest(n, p, l, next, commit, readID) ==
    [type |-> "AppendEntries", from |-> n, to |-> p, term |-> term[n],
     requestID |-> nextRequestID[n][p] + 1,
     prevLogIndex |-> next - 1, prevLogTerm |-> TermAt(l, next - 1),
     entries |-> EntriesBatch(l, next, MaxBatch),
     leaderCommit |-> commit, readID |-> readID]

\* sendAppendEntries to the given peers that have no request in flight.  The
\* owner loop learns at once that a Send RPC failed and reports it before the
\* next event (AppendEntriesFailed), which frees the peer; a request whose
\* RPC failed may have been delivered all the same.
SendAppendEntries(n, targets, inFlight, l, next, commit, readFor) ==
    LET due == {p \in targets : inFlight[p].requestID = 0}
    IN  /\ \A p \in due : nextRequestID[n][p] < MaxRequestID
        /\ Send({AppendRequest(n, p, l, FirstToSend(next[p], l), commit, readFor[p]) : p \in due})
        /\ nextRequestID' = [nextRequestID EXCEPT ![n] =
                [p \in Node |-> IF p \in due THEN @[p] + 1 ELSE @[p]]]
        /\ \E failed \in SUBSET (due \cap FailingPeers) :
                appendInFlight' = [appendInFlight EXCEPT ![n] =
                    [p \in Node |->
                        IF p \in failed THEN NotInFlight
                        ELSE IF p \in due
                             THEN [requestID |-> nextRequestID[n][p] + 1, leaderCommit |-> commit]
                             ELSE inFlight[p]]]

\* handleVoteResponse at a Candidate: a quorum makes it Leader of its term; it
\* appends a no-op, persists it and replicates it.
HandleVoteResponse(n, m) ==
    /\ m.type = "VoteResponse"
    /\ \/ AdoptHigherTerm(n, m.term)
       \/ /\ role[n] = "Candidate"
          /\ m.term = term[n]
          /\ m.granted
          /\ votes' = [votes EXCEPT ![n] = @ \cup {m.from}]
          /\ IF IsQuorum(votes[n] \cup {m.from})
             THEN LET l    == Append(log[n], [term |-> term[n], cmd |-> NoOp])
                      next == [p \in Node |-> Len(l) + 1]
                  IN  /\ role' = [role EXCEPT ![n] = "Leader"]
                      /\ leaderID' = [leaderID EXCEPT ![n] = n]
                      /\ readReady' = [readReady EXCEPT ![n] = FALSE]
                      /\ log' = [log EXCEPT ![n] = l]
                      /\ activePeers' = [activePeers EXCEPT ![n] = {}]
                      /\ matchIndex' = [matchIndex EXCEPT ![n] = NoIndex]
                      /\ nextIndex' = [nextIndex EXCEPT ![n] = next]
                      /\ SendAppendEntries(n, Peers(n), [p \in Node |-> NotInFlight],
                             l, next, commitIndex[n], PendingReads(n))
             ELSE UNCHANGED <<role, leaderID, readReady, log, leaderVars,
                              nextRequestID, msgs>>
          /\ UNCHANGED <<term, votedFor, recentLeaderContact, preVotes, electionTimer,
                         commitIndex, pendingReads, readIDVars, restarts, heartbeats>>

\* proposeSession, proposeSet, proposeDelete at the Leader.  Any other Node
\* rejects the proposal and changes nothing.
Propose(n, c) ==
    /\ role[n] = "Leader"
    /\ Len(log[n]) < MaxLogLen
    /\ LET l == Append(log[n], [term |-> term[n], cmd |-> c])
       IN  /\ log' = [log EXCEPT ![n] = l]
           /\ SendAppendEntries(n, Peers(n), appendInFlight[n], l, nextIndex[n],
                  commitIndex[n], PendingReads(n))
    /\ UNCHANGED <<electionVars, electionTimer, commitIndex, activePeers, matchIndex,
                   nextIndex, readVars, readIDVars, restarts, heartbeats>>

\* heartbeatRound: requests in flight expire, every peer gets a new one.
HeartbeatTimeout(n) ==
    /\ role[n] = "Leader"
    /\ heartbeats < MaxHeartbeats
    /\ heartbeats' = heartbeats + 1
    /\ SendAppendEntries(n, Peers(n), [p \in Node |-> NotInFlight], log[n], nextIndex[n],
           commitIndex[n], PendingReads(n))
    /\ UNCHANGED <<electionVars, electionTimer, logVars, activePeers, matchIndex,
                   nextIndex, readVars, readIDVars, restarts>>

\* The guard of confirmRead beyond being Leader.
MayConfirmRead(n) == readReady[n]

\* confirmRead at a Leader that is ready: ask every peer to confirm it still
\* follows.  readFloor records what the read must not miss.
ConfirmRead(n) ==
    /\ role[n] = "Leader"
    /\ MayConfirmRead(n)
    /\ nextReadID[n] < MaxReads
    /\ LET r == nextReadID[n] + 1
       IN  /\ nextReadID' = [nextReadID EXCEPT ![n] = r]
           /\ pendingReads' = [pendingReads EXCEPT ![n][r] = {n}]
           /\ readFloor' = [readFloor EXCEPT ![n][r] = Max({commitIndex[p] : p \in Node})]
           /\ SendAppendEntries(n, Peers(n), appendInFlight[n], log[n], nextIndex[n],
                  commitIndex[n], [p \in Node |-> r])
    /\ UNCHANGED <<electionVars, electionTimer, logVars, activePeers, matchIndex,
                   nextIndex, readReady, restarts, heartbeats>>

\* checkQuorum: a Leader that heard from too few peers since the last window
\* steps down in its term; otherwise a new window opens.
CheckQuorumTimeout(n) ==
    /\ role[n] = "Leader"
    /\ \/ /\ ~IsQuorum(activePeers[n] \cup {n})
          /\ BecomeFollower(n, term[n], NoNode, votedFor[n])
          /\ electionTimer' = [electionTimer EXCEPT ![n] = TRUE]
       \/ /\ IsQuorum(activePeers[n] \cup {n})
          /\ activePeers' = [activePeers EXCEPT ![n] = {}]
          /\ UNCHANGED <<electionVars, electionTimer, matchIndex, nextIndex,
                         appendInFlight, readVars>>
    /\ UNCHANGED <<logVars, nextRequestID, readIDVars, msgs, restarts, heartbeats>>

\* Mutated: an entry of an earlier term is committed by counting its copies.
CommittableOfAnyTerm(n, l, match) ==
    {i \in commitIndex[n] + 1 .. Len(l) :
        IsQuorum({n} \cup {p \in Peers(n) : match[p] >= i})}

\* Mutated: a peer counts for the entry after the last one it holds.
CommittableOneAhead(n, l, match) ==
    {i \in commitIndex[n] + 1 .. Len(l) :
        /\ l[i].term = term[n]
        /\ IsQuorum({n} \cup {p \in Peers(n) : match[p] + 1 >= i})}

\* advanceLeaderCommit: the indexes of the current term a quorum holds.
Committable(n, l, match) ==
    {i \in commitIndex[n] + 1 .. Len(l) :
        /\ l[i].term = term[n]
        /\ IsQuorum({n} \cup {p \in Peers(n) : match[p] >= i})}

\* handleAppendEntriesResponse takes a response unless another request to that
\* peer is in flight.
Answers(n, m) == appendInFlight[n][m.from].requestID \in {0, m.requestID}

\* What a response teaches the Leader about the peer.
LearnMatch(n, m) ==
    IF m.success THEN Max({matchIndex[n][m.from], m.matchIndex}) ELSE matchIndex[n][m.from]

LearnNext(n, m) ==
    IF m.success THEN LearnMatch(n, m) + 1
    ELSE NextIndexFromConflict(log[n], m.conflictTerm, m.conflictIndex)

\* Mutated: any response of the peer confirms every pending read.
AcknowledgeAny(n, m, r) ==
    LET acks == pendingReads[n][r] \cup {m.from}
    IN  IF pendingReads[n][r] = {} THEN {}
        ELSE IF IsQuorum(acks) THEN {} ELSE acks

\* acknowledgeRead and completeReads: the acknowledgements of read r after a
\* response; a quorum completes the read, at the commit index of this step.
\* A response that rejects the entries still acknowledges the read.
Acknowledge(n, m, r) ==
    LET acks == pendingReads[n][r] \cup {m.from}
    IN  IF pendingReads[n][r] = {} \/ m.readID # r THEN pendingReads[n][r]
        ELSE IF IsQuorum(acks) THEN {} ELSE acks

\* handleAppendEntriesResponse: progress of the peer, then the commit index,
\* then more requests (chosen before the read is acknowledged), then reads.
HandleAppendEntriesResponse(n, m) ==
    /\ m.type = "AppendEntriesResponse"
    /\ \/ AdoptHigherTerm(n, m.term)
       \/ /\ role[n] = "Leader"
          /\ m.term = term[n]
          /\ Answers(n, m)
          /\ activePeers' = [activePeers EXCEPT ![n] = @ \cup {m.from}]
          /\ matchIndex' = [matchIndex EXCEPT ![n][m.from] = LearnMatch(n, m)]
          /\ nextIndex' = [nextIndex EXCEPT ![n][m.from] = LearnNext(n, m)]
          /\ LET candidates == Committable(n, log[n], matchIndex'[n])
                 commit  == IF candidates = {} THEN commitIndex[n] ELSE Max(candidates)
                 freed   == [appendInFlight[n] EXCEPT ![m.from] = NotInFlight]
                 targets == IF candidates # {} THEN Peers(n)
                            ELSE IF \/ ~m.success
                                    \/ nextIndex'[n][m.from] <= Len(log[n])
                                    \/ PendingReadFor(n, m.from) # 0
                                    \/ appendInFlight[n][m.from].leaderCommit < commitIndex[n]
                                 THEN {m.from} ELSE {}
             IN  /\ commitIndex' = [commitIndex EXCEPT ![n] = commit]
                 /\ readReady' = [readReady EXCEPT ![n] =
                        @ \/ \E i \in commitIndex[n] + 1 .. commit :
                                log[n][i] = [term |-> term[n], cmd |-> NoOp]]
                 /\ SendAppendEntries(n, targets, freed, log[n], nextIndex'[n], commit,
                        PendingReads(n))
          /\ pendingReads' = [pendingReads EXCEPT ![n] =
                 [r \in ReadID |-> Acknowledge(n, m, r)]]
          /\ UNCHANGED <<electionVars, electionTimer, log, readIDVars, restarts, heartbeats>>

-----------------------------------------------------------------------------
(* Replication at a Follower *)

AppendResponse(n, m, t, success, match, hint) ==
    [type |-> "AppendEntriesResponse", from |-> n, to |-> m.from, term |-> t,
     requestID |-> m.requestID, success |-> success, matchIndex |-> match,
     conflictTerm |-> hint.term, conflictIndex |-> hint.index, readID |-> m.readID]

NoHint == [term |-> 0, index |-> 0]

\* Mutated: only a heartbeat's previous entry is compared.
ConsistentHeartbeat(n, m) ==
    /\ IF m.entries = <<>> THEN Matches(log[n], m.prevLogIndex, m.prevLogTerm)
       ELSE m.prevLogIndex <= Len(log[n])
    /\ ~ContradictsCommitted(log[n], commitIndex[n], m.prevLogIndex, m.entries)

\* The request's previous entry matches and nothing in it contradicts the
\* committed prefix.
Consistent(n, m) ==
    /\ Matches(log[n], m.prevLogIndex, m.prevLogTerm)
    /\ ~ContradictsCommitted(log[n], commitIndex[n], m.prevLogIndex, m.entries)

\* A request of the current or a newer term: its sender is the Leader.
FollowSender(n, m) ==
    /\ IF m.term > term[n]
       THEN BecomeFollower(n, m.term, m.from, NoNode)
       ELSE /\ role' = [role EXCEPT ![n] = "Follower"]
            /\ leaderID' = [leaderID EXCEPT ![n] = m.from]
            /\ readReady' = [readReady EXCEPT ![n] = FALSE]
            /\ recentLeaderContact' = [recentLeaderContact EXCEPT ![n] = TRUE]
            /\ UNCHANGED <<term, votedFor, votes, preVotes, leaderVars, pendingReads>>
    /\ electionTimer' = [electionTimer EXCEPT ![n] = TRUE]

\* Mutated: everything the Leader committed is taken as committed here.
CommitWithoutMin(m, l) == m.leaderCommit

\* The target of advanceFollowerCommit.
FollowerCommit(m, l) == Min({m.leaderCommit, Len(l)})

\* handleAppendEntries.
HandleAppendEntries(n, m) ==
    /\ m.type = "AppendEntries"
    /\ \/ /\ m.term < term[n]
          /\ Send({AppendResponse(n, m, term[n], FALSE, Len(log[n]), NoHint)})
          /\ UNCHANGED <<electionVars, electionTimer, logVars, leaderVars, readVars>>
       \/ /\ m.term >= term[n]
          /\ ~Consistent(n, m)
          /\ FollowSender(n, m)
          /\ LET probe == IF Matches(log[n], m.prevLogIndex, m.prevLogTerm)
                          THEN m.prevLogIndex + 1 ELSE m.prevLogIndex
             IN  Send({AppendResponse(n, m, m.term, FALSE, Len(log[n]),
                                      ConflictHint(log[n], probe))})
          /\ UNCHANGED logVars
       \/ /\ m.term >= term[n]
          /\ Consistent(n, m)
          /\ FollowSender(n, m)
          /\ LET l == AppendNew(log[n], m.prevLogIndex, m.entries)
             IN  /\ log' = [log EXCEPT ![n] = l]
                 /\ commitIndex' = [commitIndex EXCEPT ![n] = Max({@, FollowerCommit(m, l)})]
                 /\ Send({AppendResponse(n, m, m.term, TRUE, Len(l), NoHint)})
    /\ UNCHANGED <<nextRequestID, readIDVars, restarts, heartbeats>>

-----------------------------------------------------------------------------
(* Crashes *)

\* openRaftRuntime, NewNodeFromRecoveredState, RecoverCommitted: everything
\* but term, vote, log and commit index is gone; a new timer runs.
ForgetVolatile(n) ==
    /\ restarts < MaxRestarts
    /\ restarts' = restarts + 1
    /\ electionTimer' = [electionTimer EXCEPT ![n] = TRUE]
    /\ nextRequestID' = [nextRequestID EXCEPT ![n] = NoIndex]
    /\ nextReadID' = [nextReadID EXCEPT ![n] = 0]
    /\ UNCHANGED <<readFloor, msgs, heartbeats>>

\* Mutated: the commit index is not recovered.
RestartUncommitted(n) ==
    /\ ForgetVolatile(n)
    /\ BecomeFollower(n, term[n], NoNode, votedFor[n])
    /\ commitIndex' = [commitIndex EXCEPT ![n] = 0]
    /\ UNCHANGED log

Restart(n) ==
    /\ ForgetVolatile(n)
    /\ BecomeFollower(n, term[n], NoNode, votedFor[n])
    /\ UNCHANGED logVars

\* The logs a crash inside handleAppendEntries may leave: the old one, or the
\* old one truncated and extended by some of the new entries.  TruncateLog
\* syncs before SaveLogEntries writes, and SaveLogEntries syncs once after
\* writing its records, so any prefix of them may survive.
PartialLogs(l, prev, entries) ==
    LET new == NewOffsets(l, prev, entries)
    IN  {l} \cup {SubSeq(l, 1, prev + Min(new) - 1) \o SubSeq(entries, Min(new), last) :
                      last \in {j \in 0 .. Len(entries) : new # {}}}

\* A crash inside handleAppendEntries, before its last write: the new term is
\* durable, the log is partly written, the commit index and the response are
\* not.
CrashDuringAppend(n, m) ==
    /\ m.type = "AppendEntries"
    /\ m.term >= term[n]
    /\ Consistent(n, m)
    /\ ForgetVolatile(n)
    /\ BecomeFollower(n, m.term, NoNode, VoteAt(n, m.term))
    /\ \E l \in PartialLogs(log[n], m.prevLogIndex, m.entries) :
           log' = [log EXCEPT ![n] = l]
    /\ UNCHANGED commitIndex

\* Step at Node n for a message sent to it.
Receive(n, m) ==
    \/ HandlePreVoteRequest(n, m)
    \/ HandlePreVoteResponse(n, m)
    \/ HandleVoteRequest(n, m)
    \/ HandleVoteResponse(n, m)
    \/ HandleAppendEntries(n, m)
    \/ HandleAppendEntriesResponse(n, m)

\* A message gets through, for the first time or again.  Sending what was
\* sent before counts as one message.
Deliver(m) ==
    /\ <<m.from, m.to>> \in Links
    /\ m \in delivered => m.type \in Redelivered
    /\ delivered' = delivered \cup {m}

LocalEvent(n) ==
    \/ StartPreVote(n)
    \/ ElectionTimeoutAtLeader(n)
    \/ HeartbeatTimeout(n)
    \/ CheckQuorumTimeout(n)
    \/ \E c \in Command : Propose(n, c)
    \/ ConfirmRead(n)
    \/ Restart(n)

Next ==
    \/ \E n \in Node : LocalEvent(n) /\ UNCHANGED delivered
    \/ \E m \in msgs : Deliver(m) /\ (Receive(m.to, m) \/ CrashDuringAppend(m.to, m))

Spec == Init /\ [][Next]_vars

-----------------------------------------------------------------------------
(* Properties *)

\* Every variable has its type, and no Node believes more committed than its
\* log holds: applyThrough (raft.go:1421) indexes the log up to commitIndex.
TypeOK ==
    /\ role \in [Node -> Role]
    /\ term \in [Node -> Nat]
    /\ votedFor \in [Node -> Node \cup {NoNode}]
    /\ leaderID \in [Node -> Node \cup {NoNode}]
    /\ recentLeaderContact \in [Node -> BOOLEAN]
    /\ votes \in [Node -> SUBSET Node]
    /\ preVotes \in [Node -> SUBSET Node]
    /\ electionTimer \in [Node -> BOOLEAN]
    /\ log \in [Node -> Seq(Entry)]
    /\ commitIndex \in [Node -> Nat]
    /\ \A n \in Node : commitIndex[n] <= Len(log[n])
    /\ activePeers \in [Node -> SUBSET Node]
    /\ matchIndex \in [Node -> [Node -> Nat]]
    /\ nextIndex \in [Node -> [Node -> Nat]]
    /\ appendInFlight \in [Node -> [Node -> [requestID : Nat, leaderCommit : Nat]]]
    /\ nextRequestID \in [Node -> [Node -> Nat]]
    /\ readReady \in [Node -> BOOLEAN]
    /\ pendingReads \in [Node -> [ReadID -> SUBSET Node]]
    /\ nextReadID \in [Node -> Nat]
    /\ readFloor \in [Node -> [ReadID -> Nat]]
    /\ msgs \subseteq Message
    /\ restarts \in Nat
    /\ heartbeats \in Nat
    /\ delivered \subseteq msgs

\* Two logs hold the same entries up to index k.
AgreeUpTo(k, l1, l2) ==
    /\ Len(l1) >= k
    /\ Len(l2) >= k
    /\ \A i \in 1..k : l1[i] = l2[i]

\* A request of a term was sent by the one Leader of that term: whatever was
\* lost, replayed or restarted in between, votes (handleVoteRequest) never
\* made two Nodes Leader of one term, at the same time or one after the other.
ElectionSafety ==
    /\ \A n, p \in Node :
          (role[n] = "Leader" /\ role[p] = "Leader" /\ term[n] = term[p]) => n = p
    /\ \A m1, m2 \in msgs :
          (m1.type = "AppendEntries" /\ m2.type = "AppendEntries" /\ m1.term = m2.term)
              => m1.from = m2.from

\* Two logs that hold an entry of the same term at an index are identical up
\* to that index (matches, entriesToAppend, truncateLog).
LogMatching ==
    \A n, p \in Node : \A i \in DOMAIN log[n] \cap DOMAIN log[p] :
        log[n][i].term = log[p][i].term => AgreeUpTo(i, log[n], log[p])

\* The committed prefix of every Node is on the disks of a quorum at all
\* times, through truncations, crashes and restarts: the guarantee behind an
\* acknowledged mutation.
CommittedOnQuorum ==
    \A n \in Node :
        IsQuorum({p \in Node : AgreeUpTo(commitIndex[n], log[n], log[p])})

\* A Leader holds every entry committed under an earlier term.
LeaderCompleteness ==
    \A n, p \in Node :
        (role[n] = "Leader" /\ term[n] >= term[p]) =>
            AgreeUpTo(commitIndex[p], log[n], log[p])

\* What a Leader believes of a peer still in its term is true of the peer's
\* log.  The response carries the peer's lastLogIndex (raft.go:1017), not the
\* last index of the request, so this rests on how nextIndex is chosen.
MatchIndexSound ==
    \A n, p \in Node :
        (role[n] = "Leader" /\ term[p] = term[n] /\ p # n) =>
            AgreeUpTo(matchIndex[n][p], log[n], log[p])

\* A read completes at an index no smaller than any commit index a Node had
\* when the read began (confirmRead, acknowledgeRead): no acknowledged write
\* is missed, even if a new Leader was elected meanwhile.
ReadsSeeCommitted ==
    [][\A n \in Node : \A r \in ReadID :
           (pendingReads[n][r] # {} /\ pendingReads'[n][r] = {} /\ role'[n] = "Leader")
               => commitIndex'[n] >= readFloor[n][r]]_vars
=============================================================================
