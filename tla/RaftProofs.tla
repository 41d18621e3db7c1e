----------------------------- MODULE RaftProofs -----------------------------
(***************************************************************************)
(* The types of every Cluster: no step of Raft leaves them.  And the steps *)
(* of a Cluster that keeps what it committed, as steps of ReplicatedLog.   *)
(***************************************************************************)
EXTENDS RaftRefinement, RaftLogProofs

(* What the log operators return. *)

\* The values of a function on a finite set have a greatest one, which Max returns.
LEMMA MaxOfFinite ==
    ASSUME NEW S, IsFiniteSet(S), S # {}, NEW f \in [S -> Nat]
    PROVE  Max({f[x] : x \in S}) \in Nat
<1>1. PICK n \in Nat : ExistsSurjection(1..n, S)
  BY FS_NatSurjection, Zenon
<1>2. PICK g \in [1..n -> S] : \A x \in S : \E i \in 1..n : g[i] = x
  BY <1>1, Zenon DEF ExistsSurjection, Surjection
<1> DEFINE Bounded(i) == \E k \in Nat : \A j \in 1..i : f[g[j]] <= k
           Unbounded  == {i \in 0..n : ~Bounded(i)}
<1>3. Unbounded = {}
  <2>1. SUFFICES ASSUME Unbounded # {}
                 PROVE  FALSE
    BY Zenon
  <2>2. PICK m \in Unbounded : \A i \in Unbounded : m <= i
    <3>1. Unbounded \in SUBSET Nat
      OBVIOUS
    <3>2. QED
      BY <2>1, <3>1, MinOfNaturals, Zenon
  <2>3. m # 0
    <3>1. Bounded(0)
      <4>1. \A j \in 1..0 : f[g[j]] <= 0
        OBVIOUS
      <4>2. QED
        BY <4>1, Zenon
    <3>2. QED
      BY <3>1, Zenon
  <2>4. m \in 0..n /\ m - 1 \in 0..n
    BY <2>3
  <2>5. PICK k \in Nat : \A j \in 1..m - 1 : f[g[j]] <= k
    <3>1. m - 1 \in Unbounded => m <= m - 1
      BY <2>2, Zenon
    <3>2. ~(m <= m - 1)
      BY <2>4
    <3>3. Bounded(m - 1)
      BY <2>4, <3>1, <3>2, Zenon
    <3>4. QED
      BY <3>3, Zenon
  <2>6. f[g[m]] \in Nat
    BY <2>3
  <2>7. \A j \in 1..m : f[g[j]] <= k + f[g[m]]
    <3>1. ASSUME NEW j \in 1..m
          PROVE  f[g[j]] <= k + f[g[m]]
      <4>1. CASE j = m
        BY <2>6, <4>1
      <4>2. CASE j # m
        <5>1. j \in 1..m - 1 /\ j \in 1..n
          BY <4>2
        <5>2. f[g[j]] \in Nat /\ f[g[j]] <= k
          BY <2>5, <5>1, Zenon
        <5>3. QED
          BY <2>6, <5>2
      <4>3. QED
        BY <4>1, <4>2, Zenon
    <3>2. QED
      BY <3>1, Zenon
  <2>8. k + f[g[m]] \in Nat
    BY <2>6
  <2>9. QED
    BY <2>7, <2>8, Zenon
<1>4. PICK k \in Nat : \A j \in 1..n : f[g[j]] <= k
  <2>1. n \in 0..n
    OBVIOUS
  <2>2. Bounded(n)
    BY <1>3, <2>1, Zenon
  <2>3. QED
    BY <2>2, Zenon
<1>5. \A y \in {f[x] : x \in S} : y <= k
  BY <1>2, <1>4
<1>6. {f[x] : x \in S} \in SUBSET Nat /\ {f[x] : x \in S} # {}
  OBVIOUS
<1>7. QED
  BY <1>5, <1>6, MaxOfBounded, Zenon

\* termAt is a term, at every index.
LEMMA TermAtType ==
    ASSUME NEW E, \A e \in E : e.term \in Nat, NEW l \in Seq(E), NEW i \in Int
    PROVE  TermAt(l, i) \in Nat
<1>1. CASE i \in 1..Len(l)
  <2>1. l[i] \in E
    BY <1>1
  <2>2. QED
    BY <1>1, <2>1, Zenon DEF TermAt
<1>2. CASE i \notin 1..Len(l)
  BY <1>2, Zenon DEF TermAt
<1>3. QED
  BY <1>1, <1>2, Zenon

\* entriesBatch returns entries of the log.
LEMMA EntriesBatchType ==
    ASSUME NEW E, NEW l \in Seq(E), NEW first \in Nat \ {0}, NEW maxBatch \in Nat \ {0}
    PROVE  EntriesBatch(l, first, maxBatch) \in Seq(E)
<1> DEFINE last == Min({Len(l), first + maxBatch - 1})
<1>1. Len(l) \in Nat /\ first + maxBatch - 1 \in Nat
  OBVIOUS
<1>2. last \in Nat /\ last <= Len(l)
  BY <1>1, MinOfTwo, Zenon
<1> HIDE DEF last
<1>3. \A i \in first..last : l[i] \in E
  BY <1>2
<1>4. SubSeq(l, first, last) \in Seq(E)
  BY <1>2, <1>3, PartOfLog
<1>5. QED
  BY <1>4, Zenon DEF EntriesBatch, last

\* entriesToAppend, truncateLog and appendEntries leave a log that still covers
\* the committed prefix.
LEMMA AppendNewType ==
    ASSUME NEW E, \A e \in E : e.term \in Nat, NEW l \in Seq(E), NEW prev \in 0..Len(l),
           NEW entries \in Seq(E),
           NEW commit \in 0..Len(l), ~ContradictsCommitted(l, commit, prev, entries)
    PROVE  /\ AppendNew(l, prev, entries) \in Seq(E)
           /\ commit <= Len(AppendNew(l, prev, entries))
<1> DEFINE new == NewOffsets(l, prev, entries)
           k == Min(new)
<1>1. CASE new = {}
  BY <1>1 DEF AppendNew
<1>2. CASE new # {}
  <2>1. k \in 1..Len(entries) /\ prev + k - 1 <= Len(l)
    BY <1>2, FirstNewOffset, Zenon
  <2>2. prev + k > commit
    BY <1>2, <2>1 DEF ContradictsCommitted
  <2> HIDE DEF k
  <2>3. /\ SubSeq(l, 1, prev + k - 1) \in Seq(E)
        /\ Len(SubSeq(l, 1, prev + k - 1)) = prev + k - 1
    <3>1. \A i \in 1..prev + k - 1 : l[i] \in E
      BY <2>1
    <3>2. QED
      BY <2>1, <3>1, PartOfLog
  <2>4. /\ SubSeq(entries, k, Len(entries)) \in Seq(E)
        /\ Len(SubSeq(entries, k, Len(entries))) \in Nat
    <3>1. \A i \in k..Len(entries) : entries[i] \in E
      BY <2>1
    <3>2. SubSeq(entries, k, Len(entries)) \in Seq(E)
      BY <2>1, <3>1, PartOfLog
    <3>3. QED
      BY <3>2
  <2>5. AppendNew(l, prev, entries) = SubSeq(l, 1, prev + k - 1) \o SubSeq(entries, k, Len(entries))
    BY <1>2, Zenon DEF AppendNew, k
  <2>6. /\ AppendNew(l, prev, entries) \in Seq(E)
        /\ Len(AppendNew(l, prev, entries)) = prev + k - 1 + Len(SubSeq(entries, k, Len(entries)))
    BY <2>3, <2>4, <2>5, JoinedLogs, Zenon
  <2>7. commit <= prev + k - 1 + Len(SubSeq(entries, k, Len(entries)))
    BY <2>1, <2>2, <2>4, SMTT(30)
  <2>8. QED
    BY <2>6, <2>7, Zenon
<1>3. QED
  BY <1>1, <1>2, Zenon

\* conflictHint returns a term and an index.
LEMMA ConflictHintType ==
    ASSUME NEW E, \A e \in E : e.term \in Nat, NEW l \in Seq(E), NEW i \in Nat
    PROVE  ConflictHint(l, i) \in [term : Nat, index : Nat]
<1>1. CASE i \notin 1..Len(l)
  BY <1>1 DEF ConflictHint
<1>2. CASE i \in 1..Len(l)
  <2> DEFINE run == {k \in 1..i : \A j \in k..i : TermAt(l, j) = TermAt(l, i)}
  <2>1. i \in run
    <3>1. \A j \in i..i : j = i
      OBVIOUS
    <3>2. QED
      BY <1>2, <3>1
  <2>2. Min(run) \in run
    <3>1. run \in SUBSET Nat
      OBVIOUS
    <3>2. QED
      BY <2>1, <3>1, MinOfNaturals, Zenon
  <2>3. Min(run) \in Nat
    BY <2>2
  <2>4. TermAt(l, i) \in Nat
    BY TermAtType
  <2>5. QED
    BY <1>2, <2>3, <2>4, Zenon DEF ConflictHint
<1>3. QED
  BY <1>1, <1>2, Zenon

\* nextIndexFromConflict never points before the first entry.
LEMMA NextIndexFromConflictType ==
    ASSUME NEW E, \A e \in E : e.term \in Nat, NEW l \in Seq(E), NEW t \in Nat, NEW i \in Nat
    PROVE  NextIndexFromConflict(l, t, i) \in Nat \ {0}
<1> DEFINE ofTerm == {j \in 1..Len(l) : l[j].term = t}
           next   == IF t # 0 /\ ofTerm # {} THEN Max(ofTerm) + 1 ELSE Max({i, 1})
<1>1. next \in Nat \ {0}
  <2>1. CASE t # 0 /\ ofTerm # {}
    <3>1. ofTerm \in SUBSET Nat /\ Len(l) \in Nat /\ \A x \in ofTerm : x <= Len(l)
      OBVIOUS
    <3>2. Max(ofTerm) \in ofTerm
      BY <2>1, <3>1, MaxOfBounded, Zenon
    <3>3. QED
      BY <2>1, <3>2
  <2>2. CASE ~(t # 0 /\ ofTerm # {})
    BY <2>2, MaxOfTwo
  <2>3. QED
    BY <2>1, <2>2, Zenon
<1> HIDE DEF next
<1>2. Min({next, Len(l) + 1}) \in {next, Len(l) + 1}
  BY <1>1, MinOfTwo
<1>3. QED
  BY <1>1, <1>2 DEF NextIndexFromConflict, next

-----------------------------------------------------------------------------
(* What each handler keeps. *)

\* becomeFollower keeps every variable it writes in its type.
LEMMA BecomeFollowerType ==
    ASSUME TypeOK, NEW n \in Node, NEW t \in Nat,
           NEW leader \in Node \cup {NoNode}, NEW vote \in Node \cup {NoNode},
           BecomeFollower(n, t, leader, vote)
    PROVE  /\ role' \in [Node -> Role]
           /\ term' \in [Node -> Nat]
           /\ votedFor' \in [Node -> Node \cup {NoNode}]
           /\ leaderID' \in [Node -> Node \cup {NoNode}]
           /\ recentLeaderContact' \in [Node -> BOOLEAN]
           /\ votes' \in [Node -> SUBSET Node]
           /\ preVotes' \in [Node -> SUBSET Node]
           /\ activePeers' \in [Node -> SUBSET Node]
           /\ matchIndex' \in [Node -> [Node -> Nat]]
           /\ nextIndex' \in [Node -> [Node -> Nat]]
           /\ appendInFlight' \in [Node -> [Node -> InFlight]]
           /\ readReady' \in [Node -> BOOLEAN]
           /\ pendingReads' \in [Node -> [ReadID -> SUBSET Node]]
<1>1. NoIndex \in [Node -> Nat] /\ NoReads \in [ReadID -> SUBSET Node]
  BY Zenon DEF NoIndex, NoReads
<1>2. [p \in Node |-> NotInFlight] \in [Node -> InFlight]
  BY Zenon DEF NotInFlight, InFlight
<1>3. "Follower" \in Role
  BY Zenon DEF Role
<1>4. (leader # NoNode) \in BOOLEAN
  OBVIOUS
<1>5. QED
  BY <1>1, <1>2, <1>3, <1>4, Zenon DEF TypeOK, BecomeFollower, InFlight

\* becomeFollower leaves the requirement on nextIndex to the other Nodes.
LEMMA BecomeFollowerNext ==
    ASSUME TypeInv, NEW n \in Node, NEW t \in Nat,
           NEW leader \in Node \cup {NoNode}, NEW vote \in Node \cup {NoNode},
           BecomeFollower(n, t, leader, vote)
    PROVE  NextIndexPositive'
  BY Zenon DEF TypeInv, TypeOK, NextIndexPositive, BecomeFollower

\* The oldest read a peer has not confirmed is a read ID, or 0 for none.
LEMMA PendingReadsType ==
    ASSUME NEW n \in Node
    PROVE  PendingReads(n) \in [Node -> Nat]
<1>1. SUFFICES ASSUME NEW p \in Node PROVE PendingReadFor(n, p) \in Nat
  BY Zenon DEF PendingReads
<1> DEFINE missing == {r \in ReadID : pendingReads[n][r] # {} /\ p \notin pendingReads[n][r]}
<1>2. missing \in SUBSET Nat
  BY BoundAssumption DEF ReadID
<1>3. missing # {} => Min(missing) \in Nat
  BY <1>2, MinOfNaturals, Zenon
<1>4. QED
  BY <1>3, Zenon DEF PendingReadFor

\* The next request ID to a peer is a number.
LEMMA RequestIDType ==
    ASSUME TypeOK, NEW n \in Node, NEW p \in Node
    PROVE  nextRequestID[n][p] + 1 \in Nat
<1>1. nextRequestID[n] \in [Node -> Nat]
  BY Zenon DEF TypeOK
<1>2. nextRequestID[n][p] \in Nat
  BY <1>1, Zenon
<1>3. QED
  BY <1>2

\* What sendAppendEntriesTo builds is an AppendEntries request.
LEMMA AppendRequestType ==
    ASSUME TypeOK, NEW n \in Node, NEW p \in Node, NEW l \in Seq(Entry),
           NEW next \in Nat \ {0}, NEW commit \in Nat, NEW readID \in Nat
    PROVE  AppendRequest(n, p, l, next, commit, readID) \in AppendRequests
<1>1. next - 1 \in Nat /\ next - 1 \in Int
  OBVIOUS
<1>2. TermAt(l, next - 1) \in Nat
  BY <1>1, EntryTerm, TermAtType, Zenon
<1>3. EntriesBatch(l, next, MaxBatch) \in Seq(Entry)
  BY BatchIsPositive, EntriesBatchType, Zenon
<1>4. term[n] \in Nat /\ nextRequestID[n][p] + 1 \in Nat
  BY RequestIDType, Zenon DEF TypeOK
<1>5. QED
  BY <1>1, <1>2, <1>3, <1>4, Zenon DEF AppendRequest, AppendRequests

\* sendAppendEntries sends requests and keeps its counters in their types.
LEMMA SendAppendEntriesType ==
    ASSUME TypeOK, NEW n \in Node, NEW targets \in SUBSET Node,
           NEW inFlight \in [Node -> InFlight], NEW l \in Seq(Entry),
           NEW next \in [Node -> Nat], \A p \in Node : next[p] # 0,
           NEW commit \in Nat, NEW readFor \in [Node -> Nat],
           SendAppendEntries(n, targets, inFlight, l, next, commit, readFor)
    PROVE  /\ msgs' \subseteq Message
           /\ nextRequestID' \in [Node -> [Node -> Nat]]
           /\ appendInFlight' \in [Node -> [Node -> InFlight]]
<1> DEFINE due == {p \in targets : inFlight[p].requestID = 0}
           requests == {AppendRequest(n, p, l, FirstToSend(next[p], l), commit, readFor[p]) : p \in due}
<1>1. \A p \in due : FirstToSend(next[p], l) \in Nat \ {0}
  <2> SUFFICES ASSUME NEW p \in due PROVE FirstToSend(next[p], l) \in Nat \ {0}
    OBVIOUS
  <2>1. next[p] \in Nat \ {0} /\ Len(l) + 1 \in Nat \ {0}
    OBVIOUS
  <2>2. QED
    BY <2>1, MinOfTwo, Zenon DEF FirstToSend
<1>2. requests \subseteq AppendRequests
  <2> SUFFICES ASSUME NEW p \in due
      PROVE AppendRequest(n, p, l, FirstToSend(next[p], l), commit, readFor[p]) \in AppendRequests
    OBVIOUS
  <2>1. FirstToSend(next[p], l) \in Nat \ {0} /\ readFor[p] \in Nat /\ p \in Node
    BY <1>1, Zenon
  <2>2. QED
    BY <2>1, AppendRequestType, Zenon
<1>3. msgs' \subseteq Message
  <2>1. msgs' = msgs \cup requests
    BY Zenon DEF SendAppendEntries, Send
  <2>2. msgs \subseteq Message
    BY Zenon DEF TypeOK
  <2> HIDE DEF requests
  <2>3. QED
    BY <1>2, <2>1, <2>2, Zenon DEF Message
<1>4. nextRequestID \in [Node -> [Node -> Nat]] /\ appendInFlight \in [Node -> [Node -> InFlight]]
  BY Zenon DEF TypeOK, InFlight
<1>5. nextRequestID' \in [Node -> [Node -> Nat]]
  BY <1>4 DEF SendAppendEntries
<1>6. appendInFlight' \in [Node -> [Node -> InFlight]]
  <2>1. PICK failed \in SUBSET (due \cap FailingPeers) :
            appendInFlight' = [appendInFlight EXCEPT ![n] =
                [p \in Node |->
                    IF p \in failed THEN NotInFlight
                    ELSE IF p \in due
                         THEN [requestID |-> nextRequestID[n][p] + 1, leaderCommit |-> commit]
                         ELSE inFlight[p]]]
    BY Zenon DEF SendAppendEntries
  <2>2. NotInFlight \in InFlight
    BY Zenon DEF NotInFlight, InFlight
  <2>3. \A p \in Node : [requestID |-> nextRequestID[n][p] + 1, leaderCommit |-> commit] \in InFlight
    BY RequestIDType, Zenon DEF InFlight
  <2> HIDE DEF due
  <2>4. QED
    BY <1>4, <2>1, <2>2, <2>3, Zenon
<1>7. QED
  BY <1>3, <1>5, <1>6, Zenon

-----------------------------------------------------------------------------
(* TypeInv is inductive: one lemma per action.  What a step does to the set of
   messages delivered is settled once, at the end. *)

\* The last entry's term is a number.
LEMMA LastLogType ==
    ASSUME TypeOK, NEW n \in Node
    PROVE  Len(log[n]) \in Nat /\ LastLogTerm(log[n]) \in Nat
<1>1. log[n] \in Seq(Entry)
  BY Zenon DEF TypeOK
<1>2. Len(log[n]) \in Nat /\ Len(log[n]) \in Int
  BY <1>1
<1>3. QED
  BY <1>1, <1>2, EntryTerm, TermAtType, Zenon DEF LastLogTerm

\* startPreVote.
LEMMA StartPreVoteType ==
    ASSUME TypeInv, NEW n \in Node, StartPreVote(n), delivered' \subseteq msgs'
    PROVE  TypeInv'
<1>1. term[n] + 1 \in Nat
  BY DEF TypeInv, TypeOK
<1>2. \A p \in Node :
        [type |-> "PreVoteRequest", from |-> n, to |-> p, term |-> term[n] + 1,
         lastLogIndex |-> Len(log[n]), lastLogTerm |-> LastLogTerm(log[n])] \in PreVoteRequests
  BY <1>1, LastLogType, Zenon DEF TypeInv, PreVoteRequests
<1>3. msgs' \subseteq Message
  BY <1>2 DEF StartPreVote, Send, TypeInv, TypeOK, Peers, Message
<1>4. TypeOK'
  <2>1. /\ recentLeaderContact' \in [Node -> BOOLEAN]
        /\ leaderID' \in [Node -> Node \cup {NoNode}]
    BY Zenon DEF StartPreVote, TypeInv, TypeOK
  <2>2. role' \in [Node -> Role] /\ preVotes' \in [Node -> SUBSET Node]
    BY ZenonT(30) DEF StartPreVote, TypeInv, TypeOK, Role
  <2>3. UNCHANGED <<term, votedFor, votes, electionTimer, logVars, leaderVars,
                    nextRequestID, readVars, readIDVars, restarts, heartbeats>>
    BY Zenon DEF StartPreVote
  <2> QED
    BY <1>3, <2>1, <2>2, <2>3, ZenonT(60), Zenon
       DEF TypeInv, TypeOK, logVars, leaderVars, readVars, readIDVars
<1>5. NextIndexPositive'
  BY Zenon DEF StartPreVote, TypeInv, TypeOK, NextIndexPositive, leaderVars
<1>6. QED
  BY <1>4, <1>5, Zenon DEF TypeInv

\* An election timeout at a Leader.
LEMMA ElectionTimeoutAtLeaderType ==
    ASSUME TypeInv, NEW n \in Node, ElectionTimeoutAtLeader(n), delivered' \subseteq msgs'
    PROVE  TypeInv'
  BY Zenon DEF ElectionTimeoutAtLeader, TypeInv, TypeOK, NextIndexPositive,
         electionVars, logVars, leaderVars, readVars, readIDVars

\* A response of a higher term.
LEMMA AdoptHigherTermType ==
    ASSUME TypeInv, NEW n \in Node, NEW t \in Nat, AdoptHigherTerm(n, t), delivered' \subseteq msgs'
    PROVE  TypeInv'
<1>1. BecomeFollower(n, t, NoNode, NoNode) /\ TypeOK
  BY Zenon DEF AdoptHigherTerm, TypeInv
<1>2. NextIndexPositive'
  BY <1>1, BecomeFollowerNext, Zenon
<1>3. TypeOK'
  BY <1>1, BecomeFollowerType, Zenon DEF AdoptHigherTerm, TypeOK, InFlight, logVars, readIDVars
<1>4. QED
  BY <1>2, <1>3, Zenon DEF TypeInv

\* handlePreVoteRequest.
LEMMA HandlePreVoteRequestType ==
    ASSUME TypeInv, NEW m \in msgs, HandlePreVoteRequest(m.to, m), delivered' \subseteq msgs'
    PROVE  TypeInv'
<1>1. m \in PreVoteRequests
  BY MessageKinds, Zenon DEF TypeInv, TypeOK, HandlePreVoteRequest
<1>2. m.to \in Node /\ m.from \in Node /\ m.term \in Nat
  BY <1>1, Zenon DEF PreVoteRequests
<1>3. term[m.to] \in Nat /\ GrantsPreVote(m.to, m) \in BOOLEAN
  BY <1>2, Zenon DEF TypeInv, TypeOK, GrantsPreVote
<1>4. [type |-> "PreVoteResponse", from |-> m.to, to |-> m.from, term |-> m.term,
       currentTerm |-> term[m.to], granted |-> GrantsPreVote(m.to, m)] \in PreVoteResponses
  BY <1>2, <1>3, Zenon DEF PreVoteResponses
<1>5. msgs' \subseteq Message
  BY <1>4, Zenon DEF HandlePreVoteRequest, Send, TypeInv, TypeOK, Message
<1>6. QED
  BY <1>5, Zenon DEF HandlePreVoteRequest, TypeInv, TypeOK, NextIndexPositive,
              electionVars, logVars, leaderVars, readVars, readIDVars

\* startElection sends vote requests.
LEMMA StartElectionType ==
    ASSUME TypeInv, NEW n \in Node, StartElection(n)
    PROVE  /\ role' \in [Node -> Role]
           /\ term' \in [Node -> Nat]
           /\ votedFor' \in [Node -> Node \cup {NoNode}]
           /\ leaderID' \in [Node -> Node \cup {NoNode}]
           /\ readReady' \in [Node -> BOOLEAN]
           /\ votes' \in [Node -> SUBSET Node]
           /\ electionTimer' \in [Node -> BOOLEAN]
           /\ msgs' \subseteq Message
           /\ \A p \in Node : role'[p] = "Leader" => role[p] = "Leader"
<1>1. term[n] + 1 \in Nat
  BY DEF TypeInv, TypeOK
<1>2. \A p \in Node :
        [type |-> "VoteRequest", from |-> n, to |-> p, term |-> term[n] + 1,
         lastLogIndex |-> Len(log[n]), lastLogTerm |-> LastLogTerm(log[n])] \in VoteRequests
  BY <1>1, LastLogType, Zenon DEF TypeInv, VoteRequests
<1>3. msgs' \subseteq Message
  BY <1>2 DEF StartElection, Send, TypeInv, TypeOK, Peers, Message
<1>4. QED
  BY <1>1, <1>3 DEF StartElection, TypeInv, TypeOK, Role

\* handlePreVoteResponse.
LEMMA HandlePreVoteResponseType ==
    ASSUME TypeInv, NEW m \in msgs, HandlePreVoteResponse(m.to, m), delivered' \subseteq msgs'
    PROVE  TypeInv'
<1>1. m \in PreVoteResponses
  BY MessageKinds, Zenon DEF TypeInv, TypeOK, HandlePreVoteResponse
<1>2. m.to \in Node /\ m.from \in Node /\ m.currentTerm \in Nat
  BY <1>1, Zenon DEF PreVoteResponses
<1>3. CASE AdoptHigherTerm(m.to, m.currentTerm)
  BY <1>2, <1>3, AdoptHigherTermType, Zenon
<1>4. CASE ~AdoptHigherTerm(m.to, m.currentTerm)
  <2>1. preVotes' \in [Node -> SUBSET Node]
    <3>1. preVotes' = [preVotes EXCEPT ![m.to] = @ \cup {m.from}]
      BY <1>4, Zenon DEF HandlePreVoteResponse
    <3>2. QED
      BY <1>2, <3>1, ZenonT(30) DEF TypeInv, TypeOK
  <2>2. UNCHANGED <<recentLeaderContact, logVars, leaderVars, nextRequestID,
                    pendingReads, readIDVars, restarts, heartbeats>>
    BY <1>4, Zenon DEF HandlePreVoteResponse
  <2>3. CASE StartElection(m.to)
    BY <1>2, <2>1, <2>2, <2>3, StartElectionType, Zenon
       DEF TypeInv, TypeOK, NextIndexPositive, logVars, leaderVars, readIDVars
  <2>4. CASE UNCHANGED <<role, term, votedFor, leaderID, readReady, votes, electionTimer, msgs>>
    BY <2>1, <2>2, <2>4, Zenon
       DEF TypeInv, TypeOK, NextIndexPositive, logVars, leaderVars, readIDVars
  <2>5. QED
    BY <1>4, <2>3, <2>4, Zenon DEF HandlePreVoteResponse
<1>5. QED
  BY <1>3, <1>4, Zenon

\* handleVoteRequest.
LEMMA HandleVoteRequestType ==
    ASSUME TypeInv, NEW m \in msgs, HandleVoteRequest(m.to, m), delivered' \subseteq msgs'
    PROVE  TypeInv'
<1> DEFINE n == m.to
           vote == IF GrantsVote(n, m) THEN m.from ELSE VoteAt(n, m.term)
<1>1. m \in VoteRequests
  BY MessageKinds, Zenon DEF TypeInv, TypeOK, HandleVoteRequest
<1>2. n \in Node /\ m.from \in Node /\ m.term \in Nat
  BY <1>1, Zenon DEF VoteRequests
<1>3. vote \in Node \cup {NoNode} /\ term[n] \in Nat /\ GrantsVote(n, m) \in BOOLEAN
  BY <1>2, Zenon DEF TypeInv, TypeOK, VoteAt, GrantsVote
<1>4. [type |-> "VoteResponse", from |-> n, to |-> m.from,
       term |-> Max({term[n], m.term}), granted |-> GrantsVote(n, m)] \in VoteResponses
  <2>1. Max({term[n], m.term}) \in Nat
    BY <1>2, <1>3, MaxOfTwo, Zenon
  <2>2. QED
    BY <1>2, <1>3, <2>1, Zenon DEF VoteResponses
<1>5. msgs' \subseteq Message
  BY <1>4, Zenon DEF HandleVoteRequest, Send, TypeInv, TypeOK, Message
<1>6. UNCHANGED <<electionTimer, logVars, nextRequestID, readIDVars, restarts, heartbeats>>
  BY Zenon DEF HandleVoteRequest
<1>7. CASE m.term > term[n]
  <2>1. BecomeFollower(n, m.term, NoNode, vote)
    BY <1>7, Zenon DEF HandleVoteRequest
  <2> HIDE DEF vote, n
  <2>2. NextIndexPositive'
    BY <1>2, <1>3, <2>1, BecomeFollowerNext, Zenon
  <2>3. TypeOK'
    BY <1>2, <1>3, <1>5, <1>6, <2>1, BecomeFollowerType, Zenon
       DEF TypeInv, TypeOK, InFlight, logVars, readIDVars
  <2>4. QED
    BY <2>2, <2>3, Zenon DEF TypeInv
<1>8. CASE ~(m.term > term[n])
  <2>1. /\ votedFor' = [votedFor EXCEPT ![n] = vote]
        /\ UNCHANGED <<role, term, leaderID, recentLeaderContact, votes, preVotes, leaderVars, readVars>>
    BY <1>8, Zenon DEF HandleVoteRequest
  <2> HIDE DEF vote, n
  <2>2. QED
    BY <1>2, <1>3, <1>5, <1>6, <2>1, Zenon
       DEF TypeInv, TypeOK, NextIndexPositive, logVars, leaderVars, readVars, readIDVars
<1>9. QED
  BY <1>7, <1>8, Zenon

\* handleVoteResponse: what a Candidate that wins does to its log and peers.
LEMMA HandleVoteResponseType ==
    ASSUME TypeInv, NEW m \in msgs, HandleVoteResponse(m.to, m), delivered' \subseteq msgs'
    PROVE  TypeInv'
<1> DEFINE n == m.to
           l == Append(log[n], [term |-> term[n], cmd |-> NoOp])
           next == [p \in Node |-> Len(l) + 1]
           idle == [p \in Node |-> NotInFlight]
<1>1. m \in VoteResponses
  BY MessageKinds, Zenon DEF TypeInv, TypeOK, HandleVoteResponse
<1>2. n \in Node /\ m.from \in Node /\ m.term \in Nat
  BY <1>1, Zenon DEF VoteResponses
<1>3. CASE AdoptHigherTerm(n, m.term)
  BY <1>2, <1>3, AdoptHigherTermType, Zenon
<1>4. CASE ~AdoptHigherTerm(n, m.term)
  <2>1. votes' = [votes EXCEPT ![n] = @ \cup {m.from}]
    BY <1>4, Zenon DEF HandleVoteResponse
  <2>2. votes' \in [Node -> SUBSET Node]
    BY <1>2, <2>1, ZenonT(30) DEF TypeInv, TypeOK
  <2>3. UNCHANGED <<term, votedFor, recentLeaderContact, preVotes, electionTimer,
                    commitIndex, pendingReads, readIDVars, restarts, heartbeats>>
    BY <1>4, Zenon DEF HandleVoteResponse
  <2>4. CASE ~IsQuorum(votes[n] \cup {m.from})
    <3>1. UNCHANGED <<role, leaderID, readReady, log, leaderVars, nextRequestID, msgs>>
      BY <1>4, <2>4, Zenon DEF HandleVoteResponse
    <3>2. QED
      BY <2>2, <2>3, <3>1, Zenon DEF TypeInv, TypeOK, NextIndexPositive, leaderVars, readIDVars
  <2>5. CASE IsQuorum(votes[n] \cup {m.from})
    <3>1. /\ role' = [role EXCEPT ![n] = "Leader"]
          /\ leaderID' = [leaderID EXCEPT ![n] = n]
          /\ readReady' = [readReady EXCEPT ![n] = FALSE]
          /\ log' = [log EXCEPT ![n] = l]
          /\ activePeers' = [activePeers EXCEPT ![n] = {}]
          /\ matchIndex' = [matchIndex EXCEPT ![n] = NoIndex]
          /\ nextIndex' = [nextIndex EXCEPT ![n] = next]
          /\ SendAppendEntries(n, Peers(n), idle, l, next, commitIndex[n], PendingReads(n))
      BY <1>4, <2>5, Zenon DEF HandleVoteResponse
    <3>2. log[n] \in Seq(Entry) /\ term[n] \in Nat /\ commitIndex[n] \in Nat
          /\ commitIndex[n] <= Len(log[n])
      BY <1>2, Zenon DEF TypeInv, TypeOK
    <3>3. [term |-> term[n], cmd |-> NoOp] \in Entry
      BY <3>2, Zenon DEF Entry
    <3>4. l \in Seq(Entry) /\ Len(l) \in Nat /\ commitIndex[n] <= Len(l)
      BY <3>2, <3>3
    <3>5. next \in [Node -> Nat] /\ \A p \in Node : next[p] # 0
      BY <3>4
    <3>6. idle \in [Node -> InFlight] /\ Peers(n) \in SUBSET Node
      BY Zenon DEF NotInFlight, InFlight, Peers
    <3>7. PendingReads(n) \in [Node -> Nat]
      BY <1>2, PendingReadsType, Zenon
    <3> HIDE DEF n, l, next, idle
    <3>8. /\ msgs' \subseteq Message
          /\ nextRequestID' \in [Node -> [Node -> Nat]]
          /\ appendInFlight' \in [Node -> [Node -> InFlight]]
      BY <1>2, <3>1, <3>2, <3>4, <3>5, <3>6, <3>7, SendAppendEntriesType, Zenon DEF TypeInv
    <3>9. NextIndexPositive'
      BY <1>2, <3>1, <3>5, Zenon DEF TypeInv, TypeOK, NextIndexPositive
    <3>10. NoIndex \in [Node -> Nat]
      BY Zenon DEF NoIndex
    <3>11. TypeOK'
      BY <1>2, <2>2, <2>3, <3>1, <3>4, <3>5, <3>8, <3>10, Zenon
         DEF TypeInv, TypeOK, InFlight, Role, readIDVars
    <3>12. QED
      BY <3>9, <3>11, Zenon DEF TypeInv
  <2>6. QED
    BY <2>4, <2>5, Zenon
<1>5. QED
  BY <1>3, <1>4, Zenon

\* A Leader that sends: the part common to a proposal, a heartbeat, a read.
LEMMA LeaderSendsType ==
    ASSUME TypeInv, NEW n \in Node, NEW inFlight \in [Node -> InFlight],
           NEW l \in Seq(Entry), role[n] = "Leader", NEW readFor \in [Node -> Nat],
           SendAppendEntries(n, Peers(n), inFlight, l, nextIndex[n], commitIndex[n], readFor)
    PROVE  /\ msgs' \subseteq Message
           /\ nextRequestID' \in [Node -> [Node -> Nat]]
           /\ appendInFlight' \in [Node -> [Node -> InFlight]]
<1>1. nextIndex[n] \in [Node -> Nat] /\ \A p \in Node : nextIndex[n][p] # 0
  BY Zenon DEF TypeInv, TypeOK, NextIndexPositive
<1>2. commitIndex[n] \in Nat /\ Peers(n) \in SUBSET Node
  BY Zenon DEF TypeInv, TypeOK, Peers
<1>3. QED
  BY <1>1, <1>2, SendAppendEntriesType, Zenon DEF TypeInv

\* proposeSession, proposeSet, proposeDelete.
LEMMA ProposeType ==
    ASSUME TypeInv, NEW n \in Node, NEW c \in Command, Propose(n, c), delivered' \subseteq msgs'
    PROVE  TypeInv'
<1> DEFINE l == Append(log[n], [term |-> term[n], cmd |-> c])
<1>1. log[n] \in Seq(Entry) /\ term[n] \in Nat /\ commitIndex[n] \in Nat
      /\ commitIndex[n] <= Len(log[n])
  BY Zenon DEF TypeInv, TypeOK
<1>2. [term |-> term[n], cmd |-> c] \in Entry
  BY <1>1, Zenon DEF Entry
<1>3. l \in Seq(Entry) /\ commitIndex[n] <= Len(l)
  BY <1>1, <1>2
<1>4. /\ role[n] = "Leader"
      /\ log' = [log EXCEPT ![n] = l]
      /\ SendAppendEntries(n, Peers(n), appendInFlight[n], l, nextIndex[n], commitIndex[n], PendingReads(n))
      /\ UNCHANGED <<electionVars, electionTimer, commitIndex, activePeers, matchIndex,
                     nextIndex, readVars, readIDVars, restarts, heartbeats>>
  BY Zenon DEF Propose
<1>5. appendInFlight[n] \in [Node -> InFlight]
  BY Zenon DEF TypeInv, TypeOK, InFlight
<1> HIDE DEF l
<1>6. /\ msgs' \subseteq Message
      /\ nextRequestID' \in [Node -> [Node -> Nat]]
      /\ appendInFlight' \in [Node -> [Node -> InFlight]]
  BY <1>3, <1>4, <1>5, PendingReadsType, LeaderSendsType, Zenon
<1>7. QED
  BY <1>3, <1>4, <1>6, Zenon
     DEF TypeInv, TypeOK, NextIndexPositive, InFlight, electionVars, readVars, readIDVars

\* heartbeatRound.
LEMMA HeartbeatTimeoutType ==
    ASSUME TypeInv, NEW n \in Node, HeartbeatTimeout(n), delivered' \subseteq msgs'
    PROVE  TypeInv'
<1>1. log[n] \in Seq(Entry)
  BY Zenon DEF TypeInv, TypeOK
<1>2. [p \in Node |-> NotInFlight] \in [Node -> InFlight]
  BY Zenon DEF NotInFlight, InFlight
<1>3. /\ msgs' \subseteq Message
      /\ nextRequestID' \in [Node -> [Node -> Nat]]
      /\ appendInFlight' \in [Node -> [Node -> InFlight]]
  BY <1>1, <1>2, PendingReadsType, LeaderSendsType, Zenon DEF HeartbeatTimeout
<1>4. /\ heartbeats' \in Nat
      /\ UNCHANGED <<electionVars, electionTimer, logVars, activePeers, matchIndex,
                     nextIndex, readVars, readIDVars, restarts>>
  BY DEF HeartbeatTimeout, TypeInv, TypeOK
<1>5. NextIndexPositive'
  BY <1>4, Zenon DEF TypeInv, NextIndexPositive, electionVars
<1>6. TypeOK'
  BY <1>3, <1>4, ZenonT(60), Zenon DEF HeartbeatTimeout, TypeInv, TypeOK, InFlight,
              electionVars, logVars, readVars, readIDVars
<1>7. QED
  BY <1>5, <1>6, Zenon DEF TypeInv

\* confirmRead.
LEMMA ConfirmReadType ==
    ASSUME TypeInv, NEW n \in Node, ConfirmRead(n), delivered' \subseteq msgs'
    PROVE  TypeInv'
<1> DEFINE r == nextReadID[n] + 1
<1>1. nextReadID[n] \in Nat /\ nextReadID[n] < MaxReads
  BY Zenon DEF TypeInv, TypeOK, ConfirmRead
<1>2. r \in ReadID /\ r \in Nat
  BY <1>1, BoundAssumption DEF ReadID
<1>3. log[n] \in Seq(Entry) /\ appendInFlight[n] \in [Node -> InFlight]
  BY Zenon DEF TypeInv, TypeOK, InFlight
<1>4. /\ role[n] = "Leader"
      /\ nextReadID' = [nextReadID EXCEPT ![n] = r]
      /\ pendingReads' = [pendingReads EXCEPT ![n][r] = {n}]
      /\ readFloor' = [readFloor EXCEPT ![n][r] = Max({commitIndex[p] : p \in Node})]
      /\ SendAppendEntries(n, Peers(n), appendInFlight[n], log[n], nextIndex[n],
             commitIndex[n], [p \in Node |-> r])
      /\ UNCHANGED <<electionVars, electionTimer, logVars, activePeers, matchIndex,
                     nextIndex, readReady, restarts, heartbeats>>
  BY Zenon DEF ConfirmRead
<1>5. Max({commitIndex[p] : p \in Node}) \in Nat
  <2>1. commitIndex \in [Node -> Nat] /\ Node # {} /\ IsFiniteSet(Node)
    BY NodeAssumption, Zenon DEF TypeInv, TypeOK
  <2>2. QED
    BY <2>1, MaxOfFinite, Zenon
<1> HIDE DEF r
<1>6. [p \in Node |-> r] \in [Node -> Nat]
  BY <1>2, Zenon
<1>7. /\ msgs' \subseteq Message
      /\ nextRequestID' \in [Node -> [Node -> Nat]]
      /\ appendInFlight' \in [Node -> [Node -> InFlight]]
  BY <1>3, <1>4, <1>6, LeaderSendsType, Zenon
<1>8. /\ nextReadID' \in [Node -> Nat]
      /\ pendingReads' \in [Node -> [ReadID -> SUBSET Node]]
      /\ readFloor' \in [Node -> [ReadID -> Nat]]
  BY <1>2, <1>4, <1>5, ZenonT(30) DEF TypeInv, TypeOK
<1>9. QED
  BY <1>4, <1>7, <1>8, Zenon
     DEF TypeInv, TypeOK, NextIndexPositive, InFlight, electionVars, logVars

\* checkQuorum.
LEMMA CheckQuorumTimeoutType ==
    ASSUME TypeInv, NEW n \in Node, CheckQuorumTimeout(n), delivered' \subseteq msgs'
    PROVE  TypeInv'
<1>1. UNCHANGED <<logVars, nextRequestID, readIDVars, msgs, restarts, heartbeats>>
  BY Zenon DEF CheckQuorumTimeout
<1>2. CASE IsQuorum(activePeers[n] \cup {n})
  BY <1>1, <1>2, ZenonT(30) DEF CheckQuorumTimeout, TypeInv, TypeOK, NextIndexPositive,
                    electionVars, logVars, readVars, readIDVars
<1>3. CASE ~IsQuorum(activePeers[n] \cup {n})
  <2>1. /\ BecomeFollower(n, term[n], NoNode, votedFor[n])
        /\ electionTimer' = [electionTimer EXCEPT ![n] = TRUE]
    BY <1>3, Zenon DEF CheckQuorumTimeout
  <2>2. term[n] \in Nat /\ votedFor[n] \in Node \cup {NoNode}
    BY Zenon DEF TypeInv, TypeOK
  <2>3. NextIndexPositive'
    BY <2>1, <2>2, BecomeFollowerNext, Zenon
  <2>4. TypeOK'
    BY <1>1, <2>1, <2>2, BecomeFollowerType, Zenon
       DEF TypeInv, TypeOK, InFlight, logVars, readIDVars
  <2>5. QED
    BY <2>3, <2>4, Zenon DEF TypeInv
<1>4. QED
  BY <1>2, <1>3, Zenon

\* What a response teaches a Leader.
LEMMA LearnType ==
    ASSUME TypeOK, NEW n \in Node, NEW m \in AppendResponses
    PROVE  LearnMatch(n, m) \in Nat /\ LearnNext(n, m) \in Nat \ {0}
<1>1. m.from \in Node /\ m.matchIndex \in Nat /\ m.conflictTerm \in Nat /\ m.conflictIndex \in Nat
  BY Zenon DEF AppendResponses
<1>2. matchIndex[n] \in [Node -> Nat] /\ log[n] \in Seq(Entry)
  BY Zenon DEF TypeOK
<1>3. matchIndex[n][m.from] \in Nat
  BY <1>1, <1>2, Zenon
<1>4. LearnMatch(n, m) \in Nat
  <2>1. Max({matchIndex[n][m.from], m.matchIndex}) \in Nat
    BY <1>1, <1>3, MaxOfTwo, Zenon
  <2>2. QED
    BY <1>3, <2>1, Zenon DEF LearnMatch
<1>5. NextIndexFromConflict(log[n], m.conflictTerm, m.conflictIndex) \in Nat \ {0}
  BY <1>1, <1>2, EntryTerm, NextIndexFromConflictType, Zenon
<1>6. QED
  BY <1>4, <1>5 DEF LearnNext

\* The commit index advanceLeaderCommit moves to lies in the log.
LEMMA CommittableType ==
    ASSUME TypeOK, NEW n \in Node, NEW match, Committable(n, log[n], match) # {}
    PROVE  /\ Max(Committable(n, log[n], match)) \in Committable(n, log[n], match)
           /\ Max(Committable(n, log[n], match)) \in commitIndex[n] + 1 .. Len(log[n])
<1>1. commitIndex[n] \in Nat /\ Len(log[n]) \in Nat
  BY LastLogType, Zenon DEF TypeOK
<1>2. Committable(n, log[n], match) \subseteq commitIndex[n] + 1 .. Len(log[n])
  BY Zenon DEF Committable
<1>3. Committable(n, log[n], match) \in SUBSET Nat
      /\ \A i \in Committable(n, log[n], match) : i <= Len(log[n])
  BY <1>1, <1>2
<1>4. QED
  BY <1>1, <1>2, <1>3, MaxOfBounded, Zenon

\* handleAppendEntriesResponse.
LEMMA HandleAppendEntriesResponseType ==
    ASSUME TypeInv, NEW m \in msgs, HandleAppendEntriesResponse(m.to, m), delivered' \subseteq msgs'
    PROVE  TypeInv'
<1> DEFINE n == m.to
           candidates == Committable(n, log[n], matchIndex'[n])
           commit == IF candidates = {} THEN commitIndex[n] ELSE Max(candidates)
           freed == [appendInFlight[n] EXCEPT ![m.from] = NotInFlight]
<1>1. m \in AppendResponses
  BY MessageKinds, Zenon DEF TypeInv, TypeOK, HandleAppendEntriesResponse
<1>2. n \in Node /\ m.from \in Node /\ m.term \in Nat
  BY <1>1, Zenon DEF AppendResponses
<1>3. CASE AdoptHigherTerm(n, m.term)
  BY <1>2, <1>3, AdoptHigherTermType, Zenon
<1>4. CASE ~AdoptHigherTerm(n, m.term)
  <2>1. PICK targets \in {Peers(n), {m.from}, {}} :
           /\ role[n] = "Leader"
           /\ activePeers' = [activePeers EXCEPT ![n] = @ \cup {m.from}]
           /\ matchIndex' = [matchIndex EXCEPT ![n][m.from] = LearnMatch(n, m)]
           /\ nextIndex' = [nextIndex EXCEPT ![n][m.from] = LearnNext(n, m)]
           /\ commitIndex' = [commitIndex EXCEPT ![n] = commit]
           /\ readReady' = [readReady EXCEPT ![n] =
                  @ \/ \E i \in commitIndex[n] + 1 .. commit :
                          log[n][i] = [term |-> term[n], cmd |-> NoOp]]
           /\ SendAppendEntries(n, targets, freed, log[n], nextIndex'[n], commit, PendingReads(n))
           /\ pendingReads' = [pendingReads EXCEPT ![n] = [r \in ReadID |-> Acknowledge(n, m, r)]]
           /\ UNCHANGED <<electionVars, electionTimer, log, readIDVars, restarts, heartbeats>>
    BY <1>4, Zenon DEF HandleAppendEntriesResponse
  <2>2. TypeOK /\ log[n] \in Seq(Entry) /\ commitIndex[n] \in Nat /\ commitIndex[n] <= Len(log[n])
    BY <1>2, Zenon DEF TypeInv, TypeOK
  <2>3. commit \in Nat /\ commit <= Len(log[n])
    <3>1. CASE candidates = {}
      BY <2>2, <3>1, Zenon
    <3>2. CASE candidates # {}
      <4>1. commit = Max(candidates) /\ commit \in commitIndex[n] + 1 .. Len(log[n])
        BY <1>2, <2>2, <3>2, CommittableType, Zenon
      <4>2. Len(log[n]) \in Nat
        BY <1>2, <2>2, LastLogType, Zenon
      <4> HIDE DEF commit
      <4>3. QED
        BY <2>2, <4>1, <4>2
    <3>3. QED
      BY <3>1, <3>2, Zenon
  <2>4. freed \in [Node -> InFlight]
    BY <1>2, Zenon DEF TypeInv, TypeOK, InFlight, NotInFlight
  <2>5. LearnMatch(n, m) \in Nat /\ LearnNext(n, m) \in Nat \ {0}
    BY <1>1, <1>2, <2>2, LearnType, Zenon
  <2>6. matchIndex' \in [Node -> [Node -> Nat]] /\ nextIndex' \in [Node -> [Node -> Nat]]
    BY <1>2, <2>1, <2>5, Zenon DEF TypeInv, TypeOK
  <2>7. NextIndexPositive' /\ \A p \in Node : nextIndex'[n][p] # 0
    <3>1. role' = role
      BY <2>1, Zenon DEF electionVars
    <3>2. \A p \in Node : role[p] = "Leader" => \A q \in Node : nextIndex'[p][q] # 0
      BY <1>2, <2>1, <2>5, Zenon DEF TypeInv, TypeOK, NextIndexPositive
    <3>3. role[n] = "Leader"
      BY <2>1, Zenon
    <3>4. QED
      BY <1>2, <3>1, <3>2, <3>3, Zenon DEF NextIndexPositive
  <2>8. nextIndex'[n] \in [Node -> Nat] /\ targets \in SUBSET Node
    BY <1>2, <2>6, Zenon DEF Peers
  <2>9. PendingReads(n) \in [Node -> Nat]
    BY <1>2, PendingReadsType, Zenon
  <2>10. pendingReads' \in [Node -> [ReadID -> SUBSET Node]]
    <3>1. pendingReads \in [Node -> [ReadID -> SUBSET Node]]
      BY Zenon DEF TypeInv, TypeOK
    <3>2. \A r \in ReadID : pendingReads[n][r] \in SUBSET Node
      BY <1>2, <3>1, Zenon
    <3>3. \A r \in ReadID : Acknowledge(n, m, r) \in SUBSET Node
      BY <1>2, <3>2, Zenon DEF Acknowledge
    <3>4. pendingReads' = [pendingReads EXCEPT ![n] = [r \in ReadID |-> Acknowledge(n, m, r)]]
      BY <2>1, Zenon
    <3>5. QED
      BY <1>2, <3>1, <3>3, <3>4, Zenon
  <2>11. /\ activePeers' \in [Node -> SUBSET Node]
         /\ commitIndex' \in [Node -> Nat]
         /\ readReady' \in [Node -> BOOLEAN]
    <3> HIDE DEF commit
    <3>1. activePeers' \in [Node -> SUBSET Node]
      <4>1. activePeers' = [activePeers EXCEPT ![n] = @ \cup {m.from}]
        BY <2>1, Zenon
      <4>2. QED
        BY <1>2, <4>1, ZenonT(30) DEF TypeInv, TypeOK
    <3>2. commitIndex' \in [Node -> Nat]
      BY <1>2, <2>1, <2>3, Zenon DEF TypeInv, TypeOK
    <3>3. readReady' \in [Node -> BOOLEAN]
      BY <1>2, <2>1, Zenon DEF TypeInv, TypeOK
    <3>4. QED
      BY <3>1, <3>2, <3>3, Zenon
  <2> HIDE DEF n, commit, freed
  <2>12. \A p \in Node : commitIndex'[p] <= Len(log'[p])
    BY <1>2, <2>1, <2>3, Zenon DEF TypeInv, TypeOK
  <2>13. /\ msgs' \subseteq Message
         /\ nextRequestID' \in [Node -> [Node -> Nat]]
         /\ appendInFlight' \in [Node -> [Node -> InFlight]]
    BY <1>2, <2>1, <2>2, <2>3, <2>4, <2>7, <2>8, <2>9, SendAppendEntriesType, Zenon
  <2>14. UNCHANGED <<role, term, votedFor, leaderID, recentLeaderContact, votes, preVotes,
                     electionTimer, log, nextReadID, readFloor, restarts, heartbeats>>
    BY <2>1, Zenon DEF electionVars, readIDVars
  <2>15. QED
    BY <2>2, <2>6, <2>7, <2>10, <2>11, <2>12, <2>13, <2>14, Zenon DEF TypeInv, TypeOK, InFlight
<1>5. QED
  BY <1>3, <1>4, Zenon

\* A request of the current or a newer term.
LEMMA FollowSenderType ==
    ASSUME TypeInv, NEW n \in Node, NEW m \in AppendRequests, FollowSender(n, m)
    PROVE  /\ role' \in [Node -> Role]
           /\ term' \in [Node -> Nat]
           /\ votedFor' \in [Node -> Node \cup {NoNode}]
           /\ leaderID' \in [Node -> Node \cup {NoNode}]
           /\ recentLeaderContact' \in [Node -> BOOLEAN]
           /\ votes' \in [Node -> SUBSET Node]
           /\ preVotes' \in [Node -> SUBSET Node]
           /\ activePeers' \in [Node -> SUBSET Node]
           /\ matchIndex' \in [Node -> [Node -> Nat]]
           /\ nextIndex' \in [Node -> [Node -> Nat]]
           /\ appendInFlight' \in [Node -> [Node -> InFlight]]
           /\ readReady' \in [Node -> BOOLEAN]
           /\ pendingReads' \in [Node -> [ReadID -> SUBSET Node]]
           /\ electionTimer' \in [Node -> BOOLEAN]
           /\ NextIndexPositive'
<1>1. m.from \in Node /\ m.term \in Nat
  BY Zenon DEF AppendRequests
<1>2. electionTimer' \in [Node -> BOOLEAN]
  BY Zenon DEF FollowSender, TypeInv, TypeOK
<1>3. CASE m.term > term[n]
  <2>1. BecomeFollower(n, m.term, m.from, NoNode) /\ TypeOK
    BY <1>3, Zenon DEF FollowSender, TypeInv
  <2>2. NextIndexPositive'
    BY <1>1, <2>1, BecomeFollowerNext, Zenon
  <2>3. QED
    BY <1>1, <1>2, <2>1, <2>2, BecomeFollowerType, Zenon
<1>4. CASE ~(m.term > term[n])
  <2>1. /\ role' = [role EXCEPT ![n] = "Follower"]
        /\ leaderID' = [leaderID EXCEPT ![n] = m.from]
        /\ readReady' = [readReady EXCEPT ![n] = FALSE]
        /\ recentLeaderContact' = [recentLeaderContact EXCEPT ![n] = TRUE]
        /\ UNCHANGED <<term, votedFor, votes, preVotes, activePeers, matchIndex, nextIndex,
                       appendInFlight, pendingReads>>
    BY <1>4, Zenon DEF FollowSender, leaderVars
  <2>2. NextIndexPositive'
    BY <2>1, Zenon DEF TypeInv, TypeOK, NextIndexPositive
  <2>3. role' \in [Node -> Role] /\ leaderID' \in [Node -> Node \cup {NoNode}]
    BY <1>1, <2>1, Zenon DEF TypeInv, TypeOK, Role
  <2>4. readReady' \in [Node -> BOOLEAN] /\ recentLeaderContact' \in [Node -> BOOLEAN]
    BY <2>1, Zenon DEF TypeInv, TypeOK
  <2>5. QED
    BY <1>2, <2>1, <2>2, <2>3, <2>4, Zenon DEF TypeInv, TypeOK, InFlight
<1>5. QED
  BY <1>3, <1>4, Zenon

\* The response to an AppendEntries request.
LEMMA AppendResponseType ==
    ASSUME NEW n \in Node, NEW m \in AppendRequests, NEW t \in Nat, NEW success \in BOOLEAN,
           NEW match \in Nat, NEW hint \in [term : Nat, index : Nat]
    PROVE  AppendResponse(n, m, t, success, match, hint) \in AppendResponses
<1>1. m.from \in Node /\ m.requestID \in Nat /\ m.readID \in Nat
  BY Zenon DEF AppendRequests
<1>2. hint.term \in Nat /\ hint.index \in Nat
  OBVIOUS
<1>3. QED
  BY <1>1, <1>2, Zenon DEF AppendResponse, AppendResponses

\* A request that passes the consistency check: the log it leaves, however
\* much of it was written, still holds what is committed.
LEMMA ConsistentType ==
    ASSUME TypeOK, NEW n \in Node, NEW m \in AppendRequests, Consistent(n, m)
    PROVE  /\ log[n] \in Seq(Entry)
           /\ m.prevLogIndex \in 0..Len(log[n])
           /\ m.entries \in Seq(Entry)
           /\ commitIndex[n] \in 0..Len(log[n])
           /\ ~ContradictsCommitted(log[n], commitIndex[n], m.prevLogIndex, m.entries)
<1>1. log[n] \in Seq(Entry) /\ commitIndex[n] \in Nat /\ commitIndex[n] <= Len(log[n])
  BY Zenon DEF TypeOK
<1>2. m.prevLogIndex \in Nat /\ m.entries \in Seq(Entry)
  BY Zenon DEF AppendRequests
<1>3. Len(log[n]) \in Nat
  BY <1>1
<1>4. /\ Matches(log[n], m.prevLogIndex, m.prevLogTerm)
      /\ ~ContradictsCommitted(log[n], commitIndex[n], m.prevLogIndex, m.entries)
  BY Zenon DEF Consistent
<1>5. m.prevLogIndex <= Len(log[n])
  BY <1>2, <1>3, <1>4 DEF Matches
<1>6. m.prevLogIndex \in 0..Len(log[n]) /\ commitIndex[n] \in 0..Len(log[n])
  BY <1>1, <1>2, <1>3, <1>5
<1>7. QED
  BY <1>1, <1>2, <1>4, <1>6, Zenon

\* Whatever part of the new entries reached the disk, the log covers what was
\* committed.
LEMMA PartialLogsType ==
    ASSUME NEW E, \A e \in E : e.term \in Nat, NEW l \in Seq(E), NEW prev \in 0..Len(l),
           NEW entries \in Seq(E), NEW commit \in 0..Len(l),
           ~ContradictsCommitted(l, commit, prev, entries),
           NEW x \in PartialLogs(l, prev, entries)
    PROVE  x \in Seq(E) /\ commit <= Len(x)
<1> DEFINE new == NewOffsets(l, prev, entries)
           k == Min(new)
<1>1. CASE x = l
  BY <1>1
<1>2. CASE x # l
  <2>1. PICK j \in 0..Len(entries) : new # {} /\ x = SubSeq(l, 1, prev + k - 1) \o SubSeq(entries, k, j)
    BY <1>2, Zenon DEF PartialLogs
  <2>2. k \in 1..Len(entries) /\ prev + k - 1 <= Len(l)
    BY <2>1, FirstNewOffset, Zenon
  <2>3. prev + k > commit
    BY <2>1, <2>2, SMTT(30) DEF ContradictsCommitted
  <2> HIDE DEF k
  <2>4. /\ SubSeq(l, 1, prev + k - 1) \in Seq(E)
        /\ Len(SubSeq(l, 1, prev + k - 1)) = prev + k - 1
    <3>1. \A i \in 1..prev + k - 1 : l[i] \in E
      BY <2>2
    <3>2. QED
      BY <2>2, <3>1, PartOfLog
  <2>5. /\ SubSeq(entries, k, j) \in Seq(E)
        /\ Len(SubSeq(entries, k, j)) \in Nat
    <3>1. \A i \in k..j : entries[i] \in E
      BY <2>1, <2>2
    <3>2. SubSeq(entries, k, j) \in Seq(E)
      BY <2>1, <2>2, <3>1, PartOfLog
    <3>3. QED
      BY <3>2
  <2>6. QED
    BY <2>1, <2>2, <2>3, <2>4, <2>5, JoinedLogs, SMTT(30)
<1>3. QED
  BY <1>1, <1>2, Zenon

\* handleAppendEntries: the request is stale, refused or taken.
LEMMA HandleAppendEntriesType ==
    ASSUME TypeInv, NEW m \in msgs, HandleAppendEntries(m.to, m), delivered' \subseteq msgs'
    PROVE  TypeInv'
<1> DEFINE n == m.to
           probe == IF Matches(log[n], m.prevLogIndex, m.prevLogTerm)
                    THEN m.prevLogIndex + 1 ELSE m.prevLogIndex
           l == AppendNew(log[n], m.prevLogIndex, m.entries)
<1>1. m \in AppendRequests
  BY MessageKinds, Zenon DEF TypeInv, TypeOK, HandleAppendEntries
<1>2. n \in Node /\ m.from \in Node /\ m.term \in Nat /\ m.prevLogIndex \in Nat
      /\ m.leaderCommit \in Nat
  BY <1>1, Zenon DEF AppendRequests
<1>3. TypeOK /\ term[n] \in Nat /\ log[n] \in Seq(Entry) /\ Len(log[n]) \in Nat
  BY <1>2, LastLogType, Zenon DEF TypeInv, TypeOK
<1>4. UNCHANGED <<nextRequestID, readIDVars, restarts, heartbeats>>
  BY Zenon DEF HandleAppendEntries
<1>5. NoHint \in [term : Nat, index : Nat]
  BY Zenon DEF NoHint
<1>6. CASE m.term < term[n]
  <2>1. /\ Send({AppendResponse(n, m, term[n], FALSE, Len(log[n]), NoHint)})
        /\ UNCHANGED <<electionVars, electionTimer, logVars, leaderVars, readVars>>
    <3>1. ~(m.term >= term[n])
      BY <1>2, <1>3, <1>6
    <3> QED
      BY <3>1, ZenonT(60), Zenon DEF HandleAppendEntries
  <2>2. AppendResponse(n, m, term[n], FALSE, Len(log[n]), NoHint) \in AppendResponses
    BY <1>1, <1>2, <1>3, <1>5, AppendResponseType, Zenon
  <2>3. msgs' \subseteq Message
    BY <2>1, <2>2, Zenon DEF Send, TypeInv, TypeOK, Message
  <2>4. QED
    BY <1>4, <2>1, <2>3, Zenon DEF TypeInv, TypeOK, NextIndexPositive,
                            electionVars, logVars, leaderVars, readVars, readIDVars
<1>7. CASE ~(m.term < term[n]) /\ ~Consistent(n, m)
  <2>1. /\ FollowSender(n, m)
        /\ Send({AppendResponse(n, m, m.term, FALSE, Len(log[n]), ConflictHint(log[n], probe))})
        /\ UNCHANGED logVars
    BY <1>7, ZenonT(60), Zenon DEF HandleAppendEntries
  <2>2. probe \in Nat
    <3>1. m.prevLogIndex \in Nat /\ m.prevLogIndex + 1 \in Nat
      BY <1>2
    <3> QED
      BY <3>1, Zenon
  <2>3. ConflictHint(log[n], probe) \in [term : Nat, index : Nat]
    BY <1>3, <2>2, EntryTerm, ConflictHintType, Zenon
  <2>4. AppendResponse(n, m, m.term, FALSE, Len(log[n]), ConflictHint(log[n], probe)) \in AppendResponses
    BY <1>1, <1>2, <1>3, <2>3, AppendResponseType, Zenon
  <2>5. msgs' \subseteq Message
    BY <2>1, <2>4, Zenon DEF Send, TypeInv, TypeOK, Message
  <2> HIDE DEF n
  <2>6. QED
    BY <1>1, <1>2, <1>4, <2>1, <2>5, FollowSenderType, Zenon
       DEF TypeInv, TypeOK, InFlight, logVars, readIDVars
<1>8. CASE ~(m.term < term[n]) /\ Consistent(n, m)
  <2>1. /\ FollowSender(n, m)
        /\ log' = [log EXCEPT ![n] = l]
        /\ commitIndex' = [commitIndex EXCEPT ![n] = Max({@, FollowerCommit(m, l)})]
        /\ Send({AppendResponse(n, m, m.term, TRUE, Len(l), NoHint)})
    BY <1>8, ZenonT(60), Zenon DEF HandleAppendEntries
  <2>2. l \in Seq(Entry) /\ commitIndex[n] \in Nat /\ commitIndex[n] <= Len(l)
    <3>1. /\ m.prevLogIndex \in 0..Len(log[n]) /\ m.entries \in Seq(Entry)
          /\ commitIndex[n] \in 0..Len(log[n])
          /\ ~ContradictsCommitted(log[n], commitIndex[n], m.prevLogIndex, m.entries)
      BY <1>1, <1>2, <1>3, <1>8, ConsistentType, Zenon
    <3>2. l \in Seq(Entry) /\ commitIndex[n] <= Len(l)
      BY <1>3, <3>1, EntryTerm, AppendNewType, ZenonT(60), Zenon
    <3>3. commitIndex[n] \in Nat
      BY <1>3, <3>1
    <3> QED
      BY <3>2, <3>3, Zenon
  <2> HIDE DEF n, l
  <2>3. Len(l) \in Nat
    BY <2>2
  <2>4. FollowerCommit(m, l) \in Nat /\ FollowerCommit(m, l) <= Len(l)
    BY <1>2, <2>3, MinOfTwo, Zenon DEF FollowerCommit
  <2>5. Max({commitIndex[n], FollowerCommit(m, l)}) \in Nat
        /\ Max({commitIndex[n], FollowerCommit(m, l)}) <= Len(l)
    BY <2>2, <2>4, MaxOfTwo, Zenon
  <2>6. AppendResponse(n, m, m.term, TRUE, Len(l), NoHint) \in AppendResponses
    BY <1>1, <1>2, <1>5, <2>3, AppendResponseType, Zenon
  <2>7. msgs' \subseteq Message
    BY <2>1, <2>6, Zenon DEF Send, TypeInv, TypeOK, Message
  <2>8. /\ log' \in [Node -> Seq(Entry)]
        /\ commitIndex' \in [Node -> Nat]
        /\ \A p \in Node : commitIndex'[p] <= Len(log'[p])
    BY <1>2, <2>1, <2>2, <2>5, Zenon DEF TypeInv, TypeOK
  <2>9. QED
    BY <1>1, <1>2, <1>4, <2>1, <2>7, <2>8, FollowSenderType, Zenon
       DEF TypeInv, TypeOK, InFlight, readIDVars
<1>9. QED
  BY <1>6, <1>7, <1>8, Zenon

\* What a process loses at a crash.
LEMMA ForgetVolatileType ==
    ASSUME TypeInv, NEW n \in Node, ForgetVolatile(n)
    PROVE  /\ restarts' \in Nat
           /\ electionTimer' \in [Node -> BOOLEAN]
           /\ nextRequestID' \in [Node -> [Node -> Nat]]
           /\ nextReadID' \in [Node -> Nat]
           /\ UNCHANGED <<readFloor, msgs, heartbeats>>
<1>1. NoIndex \in [Node -> Nat]
  BY Zenon DEF NoIndex
<1>2. /\ electionTimer \in [Node -> BOOLEAN]
      /\ nextRequestID \in [Node -> [Node -> Nat]]
      /\ nextReadID \in [Node -> Nat]
      /\ restarts \in Nat
  BY Zenon DEF TypeInv, TypeOK
<1>3. restarts' \in Nat /\ UNCHANGED <<readFloor, msgs, heartbeats>>
  BY <1>2 DEF ForgetVolatile
<1>4. /\ electionTimer' = [electionTimer EXCEPT ![n] = TRUE]
      /\ nextRequestID' = [nextRequestID EXCEPT ![n] = NoIndex]
      /\ nextReadID' = [nextReadID EXCEPT ![n] = 0]
  BY Zenon DEF ForgetVolatile
<1>5. QED
  BY <1>1, <1>2, <1>3, <1>4, Zenon

\* A restart between two steps.
LEMMA RestartType ==
    ASSUME TypeInv, NEW n \in Node, Restart(n), delivered' \subseteq msgs'
    PROVE  TypeInv'
<1>1. term[n] \in Nat /\ votedFor[n] \in Node \cup {NoNode} /\ TypeOK
  BY Zenon DEF TypeInv, TypeOK
<1>2. /\ ForgetVolatile(n)
      /\ BecomeFollower(n, term[n], NoNode, votedFor[n])
      /\ UNCHANGED <<log, commitIndex>>
  BY Zenon DEF Restart, logVars
<1>3. NextIndexPositive'
  BY <1>1, <1>2, BecomeFollowerNext, Zenon
<1>4. TypeOK'
  BY <1>1, <1>2, BecomeFollowerType, ForgetVolatileType, Zenon DEF TypeOK, InFlight
<1>5. QED
  BY <1>3, <1>4, Zenon DEF TypeInv

\* A crash in the middle of handleAppendEntries.
LEMMA CrashDuringAppendType ==
    ASSUME TypeInv, NEW m \in msgs, CrashDuringAppend(m.to, m), delivered' \subseteq msgs'
    PROVE  TypeInv'
<1> DEFINE n == m.to
<1>1. m \in AppendRequests
  BY MessageKinds, Zenon DEF TypeInv, TypeOK, CrashDuringAppend
<1>2. n \in Node /\ m.term \in Nat
  BY <1>1, Zenon DEF AppendRequests
<1>3. VoteAt(n, m.term) \in Node \cup {NoNode} /\ TypeOK
  BY <1>2, Zenon DEF TypeInv, TypeOK, VoteAt
<1>4. /\ Consistent(n, m)
      /\ ForgetVolatile(n)
      /\ BecomeFollower(n, m.term, NoNode, VoteAt(n, m.term))
      /\ UNCHANGED commitIndex
  BY Zenon DEF CrashDuringAppend
<1>5. PICK l \in PartialLogs(log[n], m.prevLogIndex, m.entries) : log' = [log EXCEPT ![n] = l]
  BY Zenon DEF CrashDuringAppend
<1> HIDE DEF n
<1>6. l \in Seq(Entry) /\ commitIndex[n] <= Len(l)
  BY <1>1, <1>2, <1>3, <1>4, EntryTerm, ConsistentType, PartialLogsType, Zenon
<1>7. /\ log' \in [Node -> Seq(Entry)]
      /\ \A p \in Node : commitIndex'[p] <= Len(log'[p])
  BY <1>2, <1>4, <1>5, <1>6, Zenon DEF TypeInv, TypeOK
<1>8. NextIndexPositive'
  BY <1>2, <1>3, <1>4, BecomeFollowerNext, Zenon
<1>9. TypeOK'
  <2>1. commitIndex' \in [Node -> Nat] /\ readFloor' \in [Node -> [ReadID -> Nat]]
        /\ msgs' \subseteq Message /\ heartbeats' \in Nat
    BY <1>2, <1>3, <1>4, ForgetVolatileType, Zenon DEF TypeOK
  <2>2. /\ restarts' \in Nat
        /\ electionTimer' \in [Node -> BOOLEAN]
        /\ nextRequestID' \in [Node -> [Node -> Nat]]
        /\ nextReadID' \in [Node -> Nat]
    BY <1>2, <1>4, ForgetVolatileType, Zenon
  <2>3. QED
    BY <1>2, <1>3, <1>4, <1>7, <2>1, <2>2, BecomeFollowerType, Zenon DEF TypeOK, InFlight
<1>10. QED
  BY <1>8, <1>9, Zenon DEF TypeInv

\* Every step keeps TypeInv.
LEMMA NextKeepsTypeInv ==
    ASSUME TypeInv, [Next]_vars
    PROVE  TypeInv'
<1>1. ASSUME NEW n \in Node, LocalEvent(n), UNCHANGED delivered
      PROVE  TypeInv'
  <2>1. delivered' \subseteq msgs'
    BY <1>1, MessagesStay, Zenon DEF TypeInv, TypeOK
  <2>2. CASE StartPreVote(n)
    BY <2>1, <2>2, StartPreVoteType, Zenon
  <2>3. CASE ElectionTimeoutAtLeader(n)
    BY <2>1, <2>3, ElectionTimeoutAtLeaderType, Zenon
  <2>4. CASE HeartbeatTimeout(n)
    BY <2>1, <2>4, HeartbeatTimeoutType, Zenon
  <2>5. CASE CheckQuorumTimeout(n)
    BY <2>1, <2>5, CheckQuorumTimeoutType, Zenon
  <2>6. ASSUME NEW c \in Command, Propose(n, c) PROVE TypeInv'
    BY <2>1, <2>6, ProposeType, Zenon
  <2>7. CASE ConfirmRead(n)
    BY <2>1, <2>7, ConfirmReadType, Zenon
  <2>8. CASE Restart(n)
    BY <2>1, <2>8, RestartType, Zenon
  <2>9. QED
    BY <1>1, <2>2, <2>3, <2>4, <2>5, <2>6, <2>7, <2>8, Zenon DEF LocalEvent
<1>2. ASSUME NEW m \in msgs, Deliver(m), Receive(m.to, m) \/ CrashDuringAppend(m.to, m)
      PROVE  TypeInv'
  <2>1. msgs \subseteq msgs'
    BY <1>2, MessagesStay, Zenon
  <2>2. delivered' \subseteq msgs'
    BY <1>2, <2>1, Zenon DEF Deliver, TypeInv, TypeOK
  <2>3. CASE HandlePreVoteRequest(m.to, m)
    BY <2>2, <2>3, HandlePreVoteRequestType, Zenon
  <2>4. CASE HandlePreVoteResponse(m.to, m)
    BY <2>2, <2>4, HandlePreVoteResponseType, Zenon
  <2>5. CASE HandleVoteRequest(m.to, m)
    BY <2>2, <2>5, HandleVoteRequestType, Zenon
  <2>6. CASE HandleVoteResponse(m.to, m)
    BY <2>2, <2>6, HandleVoteResponseType, Zenon
  <2>7. CASE HandleAppendEntries(m.to, m)
    BY <2>2, <2>7, HandleAppendEntriesType, Zenon
  <2>8. CASE HandleAppendEntriesResponse(m.to, m)
    BY <2>2, <2>8, HandleAppendEntriesResponseType, Zenon
  <2>9. CASE CrashDuringAppend(m.to, m)
    BY <2>2, <2>9, CrashDuringAppendType, Zenon
  <2>10. QED
    BY <1>2, <2>3, <2>4, <2>5, <2>6, <2>7, <2>8, <2>9, Zenon DEF Receive
<1>3. CASE UNCHANGED vars
  BY <1>3, Zenon DEF TypeInv, TypeOK, NextIndexPositive, vars, electionVars, logVars, leaderVars,
              readVars, readIDVars
<1>4. QED
  BY <1>1, <1>2, <1>3, Zenon DEF Next

\* A Cluster that starts from empty disks has TypeInv.
LEMMA InitHasTypeInv == Init => TypeInv
<1> SUFFICES ASSUME Init PROVE TypeInv
  OBVIOUS
<1>1. NoIndex \in [Node -> Nat] /\ NoReads \in [ReadID -> SUBSET Node]
  BY Zenon DEF NoIndex, NoReads
<1>2. [p \in Node |-> NotInFlight] \in [Node -> [requestID : Nat, leaderCommit : Nat]]
  BY Zenon DEF NotInFlight
<1>3. <<>> \in Seq(Entry) /\ Len(<<>>) = 0
  OBVIOUS
<1>4. TypeOK
  BY <1>1, <1>2, <1>3, SMTT(30) DEF Init, TypeOK, Role
<1>5. NextIndexPositive
  BY Zenon DEF Init, NextIndexPositive
<1>6. QED
  BY <1>4, <1>5, Zenon DEF TypeInv

\* Every variable of the Cluster has its type in every reachable state, and no
\* Node ever has a commit index beyond its log: applyThrough (raft.go:1421)
\* never indexes past the end, whatever a Leader's LeaderCommit said, whatever
\* was truncated, and wherever a crash cut an append short.
THEOREM TypeCorrect == Spec => []TypeOK
<1>1. Init => TypeInv
  BY InitHasTypeInv, Zenon
<1>2. TypeInv /\ [Next]_vars => TypeInv'
  BY NextKeepsTypeInv, Zenon
<1>3. TypeInv => TypeOK
  BY Zenon DEF TypeInv
<1>4. QED
  BY <1>1, <1>2, <1>3, PTL DEF Spec

-----------------------------------------------------------------------------
(* The steps of ReplicatedLog. *)

\* What the state says of the committed sequence.
CommittedKnown ==
    /\ \E p \in Node : Foremost(p)
    /\ \A p \in Node : Foremost(p) => Committed = SubSeq(log[p], 1, commitIndex[p])

ServiceInv == TypeInv /\ CommitsAgree /\ CommittedKnown /\ LeadersHoldLast /\ LeaderCompleteness

\* The term n leads, or 0.
Leading == [n \in Node |-> IF role[n] = "Leader" THEN term[n] ELSE 0]

\* A prefix that two logs share.
LEMMA SharedPrefix ==
    ASSUME NEW x \in Seq(Entry), NEW y \in Seq(Entry), NEW k \in Nat, AgreeUpTo(k, x, y)
    PROVE  /\ SubSeq(x, 1, k) \in Seq(Entry) /\ Len(SubSeq(x, 1, k)) = k
           /\ SubSeq(x, 1, k) = SubSeq(y, 1, k)
           /\ Service!IsPrefix(SubSeq(x, 1, k), y)
<1>1. k \in 0 .. Len(x) /\ k \in 0 .. Len(y)
  BY DEF AgreeUpTo
<1>2. /\ SubSeq(x, 1, k) = [i \in 1 .. k |-> x[i]] /\ SubSeq(y, 1, k) = [i \in 1 .. k |-> y[i]]
      /\ SubSeq(x, 1, k) \in Seq(Entry) /\ Len(SubSeq(x, 1, k)) = k
  BY <1>1
<1>3. SubSeq(x, 1, k) = SubSeq(y, 1, k)
  BY <1>2, Zenon DEF AgreeUpTo
<1>4. Service!IsPrefix(SubSeq(x, 1, k), y)
  BY <1>1, <1>2, <1>3 DEF Service!IsPrefix
<1>5. QED
  BY <1>2, <1>3, <1>4, Zenon

\* A shorter prefix of a shared one.
LEMMA SharedPrefixes ==
    ASSUME NEW x \in Seq(Entry), NEW y \in Seq(Entry), NEW k \in Nat, NEW j \in Nat,
           AgreeUpTo(k, x, y), k <= j, j <= Len(y)
    PROVE  Service!IsPrefix(SubSeq(x, 1, k), SubSeq(y, 1, j))
<1> DEFINE z == SubSeq(y, 1, j)
<1>1. z \in Seq(Entry) /\ Len(z) = j /\ \A i \in 1 .. j : z[i] = y[i]
  OBVIOUS
<1> HIDE DEF z
<1>2. AgreeUpTo(k, x, z)
  BY <1>1 DEF AgreeUpTo
<1>3. QED
  BY <1>1, <1>2, SharedPrefix, Zenon DEF z

\* The longest committed prefix does not depend on the Node it is read from.
LEMMA AgreementGivesCommitted ==
    ASSUME TypeInv, CommitsAgree, NEW p \in Node, Foremost(p)
    PROVE  CommittedKnown
<1> DEFINE f == CHOOSE n \in Node : \A q \in Node : commitIndex[q] <= commitIndex[n]
<1>1. f \in Node /\ Foremost(f)
  BY Zenon DEF Foremost
<1>2. Committed = SubSeq(log[f], 1, commitIndex[f])
  BY Zenon DEF Committed
<1> HIDE DEF f
<1>3. ASSUME NEW q \in Node, Foremost(q) PROVE Committed = SubSeq(log[q], 1, commitIndex[q])
  <2>1. /\ log[f] \in Seq(Entry) /\ log[q] \in Seq(Entry)
        /\ commitIndex[f] \in Nat /\ commitIndex[q] \in Nat
    BY <1>1, Zenon DEF TypeInv, TypeOK
  <2>2. commitIndex[f] = commitIndex[q]
    BY <1>1, <1>3, <2>1 DEF Foremost
  <2>3. AgreeUpTo(commitIndex[f], log[f], log[q])
    <3>1. commitIndex[f] <= commitIndex[q]
      BY <1>1, <1>3, Zenon DEF Foremost
    <3>2. QED
      BY <1>1, <3>1, Zenon DEF CommitsAgree
  <2>4. SubSeq(log[f], 1, commitIndex[f]) = SubSeq(log[q], 1, commitIndex[f])
    BY <2>1, <2>3, SharedPrefix, Zenon
  <2>5. QED
    BY <1>2, <2>2, <2>4, Zenon
<1>4. QED
  BY <1>3, Zenon DEF CommittedKnown

\* What is committed stays when the Node that acts commits no more than another has.
LEMMA CommittedStays ==
    ASSUME ServiceInv, ServiceInv', NEW n \in Node, NEW p \in Node, Serves(n), Foremost(p),
           commitIndex'[n] <= commitIndex[p]
    PROVE  Committed' = Committed
<1>1. /\ commitIndex \in [Node -> Nat] /\ commitIndex' \in [Node -> Nat]
      /\ log \in [Node -> Seq(Entry)] /\ log' \in [Node -> Seq(Entry)]
  BY Zenon DEF ServiceInv, TypeInv, TypeOK
<1>2. \A q \in Node \ {n} : commitIndex'[q] = commitIndex[q]
  BY Zenon DEF Serves, Others
<1>3. commitIndex'[p] = commitIndex[p]
  <2>1. commitIndex[p] <= commitIndex'[p]
    BY Zenon DEF Serves
  <2>2. QED
    BY <1>1, <1>2, <2>1
<1>4. Foremost(p)'
  BY <1>1, <1>2, <1>3, Zenon DEF Foremost
<1>5. /\ Committed = SubSeq(log[p], 1, commitIndex[p])
      /\ Committed' = SubSeq(log'[p], 1, commitIndex'[p])
  BY <1>4, Zenon DEF ServiceInv, CommittedKnown
<1>6. AgreeUpTo(commitIndex[p], log[p], log'[p])
  BY Zenon DEF Serves
<1>7. SubSeq(log[p], 1, commitIndex[p]) = SubSeq(log'[p], 1, commitIndex[p])
  BY <1>1, <1>6, SharedPrefix, SMTT(30)
<1>8. QED
  BY <1>3, <1>5, <1>7, Zenon

\* A step of n changes only what n has.
LEMMA OneActs ==
    ASSUME TypeInv, TypeInv', NEW n \in Node, Others(n)
    PROVE  /\ log' = [log EXCEPT ![n] = log'[n]]
           /\ commitIndex' = [commitIndex EXCEPT ![n] = commitIndex'[n]]
           /\ Leading' = [Leading EXCEPT ![n] = IF role'[n] = "Leader" THEN term'[n] ELSE 0]
<1>1. /\ log \in [Node -> Seq(Entry)] /\ log' \in [Node -> Seq(Entry)]
      /\ commitIndex \in [Node -> Nat] /\ commitIndex' \in [Node -> Nat]
  BY Zenon DEF TypeInv, TypeOK
<1>2. \A p \in Node \ {n} : /\ log'[p] = log[p] /\ commitIndex'[p] = commitIndex[p]
                            /\ role'[p] = role[p] /\ term'[p] = term[p]
  BY Zenon DEF Others
<1>3. log' = [log EXCEPT ![n] = log'[n]] /\ commitIndex' = [commitIndex EXCEPT ![n] = commitIndex'[n]]
  BY <1>1, <1>2, Zenon
<1>4. Leading' = [Leading EXCEPT ![n] = IF role'[n] = "Leader" THEN term'[n] ELSE 0]
  BY <1>2, Zenon DEF Leading
<1>5. QED
  BY <1>3, <1>4, Zenon

\* Whoever yields follows.
LEMMA YieldsFollows ==
    ASSUME ServiceInv, ServiceInv', NEW n \in Node, Serves(n), Yields(n)
    PROVE  Service!Follow(n)
<1>1. /\ TypeInv /\ TypeInv' /\ CommitsAgree' /\ Others(n)
      /\ commitIndex \in [Node -> Nat] /\ commitIndex' \in [Node -> Nat]
      /\ log \in [Node -> Seq(Entry)] /\ log' \in [Node -> Seq(Entry)]
  BY Zenon DEF ServiceInv, TypeInv, TypeOK, Serves
<1>2. \A q \in Node : Len(log[q]) \in Nat /\ Len(log'[q]) \in Nat
  BY <1>1, LogEntry, Zenon
<1>3. PICK p \in Node : Foremost(p)
  BY Zenon DEF ServiceInv, CommittedKnown
<1>4. commitIndex'[n] <= commitIndex[p]
  <2>1. PICK q \in Node : commitIndex'[n] <= commitIndex[q]
    BY Zenon DEF Yields
  <2>2. QED
    BY <1>1, <1>3, <2>1, SMTT(30) DEF Foremost
<1>5. Committed' = Committed
  BY <1>3, <1>4, CommittedStays, Zenon
<1>6. /\ commitIndex[n] <= commitIndex'[n] /\ AgreeUpTo(commitIndex[n], log[n], log'[n])
      /\ commitIndex[p] <= commitIndex'[p] /\ AgreeUpTo(commitIndex[p], log[p], log'[p])
  BY Zenon DEF Serves
<1>7. Service!IsPrefix(SubSeq(log[n], 1, commitIndex[n]), log'[n])
  BY <1>1, <1>6, SharedPrefix, Zenon
<1>8. commitIndex'[n] \in commitIndex[n] .. Len(log'[n])
  <2>1. AgreeUpTo(commitIndex'[n], log'[n], log'[n])
    BY <1>1 DEF CommitsAgree
  <2>2. QED
    BY <1>1, <1>2, <1>6, <2>1, SMTT(30) DEF AgreeUpTo
<1>9. Service!IsPrefix(SubSeq(log'[n], 1, commitIndex'[n]), Committed)
  <2>1. commitIndex'[n] <= commitIndex'[p]
    BY <1>1, <1>4, <1>6
  <2>2. AgreeUpTo(commitIndex'[n], log'[n], log'[p])
    BY <1>1, <2>1, Zenon DEF CommitsAgree
  <2>3. AgreeUpTo(commitIndex'[n], log[p], log'[p])
    <3>1. commitIndex'[n] \in 0 .. commitIndex[p]
      BY <1>1, <1>4
    <3>2. QED
      BY <1>1, <1>2, <1>6, <3>1, AgreeLess, Zenon
  <2>4. AgreeUpTo(commitIndex'[n], log'[n], log[p])
    BY <2>2, <2>3, AgreeSym, AgreeTrans, Zenon
  <2>5. commitIndex[p] <= Len(log[p])
    BY <1>1, <1>2, <1>6, Zenon DEF AgreeUpTo
  <2>6. Committed = SubSeq(log[p], 1, commitIndex[p])
    BY <1>3, Zenon DEF ServiceInv, CommittedKnown
  <2>7. QED
    BY <1>1, <1>4, <2>4, <2>5, <2>6, SharedPrefixes, Zenon
<1>10. Leading[n] # 0 => commitIndex[n] + 1 .. commitIndex'[n] = {}
  <2>1. Leading[n] # 0 => role[n] = "Leader"
    BY Zenon DEF Leading
  <2>2. role[n] = "Leader" => commitIndex'[n] = commitIndex[n]
    BY Zenon DEF Yields, LogStays
  <2>3. QED
    BY <1>1, <2>1, <2>2
<1>11. /\ log' = [log EXCEPT ![n] = log'[n]] /\ commitIndex' = [commitIndex EXCEPT ![n] = commitIndex'[n]]
       /\ Leading' = [Leading EXCEPT ![n] = 0]
  BY <1>1, OneActs, Zenon DEF Yields
<1>12. QED
  BY <1>1, <1>5, <1>7, <1>8, <1>9, <1>10, <1>11, Zenon
     DEF Service!Follow, Service!AppliedBy, Leading

\* A Leader that appends extends its log and nothing else.
LEMMA AppendsExtends ==
    ASSUME ServiceInv, ServiceInv', NEW n \in Node, NEW e \in Entry, Serves(n),
           log'[n] = Append(log[n], e), commitIndex'[n] = commitIndex[n],
           role'[n] = "Leader", e.term = term'[n]
    PROVE  Service!Extend(n) /\ Service!Last(log'[n]) = e
<1>1. /\ TypeInv /\ TypeInv' /\ Others(n) /\ log[n] \in Seq(Entry)
      /\ commitIndex \in [Node -> Nat] /\ commitIndex' \in [Node -> Nat]
  BY Zenon DEF ServiceInv, TypeInv, TypeOK, Serves
<1>2. /\ log' = [log EXCEPT ![n] = log'[n]] /\ commitIndex' = [commitIndex EXCEPT ![n] = commitIndex'[n]]
      /\ Leading' = [Leading EXCEPT ![n] = term'[n]]
  BY <1>1, OneActs, Zenon
<1>3. Len(log'[n]) = Len(log[n]) + 1 /\ log'[n][Len(log[n]) + 1] = e
  BY <1>1, AppendAgrees
<1>4. Service!Last(log'[n]) = e
  BY <1>3, Zenon DEF Service!Last
<1>5. Committed' = Committed
  <2>1. PICK p \in Node : Foremost(p)
    BY Zenon DEF ServiceInv, CommittedKnown
  <2>2. commitIndex'[n] <= commitIndex[p]
    BY <2>1, Zenon DEF Foremost
  <2>3. QED
    BY <2>1, <2>2, CommittedStays, Zenon
<1>6. commitIndex' = commitIndex
  BY <1>1, <1>2, Zenon
<1>7. Leading'[n] = e.term
  BY Zenon DEF Leading
<1>8. log' = [log EXCEPT ![n] = Append(log[n], e)]
  BY <1>2, Zenon
<1>9. Service!Extend(n)
  BY <1>3, <1>4, <1>5, <1>6, <1>7, <1>8, Zenon DEF Service!Extend, Leading
<1>10. QED
  BY <1>4, <1>9, Zenon

\* Whoever wins leads.
LEMMA AscendsLeads ==
    ASSUME ServiceInv, ServiceInv', NEW n \in Node, Serves(n), Ascends(n)
    PROVE  Service!Lead(n)
<1> DEFINE e == [term |-> term[n], cmd |-> NoOp]
<1>1. /\ TypeInv /\ TypeInv' /\ Others(n) /\ term[n] \in Nat \ {0}
      /\ commitIndex \in [Node -> Nat] /\ commitIndex' \in [Node -> Nat]
      /\ log \in [Node -> Seq(Entry)] /\ log' \in [Node -> Seq(Entry)]
  BY Zenon DEF ServiceInv, TypeInv, TypeOK, Serves, Ascends
<1>2. /\ role[n] = "Candidate" /\ role'[n] = "Leader" /\ term'[n] = term[n]
      /\ log'[n] = Append(log[n], e) /\ commitIndex'[n] = commitIndex[n]
  BY Zenon DEF Ascends, Wins, Leads
<1>3. e \in Entry /\ e.term = term[n]
  BY <1>1, Zenon DEF Entry
<1> HIDE DEF e
<1>4. Service!Extend(n) /\ Service!Last(log'[n]) = e
  BY <1>2, <1>3, AppendsExtends, Zenon
<1>5. Leading[n] = 0 /\ Leading'[n] = term[n]
  BY <1>2, Zenon DEF Leading
<1>6. \A p \in Node : Leading[p] # term[n]
  BY <1>1, Zenon DEF Ascends, Leading
<1>7. Leading' = [Leading EXCEPT ![n] = term[n]]
  BY <1>1, <1>2, OneActs, Zenon
<1>8. \A p \in Node : \A i \in 1 .. Len(log[p]) : log[p][i] # e
  BY <1>3, Zenon DEF Ascends
<1>9. ASSUME term[n] > Service!CommittedTerm PROVE Service!IsPrefix(Committed, log[n])
  <2>1. PICK p \in Node : Foremost(p)
    BY Zenon DEF ServiceInv, CommittedKnown
  <2>2. PICK c \in Nat, x \in Seq(Entry) : c = commitIndex[p] /\ x = log[p]
    BY <1>1, Zenon
  <2>3. Committed = SubSeq(x, 1, c)
    BY <2>1, <2>2, Zenon DEF ServiceInv, CommittedKnown
  <2>4. Len(x) \in Nat /\ Len(log[n]) \in Nat /\ log[n] \in Seq(Entry)
    BY <1>1, LogEntry, Zenon
  <2>5. AgreeUpTo(c, x, x)
    BY <1>1, <2>2 DEF ServiceInv, CommitsAgree
  <2>6. c <= Len(x)
    BY <2>4, <2>5, Zenon DEF AgreeUpTo
  <2>7. AgreeUpTo(c, x, log[n])
    <3>1. CASE c = 0
      BY <2>4, <3>1 DEF AgreeUpTo
    <3>2. CASE p = n
      BY <2>2, <2>5, <3>2, Zenon
    <3>3. CASE c # 0 /\ p # n
      <4>1. c \in 1 .. Len(x)
        BY <2>6, <3>3
      <4>2. Len(Committed) = c /\ Committed[c] = x[c]
        BY <2>3, <2>4, <4>1
      <4>3. Committed # <<>>
        BY <3>3, <4>2
      <4>4. x[c].term < term[n]
        <5>1. Service!CommittedTerm = x[c].term
          BY <4>2, <4>3, Zenon DEF Service!CommittedTerm, Service!Last
        <5>2. x[c].term \in Nat
          BY <4>1, LogEntry, Zenon
        <5>3. QED
          BY <1>1, <1>9, <5>1, <5>2, Zenon
      <4>5. TermAt(x, c) = x[c].term /\ x[c].term \in Nat
        BY <4>1, LogEntry, Zenon DEF TermAt
      <4>6. commitIndex'[p] = c /\ log'[p] = x
        BY <1>1, <2>2, <3>3, Zenon DEF Others
      <4>7. Foremost(p)'
        <5>1. \A q \in Node : commitIndex'[q] = commitIndex[q]
          BY <1>1, <1>2, Zenon DEF Others
        <5>2. QED
          BY <2>1, <5>1, Zenon DEF Foremost
      <4>8. AgreeUpTo(c, log'[n], x)
        <5>1. TermAt(log'[p], commitIndex'[p]) <= term'[n]
          BY <1>1, <1>2, <4>4, <4>5, <4>6, SMTT(30)
        <5>2. QED
          BY <1>2, <4>6, <4>7, <5>1, Zenon DEF ServiceInv, LeadersHoldLast
      <4>9. /\ Len(log'[n]) = Len(log[n]) + 1 /\ log'[n][Len(log[n]) + 1] = e
            /\ AgreeUpTo(Len(log[n]), log[n], log'[n])
        BY <1>2, <1>3, <2>4, AppendAgrees
      <4>10. c <= Len(log[n])
        <5>1. c <= Len(log[n]) + 1 /\ log'[n][c] = x[c]
          BY <2>4, <4>1, <4>8, <4>9, SMTT(30) DEF AgreeUpTo
        <5>2. c # Len(log[n]) + 1
          BY <1>1, <1>3, <4>4, <4>5, <4>9, <5>1, SMTT(30)
        <5>3. QED
          BY <2>4, <5>1, <5>2
      <4>11. AgreeUpTo(c, log[n], log'[n])
        <5>1. c \in 0 .. Len(log[n]) /\ Len(log'[n]) \in Nat
          BY <2>4, <4>9, <4>10
        <5>2. QED
          BY <2>4, <4>9, <5>1, AgreeLess, Zenon
      <4>12. QED
        BY <4>8, <4>11, AgreeSym, AgreeTrans, Zenon
    <3>4. QED
      BY <3>1, <3>2, <3>3, Zenon
  <2>8. QED
    BY <2>3, <2>4, <2>7, SharedPrefix, Zenon
<1>10. Leading'[n] \notin {Leading[p] : p \in Node}
  BY <1>5, <1>6, Zenon
<1>11. QED
  BY <1>4, <1>5, <1>7, <1>8, <1>9, <1>10, Zenon DEF Service!Lead, Leading

\* A Leader that commits adds to what is committed, or confirms it.
LEMMA CommitsMore ==
    ASSUME ServiceInv, ServiceInv', NEW n \in Node, Serves(n),
           role[n] = "Leader", role'[n] = "Leader", term'[n] = term[n], term[n] # 0, log'[n] = log[n],
           commitIndex'[n] \in commitIndex[n] + 1 .. Len(log[n]),
           log[n][commitIndex'[n]].term = term[n]
    PROVE  Service!Commit(n)
<1>1. /\ TypeInv /\ TypeInv' /\ CommitsAgree' /\ Others(n) /\ term[n] \in Nat
      /\ commitIndex \in [Node -> Nat] /\ commitIndex' \in [Node -> Nat]
      /\ log \in [Node -> Seq(Entry)] /\ term \in [Node -> Nat]
  BY Zenon DEF ServiceInv, TypeInv, TypeOK, Serves
<1>2. /\ log' = [log EXCEPT ![n] = log'[n]] /\ commitIndex' = [commitIndex EXCEPT ![n] = commitIndex'[n]]
      /\ Leading' = [Leading EXCEPT ![n] = term'[n]]
  BY <1>1, OneActs, Zenon
<1>3. log' = log /\ Leading' = Leading /\ Leading[n] = term[n]
  <2>1. log' = log
    BY <1>1, <1>2, Zenon
  <2>2. Leading[n] = term[n] /\ DOMAIN Leading = Node
    BY Zenon DEF Leading
  <2>3. Leading' = Leading
    BY <1>2, <2>2, Zenon DEF Leading
  <2>4. QED
    BY <2>1, <2>2, <2>3, Zenon
<1> DEFINE c == commitIndex'[n]
<1>4. c \in Nat /\ Len(log[n]) \in Nat /\ c <= Len(log[n]) /\ log[n] \in Seq(Entry) /\ c > commitIndex[n]
  BY <1>1, LogEntry
<1>5. PICK p \in Node : Foremost(p)
  BY Zenon DEF ServiceInv, CommittedKnown
<1>6. /\ Committed = SubSeq(log[p], 1, commitIndex[p]) /\ commitIndex[p] \in Nat
      /\ log[p] \in Seq(Entry) /\ Len(log[p]) \in Nat
  BY <1>1, <1>5, LogEntry, Zenon DEF ServiceInv, CommittedKnown
<1>7. p # n => commitIndex'[p] = commitIndex[p]
  BY <1>1, Zenon DEF Others
<1>8. \/ Service!IsPrefix(SubSeq(log[n], 1, c), Committed) /\ Committed' = Committed
      \/ Service!IsPrefix(Committed, SubSeq(log[n], 1, c)) /\ Committed' = SubSeq(log[n], 1, c)
  <2>1. CASE c <= commitIndex[p]
    <3>1. Committed' = Committed
      BY <1>5, <2>1, CommittedStays, Zenon
    <3>2. p # n /\ commitIndex'[n] <= commitIndex'[p]
      BY <1>4, <1>6, <1>7, <2>1, SMTT(30)
    <3>3. AgreeUpTo(c, log[n], log[p])
      BY <1>1, <1>3, <3>2, Zenon DEF CommitsAgree
    <3>4. commitIndex[p] <= Len(log[p])
      <4>1. AgreeUpTo(commitIndex[p], log[p], log'[p])
        BY Zenon DEF Serves
      <4>2. QED
        BY <1>6, <4>1, Zenon DEF AgreeUpTo
    <3> HIDE DEF c
    <3>5. Service!IsPrefix(SubSeq(log[n], 1, c), Committed)
      BY <1>4, <1>6, <2>1, <3>3, <3>4, SharedPrefixes, Zenon
    <3>6. QED
      BY <3>1, <3>5, Zenon
  <2>2. CASE c > commitIndex[p]
    <3>1. \A q \in Node : commitIndex'[q] <= commitIndex'[n]
      <4>1. \A q \in Node \ {n} : commitIndex'[q] = commitIndex[q]
        BY <1>1, Zenon DEF Others
      <4>2. \A q \in Node : commitIndex[q] <= commitIndex[p]
        BY <1>5, Zenon DEF Foremost
      <4>3. ASSUME NEW q \in Node PROVE commitIndex'[q] <= commitIndex'[n]
        <5>1. commitIndex[q] <= commitIndex[p] /\ (q # n => commitIndex'[q] = commitIndex[q])
          BY <4>1, <4>2, Zenon
        <5>2. /\ commitIndex[q] \in Nat /\ commitIndex'[q] \in Nat
              /\ commitIndex[p] \in Nat /\ commitIndex'[n] \in Nat
          BY <1>1, Zenon
        <5>3. QED
          BY <2>2, <5>1, <5>2
      <4>4. QED
        BY <4>3, Zenon
    <3>2. Foremost(n)'
      BY <3>1, Zenon DEF Foremost
    <3>3. Committed' = SubSeq(log[n], 1, c)
      BY <1>3, <3>2, Zenon DEF ServiceInv, CommittedKnown
    <3>4. AgreeUpTo(commitIndex[p], log[p], log[n])
      <4>1. CASE p = n
        <5>1. commitIndex[n] <= commitIndex[n]
          BY <1>1
        <5>2. QED
          BY <4>1, <5>1, Zenon DEF ServiceInv, CommitsAgree
      <4>2. CASE p # n
        BY <1>1, <1>3, <1>7, <3>1, <4>2, ZenonT(30) DEF CommitsAgree
      <4>3. QED
        BY <4>1, <4>2, Zenon
    <3> HIDE DEF c
    <3>5. Service!IsPrefix(Committed, SubSeq(log[n], 1, c))
      BY <1>4, <1>6, <2>2, <3>4, SharedPrefixes
    <3>6. QED
      BY <3>3, <3>5, Zenon
  <2>3. QED
    BY <1>4, <1>6, <2>1, <2>2, SMTT(30)
<1>9. ASSUME NEW q \in Node, Leading[q] > Leading[n]
      PROVE  Service!IsPrefix(SubSeq(log[n], 1, c), log[q])
  <2>1. role[q] = "Leader" /\ term[q] > term[n]
    BY <1>1, <1>3, <1>9, SMTT(30) DEF Leading
  <2>2. q # n
    BY <1>1, <2>1
  <2>3. role'[q] = "Leader" /\ term'[q] >= term'[n] /\ log[q] \in Seq(Entry)
    BY <1>1, <2>1, <2>2, SMTT(30) DEF Others
  <2>4. AgreeUpTo(c, log'[q], log'[n])
    BY <2>3, Zenon DEF ServiceInv, LeaderCompleteness
  <2>5. AgreeUpTo(c, log[n], log[q])
    BY <1>3, <2>4, AgreeSym, Zenon
  <2> HIDE DEF c
  <2>6. QED
    BY <1>4, <2>3, <2>5, SharedPrefix, Zenon
<1>10. QED
  BY <1>2, <1>3, <1>8, <1>9, Zenon DEF Service!Commit, Leading

\* Every step of the Cluster is one of the abstract specification.
LEMMA ServesImplements ==
    ASSUME ServiceInv, ServiceInv', NEW n \in Node, Serves(n)
    PROVE  [Service!Next]_(Service!vars)
<1>1. CASE Yields(n)
  BY <1>1, YieldsFollows, Zenon DEF Service!Next
<1>2. CASE Ascends(n)
  BY <1>2, AscendsLeads, Zenon DEF Service!Next
<1>3. CASE Stays(n)
  <2>0. /\ role[n] = "Leader" /\ role'[n] = "Leader" /\ term'[n] = term[n] /\ term[n] # 0
    BY <1>3, Zenon DEF Stays
  <2>1. CASE LogStays(n)
    <3>1. /\ TypeInv /\ TypeInv' /\ Others(n)
          /\ commitIndex \in [Node -> Nat] /\ log \in [Node -> Seq(Entry)]
      BY Zenon DEF ServiceInv, TypeInv, TypeOK, Serves
    <3>2. /\ log' = [log EXCEPT ![n] = log'[n]] /\ commitIndex' = [commitIndex EXCEPT ![n] = commitIndex'[n]]
          /\ Leading' = [Leading EXCEPT ![n] = term'[n]]
      BY <2>0, <3>1, OneActs, Zenon
    <3>3. log' = log /\ commitIndex' = commitIndex
      BY <2>1, <3>1, <3>2, Zenon DEF LogStays
    <3>4. Leading' = Leading
      BY <2>0, <3>2, Zenon DEF Leading
    <3>5. Committed' = Committed
      BY <3>3, Zenon DEF Committed
    <3>6. QED
      BY <3>3, <3>4, <3>5, Zenon DEF Service!vars, Leading
  <2>2. CASE /\ \E e \in Entry : e.term = term[n] /\ log'[n] = Append(log[n], e)
             /\ commitIndex'[n] = commitIndex[n]
    <3>1. Service!Extend(n)
      BY <2>0, <2>2, AppendsExtends, Zenon
    <3>2. Leading[n] # 0
      BY <2>0, Zenon DEF Leading
    <3>3. Leading' = Leading
      <4>1. TypeInv /\ TypeInv' /\ Others(n)
        BY Zenon DEF ServiceInv, Serves
      <4>2. Leading' = [Leading EXCEPT ![n] = term'[n]]
        BY <2>0, <4>1, OneActs, Zenon
      <4>3. QED
        BY <2>0, <4>2, Zenon DEF Leading
    <3>4. Service!Propose(n)
      BY <3>1, <3>2, <3>3, Zenon DEF Service!Propose, Leading
    <3>5. QED
      BY <3>4, Zenon DEF Service!Next
  <2>3. CASE /\ log'[n] = log[n]
             /\ commitIndex'[n] \in commitIndex[n] + 1 .. Len(log[n])
             /\ log[n][commitIndex'[n]].term = term[n]
    BY <2>0, <2>3, CommitsMore, Zenon DEF Service!Next
  <2>4. QED
    BY <1>3, <2>1, <2>2, <2>3, Zenon DEF Stays
<1>4. QED
  BY <1>1, <1>2, <1>3, Zenon DEF Serves

LEMMA InitImplements == Init => Service!Init
<1> SUFFICES ASSUME Init PROVE Service!Init
  OBVIOUS
<1>1. /\ log = [n \in Node |-> <<>>] /\ commitIndex = [n \in Node |-> 0]
      /\ \A n \in Node : role[n] = "Follower"
  BY Zenon DEF Init
<1>2. <<>> \in Seq(Entry) /\ SubSeq(<<>>, 1, 0) = <<>> /\ Len(<<>>) = 0
  OBVIOUS
<1>3. Node # {}
  BY NodeAssumption, FS_EmptySet
<1>4. Committed = <<>>
  <2> DEFINE f == CHOOSE n \in Node : \A q \in Node : commitIndex[q] <= commitIndex[n]
  <2>1. f \in Node
    BY <1>1, <1>3
  <2>2. Committed = SubSeq(log[f], 1, commitIndex[f])
    BY Zenon DEF Committed
  <2> HIDE DEF f
  <2>3. QED
    BY <1>1, <1>2, <2>1, <2>2, Zenon
<1>5. Service!IsPrefix(<<>>, <<>>)
  BY <1>2 DEF Service!IsPrefix
<1>6. Leading = [n \in Node |-> 0]
  BY <1>1, Zenon DEF Leading
<1>7. Committed \in Seq(Entry) /\ log \in [Node -> Seq(Entry)]
  BY <1>1, <1>2, <1>4, Zenon
<1>8. commitIndex \in [Node -> Nat] /\ Leading \in [Node -> Nat]
  BY <1>1, <1>6, Zenon
<1>9. ASSUME NEW n \in Node
      PROVE  /\ commitIndex[n] <= Len(log[n])
             /\ Service!IsPrefix(SubSeq(log[n], 1, commitIndex[n]), Committed)
  <2>1. log[n] = <<>> /\ commitIndex[n] = 0
    BY <1>1, Zenon
  <2>2. SubSeq(log[n], 1, commitIndex[n]) = Committed
    BY <1>2, <1>4, <2>1, Zenon
  <2>3. commitIndex[n] <= Len(log[n])
    BY <1>2, <2>1
  <2>4. Service!IsPrefix(SubSeq(log[n], 1, commitIndex[n]), Committed)
    BY <1>4, <1>5, <2>2, Zenon
  <2>5. QED
    BY <2>3, <2>4, Zenon
<1>10. QED
  BY <1>7, <1>8, <1>9, Zenon DEF Service!Init, Service!AppliedBy, Leading

=============================================================================
