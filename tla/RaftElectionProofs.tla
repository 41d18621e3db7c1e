------------------------- MODULE RaftElectionProofs -------------------------
(***************************************************************************)
(* The votes of every Cluster, the shapes of its steps, and the history of *)
(* its Leaders: no step casts a second vote or elects without a quorum,    *)
(* every step has one of the shapes of RaftInvariants, and none that has   *)
(* one loses the history.                                                  *)
(***************************************************************************)
EXTENDS RaftLogProofs

(* Most steps cast no vote and elect nobody. *)

\* No vote is asked for or given.
NoVoteSent == \A m \in msgs' : m \in msgs \/ m.type \notin {"VoteRequest", "VoteResponse"}

\* A vote changes only with the term.
VotesFollowTerm ==
    \A v \in Node : \/ term'[v] > term[v]
                    \/ term'[v] = term[v] /\ votedFor'[v] = votedFor[v]

\* Who is Candidate or Leader was so before, in the same term.
NobodyRises ==
    \A n \in Node :
        /\ role'[n] = "Candidate" => role[n] = "Candidate" /\ term'[n] = term[n] /\ votes'[n] = votes[n]
        /\ role'[n] = "Leader" => role[n] = "Leader" /\ term'[n] = term[n]

\* Only Leaders send AppendEntries requests, of their term.
LeadersSend ==
    \A m \in msgs' : \/ m \in msgs
                     \/ m.type # "AppendEntries"
                     \/ m.from \in Node /\ role[m.from] = "Leader" /\ m.term = term[m.from]

Quiet == NoVoteSent /\ VotesFollowTerm /\ NobodyRises /\ LeadersSend

\* Without new votes, the votes are as before.
LEMMA VotesHeld ==
    ASSUME TypeOK, TypeOK', VotesKept, VotesOnce, VotesFollowTerm,
           \A v, c, t : Voted(msgs', v, c, t) => Voted(msgs, v, c, t)
    PROVE  VotesKept' /\ VotesOnce'
<1>1. ASSUME NEW v \in Node, NEW c \in Node, NEW t \in Nat, Voted(msgs', v, c, t)
      PROVE  term'[v] > t \/ (term'[v] = t /\ votedFor'[v] = c)
  <2>1. term[v] > t \/ (term[v] = t /\ votedFor[v] = c)
    BY <1>1, Zenon DEF VotesKept
  <2>2. term[v] \in Nat /\ term'[v] \in Nat
    BY Zenon DEF TypeOK
  <2>3. QED
    BY <2>1, <2>2 DEF VotesFollowTerm
<1>2. QED
  BY <1>1, Zenon DEF VotesKept, VotesOnce

\* A quiet step keeps the invariant.
LEMMA QuietStep ==
    ASSUME TypeOK, TypeOK', ElectionInv, msgs \subseteq msgs', Quiet
    PROVE  ElectionInv'
<1>1. VotesKept' /\ VotesOnce'
  BY VotesHeld, Zenon DEF Voted, Granted, Campaigned, Quiet, NoVoteSent, ElectionInv
<1>2. LeadersElected'
  BY VotesGrow, Zenon DEF ElectionInv, LeadersElected, Quiet, NobodyRises
<1>3. SendersElected'
  BY VotesGrow, Zenon DEF ElectionInv, LeadersElected, SendersElected, Quiet, LeadersSend
<1>4. QED
  BY <1>1, <1>2, <1>3, VotesGrow, Zenon DEF ElectionInv, VotesCounted, Quiet, NobodyRises

\* A step of n alone, back to Follower with its vote or in a later term.
LEMMA BecomeFollowerQuiet ==
    ASSUME TypeOK, NEW n \in Node, NEW t, NEW leader, NEW vote, BecomeFollower(n, t, leader, vote),
           t > term[n] \/ (t = term[n] /\ vote = votedFor[n])
    PROVE  VotesFollowTerm /\ NobodyRises
  BY Zenon DEF BecomeFollower, TypeOK, VotesFollowTerm, NobodyRises

\* sendAppendEntries sends requests of the term of the sender only.
LEMMA SendAppendEntriesQuiet ==
    ASSUME NEW n \in Node, NEW targets, NEW inFlight, NEW l, NEW next, NEW commit, NEW readFor,
           SendAppendEntries(n, targets, inFlight, l, next, commit, readFor)
    PROVE  /\ NoVoteSent
           /\ role[n] = "Leader" => LeadersSend
           /\ \A m \in msgs' : m \in msgs \/ m.type # "AppendEntries" \/ (m.from = n /\ m.term = term[n])
<1>1. QED
  BY DEF NoVoteSent, LeadersSend, SendAppendEntries, Send, AppendRequest

\* Sending nothing is quiet.
LEMMA SilenceQuiet ==
    ASSUME msgs' = msgs
    PROVE  NoVoteSent /\ LeadersSend
  BY Zenon DEF NoVoteSent, LeadersSend

\* The timers, proposals, reads and restarts of a Node.
LEMMA LocalEventQuiet ==
    ASSUME TypeInv, NEW n \in Node, LocalEvent(n)
    PROVE  Quiet
<1>1. TypeOK /\ term[n] \in Nat
  BY Zenon DEF TypeInv, TypeOK
<1>2. CASE StartPreVote(n)
  <2>1. NoVoteSent /\ LeadersSend
    BY <1>2 DEF StartPreVote, Send, NoVoteSent, LeadersSend
  <2>2. VotesFollowTerm /\ NobodyRises
    BY <1>1, <1>2, Zenon DEF StartPreVote, TypeOK, VotesFollowTerm, NobodyRises
  <2>3. QED
    BY <2>1, <2>2, Zenon DEF Quiet
<1>3. ASSUME NoVoteSent, LeadersSend, UNCHANGED electionVars
      PROVE  Quiet
  BY <1>3, Zenon DEF Quiet, VotesFollowTerm, NobodyRises, electionVars
<1>4. CASE ElectionTimeoutAtLeader(n)
  BY <1>3, <1>4, SilenceQuiet, Zenon DEF ElectionTimeoutAtLeader
<1>5. CASE HeartbeatTimeout(n)
  BY <1>3, <1>5, SendAppendEntriesQuiet, Zenon DEF HeartbeatTimeout
<1>6. CASE \E c \in Command : Propose(n, c)
  BY <1>3, <1>6, SendAppendEntriesQuiet, Zenon DEF Propose
<1>7. CASE ConfirmRead(n)
  BY <1>3, <1>7, SendAppendEntriesQuiet, Zenon DEF ConfirmRead
<1>8. ASSUME BecomeFollower(n, term[n], NoNode, votedFor[n]), UNCHANGED msgs
      PROVE  Quiet
  BY <1>1, <1>8, BecomeFollowerQuiet, SilenceQuiet, Zenon DEF Quiet
<1>9. CASE CheckQuorumTimeout(n)
  BY <1>3, <1>8, <1>9, SilenceQuiet, Zenon DEF CheckQuorumTimeout
<1>10. CASE Restart(n)
  BY <1>8, <1>10, Zenon DEF Restart, ForgetVolatile
<1>11. QED
  BY <1>2, <1>4, <1>5, <1>6, <1>7, <1>9, <1>10, Zenon DEF LocalEvent

\* A response of a later term.
LEMMA AdoptHigherTermQuiet ==
    ASSUME TypeInv, NEW n \in Node, NEW t \in Nat, AdoptHigherTerm(n, t)
    PROVE  Quiet
  BY BecomeFollowerQuiet, SilenceQuiet, Zenon DEF AdoptHigherTerm, Quiet, TypeInv

\* handlePreVoteRequest gives no vote.
LEMMA HandlePreVoteRequestQuiet ==
    ASSUME NEW n \in Node, NEW m, HandlePreVoteRequest(n, m)
    PROVE  Quiet
  BY DEF HandlePreVoteRequest, Send, Quiet, NoVoteSent, LeadersSend, VotesFollowTerm, NobodyRises,
         electionVars

\* handleAppendEntries: following a Leader gives no vote.
LEMMA HandleAppendEntriesQuiet ==
    ASSUME TypeInv, NEW m \in msgs, HandleAppendEntries(m.to, m)
    PROVE  Quiet
<1> DEFINE n == m.to
<1>1. n \in Node /\ m.term \in Nat /\ TypeOK /\ term[n] \in Nat
  BY MessageKinds, Zenon DEF TypeInv, TypeOK
<1>2. NoVoteSent /\ LeadersSend
  BY DEF HandleAppendEntries, Send, AppendResponse, NoVoteSent, LeadersSend
<1>3. CASE UNCHANGED electionVars
  BY <1>2, <1>3, Zenon DEF Quiet, VotesFollowTerm, NobodyRises, electionVars
<1>4. CASE FollowSender(n, m)
  <2>1. CASE m.term > term[n]
    BY <1>1, <1>2, <1>4, <2>1, BecomeFollowerQuiet, Zenon DEF FollowSender, Quiet
  <2>2. CASE ~(m.term > term[n])
    <3>1. role' = [role EXCEPT ![n] = "Follower"] /\ UNCHANGED <<term, votedFor, votes>>
      BY <1>4, <2>2, Zenon DEF FollowSender
    <3>2. VotesFollowTerm /\ NobodyRises
      BY <1>1, <3>1, Zenon DEF TypeOK, VotesFollowTerm, NobodyRises
    <3>3. QED
      BY <1>2, <3>2, Zenon DEF Quiet
  <2>3. QED
    BY <2>1, <2>2, Zenon
<1>5. QED
  BY <1>3, <1>4, Zenon DEF HandleAppendEntries

\* handleAppendEntriesResponse.
LEMMA HandleAppendEntriesResponseQuiet ==
    ASSUME TypeInv, NEW m \in msgs, HandleAppendEntriesResponse(m.to, m)
    PROVE  Quiet
<1> DEFINE n == m.to
<1>1. n \in Node /\ m.term \in Nat
  BY MessageKinds, Zenon DEF TypeInv, TypeOK
<1>2. CASE AdoptHigherTerm(n, m.term)
  BY <1>1, <1>2, AdoptHigherTermQuiet, Zenon
<1>3. CASE ~AdoptHigherTerm(n, m.term)
  <2>1. UNCHANGED electionVars /\ role[n] = "Leader"
    BY <1>3, Zenon DEF HandleAppendEntriesResponse
  <2>2. NoVoteSent /\ LeadersSend
    BY <1>1, <1>3, <2>1, SendAppendEntriesQuiet, SMTT(30) DEF HandleAppendEntriesResponse
  <2>3. QED
    BY <2>1, <2>2, Zenon DEF Quiet, VotesFollowTerm, NobodyRises, electionVars
<1>4. QED
  BY <1>2, <1>3, Zenon

\* A crash in the middle of an append keeps the vote of the current term.
LEMMA CrashDuringAppendQuiet ==
    ASSUME TypeInv, NEW m \in msgs, CrashDuringAppend(m.to, m)
    PROVE  Quiet
<1> DEFINE n == m.to
<1>1. n \in Node /\ m.term \in Nat /\ TypeOK /\ term[n] \in Nat
  BY MessageKinds, Zenon DEF TypeInv, TypeOK
<1>2. m.term >= term[n] /\ BecomeFollower(n, m.term, NoNode, VoteAt(n, m.term)) /\ msgs' = msgs
  BY Zenon DEF CrashDuringAppend, ForgetVolatile
<1>3. QED
  BY <1>1, <1>2, BecomeFollowerQuiet, SilenceQuiet DEF Quiet, VoteAt

-----------------------------------------------------------------------------
(* The steps that cast or count votes. *)

\* One new vote, of v for c in term t, which v was free to cast.
LEMMA VoteCast ==
    ASSUME TypeOK, TypeOK', VotesKept, VotesOnce,
           NEW v \in Node, NEW c \in Node, NEW t \in Nat,
           t > term[v] \/ (t = term[v] /\ votedFor[v] \in {NoNode, c}),
           term' = [term EXCEPT ![v] = t], votedFor' = [votedFor EXCEPT ![v] = c],
           \A w, d, u : Voted(msgs', w, d, u) => Voted(msgs, w, d, u) \/ (w = v /\ d = c /\ u = t)
    PROVE  VotesKept' /\ VotesOnce'
<1>1. term[v] \in Nat /\ NoNode \notin Node
  BY NodeAssumption, Zenon DEF TypeOK
<1>2. ASSUME NEW d \in Node, Voted(msgs, v, d, t) PROVE d = c
  BY <1>1, <1>2 DEF VotesKept
<1>3. ASSUME NEW w \in Node, NEW d1 \in Node, NEW d2 \in Node, NEW u \in Nat,
             Voted(msgs', w, d1, u), Voted(msgs', w, d2, u)
      PROVE  d1 = d2
  BY <1>2, <1>3 DEF VotesOnce
<1>4. ASSUME NEW w \in Node, NEW d \in Node, NEW u \in Nat, Voted(msgs', w, d, u)
      PROVE  term'[w] > u \/ (term'[w] = u /\ votedFor'[w] = d)
  <2>1. CASE w # v
    <3>1. term'[w] = term[w] /\ votedFor'[w] = votedFor[w]
      BY <2>1, Zenon DEF TypeOK
    <3>2. Voted(msgs, w, d, u)
      BY <1>4, <2>1, Zenon
    <3>3. QED
      BY <3>1, <3>2, Zenon DEF VotesKept
  <2>2. CASE w = v
    <3>1. term'[w] = t /\ votedFor'[w] = c
      BY <2>2, Zenon DEF TypeOK
    <3>2. CASE d = c /\ u = t
      BY <3>1, <3>2, Zenon
    <3>3. CASE ~(d = c /\ u = t)
      BY <1>1, <1>2, <1>4, <2>2, <3>1, <3>3 DEF VotesKept
    <3>4. QED
      BY <3>2, <3>3, Zenon
  <2>3. QED
    BY <2>1, <2>2, Zenon
<1>5. QED
  BY <1>3, <1>4, Zenon DEF VotesKept, VotesOnce

\* startElection: the Node votes for itself in a term it has never been in.
LEMMA StartElectionKeeps ==
    ASSUME TypeOK, TypeOK', ElectionInv, NEW n \in Node, StartElection(n)
    PROVE  ElectionInv'
<1> DEFINE t == term[n] + 1
           request(p) == [type |-> "VoteRequest", from |-> n, to |-> p, term |-> t,
                          lastLogIndex |-> Len(log[n]), lastLogTerm |-> LastLogTerm(log[n])]
<1>1. term[n] \in Nat /\ t \in Nat /\ t > term[n]
  <2>1. term[n] \in Nat
    BY Zenon DEF TypeOK
  <2>2. QED
    BY <2>1
<1>2. msgs' = msgs \cup {request(p) : p \in Peers(n)}
  BY Zenon DEF StartElection, Send
<1>3. \A m \in msgs' : m \in msgs \/ (m.type = "VoteRequest" /\ m.from = n /\ m.term = t)
  BY <1>2, SMTT(30)
<1>4. \E m \in msgs' : m.type = "VoteRequest" /\ m.from = n /\ m.term = t
  <2>1. PICK p \in Node : p # n
    BY NodeAssumption, FS_Singleton
  <2>2. request(p) \in msgs'
    BY <1>2, <2>1, Zenon DEF Peers
  <2>3. QED
    BY <2>2, Zenon
<1>5. /\ role' = [role EXCEPT ![n] = "Candidate"]
      /\ term' = [term EXCEPT ![n] = t]
      /\ votedFor' = [votedFor EXCEPT ![n] = n]
      /\ votes' = [votes EXCEPT ![n] = {n}]
  BY Zenon DEF StartElection
<1> HIDE DEF t, request
<1>6. \A w, d, u : Voted(msgs', w, d, u) => Voted(msgs, w, d, u) \/ (w = n /\ d = n /\ u = t)
  BY <1>3, Zenon DEF Voted, Granted, Campaigned
<1>7. VotesKept' /\ VotesOnce'
  BY <1>1, <1>5, <1>6, VoteCast, Zenon DEF ElectionInv
<1>8. msgs \subseteq msgs'
  BY <1>2, Zenon
<1>9. VotesCounted'
  <2>1. Voted(msgs', n, n, t)
    BY <1>4, Zenon DEF Voted, Campaigned
  <2>2. ASSUME NEW p \in Node, role'[p] = "Candidate", NEW v \in votes'[p]
        PROVE  Voted(msgs', v, p, term'[p])
    BY <1>5, <1>8, <2>1, <2>2, VotesGrow, Zenon DEF TypeOK, ElectionInv, VotesCounted
  <2>3. QED
    BY <2>2, Zenon DEF VotesCounted
<1>10. LeadersElected'
  BY <1>5, <1>8, VotesGrow, Zenon DEF TypeOK, ElectionInv, LeadersElected
<1>11. SendersElected'
  BY <1>3, <1>8, VotesGrow, Zenon DEF ElectionInv, SendersElected
<1>12. QED
  BY <1>7, <1>9, <1>10, <1>11, Zenon DEF ElectionInv

\* handlePreVoteResponse: an election starts, or nothing about votes changes.
LEMMA HandlePreVoteResponseKeeps ==
    ASSUME TypeInv, TypeInv', ElectionInv, NEW m \in msgs, HandlePreVoteResponse(m.to, m)
    PROVE  ElectionInv'
<1> DEFINE n == m.to
<1>1. m \in PreVoteResponses
  BY MessageKinds, Zenon DEF TypeInv, TypeOK, HandlePreVoteResponse
<1>2. n \in Node /\ m.currentTerm \in Nat /\ TypeOK /\ TypeOK'
  BY <1>1, Zenon DEF PreVoteResponses, TypeInv
<1>3. ASSUME Quiet, msgs \subseteq msgs' PROVE ElectionInv'
  BY <1>2, <1>3, QuietStep, Zenon
<1>4. msgs \subseteq msgs'
  BY MessagesStay, Zenon DEF Receive
<1>5. CASE AdoptHigherTerm(n, m.currentTerm)
  BY <1>2, <1>3, <1>4, <1>5, AdoptHigherTermQuiet, Zenon
<1>6. CASE StartElection(n)
  BY <1>2, <1>6, StartElectionKeeps, Zenon
<1>7. CASE UNCHANGED <<role, term, votedFor, leaderID, readReady, votes, electionTimer, msgs>>
  BY <1>3, <1>4, <1>7, SilenceQuiet, Zenon DEF Quiet, VotesFollowTerm, NobodyRises
<1>8. QED
  BY <1>5, <1>6, <1>7, Zenon DEF HandlePreVoteResponse

\* handleVoteRequest: a vote is given only if it is still free in that term.
LEMMA HandleVoteRequestKeeps ==
    ASSUME TypeInv, TypeInv', ElectionInv, NEW m \in msgs, HandleVoteRequest(m.to, m)
    PROVE  ElectionInv'
<1> DEFINE n == m.to
           grant == GrantsVote(n, m)
           vote == IF grant THEN m.from ELSE VoteAt(n, m.term)
           response == [type |-> "VoteResponse", from |-> n, to |-> m.from,
                        term |-> Max({term[n], m.term}), granted |-> grant]
<1>1. n \in Node /\ m.from \in Node /\ m.term \in Nat /\ TypeOK /\ TypeOK' /\ term[n] \in Nat
  BY MessageKinds, Zenon DEF TypeInv, TypeOK
<1>2. msgs' = msgs \cup {response}
  BY Zenon DEF HandleVoteRequest, Send
<1>3. LeadersSend
  BY <1>2 DEF LeadersSend
<1>4. NobodyRises
  <2>1. CASE m.term > term[n]
    <3>1. BecomeFollower(n, m.term, NoNode, vote)
      BY <2>1, Zenon DEF HandleVoteRequest
    <3>2. /\ role' = [role EXCEPT ![n] = "Follower"]
          /\ term' = [term EXCEPT ![n] = m.term]
          /\ votes' = [votes EXCEPT ![n] = {}]
      BY <3>1, Zenon DEF BecomeFollower
    <3>3. role \in [Node -> Role] /\ term \in [Node -> Nat] /\ votes \in [Node -> SUBSET Node]
      BY <1>1, Zenon DEF TypeOK
    <3>4. QED
      BY <3>2, <3>3, SMTT(30) DEF NobodyRises
  <2>2. CASE ~(m.term > term[n])
    BY <2>2, Zenon DEF HandleVoteRequest, NobodyRises
  <2>3. QED
    BY <2>1, <2>2, Zenon
<1>5. msgs \subseteq msgs'
  BY <1>2, Zenon
<1>6. VotesCounted' /\ LeadersElected' /\ SendersElected'
  <2>1. VotesCounted'
    BY <1>4, <1>5, VotesGrow, Zenon DEF ElectionInv, VotesCounted, NobodyRises
  <2>2. LeadersElected'
    BY <1>4, <1>5, VotesGrow, Zenon DEF ElectionInv, LeadersElected, NobodyRises
  <2>3. SendersElected'
    BY <1>3, <1>5, VotesGrow, Zenon DEF ElectionInv, LeadersElected, SendersElected, LeadersSend
  <2>4. QED
    BY <2>1, <2>2, <2>3, Zenon
<1>7. CASE ~grant
  <2>1. ASSUME NEW v, NEW c, NEW t, Voted(msgs', v, c, t) PROVE Voted(msgs, v, c, t)
    BY <1>2, <1>7, <2>1 DEF Voted, Granted, Campaigned
  <2>2. VotesFollowTerm
    <3>1. CASE m.term > term[n]
      <4>1. BecomeFollower(n, m.term, NoNode, vote)
        BY <3>1, Zenon DEF HandleVoteRequest
      <4>2. QED
        BY <1>1, <3>1, <4>1, BecomeFollowerQuiet, Zenon
    <3>2. CASE ~(m.term > term[n])
      <4>1. vote = votedFor[n] /\ votedFor' = [votedFor EXCEPT ![n] = vote] /\ term' = term
        BY <1>1, <1>7, <3>2, Zenon DEF HandleVoteRequest, VoteAt
      <4>2. QED
        BY <1>1, <4>1, Zenon DEF TypeOK, VotesFollowTerm
    <3>3. QED
      BY <3>1, <3>2, Zenon
  <2>3. VotesKept' /\ VotesOnce'
    BY <1>1, <2>1, <2>2, VotesHeld, Zenon DEF ElectionInv
  <2>4. QED
    BY <1>6, <2>3, Zenon DEF ElectionInv
<1>8. CASE grant
  <2>1. m.term >= term[n] /\ VoteAt(n, m.term) \in {NoNode, m.from}
    BY <1>8, Zenon DEF GrantsVote, CanVote
  <2>2. m.term > term[n] \/ (m.term = term[n] /\ votedFor[n] \in {NoNode, m.from})
    BY <1>1, <2>1 DEF VoteAt
  <2>3. Max({term[n], m.term}) = m.term
    BY <1>1, <2>1, MaxOfTwo
  <2>4. term' = [term EXCEPT ![n] = m.term] /\ votedFor' = [votedFor EXCEPT ![n] = m.from]
    <3>1. CASE m.term > term[n]
      BY <1>8, <3>1, Zenon DEF HandleVoteRequest, BecomeFollower
    <3>2. CASE ~(m.term > term[n])
      <4>1. votedFor' = [votedFor EXCEPT ![n] = m.from] /\ term' = term
        BY <1>8, <3>2, Zenon DEF HandleVoteRequest
      <4>2. m.term = term[n]
        BY <1>1, <2>1, <3>2
      <4>3. term \in [Node -> Nat]
        BY <1>1, Zenon DEF TypeOK
      <4>4. QED
        BY <1>1, <4>1, <4>2, <4>3, SMTT(30)
    <3>3. QED
      BY <3>1, <3>2, Zenon
  <2>5. \A w, d, u : Voted(msgs', w, d, u) => Voted(msgs, w, d, u) \/ (w = n /\ d = m.from /\ u = m.term)
    BY <1>2, <2>3 DEF Voted, Granted, Campaigned
  <2> HIDE DEF n
  <2>6. VotesKept' /\ VotesOnce'
    BY <1>1, <2>2, <2>4, <2>5, VoteCast, Zenon DEF ElectionInv
  <2>7. QED
    BY <1>6, <2>6, Zenon DEF ElectionInv
<1>9. QED
  BY <1>7, <1>8, Zenon

\* handleVoteResponse: a quorum of counted votes makes the Leader.
LEMMA HandleVoteResponseKeeps ==
    ASSUME TypeInv, TypeInv', ElectionInv, NEW m \in msgs, HandleVoteResponse(m.to, m)
    PROVE  ElectionInv'
<1> DEFINE n == m.to
<1>1. n \in Node /\ m.from \in Node /\ m.term \in Nat /\ TypeOK /\ TypeOK'
  BY MessageKinds, Zenon DEF TypeInv, TypeOK
<1>2. msgs \subseteq msgs'
  BY MessagesStay, Zenon DEF Receive
<1>3. CASE AdoptHigherTerm(n, m.term)
  BY <1>1, <1>2, <1>3, AdoptHigherTermQuiet, QuietStep, Zenon
<1>4. CASE ~AdoptHigherTerm(n, m.term)
  <2>1. /\ m.type = "VoteResponse" /\ m.granted
        /\ role[n] = "Candidate" /\ m.term = term[n]
        /\ votes' = [votes EXCEPT ![n] = @ \cup {m.from}]
        /\ UNCHANGED <<term, votedFor>>
    BY <1>4, Zenon DEF HandleVoteResponse
  <2>2. Voted(msgs, m.from, n, term[n])
    BY <2>1, Zenon DEF Voted, Granted
  <2>3. \A v \in votes[n] \cup {m.from} : Voted(msgs, v, n, term[n])
    BY <1>1, <2>1, <2>2, Zenon DEF ElectionInv, VotesCounted
  <2>4. \/ role' = role /\ msgs' = msgs
        \/ /\ role' = [role EXCEPT ![n] = "Leader"]
           /\ IsQuorum(votes[n] \cup {m.from})
           /\ NoVoteSent
           /\ \A r \in msgs' : r \in msgs \/ r.type # "AppendEntries" \/ (r.from = n /\ r.term = term[n])
    <3>1. CASE IsQuorum(votes[n] \cup {m.from})
      BY <1>1, <1>4, <3>1, SendAppendEntriesQuiet, Zenon DEF HandleVoteResponse
    <3>2. CASE ~IsQuorum(votes[n] \cup {m.from})
      BY <1>4, <3>2, Zenon DEF HandleVoteResponse
    <3>3. QED
      BY <3>1, <3>2, Zenon
  <2>5. votes[n] \cup {m.from} \in SUBSET Node
    BY <1>1, Zenon DEF TypeOK
  <2>6. IsQuorum(votes[n] \cup {m.from}) => Elected(msgs, n, term[n])
    BY <2>3, <2>5, Zenon DEF Elected
  <2>7. VotesKept' /\ VotesOnce'
    BY <1>1, <2>1, <2>4, VotesHeld, Zenon
       DEF Voted, Granted, Campaigned, NoVoteSent, VotesFollowTerm, ElectionInv
  <2>8. VotesCounted'
    <3>1. ASSUME NEW p \in Node, role'[p] = "Candidate", NEW v \in votes'[p]
          PROVE  Voted(msgs, v, p, term[p])
      <4>1. CASE p = n
        BY <1>1, <2>1, <2>3, <3>1, <4>1, ZenonT(30) DEF TypeOK
      <4>2. CASE p # n
        <5>1. role \in [Node -> Role] /\ votes \in [Node -> SUBSET Node]
          BY <1>1, Zenon DEF TypeOK
        <5>2. votes'[p] = votes[p]
          BY <2>1, <4>2, <5>1, Zenon
        <5>3. role[p] = "Candidate"
          BY <2>4, <3>1, <4>2, <5>1, Zenon
        <5>4. QED
          BY <3>1, <5>2, <5>3, Zenon DEF ElectionInv, VotesCounted
      <4>3. QED
        BY <4>1, <4>2, Zenon
    <3>2. QED
      BY <1>2, <2>1, <3>1, VotesGrow, Zenon DEF VotesCounted
  <2>9. LeadersElected'
    <3>1. ASSUME NEW p \in Node, role'[p] = "Leader" PROVE Elected(msgs, p, term[p])
      BY <1>1, <2>4, <2>6, <3>1, Zenon DEF TypeOK, ElectionInv, LeadersElected
    <3>2. QED
      BY <1>2, <2>1, <3>1, VotesGrow, Zenon DEF LeadersElected
  <2>10. QED
    BY <1>2, <2>4, <2>6, <2>7, <2>8, <2>9, VotesGrow, Zenon DEF ElectionInv, SendersElected
<1>5. QED
  BY <1>3, <1>4, Zenon

-----------------------------------------------------------------------------
(* ElectionInv is inductive. *)

\* Every step keeps ElectionInv.
LEMMA NextKeepsElectionInv ==
    ASSUME TypeInv, TypeInv', ElectionInv, [Next]_vars
    PROVE  ElectionInv'
<1>1. ASSUME Quiet, msgs \subseteq msgs' PROVE ElectionInv'
  BY <1>1, QuietStep, Zenon DEF TypeInv
<1>2. ASSUME NEW n \in Node, LocalEvent(n) PROVE ElectionInv'
  BY <1>1, <1>2, LocalEventQuiet, MessagesStay, Zenon
<1>3. ASSUME NEW m \in msgs, Receive(m.to, m) \/ CrashDuringAppend(m.to, m) PROVE ElectionInv'
  <2>1. msgs \subseteq msgs'
    BY <1>3, MessagesStay, Zenon
  <2>2. m.to \in Node
    BY MessageKinds, Zenon DEF TypeInv, TypeOK
  <2>3. CASE HandlePreVoteRequest(m.to, m)
    BY <1>1, <2>1, <2>2, <2>3, HandlePreVoteRequestQuiet, Zenon
  <2>4. CASE HandlePreVoteResponse(m.to, m)
    BY <2>4, HandlePreVoteResponseKeeps, Zenon
  <2>5. CASE HandleVoteRequest(m.to, m)
    BY <2>5, HandleVoteRequestKeeps, Zenon
  <2>6. CASE HandleVoteResponse(m.to, m)
    BY <2>6, HandleVoteResponseKeeps, Zenon
  <2>7. CASE HandleAppendEntries(m.to, m)
    BY <1>1, <2>1, <2>7, HandleAppendEntriesQuiet, Zenon
  <2>8. CASE HandleAppendEntriesResponse(m.to, m)
    BY <1>1, <2>1, <2>8, HandleAppendEntriesResponseQuiet, Zenon
  <2>9. CASE CrashDuringAppend(m.to, m)
    BY <1>1, <2>1, <2>9, CrashDuringAppendQuiet, Zenon
  <2>10. QED
    BY <1>3, <2>3, <2>4, <2>5, <2>6, <2>7, <2>8, <2>9, Zenon DEF Receive
<1>4. CASE UNCHANGED vars
  BY <1>4, Zenon
     DEF ElectionInv, VotesKept, VotesOnce, VotesCounted, LeadersElected, SendersElected, vars,
         electionVars
<1>5. QED
  BY <1>2, <1>3, <1>4, Zenon DEF Next

\* Nobody has voted yet.
LEMMA InitHasElectionInv == Init => ElectionInv
  BY Zenon
     DEF Init, ElectionInv, VotesKept, VotesOnce, VotesCounted, LeadersElected, SendersElected,
         Voted, Granted, Campaigned

-----------------------------------------------------------------------------
(* Every step has one of these shapes. *)

\* becomeFollower touches no other Node and makes no Leader.
LEMMA BecomeFollowerOthers ==
    ASSUME TypeOK, NEW n \in Node, NEW t, NEW leader, NEW vote,
           BecomeFollower(n, t, leader, vote), UNCHANGED logVars
    PROVE  Others(n) /\ LogStays(n) /\ role'[n] = "Follower" /\ term'[n] = t
<1>1. /\ role' = [role EXCEPT ![n] = "Follower"]
      /\ term' = [term EXCEPT ![n] = t]
      /\ matchIndex' = [matchIndex EXCEPT ![n] = NoIndex]
      /\ nextIndex' = [nextIndex EXCEPT ![n] = NoIndex]
      /\ log' = log /\ commitIndex' = commitIndex
  BY Zenon DEF BecomeFollower, logVars
<1>2. QED
  BY <1>1, Zenon DEF Others, LogStays, TypeOK

\* A Node that becomes Follower and sends nothing listens.
LEMMA BecomeFollowerListens ==
    ASSUME TypeOK, NEW n \in Node, NEW t \in Nat, t >= term[n], NEW leader, NEW vote,
           BecomeFollower(n, t, leader, vote), UNCHANGED <<log, commitIndex>>, msgs' = msgs
    PROVE  Listens(n)
<1>1. Others(n) /\ LogStays(n) /\ role'[n] = "Follower" /\ term'[n] = t
  BY BecomeFollowerOthers, Zenon DEF logVars
<1>2. QED
  BY <1>1, Zenon DEF Listens

\* Where nothing but messages that bind nobody changes.
LEMMA QuietListens ==
    ASSUME TypeOK, NEW n \in Node,
           UNCHANGED <<role, term, log, commitIndex, matchIndex, nextIndex>>,
           \A r \in msgs' : r \in msgs \/ Inert(r) \/ VoteOf(n, r)
    PROVE  Listens(n)
<1>1. term[n] \in Nat
  BY Zenon DEF TypeOK
<1>2. QED
  BY <1>1 DEF Listens, Others, LogStays

\* sendAppendEntries builds the requests of a Leader.
LEMMA SendAppendEntriesRequests ==
    ASSUME NEW n \in Node, NEW targets \in SUBSET Peers(n), NEW inFlight, NEW readFor,
           SendAppendEntries(n, targets, inFlight, log'[n], nextIndex'[n], commitIndex'[n], readFor)
    PROVE  \A r \in msgs' : r \in msgs \/ RequestOf(n, r)
<1> SUFFICES ASSUME NEW r \in msgs', r \notin msgs PROVE RequestOf(n, r)
  OBVIOUS
<1>1. PICK p \in targets :
        r = AppendRequest(n, p, log'[n], FirstToSend(nextIndex'[n][p], log'[n]), commitIndex'[n], readFor[p])
  BY Zenon DEF SendAppendEntries, Send
<1>2. p \in Peers(n)
  OBVIOUS
<1>3. QED
  BY <1>1, <1>2, Zenon DEF RequestOf, AppendRequest

\* The timers, proposals, reads and restarts of a Node.
LEMMA LocalEventShape ==
    ASSUME TypeInv, NEW n \in Node, LocalEvent(n)
    PROVE  Listens(n) \/ Sends(n)
<1>1. TypeOK /\ term[n] \in Nat /\ log \in [Node -> Seq(Entry)]
  BY Zenon DEF TypeInv, TypeOK
<1>2. CASE StartPreVote(n)
  <2>1. ASSUME NEW r \in msgs', r \notin msgs PROVE r.type = "PreVoteRequest"
    <3>1. \E p \in Peers(n) :
            r = [type |-> "PreVoteRequest", from |-> n, to |-> p, term |-> term[n] + 1,
                 lastLogIndex |-> Len(log[n]), lastLogTerm |-> LastLogTerm(log[n])]
      BY <1>2, <2>1, ZenonT(60), Zenon DEF StartPreVote, Send
    <3>2. QED
      BY <3>1
  <2>2. \A r \in msgs' : r \in msgs \/ Inert(r)
    BY <2>1, Zenon DEF Inert
  <2>3. Others(n) /\ LogStays(n) /\ role'[n] = "PreCandidate" /\ term'[n] = term[n]
    BY <1>1, <1>2, Zenon DEF Others, LogStays, TypeOK, StartPreVote, logVars, leaderVars
  <2>4. term'[n] >= term[n] /\ role'[n] \notin {"Candidate", "Leader"}
    BY <1>1, <2>3
  <2>5. QED
    BY <2>2, <2>3, <2>4, Zenon DEF Listens
<1>3. CASE ElectionTimeoutAtLeader(n)
  BY <1>1, <1>3, QuietListens, Zenon DEF ElectionTimeoutAtLeader, electionVars, logVars, leaderVars
<1>4. ASSUME role[n] = "Leader", UNCHANGED <<role, term, log, commitIndex, matchIndex, nextIndex>>,
             NEW inFlight, NEW readFor,
             SendAppendEntries(n, Peers(n), inFlight, log[n], nextIndex[n], commitIndex[n], readFor)
      PROVE  Sends(n)
  <2>1. \A r \in msgs' : r \in msgs \/ RequestOf(n, r)
    BY <1>4, SendAppendEntriesRequests, Zenon
  <2>2. QED
    BY <1>4, <2>1, Zenon DEF Sends, Leads, Others
<1>5. CASE HeartbeatTimeout(n)
  BY <1>4, <1>5, Zenon DEF HeartbeatTimeout, electionVars, logVars
<1>6. CASE ConfirmRead(n)
  <2>1. /\ role[n] = "Leader" /\ UNCHANGED <<role, term, log, commitIndex, matchIndex, nextIndex>>
        /\ SendAppendEntries(n, Peers(n), appendInFlight[n], log[n], nextIndex[n],
               commitIndex[n], [p \in Node |-> nextReadID[n] + 1])
    BY <1>6, Zenon DEF ConfirmRead, electionVars, logVars
  <2>2. QED
    BY <1>4, <2>1, Zenon
<1>7. ASSUME NEW c \in Command, Propose(n, c) PROVE Sends(n)
  <2> DEFINE e == [term |-> term[n], cmd |-> c]
  <2>1. e \in Entry /\ e.term = term[n]
    BY <1>1, Zenon DEF Entry
  <2>2. /\ role[n] = "Leader" /\ UNCHANGED <<role, term, commitIndex, matchIndex, nextIndex>>
        /\ log' = [log EXCEPT ![n] = Append(log[n], e)]
        /\ SendAppendEntries(n, Peers(n), appendInFlight[n], Append(log[n], e), nextIndex[n],
               commitIndex[n], PendingReads(n))
    BY <1>7, Zenon DEF Propose, electionVars
  <2> HIDE DEF e
  <2>3. log'[n] = Append(log[n], e) /\ \A p \in Node \ {n} : log'[p] = log[p]
    BY <1>1, <2>2, Zenon
  <2>4. \A r \in msgs' : r \in msgs \/ RequestOf(n, r)
    BY <2>2, <2>3, SendAppendEntriesRequests, Zenon
  <2>5. QED
    BY <2>1, <2>2, <2>3, <2>4, Zenon DEF Sends, Leads, Others
<1>8. CASE CheckQuorumTimeout(n)
  <2>1. UNCHANGED <<log, commitIndex, msgs>>
    BY <1>8, Zenon DEF CheckQuorumTimeout, logVars
  <2>2. CASE BecomeFollower(n, term[n], NoNode, votedFor[n])
    BY <1>1, <2>1, <2>2, BecomeFollowerListens
  <2>3. CASE UNCHANGED <<electionVars, electionTimer, matchIndex, nextIndex, appendInFlight, readVars>>
    BY <1>1, <2>1, <2>3, QuietListens, Zenon DEF electionVars
  <2>4. QED
    BY <1>8, <2>2, <2>3, Zenon DEF CheckQuorumTimeout
<1>9. CASE Restart(n)
  <2>1. BecomeFollower(n, term[n], NoNode, votedFor[n]) /\ UNCHANGED <<log, commitIndex>> /\ msgs' = msgs
    BY <1>9, Zenon DEF Restart, ForgetVolatile, logVars
  <2>2. QED
    BY <1>1, <2>1, BecomeFollowerListens
<1>10. QED
  BY <1>2, <1>3, <1>5, <1>6, <1>7, <1>8, <1>9, Zenon DEF LocalEvent

\* A response of a later term.
LEMMA AdoptHigherTermListens ==
    ASSUME TypeInv, NEW n \in Node, NEW t \in Nat, AdoptHigherTerm(n, t)
    PROVE  Listens(n)
<1>1. TypeOK /\ t > term[n] /\ term[n] \in Nat
  BY Zenon DEF TypeInv, TypeOK, AdoptHigherTerm
<1>2. BecomeFollower(n, t, NoNode, NoNode) /\ UNCHANGED <<log, commitIndex>> /\ msgs' = msgs
  BY Zenon DEF AdoptHigherTerm, logVars
<1>3. QED
  BY <1>1, <1>2, BecomeFollowerListens

\* The Pre-Vote requests and responses.
LEMMA PreVoteShape ==
    ASSUME TypeInv, NEW m \in msgs, HandlePreVoteRequest(m.to, m) \/ HandlePreVoteResponse(m.to, m)
    PROVE  Listens(m.to) \/ Campaigns(m.to)
<1> DEFINE n == m.to
<1>1. n \in Node /\ TypeOK /\ term[n] \in Nat
  BY MessageKinds, Zenon DEF TypeInv, TypeOK
<1>2. CASE HandlePreVoteRequest(n, m)
  BY <1>1, <1>2, QuietListens
     DEF HandlePreVoteRequest, Send, electionVars, logVars, leaderVars, Inert
<1>3. CASE HandlePreVoteResponse(n, m)
  <2>1. m \in PreVoteResponses
    BY <1>1, <1>3, MessageKinds, Zenon DEF TypeOK, HandlePreVoteResponse
  <2>2. CASE AdoptHigherTerm(n, m.currentTerm)
    BY <1>1, <2>1, <2>2, AdoptHigherTermListens, Zenon DEF PreVoteResponses
  <2>3. CASE ~AdoptHigherTerm(n, m.currentTerm)
    <3>1. UNCHANGED <<log, commitIndex, matchIndex, nextIndex>>
      BY <1>3, <2>3, Zenon DEF HandlePreVoteResponse, logVars, leaderVars
    <3>2. CASE StartElection(n)
      <4>1. role' = [role EXCEPT ![n] = "Candidate"] /\ term' = [term EXCEPT ![n] = term[n] + 1]
        BY <3>2, Zenon DEF StartElection
      <4>2. role \in [Node -> Role] /\ term \in [Node -> Nat]
        BY <1>1, Zenon DEF TypeOK
      <4>3. \A r \in msgs' :
              \/ r \in msgs
              \/ /\ r.type = "VoteRequest" /\ r.from = n /\ r.term = term[n] + 1
                 /\ r.lastLogIndex = Len(log[n]) /\ r.lastLogTerm = LastLogTerm(log[n])
        <5> SUFFICES ASSUME NEW r \in msgs', r \notin msgs
                     PROVE  /\ r.type = "VoteRequest" /\ r.from = n /\ r.term = term[n] + 1
                            /\ r.lastLogIndex = Len(log[n]) /\ r.lastLogTerm = LastLogTerm(log[n])
          OBVIOUS
        <5>1. \E p \in Peers(n) :
                r = [type |-> "VoteRequest", from |-> n, to |-> p, term |-> term[n] + 1,
                     lastLogIndex |-> Len(log[n]), lastLogTerm |-> LastLogTerm(log[n])]
          BY <3>2, ZenonT(60), Zenon DEF StartElection, Send
        <5>2. QED
          BY <5>1
      <4> HIDE DEF n
      <4>4. /\ role'[n] = "Candidate" /\ term'[n] = term[n] + 1
            /\ \A p \in Node \ {n} : role'[p] = role[p] /\ term'[p] = term[p]
        BY <1>1, <4>1, <4>2, Zenon
      <4>5. Campaigns(n)
        BY <3>1, <4>3, <4>4, Zenon DEF Campaigns, Others, LogStays
      <4>6. QED
        BY <4>5, Zenon DEF n
    <3>3. CASE UNCHANGED <<role, term, votedFor, leaderID, readReady, votes, electionTimer, msgs>>
      BY <1>1, <3>1, <3>3, QuietListens, Zenon
    <3>4. QED
      BY <1>3, <2>3, <3>2, <3>3, Zenon DEF HandlePreVoteResponse
  <2>4. QED
    BY <2>2, <2>3, Zenon
<1>4. QED
  BY <1>2, <1>3, Zenon

\* handleVoteRequest gives a vote only to a candidate whose log is up to date.
LEMMA HandleVoteRequestListens ==
    ASSUME TypeInv, NEW m \in msgs, HandleVoteRequest(m.to, m)
    PROVE  Listens(m.to)
<1> DEFINE n == m.to
           grant == GrantsVote(n, m)
           vote == IF grant THEN m.from ELSE VoteAt(n, m.term)
           response == [type |-> "VoteResponse", from |-> n, to |-> m.from,
                        term |-> Max({term[n], m.term}), granted |-> grant]
<1>1. n \in Node /\ m.from \in Node /\ m.term \in Nat /\ TypeOK /\ term[n] \in Nat
  BY MessageKinds, Zenon DEF TypeInv, TypeOK
<1>2. msgs' = msgs \cup {response} /\ UNCHANGED <<log, commitIndex>> /\ m.type = "VoteRequest"
  BY Zenon DEF HandleVoteRequest, Send, logVars
<1>3. /\ Others(n) /\ LogStays(n)
      /\ \/ m.term > term[n] /\ role'[n] = "Follower" /\ term'[n] = m.term
         \/ /\ ~(m.term > term[n]) /\ role'[n] = role[n] /\ term'[n] = term[n]
            /\ matchIndex'[n] = matchIndex[n] /\ nextIndex'[n] = nextIndex[n]
  <2>1. CASE m.term > term[n]
    <3>1. BecomeFollower(n, m.term, NoNode, vote)
      BY <2>1, Zenon DEF HandleVoteRequest
    <3>2. QED
      BY <1>1, <1>2, <2>1, <3>1, BecomeFollowerOthers DEF logVars
  <2>2. CASE ~(m.term > term[n])
    <3>1. UNCHANGED <<role, term, matchIndex, nextIndex>>
      BY <2>2, Zenon DEF HandleVoteRequest, leaderVars
    <3>2. QED
      BY <1>2, <2>2, <3>1, Zenon DEF Others, LogStays
  <2>3. QED
    BY <2>1, <2>2, Zenon
<1>4. Inert(response) \/ VoteOf(n, response)
  <2>1. CASE grant
    <3>1. m.term >= term[n] /\ CandidateLogIsUpToDate(m.lastLogTerm, m.lastLogIndex, log[n])
      BY <2>1, Zenon DEF GrantsVote
    <3>2. Max({term[n], m.term}) = m.term
      BY <1>1, <3>1, MaxOfTwo
    <3>3. term'[n] = m.term
      BY <1>1, <1>3, <3>1
    <3>4. QED
      BY <1>2, <3>1, <3>2, <3>3, Zenon DEF VoteOf
  <2>2. CASE ~grant
    BY <2>2, Zenon DEF Inert
  <2>3. QED
    BY <2>1, <2>2, Zenon
<1> HIDE DEF response
<1>5. \A r \in msgs' : r \in msgs \/ Inert(r) \/ VoteOf(n, r)
  BY <1>2, <1>4, Zenon
<1> HIDE DEF n
<1>6. /\ term'[n] >= term[n]
      /\ role'[n] = "Candidate" => role[n] = "Candidate" /\ term'[n] = term[n]
  BY <1>1, <1>3
<1>7. role'[n] = "Leader" =>
          /\ role[n] = "Leader" /\ term'[n] = term[n]
          /\ matchIndex'[n] = matchIndex[n] /\ nextIndex'[n] = nextIndex[n]
  BY <1>3, Zenon
<1>8. Listens(n)
  BY <1>3, <1>5, <1>6, <1>7, Zenon DEF Listens
<1>9. QED
  BY <1>8, Zenon DEF n

\* handleVoteResponse: a quorum of counted votes makes the Leader.
LEMMA HandleVoteResponseShape ==
    ASSUME TypeInv, ElectionInv, NEW m \in msgs, HandleVoteResponse(m.to, m)
    PROVE  Listens(m.to) \/ Wins(m.to)
<1> DEFINE n == m.to
           l == Append(log[n], [term |-> term[n], cmd |-> NoOp])
           next == [p \in Node |-> Len(l) + 1]
<1>1. n \in Node /\ m.from \in Node /\ m.term \in Nat /\ TypeOK
  BY MessageKinds, Zenon DEF TypeInv, TypeOK
<1>2. CASE AdoptHigherTerm(n, m.term)
  BY <1>1, <1>2, AdoptHigherTermListens, Zenon
<1>3. CASE ~AdoptHigherTerm(n, m.term)
  <2>1. /\ m.type = "VoteResponse" /\ m.granted
        /\ role[n] = "Candidate" /\ m.term = term[n]
        /\ UNCHANGED <<term, commitIndex>>
    BY <1>3, Zenon DEF HandleVoteResponse
  <2>2. CASE ~IsQuorum(votes[n] \cup {m.from})
    <3>1. UNCHANGED <<role, log, matchIndex, nextIndex, msgs>>
      BY <1>3, <2>2, Zenon DEF HandleVoteResponse, leaderVars
    <3>2. QED
      BY <1>1, <2>1, <3>1, QuietListens, Zenon
  <2>3. CASE IsQuorum(votes[n] \cup {m.from})
    <3>1. /\ role' = [role EXCEPT ![n] = "Leader"]
          /\ log' = [log EXCEPT ![n] = l]
          /\ matchIndex' = [matchIndex EXCEPT ![n] = NoIndex]
          /\ nextIndex' = [nextIndex EXCEPT ![n] = next]
          /\ SendAppendEntries(n, Peers(n), [p \in Node |-> NotInFlight], l, next, commitIndex[n],
                 PendingReads(n))
      BY <1>3, <2>3, Zenon DEF HandleVoteResponse
    <3>2. Voted(msgs, m.from, n, term[n])
      BY <2>1, Zenon DEF Voted, Granted
    <3>3. \A v \in votes[n] \cup {m.from} : Voted(msgs, v, n, term[n])
      BY <1>1, <2>1, <3>2, Zenon DEF ElectionInv, VotesCounted
    <3>4. votes[n] \cup {m.from} \in SUBSET Node
      BY <1>1, Zenon DEF TypeOK
    <3>5. Elected(msgs, n, term[n])
      BY <2>3, <3>3, <3>4, Zenon DEF Elected
    <3>6. /\ role \in [Node -> Role] /\ log \in [Node -> Seq(Entry)]
          /\ matchIndex \in [Node -> [Node -> Nat]] /\ nextIndex \in [Node -> [Node -> Nat]]
      BY <1>1, Zenon DEF TypeOK
    <3> HIDE DEF next, l, n
    <3>7. /\ role'[n] = "Leader" /\ log'[n] = l /\ matchIndex'[n] = NoIndex /\ nextIndex'[n] = next
          /\ \A p \in Node \ {n} : /\ role'[p] = role[p] /\ log'[p] = log[p]
                                   /\ matchIndex'[p] = matchIndex[p] /\ nextIndex'[p] = nextIndex[p]
      BY <1>1, <3>1, <3>6, Zenon
    <3>8. SendAppendEntries(n, Peers(n), [p \in Node |-> NotInFlight], log'[n], nextIndex'[n],
              commitIndex'[n], PendingReads(n))
      BY <2>1, <3>1, <3>7, Zenon
    <3>9. \A r \in msgs' : r \in msgs \/ RequestOf(n, r)
      BY <1>1, <3>8, SendAppendEntriesRequests, Zenon
    <3>10. \A p \in Node : matchIndex'[n][p] = 0 /\ nextIndex'[n][p] = Len(log'[n]) + 1
      BY <3>7, Zenon DEF NoIndex, next
    <3>11. Wins(n)
      BY <2>1, <3>5, <3>7, <3>9, <3>10, Zenon DEF Wins, l, Leads, Others
    <3>12. QED
      BY <3>11, Zenon DEF n
  <2>4. QED
    BY <2>2, <2>3, Zenon
<1>4. QED
  BY <1>2, <1>3, Zenon

\* handleAppendEntriesResponse.
LEMMA HandleAppendEntriesResponseShape ==
    ASSUME TypeInv, Addressed, NEW m \in msgs, HandleAppendEntriesResponse(m.to, m)
    PROVE  Listens(m.to) \/ Learns(m.to, m)
<1> DEFINE n == m.to
<1>1. n \in Node /\ m.from \in Node /\ m.term \in Nat /\ TypeOK /\ m \in AppendResponses
  BY MessageKinds, Zenon DEF TypeInv, TypeOK, HandleAppendEntriesResponse
<1>2. CASE AdoptHigherTerm(n, m.term)
  BY <1>1, <1>2, AdoptHigherTermListens, Zenon
<1>3. CASE ~AdoptHigherTerm(n, m.term)
  <2> DEFINE candidates == Committable(n, log[n], matchIndex'[n])
             commit == IF candidates = {} THEN commitIndex[n] ELSE Max(candidates)
             freed == [appendInFlight[n] EXCEPT ![m.from] = NotInFlight]
             targets == IF candidates # {} THEN Peers(n)
                        ELSE IF \/ ~m.success
                                \/ nextIndex'[n][m.from] <= Len(log[n])
                                \/ PendingReadFor(n, m.from) # 0
                                \/ appendInFlight[n][m.from].leaderCommit < commitIndex[n]
                             THEN {m.from} ELSE {}
  <2>1. /\ role[n] = "Leader" /\ m.term = term[n]
        /\ matchIndex' = [matchIndex EXCEPT ![n][m.from] = LearnMatch(n, m)]
        /\ nextIndex' = [nextIndex EXCEPT ![n][m.from] = LearnNext(n, m)]
        /\ UNCHANGED <<role, term, log>>
    BY <1>3, Zenon DEF HandleAppendEntriesResponse, electionVars
  <2>2. /\ commitIndex' = [commitIndex EXCEPT ![n] = commit]
        /\ SendAppendEntries(n, targets, freed, log[n], nextIndex'[n], commit, PendingReads(n))
    BY <1>3, Zenon DEF HandleAppendEntriesResponse
  <2>3. targets \in SUBSET Peers(n)
    <3>1. m.from \in Peers(n)
      BY <1>1, Zenon DEF Addressed, Peers, HandleAppendEntriesResponse
    <3>2. QED
      BY <3>1, Zenon
  <2> HIDE DEF targets, freed
  <2>4. commit = commitIndex[n] \/ commit \in Committable(n, log[n], matchIndex'[n])
    <3>1. CASE candidates # {}
      <4>1. Len(log[n]) \in Nat /\ commitIndex[n] \in Nat
        BY <1>1 DEF TypeOK
      <4>2. candidates \in SUBSET (commitIndex[n] + 1 .. Len(log[n]))
        BY ZenonT(60), Zenon DEF Committable
      <4>3. candidates \in SUBSET Nat /\ \A x \in candidates : x <= Len(log[n])
        <5> HIDE DEF candidates, n
        <5>1. QED
          BY <4>1, <4>2
      <4>4. QED
        BY <3>1, <4>1, <4>3, MaxOfBounded, Zenon
    <3>2. CASE candidates = {}
      BY <3>2, Zenon
    <3>3. QED
      BY <3>1, <3>2, Zenon
  <2> HIDE DEF commit, n
  <2>5. /\ matchIndex'[n] = [matchIndex[n] EXCEPT ![m.from] = LearnMatch(n, m)]
        /\ nextIndex'[n] = [nextIndex[n] EXCEPT ![m.from] = LearnNext(n, m)]
        /\ commitIndex'[n] = commit
        /\ \A p \in Node \ {n} : /\ matchIndex'[p] = matchIndex[p] /\ nextIndex'[p] = nextIndex[p]
                                 /\ commitIndex'[p] = commitIndex[p]
    BY <1>1, <2>1, <2>2, Zenon DEF TypeOK
  <2>6. \A r \in msgs' : r \in msgs \/ RequestOf(n, r)
    <3>1. SendAppendEntries(n, targets, freed, log'[n], nextIndex'[n], commitIndex'[n], PendingReads(n))
      BY <2>1, <2>2, <2>5, Zenon
    <3>2. QED
      BY <1>1, <2>3, <3>1, SendAppendEntriesRequests, Zenon
  <2>7. m.to = n
    BY Zenon DEF n
  <2>8. Learns(n, m)
    BY <1>1, <2>1, <2>4, <2>5, <2>6, <2>7, Zenon DEF Learns, Leads, Others
  <2>9. QED
    BY <2>8, Zenon DEF n
<1>4. QED
  BY <1>2, <1>3, Zenon

\* Following the sender of a request.
LEMMA FollowSenderShape ==
    ASSUME TypeOK, NEW m \in msgs, m.type = "AppendEntries", m.term >= term[m.to], FollowSender(m.to, m)
    PROVE  /\ m.to \in Node /\ m \in AppendRequests
           /\ role'[m.to] = "Follower" /\ term'[m.to] = m.term
           /\ \A p \in Node \ {m.to} :
                /\ role'[p] = role[p] /\ term'[p] = term[p]
                /\ matchIndex'[p] = matchIndex[p] /\ nextIndex'[p] = nextIndex[p]
<1> DEFINE n == m.to
<1>1. n \in Node /\ m \in AppendRequests /\ m.term \in Nat
  BY MessageKinds, Zenon DEF TypeOK
<1>2. /\ role \in [Node -> Role] /\ term \in [Node -> Nat]
      /\ matchIndex \in [Node -> [Node -> Nat]] /\ nextIndex \in [Node -> [Node -> Nat]]
  BY Zenon DEF TypeOK
<1>3. CASE m.term > term[n]
  <2>1. /\ role' = [role EXCEPT ![n] = "Follower"]
        /\ term' = [term EXCEPT ![n] = m.term]
        /\ matchIndex' = [matchIndex EXCEPT ![n] = NoIndex]
        /\ nextIndex' = [nextIndex EXCEPT ![n] = NoIndex]
    BY <1>3, Zenon DEF FollowSender, BecomeFollower
  <2>2. role'[n] = "Follower" /\ term'[n] = m.term
    BY <1>1, <1>2, <2>1, Zenon
  <2>3. ASSUME NEW p \in Node \ {n}
        PROVE  /\ role'[p] = role[p] /\ term'[p] = term[p]
               /\ matchIndex'[p] = matchIndex[p] /\ nextIndex'[p] = nextIndex[p]
    BY <1>2, <2>1, Zenon
  <2>4. QED
    BY <1>1, <2>2, <2>3, Zenon
<1>4. CASE ~(m.term > term[n])
  <2>1. term[n] = m.term
    <3>1. term[n] \in Nat /\ m.term >= term[n]
      BY <1>1, <1>2, Zenon
    <3>2. QED
      BY <1>1, <1>4, <3>1
  <2>2. QED
    BY <1>1, <1>2, <1>4, <2>1, Zenon DEF FollowSender, leaderVars
<1>5. QED
  BY <1>3, <1>4, Zenon

\* handleAppendEntries.
LEMMA HandleAppendEntriesShape ==
    ASSUME TypeInv, Addressed, NEW m \in msgs, HandleAppendEntries(m.to, m)
    PROVE  Listens(m.to) \/ Accepts(m.to, m) \/ Rejects(m.to, m)
<1> DEFINE n == m.to
<1>1. n \in Node /\ TypeOK /\ m.type = "AppendEntries" /\ m.to # m.from
  BY MessageKinds, Zenon DEF TypeInv, TypeOK, HandleAppendEntries, Addressed
<1>2. CASE /\ m.term < term[n]
           /\ Send({AppendResponse(n, m, term[n], FALSE, Len(log[n]), NoHint)})
           /\ UNCHANGED <<electionVars, electionTimer, logVars, leaderVars, readVars>>
  <2>1. Inert(AppendResponse(n, m, term[n], FALSE, Len(log[n]), NoHint))
    BY <1>1, Zenon DEF Inert, Hintless, AppendResponse, NoHint
  <2>2. UNCHANGED <<role, term, log, commitIndex, matchIndex, nextIndex>>
    BY <1>2, Zenon DEF electionVars, logVars, leaderVars
  <2>3. \A r \in msgs' : r \in msgs \/ Inert(r)
    BY <1>2, <2>1, Zenon DEF Send
  <2>4. QED
    BY <1>1, <2>2, <2>3, QuietListens, Zenon
<1>3. CASE /\ m.term >= term[n]
           /\ ~Consistent(n, m)
           /\ FollowSender(n, m)
           /\ LET probe == IF Matches(log[n], m.prevLogIndex, m.prevLogTerm)
                           THEN m.prevLogIndex + 1 ELSE m.prevLogIndex
              IN  Send({AppendResponse(n, m, m.term, FALSE, Len(log[n]), ConflictHint(log[n], probe))})
           /\ UNCHANGED logVars
  <2>1. Follows(n, m) /\ LogStays(n)
    BY <1>1, <1>3, FollowSenderShape, Zenon DEF Follows, Others, LogStays, logVars
  <2>2. QED
    BY <1>3, <2>1, Zenon DEF Rejects, Send
<1>4. CASE /\ m.term >= term[n]
           /\ Consistent(n, m)
           /\ FollowSender(n, m)
           /\ LET l == AppendNew(log[n], m.prevLogIndex, m.entries)
              IN  /\ log' = [log EXCEPT ![n] = l]
                  /\ commitIndex' = [commitIndex EXCEPT ![n] = Max({@, FollowerCommit(m, l)})]
                  /\ Send({AppendResponse(n, m, m.term, TRUE, Len(l), NoHint)})
  <2> DEFINE l == AppendNew(log[n], m.prevLogIndex, m.entries)
             c == Max({commitIndex[n], FollowerCommit(m, l)})
  <2>1. log' = [log EXCEPT ![n] = l] /\ commitIndex' = [commitIndex EXCEPT ![n] = c]
    BY <1>4, Zenon
  <2>2. log \in [Node -> Seq(Entry)] /\ commitIndex \in [Node -> Nat]
    BY <1>1, Zenon DEF TypeOK
  <2> HIDE DEF l, c
  <2>3. log'[n] = l /\ commitIndex'[n] = c
    BY <1>1, <2>1, <2>2, Zenon
  <2>4. \A p \in Node \ {n} : log'[p] = log[p] /\ commitIndex'[p] = commitIndex[p]
    BY <2>1, <2>2, Zenon
  <2>5. Follows(n, m)
    BY <1>1, <1>4, <2>4, FollowSenderShape, Zenon DEF Follows, Others
  <2>6. Accepts(n, m)
    BY <1>4, <2>3, <2>5, Zenon DEF Accepts, l, c, Send
  <2>7. QED
    BY <2>6, Zenon
<1>5. QED
  BY <1>2, <1>3, <1>4, Zenon DEF HandleAppendEntries

\* A crash inside handleAppendEntries.
LEMMA CrashDuringAppendShape ==
    ASSUME TypeInv, NEW m \in msgs, CrashDuringAppend(m.to, m)
    PROVE  Crashes(m.to, m)
<1> DEFINE n == m.to
<1>1. /\ n \in Node /\ TypeOK /\ m \in AppendRequests
      /\ log \in [Node -> Seq(Entry)] /\ role \in [Node -> Role] /\ term \in [Node -> Nat]
      /\ matchIndex \in [Node -> [Node -> Nat]] /\ nextIndex \in [Node -> [Node -> Nat]]
  BY MessageKinds, Zenon DEF TypeInv, TypeOK, CrashDuringAppend
<1>2. /\ m.term >= term[n] /\ Consistent(n, m) /\ msgs' = msgs /\ commitIndex' = commitIndex
      /\ BecomeFollower(n, m.term, NoNode, VoteAt(n, m.term))
  BY Zenon DEF CrashDuringAppend, ForgetVolatile
<1>3. PICK l \in PartialLogs(log[n], m.prevLogIndex, m.entries) : log' = [log EXCEPT ![n] = l]
  BY Zenon DEF CrashDuringAppend
<1>4. Others(n) /\ role'[n] = "Follower" /\ term'[n] = m.term /\ log'[n] = l
  BY <1>1, <1>2, <1>3, Zenon DEF Others, BecomeFollower
<1>5. QED
  BY <1>1, <1>2, <1>3, <1>4, Zenon DEF Crashes, Follows

\* Every step of the Cluster has one of the shapes.
LEMMA NextShape ==
    ASSUME TypeInv, ElectionInv, Addressed, [Next]_vars
    PROVE  Step
<1>1. ASSUME NEW n \in Node, LocalEvent(n) PROVE Step
  BY <1>1, LocalEventShape, Zenon DEF Step
<1>2. ASSUME NEW m \in msgs, Receive(m.to, m) \/ CrashDuringAppend(m.to, m) PROVE Step
  <2>1. m.to \in Node
    BY MessageKinds, Zenon DEF TypeInv, TypeOK
  <2>2. CASE HandlePreVoteRequest(m.to, m) \/ HandlePreVoteResponse(m.to, m)
    BY <2>1, <2>2, PreVoteShape, Zenon DEF Step
  <2>3. CASE HandleVoteRequest(m.to, m)
    BY <2>1, <2>3, HandleVoteRequestListens, Zenon DEF Step
  <2>4. CASE HandleVoteResponse(m.to, m)
    BY <2>1, <2>4, HandleVoteResponseShape, Zenon DEF Step
  <2>5. CASE HandleAppendEntries(m.to, m)
    BY <2>1, <2>5, HandleAppendEntriesShape, Zenon DEF Step
  <2>6. CASE HandleAppendEntriesResponse(m.to, m)
    BY <2>1, <2>6, HandleAppendEntriesResponseShape, Zenon DEF Step
  <2>7. CASE CrashDuringAppend(m.to, m)
    BY <2>1, <2>7, CrashDuringAppendShape, Zenon DEF Step
  <2>8. QED
    BY <1>2, <2>2, <2>3, <2>4, <2>5, <2>6, <2>7, Zenon DEF Receive
<1>3. CASE UNCHANGED vars
  <2>1. PICK n \in Node : TRUE
    BY NodeAssumption, FS_EmptySet
  <2>2. Listens(n)
    BY <1>3, QuietListens, Zenon DEF TypeInv, vars, electionVars, logVars, leaderVars
  <2>3. QED
    BY <2>2, Zenon DEF Step
<1>4. QED
  BY <1>1, <1>2, <1>3, Zenon DEF Next

-----------------------------------------------------------------------------
(* The history of Leaders. *)

\* No message is ever unsent.
LEMMA NextKeepsMessages ==
    ASSUME [Next]_vars
    PROVE  msgs \subseteq msgs'
<1>1. CASE UNCHANGED vars
  BY <1>1, Zenon DEF vars
<1>2. CASE Next
  BY <1>2, MessagesStay, Zenon DEF Next
<1>3. QED
  BY <1>1, <1>2, Zenon

\* What came from Leaders still does when they append.
LEMMA FromLeadersGrows ==
    ASSUME NEW L \in [Nat -> Seq(Entry)], NEW M \in [Nat -> Seq(Entry)], Extends(L, M),
           NEW l \in Seq(Entry), FromLeaders(l, L)
    PROVE  FromLeaders(l, M)
<1> SUFFICES ASSUME NEW i \in 1..Len(l) PROVE AgreeUpTo(i, l, M[l[i].term])
  BY Zenon DEF FromLeaders
<1>1. i \in Nat /\ l[i] \in Entry /\ l[i].term \in Nat
  BY LogEntry, Zenon
<1> DEFINE a == L[l[i].term]
           b == M[l[i].term]
<1>2. AgreeUpTo(i, l, a) /\ AgreeUpTo(Len(a), a, b)
  BY <1>1, Zenon DEF FromLeaders, Extends
<1>3. Len(a) \in Nat /\ Len(b) \in Nat
  BY <1>1, LogEntry, Zenon
<1> HIDE DEF a, b
<1>4. AgreeUpTo(i, l, b)
  BY <1>1, <1>2, <1>3, AgreementExtends, Zenon
<1>5. QED
  BY <1>4, Zenon DEF b

\* A prefix of a log from Leaders is one, with no later terms.
LEMMA PrefixFromLeaders ==
    ASSUME NEW L \in [Nat -> Seq(Entry)], NEW x \in Seq(Entry), FromLeaders(x, L),
           NEW y \in Seq(Entry), AgreeUpTo(Len(y), y, x)
    PROVE  FromLeaders(y, L) /\ \A t \in Nat : TermsUpTo(x, t) => TermsUpTo(y, t)
<1>1. ASSUME NEW i \in 1..Len(y)
      PROVE  i \in 1..Len(x) /\ y[i] = x[i] /\ AgreeUpTo(i, y, L[y[i].term])
  <2>0. Len(x) \in Nat /\ Len(y) \in Nat
    BY LogEntry, Zenon
  <2>1. i \in 1..Len(x) /\ y[i] = x[i]
    BY <2>0 DEF AgreeUpTo
  <2>2. AgreeUpTo(i, x, L[x[i].term]) /\ AgreeUpTo(i, y, x)
    <3>1. AgreeUpTo(i, y, x)
      BY <2>0, <2>1 DEF AgreeUpTo
    <3>2. QED
      BY <2>1, <3>1, Zenon DEF FromLeaders
  <2>3. QED
    BY <2>1, <2>2, Zenon DEF AgreeUpTo
<1>2. \A t \in Nat : TermsUpTo(x, t) => TermsUpTo(y, t)
  BY <1>1, Zenon DEF TermsUpTo
<1>3. QED
  BY <1>1, <1>2, Zenon DEF FromLeaders

\* A part of a log is a part of its extensions.
LEMMA PartGrows ==
    ASSUME NEW x \in Seq(Entry), NEW y \in Seq(Entry), NEW entries \in Seq(Entry), NEW prev \in Nat,
           PartOf(entries, prev, x), AgreeUpTo(Len(x), x, y)
    PROVE  PartOf(entries, prev, y) /\ TermAt(y, prev) = TermAt(x, prev)
<1>1. /\ Len(x) \in Nat /\ Len(y) \in Nat /\ Len(entries) \in Nat
      /\ Len(x) <= Len(y) /\ prev + Len(entries) <= Len(x)
  BY LogEntry, Zenon DEF AgreeUpTo, PartOf
<1>2. ASSUME NEW k \in 1..Len(entries) PROVE entries[k] = y[prev + k]
  BY <1>1 DEF PartOf, AgreeUpTo
<1>3. TermAt(y, prev) = TermAt(x, prev)
  BY <1>1 DEF TermAt, AgreeUpTo
<1>4. QED
  BY <1>1, <1>2, <1>3 DEF PartOf

\* A recorded request stays recorded when Leaders append.
LEMMA RequestStaysRecorded ==
    ASSUME NEW L \in [Nat -> Seq(Entry)], NEW M \in [Nat -> Seq(Entry)], Extends(L, M),
           NEW W, NEW V, \A t \in Nat : L[t] # <<>> => V[t] = W[t],
           NEW m \in AppendRequests, RequestRecorded(m, L, W)
    PROVE  RequestRecorded(m, M, V)
<1> DEFINE x == L[m.term]
           y == M[m.term]
<1>1. /\ m.term \in Nat /\ m.prevLogIndex \in Nat /\ m.entries \in Seq(Entry)
      /\ x \in Seq(Entry) /\ y \in Seq(Entry)
  BY Zenon DEF AppendRequests
<1>2. /\ x # <<>> /\ m.from = W[m.term] /\ PartOf(m.entries, m.prevLogIndex, x)
      /\ m.prevLogTerm = TermAt(x, m.prevLogIndex) /\ (m.entries = <<>> => m.prevLogTerm = m.term)
  BY Zenon DEF RequestRecorded
<1>3. AgreeUpTo(Len(x), x, y)
  BY <1>1, Zenon DEF Extends
<1> HIDE DEF x, y
<1>4. y # <<>>
  <2>1. Len(x) \in Nat \ {0} /\ Len(y) >= Len(x) /\ Len(<<>>) = 0
    BY <1>1, <1>2, <1>3, EmptyLog, Zenon DEF AgreeUpTo
  <2>2. QED
    BY <2>1
<1> DEFINE prev == m.prevLogIndex
           entries == m.entries
<1>5. PartOf(entries, prev, y) /\ TermAt(y, prev) = TermAt(x, prev)
  <2> HIDE DEF prev, entries
  <2>1. /\ prev \in Nat /\ entries \in Seq(Entry) /\ PartOf(entries, prev, x)
        /\ x \in Seq(Entry) /\ y \in Seq(Entry)
    BY <1>1, <1>2, Zenon DEF prev, entries
  <2>2. QED
    BY <1>3, <2>1, PartGrows
<1>6. QED
  BY <1>1, <1>2, <1>4, <1>5, Zenon DEF RequestRecorded, x, y

\* It keeps the history, if the new log of the Node that takes it has one.
LEMMA UnledKeepsHistory ==
    ASSUME NEW L, NEW W, NEW n \in Node, TypeInv, TypeInv', HistoryInv(L, W), msgs \subseteq msgs',
           Unled(n), FromLeaders(log'[n], L), TermsUpTo(log'[n], term'[n]),
           log'[n] # log[n] /\ term'[n] = term[n] => W[term[n]] # n \/ L[term[n]] = <<>>
    PROVE  HistoryInv(L, W)'
<1>1. /\ History(L, W) /\ LogsRecorded(L) /\ LeadersRecorded(L, W)
      /\ RequestsRecorded(L, W) /\ Addressed
  BY Zenon DEF HistoryInv
<1>2. /\ W \in [Nat -> Node] /\ term[n] \in Nat /\ term'[n] \in Nat
      /\ \A p \in Node : term[p] \in Nat /\ term'[p] \in Nat
  BY <1>1, Zenon DEF History, TypeInv, TypeOK
<1>3. LogsRecorded(L)'
  <2>1. ASSUME NEW p \in Node, p # n PROVE FromLeaders(log'[p], L) /\ TermsUpTo(log'[p], term'[p])
    <3>1. log'[p] = log[p] /\ term'[p] = term[p]
      BY <2>1, Zenon DEF Unled, Others
    <3>2. QED
      BY <1>1, <3>1, Zenon DEF LogsRecorded
  <2>2. QED
    BY <2>1, Zenon DEF LogsRecorded
<1>4. LeadersRecorded(L, W)'
  <2>1. ASSUME NEW p \in Node
        PROVE  /\ role'[p] = "Leader" => L[term'[p]] # <<>> /\ W[term'[p]] = p
               /\ role'[p] = "Candidate" => term'[p] # 0
    <3>1. CASE p = n
      BY <1>1, <1>2, <3>1, SMTT(30) DEF Unled, LeadersRecorded
    <3>2. CASE p # n
      BY <1>1, <3>2, ZenonT(30) DEF Unled, Others, LeadersRecorded
    <3>3. QED
      BY <3>1, <3>2, ZenonT(30)
  <2>2. ASSUME NEW t \in Nat, L[t] # <<>>
        PROVE  /\ Elected(msgs', W[t], t)
               /\ term'[W[t]] >= t
               /\ term'[W[t]] = t => role'[W[t]] # "Candidate" /\ log'[W[t]] = L[t]
    <3>1. W[t] \in Node
      BY <1>2, Zenon
    <3>2. /\ Elected(msgs, W[t], t) /\ term[W[t]] >= t
          /\ term[W[t]] = t => role[W[t]] # "Candidate" /\ log[W[t]] = L[t]
      BY <1>1, <2>2, Zenon DEF LeadersRecorded
    <3>3. Elected(msgs', W[t], t)
      BY <3>2, VotesGrow, Zenon
    <3>4. CASE W[t] # n
      BY <3>1, <3>2, <3>3, <3>4, Zenon DEF Unled, Others
    <3>5. CASE W[t] = n
      <4>1. term'[n] >= t
        BY <1>2, <3>2, <3>5 DEF Unled
      <4>2. CASE term'[n] = t
        <5>1. term[n] = t
          BY <1>2, <3>2, <3>5, <4>2, SMTT(30) DEF Unled
        <5>2. role[n] # "Candidate" /\ log[n] = L[t]
          BY <3>2, <3>5, <5>1, ZenonT(30)
        <5>3. role'[n] # "Candidate"
          BY <1>2, <4>2, <5>1, <5>2, SMTT(30) DEF Unled
        <5>4. log'[n] = log[n]
          BY <2>2, <3>5, <4>2, <5>1, Zenon
        <5>5. QED
          BY <3>3, <3>5, <4>1, <5>2, <5>3, <5>4, Zenon
      <4>3. QED
        BY <3>3, <3>5, <4>1, <4>2, ZenonT(30)
    <3>6. QED
      BY <3>4, <3>5, Zenon
  <2>3. QED
    BY <2>1, <2>2, Zenon DEF LeadersRecorded
<1>5. Addressed'
  BY <1>1, Zenon DEF Addressed, Unled
<1>6. QED
  BY <1>1, <1>3, <1>4, <1>5, Zenon DEF HistoryInv, RequestsRecorded, Unled

\* The batch of a request is the part of the log after the previous entry; it
\* is empty only at the end of the log.
LEMMA BatchIsPart ==
    ASSUME NEW l \in Seq(Entry), NEW next \in 1..Len(l) + 1
    PROVE  /\ PartOf(EntriesBatch(l, next, MaxBatch), next - 1, l)
           /\ EntriesBatch(l, next, MaxBatch) = <<>> => next = Len(l) + 1
<1> DEFINE last == Min({Len(l), next + MaxBatch - 1})
           b == SubSeq(l, next, last)
<1>1. Len(l) \in Nat /\ next \in Nat \ {0} /\ MaxBatch \in Nat \ {0} /\ next + MaxBatch - 1 \in Nat
  BY LogEntry, BatchIsPositive
<1>2. last \in {Len(l), next + MaxBatch - 1} /\ last <= Len(l) /\ last <= next + MaxBatch - 1
  BY <1>1, MinOfTwo, Zenon
<1> HIDE DEF last
<1>3. last \in Nat /\ (last < next => next = Len(l) + 1)
  BY <1>1, <1>2, SMTT(30)
<1>4. /\ Len(b) = (IF next <= last THEN last - next + 1 ELSE 0)
      /\ \A i \in 1..last - next + 1 : b[i] = l[next + i - 1]
  <2>1. \A i \in next..last : l[i] \in Entry
    BY <1>1, <1>2, <1>3, LogEntry, SMTT(30)
  <2>2. QED
    BY <1>1, <1>3, <2>1, PartOfLog, SMTT(30)
<1> HIDE DEF b
<1>5. PartOf(b, next - 1, l)
  <2>1. ASSUME NEW k \in 1..Len(b) PROVE b[k] = l[next - 1 + k]
    BY <1>1, <1>3, <1>4, SMTT(30)
  <2>2. QED
    BY <1>1, <1>2, <1>3, <1>4, <2>1, SMTT(30) DEF PartOf
<1>6. b = <<>> => next = Len(l) + 1
  BY <1>1, <1>3, <1>4, SMTT(30)
<1>7. QED
  BY <1>5, <1>6, Zenon DEF EntriesBatch, b, last

\* The new entries of a Leader's log make history.
LEMMA ActsKeepsLogs ==
    ASSUME NEW L, NEW W, NEW M, NEW V, NEW n \in Node,
           TypeInv, TypeInv', ElectionInv, HistoryInv(L, W), Acts(n), Records(n, L, W, M, V)
    PROVE  History(M, V) /\ LogsRecorded(M)'
<1> DEFINE t == term[n]
           x == log'[n]
<1>1. /\ M \in [Nat -> Seq(Entry)] /\ V \in [Nat -> Node] /\ Extends(L, M)
      /\ t \in Nat /\ M[t] = x /\ t # 0 /\ \A u \in Nat \ {t} : M[u] = L[u]
      /\ log[n] \in Seq(Entry) /\ x \in Seq(Entry) /\ AgreeUpTo(Len(log[n]), log[n], x)
      /\ role[n] = "Leader" => L[t] = log[n]
  <2>1. /\ M \in [Nat -> Seq(Entry)] /\ V \in [Nat -> Node] /\ Extends(L, M)
        /\ t \in Nat /\ M[t] = x /\ t # 0
    BY LeaderExtends, SMTT(30)
  <2>2. \A u \in Nat \ {t} : M[u] = L[u]
    BY LeaderExtends, SMTT(30)
  <2>3. /\ log[n] \in Seq(Entry) /\ x \in Seq(Entry) /\ AgreeUpTo(Len(log[n]), log[n], x)
        /\ role[n] = "Leader" => L[t] = log[n]
    BY LeaderExtends
  <2>4. QED
    BY <2>1, <2>2, <2>3, ZenonT(30)
<1>2. /\ History(L, W) /\ LogsRecorded(L) /\ LeadersRecorded(L, W)
      /\ L \in [Nat -> Seq(Entry)] /\ L[0] = <<>>
  BY Zenon DEF HistoryInv, History
<1>3. Len(log[n]) \in Nat /\ Len(x) \in Nat
  BY <1>1, LogEntry, Zenon
<1>4. /\ Len(x) = Len(log[n]) \/ Len(x) = Len(log[n]) + 1
      /\ Len(x) > Len(log[n]) => x[Len(x)].term = t
      /\ Len(x) = Len(log[n]) => role[n] = "Leader" /\ x = log[n]
  <2>1. CASE role[n] = "Leader" /\ x = log[n]
    BY <1>3, <2>1, SMTT(30)
  <2>2. CASE \E e \in Entry : e.term = t /\ x = Append(log[n], e)
    <3>1. PICK e \in Entry : e.term = t /\ x = Append(log[n], e)
      BY <2>2, ZenonT(30)
    <3>2. Len(x) = Len(log[n]) + 1 /\ x[Len(log[n]) + 1] = e
      BY <1>1, <3>1, AppendAgrees, ZenonT(30)
    <3>3. QED
      BY <1>3, <3>1, <3>2, SMTT(30)
  <2>3. QED
    BY <2>1, <2>2, ZenonT(30) DEF Acts
<1>5. x # <<>> /\ x[Len(x)].term = t
  <2>1. CASE Len(x) = Len(log[n])
    <3>1. L[t] # <<>> /\ x = L[t]
      BY <1>1, <1>2, <1>4, <2>1, Zenon DEF LeadersRecorded
    <3>2. QED
      BY <1>1, <1>2, <3>1, Zenon DEF History
  <2>2. CASE Len(x) # Len(log[n])
    <3>1. Len(x) > Len(log[n]) /\ Len(x) # 0
      BY <1>3, <1>4, <2>2
    <3>2. x # <<>>
      <4> HIDE DEF x
      <4>1. QED
        BY <3>1, EmptyLog, Zenon
    <3>3. QED
      BY <1>4, <3>1, <3>2, ZenonT(30)
  <2>3. QED
    BY <2>1, <2>2, Zenon
<1> HIDE DEF x, t
<1>6. FromLeaders(x, M) /\ TermsUpTo(x, t)
  <2>1. TermsUpTo(log[n], t)
    BY <1>2, Zenon DEF LogsRecorded, t
  <2>2. ASSUME NEW i \in 1..Len(x) PROVE AgreeUpTo(i, x, M[x[i].term]) /\ x[i].term <= t
    <3>1. CASE i <= Len(log[n])
      <4>1. i \in 1..Len(log[n]) /\ i \in Nat
        BY <1>3, <3>1
      <4>2. x[i] = log[n][i]
        BY <1>1, <4>1, Zenon DEF AgreeUpTo
      <4>3. AgreeUpTo(i, log[n], M[x[i].term]) /\ x[i].term <= t
        BY <1>1, <1>2, <2>1, <4>1, <4>2, FromLeadersGrows, Zenon
           DEF FromLeaders, TermsUpTo, LogsRecorded
      <4>4. AgreeUpTo(i, x, M[x[i].term])
        <5>1. i \in 0..Len(log[n])
          BY <1>3, <4>1
        <5>2. AgreeUpTo(i, log[n], x)
          BY <1>1, <1>3, <5>1, AgreeLess, Zenon
        <5>3. QED
          BY <4>3, <5>2, AgreeSym, AgreeTrans, Zenon
      <4>5. QED
        BY <4>3, <4>4, Zenon
    <3>2. CASE i > Len(log[n])
      <4>1. i = Len(x)
        BY <1>3, <1>4, <3>2
      <4>2. x[i].term = t
        BY <1>5, <4>1, Zenon
      <4>3. AgreeUpTo(i, x, x)
        BY <1>3 DEF AgreeUpTo
      <4>4. QED
        BY <1>1, <4>2, <4>3
    <3>3. QED
      BY <1>3, <3>1, <3>2
  <2>3. QED
    BY <2>2, Zenon DEF FromLeaders, TermsUpTo
<1>7. History(M, V)
  <2>1. M[0] = <<>>
    BY <1>1, <1>2, Zenon
  <2>2. ASSUME NEW u \in Nat
        PROVE  /\ FromLeaders(M[u], M) /\ TermsUpTo(M[u], u)
               /\ M[u] # <<>> => M[u][Len(M[u])].term = u
    <3>1. CASE u = t
      BY <1>1, <1>5, <1>6, <3>1, Zenon
    <3>2. CASE u # t
      <4>1. /\ M[u] = L[u] /\ L[u] \in Seq(Entry) /\ FromLeaders(L[u], L) /\ TermsUpTo(L[u], u)
            /\ L[u] # <<>> => L[u][Len(L[u])].term = u
        BY <1>1, <1>2, <3>2, Zenon DEF History
      <4>2. FromLeaders(L[u], M)
        BY <1>1, <1>2, <4>1, FromLeadersGrows, Zenon
      <4>3. QED
        BY <4>1, <4>2, Zenon
    <3>3. QED
      BY <3>1, <3>2, Zenon
  <2>3. QED
    BY <1>1, <2>1, <2>2, Zenon DEF History
<1>8. LogsRecorded(M)'
  <2>1. ASSUME NEW p \in Node PROVE FromLeaders(log'[p], M) /\ TermsUpTo(log'[p], term'[p])
    <3>1. CASE p = n
      BY <1>6, <3>1, Zenon DEF x, t, Acts, Leads
    <3>2. CASE p # n
      <4>1. log'[p] = log[p] /\ term'[p] = term[p]
        BY <3>2, Zenon DEF Acts, Leads, Others
      <4>2. log[p] \in Seq(Entry) /\ FromLeaders(log[p], L) /\ TermsUpTo(log[p], term[p])
        BY <1>2, Zenon DEF LogsRecorded, TypeInv, TypeOK
      <4>3. FromLeaders(log[p], M)
        BY <1>1, <1>2, <4>2, FromLeadersGrows, Zenon
      <4>4. QED
        BY <4>1, <4>2, <4>3, Zenon
    <3>3. QED
      BY <3>1, <3>2, Zenon
  <2>2. QED
    BY <2>1, Zenon DEF LogsRecorded
<1>9. QED
  BY <1>7, <1>8, Zenon

\* The requests a Leader sends are part of its log.
LEMMA RequestOfRecorded ==
    ASSUME NEW M, NEW V, NEW n \in Node, NEW r \in AppendRequests, TypeInv', Leads(n), RequestOf(n, r),
           M[term[n]] = log'[n], V[term[n]] = n, log'[n] # <<>>, log'[n][Len(log'[n])].term = term[n]
    PROVE  RequestRecorded(r, M, V)
<1> DEFINE l == log'[n]
           next == FirstToSend(nextIndex'[n][r.to], l)
<1>1. l \in Seq(Entry) /\ Len(l) \in Nat /\ r.to \in Node
  BY LogEntry, Zenon DEF TypeInv, TypeOK, AppendRequests
<1>2. nextIndex'[n][r.to] \in Nat \ {0}
  <2>1. nextIndex' \in [Node -> [Node -> Nat]] /\ role'[n] = "Leader"
    BY Zenon DEF TypeInv, TypeOK, Leads
  <2>2. nextIndex'[n][r.to] # 0
    BY <1>1, <2>1, Zenon DEF TypeInv, NextIndexPositive
  <2>3. QED
    BY <1>1, <2>1, <2>2, Zenon
<1>3. next \in 1..Len(l) + 1
  <2>1. next \in {nextIndex'[n][r.to], Len(l) + 1} /\ next <= Len(l) + 1
    BY <1>1, <1>2, MinOfTwo DEF FirstToSend
  <2>2. QED
    BY <1>1, <1>2, <2>1
<1>4. /\ r.from = n /\ r.term = term[n]
      /\ r.prevLogIndex = next - 1
      /\ r.prevLogTerm = TermAt(l, next - 1)
      /\ r.entries = EntriesBatch(l, next, MaxBatch)
  BY Zenon DEF RequestOf
<1> HIDE DEF next, l
<1>5. /\ PartOf(EntriesBatch(l, next, MaxBatch), next - 1, l)
      /\ EntriesBatch(l, next, MaxBatch) = <<>> => next = Len(l) + 1
  BY <1>1, <1>3, BatchIsPart, Zenon
<1>6. next = Len(l) + 1 => TermAt(l, next - 1) = term[n]
  BY <1>1, EmptyLog DEF l, TermAt
<1>7. M[r.term] = l /\ V[r.term] = n /\ l # <<>>
  BY <1>4, Zenon DEF l
<1>8. QED
  BY <1>4, <1>5, <1>6, <1>7, Zenon DEF RequestRecorded

\* A Leader's step keeps the history, with its log in it.
LEMMA ActsKeepsHistory ==
    ASSUME NEW L, NEW W, NEW M, NEW V, NEW n \in Node,
           TypeInv, TypeInv', ElectionInv, ElectionInv', HistoryInv(L, W), msgs \subseteq msgs',
           Acts(n), Records(n, L, W, M, V)
    PROVE  HistoryInv(M, V)'
<1> DEFINE t == term[n]
<1>1. /\ M \in [Nat -> Seq(Entry)] /\ V \in [Nat -> Node] /\ Extends(L, M)
      /\ t \in Nat /\ M[t] = log'[n] /\ V[t] = n /\ t # 0
  BY LeaderExtends
<1>2. \A u \in Nat \ {t} : M[u] = L[u] /\ V[u] = W[u]
  BY LeaderExtends
<1>3. \A u \in Nat : L[u] # <<>> => V[u] = W[u]
  BY LeaderExtends
<1>4. History(M, V) /\ LogsRecorded(M)'
  BY ActsKeepsLogs, Zenon
<1>5. /\ RequestsRecorded(L, W) /\ LeadersRecorded(L, W) /\ Addressed
      /\ L \in [Nat -> Seq(Entry)] /\ W \in [Nat -> Node]
  BY Zenon DEF HistoryInv, History
<1>6. log'[n] # <<>>
  <2>1. CASE role[n] = "Leader" /\ log'[n] = log[n]
    <3>1. L[t] = log[n]
      BY <2>1, LeaderExtends
    <3>2. QED
      BY <1>5, <2>1, <3>1, Zenon DEF LeadersRecorded
  <2>2. ASSUME NEW e \in Entry, log'[n] = Append(log[n], e) PROVE log'[n] # <<>>
    <3>1. log[n] \in Seq(Entry)
      BY Zenon DEF TypeInv, TypeOK
    <3>2. Append(log[n], e) # <<>>
      BY <3>1, AppendedLog
    <3>3. QED
      BY <2>2, <3>2, Zenon
  <2>3. QED
    BY <2>1, <2>2, Zenon DEF Acts
<1>7. log'[n][Len(log'[n])].term = t
  BY <1>1, <1>4, <1>6, Zenon DEF History
<1>8. Leads(n) /\ Others(n) /\ role'[n] = "Leader" /\ term'[n] = t
  BY Zenon DEF Acts, Leads
<1>9. RequestsRecorded(M, V)'
  <2>1. ASSUME NEW r \in msgs', r.type = "AppendEntries" PROVE RequestRecorded(r, M, V)
    <3>1. r \in AppendRequests
      BY <2>1, MessageKinds, Zenon DEF TypeInv, TypeOK
    <3>2. CASE r \in msgs
      <4>1. RequestRecorded(r, L, W)
        BY <1>5, <2>1, <3>2, Zenon DEF RequestsRecorded
      <4>2. QED
        BY <1>1, <1>3, <1>5, <3>1, <4>1, RequestStaysRecorded, Zenon
    <3>3. CASE r \notin msgs
      BY <1>1, <1>6, <1>7, <1>8, <2>1, <3>1, <3>3, RequestOfRecorded, Zenon DEF Leads
    <3>4. QED
      BY <3>2, <3>3, Zenon
  <2>2. QED
    BY <2>1, Zenon DEF RequestsRecorded
<1> HIDE DEF t
<1>10. LeadersRecorded(M, V)'
  <2>1. ASSUME NEW p \in Node
        PROVE  /\ role'[p] = "Leader" => M[term'[p]] # <<>> /\ V[term'[p]] = p
               /\ role'[p] = "Candidate" => term'[p] # 0
    <3>1. CASE p = n
      BY <1>1, <1>6, <1>8, <3>1, Zenon
    <3>2. CASE p # n
      <4>1. role'[p] = role[p] /\ term'[p] = term[p] /\ term[p] \in Nat
        BY <1>8, <3>2, Zenon DEF Others, TypeInv, TypeOK
      <4>2. CASE role[p] = "Leader"
        <5>1. term[p] # t
          BY <1>1, <3>2, <4>2, ElectedOnce, Zenon DEF ElectionInv, LeadersElected, Acts, t
        <5>2. QED
          BY <1>2, <1>5, <4>1, <4>2, <5>1, SMTT(30) DEF LeadersRecorded
      <4>3. CASE role[p] # "Leader"
        BY <1>5, <4>1, <4>3, Zenon DEF LeadersRecorded
      <4>4. QED
        BY <4>2, <4>3, Zenon
    <3>3. QED
      BY <3>1, <3>2, Zenon
  <2>2. ASSUME NEW u \in Nat, M[u] # <<>>
        PROVE  /\ Elected(msgs', V[u], u)
               /\ term'[V[u]] >= u
               /\ term'[V[u]] = u => role'[V[u]] # "Candidate" /\ log'[V[u]] = M[u]
    <3>1. CASE u = t
      <4>1. Elected(msgs', n, t)
        BY <1>8, Zenon DEF ElectionInv, LeadersElected
      <4>2. QED
        BY <1>1, <1>8, <3>1, <4>1
    <3>2. CASE u # t
      <4>1. M[u] = L[u] /\ V[u] = W[u] /\ W[u] \in Node
        BY <1>2, <1>5, <3>2, Zenon
      <4>2. /\ Elected(msgs, W[u], u) /\ term[W[u]] >= u
            /\ term[W[u]] = u => role[W[u]] # "Candidate" /\ log[W[u]] = L[u]
        BY <1>5, <2>2, <4>1, Zenon DEF LeadersRecorded
      <4>3. Elected(msgs', W[u], u)
        BY <4>2, VotesGrow, Zenon
      <4>4. CASE W[u] = n
        <5>1. term[n] = t
          BY Zenon DEF t
        <5>2. QED
          BY <1>8, <3>2, <4>1, <4>2, <4>3, <4>4, <5>1, Zenon
      <4>5. CASE W[u] # n
        BY <1>8, <4>1, <4>2, <4>3, <4>5 DEF Others
      <4>6. QED
        BY <4>4, <4>5, Zenon
    <3>3. QED
      BY <3>1, <3>2, Zenon
  <2>3. QED
    BY <2>1, <2>2, Zenon DEF LeadersRecorded
<1>11. QED
  BY <1>4, <1>5, <1>8, <1>9, <1>10, Zenon DEF HistoryInv, Addressed, Leads, RequestOf, Peers

\* A Follower's step keeps the history.
LEMMA FollowsKeepsHistory ==
    ASSUME NEW L, NEW W, NEW n \in Node, NEW m \in msgs, TypeInv, TypeInv', HistoryInv(L, W),
           msgs \subseteq msgs', Accepts(n, m) \/ Crashes(n, m) \/ Rejects(n, m)
    PROVE  HistoryInv(L, W)'
<1>1. /\ Follows(n, m) /\ m \in AppendRequests /\ m.term \in Nat /\ m.to = n /\ m.to # m.from
      /\ m.type = "AppendEntries" /\ term[n] \in Nat /\ L \in [Nat -> Seq(Entry)]
  BY Zenon
     DEF Accepts, Crashes, Rejects, Follows, AppendRequests, HistoryInv, Addressed, TypeInv,
         TypeOK, History
<1>2. Unled(n)
  <2>1. \A r \in msgs' : \/ r \in msgs
                         \/ r.type = "AppendEntriesResponse" /\ r.to = m.from /\ r.from = n
    BY DEF Accepts, Crashes, Rejects, AppendResponse
  <2>2. QED
    BY <1>1, <2>1, Zenon DEF Unled, Follows
<1>3. FromLeaders(log[n], L) /\ TermsUpTo(log[n], term[n]) /\ Len(log[n]) \in Nat
      /\ log[n] \in Seq(Entry)
  BY DEF HistoryInv, LogsRecorded, TypeInv, TypeOK
<1>4. FromLeaders(log[n], L) /\ TermsUpTo(log[n], term'[n])
  BY <1>1, <1>3, TermsUpToLater, Zenon DEF Follows
<1>5. CASE log'[n] = log[n]
  BY <1>2, <1>4, <1>5, UnledKeepsHistory, Zenon
<1>6. CASE log'[n] # log[n]
  <2>1. /\ Consistent(n, m)
        /\ \/ log'[n] = AppendNew(log[n], m.prevLogIndex, m.entries)
           \/ log'[n] \in PartialLogs(log[n], m.prevLogIndex, m.entries)
    BY <1>6, Zenon DEF Accepts, Crashes, Rejects, LogStays
  <2> DEFINE x == L[m.term]
             y == log'[n]
  <2>2. y \in Seq(Entry) /\ AgreeUpTo(Len(y), y, x) /\ n # W[m.term] /\ x \in Seq(Entry)
    BY <1>1, <1>6, <2>1, FollowerTakes, Zenon
  <2>3. FromLeaders(x, L) /\ TermsUpTo(x, m.term)
    BY <1>1, Zenon DEF HistoryInv, History
  <2>4. term'[n] = m.term
    BY <1>1, Zenon DEF Follows
  <2> HIDE DEF x, y
  <2>5. FromLeaders(y, L) /\ TermsUpTo(y, m.term)
    BY <1>1, <2>2, <2>3, PrefixFromLeaders, Zenon
  <2>6. FromLeaders(log'[n], L) /\ TermsUpTo(log'[n], term'[n])
    BY <2>4, <2>5, Zenon DEF y
  <2>7. term'[n] = term[n] => W[term[n]] # n
    BY <2>2, <2>4, Zenon
  <2>8. QED
    BY <1>2, <2>6, <2>7, UnledKeepsHistory, Zenon
<1>7. QED
  BY <1>5, <1>6, Zenon

\* A Node that listens or campaigns keeps the history.
LEMMA ListensKeepsHistory ==
    ASSUME NEW L, NEW W, NEW n \in Node, TypeInv, TypeInv', HistoryInv(L, W), msgs \subseteq msgs',
           Listens(n) \/ Campaigns(n)
    PROVE  HistoryInv(L, W)'
<1>1. log'[n] = log[n] /\ term'[n] >= term[n] /\ term[n] \in Nat /\ term'[n] \in Nat
  BY DEF TypeInv, TypeOK, Listens, Campaigns, LogStays
<1>2. Unled(n)
  <2>1. CASE Listens(n)
    <3>1. ASSUME NEW r \in msgs', r \notin msgs
          PROVE  r.type # "AppendEntries" /\ (r.type = "AppendEntriesResponse" => r.to # r.from)
      <4>1. CASE Inert(r)
        BY <4>1, Zenon DEF Inert, Hintless
      <4>2. CASE VoteOf(n, r)
        BY <4>2, Zenon DEF VoteOf
      <4>3. QED
        BY <2>1, <3>1, <4>1, <4>2, Zenon DEF Listens
    <3>2. QED
      BY <2>1, <3>1, Zenon DEF Listens, Unled
  <2>2. CASE Campaigns(n)
    BY <1>1, <2>2 DEF Campaigns, Unled
  <2>3. QED
    BY <2>1, <2>2, Zenon
<1>3. FromLeaders(log[n], L) /\ TermsUpTo(log[n], term[n]) /\ log[n] \in Seq(Entry)
  BY Zenon DEF HistoryInv, LogsRecorded, TypeInv, TypeOK
<1>4. QED
  BY <1>1, <1>2, <1>3, UnledKeepsHistory, TermsUpToLater, Zenon

\* Before the first election there is no Leader.
LEMMA InitHasHistory == Init => \E L, W : HistoryInv(L, W) /\ \A t \in Nat : L[t] = <<>>
<1> SUFFICES ASSUME Init PROVE \E L, W : HistoryInv(L, W) /\ \A t \in Nat : L[t] = <<>>
  OBVIOUS
<1>1. PICK n \in Node : TRUE
  BY NodeAssumption, FS_EmptySet
<1> DEFINE L == [t \in Nat |-> <<>>]
           W == [t \in Nat |-> n]
<1>2. /\ L \in [Nat -> Seq(Entry)] /\ W \in [Nat -> Node] /\ \A t \in Nat : L[t] = <<>>
      /\ Len(<<>>) = 0
  BY EmptyLog, Zenon
<1> HIDE DEF L, W
<1>3. \A t \in Nat : FromLeaders(<<>>, L) /\ TermsUpTo(<<>>, t)
  BY <1>2 DEF FromLeaders, TermsUpTo
<1>4. LogsRecorded(L)
  BY <1>3, Zenon DEF Init, LogsRecorded
<1>5. LeadersRecorded(L, W) /\ RequestsRecorded(L, W) /\ Addressed
  BY <1>2, Zenon DEF Init, LeadersRecorded, RequestsRecorded, Addressed
<1>6. HistoryInv(L, W)
  BY <1>2, <1>3, <1>4, <1>5 DEF HistoryInv, History
<1>7. QED
  BY <1>2, <1>6, Zenon

\* Logs with a history match.
LEMMA HistoryMatches ==
    ASSUME NEW L, NEW W, TypeInv, HistoryInv(L, W)
    PROVE  LogMatching
<1> SUFFICES ASSUME NEW n \in Node, NEW p \in Node, NEW i \in DOMAIN log[n] \cap DOMAIN log[p],
                    log[n][i].term = log[p][i].term
             PROVE  AgreeUpTo(i, log[n], log[p])
  BY Zenon DEF LogMatching
<1> DEFINE l == log[n]
           x == log[p]
<1>1. /\ L \in [Nat -> Seq(Entry)] /\ l \in Seq(Entry) /\ x \in Seq(Entry)
      /\ FromLeaders(l, L) /\ FromLeaders(x, L)
  BY Zenon DEF HistoryInv, History, LogsRecorded, TypeInv, TypeOK
<1>2. i \in DOMAIN l /\ i \in DOMAIN x /\ l[i].term = x[i].term
  OBVIOUS
<1> HIDE DEF l, x
<1>3. SamePast(l, x)
  BY <1>1, LeadersGivePasts, Zenon
<1>4. Len(l) \in Nat /\ Len(x) \in Nat /\ i \in 1..Len(l) /\ i \in 1..Len(x)
  BY <1>1, <1>2, LogLength, Zenon
<1>5. AgreeUpTo(i, l, x)
  BY <1>2, <1>3, <1>4 DEF SamePast
<1>6. QED
  BY <1>5, Zenon DEF l, x

=============================================================================
