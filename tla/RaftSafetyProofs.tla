-------------------------- MODULE RaftSafetyProofs --------------------------
(***************************************************************************)
(* The safety theorems of Raft, for every Cluster: the inductive invariants*)
(* of the other proof modules put together, and what they imply.           *)
(***************************************************************************)
EXTENDS RaftProofs, RaftElectionProofs, RaftCommitProofs

(* What CommitInv implies. *)

LEMMA CommitGivesMatch ==
    ASSUME NEW L, NEW W, TypeInv, HistoryInv(L, W), CommitInv(L, W)
    PROVE  MatchIndexSound
<1> SUFFICES ASSUME NEW n \in Node, NEW p \in Node, role[n] = "Leader", term[p] = term[n], p # n
             PROVE  AgreeUpTo(matchIndex[n][p], log[n], log[p])
  BY Zenon DEF MatchIndexSound
<1> DEFINE k == matchIndex[n][p]
           t == term[n]
<1>1. k \in Nat /\ t \in Nat /\ log[n] \in Seq(Entry) /\ log[p] \in Seq(Entry)
  BY Zenon DEF TypeInv, TypeOK
<1>2. Len(log[n]) \in Nat /\ Len(log[p]) \in Nat
  BY <1>1, LogEntry, Zenon
<1>3. CASE k = 0
  BY <1>2, <1>3 DEF AgreeUpTo
<1>4. CASE k # 0
  <2>1. Acked(p, t, k)
    BY <1>4, Zenon DEF CommitInv, MatchesAcked
  <2>2. Kept(L, p, t, k)
    BY <1>1, <1>4, <2>1, Zenon DEF CommitInv, AcksKept, Holds
  <2>3. AgreeUpTo(k, log[p], L[t])
    <3> HIDE DEF k
    <3>1. t + 1 .. term[p] = {}
      BY <1>1
    <3>2. QED
      BY <2>2, <3>1, Zenon DEF Kept
  <2>4. L[t] = log[n]
    BY LeaderLog, Zenon
  <2>5. QED
    BY <2>3, <2>4, AgreeSym, Zenon
<1>5. QED
  BY <1>3, <1>4, Zenon

LEMMA CommitGivesCompleteness ==
    ASSUME NEW L, NEW W, TypeInv, HistoryInv(L, W), CommitInv(L, W)
    PROVE  LeaderCompleteness
<1> SUFFICES ASSUME NEW n \in Node, NEW p \in Node, role[n] = "Leader", term[n] >= term[p]
             PROVE  AgreeUpTo(commitIndex[p], log[n], log[p])
  BY Zenon DEF LeaderCompleteness
<1>1. /\ commitIndex[p] \in Nat /\ term[n] \in Nat /\ term[p] \in Nat /\ log[p] \in Seq(Entry)
  BY Zenon DEF TypeInv, TypeOK
<1>2. ChosenBy(L, W, commitIndex[p], log[p], term[p]) /\ LeadersQualified(L, W) /\ History(L, W)
  BY Zenon DEF CommitInv, CommitsChosen, HistoryInv
<1>3. L[term[n]] = log[n] /\ L[term[n]] # <<>>
  BY LeaderLog, Zenon
<1>4. AgreeUpTo(commitIndex[p], log[p], L[term[n]])
  BY <1>1, <1>2, <1>3, ChosenByHeld, Zenon
<1>5. QED
  BY <1>3, <1>4, AgreeSym, Zenon

LEMMA CommitGivesQuorum ==
    ASSUME NEW L, NEW W, TypeInv, HistoryInv(L, W), CommitInv(L, W)
    PROVE  CommittedOnQuorum
<1> SUFFICES ASSUME NEW n \in Node
             PROVE  IsQuorum({p \in Node : AgreeUpTo(commitIndex[n], log[n], log[p])})
  BY Zenon DEF CommittedOnQuorum
<1> DEFINE c == commitIndex[n]
           P == {p \in Node : AgreeUpTo(c, log[n], log[p])}
<1>1. c \in Nat /\ term \in [Node -> Nat] /\ \A p \in Node : log[p] \in Seq(Entry) /\ Len(log[p]) \in Nat
  <2>1. c \in Nat /\ term \in [Node -> Nat] /\ \A p \in Node : log[p] \in Seq(Entry)
    BY Zenon DEF TypeInv, TypeOK
  <2>2. QED
    BY <2>1, LogEntry, Zenon
<1>2. \E Q \in SUBSET Node : IsQuorum(Q) /\ \A w \in Q : AgreeUpTo(c, log[n], log[w])
  <2>1. CASE c = 0
    <3>1. IsQuorum(Node)
      BY NodeIsQuorum, Zenon
    <3>2. QED
      BY <1>1, <2>1, <3>1, SMTT(30) DEF AgreeUpTo
  <2>2. CASE c # 0
    <3>1. ChosenBy(L, W, c, log[n], term[n]) /\ LeadersQualified(L, W) /\ History(L, W) /\ AcksKept(L, W)
      BY Zenon DEF CommitInv, CommitsChosen, HistoryInv
    <3>2. PICK s \in Nat, k \in Nat : k >= c /\ Chosen(L, W, s, k) /\ AgreeUpTo(c, log[n], L[s])
      BY <1>1, <2>2, <3>1, SMTT(30) DEF ChosenBy
    <3>3. PICK Q \in SUBSET Node : IsQuorum(Q) /\ \A w \in Q : Holds(L, W, w, s, k)
      BY <3>2, Zenon DEF Chosen
    <3>4. ASSUME NEW w \in Q PROVE AgreeUpTo(c, log[n], log[w])
      <4>1. w \in Node /\ k # 0 /\ k \in Nat
        BY <2>2, <1>1, <3>2, <3>3, SMTT(30)
      <4>2. \A u \in s + 1 .. term[w] : ~Lacks(L, u, s, k)
        <5> SUFFICES ASSUME NEW u \in s + 1 .. term[w] PROVE ~Lacks(L, u, s, k)
          OBVIOUS
        <5>1. u \in Nat /\ s < u
          BY <1>1, <4>1
        <5>2. QED
          BY <3>1, <3>2, <5>1, LaterLeadersHold, Zenon
      <4>3. AgreeUpTo(k, log[w], L[s])
        BY <3>1, <3>3, <4>1, <4>2, Zenon DEF Kept, AcksKept
      <4>4. AgreeUpTo(c, log[w], L[s])
        <5>1. c \in 0 .. k /\ log[w] \in Seq(Entry) /\ Len(log[w]) \in Nat
          BY <1>1, <3>2, <4>1, SMTT(30)
        <5>2. L[s] \in Seq(Entry)
          BY <3>1, Zenon DEF History
        <5>3. Len(L[s]) \in Nat
          BY <5>2, LogEntry, Zenon
        <5>4. QED
          BY <4>3, <5>1, <5>3, AgreeLess, Zenon
      <4>5. QED
        BY <3>2, <4>4, AgreeSym, AgreeTrans, Zenon
    <3>5. QED
      BY <3>3, <3>4, Zenon
  <2>3. QED
    BY <2>1, <2>2, Zenon
<1>3. PICK Q \in SUBSET Node : IsQuorum(Q) /\ Q \subseteq P
  BY <1>2, Zenon
<1> HIDE DEF P
<1>4. QED
  BY <1>3, QuorumGrows, Zenon DEF P

-----------------------------------------------------------------------------
(* What the Cluster committed, and which steps move it. *)

LEMMA CommitGivesAgreement ==
    ASSUME NEW L, NEW W, TypeInv, HistoryInv(L, W), CommitInv(L, W)
    PROVE  CommitsAgree
<1> SUFFICES ASSUME NEW n \in Node, NEW p \in Node, commitIndex[n] <= commitIndex[p]
             PROVE  AgreeUpTo(commitIndex[n], log[n], log[p])
  BY Zenon DEF CommitsAgree
<1>1. PICK c, d, x, y, t, u : /\ c = commitIndex[n] /\ x = log[n] /\ t = term[n]
                              /\ d = commitIndex[p] /\ y = log[p] /\ u = term[p]
  OBVIOUS
<1>2. /\ c \in Nat /\ d \in Nat /\ t \in Nat /\ u \in Nat /\ x \in Seq(Entry) /\ y \in Seq(Entry)
      /\ c <= d
  BY <1>1, Zenon DEF TypeInv, TypeOK
<1>3. /\ ChosenBy(L, W, c, x, t) /\ ChosenBy(L, W, d, y, u)
      /\ LeadersQualified(L, W) /\ History(L, W)
  BY <1>1, Zenon DEF CommitInv, CommitsChosen, HistoryInv
<1>4. Len(x) \in Nat /\ Len(y) \in Nat /\ \A s \in Nat : Len(L[s]) \in Nat
  BY <1>2, <1>3, LogEntry, Zenon DEF History
<1>5. CASE c = 0
  BY <1>1, <1>4, <1>5, SMTT(30) DEF AgreeUpTo
<1>6. CASE c # 0
  <2>1. PICK s \in 0 .. t, k \in Nat : k >= c /\ Chosen(L, W, s, k) /\ AgreeUpTo(c, x, L[s])
    BY <1>3, <1>6, Zenon DEF ChosenBy
  <2>2. PICK v \in 0 .. u, j \in Nat : j >= d /\ Chosen(L, W, v, j) /\ AgreeUpTo(d, y, L[v])
    BY <1>2, <1>3, <1>6, SMTT(30) DEF ChosenBy
  <2>3. s \in Nat /\ v \in Nat /\ s \in 0 .. s /\ v \in 0 .. v
    BY <1>2
  <2>4. ChosenBy(L, W, c, x, s) /\ ChosenBy(L, W, d, y, v)
    BY <2>1, <2>2, <2>3, Zenon DEF ChosenBy
  <2>5. L[s] # <<>> /\ L[v] # <<>>
    <3>1. Len(L[s]) # 0 /\ Len(L[v]) # 0
      BY <1>4, <2>1, <2>2, <2>3, SMTT(30) DEF Chosen
    <3>2. QED
      BY <3>1, EmptyLog, Zenon
  <2>6. \E w \in Nat : AgreeUpTo(c, x, L[w]) /\ AgreeUpTo(d, y, L[w])
    <3>1. CASE s <= v
      BY <1>2, <1>3, <2>2, <2>3, <2>4, <2>5, <3>1, ChosenByHeld, Zenon
    <3>2. CASE v <= s
      BY <1>2, <1>3, <2>1, <2>3, <2>4, <2>5, <3>2, ChosenByHeld, Zenon
    <3>3. QED
      BY <2>3, <3>1, <3>2, SMTT(30)
  <2>7. PICK w \in Nat : AgreeUpTo(c, x, L[w]) /\ AgreeUpTo(d, y, L[w])
    BY <2>6, Zenon
  <2>8. AgreeUpTo(c, y, L[w])
    <3>1. c \in 0 .. d
      BY <1>2, SMTT(30)
    <3>2. QED
      BY <1>2, <1>4, <2>7, <3>1, AgreeLess, Zenon
  <2>9. QED
    BY <1>1, <2>7, <2>8, AgreeSym, AgreeTrans, Zenon
<1>7. QED
  BY <1>5, <1>6, Zenon

LEMMA CommitGivesLast ==
    ASSUME NEW L, NEW W, TypeInv, HistoryInv(L, W), CommitInv(L, W)
    PROVE  LeadersHoldLast
<1> SUFFICES ASSUME NEW n \in Node, NEW p \in Node, role[n] = "Leader", Foremost(p),
                    TermAt(log[p], commitIndex[p]) <= term[n]
             PROVE  AgreeUpTo(commitIndex[p], log[n], log[p])
  BY Zenon DEF LeadersHoldLast
<1>1. PICK q \in Node : Foremost(q) /\ Decided(L, W, q)
  BY Zenon DEF CommitInv, LastDecided
<1>2. PICK c, x, y, z, t : /\ c = commitIndex[p] /\ x = log[p] /\ y = log[q]
                           /\ z = log[n] /\ t = term[n]
  OBVIOUS
<1>3. c \in Nat /\ x \in Seq(Entry) /\ z \in Seq(Entry) /\ t \in Nat /\ commitIndex[q] \in Nat
  BY <1>2, ZenonT(30) DEF TypeInv, TypeOK
<1>4. commitIndex[q] = c
  BY <1>1, <1>2, <1>3, SMTT(30) DEF Foremost
<1>5. AgreeUpTo(c, x, y)
  BY <1>1, <1>2, CommitGivesAgreement, ZenonT(30) DEF Foremost, CommitsAgree
<1>6. CASE c = 0
  <2>1. Len(x) \in Nat /\ Len(z) \in Nat
    BY <1>3, LogEntry, Zenon
  <2>2. QED
    BY <1>2, <1>6, <2>1, SMTT(30) DEF AgreeUpTo
<1>7. CASE c # 0
  <2>1. PICK s \in Nat : Chosen(L, W, s, c) /\ AgreeUpTo(c, y, L[s])
    BY <1>1, <1>2, <1>4, <1>7, Zenon DEF Decided
  <2>2. AgreeUpTo(c, x, L[s])
    BY <1>5, <2>1, AgreeTrans, Zenon
  <2>3. s <= t
    <3>1. c \in 1 .. Len(L[s]) /\ L[s][c].term = s
      BY <2>1, Zenon DEF Chosen
    <3>2. Len(x) \in Nat
      BY <1>3, LogEntry, Zenon
    <3>3. c \in 1 .. Len(x) /\ x[c] = L[s][c]
      BY <1>3, <1>7, <2>2, <3>2, SMTT(30) DEF AgreeUpTo
    <3>4. TermAt(x, c) = s
      BY <3>1, <3>3, Zenon DEF TermAt
    <3>5. QED
      BY <1>2, <3>4, Zenon
  <2>4. L[t] = z /\ L[t] # <<>> /\ LeadersQualified(L, W) /\ History(L, W)
    BY <1>2, LeaderLog, Zenon DEF CommitInv, HistoryInv
  <2>5. ChosenBy(L, W, c, x, s)
    BY <1>3, <2>1, <2>2, SMTT(30) DEF ChosenBy
  <2>6. AgreeUpTo(c, x, L[t])
    BY <1>3, <2>3, <2>4, <2>5, ChosenByHeld, Zenon
  <2>7. QED
    BY <1>2, <2>4, <2>6, AgreeSym, Zenon
<1>8. QED
  BY <1>6, <1>7, Zenon

\* A Leader accepts no request: one of its own term is its own, and one of a
\* later term comes after an entry that the Leader cannot have.
LEMMA LeadersNeverAccept ==
    ASSUME NEW L, NEW W, NEW n \in Node, NEW m \in msgs, TypeInv, HistoryInv(L, W),
           RequestsProbe(L), Accepts(n, m) \/ Crashes(n, m)
    PROVE  role[n] # "Leader"
<1> SUFFICES ASSUME role[n] = "Leader" PROVE FALSE
  OBVIOUS
<1>1. /\ Consistent(n, m) /\ m \in AppendRequests /\ m.to = n /\ m.term >= term[n]
  BY Zenon DEF Accepts, Crashes, Follows
<1>2. /\ m.type = "AppendEntries" /\ m.term \in Nat /\ m.prevLogIndex \in Nat
      /\ term[n] \in Nat /\ log[n] \in Seq(Entry)
  BY <1>1, Zenon DEF AppendRequests, TypeInv, TypeOK
<1>3. /\ m.from = W[m.term] /\ m.prevLogTerm = TermAt(L[m.term], m.prevLogIndex)
      /\ m.to # m.from
  BY <1>2, Zenon DEF HistoryInv, RequestsRecorded, RequestRecorded, Addressed
<1>4. m.term > term[n]
  <2>1. W[term[n]] = n
    BY LeaderLog, ZenonT(60), ZenonT(30)
  <2>2. m.term # term[n]
    BY <1>1, <1>3, <2>1, Zenon
  <2>3. QED
    BY <1>1, <1>2, <2>2, SMTT(30)
<1>5. m.prevLogTerm = m.term
  BY <1>1, <1>2, <1>3, <1>4, SMTT(30) DEF RequestsProbe, Probes
<1>6. m.prevLogIndex \in 1 .. Len(log[n]) /\ log[n][m.prevLogIndex].term = m.term
  BY <1>1, <1>2, <1>4, <1>5, SMTT(30) DEF TermAt, Consistent, Matches
<1>7. QED
  BY <1>2, <1>4, <1>6, SMTT(30) DEF HistoryInv, LogsRecorded, TermsUpTo

\* Nobody led the term of a Node that wins.
LEMMA WinsAscends ==
    ASSUME NEW L, NEW W, NEW n \in Node, TypeInv, ElectionInv, HistoryInv(L, W), Wins(n)
    PROVE  Ascends(n)
<1>1. /\ role[n] = "Candidate" /\ Elected(msgs, n, term[n]) /\ term[n] \in Nat /\ term[n] # 0
  BY Zenon DEF Wins, TypeInv, TypeOK, HistoryInv, LeadersRecorded
<1>2. L[term[n]] = <<>>
  <2> SUFFICES ASSUME L[term[n]] # <<>> PROVE FALSE
    OBVIOUS
  <2> DEFINE w == W[term[n]]
  <2>1. w \in Node
    BY <1>1, Zenon DEF HistoryInv, History
  <2>2. Elected(msgs, w, term[n]) /\ (term[w] = term[n] => role[w] # "Candidate")
    BY <1>1, Zenon DEF HistoryInv, LeadersRecorded
  <2> HIDE DEF w
  <2>3. w = n
    BY <1>1, <2>1, <2>2, ElectedOnce, Zenon DEF ElectionInv
  <2>4. QED
    BY <1>1, <2>2, <2>3, Zenon
<1>3. ASSUME NEW q \in Node, role[q] = "Leader" PROVE term[q] # term[n]
  <2>1. L[term[q]] # <<>>
    BY <1>3, LeaderLog, Zenon
  <2>2. QED
    BY <1>2, <2>1, Zenon
<1>4. ASSUME NEW q \in Node, NEW i \in 1 .. Len(log[q]) PROVE log[q][i].term # term[n]
  <2>1. log[q] \in Seq(Entry)
    BY Zenon DEF TypeInv, TypeOK
  <2>2. i \in Nat \ {0} /\ Len(log[q]) \in Nat
    BY <2>1, LogEntry, SMTT(30)
  <2>3. AgreeUpTo(i, log[q], L[log[q][i].term])
    BY Zenon DEF HistoryInv, LogsRecorded, FromLeaders
  <2>4. log[q][i].term = term[n] => Len(<<>>) >= i
    BY <1>2, <2>3, Zenon DEF AgreeUpTo
  <2>5. QED
    BY <2>2, <2>4, EmptyLog, SMTT(30)
<1>5. QED
  BY <1>1, <1>3, <1>4, Zenon DEF Ascends

\* Every step serves.
LEMMA MovesServe ==
    ASSUME NEW L, NEW W, NEW M, NEW V, NEW n \in Node, ElectionInv, Passes(L, W, M, V),
           Moves(n, L, W, M, V), CommitInv(L, W)
    PROVE  Serves(n)
<1>0. /\ TypeInv /\ TypeInv' /\ HistoryInv(L, W) /\ commitIndex \in [Node -> Nat]
      /\ RequestsProbe(L) /\ LeadersQualified(L, W) /\ CommitsChosen(L, W) /\ RequestsBehind
  BY ZenonT(30) DEF Passes, TypeInv, TypeOK, CommitInv
<1>1. Others(n)
  BY Zenon
     DEF Moves, Listens, Campaigns, Wins, Sends, Learns, Leads, Accepts, Crashes, Rejects, Follows
<1>2. role[n] = "Leader" => term[n] # 0
  <2>1. L[0] = <<>>
    BY <1>0, Zenon DEF HistoryInv, History
  <2>2. role[n] = "Leader" => L[term[n]] # <<>>
    BY <1>0, LeaderLog, Zenon
  <2>3. QED
    BY <2>1, <2>2, Zenon
<1>3. Yields(n) \/ Ascends(n) \/ Stays(n)
  <2>1. CASE LogStays(n) /\ role'[n] # "Leader"
    BY <1>0, <2>1, SMTT(30) DEF LogStays, Yields
  <2>2. CASE Listens(n) \/ Campaigns(n) \/ \E m \in msgs : Rejects(n, m)
    <3>1. LogStays(n)
      BY <2>2, Zenon DEF Listens, Campaigns, Rejects
    <3>2. role'[n] = "Leader" => role[n] = "Leader" /\ term'[n] = term[n]
      BY <2>2, Zenon DEF Listens, Campaigns, Rejects, Follows
    <3>3. CASE role'[n] = "Leader"
      BY <1>2, <3>1, <3>2, <3>3, Zenon DEF Stays
    <3>4. QED
      BY <2>1, <3>1, <3>3, Zenon
  <2>3. CASE \E m \in msgs : Accepts(n, m) \/ Crashes(n, m)
    <3>1. PICK m \in msgs : Accepts(n, m) \/ Crashes(n, m)
      BY <2>3, Zenon
    <3>2. role[n] # "Leader" /\ role'[n] # "Leader"
      BY <1>0, <3>1, LeadersNeverAccept, ZenonT(30) DEF Accepts, Crashes, Follows
    <3>3. \E p \in Node : commitIndex'[n] <= commitIndex[p]
      <4>1. CASE commitIndex'[n] = commitIndex[n]
        <5>1. commitIndex'[n] <= commitIndex[n]
          BY <1>0, <4>1, SMTT(30)
        <5>2. QED
          BY <5>1, ZenonT(30)
      <4>2. CASE commitIndex'[n] # commitIndex[n]
        <5>1. Accepts(n, m)
          BY <3>1, <4>2, Zenon DEF Crashes
        <5>2. m.type = "AppendEntries" /\ m.leaderCommit \in Nat
          BY <5>1, Zenon DEF Accepts, Follows, AppendRequests
        <5>3. PICK p \in Node : m.leaderCommit <= commitIndex[p]
          BY <1>0, <5>2, Zenon DEF RequestsBehind
        <5>4. commitIndex'[n] <= m.leaderCommit /\ commitIndex'[n] \in Nat
          BY <1>0, <4>2, <5>1, AcceptsUpTo, Zenon DEF TypeInv, TypeOK
        <5>5. commitIndex'[n] <= commitIndex[p]
          BY <1>0, <5>2, <5>3, <5>4, SMTT(30)
        <5>6. QED
          BY <5>5, Zenon
      <4>3. QED
        BY <4>1, <4>2, Zenon
    <3>4. QED
      BY <3>2, <3>3, Zenon DEF Yields
  <2>4. CASE Wins(n)
    BY <1>0, <2>4, WinsAscends, Zenon
  <2>5. CASE Sends(n)
    BY <1>2, <2>5, Zenon DEF Sends, Leads, Stays, LogStays
  <2>6. CASE \E m \in msgs : Learns(n, m)
    <3>1. /\ role[n] = "Leader" /\ role'[n] = "Leader" /\ term'[n] = term[n] /\ log'[n] = log[n]
          /\ \/ commitIndex'[n] = commitIndex[n]
             \/ commitIndex'[n] \in Committable(n, log[n], matchIndex'[n])
      BY <2>6, Zenon DEF Learns, Leads
    <3>2. CASE commitIndex'[n] \in Committable(n, log[n], matchIndex'[n])
      BY <1>2, <3>1, <3>2, Zenon DEF Committable, Stays
    <3>3. QED
      BY <1>2, <3>1, <3>2, Zenon DEF Stays, LogStays
  <2>7. QED
    BY <2>2, <2>3, <2>4, <2>5, <2>6, Zenon DEF Moves
<1>4. QED
  BY <1>0, <1>1, <1>3, MovesKeepCommitted, Zenon DEF Serves

-----------------------------------------------------------------------------
(* The theorems. *)

\* No two Nodes are ever Leader of one term, and all AppendEntries requests of
\* a term come from one Node: for every Cluster size, every schedule of
\* timeouts, losses, duplicates, reorderings, crashes and restarts.  It rests
\* on handleVoteRequest and startElection persisting the vote in the step that
\* sends it (raft.go:712, raft.go:771), and on becomeFollower (raft.go:1171)
\* and recovery keeping it for as long as the term lasts.
THEOREM ElectionSafe == Spec => []ElectionSafety
<1>1. Init => TypeInv /\ ElectionInv
  BY InitHasTypeInv, InitHasElectionInv, Zenon
<1>2. TypeInv /\ ElectionInv /\ [Next]_vars => TypeInv' /\ ElectionInv'
  BY NextKeepsTypeInv, NextKeepsElectionInv, Zenon
<1>3. TypeInv /\ ElectionInv => ElectionSafety
  <2> SUFFICES ASSUME TypeInv, ElectionInv PROVE ElectionSafety
    OBVIOUS
  <2>1. ASSUME NEW n \in Node, NEW p \in Node, role[n] = "Leader", role[p] = "Leader", term[n] = term[p]
        PROVE  n = p
    <3>1. term[n] \in Nat /\ Elected(msgs, n, term[n]) /\ Elected(msgs, p, term[n])
      BY <2>1, ZenonT(30) DEF TypeInv, TypeOK, ElectionInv, LeadersElected
    <3>2. QED
      BY <3>1, ElectedOnce, Zenon DEF ElectionInv
  <2>2. ASSUME NEW m1 \in msgs, NEW m2 \in msgs, m1.type = "AppendEntries", m2.type = "AppendEntries",
               m1.term = m2.term
        PROVE  m1.from = m2.from
    <3>1. m1.from \in Node /\ m2.from \in Node /\ m1.term \in Nat
      BY MessageKinds, ZenonT(30) DEF TypeInv, TypeOK
    <3>2. Elected(msgs, m1.from, m1.term) /\ Elected(msgs, m2.from, m1.term)
      BY <2>2, Zenon DEF ElectionInv, SendersElected
    <3>3. QED
      BY <3>1, <3>2, ElectedOnce, Zenon DEF ElectionInv
  <2>3. QED
    BY <2>1, <2>2, Zenon DEF ElectionSafety
<1>4. QED
  BY <1>1, <1>2, <1>3, PTL DEF Spec

\* Every step keeps the history, or extends it.
LEMMA NextKeepsHistory ==
    ASSUME NEW L, NEW W, TypeInv, TypeInv', ElectionInv, ElectionInv', HistoryInv(L, W), [Next]_vars
    PROVE  \E M, V : HistoryInv(M, V)'
<1>1. msgs \subseteq msgs'
  BY NextKeepsMessages, Zenon
<1>2. Step
  BY NextShape, Zenon DEF HistoryInv
<1>3. PICK n \in Node : \/ Listens(n) \/ Campaigns(n) \/ Wins(n) \/ Sends(n)
                        \/ \E m \in msgs : \/ Learns(n, m) \/ Accepts(n, m)
                                           \/ Crashes(n, m) \/ Rejects(n, m)
  BY <1>2, Zenon DEF Step
<1>4. CASE Listens(n) \/ Campaigns(n)
  <2>1. HistoryInv(L, W)'
    BY <1>1, <1>4, ListensKeepsHistory, Zenon
  <2>2. QED
    BY <2>1, Zenon
<1>5. CASE \E m \in msgs : Accepts(n, m) \/ Crashes(n, m) \/ Rejects(n, m)
  <2>1. HistoryInv(L, W)'
    BY <1>1, <1>5, FollowsKeepsHistory, Zenon
  <2>2. QED
    BY <2>1, Zenon
<1>6. CASE Wins(n) \/ Sends(n) \/ \E m \in msgs : Learns(n, m)
  <2>1. Acts(n)
    BY <1>6, LeaderActs, Zenon
  <2>2. PICK M, V : Records(n, L, W, M, V)
    BY Zenon DEF Records
  <2>3. HistoryInv(M, V)'
    BY <1>1, <2>1, <2>2, ActsKeepsHistory, Zenon
  <2>4. QED
    BY <2>3, Zenon
<1>7. QED
  BY <1>3, <1>4, <1>5, <1>6, Zenon

\* Two logs of any Cluster, at any time, that hold an entry of the same term at
\* the same index are identical up to it: after any schedule of elections,
\* losses, duplicates, reorderings, crashes and restarts, with appends cut
\* short by a crash and conflicting entries truncated.  It rests on the
\* consistency check (matches), on entriesToAppend comparing terms before it
\* truncates, and on a Leader appending to its own log only.
THEOREM LogsMatch == Spec => []LogMatching
<1> DEFINE Inv == TypeInv /\ ElectionInv /\ \E L, W : HistoryInv(L, W)
<1>1. Init => Inv
  BY InitHasTypeInv, InitHasElectionInv, InitHasHistory, Zenon
<1>2. Inv /\ [Next]_vars => Inv'
  <2> SUFFICES ASSUME Inv, [Next]_vars PROVE Inv'
    OBVIOUS
  <2>1. TypeInv' /\ ElectionInv'
    BY NextKeepsTypeInv, NextKeepsElectionInv, Zenon
  <2>2. PICK L, W : HistoryInv(L, W)
    OBVIOUS
  <2>3. PICK M, V : HistoryInv(M, V)'
    BY <2>1, <2>2, NextKeepsHistory, Zenon
  <2>4. QED
    BY <2>1, <2>3, Zenon
<1>3. Inv => LogMatching
  BY HistoryMatches, Zenon
<1>4. QED
  BY <1>1, <1>2, <1>3, PTL DEF Spec

-----------------------------------------------------------------------------
(* What is committed.  The theorems below are about the behaviours in which*)
(* no Leader is misled by a stale rejection; without that hypothesis none  *)
(* of the properties holds of the code.                                    *)

SafetyInv == TypeInv /\ ElectionInv /\ \E L, W : HistoryInv(L, W) /\ CommitInv(L, W)

\* Every step moves the history on, unless a Leader is misled.
LEMMA NextMoves ==
    ASSUME NEW L, NEW W, TypeInv, TypeInv', ElectionInv, ElectionInv', HistoryInv(L, W),
           [Next]_vars, [StaleAnswersIgnored]_vars
    PROVE  \E n \in Node : \E M, V : Moves(n, L, W, M, V) /\ Passes(L, W, M, V)
<1>1. msgs \subseteq msgs'
  BY NextKeepsMessages, Zenon
<1>2. PICK n \in Node : \/ Listens(n) \/ Campaigns(n) \/ Wins(n) \/ Sends(n)
                        \/ \E m \in msgs : \/ Learns(n, m) /\ HandleAppendEntriesResponse(n, m)
                                           \/ Accepts(n, m) \/ Crashes(n, m) \/ Rejects(n, m)
  <2>1. Step
    BY NextShape, Zenon DEF HistoryInv
  <2>2. QED
    BY <2>1, Zenon DEF Step
<1>3. \E M, V : HistoryInv(M, V)' /\ Moves(n, L, W, M, V)
  <2>1. CASE Listens(n) \/ Campaigns(n) \/ UNCHANGED vars
    <3>1. Listens(n) \/ Campaigns(n)
      <4>1. CASE UNCHANGED vars
        <5>1. UNCHANGED <<role, term, log, commitIndex, matchIndex, nextIndex, msgs>>
          BY <4>1, Zenon DEF vars, electionVars, logVars, leaderVars
        <5>2. QED
          BY <5>1, QuietListens, Zenon DEF TypeInv
      <4>2. QED
        BY <2>1, <4>1, ZenonT(30)
    <3>2. HistoryInv(L, W)'
      BY <1>1, <3>1, ListensKeepsHistory, Zenon
    <3>3. QED
      BY <3>1, <3>2, Zenon DEF Moves
  <2>2. CASE \E m \in msgs : Accepts(n, m) \/ Crashes(n, m) \/ Rejects(n, m)
    <3>1. HistoryInv(L, W)'
      BY <1>1, <2>2, FollowsKeepsHistory, Zenon
    <3>2. QED
      BY <2>2, <3>1, Zenon DEF Moves
  <2>3. CASE /\ ~UNCHANGED vars
             /\ \/ Wins(n) \/ Sends(n)
                \/ \E m \in msgs : Learns(n, m) /\ HandleAppendEntriesResponse(n, m)
    <3>1. Acts(n)
      BY <2>3, LeaderActs, Zenon
    <3>2. PICK M, V : Records(n, L, W, M, V)
      BY Zenon DEF Records
    <3>3. HistoryInv(M, V)'
      BY <1>1, <3>1, <3>2, ActsKeepsHistory, Zenon
    <3>4. \/ Wins(n) \/ Sends(n)
          \/ \E m \in msgs : Learns(n, m) /\ ~Hintless(m)
      BY <2>3, Zenon DEF StaleAnswersIgnored, Learns
    <3>5. QED
      BY <3>2, <3>3, <3>4, Zenon DEF Moves
  <2>4. QED
    BY <1>2, <2>1, <2>2, <2>3, Zenon
<1>4. PICK M, V : HistoryInv(M, V)' /\ Moves(n, L, W, M, V)
  BY <1>3, Zenon
<1>5. Passes(L, W, M, V)
  BY <1>1, <1>4, MovesEvolves, Zenon
<1>6. QED
  BY <1>4, <1>5, Zenon

LEMMA CommitInvariant == Spec /\ [][StaleAnswersIgnored]_vars => []SafetyInv
<1>1. Init => SafetyInv
  BY InitHasTypeInv, InitHasElectionInv, InitHasHistory, InitHasCommit, Zenon DEF SafetyInv
<1>2. SafetyInv /\ [Next]_vars /\ [StaleAnswersIgnored]_vars => SafetyInv'
  <2> SUFFICES ASSUME SafetyInv, [Next]_vars, [StaleAnswersIgnored]_vars PROVE SafetyInv'
    OBVIOUS
  <2>1. TypeInv /\ ElectionInv /\ TypeInv' /\ ElectionInv'
    BY NextKeepsTypeInv, NextKeepsElectionInv, Zenon DEF SafetyInv
  <2>2. PICK L, W : HistoryInv(L, W) /\ CommitInv(L, W)
    BY Zenon DEF SafetyInv
  <2>3. PICK n \in Node : \E M, V : Moves(n, L, W, M, V) /\ Passes(L, W, M, V)
    BY <2>1, <2>2, NextMoves, Zenon
  <2>4. PICK M, V : Moves(n, L, W, M, V) /\ Passes(L, W, M, V)
    BY <2>3, Zenon
  <2>5. CommitInv(M, V)' /\ HistoryInv(M, V)'
    BY <2>1, <2>2, <2>4, MovesKeepCommit, Zenon DEF Passes
  <2>6. QED
    BY <2>1, <2>5, ZenonT(30) DEF SafetyInv
<1>3. QED
  BY <1>1, <1>2, PTL DEF Spec

\* While no Leader takes a stale rejection for an answer of its term, what a
\* Leader believes of a peer's log is true: the peer answers with its own last
\* index (raft.go:1017), and holds nothing before it that the Leader does not.
THEOREM MatchesSound == Spec /\ [][StaleAnswersIgnored]_vars => []MatchIndexSound
<1>1. SafetyInv => MatchIndexSound
  BY CommitGivesMatch, Zenon DEF SafetyInv
<1>2. QED
  BY <1>1, CommitInvariant, PTL

\* While no Leader takes a stale rejection for an answer of its term, every
\* Leader holds what was committed in earlier terms: the vote rule
\* (candidateLogIsUpToDate) and advanceCommitIndex counting only entries of
\* the current term are enough, in Clusters of every size.
THEOREM LeadersComplete == Spec /\ [][StaleAnswersIgnored]_vars => []LeaderCompleteness
<1>1. SafetyInv => LeaderCompleteness
  BY CommitGivesCompleteness, Zenon DEF SafetyInv
<1>2. QED
  BY <1>1, CommitInvariant, PTL

\* While no Leader takes a stale rejection for an answer of its term, the
\* committed prefix of every Node is on the disks of a quorum at all times,
\* through truncations, crashes during an append, and restarts.
THEOREM CommitsOnQuorum == Spec /\ [][StaleAnswersIgnored]_vars => []CommittedOnQuorum
<1>1. SafetyInv => CommittedOnQuorum
  BY CommitGivesQuorum, Zenon DEF SafetyInv
<1>2. QED
  BY <1>1, CommitInvariant, PTL

-----------------------------------------------------------------------------
(* The Cluster implements ReplicatedLog. *)

\* The steps of a Cluster whose Leaders are not misled.
LEMMA NextServes ==
    ASSUME SafetyInv, SafetyInv', [Next]_vars, [StaleAnswersIgnored]_vars
    PROVE  \E n \in Node : Serves(n)
<1>1. TypeInv /\ ElectionInv /\ TypeInv' /\ ElectionInv'
  BY Zenon DEF SafetyInv
<1>2. PICK L, W : HistoryInv(L, W) /\ CommitInv(L, W)
  BY Zenon DEF SafetyInv
<1>3. PICK n \in Node : \E M, V : Moves(n, L, W, M, V) /\ Passes(L, W, M, V)
  BY <1>1, <1>2, NextMoves, Zenon
<1>4. Serves(n)
  BY <1>1, <1>2, <1>3, MovesServe, Zenon
<1>5. QED
  BY <1>4, Zenon

LEMMA SafetyGivesService == SafetyInv => ServiceInv
<1> SUFFICES ASSUME SafetyInv PROVE ServiceInv
  OBVIOUS
<1>1. PICK L, W : TypeInv /\ HistoryInv(L, W) /\ CommitInv(L, W)
  BY Zenon DEF SafetyInv
<1>2. CommitsAgree /\ LeadersHoldLast /\ LeaderCompleteness
  BY <1>1, CommitGivesAgreement, CommitGivesLast, CommitGivesCompleteness, Zenon
<1>3. PICK p \in Node : Foremost(p)
  BY <1>1, Zenon DEF CommitInv, LastDecided
<1>4. CommittedKnown
  BY <1>1, <1>2, <1>3, AgreementGivesCommitted, Zenon
<1>5. QED
  BY <1>1, <1>2, <1>4, Zenon DEF ServiceInv

\* While no Leader takes a stale rejection for an answer of its term, no two
\* Nodes ever differ in what they committed, and so none applies (applyThrough,
\* raft.go:1421) another entry at an index than the rest: after any crashes,
\* losses and elections, in Clusters of every size.
THEOREM NodesAgree == Spec /\ [][StaleAnswersIgnored]_vars => []CommitsAgree
<1>1. SafetyInv => CommitsAgree
  BY SafetyGivesService, Zenon DEF ServiceInv
<1>2. QED
  BY <1>1, CommitInvariant, PTL

\* While no Leader takes a stale rejection for an answer of its term, no step of
\* any Node takes back an entry that a Node committed: neither the truncation of
\* a conflicting suffix (raft.go:995), nor a crash in the middle of it, nor a
\* restart.
THEOREM CommitsKept == Spec /\ [][StaleAnswersIgnored]_vars => [][CommitsStay]_vars
<1>1. SafetyInv /\ SafetyInv' /\ [Next]_vars /\ [StaleAnswersIgnored]_vars => CommitsStay
  BY NextServes, Zenon DEF Serves, CommitsStay
<1>2. QED
  BY <1>1, CommitInvariant, PTL DEF Spec

\* While no Leader takes a stale rejection for an answer of its term, the
\* Cluster implements ReplicatedLog: one committed sequence only grows, no Node
\* applies anything else or forgets what it applied, a new Leader has all that
\* earlier terms committed, and a deposed Leader applies nothing in the place
\* of what it had proposed.
THEOREM ImplementsService ==
    Spec /\ [][StaleAnswersIgnored]_vars => ImplementsReplicatedLog
<1>1. Init => Service!Init
  BY InitImplements, Zenon
<1>2. SafetyInv => ServiceInv
  BY SafetyGivesService, Zenon
<1>3. /\ SafetyInv /\ SafetyInv' /\ ServiceInv /\ ServiceInv'
      /\ [Next]_vars /\ [StaleAnswersIgnored]_vars
      => [Service!Next]_(Service!vars)
  <2> SUFFICES ASSUME SafetyInv, SafetyInv', ServiceInv, ServiceInv',
                      [Next]_vars, [StaleAnswersIgnored]_vars
               PROVE  [Service!Next]_(Service!vars)
    OBVIOUS
  <2>1. PICK n \in Node : Serves(n)
    BY NextServes, Zenon
  <2>2. QED
    BY <2>1, ServesImplements, Zenon
<1>4. QED
  BY <1>1, <1>2, <1>3, CommitInvariant, PTL DEF Spec, ImplementsReplicatedLog, Service!Spec

=============================================================================
