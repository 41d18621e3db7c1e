-------------------------- MODULE RaftProbeProofs ---------------------------
(***************************************************************************)
(* What every Cluster keeps of its history (L, W), as the acknowledgements *)
(* and votes that the messages record tell it, and where its Leaders may   *)
(* probe: the definitions of the inductive invariant CommitInv, what a step*)
(* leaves of it and what a step adds.                                      *)
(***************************************************************************)
EXTENDS RaftLogProofs

\* Node w told the Leader of term t that it holds the first k entries.
Acked(w, t, k) ==
    \E m \in msgs : /\ m.type = "AppendEntriesResponse" /\ m.success
                    /\ m.from = w /\ m.term = t /\ m.matchIndex >= k

\* The Leader of term t holds its own log.
Holds(L, W, w, t, k) == Acked(w, t, k) \/ (W[t] = w /\ k <= Len(L[t]))

\* The Leader of term u lacks one of the first k entries of the Leader of t.
Lacks(L, u, t, k) == L[u] # <<>> /\ ~AgreeUpTo(k, L[u], L[t])

\* Node w still holds the first k entries of the Leader of term t, unless a
\* later Leader that it followed lacked one.
Kept(L, w, t, k) ==
    /\ k <= Len(L[t]) /\ t <= term[w]
    /\ \/ AgreeUpTo(k, log[w], L[t])
       \/ \E u \in t + 1 .. term[w] : Lacks(L, u, t, k)

AcksKept(L, W) ==
    \A w \in Node : \A t \in Nat : \A k \in Nat \ {0} : Holds(L, W, w, t, k) => Kept(L, w, t, k)

\* A Follower that accepted a request of its term holds a prefix of the
\* Leader's log.
SuccessesHeld(L) ==
    \A m \in msgs : m.type = "AppendEntriesResponse" /\ m.success =>
        /\ m.term <= term[m.from]
        /\ term[m.from] = m.term => AgreeUpTo(Len(log[m.from]), log[m.from], L[m.term])

\* Peer p is safe to ask from index k of x, the log of the Leader of term t.
Probes(p, t, k, x) ==
    \/ TermAt(x, k - 1) = t
    \/ term[p] >= t /\ (term[p] = t => NextSafe(k, log[p], x))

RequestsProbe(L) ==
    \A m \in msgs : m.type = "AppendEntries" =>
        Probes(m.to, m.term, m.prevLogIndex + 1, L[m.term])

LeadersProbe ==
    \A n, p \in Node : role[n] = "Leader" /\ p # n =>
        /\ nextIndex[n][p] \in 1 .. Len(log[n]) + 1
        /\ Probes(p, term[n], nextIndex[n][p], log[n])

HintsProbe(L) ==
    \A m \in msgs : m.type = "AppendEntriesResponse" /\ ~m.success /\ m.conflictIndex # 0 =>
        /\ m.conflictTerm < m.term /\ m.conflictIndex <= Len(L[m.term])
        /\ Probes(m.from, m.term,
                  NextIndexFromConflict(L[m.term], m.conflictTerm, m.conflictIndex), L[m.term])

\* A candidate asks all Nodes in the name of one log, which it keeps while it
\* is a candidate; nobody votes unasked.
CandidatesAsk ==
    /\ \A m \in msgs : m.type = "VoteRequest" =>
          /\ m.lastLogTerm < m.term /\ m.term <= term[m.from]
          /\ role[m.from] = "Candidate" /\ m.term = term[m.from] =>
                m.lastLogIndex = Len(log[m.from]) /\ m.lastLogTerm = LastLogTerm(log[m.from])
    /\ \A m1, m2 \in msgs :
          /\ m1.type = "VoteRequest" /\ m2.type = "VoteRequest"
          /\ m1.from = m2.from /\ m1.term = m2.term
          => m1.lastLogIndex = m2.lastLogIndex /\ m1.lastLogTerm = m2.lastLogTerm
    /\ \A m \in msgs : m.type = "VoteResponse" /\ m.granted => Campaigned(msgs, m.to, m.term)

\* A log that ends at index i with term s is not behind what w held of earlier
\* Leaders when it voted in term u, but for what Leaders in between lacked.
Informed(L, W, w, u, s, i) ==
    \A t \in 0 .. u - 1 : \A k \in 1 .. Len(L[t]) :
        L[t][k].term = t /\ Holds(L, W, w, t, k) =>
            \/ \E v \in t + 1 .. u - 1 : Lacks(L, v, t, k)
            \/ s > t
            \/ s = t /\ i >= k

VotesInformed(L, W) ==
    \A m \in msgs : m.type = "VoteRequest" /\ L[m.term] = <<>> =>
        \A w \in Node : Voted(msgs, w, m.from, m.term) =>
            Informed(L, W, w, m.term, m.lastLogTerm, m.lastLogIndex)

\* A Leader was elected by such votes, on the log it then had.
Qualified(L, W, u) ==
    \E Q \in SUBSET Node : \E s \in 0 .. u - 1 : \E i \in 0 .. Len(L[u]) - 1 :
        /\ IsQuorum(Q)
        /\ TermAt(L[u], i) = s
        /\ \A w \in Q : term[w] >= u /\ Informed(L, W, w, u, s, i)

LeadersQualified(L, W) == \A u \in Nat : L[u] # <<>> => Qualified(L, W, u)

MatchesAcked ==
    \A n, p \in Node : role[n] = "Leader" /\ p # n /\ matchIndex[n][p] # 0 =>
        Acked(p, term[n], matchIndex[n][p])

\* A quorum held the first k entries of the Leader of term t, the k-th its own.
Chosen(L, W, t, k) ==
    /\ k \in 1 .. Len(L[t]) /\ L[t][k].term = t
    /\ \E Q \in SUBSET Node : IsQuorum(Q) /\ \A w \in Q : Holds(L, W, w, t, k)

\* The first c entries of x were chosen by term t.
ChosenBy(L, W, c, x, t) ==
    \/ c = 0
    \/ \E s \in 0 .. t : \E k \in Nat : k >= c /\ Chosen(L, W, s, k) /\ AgreeUpTo(c, x, L[s])

CommitsChosen(L, W) == \A n \in Node : ChosenBy(L, W, commitIndex[n], log[n], term[n])

RequestsChosen(L, W) ==
    \A m \in msgs : m.type = "AppendEntries" =>
        ChosenBy(L, W, m.leaderCommit, L[m.term], m.term)

\* What p committed is all that some Leader chose with the last entry of it.
Decided(L, W, p) ==
    commitIndex[p] # 0 =>
        \E s \in Nat : Chosen(L, W, s, commitIndex[p]) /\ AgreeUpTo(commitIndex[p], log[p], L[s])

\* The Node that committed most committed all that some Leader did,
LastDecided(L, W) == \E p \in Node : Foremost(p) /\ Decided(L, W, p)

\* and no request tells of more.
RequestsBehind ==
    \A m \in msgs : m.type = "AppendEntries" => \E p \in Node : m.leaderCommit <= commitIndex[p]

\* The inductive form of the three invariants, and of what the Cluster
\* committed.
CommitInv(L, W) ==
    /\ AcksKept(L, W) /\ SuccessesHeld(L)
    /\ RequestsProbe(L) /\ LeadersProbe /\ HintsProbe(L)
    /\ CandidatesAsk /\ VotesInformed(L, W) /\ LeadersQualified(L, W)
    /\ MatchesAcked /\ CommitsChosen(L, W) /\ RequestsChosen(L, W)
    /\ LastDecided(L, W) /\ RequestsBehind

-----------------------------------------------------------------------------
(* What later Leaders hold. *)

\* What a Leader lacks of an earlier one it lacks forever.
LEMMA LacksStays ==
    ASSUME NEW L, NEW W, NEW M, NEW u \in Nat, NEW t \in Nat, NEW k \in Nat,
           History(L, W), M \in [Nat -> Seq(Entry)], Extends(L, M), t < u, k <= Len(L[t]),
           Lacks(L, u, t, k)
    PROVE  Lacks(M, u, t, k)
<1> DEFINE x == L[u]
           y == L[t]
           xx == M[u]
           yy == M[t]
<1>1. /\ x \in Seq(Entry) /\ y \in Seq(Entry) /\ xx \in Seq(Entry) /\ yy \in Seq(Entry)
      /\ AgreeUpTo(Len(x), x, xx) /\ AgreeUpTo(Len(y), y, yy) /\ x # <<>> /\ ~AgreeUpTo(k, x, y)
      /\ k <= Len(y)
  BY Zenon DEF History, Extends, Lacks
<1>2. TermsUpTo(y, t) /\ x[Len(x)].term = u
  BY <1>1, Zenon DEF History
<1>3. Len(x) \in Nat /\ Len(y) \in Nat /\ Len(xx) \in Nat /\ Len(yy) \in Nat
  BY <1>1, LogEntry, Zenon
<1> HIDE DEF x, y, xx, yy
<1>4. Len(x) # 0
  BY <1>1, EmptyLog, Zenon
<1>5. xx # <<>>
  BY <1>1, <1>3, <1>4, EmptyLog DEF AgreeUpTo
<1>6. ASSUME AgreeUpTo(k, xx, yy) PROVE FALSE
  <2>1. AgreeUpTo(k, y, yy)
    BY <1>1, <1>3, AgreeLess
  <2>2. AgreeUpTo(k, xx, y)
    BY <1>6, <2>1, AgreeSym, AgreeTrans, Zenon
  <2>3. CASE k <= Len(x)
    BY <1>1, <1>3, <2>2, <2>3, AgreeLess, AgreeTrans
  <2>4. CASE k > Len(x)
    <3> DEFINE i == Len(x)
    <3>1. i \in 1 .. k /\ i \in 1 .. Len(y) /\ i \in 1 .. Len(x)
      <4>1. i \in Nat \ {0} /\ i < k /\ k <= Len(y)
        BY <1>1, <1>3, <1>4, <2>4, Zenon
      <4> HIDE DEF i
      <4>2. i \in 1 .. k /\ i \in 1 .. Len(y)
        BY <1>3, <4>1
      <4>3. QED
        BY <1>3, <4>1, <4>2 DEF i
    <3>2. y[i].term <= t
      BY <1>2, <3>1, Zenon DEF TermsUpTo
    <3>3. y[i].term = u
      BY <1>1, <1>2, <2>2, <3>1, Zenon DEF AgreeUpTo
    <3>4. QED
      BY <3>2, <3>3
  <2>5. QED
    BY <1>3, <2>3, <2>4
<1>7. QED
  BY <1>5, <1>6, Zenon DEF Lacks, xx, yy

\* The Leaders after the one of term t hold what was chosen under it: the first
\* that lacked an entry would have been elected by a quorum that shares a Node
\* with the one that held it.
LEMMA LaterLeadersHold ==
    ASSUME NEW L, NEW W, NEW t \in Nat, NEW k \in Nat, NEW v \in Nat,
           History(L, W), LeadersQualified(L, W), Chosen(L, W, t, k), t < v
    PROVE  ~Lacks(L, v, t, k)
<1> DEFINE S == {u \in Nat : t < u /\ Lacks(L, u, t, k)}
           u == Min(S)
<1> SUFFICES ASSUME Lacks(L, v, t, k) PROVE FALSE
  OBVIOUS
<1>1. /\ u \in Nat /\ t < u /\ Lacks(L, u, t, k)
      /\ \A s \in Nat : t < s /\ Lacks(L, s, t, k) => u <= s
  <2>1. u \in S /\ \A s \in S : u <= s
    BY MinOfNaturals, Zenon
  <2> HIDE DEF u
  <2>2. QED
    BY <2>1, Zenon
<1> HIDE DEF u, S
<1> DEFINE x == L[u]
           y == L[t]
<1>2. /\ L \in [Nat -> Seq(Entry)] /\ x \in Seq(Entry) /\ y \in Seq(Entry)
      /\ FromLeaders(x, L) /\ TermsUpTo(y, t)
      /\ Len(x) \in Nat /\ Len(y) \in Nat
  <2>1. L \in [Nat -> Seq(Entry)] /\ FromLeaders(x, L) /\ TermsUpTo(y, t)
    BY <1>1, Zenon DEF History
  <2>2. x \in Seq(Entry) /\ y \in Seq(Entry)
    BY <1>1, <2>1, Zenon
  <2>3. QED
    BY <2>1, <2>2, LogEntry, Zenon
<1>3. x # <<>> /\ ~AgreeUpTo(k, x, y) /\ k \in 1 .. Len(y) /\ y[k].term = t
  BY <1>1, Zenon DEF Lacks, Chosen
<1>4. PICK Q1 \in SUBSET Node : IsQuorum(Q1) /\ \A w \in Q1 : Holds(L, W, w, t, k)
  BY Zenon DEF Chosen
<1>5. PICK Q2 \in SUBSET Node, s \in 0 .. u - 1, i \in 0 .. Len(x) - 1 :
          /\ IsQuorum(Q2) /\ TermAt(x, i) = s
          /\ \A w \in Q2 : Informed(L, W, w, u, s, i)
  BY <1>1, <1>3, Zenon DEF LeadersQualified, Qualified
<1>6. PICK w \in Q1 : w \in Q2
  BY <1>4, <1>5, QuorumsMeet, Zenon
<1>7. \/ \E r \in t + 1 .. u - 1 : Lacks(L, r, t, k)
      \/ s > t
      \/ s = t /\ i >= k
  <2>1. t \in 0 .. u - 1 /\ k \in 1 .. Len(L[t]) /\ L[t][k].term = t
    BY <1>1, <1>3
  <2>2. Holds(L, W, w, t, k) /\ Informed(L, W, w, u, s, i)
    BY <1>4, <1>5, <1>6, Zenon
  <2>3. QED
    BY <2>1, <2>2, Zenon DEF Informed
<1>8. s \in Nat /\ i \in Nat /\ i < Len(x) /\ s < u
  BY <1>1, <1>2, <1>5
<1>9. ASSUME s # 0 PROVE i \in 1 .. Len(x) /\ x[i].term = s /\ AgreeUpTo(i, x, L[s])
  BY <1>2, <1>5, <1>9, Zenon DEF TermAt, FromLeaders
<1>10. t # 0
  BY <1>3, EmptyLog DEF History
<1> HIDE DEF x
<1>11. CASE s = t /\ i >= k
  <2>1. AgreeUpTo(i, x, y)
    BY <1>9, <1>10, <1>11, Zenon
  <2>2. k \in 0 .. i
    BY <1>8, <1>11
  <2> HIDE DEF y
  <2>3. QED
    BY <1>2, <1>3, <1>8, <2>1, <2>2, AgreeLess, Zenon
<1>12. CASE s > t
  <2> DEFINE z == L[s]
  <2>1. s # 0 /\ z \in Seq(Entry)
    BY <1>2, <1>8, <1>12
  <2>2. i \in 1 .. Len(x) /\ x[i].term = s /\ AgreeUpTo(i, x, z) /\ Len(z) \in Nat
    BY <1>9, <2>1, LogEntry, Zenon
  <2>3. z # <<>>
    BY <1>2, <2>1, <2>2, EmptyLog DEF AgreeUpTo
  <2>4. AgreeUpTo(k, z, y)
    BY <1>1, <1>8, <1>12, <2>3 DEF Lacks
  <2> HIDE DEF y, z
  <2>5. CASE i >= k
    <3>1. k \in 0 .. i
      BY <1>8, <2>5
    <3>2. AgreeUpTo(k, x, z)
      BY <1>2, <1>8, <2>2, <3>1, AgreeLess, Zenon
    <3>3. QED
      BY <1>3, <2>4, <3>2, AgreeTrans, Zenon
  <2>6. CASE i < k
    <3>1. i \in 1 .. k /\ i \in 1 .. i /\ i \in 1 .. Len(y)
      BY <1>2, <1>3, <1>8, <2>2, <2>6
    <3>2. x[i] = z[i] /\ z[i] = y[i]
      BY <2>2, <2>4, <3>1, Zenon DEF AgreeUpTo
    <3>3. y[i].term <= t
      BY <1>2, <3>1, Zenon DEF TermsUpTo
    <3>4. y[i].term = s
      BY <2>2, <3>2, Zenon
    <3>5. QED
      BY <1>8, <1>12, <3>3, <3>4
  <2>7. QED
    BY <1>8, <2>5, <2>6
<1>13. QED
  BY <1>1, <1>7, <1>11, <1>12

-----------------------------------------------------------------------------
(* What a step leaves of the past. *)

\* A step of Node n after which the history is (M, V).  A Leader takes no
\* rejection without a hint in its own term.
Moves(n, L, W, M, V) ==
    \/ /\ \/ Listens(n) \/ Campaigns(n)
          \/ \E m \in msgs : Accepts(n, m) \/ Crashes(n, m) \/ Rejects(n, m)
       /\ M = L /\ V = W
    \/ /\ \/ Wins(n) \/ Sends(n)
          \/ \E m \in msgs : Learns(n, m) /\ ~Hintless(m)
       /\ Records(n, L, W, M, V)

\* Leaders append entries of their term; Nodes move to later terms; a log
\* changes towards the log of the Leader of its new term.
Evolves(L, W, M, V) ==
    /\ Extends(L, M)
    /\ \A t \in Nat : L[t] # <<>> =>
          V[t] = W[t] /\ \A i \in Len(L[t]) + 1 .. Len(M[t]) : M[t][i].term = t
    /\ msgs \subseteq msgs'
    /\ \A p \in Node :
          /\ term'[p] >= term[p]
          /\ \/ log'[p] = log[p]
             \/ M[term'[p]] # <<>> /\ AgreeUpTo(Len(log'[p]), log'[p], M[term'[p]])
          /\ \A k \in Nat : AgreeUpTo(k, log[p], M[term'[p]]) => AgreeUpTo(k, log'[p], M[term'[p]])

\* A step before and after which the history is sound.
Passes(L, W, M, V) ==
    /\ TypeInv /\ TypeInv' /\ HistoryInv(L, W) /\ HistoryInv(M, V)' /\ Evolves(L, W, M, V)

\* What Passes says of types.
LEMMA PassesTypes ==
    ASSUME NEW L, NEW W, NEW M, NEW V, Passes(L, W, M, V)
    PROVE  /\ L \in [Nat -> Seq(Entry)] /\ M \in [Nat -> Seq(Entry)]
           /\ W \in [Nat -> Node] /\ V \in [Nat -> Node]
           /\ log \in [Node -> Seq(Entry)] /\ log' \in [Node -> Seq(Entry)]
           /\ term \in [Node -> Nat] /\ term' \in [Node -> Nat]
           /\ History(L, W) /\ History(M, V) /\ Extends(L, M)
<1>1. TypeOK /\ TypeOK' /\ History(L, W) /\ History(M, V) /\ Extends(L, M)
  BY Zenon DEF Passes, TypeInv, HistoryInv, Evolves
<1>2. /\ L \in [Nat -> Seq(Entry)] /\ M \in [Nat -> Seq(Entry)]
      /\ W \in [Nat -> Node] /\ V \in [Nat -> Node]
  BY <1>1, Zenon DEF History
<1>3. /\ log \in [Node -> Seq(Entry)] /\ log' \in [Node -> Seq(Entry)]
      /\ term \in [Node -> Nat] /\ term' \in [Node -> Nat]
  BY <1>1, Zenon DEF TypeOK
<1>4. QED
  BY <1>1, <1>2, <1>3, Zenon

\* The log of a Leader, before and after.
LEMMA LeaderLogGrows ==
    ASSUME NEW L, NEW W, NEW M, NEW V, NEW t \in Nat, Passes(L, W, M, V)
    PROVE  /\ L[t] \in Seq(Entry) /\ M[t] \in Seq(Entry) /\ Len(L[t]) \in Nat /\ Len(M[t]) \in Nat
           /\ AgreeUpTo(Len(L[t]), L[t], M[t]) /\ Len(L[t]) <= Len(M[t])
           /\ L[t] # <<>> => M[t] # <<>> /\ V[t] = W[t]
           /\ \A k \in 0 .. Len(L[t]) : AgreeUpTo(k, L[t], M[t]) /\ TermAt(M[t], k) = TermAt(L[t], k)
<1>1. L[t] \in Seq(Entry) /\ M[t] \in Seq(Entry)
  BY PassesTypes
<1> DEFINE x == L[t]
           y == M[t]
<1>2. AgreeUpTo(Len(x), x, y) /\ (x # <<>> => V[t] = W[t])
  BY Zenon DEF Passes, Evolves, Extends
<1> HIDE DEF x, y
<1>3. Len(x) \in Nat /\ Len(y) \in Nat
  BY <1>1, LogEntry, Zenon DEF x, y
<1>4. Len(x) <= Len(y)
  BY <1>2, Zenon DEF AgreeUpTo
<1>5. x # <<>> => y # <<>>
  BY <1>1, <1>3, <1>4, EmptyLog DEF x, y
<1>6. ASSUME NEW k \in 0 .. Len(x) PROVE AgreeUpTo(k, x, y) /\ TermAt(y, k) = TermAt(x, k)
  <2>1. AgreeUpTo(k, x, y)
    BY <1>2, <1>3, AgreeLess, Zenon
  <2>2. CASE k = 0
    BY <2>1, <2>2 DEF TermAt
  <2>3. CASE k # 0
    <3>1. k \in 1 .. k /\ k \in 1 .. Len(x) /\ k \in 1 .. Len(y)
      BY <1>3, <1>4, <2>3
    <3>2. QED
      BY <2>1, <3>1, Zenon DEF AgreeUpTo, TermAt
  <2>4. QED
    BY <2>1, <2>2, <2>3, Zenon
<1>7. QED
  BY <1>1, <1>2, <1>3, <1>4, <1>5, <1>6, Zenon DEF x, y

\* What a Node held it held.
LEMMA HoldsStays ==
    ASSUME NEW L, NEW W, NEW M, NEW V, NEW w, NEW t \in Nat, NEW k \in Nat \ {0},
           Passes(L, W, M, V), Holds(L, W, w, t, k)
    PROVE  Holds(M, V, w, t, k)'
<1>1. CASE Acked(w, t, k)
  <2>1. Acked(w, t, k)'
    BY <1>1, Zenon DEF Acked, Passes, Evolves
  <2>2. QED
    BY <2>1, Zenon DEF Holds
<1>2. CASE W[t] = w /\ k <= Len(L[t])
  <2>1. L[t] \in Seq(Entry) /\ Len(L[t]) \in Nat /\ Len(M[t]) \in Nat /\ Len(L[t]) <= Len(M[t])
    BY LeaderLogGrows, Zenon
  <2>2. L[t] # <<>> => V[t] = W[t]
    BY LeaderLogGrows
  <2>3. L[t] # <<>>
    BY <1>2, <2>1, EmptyLog
  <2>4. V[t] = w /\ k <= Len(M[t])
    BY <1>2, <2>1, <2>2, <2>3
  <2>5. QED
    BY <2>4, Zenon DEF Holds
<1>3. QED
  BY <1>1, <1>2, Zenon DEF Holds

\* A Node keeps what it acknowledged, or follows a Leader that lacked it.
LEMMA KeptStays ==
    ASSUME NEW L, NEW W, NEW M, NEW V, NEW w \in Node, NEW t \in Nat, NEW k \in Nat,
           Passes(L, W, M, V), Kept(L, w, t, k)
    PROVE  Kept(M, w, t, k)'
<1> DEFINE T == term'[w]
           l == log[w]
           y == log'[w]
           x == M[t]
           z == M[T]
<1>1. T \in Nat /\ term[w] \in Nat /\ term[w] <= T /\ t <= term[w] /\ k <= Len(L[t])
  BY PassesTypes DEF Passes, Evolves, Kept
<1>2. /\ x \in Seq(Entry) /\ Len(x) \in Nat /\ Len(L[t]) \in Nat /\ Len(L[t]) <= Len(x)
      /\ AgreeUpTo(k, L[t], x)
  BY <1>1, LeaderLogGrows
<1>3. k <= Len(x) /\ t <= T
  BY <1>1, <1>2
<1>4. /\ y = l \/ z # <<>>
      /\ AgreeUpTo(k, l, z) => AgreeUpTo(k, y, z)
  BY Zenon DEF Passes, Evolves
<1>5. CASE AgreeUpTo(k, l, L[t])
  <2>1. AgreeUpTo(k, l, x)
    BY <1>2, <1>5, AgreeTrans, Zenon
  <2>2. CASE y = l
    BY <1>3, <2>1, <2>2, Zenon DEF Kept
  <2>3. CASE AgreeUpTo(k, z, x)
    <3>1. AgreeUpTo(k, l, z)
      BY <2>1, <2>3, AgreeSym, AgreeTrans, Zenon
    <3>2. AgreeUpTo(k, y, x)
      BY <1>4, <2>3, <3>1, AgreeTrans, Zenon
    <3>3. QED
      BY <1>3, <3>2, Zenon DEF Kept
  <2>4. CASE y # l /\ ~AgreeUpTo(k, z, x)
    <3>1. Lacks(M, T, t, k)
      BY <1>4, <2>4, Zenon DEF Lacks
    <3>2. T # t
      BY <1>2, <1>3, <2>4, Zenon DEF AgreeUpTo
    <3>3. T \in t + 1 .. T
      BY <1>1, <3>2
    <3>4. QED
      BY <1>3, <3>1, <3>3, Zenon DEF Kept
  <2>5. QED
    BY <2>2, <2>3, <2>4, Zenon
<1>6. CASE \E u \in t + 1 .. term[w] : Lacks(L, u, t, k)
  <2>1. PICK u \in t + 1 .. term[w] : Lacks(L, u, t, k)
    BY <1>6, Zenon
  <2>2. u \in Nat /\ t < u /\ u \in t + 1 .. T
    BY <1>1
  <2>3. Lacks(M, u, t, k)
    BY <1>1, <2>1, <2>2, PassesTypes, LacksStays, Zenon
  <2>4. QED
    BY <1>3, <2>2, <2>3, Zenon DEF Kept
<1>7. QED
  BY <1>5, <1>6, Zenon DEF Kept

\* A log that is a prefix of the Leader's stays one.
LEMMA PrefixStays ==
    ASSUME NEW L, NEW W, NEW M, NEW V, NEW p \in Node, Passes(L, W, M, V), term'[p] = term[p],
           AgreeUpTo(Len(log[p]), log[p], L[term[p]])
    PROVE  AgreeUpTo(Len(log'[p]), log'[p], M[term[p]])
<1> DEFINE t == term[p]
<1>1. t \in Nat /\ log[p] \in Seq(Entry)
  BY PassesTypes, Zenon
<1>2. Len(log[p]) \in Nat
  BY <1>1, LogEntry, Zenon
<1>3. Len(L[t]) \in Nat /\ Len(M[t]) \in Nat /\ AgreeUpTo(Len(L[t]), L[t], M[t])
  BY <1>1, LeaderLogGrows, Zenon
<1>4. AgreeUpTo(Len(log[p]), log[p], M[t])
  BY <1>2, <1>3, AgreementExtends, Zenon
<1>5. QED
  BY <1>4, Zenon DEF Passes, Evolves

\* A peer that was safe to ask stays safe to ask.
LEMMA ProbesStays ==
    ASSUME NEW L, NEW W, NEW M, NEW V, NEW p \in Node, NEW t \in Nat, NEW k \in 1 .. Len(L[t]) + 1,
           Passes(L, W, M, V), L[t] # <<>>, Probes(p, t, k, L[t])
    PROVE  Probes(p, t, k, M[t])'
<1>1. /\ term[p] \in Nat /\ term'[p] \in Nat /\ term[p] <= term'[p] /\ log[p] \in Seq(Entry)
      /\ History(L, W) /\ FromLeaders(log[p], L)
  <2>1. term[p] \in Nat /\ term'[p] \in Nat /\ log[p] \in Seq(Entry) /\ History(L, W)
    BY PassesTypes, Zenon
  <2>2. QED
    BY <2>1, Zenon DEF Passes, Evolves, HistoryInv, LogsRecorded
<1>2. /\ Len(L[t]) \in Nat /\ M[t] \in Seq(Entry) /\ AgreeUpTo(Len(L[t]), L[t], M[t])
      /\ \A j \in 0 .. Len(L[t]) : TermAt(M[t], j) = TermAt(L[t], j)
  BY LeaderLogGrows
<1>3. k \in Nat /\ k - 1 \in 0 .. Len(L[t])
  BY <1>2
<1>4. CASE TermAt(L[t], k - 1) = t
  <2>1. TermAt(M[t], k - 1) = t
    BY <1>2, <1>3, <1>4, Zenon
  <2>2. QED
    BY <2>1, Zenon DEF Probes
<1>5. CASE term[p] >= t /\ (term[p] = t => NextSafe(k, log[p], L[t]))
  <2>1. CASE term'[p] > t
    BY <1>1, <2>1 DEF Probes
  <2>2. CASE term'[p] = t
    <3>1. term[p] = t /\ NextSafe(k, log[p], L[t])
      BY <1>1, <1>5, <2>2
    <3>2. \A i \in Len(L[t]) + 1 .. Len(M[t]) : M[t][i].term = t
      BY Zenon DEF Passes, Evolves
    <3>3. NextSafe(k, log[p], M[t])
      BY <1>1, <1>2, <1>3, <3>1, <3>2, NextSafeStays, Zenon
    <3>4. log'[p] = log[p] \/ AgreeUpTo(Len(log'[p]), log'[p], M[t])
      BY <2>2, Zenon DEF Passes, Evolves
    <3>5. NextSafe(k, log'[p], M[t])
      BY <3>3, <3>4, Zenon DEF NextSafe
    <3>6. QED
      BY <1>1, <2>2, <3>5 DEF Probes
  <2>3. QED
    BY <1>1, <1>5, <2>1, <2>2
<1>6. QED
  BY <1>4, <1>5, Zenon DEF Probes

\* The only things a Node newly holds are in its log and in its Leader's.
NewHolds(L, W, M, V) ==
    \A w \in Node : \A t \in Nat : \A k \in Nat \ {0} :
        Holds(M, V, w, t, k)' =>
            \/ Holds(L, W, w, t, k)
            \/ t = term'[w] /\ AgreeUpTo(k, log'[w], M[t])

LEMMA AcksStayKept ==
    ASSUME NEW L, NEW W, NEW M, NEW V, Passes(L, W, M, V), NewHolds(L, W, M, V), AcksKept(L, W)
    PROVE  AcksKept(M, V)'
<1> SUFFICES ASSUME NEW w \in Node, NEW t \in Nat, NEW k \in Nat \ {0}, Holds(M, V, w, t, k)'
             PROVE  Kept(M, w, t, k)'
  BY Zenon DEF AcksKept
<1>1. CASE Holds(L, W, w, t, k)
  BY <1>1, KeptStays, Zenon DEF AcksKept
<1>2. CASE t = term'[w] /\ AgreeUpTo(k, log'[w], M[t])
  <2>1. k <= Len(M[t])
    BY <1>2, Zenon DEF AgreeUpTo
  <2>2. QED
    BY <1>2, <2>1 DEF Kept
<1>3. QED
  BY <1>1, <1>2, Zenon DEF NewHolds

\* What a vote was informed of stays all there was: a Node that has reached
\* the term of its vote acknowledges nothing of earlier terms.
LEMMA InformedStays ==
    ASSUME NEW L, NEW W, NEW M, NEW V, NEW w \in Node, NEW u \in Nat, NEW s \in Nat, NEW i \in Nat,
           Passes(L, W, M, V), NewHolds(L, W, M, V), AcksKept(L, W), u <= term[w],
           Informed(L, W, w, u, s, i)
    PROVE  Informed(M, V, w, u, s, i)'
<1>0. \A t \in Nat : /\ Len(L[t]) \in Nat /\ Len(M[t]) \in Nat /\ Len(L[t]) <= Len(M[t])
                     /\ \A j \in 0 .. Len(L[t]) : TermAt(M[t], j) = TermAt(L[t], j)
  BY LeaderLogGrows
<1> SUFFICES ASSUME NEW t \in 0 .. u - 1, NEW k \in 1 .. Len(M[t]), M[t][k].term = t,
                    Holds(M, V, w, t, k)'
             PROVE  (\E v \in t + 1 .. u - 1 : Lacks(M, v, t, k)) \/ s > t \/ (s = t /\ i >= k)
  BY Zenon DEF Informed
<1>1. t \in Nat
  OBVIOUS
<1>2. t \in Nat /\ t < u /\ term[w] \in Nat /\ term'[w] \in Nat /\ term[w] <= term'[w]
  <2>1. term[w] \in Nat /\ term'[w] \in Nat
    BY PassesTypes, Zenon
  <2>2. QED
    BY <2>1 DEF Passes, Evolves
<1>3. /\ Len(L[t]) \in Nat /\ Len(M[t]) \in Nat
      /\ \A j \in 0 .. Len(L[t]) : TermAt(M[t], j) = TermAt(L[t], j)
      /\ Len(L[t]) <= Len(M[t])
  BY <1>0, <1>1, Zenon
<1>4. k \in Nat \ {0} /\ t # term'[w]
  BY <1>2, <1>3
<1>5. Holds(L, W, w, t, k)
  BY <1>2, <1>4, Zenon DEF NewHolds
<1>6. k <= Len(L[t])
  BY <1>2, <1>4, <1>5, Zenon DEF AcksKept, Kept
<1>7. L[t][k].term = t
  <2>1. k \in 0 .. Len(L[t]) /\ k \in 1 .. Len(L[t]) /\ k \in 1 .. Len(M[t])
    BY <1>3, <1>4, <1>6
  <2>2. TermAt(M[t], k) = TermAt(L[t], k)
    BY <1>3, <2>1, Zenon
  <2>3. QED
    BY <2>1, <2>2, Zenon DEF TermAt
<1>8. (\E v \in t + 1 .. u - 1 : Lacks(L, v, t, k)) \/ s > t \/ (s = t /\ i >= k)
  <2>1. k \in 1 .. Len(L[t])
    BY <1>3, <1>4, <1>6
  <2>2. QED
    BY <1>5, <1>7, <2>1, Zenon DEF Informed
<1>9. ASSUME NEW v \in t + 1 .. u - 1, Lacks(L, v, t, k) PROVE Lacks(M, v, t, k)
  <2>1. v \in Nat /\ t < v
    BY <1>2
  <2>2. History(L, W) /\ M \in [Nat -> Seq(Entry)] /\ Extends(L, M)
    BY PassesTypes, Zenon
  <2>3. QED
    BY <1>2, <1>4, <1>6, <1>9, <2>1, <2>2, LacksStays, Zenon
<1>10. QED
  BY <1>8, <1>9, Zenon

\* What was chosen was chosen.
LEMMA ChosenStays ==
    ASSUME NEW L, NEW W, NEW M, NEW V, NEW t \in Nat, NEW k \in Nat,
           Passes(L, W, M, V), Chosen(L, W, t, k)
    PROVE  Chosen(M, V, t, k)'
<1>1. /\ Len(L[t]) \in Nat /\ Len(M[t]) \in Nat /\ Len(L[t]) <= Len(M[t])
      /\ \A j \in 0 .. Len(L[t]) : TermAt(M[t], j) = TermAt(L[t], j)
  BY LeaderLogGrows
<1>2. k \in 1 .. Len(L[t]) /\ k \in 0 .. Len(L[t]) /\ k \in 1 .. Len(M[t]) /\ k \in Nat \ {0}
  BY <1>1 DEF Chosen
<1>3. M[t][k].term = t
  <2>1. TermAt(M[t], k) = TermAt(L[t], k)
    BY <1>1, <1>2, Zenon
  <2>2. QED
    BY <1>2, <2>1, Zenon DEF TermAt, Chosen
<1>4. PICK Q \in SUBSET Node : IsQuorum(Q) /\ \A w \in Q : Holds(L, W, w, t, k)
  BY Zenon DEF Chosen
<1>5. QED
  BY <1>2, <1>3, <1>4, HoldsStays, Zenon DEF Chosen

LEMMA ChosenByStays ==
    ASSUME NEW L, NEW W, NEW M, NEW V, NEW c \in Nat, NEW x, NEW y, NEW t \in Nat, NEW u \in Nat,
           Passes(L, W, M, V), ChosenBy(L, W, c, x, t), AgreeUpTo(c, x, y), t <= u
    PROVE  ChosenBy(M, V, c, y, u)'
<1>1. CASE c = 0
  BY <1>1, Zenon DEF ChosenBy
<1>2. CASE c # 0
  <2>1. PICK s \in 0 .. t, k \in Nat : k >= c /\ Chosen(L, W, s, k) /\ AgreeUpTo(c, x, L[s])
    BY <1>2, Zenon DEF ChosenBy
  <2>2. s \in Nat /\ s \in 0 .. u
    OBVIOUS
  <2>3. Chosen(M, V, s, k)'
    BY <2>1, <2>2, ChosenStays, Zenon
  <2>4. AgreeUpTo(c, y, M[s])
    <3>1. Len(L[s]) \in Nat /\ \A j \in 0 .. Len(L[s]) : AgreeUpTo(j, L[s], M[s])
      BY <2>2, LeaderLogGrows, Zenon
    <3>2. c \in 0 .. Len(L[s])
      BY <2>1, <3>1 DEF AgreeUpTo
    <3>3. AgreeUpTo(c, L[s], M[s])
      BY <3>1, <3>2, Zenon
    <3>4. QED
      BY <2>1, <3>3, AgreeSym, AgreeTrans, Zenon
  <2>5. QED
    BY <2>1, <2>2, <2>3, <2>4, Zenon DEF ChosenBy
<1>3. QED
  BY <1>1, <1>2, Zenon

-----------------------------------------------------------------------------
(* Every step evolves. *)

LEMMA UnchangedEvolves ==
    ASSUME NEW L, NEW W, TypeInv, TypeInv', History(L, W), msgs \subseteq msgs',
           \A p \in Node : term'[p] >= term[p],
           \A p \in Node :
              /\ \/ log'[p] = log[p]
                 \/ L[term'[p]] # <<>> /\ AgreeUpTo(Len(log'[p]), log'[p], L[term'[p]])
              /\ \A k \in Nat : AgreeUpTo(k, log[p], L[term'[p]]) => AgreeUpTo(k, log'[p], L[term'[p]])
    PROVE  Evolves(L, W, L, W)
<1>1. ASSUME NEW t \in Nat PROVE AgreeUpTo(Len(L[t]), L[t], L[t]) /\ Len(L[t]) + 1 .. Len(L[t]) = {}
  BY LogEntry DEF History, AgreeUpTo
<1>2. QED
  BY <1>1, Zenon DEF Evolves, Extends

\* Leaders extend their own logs only.
LEMMA ActsEvolves ==
    ASSUME NEW L, NEW W, NEW M, NEW V, NEW n \in Node,
           TypeInv, TypeInv', ElectionInv, HistoryInv(L, W), HistoryInv(M, V)', msgs \subseteq msgs',
           Acts(n), Records(n, L, W, M, V)
    PROVE  Evolves(L, W, M, V)
<1> DEFINE t == term[n]
<1>0. M \in [Nat -> Seq(Entry)] /\ V \in [Nat -> Node] /\ Extends(L, M)
  BY LeaderExtends, Zenon
<1>1. \A u \in Nat : L[u] # <<>> => V[u] = W[u]
  BY LeaderExtends, SMTT(30)
<1>2. /\ t \in Nat /\ M[t] = log'[n] /\ V[t] = n
      /\ role[n] = "Leader" => L[t] = log[n]
  BY LeaderExtends, SMTT(30)
<1>3. \A u \in Nat \ {t} : M[u] = L[u] /\ V[u] = W[u]
  BY LeaderExtends, SMTT(30)
<1>4. /\ M \in [Nat -> Seq(Entry)] /\ V \in [Nat -> Node] /\ Extends(L, M)
      /\ \A u \in Nat : L[u] # <<>> => V[u] = W[u]
      /\ t \in Nat /\ M[t] = log'[n] /\ V[t] = n
      /\ \A u \in Nat \ {t} : M[u] = L[u] /\ V[u] = W[u]
      /\ role[n] = "Leader" => L[t] = log[n]
  BY <1>0, <1>2, <1>3, <1>1, Zenon
<1>5. term \in [Node -> Nat] /\ log[n] \in Seq(Entry) /\ log'[n] \in Seq(Entry) /\ History(L, W)
  BY Zenon DEF TypeInv, TypeOK, HistoryInv
<1>6. term'[n] = t /\ \A p \in Node \ {n} : term'[p] = term[p] /\ log'[p] = log[p]
  BY Zenon DEF Acts, Leads, Others
<1>7. ASSUME NEW u \in Nat, L[u] # <<>>, NEW i \in Len(L[u]) + 1 .. Len(M[u])
      PROVE  M[u][i].term = u
  <2>1. L[u] \in Seq(Entry)
    BY <1>5, Zenon DEF History
  <2>2. Len(L[u]) \in Nat
    BY <2>1, LogEntry, Zenon
  <2>3. CASE u # t
    <3>1. M[u] = L[u]
      BY <1>4, <2>3, Zenon
    <3>2. i \in Len(L[u]) + 1 .. Len(L[u])
      BY <3>1, Zenon
    <3>3. QED
      BY <2>2, <3>2
  <2>4. CASE u = t
    <3>1. role[n] = "Leader"
      <4>1. W[t] = n
        BY <1>4, <1>7, <2>4, Zenon
      <4>2. role[n] # "Candidate"
        BY <1>4, <1>7, <2>4, <4>1, Zenon DEF HistoryInv, LeadersRecorded
      <4>3. QED
        BY <4>2, Zenon DEF Acts
    <3>2. L[u] = log[n] /\ M[u] = log'[n]
      BY <1>4, <2>4, <3>1, Zenon
    <3>3. log'[n] # log[n]
      BY <1>7, <2>2, <3>2
    <3>4. PICK e \in Entry : e.term = t /\ log'[n] = Append(log[n], e)
      BY <3>3, Zenon DEF Acts
    <3>5. Len(log'[n]) = Len(log[n]) + 1 /\ log'[n][Len(log[n]) + 1] = e
      BY <1>5, <3>4, AppendAgrees
    <3>6. QED
      BY <1>7, <2>2, <2>4, <3>2, <3>4, <3>5
  <2>5. QED
    BY <2>3, <2>4, Zenon
<1>8. M[t] # <<>>
  BY <1>6, Zenon DEF HistoryInv, LeadersRecorded, Acts, Leads
<1>9. Len(log'[n]) \in Nat
  BY <1>5, LogEntry, Zenon
<1>10. ASSUME NEW p \in Node
      PROVE  /\ term'[p] >= term[p]
             /\ \/ log'[p] = log[p]
                \/ M[term'[p]] # <<>> /\ AgreeUpTo(Len(log'[p]), log'[p], M[term'[p]])
             /\ \A k \in Nat : AgreeUpTo(k, log[p], M[term'[p]]) => AgreeUpTo(k, log'[p], M[term'[p]])
  <2>1. CASE p # n
    BY <1>5, <1>6, <2>1
  <2>2. CASE p = n
    <3>1. term'[p] = t /\ M[t] = log'[p]
      BY <1>4, <1>6, <2>2, Zenon
    <3>2. AgreeUpTo(Len(log'[n]), log'[n], log'[n])
      BY <1>9 DEF AgreeUpTo
    <3>3. ASSUME NEW k \in Nat, AgreeUpTo(k, log[n], log'[n]) PROVE AgreeUpTo(k, log'[n], log'[n])
      BY <3>3, Zenon DEF AgreeUpTo
    <3>4. t >= t
      BY <1>4
    <3>5. term'[p] >= term[p]
      BY <2>2, <3>1, <3>4, Zenon
    <3>6. M[term'[p]] # <<>> /\ AgreeUpTo(Len(log'[p]), log'[p], M[term'[p]])
      BY <1>8, <2>2, <3>1, <3>2, Zenon
    <3>7. \A k \in Nat : AgreeUpTo(k, log[p], M[term'[p]]) => AgreeUpTo(k, log'[p], M[term'[p]])
      BY <2>2, <3>1, <3>3, Zenon
    <3>8. QED
      BY <3>5, <3>6, <3>7, Zenon
  <2>3. QED
    BY <2>1, <2>2, Zenon
<1>11. QED
  BY <1>4, <1>7, <1>10, Zenon DEF Evolves

\* A Follower takes a prefix of the log of its Leader, or keeps its own.
LEMMA FollowsEvolves ==
    ASSUME NEW L, NEW W, NEW n \in Node, NEW m \in msgs,
           TypeInv, TypeInv', HistoryInv(L, W), msgs \subseteq msgs', Accepts(n, m) \/ Crashes(n, m)
    PROVE  Evolves(L, W, L, W)
<1>1. /\ Follows(n, m) /\ Consistent(n, m)
      /\ \/ log'[n] = AppendNew(log[n], m.prevLogIndex, m.entries)
         \/ log'[n] \in PartialLogs(log[n], m.prevLogIndex, m.entries)
  BY Zenon DEF Accepts, Crashes
<1>2. /\ RequestRecorded(m, L, W)
      /\ log'[n] = log[n] \/ AgreeUpTo(Len(log'[n]), log'[n], L[m.term])
      /\ \A k \in Nat : AgreeUpTo(k, log[n], L[m.term]) => AgreeUpTo(k, log'[n], L[m.term])
  BY <1>1, FollowerTakes, Zenon
<1>3. L[m.term] # <<>>
  BY <1>2, Zenon DEF RequestRecorded
<1>4. term'[n] = m.term /\ m.term >= term[n]
  BY <1>1, Zenon DEF Follows
<1>5. term \in [Node -> Nat] /\ History(L, W)
  BY Zenon DEF TypeInv, TypeOK, HistoryInv
<1>6. \A p \in Node \ {n} : term'[p] = term[p] /\ log'[p] = log[p]
  BY <1>1, Zenon DEF Follows, Others
<1>7. \A p \in Node : term'[p] >= term[p]
  BY <1>4, <1>5, <1>6
<1>8. ASSUME NEW p \in Node
      PROVE  /\ \/ log'[p] = log[p]
                \/ L[term'[p]] # <<>> /\ AgreeUpTo(Len(log'[p]), log'[p], L[term'[p]])
             /\ \A k \in Nat : AgreeUpTo(k, log[p], L[term'[p]]) => AgreeUpTo(k, log'[p], L[term'[p]])
  <2>1. CASE p # n
    BY <1>6, <2>1, Zenon
  <2>2. CASE p = n
    BY <1>2, <1>3, <1>4, <2>2, Zenon
  <2>3. QED
    BY <2>1, <2>2, Zenon
<1>9. QED
  BY <1>5, <1>7, <1>8, UnchangedEvolves, Zenon

LEMMA MovesEvolves ==
    ASSUME NEW L, NEW W, NEW M, NEW V, NEW n \in Node,
           TypeInv, TypeInv', ElectionInv, HistoryInv(L, W), HistoryInv(M, V)', msgs \subseteq msgs',
           Moves(n, L, W, M, V)
    PROVE  Passes(L, W, M, V)
<1>1. CASE /\ Listens(n) \/ Campaigns(n) \/ \E m \in msgs : Rejects(n, m)
           /\ M = L /\ V = W
  <2>1. term \in [Node -> Nat] /\ History(L, W)
    BY Zenon DEF TypeInv, TypeOK, HistoryInv
  <2>2. Others(n) /\ LogStays(n) /\ term'[n] >= term[n]
    <3>1. CASE Listens(n)
      BY <3>1, Zenon DEF Listens
    <3>2. CASE Campaigns(n)
      BY <2>1, <3>2 DEF Campaigns
    <3>3. CASE \E m \in msgs : Rejects(n, m)
      BY <3>3, Zenon DEF Rejects, Follows
    <3>4. QED
      BY <1>1, <3>1, <3>2, <3>3, Zenon
  <2>3. \A p \in Node : term'[p] >= term[p] /\ log'[p] = log[p]
    BY <2>1, <2>2 DEF Others, LogStays
  <2>4. Evolves(L, W, L, W)
    BY <2>1, <2>3, UnchangedEvolves, Zenon
  <2>5. QED
    BY <1>1, <2>4, Zenon DEF Passes
<1>2. CASE (\E m \in msgs : Accepts(n, m) \/ Crashes(n, m)) /\ M = L /\ V = W
  BY <1>2, FollowsEvolves, Zenon DEF Passes
<1>3. CASE /\ Wins(n) \/ Sends(n) \/ \E m \in msgs : Learns(n, m)
           /\ Records(n, L, W, M, V)
  <2>1. Acts(n)
    BY <1>3, LeaderActs, Zenon
  <2>2. Evolves(L, W, M, V)
    BY <1>3, <2>1, ActsEvolves, Zenon
  <2>3. QED
    BY <2>2, Zenon DEF Passes
<1>4. QED
  BY <1>1, <1>2, <1>3, Zenon DEF Moves

-----------------------------------------------------------------------------
(* What a step adds. *)

\* The index where the Follower looks for the conflict.
Probed(n, m) ==
    IF Matches(log[n], m.prevLogIndex, m.prevLogTerm) THEN m.prevLogIndex + 1 ELSE m.prevLogIndex

\* What Node n answers to a request it accepts,
Confirms(n, r) ==
    /\ r.type = "AppendEntriesResponse" /\ r.success = TRUE
    /\ \E m \in msgs : /\ Accepts(n, m)
                       /\ r.from = n /\ r.term = m.term /\ r.matchIndex = Len(log'[n])

\* and to one it rejects.
Refuses(n, r) ==
    /\ r.type = "AppendEntriesResponse" /\ r.success = FALSE
    /\ \E m \in msgs : /\ Rejects(n, m)
                       /\ r.from = n /\ r.term = m.term
                       /\ r.conflictTerm = ConflictHint(log[n], Probed(n, m)).term
                       /\ r.conflictIndex = ConflictHint(log[n], Probed(n, m)).index

\* Who sends what.
LEMMA NewMessages ==
    ASSUME NEW n, NEW L, NEW W, NEW M, NEW V, NEW r \in msgs', Moves(n, L, W, M, V), r \notin msgs
    PROVE  \/ Listens(n) /\ (Inert(r) \/ VoteOf(n, r))
           \/ Campaigns(n) /\ r.type = "VoteRequest"
           \/ Leads(n) /\ Records(n, L, W, M, V) /\ r.type = "AppendEntries"
           \/ M = L /\ (Confirms(n, r) \/ Refuses(n, r))
<1>1. CASE Listens(n)
  BY <1>1, Zenon DEF Listens
<1>2. CASE Campaigns(n)
  BY <1>2, Zenon DEF Campaigns
<1>3. ASSUME NEW m \in msgs, Accepts(n, m)
      PROVE  Confirms(n, r)
  <2>1. r = AppendResponse(n, m, m.term, TRUE, Len(log'[n]), NoHint)
    BY <1>3, Zenon DEF Accepts
  <2>2. /\ r.type = "AppendEntriesResponse" /\ r.from = n /\ r.term = m.term
        /\ r.success = TRUE /\ r.matchIndex = Len(log'[n])
    BY <2>1, Zenon DEF AppendResponse
  <2>3. QED
    BY <1>3, <2>2, Zenon DEF Confirms
<1>4. ASSUME NEW m \in msgs, Rejects(n, m)
      PROVE  Refuses(n, r)
  <2> DEFINE hint == ConflictHint(log[n], Probed(n, m))
  <2>1. r = AppendResponse(n, m, m.term, FALSE, Len(log[n]), hint)
    BY <1>4, ZenonT(60), Zenon DEF Rejects, Probed
  <2> HIDE DEF hint
  <2>2. /\ r.type = "AppendEntriesResponse" /\ r.from = n /\ r.term = m.term
        /\ r.success = FALSE /\ r.conflictTerm = hint.term /\ r.conflictIndex = hint.index
    BY <2>1, Zenon DEF AppendResponse
  <2>3. QED
    BY <1>4, <2>2, Zenon DEF hint, Refuses
<1>5. \A m \in msgs : ~Crashes(n, m)
  BY Zenon DEF Crashes
<1>6. CASE Leads(n) /\ Records(n, L, W, M, V)
  BY <1>6, Zenon DEF Leads, RequestOf
<1>7. QED
  BY <1>1, <1>2, <1>3, <1>4, <1>5, <1>6, Zenon DEF Moves, Wins, Sends, Learns

\* The same, for each kind of message.
LEMMA NewVoteRequest ==
    ASSUME NEW n, NEW L, NEW W, NEW M, NEW V, NEW r \in msgs', Moves(n, L, W, M, V), r \notin msgs,
           r.type = "VoteRequest"
    PROVE  /\ Campaigns(n) /\ r.from = n /\ r.term = term'[n]
           /\ r.lastLogIndex = Len(log[n]) /\ r.lastLogTerm = LastLogTerm(log[n])
<1>1. Campaigns(n)
  BY NewMessages, Zenon DEF Inert, VoteOf, Hintless, Confirms, Refuses
<1>2. QED
  BY <1>1, Zenon DEF Campaigns

LEMMA NewVote ==
    ASSUME NEW n, NEW L, NEW W, NEW M, NEW V, NEW r \in msgs', Moves(n, L, W, M, V), r \notin msgs,
           r.type = "VoteResponse", r.granted
    PROVE  Listens(n) /\ VoteOf(n, r)
  BY NewMessages, Zenon DEF Inert, VoteOf, Hintless, Confirms, Refuses

LEMMA NewRequest ==
    ASSUME NEW n, NEW L, NEW W, NEW M, NEW V, NEW r \in msgs', Moves(n, L, W, M, V), r \notin msgs,
           r.type = "AppendEntries"
    PROVE  Leads(n) /\ RequestOf(n, r) /\ Records(n, L, W, M, V)
<1>1. Leads(n) /\ Records(n, L, W, M, V)
  BY NewMessages, Zenon DEF Inert, VoteOf, Hintless, Confirms, Refuses
<1>2. QED
  BY <1>1, Zenon DEF Leads

LEMMA NewSuccess ==
    ASSUME NEW n, NEW L, NEW W, NEW M, NEW V, NEW r \in msgs', Moves(n, L, W, M, V), r \notin msgs,
           r.type = "AppendEntriesResponse", r.success
    PROVE  \E m \in msgs : /\ Accepts(n, m) /\ M = L
                           /\ r.from = n /\ r.term = m.term /\ r.matchIndex = Len(log'[n])
<1>1. ~Inert(r) /\ ~VoteOf(n, r)
  BY Zenon DEF Inert, VoteOf, Hintless
<1>2. ~Refuses(n, r)
  BY Zenon DEF Refuses
<1>3. M = L /\ Confirms(n, r)
  BY <1>1, <1>2, NewMessages, Zenon
<1>4. QED
  BY <1>3, Zenon DEF Confirms

LEMMA NewHint ==
    ASSUME NEW n, NEW L, NEW W, NEW M, NEW V, NEW r \in msgs', Moves(n, L, W, M, V), r \notin msgs,
           r.type = "AppendEntriesResponse", ~r.success, r.conflictIndex # 0
    PROVE  \E m \in msgs : /\ Rejects(n, m) /\ M = L /\ r.from = n /\ r.term = m.term
                           /\ r.conflictTerm = ConflictHint(log[n], Probed(n, m)).term
                           /\ r.conflictIndex = ConflictHint(log[n], Probed(n, m)).index
<1>1. ~Inert(r) /\ ~VoteOf(n, r)
  BY Zenon DEF Inert, VoteOf, Hintless
<1>2. ~Confirms(n, r)
  BY Zenon DEF Confirms
<1>3. M = L /\ Refuses(n, r)
  BY <1>1, <1>2, NewMessages, Zenon
<1>4. QED
  BY <1>3, Zenon DEF Refuses

\* After an accepted request the Follower's log is a prefix of the Leader's.
LEMMA AcceptsPrefix ==
    ASSUME NEW L, NEW W, NEW n \in Node, NEW m \in msgs, TypeInv, HistoryInv(L, W), RequestsProbe(L),
           Accepts(n, m)
    PROVE  AgreeUpTo(Len(log'[n]), log'[n], L[m.term])
<1>1. /\ Follows(n, m) /\ Consistent(n, m)
      /\ log'[n] = AppendNew(log[n], m.prevLogIndex, m.entries)
  BY Zenon DEF Accepts
<1>2. /\ m.term \in Nat /\ L[m.term] \in Seq(Entry) /\ log[n] \in Seq(Entry) /\ log'[n] \in Seq(Entry)
      /\ RequestRecorded(m, L, W)
      /\ AgreeUpTo(m.prevLogIndex, log[n], L[m.term])
      /\ log'[n] = log[n] \/ AgreeUpTo(Len(log'[n]), log'[n], L[m.term])
      /\ AgreeUpTo(m.prevLogIndex + Len(m.entries), log'[n], L[m.term])
  BY <1>1, FollowerTakes, Zenon
<1>3. m \in AppendRequests /\ m.to = n /\ m.term >= term[n]
  BY <1>1, Zenon DEF Follows
<1>4. /\ m.type = "AppendEntries" /\ m.prevLogIndex \in Nat /\ m.entries \in Seq(Entry)
  BY <1>3, Zenon DEF AppendRequests
<1>5. term[n] \in Nat /\ History(L, W) /\ FromLeaders(log[n], L) /\ TermsUpTo(log[n], term[n])
  BY Zenon DEF TypeInv, TypeOK, HistoryInv, LogsRecorded
<1>6. TermsUpTo(log[n], m.term)
  BY <1>2, <1>3, <1>5, TermsUpToLater, Zenon
<1>7. m.term # 0 /\ (m.entries = <<>> => TermAt(L[m.term], m.prevLogIndex) = m.term)
  BY <1>2, <1>5, Zenon DEF RequestRecorded, History
<1>8. TermAt(L[m.term], m.prevLogIndex) = m.term \/ NextSafe(m.prevLogIndex + 1, log[n], L[m.term])
  <2>1. Probes(n, m.term, m.prevLogIndex + 1, L[m.term])
    BY <1>3, <1>4, Zenon DEF RequestsProbe
  <2>2. (m.prevLogIndex + 1) - 1 = m.prevLogIndex
    BY <1>4
  <2>3. term[n] >= m.term => term[n] = m.term
    BY <1>2, <1>3, <1>5
  <2>4. \/ TermAt(L[m.term], (m.prevLogIndex + 1) - 1) = m.term
        \/ term[n] >= m.term /\ (term[n] = m.term => NextSafe(m.prevLogIndex + 1, log[n], L[m.term]))
    BY <2>1, Zenon DEF Probes
  <2>5. QED
    BY <2>2, <2>3, <2>4, Zenon
<1>9. QED
  BY <1>2, <1>4, <1>5, <1>6, <1>7, <1>8, AcceptedIsPrefix, Zenon

\* What is newly held.
LEMMA MovesHold ==
    ASSUME NEW L, NEW W, NEW M, NEW V, NEW n \in Node,
           ElectionInv, Passes(L, W, M, V), RequestsProbe(L), Moves(n, L, W, M, V)
    PROVE  NewHolds(L, W, M, V)
<1> SUFFICES ASSUME NEW w \in Node, NEW t \in Nat, NEW k \in Nat \ {0}, Holds(M, V, w, t, k)'
             PROVE  Holds(L, W, w, t, k) \/ (t = term'[w] /\ AgreeUpTo(k, log'[w], M[t]))
  BY Zenon DEF NewHolds
<1>1. CASE Acked(w, t, k)'
  <2>1. PICK r \in msgs' : /\ r.type = "AppendEntriesResponse" /\ r.success
                           /\ r.from = w /\ r.term = t /\ r.matchIndex >= k
    BY <1>1, Zenon DEF Acked
  <2>2. CASE r \in msgs
    <3>1. Acked(w, t, k)
      BY <2>1, <2>2, Zenon DEF Acked
    <3>2. QED
      BY <3>1, Zenon DEF Holds
  <2>3. CASE r \notin msgs
    <3>1. PICK m \in msgs : /\ Accepts(n, m) /\ M = L
                            /\ r.from = n /\ r.term = m.term /\ r.matchIndex = Len(log'[n])
      BY <2>1, <2>3, NewSuccess
    <3>2. AgreeUpTo(Len(log'[n]), log'[n], L[m.term])
      BY <3>1, AcceptsPrefix, Zenon DEF Passes
    <3>3. term'[n] = m.term
      BY <3>1, Zenon DEF Accepts, Follows
    <3>4. Len(log'[n]) \in Nat /\ Len(L[t]) \in Nat
      BY LogEntry, PassesTypes
    <3>5. AgreeUpTo(k, log'[n], L[t])
      BY <2>1, <3>1, <3>2, <3>4, AgreeLess
    <3>6. QED
      BY <2>1, <3>1, <3>3, <3>5, Zenon
  <2>4. QED
    BY <2>2, <2>3, Zenon
<1>2. CASE V[t] = w /\ k <= Len(M[t])
  <2>1. CASE M = L /\ V = W
    BY <1>2, <2>1, Zenon DEF Holds
  <2>2. CASE Records(n, L, W, M, V) /\ term'[n] = term[n]
    <3>1. CASE t # term[n]
      <4>1. M[t] = L[t] /\ V[t] = W[t]
        BY <2>2, <3>1, PassesTypes, Zenon DEF Records
      <4>2. QED
        BY <1>2, <4>1, Zenon DEF Holds
    <3>2. CASE t = term[n]
      <4>1. M[t] = log'[n] /\ V[t] = n
        BY <2>2, <3>2, PassesTypes, Zenon DEF Records
      <4>2. AgreeUpTo(k, log'[n], log'[n])
        BY <1>2, <4>1, Zenon DEF AgreeUpTo
      <4>3. QED
        BY <1>2, <2>2, <3>2, <4>1, <4>2, Zenon
    <3>3. QED
      BY <3>1, <3>2, Zenon
  <2>3. QED
    BY <2>1, <2>2, Zenon DEF Moves, Wins, Sends, Learns, Leads
<1>3. QED
  BY <1>1, <1>2, Zenon DEF Holds

\* A successful response still tells the truth in its term.
LEMMA MovesSucceed ==
    ASSUME NEW L, NEW W, NEW M, NEW V, NEW n \in Node,
           Passes(L, W, M, V), RequestsProbe(L), SuccessesHeld(L), Moves(n, L, W, M, V)
    PROVE  SuccessesHeld(M)'
<1> SUFFICES ASSUME NEW r \in msgs', r.type = "AppendEntriesResponse", r.success
             PROVE  /\ r.term <= term'[r.from]
                    /\ term'[r.from] = r.term =>
                           AgreeUpTo(Len(log'[r.from]), log'[r.from], M[r.term])
  BY Zenon DEF SuccessesHeld
<1>0. TypeInv /\ TypeInv' /\ HistoryInv(L, W)
  BY Zenon DEF Passes
<1>1. r.from \in Node /\ r.term \in Nat
  <2>1. r \in Message
    BY <1>0, Zenon DEF TypeInv, TypeOK
  <2>2. r \in AppendResponses
    BY <2>1, MessageKinds, Zenon
  <2>3. QED
    BY <2>2, Zenon DEF AppendResponses
<1> DEFINE p == r.from
<1>2. CASE r \in msgs
  <2>1. /\ r.term <= term[p]
        /\ term[p] = r.term => AgreeUpTo(Len(log[p]), log[p], L[r.term])
    BY <1>2, Zenon DEF SuccessesHeld
  <2>2. term[p] \in Nat /\ term'[p] \in Nat
    BY <1>1, PassesTypes, Zenon
  <2>3. term[p] <= term'[p]
    BY <1>1, <2>2, Zenon DEF Passes, Evolves
  <2>4. r.term <= term'[p]
    BY <1>1, <2>1, <2>2, <2>3
  <2>5. ASSUME term'[p] = r.term PROVE AgreeUpTo(Len(log'[p]), log'[p], M[r.term])
    <3>1. term[p] = r.term /\ term'[p] = term[p]
      BY <1>1, <2>1, <2>2, <2>3, <2>5
    <3>2. AgreeUpTo(Len(log[p]), log[p], L[term[p]])
      BY <2>1, <3>1, Zenon
    <3>3. AgreeUpTo(Len(log'[p]), log'[p], M[term[p]])
      BY <1>1, <3>1, <3>2, PrefixStays, Zenon
    <3>4. QED
      BY <3>1, <3>3, Zenon
  <2>6. QED
    BY <2>4, <2>5, Zenon
<1>3. CASE r \notin msgs
  <2>1. PICK m \in msgs : /\ Accepts(n, m) /\ M = L
                          /\ r.from = n /\ r.term = m.term /\ r.matchIndex = Len(log'[n])
    BY <1>3, NewSuccess
  <2>2. AgreeUpTo(Len(log'[n]), log'[n], L[m.term])
    BY <1>0, <2>1, AcceptsPrefix, Zenon
  <2>3. term'[n] = m.term
    BY <2>1, Zenon DEF Accepts, Follows
  <2>4. QED
    BY <1>1, <2>1, <2>2, <2>3
<1>4. QED
  BY <1>2, <1>3, Zenon

-----------------------------------------------------------------------------
(* Where Leaders probe. *)

LEMMA LeaderLog ==
    ASSUME NEW L, NEW W, NEW n \in Node, TypeInv, HistoryInv(L, W), role[n] = "Leader"
    PROVE  term[n] \in Nat /\ L[term[n]] = log[n] /\ L[term[n]] # <<>> /\ W[term[n]] = n
<1>1. L[term[n]] # <<>> /\ W[term[n]] = n
  BY Zenon DEF HistoryInv, LeadersRecorded
<1>2. QED
  BY <1>1, Zenon DEF HistoryInv, LeadersRecorded, TypeInv, TypeOK

LEMMA LeaderLogAfter ==
    ASSUME NEW L, NEW W, NEW n \in Node, TypeInv', HistoryInv(L, W)', role'[n] = "Leader"
    PROVE  /\ term'[n] \in Nat /\ L[term'[n]] = log'[n] /\ L[term'[n]] # <<>>
           /\ W[term'[n]] = n
<1>1. term'[n] \in Nat
  BY Zenon DEF TypeInv, TypeOK
<1>2. L[term'[n]] # <<>> /\ W[term'[n]] = n
  BY Zenon DEF HistoryInv, LeadersRecorded
<1>3. QED
  BY <1>1, <1>2, Zenon DEF HistoryInv, LeadersRecorded

\* A probe stays safe while the Leader stays one.
LEMMA LeaderProbeStays ==
    ASSUME NEW L, NEW W, NEW M, NEW V, NEW q \in Node, NEW p \in Node, NEW k,
           Passes(L, W, M, V), role[q] = "Leader", role'[q] = "Leader", term'[q] = term[q],
           k \in 1 .. Len(log[q]) + 1, Probes(p, term[q], k, log[q])
    PROVE  k \in 1 .. Len(log'[q]) + 1 /\ Probes(p, term[q], k, log[q])'
<1> DEFINE t == term[q]
<1>1. TypeInv /\ TypeInv' /\ HistoryInv(L, W) /\ HistoryInv(M, V)'
  BY Zenon DEF Passes
<1>2. t \in Nat /\ L[t] = log[q] /\ L[t] # <<>>
  BY <1>1, LeaderLog, Zenon
<1>3. M[t] = log'[q]
  BY <1>1, LeaderLogAfter, ZenonT(60)
<1>4. Len(L[t]) \in Nat /\ Len(M[t]) \in Nat /\ Len(L[t]) <= Len(M[t])
  BY <1>2, LeaderLogGrows, Zenon
<1>5. k \in 1 .. Len(L[t]) + 1 /\ Probes(p, t, k, L[t])
  BY <1>2, Zenon
<1>6. Probes(p, t, k, M[t])'
  BY <1>2, <1>5, ProbesStays, Zenon
<1>7. k \in 1 .. Len(M[t]) + 1
  BY <1>4, <1>5
<1>8. QED
  BY <1>3, <1>6, <1>7, Zenon

\* What is acknowledged is in the Leader's log.
LEMMA AckedWithin ==
    ASSUME NEW L, NEW W, NEW p \in Node, NEW t \in Nat, NEW k \in Nat,
           History(L, W), AcksKept(L, W), k # 0 => Acked(p, t, k)
    PROVE  k <= Len(L[t])
<1>1. CASE k = 0
  BY <1>1, LogEntry DEF History
<1>2. CASE k # 0
  BY <1>2, Zenon DEF Holds, AcksKept, Kept
<1>3. QED
  BY <1>1, <1>2, Zenon

\* What a response teaches is safe.
LEMMA LearnsProbe ==
    ASSUME NEW L, NEW W, NEW n \in Node, NEW m \in msgs, TypeInv, HistoryInv(L, W),
           AcksKept(L, W), SuccessesHeld(L), HintsProbe(L), MatchesAcked, Learns(n, m), ~Hintless(m)
    PROVE  /\ m.from \in Node /\ m.from # n
           /\ LearnNext(n, m) \in 1 .. Len(log[n]) + 1
           /\ Probes(m.from, term[n], LearnNext(n, m), log[n])
<1> DEFINE p == m.from
           t == term[n]
           x == log[n]
<1>1. m \in AppendResponses /\ m.to = n /\ role[n] = "Leader" /\ m.term = t
  BY Zenon DEF Learns
<1>2. /\ m.type = "AppendEntriesResponse" /\ p \in Node /\ m.matchIndex \in Nat
      /\ m.conflictTerm \in Nat /\ m.conflictIndex \in Nat
  BY <1>1, Zenon DEF AppendResponses
<1>3. p # n
  BY <1>1, <1>2, Zenon DEF HistoryInv, Addressed
<1>4. t \in Nat /\ L[t] = x /\ History(L, W)
  BY <1>1, LeaderLog, Zenon DEF HistoryInv
<1>5. x \in Seq(Entry) /\ Len(x) \in Nat /\ matchIndex[n][p] \in Nat
  <2>1. x \in Seq(Entry) /\ matchIndex[n][p] \in Nat
    BY <1>2, Zenon DEF TypeInv, TypeOK
  <2>2. QED
    BY <2>1, LogEntry, Zenon
<1>6. CASE m.success
  <2>1. matchIndex[n][p] <= Len(x)
    <3>1. matchIndex[n][p] # 0 => Acked(p, t, matchIndex[n][p])
      BY <1>1, <1>2, <1>3, Zenon DEF MatchesAcked
    <3>2. QED
      BY <1>2, <1>4, <1>5, <3>1, AckedWithin, Zenon
  <2>2. m.matchIndex <= Len(x)
    BY <1>1, <1>2, <1>4, <1>5, <1>6, AckedWithin, SMTT(30) DEF Acked
  <2>3. LearnNext(n, m) = Max({matchIndex[n][p], m.matchIndex}) + 1
    BY <1>6, Zenon DEF LearnNext, LearnMatch
  <2>4. Max({matchIndex[n][p], m.matchIndex}) \in {matchIndex[n][p], m.matchIndex}
    BY <1>2, <1>5, MaxOfTwo, Zenon
  <2>5. LearnNext(n, m) \in 1 .. Len(x) + 1
    BY <1>2, <1>5, <2>1, <2>2, <2>3, <2>4, SMTT(30)
  <2>6. t <= term[p] /\ (term[p] = t => AgreeUpTo(Len(log[p]), log[p], x))
    BY <1>1, <1>2, <1>4, <1>6, Zenon DEF SuccessesHeld
  <2>7. term[p] \in Nat
    BY <1>2, Zenon DEF TypeInv, TypeOK
  <2>8. Probes(p, t, LearnNext(n, m), x)
    BY <1>4, <2>6, <2>7, Zenon DEF Probes, NextSafe
  <2>9. QED
    BY <1>2, <1>3, <2>5, <2>8, Zenon
<1>7. CASE ~m.success
  <2>1. m.conflictIndex # 0
    BY <1>2, <1>7, Zenon DEF Hintless
  <2> DEFINE k == NextIndexFromConflict(x, m.conflictTerm, m.conflictIndex)
  <2>2. m.conflictIndex <= Len(x) /\ Probes(p, t, k, x)
    BY <1>1, <1>2, <1>4, <1>7, <2>1, Zenon DEF HintsProbe
  <2>3. m.conflictIndex \in 1 .. Len(x)
    BY <1>2, <1>5, <2>1, <2>2
  <2>4. k \in 1 .. Len(x) + 1
    BY <1>2, <1>5, <2>3, NextIndexRange, Zenon
  <2>5. QED
    BY <1>2, <1>3, <1>7, <2>2, <2>4, Zenon DEF LearnNext
<1>8. QED
  BY <1>6, <1>7, Zenon

\* Leaders keep probing safely.
LEMMA MovesLeadersProbe ==
    ASSUME NEW L, NEW W, NEW M, NEW V, NEW n \in Node, Passes(L, W, M, V), Moves(n, L, W, M, V),
           AcksKept(L, W), SuccessesHeld(L), HintsProbe(L), MatchesAcked, LeadersProbe
    PROVE  LeadersProbe'
<1> SUFFICES ASSUME NEW q \in Node, NEW p \in Node, role'[q] = "Leader", p # q
             PROVE  /\ nextIndex'[q][p] \in 1 .. Len(log'[q]) + 1
                    /\ Probes(p, term[q], nextIndex[q][p], log[q])'
  BY Zenon DEF LeadersProbe
<1>0. /\ TypeInv /\ TypeInv' /\ HistoryInv(L, W) /\ HistoryInv(M, V)'
  BY Zenon DEF Passes
<1> DEFINE k == nextIndex'[q][p]
<1>1. ASSUME role[q] = "Leader", term'[q] = term[q], k \in 1 .. Len(log[q]) + 1,
             Probes(p, term[q], k, log[q])
      PROVE  /\ k \in 1 .. Len(log'[q]) + 1
             /\ Probes(p, term[q], nextIndex[q][p], log[q])'
  <2>1. PICK j : j = k
    OBVIOUS
  <2>2. j \in 1 .. Len(log'[q]) + 1 /\ Probes(p, term[q], j, log[q])'
    BY <1>1, <2>1, LeaderProbeStays, Zenon
  <2>3. QED
    BY <2>1, <2>2, Zenon
<1>2. ASSUME role[q] = "Leader", term'[q] = term[q], k = nextIndex[q][p]
      PROVE  /\ k \in 1 .. Len(log'[q]) + 1
             /\ Probes(p, term[q], nextIndex[q][p], log[q])'
  <2>1. k \in 1 .. Len(log[q]) + 1 /\ Probes(p, term[q], k, log[q])
    BY <1>2, Zenon DEF LeadersProbe
  <2>2. QED
    BY <1>1, <1>2, <2>1, Zenon
<1>3. CASE q # n
  <2>1. Others(n)
    BY Zenon
       DEF Moves, Listens, Campaigns, Accepts, Crashes, Rejects, Follows, Wins, Sends, Learns,
           Leads
  <2>2. QED
    BY <1>2, <1>3, <2>1, Zenon DEF Others
<1>4. CASE q = n
  <2>1. CASE Listens(n) \/ Sends(n)
    BY <1>2, <1>4, <2>1, Zenon DEF Listens, Sends, Leads
  <2>2. CASE Campaigns(n) \/ \E m \in msgs : Accepts(n, m) \/ Crashes(n, m) \/ Rejects(n, m)
    BY <1>4, <2>2, Zenon DEF Campaigns, Accepts, Crashes, Rejects, Follows
  <2>3. CASE Wins(n)
    <3> DEFINE x == log'[n]
               e == [term |-> term[n], cmd |-> NoOp]
    <3>1. log[n] \in Seq(Entry) /\ term[n] \in Nat
      BY <1>0, Zenon DEF TypeInv, TypeOK
    <3>2. e \in Entry /\ e.term = term[n]
      BY <3>1, Zenon DEF Entry
    <3>3. x = Append(log[n], e) /\ k = Len(x) + 1 /\ term'[n] = term[n]
      BY <1>4, <2>3, Zenon DEF Wins, Leads
    <3>4. Len(log[n]) \in Nat
      BY <3>1, LogEntry, Zenon
    <3>5. Len(x) = Len(log[n]) + 1 /\ x[Len(log[n]) + 1] = e
      BY <3>1, <3>2, <3>3, AppendAgrees, SMTT(30)
    <3>6. k \in 1 .. Len(x) + 1 /\ k - 1 \in 1 .. Len(x) /\ k - 1 = Len(log[n]) + 1
      BY <3>3, <3>4, <3>5
    <3>7. TermAt(x, k - 1) = term'[n]
      BY <3>2, <3>3, <3>5, <3>6, Zenon DEF TermAt
    <3>8. QED
      BY <1>4, <3>6, <3>7, Zenon DEF Probes
  <2>4. CASE \E m \in msgs : Learns(n, m) /\ ~Hintless(m)
    <3>1. PICK m \in msgs : Learns(n, m) /\ ~Hintless(m)
      BY <2>4, Zenon
    <3>2. role[n] = "Leader" /\ term'[n] = term[n]
      BY <3>1, Zenon DEF Learns, Leads
    <3>3. nextIndex \in [Node -> [Node -> Nat]]
      BY <1>0, Zenon DEF TypeInv, TypeOK
    <3>4. nextIndex'[n] = [nextIndex[n] EXCEPT ![m.from] = LearnNext(n, m)]
      BY <3>1, Zenon DEF Learns
    <3>5. CASE p # m.from
      <4>1. k = nextIndex[n][p]
        BY <1>4, <3>3, <3>4, <3>5, Zenon
      <4>2. QED
        BY <1>2, <1>4, <3>2, <4>1, Zenon
    <3>6. CASE p = m.from
      <4>1. k = LearnNext(n, m)
        BY <1>4, <3>3, <3>4, <3>6, Zenon
      <4>2. LearnNext(n, m) \in 1 .. Len(log[n]) + 1 /\ Probes(p, term[n], LearnNext(n, m), log[n])
        BY <1>0, <3>1, <3>6, LearnsProbe, Zenon
      <4>3. QED
        BY <1>1, <1>4, <3>2, <4>1, <4>2, Zenon
    <3>7. QED
      BY <3>5, <3>6, Zenon
  <2>5. QED
    BY <2>1, <2>2, <2>3, <2>4, Zenon DEF Moves
<1>5. QED
  BY <1>3, <1>4, Zenon

\* Requests stay safe, and new ones are.
LEMMA MovesRequestsProbe ==
    ASSUME NEW L, NEW W, NEW M, NEW V, NEW n \in Node, Passes(L, W, M, V), Moves(n, L, W, M, V),
           RequestsProbe(L), LeadersProbe'
    PROVE  RequestsProbe(M)'
<1> SUFFICES ASSUME NEW r \in msgs', r.type = "AppendEntries"
             PROVE  Probes(r.to, r.term, r.prevLogIndex + 1, M[r.term])'
  BY Zenon DEF RequestsProbe
<1>0. /\ TypeInv /\ TypeInv' /\ HistoryInv(L, W) /\ HistoryInv(M, V)' /\ History(L, W)
  BY Zenon DEF Passes, HistoryInv
<1>1. r.to \in Node /\ r.term \in Nat /\ r.prevLogIndex \in Nat /\ r.entries \in Seq(Entry)
  <2>1. r \in Message
    BY <1>0, Zenon DEF TypeInv, TypeOK
  <2>2. r \in AppendRequests
    BY <2>1, MessageKinds, Zenon
  <2>3. QED
    BY <2>2, Zenon DEF AppendRequests
<1>2. CASE r \in msgs
  <2>1. Probes(r.to, r.term, r.prevLogIndex + 1, L[r.term])
    BY <1>2, Zenon DEF RequestsProbe
  <2>2. L[r.term] # <<>> /\ r.prevLogIndex + Len(r.entries) <= Len(L[r.term])
    BY <1>0, <1>2, Zenon DEF HistoryInv, RequestsRecorded, RequestRecorded, PartOf
  <2>3. L[r.term] \in Seq(Entry)
    BY <1>0, <1>1, Zenon DEF History
  <2>4. Len(L[r.term]) \in Nat /\ Len(r.entries) \in Nat
    BY <1>1, <2>3, LogEntry, Zenon
  <2>5. r.prevLogIndex + 1 \in 1 .. Len(L[r.term]) + 1
    BY <1>1, <2>2, <2>4, SMTT(30)
  <2>6. QED
    BY <1>1, <2>1, <2>2, <2>5, ProbesStays, Zenon
<1>3. CASE r \notin msgs
  <2>1. Leads(n) /\ RequestOf(n, r)
    BY <1>3, NewRequest, Zenon
  <2> DEFINE x == log'[n]
             k == nextIndex'[n][r.to]
  <2>2. /\ r.to \in Node /\ r.to # n /\ r.term = term[n] /\ role'[n] = "Leader" /\ term'[n] = term[n]
        /\ r.prevLogIndex = FirstToSend(k, x) - 1
    BY <2>1, Zenon DEF RequestOf, Leads, Peers
  <2>3. M[term'[n]] = x
    BY <1>0, <2>2, LeaderLogAfter, ZenonT(60)
  <2>4. k \in 1 .. Len(x) + 1 /\ Probes(r.to, term[n], nextIndex[n][r.to], log[n])'
    BY <2>2, Zenon DEF LeadersProbe
  <2>5. Len(x) \in Nat
    BY LogEntry, PassesTypes, Zenon
  <2>6. FirstToSend(k, x) = k
    <3> HIDE DEF k, x
    <3>1. k \in Nat /\ Len(x) + 1 \in Nat /\ k <= Len(x) + 1
      BY <2>4, <2>5
    <3>2. Min({k, Len(x) + 1}) \in {k, Len(x) + 1} /\ Min({k, Len(x) + 1}) <= k
      BY <3>1, MinOfTwo, Zenon
    <3>3. Min({k, Len(x) + 1}) = k
      BY <3>1, <3>2, SMTT(30)
    <3>4. QED
      BY <3>3, Zenon DEF FirstToSend
  <2>7. r.prevLogIndex + 1 = k
    BY <2>2, <2>4, <2>5, <2>6
  <2>8. QED
    BY <2>2, <2>3, <2>4, <2>7, Zenon
<1>4. QED
  BY <1>2, <1>3, Zenon

\* What a Node committed is in the log of every Leader since.
LEMMA ChosenByHeld ==
    ASSUME NEW L, NEW W, NEW c \in Nat, NEW x \in Seq(Entry), NEW t \in Nat, NEW u \in Nat,
           History(L, W), LeadersQualified(L, W), ChosenBy(L, W, c, x, t), t <= u, L[u] # <<>>
    PROVE  AgreeUpTo(c, x, L[u])
<1>1. Len(x) \in Nat /\ \A s \in Nat : L[s] \in Seq(Entry) /\ Len(L[s]) \in Nat
  <2>1. \A s \in Nat : L[s] \in Seq(Entry)
    BY Zenon DEF History
  <2>2. QED
    BY <2>1, LogEntry, Zenon
<1>2. CASE c = 0
  BY <1>1, <1>2 DEF AgreeUpTo
<1>3. CASE c # 0
  <2>1. PICK s \in 0 .. t, k \in Nat : k >= c /\ Chosen(L, W, s, k) /\ AgreeUpTo(c, x, L[s])
    BY <1>3, Zenon DEF ChosenBy
  <2>2. s \in Nat /\ s <= u
    OBVIOUS
  <2>3. CASE s = u
    BY <2>1, <2>3, Zenon
  <2>4. CASE s < u
    <3>1. ~Lacks(L, u, s, k)
      BY <2>1, <2>2, <2>4, LaterLeadersHold, Zenon
    <3>2. AgreeUpTo(k, L[u], L[s])
      BY <3>1, Zenon DEF Lacks
    <3>3. c \in 0 .. k
      BY <2>1
    <3>4. AgreeUpTo(c, L[u], L[s])
      BY <1>1, <2>2, <3>2, <3>3, AgreeLess, ZenonT(30)
    <3>5. QED
      BY <2>1, <3>4, AgreeSym, AgreeTrans, Zenon
  <2>5. QED
    BY <2>2, <2>3, <2>4
<1>4. QED
  BY <1>2, <1>3, Zenon

\* A Follower never rejects a request for what it has committed: it rejects
\* only where its log has not the previous entry.
LEMMA RejectsMismatch ==
    ASSUME NEW L, NEW W, NEW n \in Node, NEW m \in msgs, TypeInv, HistoryInv(L, W),
           LeadersQualified(L, W), CommitsChosen(L, W), Rejects(n, m)
    PROVE  ~Matches(log[n], m.prevLogIndex, m.prevLogTerm)
<1> DEFINE l == log[n]
           x == L[m.term]
           prev == m.prevLogIndex
           c == commitIndex[n]
<1>1. m \in AppendRequests /\ m.to = n /\ m.term >= term[n] /\ ~Consistent(n, m)
  BY Zenon DEF Rejects, Follows
<1>2. /\ m.type = "AppendEntries" /\ m.term \in Nat /\ prev \in Nat /\ m.entries \in Seq(Entry)
      /\ m.prevLogTerm \in Nat
  BY <1>1, Zenon DEF AppendRequests
<1>3. l \in Seq(Entry) /\ c \in Nat /\ term[n] \in Nat /\ History(L, W) /\ FromLeaders(l, L)
  BY Zenon DEF TypeInv, TypeOK, HistoryInv, LogsRecorded
<1>4. /\ x # <<>> /\ PartOf(m.entries, prev, x) /\ m.prevLogTerm = TermAt(x, prev)
  BY <1>2, Zenon DEF HistoryInv, RequestsRecorded, RequestRecorded
<1>5. /\ x \in Seq(Entry) /\ FromLeaders(x, L) /\ L \in [Nat -> Seq(Entry)]
  BY <1>2, <1>3, Zenon DEF History
<1>6. AgreeUpTo(c, l, x)
  BY <1>1, <1>2, <1>3, <1>4, ChosenByHeld, Zenon DEF CommitsChosen
<1> SUFFICES ASSUME Matches(l, prev, m.prevLogTerm) PROVE FALSE
  OBVIOUS
<1> HIDE DEF l, x, prev, c
<1>7. ContradictsCommitted(l, c, prev, m.entries)
  BY <1>1, Zenon DEF Consistent, l, c, prev
<1>8. SamePast(l, x)
  BY <1>3, <1>5, LeadersGivePasts, Zenon
<1>9. Len(l) \in Nat /\ Len(x) \in Nat /\ Len(m.entries) \in Nat
  BY <1>2, <1>3, <1>5, LogEntry, Zenon
<1>10. AgreeUpTo(prev, l, x)
  <2>1. CASE prev = 0
    BY <1>9, <2>1 DEF AgreeUpTo
  <2>2. CASE prev # 0
    BY <1>2, <1>4, <1>8, <1>9, <2>2, SMTT(30) DEF Matches, PartOf, TermAt, SamePast
  <2>3. QED
    BY <2>1, <2>2, Zenon
<1> DEFINE new == NewOffsets(l, prev, m.entries)
           f == Min(new)
<1>11. new # {} /\ prev + f <= c
  BY <1>7, Zenon DEF ContradictsCommitted
<1>12. f \in 1 .. Len(m.entries) /\ \A k \in Nat : AgreeUpTo(k, l, x) => k < prev + f
  BY <1>2, <1>3, <1>4, <1>5, <1>8, <1>10, <1>11, FirstNewAgrees, Zenon
<1> HIDE DEF f
<1>13. c < prev + f
  BY <1>3, <1>6, <1>12, Zenon DEF c
<1>14. QED
  BY <1>2, <1>3, <1>9, <1>11, <1>12, <1>13, SMTT(30) DEF c, prev

\* Hints stay safe, and new ones are.
LEMMA MovesHintsProbe ==
    ASSUME NEW L, NEW W, NEW M, NEW V, NEW n \in Node, Passes(L, W, M, V), Moves(n, L, W, M, V),
           HintsProbe(L), LeadersQualified(L, W), CommitsChosen(L, W)
    PROVE  HintsProbe(M)'
<1> SUFFICES ASSUME NEW r \in msgs', r.type = "AppendEntriesResponse", ~r.success, r.conflictIndex # 0
             PROVE  /\ r.conflictTerm < r.term /\ r.conflictIndex <= Len(M[r.term])
                    /\ Probes(r.from, r.term,
                          NextIndexFromConflict(M[r.term], r.conflictTerm, r.conflictIndex), M[r.term])'
  BY Zenon DEF HintsProbe
<1>0. /\ TypeInv /\ TypeInv' /\ HistoryInv(L, W) /\ HistoryInv(M, V)' /\ History(L, W)
  BY Zenon DEF Passes, HistoryInv
<1>1. r.from \in Node /\ r.term \in Nat /\ r.conflictTerm \in Nat /\ r.conflictIndex \in Nat
  <2>1. r \in Message
    BY <1>0, Zenon DEF TypeInv, TypeOK
  <2>2. r \in AppendResponses
    BY <2>1, MessageKinds, Zenon
  <2>3. QED
    BY <2>2, Zenon DEF AppendResponses
<1> DEFINE t == r.term
           ct == r.conflictTerm
           ci == r.conflictIndex
<1>2. CASE r \in msgs
  <2> DEFINE k == NextIndexFromConflict(L[t], ct, ci)
  <2>1. ct < t /\ ci <= Len(L[t]) /\ Probes(r.from, t, k, L[t])
    BY <1>2, Zenon DEF HintsProbe
  <2>2. /\ L[t] \in Seq(Entry) /\ M[t] \in Seq(Entry) /\ Len(L[t]) \in Nat /\ Len(M[t]) \in Nat
        /\ AgreeUpTo(Len(L[t]), L[t], M[t]) /\ Len(L[t]) <= Len(M[t])
    BY <1>1, LeaderLogGrows, Zenon
  <2>3. ci \in 1 .. Len(L[t]) /\ ci <= Len(M[t])
    BY <1>1, <2>1, <2>2, SMTT(30)
  <2>4. L[t] # <<>>
    BY <2>2, <2>3, EmptyLog
  <2>5. \A i \in Len(L[t]) + 1 .. Len(M[t]) : M[t][i].term = t
    BY <1>1, <2>4, Zenon DEF Passes, Evolves
  <2>6. NextIndexFromConflict(M[t], ct, ci) = k
    BY <1>1, <2>1, <2>2, <2>3, <2>5, NextIndexStays, ZenonT(60)
  <2>7. k \in 1 .. Len(L[t]) + 1
    BY <1>1, <2>2, <2>3, NextIndexRange, Zenon
  <2>8. PICK j : j = k
    OBVIOUS
  <2>9. Probes(r.from, t, j, M[t])'
    <3>1. j \in 1 .. Len(L[t]) + 1 /\ Probes(r.from, t, j, L[t])
      BY <2>1, <2>7, <2>8, Zenon
    <3> HIDE DEF t, k
    <3>2. t \in Nat
      BY <1>1, Zenon DEF t
    <3>3. QED
      BY <1>1, <2>4, <3>1, <3>2, ProbesStays, Zenon
  <2>10. QED
    BY <2>1, <2>3, <2>6, <2>8, <2>9, Zenon
<1>3. CASE r \notin msgs
  <2>1. PICK m \in msgs : /\ Rejects(n, m) /\ M = L /\ r.from = n /\ r.term = m.term
                          /\ r.conflictTerm = ConflictHint(log[n], Probed(n, m)).term
                          /\ r.conflictIndex = ConflictHint(log[n], Probed(n, m)).index
    BY <1>3, NewHint
  <2> DEFINE l == log[n]
             x == L[t]
             prev == m.prevLogIndex
  <2>2. ~Matches(l, prev, m.prevLogTerm)
    BY <1>0, <2>1, RejectsMismatch, Zenon
  <2>3. ct = ConflictHint(l, prev).term /\ ci = ConflictHint(l, prev).index
    BY <2>1, <2>2, Zenon DEF Probed
  <2>4. m \in AppendRequests /\ m.term >= term[n] /\ term'[n] = t /\ log'[n] = l
    BY <2>1, Zenon DEF Rejects, Follows, LogStays
  <2>5. m.type = "AppendEntries" /\ prev \in Nat /\ m.entries \in Seq(Entry)
    BY <2>4, Zenon DEF AppendRequests
  <2>6. x # <<>> /\ PartOf(m.entries, prev, x) /\ m.prevLogTerm = TermAt(x, prev)
    BY <1>0, <2>1, <2>5, Zenon DEF HistoryInv, RequestsRecorded, RequestRecorded
  <2>7. /\ l \in Seq(Entry) /\ x \in Seq(Entry) /\ term[n] \in Nat /\ t # 0
        /\ FromLeaders(l, L) /\ TermsUpTo(l, term[n])
    BY <1>0, <1>1, <2>6, Zenon DEF TypeInv, TypeOK, HistoryInv, LogsRecorded, History
  <2>8. TermsUpTo(l, t)
    BY <1>1, <2>1, <2>4, <2>7, TermsUpToLater, Zenon
  <2>9. prev \in 1 .. Len(x)
    <3>1. Len(x) \in Nat /\ Len(m.entries) \in Nat
      BY <2>5, <2>7, LogEntry, Zenon
    <3>2. prev <= Len(x)
      BY <2>5, <2>6, <3>1, SMTT(30) DEF PartOf
    <3>3. prev # 0
      BY <2>2, <2>6 DEF Matches, TermAt
    <3>4. QED
      BY <2>5, <3>1, <3>2, <3>3
  <2>10. ~Matches(l, prev, TermAt(x, prev))
    BY <2>2, <2>6, Zenon
  <2> HIDE DEF l, prev, ct, ci, t
  <2>11. ct < t /\ ci \in 1 .. Len(x) /\ ~AgreeUpTo(NextIndexFromConflict(x, ct, ci), l, x)
    <3>1. t \in Nat
      BY <1>1, Zenon DEF t
    <3>2. QED
      BY <1>0, <2>3, <2>7, <2>8, <2>9, <2>10, <3>1, HintIsSafe, Zenon
  <2>12. ci <= Len(x)
    BY <2>7, <2>11, LogEntry, SMTT(30)
  <2>13. /\ term'[n] >= t
         /\ term'[n] = t => NextSafe(NextIndexFromConflict(x, ct, ci), log'[n], x)
    BY <1>1, <2>4, <2>11 DEF NextSafe, t
  <2>14. QED
    BY <2>1, <2>11, <2>12, <2>13, ZenonT(30) DEF Probes, ct, ci, t
<1>4. QED
  BY <1>2, <1>3, Zenon

=============================================================================
