-------------------------- MODULE RaftCommitProofs --------------------------
(***************************************************************************)
(* What is committed stays, in every Cluster: CommitInv is inductive, on   *)
(* top of the history (L, W) of Leaders.                                   *)
(***************************************************************************)
EXTENDS RaftProbeProofs

(* What votes are informed of. *)

\* A candidate speaks for its own log.
LEMMA MovesAsk ==
    ASSUME NEW L, NEW W, NEW M, NEW V, NEW n \in Node, Passes(L, W, M, V), Moves(n, L, W, M, V),
           CandidatesAsk
    PROVE  CandidatesAsk'
<1>0. /\ TypeInv /\ TypeInv' /\ HistoryInv(L, W) /\ msgs \subseteq msgs'
      /\ \A p \in Node : term[p] \in Nat /\ term'[p] \in Nat /\ term[p] <= term'[p]
  <2>1. TypeInv /\ TypeInv' /\ HistoryInv(L, W) /\ Evolves(L, W, M, V)
    BY Zenon DEF Passes
  <2>2. \A p \in Node : term[p] \in Nat /\ term'[p] \in Nat
    BY <2>1, Zenon DEF TypeInv, TypeOK
  <2>3. QED
    BY <2>1, <2>2, Zenon DEF Evolves
<1>1. ASSUME NEW r \in msgs', r.type = "VoteRequest"
      PROVE  r.from \in Node /\ r.term \in Nat
  BY <1>0, <1>1, MessageKinds, Zenon DEF TypeInv, TypeOK, VoteRequests
<1>2. ASSUME NEW r \in msgs', r.type = "VoteRequest", r \notin msgs
      PROVE  /\ Campaigns(n) /\ r.from = n /\ r.term = term'[n] /\ term'[n] = term[n] + 1
             /\ r.lastLogIndex = Len(log[n]) /\ r.lastLogTerm = LastLogTerm(log[n])
  <2>1. /\ Campaigns(n) /\ r.from = n /\ r.term = term'[n]
        /\ r.lastLogIndex = Len(log[n]) /\ r.lastLogTerm = LastLogTerm(log[n])
    BY <1>2, NewVoteRequest
  <2>2. QED
    BY <2>1, Zenon DEF Campaigns
<1>3. ASSUME NEW r \in msgs', r.type = "VoteRequest"
      PROVE  /\ r.lastLogTerm < r.term /\ r.term <= term'[r.from]
             /\ role'[r.from] = "Candidate" /\ r.term = term'[r.from] =>
                   /\ r.lastLogIndex = Len(log'[r.from])
                   /\ r.lastLogTerm = LastLogTerm(log'[r.from])
  <2> DEFINE c == r.from
  <2>1. c \in Node /\ r.term \in Nat
    BY <1>1, <1>3, Zenon
  <2>2. CASE r \in msgs
    <3>1. /\ r.lastLogTerm < r.term /\ r.term <= term[c]
          /\ role[c] = "Candidate" /\ r.term = term[c] =>
                r.lastLogIndex = Len(log[c]) /\ r.lastLogTerm = LastLogTerm(log[c])
      BY <1>3, <2>2, Zenon DEF CandidatesAsk
    <3>2. r.term <= term'[c]
      BY <1>0, <2>1, <3>1
    <3>3. ASSUME role'[c] = "Candidate", r.term = term'[c]
          PROVE  role[c] = "Candidate" /\ r.term = term[c] /\ log'[c] = log[c]
      <4>1. term'[c] = term[c]
        BY <1>0, <2>1, <3>1, <3>3
      <4>2. CASE c # n
        <5>1. Others(n)
          BY Zenon
             DEF Moves, Listens, Campaigns, Accepts, Crashes, Rejects, Follows, Wins, Sends,
                 Learns, Leads
        <5>2. QED
          BY <2>1, <3>3, <4>1, <4>2, <5>1, Zenon DEF Others
      <4>3. CASE c = n
        <5>1. CASE Listens(n)
          BY <3>3, <4>1, <4>3, <5>1, Zenon DEF Listens, LogStays
        <5>2. CASE Campaigns(n)
          <6>1. term'[n] = term[n] + 1
            BY <5>2, Zenon DEF Campaigns
          <6>2. QED
            BY <1>0, <4>1, <4>3, <6>1
        <5>3. CASE \E m \in msgs : Accepts(n, m) \/ Crashes(n, m) \/ Rejects(n, m)
          BY <3>3, <4>3, <5>3, Zenon DEF Accepts, Crashes, Rejects, Follows
        <5>4. CASE Wins(n) \/ Sends(n) \/ \E m \in msgs : Learns(n, m)
          BY <3>3, <4>3, <5>4, Zenon DEF Wins, Sends, Learns, Leads
        <5>5. QED
          BY <5>1, <5>2, <5>3, <5>4, Zenon DEF Moves
      <4>4. QED
        BY <4>2, <4>3, Zenon
    <3>4. QED
      BY <3>1, <3>2, <3>3, Zenon
  <2>3. CASE r \notin msgs
    <3>1. /\ Campaigns(n) /\ c = n /\ r.term = term'[n] /\ term'[n] = term[n] + 1
          /\ r.lastLogIndex = Len(log[n]) /\ r.lastLogTerm = LastLogTerm(log[n])
      BY <1>2, <1>3, <2>3, Zenon
    <3>2. log'[n] = log[n]
      BY <3>1, Zenon DEF Campaigns, LogStays
    <3>3. log[n] \in Seq(Entry) /\ TermsUpTo(log[n], term[n])
      BY <1>0, Zenon DEF TypeInv, TypeOK, HistoryInv, LogsRecorded
    <3>4. LastLogTerm(log[n]) <= term[n]
      BY <1>0, <3>3 DEF LastLogTerm, TermAt, TermsUpTo
    <3>5. LastLogTerm(log[n]) \in Int
      BY <3>3, LogEntry DEF LastLogTerm, TermAt
    <3>6. r.lastLogTerm < r.term /\ r.term <= term'[c]
      BY <1>0, <3>1, <3>4, <3>5
    <3>7. QED
      BY <3>1, <3>2, <3>6, Zenon
  <2>4. QED
    BY <2>2, <2>3, Zenon
<1>4. ASSUME NEW r1 \in msgs', NEW r2 \in msgs', r1.type = "VoteRequest", r2.type = "VoteRequest",
             r1.from = r2.from, r1.term = r2.term
      PROVE  r1.lastLogIndex = r2.lastLogIndex /\ r1.lastLogTerm = r2.lastLogTerm
  <2>1. CASE r1 \in msgs /\ r2 \in msgs
    BY <1>4, <2>1, Zenon DEF CandidatesAsk
  <2>2. CASE r1 \notin msgs /\ r2 \notin msgs
    BY <1>2, <1>4, <2>2, Zenon
  <2>3. ASSUME NEW a \in msgs, NEW b \in msgs', b \notin msgs, a.type = "VoteRequest",
               b.type = "VoteRequest", a.from = b.from, a.term = b.term
        PROVE  FALSE
    <3>1. b.from = n /\ b.term = term[n] + 1
      BY <1>2, <2>3, Zenon
    <3>2. a.term <= term[n]
      BY <2>3, <3>1, Zenon DEF CandidatesAsk
    <3>3. QED
      BY <1>0, <2>3, <3>1, <3>2
  <2>4. QED
    BY <1>4, <2>1, <2>2, <2>3, Zenon
<1>5. ASSUME NEW r \in msgs', r.type = "VoteResponse", r.granted
      PROVE  Campaigned(msgs', r.to, r.term)
  <2>1. CASE r \in msgs
    BY <1>0, <1>5, <2>1, Zenon DEF CandidatesAsk, Campaigned
  <2>2. CASE r \notin msgs
    <3>1. VoteOf(n, r)
      BY <1>5, <2>2, NewVote, Zenon
    <3>2. QED
      BY <1>0, <3>1, Zenon DEF VoteOf, Campaigned
  <2>3. QED
    BY <2>1, <2>2, Zenon
<1>6. QED
  BY <1>3, <1>4, <1>5, Zenon DEF CandidatesAsk

\* A vote given now is informed of all its Node holds.
LEMMA FreshInformed ==
    ASSUME NEW L, NEW W, NEW w \in Node, NEW u \in Nat, NEW s \in Nat, NEW i \in Nat,
           TypeInv', HistoryInv(L, W)', AcksKept(L, W)', u = term'[w], L[u] = <<>>,
           CandidateLogIsUpToDate(s, i, log'[w])
    PROVE  Informed(L, W, w, u, s, i)'
<1> SUFFICES ASSUME NEW t \in 0 .. u - 1, NEW k \in 1 .. Len(L[t]), L[t][k].term = t,
                    Holds(L, W, w, t, k)'
             PROVE  (\E v \in t + 1 .. u - 1 : Lacks(L, v, t, k)) \/ s > t \/ (s = t /\ i >= k)
  BY Zenon DEF Informed
<1>1. t \in Nat /\ t < u /\ log'[w] \in Seq(Entry) /\ History(L, W) /\ FromLeaders(log'[w], L)
  BY SMTT(30) DEF TypeInv, TypeOK, HistoryInv, LogsRecorded
<1>2. Len(L[t]) \in Nat /\ Len(log'[w]) \in Nat
  BY <1>1, LogEntry, Zenon DEF History
<1>3. k \in Nat \ {0}
  BY <1>2
<1>4. Kept(L, w, t, k)'
  BY <1>1, <1>3, Zenon DEF AcksKept
<1>5. CASE AgreeUpTo(k, log'[w], L[t])
  <2> DEFINE l == log'[w]
             j == Len(l)
  <2>1. k <= j
    BY <1>5, Zenon DEF AgreeUpTo
  <2>2. k \in 1 .. j /\ j \in 1 .. j /\ k \in 1 .. k
    BY <1>2, <1>3, <2>1
  <2>3. l[k].term = t
    BY <1>5, <2>2, Zenon DEF AgreeUpTo
  <2>4. l[k].term <= l[j].term /\ l[j].term \in Nat
    BY <1>1, <2>1, <2>2, LogSorted, LogEntry, Zenon
  <2>5. s > l[j].term \/ (s = l[j].term /\ i >= j)
    BY <2>2, Zenon DEF CandidateLogIsUpToDate, LastLogTerm, TermAt
  <2> HIDE DEF l
  <2>6. QED
    BY <1>1, <1>2, <1>3, <2>1, <2>3, <2>4, <2>5, SMTT(30) DEF l
<1>6. CASE \E v \in t + 1 .. term'[w] : Lacks(L, v, t, k)
  <2>1. PICK v \in t + 1 .. u : Lacks(L, v, t, k)
    BY <1>6, Zenon
  <2>2. v # u
    BY <2>1, Zenon DEF Lacks
  <2>3. v \in t + 1 .. u - 1
    BY <1>1, <2>2
  <2>4. QED
    BY <2>1, <2>3, Zenon
<1>7. QED
  BY <1>4, <1>5, <1>6, Zenon DEF Kept

\* Votes for a candidate that has not won are informed.
LEMMA MovesInform ==
    ASSUME NEW L, NEW W, NEW M, NEW V, NEW n \in Node,
           ElectionInv, Passes(L, W, M, V), Moves(n, L, W, M, V), NewHolds(L, W, M, V),
           AcksKept(L, W), AcksKept(M, V)', CandidatesAsk, CandidatesAsk', VotesInformed(L, W)
    PROVE  VotesInformed(M, V)'
<1>0. \A t \in Nat : L[t] # <<>> => M[t] # <<>>
  BY LeaderLogGrows
<1> SUFFICES ASSUME NEW m \in msgs', m.type = "VoteRequest", M[m.term] = <<>>,
                    NEW w \in Node, Voted(msgs', w, m.from, m.term)
             PROVE  Informed(M, V, w, m.term, m.lastLogTerm, m.lastLogIndex)'
  BY Zenon DEF VotesInformed
<1> DEFINE u == m.term
           c == m.from
           s == m.lastLogTerm
           i == m.lastLogIndex
<1>1. TypeInv /\ TypeInv' /\ HistoryInv(M, V)'
  BY Zenon DEF Passes
<1>2. u \in Nat /\ c \in Node /\ s \in Nat /\ i \in Nat
  <2>1. m \in Message
    BY <1>1, Zenon DEF TypeInv, TypeOK
  <2>2. m \in VoteRequests
    BY <2>1, MessageKinds, Zenon
  <2>3. QED
    BY <2>2, Zenon DEF VoteRequests
<1>3. L[u] = <<>>
  BY <1>2, <1>0, Zenon
<1>4. term[n] \in Nat /\ term'[n] \in Nat
  BY PassesTypes, Zenon
<1>5. CASE m \in msgs /\ Voted(msgs, w, c, u)
  <2>1. term[w] \in Nat /\ u <= term[w]
    <3>1. term[w] \in Nat
      BY PassesTypes, Zenon
    <3>2. QED
      BY <1>2, <1>5, <3>1 DEF ElectionInv, VotesKept
  <2>2. QED
    BY <1>2, <1>3, <1>5, <2>1, InformedStays, Zenon DEF VotesInformed
<1>6. ASSUME m \notin msgs
      PROVE  /\ Campaigns(n) /\ c = n /\ u = term'[n] /\ u = term[n] + 1
             /\ i = Len(log[n]) /\ s = LastLogTerm(log[n])
  BY <1>6, NewVoteRequest DEF Campaigns
<1>7. CASE m \notin msgs
  <2>1. ~Campaigned(msgs, n, u)
    <3> SUFFICES ASSUME NEW r \in msgs, r.type = "VoteRequest", r.from = n, r.term = u PROVE FALSE
      BY Zenon DEF Campaigned
    <3>1. u <= term[n]
      BY Zenon DEF CandidatesAsk
    <3>2. QED
      BY <1>4, <1>6, <1>7, <3>1
  <2>2. ~Granted(msgs', w, n, u)
    <3> SUFFICES ASSUME NEW r \in msgs', r.type = "VoteResponse", r.granted, r.to = n, r.term = u
                 PROVE  FALSE
      BY Zenon DEF Granted
    <3>1. CASE r \in msgs
      BY <2>1, <3>1, Zenon DEF CandidatesAsk
    <3>2. CASE r \notin msgs
      <4>1. Campaigns(n)
        BY <1>6, <1>7, Zenon
      <4>2. QED
        BY <3>2, <4>1, Zenon DEF Campaigns
    <3>3. QED
      BY <3>1, <3>2, Zenon
  <2>3. w = n
    BY <1>6, <1>7, <2>2, Zenon DEF Voted
  <2>4. log'[n] = log[n]
    BY <1>6, <1>7, Zenon DEF Campaigns, LogStays
  <2>5. log[n] \in Seq(Entry)
    BY PassesTypes, Zenon
  <2>6. Len(log[n]) \in Nat
    BY <2>5, LogEntry, Zenon
  <2>7. CandidateLogIsUpToDate(s, i, log'[w])
    BY <1>6, <1>7, <2>3, <2>4, <2>6 DEF CandidateLogIsUpToDate
  <2>8. QED
    BY <1>1, <1>2, <1>6, <1>7, <2>3, <2>7, FreshInformed, Zenon
<1>8. CASE m \in msgs /\ ~Voted(msgs, w, c, u)
  <2>1. Campaigned(msgs, c, u)
    BY <1>8, Zenon DEF Campaigned
  <2>2. Granted(msgs', w, c, u)
    BY <1>8, <2>1, Zenon DEF Voted
  <2>3. PICK r \in msgs' : /\ r.type = "VoteResponse" /\ r.granted
                           /\ r.from = w /\ r.to = c /\ r.term = u
    BY <2>2, Zenon DEF Granted
  <2>4. r \notin msgs
    BY <1>8, <2>3, Zenon DEF Voted, Granted
  <2>5. Listens(n) /\ VoteOf(n, r)
    BY <2>3, <2>4, NewVote, Zenon
  <2>6. w = n /\ u = term'[w]
    BY <2>3, <2>5, Zenon DEF VoteOf
  <2>7. PICK a \in msgs : /\ a.type = "VoteRequest" /\ a.from = c /\ a.term = u
                          /\ CandidateLogIsUpToDate(a.lastLogTerm, a.lastLogIndex, log[n])
    BY <2>3, <2>5, Zenon DEF VoteOf
  <2>8. a.lastLogTerm = s /\ a.lastLogIndex = i
    BY <1>8, <2>7, Zenon DEF CandidatesAsk
  <2>9. log'[n] = log[n]
    BY <2>5, Zenon DEF Listens, LogStays
  <2>10. CandidateLogIsUpToDate(s, i, log'[w])
    BY <2>6, <2>7, <2>8, <2>9, Zenon
  <2>11. QED
    BY <1>1, <1>2, <2>6, <2>10, FreshInformed, Zenon
<1>9. QED
  BY <1>5, <1>7, <1>8, Zenon

\* A Leader stays qualified.
LEMMA QualifiedStays ==
    ASSUME NEW L, NEW W, NEW M, NEW V, NEW u \in Nat,
           Passes(L, W, M, V), NewHolds(L, W, M, V), AcksKept(L, W), Qualified(L, W, u)
    PROVE  Qualified(M, V, u)'
<1>1. PICK Q \in SUBSET Node, s \in 0 .. u - 1, i \in 0 .. Len(L[u]) - 1 :
          /\ IsQuorum(Q)
          /\ TermAt(L[u], i) = s
          /\ \A w \in Q : term[w] >= u /\ Informed(L, W, w, u, s, i)
  BY Zenon DEF Qualified
<1>2. /\ Len(L[u]) \in Nat /\ Len(M[u]) \in Nat /\ Len(L[u]) <= Len(M[u])
      /\ \A j \in 0 .. Len(L[u]) : TermAt(M[u], j) = TermAt(L[u], j)
  BY LeaderLogGrows
<1>3. i \in 0 .. Len(M[u]) - 1 /\ i \in 0 .. Len(L[u]) /\ i \in Nat /\ s \in Nat
  BY <1>2
<1>4. TermAt(M[u], i) = s
  BY <1>1, <1>2, <1>3, Zenon
<1>5. ASSUME NEW w \in Q PROVE term'[w] >= u /\ Informed(M, V, w, u, s, i)'
  <2>1. w \in Node /\ term[w] >= u /\ Informed(L, W, w, u, s, i)
    BY <1>1, <1>5, Zenon
  <2>2. term[w] \in Nat /\ term'[w] \in Nat
    BY <2>1, PassesTypes, Zenon
  <2>3. term'[w] >= u
    BY <2>1, <2>2 DEF Passes, Evolves
  <2>4. u <= term[w]
    BY <2>1, <2>2, Zenon
  <2>5. Informed(M, V, w, u, s, i)'
    BY <1>3, <2>1, <2>4, InformedStays, Zenon
  <2>6. QED
    BY <2>3, <2>5, Zenon
<1>6. QED
  BY <1>1, <1>3, <1>4, <1>5, Zenon DEF Qualified

\* A candidate that wins is qualified by the votes for it.
LEMMA WinsQualified ==
    ASSUME NEW L, NEW W, NEW M, NEW V, NEW n \in Node, NEW u,
           ElectionInv, Passes(L, W, M, V), NewHolds(L, W, M, V), AcksKept(L, W),
           CandidatesAsk, VotesInformed(L, W), Wins(n), u = term[n], L[u] = <<>>
    PROVE  Qualified(M, V, u)'
<1> DEFINE l == log[n]
           e == [term |-> term[n], cmd |-> NoOp]
<1>0. PICK s, i : s = LastLogTerm(l) /\ i = Len(l)
  BY Zenon
<1>1. TypeInv /\ TypeInv' /\ HistoryInv(M, V)'
  BY Zenon DEF Passes
<1>2. /\ u \in Nat /\ l \in Seq(Entry) /\ role[n] = "Candidate" /\ Elected(msgs, n, u)
      /\ log'[n] = Append(l, e) /\ role'[n] = "Leader" /\ term'[n] = u
  BY <1>1, Zenon DEF TypeInv, TypeOK, Wins, Leads
<1>3. M[u] = Append(l, e)
  <2>1. M[term'[n]] = log'[n]
    BY <1>1, <1>2, LeaderLogAfter, ZenonT(60)
  <2>2. QED
    BY <1>2, <2>1, Zenon
<1>4. e \in Entry
  BY <1>2, Zenon DEF Entry
<1>5. i \in Nat
  BY <1>2, <1>0, LogEntry, Zenon
<1>6. Len(M[u]) = i + 1 /\ AgreeUpTo(i, l, M[u])
  BY <1>2, <1>3, <1>4, <1>0, AppendAgrees
<1>7. PICK Q \in SUBSET Node : IsQuorum(Q) /\ \A v \in Q : Voted(msgs, v, n, u)
  BY <1>2, ZenonT(30) DEF Elected
<1>8. Campaigned(msgs, n, u)
  <2>1. PICK v \in Q : TRUE
    BY <1>7, QuorumsMeet, Zenon
  <2>2. QED
    BY <1>7, Zenon DEF Voted, Granted, CandidatesAsk
<1>9. PICK m \in msgs : m.type = "VoteRequest" /\ m.from = n /\ m.term = u
  BY <1>8, Zenon DEF Campaigned
<1>10. m.lastLogIndex = i /\ m.lastLogTerm = s /\ s < u
  BY <1>2, <1>9, <1>0, Zenon DEF CandidatesAsk
<1>11. s \in Nat
  BY <1>2, <1>5, <1>0, LogEntry, Zenon DEF LastLogTerm, TermAt
<1>12. s \in 0 .. u - 1 /\ i \in 0 .. Len(M[u]) - 1
  BY <1>2, <1>5, <1>6, <1>10, <1>11, SMTT(30)
<1>13. TermAt(M[u], i) = s
  <2>1. CASE i = 0
    BY <1>0, <2>1, SMTT(30) DEF LastLogTerm, TermAt
  <2>2. CASE i # 0
    <3>1. i \in 1 .. i /\ i \in 1 .. Len(M[u])
      BY <1>5, <1>6, <2>2, SMTT(30)
    <3>2. QED
      BY <1>6, <1>0, <3>1, Zenon DEF LastLogTerm, TermAt, AgreeUpTo
  <2>3. QED
    BY <2>1, <2>2, Zenon
<1>14. ASSUME NEW w \in Q PROVE term'[w] >= u /\ Informed(M, V, w, u, s, i)'
  <2>1. w \in Node /\ Voted(msgs, w, n, u)
    BY <1>7, Zenon
  <2>2. term[w] \in Nat /\ term'[w] \in Nat
    BY <2>1, PassesTypes, Zenon
  <2>3. u <= term[w]
    BY <1>2, <2>1, <2>2, SMTT(30) DEF ElectionInv, VotesKept
  <2>4. term'[w] >= u
    BY <1>2, <2>1, <2>2, <2>3, SMTT(30) DEF Passes, Evolves
  <2>5. Informed(L, W, w, u, s, i)
    BY <1>9, <1>10, <2>1, Zenon DEF VotesInformed
  <2>6. Informed(M, V, w, u, s, i)'
    BY <1>2, <1>5, <1>11, <2>1, <2>3, <2>5, InformedStays, Zenon
  <2>7. QED
    BY <2>4, <2>6, Zenon
<1>15. QED
  BY <1>7, <1>12, <1>13, <1>14, Zenon DEF Qualified

LEMMA MovesQualify ==
    ASSUME NEW L, NEW W, NEW M, NEW V, NEW n \in Node,
           ElectionInv, Passes(L, W, M, V), Moves(n, L, W, M, V), NewHolds(L, W, M, V),
           AcksKept(L, W), CandidatesAsk, VotesInformed(L, W), LeadersQualified(L, W)
    PROVE  LeadersQualified(M, V)'
<1> SUFFICES ASSUME NEW u \in Nat, M[u] # <<>> PROVE Qualified(M, V, u)'
  BY Zenon DEF LeadersQualified
<1>1. CASE L[u] # <<>>
  <2>1. Qualified(L, W, u)
    BY <1>1, Zenon DEF LeadersQualified
  <2>2. QED
    BY <2>1, QualifiedStays, ZenonT(30)
<1>2. CASE L[u] = <<>>
  <2>0. TypeInv /\ HistoryInv(L, W)
    BY Zenon DEF Passes
  <2>1. Records(n, L, W, M, V) /\ (Wins(n) \/ role[n] = "Leader")
    BY <1>2, Zenon DEF Moves, Sends, Learns
  <2>2. u = term[n]
    BY <1>2, <2>1, PassesTypes, Zenon DEF Records
  <2>3. role[n] # "Leader"
    BY <1>2, <2>0, <2>2, LeaderLog, Zenon
  <2>4. QED
    BY <1>2, <2>1, <2>2, <2>3, WinsQualified, Zenon
<1>3. QED
  BY <1>1, <1>2, Zenon

-----------------------------------------------------------------------------
(* What is committed. *)

\* What a Leader believes of a peer the peer has told it.
LEMMA MovesMatch ==
    ASSUME NEW L, NEW W, NEW M, NEW V, NEW n \in Node, Passes(L, W, M, V), Moves(n, L, W, M, V),
           MatchesAcked
    PROVE  MatchesAcked'
<1> SUFFICES ASSUME NEW q \in Node, NEW p \in Node, role'[q] = "Leader", p # q, matchIndex'[q][p] # 0
             PROVE  Acked(p, term[q], matchIndex[q][p])'
  BY Zenon DEF MatchesAcked
<1>0. TypeInv /\ TypeInv' /\ HistoryInv(L, W) /\ msgs \subseteq msgs'
  BY Zenon DEF Passes, Evolves
<1>1. PICK k : k = matchIndex'[q][p]
  OBVIOUS
<1>2. ASSUME term'[q] = term[q], Acked(p, term[q], k)
      PROVE  Acked(p, term[q], matchIndex[q][p])'
  BY <1>0, <1>1, <1>2, Zenon DEF Acked
<1>3. ASSUME role[q] = "Leader", term'[q] = term[q], k = matchIndex[q][p]
      PROVE  Acked(p, term[q], matchIndex[q][p])'
  <2>1. Acked(p, term[q], k)
    BY <1>1, <1>3, Zenon DEF MatchesAcked
  <2>2. QED
    BY <1>2, <1>3, <2>1, Zenon
<1>4. CASE q # n
  <2>1. Others(n)
    BY Zenon
       DEF Moves, Listens, Campaigns, Accepts, Crashes, Rejects, Follows, Wins, Sends, Learns,
           Leads
  <2>2. role[q] = "Leader" /\ term'[q] = term[q] /\ matchIndex'[q] = matchIndex[q]
    BY <1>4, <2>1, Zenon DEF Others
  <2>3. QED
    BY <1>1, <1>3, <2>2, Zenon
<1>5. CASE q = n
  <2>1. CASE Listens(n) \/ Sends(n)
    BY <1>1, <1>3, <1>5, <2>1, Zenon DEF Listens, Sends, Leads
  <2>2. CASE Campaigns(n) \/ \E m \in msgs : Accepts(n, m) \/ Crashes(n, m) \/ Rejects(n, m)
    BY <1>5, <2>2, Zenon DEF Campaigns, Accepts, Crashes, Rejects, Follows
  <2>3. CASE Wins(n)
    BY <1>5, <2>3, Zenon DEF Wins
  <2>4. CASE \E m \in msgs : Learns(n, m)
    <3>1. PICK m \in msgs : Learns(n, m)
      BY <2>4, Zenon
    <3>2. /\ role[n] = "Leader" /\ term'[n] = term[n] /\ m \in AppendResponses /\ m.term = term[n]
          /\ matchIndex'[n] = [matchIndex[n] EXCEPT ![m.from] = LearnMatch(n, m)]
      BY <3>1, Zenon DEF Learns, Leads
    <3>3. matchIndex \in [Node -> [Node -> Nat]]
      BY <1>0, Zenon DEF TypeInv, TypeOK
    <3>4. CASE p # m.from \/ ~m.success
      <4>1. k = matchIndex[n][p]
        BY <1>1, <1>5, <3>2, <3>3, <3>4, Zenon DEF LearnMatch
      <4>2. QED
        BY <1>3, <1>5, <3>2, <4>1, Zenon
    <3>5. CASE p = m.from /\ m.success
      <4>1. k = Max({matchIndex[n][p], m.matchIndex})
        BY <1>1, <1>5, <3>2, <3>3, <3>5, Zenon DEF LearnMatch
      <4>2. m.type = "AppendEntriesResponse" /\ m.matchIndex \in Nat /\ matchIndex[n][p] \in Nat
        BY <3>2, <3>3, SMTT(30) DEF AppendResponses
      <4>3. k \in {matchIndex[n][p], m.matchIndex}
        BY <4>1, <4>2, MaxOfTwo, Zenon
      <4>4. CASE k = matchIndex[n][p]
        BY <1>3, <1>5, <3>2, <4>4, Zenon
      <4>5. CASE k = m.matchIndex
        <5>1. m.matchIndex >= k
          BY <4>2, <4>5, SMTT(30)
        <5>2. Acked(p, term[n], k)
          BY <3>2, <3>5, <4>2, <5>1, Zenon DEF Acked
        <5>3. QED
          BY <1>2, <1>5, <3>2, <5>2, Zenon
      <4>6. QED
        BY <4>3, <4>4, <4>5, Zenon
    <3>6. QED
      BY <3>4, <3>5, Zenon
  <2>5. QED
    BY <2>1, <2>2, <2>3, <2>4, Zenon DEF Moves
<1>6. QED
  BY <1>4, <1>5, Zenon

\* What was chosen includes every shorter prefix.
LEMMA ChosenByLess ==
    ASSUME NEW L, NEW W, NEW c \in Nat, NEW d \in Nat, NEW x \in Seq(Entry), NEW y, NEW t \in Nat,
           History(L, W), ChosenBy(L, W, c, x, t), d <= c, AgreeUpTo(d, y, x)
    PROVE  ChosenBy(L, W, d, y, t)
<1>1. CASE d = 0
  BY <1>1, Zenon DEF ChosenBy
<1>2. CASE d # 0
  <2>1. PICK s \in 0 .. t, k \in Nat : k >= c /\ Chosen(L, W, s, k) /\ AgreeUpTo(c, x, L[s])
    BY <1>2 DEF ChosenBy
  <2>2. L[s] \in Seq(Entry)
    BY DEF History
  <2>3. Len(x) \in Nat /\ Len(L[s]) \in Nat
    BY <2>2, LogEntry, Zenon
  <2>4. AgreeUpTo(d, x, L[s])
    BY <2>1, <2>3, AgreeLess, SMTT(30)
  <2>5. k >= d
    BY <2>1
  <2>6. QED
    BY <2>1, <2>4, <2>5, AgreeTrans, Zenon DEF ChosenBy
<1>3. QED
  BY <1>1, <1>2, Zenon

\* A Leader commits what a quorum told it.
LEMMA LearnsChosen ==
    ASSUME NEW L, NEW W, NEW M, NEW V, NEW n \in Node, NEW m \in msgs, NEW c,
           Passes(L, W, M, V), Learns(n, m), MatchesAcked', c \in Committable(n, log[n], matchIndex'[n])
    PROVE  (c \in Nat \ {0} /\ Chosen(M, V, term[n], c) /\ AgreeUpTo(c, log[n], M[term[n]]))'
<1>0. TypeInv /\ TypeInv' /\ HistoryInv(L, W) /\ HistoryInv(M, V)'
  BY Zenon DEF Passes
<1>1. PICK t, x : t = term[n] /\ x = log[n]
  OBVIOUS
<1>2. role'[n] = "Leader" /\ term'[n] = t /\ log'[n] = x
  BY <1>1, ZenonT(30) DEF Learns, Leads
<1>3. t \in Nat /\ M[t] = x /\ V[t] = n /\ x \in Seq(Entry)
  <2>1. t \in Nat /\ M[t] = x /\ V[t] = n
    BY <1>0, <1>2, LeaderLogAfter, ZenonT(60)
  <2>2. QED
    BY <1>0, <1>1, <2>1, SMTT(30) DEF TypeInv, TypeOK
<1>4. /\ Len(x) \in Nat /\ commitIndex[n] \in Nat /\ matchIndex' \in [Node -> [Node -> Nat]]
  BY <1>0, <1>3, LogEntry, Zenon DEF TypeInv, TypeOK
<1> DEFINE Q == {n} \cup {p \in Peers(n) : matchIndex'[n][p] >= c}
<1>5. c \in commitIndex[n] + 1 .. Len(x) /\ x[c].term = t /\ IsQuorum(Q)
  BY <1>1, ZenonT(30) DEF Committable
<1>6. c \in 1 .. Len(x) /\ c \in Nat \ {0}
  BY <1>4, <1>5, SMTT(30)
<1>7. Q \in SUBSET Node
  BY Zenon DEF Peers
<1>8. PICK R \in SUBSET Node : R = Q
  BY <1>7, Zenon
<1>9. ASSUME NEW w \in R PROVE Holds(M, V, w, t, c)'
  <2>1. CASE w = n
    BY <1>3, <1>6, <2>1, SMTT(30) DEF Holds
  <2>2. CASE w # n
    <3>1. w \in Node /\ matchIndex'[n][w] >= c
      BY <1>8, <2>2, Zenon DEF Peers
    <3>2. PICK k : k = matchIndex'[n][w]
      OBVIOUS
    <3>3. k \in Nat /\ k >= c /\ k # 0
      BY <1>4, <1>6, <3>1, <3>2, SMTT(30)
    <3>4. Acked(w, t, k)'
      BY <1>2, <2>2, <3>1, <3>2, <3>3, Zenon DEF MatchesAcked
    <3>5. PICK r \in msgs' : /\ r.type = "AppendEntriesResponse" /\ r.success
                             /\ r.from = w /\ r.term = t /\ r.matchIndex >= k
      BY <3>4, ZenonT(30) DEF Acked
    <3>6. r.matchIndex \in Nat
      <4>1. r \in Message
        BY <1>0, Zenon DEF TypeInv, TypeOK
      <4>2. r \in AppendResponses
        BY <3>5, <4>1, MessageKinds, Zenon
      <4>3. QED
        BY <4>2, ZenonT(30) DEF AppendResponses
    <3>7. r.matchIndex >= c
      BY <1>6, <3>3, <3>5, <3>6, SMTT(30)
    <3>8. QED
      BY <3>5, <3>7, Zenon DEF Holds, Acked
  <2>3. QED
    BY <2>1, <2>2, ZenonT(30)
<1>10. Chosen(M, V, t, c)'
  BY <1>3, <1>5, <1>6, <1>8, <1>9, Zenon DEF Chosen
<1>11. AgreeUpTo(c, x, M[t])
  BY <1>3, <1>4, <1>6, SMTT(30) DEF AgreeUpTo
<1>12. QED
  BY <1>2, <1>6, <1>10, <1>11, Zenon

LEMMA LearnsCommit ==
    ASSUME NEW L, NEW W, NEW M, NEW V, NEW n \in Node, NEW m \in msgs, NEW c,
           Passes(L, W, M, V), Learns(n, m), MatchesAcked', c \in Committable(n, log[n], matchIndex'[n])
    PROVE  ChosenBy(M, V, c, log[n], term[n])'
<1>1. PICK t, x : t = term'[n] /\ x = log'[n]
  OBVIOUS
<1>2. c \in Nat \ {0} /\ Chosen(M, V, t, c)' /\ AgreeUpTo(c, x, M[t])
  BY <1>1, LearnsChosen, ZenonT(30)
<1>3. t \in Nat
  BY <1>1, ZenonT(30) DEF Passes, TypeInv, TypeOK
<1>4. c >= c /\ t \in 0 .. t
  BY <1>2, <1>3, SMTT(30)
<1>5. ChosenBy(M, V, c, x, t)'
  BY <1>2, <1>4, ZenonT(30) DEF ChosenBy
<1>6. QED
  BY <1>1, <1>5, ZenonT(30)

\* What a Node committed stays in its log, and was chosen.
LEMMA CommitStays ==
    ASSUME NEW L, NEW W, NEW M, NEW V, NEW q \in Node,
           Passes(L, W, M, V), CommitsChosen(L, W), commitIndex'[q] = commitIndex[q],
           AgreeUpTo(commitIndex[q], log[q], log'[q])
    PROVE  ChosenBy(M, V, commitIndex[q], log[q], term[q])'
<1>1. PICK c, x, y, t, u : /\ c = commitIndex[q] /\ x = log[q] /\ y = log'[q]
                           /\ t = term[q] /\ u = term'[q]
  OBVIOUS
<1>2. /\ c \in Nat /\ t \in Nat /\ u \in Nat /\ t <= u
  <2>1. c \in Nat /\ t \in Nat /\ u \in Nat
    BY <1>1, Zenon DEF Passes, TypeInv, TypeOK
  <2>2. QED
    BY <1>1, <2>1, ZenonT(30) DEF Passes, Evolves
<1>3. ChosenBy(L, W, c, x, t) /\ AgreeUpTo(c, x, y)
  BY <1>1, Zenon DEF CommitsChosen
<1>4. ChosenBy(M, V, c, y, u)'
  BY <1>2, <1>3, ChosenByStays, Zenon
<1>5. QED
  BY <1>1, <1>4, Zenon

\* A Follower commits no more than its Leader had when it asked, nor more than
\* it has.
LEMMA AcceptsUpTo ==
    ASSUME NEW n \in Node, NEW m \in msgs, TypeInv, TypeInv', Accepts(n, m)
    PROVE  /\ commitIndex[n] <= commitIndex'[n]
           /\ commitIndex'[n] # commitIndex[n] =>
                 commitIndex'[n] <= m.leaderCommit /\ commitIndex'[n] <= Len(log'[n])
<1> DEFINE y == log'[n]
           f == FollowerCommit(m, y)
<1>1. /\ m \in AppendRequests /\ commitIndex'[n] = Max({commitIndex[n], f})
  BY Zenon DEF Accepts, Follows
<1>2. m.leaderCommit \in Nat
  BY <1>1, Zenon DEF AppendRequests
<1>3. y \in Seq(Entry) /\ commitIndex[n] \in Nat
  BY Zenon DEF TypeInv, TypeOK
<1>4. Len(y) \in Nat
  BY <1>3, LogEntry, Zenon
<1>5. f = Min({m.leaderCommit, Len(y)})
  BY Zenon DEF FollowerCommit
<1>6. f \in {m.leaderCommit, Len(y)} /\ f <= m.leaderCommit /\ f <= Len(y)
  BY <1>2, <1>4, <1>5, MinOfTwo, Zenon
<1>7. f \in Nat
  BY <1>2, <1>4, <1>6, Zenon
<1>8. commitIndex'[n] \in {commitIndex[n], f} /\ commitIndex[n] <= commitIndex'[n]
  BY <1>1, <1>3, <1>7, MaxOfTwo, Zenon
<1>9. QED
  BY <1>6, <1>8, ZenonT(30)

\* A Follower commits what its Leader had committed.
LEMMA AcceptsCommit ==
    ASSUME NEW L, NEW W, NEW n \in Node, NEW m \in msgs,
           Passes(L, W, L, W), RequestsProbe(L), RequestsChosen(L, W), Accepts(n, m),
           commitIndex'[n] # commitIndex[n]
    PROVE  ChosenBy(L, W, commitIndex[n], log[n], term[n])'
<1>0. TypeInv /\ TypeInv' /\ HistoryInv(L, W) /\ History(L, W)
  BY Zenon DEF Passes, HistoryInv
<1>1. PICK c, y, t : c = commitIndex'[n] /\ y = log'[n] /\ t = term'[n]
  BY Zenon
<1>2. m \in AppendRequests /\ t = m.term
  BY <1>1, Zenon DEF Accepts, Follows
<1>3. m.type = "AppendEntries" /\ m.leaderCommit \in Nat /\ t \in Nat
  BY <1>2, Zenon DEF AppendRequests
<1>4. y \in Seq(Entry) /\ c \in Nat
  BY <1>0, <1>1, Zenon DEF TypeInv, TypeOK
<1>5. Len(y) \in Nat
  BY <1>4, LogEntry, Zenon
<1>6. c <= m.leaderCommit /\ c <= Len(y)
  BY <1>0, <1>1, AcceptsUpTo, Zenon
<1>7. L[t] \in Seq(Entry)
  BY <1>0, <1>3, Zenon DEF History
<1>8. Len(L[t]) \in Nat
  BY <1>7, LogEntry, Zenon
<1>9. AgreeUpTo(Len(y), y, L[t])
  BY <1>0, <1>1, <1>2, AcceptsPrefix, Zenon
<1>10. AgreeUpTo(c, y, L[t])
  BY <1>4, <1>5, <1>6, <1>8, <1>9, AgreeLess, SMTT(30)
<1>11. ChosenBy(L, W, m.leaderCommit, L[t], t)
  BY <1>2, <1>3, Zenon DEF RequestsChosen
<1>12. ChosenBy(L, W, c, y, t)
  BY <1>0, <1>3, <1>4, <1>6, <1>7, <1>10, <1>11, ChosenByLess, Zenon
<1>13. AgreeUpTo(c, y, y) /\ t <= t
  BY <1>3, <1>5, <1>6, SMTT(30) DEF AgreeUpTo
<1>14. ChosenBy(L, W, c, y, t)'
  BY <1>3, <1>4, <1>12, <1>13, ChosenByStays, Zenon
<1>15. QED
  BY <1>1, <1>14, Zenon

\* What a Follower committed it keeps.
LEMMA FollowsKeepsCommitted ==
    ASSUME NEW L, NEW W, NEW n \in Node, NEW m \in msgs, TypeInv, HistoryInv(L, W),
           LeadersQualified(L, W), CommitsChosen(L, W), Accepts(n, m) \/ Crashes(n, m)
    PROVE  AgreeUpTo(commitIndex[n], log[n], log'[n])
<1> DEFINE c == commitIndex[n]
<1>1. /\ Follows(n, m) /\ Consistent(n, m)
      /\ \/ log'[n] = AppendNew(log[n], m.prevLogIndex, m.entries)
         \/ log'[n] \in PartialLogs(log[n], m.prevLogIndex, m.entries)
  BY Zenon DEF Accepts, Crashes
<1>2. /\ m.term \in Nat /\ RequestRecorded(m, L, W)
      /\ \A k \in Nat : AgreeUpTo(k, log[n], L[m.term]) => AgreeUpTo(k, log'[n], L[m.term])
  BY <1>1, FollowerTakes, Zenon
<1>3. L[m.term] # <<>> /\ m.term >= term[n]
  BY <1>1, <1>2, ZenonT(30) DEF RequestRecorded, Follows
<1>4. c \in Nat /\ log[n] \in Seq(Entry) /\ term[n] \in Nat /\ History(L, W)
  BY Zenon DEF TypeInv, TypeOK, HistoryInv
<1>5. ChosenBy(L, W, c, log[n], term[n])
  BY Zenon DEF CommitsChosen
<1>6. AgreeUpTo(c, log[n], L[m.term])
  BY <1>2, <1>3, <1>4, <1>5, ChosenByHeld, Zenon
<1>7. QED
  BY <1>2, <1>4, <1>6, AgreeSym, AgreeTrans, Zenon

\* A commit index points into the log.
LEMMA ChosenWithin ==
    ASSUME NEW L, NEW W, NEW c \in Nat, NEW x \in Seq(Entry), NEW t, ChosenBy(L, W, c, x, t)
    PROVE  AgreeUpTo(c, x, x) /\ c <= Len(x)
<1>1. Len(x) \in Nat
  BY LogEntry, Zenon
<1>2. CASE c = 0
  BY <1>1, <1>2, SMTT(30) DEF AgreeUpTo
<1>3. CASE c # 0
  <2>1. PICK s : AgreeUpTo(c, x, L[s])
    BY <1>3, Zenon DEF ChosenBy
  <2>2. QED
    BY <1>1, <2>1, Zenon DEF AgreeUpTo
<1>4. QED
  BY <1>2, <1>3, Zenon

\* Only a Follower that accepts and a Leader that learns commit more.
LEMMA CommitRises ==
    ASSUME NEW L, NEW W, NEW M, NEW V, NEW n \in Node, NEW q \in Node, Moves(n, L, W, M, V),
           commitIndex'[q] # commitIndex[q]
    PROVE  /\ q = n
           /\ \/ M = L /\ V = W /\ \E m \in msgs : Accepts(n, m)
              \/ \E m \in msgs : Learns(n, m) /\ commitIndex'[n] \in Committable(n, log[n], matchIndex'[n])
<1>1. Others(n)
  BY Zenon
     DEF Moves, Listens, Campaigns, Wins, Sends, Learns, Leads, Accepts, Crashes, Rejects, Follows
<1>2. q = n
  BY <1>1, Zenon DEF Others
<1>3. \A m \in msgs : ~Crashes(n, m) /\ ~Rejects(n, m)
  BY <1>2, Zenon DEF Crashes, Rejects, LogStays
<1>4. \A m \in msgs : Learns(n, m) => commitIndex'[n] \in Committable(n, log[n], matchIndex'[n])
  BY <1>2, Zenon DEF Learns
<1>5. QED
  BY <1>2, <1>3, <1>4, Zenon DEF Moves, Listens, Campaigns, LogStays, Wins, Sends

\* Whatever a Node does, what it committed it keeps.
LEMMA MovesKeepCommitted ==
    ASSUME NEW L, NEW W, NEW M, NEW V, NEW n \in Node, NEW q \in Node,
           Passes(L, W, M, V), Moves(n, L, W, M, V), LeadersQualified(L, W), CommitsChosen(L, W)
    PROVE  commitIndex[q] <= commitIndex'[q] /\ AgreeUpTo(commitIndex[q], log[q], log'[q])
<1>0. TypeInv /\ TypeInv' /\ HistoryInv(L, W)
  BY Zenon DEF Passes
<1>1. commitIndex[q] \in Nat /\ commitIndex'[q] \in Nat /\ log[q] \in Seq(Entry)
  BY <1>0, Zenon DEF TypeInv, TypeOK
<1>2. AgreeUpTo(commitIndex[q], log[q], log[q]) /\ commitIndex[q] <= Len(log[q])
  <2>1. ChosenBy(L, W, commitIndex[q], log[q], term[q])
    BY Zenon DEF CommitsChosen
  <2>2. QED
    BY <1>1, <2>1, ChosenWithin, Zenon
<1>3. commitIndex[q] <= commitIndex'[q]
  <2>1. CASE commitIndex'[q] = commitIndex[q]
    BY <1>1, <2>1, SMTT(30)
  <2>2. CASE commitIndex'[q] # commitIndex[q]
    <3>1. /\ q = n
          /\ \/ \E m \in msgs : Accepts(n, m)
             \/ commitIndex'[n] \in Committable(n, log[n], matchIndex'[n])
      BY <2>2, CommitRises, Zenon
    <3>2. CASE \E m \in msgs : Accepts(n, m)
      BY <1>0, <3>1, <3>2, AcceptsUpTo, ZenonT(30)
    <3>3. CASE commitIndex'[n] \in Committable(n, log[n], matchIndex'[n])
      <4>1. commitIndex'[q] \in commitIndex[q] + 1 .. Len(log[q])
        BY <3>1, <3>3, Zenon DEF Committable
      <4>2. QED
        BY <1>1, <4>1, SMTT(30)
    <3>4. QED
      BY <3>1, <3>2, <3>3, Zenon
  <2>3. QED
    BY <2>1, <2>2, ZenonT(30)
<1>4. CASE log'[q] = log[q]
  BY <1>2, <1>3, <1>4, Zenon
<1>5. CASE \E e \in Entry : log'[q] = Append(log[q], e)
  <2>1. AgreeUpTo(Len(log[q]), log[q], log'[q]) /\ Len(log[q]) \in Nat
    BY <1>1, <1>5, AppendAgrees, LogEntry, Zenon
  <2>2. QED
    BY <1>1, <1>2, <1>3, <2>1, SMTT(30) DEF AgreeUpTo
<1>6. CASE q = n /\ \E m \in msgs : Accepts(n, m) \/ Crashes(n, m)
  BY <1>0, <1>3, <1>6, FollowsKeepsCommitted, ZenonT(30)
<1>7. CASE q # n
  <2>1. Others(n)
    BY Zenon
       DEF Moves, Listens, Campaigns, Wins, Sends, Learns, Leads, Accepts, Crashes, Rejects,
           Follows
  <2>2. QED
    BY <1>4, <1>7, <2>1, Zenon DEF Others
<1>8. CASE q = n
  <2>1. CASE Listens(n) \/ Campaigns(n) \/ \E m \in msgs : Learns(n, m) \/ Rejects(n, m)
    BY <1>4, <1>8, <2>1, ZenonT(30) DEF Listens, Campaigns, Learns, Rejects, LogStays
  <2>2. CASE Wins(n)
    <3>1. log'[n] = Append(log[n], [term |-> term[n], cmd |-> NoOp]) /\ term[n] \in Nat
      BY <1>0, <2>2, ZenonT(30) DEF Wins, TypeInv, TypeOK
    <3>2. [term |-> term[n], cmd |-> NoOp] \in Entry
      BY <3>1, Zenon DEF Entry
    <3>3. QED
      BY <1>5, <1>8, <3>1, <3>2, Zenon
  <2>3. CASE Sends(n)
    BY <1>4, <1>5, <1>8, <2>3, Zenon DEF Sends
  <2>4. QED
    BY <1>6, <1>8, <2>1, <2>2, <2>3, Zenon DEF Moves
<1>9. QED
  BY <1>7, <1>8, Zenon

LEMMA MovesCommit ==
    ASSUME NEW L, NEW W, NEW M, NEW V, NEW n \in Node, Passes(L, W, M, V), Moves(n, L, W, M, V),
           RequestsProbe(L), LeadersQualified(L, W), CommitsChosen(L, W), RequestsChosen(L, W),
           MatchesAcked'
    PROVE  CommitsChosen(M, V)'
<1> SUFFICES ASSUME NEW q \in Node PROVE ChosenBy(M, V, commitIndex[q], log[q], term[q])'
  BY Zenon DEF CommitsChosen
<1>1. CASE commitIndex'[q] = commitIndex[q]
  <2>1. AgreeUpTo(commitIndex[q], log[q], log'[q])
    BY MovesKeepCommitted, ZenonT(30)
  <2>2. QED
    BY <1>1, <2>1, CommitStays, Zenon
<1>2. CASE commitIndex'[q] # commitIndex[q]
  <2>1. q = n
    BY <1>2, CommitRises, SMTT(30)
  <2>2. CASE M = L /\ V = W /\ \E m \in msgs : Accepts(n, m)
    BY <1>2, <2>1, <2>2, AcceptsCommit, Zenon
  <2>3. CASE \E m \in msgs : Learns(n, m) /\ commitIndex'[n] \in Committable(n, log[n], matchIndex'[n])
    <3>1. PICK m \in msgs, c \in {commitIndex'[n]} :
             Learns(n, m) /\ c = commitIndex'[n] /\ c \in Committable(n, log[n], matchIndex'[n])
      BY <2>3, Zenon
    <3>2. ChosenBy(M, V, c, log[n], term[n])'
      BY <3>1, LearnsCommit, Zenon
    <3>3. QED
      BY <2>1, <3>1, <3>2, Zenon
  <2>4. QED
    BY <1>2, <2>2, <2>3, CommitRises, SMTT(30)
<1>3. QED
  BY <1>1, <1>2, Zenon

LEMMA MovesBehind ==
    ASSUME NEW L, NEW W, NEW M, NEW V, NEW n \in Node, Passes(L, W, M, V), Moves(n, L, W, M, V),
           LeadersQualified(L, W), CommitsChosen(L, W), RequestsBehind
    PROVE  RequestsBehind'
<1> SUFFICES ASSUME NEW r \in msgs', r.type = "AppendEntries"
             PROVE  \E p \in Node : r.leaderCommit <= commitIndex'[p]
  BY Zenon DEF RequestsBehind
<1>0. /\ TypeInv /\ TypeInv' /\ commitIndex \in [Node -> Nat] /\ commitIndex' \in [Node -> Nat]
  BY Zenon DEF Passes, TypeInv, TypeOK
<1>1. r.leaderCommit \in Nat
  <2>1. r \in Message
    BY <1>0, ZenonT(30) DEF TypeInv, TypeOK
  <2>2. r \in AppendRequests
    BY <2>1, MessageKinds, ZenonT(30)
  <2>3. QED
    BY <2>2, ZenonT(30) DEF AppendRequests
<1>2. CASE r \in msgs
  <2>1. PICK p \in Node : r.leaderCommit <= commitIndex[p]
    BY <1>2, Zenon DEF RequestsBehind
  <2>2. commitIndex[p] <= commitIndex'[p]
    BY MovesKeepCommitted, ZenonT(30)
  <2>3. QED
    BY <1>0, <1>1, <2>1, <2>2, SMTT(30)
<1>3. CASE r \notin msgs
  <2>1. r.leaderCommit = commitIndex'[n]
    BY <1>3, NewRequest, SMTT(30) DEF RequestOf
  <2>2. QED
    BY <1>0, <2>1, SMTT(30)
<1>4. QED
  BY <1>2, <1>3, Zenon

\* The prefix that is committed stays the one a Leader chose.
LEMMA DecidedStays ==
    ASSUME NEW L, NEW W, NEW M, NEW V, NEW n \in Node, NEW p \in Node, Passes(L, W, M, V),
           Moves(n, L, W, M, V), LeadersQualified(L, W), CommitsChosen(L, W),
           Decided(L, W, p), commitIndex'[p] = commitIndex[p]
    PROVE  Decided(M, V, p)'
<1>1. PICK c, x, y : c = commitIndex[p] /\ x = log[p] /\ y = log'[p]
  OBVIOUS
<1>2. AgreeUpTo(c, x, y) /\ c \in Nat
  BY <1>1, MovesKeepCommitted, Zenon DEF Passes, TypeInv, TypeOK
<1>3. CASE c = 0
  BY <1>1, <1>3, Zenon DEF Decided
<1>4. CASE c # 0
  <2>1. PICK s \in Nat : Chosen(L, W, s, c) /\ AgreeUpTo(c, x, L[s])
    BY <1>1, <1>4, Zenon DEF Decided
  <2>2. Chosen(M, V, s, c)'
    BY <1>2, <2>1, ChosenStays, Zenon
  <2>3. AgreeUpTo(c, L[s], M[s])
    <3>1. c \in 0 .. Len(L[s])
      BY <1>2, <2>1 DEF Chosen
    <3>2. QED
      BY <3>1, LeaderLogGrows, Zenon
  <2>4. AgreeUpTo(c, y, M[s])
    BY <1>2, <2>1, <2>3, AgreeSym, AgreeTrans, Zenon
  <2>5. QED
    BY <1>1, <2>2, <2>4, Zenon DEF Decided
<1>5. QED
  BY <1>3, <1>4, ZenonT(30)

LEMMA MovesLast ==
    ASSUME NEW L, NEW W, NEW M, NEW V, NEW n \in Node, Passes(L, W, M, V), Moves(n, L, W, M, V),
           LeadersQualified(L, W), CommitsChosen(L, W), RequestsBehind, LastDecided(L, W), MatchesAcked'
    PROVE  LastDecided(M, V)'
<1>0. /\ TypeInv /\ TypeInv' /\ commitIndex \in [Node -> Nat] /\ commitIndex' \in [Node -> Nat]
  BY Zenon DEF Passes, TypeInv, TypeOK
<1>1. PICK p \in Node : (\A q \in Node : commitIndex[q] <= commitIndex[p]) /\ Decided(L, W, p)
  BY Zenon DEF LastDecided, Foremost
<1>2. \A q \in Node \ {n} : commitIndex'[q] = commitIndex[q]
  BY CommitRises
<1>3. CASE commitIndex'[n] <= commitIndex[p] /\ commitIndex'[p] = commitIndex[p]
  <2>1. Decided(M, V, p)'
    BY <1>1, <1>3, DecidedStays, Zenon
  <2>2. \A q \in Node : commitIndex'[q] <= commitIndex'[p]
    BY <1>1, <1>2, <1>3, Zenon
  <2>3. QED
    BY <2>1, <2>2, Zenon DEF LastDecided, Foremost
<1>4. CASE commitIndex'[n] = commitIndex[n]
  BY <1>1, <1>2, <1>3, <1>4, Zenon
<1>5. CASE \E m \in msgs : Accepts(n, m) /\ commitIndex'[n] # commitIndex[n]
  <2>1. PICK m \in msgs : Accepts(n, m)
    BY <1>5, Zenon
  <2>2. /\ commitIndex[n] <= commitIndex'[n] /\ commitIndex'[n] <= m.leaderCommit
    BY <1>0, <1>5, <2>1, AcceptsUpTo, Zenon
  <2>3. m.type = "AppendEntries" /\ m.leaderCommit \in Nat
    BY <2>1, Zenon DEF Accepts, Follows, AppendRequests
  <2>4. PICK q \in Node : m.leaderCommit <= commitIndex[q]
    BY <2>3, Zenon DEF RequestsBehind
  <2>5. commitIndex'[n] <= commitIndex[p]
    BY <1>0, <1>1, <2>2, <2>3, <2>4, SMTT(30)
  <2>6. p # n
    BY <1>0, <1>5, <2>2, <2>5, SMTT(30)
  <2>7. QED
    BY <1>2, <1>3, <2>5, <2>6, Zenon
<1>6. CASE \E m \in msgs : Learns(n, m) /\ commitIndex'[n] \in Committable(n, log[n], matchIndex'[n])
  <2>1. PICK m \in msgs, c \in {commitIndex'[n]} :
           Learns(n, m) /\ c = commitIndex'[n] /\ c \in Committable(n, log[n], matchIndex'[n])
    BY <1>6, Zenon
  <2>2. CASE commitIndex'[n] <= commitIndex[p] /\ p # n
    BY <1>2, <1>3, <2>2, Zenon
  <2>3. CASE commitIndex'[n] > commitIndex[p] \/ p = n
    <3>1. commitIndex'[n] > commitIndex[n]
      <4>1. c \in commitIndex[n] + 1 .. Len(log[n])
        BY <2>1, Zenon DEF Committable
      <4>2. QED
        BY <1>0, <2>1, <4>1
    <3>2. \A q \in Node : commitIndex'[q] <= commitIndex'[n]
      BY <1>0, <1>1, <1>2, <2>3, <3>1, SMTT(30)
    <3>3. PICK t : t = term'[n]
      OBVIOUS
    <3>4. Chosen(M, V, t, c)' /\ AgreeUpTo(c, log'[n], M[t])
      BY <2>1, <3>3, LearnsChosen, Zenon
    <3>5. Decided(M, V, n)'
      BY <1>0, <2>1, <3>3, <3>4, Zenon DEF Decided, TypeInv, TypeOK
    <3>6. QED
      BY <3>2, <3>5, Zenon DEF LastDecided, Foremost
  <2>4. QED
    BY <1>0, <2>2, <2>3
<1>7. QED
  BY <1>4, <1>5, <1>6, CommitRises, Zenon

LEMMA MovesRequestsChosen ==
    ASSUME NEW L, NEW W, NEW M, NEW V, NEW n \in Node, Passes(L, W, M, V), Moves(n, L, W, M, V),
           RequestsChosen(L, W), CommitsChosen(M, V)'
    PROVE  RequestsChosen(M, V)'
<1>0. \A t \in Nat : /\ L[t] \in Seq(Entry) /\ Len(L[t]) \in Nat
                     /\ \A k \in 0 .. Len(L[t]) : AgreeUpTo(k, L[t], M[t])
  BY LeaderLogGrows, Zenon
<1> SUFFICES ASSUME NEW r \in msgs', r.type = "AppendEntries"
             PROVE  ChosenBy(M, V, r.leaderCommit, M[r.term], r.term)'
  BY Zenon DEF RequestsChosen
<1>1. /\ TypeInv /\ TypeInv' /\ HistoryInv(L, W) /\ HistoryInv(M, V)' /\ History(L, W)
  BY Zenon DEF Passes, HistoryInv
<1>2. r.term \in Nat /\ r.leaderCommit \in Nat
  <2>1. r \in Message
    BY <1>1, Zenon DEF TypeInv, TypeOK
  <2>2. r \in AppendRequests
    BY <2>1, MessageKinds, ZenonT(30)
  <2>3. QED
    BY <2>2, Zenon DEF AppendRequests
<1>3. CASE r \in msgs
  BY <1>0, <1>2, <1>3, ChosenWithin, ChosenByStays, SMTT(30) DEF RequestsChosen
<1>4. CASE r \notin msgs
  <2>1. Leads(n) /\ RequestOf(n, r)
    BY <1>4, NewRequest, Zenon
  <2>2. /\ r.term = term'[n] /\ role'[n] = "Leader" /\ r.leaderCommit = commitIndex'[n]
    BY <2>1, Zenon DEF RequestOf, Leads
  <2>3. M[term'[n]] = log'[n]
    BY <1>1, <2>2, LeaderLogAfter, ZenonT(60)
  <2>4. ChosenBy(M, V, commitIndex[n], log[n], term[n])'
    BY Zenon DEF CommitsChosen
  <2>5. QED
    BY <2>2, <2>3, <2>4, Zenon
<1>5. QED
  BY <1>3, <1>4, Zenon

-----------------------------------------------------------------------------
(* The invariant. *)

LEMMA InitHasCommit ==
    ASSUME NEW L, NEW W, Init, \A t \in Nat : L[t] = <<>>
    PROVE  CommitInv(L, W)
<1>0. /\ msgs = {} /\ Len(<<>>) = 0
      /\ \A n \in Node : role[n] = "Follower" /\ commitIndex[n] = 0
  BY EmptyLog, Zenon DEF Init
<1>1. AcksKept(L, W)
  BY <1>0 DEF AcksKept, Acked, Holds
<1>2. LeadersProbe /\ MatchesAcked
  BY <1>0, Zenon DEF LeadersProbe, MatchesAcked
<1>3. CandidatesAsk
  BY <1>0, Zenon DEF CandidatesAsk
<1>4. VotesInformed(L, W) /\ RequestsChosen(L, W)
  BY <1>0, Zenon DEF VotesInformed, RequestsChosen
<1>5. LeadersQualified(L, W)
  BY Zenon DEF LeadersQualified
<1>6. CommitsChosen(L, W)
  BY <1>0, Zenon DEF CommitsChosen, ChosenBy
<1>7. LastDecided(L, W) /\ RequestsBehind
  BY <1>0, NodeAssumption, FS_EmptySet DEF LastDecided, Foremost, Decided, RequestsBehind
<1>8. QED
  BY <1>0, <1>1, <1>2, <1>3, <1>4, <1>5, <1>6, <1>7, Zenon
     DEF CommitInv, SuccessesHeld, RequestsProbe, HintsProbe

LEMMA MovesKeepCommit ==
    ASSUME NEW L, NEW W, NEW M, NEW V, NEW n \in Node, ElectionInv, Passes(L, W, M, V),
           Moves(n, L, W, M, V), CommitInv(L, W)
    PROVE  CommitInv(M, V)'
<1>0. /\ AcksKept(L, W) /\ SuccessesHeld(L)
      /\ RequestsProbe(L) /\ LeadersProbe /\ HintsProbe(L)
      /\ CandidatesAsk /\ VotesInformed(L, W) /\ LeadersQualified(L, W)
      /\ MatchesAcked /\ CommitsChosen(L, W) /\ RequestsChosen(L, W)
      /\ LastDecided(L, W) /\ RequestsBehind
  BY Zenon DEF CommitInv
<1>1. NewHolds(L, W, M, V)
  BY <1>0, MovesHold, Zenon
<1>2. AcksKept(M, V)'
  BY <1>0, <1>1, AcksStayKept, Zenon
<1>3. SuccessesHeld(M)'
  BY <1>0, MovesSucceed, Zenon
<1>4. LeadersProbe'
  BY <1>0, MovesLeadersProbe, Zenon
<1>5. RequestsProbe(M)'
  BY <1>0, <1>4, MovesRequestsProbe, Zenon
<1>6. HintsProbe(M)'
  BY <1>0, MovesHintsProbe, Zenon
<1>7. CandidatesAsk'
  BY <1>0, MovesAsk, Zenon
<1>8. VotesInformed(M, V)'
  BY <1>0, <1>1, <1>2, <1>7, MovesInform, Zenon
<1>9. LeadersQualified(M, V)'
  BY <1>0, <1>1, MovesQualify, Zenon
<1>10. MatchesAcked'
  BY <1>0, MovesMatch, Zenon
<1>11. CommitsChosen(M, V)'
  BY <1>0, <1>10, MovesCommit, Zenon
<1>12. RequestsChosen(M, V)'
  BY <1>0, <1>11, MovesRequestsChosen, Zenon
<1>13. LastDecided(M, V)' /\ RequestsBehind'
  BY <1>0, <1>10, MovesLast, MovesBehind, Zenon
<1>14. QED
  BY <1>2, <1>3, <1>4, <1>5, <1>6, <1>7, <1>8, <1>9, <1>10, <1>11, <1>12, <1>13, Zenon
     DEF CommitInv

=============================================================================
