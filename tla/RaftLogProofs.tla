--------------------------- MODULE RaftLogProofs ----------------------------
(***************************************************************************)
(* Facts the proofs about Raft share: Min and Max, the kinds of messages,  *)
(* quorums, logs that agree, what the logs of past Leaders say of the logs *)
(* of today, and where the conflict hints lead.                            *)
(***************************************************************************)
EXTENDS RaftInvariants, FiniteSetTheorems, TLAPS

(* Sequences. *)

\* The empty sequence is the only one of length 0.
LEMMA EmptyLog ==
    ASSUME NEW S
    PROVE  /\ <<>> \in Seq(S) /\ Len(<<>>) = 0
           /\ \A s \in Seq(S) : s # <<>> => Len(s) \in Nat \ {0}
  OBVIOUS

\* A sequence is a function on the numbers up to its length.
LEMMA LogLength ==
    ASSUME NEW S, NEW s \in Seq(S)
    PROVE  Len(s) \in Nat /\ DOMAIN s = 1..Len(s) /\ s \in [1..Len(s) -> S]
  OBVIOUS

\* What Append,
LEMMA AppendedLog ==
    ASSUME NEW S, NEW s \in Seq(S), NEW e \in S
    PROVE  /\ Append(s, e) \in Seq(S) /\ Len(Append(s, e)) = Len(s) + 1 /\ Append(s, e) # <<>>
           /\ Append(s, e)[Len(s) + 1] = e /\ \A i \in 1..Len(s) : Append(s, e)[i] = s[i]
  OBVIOUS

\* concatenation,
LEMMA JoinedLogs ==
    ASSUME NEW S, NEW a \in Seq(S), NEW b \in Seq(S)
    PROVE  /\ a \o b \in Seq(S) /\ Len(a \o b) = Len(a) + Len(b)
           /\ \A i \in 1 .. Len(a) + Len(b) :
                 (a \o b)[i] = IF i <= Len(a) THEN a[i] ELSE b[i - Len(a)]
  OBVIOUS

\* and SubSeq return.
LEMMA PartOfLog ==
    ASSUME NEW S, NEW a, NEW i \in Int, NEW j \in Int, \A k \in i .. j : a[k] \in S
    PROVE  /\ SubSeq(a, i, j) \in Seq(S)
           /\ Len(SubSeq(a, i, j)) = IF i <= j THEN j - i + 1 ELSE 0
           /\ \A k \in 1 .. j - i + 1 : SubSeq(a, i, j)[k] = a[i + k - 1]
  OBVIOUS

-----------------------------------------------------------------------------
(* Least and greatest elements. *)

\* A nonempty set of naturals has a least element, which Min returns.
LEMMA MinOfNaturals ==
    ASSUME NEW S \in SUBSET Nat, S # {}
    PROVE  Min(S) \in S /\ \A y \in S : Min(S) <= y
<1> DEFINE R == {ss \in Nat \X Nat : ss[1] < ss[2]}
<1>1. IsWellFoundedOn(R, Nat)
  BY NatLessThanWellFounded, Zenon DEF OpToRel
<1> HIDE DEF R
<1>2. PICK x \in S : \A y \in S : ~(<<y, x>> \in R)
  BY <1>1, WFMin, Zenon
<1>3. ASSUME NEW y \in S
      PROVE  x <= y
  <2>1. <<y, x>> \in R <=> y < x
    BY Zenon DEF R
  <2>2. QED
    BY <1>2, <2>1
<1>4. QED
  BY <1>3, Zenon DEF Min

\* A nonempty set of naturals below a bound has a greatest element, which Max
\* returns.
LEMMA MaxOfBounded ==
    ASSUME NEW S \in SUBSET Nat, S # {}, NEW k \in Nat, \A x \in S : x <= k
    PROVE  Max(S) \in S /\ \A y \in S : y <= Max(S)
<1> DEFINE T == {k - x : x \in S}
<1>1. T \in SUBSET Nat /\ T # {}
  <2>1. ASSUME NEW x \in S PROVE k - x \in Nat
    OBVIOUS
  <2>2. PICK x \in S : TRUE
    BY Zenon
  <2>3. k - x \in T
    OBVIOUS
  <2> QED
    BY <2>1, <2>3, Zenon
<1>2. PICK t \in T : \A y \in T : t <= y
  BY <1>1, MinOfNaturals, Zenon
<1>3. PICK x \in S : t = k - x
  BY <1>2, Zenon
<1>4. ASSUME NEW y \in S
      PROVE  x >= y
  <2>1. t <= k - y
    BY <1>2, Zenon
  <2>2. QED
    BY <1>3, <2>1
<1>5. QED
  BY <1>4, Zenon DEF Max

-----------------------------------------------------------------------------
\* Min of two naturals.
LEMMA MinOfTwo ==
    ASSUME NEW a \in Nat, NEW b \in Nat
    PROVE  /\ Min({a, b}) \in {a, b}
           /\ Min({a, b}) <= a
           /\ Min({a, b}) <= b
  BY MinOfNaturals, {a, b} \in SUBSET Nat, {a, b} # {}, Zenon

\* Max of two naturals.
LEMMA MaxOfTwo ==
    ASSUME NEW a \in Nat, NEW b \in Nat
    PROVE  /\ Max({a, b}) \in {a, b}
           /\ a <= Max({a, b})
           /\ b <= Max({a, b})
<1>1. {a, b} \in SUBSET Nat /\ {a, b} # {} /\ a + b \in Nat
  OBVIOUS
<1>2. \A x \in {a, b} : x <= a + b
  OBVIOUS
<1>3. QED
  BY <1>1, <1>2, MaxOfBounded, Zenon

\* The first new offset of a request whose previous entry the log holds: the
\* entries before it are in the log.
LEMMA FirstNewOffset ==
    ASSUME NEW E, \A e \in E : e.term \in Nat, NEW l \in Seq(E), NEW prev \in 0..Len(l),
           NEW entries \in Seq(E), NewOffsets(l, prev, entries) # {}
    PROVE  /\ Min(NewOffsets(l, prev, entries)) \in 1..Len(entries)
           /\ Min(NewOffsets(l, prev, entries)) \in NewOffsets(l, prev, entries)
           /\ \A o \in NewOffsets(l, prev, entries) : Min(NewOffsets(l, prev, entries)) <= o
           /\ prev + Min(NewOffsets(l, prev, entries)) - 1 <= Len(l)
<1> DEFINE new == NewOffsets(l, prev, entries)
           k   == Min(new)
<1>1. new \in SUBSET (1..Len(entries))
  BY Zenon DEF NewOffsets
<1>2. k \in new /\ \A o \in new : k <= o
  <2>1. new \in SUBSET Nat /\ new # {}
    BY <1>1
  <2>2. QED
    BY <2>1, MinOfNaturals, Zenon
<1> HIDE DEF k
<1>3. prev + k - 1 <= Len(l)
  <2>1. CASE k = 1
    BY <2>1
  <2>2. CASE k # 1
    <3>1. k - 1 \in 1..Len(entries) /\ k - 1 \notin new
      <4>1. k - 1 \in new => k <= k - 1
        BY <1>2, Zenon
      <4>2. k \in 1..Len(entries)
        BY <1>1, <1>2, Zenon
      <4>3. QED
        BY <2>2, <4>1, <4>2
    <3>2. ~(prev + (k - 1) > Len(l))
      BY <3>1, Zenon DEF NewOffsets
    <3>3. QED
      BY <3>1, <3>2
  <2>3. QED
    BY <2>1, <2>2, Zenon
<1>4. QED
  BY <1>1, <1>2, <1>3, Zenon DEF k

-----------------------------------------------------------------------------
(* Entries, messages and votes. *)

\* The log lemmas need only that an entry has a term.
LEMMA EntryTerm == \A e \in Entry : e.term \in Nat
  BY Zenon DEF Entry

\* A request may carry an entry.
LEMMA BatchIsPositive == MaxBatch \in Nat \ {0}
  BY BoundAssumption, Zenon

\* The type of a message tells its fields.
LEMMA MessageKinds ==
    ASSUME NEW m \in Message
    PROVE  /\ m.type = "PreVoteRequest" => m \in PreVoteRequests
           /\ m.type = "PreVoteResponse" => m \in PreVoteResponses
           /\ m.type = "VoteRequest" => m \in VoteRequests
           /\ m.type = "VoteResponse" => m \in VoteResponses
           /\ m.type = "AppendEntries" => m \in AppendRequests
           /\ m.type = "AppendEntriesResponse" => m \in AppendResponses
           /\ m.from \in Node /\ m.to \in Node /\ m.term \in Nat
<1>1. CASE m \in PreVoteRequests
  BY <1>1, Zenon DEF PreVoteRequests
<1>2. CASE m \in PreVoteResponses
  BY <1>2, Zenon DEF PreVoteResponses
<1>3. CASE m \in VoteRequests
  BY <1>3, Zenon DEF VoteRequests
<1>4. CASE m \in VoteResponses
  BY <1>4, Zenon DEF VoteResponses
<1>5. CASE m \in AppendRequests
  BY <1>5, Zenon DEF AppendRequests
<1>6. CASE m \in AppendResponses
  BY <1>6, Zenon DEF AppendResponses
<1>7. QED
  BY <1>1, <1>2, <1>3, <1>4, <1>5, <1>6, Zenon DEF Message

\* Messages are never unsent.
LEMMA MessagesStay ==
    ASSUME NEW n, NEW m, LocalEvent(n) \/ Receive(n, m) \/ CrashDuringAppend(n, m)
    PROVE  msgs \subseteq msgs'
<1>1. ASSUME NEW targets, NEW inFlight, NEW l, NEW next, NEW commit, NEW readFor,
             SendAppendEntries(n, targets, inFlight, l, next, commit, readFor)
      PROVE  msgs \subseteq msgs'
  BY <1>1, Zenon DEF SendAppendEntries, Send
<1>2. CASE StartPreVote(n)
  BY <1>2, Zenon DEF StartPreVote, Send
<1>3. CASE ElectionTimeoutAtLeader(n) \/ CheckQuorumTimeout(n)
  BY <1>3, Zenon DEF ElectionTimeoutAtLeader, CheckQuorumTimeout
<1>4. CASE HeartbeatTimeout(n)
  BY <1>1, <1>4, Zenon DEF HeartbeatTimeout
<1>5. CASE \E c \in Command : Propose(n, c)
  BY <1>1, <1>5, Zenon DEF Propose
<1>6. CASE ConfirmRead(n)
  BY <1>1, <1>6, Zenon DEF ConfirmRead
<1>7. CASE Restart(n) \/ CrashDuringAppend(n, m)
  BY <1>7, Zenon DEF Restart, CrashDuringAppend, ForgetVolatile
<1>8. CASE HandlePreVoteRequest(n, m)
  BY <1>8, Zenon DEF HandlePreVoteRequest, Send
<1>9. CASE HandlePreVoteResponse(n, m)
  BY <1>9, Zenon DEF HandlePreVoteResponse, AdoptHigherTerm, StartElection, Send
<1>10. CASE HandleVoteRequest(n, m)
  BY <1>10, Zenon DEF HandleVoteRequest, Send
<1>11. CASE HandleVoteResponse(n, m)
  BY <1>1, <1>11, Zenon DEF HandleVoteResponse, AdoptHigherTerm
<1>12. CASE HandleAppendEntries(n, m)
  BY <1>12, Zenon DEF HandleAppendEntries, Send
<1>13. CASE HandleAppendEntriesResponse(n, m)
  BY <1>1, <1>13, Zenon DEF HandleAppendEntriesResponse, AdoptHigherTerm
<1>14. QED
  BY <1>2, <1>3, <1>4, <1>5, <1>6, <1>7, <1>8, <1>9, <1>10, <1>11, <1>12, <1>13, Zenon
     DEF LocalEvent, Receive

\* Two quorums have a member in common.
LEMMA QuorumsMeet ==
    ASSUME NEW Q1 \in SUBSET Node, NEW Q2 \in SUBSET Node, IsQuorum(Q1), IsQuorum(Q2)
    PROVE  \E v \in Q1 : v \in Q2
<1>1. IsFiniteSet(Node) /\ Cardinality(Node) \in Nat
  BY NodeAssumption, FS_CardinalityType, Zenon
<1>2. IsFiniteSet(Q1) /\ IsFiniteSet(Q2)
  BY <1>1, FS_Subset, Zenon
<1>3. Cardinality(Q1) \in Nat /\ Cardinality(Q2) \in Nat
  BY <1>2, FS_CardinalityType, Zenon
<1>4. Cardinality(Q1) + Cardinality(Q2) > Cardinality(Node)
  BY <1>1, <1>3 DEF IsQuorum
<1>5. Q1 \cap Q2 # {}
  BY <1>1, <1>4, FS_MajoritiesIntersect, Zenon
<1>6. QED
  BY <1>5, Zenon

\* All Nodes together are a quorum,
LEMMA NodeIsQuorum == IsQuorum(Node)
<1>1. Node # {} /\ IsFiniteSet(Node) /\ Cardinality(Node) \in Nat
  BY NodeAssumption, FS_CardinalityType, FS_EmptySet
<1>2. Cardinality(Node) # 0
  BY <1>1, FS_EmptySet, Zenon
<1>3. QED
  BY <1>1, <1>2 DEF IsQuorum

\* and so is what holds a quorum.
LEMMA QuorumGrows ==
    ASSUME NEW P \in SUBSET Node, NEW Q \in SUBSET P, IsQuorum(Q)
    PROVE  IsQuorum(P)
<1>1. IsFiniteSet(Node) /\ Cardinality(Node) \in Nat
  BY NodeAssumption, FS_CardinalityType, Zenon
<1>2. IsFiniteSet(P)
  BY <1>1, FS_Subset, Zenon
<1>3. Cardinality(Q) <= Cardinality(P) /\ Cardinality(P) \in Nat /\ Cardinality(Q) \in Nat
  BY <1>2, FS_Subset, FS_CardinalityType, Zenon
<1>4. QED
  BY <1>1, <1>3 DEF IsQuorum

\* A term elects one Node.
LEMMA ElectedOnce ==
    ASSUME VotesOnce, NEW n \in Node, NEW p \in Node, NEW t \in Nat,
           Elected(msgs, n, t), Elected(msgs, p, t)
    PROVE  n = p
<1>1. PICK Q1 \in SUBSET Node : IsQuorum(Q1) /\ \A v \in Q1 : Voted(msgs, v, n, t)
  BY Zenon DEF Elected
<1>2. PICK Q2 \in SUBSET Node : IsQuorum(Q2) /\ \A v \in Q2 : Voted(msgs, v, p, t)
  BY Zenon DEF Elected
<1>3. PICK v \in Q1 : v \in Q2
  BY <1>1, <1>2, QuorumsMeet, Zenon
<1>4. v \in Node /\ Voted(msgs, v, n, t) /\ Voted(msgs, v, p, t)
  BY <1>1, <1>2, <1>3, Zenon
<1>5. QED
  BY <1>4, Zenon DEF VotesOnce

\* What a quorum did stays done.
LEMMA VotesGrow ==
    ASSUME NEW ms, NEW more, ms \subseteq more
    PROVE  /\ \A v, c, t : Voted(ms, v, c, t) => Voted(more, v, c, t)
           /\ \A n, t : Elected(ms, n, t) => Elected(more, n, t)
<1>1. ASSUME NEW v, NEW c, NEW t, Voted(ms, v, c, t) PROVE Voted(more, v, c, t)
  BY <1>1, Zenon DEF Voted, Granted, Campaigned
<1>2. ASSUME NEW n, NEW t, Elected(ms, n, t) PROVE Elected(more, n, t)
  BY <1>1, <1>2, Zenon DEF Elected
<1>3. QED
  BY <1>1, <1>2, Zenon

-----------------------------------------------------------------------------
(* Logs that agree. *)

\* Agreement is symmetric,
LEMMA AgreeSym ==
    ASSUME NEW k, NEW a, NEW b, AgreeUpTo(k, a, b)
    PROVE  AgreeUpTo(k, b, a)
  BY Zenon DEF AgreeUpTo

\* and transitive,
LEMMA AgreeTrans ==
    ASSUME NEW k, NEW a, NEW b, NEW c, AgreeUpTo(k, a, b), AgreeUpTo(k, b, c)
    PROVE  AgreeUpTo(k, a, c)
  BY Zenon DEF AgreeUpTo

\* and holds of shorter prefixes.
LEMMA AgreeLess ==
    ASSUME NEW k \in Nat, NEW a, NEW b, NEW j \in 0..k, Len(a) \in Nat, Len(b) \in Nat,
           AgreeUpTo(k, a, b)
    PROVE  AgreeUpTo(j, a, b)
  BY DEF AgreeUpTo

\* The entries of a log have terms.
LEMMA LogEntry ==
    ASSUME NEW l \in Seq(Entry)
    PROVE  /\ Len(l) \in Nat
           /\ \A i \in 1..Len(l) : i \in Nat /\ l[i] \in Entry /\ l[i].term \in Nat
<1>1. Len(l) \in Nat /\ \A i \in 1..Len(l) : i \in Nat /\ l[i] \in Entry
  OBVIOUS
<1>2. QED
  BY <1>1, EntryTerm, Zenon

\* Appending keeps what the log holds.
LEMMA AppendAgrees ==
    ASSUME NEW l \in Seq(Entry), NEW e \in Entry
    PROVE  /\ Append(l, e) \in Seq(Entry) /\ Len(Append(l, e)) = Len(l) + 1
           /\ AgreeUpTo(Len(l), l, Append(l, e))
           /\ Append(l, e)[Len(l) + 1] = e
<1>1. /\ Len(l) \in Nat /\ Append(l, e) \in Seq(Entry) /\ Len(Append(l, e)) = Len(l) + 1
      /\ \A i \in 1..Len(l) : Append(l, e)[i] = l[i]
      /\ Append(l, e)[Len(l) + 1] = e
  BY AppendedLog
<1>2. QED
  BY <1>1 DEF AgreeUpTo

\* What agrees with a log agrees with its extensions.
LEMMA AgreementExtends ==
    ASSUME NEW a, NEW b, NEW c, NEW k \in Nat, Len(b) \in Nat, Len(c) \in Nat,
           AgreeUpTo(k, a, b), AgreeUpTo(Len(b), b, c)
    PROVE  AgreeUpTo(k, a, c)
<1>1. Len(a) >= k /\ Len(b) >= k /\ Len(c) >= k
  BY DEF AgreeUpTo
<1>2. ASSUME NEW i \in 1..k PROVE a[i] = c[i]
  <2>1. i \in 1..Len(b)
    BY <1>1
  <2>2. QED
    BY <2>1, Zenon DEF AgreeUpTo
<1>3. QED
  BY <1>1, <1>2, Zenon DEF AgreeUpTo

\* Where a request that agrees with the log departs from it.
LEMMA FirstNewAgrees ==
    ASSUME NEW l \in Seq(Entry), NEW x \in Seq(Entry), NEW prev \in Nat, NEW entries \in Seq(Entry),
           AgreeUpTo(prev, l, x), PartOf(entries, prev, x), SamePast(l, x),
           NewOffsets(l, prev, entries) # {}
    PROVE  LET f == Min(NewOffsets(l, prev, entries))
           IN  /\ f \in 1..Len(entries)
               /\ AgreeUpTo(prev + f - 1, l, x)
               /\ \A k \in Nat : AgreeUpTo(k, l, x) => k < prev + f
<1> DEFINE new == NewOffsets(l, prev, entries)
           f == Min(new)
<1>1. prev \in 0..Len(l) /\ Len(l) \in Nat /\ Len(x) \in Nat /\ Len(entries) \in Nat
  BY DEF AgreeUpTo
<1>2. f \in 1..Len(entries) /\ f \in new /\ (\A o \in new : f <= o) /\ prev + f - 1 <= Len(l)
  BY <1>1, EntryTerm, FirstNewOffset, Zenon
<1> HIDE DEF f
<1>3. AgreeUpTo(prev + f - 1, l, x)
  <2>1. CASE f = 1
    BY <1>1, <2>1
  <2>2. CASE f # 1
    <3>1. f - 1 \in 1..Len(entries) /\ f - 1 \notin new
      <4>1. f - 1 \in new => f <= f - 1
        BY <1>2, Zenon
      <4>2. QED
        BY <1>1, <1>2, <2>2, <4>1
    <3>2. prev + (f - 1) <= Len(l) /\ TermAt(l, prev + (f - 1)) = entries[f - 1].term
      BY <1>1, <3>1 DEF NewOffsets
    <3>3. entries[f - 1] = x[prev + (f - 1)] /\ prev + (f - 1) <= Len(x)
      BY <1>1, <3>1 DEF PartOf
    <3>4. prev + (f - 1) \in 1..Len(l) /\ prev + (f - 1) = prev + f - 1
      BY <1>1, <3>1, <3>2
    <3>5. l[prev + (f - 1)].term = x[prev + (f - 1)].term
      BY <3>2, <3>3, <3>4, Zenon DEF TermAt
    <3>6. QED
      BY <3>3, <3>4, <3>5, Zenon DEF SamePast
  <2>3. QED
    BY <2>1, <2>2, Zenon
<1>4. ASSUME NEW k \in Nat, AgreeUpTo(k, l, x) PROVE k < prev + f
  <2>1. SUFFICES ASSUME k >= prev + f PROVE FALSE
    BY <1>1, <1>2
  <2>2. prev + f \in 1..k /\ prev + f <= Len(l)
    BY <1>1, <1>2, <1>4, <2>1 DEF AgreeUpTo
  <2>3. l[prev + f] = x[prev + f] /\ entries[f] = x[prev + f]
    BY <1>2, <1>4, <2>2, Zenon DEF AgreeUpTo, PartOf
  <2>4. TermAt(l, prev + f) = entries[f].term
    BY <1>1, <2>2, <2>3 DEF TermAt
  <2>5. QED
    BY <1>1, <1>2, <2>2, <2>4 DEF NewOffsets
<1>5. QED
  BY <1>2, <1>3, <1>4, Zenon DEF f

\* A prefix of the log followed by entries of x.
LEMMA SpliceAgrees ==
    ASSUME NEW l \in Seq(Entry), NEW x \in Seq(Entry), NEW prev \in Nat, NEW entries \in Seq(Entry),
           PartOf(entries, prev, x), NEW f \in 1..Len(entries), NEW last \in 0..Len(entries),
           AgreeUpTo(prev + f - 1, l, x)
    PROVE  LET y == SubSeq(l, 1, prev + f - 1) \o SubSeq(entries, f, last)
           IN  /\ y \in Seq(Entry)
               /\ Len(y) = IF f <= last THEN prev + last ELSE prev + f - 1
               /\ AgreeUpTo(Len(y), y, x)
<1> DEFINE q == prev + f - 1
           a == SubSeq(l, 1, q)
           b == SubSeq(entries, f, last)
           y == a \o b
<1>1. Len(l) \in Nat /\ Len(x) \in Nat /\ Len(entries) \in Nat /\ q \in Nat /\ q <= Len(l)
  BY DEF AgreeUpTo
<1>2. /\ a \in Seq(Entry) /\ Len(a) = q /\ \A i \in 1..q : a[i] = l[i]
  <2>1. \A i \in 1..q : l[i] \in Entry
    BY <1>1
  <2>2. QED
    BY <1>1, <2>1, PartOfLog
<1>3. /\ b \in Seq(Entry) /\ Len(b) = (IF f <= last THEN last - f + 1 ELSE 0)
      /\ \A i \in 1..Len(b) : b[i] = entries[f + i - 1]
  <2>1. \A i \in f..last : entries[i] \in Entry
    BY <1>1
  <2>2. QED
    BY <1>1, <2>1, PartOfLog
<1> HIDE DEF a, b, q
<1>4. /\ y \in Seq(Entry) /\ Len(y) = q + Len(b)
      /\ \A i \in 1..Len(y) : y[i] = IF i <= q THEN a[i] ELSE b[i - q]
  <2>1. /\ y \in Seq(Entry) /\ Len(y) = Len(a) + Len(b)
        /\ \A i \in 1..Len(a) + Len(b) : y[i] = IF i <= Len(a) THEN a[i] ELSE b[i - Len(a)]
    BY <1>2, <1>3, JoinedLogs, Zenon
  <2>2. QED
    BY <1>2, <2>1, Zenon
<1> HIDE DEF y
<1>5. Len(y) = IF f <= last THEN prev + last ELSE prev + f - 1
  BY <1>1, <1>3, <1>4, SMTT(30) DEF q
<1>6. Len(y) <= Len(x)
  BY <1>1, <1>5 DEF PartOf
<1>7. ASSUME NEW i \in 1..Len(y) PROVE y[i] = x[i]
  <2>1. CASE i <= q
    <3>1. AgreeUpTo(q, l, x) /\ i \in 1..q
      BY <1>1, <1>4, <2>1 DEF q
    <3>2. QED
      BY <1>2, <1>4, <2>1, <3>1, Zenon DEF AgreeUpTo
  <2>2. CASE i > q
    <3>1. Len(b) \in Nat
      BY <1>3
    <3>2. y[i] = b[i - q] /\ i - q \in 1..Len(b)
      BY <1>1, <1>4, <2>2, <3>1
    <3>3. b[i - q] = entries[f + (i - q) - 1]
      BY <1>3, <3>2, Zenon
    <3>4. f + (i - q) - 1 = i - prev
      BY <1>1, <1>4, <3>1 DEF q
    <3>5. Len(y) \in Nat /\ i \in Nat /\ i <= Len(y)
      BY <1>4, LogEntry, SMTT(30)
    <3>6. prev + f - 1 < i /\ i <= prev + last
      BY <1>1, <1>5, <2>2, <3>5, SMTT(30) DEF q
    <3>7. i - prev \in 1..Len(entries) /\ prev + (i - prev) = i
      BY <1>1, <3>5, <3>6, SMTT(30)
    <3>8. entries[i - prev] = x[prev + (i - prev)]
      BY <3>7, Zenon DEF PartOf
    <3>9. QED
      BY <3>2, <3>3, <3>4, <3>7, <3>8, Zenon
  <2>3. QED
    BY <1>1, <2>1, <2>2
<1>8. AgreeUpTo(Len(y), y, x)
  BY <1>4, <1>6, <1>7, SMTT(30) DEF AgreeUpTo
<1>9. QED
  BY <1>4, <1>5, <1>8, Zenon DEF y, a, b, q

\* What entriesToAppend, truncateLog and appendEntries make of a log, and what
\* a crash in the middle leaves: the log itself, or a prefix of the Leader's;
\* whatever agreed with the Leader's log still does.
LEMMA EntriesTaken ==
    ASSUME NEW l \in Seq(Entry), NEW x \in Seq(Entry), NEW prev \in Nat, NEW entries \in Seq(Entry),
           AgreeUpTo(prev, l, x), PartOf(entries, prev, x), SamePast(l, x),
           NEW y, y = AppendNew(l, prev, entries) \/ y \in PartialLogs(l, prev, entries)
    PROVE  /\ y \in Seq(Entry)
           /\ y = l \/ AgreeUpTo(Len(y), y, x)
           /\ \A k \in Nat : AgreeUpTo(k, l, x) => AgreeUpTo(k, y, x)
           /\ y = AppendNew(l, prev, entries) => AgreeUpTo(prev + Len(entries), y, x)
<1> DEFINE new == NewOffsets(l, prev, entries)
           f == Min(new)
<1>1. Len(l) \in Nat /\ Len(x) \in Nat /\ Len(entries) \in Nat
  OBVIOUS
<1>2. CASE new = {}
  <2>1. y = l
    BY <1>2, Zenon DEF AppendNew, PartialLogs
  <2>2. AgreeUpTo(prev + Len(entries), l, x)
    <3>1. CASE Len(entries) = 0
      BY <3>1
    <3>2. CASE Len(entries) # 0
      <4>1. Len(entries) \in 1..Len(entries) /\ Len(entries) \notin new
        BY <1>1, <1>2, <3>2
      <4>2. prev + Len(entries) <= Len(l) /\ TermAt(l, prev + Len(entries)) = entries[Len(entries)].term
        BY <1>1, <4>1 DEF NewOffsets
      <4>3. entries[Len(entries)] = x[prev + Len(entries)] /\ prev + Len(entries) <= Len(x)
        BY <4>1, Zenon DEF PartOf
      <4>4. prev + Len(entries) \in 1..Len(l)
        BY <1>1, <3>2, <4>2
      <4>5. QED
        BY <4>2, <4>3, <4>4, Zenon DEF TermAt, SamePast
    <3>3. QED
      BY <3>1, <3>2, Zenon
  <2>3. QED
    BY <2>1, <2>2, Zenon
<1>3. CASE new # {}
  <2>1. /\ f \in 1..Len(entries)
        /\ AgreeUpTo(prev + f - 1, l, x)
        /\ \A k \in Nat : AgreeUpTo(k, l, x) => k < prev + f
    BY <1>3, FirstNewAgrees, Zenon
  <2>2. AppendNew(l, prev, entries) = SubSeq(l, 1, prev + f - 1) \o SubSeq(entries, f, Len(entries))
    BY <1>3, Zenon DEF AppendNew
  <2>3. y \in PartialLogs(l, prev, entries) =>
            y = l \/ \E last \in 0..Len(entries) :
                       y = SubSeq(l, 1, prev + f - 1) \o SubSeq(entries, f, last)
    BY Zenon DEF PartialLogs
  <2> HIDE DEF f
  <2>4. ASSUME NEW last \in 0..Len(entries),
               y = SubSeq(l, 1, prev + f - 1) \o SubSeq(entries, f, last)
        PROVE  /\ y \in Seq(Entry) /\ AgreeUpTo(Len(y), y, x)
               /\ \A k \in Nat : AgreeUpTo(k, l, x) => AgreeUpTo(k, y, x)
               /\ last = Len(entries) => AgreeUpTo(prev + Len(entries), y, x)
    <3>1. /\ y \in Seq(Entry) /\ AgreeUpTo(Len(y), y, x)
          /\ Len(y) = IF f <= last THEN prev + last ELSE prev + f - 1
      BY <2>1, <2>4, SpliceAgrees
    <3>2. Len(y) \in Nat /\ Len(y) >= prev + f - 1
      BY <1>1, <2>1, <3>1
    <3>3. ASSUME NEW k \in Nat, AgreeUpTo(k, l, x) PROVE AgreeUpTo(k, y, x)
      <4>1. k \in 0..Len(y)
        BY <1>1, <2>1, <3>2, <3>3
      <4>2. QED
        BY <1>1, <3>1, <3>2, <4>1, AgreeLess, Zenon
    <3>4. last = Len(entries) => Len(y) = prev + Len(entries)
      BY <2>1, <3>1
    <3>5. QED
      BY <3>1, <3>3, <3>4, Zenon
  <2>5. Len(entries) \in 0..Len(entries)
    BY <1>1
  <2>6. CASE y = AppendNew(l, prev, entries)
    BY <2>2, <2>4, <2>5, <2>6, Zenon
  <2>7. CASE y # AppendNew(l, prev, entries)
    BY <2>3, <2>4, <2>7, Zenon
  <2>8. QED
    BY <2>6, <2>7, Zenon
<1>4. QED
  BY <1>2, <1>3, Zenon

-----------------------------------------------------------------------------
(* The history of Leaders. *)

\* Terms up to t are terms up to any later one.
LEMMA TermsUpToLater ==
    ASSUME NEW l \in Seq(Entry), NEW t \in Nat, NEW u \in Nat, t <= u, TermsUpTo(l, t)
    PROVE  TermsUpTo(l, u)
<1>1. \A i \in 1..Len(l) : l[i].term \in Nat /\ l[i].term <= t
  BY LogEntry, Zenon DEF TermsUpTo
<1>2. QED
  BY <1>1 DEF TermsUpTo

\* Two logs that came from Leaders have the same past where they have the same term.
LEMMA LeadersGivePasts ==
    ASSUME NEW L \in [Nat -> Seq(Entry)], NEW l \in Seq(Entry), NEW x \in Seq(Entry),
           FromLeaders(l, L), FromLeaders(x, L)
    PROVE  SamePast(l, x)
<1> SUFFICES ASSUME NEW i \in 1..Len(l), i <= Len(x), l[i].term = x[i].term
             PROVE  AgreeUpTo(i, l, x)
  BY Zenon DEF SamePast
<1>1. i \in Nat /\ i \in 1..Len(x) /\ l[i] \in Entry /\ l[i].term \in Nat
  <2>1. Len(x) \in Nat /\ i \in Nat /\ l[i] \in Entry /\ l[i].term \in Nat
    BY LogEntry, Zenon
  <2>2. i \in 1..Len(x)
    BY <2>1
  <2>3. QED
    BY <2>1, <2>2, Zenon
<1>2. AgreeUpTo(i, l, L[l[i].term]) /\ AgreeUpTo(i, x, L[l[i].term])
  BY <1>1, Zenon DEF FromLeaders
<1>3. L[l[i].term] \in Seq(Entry)
  BY <1>1, Zenon
<1>4. QED
  BY <1>2, Zenon DEF AgreeUpTo

\* What a Leader's step does to the history.
LEMMA LeaderExtends ==
    ASSUME NEW L, NEW W, NEW M, NEW V, NEW n \in Node,
           TypeInv, TypeInv', ElectionInv, HistoryInv(L, W), Acts(n), Records(n, L, W, M, V)
    PROVE  /\ M \in [Nat -> Seq(Entry)] /\ V \in [Nat -> Node] /\ Extends(L, M)
           /\ \A t \in Nat : L[t] # <<>> => V[t] = W[t]
           /\ term[n] \in Nat /\ M[term[n]] = log'[n] /\ V[term[n]] = n
           /\ \A t \in Nat \ {term[n]} : M[t] = L[t] /\ V[t] = W[t]
           /\ term[n] # 0
           /\ role[n] = "Leader" => L[term[n]] = log[n]
           /\ role[n] # "Leader" => L[term[n]] = <<>>
           /\ log[n] \in Seq(Entry) /\ log'[n] \in Seq(Entry)
           /\ AgreeUpTo(Len(log[n]), log[n], log'[n])
<1> DEFINE t == term[n]
<1>1. /\ L \in [Nat -> Seq(Entry)] /\ W \in [Nat -> Node] /\ t \in Nat /\ L[0] = <<>>
      /\ log[n] \in Seq(Entry) /\ log'[n] \in Seq(Entry)
  BY Zenon DEF HistoryInv, History, TypeInv, TypeOK
<1>2. M = [L EXCEPT ![t] = log'[n]] /\ V = [W EXCEPT ![t] = n]
  BY Zenon DEF Records
<1>3. AgreeUpTo(Len(log[n]), log[n], log'[n])
  <2>1. CASE log'[n] = log[n]
    BY <1>1, <2>1 DEF AgreeUpTo
  <2>2. CASE \E e \in Entry : log'[n] = Append(log[n], e)
    BY <1>1, <2>2, AppendAgrees, Zenon
  <2>3. QED
    BY <2>1, <2>2, Zenon DEF Acts
<1>4. /\ role[n] = "Leader" => L[t] = log[n] /\ L[t] # <<>> /\ W[t] = n
  BY <1>1, Zenon DEF HistoryInv, LeadersRecorded
<1>5. role[n] # "Leader" => L[t] = <<>> /\ t # 0
  <2> SUFFICES ASSUME role[n] # "Leader" PROVE L[t] = <<>> /\ t # 0
    OBVIOUS
  <2>1. role[n] = "Candidate" /\ Elected(msgs, n, t)
    BY Zenon DEF Acts
  <2>2. t # 0
    BY <2>1, Zenon DEF HistoryInv, LeadersRecorded
  <2>3. ASSUME L[t] # <<>> PROVE FALSE
    <3>1. /\ Elected(msgs, W[t], t)
          /\ term[W[t]] = t => role[W[t]] # "Candidate"
      BY <1>1, <2>3, Zenon DEF HistoryInv, LeadersRecorded
    <3>2. W[t] \in Node
      BY <1>1, Zenon
    <3>3. VotesOnce
      BY Zenon DEF ElectionInv
    <3>4. W[t] = n
      BY <1>1, <2>1, <3>1, <3>2, <3>3, ElectedOnce, Zenon
    <3>5. QED
      BY <2>1, <3>1, <3>4, Zenon
  <2>4. QED
    BY <2>2, <2>3, Zenon
<1>6. t # 0
  BY <1>1, <1>4, <1>5, Zenon
<1> HIDE DEF t
<1>7. /\ M \in [Nat -> Seq(Entry)] /\ V \in [Nat -> Node] /\ M[t] = log'[n] /\ V[t] = n
      /\ \A u \in Nat \ {t} : M[u] = L[u] /\ V[u] = W[u]
  BY <1>1, <1>2, Zenon
<1>8. \A u \in Nat : L[u] # <<>> => V[u] = W[u]
  <2>1. L[t] # <<>> => V[t] = W[t]
    BY <1>4, <1>5, <1>7, Zenon
  <2>2. QED
    BY <1>7, <2>1, Zenon
<1>9. Extends(L, M)
  <2>1. ASSUME NEW u \in Nat PROVE AgreeUpTo(Len(L[u]), L[u], M[u])
    <3>1. L[u] \in Seq(Entry) /\ Len(L[u]) \in Nat
      BY <1>1
    <3>2. CASE u # t
      <4>1. M[u] = L[u]
        BY <1>7, <3>2, Zenon
      <4>2. QED
        BY <3>1, <4>1 DEF AgreeUpTo
    <3>3. CASE u = t /\ role[n] = "Leader"
      BY <1>3, <1>4, <1>7, <3>3, Zenon
    <3>4. CASE u = t /\ role[n] # "Leader"
      <4>1. Len(L[u]) = 0 /\ Len(M[u]) \in Nat
        BY <1>1, <1>5, <1>7, <3>4, EmptyLog, Zenon
      <4>2. QED
        BY <4>1 DEF AgreeUpTo
    <3>5. QED
      BY <3>2, <3>3, <3>4, Zenon
  <2>2. QED
    BY <2>1, Zenon DEF Extends
<1>10. QED
  BY <1>1, <1>3, <1>4, <1>5, <1>6, <1>7, <1>8, <1>9, Zenon DEF t

\* A request that passes the consistency check agrees with the log up to its
\* previous entry, and what is made of the log came from Leaders.
LEMMA FollowerTakes ==
    ASSUME NEW L, NEW W, NEW n \in Node, NEW m \in msgs, TypeInv, HistoryInv(L, W),
           Follows(n, m), Consistent(n, m),
           \/ log'[n] = AppendNew(log[n], m.prevLogIndex, m.entries)
           \/ log'[n] \in PartialLogs(log[n], m.prevLogIndex, m.entries)
    PROVE  LET x == L[m.term]
               l == log[n]
               y == log'[n]
           IN  /\ m.term \in Nat /\ x \in Seq(Entry) /\ l \in Seq(Entry) /\ y \in Seq(Entry)
               /\ SamePast(l, x)
               /\ RequestRecorded(m, L, W) /\ n # W[m.term]
               /\ AgreeUpTo(m.prevLogIndex, l, x)
               /\ y = l \/ AgreeUpTo(Len(y), y, x)
               /\ \A k \in Nat : AgreeUpTo(k, l, x) => AgreeUpTo(k, y, x)
               /\ y = AppendNew(l, m.prevLogIndex, m.entries) =>
                      AgreeUpTo(m.prevLogIndex + Len(m.entries), y, x)
<1> DEFINE x == L[m.term]
           l == log[n]
           y == log'[n]
           prev == m.prevLogIndex
           entries == m.entries
<1>1. /\ m \in AppendRequests /\ m.to = n
      /\ m.term \in Nat /\ prev \in Nat /\ entries \in Seq(Entry) /\ m.type = "AppendEntries"
  BY Zenon DEF Follows, AppendRequests
<1>2. L \in [Nat -> Seq(Entry)] /\ FromLeaders(x, L) /\ FromLeaders(l, L) /\ l \in Seq(Entry)
  BY <1>1, Zenon DEF HistoryInv, History, LogsRecorded, TypeInv, TypeOK
<1>3. RequestRecorded(m, L, W) /\ m.to # m.from
  BY <1>1, Zenon DEF HistoryInv, RequestsRecorded, Addressed
<1>4. n # W[m.term] /\ PartOf(entries, prev, x) /\ m.prevLogTerm = TermAt(x, prev)
  BY <1>1, <1>3, Zenon DEF RequestRecorded
<1>5. x \in Seq(Entry)
  BY <1>1, <1>2, Zenon
<1>6. SamePast(l, x)
  <2> HIDE DEF l, x
  <2>1. QED
    BY <1>2, <1>5, LeadersGivePasts, Zenon
<1>7. Matches(l, prev, TermAt(x, prev))
  BY <1>4, Zenon DEF Consistent
<1>8. y = AppendNew(l, prev, entries) \/ y \in PartialLogs(l, prev, entries)
  OBVIOUS
<1> HIDE DEF x, l, y, prev, entries
<1>9. Len(l) \in Nat /\ Len(x) \in Nat /\ Len(entries) \in Nat
  BY <1>1, <1>2, <1>5, LogEntry, Zenon
<1>10. AgreeUpTo(prev, l, x)
  <2>1. CASE prev = 0
    BY <1>9, <2>1 DEF AgreeUpTo
  <2>2. CASE prev # 0
    <3>1. prev <= Len(l) /\ TermAt(l, prev) = TermAt(x, prev)
      BY <1>7, <2>2, Zenon DEF Matches
    <3>2. prev \in 1..Len(l) /\ prev \in 1..Len(x) /\ prev <= Len(x)
      BY <1>1, <1>4, <1>9, <2>2, <3>1 DEF PartOf
    <3>3. l[prev].term = x[prev].term
      BY <3>1, <3>2, Zenon DEF TermAt
    <3>4. QED
      BY <1>6, <3>2, <3>3, Zenon DEF SamePast
  <2>3. QED
    BY <2>1, <2>2, Zenon
<1>11. /\ y \in Seq(Entry)
       /\ y = l \/ AgreeUpTo(Len(y), y, x)
       /\ \A k \in Nat : AgreeUpTo(k, l, x) => AgreeUpTo(k, y, x)
       /\ y = AppendNew(l, prev, entries) => AgreeUpTo(prev + Len(entries), y, x)
  BY <1>1, <1>2, <1>4, <1>5, <1>6, <1>8, <1>10, EntriesTaken, Zenon
<1>12. QED
  BY <1>1, <1>2, <1>3, <1>4, <1>5, <1>6, <1>10, <1>11, Zenon DEF x, l, y, prev, entries

\* The shapes of a Leader's step.
LEMMA LeaderActs ==
    ASSUME NEW n \in Node, TypeInv, Wins(n) \/ Sends(n) \/ \E m \in msgs : Learns(n, m)
    PROVE  Acts(n)
<1>1. CASE Wins(n)
  <2> DEFINE e == [term |-> term[n], cmd |-> NoOp]
  <2>1. term[n] \in Nat
    BY Zenon DEF TypeInv, TypeOK
  <2>2. e \in Entry /\ e.term = term[n] /\ log'[n] = Append(log[n], e)
    BY <1>1, <2>1, Zenon DEF Wins, Entry
  <2> HIDE DEF e
  <2>3. QED
    BY <1>1, <2>2, Zenon DEF Acts, Wins
<1>2. CASE Sends(n)
  BY <1>2, Zenon DEF Acts, Sends
<1>3. CASE \E m \in msgs : Learns(n, m)
  BY <1>3, Zenon DEF Acts, Learns
<1>4. QED
  BY <1>1, <1>2, <1>3, Zenon

-----------------------------------------------------------------------------
(* Logs that came from Leaders. *)

\* A request for log x starting at index k meets the end of what log l shares
\* with x, or l is a prefix of x.
NextSafe(k, l, x) == AgreeUpTo(Len(l), l, x) \/ ~AgreeUpTo(k, l, x)

\* Terms are positive and grow along a log.
LEMMA LogSorted ==
    ASSUME NEW L, NEW W, NEW l \in Seq(Entry), NEW i \in 1 .. Len(l), NEW j \in 1 .. Len(l),
           History(L, W), FromLeaders(l, L), i <= j
    PROVE  l[i].term <= l[j].term /\ l[i].term # 0
<1>1. /\ i \in Nat /\ j \in Nat /\ l[i].term \in Nat /\ l[j].term \in Nat /\ Len(l) \in Nat
      /\ L \in [Nat -> Seq(Entry)] /\ L[0] = <<>>
  BY LogEntry, Zenon DEF History
<1> DEFINE x == L[l[j].term]
<1>2. x \in Seq(Entry) /\ Len(x) \in Nat /\ TermsUpTo(x, l[j].term)
  BY <1>1, LogEntry, Zenon DEF History
<1>3. AgreeUpTo(j, l, x)
  BY Zenon DEF FromLeaders
<1>4. AgreeUpTo(i, l, L[l[i].term])
  BY Zenon DEF FromLeaders
<1> HIDE DEF x
<1>5. l[i] = x[i] /\ i \in 1 .. Len(x)
  BY <1>1, <1>2, <1>3 DEF AgreeUpTo
<1>6. l[i].term # 0
  <2>1. SUFFICES ASSUME l[i].term = 0 PROVE FALSE
    OBVIOUS
  <2>2. Len(<<>>) >= i
    BY <1>1, <1>4, <2>1, Zenon DEF AgreeUpTo
  <2>3. QED
    BY <1>1, <2>2, EmptyLog
<1>7. QED
  BY <1>2, <1>5, <1>6, Zenon DEF TermsUpTo

\* A log that holds an entry of term t holds a prefix of the log of the Leader
\* of term t.
LEMMA TermGivesPrefix ==
    ASSUME NEW L, NEW W, NEW l \in Seq(Entry), NEW t \in Nat, NEW i \in 1 .. Len(l),
           History(L, W), FromLeaders(l, L), TermsUpTo(l, t), l[i].term = t
    PROVE  AgreeUpTo(Len(l), l, L[t])
<1> DEFINE j == Len(l)
<1>1. j \in Nat /\ i \in Nat /\ j \in 1 .. Len(l) /\ i <= j
  BY LogEntry
<1>2. l[i].term <= l[j].term
  BY <1>1, LogSorted, Zenon
<1>3. l[j].term <= t
  BY <1>1, Zenon DEF TermsUpTo
<1>4. l[j].term = t
  BY <1>1, <1>2, <1>3, LogEntry
<1>5. QED
  BY <1>1, <1>4, Zenon DEF FromLeaders

\* A request asked for at a safe index and accepted leaves a prefix of the
\* Leader's log: every entry the peer holds is the Leader's.
LEMMA AcceptedIsPrefix ==
    ASSUME NEW L, NEW W, NEW l \in Seq(Entry), NEW y \in Seq(Entry), NEW t \in Nat \ {0},
           NEW prev \in Nat, NEW entries \in Seq(Entry),
           History(L, W), FromLeaders(l, L), TermsUpTo(l, t),
           AgreeUpTo(prev, l, L[t]),
           y = l \/ AgreeUpTo(Len(y), y, L[t]),
           AgreeUpTo(prev + Len(entries), y, L[t]),
           entries = <<>> => TermAt(L[t], prev) = t,
           TermAt(L[t], prev) = t \/ NextSafe(prev + 1, l, L[t])
    PROVE  AgreeUpTo(Len(y), y, L[t])
<1> DEFINE x == L[t]
<1>1. x \in Seq(Entry) /\ Len(x) \in Nat /\ Len(l) \in Nat /\ Len(entries) \in Nat
  BY LogEntry, Zenon DEF History
<1>2. SUFFICES ASSUME y = l PROVE AgreeUpTo(Len(l), l, x)
  OBVIOUS
<1>3. AgreeUpTo(prev, l, x) /\ AgreeUpTo(prev + Len(entries), l, x)
      /\ (TermAt(x, prev) = t \/ NextSafe(prev + 1, l, x))
  BY <1>2, Zenon
<1> HIDE DEF x
<1>4. CASE TermAt(x, prev) = t
  <2>1. prev \in 1 .. Len(x) /\ x[prev].term = t
    BY <1>4, Zenon DEF TermAt
  <2>2. prev \in 1 .. Len(l) /\ l[prev] = x[prev]
    BY <1>1, <1>3, <2>1 DEF AgreeUpTo
  <2>3. QED
    BY <2>1, <2>2, TermGivesPrefix, Zenon DEF x
<1>5. CASE TermAt(x, prev) # t
  <2>1. Len(entries) >= 1
    BY <1>1, <1>5, EmptyLog DEF x
  <2>2. AgreeUpTo(prev + 1, l, x)
    BY <1>1, <1>3, <2>1, AgreeLess
  <2>3. QED
    BY <1>3, <1>5, <2>2, Zenon DEF NextSafe
<1>6. QED
  BY <1>4, <1>5, Zenon

\* What nextIndexFromConflict returns for a hint inside the log.
LEMMA NextIndexValue ==
    ASSUME NEW x \in Seq(Entry), NEW ct \in Nat, NEW ci \in 1 .. Len(x),
           NEW ofTerm \in SUBSET (1 .. Len(x)), \A i \in 1 .. Len(x) : i \in ofTerm <=> x[i].term = ct
    PROVE  /\ NextIndexFromConflict(x, ct, ci) =
                  IF ct # 0 /\ ofTerm # {} THEN Max(ofTerm) + 1 ELSE ci
           /\ ofTerm # {} => Max(ofTerm) \in ofTerm /\ \A j \in ofTerm : j <= Max(ofTerm)
           /\ NextIndexFromConflict(x, ct, ci) \in 1 .. Len(x) + 1
<1> DEFINE next == IF ct # 0 /\ ofTerm # {} THEN Max(ofTerm) + 1 ELSE Max({ci, 1})
           wish == IF ct # 0 /\ ofTerm # {} THEN Max(ofTerm) + 1 ELSE ci
<1>1. Len(x) \in Nat /\ ci \in Nat \ {0} /\ ci <= Len(x)
  BY LogEntry
<1>2. NextIndexFromConflict(x, ct, ci) = Min({next, Len(x) + 1})
  BY Zenon DEF NextIndexFromConflict
<1>3. ofTerm # {} => Max(ofTerm) \in ofTerm /\ \A j \in ofTerm : j <= Max(ofTerm)
  <2>1. ofTerm \in SUBSET Nat /\ \A j \in ofTerm : j <= Len(x)
    BY <1>1
  <2>2. QED
    BY <1>1, <2>1, MaxOfBounded, Zenon
<1>4. Max({ci, 1}) = ci
  BY <1>1, MaxOfTwo
<1>5. next = wish
  BY <1>4, Zenon
<1>6. wish \in 1 .. Len(x) + 1
  <2>1. ofTerm # {} => Max(ofTerm) \in 1 .. Len(x)
    BY <1>3, Zenon
  <2>2. QED
    BY <1>1, <2>1
<1> HIDE DEF next, wish
<1>7. Min({next, Len(x) + 1}) = wish
  BY <1>1, <1>5, <1>6, MinOfTwo
<1>8. QED
  BY <1>2, <1>3, <1>6, <1>7, Zenon DEF wish

LEMMA NextIndexRange ==
    ASSUME NEW x \in Seq(Entry), NEW ct \in Nat, NEW ci \in 1 .. Len(x)
    PROVE  NextIndexFromConflict(x, ct, ci) \in 1 .. Len(x) + 1
<1> DEFINE S == {i \in 1 .. Len(x) : x[i].term = ct}
<1>1. S \in SUBSET (1 .. Len(x)) /\ \A i \in 1 .. Len(x) : i \in S <=> x[i].term = ct
  OBVIOUS
<1> HIDE DEF S
<1>2. QED
  BY <1>1, NextIndexValue, Zenon

\* It stays the same while the Leader appends entries of its own term.
LEMMA NextIndexStays ==
    ASSUME NEW x \in Seq(Entry), NEW z \in Seq(Entry), NEW t \in Nat, NEW ct \in Nat,
           NEW ci \in 1 .. Len(x), AgreeUpTo(Len(x), x, z), ct < t,
           \A i \in Len(x) + 1 .. Len(z) : z[i].term = t
    PROVE  NextIndexFromConflict(z, ct, ci) = NextIndexFromConflict(x, ct, ci)
<1>1. Len(x) \in Nat /\ Len(z) \in Nat /\ Len(x) <= Len(z) /\ ci \in 1 .. Len(z)
  BY LogEntry DEF AgreeUpTo
<1> DEFINE a == {i \in 1 .. Len(x) : x[i].term = ct}
           b == {i \in 1 .. Len(z) : z[i].term = ct}
<1>2. ASSUME NEW i \in 1 .. Len(z) PROVE i \in a <=> i \in b
  <2>1. CASE i <= Len(x)
    BY <1>1, <2>1 DEF AgreeUpTo
  <2>2. CASE i > Len(x)
    BY <1>1, <2>2
  <2>3. QED
    BY <1>1, <2>1, <2>2
<1>3. a = b
  <2>1. a \subseteq 1 .. Len(z) /\ b \subseteq 1 .. Len(z)
    BY <1>1
  <2> HIDE DEF a, b
  <2>2. QED
    BY <1>2, <2>1, Zenon
<1>4. /\ a \in SUBSET (1 .. Len(x)) /\ \A i \in 1 .. Len(x) : i \in a <=> x[i].term = ct
      /\ b \in SUBSET (1 .. Len(z)) /\ \A i \in 1 .. Len(z) : i \in b <=> z[i].term = ct
  OBVIOUS
<1> HIDE DEF a, b
<1>5. NextIndexFromConflict(x, ct, ci) = IF ct # 0 /\ a # {} THEN Max(a) + 1 ELSE ci
  BY <1>4, NextIndexValue, ZenonT(30)
<1>6. NextIndexFromConflict(z, ct, ci) = IF ct # 0 /\ b # {} THEN Max(b) + 1 ELSE ci
  BY <1>1, <1>4, NextIndexValue, ZenonT(30)
<1>7. QED
  BY <1>3, <1>5, <1>6

\* A safe index stays safe while the Leader appends.
LEMMA NextSafeStays ==
    ASSUME NEW L, NEW W, NEW l \in Seq(Entry), NEW z \in Seq(Entry), NEW t \in Nat, NEW k \in Nat,
           History(L, W), FromLeaders(l, L), AgreeUpTo(Len(L[t]), L[t], z),
           \A i \in Len(L[t]) + 1 .. Len(z) : z[i].term = t,
           NextSafe(k, l, L[t])
    PROVE  NextSafe(k, l, z)
<1> DEFINE x == L[t]
<1>1. x \in Seq(Entry) /\ Len(x) \in Nat /\ Len(z) \in Nat /\ Len(l) \in Nat
  BY LogEntry, Zenon DEF History
<1>2. CASE AgreeUpTo(Len(l), l, x)
  BY <1>1, <1>2, AgreementExtends, Zenon DEF NextSafe
<1>3. CASE ~AgreeUpTo(k, l, x)
  <2> SUFFICES ASSUME AgreeUpTo(k, l, z) PROVE FALSE
    BY Zenon DEF NextSafe
  <2>1. Len(x) <= Len(z) /\ k <= Len(z) /\ k <= Len(l)
    BY <1>1, Zenon DEF AgreeUpTo
  <2>2. CASE k <= Len(x)
    BY <1>1, <1>3, <2>2, AgreeLess, AgreeSym, AgreeTrans
  <2>3. CASE k > Len(x)
    <3> DEFINE i == Len(x) + 1
    <3>1. i \in Nat /\ i \in 1 .. k /\ i \in Len(x) + 1 .. Len(z) /\ i \in 1 .. Len(l)
      BY <1>1, <2>1, <2>3
    <3>2. l[i] = z[i] /\ z[i].term = t
      BY <3>1, Zenon DEF AgreeUpTo
    <3>3. AgreeUpTo(i, l, x)
      BY <3>1, <3>2, Zenon DEF FromLeaders
    <3>4. QED
      BY <1>1, <3>3 DEF AgreeUpTo
  <2>4. QED
    BY <1>1, <2>2, <2>3
<1>4. QED
  BY <1>2, <1>3, Zenon DEF NextSafe

\* What conflictHint returns for an index inside the log.
LEMMA HintValue ==
    ASSUME NEW l \in Seq(Entry), NEW i \in 1 .. Len(l)
    PROVE  /\ ConflictHint(l, i).term = l[i].term
           /\ ConflictHint(l, i).index \in 1 .. i
           /\ l[ConflictHint(l, i).index].term = l[i].term
<1> DEFINE run == {k \in 1 .. i : \A j \in k .. i : TermAt(l, j) = TermAt(l, i)}
<1>1. Len(l) \in Nat /\ i \in Nat /\ i >= 1 /\ i <= Len(l)
  BY LogEntry
<1>2. Min(run) \in run
  <2>1. run \in SUBSET Nat /\ run # {}
    BY <1>1
  <2> HIDE DEF run
  <2>2. QED
    BY <2>1, MinOfNaturals, Zenon
<1> DEFINE c == Min(run)
<1>3. c \in 1 .. i /\ TermAt(l, c) = TermAt(l, i)
  <2>1. c \in 1 .. i /\ \A j \in c .. i : TermAt(l, j) = TermAt(l, i)
    BY <1>2, Zenon
  <2> HIDE DEF c
  <2>2. QED
    BY <1>1, <2>1
<1> HIDE DEF c
<1>4. l[c].term = l[i].term /\ TermAt(l, i) = l[i].term
  BY <1>1, <1>3 DEF TermAt
<1>5. ConflictHint(l, i).term = TermAt(l, i) /\ ConflictHint(l, i).index = c
  BY Zenon DEF c, ConflictHint
<1>6. QED
  BY <1>3, <1>4, <1>5, Zenon

\* Where nextIndexFromConflict points after a hint of log l about an index at
\* which it departs from x: to an entry that is not in both.
LEMMA HintPointsBehind ==
    ASSUME NEW l \in Seq(Entry), NEW x \in Seq(Entry), NEW prev \in 1 .. Len(x),
           NEW ct \in Nat, NEW ci \in 1 .. Len(x),
           ~AgreeUpTo(prev, l, x),
           \A i, j \in 1 .. Len(l) : i <= j => l[i].term <= l[j].term,
           \/ ct = 0 /\ ci = Len(l) + 1
           \/ /\ ct # 0 /\ prev \in 1 .. Len(l) /\ ct = l[prev].term
              /\ ci \in 1 .. Len(l) /\ l[ci].term = ct
    PROVE  ~AgreeUpTo(NextIndexFromConflict(x, ct, ci), l, x)
<1> DEFINE ofTerm == {i \in 1 .. Len(x) : x[i].term = ct}
           k == NextIndexFromConflict(x, ct, ci)
<1>1. Len(x) \in Nat /\ Len(l) \in Nat /\ prev \in Nat
  BY LogEntry, Zenon
<1>2. ofTerm \in SUBSET (1 .. Len(x)) /\ \A i \in 1 .. Len(x) : i \in ofTerm <=> x[i].term = ct
  OBVIOUS
<1> HIDE DEF ofTerm
<1>3. /\ k = (IF ct # 0 /\ ofTerm # {} THEN Max(ofTerm) + 1 ELSE ci)
      /\ ofTerm # {} => Max(ofTerm) \in ofTerm /\ \A j \in ofTerm : j <= Max(ofTerm)
  BY <1>2, NextIndexValue, ZenonT(30)
<1> HIDE DEF k
<1> SUFFICES ASSUME AgreeUpTo(k, l, x) PROVE FALSE
  BY Zenon DEF k
<1>4. CASE ct = 0 /\ ci = Len(l) + 1
  BY <1>1, <1>3, <1>4 DEF AgreeUpTo
<1>5. CASE ct # 0 /\ ofTerm = {}
  BY <1>2, <1>3, <1>5 DEF AgreeUpTo
<1>6. CASE ct # 0 /\ ofTerm # {}
  <2> DEFINE j == Max(ofTerm)
  <2>1. k = j + 1 /\ j \in 1 .. Len(x) /\ x[j].term = ct /\ \A i \in ofTerm : i <= j
    BY <1>2, <1>3, <1>6, Zenon
  <2>2. prev \in 1 .. Len(l) /\ ct = l[prev].term
    BY <1>6, Zenon
  <2> HIDE DEF j
  <2>3. j \in Nat /\ j + 1 \in 1 .. Len(x) /\ j + 1 \in 1 .. Len(l) /\ l[j + 1] = x[j + 1]
    BY <1>1, <2>1 DEF AgreeUpTo
  <2>4. x[j + 1].term # ct
    BY <1>2, <2>1, <2>3
  <2>5. CASE j >= prev
    <3>1. prev \in 0 .. k /\ k \in Nat
      BY <1>1, <2>1, <2>3, <2>5
    <3>2. AgreeUpTo(prev, l, x)
      BY <1>1, <3>1, AgreeLess, Zenon
    <3>3. QED
      BY <3>2, Zenon
  <2>6. CASE j < prev
    <3>1. j \in 1 .. Len(l) /\ l[j] = x[j]
      BY <1>1, <2>1, <2>3 DEF AgreeUpTo
    <3>2. j <= j + 1 /\ j + 1 <= prev
      BY <1>1, <2>3, <2>6
    <3>3. l[j].term <= l[j + 1].term /\ l[j + 1].term <= l[prev].term
      BY <2>2, <2>3, <3>1, <3>2, Zenon
    <3>4. l[j + 1].term \in Nat /\ l[j + 1].term # ct /\ l[j].term = ct
      <4>1. l[j + 1].term \in Nat
        BY <2>3, LogEntry, Zenon
      <4>2. QED
        BY <2>1, <2>3, <2>4, <3>1, <4>1, Zenon
    <3>5. QED
      BY <2>2, <3>3, <3>4
  <2>7. QED
    BY <1>1, <2>3, <2>5, <2>6
<1>7. QED
  BY <1>4, <1>5, <1>6, Zenon

\* A Follower whose log has no match for the entry before a request hints at
\* an index from which the Leader may safely ask.
LEMMA HintIsSafe ==
    ASSUME NEW L, NEW W, NEW l \in Seq(Entry), NEW t \in Nat, NEW prev \in 1 .. Len(L[t]),
           NEW ct, NEW ci,
           History(L, W), FromLeaders(l, L), TermsUpTo(l, t), t # 0,
           ~Matches(l, prev, TermAt(L[t], prev)),
           ct = ConflictHint(l, prev).term, ci = ConflictHint(l, prev).index
    PROVE  /\ ct \in Nat /\ ct < t /\ ci \in 1 .. Len(L[t])
           /\ ~AgreeUpTo(NextIndexFromConflict(L[t], ct, ci), l, L[t])
<1> DEFINE x == L[t]
<1>1. x \in Seq(Entry) /\ Len(x) \in Nat /\ Len(l) \in Nat /\ prev \in 1 .. Len(x) /\ prev \in Nat
  BY LogEntry, Zenon DEF History
<1>2. ~Matches(l, prev, TermAt(x, prev))
  OBVIOUS
<1>3. ~AgreeUpTo(prev, l, x)
  <2> SUFFICES ASSUME AgreeUpTo(prev, l, x) PROVE FALSE
    OBVIOUS
  <2> HIDE DEF x
  <2>1. prev <= Len(l) /\ l[prev] = x[prev] /\ prev \in 1 .. Len(l)
    BY <1>1 DEF AgreeUpTo
  <2>2. TermAt(l, prev) = TermAt(x, prev)
    BY <1>1, <2>1, Zenon DEF TermAt
  <2>3. QED
    BY <1>2, <2>1, <2>2, Zenon DEF Matches
<1>4. \A i, j \in 1 .. Len(l) : i <= j => l[i].term <= l[j].term
  BY LogSorted, Zenon
<1>5. CASE prev \notin 1 .. Len(l)
  <2>1. ct = 0 /\ ci = Len(l) + 1
    BY <1>5, Zenon DEF ConflictHint
  <2> HIDE DEF x
  <2>2. ct \in Nat /\ ci \in 1 .. Len(x)
    BY <1>1, <1>5, <2>1
  <2>3. ~AgreeUpTo(NextIndexFromConflict(x, ct, ci), l, x)
    BY <1>1, <1>3, <1>4, <2>1, <2>2, HintPointsBehind, Zenon
  <2>4. QED
    BY <2>1, <2>2, <2>3 DEF x
<1>6. CASE prev \in 1 .. Len(l)
  <2>1. ct = l[prev].term /\ ci \in 1 .. prev /\ l[ci].term = ct
    BY <1>6, HintValue, Zenon
  <2>2. ct # t
    BY <1>3, <1>6, <2>1, Zenon DEF FromLeaders
  <2>3. ct # 0
    BY <1>1, <1>6, <2>1, LogSorted
  <2> HIDE DEF x
  <2>4. ci \in 1 .. Len(x) /\ ci \in 1 .. Len(l) /\ ct \in Nat /\ ct <= t
    BY <1>1, <1>6, <2>1, LogEntry DEF TermsUpTo
  <2>5. ~AgreeUpTo(NextIndexFromConflict(x, ct, ci), l, x)
    BY <1>1, <1>3, <1>4, <1>6, <2>1, <2>3, <2>4, HintPointsBehind, Zenon
  <2>6. QED
    BY <2>2, <2>4, <2>5 DEF x
<1>7. QED
  BY <1>5, <1>6, Zenon

=============================================================================
