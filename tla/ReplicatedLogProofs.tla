-------------------------- MODULE ReplicatedLogProofs --------------------------
(***************************************************************************)
(* What every implementation of ReplicatedLog promises its state machines. *)
(***************************************************************************)
EXTENDS ReplicatedLog, TLAPS

\* What a Node has applied is in its log, and is the committed sequence as far
\* as it goes.
AppliedIsCommitted(n) ==
    /\ applied[n] <= Len(log[n])
    /\ applied[n] <= Len(committed)
    /\ \A i \in 1 .. applied[n] : log[n][i] = committed[i]

Inv ==
    /\ committed \in Seq(Entry)
    /\ log \in [Node -> Seq(Entry)]
    /\ applied \in [Node -> Nat]
    /\ \A n \in Node : AppliedIsCommitted(n)

\* A prefix, index by index.
LEMMA PrefixByIndex ==
    ASSUME NEW S, NEW s \in Seq(S), NEW t \in Seq(S)
    PROVE  IsPrefix(s, t) <=> Len(s) <= Len(t) /\ \A i \in 1 .. Len(s) : s[i] = t[i]
<1>1. CASE Len(s) <= Len(t)
  <2>1. s = [i \in 1 .. Len(s) |-> s[i]]
    OBVIOUS
  <2>2. SubSeq(t, 1, Len(s)) = [i \in 1 .. Len(s) |-> t[i]]
    BY <1>1
  <2>3. (s = SubSeq(t, 1, Len(s))) <=> \A i \in 1 .. Len(s) : s[i] = t[i]
    BY <2>1, <2>2
  <2> QED
    BY <1>1, <2>3 DEF IsPrefix
<1>2. CASE ~(Len(s) <= Len(t))
  BY <1>2 DEF IsPrefix
<1> QED
  BY <1>1, <1>2

\* The first k elements of a sequence.
LEMMA FirstOf ==
    ASSUME NEW S, NEW s \in Seq(S), NEW k \in 0 .. Len(s)
    PROVE  /\ SubSeq(s, 1, k) \in Seq(S)
           /\ Len(SubSeq(s, 1, k)) = k
           /\ \A i \in 1 .. k : SubSeq(s, 1, k)[i] = s[i]
OBVIOUS

\* A Node that has applied the first k entries of its log l has applied a
\* prefix of c exactly when those entries are c's.
LEMMA AppliedPrefix ==
    ASSUME NEW l \in Seq(Entry), NEW c \in Seq(Entry), NEW k \in 0 .. Len(l)
    PROVE  IsPrefix(SubSeq(l, 1, k), c) <=> k <= Len(c) /\ \A i \in 1 .. k : l[i] = c[i]
<1> DEFINE f == SubSeq(l, 1, k)
<1>1. f \in Seq(Entry) /\ Len(f) = k /\ \A i \in 1 .. k : f[i] = l[i]
  BY FirstOf
<1> HIDE DEF f
<1>2. IsPrefix(f, c) <=> Len(f) <= Len(c) /\ \A i \in 1 .. Len(f) : f[i] = c[i]
  <2>1. f \in Seq(Entry)
    BY <1>1
  <2> QED
    BY <2>1, PrefixByIndex
<1>3. IsPrefix(f, c) <=> k <= Len(c) /\ \A i \in 1 .. k : l[i] = c[i]
  BY <1>1, <1>2
<1> QED
  BY <1>3 DEF f

\* The initial history satisfies the invariant.
LEMMA InitHasInv == Init => Inv
<1> SUFFICES ASSUME Init PROVE Inv
  OBVIOUS
<1>1. ASSUME NEW n \in Node PROVE AppliedIsCommitted(n)
  <2>1. applied[n] \in 0 .. Len(log[n]) /\ IsPrefix(SubSeq(log[n], 1, applied[n]), committed)
    BY DEF Init, AppliedBy
  <2> QED
    BY <2>1, AppliedPrefix DEF Init, AppliedIsCommitted
<1> QED
  BY <1>1 DEF Init, Inv

\* An entry at the end of a log touches nothing that was applied.
LEMMA ExtendKeepsInv ==
    ASSUME Inv, NEW n \in Node, Extend(n)
    PROVE  Inv' /\ NothingUndone
<1> DEFINE e == Last(log'[n])
<1>1. e \in Entry /\ log' = [log EXCEPT ![n] = Append(log[n], e)]
  BY DEF Extend
<1> HIDE DEF e
<1>2. Append(log[n], e) \in Seq(Entry)
  BY <1>1 DEF Inv
<1>3. log' \in [Node -> Seq(Entry)]
  BY <1>1, <1>2 DEF Inv
<1>4. ASSUME NEW p \in Node
      PROVE  /\ Len(log[p]) <= Len(log'[p])
             /\ \A i \in 1 .. Len(log[p]) : log'[p][i] = log[p][i]
  BY <1>1 DEF Inv
<1>5. UNCHANGED <<committed, applied>>
  BY DEF Extend
<1>6. ASSUME NEW p \in Node
      PROVE  AppliedIsCommitted(p)' /\ \A i \in 1 .. applied[p] : log'[p][i] = log[p][i]
  <2>1. /\ applied[p] \in Nat /\ applied[p] <= Len(log[p]) /\ applied[p] <= Len(committed)
        /\ \A i \in 1 .. applied[p] : log[p][i] = committed[i]
    BY DEF Inv, AppliedIsCommitted
  <2>2. log[p] \in Seq(Entry) /\ log'[p] \in Seq(Entry)
    BY <1>3 DEF Inv
  <2>3. \A i \in 1 .. applied[p] : log'[p][i] = log[p][i]
    BY <1>4, <2>1, <2>2
  <2>4. applied[p] <= Len(log'[p])
    BY <1>4, <2>1, <2>2
  <2> QED
    BY <1>5, <2>1, <2>3, <2>4 DEF AppliedIsCommitted
<1>7. IsPrefix(committed, committed')
  BY <1>5, PrefixByIndex DEF Inv
<1> QED
  BY <1>3, <1>5, <1>6, <1>7 DEF Inv, NothingUndone

\* A Leader that commits extends the committed sequence, or stays within it.
LEMMA CommitKeepsInv ==
    ASSUME Inv, NEW n \in Node, Commit(n)
    PROVE  Inv' /\ NothingUndone
<1> DEFINE k == applied'[n]
           prefix == SubSeq(log[n], 1, k)
<1>1. /\ k \in 0 .. Len(log[n]) /\ applied[n] <= k
      /\ log[n] \in Seq(Entry) /\ committed \in Seq(Entry)
  BY DEF Commit, Inv
<1>2. /\ UNCHANGED log
      /\ applied' = [applied EXCEPT ![n] = k]
      /\ \/ IsPrefix(prefix, committed) /\ UNCHANGED committed
         \/ IsPrefix(committed, prefix) /\ committed' = prefix
  BY DEF Commit
<1> HIDE DEF k
<1>3. prefix \in Seq(Entry) /\ Len(prefix) = k /\ \A i \in 1 .. k : prefix[i] = log[n][i]
  BY <1>1, FirstOf
<1> HIDE DEF prefix
<1>4. /\ committed' \in Seq(Entry) /\ Len(committed) <= Len(committed')
      /\ \A i \in 1 .. Len(committed) : committed[i] = committed'[i]
      /\ k <= Len(committed') /\ \A i \in 1 .. k : log[n][i] = committed'[i]
  <2>1. CASE IsPrefix(prefix, committed) /\ UNCHANGED committed
    <3>1. Len(prefix) <= Len(committed) /\ \A i \in 1 .. Len(prefix) : prefix[i] = committed[i]
      BY <1>1, <1>3, <2>1, PrefixByIndex
    <3> QED
      BY <1>1, <1>3, <2>1, <3>1
  <2>2. CASE IsPrefix(committed, prefix) /\ committed' = prefix
    <3>1. Len(committed) <= Len(prefix) /\ \A i \in 1 .. Len(committed) : committed[i] = prefix[i]
      BY <1>1, <1>3, <2>2, PrefixByIndex
    <3> QED
      BY <1>1, <1>3, <2>2, <3>1
  <2> QED
    BY <1>2, <2>1, <2>2
<1>5. ASSUME NEW p \in Node
      PROVE  AppliedIsCommitted(p)' /\ applied[p] <= applied'[p]
  <2>1. CASE p = n
    BY <1>1, <1>2, <1>4, <2>1 DEF Inv, AppliedIsCommitted
  <2>2. CASE p # n
    BY <1>1, <1>2, <1>4, <2>2 DEF Inv, AppliedIsCommitted
  <2> QED
    BY <2>1, <2>2
<1>6. IsPrefix(committed, committed')
  BY <1>1, <1>4, PrefixByIndex
<1>7. applied' \in [Node -> Nat]
  BY <1>1, <1>2 DEF Inv
<1> QED
  BY <1>2, <1>4, <1>5, <1>6, <1>7 DEF Inv, NothingUndone

\* A Follower replaces only what it has not applied, and applies only what is
\* committed.
LEMMA FollowKeepsInv ==
    ASSUME Inv, NEW n \in Node, Follow(n)
    PROVE  Inv' /\ NothingUndone
<1> DEFINE l == log'[n]
           k == applied'[n]
<1>1. /\ l \in Seq(Entry) /\ log' = [log EXCEPT ![n] = l]
      /\ k \in 0 .. Len(l) /\ applied[n] <= k /\ applied' = [applied EXCEPT ![n] = k]
      /\ UNCHANGED committed
  BY DEF Follow, Inv
<1>2. IsPrefix(SubSeq(log[n], 1, applied[n]), l) /\ IsPrefix(SubSeq(l, 1, k), committed)
  BY DEF Follow, AppliedBy
<1> HIDE DEF l, k
<1>3. applied[n] \in 0 .. Len(log[n]) /\ log[n] \in Seq(Entry) /\ committed \in Seq(Entry)
  BY DEF Inv, AppliedIsCommitted
<1>4. \A i \in 1 .. applied[n] : log[n][i] = l[i]
  BY <1>1, <1>2, <1>3, AppliedPrefix
<1>5. k <= Len(committed) /\ \A i \in 1 .. k : l[i] = committed[i]
  BY <1>1, <1>2, <1>3, AppliedPrefix
<1>6. ASSUME NEW p \in Node
      PROVE  /\ AppliedIsCommitted(p)' /\ applied[p] <= applied'[p]
             /\ \A i \in 1 .. applied[p] : log'[p][i] = log[p][i]
  <2>1. CASE p = n
    BY <1>1, <1>3, <1>4, <1>5, <2>1 DEF Inv, AppliedIsCommitted
  <2>2. CASE p # n
    BY <1>1, <2>2 DEF Inv, AppliedIsCommitted
  <2> QED
    BY <2>1, <2>2
<1>7. IsPrefix(committed, committed')
  BY <1>1, <1>3, PrefixByIndex
<1>8. log' \in [Node -> Seq(Entry)] /\ applied' \in [Node -> Nat]
  BY <1>1 DEF Inv
<1> QED
  BY <1>1, <1>3, <1>6, <1>7, <1>8 DEF Inv, NothingUndone

\* Every step keeps the invariant and undoes nothing.
LEMMA NextKeepsInv == Inv /\ [Next]_vars => Inv' /\ [NothingUndone]_vars
<1> SUFFICES ASSUME Inv, [Next]_vars PROVE Inv' /\ [NothingUndone]_vars
  OBVIOUS
<1>1. CASE Next
  <2>1. PICK n \in Node : Lead(n) \/ Propose(n) \/ Commit(n) \/ Follow(n)
    BY <1>1 DEF Next
  <2>2. Extend(n) \/ Commit(n) \/ Follow(n)
    BY <2>1 DEF Lead, Propose
  <2> QED
    BY <2>2, ExtendKeepsInv, CommitKeepsInv, FollowKeepsInv
<1>2. CASE UNCHANGED vars
  BY <1>2 DEF vars, Inv, AppliedIsCommitted
<1> QED
  BY <1>1, <1>2

-----------------------------------------------------------------------------
\* State machine safety: no two Nodes of any Cluster ever apply different
\* entries at one index, so replicas that start equal and apply in order stay
\* replicas (session.go applies the entries the core delivers, one by one).
THEOREM ReplicasAgree == Spec => []AppliedAgree
<1>1. Inv => AppliedAgree
  BY DEF Inv, AppliedIsCommitted, AppliedAgree
<1> QED
  BY <1>1, InitHasInv, NextKeepsInv, PTL DEF Spec

\* Committed entries stay committed and applied entries stay applied, through
\* changes of leadership, replaced log suffixes and restarts.
THEOREM NothingIsUndone == Spec => [][NothingUndone]_vars
BY InitHasInv, NextKeepsInv, PTL DEF Spec
================================================================================
