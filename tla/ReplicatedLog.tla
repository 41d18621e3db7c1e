---------------------------- MODULE ReplicatedLog ----------------------------
(***************************************************************************)
(* What consensus promises the state machines above it.  Nodes that        *)
(* believe they lead extend their own log; one sequence of committed       *)
(* entries only grows; what a Node applies is a prefix of it, kept through *)
(* restarts.  Several Nodes may believe they lead, in different terms, and *)
(* a log may lose whatever its Node has not applied.                       *)
(***************************************************************************)
EXTENDS Integers, Sequences

CONSTANTS Node, Entry \* an entry has a term

VARIABLES
    committed, \* the committed entries of the Cluster
    log,       \* the log of each Node
    applied,   \* how much of it the Node has applied
    leads      \* the term a Node believes it leads, or 0

vars == <<committed, log, applied, leads>>

IsPrefix(s, t) == Len(s) <= Len(t) /\ s = SubSeq(t, 1, Len(s))
Last(s) == s[Len(s)]

AppliedBy(n) == SubSeq(log[n], 1, applied[n])
CommittedTerm == IF committed = <<>> THEN 0 ELSE Last(committed).term

\* Some history is committed when the observation starts.
Init ==
    /\ committed \in Seq(Entry)
    /\ log \in [Node -> Seq(Entry)]
    /\ applied \in [Node -> Nat]
    /\ leads \in [Node -> Nat]
    /\ \A n \in Node : applied[n] <= Len(log[n]) /\ IsPrefix(AppliedBy(n), committed)

\* The log of n grows by one entry, of the term n leads.
Extend(n) ==
    /\ Len(log'[n]) = Len(log[n]) + 1
    /\ log' = [log EXCEPT ![n] = Append(@, Last(log'[n]))]
    /\ Last(log'[n]) \in Entry
    /\ Last(log'[n]).term = leads'[n]
    /\ UNCHANGED <<committed, applied>>

\* Node n is elected in a term nobody else leads, with an entry no log holds.
\* Unless a later term committed something already, n has all that is
\* committed.
Lead(n) ==
    /\ leads[n] = 0
    /\ leads'[n] \notin {leads[p] : p \in Node}
    /\ leads' = [leads EXCEPT ![n] = leads'[n]]
    /\ leads'[n] > CommittedTerm => IsPrefix(committed, log[n])
    /\ Extend(n)
    /\ \A p \in Node : \A i \in 1 .. Len(log[p]) : log[p][i] # Last(log'[n])

\* A Leader takes a proposal.
Propose(n) ==
    /\ leads[n] # 0
    /\ UNCHANGED leads
    /\ Extend(n)

\* A Leader applies more of its log, up to an entry of its term.  All of that
\* is then committed, and the Leaders of later terms have it.
Commit(n) ==
    /\ leads[n] # 0
    /\ applied'[n] \in applied[n] + 1 .. Len(log[n])
    /\ log[n][applied'[n]].term = leads[n]
    /\ applied' = [applied EXCEPT ![n] = applied'[n]]
    /\ LET prefix == SubSeq(log[n], 1, applied'[n])
       IN  /\ \/ IsPrefix(prefix, committed) /\ UNCHANGED committed
              \/ IsPrefix(committed, prefix) /\ committed' = prefix
           /\ \A p \in Node : leads[p] > leads[n] => IsPrefix(prefix, log[p])
    /\ UNCHANGED <<log, leads>>

\* Node n does not lead any more, if it did.  Its log becomes that of another
\* Leader up to some point, but for what it has applied, and it applies more.
\* A Leader that is deposed applies only entries it holds already, so that
\* whoever waits for an index gets the result of the entry proposed there.
Follow(n) ==
    /\ leads' = [leads EXCEPT ![n] = 0]
    /\ log' = [log EXCEPT ![n] = log'[n]]
    /\ IsPrefix(AppliedBy(n), log'[n])
    /\ applied'[n] \in applied[n] .. Len(log'[n])
    /\ applied' = [applied EXCEPT ![n] = applied'[n]]
    /\ IsPrefix(AppliedBy(n)', committed)
    /\ leads[n] # 0 => \A i \in applied[n] + 1 .. applied'[n] :
                           i <= Len(log[n]) => log'[n][i] = log[n][i]
    /\ log'[n] \in Seq(Entry)
    /\ UNCHANGED committed

Next == \E n \in Node : Lead(n) \/ Propose(n) \/ Commit(n) \/ Follow(n)

Spec == Init /\ [][Next]_vars

-----------------------------------------------------------------------------
\* No two Nodes apply different entries at an index.
AppliedAgree ==
    \A n, p \in Node : \A i \in 1 .. applied[n] : i <= applied[p] => log[n][i] = log[p][i]

\* No step takes back what the Cluster committed or what a Node applied.
NothingUndone ==
    /\ IsPrefix(committed, committed')
    /\ \A n \in Node : /\ applied[n] <= applied'[n]
                       /\ \A i \in 1 .. applied[n] : log'[n][i] = log[n][i]
=============================================================================
