---------------------------- MODULE RaftRefinement ----------------------------
(***************************************************************************)
(* Raft implements ReplicatedLog.                                          *)
(***************************************************************************)
EXTENDS Raft

\* What the Cluster has committed: the longest prefix a Node has applied.
Committed == LET n == CHOOSE n \in Node : \A p \in Node : commitIndex[p] <= commitIndex[n]
             IN  SubSeq(log[n], 1, commitIndex[n])

Service == INSTANCE ReplicatedLog WITH
    committed <- Committed, applied <- commitIndex,
    leads <- [n \in Node |-> IF role[n] = "Leader" THEN term[n] ELSE 0]

\* The Cluster implements ReplicatedLog.  No two Nodes apply different entries
\* at an index, none rewrites or forgets what it applied, an elected Node has
\* everything earlier terms committed, and the step that deposes a Leader applies nothing
\* in the place of what it had proposed: the owner loop hands the result of an
\* applied index to whoever waits there (command_coordinator.go:176) before it
\* rejects the waiters of a lost leadership (runtime_loop.go:242).
ImplementsReplicatedLog == Service!Spec
===============================================================================
