----------------------------- MODULE Lifecycle -----------------------------
(***************************************************************************)
(* Node.Run and the goroutines it starts: the servers, the owner loop      *)
(* runRaft with its bounded queue and synchronous Sends, the Snapshot in    *)
(* the background, the handlers of Client calls and CreateSnapshot, which  *)
(* the embedding program calls whenever it likes.                          *)
(*                                                                         *)
(* A is the Node that starts and stops; B is a peer that stays up.  What a *)
(* step of the core decides is left open.                                  *)
(***************************************************************************)
EXTENDS Integers, Sequences, FiniteSets

CONSTANTS
    A, B,
    MaxInputs,    \* capacity of inputs
    ErrorSlots,   \* capacity of serveErrors
    Loads         \* bounds: see load

Node == {A, B}
Peer(n) == IF n = A THEN B ELSE A

\* proposal stands for Set, Delete, Get and the session calls, which come through
\* the client server; snapshot for CreateSnapshot, a method of Node.
Caller == {"proposal", "snapshot"}
Server == {"peer", "client", "metrics"}

ASSUME LifecycleAssumption ==
    /\ A # B
    /\ MaxInputs \in Nat \ {0}
    /\ ErrorSlots \in Nat \ {0}
    /\ Loads \subseteq [messages : Nat, snapshots : Nat, failures : Nat, callers : SUBSET Caller]

VARIABLES
    phase,        \* how far Run is
    running,      \* goroutines Run waits for
    failing,      \* servers that ended with an error and did not report it yet
    serveErrors,  \* errors that nobody received yet
    wal,
    owner,        \* the owner loops: where, Sends left of this round, failed
    inputs,
    sent,         \* messages each owner sent
    caller,       \* the calls at A
    pending,      \* the coordinator keeps the proposal's waiter
    snapshot,     \* the Snapshot in the background: where, automatic, failed
    waits,        \* snapshotWaiters is not empty
    started, failures,
    load          \* bounds: messages each owner sends, Snapshots the owner starts by
                  \* itself, failures of a server, a file or the WAL, calls

vars == <<phase, running, failing, serveErrors, wal, owner, inputs, sent, caller, pending,
          snapshot, waits, started, failures, load>>

Main    == <<phase, running, failing, serveErrors, wal>>
Clients == <<caller, pending>>
Saving  == <<snapshot, waits, started>>

NoSnapshot == [at |-> "None", automatic |-> FALSE, failed |-> FALSE]

\* runtimeDone is closed.
RuntimeDone == owner[A].at = "Returned"

\* The context of runRaft is done.
Cancelled == phase \notin {"New", "Running"}

-----------------------------------------------------------------------------
(* Run *)

\* The WAL is recovered and the listeners open; Run ends when one does not.
Run ==
    /\ phase = "New"
    /\ \/ /\ phase' = "Running"
          /\ running' = Server \cup {"raft"}
          /\ wal' = "Open"
          /\ owner' = [owner EXCEPT ![A].at = "Select"]
          /\ UNCHANGED failures
       \/ /\ failures < load.failures
          /\ failures' = failures + 1
          /\ phase' = "Closed"
          /\ UNCHANGED <<running, wal, owner>>
    /\ UNCHANGED <<failing, serveErrors, inputs, sent, Clients, Saving>>

\* A server ends by itself, and puts the error into serveErrors.
ServeFails(s) ==
    /\ s \in (running \cap Server) \ failing
    /\ phase \in {"Running", "Cancelled"}
    /\ failures < load.failures
    /\ failures' = failures + 1
    /\ failing' = failing \cup {s}
    /\ UNCHANGED <<phase, running, serveErrors, wal, owner, inputs, sent, Clients, Saving>>

Report(s) ==
    /\ s \in failing
    /\ serveErrors < ErrorSlots
    /\ serveErrors' = serveErrors + 1
    /\ failing' = failing \ {s}
    /\ running' = running \ {s}
    /\ UNCHANGED <<phase, wal, owner, inputs, sent, Clients, Saving, failures>>

\* The operator stops the Node.
Cancel ==
    /\ phase = "Running"
    /\ phase' = "Cancelled"
    /\ UNCHANGED <<running, failing, serveErrors, wal, owner, inputs, sent, Clients, Saving, failures>>

ReceiveError ==
    /\ phase = "Running"
    /\ serveErrors > 0
    /\ serveErrors' = serveErrors - 1
    /\ phase' = "Cancelled"
    /\ UNCHANGED <<running, failing, wal, owner, inputs, sent, Clients, Saving, failures>>

ShutDownMetrics ==
    /\ phase = "Cancelled"
    /\ phase' = "StoppingPeer"
    /\ running' = running \ ({"metrics"} \ failing)
    /\ UNCHANGED <<failing, serveErrors, wal, owner, inputs, sent, Clients, Saving, failures>>

\* GracefulStop of the peer server waits for its handlers, then that of the
\* client server does.
StopPeer ==
    /\ phase = "StoppingPeer"
    /\ owner[B].at # "Send"
    /\ phase' = "StoppingClient"
    /\ running' = running \ ({"peer"} \ failing)
    /\ UNCHANGED <<failing, serveErrors, wal, owner, inputs, sent, Clients, Saving, failures>>

StopClient ==
    /\ phase = "StoppingClient"
    /\ caller["proposal"] \notin {"Enqueue", "Await"}
    /\ phase' = "Waiting"
    /\ running' = running \ ({"client"} \ failing)
    /\ UNCHANGED <<failing, serveErrors, wal, owner, inputs, sent, Clients, Saving, failures>>

\* Stop, when the grace period is over: the handlers' contexts are done.
StopByForce ==
    /\ phase \in {"StoppingPeer", "StoppingClient"}
    /\ phase' = "Waiting"
    /\ running' = running \ (Server \ failing)
    /\ caller' = [caller EXCEPT !["proposal"] = IF @ \in {"Enqueue", "Await"} THEN "Failed" ELSE @]
    /\ owner' = [owner EXCEPT ![B].at = IF @ = "Send" THEN "Act" ELSE @]
    /\ UNCHANGED <<failing, serveErrors, wal, inputs, sent, pending, Saving, failures>>

\* servers.Wait, and the deferred calls.
Close ==
    /\ phase = "Waiting"
    /\ running = {}
    /\ phase' = "Closed"
    /\ wal' = "Closed"
    /\ UNCHANGED <<running, failing, serveErrors, owner, inputs, sent, Clients, Saving, failures>>

-----------------------------------------------------------------------------
(* runRaft *)

\* A step of the core leaves a message to send, or none.
Round(n) ==
    \E k \in 0 .. 1 :
        /\ k = 1 => sent[n] < load.messages
        /\ sent' = [sent EXCEPT ![n] = @ + k]
        /\ owner' = [owner EXCEPT ![n] = [@ EXCEPT !.at = "Act", !.sends = k]]

\* runRaft returns an error.
Abort == owner' = [owner EXCEPT ![A].at = "Unwind", ![A].failed = TRUE]

Timer(n) ==
    /\ owner[n].at = "Select"
    /\ sent[n] < load.messages
    /\ sent' = [sent EXCEPT ![n] = @ + 1]
    /\ owner' = [owner EXCEPT ![n] = [@ EXCEPT !.at = "Act", !.sends = 1]]
    /\ UNCHANGED <<Main, inputs, Clients, Saving, failures>>

Answer(c) == [caller EXCEPT ![c] = IF @ = "Await" THEN "Answered" ELSE @]

\* A message of the peer; it may commit the proposal or end the leadership.
\* pruneCanceled has dropped the waiter of a call that is over.
ReceiveRaft(n) ==
    /\ owner[n].at = "Select"
    /\ inputs[n] # <<>> /\ Head(inputs[n]) = "Raft"
    /\ inputs' = [inputs EXCEPT ![n] = Tail(@)]
    /\ Round(n)
    /\ \/ UNCHANGED Clients
       \/ /\ n = A /\ pending
          /\ pending' = FALSE
          /\ caller' = Answer("proposal")
    /\ UNCHANGED <<Main, Saving, failures>>

\* beginProposal and beginRead: answered at once, or kept until Raft is done.
ReceiveProposal ==
    /\ owner[A].at = "Select"
    /\ inputs[A] # <<>> /\ Head(inputs[A]) = "proposal"
    /\ inputs' = [inputs EXCEPT ![A] = Tail(@)]
    /\ \/ /\ caller' = Answer("proposal")
          /\ UNCHANGED <<owner, sent, pending>>
       \/ /\ pending' = (caller["proposal"] = "Await")
          /\ Round(A)
          /\ UNCHANGED caller
    /\ UNCHANGED <<Main, Saving, failures>>

\* Mutated: a request that comes while a Snapshot is running is dropped.
ReceiveSnapshotIfNone ==
    /\ owner[A].at = "Select"
    /\ inputs[A] # <<>> /\ Head(inputs[A]) = "snapshot"
    /\ inputs' = [inputs EXCEPT ![A] = Tail(@)]
    /\ waits' = (snapshot.at = "None")
    /\ snapshot' = IF snapshot.at = "None" THEN [NoSnapshot EXCEPT !.at = "Save"] ELSE snapshot
    /\ UNCHANGED <<Main, owner, sent, Clients, started, failures>>

\* startSnapshot: a request joins the Snapshot that is running.
ReceiveSnapshot ==
    /\ owner[A].at = "Select"
    /\ inputs[A] # <<>> /\ Head(inputs[A]) = "snapshot"
    /\ inputs' = [inputs EXCEPT ![A] = Tail(@)]
    /\ waits' = TRUE
    /\ snapshot' = IF snapshot.at = "None" THEN [NoSnapshot EXCEPT !.at = "Save"] ELSE snapshot
    /\ UNCHANGED <<Main, owner, sent, Clients, started, failures>>

\* The WAL or a file fails in a step.
StepFails ==
    /\ owner[A].at \in {"Select", "Act"}
    /\ failures < load.failures
    /\ failures' = failures + 1
    /\ Abort
    /\ UNCHANGED <<Main, inputs, sent, Clients, Saving>>

\* The peer server of A takes new RPCs.
Serves == "peer" \in running \ failing /\ phase \in {"Running", "Cancelled"}

\* transport.send begins; a Node that does not serve refuses it.
BeginSend(n) ==
    /\ owner[n].at = "Act"
    /\ owner[n].sends > 0
    /\ \E to \in {"Send", "Act"} :
           /\ (to = "Send") <=> (n = A \/ Serves)
           /\ owner' = [owner EXCEPT ![n] = [@ EXCEPT !.at = to, !.sends = owner[n].sends - 1]]
    /\ UNCHANGED <<Main, inputs, sent, Clients, Saving, failures>>

\* Mutated: the handler keeps the sender until the owner takes the message.
AcceptWhenTaken(n) ==
    /\ owner[n].at = "Send"
    /\ inputs[Peer(n)] = <<>>
    /\ owner[Peer(n)].at = "Select"
    /\ inputs' = [inputs EXCEPT ![Peer(n)] = Append(@, "Raft")]
    /\ owner' = [owner EXCEPT ![n].at = "Act"]
    /\ UNCHANGED <<Main, sent, Clients, Saving, failures>>

\* Send, at the peer: the message is in the queue.
Accept(n) ==
    /\ owner[n].at = "Send"
    /\ Len(inputs[Peer(n)]) < MaxInputs
    /\ inputs' = [inputs EXCEPT ![Peer(n)] = Append(@, "Raft")]
    /\ owner' = [owner EXCEPT ![n].at = "Act"]
    /\ UNCHANGED <<Main, sent, Clients, Saving, failures>>

\* The target is stopping, or the sender is.
Refuse(n) ==
    /\ owner[n].at = "Send"
    /\ IF n = A THEN Cancelled ELSE RuntimeDone
    /\ owner' = [owner EXCEPT ![n].at = "Act"]
    /\ UNCHANGED <<Main, inputs, sent, Clients, Saving, failures>>

\* peerRPCTimeout; the handler may accept the message all the same.
TimeOut(n) ==
    /\ owner[n].at = "Send"
    /\ owner' = [owner EXCEPT ![n].at = "Act"]
    /\ \/ UNCHANGED inputs
       \/ /\ Len(inputs[Peer(n)]) < MaxInputs
          /\ inputs' = [inputs EXCEPT ![Peer(n)] = Append(@, "Raft")]
    /\ UNCHANGED <<Main, sent, Clients, Saving, failures>>

\* The end of a round, with a Snapshot when the WAL has grown.
EndRound(n) ==
    /\ owner[n].at = "Act"
    /\ owner[n].sends = 0
    /\ owner' = [owner EXCEPT ![n].at = "Select"]
    /\ \/ UNCHANGED Saving
       \/ /\ n = A /\ snapshot.at = "None"
          /\ started < load.snapshots
          /\ started' = started + 1
          /\ snapshot' = [NoSnapshot EXCEPT !.at = "Save", !.automatic = TRUE]
          /\ UNCHANGED waits
    /\ UNCHANGED <<Main, inputs, sent, Clients, failures>>

\* The loop ends.
ContextDone ==
    /\ owner[A].at = "Select"
    /\ Cancelled
    /\ owner' = [owner EXCEPT ![A].at = "Unwind"]
    /\ UNCHANGED <<Main, inputs, sent, Clients, Saving, failures>>

\* Mutated: the waiters are kept for the next Snapshot.
FinishLater ==
    /\ snapshot' = NoSnapshot
    /\ UNCHANGED <<waits, caller>>

\* finishSnapshot.
FinishSnapshot ==
    /\ snapshot' = NoSnapshot
    /\ waits' = FALSE
    /\ caller' = IF waits THEN Answer("snapshot") ELSE caller

\* A completion at the owner; the failure of an automatic Snapshot ends the loop.
SnapshotDone ==
    /\ owner[A].at = "Select"
    /\ snapshot.at = "Done"
    /\ FinishSnapshot
    /\ IF snapshot.failed /\ snapshot.automatic THEN Abort ELSE UNCHANGED owner
    /\ UNCHANGED <<Main, inputs, sent, pending, started, failures>>

\* Mutated: nobody waits for the Snapshot.
ReturnAtOnce ==
    /\ owner[A].at = "Unwind"
    /\ owner[A].failed => serveErrors < ErrorSlots
    /\ serveErrors' = serveErrors + (IF owner[A].failed THEN 1 ELSE 0)
    /\ owner' = [owner EXCEPT ![A].at = "Returned"]
    /\ running' = running \ {"raft"}
    /\ UNCHANGED <<phase, failing, wal, inputs, sent, Clients, Saving, failures>>

\* The deferred wait for a Snapshot, the report of an error and the close of
\* runtimeDone.
Return ==
    /\ owner[A].at = "Unwind"
    /\ \/ snapshot.at = "Done" /\ FinishSnapshot
       \/ snapshot.at = "None" /\ UNCHANGED <<snapshot, waits, caller>>
    /\ owner[A].failed => serveErrors < ErrorSlots
    /\ serveErrors' = serveErrors + (IF owner[A].failed THEN 1 ELSE 0)
    /\ owner' = [owner EXCEPT ![A].at = "Returned"]
    /\ running' = running \ {"raft"}
    /\ UNCHANGED <<phase, failing, wal, inputs, sent, pending, started, failures>>

-----------------------------------------------------------------------------
(* installSnapshot, in the background *)

\* snapshot.Save and WAL.Compact.
Progress(next) ==
    \/ /\ snapshot' = [snapshot EXCEPT !.at = next]
       /\ UNCHANGED failures
    \/ /\ failures < load.failures
       /\ failures' = failures + 1
       /\ snapshot' = [snapshot EXCEPT !.at = "Done", !.failed = TRUE]

Save ==
    /\ snapshot.at = "Save"
    /\ Progress("Compact")
    /\ UNCHANGED <<Main, owner, inputs, sent, Clients, waits, started>>

Compact ==
    /\ snapshot.at = "Compact"
    /\ Progress("Done")
    /\ UNCHANGED <<Main, owner, inputs, sent, Clients, waits, started>>

-----------------------------------------------------------------------------
(* The calls: propose, Get and CreateSnapshot *)

\* The client server takes new calls until it is told to stop.  CreateSnapshot may
\* also be called before Run, after it, and while it returns early.
BeginCall(c) ==
    /\ c \in load.callers
    /\ caller[c] = "Idle"
    /\ c = "proposal" => /\ "client" \in running \ failing
                         /\ phase \in {"Running", "Cancelled", "StoppingPeer"}
    /\ caller' = [caller EXCEPT ![c] = "Enqueue"]
    /\ UNCHANGED <<Main, owner, inputs, sent, pending, Saving, failures>>

Enqueue(c) ==
    /\ caller[c] = "Enqueue"
    /\ Len(inputs[A]) < MaxInputs
    /\ inputs' = [inputs EXCEPT ![A] = Append(@, c)]
    /\ caller' = [caller EXCEPT ![c] = "Await"]
    /\ UNCHANGED <<Main, owner, sent, pending, Saving, failures>>

\* Mutated: a handler that waits for its result does not look at runtimeDone.
StoppedInQueue(c) ==
    /\ caller[c] = "Enqueue"
    /\ RuntimeDone
    /\ caller' = [caller EXCEPT ![c] = "Failed"]
    /\ UNCHANGED <<Main, owner, inputs, sent, pending, Saving, failures>>

\* runtimeDone, in either select.
Stopped(c) ==
    /\ caller[c] \in {"Enqueue", "Await"}
    /\ RuntimeDone
    /\ caller' = [caller EXCEPT ![c] = "Failed"]
    /\ UNCHANGED <<Main, owner, inputs, sent, pending, Saving, failures>>

\* The caller's context, in either select.
Abandon(c) ==
    /\ caller[c] \in {"Enqueue", "Await"}
    /\ caller' = [caller EXCEPT ![c] = "Failed"]
    /\ pending' = (pending /\ c # "proposal")
    /\ UNCHANGED <<Main, owner, inputs, sent, Saving, failures>>

-----------------------------------------------------------------------------
Init ==
    /\ phase = "New"
    /\ running = {} /\ failing = {} /\ serveErrors = 0
    /\ wal = "Closed"
    /\ owner = [n \in Node |-> [at |-> IF n = A THEN "New" ELSE "Select", sends |-> 0, failed |-> FALSE]]
    /\ inputs = [n \in Node |-> <<>>]
    /\ sent = [n \in Node |-> 0]
    /\ caller = [c \in Caller |-> "Idle"]
    /\ pending = FALSE
    /\ snapshot = NoSnapshot /\ waits = FALSE /\ started = 0
    /\ failures = 0
    /\ load \in Loads

\* What goes on by itself.
Proceed ==
    \/ Run \/ ReceiveError \/ ShutDownMetrics \/ StopPeer \/ StopClient \/ Close
    \/ \E s \in Server : Report(s)
    \/ ReceiveProposal \/ ReceiveSnapshot \/ ContextDone \/ SnapshotDone \/ Return
    \/ \E n \in Node : ReceiveRaft(n) \/ BeginSend(n) \/ Accept(n) \/ Refuse(n) \/ EndRound(n)
    \/ Save \/ Compact
    \/ \E c \in Caller : Enqueue(c) \/ Stopped(c)

Next ==
    /\ \/ Proceed
       \/ Cancel \/ StopByForce \/ StepFails
       \/ \E s \in Server : ServeFails(s)
       \/ \E n \in Node : Timer(n) \/ TimeOut(n)
       \/ \E c \in Caller : BeginCall(c) \/ Abandon(c)
    /\ UNCHANGED load

Spec == Init /\ [][Next]_vars

\* The goroutines run, and an RPC times out that finds the queue full.  Neither
\* the grace period nor a caller's deadline is relied on.
FairSpec ==
    /\ Spec
    /\ WF_vars(Proceed /\ UNCHANGED load)
    /\ \A n \in Node : WF_vars(Len(inputs[Peer(n)]) = MaxInputs /\ TimeOut(n) /\ UNCHANGED load)

-----------------------------------------------------------------------------
(* Properties *)

\* Every variable has its type, no queue holds more than its capacity, and
\* waiters are kept only for a Snapshot that is running.
TypeOK ==
    /\ phase \in {"New", "Running", "Cancelled", "StoppingPeer", "StoppingClient", "Waiting", "Closed"}
    /\ failing \subseteq running /\ running \subseteq Server \cup {"raft"}
    /\ serveErrors \in 0 .. ErrorSlots
    /\ \A n \in Node :
           /\ owner[n].at \in {"New", "Select", "Act", "Send", "Unwind", "Returned"}
           /\ inputs[n] \in Seq(Caller \cup {"Raft"}) /\ Len(inputs[n]) <= MaxInputs
    /\ caller \in [Caller -> {"Idle", "Enqueue", "Await", "Answered", "Failed"}]
    /\ pending \in BOOLEAN
    /\ snapshot.at \in {"None", "Save", "Compact", "Done"}
    /\ waits => snapshot.at # "None"

\* Run closes the WAL under neither the owner loop nor the Snapshot in the
\* background, whichever of cancellation and errors ends them (the deferred calls
\* of Run and runRaft).
WALOpenWhileUsed ==
    \/ wal = "Open"
    \/ owner[A].at \in {"New", "Returned"} /\ snapshot.at \in {"None", "Done"}

\* Cancelled or failed in any of its parts, the Node closes, and its handlers end
\* without the force that the grace period ends in (Run, stopServers, propose).
ShutdownCompletes == (phase = "Cancelled" \/ RuntimeDone \/ failing # {}) ~> phase = "Closed"

\* Nodes that send to each other at once do not wait for each other: an owner
\* comes back to its queue, by a timeout only when the queue of the other is full
\* (PeerService.Send).
OwnersReturn == \A n \in Node : []<>(owner[n].at \in {"New", "Select", "Returned"})

\* Once the owner loop has started, a call of CreateSnapshot ends without help of
\* its context: made before Run, while the Node runs or after it stopped, queued
\* when the loop returned, or joined to a Snapshot that was running (startSnapshot,
\* finishSnapshot, the close of runtimeDone).  Nothing ends it but its context when
\* Run returned before it started the loop.
InCreateSnapshot == caller["snapshot"] \in {"Enqueue", "Await"}
SnapshotCallEnds == InCreateSnapshot /\ owner[A].at # "New" ~> ~InCreateSnapshot
=============================================================================
