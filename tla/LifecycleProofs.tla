-------------------------- MODULE LifecycleProofs --------------------------
(***************************************************************************)
(* Run closes the WAL under nobody, whatever the bounds, the capacity of   *)
(* the queues and the number of failures.                                  *)
(***************************************************************************)
EXTENDS Lifecycle, TLAPS

OwnerState    == {"New", "Select", "Act", "Send", "Unwind", "Returned"}
CallerState   == {"Idle", "Enqueue", "Await", "Answered", "Failed"}
SnapshotState == {"None", "Save", "Compact", "Done"}
Phase == {"New", "Running", "Cancelled", "StoppingPeer", "StoppingClient", "Waiting", "Closed"}

MainType ==
    /\ phase \in Phase
    /\ running \subseteq Server \cup {"raft"}
    /\ failing \subseteq running \cap Server
    /\ serveErrors \in 0 .. ErrorSlots
    /\ wal \in {"Open", "Closed"}

OwnerType == owner \in [Node -> [at : OwnerState, sends : Nat, failed : BOOLEAN]]

InputType ==
    /\ inputs \in [Node -> Seq(Caller \cup {"Raft"})]
    /\ \A n \in Node : Len(inputs[n]) <= MaxInputs

CallerType == caller \in [Caller -> CallerState] /\ pending \in BOOLEAN

SnapshotType ==
    /\ snapshot \in [at : SnapshotState, automatic : BOOLEAN, failed : BOOLEAN]
    /\ waits => snapshot.at # "None"

\* What keeps the WAL open: Run waits for its goroutines before it closes the WAL,
\* the owner loop is one of them, and it waits for the Snapshot before it returns.
Chain ==
    /\ wal = "Open" <=> phase \notin {"New", "Closed"}
    /\ running # {} => phase \notin {"New", "Closed"}
    /\ owner[A].at \notin {"New", "Returned"} => "raft" \in running
    /\ snapshot.at \in {"Save", "Compact"} => owner[A].at \notin {"New", "Returned"}

Inv == MainType /\ OwnerType /\ InputType /\ CallerType /\ SnapshotType /\ Chain

-----------------------------------------------------------------------------
\* The initial state of Run has the invariant.
LEMMA InitHasInv == Init => Inv
<1> SUFFICES ASSUME Init PROVE Inv
  OBVIOUS
<1>1. MainType
  BY LifecycleAssumption DEF Init, MainType, Phase
<1>2. OwnerType
  BY DEF Init, OwnerType, OwnerState
<1>3. InputType
  BY LifecycleAssumption DEF Init, InputType
<1>4. CallerType
  BY Zenon DEF Init, CallerType, CallerState
<1>5. SnapshotType
  BY DEF Init, SnapshotType, SnapshotState, NoSnapshot
<1>6. Chain
  BY DEF Init, Chain, NoSnapshot, Node
<1> QED
  BY <1>1, <1>2, <1>3, <1>4, <1>5, <1>6 DEF Inv

\* The steps of Run and of the servers' goroutines.
LEMMA RunKeepsInv ==
    Inv /\ (Run \/ (\E s \in Server : ServeFails(s) \/ Report(s)) \/ Cancel \/ ReceiveError
            \/ ShutDownMetrics \/ StopPeer \/ StopClient \/ StopByForce \/ Close) => Inv'
<1> USE DEF Inv, MainType, Phase, Clients, Saving
<1>1. ASSUME Inv, Run PROVE Inv'
  <2>1. OwnerType'
    BY <1>1 DEF Run, OwnerType, OwnerState, Node
  <2>2. Chain'
    BY <1>1 DEF Run, Chain, OwnerType, Node
  <2>3. MainType' /\ UNCHANGED <<inputs, caller, pending, snapshot, waits>>
    BY <1>1, LifecycleAssumption DEF Run
  <2> QED
    BY <1>1, <2>1, <2>2, <2>3 DEF InputType, CallerType, SnapshotType
<1>2. ASSUME Inv, NEW s \in Server, ServeFails(s) PROVE Inv'
  BY <1>2 DEF ServeFails, Chain, OwnerType, InputType, CallerType, SnapshotType
<1>3. ASSUME Inv, NEW s \in Server, Report(s) PROVE Inv'
  BY <1>3, LifecycleAssumption DEF Report, Server, Chain, OwnerType, InputType, CallerType, SnapshotType
<1>4. ASSUME Inv, Cancel PROVE Inv'
  BY <1>4 DEF Cancel, Chain, OwnerType, InputType, CallerType, SnapshotType
<1>5. ASSUME Inv, ReceiveError PROVE Inv'
  BY <1>5, LifecycleAssumption DEF ReceiveError, Chain, OwnerType, InputType, CallerType, SnapshotType
<1>6. ASSUME Inv, ShutDownMetrics PROVE Inv'
  BY <1>6 DEF ShutDownMetrics, Chain, OwnerType, InputType, CallerType, SnapshotType
<1>7. ASSUME Inv, StopPeer PROVE Inv'
  BY <1>7 DEF StopPeer, Chain, OwnerType, InputType, CallerType, SnapshotType
<1>8. ASSUME Inv, StopClient PROVE Inv'
  BY <1>8 DEF StopClient, Chain, OwnerType, InputType, CallerType, SnapshotType
<1>9. ASSUME Inv, StopByForce PROVE Inv'
  <2>1. OwnerType'
    BY <1>9 DEF StopByForce, OwnerType, OwnerState, Node
  <2>2. owner'[A].at \in {"New", "Returned"} <=> owner[A].at \in {"New", "Returned"}
    BY <1>9 DEF StopByForce, OwnerType, Node
  <2>3. Chain'
    BY <1>9, <2>2 DEF StopByForce, Server, Chain
  <2>4. MainType'
    BY <1>9, LifecycleAssumption DEF StopByForce
  <2>5. CallerType'
    BY <1>9 DEF StopByForce, CallerType, CallerState
  <2>6. UNCHANGED <<inputs, snapshot, waits>>
    BY <1>9 DEF StopByForce
  <2> QED
    BY <1>9, <2>1, <2>3, <2>4, <2>5, <2>6 DEF InputType, SnapshotType
<1>10. ASSUME Inv, Close PROVE Inv'
  BY <1>10 DEF Close, Chain, OwnerType, InputType, CallerType, SnapshotType
<1> QED
  BY <1>1, <1>2, <1>3, <1>4, <1>5, <1>6, <1>7, <1>8, <1>9, <1>10

OwnerRecord == [at : OwnerState, sends : Nat, failed : BOOLEAN]

\* The owner loop of A is at work: it holds the WAL and Run waits for it.
AtWork(o) == o[A].at \notin {"New", "Returned"}

\* Within its loop an owner moves from place to place.
LEMMA OwnerMoves ==
    ASSUME OwnerType, NEW n \in Node, NEW r \in OwnerRecord, owner' = [owner EXCEPT ![n] = r],
           owner[n].at \notin {"New", "Returned"}, r.at \notin {"New", "Returned"}
    PROVE  OwnerType' /\ (AtWork(owner') <=> AtWork(owner))
  BY DEF OwnerType, OwnerRecord, AtWork, Node

\* The chain depends on these only.
LEMMA ChainStays ==
    ASSUME Chain, UNCHANGED <<phase, running, wal>>, AtWork(owner') <=> AtWork(owner),
           snapshot'.at \in {"Save", "Compact"} => snapshot.at \in {"Save", "Compact"} \/ AtWork(owner)
    PROVE  Chain'
  BY DEF Chain, AtWork

\* A queue that has room takes an input; the first one is taken from it.
LEMMA QueueKeepsType ==
    ASSUME InputType, NEW n \in Node, NEW i \in Caller \cup {"Raft"},
           \/ Len(inputs[n]) < MaxInputs /\ inputs' = [inputs EXCEPT ![n] = Append(@, i)]
           \/ inputs[n] # <<>> /\ inputs' = [inputs EXCEPT ![n] = Tail(@)]
           \/ UNCHANGED inputs
    PROVE  InputType'
<1>1. CASE Len(inputs[n]) < MaxInputs /\ inputs' = [inputs EXCEPT ![n] = Append(@, i)]
  BY <1>1, LifecycleAssumption DEF InputType
<1>2. CASE inputs[n] # <<>> /\ inputs' = [inputs EXCEPT ![n] = Tail(@)]
  BY <1>2, LifecycleAssumption DEF InputType
<1>3. CASE UNCHANGED inputs
  BY <1>3 DEF InputType
<1> QED
  BY <1>1, <1>2, <1>3

\* An answer reaches a handler that waits for it.
LEMMA AnswerKeepsType ==
    ASSUME CallerType, NEW c \in Caller, caller' = Answer(c), pending' \in BOOLEAN
    PROVE  CallerType'
  BY DEF CallerType, CallerState, Answer

\* The completion of a Snapshot leaves none running and nobody waiting.
LEMMA FinishKeepsType ==
    ASSUME CallerType, FinishSnapshot, UNCHANGED pending
    PROVE  CallerType' /\ SnapshotType' /\ snapshot'.at = "None"
<1>1. CallerType'
  BY AnswerKeepsType DEF FinishSnapshot, CallerType, Caller
<1>2. SnapshotType' /\ snapshot'.at = "None"
  BY DEF FinishSnapshot, SnapshotType, SnapshotState, NoSnapshot
<1> QED
  BY <1>1, <1>2

\* An owner is put somewhere with some Sends to make.
LEMMA OwnerUpdate ==
    ASSUME NEW o \in OwnerRecord, NEW to \in OwnerState, NEW k \in Nat
    PROVE  /\ [o EXCEPT !.at = to, !.sends = k] \in OwnerRecord
           /\ [o EXCEPT !.at = to, !.sends = k].at = to
  BY Zenon DEF OwnerRecord

\* A step of the core.
LEMMA RoundMoves ==
    ASSUME OwnerType, NEW n \in Node, owner[n].at = "Select", Round(n)
    PROVE  OwnerType' /\ (AtWork(owner') <=> AtWork(owner))
<1>1. PICK k \in 0 .. 1 : owner' = [owner EXCEPT ![n] = [@ EXCEPT !.at = "Act", !.sends = k]]
  BY Zenon DEF Round
<1> DEFINE r == [owner[n] EXCEPT !.at = "Act", !.sends = k]
<1>2. r \in OwnerRecord /\ r.at = "Act"
  <2>1. owner[n] \in OwnerRecord /\ "Act" \in OwnerState /\ k \in Nat
    BY DEF OwnerType, OwnerRecord, OwnerState
  <2> QED
    BY <2>1, OwnerUpdate, Zenon
<1>3. owner' = [owner EXCEPT ![n] = r]
  BY <1>1
<1> QED
  BY <1>2, <1>3, OwnerMoves, Zenon

\* Between two places an owner keeps the rest of its state.
LEMMA PlaceMoves ==
    ASSUME OwnerType, NEW n \in Node, NEW to \in {"Select", "Act", "Send", "Unwind"},
           owner[n].at \in {"Select", "Act", "Send"}, owner' = [owner EXCEPT ![n].at = to]
    PROVE  OwnerType' /\ (AtWork(owner') <=> AtWork(owner))
<1> DEFINE r == [owner[n] EXCEPT !.at = to]
<1>1. r \in OwnerRecord /\ r.at = to
  BY DEF OwnerType, OwnerRecord, OwnerState
<1>2. owner' = [owner EXCEPT ![n] = r]
  OBVIOUS
<1> QED
  BY <1>1, <1>2, OwnerMoves, Zenon

\* runRaft goes on to return an error.
LEMMA AbortMoves ==
    ASSUME OwnerType, owner[A].at \in {"Select", "Act"}, Abort
    PROVE  OwnerType' /\ (AtWork(owner') <=> AtWork(owner))
<1> DEFINE r == [owner[A] EXCEPT !.at = "Unwind", !.failed = TRUE]
<1>1. A \in Node /\ r \in OwnerRecord /\ r.at = "Unwind"
  BY Zenon DEF OwnerType, OwnerRecord, OwnerState, Node
<1>2. owner' = [owner EXCEPT ![A] = r]
  BY <1>1, Zenon DEF Abort, OwnerType
<1> QED
  BY <1>1, <1>2, OwnerMoves, Zenon

\* The steps of an owner that sends.
LEMMA SendKeepsInv ==
    ASSUME Inv, NEW n \in Node,
           Timer(n) \/ BeginSend(n) \/ Accept(n) \/ Refuse(n) \/ TimeOut(n)
    PROVE  Inv'
<1>1. UNCHANGED <<phase, running, failing, serveErrors, wal, caller, pending, snapshot, waits>>
  BY DEF Timer, BeginSend, Accept, Refuse, TimeOut, Main, Clients, Saving
<1>2. MainType' /\ CallerType' /\ SnapshotType'
  BY <1>1 DEF Inv, MainType, CallerType, SnapshotType
<1>3. InputType'
  <2>1. Peer(n) \in Node /\ "Raft" \in Caller \cup {"Raft"}
    BY DEF Peer, Node
  <2>2. \/ Len(inputs[Peer(n)]) < MaxInputs /\ inputs' = [inputs EXCEPT ![Peer(n)] = Append(@, "Raft")]
        \/ UNCHANGED inputs
    BY DEF Timer, BeginSend, Accept, Refuse, TimeOut
  <2> QED
    BY <2>1, <2>2, QueueKeepsType, Zenon DEF Inv
<1>4. OwnerType' /\ (AtWork(owner') <=> AtWork(owner))
  <2>1. CASE Timer(n)
    <3> DEFINE r == [owner[n] EXCEPT !.at = "Act", !.sends = 1]
    <3>1. r \in OwnerRecord /\ r.at = "Act"
      BY Zenon DEF Inv, OwnerType, OwnerRecord, OwnerState
    <3>2. owner' = [owner EXCEPT ![n] = r] /\ owner[n].at = "Select"
      BY <2>1 DEF Timer
    <3> QED
      BY <3>1, <3>2, OwnerMoves, Zenon DEF Inv
  <2>2. CASE BeginSend(n)
    <3>1. PICK to \in {"Send", "Act"} :
             owner' = [owner EXCEPT ![n] = [@ EXCEPT !.at = to, !.sends = owner[n].sends - 1]]
      BY <2>2, Zenon DEF BeginSend
    <3> DEFINE r == [owner[n] EXCEPT !.at = to, !.sends = owner[n].sends - 1]
    <3>2. owner[n] \in OwnerRecord /\ owner[n].sends - 1 \in Nat /\ owner[n].at = "Act"
      BY <2>2 DEF BeginSend, Inv, OwnerType, OwnerRecord
    <3>3. r \in OwnerRecord /\ r.at \in {"Send", "Act"}
      BY <3>2, Zenon DEF OwnerRecord, OwnerState
    <3> QED
      BY <3>1, <3>2, <3>3, OwnerMoves, Zenon DEF Inv
  <2>3. CASE Accept(n) \/ Refuse(n) \/ TimeOut(n)
    <3>1. owner[n].at = "Send" /\ owner' = [owner EXCEPT ![n].at = "Act"]
      BY <2>3 DEF Accept, Refuse, TimeOut
    <3> QED
      BY <3>1, PlaceMoves, Zenon DEF Inv
  <2> QED
    BY <2>1, <2>2, <2>3
<1>5. Chain'
  BY <1>1, <1>4, ChainStays, SMTT(30) DEF Inv
<1> QED
  BY <1>2, <1>3, <1>4, <1>5 DEF Inv

\* An owner takes an input.
LEMMA ReceiveKeepsInv ==
    ASSUME Inv, (\E n \in Node : ReceiveRaft(n)) \/ ReceiveProposal \/ ReceiveSnapshot
    PROVE  Inv'
<1>1. PICK n \in Node : /\ owner[n].at = "Select"
                        /\ inputs[n] # <<>> /\ inputs' = [inputs EXCEPT ![n] = Tail(@)]
                        /\ Round(n) \/ UNCHANGED owner
                        /\ UNCHANGED Main
                        /\ ReceiveRaft(n) \/ (n = A /\ (ReceiveProposal \/ ReceiveSnapshot))
  BY Zenon DEF ReceiveRaft, ReceiveProposal, ReceiveSnapshot, Node
<1>2. MainType'
  BY <1>1, SMTT(30) DEF Main, Inv, MainType
<1>3. InputType'
  BY <1>1, QueueKeepsType, ZenonT(30) DEF Inv
<1>4. OwnerType' /\ (AtWork(owner') <=> AtWork(owner))
  <2>1. CASE Round(n)
    BY <1>1, <2>1, RoundMoves, SMTT(30) DEF Inv
  <2>2. CASE UNCHANGED owner
    BY <2>2 DEF Inv, OwnerType, AtWork
  <2> QED
    BY <1>1, <2>1, <2>2
<1>5. CallerType'
  <2>1. \/ UNCHANGED <<caller, pending>>
        \/ caller' = Answer("proposal") /\ pending' \in BOOLEAN
        \/ caller' = caller /\ pending' \in BOOLEAN
    BY <1>1, Zenon DEF ReceiveRaft, ReceiveProposal, ReceiveSnapshot, Clients, Inv, CallerType
  <2> QED
    BY <2>1, AnswerKeepsType, SMTT(30) DEF Inv, CallerType, Caller
<1>6. SnapshotType' /\ (snapshot'.at \in {"Save", "Compact"}
                            => snapshot.at \in {"Save", "Compact"} \/ AtWork(owner))
  <2>1. CASE UNCHANGED <<snapshot, waits>>
    BY <2>1 DEF Inv, SnapshotType
  <2>2. CASE n = A /\ ReceiveSnapshot
    <3>1. AtWork(owner)
      BY <1>1, <2>2 DEF AtWork
    <3>2. CASE snapshot.at = "None"
      BY <2>2, <3>1, <3>2, Zenon DEF ReceiveSnapshot, NoSnapshot, SnapshotType, SnapshotState
    <3>3. CASE snapshot.at # "None"
      BY <2>2, <3>1, <3>3 DEF ReceiveSnapshot, Inv, SnapshotType
    <3> QED
      BY <3>2, <3>3, SMTT(30)
  <2> QED
    BY <1>1, <2>1, <2>2, Zenon DEF ReceiveRaft, ReceiveProposal, Saving
<1>7. Chain'
  BY <1>1, <1>4, <1>6, ChainStays, Zenon DEF Main, Inv
<1> QED
  BY <1>2, <1>3, <1>4, <1>5, <1>6, <1>7, SMTT(30) DEF Inv

\* A round of the owner loop ends, or the loop does.
LEMMA EndKeepsInv ==
    ASSUME Inv, (\E n \in Node : EndRound(n)) \/ StepFails \/ ContextDone \/ SnapshotDone
    PROVE  Inv'
<1>1. UNCHANGED <<phase, running, failing, serveErrors, wal, inputs, pending>>
  BY DEF EndRound, StepFails, ContextDone, SnapshotDone, Main, Clients
<1>2. MainType' /\ InputType'
  BY <1>1, SMTT(30) DEF Inv, MainType, InputType
<1>3. CASE \E n \in Node : EndRound(n)
  <2>1. PICK n \in Node : EndRound(n)
    BY <1>3, SMTT(30)
  <2>2. OwnerType' /\ (AtWork(owner') <=> AtWork(owner))
    BY <2>1, PlaceMoves, Zenon DEF EndRound, Inv
  <2>3. CallerType'
    BY <2>1 DEF EndRound, Clients, Inv, CallerType
  <2>4. SnapshotType' /\ (snapshot'.at \in {"Save", "Compact"}
                              => snapshot.at \in {"Save", "Compact"} \/ AtWork(owner))
    <3>1. CASE UNCHANGED Saving
      BY <3>1 DEF Saving, Inv, SnapshotType
    <3>2. CASE ~UNCHANGED Saving
      <4>1. /\ n = A /\ snapshot' = [NoSnapshot EXCEPT !.at = "Save", !.automatic = TRUE]
            /\ snapshot.at = "None" /\ UNCHANGED waits
        BY <2>1, <3>2 DEF EndRound
      <4>2. AtWork(owner)
        BY <2>1, <4>1 DEF EndRound, AtWork
      <4> QED
        BY <4>1, <4>2, Zenon DEF NoSnapshot, Inv, SnapshotType, SnapshotState
    <3> QED
      BY <3>1, <3>2, SMTT(30)
  <2>5. Chain'
    BY <1>1, <2>2, <2>4, ChainStays, SMTT(30) DEF Inv
  <2> QED
    BY <1>2, <2>2, <2>3, <2>4, <2>5, SMTT(30) DEF Inv
<1>4. CASE StepFails \/ ContextDone
  <2>1. UNCHANGED <<caller, snapshot, waits>> /\ owner[A].at \in {"Select", "Act"}
    BY <1>4 DEF StepFails, ContextDone, Clients, Saving
  <2>2. OwnerType' /\ (AtWork(owner') <=> AtWork(owner))
    <3>1. CASE StepFails
      BY <2>1, <3>1, AbortMoves, SMTT(30) DEF StepFails, Inv
    <3>2. CASE ContextDone
      BY <2>1, <3>2, PlaceMoves, SMTT(30) DEF ContextDone, Inv, Node
    <3> QED
      BY <1>4, <3>1, <3>2, SMTT(30)
  <2>3. CallerType' /\ SnapshotType'
    BY <1>1, <2>1, SMTT(30) DEF Inv, CallerType, SnapshotType
  <2>4. Chain'
    BY <1>1, <2>1, <2>2, ChainStays, ZenonT(30) DEF Inv
  <2> QED
    BY <1>2, <2>2, <2>3, <2>4, SMTT(30) DEF Inv
<1>5. CASE SnapshotDone
  <2>1. CallerType' /\ SnapshotType' /\ snapshot'.at = "None"
    BY <1>1, <1>5, FinishKeepsType, ZenonT(30) DEF SnapshotDone, Inv
  <2>2. OwnerType' /\ (AtWork(owner') <=> AtWork(owner))
    <3>1. CASE Abort
      BY <1>5, <3>1, AbortMoves, ZenonT(30) DEF SnapshotDone, Inv
    <3>2. CASE UNCHANGED owner
      BY <3>2, SMTT(30) DEF Inv, OwnerType, AtWork
    <3> QED
      BY <1>5, <3>1, <3>2, ZenonT(30) DEF SnapshotDone
  <2>3. Chain'
    BY <1>1, <2>1, <2>2, ChainStays, SMTT(30) DEF Inv
  <2> QED
    BY <1>2, <2>1, <2>2, <2>3, SMTT(30) DEF Inv
<1> QED
  BY <1>3, <1>4, <1>5, SMTT(30)

\* runRaft returns: the Snapshot is done and Run need not wait any longer.
LEMMA ReturnKeepsInv == ASSUME Inv, Return PROVE Inv'
<1>1. MainType'
  <2>1. owner[A].failed \in BOOLEAN /\ "raft" \notin Server
    BY DEF Inv, OwnerType, Node, Server
  <2>2. serveErrors' \in 0 .. ErrorSlots
    <3>1. CASE owner[A].failed
      BY <3>1, LifecycleAssumption, SMTT(30) DEF Return, Inv, MainType
    <3>2. CASE ~owner[A].failed
      BY <3>2, LifecycleAssumption, SMTT(30) DEF Return, Inv, MainType
    <3> QED
      BY <3>1, <3>2, SMTT(30)
  <2> QED
    BY <2>1, <2>2, SMTT(30) DEF Return, Inv, MainType
<1>2. OwnerType' /\ ~AtWork(owner')
  BY DEF Return, Inv, OwnerType, OwnerState, AtWork, Node
<1>3. InputType'
  BY DEF Return, Inv, InputType
<1>4. CallerType' /\ SnapshotType' /\ snapshot'.at = "None"
  <2>1. CASE FinishSnapshot
    BY <2>1, FinishKeepsType DEF Return, Inv
  <2>2. CASE snapshot.at = "None" /\ UNCHANGED <<snapshot, waits, caller>>
    BY <2>2, SMTT(30) DEF Return, Inv, CallerType, SnapshotType
  <2> QED
    BY <2>1, <2>2, SMTT(30) DEF Return
<1>5. Chain'
  BY <1>2, <1>4, SMTT(30) DEF Return, Inv, Chain, AtWork
<1> QED
  BY <1>1, <1>2, <1>3, <1>4, <1>5, SMTT(30) DEF Inv

\* The steps of the Snapshot in the background.
LEMMA SnapshotKeepsInv == ASSUME Inv, Save \/ Compact PROVE Inv'
<1>1. UNCHANGED <<phase, running, failing, serveErrors, wal, owner, inputs, caller, pending, waits>>
  BY Zenon DEF Save, Compact, Main, Clients
<1>2. MainType' /\ OwnerType' /\ InputType' /\ CallerType'
  BY <1>1, Zenon DEF Inv, MainType, OwnerType, InputType, CallerType
<1>3. snapshot.at \in {"Save", "Compact"}
  BY Zenon DEF Save, Compact
<1>4. \E to \in {"Compact", "Done"}, bad \in BOOLEAN :
         \/ snapshot' = [snapshot EXCEPT !.at = to]
         \/ snapshot' = [snapshot EXCEPT !.at = to, !.failed = bad]
  BY Zenon DEF Save, Compact, Progress
<1>5. /\ snapshot' \in [at : SnapshotState, automatic : BOOLEAN, failed : BOOLEAN]
      /\ snapshot'.at # "None"
  <2>1. PICK to \in {"Compact", "Done"}, bad \in BOOLEAN :
           \/ snapshot' = [snapshot EXCEPT !.at = to]
           \/ snapshot' = [snapshot EXCEPT !.at = to, !.failed = bad]
    BY <1>4, Zenon
  <2>2. to \in SnapshotState /\ to # "None"
    BY Zenon DEF SnapshotState
  <2>3. snapshot \in [at : SnapshotState, automatic : BOOLEAN, failed : BOOLEAN]
    BY Zenon DEF Inv, SnapshotType
  <2> QED
    BY <2>1, <2>2, <2>3, ZenonT(30)
<1>6. SnapshotType'
  BY <1>5, Zenon DEF SnapshotType
<1>7. AtWork(owner') <=> AtWork(owner)
  BY <1>1, Zenon DEF AtWork
<1>8. Chain'
  BY <1>1, <1>3, <1>7, ChainStays, Zenon DEF Inv
<1> QED
  BY <1>2, <1>6, <1>8, Zenon DEF Inv

\* The steps of the handlers.
LEMMA CallKeepsInv ==
    ASSUME Inv, NEW c \in Caller, BeginCall(c) \/ Enqueue(c) \/ Stopped(c) \/ Abandon(c)
    PROVE  Inv'
<1>1. UNCHANGED <<phase, running, failing, serveErrors, wal, owner, snapshot, waits>>
  BY Zenon DEF BeginCall, Enqueue, Stopped, Abandon, Main, Saving
<1>2. MainType' /\ OwnerType' /\ SnapshotType' /\ Chain'
  BY <1>1, Zenon DEF Inv, MainType, OwnerType, SnapshotType, Chain
<1>3. \E to \in {"Enqueue", "Await", "Failed"} : caller' = [caller EXCEPT ![c] = to]
  BY Zenon DEF BeginCall, Enqueue, Stopped, Abandon
<1>4. pending' \in BOOLEAN
  BY Zenon DEF BeginCall, Enqueue, Stopped, Abandon, Inv, CallerType
<1>5. caller' \in [Caller -> CallerState]
  BY <1>3 DEF Inv, CallerType, CallerState
<1>6. \/ Len(inputs[A]) < MaxInputs /\ inputs' = [inputs EXCEPT ![A] = Append(@, c)]
      \/ UNCHANGED inputs
  BY Zenon DEF BeginCall, Enqueue, Stopped, Abandon
<1>7. InputType'
  BY <1>6, QueueKeepsType, Zenon DEF Inv, Node
<1> QED
  BY <1>2, <1>4, <1>5, <1>7, Zenon DEF Inv, CallerType

\* Every step keeps the invariant.
LEMMA NextKeepsInv == Inv /\ [Next]_vars => Inv'
<1> SUFFICES ASSUME Inv, [Next]_vars PROVE Inv'
  BY SMTT(30)
<1>1. CASE Next
  BY <1>1, RunKeepsInv, SendKeepsInv, ReceiveKeepsInv, EndKeepsInv, ReturnKeepsInv, SnapshotKeepsInv,
     CallKeepsInv, ZenonT(30) DEF Next, Proceed
<1>2. CASE UNCHANGED vars
  <2>1. MainType' /\ OwnerType' /\ InputType'
    BY <1>2, Zenon DEF vars, Inv, MainType, OwnerType, InputType
  <2>2. CallerType' /\ SnapshotType' /\ Chain'
    BY <1>2, Zenon DEF vars, Inv, CallerType, SnapshotType, Chain
  <2> QED
    BY <2>1, <2>2, Zenon DEF Inv
<1> QED
  BY <1>1, <1>2, Zenon

-----------------------------------------------------------------------------
\* The variables of Run, of the owner loops and of the handlers keep their types:
\* no queue outgrows its capacity, no error is put where there is no slot, and
\* nobody waits for a Snapshot that is not running.
THEOREM LifecycleTypeCorrect == Spec => []TypeOK
<1>1. Inv => TypeOK
  <2> SUFFICES ASSUME Inv PROVE TypeOK
    OBVIOUS
  <2>1. \A n \in Node : owner[n].at \in OwnerState
    BY DEF Inv, OwnerType
  <2>2. \A n \in Node : inputs[n] \in Seq(Caller \cup {"Raft"}) /\ Len(inputs[n]) <= MaxInputs
    BY DEF Inv, InputType
  <2>3. snapshot.at \in SnapshotState /\ (waits => snapshot.at # "None")
    BY SMTT(30) DEF Inv, SnapshotType
  <2> QED
    BY <2>1, <2>2, <2>3, Zenon DEF Inv, MainType, CallerType, TypeOK, Phase, OwnerState, CallerState,
       SnapshotState
<1> QED
  BY <1>1, InitHasInv, NextKeepsInv, PTL DEF Spec

\* Run closes the WAL under neither the owner loop nor the Snapshot in the
\* background, whatever fails and in whichever order the goroutines end.
THEOREM WALStaysOpen == Spec => []WALOpenWhileUsed
<1>1. Inv => WALOpenWhileUsed
  BY DEF Inv, MainType, SnapshotType, SnapshotState, Chain, WALOpenWhileUsed
<1> QED
  BY <1>1, InitHasInv, NextKeepsInv, PTL DEF Spec
=============================================================================
