------------------------------ MODULE Commands ------------------------------
(***************************************************************************)
(* Client calls against the Nodes of a Cluster: the gRPC handlers of       *)
(* internal/node (OpenSession, CloseSession, Set, Delete, Get), the input  *)
(* queue of the owner loop and commandCoordinator, above a ReplicatedLog.  *)
(*                                                                         *)
(* Every owner-loop iteration is one action.  A Client is well behaved: it *)
(* uses the session it opened, has one call at a time, repeats a mutation  *)
(* under the same sequence until it succeeds and only then goes on to the  *)
(* next.                                                                   *)
(***************************************************************************)
EXTENDS SessionMachine, FiniteSets

CONSTANTS
    Node, Client, NoCall,
    NoKey,       \* the Key of a command that has none
    Plans,       \* what the Clients may want: see plan
    QueueSize,   \* capacity of the input channel
    MaxTerms,    \* bound: elections
    MaxCalls     \* bound: calls of each Client

ASSUME CommandsAssumption ==
    /\ IsFiniteSet(Node)
    /\ QueueSize \in Nat \ {0}
    /\ \A p \in Plans : DOMAIN p = Client
    /\ SessionID \subseteq Nat \ {0}

VARIABLES
    committed, log, applied, leads, \* consensus
    terms,        \* the terms that had a Leader
    machine,      \* the sessionMachine of each Node
    inputs,       \* calls queued for the owner loop
    pending,      \* [index, call]: calls waiting for an index to be applied
    inFlightMutations,
    pendingReads, \* [floor, call]: calls waiting for a read to be confirmed, and
                  \* the length of the committed log when consensus took it
    call,         \* the call each Client waits for
    session, done, calls, \* its session, completed mutations and calls so far
    opened,       \* how many session identities were generated
    plan,         \* what each Client wants: its commands, in order, and whether it reads
    \* history: successful mutations with their result, failures, what a read
    \* must not miss, and the values read
    acked, refused, readFloor, reads

consensusVars   == <<committed, log, applied, leads, terms>>
coordinatorVars == <<machine, inputs, pending, inFlightMutations, pendingReads>>
clientVars      == <<call, session, done, acked, refused>>
vars == <<consensusVars, coordinatorVars, clientVars, calls, opened, readFloor, reads>>

NotInFlight == [sequence |-> 0, index |-> 0]
IsMutation(e) == e.type \in {"Set", "Delete"}
EntryOf(t, c) == [term |-> t, type |-> c.type, sid |-> c.sid, seq |-> c.seq,
                  key |-> c.key, value |-> c.value]
NoOpOf(t) == EntryOf(t, [type |-> "NoOp", sid |-> 0, seq |-> 0, key |-> NoKey, value |-> NoValue])

Entry == [term : Nat, type : {"NoOp", "Open", "Close", "Set", "Delete"},
          sid : SessionID \cup {0}, seq : Nat, key : Key \cup {NoKey},
          value : Value \cup {NoValue}]

Consensus == INSTANCE ReplicatedLog

Leading(n) == leads[n] # 0

Init ==
    /\ committed = <<>>
    /\ log = [n \in Node |-> <<>>]
    /\ applied = [n \in Node |-> 0]
    /\ leads = [n \in Node |-> 0]
    /\ terms = {}
    /\ machine = [n \in Node |-> Empty]
    /\ inputs = [n \in Node |-> <<>>]
    /\ pending = [n \in Node |-> {}]
    /\ inFlightMutations = [n \in Node |-> [s \in SessionID |-> NotInFlight]]
    /\ pendingReads = [n \in Node |-> {}]
    /\ call = [c \in Client |-> NoCall]
    /\ session = [c \in Client |-> 0]
    /\ done = [c \in Client |-> 0]
    /\ calls = [c \in Client |-> 0]
    /\ opened = 0
    /\ plan \in Plans
    /\ acked = {}
    /\ refused = {}
    /\ readFloor = [c \in Client |-> 0]
    /\ reads = {}

-----------------------------------------------------------------------------
(* Answers *)

Rejected == [rejected |-> TRUE, failure |-> "Succeeded", existed |-> FALSE]
Result(r) == [rejected |-> FALSE, failure |-> r.failure, existed |-> r.existed]

\* Results reach the calls still waited for; the channel of a call that was
\* given up keeps its result.  NotLeader and a stopped Node (Rejected) leave
\* the Client to call again.
Answer(answers) ==
    LET of(c)   == {x \in answers : x.call = call[c]}
        ok(c)   == \E x \in of(c) : ~x.result.rejected /\ x.result.failure = "Succeeded"
        cmd(c)  == call[c].cmd
        good    == {c \in Client : ok(c)}
        bad     == {x \in answers : \E c \in Client : x.call = call[c]
                                     /\ ~x.result.rejected /\ x.result.failure # "Succeeded"}
    IN  /\ call' = [c \in Client |-> IF of(c) # {} THEN NoCall ELSE call[c]]
        /\ session' = [c \in Client |->
               IF c \in good /\ cmd(c).type = "Open" THEN cmd(c).sid ELSE session[c]]
        /\ done' = [c \in Client |->
               IF c \in good /\ cmd(c).type \in {"Set", "Delete", "Close"}
               THEN done[c] + 1 ELSE done[c]]
        /\ acked' = acked \cup
               {[cmd |-> x.call.cmd, existed |-> x.result.existed] :
                   x \in {x \in answers : \E c \in good : x.call = call[c] /\ IsMutation(cmd(c))}}
        /\ refused' = refused \cup {[cmd |-> x.call.cmd, failure |-> x.result.failure] : x \in bad}

\* A queued call is still waited for.
Waits(x) == x = call[x.client]

\* The index where a mutation took effect.
EffectOf(cmd) ==
    CHOOSE i \in DOMAIN committed :
        /\ HasEffect(Replay(committed, i - 1), committed[i])
        /\ committed[i].sid = cmd.sid
        /\ committed[i].seq = cmd.seq

-----------------------------------------------------------------------------
(* Clients and handlers *)

\* A handler that passed rejectIfNotLeader queues the call.  A Node that does
\* not lead answers NotLeader at once, which changes nothing.
Enqueue(c, n, cmd) ==
    LET x == [client |-> c, number |-> calls[c] + 1, cmd |-> cmd]
    IN  /\ Leading(n)
        /\ call[c] = NoCall
        /\ calls[c] < MaxCalls
        /\ Len(inputs[n]) < QueueSize
        /\ call' = [call EXCEPT ![c] = x]
        /\ calls' = [calls EXCEPT ![c] = @ + 1]
        /\ inputs' = [inputs EXCEPT ![n] = Append(@, x)]
        /\ UNCHANGED <<consensusVars, machine, pending, inFlightMutations, pendingReads,
                       session, done, acked, refused, reads>>

\* OpenSession: the identity is new for every call, also for a repeated one.
OpenSession(c, n) ==
    /\ session[c] = 0
    /\ opened + 1 \in SessionID
    /\ opened' = opened + 1
    /\ Enqueue(c, n, [type |-> "Open", sid |-> opened + 1, seq |-> 0,
                      key |-> NoKey, value |-> NoValue])
    /\ UNCHANGED readFloor

\* Set, Delete, CloseSession: the Client's next command.
NextCommand(c, n) ==
    /\ session[c] # 0
    /\ done[c] < Len(plan[c].commands)
    /\ LET op == plan[c].commands[done[c] + 1]
       IN  Enqueue(c, n, [type |-> op.type, sid |-> session[c],
                          seq |-> IF op.type = "Close" THEN 0 ELSE done[c] + 1,
                          key |-> op.key, value |-> op.value])
    /\ UNCHANGED <<opened, readFloor, reads>>

\* Get.
Get(c, n) ==
    /\ plan[c].reads
    /\ \E k \in Key : Enqueue(c, n, [type |-> "Get", sid |-> 0, seq |-> 0,
                                     key |-> k, value |-> NoValue])
    /\ readFloor' = [readFloor EXCEPT ![c] = Max({0} \cup {EffectOf(x.cmd) : x \in acked})]
    /\ UNCHANGED opened

\* The Client's context ends.  What is queued or proposed stays so; a waiter
\* is dropped (pruneCanceled, at the next iteration).
Cancel(c) ==
    /\ call[c] # NoCall
    /\ call' = [call EXCEPT ![c] = NoCall]
    /\ pending' = [n \in Node |-> {w \in pending[n] : w.call # call[c]}]
    /\ pendingReads' = [n \in Node |-> {r \in pendingReads[n] : r.call # call[c]}]
    /\ UNCHANGED <<consensusVars, machine, inputs, inFlightMutations, session, done, acked,
                   refused, calls, opened, readFloor, reads>>

-----------------------------------------------------------------------------
(* The owner loop: one input *)

Rest(n) == inputs' = [inputs EXCEPT ![n] = Tail(@)]

\* beginProposal joins a duplicate of a mutation in flight.
JoinsInFlight(n, cmd) ==
    IsMutation(cmd) /\ inFlightMutations[n][cmd.sid].sequence = cmd.seq

\* beginProposal answers from replicated state whatever evaluateMutation says
\* is not the next mutation.
AnsweredFromState(n, cmd) ==
    /\ IsMutation(cmd)
    /\ ~JoinsInFlight(n, cmd)
    /\ ~EvaluateMutation(machine[n], cmd.sid, cmd.seq).apply

Join(n) ==
    /\ inputs[n] # <<>>
    /\ LET x == Head(inputs[n])
       IN  /\ JoinsInFlight(n, x.cmd)
           /\ pending' = [pending EXCEPT ![n] = @ \cup
                  {[index |-> inFlightMutations[n][y.cmd.sid].index, call |-> y] :
                      y \in {y \in {x} : Waits(y)}}]
    /\ Rest(n)
    /\ UNCHANGED <<consensusVars, machine, inFlightMutations, pendingReads, clientVars, calls,
                   opened, readFloor, reads>>

AnswerFromState(n) ==
    /\ inputs[n] # <<>>
    /\ LET x == Head(inputs[n])
       IN  /\ AnsweredFromState(n, x.cmd)
           /\ Answer({[call |-> x, result |->
                  Result(EvaluateMutation(machine[n], x.cmd.sid, x.cmd.seq))]})
    /\ Rest(n)
    /\ UNCHANGED <<consensusVars, machine, pending, inFlightMutations, pendingReads, calls,
                   opened, readFloor, reads>>

\* The input reaches consensus: a proposal or a read.
Reaches(n) ==
    /\ inputs[n] # <<>>
    /\ LET cmd == Head(inputs[n]).cmd
       IN  ~JoinsInFlight(n, cmd) /\ ~AnsweredFromState(n, cmd)

\* ProposalAccepted.
Propose(n) ==
    /\ Reaches(n)
    /\ Leading(n)
    /\ LET x == Head(inputs[n])
           i == Len(log[n]) + 1
       IN  /\ x.cmd.type # "Get"
           /\ log' = [log EXCEPT ![n] = Append(@, EntryOf(leads[n], x.cmd))]
           /\ pending' = [pending EXCEPT ![n] =
                  @ \cup {[index |-> i, call |-> y] : y \in {y \in {x} : Waits(y)}}]
           /\ inFlightMutations' =
                  IF IsMutation(x.cmd)
                  THEN [inFlightMutations EXCEPT ![n][x.cmd.sid] =
                           [sequence |-> x.cmd.seq, index |-> i]]
                  ELSE inFlightMutations
    /\ Rest(n)
    /\ UNCHANGED <<committed, applied, leads>>
    /\ Consensus!Propose(n)
    /\ UNCHANGED <<terms, machine, pendingReads, clientVars, calls, opened, readFloor, reads>>

\* ProposalRejected, ReadRejected: the Node does not lead any more, or it
\* leads and cannot read yet.
Reject(n) ==
    /\ Reaches(n)
    /\ LET x == Head(inputs[n])
       IN  /\ ~Leading(n) \/ x.cmd.type = "Get"
           /\ Answer({[call |-> x, result |-> Rejected]})
    /\ Rest(n)
    /\ UNCHANGED <<consensusVars, machine, pending, inFlightMutations, pendingReads, calls,
                   opened, readFloor, reads>>

\* Mutated: a Leader answers a read without confirming that it still leads.
ReadUnconfirmed(n) ==
    /\ Reaches(n)
    /\ Leading(n)
    /\ LET x == Head(inputs[n])
       IN  /\ x.cmd.type = "Get"
           /\ Answer({[call |-> x, result |-> [Rejected EXCEPT !.rejected = FALSE]]})
           /\ reads' = reads \cup {[floor |-> readFloor[x.client], key |-> x.cmd.key,
                                    value |-> machine[n].values[x.cmd.key]]}
    /\ Rest(n)
    /\ UNCHANGED <<consensusVars, machine, pending, inFlightMutations, pendingReads, calls,
                   opened, readFloor>>

\* beginRead at a Leader.
BeginRead(n) ==
    /\ Reaches(n)
    /\ Leading(n)
    /\ LET x == Head(inputs[n])
       IN  /\ x.cmd.type = "Get"
           /\ pendingReads' = [pendingReads EXCEPT ![n] =
                  @ \cup {[floor |-> Len(committed), call |-> y] : y \in {y \in {x} : Waits(y)}}]
    /\ Rest(n)
    /\ UNCHANGED <<consensusVars, machine, pending, inFlightMutations, clientVars, calls,
                   opened, readFloor, reads>>

-----------------------------------------------------------------------------
(* The owner loop: what consensus does *)

\* The state of Node n after entries from+1 .. to of log l.
MachineAfter(n, l, from, to) == FoldLeft(ApplyEntry, machine[n], SubSeq(l, from + 1, to))

\* What handle answers while entries from+1 .. to of log l are applied.
Applies(n, l, from, to) ==
    {[call |-> w.call,
      result |-> Result(ResultOf(MachineAfter(n, l, from, w.index - 1), l[w.index]))] :
        w \in {w \in pending[n] : w.index \in from + 1 .. to}}

\* Mutated: a mutation stays in flight when it is applied.
RemainingAll(n, l, from, to) == inFlightMutations[n]

\* The mutations in flight after those entries.
Remaining(n, l, from, to) ==
    [s \in SessionID |->
        IF \E i \in from + 1 .. to : /\ IsMutation(l[i])
                                     /\ l[i].sid = s
                                     /\ l[i].seq = inFlightMutations[n][s].sequence
        THEN NotInFlight ELSE inFlightMutations[n][s]]

\* Node n wins the election of a term.
Lead(n) ==
    \E t \in 1 .. MaxTerms \ terms :
        /\ terms' = terms \cup {t}
        /\ leads' = [leads EXCEPT ![n] = t]
        /\ log' = [log EXCEPT ![n] = Append(@, NoOpOf(t))]
        /\ UNCHANGED <<committed, applied>>
        /\ Consensus!Lead(n)
        /\ UNCHANGED <<coordinatorVars, clientVars, calls, opened, readFloor, reads>>

\* A Leader commits and applies more of its log.
Commit(n) ==
    \E k \in applied[n] + 1 .. Len(log[n]) :
        /\ applied' = [applied EXCEPT ![n] = k]
        /\ committed' = IF k > Len(committed) THEN SubSeq(log[n], 1, k) ELSE committed
        /\ UNCHANGED <<log, leads, terms>>
        /\ Consensus!Commit(n)
        /\ machine' = [machine EXCEPT ![n] = MachineAfter(n, log[n], applied[n], k)]
        /\ Answer(Applies(n, log[n], applied[n], k))
        /\ pending' = [pending EXCEPT ![n] = {w \in @ : w.index > k}]
        /\ inFlightMutations' = [inFlightMutations EXCEPT ![n] =
               Remaining(n, log[n], applied[n], k)]
        /\ UNCHANGED <<inputs, pendingReads, calls, opened, readFloor, reads>>

\* ReadConfirmed: consensus vouches for everything committed when it took the
\* read, and handle looks the Key up.
ConfirmRead(n) ==
    \E r \in pendingReads[n] :
        /\ Leading(n)
        /\ applied[n] >= r.floor
        /\ pendingReads' = [pendingReads EXCEPT ![n] = @ \ {r}]
        /\ Answer({[call |-> r.call, result |-> [Rejected EXCEPT !.rejected = FALSE]]})
        /\ reads' = reads \cup {[floor |-> readFloor[r.call.client], key |-> r.call.cmd.key,
                                 value |-> machine[n].values[r.call.cmd.key]]}
        /\ UNCHANGED <<consensusVars, machine, inputs, pending, inFlightMutations, calls,
                       opened, readFloor>>

\* Everyone who waits at Node n, and is told so.
Waiters(n) == {w.call : w \in pending[n]} \cup {r.call : r \in pendingReads[n]}
RejectAll(xs) == {[call |-> x, result |-> Rejected] : x \in xs}

\* Mutated: the waiters of a lost leadership are forgotten.
NobodyLost(n, answered) == {}

\* lostLeadership rejects whoever is still waiting.
LostLeadership(n, answered) == RejectAll(Waiters(n) \ {x.call : x \in answered})

\* The Node follows: a message gives it another log, or it steps down.  What it
\* applies is answered first; lostLeadership rejects the other waiters.
Follow(n) ==
    \E l \in UNION {Prefixes(log[p]) : p \in Node} :
        \E k \in applied[n] .. Len(l) :
            /\ log' = [log EXCEPT ![n] = l]
            /\ applied' = [applied EXCEPT ![n] = k]
            /\ leads' = [leads EXCEPT ![n] = 0]
            /\ UNCHANGED <<committed, terms>>
            /\ Consensus!Follow(n)
            /\ machine' = [machine EXCEPT ![n] = MachineAfter(n, l, applied[n], k)]
            /\ LET answered == Applies(n, l, applied[n], k)
               IN  IF Leading(n)
                   THEN /\ Answer(answered \cup LostLeadership(n, answered))
                        /\ pending' = [pending EXCEPT ![n] = {}]
                        /\ pendingReads' = [pendingReads EXCEPT ![n] = {}]
                        /\ inFlightMutations' = [inFlightMutations EXCEPT ![n] =
                               [s \in SessionID |-> NotInFlight]]
                   ELSE /\ Answer(answered)
                        /\ pending' = [pending EXCEPT ![n] = {w \in @ : w.index > k}]
                        /\ inFlightMutations' = [inFlightMutations EXCEPT ![n] =
                               Remaining(n, l, applied[n], k)]
                        /\ UNCHANGED pendingReads
            /\ UNCHANGED <<inputs, calls, opened, readFloor, reads>>

\* The process stops and starts again: calls in the queue and waiters get
\* "Node stopped" and the log is recovered.
ForgetVolatile(n) ==
    /\ leads' = [leads EXCEPT ![n] = 0]
    /\ Answer(RejectAll(Waiters(n) \cup Range(inputs[n])))
    /\ inputs' = [inputs EXCEPT ![n] = <<>>]
    /\ pending' = [pending EXCEPT ![n] = {}]
    /\ pendingReads' = [pendingReads EXCEPT ![n] = {}]
    /\ inFlightMutations' = [inFlightMutations EXCEPT ![n] = [s \in SessionID |-> NotInFlight]]
    /\ UNCHANGED <<committed, log, applied, terms, calls, opened, readFloor, reads>>

\* Mutated: the committed entries are not applied again.
RestartEmpty(n) ==
    /\ ForgetVolatile(n)
    /\ machine' = [machine EXCEPT ![n] = Empty]

\* RecoverCommitted, recover: what was applied is applied again.
Restart(n) ==
    /\ ForgetVolatile(n)
    /\ machine' = [machine EXCEPT ![n] = Replay(log[n], applied[n])]

TakeInput(n) == Join(n) \/ AnswerFromState(n) \/ Propose(n) \/ Reject(n) \/ BeginRead(n)

ClientStep(c) ==
    Cancel(c) \/ \E n \in Node : OpenSession(c, n) \/ NextCommand(c, n) \/ Get(c, n)

Next ==
    /\ \/ \E c \in Client : ClientStep(c)
       \/ \E n \in Node : TakeInput(n) \/ Lead(n) \/ Commit(n) \/ ConfirmRead(n)
                          \/ Follow(n) \/ Restart(n)
    /\ UNCHANGED plan

Spec == Init /\ [][Next]_<<vars, plan>>

\* A Leader with waiters commits, confirms a read or steps down: either a
\* quorum answers it or checkQuorum deposes it.
Settle(n) ==
    /\ Waiters(n) # {}
    /\ Follow(n) \/ ConfirmRead(n) \/ Commit(n)

\* The owner loop keeps taking inputs and consensus settles what is waited for.
Fairly ==
    /\ [][Next]_<<vars, plan>>
    /\ \A n \in Node : WF_vars(TakeInput(n)) /\ WF_vars(Settle(n))

-----------------------------------------------------------------------------
(* Properties *)

Command == [type : {"NoOp", "Open", "Close", "Set", "Delete", "Get"},
            sid : SessionID \cup {0}, seq : Nat, key : Key \cup {NoKey},
            value : Value \cup {NoValue}]
Call == [client : Client, number : Nat, cmd : Command]

\* Every variable has its type, and the state of a Node is the one the entries
\* it applied give on every other Node, also after it was recovered.
TypeOK ==
    /\ committed \in Seq(Entry)
    /\ log \in [Node -> Seq(Entry)]
    /\ applied \in [Node -> Nat]
    /\ leads \in [Node -> Nat]
    /\ terms \subseteq 1 .. MaxTerms
    /\ \A n \in Node : machine[n] = Replay(committed, applied[n])
    /\ \A n \in Node : inputs[n] \in Seq(Call) /\ Len(inputs[n]) <= QueueSize
    /\ \A n \in Node : pending[n] \subseteq [index : Nat, call : Call]
    /\ inFlightMutations \in [Node -> [SessionID -> [sequence : Nat, index : Nat]]]
    /\ \A n \in Node : pendingReads[n] \subseteq [floor : Nat, call : Call]
    /\ call \in [Client -> Call \cup {NoCall}]
    /\ session \in [Client -> SessionID \cup {0}]
    /\ done \in [Client -> Nat]

\* A mutation changes the state at most once, and the mutations of a session
\* in the order of their sequences, however often they were proposed, by
\* whichever Leaders (evaluateMutation, apply).
AtMostOnce ==
    \A i, j \in DOMAIN committed :
        LET effect(k) == IsMutation(committed[k])
                         /\ HasEffect(Replay(committed, k - 1), committed[k])
        IN  (i < j /\ effect(i) /\ effect(j) /\ committed[i].sid = committed[j].sid)
                => committed[i].seq < committed[j].seq

\* The result a Client was given for a mutation is that of its one effect:
\* the mutation is committed and Delete reports what it found then, whether
\* the call proposed it, joined one in flight or was answered from the cache.
AckedIsTheEffect ==
    \A x \in acked : \E i \in DOMAIN committed :
        LET before == Replay(committed, i - 1)
        IN  /\ HasEffect(before, committed[i])
            /\ committed[i] = EntryOf(committed[i].term, x.cmd)
            /\ ResultOf(before, committed[i]).existed = x.existed

\* Whoever waits at an index waits at a Leader that still has to apply it and
\* that holds the caller's own command there: nobody is left waiting for an
\* index that is past, or gets the result of another command.
WaitersAwaitTheirCommand ==
    \A n \in Node : \A w \in pending[n] :
        /\ Leading(n)
        /\ w.index \in applied[n] + 1 .. Len(log[n])
        /\ log[n][w.index] = EntryOf(log[n][w.index].term, w.call.cmd)

\* A read returns the value of a state that has every mutation acknowledged
\* before the read was called (Get, ReadConfirmed).
ReadsSeeAcked ==
    \A r \in reads : \E i \in r.floor .. Len(committed) :
        Replay(committed, i).values[r.key] = r.value

\* The count of active sessions that the limit is checked against is right
\* (apply), and never above the limit.
ActiveCounted ==
    \A k \in 0 .. Len(committed) :
        LET m == Replay(committed, k)
        IN  /\ m.active = Cardinality({s \in SessionID : m.sessions[s].state = "Active"})
            /\ m.active <= SessionLimit

\* Every call is answered, even if its context never ends: no waiter is lost
\* when entries are applied, leadership changes or the process restarts.
EveryCallEnds == \A c \in Client : call[c] # NoCall ~> call[c] = NoCall

\* docs/adr/0003-deduplicate-mutations-in-replicated-state.md:3: the next
\* sequence is applied and cached, a duplicate of the latest returns its cached
\* result.  So a well-behaved Client is never refused a mutation.
LegalMutationsAccepted == \A x \in refused : ~IsMutation(x.cmd)
=============================================================================
