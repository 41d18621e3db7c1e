------------------------------- MODULE Client -------------------------------
(***************************************************************************)
(* client.Client against the Cluster, recorded by a History: withLeader    *)
(* goes from Node to Node until its call is answered, so that one call may *)
(* reach the replicated state several times, and long after it was given   *)
(* up.                                                                     *)
(*                                                                         *)
(* The Cluster is what Commands shows of it: one replicated state machine, *)
(* the Nodes that take themselves for its Leader, with the state each has  *)
(* applied, and what the others take for the Leader.  The newest Leader is *)
(* the one that commits; it answers mutations before it has caught up.     *)
(***************************************************************************)
EXTENDS Linearizability, FiniteSetsExt

CONSTANTS
    Process,      \* users of the Client, each with a Client Session
    Node, NoNode,
    Addresses,    \* the Nodes a Client is configured with, in order
    Plans,        \* the commands the users may want
    Flawed,       \* those with which a Cluster is checked too whose reads are wrong
    MaxAttempts,  \* maxAttempts
    MaxRepeats,   \* bound: calls a user makes again
    MaxChanges,   \* bound: changes of the Leader
    SessionLimit

ASSUME ClientAssumption ==
    /\ Addresses \in Seq(Node) /\ Addresses # <<>>
    /\ MaxAttempts \in Nat \ {0}
    /\ Process \subseteq SessionID
    /\ Flawed \subseteq Plans

Session == INSTANCE SessionMachine

VARIABLES
    machine,      \* the replicated state
    older,        \* the replicated state before the latest mutation
    serving,      \* the newest Leader, or NoNode
    leading,      \* the Nodes whose role is Leader: that one, and deposed ones
    view,         \* the state each Leader has applied
    believes,     \* leaderID at the other Nodes
    changes,
    requests,     \* mutations in the log of a Leader and not applied yet; at is the
                  \* Leader that has them in flight
    call,         \* withLeader of each user
    done,         \* commands each user has finished
    repeats,
    history, clock,
    plan,         \* the commands of each user
    correct       \* FALSE: reads are answered from a state that is out of date

leaders == <<serving, leading, view, believes, changes>>
vars == <<machine, older, leaders, requests, call, done, repeats, history, clock, plan, correct>>

NoEntry == <<0, 0>>
NoCall == [phase |-> "Idle", op |-> 0, address |-> NoNode, index |-> 1, attempt |-> 0,
           entry |-> NoEntry, answer |-> NoOutcome]

\* The recorded operation of user c's call.
Op(c) == history[call[c].op]

\* The entry a mutation puts into the log.
EntryOf(o) == [type |-> o.kind, sid |-> o.session, seq |-> o.sequence, key |-> o.key, value |-> o.value]

\* What the user gets to see of a result.
OutcomeOf(r) ==
    CASE r.failure = "Succeeded"  -> [NoOutcome EXCEPT !.existed = r.existed]
      [] r.failure = "Stale"      -> Failed("stale_sequence")
      [] r.failure = "OutOfOrder" -> Failed("out_of_order")
      [] OTHER -> Failed("session")

ReadOutcome(values, key) ==
    IF values[key] = NoValue THEN Failed("not_found")
    ELSE [NoOutcome EXCEPT !.found = TRUE, !.value = values[key]]

\* What no step of withLeader changes but the one that proposes.
Cluster == <<machine, older, leaders, requests>>

-----------------------------------------------------------------------------
(* withLeader *)

\* Set, Delete and Get: the user's next command, or one of which it does not
\* know what became of it, with the same sequence.
Begin(c) ==
    LET next == plan[c][done[c] + 1]
        o    == [kind |-> next.kind, session |-> c, sequence |-> next.sequence, key |-> next.key,
                 value |-> next.value]
    IN  /\ call[c].phase = "Idle"
        /\ done[c] < Len(plan[c])
        /\ call[c].op # 0 => repeats < MaxRepeats
        /\ repeats' = repeats + (IF call[c].op # 0 THEN 1 ELSE 0)
        /\ clock' = clock + 1
        /\ history' = Start(history, o, clock')
        /\ call' = [call EXCEPT ![c] = [NoCall EXCEPT !.phase = "Calling", !.op = Len(history'),
                                                      !.address = Addresses[1], !.attempt = 1]]
        /\ UNCHANGED <<Cluster, done, plan, correct>>

\* The call ends with an answer, which the user has recorded.
Return(c, outcome) ==
    /\ clock' = clock + 1
    /\ history' = Complete(history, call[c].op, outcome, clock')
    /\ call' = [call EXCEPT ![c] = NoCall]
    /\ done' = [done EXCEPT ![c] = @ + 1]

\* The call ends without one.
GiveUp(c) ==
    /\ call' = [call EXCEPT ![c] = [NoCall EXCEPT !.op = call[c].op]]
    /\ UNCHANGED <<clock, history, done>>

\* Mutated: one attempt too many.
AgainOneMore(c, r) ==
    IF r.attempt <= MaxAttempts
    THEN /\ call' = [call EXCEPT ![c] = [r EXCEPT !.phase = "Calling", !.attempt = @ + 1]]
         /\ UNCHANGED <<clock, history, done>>
    ELSE GiveUp(c)

\* The loop's next round, if there is one.
Again(c, r) ==
    IF r.attempt < MaxAttempts
    THEN /\ call' = [call EXCEPT ![c] = [r EXCEPT !.phase = "Calling", !.attempt = @ + 1]]
         /\ UNCHANGED <<clock, history, done>>
    ELSE GiveUp(c)

\* Mutated: following a hint is not an attempt.
HintedFree(c) ==
    /\ call' = [call EXCEPT ![c].address = believes[call[c].address], ![c].phase = "Calling"]
    /\ UNCHANGED <<clock, history, done>>

\* leaderHint: the Node knows another Leader.
Hinted(c) == Again(c, [call[c] EXCEPT !.address = believes[call[c].address]])

\* codes.Unavailable: the next configured address, after a while.
Unavailable(c) ==
    LET i == (call[c].index % Len(Addresses)) + 1
    IN  /\ call' = [call EXCEPT ![c].phase = "Backoff", ![c].index = i, ![c].address = Addresses[i]]
        /\ UNCHANGED <<clock, history, done>>

\* rejectIfNotLeader, ProposalRejected: the Node is not a Leader.
Refused(c) ==
    LET a == call[c].address
    IN  /\ call[c].phase = "Calling"
        /\ a \notin leading
        /\ IF believes[a] # NoNode THEN Hinted(c) ELSE Unavailable(c)
        /\ UNCHANGED <<Cluster, repeats, plan, correct>>

\* ReadRejected without a Leader: one that has not caught up refuses reads.
NotReadReady(c) ==
    /\ call[c].phase = "Calling"
    /\ Op(c).kind = "Get"
    /\ call[c].address = serving /\ view[serving] # machine
    /\ Unavailable(c)
    /\ UNCHANGED <<Cluster, repeats, plan, correct>>

\* A mutation reaches beginProposal at any Node whose role is Leader.
AtLeader(c) ==
    /\ call[c].phase = "Calling"
    /\ Op(c).kind # "Get"
    /\ call[c].address \in leading

\* The mutations of the call's session and sequence in flight at its Leader.
InFlight(c) ==
    {q \in requests : /\ q.at = call[c].address
                      /\ history[q.entry[1]].session = c
                      /\ history[q.entry[1]].sequence = Op(c).sequence}

Evaluated(c) == Session!EvaluateMutation(view[call[c].address], c, Op(c).sequence)

\* beginProposal joins a duplicate to the mutation in flight.
Join(c) ==
    /\ AtLeader(c)
    /\ \E q \in InFlight(c) :
          call' = [call EXCEPT ![c].phase = "Waiting", ![c].entry = q.entry]
    /\ UNCHANGED <<Cluster, done, repeats, history, clock, plan, correct>>

\* beginProposal answers at once, from the state this Leader has applied, whatever
\* evaluateMutation says is not the session's next mutation.
AnswerAtOnce(c) ==
    /\ AtLeader(c)
    /\ InFlight(c) = {}
    /\ ~Evaluated(c).apply
    /\ call' = [call EXCEPT ![c].phase = "Answered", ![c].answer = OutcomeOf(Evaluated(c))]
    /\ UNCHANGED <<Cluster, done, repeats, history, clock, plan, correct>>

\* The mutation becomes an entry of this Leader's log.
Submit(c) ==
    LET entry == <<call[c].op, call[c].attempt>>
    IN  /\ AtLeader(c)
        /\ InFlight(c) = {}
        /\ Evaluated(c).apply
        /\ requests' = requests \cup {[entry |-> entry, at |-> call[c].address]}
        /\ call' = [call EXCEPT ![c].phase = "Waiting", ![c].entry = entry]
        /\ UNCHANGED <<machine, older, leaders, done, repeats, history, clock, plan, correct>>

\* The Leader answers a read it has confirmed, by its state or by an older one.
Read(c) ==
    /\ call[c].phase = "Calling"
    /\ call[c].address = serving /\ view[serving] = machine
    /\ Op(c).kind = "Get"
    /\ \E values \in {machine.values} \cup (IF correct THEN {} ELSE {older.values}) :
           Return(c, ReadOutcome(values, Op(c).key))
    /\ UNCHANGED <<Cluster, repeats, plan, correct>>

\* The result of the mutation reaches the user.
Answered(c) ==
    /\ call[c].phase = "Answered"
    /\ Return(c, call[c].answer)
    /\ UNCHANGED <<Cluster, repeats, plan, correct>>

\* The Node stops or the connection breaks before that, or the Node tells that it
\* lost its leadership.
Lost(c) ==
    /\ call[c].phase \in {"Calling", "Waiting", "Answered"}
    /\ \/ Unavailable(c)
       \/ /\ call[c].phase = "Waiting" /\ call[c].address \notin leading
          /\ believes[call[c].address] # NoNode
          /\ Hinted(c)
    /\ UNCHANGED <<Cluster, repeats, plan, correct>>

Wake(c) ==
    /\ call[c].phase = "Backoff"
    /\ Again(c, call[c])
    /\ UNCHANGED <<Cluster, repeats, plan, correct>>

\* The user's deadline, in the call or while it waits to make the next one.
Expire(c) ==
    /\ call[c].phase # "Idle"
    /\ GiveUp(c)
    /\ UNCHANGED <<Cluster, repeats, plan, correct>>

-----------------------------------------------------------------------------
(* The Cluster *)

\* The newest Leader commits an entry and applies it, after all that precede it.
\* The attempt that made it may be over; lostLeadership rejected its waiters if the
\* Leader is another by now.
TakeEffect(q) ==
    LET e == EntryOf(history[q.entry[1]])
        told(c) == /\ q.at = serving
                   /\ call[c].phase = "Waiting"
                   /\ call[c].entry = q.entry /\ call[c].address = serving
    IN  /\ serving # NoNode
        /\ requests' = requests \ {q}
        /\ machine' = Session!ApplyEntry(machine, e)
        /\ older' = IF Session!HasEffect(machine, e) THEN machine ELSE older
        /\ view' = [view EXCEPT ![serving] = machine']
        /\ call' = [c \in Process |->
                      IF told(c)
                      THEN [call[c] EXCEPT !.phase = "Answered",
                                           !.answer = OutcomeOf(Session!ResultOf(machine, e))]
                      ELSE call[c]]
        /\ UNCHANGED <<serving, leading, believes, changes, done, repeats, history, clock, plan,
                       correct>>

\* The newest Leader has applied all that its predecessors committed.
CatchUp ==
    /\ serving # NoNode
    /\ view[serving] # machine
    /\ view' = [view EXCEPT ![serving] = machine]
    /\ UNCHANGED <<machine, older, serving, leading, believes, changes, requests, call, done,
                   repeats, history, clock, plan, correct>>

\* lostLeadership clears what the Nodes that are Leaders no more had in flight.
Forget(nodes) ==
    requests' = {[q EXCEPT !.at = IF q.at \in nodes THEN NoNode ELSE q.at] : q \in requests}

\* Another Node is elected, or none; earlier Leaders know that they are deposed or
\* not yet, and the other Nodes know the new one or none or another.
Change ==
    /\ changes < MaxChanges
    /\ changes' = changes + 1
    /\ serving' \in (Node \cup {NoNode}) \ {serving}
    /\ \E deposed \in SUBSET (leading \ {serving'}), applied \in {machine, older} :
          /\ leading' = deposed \cup ({serving'} \ {NoNode})
          /\ view' = [n \in Node |-> CASE n = serving' -> applied
                                       [] n # serving' /\ n \in deposed -> view[n]
                                       [] OTHER -> Session!Empty]
    /\ believes' \in {b \in [Node -> Node \cup {NoNode}] : \A n \in Node : b[n] = n <=> n \in leading'}
    /\ Forget(leading \ (leading' \ {serving'}))
    /\ UNCHANGED <<machine, older, call, done, repeats, history, clock, plan, correct>>

\* A deposed Leader hears of a later Term, or loses its quorum.
StepDown(n) ==
    /\ n \in leading \ {serving}
    /\ leading' = leading \ {n}
    /\ view' = [view EXCEPT ![n] = Session!Empty]
    /\ \E leader \in {serving, NoNode} : believes' = [believes EXCEPT ![n] = leader]
    /\ Forget({n})
    /\ UNCHANGED <<machine, older, serving, changes, call, done, repeats, history, clock, plan,
                   correct>>

-----------------------------------------------------------------------------
Opened == [s \in SessionID |-> [Session!NoSession EXCEPT !.state = "Active"]]

Init ==
    /\ machine = [Session!Empty EXCEPT !.sessions = Opened, !.active = Cardinality(SessionID)]
    /\ older = machine
    /\ serving = Addresses[1]
    /\ leading = {serving}
    /\ view = [n \in Node |-> IF n = serving THEN machine ELSE Session!Empty]
    /\ believes = [n \in Node |-> Addresses[1]]
    /\ changes = 0
    /\ requests = {}
    /\ call = [c \in Process |-> NoCall]
    /\ done = [c \in Process |-> 0]
    /\ repeats = 0
    /\ history = <<>>
    /\ clock = 0
    /\ plan \in Plans
    /\ correct \in BOOLEAN /\ (plan \notin Flawed => correct)

WithLeader(c) ==
    \/ Refused(c) \/ NotReadReady(c) \/ Join(c) \/ AnswerAtOnce(c) \/ Submit(c) \/ Read(c)
    \/ Answered(c) \/ Lost(c) \/ Wake(c) \/ Expire(c)

Next ==
    \/ \E c \in Process : Begin(c) \/ WithLeader(c)
    \/ \E q \in requests : TakeEffect(q)
    \/ CatchUp
    \/ Change
    \/ \E n \in Node : StepDown(n)

Spec == Init /\ [][Next]_vars

-----------------------------------------------------------------------------
(* Properties *)

\* Every variable has its type; a call is in the loop of withLeader exactly while
\* it has a command, and makes no more than maxAttempts.
TypeOK ==
    /\ serving \in Node \cup {NoNode}
    /\ believes \in [Node -> Node \cup {NoNode}]
    /\ leading \subseteq Node /\ (serving # NoNode => serving \in leading)
    /\ requests \subseteq [entry : (DOMAIN history) \X (1 .. MaxAttempts), at : leading \cup {NoNode}]
    /\ \A c \in Process :
           /\ call[c].phase \in {"Idle", "Calling", "Waiting", "Answered", "Backoff"}
           /\ call[c].attempt \in 0 .. MaxAttempts
           /\ call[c].phase # "Idle" => Pending(Op(c)) /\ call[c].address \in Node
           /\ done[c] \in 0 .. Len(plan[c])
    /\ \A o \in Range(history) : o.invoke <= clock /\ o.complete <= clock

\* The reference: the completed calls and some of the pending ones, in an order
\* that respects the clock, give their outcomes when the replicated state machine
\* itself executes them.
Ordered(h, s) ==
    \A i, j \in DOMAIN s : ~Pending(h[s[i]]) /\ h[s[i]].complete <= h[s[j]].invoke => i < j
Executed(h, s) ==
    LET execute(r, i) ==
            LET o == h[i]
                e == EntryOf(o)
                result == IF o.kind = "Get" THEN ReadOutcome(r.machine.values, o.key)
                          ELSE OutcomeOf(Session!ResultOf(r.machine, e))
            IN  [machine |-> IF o.kind = "Get" THEN r.machine ELSE Session!ApplyEntry(r.machine, e),
                 agrees  |-> r.agrees /\ (Pending(o) \/ result = o.outcome)]
        start == [Session!Empty EXCEPT !.sessions = Opened]
    IN  FoldLeft(execute, [machine |-> start, agrees |-> TRUE], s).agrees
Explained(h) ==
    LET pending == {i \in DOMAIN h : Pending(h[i])}
    IN  \E some \in SUBSET pending :
            \E s \in SetToSeqs((DOMAIN h \ pending) \cup some) : Ordered(h, s) /\ Executed(h, s)

\* Check accepts no history of calls that the Cluster's own session semantics
\* cannot explain, also when reads went wrong (checkOrder, eligible, apply).
CheckSound == Check(history) => Explained(history)

\* However often withLeader repeats a mutation, at whichever Leaders, and however
\* late a repetition takes effect, the users see a linearizable history and Check
\* accepts it.  Two exceptions: a pending Delete, which Check places only when it
\* found nothing, and a mutation that was told out_of_order, which a Leader that has
\* not caught up tells a user who is in order, and Check does not accept of a
\* session's first mutation.
HistoriesAccepted ==
    /\ correct
    /\ \A o \in Range(history) : Pending(o) => o.kind # "Delete"
    /\ \A o \in Range(history) : o.outcome.error # "out_of_order"
    => Check(history)

\* Whatever the Nodes answer, hints that lead in a circle included, a step of
\* withLeader ends the call or brings it closer to its last attempt, so that every
\* call returns.
Rank(r) ==
    4 * r.attempt + (CASE r.phase = "Calling" -> 0 [] r.phase = "Waiting" -> 1
                       [] r.phase = "Answered" -> 2 [] r.phase = "Backoff" -> 3)
LoopAdvances ==
    [][\A c \in Process :
           call[c].phase # "Idle" /\ call'[c] # call[c] /\ call'[c].phase # "Idle"
               => Rank(call'[c]) > Rank(call[c])]_vars
=============================================================================
