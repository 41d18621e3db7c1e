----------------------------- MODULE MCCommands -----------------------------
(***************************************************************************)
(* Instances of Commands for TLC.                                          *)
(***************************************************************************)
EXTENDS Commands, TLC

CONSTANTS c1, c2, k1, v1, n1, n2

SetK    == [type |-> "Set", key |-> k1, value |-> v1]
DeleteK == [type |-> "Delete", key |-> k1, value |-> NoValue]
CloseS  == [type |-> "Close", key |-> NoKey, value |-> NoValue]

Plan(cs, alsoReads) == [commands |-> cs, reads |-> alsoReads]
SetThenDelete == c1 :> Plan(<<SetK, DeleteK>>, FALSE) @@ c2 :> Plan(<<>>, FALSE)
SetAndWatch   == c1 :> Plan(<<SetK>>, FALSE) @@ c2 :> Plan(<<>>, TRUE)
OpenAndClose  == [c \in Client |-> Plan(<<CloseS>>, FALSE)]
Wanted == {SetThenDelete, SetAndWatch, OpenAndClose}

\* n1 leads term t and opened a session for c1; n2 has not heard of it.  Of
\* the bounds, each Client c has left[c] calls, and used session identities
\* were generated.
OpenOf(sid) == [type |-> "Open", sid |-> sid, seq |-> 0, key |-> NoKey, value |-> NoValue]
Opened(t, wanted, left, used) ==
    /\ committed = <<NoOpOf(t), EntryOf(t, OpenOf(1))>>
    /\ log = n1 :> committed @@ n2 :> <<>>
    /\ applied = n1 :> 2 @@ n2 :> 0
    /\ leads = n1 :> t @@ n2 :> 0
    /\ terms = 1 .. t
    /\ machine = n1 :> Replay(committed, 2) @@ n2 :> Empty
    /\ inputs = [n \in Node |-> <<>>]
    /\ pending = [n \in Node |-> {}]
    /\ inFlightMutations = [n \in Node |-> [s \in SessionID |-> NotInFlight]]
    /\ pendingReads = [n \in Node |-> {}]
    /\ call = [c \in Client |-> NoCall]
    /\ session = [c \in Client |-> IF c = c1 THEN 1 ELSE 0]
    /\ done = [c \in Client |-> 0]
    /\ calls = [c \in Client |-> MaxCalls - left[c]]
    /\ opened = used
    /\ plan = wanted
    /\ acked = {}
    /\ refused = {}
    /\ readFloor = [c \in Client |-> 0]
    /\ reads = {}

Left(of1, of2) == c1 :> of1 @@ c2 :> of2
FailingOver == Opened(1, SetThenDelete, Left(3, 0), 3)
Watching    == Opened(1, SetAndWatch, Left(2, 1), 3)
Closing     == Opened(2, OpenAndClose, Left(2, 2), 1)

CallsSpec == (FailingOver \/ Watching \/ Closing) /\ Fairly
FailingOverSpec == FailingOver /\ [][Next]_<<vars, plan>>
=============================================================================
