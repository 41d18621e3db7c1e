-------------------------- MODULE Linearizability --------------------------
(***************************************************************************)
(* internal/linearizability: the recorded history of client calls and the  *)
(* search Check makes for a sequential explanation of it.  Times are the   *)
(* readings of the harness's clock; 0 is the zero time of a pending call.  *)
(***************************************************************************)
EXTENDS Integers, Sequences, SequencesExt, FiniteSets

CONSTANTS SessionID, Key, Value, NoValue

NoOutcome == [value |-> NoValue, found |-> FALSE, existed |-> FALSE, error |-> ""]
Failed(error) == [NoOutcome EXCEPT !.error = error]

Pending(o) == o.complete = 0

-----------------------------------------------------------------------------
(* The recorder *)

\* History.Start.
Start(h, o, now) == Append(h, o @@ [invoke |-> now, complete |-> 0, outcome |-> NoOutcome])

\* The completion function Start returns; it has an effect once.
Complete(h, i, outcome, now) ==
    IF ~Pending(h[i]) THEN h
    ELSE [h EXCEPT ![i].complete = now, ![i].outcome = outcome]

-----------------------------------------------------------------------------
(* The checker *)

\* newModel; last is 0 for a session the model has not met.
NewModel == [values   |-> [k \in Key |-> NoValue],
             sessions |-> [s \in SessionID |-> [last |-> 0, result |-> NoOutcome]]]

\* model.apply: the model after the call and the outcome it gives.
Apply(m, o) ==
    LET s        == m.sessions[o.session]
        exists   == s.last # 0
        current  == m.values[o.key]
        applied  == [NoOutcome EXCEPT !.existed = o.kind = "Delete" /\ current # NoValue]
        same(outcome) == [model |-> m, outcome |-> outcome]
    IN  CASE o.kind = "Get" /\ current = NoValue -> same(Failed("not_found"))
          [] o.kind = "Get" /\ current # NoValue ->
                same([NoOutcome EXCEPT !.found = TRUE, !.value = current])
          [] o.kind # "Get" /\ exists /\ o.sequence = s.last -> same(s.result)
          [] o.kind # "Get" /\ exists /\ o.sequence < s.last -> same(Failed("stale_sequence"))
          [] o.kind # "Get" /\ exists /\ o.sequence > s.last + 1 -> same(Failed("out_of_order"))
          [] OTHER ->
                [model   |-> [m EXCEPT !.values[o.key] = o.value,
                                       !.sessions[o.session] = [last |-> o.sequence, result |-> applied]],
                 outcome |-> applied]

\* Mutated: the order of the clock is not looked at.
EligibleAnytime(i, h, used) == TRUE

\* Mutated: a pending call comes before the ones invoked after it.
EligibleAfterPending(i, h, used) ==
    \A j \in DOMAIN h \ (used \cup {i}) : h[i].invoke < (IF Pending(h[j]) THEN h[j].invoke ELSE h[j].complete)

\* No unused call was complete when call i was invoked.
Eligible(i, h, used) ==
    \A j \in DOMAIN h \ (used \cup {i}) : ~Pending(h[j]) => h[i].invoke < h[j].complete

\* The unused calls are placed, or omitted while they are pending.
RECURSIVE CheckOrder(_, _, _)
CheckOrder(h, used, m) ==
    \/ used = DOMAIN h
    \/ \E i \in DOMAIN h \ used :
           /\ Eligible(i, h, used)
           /\ \/ LET r == Apply(m, h[i])
                 IN  r.outcome = h[i].outcome /\ CheckOrder(h, used \cup {i}, r.model)
              \/ Pending(h[i]) /\ CheckOrder(h, used \cup {i}, m)

\* Check, on a history whose calls do not complete before they begin.
Check(h) == CheckOrder(h, {}, NewModel)
=============================================================================
