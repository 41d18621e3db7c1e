--------------------------- MODULE SessionMachine ---------------------------
(***************************************************************************)
(* sessionMachine of internal/node/session.go: the replicated state every  *)
(* Node computes from the committed entries, as pure operators.  A session *)
(* that was never opened maps to NoSession, a Key without a Value to       *)
(* NoValue.                                                                *)
(***************************************************************************)
EXTENDS Integers, SequencesExt

CONSTANTS SessionID, Key, Value, NoValue, SessionLimit

ASSUME SessionAssumption ==
    /\ IsFiniteSet(SessionID)
    /\ NoValue \notin Value
    /\ SessionLimit \in Nat \ {0}

NoSession == [state |-> "None", lastSequence |-> 0, lastMutationResult |-> "Succeeded",
              lastDeleteExisted |-> FALSE]

\* newSessionMachine.
Empty == [active   |-> 0,
          sessions |-> [s \in SessionID |-> NoSession],
          values   |-> [k \in Key |-> NoValue]]

\* Mutated: a duplicate of the latest sequence is applied again.
EvaluateWithoutCache(m, sid, seq) ==
    LET r == m.sessions[sid]
        failure == CASE r.state = "None" -> "Unknown"
                     [] r.state = "Closed" -> "Closed"
                     [] r.state = "Active" /\ seq < r.lastSequence -> "Stale"
                     [] r.state = "Active" /\ seq > r.lastSequence + 1 -> "OutOfOrder"
                     [] OTHER -> "Succeeded"
    IN  [apply |-> failure = "Succeeded", failure |-> failure, existed |-> FALSE]

\* Mutated: the cached result of a Delete is lost.
EvaluateForgetsExisted(m, sid, seq) ==
    LET r == m.sessions[sid]
        active == r.state = "Active"
        failure == CASE r.state = "None" -> "Unknown"
                     [] r.state = "Closed" -> "Closed"
                     [] active /\ seq < r.lastSequence -> "Stale"
                     [] active /\ seq > r.lastSequence + 1 -> "OutOfOrder"
                     [] OTHER -> "Succeeded"
    IN  [apply |-> active /\ seq = r.lastSequence + 1, failure |-> failure, existed |-> FALSE]

\* evaluateMutation: whether the mutation is the next of its session, and the
\* result to give when it is not; the latest one repeats its cached result.
EvaluateMutation(m, sid, seq) ==
    LET r == m.sessions[sid]
        active == r.state = "Active"
        replay == active /\ seq = r.lastSequence /\ seq # 0
        failure == CASE r.state = "None" -> "Unknown"
                     [] r.state = "Closed" -> "Closed"
                     [] replay -> r.lastMutationResult
                     [] active /\ seq < r.lastSequence -> "Stale"
                     [] active /\ seq > r.lastSequence + 1 -> "OutOfOrder"
                     [] OTHER -> "Succeeded"
    IN  [apply   |-> active /\ seq = r.lastSequence + 1,
         failure |-> failure,
         existed |-> replay /\ r.lastDeleteExisted]

\* apply, cases EntryOpenSession and EntryCloseSession.
OpenFailure(m, sid) ==
    CASE m.sessions[sid] # NoSession  -> "AlreadyExists"
      [] m.sessions[sid] = NoSession /\ m.active >= SessionLimit -> "LimitReached"
      [] OTHER -> "Succeeded"

\* Mutated: a closed session is closed again.
CloseAgain(m, sid) == IF m.sessions[sid].state = "None" THEN "Unknown" ELSE "Succeeded"

CloseFailure(m, sid) ==
    CASE m.sessions[sid].state = "None"   -> "Unknown"
      [] m.sessions[sid].state = "Closed" -> "Closed"
      [] OTHER -> "Succeeded"

\* The result of an entry applied to m.
ResultOf(m, e) ==
    CASE e.type = "NoOp"  -> [failure |-> "Succeeded", existed |-> FALSE]
      [] e.type = "Open"  -> [failure |-> OpenFailure(m, e.sid), existed |-> FALSE]
      [] e.type = "Close" -> [failure |-> CloseFailure(m, e.sid), existed |-> FALSE]
      [] e.type \in {"Set", "Delete"} ->
             LET v == EvaluateMutation(m, e.sid, e.seq)
             IN  [failure |-> v.failure,
                  existed |-> IF v.apply THEN e.type = "Delete" /\ m.values[e.key] # NoValue
                              ELSE v.existed]

\* Whether the entry changes the state.
HasEffect(m, e) ==
    CASE e.type \in {"Set", "Delete"} -> EvaluateMutation(m, e.sid, e.seq).apply
      [] e.type \in {"Open", "Close"} -> ResultOf(m, e).failure = "Succeeded"
      [] OTHER -> FALSE

\* apply: the state after the entry.
ApplyEntry(m, e) ==
    CASE ~HasEffect(m, e) -> m
      [] HasEffect(m, e) /\ e.type = "Open" ->
             [m EXCEPT !.sessions[e.sid] = [NoSession EXCEPT !.state = "Active"],
                       !.active = @ + 1]
      [] HasEffect(m, e) /\ e.type = "Close" ->
             [m EXCEPT !.sessions[e.sid].state = "Closed", !.active = @ - 1]
      [] OTHER ->
             LET r == ResultOf(m, e)
             IN  [m EXCEPT !.values[e.key] = IF e.type = "Set" THEN e.value ELSE NoValue,
                           !.sessions[e.sid] = [@ EXCEPT !.lastSequence = e.seq,
                               !.lastMutationResult = r.failure,
                               !.lastDeleteExisted = r.existed]]

\* The state after the first k entries of a log, as a Node that applies or
\* recovers them computes it.
Replay(l, k) == FoldLeft(ApplyEntry, Empty, SubSeq(l, 1, k))
=============================================================================
