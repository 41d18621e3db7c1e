---------------------------- MODULE MCLifecycle ----------------------------
(***************************************************************************)
(* Instances of Lifecycle for TLC.                                         *)
(***************************************************************************)
EXTENDS Lifecycle

Load(ms, snaps, fails, cs) == [messages |-> ms, snapshots |-> snaps, failures |-> fails, callers |-> cs]

Exchanging == Load(3, 0, 1, {})
Serving    == Load(2, 0, 1, {"proposal"})
Compacting == Load(2, 1, 0, {"snapshot"})
Failing    == Load(1, 1, 1, {"snapshot"})
Collapsing == Load(0, 1, 3, {"proposal", "snapshot"})
Mixed == {Exchanging, Serving, Compacting, Failing, Collapsing}
=============================================================================
