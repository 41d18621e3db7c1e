# Ternion in TLA+

Ternion is a key-value store of three Nodes. Each Node runs one owner loop
(`internal/node/runtime_loop.go`) around a deterministic Raft core
(`internal/raft/raft.go`). The loop persists what the core asks for in a segmented
write-ahead log (`internal/wal`) and in Snapshot files (`internal/snapshot`), applies
committed entries to a session machine (`internal/node/session.go`), and answers the
gRPC handlers through a command coordinator (`internal/node/command_coordinator.go`).
Clients (`client/client.go`) go from Node to Node until they find the Leader.

This directory models those parts in TLA+, checks them with TLC on small instances,
and proves some of the results with TLAPS for every instance. Paths are relative to
`src/` unless they start with it. Every definition that stands for code is listed in
`PROJECT.json` under `map`, with the lines it stands for. Definitions that start with
"Mutated:" in their comment are deliberate mistakes; each shows that a property
notices its mistake (`mutants` in `PROJECT.json`), and no specification uses them.

## How the parts fit together

```
  Client ──withLeader──▶ handlers ──queue──▶ owner loop ──events──▶ Raft core
    │                                          │   ▲                   │
 History, Check                  sessionMachine│   │Sends              │actions
                                               ▼   │                   ▼
                                         coordinator, peers    WAL, Snapshot files
```

No single model holds all of this: each module takes one boundary, and the next one
up uses what was shown below it.

* `Raft` implements `ReplicatedLog` (checked and, under one condition, proved; see Proofs).
* `Commands` puts the coordinator, the queue and the handlers on top of
  `ReplicatedLog`; its actions are conjoined with those of `ReplicatedLog`, so that it
  can do nothing that consensus does not promise.
* `Client` puts `withLeader` and the history checker on top of one replicated session
  machine, the same `SessionMachine` that `Commands` replicates, and of Leaders that
  have applied all of it or not.
* `Raft` takes for granted that a step of the core is durable once it is over, and
  that a crash inside an append leaves a prefix of its writes. `Storage` shows what the
  WAL and the Snapshot files give in that respect.
* `Raft` has uncompacted logs. `Transfer` adds compaction and Snapshot transfer, for
  one Follower and a history whose commitment it takes from `Raft`.
* `Lifecycle` looks at the goroutines around all this: how they start, wait for each
  other and end.

## Modules

| Module | What it models | Code |
|---|---|---|
| `RaftLog` | Pure functions on a log: `termAt`, `matches`, `entriesBatch`, `entriesToAppend`, `truncateLog`, `conflictHint`, `nextIndexFromConflict`, `candidateLogIsUpToDate` | `internal/raft/raft.go` |
| `Raft` | A Cluster of cores under their runtimes | `internal/raft/raft.go`, `internal/node/raft_runtime.go` |
| `ReplicatedLog` | What consensus promises the state machines | abstract |
| `RaftRefinement` | The mapping under which `Raft` implements `ReplicatedLog` | |
| `SessionMachine` | Sessions, sequences, cached results, values | `internal/node/session.go` |
| `Commands` | Handlers, input queue, `commandCoordinator` on `ReplicatedLog` | `internal/node` |
| `WALRecovery` | What a start makes of segments and Snapshot files | `internal/wal`, `internal/snapshot` |
| `Storage` | The writes of the loop and of the Snapshot goroutine | `internal/wal`, `internal/node` |
| `Transfer` | Repair of a Follower over compacted logs | `internal/raft/raft.go`, `internal/node/runtime_loop.go` |
| `Linearizability` | The recorder and the search of the history checker | `internal/linearizability` |
| `Client` | `withLeader` against a Cluster that changes its Leader | `client/client.go` |
| `Lifecycle` | `Run`, `runRaft`, servers, handlers, background Snapshots | `internal/node` |
| `MCRaft`, `MCCommands`, `MCStorage`, `MCClient`, `MCLifecycle` | Instances for TLC (`Transfer` is its own) | |
| `RaftInvariants` | Inductive invariants of `Raft`, and the shapes of its steps | |
| `RaftLogProofs`, `RaftProofs`, `RaftElectionProofs`, `RaftProbeProofs`, `RaftCommitProofs`, `RaftSafetyProofs`, `ReplicatedLogProofs`, `LifecycleProofs` | Theorems and their proofs | |

### Raft

One event of a core is one action, because the runtime is synchronous:
`raftRuntime.step` completes every Persist action of a step and feeds the completion
back before it takes another event, and messages go to the transport when the step is
over. The durable and the volatile copy of term, vote, log and commit index therefore
agree between steps, and there is one variable for both. A crash inside the one step
that writes several records, a truncation followed by an append, is
`CrashDuringAppend`; a crash in any other step leaves what the step followed by
`Restart` leaves.

| Variables | Code |
|---|---|
| `role`, `term`, `votedFor`, `leaderID`, `recentLeaderContact`, `votes`, `preVotes` | fields of `raft.Node` |
| `electionTimer` | whether the runtime's election timer runs |
| `log`, `commitIndex` | log and commit index, durable |
| `activePeers`, `matchIndex`, `nextIndex`, `appendInFlight`, `nextRequestID` | what a Leader keeps per peer |
| `readReady`, `pendingReads`, `nextReadID` | ReadIndex |
| `msgs`, `delivered` | the network: everything sent, and what of it arrived |

The handlers are actions of their own (`HandleVoteRequest`, `HandleAppendEntries`,
...), and so are the timers (`StartPreVote`, `ElectionTimeoutAtLeader`,
`HeartbeatTimeout`, `CheckQuorumTimeout`), `Propose`, `ConfirmRead` and `Restart`. A
Send RPC that fails is part of the action that sends. A message in `msgs` may arrive at
any later time or never, so messages are lost, delayed and reordered; the types in
`Redelivered` also arrive repeatedly. Request IDs are numbered per peer, since the
code compares them only with the request in flight to the same peer.

### ReplicatedLog

A committed sequence that only grows; for each Node a log, how much of it is applied,
and the term it believes it leads. Several Nodes may believe they lead. A Leader
extends its log, commits up to an entry of its own term, and is elected only with
everything that earlier terms committed. A Follower's log may be replaced, except for
what it has applied. One clause is there for the coordinator: the step that deposes a
Leader applies nothing in the place of what the Leader had proposed, because the loop
hands out results of applied indices before it rejects the waiters of a lost
leadership.

### SessionMachine and Commands

`SessionMachine` is `sessionMachine`: `evaluateMutation` (next, duplicate, stale, out
of order, unknown or closed session) and `apply`. In `Commands` every iteration of the
owner loop is an action: it takes an input (`Join`, `AnswerFromState`, `Propose`,
`Reject`, `BeginRead`) or lets consensus act (`Lead`, `Commit`, `ConfirmRead`,
`Follow`, `Restart`). The state has `inputs`, `pending`, `inFlightMutations` and
`pendingReads` as in `commandCoordinator`. Clients are well behaved: they use the
session they opened and repeat a mutation under its sequence until it succeeds.

### WALRecovery and Storage

A segment is a sequence of frames and a header; a frame is a record or torn. The loop
and the Snapshot goroutine take turns at the mutex of the WAL, one call at a time; a
call creates segments, writes frames, syncs and removes covered segments one step at a
time, and a stop may come between any two. A power failure drops any unsynced tail and
may tear the frame after it, a process failure keeps everything written, and one may
follow the other. Two more kinds are chosen separately, because they have consequences of
their own: a stop that leaves a new segment without its header ("Header"), and a power
failure that loses the newest segment files, whose directory entries only
`installSnapshotCheckpoint` syncs ("Directory", `CrashLosesFiles`). `WALRecovery` is the
other side: `RecoverSegments`, `TruncateFinalFrame`, the choice of the checkpoint, of the
newest compatible Snapshot file, and the log above it.

Two variables are only compared with. `stable` is what the core takes to be durable: it
decides what the core asks for next. `acked` is what the WAL calls that returned made
durable, followed by the frames that recovery found and no sync has covered. They differ
because `open` syncs nothing: a record that a killed process had written is recovered, and
a later power failure may still take it.

### Transfer

A Follower and the two other members, either of which may lead. Logs have a base,
Snapshots take one or two chunks, and an answer may be late, lost or for a Snapshot
that has been replaced. The Follower's core, its state machine and the checkpoint of
its WAL are separate fields, since `runRaft` restores the machine and the WAL before
the core looks at the request.

### Client and Linearizability

`withLeader` is a loop over phases (calling, waiting for the answer, answered,
backing off) with its address, its index into the configured addresses and its number
of attempts. `serving` is the newest Leader, `leading` has the deposed ones that do not
know it yet, and `view` is what each has applied. A mutation passes at any of them: it
joins the one in flight (`Join`), is answered from the applied state, caught up or not
(`AnswerAtOnce`), or enters the log (`Submit`). A read waits until the newest Leader has
caught up. An attempt whose answer is lost stays in `requests` and may take effect at any
later time. `History` records calls, and `Check` is the search of the
repository's checker: `Eligible`, `Apply`, pending calls placed or dropped.

### Lifecycle

Node A starts and stops, peer B stays up. Goroutines are the three servers, the owner
loop, the background Snapshot, the handler of a Client call, and a caller of
`CreateSnapshot`, which no server stands in front of: it may be called before `Run`, and
`GracefulStop` does not wait for it. `serveErrors` has its three slots, `inputs` its capacity, Sends are
synchronous and may find the peer's queue full. What a step of the core decides is
left open.

## Runs

Each run finishes in less than five minutes with two workers. A variable that never
changes (`limits`, `plan`, `faults`, `load`, `correct`) chooses the scenario in the
initial state where several scenarios belong to one question.

| Run | What it shows |
|---|---|
| `raft_replication` | A Leader replicates while Sends to one peer fail and requests expire; a Leader repairs logs of three terms, as in the Raft paper's commitment example; a deposed Leader's log is replaced. `LogMatching`, `MatchIndexSound` (what a Leader believes of its peers is true, although an answer carries the peer's last index), `CommittedOnQuorum`, and the refinement `ImplementsReplicatedLog`. |
| `raft_succession` | Two rivals campaign for one term, with repeated vote messages and restarts; a Leader is succeeded before and after its proposal commits; a deposed Leader still has a read under way. `ElectionSafety`, `LeaderCompleteness`, `ReadsSeeCommitted`, `ImplementsReplicatedLog`. |
| `commands_calls` | Two Clients, two Leaders, cancelled calls, restarts. `AtMostOnce`, `AckedIsTheEffect` (the result a Client got is that of the one effect, whether it proposed, joined or was answered from the cache), `WaitersAwaitTheirCommand`, `ReadsSeeAcked`, `ActiveCounted`, and the liveness property `EveryCallEnds`. |
| `storage_failures` | Power and process failures at every write and in any order. In *plain* histories (`PlainHistory`: entries are appended, truncated and committed, or the WAL is compacted, but not both; no Snapshot is received, segments keep their headers, and a Node that compacts stops in one way only): `RestartSucceeds`, also when segment files are lost, `CallsAccepted`, and `RecoversAcknowledged` (exactly what calls acknowledged, and at most a prefix of what was interrupted since). In all histories, received Snapshots and missing headers included: `CommittedSurvives`, for the Nodes that start. The last two are stated for failures that keep the segment files. |
| `transfer` | Repair of a Follower by hints and Snapshots under one kind of fault at a time: failing Sends, lost answers, late answers, a restart, the Follower's own compaction, an election. `CommittedKept`, `MatchIndexSound`, `MachineIsApplied`, `StaysUp`, and the liveness property `CatchesUp`. |
| `client_histories` | Retries over stale hints, at Leaders that have not caught up and at deposed ones, while earlier attempts are still under way. `CheckSound` (Check accepts nothing the session machine cannot explain, also when reads are wrong), `HistoriesAccepted` (unless a Delete is pending or a mutation was told "out of order"), `LoopAdvances`. |
| `lifecycle` | Cancellation and failures of any part. `WALOpenWhileUsed`, and the liveness properties `ShutdownCompletes`, `OwnersReturn`, and `SnapshotCallEnds` for calls of `CreateSnapshot` at any time, on a Node whose `Run` starts its loop. |

Five more runs end in a violation; see Findings.

### Bounds, and why they are enough

* `Raft`: three Nodes, which is the only size the program has. The runs do not start
  from empty disks but from states the Cluster reaches from there (`MCRaft` says how),
  so that the bounds are spent where something happens. Logs have at most three
  entries: a committed one, one that may be replaced, one that replaces it. The
  commitment example needs three terms and an entry of each; `Diverged` starts in the
  fourth. Each starting state restricts who can talk to whom to the pair of links the
  scenario needs, and within these links every interleaving, loss and delay is
  explored. `MaxBatch` is 1, so that repairing takes several requests.
* `Commands`: two Nodes suffice, because the quorum is below, in `ReplicatedLog`: one
  Node leads while the other takes over. A queue of two, a session limit of one, and
  three calls per Client let calls overlap, repeat and hit the limit.
* `Storage`: two or three log positions and up to three segments, with a frame or two
  per segment, so that a call spans segments and a checkpoint covers some of them. The
  number of stops is not bounded. One history starts with an uncommitted suffix on disk
  (`WithSuffix`), so that the segment of its truncation is compacted within the bound, and
  recovery refuses the log or brings entries back. `MCStorage` pairs operations with failures; the pairs
  outside `PlainHistory` are those in which recovery may refuse, and the conditions of the
  properties are necessary: without them TLC finds each property violated.
* `Transfer`: a history of up to four entries in three terms, Snapshots at two and
  four, one of them in two chunks. One failure suffices for a lost or late answer to
  meet a newer Snapshot.
* `Client`: two addresses, two attempts per call, one repeated call and one change of
  the Leader; four plans, in which a read races a Set and a Delete, two reads race a
  Set, two Sets race, and a session starts with its second sequence; wrong reads in all of
  them but the third (`Flawed`).
* `Lifecycle`: queues of two (256 in the code), up to three messages from each owner,
  and the loads of `MCLifecycle`, which combine messages, handlers, Snapshots and up to
  three failures.

`CHECK_DEADLOCK FALSE` appears where the system may stop: a Node that does not start
again (`storage_failures`, `storage_overtaken`), users who are done (`client_histories`),
a Node that is closed (`lifecycle`). The other runs have no deadlock.

### Fairness

* `commands_calls`: the owner loop takes inputs (`TakeInput`), and consensus settles
  what is waited for (`Settle`): a Leader with waiters commits, confirms or steps down,
  because either a quorum answers it or `checkQuorum` deposes it. A caller's deadline is
  not relied on.
* `transfer`: heartbeat timers fire, queues are served, a deposed Leader learns of its
  successor, and a stopped process is started again. Compaction, proposals and faults
  need not happen.
* `lifecycle`: goroutines that can run do (`Proceed`), and an RPC that finds the
  peer's queue full times out after `peerRPCTimeout`. Neither the grace period of the
  shutdown nor a caller's deadline is relied on.
* `raft_live_majority`: the timers of the two live Nodes fire when they run, and the
  messages between them arrive.

## Findings

Places where the code does not do what the repository says; each is a run that ends in
a violation.

1. **A spent election timer** (`raft_live_majority`, `internal/raft/raft.go:672`). An
   election timeout at a Leader is ignored without restarting the timer, and a
   step-down through a higher term does not restart it either. That Node does not
   campaign again until something else resets the timer. If only it can win, two
   connected Nodes stay without a Leader; `src/README.md:11` promises a store "that
   continues after one node fails while the other two can communicate".
2. **A fresh Leader refuses a legal mutation** (`commands_fresh_leader`,
   `internal/node/command_coordinator.go:129`). `beginProposal` judges the sequence
   against what the Leader has applied. A new Leader that has not applied what its
   predecessor committed answers "unknown session" or "out of order" to the next
   mutation; `docs/adr/0003-deduplicate-mutations-in-replicated-state.md:3` says "the
   next sequence is applied and cached".
3. **An overtaken local Snapshot** (`storage_overtaken`, `internal/wal/wal.go:321`).
   `Compact` does not compare its index with the Snapshot the WAL already records. A
   local Snapshot that finishes after a newer one was received moves the checkpoint
   back, and recovery loses committed entries or fails; `docs/architecture.md:36` says
   compaction "retains history needed by the active state and later entries".
4. **A lost answer stops a Snapshot transfer** (`transfer_lost_answer`,
   `internal/raft/raft.go:936`). Only append requests expire at a heartbeat; a Snapshot
   request in flight ends with an answer or a failed Send of the Leader. When the
   Follower's answer is lost, the Leader sends it nothing more;
   `internal/node/runtime_loop.go:204` says "The next timer or inbound message retries
   protocol progress."
5. **A stale rejection** (`raft_stale_answer`, `internal/raft/raft.go:1031`). A Follower
   rejects a request of an earlier term with its own term and without a conflict
   (`raft.go:962`). If the sender of that request leads again, in the term of the
   rejection, and has nothing in flight, it takes the rejection for an answer to its new
   term and starts over at index 1. A batch from there that agrees with the Follower's log
   is accepted, and answered with the Follower's last index (`raft.go:1017`), which lies
   beyond what the two logs share. The Leader counts it as a match and commits an entry
   that nobody else holds; `docs/architecture.md:27` says "A mutation is acknowledged only
   after durable replication to a Quorum".

Smaller observations that shaped the conditions of properties, all under `hazards` in
`PROJECT.json`: a truncation record below a checkpoint makes recovery refuse the log
(`wal.go:699`); a removed truncation record can bring an uncommitted entry back
(`wal.go:783`); a segment without its header is refused (`wal.go:432`); a segment file
whose directory entry was never synced may be lost with the records acknowledged in it
(`wal.go:460`); `open` syncs nothing it recovers (`wal.go:242`), so that a vote or an entry
that a killed process had written, the restarted one acted on and nothing wrote again may
be lost when the power fails, while `raft.go:537` says "Recovered state is durable by
definition", and a Snapshot of such a commit index outlives it and prevents a start; a received
Snapshot file without its WAL record prevents a start when it is the only file
(`runtime_loop.go:170`); the WAL keeps a suffix that the core dropped (`wal.go:343`);
the state machine is restored before the core accepts the Snapshot
(`runtime_loop.go:176`), and an older one stops the Node (`wal.go:336`); four failures
can fill the three slots of `serveErrors` (`node.go:132`); `CreateSnapshot` on a Node
whose `Run` failed before the loop started waits for its context (`snapshot.go:21`);
`Check` places a pending Delete only where it finds nothing, cannot order calls with equal
times (`linearizability.go:160`, `:168`), and takes any first sequence of a session for the
next one (`:184`).

## Proofs

`tlapm` checks every proof from nothing. The constants are arbitrary but for the named
assumptions. `RaftLogProofs` holds what the proofs about Raft share. `RaftProofs`,
`RaftElectionProofs` and `RaftProbeProofs` build on it independently of each other,
`RaftCommitProofs` on the last, and `RaftSafetyProofs` states the theorems. A leaf names
`Zenon` where it needs no arithmetic, and `SMTT` or `ZenonT` where the default time limit
would leave little room.

* **`RaftProofs.TypeCorrect`: `Spec => []TypeOK`**, from `NodeAssumption` (a finite
  Cluster of at least two Nodes) and `BoundAssumption`. `TypeOK` says more than types: no commit
  index exceeds its log, so `applyThrough` never indexes past the end, also after a
  truncation or a crash in the middle of an append. The inductive invariant is
  `TypeInv`: `TypeOK` and that a Leader's `nextIndex` is positive, without which
  `prevLogIndex` would not be a natural number. One lemma per action; the first
  lemmas of the module say what the log functions return, above all `AppendNewType`: a
  request that passes the consistency check leaves a log that covers what is
  committed.
* **`RaftSafetyProofs.ElectionSafe`: `Spec => []ElectionSafety`**, for any such
  Cluster and any bounds. The argument is about the votes that the messages record.
  `ElectionInv` says that a Node remembers a vote until it moves to a later term
  (`VotesKept`), votes once in a term (`VotesOnce`), a Candidate counts votes it was
  given (`VotesCounted`), and Leaders and senders of AppendEntries were elected by a
  quorum. `ElectionSafety` alone is not inductive: it says nothing about a Candidate
  that is about to win. Most actions are "quiet" (they cast no vote and raise nobody),
  which is shown once; the vote handlers and `startElection` are treated one by one,
  and two quorums meet.
* **`RaftSafetyProofs.LogsMatch`: `Spec => []LogMatching`**. The proof does not look at
  the actions again: `NextShape` shows that every step has one of a few shapes
  (`Listens`, `Campaigns`, `Wins`, `Sends`, `Learns`, `Accepts`, `Crashes`, `Rejects`),
  which say what becomes of one Node's log and role and which messages it may send. An
  entry can come from a Leader that is long gone and whose log no variable keeps, so the
  invariant speaks of a history: there are functions `L` and `W` such that `W[t]` led
  term `t` and `L[t]` is its log as it last was. `HistoryInv(L, W)` says that every log
  and every request is, up to each entry, the log of that entry's Leader. A step of a
  Leader extends `L` at its term (`Records`), every other step keeps it.
* **`MatchesSound`, `LeadersComplete`, `CommitsOnQuorum`** (`RaftSafetyProofs`):
  `MatchIndexSound`, `LeaderCompleteness` and `CommittedOnQuorum`, each as
  `Spec /\ [][StaleAnswersIgnored]_vars => []...`. The condition is finding 5 and
  nothing else: no Leader handles, as an answer of its term, a rejection without a
  conflict, which only a request of an earlier term gets, since a rejection in its own
  term names a conflict index. Without it the three are false of the code, as
  `raft_stale_answer` shows; the proofs use it in one place, where an answer moves
  `nextIndex` (`LearnsProbe` in `RaftProbeProofs`). The invariant `CommitInv(L, W)` has four parts.
  *Acknowledgements*: who answered a request of term `t` with success held `L[t]` up to
  that index, and keeps it until a Leader of a later term that lacks it makes it cut
  (`AcksKept`, `SuccessesHeld`). *Probes*: the code answers with the Follower's last
  index, not with the last index of the request; that is sound because a Leader starts
  at the end of its log and goes back only as far as a conflict hint shows the logs to
  differ, so a request is accepted only where the rest of the Follower's log agrees or
  is cut (`LeadersProbe`, `RequestsProbe`, `HintsProbe`). *Votes*: a voter compared the
  Candidate's log with one that held all it had acknowledged, so a Leader elected by a
  quorum has what an earlier quorum acknowledged (`VotesInformed`, `LeadersQualified`,
  `LaterLeadersHold`). *Commits*: every commit index, in a Node or a request, is covered
  by an entry that a quorum acknowledged in its Leader's term (`CommitsChosen`,
  `RequestsChosen`).
* **`RaftSafetyProofs.NodesAgree` and `CommitsKept`**: under the same condition no two
  Nodes ever differ in what they committed, and no step takes back what a Node committed
  (`[][CommitsStay]_vars`), be it a truncation, a crash in the middle of one or a restart.
* **`RaftSafetyProofs.ImplementsService`: `Spec /\ [][StaleAnswersIgnored]_vars =>
  ImplementsReplicatedLog`**, the refinement for every Cluster. A step in which a Node
  does not lead afterwards is a `Follow`, the step that wins an election a `Lead`, and
  a step of a Leader that stays one is a `Propose`, a `Commit` or a stutter
  (`MovesServe`, then `YieldsFollows`, `AscendsLeads`, `CommitsMore` in
  `RaftProofs`). Two facts are needed beyond `LeaderCompleteness`. The Node
  that committed most committed all that some Leader chose (`LastDecided`): the
  committed sequence of the mapping is read from whichever Node is ahead, and the
  promise to a new Leader depends on the term of its last entry. And no request tells of
  more than some Node committed (`RequestsBehind`), so that a Follower never moves the
  committed sequence. With `ReplicasAgree` and `NothingIsUndone` this gives state machine
  safety, and what `Commands` takes for granted, to every Cluster.
* **`ReplicatedLogProofs.ReplicasAgree` and `NothingIsUndone`**: no two Nodes of an
  implementation of `ReplicatedLog` apply different entries at an index, and no step
  takes back what was committed or applied. The invariant is that what a Node has
  applied is a prefix of the committed sequence.
* **`LifecycleProofs.WALStaysOpen` and `LifecycleTypeCorrect`**, from
  `LifecycleAssumption` (two Nodes, queues of at least one, any loads). The invariant
  adds `Chain`: the WAL is open exactly between the start and the end of `Run`, `Run`
  ends only without goroutines, the owner loop is one of them, and it outlives the
  Snapshot it started.

### Only model-checked

* The liveness properties, since TLAPS has no proof rules for fairness here:
  `EveryCallEnds`, `CatchesUp`, `ShutdownCompletes`, `OwnersReturn`,
  `SnapshotCallEnds`.
* The refinement and the three commit invariants *without* `StaleAnswersIgnored`: they
  are false in general, and hold on the instances of `raft_replication` and
  `raft_succession`, in which no Leader leads twice with a rejection under way.
* `ReadsSeeCommitted`. It compares a read with what was committed when the read began,
  and its proof needs the acknowledgements of a read round next to those of entries.
* Everything about `SessionMachine`, `Commands`, `Storage`, `Client` and
  `Linearizability`: they rest on folds and searches over sequences, whose meaning
  needs induction over data, which is out of reach of the provers behind TLAPS.
* `Transfer`, which takes a fixed history and one kind of fault at a time.

## Not modelled

* **Simulations** (`internal/simulation`, `cmd/ternionsim`): a second driver of the
  same core, with a schedule drawn from a seed. What it samples, TLC enumerates.
* **Configuration and validation** (`internal/config`,
  `internal/node/validation.go`): checks of fixed values before anything runs.
* **Metrics and health** (`internal/node/metrics.go`): counters no decision reads; the
  metrics server is one of the goroutines of `Lifecycle`.
* **Peer transport, in part** (`internal/node/peer.go`): the handshake, the cache of
  connections and the translation to protobuf. Send, its timeout, refusal and failure
  are modelled.
* **Go client, in part**: `OpenSession` and `CloseSession` go through the loop that is
  modelled, and are not called; sessions are open from the start.
* **Bytes**: frame lengths, checksums and the encoding of Snapshots. A frame is whole
  or torn and a checksum tells; a file system that extends a file with zeros
  (`wal.go:550`) is outside the model.
* **Command line tools and generated code.**
