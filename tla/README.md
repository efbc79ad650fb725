# FERAL: a TLA+ model of its core

FERAL is a local-first runtime: a *brain* (`feral-core`, Python, one asyncio
event loop plus worker threads) with long-lived memory, agents and device I/O,
and clients around it.  These modules model the parts of the brain whose
correctness depends on the order of things: what a brain writes and logs, what
it exchanges with other brains and when it dials them, what happens when a step
fails or the process restarts, who has a device port, which tools and agents may
do what, and what becomes of the agents that are running.  Paths are relative to `src/feral-core/`.

Contents: [inventory](#inventory), [plan](#plan), [the modules and the
code](#the-modules-and-the-code), [runs](#runs), [fairness](#fairness),
[proofs](#proofs), [findings](#findings), [what is not
modelled](#what-is-not-modelled), [running it](#running-it).

## Inventory

| Component | Where | State | Operations | Hard because | Correct when | Modelled |
|---|---|---|---|---|---|---|
| Hybrid logical clock | `memory/hlc.py` | `(_wall_ms, _counter)`, in memory only | `now`, `receive`, `receive_strict` | physical clocks drift and step back; counters overflow; a restart forgets | stamps increase, follow causality and stay near physical time | yes |
| Federated sync | `memory/sync.py`, `/sync` in `api/server.py` | `sync_wal.db`, vector clock, pause flag, sessions | log a write, dial, exchange, apply, bundle | coroutines and threads on the same rows; sessions break; relays | brains that share a scope converge; a row is what its newest operation says; nothing leaves its scope | mostly |
| Sync scopes and peer roster | `security/sync_scopes.py`, `security/peer_roster.py` | grants per peer | grant, revoke, filter on both sides | grants change between the filter and the gate | an operation travels only along mutual grants | grants and gates |
| Memory writers | `memory/store.py`, `memory/notes_legacy.py`, `memory/decay.py` | rows, tombstones | save and delete notes and episodes | the log and the row are two writes | row and log agree | with the sync |
| Sync scheduler | `memory/sync_scheduler.py` | failures and backoff per peer, a lock in each status, slots | tick, sync now, evict, rejoin, add, remove, prune | a status or a lock dropped under a call that uses it | a peer in the list is dialled again; exchanges with one peer do not overlap; eviction needs a streak | but for pruning |
| Task flows | `agents/taskflow.py` | flows and steps in sqlite | create, run, wait, cancel, resume, restart | cancellation during a step, restart inside a step | rows agree, no committed step runs again, flows settle | yes |
| Device I/O lock | `hardware/async_io_lock.py` | held, urgent waiters | acquire, urgent acquire, release | threads and coroutines, cancellation | one call at a time, emergency stop first | yes |
| Tool gate: approvals, plan mode, earned trust, loop guard | `agents/tool_runner.py`, `agents/plan_mode.py`, `security/exec_approvals.py`, `security/trust_ledger.py`, `skills/checkpoint_actions.py`, the batches and answers in `agents/orchestrator.py` | autonomy mode, plan mode, pending requests, standing approvals, streaks | dispatch, approve, deny, run, record, revert, change the mode | answers, parallel calls and settings interleave; some of it persists | what runs has a licence at that moment; trust is earned; plan mode has no way around | the calls that go through `ToolRunner` |
| Editor bridges | `bridges/`, `skills/impl/external_agent.py` | a child process per handle, turns, parked questions, a persisted index | run a task, answer, close; reopen, reattach | calls overlap; the child dies or goes deaf; the process restarts | nothing allowed without consent; no running agent out of reach; a handle stays usable until it is closed | yes |
| Capability grants of devices | `security/capability_grants.py` | grants per device | grant, check, expire | expiry | a capability is used by whom it was given to | no |
| Provider failover | `agents/llm_failover.py` | cooldowns | pick, fail, recover | failures of overlapping calls | a provider in cooldown is not picked while another can be | planned |
| Budgets | `agents/iteration_budget.py`, `cost/` | counters | charge, refuse | limits reached concurrently | never above the limit | planned |
| Process supervision | `infra/supervisor.py` | pid file | start, stop, restart | two starters, a stale pid | at most one brain runs | planned |
| Device pairing | `security/device_pairing.py` | codes, devices | issue, claim, expire | a code claimed twice or late | one device per code | planned |
| Checkpoints | `skills/checkpoints.py` | snapshots | take, rewind | a crash in between | a rewind restores what was there | planned |
| Orchestrator, tools, providers, voice, channels, clients | `agents/`, `voice/`, `channels/`, `feral-client-v2/` | conversations, streams | | mostly I/O and the output of a model | | no |

How they interact.  The memory writers call the sync engine to log an operation
*before* they write the row.  The scheduler calls `sync_with_peer` for each
peer; the dialled brain serves the exchange in its `/sync` handler; both sides
apply what they receive through `apply_remote_changes_from_peer`, which asks
the roster for the grants.  The engine stamps with the clock and advances it
with every stamp it accepts.  The task flows run skills and chats on the same
event loop that serves the HTTP routes which create, cancel and resume them.
Every tool call of a conversation, of its subagents and of an approved request
goes through the tool runner's gate, which asks the autonomy mode, plan mode, the
approvals and the trust ledger; the outcomes of a batch go back into the ledger.
Other callers reach `SkillExecutor.execute` directly and meet a gate there.
One of the skills keeps external agents as child processes, whose questions are
answered from the same store of approvals.  Skills reach devices through adapters, which take the device I/O lock around
each blocking call; the time budget of a skill cancels the coroutine that holds
or waits for the lock, and not the worker threads that work for it.

## Plan

| # | Module | Composes | Abstract specification | Status |
|---|---|---|---|---|
| 1 | `HLC`, `HLCNodes` | several clocks of `HLC` | | done, proved |
| 2 | `FederatedSync` | the clock of `HLC`, the exchange, the appliers, the writers, the roster | `ScopedGossip` | done; its safety properties proved, but for `WatermarkSound` |
| 3 | `TaskFlow` | runner, interface, process | | done, proved |
| 4 | `PriorityIOLock` | coroutines, worker threads, their pool | | done, proved |
| 5 | `AgentBridge` | skill calls, the session registry, children, their connections, the permission brokers, the persisted index | | done, proved |
| 6 | `ToolGate` | gate, answers, batches, the ledger, plan mode, the process | | done, proved |
| 7 | `SyncScheduler` | the cadence, the operator and the engine's locks over exchanges reduced to outcomes | | done, proved |
| 8 | `LogPruning` | the log, the `synced_to` marks and the pruning that the scheduler triggers | a log with delivery marks | next |
| 9 | `DevicePairing`, `PeerEnrolment` | codes and secrets with expiry | | later |
| 10 | `Supervisor`, `Checkpoints`, `Failover`, `Budgets` | | | later |

Every safety property of a passing run but `WatermarkSound` is stated by a theorem,
and what that one says follows from a stronger one that is.  New runs may
take the place of small ones here, so that each still asks a question of its own.

## The modules and the code

**`HLC`** has the clock as pure operators: `Now`, `Receive` and `ReceiveStrict`
are the three public operations of `HybridLogicalClock`, each with the
`_stabilize` that runs first.  A stamp is a record `(wall, counter, node)`;
`TsLess` is the order of `HLCTimestamp`, `MarkLess` the order that the watermark
queries use, in which the node does not count.  **`HLCNodes`** puts several
brains around it: local events, stamps absorbed in any order, physical time
running and stepped back, reboots (the clock is not on disk).

**`FederatedSync`** is a set of brains.  One action is what a coroutine does
between two awaits, so the interleavings are those of the event loops.

| State | Code |
|---|---|
| `wal`, `vc`, `paused` | `SyncWAL` (sqlite), `VectorClock` (memory only), `_io_paused` |
| `row`, `tomb` | the `hlc` column of a row, the row of `sync_tombstones` |
| `task[n][r]` | the coroutine that saves or deletes `r`, where it awaits |
| `job[n][k]` | a call of `apply_remote_changes`, for the caller `k`: the `/sync` handler, the dialler, the bundle |
| `sess[<<c, s>>]` | an exchange, by the last frame that was sent or read |
| `grant` | the `scopes` of the roster entries |
| `shared`, `carried`, `disturbed` | history variables: grants ever made, bundles ever imported, rows whose write failed halfway, had two writers at once, or were deleted by an operation that a clock set back had stamped below the row's others |
| `passed[n]` | history variable: the operations `n` was passed over with, when it was given a later one of the same writer (see [watermarks](#watermarks)) |

`SaveNote`, `SaveEpisode`, `AppendLocal`, `WriteRow`, `DeleteRow`, `LogDelete`
and `RecordTombstone` are the writers (a note is logged in the event loop, an
episode on a worker thread after its stamp is made).  `Request`, `Respond`,
`Upload`, `ServerApply`, `Reply`, `ClientApply`, `Finish` and `Drop` are the
exchange.  `TakeRemote`, `RejectDrift`, `LookUp`, `ReadTombstone`, `Materialize`
and the failing forms are one operation of a batch: the row is read, then, if
there is none, its tombstone, then the row is written, and others may write in
between.  `SelectFor` is `get_changes_for_peer` with both of its branches, `Admit`
the scope gate of the receiver, `Wins` and `Outlives` the two gates of
`_apply_to_memory`.  In `Upload` and `Reply` the lookup of the grants and the query
they are passed to, which runs on a thread, are one step.

**`ScopedGossip`** is what the exchange promises, in forty lines: a log only
grows, by what its brain writes or by operations of a brain that is linked to it
in their scope (mutual grants at some time, or a carried bundle).

**`TaskFlow`**: `status`, `current`, `wait` are the columns of a flow, `step`
those of its steps, `older` the order of `updated_at` that the query of the
runner sorts by, `runner` the local variables of `_run_flow` and
`_runner_loop`.  The interface (`Create`, `Cancel`, `Resume`) runs on the same
event loop, so it runs where the runner awaits: in its pause, or inside a step
that awaits (`LoopServes`).  `ProcessEnds` and `Start` are `stop()` or a crash at
any point, and the recovery.

**`PriorityIOLock`**: `held` and `urgentWaiting` are the two fields; `co[c]` is
where the coroutine of a caller is, `thread[c]` the job that it gave to a worker
thread, `queue` the pool.  `Ask` is `__aenter__`, `AcquireAtOnce`, `AcquireWaits`
and `WakeAndTake` the three ways through `_acquire()`, `EnterBody`, `StartCall`
and `CallReturns` the body as the adapters write it.  `CancelAcquire` and
`CancelBody` cancel the coroutine; its thread, once started, goes on.

**`AgentBridge`**: `registry` is `SessionRegistry._sessions`, `index` the handles
in the persisted `SessionIndex`, `child[c]` a child process with its connection
(`AcpAgentProcess`, `NdjsonRpcPeer`), `turn[c]` the latest turn of its session,
`call[t]` where a skill call awaits, `request[q]` a permission question from the
agent to its outcome.  The `Run...` actions are `run_task` as far as its first
await: with a live session (`RunLive`), a dead one that is closed first
(`RunDead`, then `Buried`), a pointer in the index (`RunReattach`) or nothing
(`RunFresh`).  `OpenSucceeds`, `OpenStartsAnew`, `OpenFails`, `Aborted` and
`Briefed` are the rest of `open()`, `StopWaiting`, `RecordTurn` and
`EpisodeWritten` what ends the wait for a turn, `CloseSession`,
`InterruptionNoted`, `Closed` and `CloseForgotten` are `close_session`, `Ask`,
`Respond`, `Deliver` and `TimeOut` a question and the brokers.  `ChildExits`,
`ReaderEnds` and `ChildEnds` are the ends of a child, and `Restart` that of the
process, after which `index`, `grants` and `episodes` are what is left.

**`ToolGate`** is about the calls that go through `ToolRunner`.  `Gate` is
`execute_tool_call_for_llm`, in its order: plan mode
(`Blocks`), the loop guard (`Loops`), policy and the autonomy mode with trust and
standing approvals (`Permitted`, `Asks`).  It is passed by `Dispatch`, a call of a
batch or of a caller that keeps no account, and by `Redispatch`, a call that a
user has just approved.  `RunFails`, `RunSucceeds` and `UndoIsLost` are the runs,
`Gathered` and `Fold` the end of `asyncio.gather()` and the loop that records the
outcomes one after another, which is where the ledger is late.  `grants` and
`streak` survive `Restart`.  `yes` is what users have approved.  `earned` counts
the clean runs of batches since the last setback of their tool: a failure, in a
batch or not, a revert, an undo record that could not be written, at the moment it
happens.  `overtaken` are the tools whose ledger a setback has overtaken: nobody
tells the ledger of the failure, or the fold of the batch does later, or clean runs
of before the setback are credited after it.

**`SyncScheduler`**: `known` is the engine's `_peers`, `status` the scheduler's,
with the call `by` that holds the lock in it, `locks` and `held` are the engine's
`_peer_locks`.  A call that works on a status which is no longer the peer's has
`stale` set and keeps the count that is in it.  `Tick` is a tick of the cadence,
`GetSlot` a call that gets its slot, `SyncNow` one of the operator;
`DialRefused`, `Dial`, `TakeLock`, `TimeOut` and the three ends of an exchange
are `sync_with_peer`; `RecordSuccess` and `RecordFailure` what becomes of the
result, eviction with it; `Advertise`, `Depart`, `AddPeer` and `RemovePeer` the
changes of the list.  `replaced` and `forgotten` are history: peers whose status
or lock was dropped while a call used it.

The definitions whose comment begins with *Mutant* are faulty variants of the
definition that follows them (a dropped test, a wrong order).  They are used
nowhere in the specification: substituting one for the definition shows that a
property notices.

## Runs

Every passing run has small sets and named bounds.  "States" are distinct.

| Run | Asks | Bounds, and why they are enough |
|---|---|---|
| `hlc_nodes` | Do counters and drift stay bounded, do stamps increase until a reset? | two clocks, two stamps, one step back, one reboot, `MaxCounter` 1 so that it overflows; the theorems cover every value |
| `sync_rows` | Does a row agree with the log, does a delete keep the scope of its insert, does a log ever hold a stamp from beyond the drift bound; does a watermark cover anything the brain lacks and was not passed over with? | one note, saved and deleted, two brains, one bundle that delivers all again, one full disk or failed row write; restarts are in `sync_watermark`. `MaxDrift` 0 with a time unit longer than the drift bound makes a stamp from the other brain's future one to reject |
| `sync_watermark` | Does what a brain advertises cover only what it holds; do rows agree with the log across restarts? | three brains around a relay, a note and its delete, by the relay or a brain at its end, of which the other one only reads, one restart or failed row write, in the behaviours of `OrderlySpec` (below): a brain can have written two operations, the least that a watermark can skip one of, and the relay can pass on either or both |
| `sync_exchange` | Do operations stay within chains of mutual grants; is each step one of `ScopedGossip`; do brains that share a scope end up with each other's writes, but for those they were passed over with? | an episode and its delete, which are two operations of one brain, so that one that is refused can be passed by the other; a relay to a brain that has not agreed, one change of the roster on that link (`Edited`), and one of: a refused append, a broken session, a restart.  Bundles are in `sync_rows` |
| `task_flows` | Do rows agree, do committed steps stay, do sleeps last, do flows settle? | two flows of four programs: two sleeps in a row, a branch over a chat, a step that raises before one that fails, a loop; two calls of cancel or resume, one end of the process |
| `io_lock` | Do device calls overlap, is the lane exact, does a stop go first and is it served? | an emergency stop, a telemetry drain, two commands, a worker for each, two cancellations |
| `agent_bridge` | Is anything allowed, under the allowlist policy, that no user allowed; is a turn remembered twice; is a running agent out of reach; does a closed handle come back, or a handle get lost; do calls and questions end? | one handle, two children, so that one can be dead while the other is opened, two overlapping calls, two `run_task`s, a question asked again and again, any number of restarts |
| `tool_gate` | Does everything that runs have a licence at that moment; is trust earned; does plan mode hold for subagents? | a session and its subagent, one tool of each kind, three calls of which two are under way at once, trust after two clean runs, the loop guard at three.  Its states are the largest of all runs, a million |
| `sync_scheduler` | Do exchanges with one peer overlap, is anybody evicted early, is every listed peer dialled again? | a brain found by mDNS and one added by hand, one slot and one call of the operator, eviction after two failures, one upheaval (a departure, an addition, a removal or a full disk): with the evictions, which are not bounded, that is enough to drop both locks of a peer under a call |
| `sync_async_log` | *violation* of `WatermarkSound` | two brains, a note and an episode, no fault |
| `task_cancel` | *violation* of `CancelSticks` | one flow, two calls |
| `io_cancel` | *violation* of `PortExclusive` | three callers, one cancellation |

What the passing runs show.  Whatever breaks in a session, restarts or fails in a
row write, an advertised watermark covers only what is there or what the brain was
passed over with, in one of five ways that are named below, and brains that share a
scope converge but for that; a row that no two writers touched at once is what its
newest operation says.  Scopes hold through relays,
changes of the roster and bundles.  The flows' rows survive restarts and
resumptions at every point, except that a commit may write over a cancellation.
The I/O lock does what its comment says until a coroutine is cancelled.  An
agent is allowed nothing without consent, whichever of answer, timer, close and
crash comes first, and is out of reach only after two calls reopened its handle at
once.  What passes the gate of `ToolRunner` is licensed at the moment it starts, an
approval given earlier included, and the ledger credits what was earned since the
last setback, unless that setback has overtaken it.  A peer in the
list is dialled again whatever happened before, and either of its two locks is
enough to keep its exchanges apart.

### Watermarks

A watermark stands for everything its writer has stamped up to it.  Nothing in the
code makes that so, and `passed[n]` says by which events it stops being so for `n`:
an operation gets into `passed[n]` when `n` is given, or takes, a later one of the
same writer and

1. the operation reaches its writer's log after the later one (`PassLate`;
   `sync_async_log` shows it);
2. the sender had not granted its scope to `n`, or `n` not to the sender
   (`Ungranted`, in `Upload`, `Reply`, `ServerApply` and `ClientApply`);
3. the query had too many watermarks and left it out (`Prefiltered`);
4. `n` dropped it from its batch, to a refused append or to the drift bound
   (`RejectDrift`, `AppendRemoteFails`);
5. the sender, or the brain that wrote the bundle, had itself been passed over
   with it.

`WatermarkAccounted` says that there is no sixth way: a watermark covers what `n`
holds, and otherwise only `passed[n]`, whoever shares what with whom.  It holds of
every behaviour of `Spec`, with no condition.  `Converges` says that what is
shared arrives for good, but for `passed`.  Without that exemption it fails in
`sync_exchange`, where the first of two operations is refused and the second, in the
same batch, moves the watermark past it, and where a restart sets the writer's clock
back, so that the delete is stamped no later than the insert.  It also fails, outside these runs, with
scopes `home` and `work`, 1 and 3 sharing both and the relay and 3 only `home`: a
later write of 3 in `home`, which reaches 1 through the relay, takes 1's watermark of
3 past an earlier one in `work`, which 3 then never sends it.  A late grant is the
same: with one scope, of which nothing has been taken before the grant, the older
operations follow; with another scope whose operations have been taken, they do not.

`WatermarkSound` quotes what the code says of a watermark, that everything up to
it is there, and is true under `OrderlySpec`: `Spec` without fairness, in which
a brain's own writes reach its log in the order of their stamps (`OwnLogInOrder`), a
batch gives none of its operations up (`NothingSkipped`), and the roster stays as it
is while bundles come from brains in it (`RosterHolds`).  Nothing in the code
enforces these.  Writers on threads, restarts, broken sessions, lost local appends,
failed rows and repeated deliveries are all in it.  It is model-checked, with one
scope that everybody shares, and no theorem states it: with the two scopes above it
fails, and the conditions on the grants that exclude them are not the roster's.

`tool_gate` uses the symmetry of its calls, of which no definition chooses one; it
has no liveness property.

Bounds by name: `MaxTime`, `MaxStamps`, `MaxStepBacks`, `MaxReboots`,
`MaxDeletes`, `MaxFaults`, `MaxRosterChanges`, `MaxBundles`, `MaxCalls`,
`MaxRestarts`, `MaxCancels`, `MaxRuns`,
`MaxQueue` and `MaxChurn` bound how often something happens, `Writer` and `Edited`
which brains write and whose roster entries change; each is a guard of the actions
it bounds.  Each row identifier is saved once (they are `uuid4`s).
`MaxDrift`, `MaxCounter`, `MaxClauses`, `Seconds`, `Workers`, `PromoteAfter`,
`LoopLimit`, `EvictAfter`, `Initial`, `MaxBackoff` and `ExponentCap` are parameters
of the code.  `MaxClauses` keeps its value of 150, so that the runs, which have fewer
origins, never take the prefiltered branch of `SelectFor`, which the theorems cover.

`hlc_nodes`, `task_flows`, `io_lock`, `agent_bridge`, `tool_gate` and
`sync_scheduler` do not check for deadlock: with their stamps, calls, uses, runs or
upheavals bounded they may come to an end.  So does `task_cancel`.

## Fairness

`FederatedSync`: a coroutine that can go on does, the scheduler dials each peer
at its cadence and frames arrive: weak fairness of the writers of a brain after
their start, of its appliers, and of each session as a whole.  Nothing obliges
anybody to write, grant, delete or fail.  Weak fairness of each of these as a whole
is enough, because between two of its steps it stays enabled and its work is
finite, and is less than what asyncio gives its tasks.  `TaskFlow`: the runner runs, the process is started again (the supervisor
does), time passes.  An awaited step returns because its client has a time
limit.  `PriorityIOLock`: a thread or coroutine that can run does (a waiter polls
every second, so that a lost notification costs only time), and a device call
ends; one weak fairness per caller over all its steps.  The order in which
waiters of one lane get the lock is left open, as it is in the code.
`AgentBridge`: a call goes on when what it awaits is there, and every wait of a
call has a deadline; the timer of the broker runs; a child that is closed ends,
because it is killed after its time.  Agents and users owe nothing: `CallsReturn`
and `RequestsSettle` hold although an agent may say nothing for ever.
`SyncScheduler`: the loop ticks, time passes, a slot is given to the next call, and
a call that can go on does.  Nobody has to come, go or resume the engine, and an
exchange may fail every time.  `ToolGate` states no fairness: its properties are
safety.

## Proofs

All theorems hold for every value of the constants under the named assumptions
of the modules: finite callers for the lock, brains as positive numbers, scopes
that do not contain the reserved one, programs whose steps have successors,
finite sets of tool calls and of peers, null values outside the sets they complete, and bounds
that are natural numbers.

| Theorem | Says | Inductive invariant |
|---|---|---|
| `HLCNodes_proofs!DriftIsBounded` | every operation leaves the clock within the drift bound | `TypeOK`; lemmas on `HLC`'s operators |
| `…!CausalityIsRespected` | a receive ends above its stamp (proved only, no run needs it) | `TypeOK` |
| `…!CountersAreBounded` | counters stay below `MAX_COUNTER + 2` | `TypeOK`, `CounterBounded` |
| `…!StampsIncrease` | stamps increase until a reset | `ClockCoversItsStamps`: until a reset, the clock is at or above every stamp of its brain |
| `ScopedGossip_proofs!GossipConfined` | operations do not leave a closed set of brains | links only grow, so a set closed now was closed before |
| `…!GossipPrivateStaysHome` | the private scope stays home without bundles | the same, with writers being brains |
| `FederatedSync_proofs!TypeCorrect` | types | itself, one lemma per kind of step |
| `…!LogsStayWithinDrift` | no log holds a stamp from beyond the bound | `DriftInv`: also the operations minted and not yet appended |
| `…!SyncImplementsGossip` | every step is one of `ScopedGossip` or a stutter | `InFlight`: grants are among those ever shared, operations in tasks are the brain's own, those in sessions are in the log of the sender, those in jobs are in the log of a linked brain |
| `…!ScopesStayConfined` | scopes hold | from the refinement and `GossipConfined` |
| `…!DeletesStayInLineage` | a delete bears the scope of its insert, or is private | `Lineage`, on all operations that are in a log or in the hands of a writer; `Book` |
| `…!RowsFollowTheirLogs` | an undisturbed row is what its newest operation says | `RowsAgree`: `Worded`, `Blanked`, `Heard`, `Prevails`; `Book` |
| `…!WatermarksAreAccounted` | what a brain advertises covers what it holds or was passed over with, in every behaviour | `Fed`: `InFlight`, `Rooted`, `AfterBoot`, `TiesPassed`, `GapFree`, `ClocksBacked`, `SessionsFull`, `JobsFull` |
| `TaskFlow_proofs!RowsAlwaysAgree` | the rows tell one story | `Inv`: `RowsAgree`, the runner agrees with the row it works on, an absent flow is blank, a wait and the time slept add up |
| `…!CommittedStepsAreFinal` | a committed step never runs again | `Inv` |
| `…!SleepsLast` | a sleep takes its time | `Inv`, by `WaitsAddUp` |
| `PriorityIOLock_proofs!ExclusiveUntilCancelled` | calls do not overlap before a cancellation | `Inv`: `HandedOver`, one caller at most is between taking the lock and giving it back |
| `…!LaneIsCounted` | the lane counter is exact, also with cancellations | itself; the set of urgent waiters gains or loses one element |
| `…!TypeCorrect` | types | itself |
| `…!StopsGoFirst` | nobody passes a waiting stop | `Inv`, by `LaneCounted` |
| `AgentBridge_proofs!OnlyByConsent` | agents are allowed what users allowed | `Inv`: `TypeOK`, `Sessions`, `Marked`, `Consent` |
| `…!OneEpisode`, `…!SessionsAreHeld`, `…!ClosedSessionsStayClosed`, `…!HandlesSurvive`, `…!TypeCorrect` | a turn is in memory once at most; a session that is up is registered; closed handles stay closed, others usable | `Inv` |
| `ToolGate_proofs!TrustHasBeenEarned` | credit is earned since the last setback, unless that has overtaken the ledger | `Inv`: `TypeOK`, `Named`, `Consented`, `Credited` |
| `…!RunsHaveALicence`, `…!PlanModeIsKept`, `…!TypeCorrect` | what starts is licensed; plan mode holds | `Inv` |
| `SyncScheduler_proofs!ExchangesStayApart` | either lock keeps two exchanges apart | `Inv`: `TypeOK`, `Owned`, `Guarded`, `Counted` |
| `…!EvictionNeedsStreak`, `…!TypeCorrect` | an eviction needs a streak; types, with the cap of the backoff | `Inv` |

`RowsAgree` alone is not inductive: what the runner writes next depends on its
local variables, which the rows of a flow it has just committed must match, and a
row that does not exist yet must be blank for its creation to agree.
`ImplementsGossip` needs `InFlight` because the operations an applier takes were
cut from a log several steps ago, under grants that may have been revoked since:
the gossip allows that by keeping links for good, and the invariant says that
they were links when the batch was cut.

Three invariants carry the rest of the exchange.  `Book` is bookkeeping that they
share: an identifier nobody has used has left no trace, a coroutine works on one
operation of its own row and a batch on one operation of its log.  `Lineage`
holds of all operations that exist anywhere, not of those in one log, because the
brain that deletes takes the scope from *its* log, and the argument is that
whatever it finds there descends from the same insert.  `RowsAgree` says, of a
row that was never disturbed, not only that it agrees with its log but why it
will: every operation of the log that is newer than the row is still in somebody's
hands (`Heard`), and whoever has decided to write the row is above it and alone
(`Prevails`), which is what becomes false when a row is read before an await and
written after it, and is what `disturbed` records.

`WatermarkAccounted` is not inductive because a log is read in one step and its
contents applied, one operation at a time, many steps later, by when both logs
and clocks have moved.  The invariant says that a log has no gaps but those its brain
was passed over with (`GapFree`: what a watermark at an operation covers, `Owed`, is
held or `passed`), that every clock, also the one in the hands of a session, is backed
by an operation in the log (`ClocksBacked`), and that a set of operations under way,
together with what the receiver has or was passed over with, has no gap either
(`SessionsFull`, `JobsFull`).  A batch keeps this because it takes its oldest operation
first (`Oldest`), so that what precedes an operation is there, or was given up and is
`passed`, when it is appended.  The selection keeps it because what it leaves out is
below a clock that is backed, not granted, prefiltered, or something the sender was
passed over with, and `PassOver` records the last three where they matter.  A write
that reaches its writer's log late makes gaps everywhere at once, which is why
`PassLate` speaks of all brains; `TiesPassed` says the same of two operations of one
brain with the same mark, which `MarkLess` cannot tell apart.  No assumption about
grants, rosters, bundles or the number of origins is left.

For `AgentBridge` the difficulty is that a call and the session it works for drift
apart between awaits: `Sessions` says, of every call that opens, buries or closes,
which child it has and that no other call has it, unless the handle was raced;
`Marked` that a turn which a call is writing is flagged, so that nobody else begins
to.  `ConsentOnly` needs that stored approvals are among those consented to.  For
`ToolGate`, `TrustIsEarned` is not inductive because the ledger hears of a run
only after the whole batch has ended: `Credited` says that what it credits *and*
the clean runs it is still to hear of are earned, unless a setback has overtaken it,
which a cardinality argument keeps through every `Fold`.

`SyncScheduler` has two locks per peer that come and go independently.  `Owned`
says that a status in use belongs to the call that works on it and that a call
without one had it replaced, `Guarded` that a call has the engine's current lock
of its peer unless that was forgotten and that no two exchanges hold the same
lock; two exchanges with one peer then need both to have gone.  `Counted` links
the failures of a status to the dials that failed, with one to come when the call
that owns it has failed and has not been recorded.

Only model-checked: `WatermarkSound`, and liveness (`Converges`, `FlowsSettle`, `StopIsServed`,
`CallsReturn`, `RequestsSettle`, `ListedPeersDialled`), which the prover cannot do.

## Findings

Each is shown by a run whose property quotes the code.

1. `sync_async_log`: `log_operation_async` makes the stamp before a thread
   appends the operation (`memory/sync.py:1482`).  A later write that is logged
   in the loop overtakes it; a peer that syncs in between moves its watermark
   past the missing operation and never asks for it again.
2. `task_cancel`: the commit of a step writes its status over a cancellation made
   while the step was awaited (`agents/taskflow.py:473`); the flow goes on.
3. `io_cancel`: cancelling a coroutine inside the lock releases it while the
   device call continues in a thread (`hardware/async_io_lock.py:125`).

Seen while modelling, without a run of their own:

- An append that is refused while a batch is applied is logged, and the rest of the
  batch goes on (`memory/sync.py:1648`), so that a later operation moves the
  watermark past it; an operation that the drift bound rejects is skipped in the same
  way.  `passed` exempts both from `WatermarkAccounted` and `Converges`, and
  `NothingSkipped` from `WatermarkSound`.
- `_apply_to_memory` decides on a row it read before an await
  (`memory/sync.py:1743`).  A local delete or a second delivery in between makes the
  row differ from its newest operation, while the docstring (`memory/sync.py:1586`)
  says "the arrival order on the wire no longer dictates which copy survives".
  `LastWriterWinsUndisturbed` therefore exempts rows that had two writers at once.
  The same await is between the reads of the row and of its tombstone: a row that is
  saved in between is not looked at again.
- A brain that restarts after its physical clock went back, or whose clock was
  stabilised, can stamp a delete below the insert it deletes.  It buries the row, and
  its peers, for whom the insert is newer, keep it.  `LogDelete` marks such rows as
  disturbed.
- A grant changes only the filter (`security/peer_roster.py:677`).  Older operations
  of the scope lie below a watermark that operations of other scopes have moved, and
  are never sent; `passed` names them.
- The pause flag stops the writers and the dialler; the `/sync` handler does not
  test it.
- `get_changes_for_peer` with more origins than `_MAX_VC_CLAUSES` takes another
  selection (`memory/sync.py:966`), which loses operations of origins that the peer's
  vector clock does not name, where they are below the oldest watermark, although its
  comment (`memory/sync.py:963`) says "a superset narrowed correctly, never a
  different answer".
- After a physical step back beyond the drift bound, or a reboot, a clock issues
  stamps below its earlier ones; `StampsIncreaseUntilReset` says until when it does
  not.
- Resuming a completed or cancelled flow calls `get_flow` while holding the
  non-reentrant lock that `get_flow` takes (`agents/taskflow.py:258`): the event
  loop of the brain stops (`ResumeOfSettledFlow`).
- A step that raises leaves its flow `running`, which nothing takes up before a
  restart or a resumption.  Resuming a waiting flow starts its sleep again.
- A condition that jumps back over steps that do not await keeps the event loop;
  any loop keeps the runner from the other flows.  Cancelling a completed flow
  makes it cancelled.
- A coroutine that is cancelled while its thread waits for the I/O lock, or after
  the thread has taken it, leaves the lock taken with nobody to release it.
- Two calls of `run_task` for one handle whose session is not live both open one,
  and the later displaces the earlier from the registry, whose child goes on unseen,
  although the registry (`bridges/sessions.py:205`) "Holds every live external-agent
  session in this process"; `HeldWhileUp` exempts such handles.  `close_session` drops the pointer
  after an await, also if the handle was reopened meanwhile.
- A turn that outlasts its call and ends with nobody waiting is overwritten by the
  next one and never reaches memory.  A call that waits for a turn which another
  call cancels gets a `CancelledError`.  `reject_always` is not remembered.
  `AcpSession.cancel` looks for `reject_all` on a broker that has none.  `sweep`,
  `close_all` and `revoke_approval` have no callers: approvals of agents, which are
  stored per agent and not per session, never expire.
- A setback does not send the tool back to asking at once.  A batch of parallel runs
  of one tool that all lose their undo record is recorded clean after the records
  were lost, so that the tool may be trusted though none of the runs can be undone;
  the same happens to clean runs that end before a turn is reverted and are recorded
  after it.  A failure inside a batch is recorded when the batch is.  Failures of
  approved calls, subagents and flows are never recorded.
  `security/trust_ledger.py:199` says that trust should be "instant to lose", `:223`
  that a revert drops a tool back to asking "immediately", and
  `skills/checkpoint_actions.py:95` of a lost record that "the tool has to go back to
  asking".  `TrustIsEarned` exempts tools that such a setback has overtaken
  until the ledger has been told, and `RunsAreLicensed` speaks of trust as the ledger
  counts it.
- The loop guard counts the retries made while a request is pending, and can block
  the approved call, whose request is then gone.  So can plan mode, after the
  standing approval was made.  An approval covers every argument of its tool, and
  outlives the session and the process, as does a pending request the session.
- A peer added with `add_peer` has a record without `port`, and every attempt to
  dial it raises (`memory/sync.py:2424`), although the comment says
  (`memory/sync_scheduler.py:617`) that `sync_with_peer` resolves through it.
- A paused engine refuses every dial, which counts as failures of the peers: a full
  disk here evicts them as unreachable.  Peers from `FERAL_SYNC_PEERS` are evicted
  too, and are not advertised again.
- Calls of the cadence that wait for a slot are dialled although the peer has gone
  into backoff since.  A call that ends after its peer was removed evicts it again
  if it has come back in the meantime.  Two exchanges with a peer overlap after its
  status and its lock were both dropped under calls; the docstring of the module
  (`memory/sync_scheduler.py:35`) says that its lock prevents that.
- With fewer worker threads than callers (`Workers = 2` and three callers)
  `StopIsServed` fails: waiters fill the pool on which the holder's device call
  has to run.  `io_lock` has a worker for every caller, so that it shows the order of
  the lock and not the size of the pool.

## What is not modelled

Of the exchange: the `synced_to` marks and pruning (the next module of the
plan), the content-addressed tables of the knowledge graph,
authentication, duplicate node identifiers, framing and its limits, discovery of
peers, the duration of backoff, malformed stamps, a tombstone that cannot be
written.  A client's second handler on the same server waits for its first, as
sessions of one pair are one at a time.  The commit of a threaded append and the
update of the vector clock that follows it are one step, and so are the lookup of a
peer's grants and the query that uses them.

Of the flows: what steps compute, templates, contexts, listing and statistics,
the progress record of the consciousness, sleeps whose seconds do not parse; all
sleeps take `Seconds`.  The tests for a cancelled flow at `agents/taskflow.py:332`
and `:353` are left out because nothing can run between the commit or selection
before them and the read they test.

Of the lock: use from several event loops, logging, `preempt_requested`.  A call's
return and the resumption of its coroutine are one step, and a caller has one use
at a time.

Of the agent bridge: the age and size limits of the index, file requests of the
agent, transcripts, a write to memory that fails, agents that ask outside a turn.
Stored approvals are those of the allowlist policy: `check_approval` allows everything
under `FULL_ACCESS` and nothing under `DENY` (`security/exec_approvals.py:94`), so that
`ConsentOnly` says nothing of the first.
The await of a cancel that precedes a close is not a step of its own.

Of the tool gate: the refusals that the runner makes before policy (arguments that
do not parse), validation failures (a run that fails), the daemon path,
`FERAL_TRUST_DISABLED` and policies other than the allowlist.  Of the callers of
`SkillExecutor.execute`, only those behind `ToolRunner` are modelled.  Multi-agent
runs, direct execution, the MCP server, the tools route and both realtime voice
proxies go there directly (`skills/executor.py:640`) and meet `SkillExecutor._gate`
(`skills/executor.py:429`): plan mode and safety for the session of a context
variable, which lets a call through where there is no runner or a gate raises.
(`agents/plan_mode.py:38` still describes the proxies as not gated at all.)  The
inverse calls that a revert makes skip that gate too (`skills/checkpoint_actions.py:60`);
`Revert` is what a revert does to the ledger.  `PlanModeHolds` is about subagents whose
identifiers name their parent (`:sub:`): `spawn_subsession` gives its children `uuid4`s
from which `agents/plan_mode.py:124` and `:354` say no parent can be recovered, and
spawning is refused in plan mode for that reason.

Of the scheduler: peers from `FERAL_SYNC_PEERS`, pruning, heartbeats, which nothing
in the tree calls, `stop()`, and the time between ticks: `wait` counts units of
backoff, and `Elapse` lets one pass for all.  `ExchangeFails` stands for whatever
keeps all attempts of a call from getting through.

The components marked *planned* or *no* in the inventory, with the reasons in
`PROJECT.json`: the rest of the orchestrator, providers, voice and channels is
driven by model output or external services, and a model of it would be one of
its environment.

## Running it

    tlc -config MCTaskFlows.cfg MCTaskFlow     # a run: its cfg and its MC module
    tlapm TaskFlow_proofs.tla                  # the proofs of a module
