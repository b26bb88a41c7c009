# EmberVM and the agent factory: TLA+ models of the task plane, its VM pool, turn execution and draining

EmberVM (`src/projects/embervm`) runs untrusted work in single-use micro-VMs. Its
control plane is an Elixir application (`control/lib/embervm`); a Go daemon
(`noded`) runs the VMs of a node. The agent factory
(`src/projects/monolith/factory`, Python) is its largest client: it runs the *turns* of
agent sessions on EmberVM guests and drains queues of routine jobs through them.

This directory specifies two layers of that system:

- **the task plane** of EmberVM: how a task is accepted, made durable, queued, dispatched,
  retried, finished and reported, and who owns the primed VM it runs in;
- **the execution plane** of the factory: how a message of a session becomes a turn exactly once
  on capacity that is accounted for, and how a fleet of drain workers runs routine jobs.

Both are about the same question: what is still true after lost calls, crashes, restarts and
late answers.

In the sections on the task plane, paths are relative to
`src/projects/embervm/control/lib/embervm`; in those on the execution plane, to
`src/projects/monolith/factory` (`agent/` is `src/projects/monolith/agent`).

## The task plane

A client posts a task. The router (`router.ex`) authenticates it and calls the **task
store** (`task_store.ex`), a GenServer that owns an ETS table of tasks and an ETS
index of idempotency keys. Every transition of a task is first appended to the
**op-log** (`op_log/postgres.ex`), which journals the op and projects it onto a row of
the `tasks` table in one transaction, and is then written to ETS: the "write-through
invariant". When the store restarts it rebuilds ETS from the rows.

A task that becomes queued is cast to the **dispatcher** (`dispatcher.ex`), one process
that keeps a fair queue per workload (round-robin over principals), reserves a node
and a VM, commits the dispatch with two calls to the store (assign, start), spawns a
worker process that talks to the node, and applies the worker's outcome to the store.
Retryable failures are retried after a backoff timer. A periodic sweep compares the
store's backlog with what the dispatcher holds, and repairs whatever was dropped.

A client may **wait** for its task (`?wait=true`, `sync_wait.ex`): the request process
takes a slot under a per-principal cap, registers for the task, checks whether it is
already terminal, and parks until the store announces a terminal state.

A node reports its primed VMs. The dispatcher parks them in an **inventory**, from which
tasks and session creates (`session_manager.ex`) take them; a task or create that finds none
primes its own. The pool manager (`pool_manager.ex`) primes ahead of demand and deposits
what it made, and every sweep adopts reported VMs the dispatcher does not know. A VM is
single-use, so each must have one owner, and four processes have to agree on who that is.

The processes are children of one `rest_for_one` supervisor (`application.ex`), in the
order waiter registry, park counters, op-log, task store, session store, dispatcher, pool
manager, session manager, web server: a
crash restarts everything after the child that crashed. This order decides what
survives what, and the compositions below depend on it.

## The execution plane

A message to a session is a **pending message** (`execution/store.py`), in a lane per session
of which only the head may run. An **executor** (`execution/mcp.py`) in some replica claims
the head under a lease and, in the same transaction, an **execution permit** of a shared pool
(`execution/admission.py`); it binds a guest, mints a **result receipt**
(`execution/result_receipts.py`) and POSTs the prompt (`execution/transport.py`). The
receipt lets the guest deliver its result by a callback of its own, so a turn may end by the
response, or by the committed receipt when the response is lost. Meanwhile the lane is closed by
a *fence*. When the executor cannot tell what the guest did, the attempt is put on *hold* for
its receipt, and past the hold it ends with an unknown outcome, which stops the session until
an operator has looked. Around the executors run the **sweep** (leases, adoption of committed
results, zombie recovery), **permit supervision** (`execution/permit_supervision.py`), which settles
uncertain permits on evidence that the guest has ceased, and the **reaper**
(`execution/execution_api.py`, `guest_cleanup.py`) of workflows that have ended.

Routine jobs are rows of `agent/routine_jobs.py`. A **fleet** of a fixed number of drain workers
works through them: each worker is a DBOS workflow, a *generation* of its slot, whose intent is
committed before it is enqueued and which hands its slot to its successor
(`orchestration/queues.py`, `drainer.py`, `drainer_router.py`). A **drain cycle**
(`orchestration/drainer.py`) claims a job with a permit, starts a session, awaits the turn,
finishes, defers or holds the job, and destroys the session. A DBOS step commits before it is
recorded, so after a restart it is executed again; a cancelled workflow may still commit the step it was in.

## Inventory

| part | source | size | here |
| --- | --- | --- | --- |
| task state machine, retry classes | `task_state.ex`, `retry.ex` | 260 | `TaskState`, `Retry` |
| task store | `task_store.ex` | 1,014 | `TaskStore` |
| op-log: task projection | `op_log/postgres.ex` | 3,124 (all classes) | `TaskOpLog` |
| op-log: journal, marker, compaction | `op_log/*.ex` | | rows only, in `TaskStore` |
| fair queue, dispatcher, sweep | `dispatcher.ex` | 2,125 | `FairQueue`, `FairRotation`, `Dispatcher` |
| VM inventory, claims, adoption | `dispatcher.ex` | | `VmInventory` |
| sync wait | `sync_wait.ex`, `router.ex` | 120 + 95 | `SyncWait` |
| admission, quotas, metering | `router.ex`, `metering.ex` | 306 | not modelled |
| placement, in-flight reservations | `scheduler*.ex` | 1,430 | not modelled |
| pool manager, drain coordinator | `pool_manager.ex`, `drain_coordinator.ex` | 950 | the deposit (`VmInventory`) only |
| node registry | `node_registry.ex` | 2,669 | its down edge only (`NodeDown`) |
| sessions and their fences | `session*.ex`, `lineage_fence.ex` | 12,000 | VM of a create and destroy (`VmInventory`) only |
| stateful, serving, group instances | `stateful*`, `serving*`, `group*` | 24,000 | not modelled |
| warmth GC, bricks, base builder | `s3_warmth_gc.ex`, `brick*`, `base_builder.ex` | 9,000 | not modelled |
| node daemon | `noded` (Go) | 74,000 | its VM registry (`VmInventory`); environment |
| token broker, xDS, runtimes, chart, protocol | | 88,000 | not modelled |
| turn store, receipts, permits | `execution/store.py`, `result_receipts.py`, `admission.py` | 4,900 | `TurnStore` |
| executor, transport, sweeps, reaper, supervision | `execution/mcp.py`, `transport.py`, `execution_api.py`, `guest_cleanup.py`, `permit_supervision.py` | 7,300 | `TurnExecution`, `TurnContract` |
| drain fleet | `orchestration/queues.py`, `drainer_router.py`, `agent/routine_jobs.py` | 1,300 | `DrainFleet` |
| drain cycle, routine reconciliation | `orchestration/drainer.py`, `steps.py`, `workflows.py`, `agent/routine_reconciliation.py` | 4,700 | `Drainer` |
| node workflows | `orchestration/node_workflows.py` | 1,600 | recovery of a lost response only (`TurnExecution`) |
| conductor and the rest of the factory | `orchestration/factory_conductor.py` ... | 60,000 | not modelled |
| the rest of the repository (other monolith apps, operators, inference, tooling) | `src/projects/*`, `src/bazel`, `src/tools` | 800,000 | not modelled |

`PROJECT.json` has the same list as components with the reason for each omission.
The repository keeps specifications of its own in `src/projects/embervm/specs` for
sessions, stateful instances, quotas, adoption and warmth; none of them covers the task
plane or the factory, which is why this project is about these two.

## Modules

```
TaskState   Retry            lifecycle table; failure classification
    |         |
TaskOpLog     |              effect of one op on a task's durable row
    \________/
        |
    TaskStore  --------------- TaskStoreProofs
     /      \
SyncWait   Dispatcher ------- FairQueue --- FairRotation --- FairQueueProofs
   |           |                                                  |
   |      DispatcherInv ------ DispatcherProofs          DispatchQueueProofs
   |           |                        \                /
  LimitsProofs ------------------------ StoreCallersProofs --- TaskStoreProofs

VmInventory ------------------ OwnershipProofs

TurnStore                     transactions on a session's rows
    |
TurnExecution  ==implements==> TurnContract --- OwnershipProofs

DrainFleet, Drainer ---------- DrainProofs
```

The `MC` modules give the constants their small values and state claims of the repository that
TLC refutes.

### TaskState and Retry

`Transitions` is the table of `task_state.ex`, a set of triples. `ForwardRank` and
`StatesBelow` are the rank that guards `:assigned` and `:started` in the projection.
`Retry` classifies a failure reason and the attempt charged to the budget into
`fail_retryable` or `fail_permanent`. `backoff_ms` is left out: a backoff is a timer
that fires at some later time.

### TaskOpLog

One operator per task op of `project/3`: `Submitted`, `AdvanceTaskState` (the rank and
the *epoch fence*: `WHERE attempt < $epoch`), `UpdateTaskState`, `Retried`, `Redriven`,
and `KeyTaken`, the partial unique index. A row in state `"none"` is an absent row: an
UPDATE of it changes nothing and the append still succeeds, which is what PostgreSQL
does and what one of the findings below turns on. The row counts retries from 0, ETS counts
attempts from 1.

### TaskStore

State: `tasks` and `idem` (ETS), `rows` and `results` (op-log), the clock, the ids in
use, and three history variables (`acked`, `pruned`, `runs`).

Every handler that changes state is one action, with its guard from the transition
table and its early returns: `SubmitFresh`, `SubmitExisting` and `SubmitResubmit` (the
three ways through `submit`, with the eviction of an expired duplicate), `Assign`,
`Start`, `Succeed`, `Fail` (with the chained `:dead_lettered` append), `RetryTask`,
`Redrive`, `Expire`, `ReassignInFlight` (one node's down edge), `Restart` (init's
rebuild), `CompactResult` and `CompactTask` (one row of a compaction batch) and `Tick`.

Each append has an outcome. `ok`: committed and confirmed. `lost`: not committed,
reported unavailable. `late`: reported unavailable (call timeout, connection cut after
COMMIT) and committed all the same. A call that timed out is still in the mailbox of the
op-log process ahead of later calls, so a late append lands before anything the
store does next; that is why `late` needs no separate delivery step. A crash between
two appends of one handler is the `lost` outcome of the second followed by `Restart`.

The callers are open: any handler may be called at any time, which is what the proofs
want (an invariant of the open store holds under every caller). Only `Dispatcher` and
`SyncWait` restrict who calls what.

### FairQueue and FairRotation

`FairQueue` has the queue as a value (`rotation`, `fifos`) with `FqEnqueue`, `FqTake`,
`Servable` (below the share, within quota) and `ShareCap`. `FqTake` says directly what
the recursion of `fq_take` computes: the first servable principal in rotation order is
served, those skipped and then itself go to the back. `FairRotation` drives it with
arrivals, takes and completions and a history of who overtook whom.

### Dispatcher

The composition of store and dispatcher. The dispatcher is sequential, but between two
store calls of one handler other callers get theirs in, so `pc` records where in its
handler it is: `idle`, `drain` (the loop of `drain_loop`), `expire`, `assign`, `start`
(the calls of `dispatch_one` and `commit_dispatch`), `sweep` (with the backlog it read)
and `boot`. Every call has a *reply*: an outcome of the append, or `unheard`, committed
and applied while the caller saw a timeout (`safe_call`).

Actions: `EnqueueCast`, `DrainStop`, `DrainTake`, `ExpireTaken`, `AssignTaken`,
`StartTaken`, `WorkerSucceeds`, `WorkerFails`, `RetryTimer`, `Sweep`, `SweepOne`,
`SweepDone`, the other callers `Client`, `Resubmit` and `NodeDown`, `Clock`,
`DispatcherCrash` and `StoreCrash`. Placement is abstract: a node is available or the
drain stops. A worker is a record of its task, its dispatch time and its attempt.

### SyncWait

The composition of store and waiting requests. A request process walks through
`reserve`, (`rollback`), `register`, `check`, `parked`, `unregister`, `respond`,
`release`, each an atomic step, since the ETS counter, the registry and the store are
three different owners. `StoreStep` is any handler of the store with the notification
it sends. `StoreRestart` kills the request processes (the web server comes after the store)
and keeps the counters (their owner comes before it); some of the processes ran their
`after` block, some did not. `OwnerCrash` resets the counters as well.

### VmInventory

The primed VMs of one workload on one node. State: the node's registry (`vm`) and its last
status (`facts`); the dispatcher's `inventory` (a bag), `reservations`, `claimed` and
workers map (`meta`); for each assign worker process its `step`, the VM it has (`own`) and
whether its `vm_primed` message waits in the mailbox (`told`); the pool's `deposits` under
way; for each create its `stage` and VM.

| who | actions |
| --- | --- |
| node, pool | `Report`, `PoolPrime`, `DepositLost`, `Deposit` |
| sweep | `SweepStart` (session claims read), `SweepAdopt`, `SweepAbort` (backlog unread) |
| assign worker | `DispatchWarm`, `DispatchMiss`, `PrimeServed`, `PrimeReturns`, `VmPrimed`, `Assign`, `WorkerFails`, `FinishWorker` |
| create | `ClaimHit`, `ClaimMiss`, `SessionPrime`, `ReserveSessionVm`, `Register`, `CommitSessionVm`, `ReleaseSessionVm`, `CreateFails`, `CreateTimeout`, `DestroyUnowned`, `DropUnowned` |
| session | `SessionAssign`, `DestroySession`, `DropVm`, `SessionDestroyed` |
| restarts | `ManagerRestart`, `DispatcherRestart` |

A sweep is two steps because the session store and the task store answer between them,
and node statuses and worker processes move on meanwhile; the dispatcher's own handlers wait (`Ready`). A
task and a session create may name the same workload (the router's submit does not look at the
class), so both draw on one inventory. Persistent sessions never claim from it and are left
out. A late `drop_vm` or a stale status may leave a *used* VM in the tables; the node
refuses it at the next use, so ownership is stated of primed VMs.

A sweep adopts every reported VM the dispatcher has no record of. It has none of a VM that somebody will
use in three situations, all of which the code allows and the model has:

| situation | in the code |
| --- | --- |
| early report | the daemon reports a VM before Prime has answered, or before `vm_primed` or `reserve_session_vm` is handled |
| unread claims | `refresh_claimed_vm_ids` cannot reach the session store and keeps what it had, nothing after a restart |
| survivors | a supervisor's shutdown does not run `terminate`, so assign workers live on; nor is the destroy of a VM without owner linked to anything |

`Unprotected` is the set of VMs in such a situation, and the history variable `misadopted` collects those a
sweep adopted meanwhile. Such a VM has two owners, and the later use of it fails at the node. `OneHolder`
and `SessionKeepsVm` speak of all other primed VMs, in the same behaviours; `ParkedApart` speaks of every VM. The first
situation contradicts a comment of the dispatcher (`MCVmInventoryReadopt`, below).

### TurnStore and TurnExecution

`TurnStore` has the rows of one session as values: the session row (status, bound guest, fence, cleanup
claim), and per message its pending row, turn row and permit, and the receipts in the order they were
prepared. Each transaction of `store.py`, `result_receipts.py` and `admission.py` that changes them is one
operator: its WHERE clauses are the guard, its assignments the new value. Timestamps become flags: a claim is
`fresh` within its lease, a hold is `live` before its `hold_until`.

`TurnExecution` has the processes. An executor goes through `claimed`, `ready` (guest bound), `prepared`
and `promoted` (receipt), `admitted`, `posted`, and then `answered`, `won` (by the receipt), `failed` or
`interrupted`; each step is one transaction or one network call, so everything else may happen between two of
them. `wire` is what became of each POST, `obs` the coroutine that still waits for it.

| who | actions |
| --- | --- |
| client | `Enqueue` |
| executor | `Claim`, `Bind`, `Prepare`, `Promote`, `Admit`, `Post`, `Answer`, `WinByReceipt`, `PollRefused`, `TurnedAway`, `BrickGone`, `GuestExpired`, `GuestError`, `Handle`, `ReleaseInterrupted`, `PersistAnswer`, `PersistWin`, `Heartbeat` |
| guest and network | `GuestStarts`, `GuestEnds`, `Capture`, `ObserverEnds` |
| clocks | `LeaseExpires`, `HoldExpires`, `AcceptanceEnds` |
| sweep, supervision | `ClaimUnpermitted`, `ReclaimStale`, `Adopt`, `SettleCeased`, `RelayHeldDrain`, `ZombieClaim`, `ZombieFinalize`, `HungClaim`, `Supervise` |
| reaper | `WorkflowEnds`, `ReapRelease`, `ReapBegin`, `ReapRestore`, `ReapDestroy`, `ReapFinish` |
| faults | `GuestDrained`, `LoseResponse`, `PersistFails`, `Handoff`, `Cancel`, `Crash`, `Refuse`, `GuestCeases`, a stalled `LeaseExpires`, `ZombieAbandon`, `ReapCrash` |

An invocation ends with a native result, a drained turn, or a result without a native outcome (a provider's
`api_error`), which a receipt's reader refuses and which leaves the permit uncertain. A session is new, or was bound to a guest by earlier
turns. Two behaviours of the code contradict its comments (see below). A POST to a guest restored after 403 or 410
whose response is lost is given up as `session_gone`, as if the prompt had ceased; the history variable `stray` collects these POSTs, and
`PermitCoversRun`, `OneLivePost` and the mapping to the contract leave them out. A zombie recovery that stops between its two
transactions leaves a session `Stranded`, which `EveryMessageEnds` names as an exception.

### TurnContract

What the execution plane promises a client of one session, without executors, claims, receipts, holds or
fences: a message is accepted, dispatched in order and alone on charged capacity, at most
`MaxDispatches` times, and ends once as done, error or unknown; capacity is released only when nothing runs on it.
`TurnExecution!Contract` is the refinement mapping (phase and tries from the pending and turn rows, `live` from the
POSTs, `stray` ones left out, that a guest runs or may still start, `charged` from the permits), and `ImplementsContract` is the property that
every behaviour of the detailed specification is one of the contract.

### DrainFleet

A slot has a durable intent (`gen`), a workflow per generation (`flowStatus`), and every actor the ids it has
reserved and not yet enqueued (`ids`). `Reserve` is `reserve_drainer_workers`: free slots, minus what the untracked cycles of an
older release (`legacy`) use, get their next generation, and intents whose workflow is missing are enqueued
again. Actions: `TickRefill` and `TickLost` (the endpoint), `Enqueue`, `Dequeue`, `LeaveLoop`, `PrepareNext`,
`HandedOver`, `LatePrepare` (a cancelled workflow commits its last step), `CycleErrs`, `CancelStaleWorkers` and
`CancelStranded` with the children a cancellation takes along (`line`), `DropIds`, `LegacyEnds`. `Quarantine` is a stale
cycle's unknown turns becoming impossible, or possible again, to hold: while it lasts and a cycle is pending, the endpoint returns `quarantine_blocked`
before its refill (`Blocked`). The count of untracked cycles is read afresh; a stale, higher reading would only refuse more.

### Drainer

Every step of `drain_cycle` is an action (`BeginCycle`, `ClaimJob`, `Gate`, `Build`, `StartSession`, `StartFails`, `AwaitTurn`,
`FinishJob`, `Increment`, `DeferJob`, `HoldJob`, `CancelReservation`, `Destroy`, `Fail`, `EndLoop`) that either advances the
cycle or, at a fault, commits without advancing, to be executed again. Sessions and permits are keyed by workflow and job, as in the
code. Beside the cycles: the executor as far as a cycle sees it (`ExecClaim`, `ExecStart`, `ExecAnswer`, `ExecError`,
`GuestStops`), `Supervise`, the operator's `Reconcile` and `RecoverReview`, the cleanups (`RetryCleanup`, `SweepGuest`), `SweepLost`, the reaper's
`CancelStale` and `CancelChild`, `Expire` (recovered too often: status `exceeded`, which reconciliation refuses), interactive turns on the same pool,
`Trigger`, and the end of a burst grant. The number of cycles in their job loop is at most `Workers`, which is what
`DrainFleet` establishes.

Evidence is abstracted to what the verdicts tell apart. A guest that stopped is `idle` when its record proves the end of the
invocation and `mute` when it does not; an error turn without a guest is `untraced` when its outcome does not show that there never was one;
a result without a native outcome is `odd`; a prompt given up as `session_gone` goes on as a `stray` guest. Supervision refuses `odd`, `mute` and `untraced` at every
sweep. `RecoverReview` is the operator's recomputation of the fact review (the jobs in `Review`): if nothing proves that the old
guest stopped, its permit is `waived`, which keeps it charged and lets the job be admitted once more.

## Runs

Passing runs:

| run | instance | what it shows |
| --- | --- | --- |
| `store` | two tasks, one key, three failure reasons, attempts to 3, clock to 1, every outcome | the row is never behind ETS; finished is finished in both; keys, acknowledgements, attempts and successes survive |
| `rotation` | five tasks, three principals (one with a quota), cap 2 | the queue is consistent, no servable principal is overtaken twice, nothing starves |
| `dispatcher` | two tasks of two principals, cap 2, two faults | depth and in-flight counters exact, timers and workers own what they were started for |
| `settle` | one task, clock, node-down edges, two faults | every live task settles |
| `sync_wait` | two request processes, one principal, cap 1, one crash | the cap holds, no wake is missed |
| `vm_pool` | one VM, one worker, two creates, two restarts or aborted sweeps | a VM is parked once and never beside a session's; a primed VM that was not misadopted has one holder, and a session keeps it; a forgotten primed VM is adopted |
| `turns` | a workflow session of two messages, new or bound before, two executors, two POSTs, two guests, two faults | stray prompts apart, a running prompt has an unsettled permit (`PermitCoversRun`) and is the only one (`OneLivePost`); a hold keeps its receipt; sweeps keep committed results; the contract is implemented |
| `turn_progress` | an interactive session of two messages with staged receipts, three POSTs, one fault | every message leaves the queue unless an unknown outcome stops the session or a stopped recovery strands it |
| `fleet` | two slots, two generations, one older cycle, quarantines, two faults | never more cycles than workers nor two generations of a slot drawing jobs; every intent is enqueued and every ended worker replaced, unless a quarantine blocks the endpoint |
| `drainer` | two cycles, the fact review and a project job and an interactive turn over a pool of two, one fault | permit, session and guest agree; a job runs alone except beside its waived attempt; a guest that may be working is in the pool, and the pool holds |
| `drain_progress` | two cycles, one job whose only allowance is a burst, one fault | the allowance holds while the burst ends; a permit a cycle took comes back, with the named exceptions |

One run ends in a violation of a sentence of the repository:

| run | sentence | what happens |
| --- | --- | --- |
| `held_orphan` | `execution/permit_supervision.py:441` "Settling the permit here would therefore strand the job with no owner able to run it again, so this loop leaves held-job permits to that path." | supervision looks at the job before the drain cycle holds it: the cycle has read the unknown outcome, supervision settles the permit, the cycle parks the job, and no reconciliation accepts it any more |

### Further counterexamples

These configurations are kept beside the runs; `tlc -config X.cfg M` reproduces each. All are violations of
a sentence of the repository, found while modelling.

| configuration, module | sentence | what happens |
| --- | --- | --- |
| `MCTurnRestored`, `MCTurnExecution` | `execution/admission.py:4` "Expired observers and unknown network outcomes never free permits." | after a 403 or 410 the guest is restored and the prompt sent again; if that response is lost the transport raises `EmberSessionGone` (`transport.py:2418`), the executor takes it as cessation and settles the permit of a running prompt; the session goes on, and two prompts run at once (`PostsNeverOverlap`; `PermitCoversEveryRun` is violated earlier) |
| `MCTurnStranded`, `MCTurnExecution` | `execution/mcp.py:1863` "Pick up pending messages left behind by a crash or restart." | a stop between the two transactions of a zombie recovery leaves an untouched head whose guest was never bound in a session that stays `recovering` (`NeverStranded`) |
| `MCTurnDiscarded`, `MCTurnExecution` | `execution/store.py:768` "Only a committed result receipt for this exact dispatch can finish it, and only inside the bound." | the sweep holds the attempt of a stalled executor, the result is committed, and then the executor's own failure closes the turn as an error |
| `MCTaskStoreBudget`, `MCTaskStore` | `retry.ex:52` "A failure on the attempt that reaches max_attempts has exhausted its budget" | a late retry is repeated; the doubled retry count fences off the next run, which a restart runs again |
| `MCTaskStoreRedrive`, `MCTaskStore` | `docs/api.yaml:119` "Redriven; task is queued again." | the row was compacted: the redrive is confirmed, in ETS alone |
| `MCDispatcherDouble`, `MCDispatcher` | `dispatcher.ex:101` "a running task is never double-dispatched" | a node-down edge frees the task of a worker that still lives |
| `MCVmInventoryReadopt`, `MCVmInventory` | `dispatcher.ex:475` "known_vm_ids counts the vm_id immediately, closing the window" | a status names the VM while its Prime reply is on the way and a sweep is running: the VM is parked beside its worker |
| `MCSyncWaitRefused`, `MCSyncWait` | `sync_wait.ex:39` "when `principal` already holds `cap` parked waiters" | slots of killed processes stay counted |

`MCTaskStoreOne` is a passing instance of the store with one task, with and without a key, and a longer
clock, on which a result outlives its settling by a tick before it expires. `DispatcherTypeOK`, `TurnTypeOK` and `DrainTypeOK` are
the type invariants of modules whose runs list only the deeper properties; they hold on the same instances.

The code does not have what these claims say, so the properties of the passing runs stop short of them, in one of two ways. Some say
less: `AttemptRunsOnce` in place of the budget claim, `ParkCapHolds` in place of the cap claim,
`SweepsKeepCommittedResult` (everyone but the executor that was overtaken) in place of the hold claim. The others name the exception, in
behaviours in which it occurs:

| property | excepted |
| --- | --- |
| `OneHolder`, `SessionKeepsVm` | VMs a sweep adopted while the dispatcher had no record of their holder (`misadopted`) |
| `PermitCoversRun`, `OneLivePost`, `ImplementsContract` | POSTs given up as `session_gone` on a restored guest (`stray`) |
| `EveryMessageEnds` | a session stopped by an unknown outcome, or `Stranded` |
| `IntentsAreServed`, `SlotsRefill` | while a quarantine blocks the endpoint (`Blocked`) |
| `PermitInv`, `JobRunsAlone` | the fact review beside the one attempt an operator waived; `stray` guests |
| `PoolHolds` | `stray` guests |
| `PermitsReturn` | jobs held for an operator; permits nobody settles (session `lost`) or supervision refuses for good (`Refused`) |

One property is checked and proved on a restricted system: `WorkerOwnsRun` assumes that no node is declared down (`Downable` empty), and
`MCDispatcherDouble` shows what happens otherwise.

More places where the code is weaker than one might expect are in the models, without a
configuration of their own:

- after a late append the row may be ahead of ETS (`OpLogNeverBehind` and `SettledInOpLog` say how far);
- a submit that committed unconfirmed is a queued row ETS does not know: its key is refused and nothing
  dispatches it until a restart, though `task_store.ex:420` calls in-flight duplicate suppression "ABSOLUTE";
- a failed read of a stored result ends its dedupe early (`readOk` in `SubmitResubmit`);
- a redrive keeps the task's `expires_at`; a woken waiter answers from a second read;
- a session reservation has no expiry (`CreateFails`);
- a hand-off or cancel between `mark_turn_interrupted` and the release of the claim overwrites the retry
  grant of a preempted turn;
- a result poll that is refused once ends this executor's adoption of the receipt (`PollRefused`);
- `destroy_drainer_session` deletes a pending message an executor has just claimed, and nobody settles that
  permit (session `lost`, excepted in `PermitsReturn`);
- cancelling a stale cycle cancels its healthy successor without quarantine or reap of its guest (`CancelChild`);
- `increment_kg_job_attempt` and `finish_drainer_job` are not idempotent under replay: the first counts twice, the second raises;
- a quarantine that cannot complete stops the endpoint's reap and refill (`Blocked`);
- a permit whose turn has no native outcome, or whose guest left no proof of its end, is refused by supervision at every sweep (`Refused`).

### Bounds

*Task plane.* `AttemptBound` 3 with `MaxAttempts` 2 lets a task exhaust its budget and go one attempt
past it, which is what the unconfirmed retries need. In `store` and `settle` the clock takes one tick
(`TimeBound` 1) and TTL and retention are 0, so that a result can expire and its row be pruned from that tick on, in either
order with a redrive. `dispatcher` and `sync_wait` have no clock (`TimeBound` 0, TTL and retention 1). `MCTaskStoreOne` and the two counterexamples
of the store have `TimeBound` 2 with TTL and retention 1.
`Faults` and `FaultBound`: in the store runs every append may fail, without a bound; in
the dispatcher runs two faults (an unconfirmed call, a refused placement, a failed read,
a crash) are enough for each pairwise combination, such as a half-done commit followed
by a crash, and keep the state space finite with fairness. One task suffices for the
invariants that speak of a single task, and
`dispatcher` has the two whose queue entries, shares and workers can be confused. Two waiters
under a cap of one make every race for the last slot. One VM is enough for `vm_pool`, whose
properties speak of one VM at a time; a worker and two creates give it takers of either kind and two of one. The same VM with two
workers and two creates gives the same results outside the regular runs (2.8 million states). `rotation` gives two principals two tasks each, so
that a principal both stays in the rotation after a take and leaves it. The runs switch
off what they do not ask about: no clock in `dispatcher`, no compaction in `sync_wait`.

*Turns.* Two messages make a head and a follower that must wait; two executors make an old owner and a new
one; `MaxPosts` 2 and `MaxGuests` 2 let a prompt be sent again, to another guest; two faults give every pair, such as a lost
response followed by the crash of the reaper. `Budget` bounds messages and faults
together: with both messages in play one fault is left, with one message two. Workflow sessions (which have a reaper
and drains) and interactive ones (which have zombie recovery without a workflow), and staged and unstaged receipts, are checked in different
runs to keep each small.

*Fleet.* Two slots can compete for the room one older cycle leaves; two generations are a predecessor
and its successor, and the third would repeat the second. *Drain cycle.* Two cycles can meet at one job, and two jobs of different kinds
and an interactive turn at a pool of two, so that a recomputed attempt and its old one fit and a third start meets the limit. An allowance
that exists only by a burst is spent by one start, and ends under it. Outside the regular runs the safety properties also hold with two jobs, a burst and an
allowance of one and one more (2.8 million states), and `PermitsReturn` with room for two starts of one job (1.2 million). One fault is a restart at any step, a cancellation or an expiry. The proofs have none of these bounds.

### Fairness

`Dispatcher!Fairness` asks for weak fairness of the steps inside a handler (a handler that
has begun runs on: the process is scheduled), and strong fairness of the sweep, each
worker's report and each retry timer. Strong, because these wait in the mailbox while
other handlers run, so they are enabled again and again rather than always; a BEAM mailbox
is served in order, so each is handled in the end. A worker's report is fair because
a worker ends: it has a deadline and the dispatcher's watchdog kills it. Casts, clients,
node-down edges, the clock and crashes have none: the enqueue cast may be lost, and
`EventuallySettled` rests on the sweep alone. The faults are bounded, which is the
assumption "once faults cease". `FairRotation` asks for strong fairness of the drain,
which runs again after every enqueue, completion and sweep, and weak fairness of each
completion. `VmInventory` asks for weak fairness of the status stream and of
the two steps of a sweep, which a timer starts. Nothing is assumed of deposits, tasks, creates or the messages
that announce a VM: `PrimedIsKnown` rests on the sweep.

`TurnFairness` is weak fairness of an executor's next step (a coroutine that can run does), of the guest (a turn has a
deadline), of the clocks, and of three parts of the sweep, a loop with a five-second sleep. Nothing is asked of
the guest's callback, of the adoption of a result or of supervision: `EveryMessageEnds` holds without them,
because every hold expires. `FairFleetSpec` asks that the drain endpoint, a cron job, comes round and enqueues what
it reserved, and that an older release's cycle ends, being one bounded loop; handovers have no fairness, so `SlotsRefill` rests on the endpoint alone.
`FairDrainSpec` asks for each cycle's next step (DBOS resumes a workflow), the sweep of lost reservations, the
executor's claim, start and answer, the end of a guest nobody waits for, and permit supervision. Restarts, cancellations,
operators and cleanups owe nothing. All of it is weak: each action stays enabled until it is taken or
another has done its work.

Safety runs have no fairness. Deadlock is checked in all runs of the task plane and in `fleet`. The turn and
drainer runs may stop: a session whose messages have all ended, or that an unknown outcome has stopped, is at rest, and so are jobs that are done or held.

## Proofs

`TaskStoreProofs` proves, for every set of tasks, keys and nodes, every retry
configuration, TTL and bound, and any pattern of outcomes and restarts, that the store has

- `TypeCorrect`: its type invariant;
- `WriteThroughSafe`: the row never behind the ETS task;
- `SettledSafe`: a finished task equally finished in its row;
- `DedupeSafe`: one task per key over both indexes;
- `NoTaskLost`: an acknowledged id durable and known until pruned;
- `EpochFenceSafe`: no attempt started twice;
- `SuccessStays` and `AttemptStays`: the two action properties.

The assumptions are the named ASSUMEs of `TaskOpLog`, `Retry` and `TaskStore`: the sentinels are
outside their sets, the constants are numbers of the right kind. TLC evaluates them in
every run of the store.

None of the invariants is inductive alone. `IInv` has a part for one task, `TaskInv`,
and a part for the tables, `StoreInv`. `TaskInv(e, r, n)` relates the ETS task `e`, its row
`r` and the number `n` of runs started. Its key point is that `n` is bounded by *both*
the ETS attempt and the row's retry count plus one (one less while the task is queued or
assigned): a restart replaces `e` by what `r` says, so a bound on `e` alone would not
survive it, and the epoch fence is what keeps the two in step. It also states that `r` is at or past `e` in the
order (attempt, rank), so that a rebuild moves only forward. `StoreInv` adds what the
submit paths need: ids never issued are untouched, a known task has a row unless pruned,
durable keys are unique, and the two indexes agree.

All handlers except submit, restart and prune change tasks one by one and add or remove
none. `Moves` describes such a change of one task; `MovesPreserve` proves once
that a step in which every task moves so preserves `IInv`, and each handler then needs only
that its change of one task is a `Moves`. Submit, resubmit, restart and compaction have
lemmas of their own. `NextInv` combines them, one step per action, and the
theorems follow by temporal logic.

`OwnershipProofs` proves of `VmInventory`, for every set of VMs, workers and creates and any number of
restarts, early reports and unread claims,

- `InventoryTyped` and `InventoryApart`: the type invariant and `ParkedApart`;
- `ExclusiveOwnership` and `SessionsKeepVms`: `OneHolder` and `SessionKeepsVm`.

`BInv` (types, a VM for every stage that has one, `ParkedApart`) is inductive by itself.
Ownership is not: that two processes hold different VMs says nothing of what a sweep may add.
`OInv` says what the dispatcher's books show of each VM. An unborn VM is in no table (`UnbornIsNowhere`); the entry of a worker is
empty or names the worker's VM (`WorkerEntries`); the VM of a session is reserved, or claimed once the claims were read
(`SessionVmIsKept`); a deposit still to come is of a VM nobody holds or the books show (`DepositIsKnown`); no two holders, and no
holder and the inventory, share a primed VM (`PairwiseApart`). All of these but the first two speak of VMs that are not
`misadopted`. The sweep is the case that matters: what it adopts is not in the books, so that its holder, if it has one, is
`Unprotected`, and the VM becomes `misadopted` in that step. `OInvStep` has one step per action. `SessionKeepsVm` follows from
`OInv`: the only requests that use a VM up name the VM of their sender. The assumption on the constants is `InventoryAssumption`.

`FairQueueProofs` has the lemmas about the fair queue: what `FqEnqueue`, `FqTake` and the rotation do to the FIFOs, when a principal
is in the rotation, that the rotation names each waiting principal once. On them rests the dispatcher's
part on its queue (`DispatchQueueProofs`). The module goes on to the queue at work (`FairRotation`): `QueueSafe` (`QueueConsistent`) and `RoundRobin` (`OvertakenOnce`) for any
number of principals and tasks and any caps and budgets. `OvertakenOnce` is not inductive: that nobody was overtaken twice says nothing of the next turn.
`TurnInv` adds where the principals stand: one that is ahead of another in the rotation has not been served since that other's last turn.

Five modules are about the two callers of the store, each composed with it. `DispatcherInv` states the dispatcher's inductive
invariant. `DispatcherProofs` shows that each of its steps is a call the store allows, and has the steps of the timers, the sweep and the workers' runs;
`LimitsProofs` counts workers and waiters; `DispatchQueueProofs` follows the queue through enqueue, take and commit; `StoreCallersProofs` joins them.
(They are apart because the prover's time for a step grows with everything the step's module extends.)
`DispatcherImplementsStore` and `WaitImplementsStore` say that every step of either composition is a step of the store or leaves it alone, so that
everything `TaskStoreProofs` proves holds of both. Of the dispatcher they prove, for any number of tasks, principals, workers, crashes
and failed or unconfirmed calls,

- `DepthSafe` (`DepthIsExact`) and `InflightSafe` (`InflightIsExact`): queue and counters are exact at every step of a commit;
- `TimersSafe` (`TimerOwnsRetry`): no timer for a task that does not wait for one;
- `WorkersOwnRuns` (`WorkerOwnsRun`), assuming `Downable = {}`. `MCDispatcherDouble.cfg` shows that the assumption is needed.

`DispatcherInv` joins the store's `IInv` with four parts. `HeldInv` says that the task of the commit in progress is the only
one counted and in no FIFO. `WorkInv` types the workers and makes the counters exact. `SweepInv` describes the snapshot a sweep works
from: each task once, none that has a timer, none that a worker runs. The store cannot change under a snapshot by the dispatcher's
own calls, but it does by the clock, by submits and by a node's loss; what is needed is that no such step takes a task *into*
the waiting state except a failure that arms its timer. `MovesFrom` and `Touches` state for each store call which states it moves tasks from,
and the frame lemmas on them are what the three properties share.

Of the waiters `LimitsProofs` proves, for any number of request processes, principals, crashes and any cap,
`WaitTyped` (types), `ParkCapSafe` (`ParkCapHolds`) and `WakeSafe` (`NoMissedWake`). `WaitInv` adds to the types that a process with a
request has a task. `ParkCapHolds` bounds the slot holders and says beside it that
the counter is at least the number of processes that hold a slot or are about to give back one they did not
get: a process that saw a count over the cap decrements before it is refused, and a killed one may never
decrement, so the counter may only err upwards; without that half the bound is not inductive. `NoMissedWake` is inductive on top of
`WaitInv`: the check reads the task and parks in one step, and from then on every terminal
transition sends its message to the registered process.

`OwnershipProofs` also proves of the turn contract, for any number of messages and dispatches, `ContractSafe` (messages run in order, one at a time, on
charged capacity) and `ContractFinal` (an outcome is never changed, capacity is never released under a running prompt). Together with
`ImplementsContract`, which TLC checks, this is what a client of the execution plane may rely on. `Bounds` (the
constants are naturals) is an assumption of the theorems.

`DrainProofs` proves of the fleet `FleetSafe` (`FleetBound`) and `FleetLineage` (`FleetInv`) for any number of workers, generations,
older cycles and faults. `FleetBound` counts workflows, but a refill decides on intents, before any workflow exists.
`FleetInv` therefore counts *busy slots*: slots whose current generation draws jobs, will, or will once it is
enqueued, together with the untracked cycles. Generations before the intent have left their loop and none after it exists, so
each busy slot stands for at most one drawing workflow. The lemmas on `Room` and `Taken` say
that a reservation adds at most the room it computed; `FleetStep` has one step per action.

Of the drain cycle it proves, for any number of cycles, jobs and faults and any limits, `PermitsAgree` (`PermitInv`), `JobAlone` (`JobRunsAlone`), `PoolSafe` (`PoolHolds`)
and `AllowanceSafe` (`AllowanceHolds`). `PermitInv` ties the four rows together: a
session that waits has a reserved permit, one that runs a running one, a guest that may be working (a `stray` one apart) belongs to a turn that runs or failed
with its permit retained, a waived permit is of an unknown turn of the fact review, two active permits of one job are a waived one and one that is not,
and the limits hold. It does not mention leases: that a job runs alone
follows from admission, which refuses a second active permit of a job unless the first is waived, and not from the job's lease, which a replayed or late
step may give back too early. The counting steps use that the sets concerned are finite (`DrainerAssumption`).

Only model-checked, on the instances above: the properties of `TurnExecution`, among them the refinement
`ImplementsContract`, and all liveness, which the prover does not reach: `NoStarvation`, `EventuallySettled`,
`PrimedIsKnown`, `EveryMessageEnds`, `IntentsAreServed`, `SlotsRefill` and `PermitsReturn`.

## Not modelled

*Task plane.* Usage and metering payloads, result bodies and truncation, authentication, HTTP rendering and telemetry;
`backoff_ms` and other durations (a timer fires at any later time); op-log batching and
connection management (they appear as outcomes); several workloads at once (queues,
caps and counters are per workload, and the models are of one); several nodes in `VmInventory` (a vm_id lives on
one node, and the dispatcher's dedupe is by vm_id). Quota arithmetic is a free choice of which
budgeted principals are blocked. The op journal behind the rows (a redriven task may have lost the op that holds its
request, `op_log/postgres.ex:2933`) and the router's admission check (`router.ex:419`, which lets a burst pass the depth cap together)
are known and not covered.

*Turns.* Several sessions at once: the lanes are independent except for the pool, which `Drainer` has, and except that
`_higher_priority_waiting` counts a head that cannot start (`admission.py:238`). Prompt building, streaming,
workspace transfer, transcripts, artifacts and the login path are data. Durations are flags.

*Drain cycle.* The correction turn, the review rotation, the grimoire kind and prompt building; the fences of
the session, which `TurnStore` has; the jobs of an older release's cycles; the decision whether to chain, which is left open. Reconciliation
of a workflow that exceeded its recoveries is refused by the code and in the model (status `exceeded`). `recover_completed_raw`, by which an operator
applies a saved result once everything is settled, is left out. `Drainer` and `DrainFleet`
are checked apart: their product is beyond TLC, and the only fact one needs of the other is the number of
cycles, which is proved.

*Everything else.* The rest of the monolith (the conductor with its GitHub state, chat, knowledge, the
frontend) and the other projects are listed, with the reason, in the components of `PROJECT.json`. The modules cover a small part of the
repository's lines: about 7,700 of the 230,000 lines of Python outside tests, and 3,200 lines of Elixir
and Go. They are the parts where several processes change the same durable state; most of the rest is request handlers, data
pipelines and calls to other services, whose faithful model would be a transcript of the code with nothing to check.
