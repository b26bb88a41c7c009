----------------------------- MODULE Dispatcher -----------------------------
(***************************************************************************)
(* The dispatcher of one workload, composed with the task store it calls.  *)
(* Source: dispatcher.ex, in control/lib/embervm.                          *)
(*                                                                         *)
(* The dispatcher is one process.  It handles a message at a time, and     *)
(* inside a handler it makes several calls to the store, between which the *)
(* other callers of the store (clients, the node registry) get theirs in:  *)
(* pc says where in its handler the dispatcher is.  Every step of the      *)
(* composition that touches the store is a step of module TaskStore.       *)
(***************************************************************************)
EXTENDS TaskStore, FairQueue

CONSTANTS
  Owner,         \* task id -> the principal that submits it
  Budgeted,      \* principals with a daily quota, which may be exhausted
  Downable,      \* the nodes the registry may declare down
  FaultBound     \* bound: unconfirmed calls, refused placements and crashes

ASSUME DispatcherAssumption ==
  /\ Owner \in [TaskIds -> Principals]
  /\ Budgeted \subseteq Principals
  /\ Downable \subseteq Nodes
  /\ "transport" \in Reported
  /\ FaultBound \in Nat

VARIABLES
  fq,            \* the workload's fair queue
  queued_ids,    \* the tasks it holds, or that are being committed
  depth,         \* the queue-depth counter of each principal
  inflight_wl,   \* tasks in flight
  inflight_pr,   \* ... of each principal
  workers,       \* pid -> the task its worker runs
  retry_timers,  \* tasks whose backoff timer is armed
  casts,         \* mailbox: {:enqueue, task} casts of the store's on_queued hook
  pc,            \* the step of the handler in progress
  faults         \* faults so far

control == <<fq, queued_ids, depth, inflight_wl, inflight_pr, workers, retry_timers>>
dvars == <<vars, control, casts, pc, faults>>

Pids == 1..Cap

NoWorker == [task |-> NoId, at |-> 0, attempt |-> 0]

Live == {p \in Pids : workers[p] # NoWorker}

Tracked == {workers[p].task : p \in Live}

\* A call of the dispatcher to the store: one of the append's outcomes, or
\* confirmed with the reply lost (safe_call turns the timeout into :error).
Replies == Outcomes \cup {"unheard"}
AppendOf(r) == IF r = "unheard" THEN "ok" ELSE r
Heard(r) == r = "ok"

Fault(bad) ==
  /\ faults' = faults + (IF bad THEN 1 ELSE 0)
  /\ faults' <= FaultBound

\* notify_queued: every transition into queued casts enqueue.
NotifyQueued ==
  casts' = casts \cup {t \in TaskIds : tasks'[t].state = "queued"
                                       /\ tasks[t].state # "queued"}

Legal(t, event) == \E next \in States : <<tasks[t].state, event, next>> \in Transitions

At(step, t, backlog) == [step |-> step, task |-> t, backlog |-> backlog]
Goto(step) == pc' = At(step, NoId, {})

-----------------------------------------------------------------------------
(* enqueue *)

DoEnqueue(t) ==
  IF t \in queued_ids THEN UNCHANGED <<fq, queued_ids, depth>>
  ELSE /\ fq' = FqEnqueue(fq, Owner[t], t)
       /\ queued_ids' = queued_ids \cup {t}
       /\ depth' = [depth EXCEPT ![Owner[t]] = @ + 1]

EnqueueCast(t) ==
  /\ pc.step = "idle"
  /\ t \in casts
  /\ casts' = casts \ {t}
  /\ DoEnqueue(t)
  /\ Goto("drain")
  /\ UNCHANGED <<vars, inflight_wl, inflight_pr, workers, retry_timers, faults>>

-----------------------------------------------------------------------------
(* drain_loop, dispatch_one, commit *)

CanTake(blocked) ==
  IF FqEmpty(fq) \/ inflight_wl >= Cap THEN {}
  ELSE Servable(fq, ShareCap(fq, inflight_pr), inflight_pr, blocked)

\* Nothing can be taken, or pick_node finds no capacity.
DrainStop(denied) ==
  /\ pc.step = "drain"
  /\ denied \/ \E blocked \in SUBSET Budgeted : CanTake(blocked) = {}
  /\ Goto("idle")
  /\ Fault(denied)
  /\ UNCHANGED <<vars, control, casts>>

\* fq_take, then expired?, a read of the store (a failed read: not expired).
DrainTake(blocked, read) ==
  LET taken == FqTake(fq, CanTake(blocked))
  IN /\ pc.step = "drain"
     /\ CanTake(blocked) # {}
     /\ fq' = taken.fq
     /\ pc' = At(IF read /\ Expired(tasks[taken.task]) THEN "expire" ELSE "assign",
                 taken.task, {})
     /\ Fault(~ read)
     /\ UNCHANGED <<vars, queued_ids, depth, inflight_wl, inflight_pr, workers,
                    retry_timers, casts>>

\* The task leaves the queue: its depth reservation and its dedupe slot go.
ReleaseDepth(t) ==
  /\ depth' = [depth EXCEPT ![Owner[t]] = IF @ > 0 THEN @ - 1 ELSE 0]
  /\ queued_ids' = queued_ids \ {t}

ExpireTaken(o) ==
  /\ pc.step = "expire"
  /\ IF Legal(pc.task, "expire") THEN Expire(pc.task, o) ELSE UNCHANGED vars
  /\ ReleaseDepth(pc.task)
  /\ Goto("drain")
  /\ Fault(o # "ok")
  /\ UNCHANGED <<fq, inflight_wl, inflight_pr, workers, retry_timers, casts>>

\* Mutant: a refused commit keeps the depth reservation.
AssignTakenLeak(n, r) ==
  /\ pc.step = "assign"
  /\ IF Legal(pc.task, "assign") THEN Assign(pc.task, n, AppendOf(r))
     ELSE UNCHANGED vars
  /\ IF Legal(pc.task, "assign") /\ Heard(r)
     THEN pc' = At("start", pc.task, {}) /\ UNCHANGED <<depth, queued_ids>>
     ELSE Goto("drain") /\ queued_ids' = queued_ids \ {pc.task} /\ UNCHANGED depth
  /\ Fault(~ Heard(r))
  /\ UNCHANGED <<fq, inflight_wl, inflight_pr, workers, retry_timers, casts>>

\* commit_dispatch, the assign call: anything but a confirmed assign drops the
\* task from the dispatcher's view and the loop goes on.
AssignTaken(n, r) ==
  /\ pc.step = "assign"
  /\ IF Legal(pc.task, "assign") THEN Assign(pc.task, n, AppendOf(r))
     ELSE UNCHANGED vars
  /\ IF Legal(pc.task, "assign") /\ Heard(r)
     THEN pc' = At("start", pc.task, {}) /\ UNCHANGED <<depth, queued_ids>>
     ELSE Goto("drain") /\ ReleaseDepth(pc.task)
  /\ Fault(~ Heard(r))
  /\ UNCHANGED <<fq, inflight_wl, inflight_pr, workers, retry_timers, casts>>

\* spawn_assign_worker and inc_inflight.
Spawn(t) ==
  LET pid == CHOOSE p \in Pids \ Live : \A q \in Pids \ Live : p <= q
  IN /\ workers' = [workers EXCEPT ![pid] =
                      [task |-> t, at |-> now, attempt |-> tasks[t].attempt]]
     /\ inflight_wl' = inflight_wl + 1
     /\ inflight_pr' = [inflight_pr EXCEPT ![Owner[t]] = @ + 1]

\* commit_dispatch, the start call: a confirmed start gets a worker.
StartTaken(r) ==
  LET started == Legal(pc.task, "start") /\ Heard(r)
  IN /\ pc.step = "start"
     /\ IF Legal(pc.task, "start") THEN Start(pc.task, AppendOf(r))
        ELSE UNCHANGED vars
     /\ IF started THEN Spawn(pc.task)
        ELSE UNCHANGED <<workers, inflight_wl, inflight_pr>>
     /\ ReleaseDepth(pc.task)
     /\ Goto("drain")
     /\ Fault(~ Heard(r))
     /\ UNCHANGED <<fq, retry_timers, casts>>

-----------------------------------------------------------------------------
(* finish_worker, retries *)

\* Mutant: the per-principal counter is left behind.
FinishedKeepsShare(p) ==
  /\ workers' = [workers EXCEPT ![p] = NoWorker]
  /\ inflight_wl' = IF inflight_wl > 1 THEN inflight_wl - 1 ELSE 0
  /\ UNCHANGED inflight_pr

\* The worker's slot and its in-flight counts (dec_key clamps at zero).
Finished(p) ==
  LET pr == Owner[workers[p].task]
  IN /\ workers' = [workers EXCEPT ![p] = NoWorker]
     /\ inflight_wl' = IF inflight_wl > 1 THEN inflight_wl - 1 ELSE 0
     /\ inflight_pr' = [inflight_pr EXCEPT ![pr] = IF @ > 1 THEN @ - 1 ELSE 0]

WorkerSucceeds(p, r) ==
  LET t == workers[p].task
  IN /\ pc.step = "idle"
     /\ p \in Live
     /\ IF Legal(t, "succeed") /\ rows[t].state # "none"
        THEN Succeed(t, workers[p].at, AppendOf(r))
        ELSE UNCHANGED vars
     /\ Finished(p)
     /\ Goto("drain")
     /\ Fault(~ Heard(r))
     /\ UNCHANGED <<fq, queued_ids, depth, retry_timers, casts>>

\* apply_failure: the store's fail call, and a backoff timer for the dispatcher
\* to fire when the reply says retryable.
FailCall(t, reason, r, dlq) ==
  IF tasks[t].state \in InFlightStates
  THEN /\ Fail(t, reason, AppendOf(r), dlq)
       /\ retry_timers' = IF Heard(r) /\ FailEvent(tasks[t], reason) = "fail_retryable"
                          THEN retry_timers \cup {t} ELSE retry_timers
  ELSE UNCHANGED <<vars, retry_timers>>

\* A reported failure; a worker that dies, or is killed by the watchdog, fails as
\* transport.
WorkerFails(p, reason, r, dlq) ==
  /\ pc.step = "idle"
  /\ p \in Live
  /\ FailCall(workers[p].task, reason, r, dlq)
  /\ Finished(p)
  /\ Goto("drain")
  /\ Fault(~ Heard(r) \/ dlq # "ok")
  /\ UNCHANGED <<fq, queued_ids, depth, casts>>

RetryCall(t, o) ==
  IF Legal(t, "retry") /\ tasks[t].attempt < AttemptBound /\ rows[t].attempt < AttemptBound
  THEN RetryTask(t, o)
  ELSE UNCHANGED vars

RetryTimer(t, o) ==
  /\ pc.step = "idle"
  /\ t \in retry_timers
  /\ retry_timers' = retry_timers \ {t}
  /\ RetryCall(t, o)
  /\ NotifyQueued
  /\ Fault(o # "ok")
  /\ UNCHANGED <<fq, queued_ids, depth, inflight_wl, inflight_pr, workers, pc>>

-----------------------------------------------------------------------------
(* run_sweep *)

\* Mutant: a retry timer does not keep the sweep from retrying.
BacklogIgnoresTimers ==
  {<<t, tasks[t].state>> : t \in {u \in TaskIds :
     \/ tasks[u].state = "queued" /\ u \notin queued_ids
     \/ tasks[u].state = "failed_retryable"
     \/ tasks[u].state \in InFlightStates /\ u \notin Tracked}}

\* Mutant: a live worker does not keep the sweep from reclaiming its task.
BacklogIgnoresWorkers ==
  {<<t, tasks[t].state>> : t \in {u \in TaskIds :
     \/ tasks[u].state = "queued" /\ u \notin queued_ids
     \/ tasks[u].state = "failed_retryable" /\ u \notin retry_timers
     \/ tasks[u].state \in InFlightStates}}

\* Mutant: in-flight tasks are left alone.
BacklogIgnoresOrphans ==
  {<<t, tasks[t].state>> : t \in {u \in TaskIds :
     \/ tasks[u].state = "queued" /\ u \notin queued_ids
     \/ tasks[u].state = "failed_retryable" /\ u \notin retry_timers}}

\* What list_backlog returns and sweep_one acts on; the dispatcher's own part of
\* the decision cannot change before it does.
Backlog ==
  {<<t, tasks[t].state>> : t \in {u \in TaskIds :
     \/ tasks[u].state = "queued" /\ u \notin queued_ids
     \/ tasks[u].state = "failed_retryable" /\ u \notin retry_timers
     \/ tasks[u].state \in InFlightStates /\ u \notin Tracked}}

\* The periodic sweep, or the boot sweep of a new dispatcher, reads the backlog; a
\* failed read ends it.
Sweep(read) ==
  /\ pc.step \in {"idle", "boot"}
  /\ pc' = IF read THEN At("sweep", NoId, Backlog) ELSE At("idle", NoId, {})
  /\ Fault(~ read)
  /\ UNCHANGED <<vars, control, casts>>

SweepOne(t, r, dlq) ==
  /\ pc.step = "sweep"
  /\ \E state \in States :
       /\ <<t, state>> \in pc.backlog
       /\ pc' = [pc EXCEPT !.backlog = @ \ {<<t, state>>}]
       /\ \/ /\ state = "queued"
             /\ DoEnqueue(t)
             /\ UNCHANGED <<vars, retry_timers>>
          \/ /\ state = "failed_retryable"
             /\ RetryCall(t, AppendOf(r))
             /\ UNCHANGED <<fq, queued_ids, depth, retry_timers>>
          \/ /\ state \in InFlightStates
             /\ FailCall(t, "transport", r, dlq)
             /\ UNCHANGED <<fq, queued_ids, depth>>
  /\ NotifyQueued
  /\ Fault(~ Heard(r) \/ dlq # "ok")
  /\ UNCHANGED <<inflight_wl, inflight_pr, workers>>

SweepDone ==
  /\ pc.step = "sweep"
  /\ pc.backlog = {}
  /\ Goto("drain")
  /\ UNCHANGED <<vars, control, casts, faults>>

-----------------------------------------------------------------------------
(* The other callers of the store, crashes *)

Client(t, o) ==
  /\ \/ \E k \in SubmitKeys, d \in Deadlines : SubmitFresh(t, k, d, o)
     \/ \E k \in SubmitKeys \ {NoKey} : SubmitExisting(k)
     \/ Redrive(t, o)
  /\ NotifyQueued
  /\ Fault(o # "ok")
  /\ UNCHANGED <<control, pc>>

Resubmit(t, evict, o) ==
  /\ \E k \in SubmitKeys \ {NoKey}, d \in Deadlines, readOk \in BOOLEAN :
       SubmitResubmit(t, k, d, readOk, evict, o)
  /\ NotifyQueued
  /\ Fault(o # "ok" \/ evict # "ok")
  /\ UNCHANGED <<control, pc>>

NodeDown(n, o, dlq) ==
  /\ ReassignInFlight(n, o, dlq)
  /\ Fault(\E t \in TaskIds : o[t] # "ok" \/ dlq[t] # "ok")
  /\ UNCHANGED <<control, casts, pc>>

Clock ==
  /\ Tick \/ \E t \in TaskIds : CompactResult(t) \/ CompactTask(t)
  /\ UNCHANGED <<control, casts, pc, faults>>

\* init: the dispatcher starts empty, with a boot sweep.  Its workers are shut down
\* or report to no one.
Boot ==
  /\ fq' = NewFq
  /\ queued_ids' = {}
  /\ depth' = [p \in Principals |-> 0]
  /\ inflight_wl' = 0
  /\ inflight_pr' = [p \in Principals |-> 0]
  /\ workers' = [p \in Pids |-> NoWorker]
  /\ retry_timers' = {}
  /\ casts' = {}
  /\ Goto("boot")
  /\ Fault(TRUE)

DispatcherCrash == Boot /\ UNCHANGED vars

\* rest_for_one: a store restart restarts the dispatcher after it.
StoreCrash == Boot /\ Restart

-----------------------------------------------------------------------------

DispatcherInit ==
  /\ Init
  /\ fq = NewFq
  /\ queued_ids = {}
  /\ depth = [p \in Principals |-> 0]
  /\ inflight_wl = 0
  /\ inflight_pr = [p \in Principals |-> 0]
  /\ workers = [p \in Pids |-> NoWorker]
  /\ retry_timers = {}
  /\ casts = {}
  /\ pc = At("boot", NoId, {})
  /\ faults = 0

DrainStep ==
  \/ \E denied \in BOOLEAN : DrainStop(denied)
  \/ \E blocked \in SUBSET Budgeted, read \in BOOLEAN : DrainTake(blocked, read)

CommitStep ==
  \/ \E o \in Outcomes : ExpireTaken(o)
  \/ \E n \in Nodes, r \in Replies : AssignTaken(n, r)
  \/ \E r \in Replies : StartTaken(r)

SweepStep ==
  \/ \E t \in TaskIds, r \in Replies, dlq \in Outcomes : SweepOne(t, r, dlq)
  \/ SweepDone

WorkerStep(p) ==
  \E r \in Replies :
    \/ WorkerSucceeds(p, r)
    \/ \E reason \in Reported, dlq \in Outcomes : WorkerFails(p, reason, r, dlq)

DispatcherNext ==
  \/ \E t \in TaskIds : EnqueueCast(t)
  \/ DrainStep
  \/ CommitStep
  \/ \E p \in Pids : WorkerStep(p)
  \/ \E t \in TaskIds, o \in Outcomes : RetryTimer(t, o)
  \/ \E read \in BOOLEAN : Sweep(read)
  \/ SweepStep
  \/ \E t \in TaskIds, o \in Outcomes : Client(t, o)
  \/ \E t \in TaskIds, evict, o \in Outcomes : Resubmit(t, evict, o)
  \/ \E n \in Downable, o, dlq \in [TaskIds -> Outcomes] : NodeDown(n, o, dlq)
  \/ Clock
  \/ DispatcherCrash
  \/ StoreCrash

\* A handler once begun runs on.  The mailbox is served in order, so a worker's
\* report, a retry timer and the sweep are handled in the end however many other
\* messages come; a worker ends (its deadline and the watchdog bound it).
Fairness ==
  /\ WF_dvars(DrainStep)
  /\ WF_dvars(CommitStep)
  /\ WF_dvars(SweepStep)
  /\ SF_dvars(\E read \in BOOLEAN : Sweep(read))
  /\ \A p \in Pids : SF_dvars(WorkerStep(p))
  /\ \A t \in TaskIds : SF_dvars(\E o \in Outcomes : RetryTimer(t, o))

DispatcherSpec == DispatcherInit /\ [][DispatcherNext]_dvars

FairDispatcherSpec == DispatcherSpec /\ Fairness

-----------------------------------------------------------------------------
(* Properties *)

Holding == IF pc.step \in {"expire", "assign", "start"} THEN {pc.task} ELSE {}

QueuedOf(p) == {t \in queued_ids : Owner[t] = p}

\* Every variable of the dispatcher has its type.
DispatcherTypeOK ==
  /\ fq \in [rotation : Seq(Principals), fifos : [Principals -> Seq(TaskIds)]]
  /\ queued_ids \subseteq TaskIds
  /\ depth \in [Principals -> Nat]
  /\ inflight_wl \in Nat
  /\ inflight_pr \in [Principals -> Nat]
  /\ workers \in [Pids -> [task : TaskIds \cup {NoId}, at : Nat, attempt : Nat]]
  /\ retry_timers \subseteq TaskIds
  /\ casts \subseteq TaskIds
  /\ pc \in [step : {"boot", "idle", "drain", "expire", "assign", "start", "sweep"},
             task : TaskIds \cup {NoId}, backlog : SUBSET (TaskIds \X States)]
  /\ faults \in 0..FaultBound

\* do_enqueue and release_depth: each task the dispatcher holds is in its owner's
\* FIFO once, or in the commit in progress, and the depth counter the router
\* admits by counts exactly these, whichever calls of the commit fail.
DepthIsExact ==
  /\ RotationMatchesFifos(fq)
  /\ \A p \in Principals :
       /\ Range(fq.fifos[p]) = QueuedOf(p) \ Holding
       /\ Len(fq.fifos[p]) = Cardinality(QueuedOf(p) \ Holding)
       /\ depth[p] = Cardinality(QueuedOf(p))

\* inc_inflight and dec_inflight: the in-flight counters the caps are checked
\* against count exactly the live workers, so the cap is never exceeded and no
\* slot leaks.
InflightIsExact ==
  /\ inflight_wl = Cardinality(Live)
  /\ \A p \in Principals :
       inflight_pr[p] = Cardinality({w \in Live : Owner[workers[w].task] = p})

\* arm_retry and the sweep: a backoff timer is armed only for a task that waits for
\* it, so no retry is issued twice and none before its backoff.
TimerOwnsRetry ==
  \A t \in retry_timers : tasks[t].state = "failed_retryable"

\* finish_worker reports by task id alone.  While no node is declared down, each
\* live worker's task is running under the attempt the worker was started for,
\* and no other worker runs it.
WorkerOwnsRun ==
  \A p \in Live :
    /\ tasks[workers[p].task].state = "running"
    /\ tasks[workers[p].task].attempt = workers[p].attempt
    /\ \A q \in Live : workers[q].task = workers[p].task => q = p

\* "no task lost": once faults cease, every live task reaches a terminal state:
\* whatever cast was dropped, commit half done, report unconfirmed or worker lost
\* with its dispatcher.
EventuallySettled ==
  \A t \in TaskIds :
    tasks[t].state \notin TerminalStates \cup {"none"}
      ~> tasks[t].state \in TerminalStates \cup {"none"}

=============================================================================
