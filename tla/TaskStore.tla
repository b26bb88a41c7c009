------------------------------ MODULE TaskStore ------------------------------
(***************************************************************************)
(* The task store of the EmberVM control plane: an ETS hot set written     *)
(* through to the durable op-log.  Source: task_store.ex, with the task    *)
(* projection of op_log/postgres.ex, in control/lib/embervm.               *)
(*                                                                         *)
(* Every handler of the store is one action.  A handler appends to the     *)
(* op-log and updates ETS only when the append is confirmed, so each       *)
(* append has an outcome (see Outcomes).  The callers are left open: any   *)
(* handler may be called at any time (module Dispatcher closes them).      *)
(***************************************************************************)
EXTENDS TaskOpLog, Retry

CONSTANTS
  TaskIds,       \* the ids id_fun may draw
  NoId,          \* no entry in the idempotency index
  Nodes,         \* the bricks tasks are dispatched to
  NoNode,        \* a task whose placement is unknown
  SubmitKeys,    \* the idempotency keys submits carry (NoKey: none)
  Deadlines,     \* the expires_at values submits carry (NoDeadline: no TTL)
  Faults,        \* what may become of an append that is not confirmed
  Reported,      \* the failure reasons workers report
  DlqEnabled,    \* the workload's dead-letter queue is enabled
  ResultTtl,     \* how long a stored result is served
  Retention,     \* how long a terminal row outlives its last update
  AttemptBound,  \* bound: no retry at or past this attempt or retry count
  TimeBound      \* bound: the clock stops here

ASSUME StoreAssumption ==
  /\ NoId \notin TaskIds
  /\ NoNode \notin Nodes
  /\ SubmitKeys \subseteq Keys \cup {NoKey}
  /\ Deadlines \subseteq Int
  /\ Faults \subseteq {"lost", "late"}
  /\ Reported \subseteq Reasons
  /\ DlqEnabled \in BOOLEAN
  /\ {ResultTtl, Retention, AttemptBound, TimeBound} \subseteq Nat

VARIABLES
  tasks,    \* ETS: task id -> task; "none" is an id the table does not hold
  idem,     \* ETS: idempotency key -> task id
  rows,     \* op-log: task id -> row of the tasks table
  results,  \* op-log: task id -> expires_at of its results row, or NoResult
  now,      \* the wall clock
  issued,   \* ids that have had a row (id_fun never repeats one)
  acked,    \* history: ids a submit replied with
  pruned,   \* history: ids whose row a prune removed
  runs      \* history: runs started per task since its submit or redrive

vars == <<tasks, idem, rows, results, now, issued, acked, pruned, runs>>

NoTask ==
  [state |-> "none", attempt |-> 0, capacity_retries |-> 0, key |-> NoKey,
   node |-> NoNode, expires |-> NoDeadline]

Tasks ==
  [state : States \cup {"none"}, attempt : Nat, capacity_retries : Nat,
   key : Keys \cup {NoKey}, node : Nodes \cup {NoNode}, expires : Int]

NoResult == -1

\* What becomes of one append: confirmed; not committed and reported
\* unavailable; or reported unavailable (a call timeout, a connection cut after
\* COMMIT) and committed all the same.  A timed-out append sits in the op-log's
\* mailbox ahead of every later call of the store, so it lands before them.
Outcomes == {"ok"} \cup Faults
Confirmed(outcome) == outcome = "ok"
Committed(outcome) == outcome # "lost"

Expired(task) == task.expires # NoDeadline /\ now > task.expires

LiveResult(t) == results[t] # NoResult /\ ~ (results[t] < now)

-----------------------------------------------------------------------------
(* submit *)

QueuedTask(k, d) ==
  [NoTask EXCEPT !.state = "queued", !.attempt = 1, !.key = k, !.expires = d]

\* Mutant: ETS is written, and the submit acknowledged, before the append.
DoSubmitEtsFirst(ets, index, table, t, k, d, o) ==
  LET refused   == KeyTaken(table, k)
      committed == Committed(o) /\ ~ refused
  IN /\ rows' = IF committed THEN [table EXCEPT ![t] = Submitted(k, d, now)]
                ELSE table
     /\ issued' = issued \cup {t}
     /\ tasks' = [ets EXCEPT ![t] = QueuedTask(k, d)]
     /\ idem' = IF k # NoKey THEN [index EXCEPT ![k] = t] ELSE index
     /\ acked' = acked \cup {t}

\* do_submit, after the caller has left the tables at ets, index and table.
DoSubmit(ets, index, table, t, k, d, o) ==
  LET refused   == KeyTaken(table, k)
      committed == Committed(o) /\ ~ refused
      created   == Confirmed(o) /\ ~ refused
  IN /\ rows' = IF committed THEN [table EXCEPT ![t] = Submitted(k, d, now)]
                ELSE table
     /\ issued' = IF committed THEN issued \cup {t} ELSE issued
     /\ tasks' = IF created THEN [ets EXCEPT ![t] = QueuedTask(k, d)] ELSE ets
     /\ idem' = IF created /\ k # NoKey THEN [index EXCEPT ![k] = t] ELSE index
     /\ acked' = IF created THEN acked \cup {t} ELSE acked

\* No idempotency key, no entry for it, or an entry whose task ETS lost.
SubmitFresh(t, k, d, o) ==
  /\ t \notin issued
  /\ (k # NoKey /\ idem[k] # NoId) => tasks[idem[k]].state = "none"
  /\ DoSubmit(tasks, idem, rows, t, k, d, o)
  /\ UNCHANGED <<results, now, pruned, runs>>

\* A duplicate of live work, or of a finished task whose result is served.
SubmitExisting(k) ==
  /\ idem[k] # NoId
  /\ tasks[idem[k]].state # "none"
  /\ tasks[idem[k]].state \in TerminalStates => LiveResult(idem[k])
  /\ acked' = acked \cup {idem[k]}
  /\ UNCHANGED <<tasks, idem, rows, results, now, issued, pruned, runs>>

\* A finished task whose result is gone, or could not be read: its row (the
\* results row cascades) and its ETS entries go, then the submit runs afresh.
SubmitResubmit(t, k, d, readOk, evict, o) ==
  /\ t \notin issued
  /\ idem[k] # NoId
  /\ tasks[idem[k]].state \in TerminalStates
  /\ readOk => ~ LiveResult(idem[k])
  /\ LET old   == idem[k]
         table == IF Committed(evict) THEN [rows EXCEPT ![old] = NoRow] ELSE rows
     IN /\ results' = IF Committed(evict) THEN [results EXCEPT ![old] = NoResult]
                      ELSE results
        /\ pruned' = IF Committed(evict) THEN pruned \cup {old} ELSE pruned
        /\ IF Confirmed(evict)
           THEN DoSubmit([tasks EXCEPT ![old] = NoTask],
                         [idem EXCEPT ![k] = NoId], table, t, k, d, o)
           ELSE rows' = table /\ UNCHANGED <<tasks, idem, issued, acked>>
  /\ UNCHANGED <<now, runs>>

-----------------------------------------------------------------------------
(* assign, start, succeed *)

\* append_and_update: the row changes when the op commits, ETS only when the
\* op-log confirms it.
WriteThrough(t, o, row, task) ==
  /\ rows' = IF Committed(o) THEN [rows EXCEPT ![t] = row] ELSE rows
  /\ tasks' = IF Confirmed(o) THEN [tasks EXCEPT ![t] = task] ELSE tasks

\* The :assigned append, issued under the task's attempt; ETS keeps the node.
Assign(t, n, o) ==
  \E next \in States :
    /\ <<tasks[t].state, "assign", next>> \in Transitions
    /\ WriteThrough(t, o,
         AdvanceTaskState(rows[t], next, now, tasks[t].attempt),
         [tasks[t] EXCEPT !.state = next, !.node = n])
    /\ UNCHANGED <<idem, results, now, issued, acked, pruned, runs>>

\* The :started append, on the node of the assign (commit_dispatch passes one
\* node to both).
Start(t, o) ==
  \E next \in States :
    /\ <<tasks[t].state, "start", next>> \in Transitions
    /\ WriteThrough(t, o,
         AdvanceTaskState(rows[t], next, now, tasks[t].attempt),
         [tasks[t] EXCEPT !.state = next])
    /\ runs' = IF Confirmed(o) THEN [runs EXCEPT ![t] = @ + 1] ELSE runs
    /\ UNCHANGED <<idem, results, now, issued, acked, pruned>>

\* The result expires ResultTtl after the reporting worker was dispatched.  The
\* results row references the tasks row: without one the append is refused.
Succeed(t, dispatched, o) ==
  \E next \in States :
    /\ <<tasks[t].state, "succeed", next>> \in Transitions
    /\ rows[t].state # "none"
    /\ WriteThrough(t, o, UpdateTaskState(rows[t], next, now),
                    [tasks[t] EXCEPT !.state = next])
    /\ results' = IF Committed(o)
                  THEN [results EXCEPT ![t] = dispatched + ResultTtl]
                  ELSE results
    /\ UNCHANGED <<idem, now, issued, acked, pruned, runs>>

-----------------------------------------------------------------------------
(* fail, retry, redrive, expire, reassign_in_flight *)

\* The attempt the retry budget is charged at: net of capacity refusals.
BudgetAttempt(task) ==
  IF task.attempt - task.capacity_retries > 1
  THEN task.attempt - task.capacity_retries
  ELSE 1

FailEvent(task, reason) == Classify(reason, BudgetAttempt(task))

FailState(task, reason) ==
  CHOOSE next \in States :
    <<task.state, FailEvent(task, reason), next>> \in Transitions

\* A confirmed permanent failure goes on to the dead-letter queue.
DeadLetters(task, reason, o) ==
  Confirmed(o) /\ DlqEnabled /\ FailEvent(task, reason) = "fail_permanent"

\* Mutant: the event is stored in place of the state it leads to.
FailedTaskEvent(task, reason, o, dlq) ==
  IF ~ Confirmed(o) THEN task ELSE [task EXCEPT !.state = FailEvent(task, reason)]

\* The ETS task after the :failed append and, with a DLQ, the :dead_lettered one.
FailedTask(task, reason, o, dlq) ==
  IF ~ Confirmed(o) THEN task
  ELSE [task EXCEPT
          !.state = IF DeadLetters(task, reason, o) /\ Confirmed(dlq)
                    THEN "dead_lettered" ELSE FailState(task, reason),
          !.capacity_retries = IF reason = "capacity" THEN @ + 1 ELSE @]

FailedRow(row, task, reason, o, dlq) ==
  LET failed == UpdateTaskState(row, FailState(task, reason), now)
  IN IF ~ Committed(o) THEN row
     ELSE IF DeadLetters(task, reason, o) /\ Committed(dlq)
     THEN UpdateTaskState(failed, "dead_lettered", now)
     ELSE failed

Fail(t, reason, o, dlq) ==
  /\ tasks[t].state \in InFlightStates
  /\ tasks' = [tasks EXCEPT ![t] = FailedTask(@, reason, o, dlq)]
  /\ rows' = [rows EXCEPT ![t] = FailedRow(@, tasks[t], reason, o, dlq)]
  /\ UNCHANGED <<idem, results, now, issued, acked, pruned, runs>>

\* on_node?: a task whose placement is unknown is on every node.
InFlightOn(n) ==
  {t \in TaskIds : /\ tasks[t].state \in InFlightStates
                   /\ tasks[t].node \in {n, NoNode}}

\* A node's down edge fails each of its tasks as transport, one by one; an
\* append error for one does not stop the next.
ReassignInFlight(n, o, dlq) ==
  LET down == InFlightOn(n)
  IN /\ down # {}
     /\ tasks' = [t \in TaskIds |->
                    IF t \in down
                    THEN FailedTask(tasks[t], "transport", o[t], dlq[t])
                    ELSE tasks[t]]
     /\ rows' = [t \in TaskIds |->
                   IF t \in down
                   THEN FailedRow(rows[t], tasks[t], "transport", o[t], dlq[t])
                   ELSE rows[t]]
     /\ UNCHANGED <<idem, results, now, issued, acked, pruned, runs>>

RetryTask(t, o) ==
  \E next \in States :
    /\ <<tasks[t].state, "retry", next>> \in Transitions
    /\ tasks[t].attempt < AttemptBound
    /\ rows[t].attempt < AttemptBound
    /\ WriteThrough(t, o, Retried(rows[t], now),
                    [tasks[t] EXCEPT !.state = next, !.attempt = @ + 1])
    /\ UNCHANGED <<idem, results, now, issued, acked, pruned, runs>>

Redrive(t, o) ==
  \E next \in States :
    /\ <<tasks[t].state, "redrive", next>> \in Transitions
    /\ WriteThrough(t, o, Redriven(rows[t], now),
                    [tasks[t] EXCEPT !.state = next, !.attempt = 1,
                                     !.capacity_retries = 0])
    /\ runs' = IF Committed(o) THEN [runs EXCEPT ![t] = 0] ELSE runs
    /\ UNCHANGED <<idem, results, now, issued, acked, pruned>>

\* A queued task past its deadline, which the dispatcher decides: no dead letter.
Expire(t, o) ==
  \E next \in States :
    /\ <<tasks[t].state, "expire", next>> \in Transitions
    /\ WriteThrough(t, o, UpdateTaskState(rows[t], next, now),
                    [tasks[t] EXCEPT !.state = next])
    /\ UNCHANGED <<idem, results, now, issued, acked, pruned, runs>>

-----------------------------------------------------------------------------
(* restart, compaction, time *)

\* Mutant: the durable retry count is taken for the attempt.
RowToTaskZeroBased(row) ==
  IF row.state = "none" THEN NoTask
  ELSE [NoTask EXCEPT !.state = row.state, !.attempt = row.attempt,
                      !.key = row.key, !.expires = row.expires]

\* row_to_task: the durable retry count becomes a 1-based attempt; the node and
\* the capacity count are not in the row.
RowToTask(row) ==
  IF row.state = "none" THEN NoTask
  ELSE [NoTask EXCEPT !.state = row.state, !.attempt = row.attempt + 1,
                      !.key = row.key, !.expires = row.expires]

\* Mutant: the rebuild indexes live tasks only.
RebuiltLiveIndex ==
  [k \in Keys |-> IF \E t \in TaskIds : rows[t].key = k /\ rows[t].state \notin TerminalStates
                  THEN CHOOSE t \in TaskIds : rows[t].key = k
                  ELSE NoId]

RebuiltIndex ==
  [k \in Keys |-> IF KeyTaken(rows, k)
                  THEN CHOOSE t \in TaskIds : rows[t].key = k
                  ELSE NoId]

\* The store dies (between any two steps of a handler: an outcome of that
\* handler) and init rebuilds ETS from load_tasks.
Restart ==
  /\ tasks' = [t \in TaskIds |-> RowToTask(rows[t])]
  /\ idem' = RebuiltIndex
  /\ UNCHANGED <<rows, results, now, issued, acked, pruned, runs>>

\* One row of a compaction batch: delete_expired_results.
CompactResult(t) ==
  /\ results[t] # NoResult
  /\ results[t] < now
  /\ results' = [results EXCEPT ![t] = NoResult]
  /\ UNCHANGED <<tasks, idem, rows, now, issued, acked, pruned, runs>>

\* One row of a compaction batch: delete_terminal_tasks (results cascade).
CompactTask(t) ==
  /\ rows[t].state \in TerminalStates
  /\ rows[t].at < now - Retention
  /\ rows' = [rows EXCEPT ![t] = NoRow]
  /\ results' = [results EXCEPT ![t] = NoResult]
  /\ pruned' = pruned \cup {t}
  /\ UNCHANGED <<tasks, idem, now, issued, acked, runs>>

Tick ==
  /\ now < TimeBound
  /\ now' = now + 1
  /\ UNCHANGED <<tasks, idem, rows, results, issued, acked, pruned, runs>>

-----------------------------------------------------------------------------

Init ==
  /\ tasks = [t \in TaskIds |-> NoTask]
  /\ idem = [k \in Keys |-> NoId]
  /\ rows = [t \in TaskIds |-> NoRow]
  /\ results = [t \in TaskIds |-> NoResult]
  /\ now = 0
  /\ issued = {}
  /\ acked = {}
  /\ pruned = {}
  /\ runs = [t \in TaskIds |-> 0]

Next ==
  \/ \E t \in TaskIds, d \in Deadlines, o \in Outcomes :
       \/ \E k \in SubmitKeys : SubmitFresh(t, k, d, o)
       \/ \E k \in SubmitKeys \ {NoKey}, readOk \in BOOLEAN, evict \in Outcomes :
            SubmitResubmit(t, k, d, readOk, evict, o)
  \/ \E k \in SubmitKeys \ {NoKey} : SubmitExisting(k)
  \/ \E t \in TaskIds, o \in Outcomes :
       \/ \E n \in Nodes : Assign(t, n, o)
       \/ Start(t, o)
       \/ \E dispatched \in 0..now : Succeed(t, dispatched, o)
       \/ \E reason \in Reported, dlq \in Outcomes : Fail(t, reason, o, dlq)
       \/ RetryTask(t, o)
       \/ Redrive(t, o)
       \/ Expire(t, o)
  \/ \E n \in Nodes, o, dlq \in [TaskIds -> Outcomes] : ReassignInFlight(n, o, dlq)
  \/ Restart
  \/ \E t \in TaskIds : CompactResult(t) \/ CompactTask(t)
  \/ Tick

Spec == Init /\ [][Next]_vars

-----------------------------------------------------------------------------
(* Properties *)

\* Every variable has its type.
TypeOK ==
  /\ tasks \in [TaskIds -> Tasks]
  /\ idem \in [Keys -> TaskIds \cup {NoId}]
  /\ rows \in [TaskIds -> Rows]
  /\ results \in [TaskIds -> Int]
  /\ now \in Nat
  /\ issued \subseteq TaskIds
  /\ acked \subseteq TaskIds
  /\ pruned \subseteq TaskIds
  /\ runs \in [TaskIds -> Nat]

\* The durable row is at or past the ETS task: more retries counted, or as many
\* and a state of at least its rank.
AtLeast(row, task) ==
  \/ row.attempt >= task.attempt
  \/ /\ row.attempt + 1 = task.attempt
     /\ ForwardRank(row.state) >= ForwardRank(task.state)

\* Write-through (append_and_update, retry, redrive): whatever appends were lost
\* or landed unconfirmed, and however restarts fall between them, the op-log is
\* never behind what ETS shows of a task that is not dead-lettered, so a rebuild
\* cannot undo progress a caller has seen.
OpLogNeverBehind ==
  \A t \in TaskIds :
    tasks[t].state \notin {"none", "dead_lettered"} /\ rows[t].state # "none"
      => AtLeast(rows[t], tasks[t])

\* A finished task is as finished in the op-log: the row of a succeeded task says
\* succeeded, that of a failed one failed or (its chained append unconfirmed)
\* dead-lettered, that of a dead-lettered one dead-lettered or (its redrive
\* unconfirmed) queued.
SettledInOpLog ==
  \A t \in TaskIds : rows[t].state # "none" =>
    /\ tasks[t].state = "succeeded" => rows[t].state = "succeeded"
    /\ tasks[t].state = "failed_permanent"
         => rows[t].state \in {"failed_permanent", "dead_lettered"}
    /\ tasks[t].state = "dead_lettered"
         => rows[t].state \in {"dead_lettered", "queued"}

\* submit's dedupe: the ETS index names exactly the ETS task under each key, and
\* never a different task than the durable unique index does, so one key never
\* has two tasks.
OneTaskPerKey ==
  \A k \in Keys :
    /\ idem[k] # NoId => tasks[idem[k]].key = k
    /\ \A t \in TaskIds : tasks[t].key = k => idem[k] = t
    /\ \A t \in TaskIds : rows[t].key = k /\ idem[k] # NoId => idem[k] = t

\* An id a submit replied with is durable and known to the store from then on,
\* over every restart, until a prune removes its row.
AckedUntilPruned ==
  \A t \in acked \ pruned : rows[t].state # "none" /\ tasks[t].state # "none"

\* apply_transition's epoch and row_to_task's attempt: no attempt is started twice.
\* A restart that finds a run's :assigned or :started append missing from its row
\* gives the task a later attempt before it is started again.
AttemptRunsOnce ==
  \A t \in TaskIds : tasks[t].state # "none" =>
    runs[t] <= IF tasks[t].state \in {"queued", "assigned"}
               THEN tasks[t].attempt - 1
               ELSE tasks[t].attempt

\* A succeeded task is never seen in another state again: neither a late report,
\* nor a node's down edge, nor a rebuild takes a success back; only a prune
\* removes it.
SuccessIsFinal ==
  [][\A t \in TaskIds : tasks[t].state = "succeeded"
        => tasks'[t].state \in {"succeeded", "none"}]_vars

\* The attempt, which fences lifecycle appends, never goes back: it falls only
\* when a dead-lettered task is redriven or a task is removed.
AttemptNeverFalls ==
  [][\A t \in TaskIds : tasks'[t].attempt < tasks[t].attempt
        => tasks[t].state = "dead_lettered" \/ tasks'[t].state = "none"]_vars

=============================================================================
