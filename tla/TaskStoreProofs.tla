--------------------------- MODULE TaskStoreProofs ---------------------------
(***************************************************************************)
(* The invariants and action properties of TaskStore, proved for every set *)
(* of tasks, keys and nodes, every retry configuration and every bound.    *)
(*                                                                         *)
(* The inductive invariant IInv has two parts.  TaskInv relates what ETS   *)
(* and the op-log hold of one task; StoreInv relates the tables.  Every    *)
(* handler but submit, the restart and the prune of a row changes tasks    *)
(* one by one without adding or removing any: each such change is a Moves  *)
(* step, and MovesPreserve proves once that such steps preserve IInv.      *)
(***************************************************************************)
EXTENDS TaskStoreInv, TLAPS

\* The provers a leaf that names none is given, in order: the solver again after
\* Zenon, for a leaf whose translation was too slow the first time.
USE SMTT(30), ZenonT(30), SMTT(31), SMTT(32), SMTT(33)

-----------------------------------------------------------------------------
(* Facts about the operators *)

\* states_below: :assigned moves a row only from queued, :started only from
\* queued or assigned.
LEMMA StatesBelowFacts ==
  /\ StatesBelow("assigned") = {"queued"}
  /\ StatesBelow("running") = {"queued", "assigned"}
BY DEF StatesBelow, ForwardRank, States

\* The rank of every state.
LEMMA RankFacts ==
  /\ ForwardRank("queued") = 0
  /\ ForwardRank("assigned") = 1
  /\ ForwardRank("running") = 2
  /\ \A s \in States \ {"queued", "assigned", "running"} : ForwardRank(s) = 3
BY DEF ForwardRank, States

\* The transition table, one event at a time.
LEMMA TransitionFacts ==
  ASSUME NEW s, NEW next
  PROVE  /\ <<s, "assign", next>> \in Transitions <=> s = "queued" /\ next = "assigned"
         /\ <<s, "start", next>> \in Transitions <=> s = "assigned" /\ next = "running"
         /\ <<s, "succeed", next>> \in Transitions <=> s = "running" /\ next = "succeeded"
         /\ <<s, "retry", next>> \in Transitions
              <=> s = "failed_retryable" /\ next = "queued"
         /\ <<s, "redrive", next>> \in Transitions
              <=> s = "dead_lettered" /\ next = "queued"
         /\ <<s, "expire", next>> \in Transitions
              <=> s = "queued" /\ next = "failed_permanent"
         /\ <<s, "fail_retryable", next>> \in Transitions
              <=> s \in InFlightStates /\ next = "failed_retryable"
         /\ <<s, "fail_permanent", next>> \in Transitions
              <=> s \in InFlightStates /\ next = "failed_permanent"
BY DEF Transitions, InFlightStates

\* A failure of an in-flight task goes to the state its classification names.
LEMMA FailStateFacts ==
  ASSUME NEW e, e.state \in InFlightStates, NEW reason
  PROVE  /\ FailEvent(e, reason) \in {"fail_retryable", "fail_permanent"}
         /\ FailState(e, reason) =
              IF FailEvent(e, reason) = "fail_permanent"
              THEN "failed_permanent" ELSE "failed_retryable"
<1>1. FailEvent(e, reason) \in {"fail_retryable", "fail_permanent"}
  BY DEF FailEvent, Classify
<1>2. \A next \in States :
        <<e.state, FailEvent(e, reason), next>> \in Transitions <=>
          next = IF FailEvent(e, reason) = "fail_permanent"
                 THEN "failed_permanent" ELSE "failed_retryable"
  BY <1>1, TransitionFacts, ZenonT(30)
<1> QED
  BY <1>1, <1>2 DEF FailState, States

-----------------------------------------------------------------------------
(* Steps that change tasks one by one *)

\* Task e with row r and n guests run becomes e2, r2 and n2.
Moves(e, r, n, e2, r2, n2) ==
  /\ TaskInv(e2, r2, n2)
  /\ e2.key = e.key /\ r2.key = r.key
  /\ e2.state = "none" <=> e.state = "none"
  /\ r2.state = "none" <=> r.state = "none"
  /\ e.state = "none" => n2 = n
  /\ e.state = "succeeded" => e2.state = "succeeded"
  /\ e2.attempt < e.attempt => e.state = "dead_lettered"

\* What SuccessIsFinal and AttemptNeverFalls say of one step.
SafeStep ==
  /\ \A t \in TaskIds : tasks[t].state = "succeeded"
        => tasks'[t].state \in {"succeeded", "none"}
  /\ \A t \in TaskIds : tasks'[t].attempt < tasks[t].attempt
        => tasks[t].state = "dead_lettered" \/ tasks'[t].state = "none"

\* A step in which every task moves so preserves the invariant.
LEMMA MovesPreserve ==
  ASSUME IInv,
         tasks' = [t \in TaskIds |-> tasks'[t]],
         rows' = [t \in TaskIds |-> rows'[t]],
         runs' = [t \in TaskIds |-> runs'[t]],
         \A t \in TaskIds :
           Moves(tasks[t], rows[t], runs[t], tasks'[t], rows'[t], runs'[t]),
         now' \in Nat, results' \in [TaskIds -> Int],
         UNCHANGED <<idem, issued, acked, pruned>>
  PROVE  IInv' /\ SafeStep
<1>1. \A t \in TaskIds :
        /\ tasks'[t].key = tasks[t].key /\ rows'[t].key = rows[t].key
        /\ tasks'[t].state = "none" <=> tasks[t].state = "none"
        /\ rows'[t].state = "none" <=> rows[t].state = "none"
        /\ tasks[t].state = "none" => runs'[t] = runs[t]
  BY DEF Moves
<1>2. \A t \in TaskIds : TaskInv(tasks'[t], rows'[t], runs'[t])
  BY DEF Moves
<1>3. idem' = idem /\ issued' = issued /\ acked' = acked /\ pruned' = pruned
  OBVIOUS
<1>4. ASSUME NEW k \in Keys
      PROVE  /\ idem'[k] # NoId => tasks'[idem'[k]].key = k
             /\ \A t \in TaskIds : tasks'[t].key = k => idem'[k] = t
             /\ \A t \in TaskIds : rows'[t].key = k /\ idem'[k] # NoId => idem'[k] = t
  <2>1. idem[k] # NoId => idem[k] \in TaskIds
    BY DEF IInv, StoreInv
  <2>2. /\ idem[k] # NoId => tasks[idem[k]].key = k
        /\ \A t \in TaskIds : tasks[t].key = k => idem[k] = t
        /\ \A t \in TaskIds : rows[t].key = k /\ idem[k] # NoId => idem[k] = t
    BY ZenonT(30) DEF IInv, StoreInv, OneTaskPerKey
  <2> QED
    BY <1>1, <1>3, <2>1, <2>2
<1>5. OneTaskPerKey'
  BY <1>4 DEF OneTaskPerKey
<1>6. StoreInv'
  <2>1. \A t \in TaskIds \ issued' :
          tasks'[t].state = "none" /\ rows'[t].state = "none" /\ runs'[t] = 0
    BY <1>1, <1>3 DEF IInv, StoreInv
  <2>2. /\ \A t \in TaskIds \ pruned' : tasks'[t].state # "none" => rows'[t].state # "none"
        /\ \A t \in acked' \ pruned' : tasks'[t].state # "none"
    BY <1>1, <1>3, ZenonT(30) DEF IInv, StoreInv
  <2>3. \A t, u \in TaskIds : rows'[t].key = rows'[u].key /\ rows'[t].key # NoKey => t = u
    <3>1. \A t, u \in TaskIds : rows[t].key = rows[u].key /\ rows[t].key # NoKey => t = u
      BY DEF IInv, StoreInv
    <3> QED
      BY <1>1, <3>1
  <2> QED
    BY <1>3, <1>5, <2>1, <2>2, <2>3 DEF IInv, StoreInv
<1>7. SafeStep
  BY DEF SafeStep, Moves
<1> QED
  BY <1>2, <1>6, <1>7 DEF IInv

\* A task that is left alone moves so.
LEMMA StaysPut ==
  ASSUME NEW e, NEW r, NEW n, TaskInv(e, r, n)
  PROVE  Moves(e, r, n, e, r, n)
BY DEF Moves, TaskInv, Tasks

\* A step in which one task moves so and the others stay preserves the invariant.
LEMMA OneMoves ==
  ASSUME IInv, NEW t \in TaskIds, NEW e2, NEW r2, NEW n2,
         Moves(tasks[t], rows[t], runs[t], e2, r2, n2),
         tasks' = [tasks EXCEPT ![t] = e2],
         rows' = [rows EXCEPT ![t] = r2],
         runs' = [runs EXCEPT ![t] = n2],
         now' \in Nat, results' \in [TaskIds -> Int],
         UNCHANGED <<idem, issued, acked, pruned>>
  PROVE  IInv' /\ SafeStep
<1>1. /\ tasks' = [u \in TaskIds |-> IF u = t THEN e2 ELSE tasks[u]]
      /\ rows' = [u \in TaskIds |-> IF u = t THEN r2 ELSE rows[u]]
      /\ runs' = [u \in TaskIds |-> IF u = t THEN n2 ELSE runs[u]]
  BY ZenonT(30) DEF IInv
<1>2. ASSUME NEW u \in TaskIds
      PROVE  Moves(tasks[u], rows[u], runs[u], tasks'[u], rows'[u], runs'[u])
  <2>1. CASE u = t
    BY <1>1, <2>1
  <2>2. CASE u # t
    <3>1. Moves(tasks[u], rows[u], runs[u], tasks[u], rows[u], runs[u])
      BY StaysPut DEF IInv
    <3> QED
      BY <1>1, <2>2, <3>1
  <2> QED
    BY <2>1, <2>2
<1>3. /\ tasks' = [u \in TaskIds |-> tasks'[u]]
      /\ rows' = [u \in TaskIds |-> rows'[u]]
      /\ runs' = [u \in TaskIds |-> runs'[u]]
  BY <1>1, ZenonT(30)
<1> QED
  BY <1>2, <1>3, MovesPreserve

\* assign and start, whatever becomes of the append.
LEMMA AdvanceMoves ==
  ASSUME NEW e, NEW r, NEW n, TaskInv(e, r, n), NEW ts \in Nat,
         NEW next \in {"assigned", "running"}, NEW node \in Nodes \cup {NoNode},
         e.state = IF next = "assigned" THEN "queued" ELSE "assigned",
         NEW n2 \in {n, n + 1}, n2 # n => next = "running",
         NEW e2, e2 = [e EXCEPT !.state = next, !.node = node],
         NEW r2, r2 = AdvanceTaskState(r, next, ts, e.attempt)
  PROVE  Moves(e, r, n, e, r2, n) /\ Moves(e, r, n, e2, r2, n2)
<1>1. e \in Tasks /\ r \in Rows /\ n \in Nat
  BY DEF TaskInv
<1>2. /\ e2 \in Tasks /\ e2.state = next /\ e2.key = e.key /\ e2.attempt = e.attempt
  BY <1>1, ZenonT(30) DEF Tasks, States
<1>3. /\ r2 \in Rows /\ r2.key = r.key /\ r2.attempt = r.attempt
      /\ \/ r2 = r
         \/ r2.state = next /\ r.state \in StatesBelow(next) /\ r.attempt < e.attempt
  BY <1>1, ZenonT(30) DEF Rows, States, AdvanceTaskState
<1>4. r2 = r => r.state \notin StatesBelow(next) \/ ~(r.attempt < e.attempt) \/ r.state = next
  BY <1>1, ZenonT(30) DEF AdvanceTaskState, Rows
<1>5. e.attempt >= 1 /\ n <= e.attempt - 1
  BY <1>1 DEF TaskInv, RunsBound
<1> QED
  BY <1>1, <1>2, <1>3, <1>4, <1>5, StatesBelowFacts, RankFacts
     DEF Moves, TaskInv, RunsBound, AtLeast, Tasks, Rows, NoRow, States

\* An unconditional write of a state that ends the run, committed or confirmed:
\* succeed, expire, and the :failed append of fail.
LEMMA SettleMoves ==
  ASSUME NEW e, NEW r, NEW n, TaskInv(e, r, n), NEW ts \in Nat,
         e.state \in {"queued", "assigned", "running"},
         NEW next \in {"succeeded", "failed_retryable", "failed_permanent"},
         NEW caps \in Nat,
         NEW e2, e2 = [e EXCEPT !.state = next, !.capacity_retries = caps],
         NEW r2, r2 = UpdateTaskState(r, next, ts)
  PROVE  Moves(e, r, n, e, r2, n) /\ Moves(e, r, n, e2, r2, n)
<1>1. e \in Tasks /\ r \in Rows /\ n \in Nat
  BY DEF TaskInv
<1>2. /\ e2 \in Tasks /\ e2.state = next /\ e2.key = e.key /\ e2.attempt = e.attempt
  BY <1>1, ZenonT(30) DEF Tasks, States
<1>3. /\ r2 \in Rows /\ r2.key = r.key /\ r2.attempt = r.attempt
      /\ r.state = "none" => r2 = r
      /\ r.state # "none" => r2.state = next
  BY <1>1, ZenonT(30) DEF Rows, States, UpdateTaskState
<1> QED
  BY <1>1, <1>2, <1>3, RankFacts
     DEF Moves, TaskInv, RunsBound, AtLeast, Tasks, Rows, NoRow, States

\* The second append of a permanent failure, after the first was confirmed.
LEMMA DeadLetterMoves ==
  ASSUME NEW e, NEW r, NEW n, TaskInv(e, r, n), NEW ts \in Nat,
         e.state \in {"assigned", "running"}, NEW caps \in Nat,
         NEW e1, e1 = [e EXCEPT !.state = "failed_permanent", !.capacity_retries = caps],
         NEW e2, e2 = [e EXCEPT !.state = "dead_lettered", !.capacity_retries = caps],
         NEW r2, r2 = UpdateTaskState(UpdateTaskState(r, "failed_permanent", ts),
                                      "dead_lettered", ts)
  PROVE  Moves(e, r, n, e1, r2, n) /\ Moves(e, r, n, e2, r2, n)
<1>1. e \in Tasks /\ r \in Rows /\ n \in Nat
  BY DEF TaskInv
<1>2. /\ e1 \in Tasks /\ e1.state = "failed_permanent" /\ e1.key = e.key
      /\ e2 \in Tasks /\ e2.state = "dead_lettered" /\ e2.key = e.key
      /\ e1.attempt = e.attempt /\ e2.attempt = e.attempt
  BY <1>1, ZenonT(30) DEF Tasks, States
<1>3. /\ r2 \in Rows /\ r2.key = r.key /\ r2.attempt = r.attempt
      /\ r.state = "none" => r2 = r
      /\ r.state # "none" => r2.state = "dead_lettered"
  BY <1>1, ZenonT(30) DEF Rows, States, UpdateTaskState
<1> QED
  BY <1>1, <1>2, <1>3, RankFacts
     DEF Moves, TaskInv, RunsBound, AtLeast, Tasks, Rows, NoRow, States

\* retry: the durable count and the attempt go up, together or the count alone.
LEMMA RetryMoves ==
  ASSUME NEW e, NEW r, NEW n, TaskInv(e, r, n), NEW ts \in Nat,
         e.state = "failed_retryable",
         NEW e2, e2 = [e EXCEPT !.state = "queued", !.attempt = @ + 1],
         NEW r2, r2 = Retried(r, ts)
  PROVE  Moves(e, r, n, e, r2, n) /\ Moves(e, r, n, e2, r2, n)
<1>1. e \in Tasks /\ r \in Rows /\ n \in Nat
  BY DEF TaskInv
<1>2. e.attempt + 1 \in Nat /\ r.attempt + 1 \in Nat
  BY <1>1 DEF Tasks, Rows
<1>3. /\ e2 \in Tasks /\ e2.state = "queued" /\ e2.key = e.key
      /\ e2.attempt = e.attempt + 1
  BY <1>1, <1>2, ZenonT(30) DEF Tasks, States
<1>4. /\ r2 \in Rows /\ r2.key = r.key
      /\ r.state = "none" => r2 = r
      /\ r.state # "none" => r2.state = "queued" /\ r2.attempt = r.attempt + 1
  BY <1>1, <1>2, ZenonT(30) DEF Rows, States, Retried
<1> QED
  BY <1>1, <1>3, <1>4, RankFacts
     DEF Moves, TaskInv, RunsBound, AtLeast, Tasks, Rows, NoRow, States

\* redrive: both counts start over, and so does the count of guests run.
LEMMA RedriveMoves ==
  ASSUME NEW e, NEW r, NEW n, TaskInv(e, r, n), NEW ts \in Nat,
         e.state = "dead_lettered",
         NEW e2, e2 = [e EXCEPT !.state = "queued", !.attempt = 1,
                                !.capacity_retries = 0],
         NEW r2, r2 = Redriven(r, ts)
  PROVE  Moves(e, r, n, e, r2, 0) /\ Moves(e, r, n, e2, r2, 0)
<1>1. e \in Tasks /\ r \in Rows /\ n \in Nat
  BY DEF TaskInv
<1>2. /\ e2 \in Tasks /\ e2.state = "queued" /\ e2.key = e.key /\ e2.attempt = 1
  BY <1>1, ZenonT(30) DEF Tasks, States
<1>3. /\ r2 \in Rows /\ r2.key = r.key
      /\ r.state = "none" => r2 = r
      /\ r.state # "none" => r2.state = "queued" /\ r2.attempt = 0
  BY <1>1, ZenonT(30) DEF Rows, States, Redriven
<1> QED
  BY <1>1, <1>2, <1>3, RankFacts
     DEF Moves, TaskInv, RunsBound, AtLeast, Tasks, Rows, NoRow, States

-----------------------------------------------------------------------------
(* The handlers *)

\* Left alone, a function over TaskIds is the one with the same value at t.
LEMMA Untouched ==
  ASSUME IInv, NEW t \in TaskIds
  PROVE  /\ tasks = [tasks EXCEPT ![t] = tasks[t]]
         /\ rows = [rows EXCEPT ![t] = rows[t]]
         /\ runs = [runs EXCEPT ![t] = runs[t]]
         /\ TaskInv(tasks[t], rows[t], runs[t])
         /\ now \in Nat /\ results \in [TaskIds -> Int]
BY ZenonT(30) DEF IInv, StoreInv

\* A handler with one append: if the task moves so when the append commits, and
\* when it is confirmed, the handler preserves the invariant.
LEMMA WriteThroughStep ==
  ASSUME IInv, NEW t \in TaskIds, NEW o \in Outcomes,
         NEW e2, NEW r2, NEW nLate, NEW nOk,
         Moves(tasks[t], rows[t], runs[t], tasks[t], r2, nLate),
         Moves(tasks[t], rows[t], runs[t], e2, r2, nOk),
         WriteThrough(t, o, r2, e2),
         o = "ok" => runs' = [runs EXCEPT ![t] = nOk],
         o = "late" => runs' = [runs EXCEPT ![t] = nLate],
         o = "lost" => runs' = runs,
         now' \in Nat, results' \in [TaskIds -> Int],
         UNCHANGED <<idem, issued, acked, pruned>>
  PROVE  IInv' /\ SafeStep
<1>1. CASE o = "ok"
  <2>1. rows' = [rows EXCEPT ![t] = r2] /\ tasks' = [tasks EXCEPT ![t] = e2]
    BY <1>1 DEF WriteThrough, Committed, Confirmed
  <2> QED
    BY <1>1, <2>1, OneMoves, ZenonT(30)
<1>2. CASE o = "late"
  <2>1. rows' = [rows EXCEPT ![t] = r2] /\ tasks' = [tasks EXCEPT ![t] = tasks[t]]
    BY <1>2, Untouched DEF WriteThrough, Committed, Confirmed
  <2> QED
    BY <1>2, <2>1, OneMoves, ZenonT(30)
<1>3. CASE o = "lost"
  <2>1. /\ rows' = [rows EXCEPT ![t] = rows[t]]
        /\ tasks' = [tasks EXCEPT ![t] = tasks[t]]
        /\ runs' = [runs EXCEPT ![t] = runs[t]]
    BY <1>3, Untouched DEF WriteThrough, Committed, Confirmed
  <2>2. Moves(tasks[t], rows[t], runs[t], tasks[t], rows[t], runs[t])
    BY Untouched, StaysPut
  <2> QED
    BY <2>1, <2>2, OneMoves, ZenonT(30)
<1> QED
  BY <1>1, <1>2, <1>3, StoreAssumption, ZenonT(30) DEF Outcomes

\* assign
LEMMA AssignStep ==
  ASSUME IInv, NEW t \in TaskIds, NEW n \in Nodes, NEW o \in Outcomes, Assign(t, n, o)
  PROVE  IInv' /\ SafeStep
<1> DEFINE e2 == [tasks[t] EXCEPT !.state = "assigned", !.node = n]
           r2 == AdvanceTaskState(rows[t], "assigned", now, tasks[t].attempt)
<1>1. /\ tasks[t].state = "queued"
      /\ WriteThrough(t, o, r2, e2)
      /\ UNCHANGED <<idem, results, now, issued, acked, pruned, runs>>
  BY TransitionFacts, ZenonT(30) DEF Assign
<1>2. TaskInv(tasks[t], rows[t], runs[t]) /\ now \in Nat
  BY Untouched
<1>3. /\ Moves(tasks[t], rows[t], runs[t], tasks[t], r2, runs[t])
      /\ Moves(tasks[t], rows[t], runs[t], e2, r2, runs[t])
  BY <1>1, <1>2, AdvanceMoves, ZenonT(30)
<1> HIDE DEF e2, r2
<1> QED
  BY <1>1, <1>3, Untouched, WriteThroughStep

\* start
LEMMA StartStep ==
  ASSUME IInv, NEW t \in TaskIds, NEW o \in Outcomes, Start(t, o)
  PROVE  IInv' /\ SafeStep
<1> DEFINE e2 == [tasks[t] EXCEPT !.state = "running"]
           r2 == AdvanceTaskState(rows[t], "running", now, tasks[t].attempt)
<1>1. /\ tasks[t].state = "assigned"
      /\ WriteThrough(t, o, r2, e2)
      /\ UNCHANGED <<idem, results, now, issued, acked, pruned>>
  BY TransitionFacts, ZenonT(30) DEF Start
<1>2. TaskInv(tasks[t], rows[t], runs[t]) /\ now \in Nat
  BY Untouched
<1>3. /\ o = "ok" => runs' = [runs EXCEPT ![t] = runs[t] + 1]
      /\ o = "late" => runs' = [runs EXCEPT ![t] = runs[t]]
      /\ o = "lost" => runs' = runs
  BY Untouched DEF Start, Confirmed
<1>4. e2 = [tasks[t] EXCEPT !.state = "running", !.node = tasks[t].node]
      /\ tasks[t].node \in Nodes \cup {NoNode}
  BY <1>2, ZenonT(30) DEF TaskInv, Tasks
<1>5. /\ Moves(tasks[t], rows[t], runs[t], tasks[t], r2, runs[t])
      /\ Moves(tasks[t], rows[t], runs[t], e2, r2, runs[t] + 1)
  <2> HIDE DEF e2, r2
  <2>1. r2 = AdvanceTaskState(rows[t], "running", now, tasks[t].attempt)
    BY DEF r2
  <2> QED
    BY <1>1, <1>2, <1>4, <2>1, AdvanceMoves, ZenonT(30)
<1> HIDE DEF e2, r2
<1> QED
  BY <1>1, <1>3, <1>5, Untouched, WriteThroughStep, ZenonT(30)

\* succeed
LEMMA SucceedStep ==
  ASSUME IInv, NEW t \in TaskIds, NEW dispatched \in 0..now, NEW o \in Outcomes,
         Succeed(t, dispatched, o)
  PROVE  IInv' /\ SafeStep
<1> DEFINE e2 == [tasks[t] EXCEPT !.state = "succeeded"]
           r2 == UpdateTaskState(rows[t], "succeeded", now)
<1>1. /\ tasks[t].state = "running"
      /\ WriteThrough(t, o, r2, e2)
      /\ UNCHANGED <<idem, now, issued, acked, pruned, runs>>
  <2>1. PICK next \in States :
          /\ <<tasks[t].state, "succeed", next>> \in Transitions
          /\ WriteThrough(t, o, UpdateTaskState(rows[t], next, now),
                          [tasks[t] EXCEPT !.state = next])
          /\ UNCHANGED <<idem, now, issued, acked, pruned, runs>>
    BY DEF Succeed
  <2>2. tasks[t].state = "running" /\ next = "succeeded"
    BY <2>1 DEF Transitions
  <2> QED
    BY <2>1, <2>2
<1>2. TaskInv(tasks[t], rows[t], runs[t]) /\ now \in Nat
  BY Untouched
<1>3. results' \in [TaskIds -> Int]
  BY Untouched, StoreAssumption DEF Succeed
<1>4. e2 = [tasks[t] EXCEPT !.state = "succeeded",
                            !.capacity_retries = tasks[t].capacity_retries]
      /\ tasks[t].capacity_retries \in Nat
  BY <1>2, ZenonT(30) DEF TaskInv, Tasks
<1>5. /\ Moves(tasks[t], rows[t], runs[t], tasks[t], r2, runs[t])
      /\ Moves(tasks[t], rows[t], runs[t], e2, r2, runs[t])
  BY <1>1, <1>2, <1>4, SettleMoves, ZenonT(30)
<1> HIDE DEF e2, r2
<1> QED
  BY <1>1, <1>3, <1>5, Untouched, WriteThroughStep, ZenonT(30)

\* expire
LEMMA ExpireStep ==
  ASSUME IInv, NEW t \in TaskIds, NEW o \in Outcomes, Expire(t, o)
  PROVE  IInv' /\ SafeStep
<1> DEFINE e2 == [tasks[t] EXCEPT !.state = "failed_permanent"]
           r2 == UpdateTaskState(rows[t], "failed_permanent", now)
<1>1. /\ tasks[t].state = "queued"
      /\ WriteThrough(t, o, r2, e2)
      /\ UNCHANGED <<idem, results, now, issued, acked, pruned, runs>>
  <2>1. PICK next \in States :
          /\ <<tasks[t].state, "expire", next>> \in Transitions
          /\ WriteThrough(t, o, UpdateTaskState(rows[t], next, now),
                          [tasks[t] EXCEPT !.state = next])
          /\ UNCHANGED <<idem, results, now, issued, acked, pruned, runs>>
    BY DEF Expire
  <2>2. tasks[t].state = "queued" /\ next = "failed_permanent"
    BY <2>1 DEF Transitions
  <2> QED
    BY <2>1, <2>2
<1>2. TaskInv(tasks[t], rows[t], runs[t]) /\ now \in Nat
  BY Untouched
<1>3. e2 = [tasks[t] EXCEPT !.state = "failed_permanent",
                            !.capacity_retries = tasks[t].capacity_retries]
      /\ tasks[t].capacity_retries \in Nat
  BY <1>2, ZenonT(30) DEF TaskInv, Tasks
<1>4. /\ Moves(tasks[t], rows[t], runs[t], tasks[t], r2, runs[t])
      /\ Moves(tasks[t], rows[t], runs[t], e2, r2, runs[t])
  BY <1>1, <1>2, <1>3, SettleMoves, ZenonT(30)
<1> HIDE DEF e2, r2
<1> QED
  BY <1>1, <1>4, Untouched, WriteThroughStep

\* retry
LEMMA RetryStep ==
  ASSUME IInv, NEW t \in TaskIds, NEW o \in Outcomes, RetryTask(t, o)
  PROVE  IInv' /\ SafeStep
<1> DEFINE e2 == [tasks[t] EXCEPT !.state = "queued", !.attempt = @ + 1]
           r2 == Retried(rows[t], now)
<1>1. /\ tasks[t].state = "failed_retryable"
      /\ WriteThrough(t, o, r2, e2)
      /\ UNCHANGED <<idem, results, now, issued, acked, pruned, runs>>
  <2>1. PICK next \in States :
          /\ <<tasks[t].state, "retry", next>> \in Transitions
          /\ WriteThrough(t, o, Retried(rows[t], now),
                          [tasks[t] EXCEPT !.state = next, !.attempt = @ + 1])
          /\ UNCHANGED <<idem, results, now, issued, acked, pruned, runs>>
    BY ZenonT(30) DEF RetryTask
  <2>2. tasks[t].state = "failed_retryable" /\ next = "queued"
    BY <2>1 DEF Transitions
  <2> QED
    BY <2>1, <2>2
<1>2. TaskInv(tasks[t], rows[t], runs[t]) /\ now \in Nat
  BY Untouched
<1>3. /\ Moves(tasks[t], rows[t], runs[t], tasks[t], r2, runs[t])
      /\ Moves(tasks[t], rows[t], runs[t], e2, r2, runs[t])
  BY <1>1, <1>2, RetryMoves, ZenonT(30)
<1> HIDE DEF e2, r2
<1> QED
  BY <1>1, <1>3, Untouched, WriteThroughStep, ZenonT(30)

\* redrive
LEMMA RedriveStep ==
  ASSUME IInv, NEW t \in TaskIds, NEW o \in Outcomes, Redrive(t, o)
  PROVE  IInv' /\ SafeStep
<1> DEFINE e2 == [tasks[t] EXCEPT !.state = "queued", !.attempt = 1,
                                  !.capacity_retries = 0]
           r2 == Redriven(rows[t], now)
<1>1. /\ tasks[t].state = "dead_lettered"
      /\ WriteThrough(t, o, r2, e2)
      /\ UNCHANGED <<idem, results, now, issued, acked, pruned>>
  <2>1. PICK next \in States :
          /\ <<tasks[t].state, "redrive", next>> \in Transitions
          /\ WriteThrough(t, o, Redriven(rows[t], now),
                          [tasks[t] EXCEPT !.state = next, !.attempt = 1,
                                              !.capacity_retries = 0])
          /\ UNCHANGED <<idem, results, now, issued, acked, pruned>>
    BY ZenonT(30) DEF Redrive
  <2>2. tasks[t].state = "dead_lettered" /\ next = "queued"
    BY <2>1 DEF Transitions
  <2> QED
    BY <2>1, <2>2
<1>2. TaskInv(tasks[t], rows[t], runs[t]) /\ now \in Nat
  BY Untouched
<1>3. /\ o = "ok" => runs' = [runs EXCEPT ![t] = 0]
      /\ o = "late" => runs' = [runs EXCEPT ![t] = 0]
      /\ o = "lost" => runs' = runs
  BY DEF Redrive, Committed
<1>4. /\ Moves(tasks[t], rows[t], runs[t], tasks[t], r2, 0)
      /\ Moves(tasks[t], rows[t], runs[t], e2, r2, 0)
  BY <1>1, <1>2, RedriveMoves, ZenonT(30)
<1> HIDE DEF e2, r2
<1> QED
  BY <1>1, <1>3, <1>4, Untouched, WriteThroughStep

\* fail, and the failure of each task of a node's down edge.
LEMMA FailMoves ==
  ASSUME NEW e, NEW r, NEW n, TaskInv(e, r, n), now \in Nat,
         e.state \in InFlightStates, NEW reason,
         NEW o \in Outcomes, NEW dlq \in Outcomes
  PROVE  Moves(e, r, n, FailedTask(e, reason, o, dlq),
               FailedRow(r, e, reason, o, dlq), n)
<1> DEFINE next == FailState(e, reason)
           caps == IF reason = "capacity" THEN e.capacity_retries + 1
                   ELSE e.capacity_retries
           e1 == [e EXCEPT !.state = next, !.capacity_retries = caps]
           e2 == [e EXCEPT !.state = "dead_lettered", !.capacity_retries = caps]
           r1 == UpdateTaskState(r, next, now)
           r2 == UpdateTaskState(r1, "dead_lettered", now)
<1>1. e \in Tasks /\ caps \in Nat /\ e.state \in {"assigned", "running"}
  BY DEF TaskInv, Tasks, InFlightStates
<1>2. next \in {"failed_retryable", "failed_permanent"}
  BY FailStateFacts
<1>3. DeadLetters(e, reason, o) => next = "failed_permanent"
  BY FailStateFacts DEF DeadLetters
<1>4. Moves(e, r, n, e, r1, n) /\ Moves(e, r, n, e1, r1, n)
  BY <1>1, <1>2, SettleMoves, ZenonT(30)
<1>5. next = "failed_permanent"
        => Moves(e, r, n, e1, r2, n) /\ Moves(e, r, n, e2, r2, n)
  BY <1>1, DeadLetterMoves, ZenonT(30)
<1>6. Moves(e, r, n, e, r, n)
  BY StaysPut
<1>7. FailedTask(e, reason, o, dlq) =
        IF ~ Confirmed(o) THEN e
        ELSE IF DeadLetters(e, reason, o) /\ Confirmed(dlq) THEN e2 ELSE e1
  BY ZenonT(30) DEF FailedTask
<1>8. FailedRow(r, e, reason, o, dlq) =
        IF ~ Committed(o) THEN r
        ELSE IF DeadLetters(e, reason, o) /\ Committed(dlq) THEN r2 ELSE r1
  BY DEF FailedRow
<1>9. /\ Confirmed(o) => Committed(o)
      /\ Confirmed(dlq) => Committed(dlq)
      /\ DeadLetters(e, reason, o) => Confirmed(o)
  BY DEF Confirmed, Committed, DeadLetters
<1> HIDE DEF next, caps, e1, e2, r1, r2
<1> QED
  BY <1>3, <1>4, <1>5, <1>6, <1>7, <1>8, <1>9

\* fail
LEMMA FailStep ==
  ASSUME IInv, NEW t \in TaskIds, NEW reason \in Reported,
         NEW o \in Outcomes, NEW dlq \in Outcomes, Fail(t, reason, o, dlq)
  PROVE  IInv' /\ SafeStep
<1> DEFINE e2 == FailedTask(tasks[t], reason, o, dlq)
           r2 == FailedRow(rows[t], tasks[t], reason, o, dlq)
<1>1. /\ tasks[t].state \in InFlightStates
      /\ tasks' = [tasks EXCEPT ![t] = e2]
      /\ rows' = [rows EXCEPT ![t] = r2]
      /\ UNCHANGED <<idem, results, now, issued, acked, pruned, runs>>
  BY DEF Fail
<1>2. Moves(tasks[t], rows[t], runs[t], e2, r2, runs[t])
  BY <1>1, Untouched, FailMoves
<1>3. runs' = [runs EXCEPT ![t] = runs[t]]
  BY <1>1, Untouched
<1> HIDE DEF e2, r2
<1> QED
  BY <1>1, <1>2, <1>3, Untouched, OneMoves, ZenonT(30)

\* reassign_in_flight
LEMMA ReassignStep ==
  ASSUME IInv, NEW n \in Nodes, NEW o \in [TaskIds -> Outcomes],
         NEW dlq \in [TaskIds -> Outcomes], ReassignInFlight(n, o, dlq)
  PROVE  IInv' /\ SafeStep
<1> DEFINE e2(t) == FailedTask(tasks[t], "transport", o[t], dlq[t])
           r2(t) == FailedRow(rows[t], tasks[t], "transport", o[t], dlq[t])
<1>1. /\ tasks' = [t \in TaskIds |-> IF t \in InFlightOn(n) THEN e2(t) ELSE tasks[t]]
      /\ rows' = [t \in TaskIds |-> IF t \in InFlightOn(n) THEN r2(t) ELSE rows[t]]
      /\ UNCHANGED <<idem, results, now, issued, acked, pruned, runs>>
  BY DEF ReassignInFlight
<1>2. ASSUME NEW t \in TaskIds
      PROVE  Moves(tasks[t], rows[t], runs[t], tasks'[t], rows'[t], runs'[t])
  <2>1. TaskInv(tasks[t], rows[t], runs[t]) /\ now \in Nat
    BY Untouched
  <2>2. CASE t \in InFlightOn(n)
    <3>1. tasks[t].state \in InFlightStates
      BY <2>2 DEF InFlightOn
    <3>2. Moves(tasks[t], rows[t], runs[t], e2(t), r2(t), runs[t])
      BY <2>1, <3>1, FailMoves
    <3> HIDE DEF e2, r2
    <3> QED
      BY <1>1, <2>2, <3>2
  <2>3. CASE t \notin InFlightOn(n)
    <3>1. Moves(tasks[t], rows[t], runs[t], tasks[t], rows[t], runs[t])
      BY <2>1, StaysPut
    <3> HIDE DEF e2, r2
    <3> QED
      BY <1>1, <2>3, <3>1, ZenonT(30)
  <2> QED
    BY <2>2, <2>3
<1> HIDE DEF e2, r2
<1>3. /\ tasks' = [t \in TaskIds |-> tasks'[t]]
      /\ rows' = [t \in TaskIds |-> rows'[t]]
      /\ runs' = [t \in TaskIds |-> runs'[t]]
  BY <1>1 DEF IInv
<1>4. now' \in Nat /\ results' \in [TaskIds -> Int]
  BY <1>1, ZenonT(30) DEF IInv, StoreInv
<1> QED
  BY <1>1, <1>2, <1>3, <1>4, MovesPreserve

\* A step that leaves ETS, the rows and the counts alone.
LEMMA OthersStep ==
  ASSUME IInv, UNCHANGED <<tasks, rows, runs, idem, issued, acked, pruned>>,
         now' \in Nat, results' \in [TaskIds -> Int]
  PROVE  IInv' /\ SafeStep
<1>1. ASSUME NEW t \in TaskIds
      PROVE  Moves(tasks[t], rows[t], runs[t], tasks'[t], rows'[t], runs'[t])
  BY Untouched, StaysPut
<1> QED
  BY <1>1, MovesPreserve DEF IInv

-----------------------------------------------------------------------------
(* Steps that add or remove a task *)

\* The part of IInv that relates the tables, for any tables.
TablesInv(ets, index, table, ran, iss, ack, gone) ==
  /\ ets = [t \in TaskIds |-> ets[t]]
  /\ table = [t \in TaskIds |-> table[t]]
  /\ ran = [t \in TaskIds |-> ran[t]]
  /\ index \in [Keys -> TaskIds \cup {NoId}]
  /\ iss \subseteq TaskIds /\ ack \subseteq TaskIds /\ gone \subseteq TaskIds
  /\ \A t \in TaskIds : TaskInv(ets[t], table[t], ran[t])
  /\ \A t \in TaskIds \ iss :
       ets[t].state = "none" /\ table[t].state = "none" /\ ran[t] = 0
  /\ \A t \in TaskIds \ gone : ets[t].state # "none" => table[t].state # "none"
  /\ \A t \in ack \ gone : ets[t].state # "none"
  /\ \A t, u \in TaskIds : table[t].key = table[u].key /\ table[t].key # NoKey => t = u
  /\ \A k \in Keys :
       /\ index[k] # NoId => ets[index[k]].key = k
       /\ \A t \in TaskIds : ets[t].key = k => index[k] = t
       /\ \A t \in TaskIds : table[t].key = k /\ index[k] # NoId => index[k] = t

\* IInv is TablesInv of the variables and the types of the others.
LEMMA IInvTables ==
  IInv <=> /\ TablesInv(tasks, idem, rows, runs, issued, acked, pruned)
           /\ now \in Nat /\ results \in [TaskIds -> Int]
BY DEF IInv, StoreInv, OneTaskPerKey, TablesInv

\* The same of the next state.
LEMMA IInvTablesPrime ==
  IInv' <=> /\ TablesInv(tasks', idem', rows', runs', issued', acked', pruned')
            /\ now' \in Nat /\ results' \in [TaskIds -> Int]
BY DEF IInv, StoreInv, OneTaskPerKey, TablesInv

\* A :submitted op that commits unconfirmed adds a row alone.
LEMMA SubmitRowTables ==
  ASSUME NEW ets, NEW index, NEW table, NEW ran, NEW iss, NEW ack, NEW gone,
         TablesInv(ets, index, table, ran, iss, ack, gone),
         NEW t \in TaskIds, t \notin iss, NEW k \in Keys \cup {NoKey},
         k # NoKey => index[k] = NoId,
         NEW d \in Int, NEW ts \in Nat, ~ KeyTaken(table, k)
  PROVE  TablesInv(ets, index, [table EXCEPT ![t] = Submitted(k, d, ts)], ran,
                   iss \cup {t}, ack, gone)
<1> DEFINE table2 == [table EXCEPT ![t] = Submitted(k, d, ts)]
<1>1. /\ table2 = [u \in TaskIds |-> table2[u]]
      /\ \A u \in TaskIds : table2[u] = IF u = t THEN Submitted(k, d, ts) ELSE table[u]
  BY DEF TablesInv
<1>2. Submitted(k, d, ts) \in Rows /\ Submitted(k, d, ts).key = k
      /\ Submitted(k, d, ts).state = "queued" /\ Submitted(k, d, ts).attempt = 0
  BY DEF Submitted, Rows, States
<1>3. ets[t] = NoTask /\ ran[t] = 0
  BY DEF TablesInv, TaskInv
<1>4. TaskInv(ets[t], table2[t], ran[t])
  BY <1>1, <1>2, <1>3, KeyAssumption DEF TablesInv, TaskInv, RunsBound, NoTask
<1>5. k # NoKey => \A u \in TaskIds : table[u].key # k
  <2>1. DOMAIN table = TaskIds
    BY DEF TablesInv
  <2> QED
    BY <2>1 DEF KeyTaken
<1>6. \A u, v \in TaskIds : table2[u].key = table2[v].key /\ table2[u].key # NoKey => u = v
  <2>1. \A u, v \in TaskIds : table[u].key = table[v].key /\ table[u].key # NoKey => u = v
    BY DEF TablesInv
  <2> QED
    BY <1>1, <1>2, <1>5, <2>1
<1>7. ASSUME NEW j \in Keys
      PROVE  /\ index[j] # NoId => ets[index[j]].key = j
             /\ \A u \in TaskIds : ets[u].key = j => index[j] = u
             /\ \A u \in TaskIds : table2[u].key = j /\ index[j] # NoId => index[j] = u
  <2>1. /\ index[j] # NoId => ets[index[j]].key = j
        /\ \A u \in TaskIds : ets[u].key = j => index[j] = u
        /\ \A u \in TaskIds : table[u].key = j /\ index[j] # NoId => index[j] = u
    BY ZenonT(30) DEF TablesInv
  <2> QED
    BY <1>1, <1>2, <2>1, KeyAssumption
<1>8. /\ \A u \in TaskIds : TaskInv(ets[u], table2[u], ran[u])
      /\ \A u \in TaskIds \ (iss \cup {t}) :
           ets[u].state = "none" /\ table2[u].state = "none" /\ ran[u] = 0
      /\ \A u \in TaskIds \ gone : ets[u].state # "none" => table2[u].state # "none"
  BY <1>1, <1>2, <1>4 DEF TablesInv
<1> HIDE DEF table2
<1>9. TablesInv(ets, index, table2, ran, iss \cup {t}, ack, gone)
  BY <1>1, <1>6, <1>7, <1>8, ZenonT(30) DEF TablesInv
<1> QED
  BY <1>9 DEF table2

\* A confirmed :submitted op then adds the task and its index entry.
LEMMA SubmitTaskTables ==
  ASSUME NEW ets, NEW index, NEW table, NEW ran, NEW iss, NEW ack, NEW gone,
         TablesInv(ets, index, table, ran, iss, ack, gone),
         NEW t \in TaskIds, t \in iss, NEW k \in Keys \cup {NoKey}, NEW d \in Int,
         ets[t].state = "none", ran[t] = 0, NEW ts, table[t] = Submitted(k, d, ts),
         k # NoKey => index[k] = NoId
  PROVE  TablesInv([ets EXCEPT ![t] = QueuedTask(k, d)],
                   IF k # NoKey THEN [index EXCEPT ![k] = t] ELSE index,
                   table, ran, iss, ack \cup {t}, gone)
<1> DEFINE ets2 == [ets EXCEPT ![t] = QueuedTask(k, d)]
           index2 == IF k # NoKey THEN [index EXCEPT ![k] = t] ELSE index
<1>1. /\ ets2 = [u \in TaskIds |-> ets2[u]]
      /\ \A u \in TaskIds : ets2[u] = IF u = t THEN QueuedTask(k, d) ELSE ets[u]
  BY DEF TablesInv
<1>2. /\ index2 \in [Keys -> TaskIds \cup {NoId}]
      /\ \A j \in Keys : index2[j] = IF j = k THEN t ELSE index[j]
  BY KeyAssumption DEF TablesInv
<1>3. /\ QueuedTask(k, d) \in Tasks /\ QueuedTask(k, d).state = "queued"
      /\ QueuedTask(k, d).attempt = 1 /\ QueuedTask(k, d).key = k
  BY ZenonT(30) DEF QueuedTask, NoTask, Tasks, States, NoDeadline
<1>4. table[t].key = k /\ table[t].state = "queued" /\ table[t].attempt = 0
  BY DEF Submitted
<1>5. TaskInv(ets2[t], table[t], ran[t])
  <2>1. table[t] \in Rows /\ ran[t] \in Nat
    BY DEF TablesInv, TaskInv
  <2> QED
    BY <1>1, <1>3, <1>4, <2>1, RankFacts DEF TaskInv, RunsBound, AtLeast
<1>6. ets[t].key = NoKey
  BY DEF TablesInv, TaskInv, NoTask
<1>7. ASSUME NEW j \in Keys
      PROVE  /\ index2[j] # NoId => ets2[index2[j]].key = j
             /\ \A u \in TaskIds : ets2[u].key = j => index2[j] = u
             /\ \A u \in TaskIds : table[u].key = j /\ index2[j] # NoId => index2[j] = u
  <2>1. /\ index[j] # NoId => ets[index[j]].key = j
        /\ \A u \in TaskIds : ets[u].key = j => index[j] = u
        /\ \A u \in TaskIds : table[u].key = j /\ index[j] # NoId => index[j] = u
        /\ index[j] \in TaskIds \cup {NoId}
    BY ZenonT(30) DEF TablesInv
  <2>2. \A u, v \in TaskIds : table[u].key = table[v].key /\ table[u].key # NoKey => u = v
    BY DEF TablesInv
  <2>3. j # NoKey /\ t # NoId
    BY KeyAssumption, StoreAssumption
  <2>4. CASE j = k
    <3>1. index2[j] = t /\ index[j] = NoId
      BY <1>2, <2>3, <2>4
    <3>2. \A u \in TaskIds : ets2[u].key = j => u = t
      BY <1>1, <2>1, <2>3, <3>1, StoreAssumption
    <3>3. \A u \in TaskIds : table[u].key = j => u = t
      BY <1>4, <2>2, <2>3, <2>4
    <3> QED
      BY <1>1, <1>3, <2>4, <3>1, <3>2, <3>3
  <2>5. CASE j # k
    <3>1. index2[j] = index[j]
      BY <1>2, <2>5
    <3>2. \A u \in TaskIds : ets2[u].key = j => index2[j] = u
      BY <1>1, <1>3, <2>1, <2>5, <3>1
    <3>3. index2[j] # NoId => ets2[index2[j]].key = j
      BY <1>1, <1>6, <2>1, <2>3, <3>1
    <3> QED
      BY <2>1, <3>1, <3>2, <3>3
  <2> QED
    BY <2>4, <2>5
<1>8. /\ \A u \in TaskIds : TaskInv(ets2[u], table[u], ran[u])
      /\ \A u \in TaskIds \ iss :
           ets2[u].state = "none" /\ table[u].state = "none" /\ ran[u] = 0
      /\ \A u \in TaskIds \ gone : ets2[u].state # "none" => table[u].state # "none"
      /\ \A u \in (ack \cup {t}) \ gone : ets2[u].state # "none"
  BY <1>1, <1>3, <1>4, <1>5, ZenonT(30) DEF TablesInv
<1> HIDE DEF ets2, index2
<1>9. TablesInv(ets2, index2, table, ran, iss, ack \cup {t}, gone)
  BY <1>1, <1>2, <1>7, <1>8, ZenonT(30) DEF TablesInv
<1> QED
  BY <1>9 DEF ets2, index2

\* A prune or an eviction that commits removes a row.
LEMMA EvictRowTables ==
  ASSUME NEW ets, NEW index, NEW table, NEW ran, NEW iss, NEW ack, NEW gone,
         TablesInv(ets, index, table, ran, iss, ack, gone), NEW t \in TaskIds
  PROVE  TablesInv(ets, index, [table EXCEPT ![t] = NoRow], ran, iss, ack, gone \cup {t})
<1> DEFINE table2 == [table EXCEPT ![t] = NoRow]
<1>1. /\ table2 = [u \in TaskIds |-> table2[u]]
      /\ \A u \in TaskIds : table2[u] = IF u = t THEN NoRow ELSE table[u]
  BY DEF TablesInv
<1>2. NoRow \in Rows /\ NoRow.key = NoKey /\ NoRow.state = "none"
  BY DEF NoRow, Rows, NoDeadline
<1>3. TaskInv(ets[t], NoRow, ran[t])
  BY <1>2 DEF TablesInv, TaskInv
<1>4. \A u, v \in TaskIds : table2[u].key = table2[v].key /\ table2[u].key # NoKey => u = v
  <2>1. \A u, v \in TaskIds : table[u].key = table[v].key /\ table[u].key # NoKey => u = v
    BY DEF TablesInv
  <2> QED
    BY <1>1, <1>2, <2>1
<1>5. ASSUME NEW j \in Keys
      PROVE  /\ index[j] # NoId => ets[index[j]].key = j
             /\ \A u \in TaskIds : ets[u].key = j => index[j] = u
             /\ \A u \in TaskIds : table2[u].key = j /\ index[j] # NoId => index[j] = u
  <2>1. /\ index[j] # NoId => ets[index[j]].key = j
        /\ \A u \in TaskIds : ets[u].key = j => index[j] = u
        /\ \A u \in TaskIds : table[u].key = j /\ index[j] # NoId => index[j] = u
    BY ZenonT(30) DEF TablesInv
  <2> QED
    BY <1>1, <1>2, <2>1, KeyAssumption
<1>6. /\ \A u \in TaskIds : TaskInv(ets[u], table2[u], ran[u])
      /\ \A u \in TaskIds \ iss :
           ets[u].state = "none" /\ table2[u].state = "none" /\ ran[u] = 0
      /\ \A u \in TaskIds \ (gone \cup {t}) :
           ets[u].state # "none" => table2[u].state # "none"
  BY <1>1, <1>2, <1>3 DEF TablesInv
<1> HIDE DEF table2
<1>7. TablesInv(ets, index, table2, ran, iss, ack, gone \cup {t})
  BY <1>1, <1>4, <1>5, <1>6, ZenonT(30) DEF TablesInv
<1> QED
  BY <1>7 DEF table2

\* A confirmed eviction then removes the task and its index entry.
LEMMA EvictTaskTables ==
  ASSUME NEW ets, NEW index, NEW table, NEW ran, NEW iss, NEW ack, NEW gone,
         TablesInv(ets, index, table, ran, iss, ack, gone),
         NEW t \in TaskIds, t \in gone, table[t] = NoRow,
         NEW k \in Keys, index[k] = t
  PROVE  TablesInv([ets EXCEPT ![t] = NoTask], [index EXCEPT ![k] = NoId],
                   table, ran, iss, ack, gone)
<1> DEFINE ets2 == [ets EXCEPT ![t] = NoTask]
           index2 == [index EXCEPT ![k] = NoId]
<1>1. /\ ets2 = [u \in TaskIds |-> ets2[u]]
      /\ \A u \in TaskIds : ets2[u] = IF u = t THEN NoTask ELSE ets[u]
  BY DEF TablesInv
<1>2. /\ index2 \in [Keys -> TaskIds \cup {NoId}]
      /\ \A j \in Keys : index2[j] = IF j = k THEN NoId ELSE index[j]
  BY DEF TablesInv
<1>3. NoTask \in Tasks /\ NoTask.state = "none" /\ NoTask.key = NoKey
  BY DEF NoTask, Tasks, NoDeadline
<1>4. TaskInv(NoTask, table[t], ran[t])
  BY <1>3 DEF TablesInv, TaskInv
<1>5. ASSUME NEW j \in Keys
      PROVE  /\ index2[j] # NoId => ets2[index2[j]].key = j
             /\ \A u \in TaskIds : ets2[u].key = j => index2[j] = u
             /\ \A u \in TaskIds : table[u].key = j /\ index2[j] # NoId => index2[j] = u
  <2>1. /\ index[j] # NoId => ets[index[j]].key = j
        /\ \A u \in TaskIds : ets[u].key = j => index[j] = u
        /\ \A u \in TaskIds : table[u].key = j /\ index[j] # NoId => index[j] = u
        /\ index[j] \in TaskIds \cup {NoId}
    BY ZenonT(30) DEF TablesInv
  <2>2. ets[t].key = k /\ j # NoKey /\ t # NoId
    BY KeyAssumption, StoreAssumption, ZenonT(30) DEF TablesInv
  <2> QED
    BY <1>1, <1>2, <1>3, <2>1, <2>2
<1>6. /\ \A u \in TaskIds : TaskInv(ets2[u], table[u], ran[u])
      /\ \A u \in TaskIds \ iss :
           ets2[u].state = "none" /\ table[u].state = "none" /\ ran[u] = 0
      /\ \A u \in TaskIds \ gone : ets2[u].state # "none" => table[u].state # "none"
      /\ \A u \in ack \ gone : ets2[u].state # "none"
  BY <1>1, <1>3, <1>4, ZenonT(30) DEF TablesInv
<1> HIDE DEF ets2, index2
<1>7. TablesInv(ets2, index2, table, ran, iss, ack, gone)
  BY <1>1, <1>2, <1>5, <1>6, ZenonT(30) DEF TablesInv
<1> QED
  BY <1>7 DEF ets2, index2

\* do_submit from tables ets, index and table that satisfy the invariant.
LEMMA DoSubmitStep ==
  ASSUME NEW ets, NEW index, NEW table,
         TablesInv(ets, index, table, runs, issued, acked, pruned'),
         NEW t \in TaskIds, t \notin issued, NEW k \in Keys \cup {NoKey},
         k # NoKey => index[k] = NoId,
         NEW d \in Int, now \in Nat, NEW o \in Outcomes, runs' = runs,
         DoSubmit(ets, index, table, t, k, d, o)
  PROVE  /\ TablesInv(tasks', idem', rows', runs', issued', acked', pruned')
         /\ tasks' \in {ets, [ets EXCEPT ![t] = QueuedTask(k, d)]}
<1> DEFINE table2 == [table EXCEPT ![t] = Submitted(k, d, now)]
           ets2 == [ets EXCEPT ![t] = QueuedTask(k, d)]
           index2 == IF k # NoKey THEN [index EXCEPT ![k] = t] ELSE index
<1>1. CASE KeyTaken(table, k) \/ o = "lost"
  <2>1. rows' = table /\ tasks' = ets /\ idem' = index /\ issued' = issued /\ acked' = acked
    BY <1>1 DEF DoSubmit, Committed, Confirmed
  <2> QED
    BY <2>1
<1>2. CASE ~ KeyTaken(table, k) /\ o # "lost"
  <2>1. TablesInv(ets, index, table2, runs, issued \cup {t}, acked, pruned')
    BY <1>2, SubmitRowTables
  <2>2. CASE o = "late"
    <3>1. /\ rows' = table2 /\ tasks' = ets /\ idem' = index
          /\ issued' = issued \cup {t} /\ acked' = acked
      BY <1>2, <2>2 DEF DoSubmit, Committed, Confirmed
    <3> QED
      BY <2>1, <3>1
  <2>3. CASE o = "ok"
    <3>1. /\ rows' = table2 /\ tasks' = ets2
          /\ issued' = issued \cup {t} /\ acked' = acked \cup {t}
      BY <1>2, <2>3 DEF DoSubmit, Committed, Confirmed
    <3>2. idem' = index2
      BY <1>2, <2>3 DEF DoSubmit, Confirmed
    <3>3. ets[t].state = "none" /\ runs[t] = 0 /\ table2[t] = Submitted(k, d, now)
      BY DEF TablesInv
    <3> HIDE DEF table2
    <3>4. TablesInv(ets2, index2, table2, runs, issued \cup {t}, acked \cup {t}, pruned')
      BY <2>1, <3>3, SubmitTaskTables
    <3> HIDE DEF ets2, index2
    <3>5. TablesInv(tasks', idem', rows', runs', issued', acked', pruned')
      BY <3>1, <3>2, <3>4
    <3> QED
      BY <3>1, <3>5 DEF ets2
  <2> QED
    BY <1>2, <2>2, <2>3, StoreAssumption, ZenonT(30) DEF Outcomes
<1> QED
  BY <1>1, <1>2

\* submit without a duplicate
LEMMA SubmitFreshStep ==
  ASSUME IInv, NEW t \in TaskIds, NEW k \in SubmitKeys, NEW d \in Deadlines,
         NEW o \in Outcomes, SubmitFresh(t, k, d, o)
  PROVE  IInv' /\ SafeStep
<1>1. /\ TablesInv(tasks, idem, rows, runs, issued, acked, pruned)
      /\ now \in Nat /\ results \in [TaskIds -> Int]
  BY IInvTables
<1>2. /\ t \notin issued /\ DoSubmit(tasks, idem, rows, t, k, d, o)
      /\ (k # NoKey /\ idem[k] # NoId) => tasks[idem[k]].state = "none"
      /\ results' = results /\ now' = now /\ pruned' = pruned
      /\ runs' = runs
  BY DEF SubmitFresh
<1>3. k \in Keys \cup {NoKey} /\ d \in Int
  BY StoreAssumption
<1>4. k # NoKey => idem[k] = NoId
  <2> SUFFICES ASSUME k # NoKey, idem[k] # NoId PROVE FALSE
    OBVIOUS
  <2>1. idem[k] \in TaskIds /\ tasks[idem[k]].key = k
    <3>1. k \in Keys
      BY <1>3
    <3>2. idem \in [Keys -> TaskIds \cup {NoId}] /\ OneTaskPerKey
      BY DEF IInv, StoreInv
    <3>3. idem[k] \in TaskIds
      BY <3>1, <3>2
    <3> QED
      BY <3>1, <3>2, <3>3 DEF OneTaskPerKey
  <2>2. tasks[idem[k]] = NoTask
    BY <1>1, <1>2, <2>1 DEF TablesInv, TaskInv
  <2> QED
    BY <2>1, <2>2 DEF NoTask
<1>5. /\ TablesInv(tasks', idem', rows', runs', issued', acked', pruned')
      /\ tasks' \in {tasks, [tasks EXCEPT ![t] = QueuedTask(k, d)]}
  BY <1>1, <1>2, <1>3, <1>4, DoSubmitStep
<1>6. tasks[t].state = "none" /\ tasks[t].attempt = 0
  BY <1>1, <1>2 DEF TablesInv, TaskInv, NoTask
<1>7. SafeStep
  <2>1. \A u \in TaskIds : tasks[u].attempt \in Nat
    BY <1>1 DEF TablesInv, TaskInv, Tasks
  <2>2. QueuedTask(k, d).attempt = 1
    BY DEF QueuedTask, NoTask
  <2>3. \A u \in TaskIds : u # t => tasks'[u] = tasks[u]
    <3>1. tasks = [u \in TaskIds |-> tasks[u]]
      BY DEF IInv
    <3> QED
      BY <1>5, <3>1
  <2>4. tasks'[t] = tasks[t] \/ tasks'[t] = QueuedTask(k, d)
    BY <1>1, <1>5 DEF TablesInv
  <2> QED
    BY <1>6, <2>1, <2>2, <2>3, <2>4 DEF SafeStep
<1> QED
  BY <1>1, <1>2, <1>5, <1>7, IInvTablesPrime

\* submit of a duplicate
LEMMA SubmitExistingStep ==
  ASSUME IInv, NEW k \in SubmitKeys \ {NoKey}, SubmitExisting(k)
  PROVE  IInv' /\ SafeStep
<1>1. /\ TablesInv(tasks, idem, rows, runs, issued, acked, pruned)
      /\ now \in Nat /\ results \in [TaskIds -> Int]
  BY IInvTables
<1>2. k \in Keys
  BY StoreAssumption
<1>3. idem[k] \in TaskIds /\ tasks[idem[k]].state # "none"
  BY <1>1, <1>2 DEF SubmitExisting, TablesInv
<1>4. TablesInv(tasks, idem, rows, runs, issued, acked \cup {idem[k]}, pruned)
  BY <1>1, <1>3, ZenonT(30) DEF TablesInv
<1>5. /\ acked' = acked \cup {idem[k]} /\ tasks' = tasks /\ idem' = idem /\ rows' = rows
      /\ results' = results /\ now' = now /\ issued' = issued /\ pruned' = pruned
      /\ runs' = runs
  BY DEF SubmitExisting
<1>6. SafeStep
  <2>1. \A u \in TaskIds : tasks[u].attempt \in Nat
    BY <1>1 DEF TablesInv, TaskInv, Tasks
  <2> QED
    BY <1>5, <2>1 DEF SafeStep
<1> QED
  BY <1>1, <1>4, <1>5, <1>6, IInvTablesPrime

\* submit under the key of a finished task whose result is gone
LEMMA SubmitResubmitStep ==
  ASSUME IInv, NEW t \in TaskIds, NEW k \in SubmitKeys \ {NoKey}, NEW d \in Deadlines,
         NEW readOk \in BOOLEAN, NEW evict \in Outcomes, NEW o \in Outcomes,
         SubmitResubmit(t, k, d, readOk, evict, o)
  PROVE  IInv' /\ SafeStep
<1> DEFINE old == idem[k]
           table2 == [rows EXCEPT ![old] = NoRow]
           ets2 == [tasks EXCEPT ![old] = NoTask]
           index2 == [idem EXCEPT ![k] = NoId]
<1>1. /\ TablesInv(tasks, idem, rows, runs, issued, acked, pruned)
      /\ now \in Nat /\ results \in [TaskIds -> Int]
  BY IInvTables
<1>2. k \in Keys /\ k # NoKey /\ d \in Int
  BY StoreAssumption
<1>3. old \in TaskIds /\ tasks[old].state # "none" /\ tasks[old].state \in TerminalStates
  BY <1>2 DEF SubmitResubmit, IInv, StoreInv, TerminalStates
<1>4. t \notin issued /\ now' = now /\ runs' = runs /\ t # old
  BY <1>3 DEF SubmitResubmit, IInv, StoreInv
<1>5. results' \in [TaskIds -> Int]
  BY <1>1, <1>3 DEF SubmitResubmit, NoResult
<1>6. /\ tasks = [u \in TaskIds |-> tasks[u]]
      /\ \A u \in TaskIds : tasks[u].attempt \in Nat
  BY <1>1 DEF TablesInv, TaskInv, Tasks
<1>7. TablesInv(tasks, idem, table2, runs, issued, acked, pruned \cup {old})
  BY <1>1, <1>3, EvictRowTables
<1>8. CASE evict # "ok"
  <2>1. /\ tasks' = tasks /\ idem' = idem /\ issued' = issued /\ acked' = acked
        /\ evict = "lost" => rows' = rows /\ pruned' = pruned
        /\ evict = "late" => rows' = table2 /\ pruned' = pruned \cup {old}
    BY <1>8 DEF SubmitResubmit, Confirmed, Committed
  <2>2. TablesInv(tasks', idem', rows', runs', issued', acked', pruned')
    BY <1>1, <1>4, <1>7, <1>8, <2>1, StoreAssumption DEF Outcomes
  <2>3. SafeStep
    BY <1>6, <2>1 DEF SafeStep
  <2> QED
    BY <1>1, <1>4, <1>5, <2>2, <2>3, IInvTablesPrime
<1>9. CASE evict = "ok"
  <2>1. pruned' = pruned \cup {old} /\ DoSubmit(ets2, index2, table2, t, k, d, o)
    BY <1>9 DEF SubmitResubmit, Confirmed, Committed
  <2>2. table2[old] = NoRow /\ index2[k] = NoId
    BY <1>2, <1>3 DEF IInv, StoreInv
  <2>3. TablesInv(ets2, index2, table2, runs, issued, acked, pruned')
    <3> HIDE DEF table2
    <3> QED
      BY <1>2, <1>3, <1>7, <2>1, <2>2, EvictTaskTables
  <2>4. /\ TablesInv(tasks', idem', rows', runs', issued', acked', pruned')
        /\ tasks' \in {ets2, [ets2 EXCEPT ![t] = QueuedTask(k, d)]}
    <3> HIDE DEF ets2, index2, table2
    <3> QED
      BY <1>1, <1>2, <1>4, <2>1, <2>2, <2>3, DoSubmitStep, ZenonT(30)
  <2>5. SafeStep
    <3>1. tasks[t].state = "none" /\ tasks[t].attempt = 0
      BY <1>1, <1>4 DEF TablesInv, TaskInv, NoTask
    <3>2. QueuedTask(k, d).attempt = 1
      BY DEF QueuedTask, NoTask
    <3>3. \A u \in TaskIds : u \notin {t, old} => tasks'[u] = tasks[u]
      BY <1>6, <2>4
    <3>4. tasks'[t] = tasks[t] \/ tasks'[t] = QueuedTask(k, d)
      BY <1>4, <1>6, <2>4
    <3>5. tasks'[old].state = "none"
      BY <1>3, <1>4, <1>6, <2>4 DEF NoTask
    <3> HIDE DEF old, ets2
    <3> QED
      BY <1>6, <3>1, <3>2, <3>3, <3>4, <3>5 DEF SafeStep
  <2> QED
    BY <1>1, <1>4, <1>5, <2>4, <2>5, IInvTablesPrime
<1> QED
  BY <1>8, <1>9

\* the rebuild after a restart
LEMMA RestartStep ==
  ASSUME IInv, Restart
  PROVE  IInv' /\ SafeStep
<1>1. /\ tasks' = [t \in TaskIds |-> RowToTask(rows[t])] /\ idem' = RebuiltIndex
      /\ rows' = rows /\ results' = results /\ now' = now /\ issued' = issued
      /\ acked' = acked /\ pruned' = pruned /\ runs' = runs
  BY DEF Restart
<1>2. /\ TablesInv(tasks, idem, rows, runs, issued, acked, pruned)
      /\ now \in Nat /\ results \in [TaskIds -> Int]
  BY IInvTables
<1>3. ASSUME NEW t \in TaskIds
      PROVE  /\ tasks'[t] = RowToTask(rows[t])
             /\ tasks'[t].state = rows[t].state /\ tasks'[t].key = rows[t].key
             /\ rows[t].state = "none" => tasks'[t] = NoTask /\ tasks'[t].key = NoKey
             /\ rows[t].state # "none" => tasks'[t].attempt = rows[t].attempt + 1
             /\ tasks'[t] \in Tasks
  <2>1. rows[t] \in Rows /\ (rows[t].state = "none" => rows[t] = NoRow)
    BY <1>2 DEF TablesInv, TaskInv
  <2>2. rows[t].attempt + 1 \in Nat
    BY <2>1 DEF Rows
  <2>3. tasks'[t] = RowToTask(rows[t])
    BY <1>1
  <2>4. CASE rows[t].state = "none"
    <3>1. tasks'[t] = NoTask /\ rows[t] = NoRow
      BY <2>1, <2>3, <2>4 DEF RowToTask
    <3>2. NoTask \in Tasks /\ NoTask.state = "none" /\ NoTask.key = NoKey
          /\ NoRow.key = NoKey
      BY DEF NoTask, NoRow, Tasks, NoDeadline
    <3> QED
      BY <2>3, <2>4, <3>1, <3>2
  <2>5. CASE rows[t].state # "none"
    <3>1. tasks'[t] = [state |-> rows[t].state, attempt |-> rows[t].attempt + 1,
                       capacity_retries |-> 0, key |-> rows[t].key,
                       node |-> NoNode, expires |-> rows[t].expires]
      BY <2>3, <2>5, ZenonT(30) DEF RowToTask, NoTask
    <3> QED
      BY <2>1, <2>2, <2>3, <2>5, <3>1 DEF Rows, Tasks
  <2> QED
    BY <2>4, <2>5
<1>4. ASSUME NEW t \in TaskIds
      PROVE  TaskInv(tasks'[t], rows[t], runs[t])
  <2>1. TaskInv(tasks[t], rows[t], runs[t])
    BY Untouched
  <2>2. rows[t].state # "none" => AtLeast(rows[t], tasks'[t])
    <3>1. rows[t] \in Rows
      BY <2>1 DEF TaskInv
    <3>2. rows[t].state # "none" => ForwardRank(rows[t].state) >= ForwardRank(rows[t].state)
      BY <3>1, RankFacts DEF Rows, States
    <3> QED
      BY <1>3, <3>1, <3>2 DEF AtLeast, Rows
  <2>3. rows[t].attempt \in Nat
    BY <2>1 DEF TaskInv, Rows
  <2> QED
    BY <1>3, <2>1, <2>2, <2>3 DEF TaskInv, States
<1>5. \A t, u \in TaskIds : rows[t].key = rows[u].key /\ rows[t].key # NoKey => t = u
  BY DEF IInv, StoreInv
<1>6. ASSUME NEW k \in Keys
      PROVE  /\ idem'[k] \in TaskIds \cup {NoId}
             /\ idem'[k] # NoId => tasks'[idem'[k]].key = k
             /\ \A t \in TaskIds : tasks'[t].key = k => idem'[k] = t
             /\ \A t \in TaskIds : rows[t].key = k /\ idem'[k] # NoId => idem'[k] = t
  <2>1. DOMAIN rows = TaskIds /\ k # NoKey
    BY KeyAssumption DEF IInv
  <2>2. CASE \E t \in TaskIds : rows[t].key = k
    <3>1. idem'[k] = CHOOSE t \in TaskIds : rows[t].key = k
      BY <1>1, <2>1, <2>2 DEF RebuiltIndex, KeyTaken
    <3>2. idem'[k] \in TaskIds /\ rows[idem'[k]].key = k
      BY <2>2, <3>1
    <3> QED
      BY <1>3, <1>5, <2>1, <3>2
  <2>3. CASE ~ \E t \in TaskIds : rows[t].key = k
    <3>1. idem'[k] = NoId
      BY <1>1, <2>1, <2>3 DEF RebuiltIndex, KeyTaken
    <3> QED
      BY <1>3, <2>3, <3>1
  <2> QED
    BY <2>2, <2>3
<1>7. idem' \in [Keys -> TaskIds \cup {NoId}]
  <2>1. idem' = [k \in Keys |-> idem'[k]]
    BY <1>1 DEF RebuiltIndex
  <2> QED
    BY <1>6, <2>1
<1>8. \A t \in acked \ pruned : tasks'[t].state # "none"
  BY <1>2, <1>3, ZenonT(30) DEF TablesInv
<1>9. TablesInv(tasks', idem', rows', runs', issued', acked', pruned')
  <2>1. tasks' = [t \in TaskIds |-> tasks'[t]]
    BY <1>1
  <2>2. /\ \A t \in TaskIds \ issued :
             tasks'[t].state = "none" /\ rows[t].state = "none" /\ runs[t] = 0
        /\ \A t \in TaskIds \ pruned : tasks'[t].state # "none" => rows[t].state # "none"
        /\ rows = [t \in TaskIds |-> rows[t]] /\ runs = [t \in TaskIds |-> runs[t]]
        /\ issued \subseteq TaskIds /\ acked \subseteq TaskIds /\ pruned \subseteq TaskIds
    BY <1>2, <1>3 DEF TablesInv
  <2>3. TablesInv(tasks', idem', rows, runs, issued, acked, pruned)
    BY <1>4, <1>5, <1>6, <1>7, <1>8, <2>1, <2>2 DEF TablesInv
  <2> QED
    BY <1>1, <2>3
<1>10. SafeStep
  <2> SUFFICES ASSUME NEW t \in TaskIds
               PROVE  /\ tasks[t].state = "succeeded"
                           => tasks'[t].state \in {"succeeded", "none"}
                      /\ tasks'[t].attempt < tasks[t].attempt
                           => tasks[t].state = "dead_lettered" \/ tasks'[t].state = "none"
    BY DEF SafeStep
  <2>1. TaskInv(tasks[t], rows[t], runs[t])
    BY Untouched
  <2>2. tasks[t].attempt \in Nat /\ rows[t].attempt \in Nat
    BY <2>1 DEF TaskInv, Tasks, Rows
  <2>3. tasks[t].state = "none" => tasks[t].attempt = 0
    BY <2>1 DEF TaskInv, NoTask
  <2>4. /\ tasks[t].state # "none" /\ rows[t].state # "none"
             => /\ tasks[t].state # "dead_lettered" => AtLeast(rows[t], tasks[t])
                /\ tasks[t].state = "succeeded" => rows[t].state = "succeeded"
    BY <2>1 DEF TaskInv
  <2> QED
    BY <1>3, <2>2, <2>3, <2>4 DEF AtLeast
<1> QED
  BY <1>1, <1>2, <1>9, <1>10, IInvTablesPrime

\* the prune of a terminal row
LEMMA CompactTaskStep ==
  ASSUME IInv, NEW t \in TaskIds, CompactTask(t)
  PROVE  IInv' /\ SafeStep
<1>1. /\ TablesInv(tasks, idem, rows, runs, issued, acked, pruned)
      /\ now \in Nat /\ results \in [TaskIds -> Int]
  BY IInvTables
<1>2. TablesInv(tasks, idem, [rows EXCEPT ![t] = NoRow], runs, issued, acked, pruned \cup {t})
  BY <1>1, EvictRowTables
<1>3. /\ rows' = [rows EXCEPT ![t] = NoRow] /\ pruned' = pruned \cup {t}
      /\ tasks' = tasks /\ idem' = idem /\ now' = now /\ issued' = issued
      /\ acked' = acked /\ runs' = runs
  BY DEF CompactTask
<1>4. results' \in [TaskIds -> Int]
  BY <1>1 DEF CompactTask, NoResult
<1>5. SafeStep
  <2>1. \A u \in TaskIds : tasks[u].attempt \in Nat
    BY <1>1 DEF TablesInv, TaskInv, Tasks
  <2> QED
    BY <1>3, <2>1 DEF SafeStep
<1> QED
  BY <1>1, <1>2, <1>3, <1>4, <1>5, IInvTablesPrime

-----------------------------------------------------------------------------
(* The theorems *)

\* The empty store satisfies the invariant.
LEMMA InitInv ==
  Init => IInv
<1> SUFFICES ASSUME Init PROVE IInv
  OBVIOUS
<1>1. ASSUME NEW t \in TaskIds
      PROVE  /\ tasks[t] = NoTask /\ rows[t] = NoRow /\ runs[t] = 0
             /\ tasks[t].state = "none" /\ rows[t].state = "none"
             /\ tasks[t].key = NoKey /\ rows[t].key = NoKey
  BY DEF Init, NoTask, NoRow
<1>2. TaskInv(NoTask, NoRow, 0)
  BY DEF TaskInv, NoTask, NoRow, Tasks, Rows, NoDeadline
<1>3. \A t \in TaskIds : TaskInv(tasks[t], rows[t], runs[t])
  BY <1>1, <1>2
<1>4. OneTaskPerKey
  BY <1>1, KeyAssumption DEF Init, OneTaskPerKey
<1>5. StoreInv
  BY <1>1, <1>4 DEF Init, StoreInv, NoResult
<1> QED
  BY <1>3, <1>5 DEF IInv, Init

\* Every step preserves the invariant, takes no success back and lowers no
\* attempt.
LEMMA NextInv ==
  IInv /\ [Next]_vars => IInv' /\ (SafeStep \/ UNCHANGED vars)
<1> SUFFICES ASSUME IInv, [Next]_vars
             PROVE  IInv' /\ (SafeStep \/ UNCHANGED vars)
  OBVIOUS
<1>1. ASSUME NEW t \in TaskIds, NEW d \in Deadlines, NEW o \in Outcomes,
             \/ \E k \in SubmitKeys : SubmitFresh(t, k, d, o)
             \/ \E k \in SubmitKeys \ {NoKey}, readOk \in BOOLEAN, evict \in Outcomes :
                  SubmitResubmit(t, k, d, readOk, evict, o)
      PROVE  IInv' /\ SafeStep
  BY <1>1, SubmitFreshStep, SubmitResubmitStep
<1>2. ASSUME NEW k \in SubmitKeys \ {NoKey}, SubmitExisting(k)
      PROVE  IInv' /\ SafeStep
  BY <1>2, SubmitExistingStep
<1>3. ASSUME NEW t \in TaskIds, NEW o \in Outcomes,
             \/ \E n \in Nodes : Assign(t, n, o)
             \/ Start(t, o)
             \/ \E dispatched \in 0..now : Succeed(t, dispatched, o)
      PROVE  IInv' /\ SafeStep
  BY <1>3, AssignStep, StartStep, SucceedStep
<1>4. ASSUME NEW t \in TaskIds, NEW o \in Outcomes,
             \/ \E reason \in Reported, dlq \in Outcomes : Fail(t, reason, o, dlq)
             \/ RetryTask(t, o)
             \/ Redrive(t, o)
             \/ Expire(t, o)
      PROVE  IInv' /\ SafeStep
  BY <1>4, FailStep, RetryStep, RedriveStep, ExpireStep
<1>5. ASSUME NEW n \in Nodes, NEW o \in [TaskIds -> Outcomes],
             NEW dlq \in [TaskIds -> Outcomes], ReassignInFlight(n, o, dlq)
      PROVE  IInv' /\ SafeStep
  BY <1>5, ReassignStep
<1>6. CASE Restart
  BY <1>6, RestartStep
<1>7. ASSUME NEW t \in TaskIds, CompactResult(t) \/ CompactTask(t)
      PROVE  IInv' /\ SafeStep
  <2>1. CASE CompactTask(t)
    BY <2>1, CompactTaskStep
  <2>2. CASE CompactResult(t)
    <3>1. /\ results' = [results EXCEPT ![t] = NoResult]
          /\ UNCHANGED <<tasks, idem, rows, now, issued, acked, pruned, runs>>
      BY <2>2 DEF CompactResult
    <3>2. results' \in [TaskIds -> Int]
      BY <3>1 DEF IInv, StoreInv, NoResult
    <3> QED
      BY <3>1, <3>2, OthersStep, ZenonT(30) DEF IInv, StoreInv
  <2> QED
    BY <1>7, <2>1, <2>2
<1>8. CASE Tick
  <2>1. /\ now' = now + 1
        /\ UNCHANGED <<tasks, idem, rows, results, issued, acked, pruned, runs>>
    BY <1>8 DEF Tick
  <2>2. now' \in Nat
    BY <2>1 DEF IInv, StoreInv
  <2> QED
    BY <2>1, <2>2, OthersStep, ZenonT(30) DEF IInv, StoreInv
<1>9. CASE UNCHANGED vars
  <2>1. UNCHANGED <<tasks, idem, rows, results, now, issued, acked, pruned, runs>>
    BY <1>9 DEF vars
  <2> QED
    BY <1>9, <2>1, OthersStep, ZenonT(30) DEF IInv, StoreInv
<1> QED
  BY <1>1, <1>2, <1>3, <1>4, <1>5, <1>6, <1>7, <1>8, <1>9 DEF Next

\* IInv holds in every state the store can reach.
LEMMA Invariance ==
  Spec => []IInv
BY InitInv, NextInv, PTL DEF Spec

\* Every variable keeps its type.
THEOREM TypeCorrect ==
  Spec => []TypeOK
<1>1. IInv => TypeOK
  BY DEF IInv, StoreInv, TaskInv, TypeOK
<1> QED
  BY <1>1, Invariance, PTL

\* Write-through: no lost or late append and no restart leaves the op-log behind
\* what ETS shows.
THEOREM WriteThroughSafe ==
  Spec => []OpLogNeverBehind
<1>1. IInv => OpLogNeverBehind
  BY DEF IInv, TaskInv, OpLogNeverBehind
<1> QED
  BY <1>1, Invariance, PTL

\* A finished task is finished in the op-log.
THEOREM SettledSafe ==
  Spec => []SettledInOpLog
<1>1. IInv => SettledInOpLog
  BY DEF IInv, TaskInv, SettledInOpLog
<1> QED
  BY <1>1, Invariance, PTL

\* submit's dedupe: one key never has two tasks.
THEOREM DedupeSafe ==
  Spec => []OneTaskPerKey
<1>1. IInv => OneTaskPerKey
  BY DEF IInv, StoreInv
<1> QED
  BY <1>1, Invariance, PTL

\* No acknowledged task is lost before its row is pruned.
THEOREM NoTaskLost ==
  Spec => []AckedUntilPruned
<1>1. IInv => AckedUntilPruned
  BY ZenonT(30) DEF IInv, StoreInv, AckedUntilPruned
<1> QED
  BY <1>1, Invariance, PTL

\* The epoch fence: no attempt of a task is started twice.
THEOREM EpochFenceSafe ==
  Spec => []AttemptRunsOnce
<1>1. IInv => AttemptRunsOnce
  BY DEF IInv, TaskInv, RunsBound, AttemptRunsOnce
<1> QED
  BY <1>1, Invariance, PTL

\* No step takes a success back.
THEOREM SuccessStays ==
  Spec => SuccessIsFinal
<1>1. IInv /\ [Next]_vars =>
        [\A t \in TaskIds : tasks[t].state = "succeeded"
            => tasks'[t].state \in {"succeeded", "none"}]_vars
  BY NextInv DEF SafeStep
<1> QED
  BY <1>1, Invariance, PTL DEF Spec, SuccessIsFinal

\* No step but a redrive or a removal lowers an attempt.
THEOREM AttemptStays ==
  Spec => AttemptNeverFalls
<1>1. IInv /\ [Next]_vars =>
        [\A t \in TaskIds : tasks'[t].attempt < tasks[t].attempt
            => tasks[t].state = "dead_lettered" \/ tasks'[t].state = "none"]_vars
  BY NextInv DEF SafeStep
<1> QED
  BY <1>1, Invariance, PTL DEF Spec, AttemptNeverFalls

=============================================================================
