------------------------------ MODULE TaskOpLog ------------------------------
(***************************************************************************)
(* The durable side of a task: the effect of one appended op on the task's *)
(* row of the `tasks' table.  Source: op_log/postgres.ex (project/3), in   *)
(* control/lib/embervm.                                                    *)
(*                                                                         *)
(* A row whose state is "none" is an absent row.  An UPDATE of an absent   *)
(* row affects nothing and the append still succeeds.                      *)
(***************************************************************************)
EXTENDS TaskState, Integers

CONSTANTS
  Keys,      \* the (workload, idempotency key) pairs clients use
  NoKey      \* a submit without an idempotency key

ASSUME KeyAssumption == NoKey \notin Keys

NoDeadline == -1   \* a null expires_at

NoRow ==
  [state |-> "none", attempt |-> 0, key |-> NoKey, expires |-> NoDeadline,
   at |-> 0]

Rows ==
  [state : States \cup {"none"}, attempt : Nat, key : Keys \cup {NoKey},
   expires : Int, at : Nat]

\* :submitted inserts a queued row whose retry count is 0.
Submitted(key, expires, ts) ==
  [state |-> "queued", attempt |-> 0, key |-> key, expires |-> expires,
   at |-> ts]

\* Mutant: no unique index.
KeyNeverTaken(rows, key) == FALSE

\* The unique (workload, idempotency_key) index: a second row under a key that a
\* row already holds is refused and the whole append rolled back.
KeyTaken(rows, key) ==
  key # NoKey /\ \E u \in DOMAIN rows : rows[u].key = key

\* Mutant: a state that ends a run is only written over an in-flight one.
UpdateInFlightState(row, state, ts) ==
  IF row.state \in InFlightStates THEN [row EXCEPT !.state = state, !.at = ts] ELSE row

\* :failed, :succeeded and :dead_lettered write the state unconditionally.
UpdateTaskState(row, state, ts) ==
  IF row.state = "none" THEN row ELSE [row EXCEPT !.state = state, !.at = ts]

\* Mutant: the fence compares the retry count with the attempt off by one.
AdvanceEarlierEpoch(row, state, ts, epoch) ==
  IF row.state \in StatesBelow(state) /\ row.attempt < epoch - 1
  THEN [row EXCEPT !.state = state, !.at = ts]
  ELSE row

\* :assigned and :started only move a row forward in rank, and only while its
\* retry count is below the attempt the op was issued under.
AdvanceTaskState(row, state, ts, epoch) ==
  IF row.state \in StatesBelow(state) /\ row.attempt < epoch
  THEN [row EXCEPT !.state = state, !.at = ts]
  ELSE row

\* Mutant: :retried requeues the row and does not count the retry.
RetriedUncounted(row, ts) ==
  IF row.state = "none" THEN row ELSE [row EXCEPT !.state = "queued", !.at = ts]

\* :retried requeues the row and counts the retry.
Retried(row, ts) ==
  IF row.state = "none" THEN row
  ELSE [row EXCEPT !.state = "queued", !.attempt = @ + 1, !.at = ts]

\* :redrive requeues the row with a fresh retry count.
Redriven(row, ts) ==
  IF row.state = "none" THEN row
  ELSE [row EXCEPT !.state = "queued", !.attempt = 0, !.at = ts]

=============================================================================
