---------------------------- MODULE MCTaskStore ----------------------------
(***************************************************************************)
(* TaskStore for TLC: task ids, keys and nodes are model values.           *)
(***************************************************************************)
EXTENDS TaskStore, TLC

\* Task ids and nodes are interchangeable: only equality tells them apart.
Symmetry == Permutations(TaskIds) \cup Permutations(Nodes)

-----------------------------------------------------------------------------
(* What the repository says of the store and TLC refutes.                  *)

\* retry.ex: "A failure on the attempt that reaches max_attempts has exhausted its
\* budget".  No more runs are started for one submit or redrive than max_attempts.
RunsWithinBudget ==
  \A t \in TaskIds : runs[t] <= MaxAttempts

\* dispatcher.ex: `"no task lost" hold[s] across restarts'; api.yaml: "Redriven;
\* task is queued again".  A redrive the store confirms is in the op-log.
RedriveIsDurable ==
  [][\A t \in TaskIds : tasks[t].state = "dead_lettered" /\ tasks'[t].state = "queued"
        => rows'[t].state = "queued"]_vars

=============================================================================
