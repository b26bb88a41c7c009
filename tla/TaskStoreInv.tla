---------------------------- MODULE TaskStoreInv ----------------------------
(***************************************************************************)
(* The inductive invariant of TaskStore, for the proofs about the store    *)
(* and about its callers.  TaskInv relates what ETS and the op-log hold of *)
(* one task; StoreInv relates the tables.                                  *)
(***************************************************************************)
EXTENDS TaskStore

\* The bound that a state in ETS or in a row puts on the guests run.
RunsBound(state, attempt) ==
  IF state \in {"queued", "assigned"} THEN attempt - 1 ELSE attempt

\* ETS task e, row r, guests run n.
TaskInv(e, r, n) ==
  /\ e \in Tasks /\ r \in Rows /\ n \in Nat
  /\ e.state = "none" => e = NoTask
  /\ r.state = "none" => r = NoRow
  /\ e.state # "none" => e.attempt >= 1 /\ n <= RunsBound(e.state, e.attempt)
  /\ r.state # "none" => n <= RunsBound(r.state, r.attempt + 1)
  /\ e.state # "none" /\ r.state # "none" =>
       /\ e.key = r.key
       /\ e.state # "dead_lettered" => AtLeast(r, e)
       /\ e.state = "succeeded" => r.state = "succeeded"
       /\ e.state = "failed_permanent" => r.state \in {"failed_permanent", "dead_lettered"}
       /\ e.state = "dead_lettered" => r.state \in {"dead_lettered", "queued"}

StoreInv ==
  /\ idem \in [Keys -> TaskIds \cup {NoId}]
  /\ now \in Nat
  /\ results \in [TaskIds -> Int]
  /\ issued \subseteq TaskIds /\ acked \subseteq TaskIds /\ pruned \subseteq TaskIds
  /\ \A t \in TaskIds \ issued :
       tasks[t].state = "none" /\ rows[t].state = "none" /\ runs[t] = 0
  /\ \A t \in TaskIds \ pruned : tasks[t].state # "none" => rows[t].state # "none"
  /\ \A t \in acked \ pruned : tasks[t].state # "none"
  /\ \A t, u \in TaskIds : rows[t].key = rows[u].key /\ rows[t].key # NoKey => t = u
  /\ OneTaskPerKey

IInv ==
  /\ tasks = [t \in TaskIds |-> tasks[t]]
  /\ rows = [t \in TaskIds |-> rows[t]]
  /\ runs = [t \in TaskIds |-> runs[t]]
  /\ \A t \in TaskIds : TaskInv(tasks[t], rows[t], runs[t])
  /\ StoreInv

=============================================================================
