---------------------------- MODULE FairRotation ----------------------------
(***************************************************************************)
(* The fair queue at work: tasks arrive, are taken while the cap and the   *)
(* shares allow, and finish.  Source: dispatcher.ex (do_enqueue,           *)
(* drain_loop, dispatch_one, inc_inflight, dec_inflight).  The store's     *)
(* answers are left to module Dispatcher: every taken task runs.           *)
(***************************************************************************)
EXTENDS FairQueue

CONSTANTS
  Waiting,      \* the tasks that may be queued
  Tenant,        \* task -> principal
  Metered      \* principals with a daily quota, which may be exhausted

ASSUME RotationAssumption ==
  /\ Tenant \in [Waiting -> Principals]
  /\ Metered \subseteq Principals

VARIABLES
  queue,           \* the workload's fair queue
  inflight,     \* principal -> its tasks in flight
  outside,      \* tasks neither queued nor in flight
  running,      \* tasks in flight
  overtaken     \* history: <<p, q>> -> takes of q's since p was served, skipped
                \* or joined the rotation

rvars == <<queue, inflight, outside, running, overtaken>>

RotationInit ==
  /\ queue = NewFq
  /\ inflight = [p \in Principals |-> 0]
  /\ outside = Waiting
  /\ running = {}
  /\ overtaken = [pq \in Principals \X Principals |-> 0]

\* do_enqueue of a task the queue does not hold.
Enqueue(t) ==
  /\ t \in outside
  /\ outside' = outside \ {t}
  /\ queue' = FqEnqueue(queue, Tenant[t], t)
  /\ overtaken' = IF Tenant[t] \in FqPrincipals(queue) THEN overtaken
                  ELSE [pq \in Principals \X Principals |->
                          IF pq[1] = Tenant[t] THEN 0 ELSE overtaken[pq]]
  /\ UNCHANGED <<inflight, running>>

\* One turn of drain_loop below the cap, with a node to place on.
Dispatch(blocked) ==
  LET servable == Servable(queue, ShareCap(queue, inflight), inflight, blocked)
      taken    == FqTake(queue, servable)
  IN /\ ~ FqEmpty(queue)
     /\ Cardinality(running) < Cap
     /\ servable # {}
     /\ queue' = taken.fq
     /\ inflight' = [inflight EXCEPT ![taken.pr] = @ + 1]
     /\ running' = running \cup {taken.task}
     /\ overtaken' = [pq \in Principals \X Principals |->
                        IF pq[1] \in servable \ {taken.pr}
                        THEN overtaken[pq] + (IF pq[2] = taken.pr THEN 1 ELSE 0)
                        ELSE 0]
     /\ UNCHANGED outside

\* finish_worker.
Finish(t) ==
  /\ t \in running
  /\ running' = running \ {t}
  /\ outside' = outside \cup {t}
  /\ inflight' = [inflight EXCEPT ![Tenant[t]] = @ - 1]
  /\ UNCHANGED <<queue, overtaken>>

RotationNext ==
  \/ \E t \in Waiting : Enqueue(t) \/ Finish(t)
  \/ \E blocked \in SUBSET Metered : Dispatch(blocked)

\* The drain runs again after every enqueue, finished worker and sweep; a worker
\* ends (its deadline and watchdog bound it).
RotationFairness ==
  /\ SF_rvars(\E blocked \in SUBSET Metered : Dispatch(blocked))
  /\ \A t \in Waiting : WF_rvars(Finish(t))

RotationSpec == RotationInit /\ [][RotationNext]_rvars /\ RotationFairness

-----------------------------------------------------------------------------
(* Properties *)

\* fq_enqueue and fq_take keep the rotation and the FIFOs in step, a task is in
\* one FIFO, once, its owner's, and the counters count the running tasks.
QueueConsistent ==
  /\ RotationMatchesFifos(queue)
  /\ \A p \in Principals :
       /\ {t \in Waiting : Tenant[t] = p} \ (outside \cup running) = Range(queue.fifos[p])
       /\ Len(queue.fifos[p]) = Cardinality(Range(queue.fifos[p]))
       /\ inflight[p] = Cardinality({t \in running : Tenant[t] = p})

\* Round-robin: between two turns of a principal that could be served, no other
\* principal has two.
OvertakenOnce ==
  \A p, q \in Principals : p \in FqPrincipals(queue) => overtaken[<<p, q>>] <= 1

\* "under contention no principal starves the others": every queued task of a
\* principal without a quota is taken in the end, whatever the others enqueue
\* and whenever their quotas block them.
NoStarvation ==
  \A t \in Waiting : Tenant[t] \notin Metered =>
    (t \in Range(queue.fifos[Tenant[t]]) ~> t \in running)

=============================================================================
