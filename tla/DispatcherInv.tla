--------------------------- MODULE DispatcherInv ----------------------------
(***************************************************************************)
(* The inductive invariant of the dispatcher over the task store, for the  *)
(* proofs.                                                                 *)
(***************************************************************************)
EXTENDS Dispatcher, TaskStoreInv

\* The steps during which the dispatcher holds a task it has taken.
CommitSteps == {"expire", "assign", "start"}

\* The type of the handler's position.
PcOK ==
  pc \in [step : {"boot", "idle", "drain", "sweep"} \cup CommitSteps,
          task : TaskIds \cup {NoId}, backlog : SUBSET (TaskIds \X States)]

\* Each task of queued_ids is held, or in its owner's FIFO, once.
HeldInv ==
  /\ fq \in Queues(TaskIds) /\ RotationMatchesFifos(fq)
  /\ queued_ids \subseteq TaskIds
  /\ Holding \subseteq queued_ids
  /\ depth \in [Principals -> Nat]
  /\ \A p \in Principals :
       /\ Once(fq.fifos[p])
       /\ Range(fq.fifos[p]) = QueuedOf(p) \ Holding
       /\ IsFiniteSet(QueuedOf(p))
       /\ depth[p] = Cardinality(QueuedOf(p))

\* The type of a worker's slot.
WorkerSlot == [task : TaskIds \cup {NoId}, at : Nat, attempt : Nat]

\* The counters count the live workers, and a held task has a slot to run in.
WorkInv ==
  /\ workers \in [Pids -> WorkerSlot]
  /\ \A w \in Live : workers[w].task \in TaskIds /\ workers[w].at \in 0 .. now
  /\ inflight_wl \in Nat
  /\ inflight_pr \in [Principals -> Nat]
  /\ InflightIsExact
  /\ pc.step \in CommitSteps => inflight_wl < Cap

\* The backlog of a sweep in progress names a task once, none that waits for its
\* timer as one to retry, and none with a worker as one to reclaim.
SweepInv ==
  /\ retry_timers \subseteq TaskIds
  /\ pc.step # "sweep" => pc.backlog = {}
  /\ \A t \in TaskIds, a, b \in States :
       <<t, a>> \in pc.backlog /\ <<t, b>> \in pc.backlog => a = b
  /\ \A t \in TaskIds : <<t, "failed_retryable">> \in pc.backlog => t \notin retry_timers
  /\ \A t \in TaskIds, a \in InFlightStates : <<t, a>> \in pc.backlog => t \notin Tracked

\* The store's invariant and the dispatcher's, together inductive.
DispatcherInv ==
  /\ IInv /\ HeldInv /\ PcOK /\ WorkInv /\ SweepInv
  /\ TimerOwnsRetry

=============================================================================
