------------------------- MODULE StoreCallersProofs -------------------------
(***************************************************************************)
(* The two callers of the task store, each composed with it.  The          *)
(* dispatcher and the synchronous waiters implement the store's own        *)
(* specification, so what TaskStoreProofs proves of the store holds under  *)
(* both; the dispatcher's queue, counters, timers and workers stay in      *)
(* step with it; parking is bounded and no wake is missed.  All this for   *)
(* any number of tasks, principals, workers, request processes and         *)
(* faults.                                                                 *)
(***************************************************************************)
EXTENDS DispatcherProofs, LimitsProofs, DispatchQueueProofs, TaskStoreProofs

\* The provers a leaf that names none is given, in order: the solver again after
\* Zenon, for a leaf whose translation was too slow the first time.
USE SMTT(30), ZenonT(30), SMTT(31), SMTT(32), SMTT(33)

-----------------------------------------------------------------------------
(* The theorems *)

\* A waiter only reads the store: the store behind the synchronous endpoint keeps
\* every promise of the store alone.
THEOREM WaitImplementsStore ==
  WaitSpec => Spec
<1>1. WaitInit => Init /\ IInv
  BY InitInv DEF WaitInit
<1>2. IInv /\ [WaitNext]_wvars => IInv' /\ [Next]_vars
  BY WaitCalls, NextInv
<1> QED
  BY <1>1, <1>2, PTL DEF WaitSpec, Spec

\* It holds before the dispatcher's first sweep.
LEMMA DispatcherInitInv ==
  DispatcherInit => DispatcherInv /\ WorkerOwnsRun
<1> SUFFICES ASSUME DispatcherInit PROVE DispatcherInv /\ WorkerOwnsRun
  OBVIOUS
<1>1. IInv
  BY InitInv DEF DispatcherInit
<1>2. pc.step \notin CommitSteps /\ pc.backlog = {} /\ PcOK /\ Holding = {}
  BY DEF DispatcherInit, At, CommitSteps, PcOK, Holding
<1>3. HeldInv
  BY <1>2, EmptyHeld DEF DispatcherInit
<1>4. WorkInv
  BY <1>2, EmptyWork, ZenonT(30) DEF DispatcherInit
<1>5. SweepInv /\ TimerOwnsRetry
  BY <1>2 DEF DispatcherInit, SweepInv, TimerOwnsRetry
<1>6. Live = {}
  BY DEF DispatcherInit, Live, NoWorker
<1> QED
  BY <1>1, <1>2, <1>3, <1>4, <1>5, <1>6, ZenonT(30) DEF DispatcherInv, WorkerOwnsRun

\* Every step of the dispatcher is a step of the store, and preserves it.
LEMMA DispatcherNextInv ==
  DispatcherInv /\ [DispatcherNext]_dvars => DispatcherInv' /\ [Next]_vars
<1> SUFFICES ASSUME DispatcherInv, [DispatcherNext]_dvars
             PROVE  DispatcherInv' /\ [Next]_vars
  OBVIOUS
<1>1. [Next]_vars
  BY StoreCalls DEF DispatcherInv
<1>2. IInv'
  BY <1>1, NextInv, ZenonT(30) DEF DispatcherInv
<1>c. now \in Nat /\ now' \in Nat /\ now <= now'
  BY <1>1, ClockForward, ZenonT(30) DEF DispatcherInv, IInv, StoreInv
<1>a. \A t \in TaskIds : tasks[t].attempt \in Nat
  BY DEF DispatcherInv, IInv, StoreInv, TaskInv, Tasks
<1>3. IInv /\ HeldInv /\ PcOK /\ WorkInv /\ SweepInv /\ TimerOwnsRetry
  BY ZenonT(30) DEF DispatcherInv
<1>4. HeldInv' /\ PcOK'
  BY <1>3, HeldStep, PcStep, ZenonT(30)
<1>5. WorkInv'
  BY <1>3, <1>a, <1>c, WorkStep, ZenonT(30)
<1>6. SweepInv' /\ TimerOwnsRetry'
  BY <1>3, SweepInvStep, TimerStep, ZenonT(30)
<1> QED
  BY <1>1, <1>2, <1>4, <1>5, <1>6, ZenonT(30) DEF DispatcherInv

\* It holds in every state the dispatcher can reach.
LEMMA DispatcherInvariance ==
  DispatcherSpec => []DispatcherInv
BY DispatcherInitInv, DispatcherNextInv, PTL DEF DispatcherSpec

\* The dispatcher, its workers, timers and sweeps drive the store only through its
\* handlers, in states that allow them: so whatever is proved of the store alone holds
\* of the store under its dispatcher.
THEOREM DispatcherImplementsStore ==
  DispatcherSpec => Spec
<1>1. DispatcherInit => Init
  BY DEF DispatcherInit
<1> QED
  BY <1>1, DispatcherInvariance, DispatcherNextInv, PTL DEF DispatcherSpec, Spec

\* do_enqueue, fq_take and release_depth: the queue, its dedupe set and its depth
\* counters agree whatever commit is refused, lost or interrupted.
THEOREM DepthSafe ==
  DispatcherSpec => []DepthIsExact
<1>1. DispatcherInv => DepthIsExact
  <2> SUFFICES ASSUME DispatcherInv PROVE DepthIsExact
    OBVIOUS
  <2>1. /\ RotationMatchesFifos(fq) /\ fq \in Queues(TaskIds)
        /\ \A p \in Principals :
             /\ Once(fq.fifos[p]) /\ Range(fq.fifos[p]) = QueuedOf(p) \ Holding
             /\ depth[p] = Cardinality(QueuedOf(p))
    BY DEF DispatcherInv, HeldInv
  <2>2. \A p \in Principals : fq.fifos[p] \in Seq(TaskIds)
    BY <2>1 DEF Queues
  <2>3. \A p \in Principals : Len(fq.fifos[p]) = Cardinality(Range(fq.fifos[p]))
    BY <2>1, <2>2, OnceCounts, ZenonT(30)
  <2> QED
    BY <2>1, <2>3, ZenonT(30) DEF DepthIsExact
<1> QED
  BY <1>1, DispatcherInvariance, PTL

\* inc_inflight and dec_inflight: the counters the caps are checked against count
\* the live workers.
THEOREM InflightSafe ==
  DispatcherSpec => []InflightIsExact
<1>1. DispatcherInv => InflightIsExact
  BY ZenonT(30) DEF DispatcherInv, WorkInv
<1> QED
  BY <1>1, DispatcherInvariance, PTL

\* arm_retry and the sweep: a backoff timer is armed only for a task that waits
\* for it.
THEOREM TimersSafe ==
  DispatcherSpec => []TimerOwnsRetry
<1>1. DispatcherInv => TimerOwnsRetry
  BY DEF DispatcherInv
<1> QED
  BY <1>1, DispatcherInvariance, PTL

\* finish_worker reports by task id alone: while no node is declared down, that is
\* the run the worker was started for.
THEOREM WorkersOwnRuns ==
  ASSUME Downable = {}
  PROVE  DispatcherSpec => []WorkerOwnsRun
<1>1. DispatcherInit => WorkerOwnsRun
  BY DispatcherInitInv
<1>2. DispatcherInv /\ WorkerOwnsRun /\ [DispatcherNext]_dvars => WorkerOwnsRun'
  BY OwnsStep DEF DispatcherInv
<1> QED
  BY <1>1, <1>2, DispatcherInvariance, PTL DEF DispatcherSpec

=============================================================================
