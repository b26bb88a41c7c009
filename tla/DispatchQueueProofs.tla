------------------------ MODULE DispatchQueueProofs -------------------------
(***************************************************************************)
(* The dispatcher's fair queue, its dedupe set and its depth counters.     *)
(***************************************************************************)
EXTENDS DispatcherInv, FairQueueProofs

\* The provers a leaf that names none is given, in order: the solver again after
\* Zenon, for a leaf whose translation was too slow the first time.
USE SMTT(30), ZenonT(30), SMTT(31), SMTT(32), SMTT(33)

-----------------------------------------------------------------------------
(* The dispatcher's queue *)

\* do_enqueue, between commits.
LEMMA EnqueueHeld ==
  ASSUME HeldInv, NEW t \in TaskIds, DoEnqueue(t), Holding = {}, Holding' = {}
  PROVE  HeldInv'
<1> DEFINE pr == Owner[t]
<1>1. pr \in Principals
  BY DispatcherAssumption
<1>2. CASE t \in queued_ids
  BY <1>2 DEF DoEnqueue, HeldInv, QueuedOf
<1>3. CASE t \notin queued_ids
  <2>1. /\ fq' = FqEnqueue(fq, pr, t) /\ queued_ids' = queued_ids \cup {t}
        /\ depth' = [depth EXCEPT ![pr] = @ + 1]
    BY <1>3 DEF DoEnqueue
  <2>2. fq' \in Queues(TaskIds) /\ RotationMatchesFifos(fq')
    BY <1>1, <2>1, EnqueuedQueue DEF HeldInv
  <2>3. /\ fq.fifos \in [Principals -> Seq(TaskIds)]
        /\ fq'.fifos = [fq.fifos EXCEPT ![pr] = Append(@, t)]
    BY <2>1 DEF HeldInv, Queues, FqEnqueue
  <2>4. t \notin Range(fq.fifos[pr])
    BY <1>1, <1>3, ZenonT(30) DEF HeldInv, QueuedOf
  <2>5. /\ Once(Append(fq.fifos[pr], t))
        /\ Range(Append(fq.fifos[pr], t)) = Range(fq.fifos[pr]) \cup {t}
    BY <1>1, <2>3, <2>4, OnceAppend DEF HeldInv
  <2>6. /\ fq'.fifos[pr] = Append(fq.fifos[pr], t)
        /\ \A p \in Principals \ {pr} : fq'.fifos[p] = fq.fifos[p]
    BY <1>1, <2>3
  <2>7. ASSUME NEW p \in Principals
        PROVE  /\ Once(fq'.fifos[p])
               /\ Range(fq'.fifos[p]) = QueuedOf(p)'
               /\ IsFiniteSet(QueuedOf(p)')
               /\ depth'[p] = Cardinality(QueuedOf(p)')
               /\ depth'[p] \in Nat
    <3>0. /\ Once(fq.fifos[p]) /\ Range(fq.fifos[p]) = QueuedOf(p)
          /\ IsFiniteSet(QueuedOf(p)) /\ depth[p] = Cardinality(QueuedOf(p))
          /\ depth \in [Principals -> Nat]
      BY DEF HeldInv
    <3>1. CASE p = pr
      <4>1. QueuedOf(p)' = QueuedOf(p) \cup {t} /\ t \notin QueuedOf(p)
        BY <1>3, <2>1, <3>1 DEF QueuedOf
      <4>2. /\ IsFiniteSet(QueuedOf(p) \cup {t})
            /\ Cardinality(QueuedOf(p) \cup {t}) = Cardinality(QueuedOf(p)) + 1
        BY <3>0, <4>1, FS_AddElement
      <4>3. depth'[p] = depth[p] + 1 /\ depth'[p] \in Nat
        BY <1>1, <2>1, <3>0, <3>1
      <4>4. Once(fq'.fifos[p]) /\ Range(fq'.fifos[p]) = Range(fq.fifos[p]) \cup {t}
        BY <2>5, <2>6, <3>1, ZenonT(30)
      <4> QED
        BY <3>0, <4>1, <4>2, <4>3, <4>4
    <3>2. CASE p # pr
      <4>1. QueuedOf(p)' = QueuedOf(p)
        BY <2>1, <3>2 DEF QueuedOf
      <4> QED
        BY <3>0, <3>2, <4>1, <2>1, <2>6
    <3> QED
      BY <3>1, <3>2
  <2>8. depth' \in [Principals -> Nat]
    BY <2>1, <2>7, ZenonT(30) DEF HeldInv
  <2>9. queued_ids' \subseteq TaskIds
    BY <2>1 DEF HeldInv
  <2> QED
    BY <2>2, <2>7, <2>8, <2>9 DEF HeldInv
<1> QED
  BY <1>2, <1>3

\* A held task leaves queued_ids and the depth counter.
LEMMA ReleaseHeld ==
  ASSUME HeldInv, NEW t, Holding = {t}, ReleaseDepth(t), fq' = fq, Holding' = {}
  PROVE  HeldInv'
<1> DEFINE pr == Owner[t]
<1>1. t \in queued_ids /\ t \in TaskIds /\ pr \in Principals
  BY DispatcherAssumption DEF HeldInv
<1>2. /\ depth' = [depth EXCEPT ![pr] = IF @ > 0 THEN @ - 1 ELSE 0]
      /\ queued_ids' = queued_ids \ {t}
  BY DEF ReleaseDepth
<1>3. ASSUME NEW p \in Principals
      PROVE  /\ Range(fq'.fifos[p]) = QueuedOf(p)'
             /\ IsFiniteSet(QueuedOf(p)')
             /\ depth'[p] = Cardinality(QueuedOf(p)')
             /\ depth'[p] \in Nat
  <2>0. /\ Range(fq.fifos[p]) = QueuedOf(p) \ {t}
        /\ IsFiniteSet(QueuedOf(p)) /\ depth[p] = Cardinality(QueuedOf(p))
        /\ depth \in [Principals -> Nat]
    BY DEF HeldInv
  <2>1. QueuedOf(p)' = QueuedOf(p) \ {t}
    BY <1>2 DEF QueuedOf
  <2>2. CASE p = pr
    <3>1. t \in QueuedOf(p)
      BY <1>1, <2>2 DEF QueuedOf
    <3>2. /\ IsFiniteSet(QueuedOf(p) \ {t})
          /\ Cardinality(QueuedOf(p) \ {t}) = Cardinality(QueuedOf(p)) - 1
      BY <2>0, <3>1, FS_RemoveElement
    <3>3. Cardinality(QueuedOf(p) \ {t}) \in Nat
      BY <3>2, FS_CardinalityType
    <3>4. depth[p] \in Nat
      BY <2>0
    <3>5. depth[p] > 0
      BY <3>2, <3>3, <3>4, <2>0
    <3>6. depth'[p] = IF depth[p] > 0 THEN depth[p] - 1 ELSE 0
      BY <1>2, <2>0, <2>2
    <3> QED
      BY <2>0, <2>1, <3>2, <3>3, <3>5, <3>6
  <2>3. CASE p # pr
    <3>1. t \notin QueuedOf(p)
      BY <2>3 DEF QueuedOf
    <3>2. QueuedOf(p) \ {t} = QueuedOf(p)
      BY <3>1
    <3> QED
      BY <2>0, <2>1, <2>3, <3>2, <1>2
  <2> QED
    BY <2>2, <2>3
<1>4. depth' \in [Principals -> Nat]
  BY <1>2, <1>3, ZenonT(30) DEF HeldInv
<1> QED
  BY <1>2, <1>3, <1>4 DEF HeldInv

\* A task taken from the queue is held.
LEMMA TakeHeld ==
  ASSUME HeldInv, NEW blocked, NEW read, DrainTake(blocked, read)
  PROVE  HeldInv'
<1> DEFINE S == CanTake(blocked)
<1>1. S \subseteq FqPrincipals(fq) /\ S # {}
  BY DEF DrainTake, CanTake, Servable
<1>2. /\ fq' = FqTake(fq, S).fq /\ pc'.task = FqTake(fq, S).task
      /\ pc.step = "drain" /\ pc'.step \in CommitSteps
      /\ queued_ids' = queued_ids /\ depth' = depth
  BY DEF DrainTake, At, CommitSteps
<1> HIDE DEF S
<1>3. PICK i \in 1 .. Len(fq.rotation) : FqTake(fq, S) = Taken(fq, i)
  BY <1>1, TakeFirst, ZenonT(30) DEF HeldInv
<1> DEFINE pr == fq.rotation[i]
           t == Head(fq.fifos[pr])
<1>4. fq' = Taken(fq, i).fq /\ pc'.task = t
  BY <1>2, <1>3 DEF Taken
<1>5. Holding = {} /\ Holding' = {t}
  BY <1>2, <1>4, ZenonT(30) DEF Holding, CommitSteps
<1>6. /\ pr \in Principals /\ fq.fifos[pr] # <<>>
      /\ fq' \in Queues(TaskIds) /\ RotationMatchesFifos(fq')
  BY <1>4, TakenQueue DEF HeldInv
<1>7. /\ fq.fifos \in [Principals -> Seq(TaskIds)]
      /\ fq'.fifos = [fq.fifos EXCEPT ![pr] = Tail(@)]
  BY <1>4, ZenonT(30) DEF HeldInv, Queues, Taken
<1>8. fq.fifos[pr] \in Seq(TaskIds) /\ Once(fq.fifos[pr])
  BY <1>6, <1>7 DEF HeldInv
<1> HIDE DEF pr
<1>9. /\ t \in Range(fq.fifos[pr]) /\ t \in TaskIds
      /\ Once(Tail(fq.fifos[pr]))
      /\ Range(Tail(fq.fifos[pr])) = Range(fq.fifos[pr]) \ {t}
  BY <1>6, <1>8, OnceTail
<1>10. /\ fq'.fifos[pr] = Tail(fq.fifos[pr])
       /\ \A p \in Principals \ {pr} : fq'.fifos[p] = fq.fifos[p]
  BY <1>6, <1>7
<1> HIDE DEF t
<1>11. t \in queued_ids /\ Owner[t] = pr
  BY <1>5, <1>6, <1>9, ZenonT(30) DEF HeldInv, QueuedOf
<1>12. ASSUME NEW p \in Principals
       PROVE  /\ Once(fq'.fifos[p])
              /\ Range(fq'.fifos[p]) = QueuedOf(p) \ {t}
  <2>0. Once(fq.fifos[p]) /\ Range(fq.fifos[p]) = QueuedOf(p)
    BY <1>5 DEF HeldInv
  <2>1. CASE p = pr
    BY <2>0, <2>1, <1>9, <1>10
  <2>2. CASE p # pr
    <3>1. QueuedOf(p) \ {t} = QueuedOf(p)
      BY <2>2, <1>11 DEF QueuedOf
    <3> QED
      BY <2>0, <2>2, <3>1, <1>10
  <2> QED
    BY <2>1, <2>2
<1>13. \A p \in Principals : QueuedOf(p)' = QueuedOf(p)
  BY <1>2 DEF QueuedOf
<1> QED
  BY <1>2, <1>5, <1>6, <1>11, <1>12, <1>13 DEF HeldInv

\* A dispatcher that has just started holds nothing.
LEMMA EmptyHeld ==
  fq = NewFq /\ queued_ids = {} /\ depth = [p \in Principals |-> 0] /\ Holding = {} => HeldInv
<1> SUFFICES ASSUME fq = NewFq, queued_ids = {}, depth = [p \in Principals |-> 0], Holding = {}
             PROVE  HeldInv
  OBVIOUS
<1>1. fq = [rotation |-> <<>>, fifos |-> [p \in Principals |-> <<>>]]
  BY DEF NewFq
<1>2. fq \in Queues(TaskIds) /\ \A p \in Principals : fq.fifos[p] = <<>> /\ Once(fq.fifos[p])
  BY <1>1 DEF Queues, Once
<1>3. fq.rotation = <<>> /\ DOMAIN fq.rotation = {}
  BY <1>1
<1>4. Range(fq.rotation) = {} /\ \A p \in Principals : Range(fq.fifos[p]) = {}
  BY <1>2, <1>3 DEF Range
<1>5. RotationMatchesFifos(fq)
  BY <1>2, <1>3, <1>4 DEF RotationMatchesFifos, FqPrincipals
<1>6. \A p \in Principals : QueuedOf(p) = {}
  BY DEF QueuedOf
<1>7. IsFiniteSet({}) /\ Cardinality({}) = 0
  BY FS_EmptySet
<1> QED
  BY <1>2, <1>4, <1>5, <1>6, <1>7, ZenonT(30) DEF HeldInv

\* A step that leaves the queue and the held task alone.
LEMMA SameHeld ==
  ASSUME HeldInv, fq' = fq, queued_ids' = queued_ids, depth' = depth, Holding' = Holding
  PROVE  HeldInv'
<1>1. \A p \in Principals : QueuedOf(p)' = QueuedOf(p)
  BY DEF QueuedOf
<1> QED
  BY <1>1 DEF HeldInv

\* A new dispatcher.
LEMMA BootHeld ==
  ASSUME Boot
  PROVE  HeldInv'
<1>1. /\ fq' = NewFq /\ queued_ids' = {} /\ depth' = [p \in Principals |-> 0]
      /\ Holding' = {}
  BY DEF Boot, Goto, At, Holding
<1>2. (fq = NewFq /\ queued_ids = {} /\ depth = [p \in Principals |-> 0] /\ Holding = {}
         => HeldInv)'
  BY EmptyHeld, PTL
<1> QED
  BY <1>1, <1>2 DEF NewFq

\* Every step keeps the queue, and the depth counter exact.
LEMMA HeldStep ==
  ASSUME HeldInv, PcOK, [DispatcherNext]_dvars
  PROVE  HeldInv'
<1> USE DEF CommitSteps
<1>1. ASSUME NEW t \in TaskIds, EnqueueCast(t) PROVE HeldInv'
  <2>1. Holding = {} /\ Holding' = {} /\ DoEnqueue(t)
    BY <1>1 DEF EnqueueCast, Holding, Goto, At
  <2> QED
    BY <2>1, EnqueueHeld
<1>2. CASE DrainStep
  <2>1. ASSUME NEW denied, DrainStop(denied) PROVE HeldInv'
    BY <2>1, SameHeld DEF DrainStop, control, Holding, Goto, At
  <2> QED
    BY <1>2, <2>1, TakeHeld DEF DrainStep
<1>3. CASE CommitStep
  <2>1. ASSUME NEW o, ExpireTaken(o) PROVE HeldInv'
    <3>1. Holding = {pc.task} /\ Holding' = {} /\ ReleaseDepth(pc.task) /\ fq' = fq
      BY <2>1 DEF ExpireTaken, Holding, Goto, At
    <3> QED
      BY <3>1, ReleaseHeld
  <2>2. ASSUME NEW n, NEW r, AssignTaken(n, r) PROVE HeldInv'
    <3>1. CASE Legal(pc.task, "assign") /\ Heard(r)
      BY <2>2, <3>1, SameHeld DEF AssignTaken, Holding, At
    <3>2. CASE ~(Legal(pc.task, "assign") /\ Heard(r))
      <4>1. Holding = {pc.task} /\ Holding' = {} /\ ReleaseDepth(pc.task) /\ fq' = fq
        BY <2>2, <3>2 DEF AssignTaken, Holding, Goto, At
      <4> QED
        BY <4>1, ReleaseHeld
    <3> QED
      BY <3>1, <3>2
  <2>3. ASSUME NEW r, StartTaken(r) PROVE HeldInv'
    <3>1. Holding = {pc.task} /\ Holding' = {} /\ ReleaseDepth(pc.task) /\ fq' = fq
      BY <2>3 DEF StartTaken, Holding, Goto, At
    <3> QED
      BY <3>1, ReleaseHeld
  <2> QED
    BY <1>3, <2>1, <2>2, <2>3 DEF CommitStep
<1>4. ASSUME NEW p, WorkerStep(p) PROVE HeldInv'
  <2>1. fq' = fq /\ queued_ids' = queued_ids /\ depth' = depth /\ Holding' = Holding
    BY <1>4 DEF WorkerStep, WorkerSucceeds, WorkerFails, Holding, Goto, At
  <2> QED
    BY <2>1, SameHeld, ZenonT(30)
<1>5. ASSUME NEW t, NEW o, RetryTimer(t, o) PROVE HeldInv'
  BY <1>5, SameHeld, ZenonT(30) DEF RetryTimer, Holding
<1>6. ASSUME NEW read, Sweep(read) PROVE HeldInv'
  <2>1. fq' = fq /\ queued_ids' = queued_ids /\ depth' = depth /\ Holding' = Holding
    BY <1>6 DEF Sweep, control, Holding, At
  <2> QED
    BY <2>1, SameHeld
<1>7. CASE SweepStep
  <2>1. ASSUME NEW t \in TaskIds, NEW r, NEW dlq, SweepOne(t, r, dlq) PROVE HeldInv'
    <3>1. Holding = {} /\ Holding' = {}
      BY <2>1 DEF SweepOne, Holding, PcOK
    <3>2. DoEnqueue(t) \/ (fq' = fq /\ queued_ids' = queued_ids /\ depth' = depth)
      BY <2>1 DEF SweepOne
    <3> QED
      BY <3>1, <3>2, EnqueueHeld, SameHeld
  <2>2. CASE SweepDone
    BY <2>2, SameHeld DEF SweepDone, control, Holding, Goto, At
  <2> QED
    BY <1>7, <2>1, <2>2 DEF SweepStep
<1>8. ASSUME UNCHANGED <<control, pc>> PROVE HeldInv'
  BY <1>8, SameHeld DEF control, Holding
<1>9. CASE DispatcherCrash \/ StoreCrash
  BY <1>9, BootHeld DEF DispatcherCrash, StoreCrash
<1>10. CASE UNCHANGED dvars
  BY <1>10, <1>8 DEF dvars, control
<1>11. ASSUME NEW t, NEW o, Client(t, o) PROVE UNCHANGED <<control, pc>>
  BY <1>11 DEF Client
<1>12. ASSUME NEW t, NEW evict, NEW o, Resubmit(t, evict, o) PROVE UNCHANGED <<control, pc>>
  BY <1>12 DEF Resubmit
<1>13. ASSUME NEW n, NEW o, NEW dlq, NodeDown(n, o, dlq) PROVE UNCHANGED <<control, pc>>
  BY <1>13 DEF NodeDown
<1>14. ASSUME Clock PROVE UNCHANGED <<control, pc>>
  BY <1>14 DEF Clock
<1> QED
  BY <1>1, <1>2, <1>3, <1>4, <1>5, <1>6, <1>7, <1>8, <1>9, <1>10, <1>11, <1>12, <1>13, <1>14
     DEF DispatcherNext

\* ... and the dispatcher at a known step.
LEMMA PcStep ==
  ASSUME HeldInv, PcOK, [DispatcherNext]_dvars
  PROVE  PcOK'
<1> USE DEF CommitSteps
<1>h. Holding' \subseteq TaskIds
  BY HeldStep DEF HeldInv
<1>g. \A s \in {"boot", "idle", "drain", "sweep"}, b \in SUBSET (TaskIds \X States) :
        pc' = At(s, NoId, b) => PcOK'
  BY DEF At, PcOK
<1>e. {} \in SUBSET (TaskIds \X States)
  OBVIOUS
<1>1. ASSUME NEW s \in {"boot", "idle", "drain"}, Goto(s) PROVE PcOK'
  BY <1>1, <1>g, <1>e DEF Goto
<1>2. CASE DrainStep
  <2>1. ASSUME NEW blocked, NEW read, DrainTake(blocked, read) PROVE PcOK'
    <3> DEFINE t == FqTake(fq, CanTake(blocked)).task
    <3>1. \E s \in CommitSteps : pc' = At(s, t, {})
      BY <2>1 DEF DrainTake
    <3> HIDE DEF t
    <3>2. t \in TaskIds
      BY <3>1, <1>h DEF Holding, At
    <3> QED
      BY <3>1, <3>2 DEF At, PcOK
  <2>2. ASSUME NEW denied, DrainStop(denied) PROVE PcOK'
    BY <2>2, <1>1 DEF DrainStop
  <2> QED
    BY <1>2, <2>1, <2>2 DEF DrainStep
<1>3. CASE CommitStep
  <2>1. ASSUME NEW n, NEW r, AssignTaken(n, r) PROVE PcOK'
    <3>1. pc' = At("start", pc.task, {}) \/ Goto("drain")
      BY <2>1 DEF AssignTaken
    <3>2. ASSUME pc' = At("start", pc.task, {}) PROVE PcOK'
      BY <3>2 DEF At, PcOK
    <3> QED
      BY <3>1, <3>2, <1>1
  <2>2. ASSUME NEW o, ExpireTaken(o) PROVE PcOK'
    BY <2>2, <1>1 DEF ExpireTaken
  <2>3. ASSUME NEW r, StartTaken(r) PROVE PcOK'
    BY <2>3, <1>1 DEF StartTaken
  <2> QED
    BY <1>3, <2>1, <2>2, <2>3 DEF CommitStep
<1>4. ASSUME NEW p, WorkerStep(p) PROVE PcOK'
  <2>1. Goto("drain")
    BY <1>4 DEF WorkerStep, WorkerSucceeds, WorkerFails
  <2> QED
    BY <2>1, <1>1, ZenonT(30)
<1>5. ASSUME pc' = pc PROVE PcOK'
  BY <1>5 DEF PcOK
<1>6. ASSUME NEW read, Sweep(read) PROVE PcOK'
  <2>1. Backlog \in SUBSET (TaskIds \X States)
    BY DEF Backlog, InFlightStates, States
  <2>2. pc' = At("sweep", NoId, Backlog) \/ pc' = At("idle", NoId, {})
    BY <1>6 DEF Sweep
  <2> HIDE DEF Backlog
  <2> QED
    BY <2>1, <2>2, <1>g, <1>e
<1>7. CASE SweepStep
  <2>1. ASSUME NEW t, NEW r, NEW dlq, SweepOne(t, r, dlq) PROVE PcOK'
    <3>1. PICK state \in States : pc' = [pc EXCEPT !.backlog = @ \ {<<t, state>>}]
      BY <2>1, ZenonT(30) DEF SweepOne
    <3> QED
      BY <3>1 DEF PcOK
  <2>2. CASE SweepDone
    BY <2>2, <1>1 DEF SweepDone
  <2> QED
    BY <1>7, <2>1, <2>2 DEF SweepStep
<1>8. CASE DispatcherCrash \/ StoreCrash
  BY <1>8, <1>1, ZenonT(30) DEF DispatcherCrash, StoreCrash, Boot
<1>9. ASSUME NEW t, EnqueueCast(t) PROVE PcOK'
  BY <1>9, <1>1 DEF EnqueueCast
<1>10. CASE UNCHANGED dvars
  BY <1>10, <1>5 DEF dvars
<1>11. ASSUME NEW t, NEW o, Client(t, o) \/ RetryTimer(t, o) PROVE pc' = pc
  BY <1>11 DEF Client, RetryTimer
<1>12. ASSUME NEW t, NEW evict, NEW o, Resubmit(t, evict, o) PROVE pc' = pc
  BY <1>12 DEF Resubmit
<1>13. ASSUME NEW n, NEW o, NEW dlq, NodeDown(n, o, dlq) PROVE pc' = pc
  BY <1>13 DEF NodeDown
<1>14. ASSUME Clock PROVE pc' = pc
  BY <1>14 DEF Clock
<1> QED
  BY <1>2, <1>3, <1>4, <1>5, <1>6, <1>7, <1>8, <1>9, <1>10, <1>11, <1>12, <1>13, <1>14
     DEF DispatcherNext

=============================================================================
