---------------------------- MODULE LimitsProofs ----------------------------
(***************************************************************************)
(* What the callers of the task store count: the dispatcher its live       *)
(* workers, the synchronous endpoint the requests it has parked.           *)
(***************************************************************************)
EXTENDS DispatcherInv, SyncWait, FiniteSetTheorems, WellFoundedInduction, TLAPS

\* The provers a leaf that names none is given, in order: the solver again after
\* Zenon, for a leaf whose translation was too slow the first time.
USE SMTT(30), ZenonT(30), SMTT(31), SMTT(32), SMTT(33)

-----------------------------------------------------------------------------
(* Workers and their counters *)

\* The live workers of a principal's tasks.
RunsOf(p) == {w \in Live : Owner[workers[w].task] = p}

\* A nonempty set of naturals has a least element.
LEMMA LowestPid ==
  ASSUME NEW S \in SUBSET Nat, S # {}
  PROVE  \E i \in S : \A j \in S : i <= j
<1> DEFINE R == OpToRel(<, Nat)
<1>1. IsWellFoundedOn(R, Nat)
  BY NatLessThanWellFounded, ZenonT(30)
<1> HIDE DEF R
<1>2. PICK i \in S : \A j \in S : ~(<<j, i>> \in R)
  BY <1>1, WFMin, ZenonT(30)
<1>3. \A j \in S : j < i => <<j, i>> \in R
  BY DEF R, OpToRel
<1>4. \A j \in S : ~(j < i)
  BY <1>2, <1>3, ZenonT(30)
<1>5. \A j \in S : j \in Nat /\ i \in Nat
  OBVIOUS
<1> QED
  BY <1>4, <1>5

\* There are never more than Cap workers.
LEMMA LiveFinite ==
  ASSUME NEW S \in SUBSET Pids
  PROVE  IsFiniteSet(S) /\ Cardinality(S) \in Nat
<1>1. Cap \in Nat
  BY QueueAssumption
<1>2. IsFiniteSet(Pids)
  BY <1>1, FS_Interval DEF Pids
<1> QED
  BY <1>2, FS_Subset, FS_CardinalityType

\* Steps that start and end no worker.
LEMMA SameWork ==
  ASSUME WorkInv, workers' = workers, inflight_wl' = inflight_wl, inflight_pr' = inflight_pr,
         now \in Nat, now' \in Nat, now <= now',
         pc'.step \in CommitSteps => inflight_wl < Cap
  PROVE  WorkInv'
<1>1. Live' = Live
  BY DEF Live
<1>2. \A w \in Live : workers[w].at \in 0 .. now'
  <2>1. \A w \in Live : workers[w].at \in 0 .. now
    BY DEF WorkInv
  <2> QED
    BY <2>1
<1>3. InflightIsExact'
  BY <1>1 DEF WorkInv, InflightIsExact
<1> QED
  BY <1>1, <1>2, <1>3 DEF WorkInv

\* inc_inflight: a started task gets a free slot, and is counted.
LEMMA SpawnWork ==
  ASSUME WorkInv, NEW t \in TaskIds, Spawn(t), inflight_wl < Cap, tasks[t].attempt \in Nat,
         now \in Nat, now' \in Nat, now <= now', pc'.step \notin CommitSteps
  PROVE  WorkInv'
<1> DEFINE Free == Pids \ Live
           pid == CHOOSE p \in Free : \A q \in Free : p <= q
           slot == [task |-> t, at |-> now, attempt |-> tasks[t].attempt]
           pr == Owner[t]
<1>0. Cap \in Nat /\ pr \in Principals /\ now \in Nat /\ tasks[t].attempt \in Nat /\ NoId \notin TaskIds
  BY QueueAssumption, DispatcherAssumption, StoreAssumption
<1>1. /\ workers \in [Pids -> WorkerSlot]
      /\ \A w \in Live : workers[w].task \in TaskIds /\ workers[w].at \in 0 .. now
      /\ inflight_wl \in Nat /\ inflight_pr \in [Principals -> Nat]
      /\ inflight_wl = Cardinality(Live)
      /\ \A p \in Principals : inflight_pr[p] = Cardinality(RunsOf(p))
  BY DEF WorkInv, InflightIsExact, RunsOf
<1>2. Live \in SUBSET Pids /\ IsFiniteSet(Live)
  BY LiveFinite DEF Live
<1>3. Free # {}
  <2>1. Cardinality(Pids) = Cap
    BY <1>0, FS_Interval DEF Pids
  <2>2. Live # Pids
    BY <2>1, <1>0, <1>1
  <2> QED
    BY <2>2, <1>2, ZenonT(30)
<1>4. pid \in Free
  <2>1. Free \in SUBSET Nat
    BY <1>0 DEF Pids
  <2>2. \E p \in Free : \A q \in Free : p <= q
    BY <2>1, <1>3, LowestPid, ZenonT(30)
  <2> QED
    BY <2>2
<1>5. /\ workers' = [workers EXCEPT ![pid] = slot]
      /\ inflight_wl' = inflight_wl + 1
      /\ inflight_pr' = [inflight_pr EXCEPT ![pr] = @ + 1]
  BY DEF Spawn
<1> HIDE DEF pid, Free
<1>6. pid \in Pids /\ pid \notin Live
  BY <1>4 DEF Free
<1>7. slot # NoWorker /\ slot \in WorkerSlot /\ slot.task = t /\ slot.at = now
  BY <1>0 DEF NoWorker, WorkerSlot
<1> HIDE DEF slot
<1>8. workers' \in [Pids -> WorkerSlot]
  BY <1>1, <1>5, <1>7, ZenonT(30)
<1>9. workers'[pid] = slot /\ \A w \in Pids \ {pid} : workers'[w] = workers[w]
  BY <1>1, <1>5, <1>6
<1>10. Live' = Live \cup {pid}
  BY <1>6, <1>7, <1>9 DEF Live
<1>11. \A w \in Live' : workers'[w].task \in TaskIds /\ workers'[w].at \in 0 .. now'
  <2>1. ASSUME NEW w \in Live PROVE workers'[w].task \in TaskIds /\ workers'[w].at \in 0 .. now'
    <3>1. workers'[w] = workers[w]
      BY <1>2, <1>6, <1>9
    <3>2. workers[w].task \in TaskIds /\ workers[w].at \in 0 .. now
      BY <1>1
    <3> QED
      BY <3>1, <3>2, <1>0
  <2>2. workers'[pid].task \in TaskIds /\ workers'[pid].at \in 0 .. now'
    BY <1>0, <1>7, <1>9
  <2> QED
    BY <2>1, <2>2, <1>10
<1>12. inflight_wl' = Cardinality(Live') /\ inflight_wl' \in Nat
  <2>1. Cardinality(Live \cup {pid}) = Cardinality(Live) + 1
    BY <1>2, <1>6, FS_AddElement, ZenonT(30)
  <2> QED
    BY <2>1, <1>1, <1>5, <1>10
<1>13. ASSUME NEW p \in Principals
       PROVE  inflight_pr'[p] = Cardinality(RunsOf(p)') /\ inflight_pr'[p] \in Nat
  <2>1. RunsOf(p) \in SUBSET Pids /\ IsFiniteSet(RunsOf(p)) /\ pid \notin RunsOf(p)
    BY <1>2, <1>6, LiveFinite DEF RunsOf
  <2>2. CASE p = pr
    <3>1. RunsOf(p)' = RunsOf(p) \cup {pid}
      BY <1>2, <1>6, <1>7, <1>9, <1>10, <2>2 DEF RunsOf
    <3>2. Cardinality(RunsOf(p) \cup {pid}) = Cardinality(RunsOf(p)) + 1
      BY <2>1, FS_AddElement, ZenonT(30)
    <3> QED
      BY <3>1, <3>2, <2>2, <1>1, <1>5
  <2>3. CASE p # pr
    <3>1. RunsOf(p)' = RunsOf(p)
      BY <1>2, <1>6, <1>7, <1>9, <1>10, <2>3 DEF RunsOf
    <3> QED
      BY <3>1, <2>3, <1>1, <1>5
  <2> QED
    BY <2>2, <2>3
<1>14. inflight_pr' \in [Principals -> Nat]
  BY <1>1, <1>5, <1>13, ZenonT(30)
<1>15. InflightIsExact'
  BY <1>12, <1>13, ZenonT(30) DEF InflightIsExact, RunsOf
<1> QED
  BY <1>8, <1>11, <1>12, <1>14, <1>15 DEF WorkInv

\* dec_inflight: a finished worker's slot is free, and no longer counted.
LEMMA FinishWork ==
  ASSUME WorkInv, NEW p \in Live, Finished(p), now \in Nat,
         now' \in Nat, now <= now', pc'.step \notin CommitSteps
  PROVE  WorkInv'
<1> DEFINE t == workers[p].task
           pr == Owner[t]
<1>1. /\ workers \in [Pids -> WorkerSlot]
      /\ \A w \in Live : workers[w].task \in TaskIds /\ workers[w].at \in 0 .. now
      /\ inflight_wl \in Nat /\ inflight_pr \in [Principals -> Nat]
      /\ inflight_wl = Cardinality(Live)
      /\ \A q \in Principals : inflight_pr[q] = Cardinality(RunsOf(q))
  BY DEF WorkInv, InflightIsExact, RunsOf
<1>2. t \in TaskIds /\ pr \in Principals
  BY <1>1, DispatcherAssumption
<1>3. Live \in SUBSET Pids /\ IsFiniteSet(Live) /\ p \in Pids
  BY LiveFinite DEF Live
<1>4. /\ workers' = [workers EXCEPT ![p] = NoWorker]
      /\ inflight_wl' = IF inflight_wl > 1 THEN inflight_wl - 1 ELSE 0
      /\ inflight_pr' = [inflight_pr EXCEPT ![pr] = IF @ > 1 THEN @ - 1 ELSE 0]
  BY DEF Finished
<1>5. workers'[p] = NoWorker /\ \A w \in Pids \ {p} : workers'[w] = workers[w]
  BY <1>1, <1>3, <1>4
<1>6. Live' = Live \ {p}
  BY <1>3, <1>5 DEF Live
<1>7. workers' \in [Pids -> WorkerSlot]
  BY <1>1, <1>4, ZenonT(30) DEF NoWorker, WorkerSlot
<1>8. ASSUME NEW w \in Live' PROVE workers'[w].task \in TaskIds /\ workers'[w].at \in 0 .. now'
  <2>1. w \in Live /\ workers'[w] = workers[w]
    BY <1>3, <1>5, <1>6
  <2>2. workers[w].task \in TaskIds /\ workers[w].at \in 0 .. now
    BY <2>1, <1>1
  <2> QED
    BY <2>1, <2>2
<1>9. ASSUME NEW S \in SUBSET Pids, p \in S, NEW c, c = Cardinality(S)
      PROVE  Cardinality(S \ {p}) \in Nat /\ Cardinality(S \ {p}) = IF c > 1 THEN c - 1 ELSE 0
  <2>1. IsFiniteSet(S) /\ Cardinality(S) \in Nat /\ Cardinality(S \ {p}) \in Nat
    BY LiveFinite
  <2>2. Cardinality(S \ {p}) = Cardinality(S) - 1
    BY <2>1, <1>9, FS_RemoveElement, ZenonT(30)
  <2> QED
    BY <2>1, <2>2, <1>9
<1>10. inflight_wl' = Cardinality(Live') /\ inflight_wl' \in Nat
  BY <1>1, <1>3, <1>4, <1>6, <1>9
<1>11. ASSUME NEW q \in Principals
       PROVE  inflight_pr'[q] = Cardinality(RunsOf(q)') /\ inflight_pr'[q] \in Nat
  <2>1. RunsOf(q)' = RunsOf(q) \ {p}
    BY <1>3, <1>5, <1>6 DEF RunsOf
  <2>2. RunsOf(q) \in SUBSET Pids
    BY <1>3 DEF RunsOf
  <2>3. CASE q = pr
    <3>1. p \in RunsOf(q)
      BY <2>3 DEF RunsOf
    <3>2. inflight_pr'[q] = IF inflight_pr[q] > 1 THEN inflight_pr[q] - 1 ELSE 0
      BY <2>3, <1>1, <1>4
    <3>3. inflight_pr[q] = Cardinality(RunsOf(q))
      BY <1>1
    <3> QED
      BY <2>1, <2>2, <3>1, <3>2, <3>3, <1>9
  <2>4. CASE q # pr
    <3>1. RunsOf(q) \ {p} = RunsOf(q)
      BY <2>4 DEF RunsOf
    <3> QED
      BY <2>1, <2>4, <3>1, <1>1, <1>4
  <2> QED
    BY <2>3, <2>4
<1>12. inflight_pr' \in [Principals -> Nat]
  BY <1>1, <1>4, <1>11, ZenonT(30)
<1>13. InflightIsExact'
  BY <1>10, <1>11 DEF InflightIsExact, RunsOf
<1> QED
  BY <1>7, <1>8, <1>10, <1>12, <1>13 DEF WorkInv

\* A dispatcher that has just started has no workers.
LEMMA EmptyWork ==
  (/\ workers = [p \in Pids |-> NoWorker] /\ inflight_wl = 0
   /\ inflight_pr = [p \in Principals |-> 0] /\ pc.step \notin CommitSteps) => WorkInv
<1> SUFFICES ASSUME workers = [p \in Pids |-> NoWorker], inflight_wl = 0,
                    inflight_pr = [p \in Principals |-> 0], pc.step \notin CommitSteps
             PROVE  WorkInv
  OBVIOUS
<1>1. Live = {} /\ \A p \in Principals : RunsOf(p) = {}
  BY DEF Live, RunsOf
<1>2. Cardinality({}) = 0
  BY FS_EmptySet
<1>3. InflightIsExact
  BY <1>1, <1>2 DEF InflightIsExact, RunsOf
<1>4. workers \in [Pids -> WorkerSlot]
  BY DEF NoWorker, WorkerSlot
<1> QED
  BY <1>1, <1>3, <1>4 DEF WorkInv

\* Every step keeps the counters exact.
LEMMA WorkStep ==
  ASSUME HeldInv, PcOK, WorkInv, [DispatcherNext]_dvars,
         now \in Nat, now' \in Nat, now <= now', \A t \in TaskIds : tasks[t].attempt \in Nat
  PROVE  WorkInv'
<1> DEFINE SlotsSame == /\ workers' = workers /\ inflight_wl' = inflight_wl
                        /\ inflight_pr' = inflight_pr
<1>n. now \in Nat /\ now' \in Nat /\ now <= now'
  OBVIOUS
<1>g. ASSUME NEW s \in {"boot", "idle", "drain"}, Goto(s) PROVE pc'.step \notin CommitSteps
  BY <1>g DEF Goto, At, CommitSteps
<1>i. ASSUME SlotsSame, pc'.step \notin CommitSteps PROVE WorkInv'
  BY <1>i, <1>n, SameWork
<1>s. ASSUME SlotsSame, pc' = pc PROVE WorkInv'
  <2>1. pc'.step \in CommitSteps => inflight_wl < Cap
    BY <1>s DEF WorkInv
  <2> QED
    BY <2>1, <1>s, <1>n, SameWork
<1>1. ASSUME NEW t, EnqueueCast(t) PROVE WorkInv'
  BY <1>1, <1>i, <1>g DEF EnqueueCast
<1>2. CASE DrainStep
  <2>1. ASSUME NEW blocked, NEW read, DrainTake(blocked, read) PROVE WorkInv'
    <3>1. SlotsSame /\ CanTake(blocked) # {}
      BY <2>1, ZenonT(30) DEF DrainTake
    <3>2. inflight_wl < Cap
      <4>1. ~(inflight_wl >= Cap)
        BY <3>1 DEF CanTake
      <4>2. inflight_wl \in Nat /\ Cap \in Nat
        BY QueueAssumption DEF WorkInv
      <4> QED
        BY <4>1, <4>2
    <3> QED
      BY <3>1, <3>2, <1>n, SameWork
  <2>2. ASSUME NEW denied, DrainStop(denied) PROVE WorkInv'
    BY <2>2, <1>i, <1>g DEF DrainStop, control
  <2> QED
    BY <1>2, <2>1, <2>2 DEF DrainStep
<1>3. CASE CommitStep
  <2>0. inflight_wl < Cap
    BY <1>3, ZenonT(30) DEF CommitStep, ExpireTaken, AssignTaken, StartTaken, CommitSteps, WorkInv
  <2>1. ASSUME NEW o, ExpireTaken(o) PROVE WorkInv'
    BY <2>0, <2>1, <1>n, SameWork, ZenonT(30) DEF ExpireTaken
  <2>2. ASSUME NEW n, NEW r, AssignTaken(n, r) PROVE WorkInv'
    BY <2>0, <2>2, <1>n, SameWork, ZenonT(30) DEF AssignTaken
  <2>3. ASSUME NEW r, StartTaken(r) PROVE WorkInv'
    <3>1. (Spawn(pc.task) \/ SlotsSame) /\ pc'.step \notin CommitSteps
      BY <2>3, <1>g, ZenonT(30) DEF StartTaken
    <3>2. pc.task \in TaskIds
      BY <2>3, ZenonT(30) DEF StartTaken, HeldInv, Holding
    <3>3. tasks[pc.task].attempt \in Nat
      BY <3>2, ZenonT(30)
    <3>4. CASE Spawn(pc.task)
      BY <2>0, <3>1, <3>2, <3>3, <3>4, <1>n, SpawnWork
    <3> QED
      BY <3>1, <3>4, <1>i, ZenonT(30)
  <2> QED
    BY <1>3, <2>1, <2>2, <2>3, ZenonT(30) DEF CommitStep
<1>4. ASSUME NEW p, WorkerStep(p) PROVE WorkInv'
  <2>1. p \in Live /\ Finished(p) /\ pc'.step \notin CommitSteps
    BY <1>4, <1>g DEF WorkerStep, WorkerSucceeds, WorkerFails
  <2> QED
    BY <2>1, <1>n, FinishWork
<1>5. ASSUME NEW t, NEW o, RetryTimer(t, o) PROVE WorkInv'
  BY <1>5, <1>s DEF RetryTimer
<1>6. ASSUME NEW read, Sweep(read) PROVE WorkInv'
  BY <1>6, <1>i, ZenonT(30) DEF Sweep, control, At, CommitSteps
<1>7. CASE SweepStep
  <2>1. ASSUME NEW t, NEW r, NEW dlq, SweepOne(t, r, dlq) PROVE WorkInv'
    <3>1. SlotsSame /\ pc'.step = "sweep"
      BY <2>1 DEF SweepOne, PcOK
    <3> QED
      BY <3>1, <1>i DEF CommitSteps
  <2>2. CASE SweepDone
    BY <2>2, <1>i, <1>g DEF SweepDone, control
  <2> QED
    BY <1>7, <2>1, <2>2 DEF SweepStep
<1>8. ASSUME UNCHANGED <<control, pc>> PROVE WorkInv'
  BY <1>8, <1>s DEF control
<1>9. CASE DispatcherCrash \/ StoreCrash
  <2>1. /\ workers' = [p \in Pids |-> NoWorker] /\ inflight_wl' = 0
        /\ inflight_pr' = [p \in Principals |-> 0] /\ pc'.step \notin CommitSteps
    BY <1>9, <1>g, ZenonT(30) DEF DispatcherCrash, StoreCrash, Boot
  <2>2. ((/\ workers = [p \in Pids |-> NoWorker] /\ inflight_wl = 0
          /\ inflight_pr = [p \in Principals |-> 0] /\ pc.step \notin CommitSteps) => WorkInv)'
    BY EmptyWork, PTL
  <2> QED
    BY <2>1, <2>2 DEF Pids, NoWorker, CommitSteps
<1>10. CASE UNCHANGED dvars
  BY <1>10, <1>8 DEF dvars
<1>11. ASSUME NEW t, NEW o, Client(t, o) PROVE UNCHANGED <<control, pc>>
  BY <1>11 DEF Client
<1>12. ASSUME NEW t, NEW evict, NEW o, Resubmit(t, evict, o) PROVE UNCHANGED <<control, pc>>
  BY <1>12 DEF Resubmit
<1>13. ASSUME NEW n, NEW o, NEW dlq, NodeDown(n, o, dlq) PROVE UNCHANGED <<control, pc>>
  BY <1>13 DEF NodeDown
<1>14. ASSUME Clock PROVE UNCHANGED <<control, pc>>
  BY <1>14, ZenonT(30) DEF Clock
<1> QED
  BY <1>1, <1>2, <1>3, <1>4, <1>5, <1>6, <1>7, <1>8, <1>9, <1>10, <1>11, <1>12, <1>13, <1>14
     DEF DispatcherNext

-----------------------------------------------------------------------------
(* The synchronous waiters *)

\* A request knows its task for as long as it is not idle.
WaitInv ==
  /\ WaitTypeOK
  /\ \A w \in Waiters : step[w] # "idle" => awaited[w] \in TaskIds

\* Sets of request processes are finite.
LEMMA WaitersFinite ==
  ASSUME NEW S \in SUBSET Waiters
  PROVE  IsFiniteSet(S) /\ Cardinality(S) \in Nat
BY WaitAssumption, FS_Subset, FS_CardinalityType

\* Fewer processes count no more.
LEMMA FewerWaiters ==
  ASSUME NEW S \in SUBSET Waiters, NEW T \in SUBSET S
  PROVE  Cardinality(T) <= Cardinality(S)
BY WaitersFinite, FS_Subset

\* Every step keeps the types.
LEMMA WaitTypeStep == WaitInv /\ [WaitNext]_wvars => WaitInv'
<1> SUFFICES ASSUME WaitInv, [WaitNext]_wvars PROVE WaitInv'
  OBVIOUS
<1> USE DEF WaitInv, WaitTypeOK
<1>c. \A w \in Waiters : Caller[w] \in Callers
  BY WaitAssumption
<1>n. ParkCap \in Nat /\ CrashBound \in Nat
  BY WaitAssumption
<1>l. \A c \in Callers : Lowered(c, 1) \in [Callers -> Nat]
  BY DEF Lowered
<1>1. ASSUME NEW w \in Waiters, NEW t \in TaskIds, Request(w, t) PROVE WaitInv'
  BY <1>1 DEF Request, Proceed
<1>2. ASSUME NEW w \in Waiters, Reserve(w) PROVE WaitInv'
  BY <1>2, <1>c DEF Reserve, Proceed
<1>3. ASSUME NEW w \in Waiters, Rollback(w) \/ Release(w) PROVE WaitInv'
  BY <1>3, <1>c, <1>l, ZenonT(30) DEF Rollback, Release, Proceed
<1>4. ASSUME NEW w \in Waiters, Register(w) \/ Check(w) \/ Timeout(w) \/ Respond(w) PROVE WaitInv'
  BY <1>4 DEF Register, Check, Timeout, Respond, Proceed
<1>5. ASSUME NEW w \in Waiters, Unregister(w) PROVE WaitInv'
  BY <1>5 DEF Unregister, Proceed
<1>6. ASSUME NEW w \in Waiters, Wake(w) PROVE WaitInv'
  BY <1>6 DEF Wake, Proceed
<1>7. ASSUME StoreStep PROVE WaitInv'
  <2>1. UNCHANGED <<step, awaited, counts, crashes>>
    BY <1>7 DEF StoreStep
  <2>2. mailbox' = [w \in Waiters |->
                      IF w \in Registered
                      THEN mailbox[w] \cup ({awaited[w]} \X Notified(awaited[w]))
                      ELSE mailbox[w]]
    BY <1>7 DEF StoreStep
  <2>3. \A t : Notified(t) \subseteq TerminalStates
    BY DEF Notified, TerminalStates
  <2>4. \A w \in Registered : awaited[w] \in TaskIds
    BY DEF Registered
  <2>5. mailbox' \in [Waiters -> SUBSET (TaskIds \X TerminalStates)]
    BY <2>2, <2>3, <2>4
  <2> QED
    BY <2>1, <2>5
<1>8. ASSUME Stopped, counts' \in [Callers -> Nat] PROVE WaitInv'
  BY <1>8, <1>n DEF Stopped
<1>9. ASSUME NEW g \in SUBSET Waiters, StoreRestart(g) PROVE WaitInv'
  <2>1. \A c \in Callers : Cardinality(g \cap Holders(c)) \in Nat
    BY WaitersFinite DEF Holders
  <2> QED
    BY <2>1, <1>8, <1>9 DEF StoreRestart
<1>10. ASSUME OwnerCrash PROVE WaitInv'
  BY <1>8, <1>10 DEF OwnerCrash
<1>11. CASE UNCHANGED wvars
  BY <1>11 DEF wvars, waiting
<1> QED
  BY <1>1, <1>2, <1>3, <1>4, <1>5, <1>6, <1>7, <1>9, <1>10, <1>11, ZenonT(30) DEF WaitNext

\* The types hold in every reachable state.
THEOREM WaitTyped == WaitSpec => []WaitTypeOK
<1>1. WaitInit => WaitInv
  BY WaitAssumption DEF WaitInit, WaitInv, WaitTypeOK
<1>2. WaitInv /\ [WaitNext]_wvars => WaitInv'
  BY WaitTypeStep
<1>3. WaitInv => WaitTypeOK
  BY DEF WaitInv
<1> QED
  BY <1>1, <1>2, <1>3, PTL DEF WaitSpec

\* The processes the counter of c counts for sure.
Counted(c) == Holders(c) \cup RollingBack(c)

\* Steps that neither take nor give back a slot.
LEMMA SlotsStay ==
  ASSUME ParkCapHolds, UNCHANGED counts,
         \A c \in Callers : Holders(c)' = Holders(c) /\ RollingBack(c)' = RollingBack(c)
  PROVE  ParkCapHolds'
BY DEF ParkCapHolds

\* reserve: the increment that passes the cap test adds the process it counts.
LEMMA ReserveKeepsCap ==
  ASSUME WaitInv, ParkCapHolds, NEW w \in Waiters, Reserve(w)
  PROVE  ParkCapHolds'
<1> DEFINE c == Caller[w]
<1>1. c \in Callers /\ ParkCap \in Nat /\ counts \in [Callers -> Nat] /\ counts[c] \in Nat
  BY WaitAssumption DEF WaitInv, WaitTypeOK
<1>2. /\ step[w] = "reserve" /\ counts' = [counts EXCEPT ![c] = @ + 1]
      /\ step' = [step EXCEPT ![w] = IF counts[c] + 1 > ParkCap THEN "rollback" ELSE "register"]
      /\ step \in [Waiters -> {"idle", "reserve", "rollback", "register", "check", "parked",
                               "unregister", "leave", "respond", "release"}]
  BY DEF Reserve, Proceed, WaitInv, WaitTypeOK
<1>3. ASSUME NEW d \in Callers, d # c
      PROVE  /\ Cardinality(Holders(d)') <= ParkCap
             /\ counts'[d] >= Cardinality(Holders(d)' \cup RollingBack(d)')
  <2>1. Holders(d)' = Holders(d) /\ RollingBack(d)' = RollingBack(d) /\ counts'[d] = counts[d]
    BY <1>1, <1>2, <1>3 DEF Holders, RollingBack
  <2> QED
    BY <2>1 DEF ParkCapHolds
<1>4. Counted(c) \in SUBSET Waiters /\ Holders(c) \in SUBSET Waiters
        /\ Holders(c)' \in SUBSET Waiters /\ Counted(c)' \in SUBSET Waiters
  BY DEF Counted, Holders, RollingBack
<1>5. Counted(c)' = Counted(c) \cup {w} /\ w \notin Counted(c)
  BY <1>2 DEF Counted, Holders, RollingBack
<1>6. Cardinality(Counted(c)') = Cardinality(Counted(c)) + 1
  BY <1>4, <1>5, WaitersFinite, FS_AddElement
<1>7. Cardinality(Counted(c)) \in Nat /\ Cardinality(Counted(c)) <= counts[c]
        /\ Cardinality(Holders(c)) \in Nat /\ Cardinality(Holders(c)') \in Nat
        /\ Cardinality(Counted(c)') \in Nat
  BY <1>1, <1>4, WaitersFinite DEF ParkCapHolds, Counted
<1>8. counts'[c] = counts[c] + 1
  BY <1>1, <1>2
<1>9. counts'[c] >= Cardinality(Counted(c)')
  BY <1>1, <1>6, <1>7, <1>8
<1>10. Cardinality(Holders(c)') <= ParkCap
  <2>1. CASE counts[c] + 1 > ParkCap
    <3>1. Holders(c)' = Holders(c)
      BY <1>2, <2>1 DEF Holders
    <3> QED
      BY <3>1, <1>1, ZenonT(30) DEF ParkCapHolds
  <2>2. CASE ~(counts[c] + 1 > ParkCap)
    <3>1. Holders(c)' \in SUBSET Counted(c)'
      BY DEF Counted
    <3>2. Cardinality(Holders(c)') <= Cardinality(Counted(c)')
      BY <3>1, <1>4, FewerWaiters
    <3> QED
      BY <3>2, <2>2, <1>1, <1>7, <1>8, <1>9
  <2> QED
    BY <2>1, <2>2
<1> HIDE DEF c
<1> QED
  BY <1>1, <1>3, <1>9, <1>10, ZenonT(30) DEF ParkCapHolds, Counted

\* A rollback or a release gives back one slot, and its process counts no more.
LEMMA LowerKeepsCap ==
  ASSUME WaitInv, ParkCapHolds, NEW w \in Waiters, Rollback(w) \/ Release(w)
  PROVE  ParkCapHolds'
<1> DEFINE c == Caller[w]
<1>1. c \in Callers /\ ParkCap \in Nat /\ counts \in [Callers -> Nat] /\ counts[c] \in Nat
  BY WaitAssumption DEF WaitInv, WaitTypeOK
<1>2. /\ step[w] \in {"rollback", "release"}
      /\ counts' = [counts EXCEPT ![c] = IF @ > 1 THEN @ - 1 ELSE 0]
      /\ step' = [step EXCEPT ![w] = "idle"]
      /\ step \in [Waiters -> {"idle", "reserve", "rollback", "register", "check", "parked",
                               "unregister", "leave", "respond", "release"}]
  BY DEF Rollback, Release, Proceed, Lowered, WaitInv, WaitTypeOK
<1>3. ASSUME NEW d \in Callers, d # c
      PROVE  /\ Cardinality(Holders(d)') <= ParkCap
             /\ counts'[d] >= Cardinality(Holders(d)' \cup RollingBack(d)')
  <2>1. Holders(d)' = Holders(d) /\ RollingBack(d)' = RollingBack(d) /\ counts'[d] = counts[d]
    BY <1>1, <1>2, <1>3 DEF Holders, RollingBack
  <2> QED
    BY <2>1 DEF ParkCapHolds
<1>4. Counted(c) \in SUBSET Waiters /\ Holders(c) \in SUBSET Waiters
        /\ Holders(c)' \in SUBSET Holders(c)
  BY <1>2 DEF Counted, Holders, RollingBack
<1>5. Counted(c)' = Counted(c) \ {w} /\ w \in Counted(c)
  BY <1>2 DEF Counted, Holders, RollingBack
<1>6. Cardinality(Counted(c)') = Cardinality(Counted(c)) - 1
  BY <1>4, <1>5, WaitersFinite, FS_RemoveElement
<1>7. Cardinality(Counted(c)) \in Nat /\ Cardinality(Counted(c)) <= counts[c]
        /\ Cardinality(Holders(c)) \in Nat /\ Cardinality(Holders(c)') \in Nat
        /\ Cardinality(Holders(c)) <= ParkCap
  BY <1>1, <1>4, WaitersFinite DEF ParkCapHolds, Counted
<1>8. counts'[c] = IF counts[c] > 1 THEN counts[c] - 1 ELSE 0
  BY <1>1, <1>2
<1>9. counts'[c] >= Cardinality(Counted(c)')
  BY <1>1, <1>6, <1>7, <1>8
<1>10. Cardinality(Holders(c)') <= ParkCap
  <2>1. Cardinality(Holders(c)') <= Cardinality(Holders(c))
    BY <1>4, FewerWaiters
  <2> QED
    BY <2>1, <1>1, <1>7
<1> HIDE DEF c
<1> QED
  BY <1>1, <1>3, <1>9, <1>10, ZenonT(30) DEF ParkCapHolds, Counted

\* A crash leaves nobody parked.
LEMMA CrashKeepsCap ==
  ASSUME WaitInv, Stopped, counts' \in [Callers -> Nat]
  PROVE  ParkCapHolds'
<1>1. \A c \in Callers : Holders(c)' = {} /\ RollingBack(c)' = {}
  BY DEF Stopped, Holders, RollingBack
<1>2. Cardinality({}) = 0 /\ {} \cup {} = {} /\ ParkCap \in Nat
  BY FS_EmptySet, WaitAssumption
<1> QED
  BY <1>1, <1>2 DEF ParkCapHolds

\* Every step keeps the cap.
LEMMA ParkCapStep == WaitInv /\ ParkCapHolds /\ [WaitNext]_wvars => ParkCapHolds'
<1> SUFFICES ASSUME WaitInv, ParkCapHolds, [WaitNext]_wvars PROVE ParkCapHolds'
  OBVIOUS
<1>t. step \in [Waiters -> {"idle", "reserve", "rollback", "register", "check", "parked",
                            "unregister", "leave", "respond", "release"}]
  BY DEF WaitInv, WaitTypeOK
<1>1. ASSUME NEW w \in Waiters, NEW t \in TaskIds, Request(w, t) PROVE ParkCapHolds'
  BY <1>1, <1>t, SlotsStay DEF Request, Proceed, Holders, RollingBack
<1>2. ASSUME NEW w \in Waiters, Reserve(w) PROVE ParkCapHolds'
  BY <1>2, ReserveKeepsCap
<1>3. ASSUME NEW w \in Waiters, Rollback(w) \/ Release(w) PROVE ParkCapHolds'
  BY <1>3, LowerKeepsCap
<1>4. ASSUME NEW w \in Waiters,
             Register(w) \/ Check(w) \/ Timeout(w) \/ Respond(w) \/ Unregister(w) \/ Wake(w)
      PROVE  ParkCapHolds'
  <2>1. /\ counts' = counts
        /\ \E s \in {"check", "parked", "unregister", "leave", "respond", "release"} :
             step' = [step EXCEPT ![w] = s]
        /\ step[w] \in {"register", "check", "parked", "unregister", "leave", "respond"}
    BY <1>4 DEF Register, Check, Timeout, Respond, Unregister, Wake, Proceed
  <2> QED
    BY <2>1, <1>t, SlotsStay DEF Holders, RollingBack
<1>5. ASSUME StoreStep PROVE ParkCapHolds'
  BY <1>5, SlotsStay, ZenonT(30) DEF StoreStep, Holders, RollingBack
<1>6. ASSUME NEW g \in SUBSET Waiters, StoreRestart(g) PROVE ParkCapHolds'
  <2>1. WaitInv'
    BY <1>6, WaitTypeStep DEF WaitNext
  <2> QED
    BY <2>1, <1>6, CrashKeepsCap DEF StoreRestart, WaitInv, WaitTypeOK
<1>7. ASSUME OwnerCrash PROVE ParkCapHolds'
  BY <1>7, CrashKeepsCap DEF OwnerCrash
<1>8. CASE UNCHANGED wvars
  BY <1>8, SlotsStay DEF wvars, waiting, Holders, RollingBack
<1> QED
  BY <1>1, <1>2, <1>3, <1>4, <1>5, <1>6, <1>7, <1>8 DEF WaitNext

\* A principal never parks more than its cap, however increments, rollbacks and
\* crashes interleave.
THEOREM ParkCapSafe == WaitSpec => []ParkCapHolds
<1>1. WaitInit => WaitInv /\ ParkCapHolds
  <2> SUFFICES ASSUME WaitInit PROVE WaitInv /\ ParkCapHolds
    OBVIOUS
  <2>1. WaitInv
    BY WaitAssumption DEF WaitInit, WaitInv, WaitTypeOK
  <2>2. \A c \in Callers : Holders(c) = {} /\ RollingBack(c) = {} /\ counts[c] = 0
    BY DEF WaitInit, Holders, RollingBack
  <2>3. Cardinality({}) = 0 /\ {} \cup {} = {} /\ ParkCap \in Nat
    BY FS_EmptySet, WaitAssumption
  <2>4. ParkCapHolds
    BY <2>2, <2>3 DEF ParkCapHolds
  <2> QED
    BY <2>1, <2>4
<1>2. WaitInv /\ [WaitNext]_wvars => WaitInv'
  BY WaitTypeStep
<1>3. WaitInv /\ ParkCapHolds /\ [WaitNext]_wvars => ParkCapHolds'
  BY ParkCapStep
<1> QED
  BY <1>1, <1>2, <1>3, PTL DEF WaitSpec

\* No step leaves a process parked on a terminal task without its message.
LEMMA WakeStep == WaitInv /\ NoMissedWake /\ [WaitNext]_wvars => NoMissedWake'
<1> SUFFICES ASSUME WaitInv, NoMissedWake, [WaitNext]_wvars PROVE NoMissedWake'
  OBVIOUS
<1>t. /\ step \in [Waiters -> {"idle", "reserve", "rollback", "register", "check", "parked",
                               "unregister", "leave", "respond", "release"}]
      /\ awaited \in [Waiters -> TaskIds \cup {NoId}]
      /\ mailbox \in [Waiters -> SUBSET (TaskIds \X TerminalStates)]
  BY DEF WaitInv, WaitTypeOK
<1>1. ASSUME NEW w \in Waiters, NEW t \in TaskIds, Request(w, t) PROVE NoMissedWake'
  BY <1>1, <1>t, ZenonT(30) DEF Request, Proceed, NoMissedWake, vars
<1>2. ASSUME NEW w \in Waiters,
             \/ Reserve(w)
             \/ Rollback(w)
             \/ Release(w)
             \/ Register(w)
             \/ Timeout(w)
             \/ Respond(w)
             \/ Unregister(w)
      PROVE  NoMissedWake'
  <2>1. /\ UNCHANGED <<tasks, awaited, mailbox>>
        /\ \E s \in {"idle", "rollback", "register", "check", "leave", "respond", "release"} :
             step' = [step EXCEPT ![w] = s]
    BY <1>2, ZenonT(30) DEF Reserve, Rollback, Release, Register, Timeout, Respond, Unregister, Proceed, vars
  <2> QED
    BY <2>1, <1>t DEF NoMissedWake
<1>3. ASSUME NEW w \in Waiters, Check(w) PROVE NoMissedWake'
  BY <1>3, <1>t, ZenonT(30) DEF Check, Proceed, NoMissedWake, vars
<1>4. ASSUME NEW w \in Waiters, Wake(w) PROVE NoMissedWake'
  BY <1>4, <1>t DEF Wake, Proceed, NoMissedWake, vars
<1>5. ASSUME StoreStep PROVE NoMissedWake'
  <2> SUFFICES ASSUME NEW w \in Waiters, step'[w] = "parked",
                      tasks'[awaited'[w]].state \in TerminalStates
               PROVE  \E m \in mailbox'[w] : m[1] = awaited'[w]
    BY DEF NoMissedWake
  <2>1. step[w] = "parked" /\ awaited'[w] = awaited[w] /\ w \in Registered
    BY <1>5, ZenonT(30) DEF StoreStep, Registered
  <2>2. mailbox'[w] = mailbox[w] \cup ({awaited[w]} \X Notified(awaited[w]))
    BY <1>5, <2>1, ZenonT(30) DEF StoreStep
  <2>3. CASE tasks[awaited[w]].state \in TerminalStates
    BY <2>1, <2>2, <2>3, ZenonT(30) DEF NoMissedWake
  <2>4. CASE tasks[awaited[w]].state \notin TerminalStates
    <3>1. PICK s : s \in Notified(awaited[w])
      <4>1. tasks'[awaited[w]].state # tasks[awaited[w]].state
        BY <2>1, <2>4
      <4>2. tasks'[awaited[w]].state \in TerminalStates
        BY <2>1
      <4> QED
        BY <4>1, <4>2 DEF Notified
    <3>2. <<awaited[w], s>> \in mailbox'[w] /\ <<awaited[w], s>>[1] = awaited'[w]
      BY <3>1, <2>1, <2>2
    <3> QED
      BY <3>2
  <2> QED
    BY <2>3, <2>4
<1>6. ASSUME Stopped PROVE NoMissedWake'
  BY <1>6 DEF Stopped, NoMissedWake
<1>7. CASE UNCHANGED wvars
  BY <1>7 DEF wvars, vars, waiting, NoMissedWake
<1> QED
  BY <1>1, <1>2, <1>3, <1>4, <1>5, <1>6, <1>7 DEF WaitNext, StoreRestart, OwnerCrash

\* await: a task that ends between the registration, the check and the park always
\* leaves the message that wakes the request.
THEOREM WakeSafe == WaitSpec => []NoMissedWake
<1>1. WaitInit => WaitInv /\ NoMissedWake
  BY WaitAssumption DEF WaitInit, WaitInv, WaitTypeOK, NoMissedWake
<1>2. WaitInv /\ [WaitNext]_wvars => WaitInv'
  BY WaitTypeStep
<1>3. WaitInv /\ NoMissedWake /\ [WaitNext]_wvars => NoMissedWake'
  BY WakeStep
<1> QED
  BY <1>1, <1>2, <1>3, PTL DEF WaitSpec

\* The waiters' store steps are steps of the store.
LEMMA WaitCalls ==
  ASSUME IInv, [WaitNext]_wvars
  PROVE  [Next]_vars
<1>0. now \in 0 .. now
  BY DEF IInv, StoreInv
<1>1. ASSUME StoreStep PROVE Next
  <2>1. ASSUME NEW t \in TaskIds, NEW o \in Outcomes, Succeed(t, now, o) PROVE Next
    <3>1. \E dispatched \in 0 .. now : Succeed(t, dispatched, o)
      BY <1>0, <2>1
    <3> QED
      BY <3>1 DEF Next
  <2>2. CASE \E t \in TaskIds, o \in Outcomes :
               \/ \E k \in SubmitKeys, d \in Deadlines : SubmitFresh(t, k, d, o)
               \/ \E n \in Nodes : Assign(t, n, o)
               \/ Start(t, o)
               \/ \E reason \in Reported, dlq \in Outcomes : Fail(t, reason, o, dlq)
               \/ RetryTask(t, o)
               \/ Redrive(t, o)
               \/ Expire(t, o)
    BY <2>2 DEF Next
  <2>3. CASE \E n \in Nodes, o, dlq \in [TaskIds -> Outcomes] : ReassignInFlight(n, o, dlq)
    BY <2>3 DEF Next
  <2> QED
    BY <1>1, <2>1, <2>2, <2>3, ZenonT(30) DEF StoreStep
<1>2. ASSUME NEW g, StoreRestart(g) \/ OwnerCrash PROVE Next
  BY <1>2 DEF StoreRestart, OwnerCrash, Next
<1>3. ASSUME NEW w, NEW t, Request(w, t) PROVE UNCHANGED vars
  BY <1>3 DEF Request
<1>4. ASSUME NEW w,
             \/ Reserve(w) \/ Rollback(w) \/ Register(w) \/ Check(w) \/ Wake(w)
             \/ Timeout(w) \/ Unregister(w) \/ Respond(w) \/ Release(w)
      PROVE  UNCHANGED vars
  BY <1>4 DEF Reserve, Rollback, Register, Check, Wake, Timeout, Unregister, Respond, Release
<1>5. CASE UNCHANGED wvars
  BY <1>5 DEF wvars
<1> QED
  BY <1>1, <1>2, <1>3, <1>4, <1>5 DEF WaitNext

=============================================================================
