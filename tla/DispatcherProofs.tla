-------------------------- MODULE DispatcherProofs --------------------------
(***************************************************************************)
(* The dispatcher against the store: it calls the store only as the        *)
(* store's specification allows, and its timers and workers belong to the  *)
(* states of their tasks.  Every lemma takes the invariant of              *)
(* DispatcherInv for granted; StoreCallersProofs concludes.                *)
(***************************************************************************)
EXTENDS DispatcherInv, TLAPS

\* The provers a leaf that names none is given, in order: the solver again after
\* Zenon, for a leaf whose translation was too slow the first time.
USE SMTT(30), ZenonT(30), SMTT(31), SMTT(32), SMTT(33)

-----------------------------------------------------------------------------
(* The dispatcher as a caller of the store *)

\* A call's append has one of the store's outcomes.
LEMMA AppendOutcome ==
  ASSUME NEW r \in Replies
  PROVE  AppendOf(r) \in Outcomes
BY DEF Replies, AppendOf, Outcomes

\* A commit calls the store as its specification allows, or not at all.
LEMMA CommitCalls ==
  ASSUME CommitStep, pc.task \in TaskIds
  PROVE  Next \/ UNCHANGED vars
<1>1. ASSUME NEW o \in Outcomes, ExpireTaken(o) PROVE Next \/ UNCHANGED vars
  <2>1. Expire(pc.task, o) \/ UNCHANGED vars
    BY <1>1 DEF ExpireTaken
  <2> QED
    BY <2>1 DEF Next
<1>2. ASSUME NEW n \in Nodes, NEW r \in Replies, AssignTaken(n, r) PROVE Next \/ UNCHANGED vars
  <2>1. Assign(pc.task, n, AppendOf(r)) \/ UNCHANGED vars
    BY <1>2 DEF AssignTaken
  <2> QED
    BY <2>1, AppendOutcome DEF Next
<1>3. ASSUME NEW r \in Replies, StartTaken(r) PROVE Next \/ UNCHANGED vars
  <2>1. Start(pc.task, AppendOf(r)) \/ UNCHANGED vars
    BY <1>3 DEF StartTaken
  <2> QED
    BY <2>1, AppendOutcome DEF Next
<1> QED
  BY <1>1, <1>2, <1>3 DEF CommitStep

\* So does apply_failure.
LEMMA FailCalls ==
  ASSUME NEW t \in TaskIds, NEW reason \in Reported, NEW r \in Replies, NEW dlq \in Outcomes,
         FailCall(t, reason, r, dlq)
  PROVE  Next \/ UNCHANGED vars
<1>1. Fail(t, reason, AppendOf(r), dlq) \/ UNCHANGED vars
  BY DEF FailCall
<1> QED
  BY <1>1, AppendOutcome DEF Next

\* So does a retry.
LEMMA RetryCalls ==
  ASSUME NEW t \in TaskIds, NEW o \in Outcomes, RetryCall(t, o)
  PROVE  Next \/ UNCHANGED vars
<1>1. RetryTask(t, o) \/ UNCHANGED vars
  BY DEF RetryCall
<1> QED
  BY <1>1 DEF Next

\* So does a worker's report.
LEMMA WorkerCalls ==
  ASSUME WorkInv, NEW p \in Pids, WorkerStep(p)
  PROVE  Next \/ UNCHANGED vars
<1>1. PICK r \in Replies :
        \/ WorkerSucceeds(p, r)
        \/ \E reason \in Reported, dlq \in Outcomes : WorkerFails(p, reason, r, dlq)
  BY DEF WorkerStep
<1>2. AppendOf(r) \in Outcomes
  BY AppendOutcome
<1>3. CASE WorkerSucceeds(p, r)
  <2>1. p \in Live /\ (Succeed(workers[p].task, workers[p].at, AppendOf(r)) \/ UNCHANGED vars)
    BY <1>3 DEF WorkerSucceeds
  <2>2. workers[p].task \in TaskIds /\ workers[p].at \in 0 .. now
    BY <2>1 DEF WorkInv
  <2> QED
    BY <2>1, <2>2, <1>2 DEF Next
<1>4. ASSUME NEW reason \in Reported, NEW dlq \in Outcomes, WorkerFails(p, reason, r, dlq)
      PROVE  Next \/ UNCHANGED vars
  <2>1. p \in Live /\ FailCall(workers[p].task, reason, r, dlq)
    BY <1>4 DEF WorkerFails
  <2>2. workers[p].task \in TaskIds
    BY <2>1 DEF WorkInv
  <2> QED
    BY <2>1, <2>2, FailCalls
<1> QED
  BY <1>1, <1>3, <1>4

\* Every step of the composition is a step of the store, or leaves it alone.
LEMMA StoreCalls ==
  ASSUME HeldInv, WorkInv, [DispatcherNext]_dvars
  PROVE  [Next]_vars
<1> SUFFICES Next \/ UNCHANGED vars
  OBVIOUS
<1>1. ASSUME NEW t, EnqueueCast(t) PROVE UNCHANGED vars
  BY <1>1 DEF EnqueueCast
<1>2. ASSUME DrainStep PROVE UNCHANGED vars
  BY <1>2 DEF DrainStep, DrainStop, DrainTake
<1>3. CASE CommitStep
  <2>1. pc.step \in CommitSteps
    BY <1>3 DEF CommitStep, ExpireTaken, AssignTaken, StartTaken, CommitSteps
  <2>2. pc.task \in TaskIds
    BY <2>1 DEF HeldInv, Holding, CommitSteps
  <2> QED
    BY <1>3, <2>2, CommitCalls
<1>5. ASSUME NEW t \in TaskIds, NEW o \in Outcomes, RetryTimer(t, o) PROVE Next \/ UNCHANGED vars
  BY <1>5, RetryCalls DEF RetryTimer
<1>6. ASSUME NEW read, Sweep(read) PROVE UNCHANGED vars
  BY <1>6 DEF Sweep
<1>7. CASE SweepStep
  <2>1. ASSUME NEW t \in TaskIds, NEW r \in Replies, NEW dlq \in Outcomes, SweepOne(t, r, dlq)
        PROVE  Next \/ UNCHANGED vars
    <3>1. UNCHANGED vars \/ RetryCall(t, AppendOf(r)) \/ FailCall(t, "transport", r, dlq)
      BY <2>1 DEF SweepOne
    <3>2. AppendOf(r) \in Outcomes /\ "transport" \in Reported
      BY AppendOutcome, DispatcherAssumption
    <3> QED
      BY <3>1, <3>2, RetryCalls, FailCalls
  <2>2. ASSUME SweepDone PROVE UNCHANGED vars
    BY <2>2 DEF SweepDone
  <2> QED
    BY <1>7, <2>1, <2>2 DEF SweepStep
<1>8. ASSUME NEW t \in TaskIds, NEW o \in Outcomes, Client(t, o) PROVE Next
  <2>1. ASSUME NEW k \in SubmitKeys, NEW d \in Deadlines, SubmitFresh(t, k, d, o) PROVE Next
    BY <2>1 DEF Next
  <2>2. ASSUME NEW k \in SubmitKeys \ {NoKey}, SubmitExisting(k) PROVE Next
    BY <2>2 DEF Next
  <2>3. ASSUME Redrive(t, o) PROVE Next
    BY <2>3 DEF Next
  <2> QED
    BY <1>8, <2>1, <2>2, <2>3 DEF Client
<1>9. ASSUME NEW t \in TaskIds, NEW evict \in Outcomes, NEW o \in Outcomes, Resubmit(t, evict, o)
      PROVE  Next
  <2>1. PICK k \in SubmitKeys \ {NoKey}, d \in Deadlines, readOk \in BOOLEAN :
          SubmitResubmit(t, k, d, readOk, evict, o)
    BY <1>9 DEF Resubmit
  <2> QED
    BY <2>1 DEF Next
<1>10. ASSUME NEW n \in Downable, NEW o \in [TaskIds -> Outcomes], NEW dlq \in [TaskIds -> Outcomes],
              NodeDown(n, o, dlq)
       PROVE  Next
  <2>1. ReassignInFlight(n, o, dlq) /\ n \in Nodes
    BY <1>10, DispatcherAssumption DEF NodeDown
  <2> QED
    BY <2>1 DEF Next
<1>11. ASSUME Clock PROVE Next
  BY <1>11 DEF Clock, Next
<1>12. ASSUME StoreCrash PROVE Next
  BY <1>12 DEF StoreCrash, Next
<1>13. ASSUME DispatcherCrash PROVE UNCHANGED vars
  BY <1>13 DEF DispatcherCrash
<1>14. ASSUME UNCHANGED dvars PROVE UNCHANGED vars
  BY <1>14 DEF dvars
<1> QED
  BY <1>1, <1>2, <1>3, WorkerCalls, <1>5, <1>6, <1>7, <1>8, <1>9, <1>10, <1>11, <1>12, <1>13, <1>14
     DEF DispatcherNext

\* The wall clock does not go back.
LEMMA ClockForward ==
  ASSUME IInv, [Next]_vars
  PROVE  now' \in Nat /\ now <= now'
<1>1. now \in Nat
  BY DEF IInv, StoreInv
<1>2. now' = now \/ now' = now + 1
  <2>1. ASSUME NEW t, NEW k, NEW d, NEW o, SubmitFresh(t, k, d, o) PROVE now' = now
    BY <2>1 DEF SubmitFresh
  <2>2. ASSUME NEW t, NEW k, NEW d, NEW readOk, NEW evict, NEW o,
               SubmitResubmit(t, k, d, readOk, evict, o)
        PROVE  now' = now
    BY <2>2 DEF SubmitResubmit
  <2>3. ASSUME NEW k, SubmitExisting(k) PROVE now' = now
    BY <2>3 DEF SubmitExisting
  <2>4. ASSUME NEW t, NEW n, NEW o, Assign(t, n, o) PROVE now' = now
    BY <2>4 DEF Assign
  <2>5. ASSUME NEW t, NEW o, Start(t, o) \/ RetryTask(t, o) \/ Redrive(t, o) \/ Expire(t, o)
        PROVE  now' = now
    BY <2>5, ZenonT(30) DEF Start, RetryTask, Redrive, Expire
  <2>6. ASSUME NEW t, NEW d, NEW o, Succeed(t, d, o) PROVE now' = now
    BY <2>6 DEF Succeed
  <2>7. ASSUME NEW t, NEW reason, NEW o, NEW dlq, Fail(t, reason, o, dlq) PROVE now' = now
    BY <2>7 DEF Fail
  <2>8. ASSUME NEW n, NEW o, NEW dlq, ReassignInFlight(n, o, dlq) PROVE now' = now
    BY <2>8 DEF ReassignInFlight
  <2>9. ASSUME NEW t, CompactResult(t) \/ CompactTask(t) PROVE now' = now
    BY <2>9 DEF CompactResult, CompactTask
  <2>10. ASSUME Restart \/ UNCHANGED vars PROVE now' = now
    BY <2>10 DEF Restart, vars
  <2>11. ASSUME Tick PROVE now' = now + 1
    BY <2>11 DEF Tick
  <2> QED
    BY <2>1, <2>2, <2>3, <2>4, <2>5, <2>6, <2>7, <2>8, <2>9, <2>10, <2>11 DEF Next
<1> QED
  BY <1>1, <1>2

-----------------------------------------------------------------------------
(* Which tasks a call to the store can change *)

\* Only task t changes, and only from one of these states.
Touches(t, from) ==
  \/ tasks' = tasks
  \/ tasks[t].state \in from /\ \A u \in TaskIds \ {t} : tasks'[u] = tasks[u]

\* Only tasks in these states change.
MovesFrom(from) ==
  \A u \in TaskIds : tasks[u].state \notin from => tasks'[u] = tasks[u]

\* A call on one task moves tasks from its states only.
LEMMA TouchesMoves ==
  ASSUME NEW t \in TaskIds, NEW from, Touches(t, from)
  PROVE  MovesFrom(from)
BY DEF Touches, MovesFrom

\* The handlers of one task.
LEMMA HandlerTouches ==
  ASSUME IInv, NEW t \in TaskIds, NEW o
  PROVE  /\ \A n : Assign(t, n, o) => Touches(t, {"queued"})
         /\ Start(t, o) => Touches(t, {"assigned"})
         /\ \A d : Succeed(t, d, o) => Touches(t, {"running"})
         /\ \A reason, dlq : Fail(t, reason, o, dlq) => Touches(t, InFlightStates)
         /\ RetryTask(t, o) => Touches(t, {"failed_retryable"})
         /\ Redrive(t, o) => Touches(t, {"dead_lettered"})
         /\ Expire(t, o) => Touches(t, {"queued"})
<1>t. tasks = [u \in TaskIds |-> tasks[u]]
  BY DEF IInv
<1>1. \A f : tasks' = [tasks EXCEPT ![t] = f] => \A u \in TaskIds \ {t} : tasks'[u] = tasks[u]
  BY <1>t
<1>2. ASSUME NEW n, Assign(t, n, o) PROVE Touches(t, {"queued"})
  <2>1. \E next : <<tasks[t].state, "assign", next>> \in Transitions
    BY <1>2 DEF Assign
  <2>2. tasks[t].state \in {"queued"}
    BY <2>1 DEF Transitions
  <2>3. tasks' = tasks \/ \E f : tasks' = [tasks EXCEPT ![t] = f]
    BY <1>2, ZenonT(30) DEF Assign, WriteThrough
  <2> QED
    BY <2>2, <2>3, <1>1 DEF Touches
<1>3. ASSUME Start(t, o) PROVE Touches(t, {"assigned"})
  <2>1. \E next : <<tasks[t].state, "start", next>> \in Transitions
    BY <1>3, ZenonT(30) DEF Start
  <2>2. tasks[t].state \in {"assigned"}
    BY <2>1 DEF Transitions
  <2>3. tasks' = tasks \/ \E f : tasks' = [tasks EXCEPT ![t] = f]
    BY <1>3, ZenonT(30) DEF Start, WriteThrough
  <2> QED
    BY <2>2, <2>3, <1>1 DEF Touches
<1>4. ASSUME NEW d, Succeed(t, d, o) PROVE Touches(t, {"running"})
  <2>1. \E next : <<tasks[t].state, "succeed", next>> \in Transitions
    BY <1>4, ZenonT(30) DEF Succeed
  <2>2. tasks[t].state \in {"running"}
    BY <2>1 DEF Transitions
  <2>3. tasks' = tasks \/ \E f : tasks' = [tasks EXCEPT ![t] = f]
    BY <1>4, ZenonT(30) DEF Succeed, WriteThrough
  <2> QED
    BY <2>2, <2>3, <1>1 DEF Touches
<1>5. ASSUME NEW reason, NEW dlq, Fail(t, reason, o, dlq) PROVE Touches(t, InFlightStates)
  BY <1>1, <1>5 DEF Fail, Touches
<1>6. ASSUME RetryTask(t, o) PROVE Touches(t, {"failed_retryable"})
  <2>1. \E next : <<tasks[t].state, "retry", next>> \in Transitions
    BY <1>6, ZenonT(30) DEF RetryTask
  <2>2. tasks[t].state \in {"failed_retryable"}
    BY <2>1 DEF Transitions
  <2>3. tasks' = tasks \/ \E f : tasks' = [tasks EXCEPT ![t] = f]
    BY <1>6, ZenonT(30) DEF RetryTask, WriteThrough
  <2> QED
    BY <2>2, <2>3, <1>1 DEF Touches
<1>7. ASSUME Redrive(t, o) PROVE Touches(t, {"dead_lettered"})
  <2>1. \E next : <<tasks[t].state, "redrive", next>> \in Transitions
    BY <1>7, ZenonT(30) DEF Redrive
  <2>2. tasks[t].state \in {"dead_lettered"}
    BY <2>1 DEF Transitions
  <2>3. tasks' = tasks \/ \E f : tasks' = [tasks EXCEPT ![t] = f]
    BY <1>7, ZenonT(30) DEF Redrive, WriteThrough
  <2> QED
    BY <2>2, <2>3, <1>1 DEF Touches
<1>8. ASSUME Expire(t, o) PROVE Touches(t, {"queued"})
  <2>1. \E next : <<tasks[t].state, "expire", next>> \in Transitions
    BY <1>8, ZenonT(30) DEF Expire
  <2>2. tasks[t].state \in {"queued"}
    BY <2>1 DEF Transitions
  <2>3. tasks' = tasks \/ \E f : tasks' = [tasks EXCEPT ![t] = f]
    BY <1>8, ZenonT(30) DEF Expire, WriteThrough
  <2> QED
    BY <2>2, <2>3, <1>1 DEF Touches
<1> QED
  BY <1>2, <1>3, <1>4, <1>5, <1>6, <1>7, <1>8

\* A client's calls change finished tasks and fresh ids only.
LEMMA ClientMoves ==
  ASSUME IInv, NEW t \in TaskIds, NEW o, Client(t, o)
  PROVE  MovesFrom(TerminalStates \cup {"none"})
<1>t. tasks = [u \in TaskIds |-> tasks[u]]
  BY DEF IInv
<1>1. ASSUME NEW k, NEW d, SubmitFresh(t, k, d, o) PROVE MovesFrom(TerminalStates \cup {"none"})
  <2>1. tasks[t].state = "none"
    BY <1>1 DEF SubmitFresh, IInv, StoreInv
  <2>2. tasks' = tasks \/ tasks' = [tasks EXCEPT ![t] = QueuedTask(k, d)]
    BY <1>1 DEF SubmitFresh, DoSubmit
  <2> QED
    BY <2>1, <2>2, <1>t DEF MovesFrom
<1>2. ASSUME NEW k, SubmitExisting(k) PROVE MovesFrom(TerminalStates \cup {"none"})
  BY <1>2 DEF SubmitExisting, MovesFrom
<1>3. ASSUME Redrive(t, o) PROVE MovesFrom(TerminalStates \cup {"none"})
  <2>1. MovesFrom({"dead_lettered"})
    BY <1>3, HandlerTouches, TouchesMoves
  <2> QED
    BY <2>1 DEF MovesFrom, TerminalStates
<1> QED
  BY <1>1, <1>2, <1>3 DEF Client

\* A resubmission changes the evicted task and the new one only.
LEMMA ResubmitMoves ==
  ASSUME IInv, NEW t \in TaskIds, NEW evict, NEW o, Resubmit(t, evict, o)
  PROVE  MovesFrom(TerminalStates \cup {"none"})
<1>t. tasks = [u \in TaskIds |-> tasks[u]]
  BY DEF IInv
<1>1. PICK k \in SubmitKeys \ {NoKey}, d \in Deadlines, readOk \in BOOLEAN :
        SubmitResubmit(t, k, d, readOk, evict, o)
  BY DEF Resubmit
<1> DEFINE old == idem[k]
           ets == [tasks EXCEPT ![old] = NoTask]
<1>2. tasks[t].state = "none" /\ tasks[old].state \in TerminalStates
  BY <1>1 DEF SubmitResubmit, IInv, StoreInv
<1>3. tasks' = tasks \/ tasks' = ets \/ tasks' = [ets EXCEPT ![t] = QueuedTask(k, d)]
  BY <1>1 DEF SubmitResubmit, DoSubmit
<1>4. \A u \in TaskIds : u # old => ets[u] = tasks[u]
  BY <1>t
<1>5. \A u \in TaskIds : u # t => [ets EXCEPT ![t] = QueuedTask(k, d)][u] = ets[u]
  BY <1>t
<1> HIDE DEF ets
<1> QED
  BY <1>2, <1>3, <1>4, <1>5, ZenonT(30) DEF MovesFrom

\* A node's down edge changes tasks in flight only.
LEMMA NodeDownMoves ==
  ASSUME IInv, NEW n, NEW o, NEW dlq, NodeDown(n, o, dlq)
  PROVE  MovesFrom(InFlightStates)
BY DEF NodeDown, ReassignInFlight, InFlightOn, MovesFrom

\* Time and compaction change no task in ETS.
LEMMA ClockMoves ==
  ASSUME Clock
  PROVE  tasks' = tasks
BY DEF Clock, Tick, CompactResult, CompactTask

-----------------------------------------------------------------------------
(* The sweep and the retry timers *)

\* A timer is armed only by a failure reported as retryable.
LEMMA TimersArmed ==
  ASSUME NEW t, NEW reason, NEW r, NEW dlq, FailCall(t, reason, r, dlq)
  PROVE  retry_timers' \subseteq retry_timers \cup {t}
BY DEF FailCall

\* A step outside the sweep.
LEMMA NoSweep ==
  ASSUME retry_timers' \subseteq TaskIds, pc'.backlog = {}
  PROVE  SweepInv'
BY DEF SweepInv

\* Every step keeps the backlog apart from the timers and the workers.
LEMMA SweepInvStep ==
  ASSUME SweepInv, PcOK, HeldInv, WorkInv, [DispatcherNext]_dvars
  PROVE  SweepInv'
<1>g. ASSUME NEW s, Goto(s), retry_timers' \subseteq TaskIds PROVE SweepInv'
  BY <1>g, NoSweep DEF Goto, At
<1>r. retry_timers \subseteq TaskIds
  BY DEF SweepInv
<1>s. ASSUME UNCHANGED <<workers, retry_timers, pc>> PROVE SweepInv'
  <2>1. Tracked' = Tracked
    BY <1>s DEF Tracked, Live
  <2> QED
    BY <2>1, <1>s DEF SweepInv
<1>1. ASSUME NEW t, EnqueueCast(t) PROVE SweepInv'
  BY <1>1, <1>g, <1>r DEF EnqueueCast
<1>2. CASE DrainStep
  <2>1. ASSUME NEW blocked, NEW read, DrainTake(blocked, read) PROVE SweepInv'
    <3>1. pc'.backlog = {} /\ retry_timers' = retry_timers
      BY <2>1 DEF DrainTake, At
    <3> QED
      BY <3>1, <1>r, NoSweep
  <2>2. ASSUME NEW denied, DrainStop(denied) PROVE SweepInv'
    BY <2>2, <1>g, <1>r DEF DrainStop, control
  <2> QED
    BY <1>2, <2>1, <2>2 DEF DrainStep
<1>3. CASE CommitStep
  <2>1. \E step, t : pc' = At(step, t, {})
    BY <1>3, ZenonT(30) DEF CommitStep, ExpireTaken, AssignTaken, StartTaken, Goto
  <2>2. pc'.backlog = {}
    BY <2>1 DEF At
  <2>3. retry_timers' = retry_timers
    BY <1>3, ZenonT(30) DEF CommitStep, ExpireTaken, AssignTaken, StartTaken
  <2> QED
    BY <2>2, <2>3, <1>r, NoSweep
<1>4. ASSUME NEW p, WorkerStep(p) PROVE SweepInv'
  <2>1. PICK r \in Replies :
          \/ WorkerSucceeds(p, r)
          \/ \E reason \in Reported, dlq \in Outcomes : WorkerFails(p, reason, r, dlq)
    BY <1>4 DEF WorkerStep
  <2>2. CASE WorkerSucceeds(p, r)
    BY <2>2, <1>g, <1>r, ZenonT(30) DEF WorkerSucceeds
  <2>3. ASSUME NEW reason, NEW dlq, WorkerFails(p, reason, r, dlq) PROVE SweepInv'
    <3>1. p \in Live /\ FailCall(workers[p].task, reason, r, dlq) /\ Goto("drain")
      BY <2>3 DEF WorkerFails
    <3>2. workers[p].task \in TaskIds
      BY <3>1 DEF WorkInv
    <3>3. retry_timers' \subseteq retry_timers \cup {workers[p].task}
      BY <3>1, TimersArmed
    <3> QED
      BY <3>1, <3>2, <3>3, <1>g, <1>r
  <2> QED
    BY <2>1, <2>2, <2>3
<1>5. ASSUME NEW t, NEW o, RetryTimer(t, o) PROVE SweepInv'
  <2>1. pc' = pc /\ pc.step = "idle" /\ retry_timers' \subseteq retry_timers
    BY <1>5 DEF RetryTimer
  <2>2. pc'.backlog = {}
    BY <2>1, ZenonT(30) DEF SweepInv
  <2> QED
    BY <2>1, <2>2, <1>r, NoSweep
<1>6. ASSUME NEW read, Sweep(read) PROVE SweepInv'
  <2>1. retry_timers' = retry_timers /\ workers' = workers /\ Tracked' = Tracked
    BY <1>6 DEF Sweep, control, Tracked, Live
  <2>2. \/ pc'.backlog = {}
        \/ pc'.step = "sweep" /\ pc'.backlog = Backlog
    BY <1>6 DEF Sweep, At
  <2>3. CASE pc'.backlog = {}
    BY <2>1, <2>3, <1>r, NoSweep
  <2>4. CASE pc'.step = "sweep" /\ pc'.backlog = Backlog
    <3>1. \A t \in TaskIds, a \in States : <<t, a>> \in Backlog =>
            /\ a = tasks[t].state
            /\ a = "failed_retryable" => t \notin retry_timers
            /\ a \in InFlightStates => t \notin Tracked
      BY DEF Backlog, InFlightStates
    <3>2. "failed_retryable" \in States /\ InFlightStates \subseteq States
      BY DEF States, InFlightStates
    <3> HIDE DEF Backlog
    <3> QED
      BY <3>1, <3>2, <2>1, <2>4, <1>r DEF SweepInv
  <2> QED
    BY <2>2, <2>3, <2>4, ZenonT(30)
<1>7. CASE SweepStep
  <2>1. ASSUME NEW t \in TaskIds, NEW r, NEW dlq, SweepOne(t, r, dlq) PROVE SweepInv'
    <3>1. PICK state \in States :
            /\ <<t, state>> \in pc.backlog
            /\ pc' = [pc EXCEPT !.backlog = @ \ {<<t, state>>}]
      BY <2>1, ZenonT(30) DEF SweepOne
    <3>2. workers' = workers /\ Tracked' = Tracked /\ pc.step = "sweep"
      BY <2>1 DEF SweepOne, Tracked, Live
    <3>3. pc'.step = "sweep" /\ pc'.backlog = pc.backlog \ {<<t, state>>}
      BY <3>1, <3>2 DEF PcOK
    <3>4. retry_timers' \subseteq retry_timers \cup {t}
      BY <2>1, TimersArmed DEF SweepOne
    <3>5. \A a \in States : <<t, a>> \notin pc'.backlog
      BY <3>1, <3>3 DEF SweepInv
    <3>6. "failed_retryable" \in States
      BY DEF States
    <3>7. \A u \in TaskIds : <<u, "failed_retryable">> \in pc'.backlog => u \notin retry_timers'
      BY <3>3, <3>4, <3>5, <3>6 DEF SweepInv
    <3> QED
      BY <3>2, <3>3, <3>4, <3>7, <1>r DEF SweepInv
  <2>2. CASE SweepDone
    BY <2>2, <1>g, <1>r DEF SweepDone, control
  <2> QED
    BY <1>7, <2>1, <2>2 DEF SweepStep
<1>8. ASSUME UNCHANGED <<control, pc>> PROVE SweepInv'
  BY <1>8, <1>s DEF control
<1>9. CASE DispatcherCrash \/ StoreCrash
  BY <1>9, <1>g, ZenonT(30) DEF DispatcherCrash, StoreCrash, Boot
<1>10. CASE UNCHANGED dvars
  BY <1>10, <1>8 DEF dvars
<1>11. ASSUME NEW t, NEW o, Client(t, o) PROVE UNCHANGED <<control, pc>>
  BY <1>11 DEF Client
<1>12. ASSUME NEW t, NEW evict, NEW o, Resubmit(t, evict, o) PROVE UNCHANGED <<control, pc>>
  BY <1>12 DEF Resubmit
<1>13. ASSUME NEW n, NEW o, NEW dlq, NodeDown(n, o, dlq) PROVE UNCHANGED <<control, pc>>
  BY <1>13 DEF NodeDown
<1>14. ASSUME Clock PROVE UNCHANGED <<control, pc>>
  BY <1>14 DEF Clock
<1> QED
  BY <1>1, <1>2, <1>3, <1>4, <1>5, <1>6, <1>7, <1>8, <1>9, <1>10, <1>11, <1>12, <1>13, <1>14
     DEF DispatcherNext

\* A step that arms no timer and moves no task that waits for one.
LEMMA TimersStay ==
  ASSUME SweepInv, TimerOwnsRetry, NEW from, MovesFrom(from), "failed_retryable" \notin from,
         retry_timers' \subseteq retry_timers
  PROVE  TimerOwnsRetry'
BY DEF SweepInv, TimerOwnsRetry, MovesFrom

\* A retryable failure of an in-flight task leaves it failed_retryable.
LEMMA RetryableState ==
  ASSUME NEW e, e.state \in InFlightStates, NEW reason, FailEvent(e, reason) = "fail_retryable"
  PROVE  FailState(e, reason) = "failed_retryable"
<1>1. \A next \in States : <<e.state, "fail_retryable", next>> \in Transitions
                              <=> next = "failed_retryable"
  BY DEF Transitions, InFlightStates
<1> QED
  BY <1>1 DEF FailState, States

\* apply_failure arms the timer of a task it leaves waiting.
LEMMA FailTimers ==
  ASSUME IInv, SweepInv, TimerOwnsRetry, NEW t \in TaskIds, NEW reason, NEW r, NEW dlq,
         FailCall(t, reason, r, dlq)
  PROVE  TimerOwnsRetry'
<1>1. CASE tasks[t].state \in InFlightStates
  <2>1. /\ Fail(t, reason, AppendOf(r), dlq)
        /\ retry_timers' = IF Heard(r) /\ FailEvent(tasks[t], reason) = "fail_retryable"
                           THEN retry_timers \cup {t} ELSE retry_timers
    BY <1>1 DEF FailCall
  <2>2. MovesFrom(InFlightStates)
    BY <2>1, HandlerTouches, TouchesMoves
  <2>3. \A u \in retry_timers : tasks'[u].state = "failed_retryable"
    BY <2>2, ZenonT(30) DEF SweepInv, TimerOwnsRetry, MovesFrom, InFlightStates
  <2>4. ASSUME Heard(r), FailEvent(tasks[t], reason) = "fail_retryable"
        PROVE  tasks'[t].state = "failed_retryable"
    <3>1. AppendOf(r) = "ok"
      BY <2>4 DEF Heard, AppendOf
    <3>2. tasks'[t] = FailedTask(tasks[t], reason, "ok", dlq)
      BY <2>1, <3>1 DEF Fail, IInv
    <3>3. FailState(tasks[t], reason) = "failed_retryable"
      BY <2>4, <1>1, RetryableState
    <3>4. tasks[t] \in Tasks
      BY DEF IInv, TaskInv
    <3>5. FailedTask(tasks[t], reason, "ok", dlq).state = "failed_retryable"
      BY <2>4, <3>3, <3>4 DEF FailedTask, Confirmed, DeadLetters, Tasks
    <3> QED
      BY <3>2, <3>5
  <2> QED
    BY <2>1, <2>3, <2>4, ZenonT(30) DEF TimerOwnsRetry
<1>2. CASE tasks[t].state \notin InFlightStates
  BY <1>2, ZenonT(30) DEF FailCall, TimerOwnsRetry, vars
<1> QED
  BY <1>1, <1>2

\* Every step keeps the timers with tasks that wait for them.
LEMMA TimerStep ==
  ASSUME IInv, HeldInv, PcOK, WorkInv, SweepInv, TimerOwnsRetry, [DispatcherNext]_dvars
  PROVE  TimerOwnsRetry'
<1>u. ASSUME tasks' = tasks, retry_timers' \subseteq retry_timers PROVE TimerOwnsRetry'
  BY <1>u DEF TimerOwnsRetry
<1>m. ASSUME NEW t \in TaskIds, NEW from, Touches(t, from), "failed_retryable" \notin from,
             retry_timers' \subseteq retry_timers
      PROVE  TimerOwnsRetry'
  BY <1>m, TouchesMoves, TimersStay
<1>1. ASSUME NEW t, EnqueueCast(t) PROVE TimerOwnsRetry'
  BY <1>1, <1>u DEF EnqueueCast, vars
<1>2. CASE DrainStep
  BY <1>2, <1>u, ZenonT(30) DEF DrainStep, DrainStop, DrainTake, vars, control
<1>3. CASE CommitStep
  <2>0. pc.task \in TaskIds
    BY <1>3, ZenonT(30) DEF CommitStep, ExpireTaken, AssignTaken, StartTaken, HeldInv, Holding
  <2>1. ASSUME NEW o, ExpireTaken(o) PROVE TimerOwnsRetry'
    <3>1. retry_timers' = retry_timers /\ (Expire(pc.task, o) \/ UNCHANGED vars)
      BY <2>1 DEF ExpireTaken
    <3>2. Touches(pc.task, {"queued"})
      BY <3>1, <2>0, HandlerTouches, ZenonT(30) DEF Touches, vars
    <3> QED
      BY <3>1, <3>2, <2>0, <1>m
  <2>2. ASSUME NEW n, NEW r, AssignTaken(n, r) PROVE TimerOwnsRetry'
    <3>1. retry_timers' = retry_timers /\ (Assign(pc.task, n, AppendOf(r)) \/ UNCHANGED vars)
      BY <2>2 DEF AssignTaken
    <3>2. Touches(pc.task, {"queued"})
      BY <3>1, <2>0, HandlerTouches, ZenonT(30) DEF Touches, vars
    <3> QED
      BY <3>1, <3>2, <2>0, <1>m
  <2>3. ASSUME NEW r, StartTaken(r) PROVE TimerOwnsRetry'
    <3>1. retry_timers' = retry_timers /\ (Start(pc.task, AppendOf(r)) \/ UNCHANGED vars)
      BY <2>3 DEF StartTaken
    <3>2. Touches(pc.task, {"assigned"})
      BY <3>1, <2>0, HandlerTouches, ZenonT(30) DEF Touches, vars
    <3> QED
      BY <3>1, <3>2, <2>0, <1>m
  <2> QED
    BY <1>3, <2>1, <2>2, <2>3 DEF CommitStep
<1>4. ASSUME NEW p, WorkerStep(p) PROVE TimerOwnsRetry'
  <2>0. p \in Live /\ workers[p].task \in TaskIds
    BY <1>4, ZenonT(30) DEF WorkerStep, WorkerSucceeds, WorkerFails, WorkInv
  <2>1. PICK r \in Replies :
          \/ WorkerSucceeds(p, r)
          \/ \E reason \in Reported, dlq \in Outcomes : WorkerFails(p, reason, r, dlq)
    BY <1>4 DEF WorkerStep
  <2>2. CASE WorkerSucceeds(p, r)
    <3>1. /\ retry_timers' = retry_timers
          /\ Succeed(workers[p].task, workers[p].at, AppendOf(r)) \/ UNCHANGED vars
      BY <2>2, ZenonT(30) DEF WorkerSucceeds
    <3>2. Touches(workers[p].task, {"running"})
      BY <3>1, <2>0, HandlerTouches, ZenonT(30) DEF Touches, vars
    <3> QED
      BY <3>1, <3>2, <2>0, <1>m
  <2>3. ASSUME NEW reason, NEW dlq, WorkerFails(p, reason, r, dlq) PROVE TimerOwnsRetry'
    <3>1. FailCall(workers[p].task, reason, r, dlq)
      BY <2>3 DEF WorkerFails
    <3> QED
      BY <3>1, <2>0, FailTimers
  <2> QED
    BY <2>1, <2>2, <2>3
<1>5. ASSUME NEW t \in TaskIds, NEW o, RetryTimer(t, o) PROVE TimerOwnsRetry'
  <2>1. retry_timers' = retry_timers \ {t} /\ (RetryTask(t, o) \/ UNCHANGED vars)
    BY <1>5 DEF RetryTimer, RetryCall
  <2>2. Touches(t, {"failed_retryable"})
    BY <2>1, HandlerTouches, ZenonT(30) DEF Touches, vars
  <2> QED
    BY <2>1, <2>2, ZenonT(30) DEF Touches, TimerOwnsRetry, SweepInv
<1>6. ASSUME NEW read, Sweep(read) PROVE TimerOwnsRetry'
  BY <1>6, <1>u DEF Sweep, vars, control
<1>7. CASE SweepStep
  <2>1. ASSUME NEW t \in TaskIds, NEW r, NEW dlq, SweepOne(t, r, dlq) PROVE TimerOwnsRetry'
    <3>1. \/ UNCHANGED <<vars, retry_timers>>
          \/ /\ <<t, "failed_retryable">> \in pc.backlog
             /\ RetryTask(t, AppendOf(r)) \/ UNCHANGED vars
             /\ retry_timers' = retry_timers
          \/ FailCall(t, "transport", r, dlq)
      BY <2>1 DEF SweepOne, RetryCall
    <3>2. CASE UNCHANGED <<vars, retry_timers>>
      BY <3>2, <1>u DEF vars
    <3>3. CASE /\ <<t, "failed_retryable">> \in pc.backlog
               /\ RetryTask(t, AppendOf(r)) \/ UNCHANGED vars
               /\ retry_timers' = retry_timers
      <4>1. t \notin retry_timers
        BY <3>3, ZenonT(30) DEF SweepInv
      <4>2. Touches(t, {"failed_retryable"})
        BY <3>3, HandlerTouches, ZenonT(30) DEF Touches, vars
      <4> QED
        BY <3>3, <4>1, <4>2 DEF Touches, TimerOwnsRetry, SweepInv
    <3> QED
      BY <3>1, <3>2, <3>3, FailTimers
  <2>2. CASE SweepDone
    BY <2>2, <1>u DEF SweepDone, vars, control
  <2> QED
    BY <1>7, <2>1, <2>2 DEF SweepStep
<1>8. ASSUME NEW t \in TaskIds, NEW o, Client(t, o) PROVE TimerOwnsRetry'
  BY <1>8, ClientMoves, TimersStay DEF Client, control, TerminalStates
<1>9. ASSUME NEW t \in TaskIds, NEW evict, NEW o, Resubmit(t, evict, o) PROVE TimerOwnsRetry'
  BY <1>9, ResubmitMoves, TimersStay DEF Resubmit, control, TerminalStates
<1>10. ASSUME NEW n, NEW o, NEW dlq, NodeDown(n, o, dlq) PROVE TimerOwnsRetry'
  BY <1>10, NodeDownMoves, TimersStay, ZenonT(30) DEF NodeDown, control, InFlightStates
<1>11. ASSUME Clock PROVE TimerOwnsRetry'
  BY <1>11, <1>u, ClockMoves DEF Clock, control
<1>12. ASSUME Boot PROVE TimerOwnsRetry'
  BY <1>12 DEF Boot, TimerOwnsRetry
<1>13. CASE UNCHANGED dvars
  BY <1>13, <1>u DEF dvars, vars, control
<1> QED
  BY <1>1, <1>2, <1>3, <1>4, <1>5, <1>6, <1>7, <1>8, <1>9, <1>10, <1>11, <1>12, <1>13
     DEF DispatcherNext, DispatcherCrash, StoreCrash

-----------------------------------------------------------------------------
(* A worker owns its task's run, while no node is declared down *)

\* A step that changes no worker and no task of a worker.
LEMMA SameOwns ==
  ASSUME WorkInv, WorkerOwnsRun, workers' = workers,
         \A w \in Live : tasks'[workers[w].task] = tasks[workers[w].task]
  PROVE  WorkerOwnsRun'
<1>1. Live' = Live
  BY DEF Live
<1> QED
  BY <1>1 DEF WorkerOwnsRun

\* A step that moves no running task.
LEMMA MovesOwns ==
  ASSUME WorkInv, WorkerOwnsRun, workers' = workers, NEW from, MovesFrom(from),
         "running" \notin from
  PROVE  WorkerOwnsRun'
<1>1. \A w \in Live : tasks'[workers[w].task] = tasks[workers[w].task]
  BY DEF WorkInv, WorkerOwnsRun, MovesFrom
<1> QED
  BY <1>1, SameOwns

\* A finished worker's report changes its own task only.
LEMMA FinishOwns ==
  ASSUME WorkInv, WorkerOwnsRun, NEW p \in Live, Finished(p), NEW from,
         Touches(workers[p].task, from)
  PROVE  WorkerOwnsRun'
<1>1. Live' = Live \ {p} /\ \A q \in Live \ {p} : workers'[q] = workers[q]
  BY DEF Finished, Live, NoWorker, WorkInv
<1>2. \A q \in Live \ {p} : workers[q].task \in TaskIds \ {workers[p].task}
  BY ZenonT(30) DEF WorkInv, WorkerOwnsRun
<1>3. \A q \in Live \ {p} : tasks'[workers[q].task] = tasks[workers[q].task]
  BY <1>2, ZenonT(30) DEF Touches
<1>4. ASSUME NEW q \in Live'
      PROVE  /\ tasks'[workers'[q].task].state = "running"
             /\ tasks'[workers'[q].task].attempt = workers'[q].attempt
             /\ \A w \in Live' : workers'[w].task = workers'[q].task => w = q
  <2>1. q \in Live \ {p} /\ workers'[q] = workers[q]
    BY <1>1
  <2>2. tasks'[workers'[q].task] = tasks[workers[q].task]
    BY <2>1, <1>3
  <2> QED
    BY <2>1, <2>2, <1>1 DEF WorkerOwnsRun
<1> QED
  BY <1>4 DEF WorkerOwnsRun

\* A worker is spawned for the run its start call began.
LEMMA SpawnOwns ==
  ASSUME WorkInv, WorkerOwnsRun, NEW t \in TaskIds, Spawn(t),
         tasks[t].state = "assigned", tasks'[t].state = "running",
         tasks'[t].attempt = tasks[t].attempt,
         \A u \in TaskIds \ {t} : tasks'[u] = tasks[u]
  PROVE  WorkerOwnsRun'
<1> DEFINE pid == CHOOSE p \in Pids \ Live : \A q \in Pids \ Live : p <= q
           slot == [task |-> t, at |-> now, attempt |-> tasks[t].attempt]
<1>1. workers' = [workers EXCEPT ![pid] = slot] /\ workers \in [Pids -> WorkerSlot]
  BY ZenonT(30) DEF Spawn, WorkInv
<1> HIDE DEF pid
<1>2. slot.task = t /\ slot.attempt = tasks[t].attempt
  BY ZenonT(30)
<1> HIDE DEF slot
<1>3. /\ \A q \in Live' : q # pid => q \in Live /\ workers'[q] = workers[q]
      /\ pid \in Live' => workers'[pid] = slot
  BY <1>1 DEF Live
<1>4. \A q \in Live : workers[q].task \in TaskIds \ {t}
  BY DEF WorkInv, WorkerOwnsRun
<1>5. \A q \in Live' : q # pid =>
        /\ workers'[q].task \in TaskIds \ {t}
        /\ tasks'[workers'[q].task] = tasks[workers'[q].task]
  BY <1>3, <1>4, ZenonT(30)
<1>6. ASSUME NEW q \in Live'
      PROVE  /\ tasks'[workers'[q].task].state = "running"
             /\ tasks'[workers'[q].task].attempt = workers'[q].attempt
             /\ \A w \in Live' : workers'[w].task = workers'[q].task => w = q
  <2>1. CASE q = pid
    BY <2>1, <1>2, <1>3, <1>5
  <2>2. CASE q # pid
    <3>1. q \in Live /\ workers'[q] = workers[q] /\ tasks'[workers'[q].task] = tasks[workers[q].task]
      BY <2>2, <1>3, <1>5
    <3>2. \A w \in Live' : workers'[w].task = workers'[q].task => w \in Live /\ workers'[w] = workers[w]
      BY <2>2, <1>2, <1>3, <1>5
    <3>3. /\ tasks[workers[q].task].state = "running"
          /\ tasks[workers[q].task].attempt = workers[q].attempt
          /\ \A w \in Live : workers[w].task = workers[q].task => w = q
      BY <3>1, ZenonT(30) DEF WorkerOwnsRun
    <3>4. \A w \in Live' : workers'[w].task = workers'[q].task => w = q
      BY <3>1, <3>2, <3>3, ZenonT(30)
    <3> QED
      BY <3>1, <3>3, <3>4, ZenonT(30)
  <2> QED
    BY <2>1, <2>2
<1> QED
  BY <1>6 DEF WorkerOwnsRun

\* With no node declared down, every step leaves each worker its run.
LEMMA OwnsStep ==
  ASSUME Downable = {}, IInv, HeldInv, PcOK, WorkInv, SweepInv, WorkerOwnsRun,
         [DispatcherNext]_dvars
  PROVE  WorkerOwnsRun'
<1>u. ASSUME tasks' = tasks, workers' = workers PROVE WorkerOwnsRun'
  BY <1>u, SameOwns
<1>m. ASSUME NEW t \in TaskIds, NEW from, Touches(t, from), "running" \notin from,
             workers' = workers
      PROVE  WorkerOwnsRun'
  BY <1>m, TouchesMoves, MovesOwns
<1>f. ASSUME NEW t \in TaskIds, NEW reason, NEW r, NEW dlq, FailCall(t, reason, r, dlq)
      PROVE  Touches(t, InFlightStates)
  BY <1>f, HandlerTouches, ZenonT(30) DEF FailCall, Touches, vars
<1>1. ASSUME NEW t, EnqueueCast(t) PROVE WorkerOwnsRun'
  BY <1>1, <1>u DEF EnqueueCast, vars
<1>2. CASE DrainStep
  BY <1>2, <1>u, ZenonT(30) DEF DrainStep, DrainStop, DrainTake, vars, control
<1>3. CASE CommitStep
  <2>0. pc.task \in TaskIds
    BY <1>3, ZenonT(30) DEF CommitStep, ExpireTaken, AssignTaken, StartTaken, HeldInv, Holding
  <2>1. ASSUME NEW o, ExpireTaken(o) PROVE WorkerOwnsRun'
    <3>1. workers' = workers /\ (Expire(pc.task, o) \/ UNCHANGED vars)
      BY <2>1 DEF ExpireTaken
    <3>2. Touches(pc.task, {"queued"})
      BY <3>1, <2>0, HandlerTouches, ZenonT(30) DEF Touches, vars
    <3> QED
      BY <3>1, <3>2, <2>0, <1>m
  <2>2. ASSUME NEW n, NEW r, AssignTaken(n, r) PROVE WorkerOwnsRun'
    <3>1. workers' = workers /\ (Assign(pc.task, n, AppendOf(r)) \/ UNCHANGED vars)
      BY <2>2 DEF AssignTaken
    <3>2. Touches(pc.task, {"queued"})
      BY <3>1, <2>0, HandlerTouches, ZenonT(30) DEF Touches, vars
    <3> QED
      BY <3>1, <3>2, <2>0, <1>m
  <2>3. ASSUME NEW r, StartTaken(r) PROVE WorkerOwnsRun'
    <3>1. \/ Start(pc.task, AppendOf(r)) /\ Heard(r) /\ Spawn(pc.task)
          \/ workers' = workers /\ (Start(pc.task, AppendOf(r)) \/ UNCHANGED vars)
      BY <2>3 DEF StartTaken
    <3>2. CASE Start(pc.task, AppendOf(r)) /\ Heard(r) /\ Spawn(pc.task)
      <4>1. AppendOf(r) = "ok"
        BY <3>2 DEF Heard, AppendOf
      <4>2. PICK next \in States :
              /\ <<tasks[pc.task].state, "start", next>> \in Transitions
              /\ WriteThrough(pc.task, "ok",
                   AdvanceTaskState(rows[pc.task], next, now, tasks[pc.task].attempt),
                   [tasks[pc.task] EXCEPT !.state = next])
        BY <3>2, <4>1 DEF Start
      <4>3. tasks[pc.task].state = "assigned" /\ next = "running"
        BY <4>2 DEF Transitions
      <4>4. tasks' = [tasks EXCEPT ![pc.task] = [tasks[pc.task] EXCEPT !.state = "running"]]
        BY <4>2, <4>3 DEF WriteThrough, Confirmed
      <4>5. tasks = [u \in TaskIds |-> tasks[u]] /\ tasks[pc.task] \in Tasks
        BY <2>0 DEF IInv, TaskInv
      <4>6. [tasks[pc.task] EXCEPT !.state = "running"].state = "running"
            /\ [tasks[pc.task] EXCEPT !.state = "running"].attempt = tasks[pc.task].attempt
        BY <4>5 DEF Tasks
      <4>7. /\ tasks'[pc.task] = [tasks[pc.task] EXCEPT !.state = "running"]
            /\ \A u \in TaskIds \ {pc.task} : tasks'[u] = tasks[u]
        BY <4>4, <4>5, <2>0
      <4> QED
        BY <2>0, <3>2, <4>3, <4>6, <4>7, SpawnOwns, ZenonT(30)
    <3>3. CASE workers' = workers /\ (Start(pc.task, AppendOf(r)) \/ UNCHANGED vars)
      <4>1. Touches(pc.task, {"assigned"})
        BY <3>3, <2>0, HandlerTouches, ZenonT(30) DEF Touches, vars
      <4> QED
        BY <3>3, <4>1, <2>0, <1>m
    <3> QED
      BY <3>1, <3>2, <3>3
  <2> QED
    BY <1>3, <2>1, <2>2, <2>3 DEF CommitStep
<1>4. ASSUME NEW p, WorkerStep(p) PROVE WorkerOwnsRun'
  <2>0. p \in Live /\ Finished(p) /\ workers[p].task \in TaskIds
    BY <1>4, ZenonT(30) DEF WorkerStep, WorkerSucceeds, WorkerFails, WorkInv
  <2>1. PICK r \in Replies :
          \/ WorkerSucceeds(p, r)
          \/ \E reason \in Reported, dlq \in Outcomes : WorkerFails(p, reason, r, dlq)
    BY <1>4 DEF WorkerStep
  <2>2. CASE WorkerSucceeds(p, r)
    <3>1. Succeed(workers[p].task, workers[p].at, AppendOf(r)) \/ UNCHANGED vars
      BY <2>2 DEF WorkerSucceeds
    <3>2. Touches(workers[p].task, {"running"})
      BY <3>1, <2>0, HandlerTouches, ZenonT(30) DEF Touches, vars
    <3> QED
      BY <3>2, <2>0, FinishOwns
  <2>3. ASSUME NEW reason, NEW dlq, WorkerFails(p, reason, r, dlq) PROVE WorkerOwnsRun'
    <3>1. FailCall(workers[p].task, reason, r, dlq)
      BY <2>3 DEF WorkerFails
    <3> QED
      BY <3>1, <2>0, <1>f, FinishOwns
  <2> QED
    BY <2>1, <2>2, <2>3
<1>5. ASSUME NEW t \in TaskIds, NEW o, RetryTimer(t, o) PROVE WorkerOwnsRun'
  <2>1. workers' = workers /\ (RetryTask(t, o) \/ UNCHANGED vars)
    BY <1>5 DEF RetryTimer, RetryCall
  <2>2. Touches(t, {"failed_retryable"})
    BY <2>1, HandlerTouches, ZenonT(30) DEF Touches, vars
  <2> QED
    BY <2>1, <2>2, <1>m
<1>6. ASSUME NEW read, Sweep(read) PROVE WorkerOwnsRun'
  BY <1>6, <1>u DEF Sweep, vars, control
<1>7. CASE SweepStep
  <2>1. ASSUME NEW t \in TaskIds, NEW r, NEW dlq, SweepOne(t, r, dlq) PROVE WorkerOwnsRun'
    <3>1. /\ workers' = workers
          /\ \/ UNCHANGED vars
             \/ RetryTask(t, AppendOf(r))
             \/ FailCall(t, "transport", r, dlq)
                /\ \E a \in InFlightStates : <<t, a>> \in pc.backlog
      BY <2>1 DEF SweepOne, RetryCall
    <3>2. CASE UNCHANGED vars
      BY <3>1, <3>2, <1>u, ZenonT(30) DEF vars
    <3>3. CASE RetryTask(t, AppendOf(r))
      <4>1. Touches(t, {"failed_retryable"})
        BY <3>3, HandlerTouches
      <4> QED
        BY <3>1, <4>1, <1>m, ZenonT(30)
    <3>4. CASE FailCall(t, "transport", r, dlq)
               /\ \E a \in InFlightStates : <<t, a>> \in pc.backlog
      <4>1. t \notin Tracked
        BY <3>4 DEF SweepInv
      <4>2. \A w \in Live : workers[w].task \in TaskIds \ {t}
        BY <4>1 DEF Tracked, WorkInv
      <4>3. Touches(t, InFlightStates)
        BY <3>4, <1>f
      <4>4. \A w \in Live : tasks'[workers[w].task] = tasks[workers[w].task]
        BY <4>2, <4>3 DEF Touches
      <4> QED
        BY <3>1, <4>4, SameOwns
    <3> QED
      BY <3>1, <3>2, <3>3, <3>4, ZenonT(30)
  <2>2. CASE SweepDone
    BY <2>2, <1>u DEF SweepDone, vars, control
  <2> QED
    BY <1>7, <2>1, <2>2 DEF SweepStep
<1>8. ASSUME NEW t \in TaskIds, NEW o, Client(t, o) PROVE WorkerOwnsRun'
  BY <1>8, ClientMoves, MovesOwns DEF Client, control, TerminalStates
<1>9. ASSUME NEW t \in TaskIds, NEW evict, NEW o, Resubmit(t, evict, o) PROVE WorkerOwnsRun'
  BY <1>9, ResubmitMoves, MovesOwns DEF Resubmit, control, TerminalStates
<1>10. ASSUME NEW n \in Downable PROVE FALSE
  BY <1>10
<1>11. ASSUME Clock PROVE WorkerOwnsRun'
  BY <1>11, <1>u, ClockMoves DEF Clock, control
<1>12. ASSUME Boot PROVE WorkerOwnsRun'
  <2>1. Live' = {}
    BY <1>12 DEF Boot, Live, NoWorker
  <2> QED
    BY <2>1, ZenonT(30) DEF WorkerOwnsRun
<1>13. CASE UNCHANGED dvars
  BY <1>13, <1>u DEF dvars, vars, control
<1> QED
  BY <1>1, <1>2, <1>3, <1>4, <1>5, <1>6, <1>7, <1>8, <1>9, <1>10, <1>11, <1>12, <1>13
     DEF DispatcherNext, DispatcherCrash, StoreCrash

=============================================================================
