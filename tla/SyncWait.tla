------------------------------ MODULE SyncWait ------------------------------
(***************************************************************************)
(* Sync submits (?wait=true): request processes that park until their task *)
(* is terminal, composed with the task store that wakes them.  Source:     *)
(* sync_wait.ex, router.ex (sync_respond, terminal_check,                  *)
(* respond_terminal) and task_store.ex (append_and_update's notify), in    *)
(* control/lib/embervm.                                                    *)
(*                                                                         *)
(* A request process serves one request after another (keep-alive), and    *)
(* its mailbox outlives a request.                                         *)
(***************************************************************************)
EXTENDS TaskStore, FiniteSets

CONSTANTS
  Waiters,      \* the request processes
  Callers,      \* the principals
  Caller,       \* request process -> principal
  ParkCap,      \* sync_park_cap: parked waiters of one principal
  CrashBound    \* bound: crashes of the store or of the counter table's owner

ASSUME WaitAssumption ==
  /\ IsFiniteSet(Waiters)
  /\ Caller \in [Waiters -> Callers]
  /\ {ParkCap, CrashBound} \subseteq Nat

VARIABLES
  step,         \* request process -> the step of its request
  awaited,      \* request process -> the task of its request
  mailbox,      \* request process -> {:task_terminal, task, state} messages
  counts,       \* ETS :embervm_park_counts
  crashes       \* crashes so far

waiting == <<step, awaited, mailbox, counts, crashes>>
wvars == <<vars, waiting>>

\* The steps of await during which the process is in the Registry.
Registered == {w \in Waiters : step[w] \in {"check", "parked", "unregister", "leave"}}

\* The processes between a successful reserve and their release.
Holders(c) ==
  {w \in Waiters : Caller[w] = c
     /\ step[w] \in {"register", "check", "parked", "unregister", "leave", "respond", "release"}}

\* The over-cap increments not yet rolled back.
RollingBack(c) == {w \in Waiters : Caller[w] = c /\ step[w] = "rollback"}

Lowered(c, n) == [counts EXCEPT ![c] = IF @ > n THEN @ - n ELSE 0]

Proceed(w, s) == step' = [step EXCEPT ![w] = s]

-----------------------------------------------------------------------------
(* A request *)

\* A submit answered with the id of a task, new or existing.
Request(w, t) ==
  /\ step[w] = "idle"
  /\ t \in acked
  /\ awaited' = [awaited EXCEPT ![w] = t]
  /\ Proceed(w, "reserve")
  /\ UNCHANGED <<vars, mailbox, counts, crashes>>

\* Mutant: the cap is compared with the count before the increment.
ReserveBelowOrAt(w) ==
  LET c == Caller[w]
  IN /\ step[w] = "reserve"
     /\ counts' = [counts EXCEPT ![c] = @ + 1]
     /\ Proceed(w, IF counts[c] > ParkCap THEN "rollback" ELSE "register")
     /\ UNCHANGED <<vars, awaited, mailbox, crashes>>

\* reserve: one atomic increment decides.
Reserve(w) ==
  LET c == Caller[w]
  IN /\ step[w] = "reserve"
     /\ counts' = [counts EXCEPT ![c] = @ + 1]
     /\ Proceed(w, IF counts[c] + 1 > ParkCap THEN "rollback" ELSE "register")
     /\ UNCHANGED <<vars, awaited, mailbox, crashes>>

\* A second atomic operation takes the over-cap increment back (429).
Rollback(w) ==
  /\ step[w] = "rollback"
  /\ counts' = Lowered(Caller[w], 1)
  /\ Proceed(w, "idle")
  /\ UNCHANGED <<vars, awaited, mailbox, crashes>>

Register(w) ==
  /\ step[w] = "register"
  /\ Proceed(w, "check")
  /\ UNCHANGED <<vars, awaited, mailbox, counts, crashes>>

\* Mutant: the task's state is not checked again once the process is registered.
CheckNothing(w) ==
  /\ step[w] = "check"
  /\ Proceed(w, "parked")
  /\ UNCHANGED <<vars, awaited, mailbox, counts, crashes>>

\* already_terminal?, a read of the store, after the registration.
Check(w) ==
  /\ step[w] = "check"
  /\ Proceed(w, IF tasks[awaited[w]].state \in TerminalStates THEN "unregister" ELSE "parked")
  /\ UNCHANGED <<vars, awaited, mailbox, counts, crashes>>

\* The receive takes one message for the awaited task.
Wake(w) ==
  /\ step[w] = "parked"
  /\ \E m \in mailbox[w] :
       /\ m[1] = awaited[w]
       /\ mailbox' = [mailbox EXCEPT ![w] = @ \ {m}]
  /\ Proceed(w, "unregister")
  /\ UNCHANGED <<vars, awaited, counts, crashes>>

Timeout(w) ==
  /\ step[w] = "parked"
  /\ Proceed(w, "leave")
  /\ UNCHANGED <<vars, awaited, mailbox, counts, crashes>>

\* await unregisters on every way out; messages already sent stay.
Unregister(w) ==
  /\ \/ step[w] = "unregister" /\ Proceed(w, "respond")
     \/ step[w] = "leave" /\ Proceed(w, "release")
  /\ UNCHANGED <<vars, awaited, mailbox, counts, crashes>>

\* respond_terminal re-reads the task and answers with what it finds.
Respond(w) ==
  /\ step[w] = "respond"
  /\ Proceed(w, "release")
  /\ UNCHANGED <<vars, awaited, mailbox, counts, crashes>>

Release(w) ==
  /\ step[w] = "release"
  /\ counts' = Lowered(Caller[w], 1)
  /\ Proceed(w, "idle")
  /\ UNCHANGED <<vars, awaited, mailbox, crashes>>

-----------------------------------------------------------------------------
(* The store, crashes *)

\* Mutant: every transition is announced.
NotifiedAlways(t) ==
  IF tasks'[t].state = tasks[t].state THEN {} ELSE {tasks'[t].state}

\* The terminal states append_and_update announces in one handler: a permanent
\* failure that goes on to the dead letters announces both.
Notified(t) ==
  IF tasks'[t].state = tasks[t].state THEN {}
  ELSE IF tasks'[t].state = "dead_lettered" /\ tasks[t].state \in InFlightStates
  THEN {"failed_permanent", "dead_lettered"}
  ELSE {tasks'[t].state} \cap TerminalStates

\* A handler of the store, with SyncWait.notify to the processes registered.
StoreStep ==
  /\ \/ \E t \in TaskIds, o \in Outcomes :
          \/ \E k \in SubmitKeys, d \in Deadlines : SubmitFresh(t, k, d, o)
          \/ \E n \in Nodes : Assign(t, n, o)
          \/ Start(t, o)
          \/ Succeed(t, now, o)
          \/ \E reason \in Reported, dlq \in Outcomes : Fail(t, reason, o, dlq)
          \/ RetryTask(t, o)
          \/ Redrive(t, o)
          \/ Expire(t, o)
     \/ \E n \in Nodes, o, dlq \in [TaskIds -> Outcomes] : ReassignInFlight(n, o, dlq)
  /\ mailbox' = [w \in Waiters |->
                   IF w \in Registered
                   THEN mailbox[w] \cup ({awaited[w]} \X Notified(awaited[w]))
                   ELSE mailbox[w]]
  /\ UNCHANGED <<step, awaited, counts, crashes>>

\* The request processes stop with the web server, the last child.
Stopped ==
  /\ crashes < CrashBound
  /\ crashes' = crashes + 1
  /\ step' = [w \in Waiters |-> "idle"]
  /\ awaited' = [w \in Waiters |-> NoId]
  /\ mailbox' = [w \in Waiters |-> {}]

\* rest_for_one: the web server restarts with the store; the Registry and the
\* counter table come before the store and stay.  The processes in graceful ran
\* their after blocks, the others keep their slot in the counter.
StoreRestart(graceful) ==
  /\ Restart
  /\ Stopped
  /\ counts' = [c \in Callers |->
                  LET n == Cardinality(graceful \cap Holders(c))
                  IN IF counts[c] > n THEN counts[c] - n ELSE 0]

\* The counter table's owner dies: the store and the web server restart too.
OwnerCrash ==
  /\ Restart
  /\ Stopped
  /\ counts' = [c \in Callers |-> 0]

-----------------------------------------------------------------------------

WaitInit ==
  /\ Init
  /\ step = [w \in Waiters |-> "idle"]
  /\ awaited = [w \in Waiters |-> NoId]
  /\ mailbox = [w \in Waiters |-> {}]
  /\ counts = [c \in Callers |-> 0]
  /\ crashes = 0

WaitNext ==
  \/ \E w \in Waiters :
       \/ \E t \in TaskIds : Request(w, t)
       \/ Reserve(w)
       \/ Rollback(w)
       \/ Register(w)
       \/ Check(w)
       \/ Wake(w)
       \/ Timeout(w)
       \/ Unregister(w)
       \/ Respond(w)
       \/ Release(w)
  \/ StoreStep
  \/ \E graceful \in SUBSET Waiters : StoreRestart(graceful)
  \/ OwnerCrash

WaitSpec == WaitInit /\ [][WaitNext]_wvars

-----------------------------------------------------------------------------
(* Properties *)

\* Every variable has its type.
WaitTypeOK ==
  /\ step \in [Waiters -> {"idle", "reserve", "rollback", "register", "check", "parked",
                           "unregister", "leave", "respond", "release"}]
  /\ awaited \in [Waiters -> TaskIds \cup {NoId}]
  /\ mailbox \in [Waiters -> SUBSET (TaskIds \X TerminalStates)]
  /\ counts \in [Callers -> Nat]
  /\ crashes \in 0..CrashBound

\* reserve and release: whatever the order of the increments, the rollbacks and
\* the crashes, a principal never holds more than the cap of parked waiters, and
\* the counter never counts fewer than there are.
ParkCapHolds ==
  \A c \in Callers :
    /\ Cardinality(Holders(c)) <= ParkCap
    /\ counts[c] >= Cardinality(Holders(c) \cup RollingBack(c))

\* await registers, then checks: a process parked on a task that is terminal has
\* the message that wakes it.
NoMissedWake ==
  \A w \in Waiters :
    step[w] = "parked" /\ tasks[awaited[w]].state \in TerminalStates
      => \E m \in mailbox[w] : m[1] = awaited[w]

=============================================================================
