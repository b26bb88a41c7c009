------------------------------- MODULE Drainer -------------------------------
(***************************************************************************)
(* A drain cycle: a durable workflow that claims a routine job together with *)
(* an admission permit, runs it in an agent session, and gives job, permit   *)
(* and guest back.  Every step commits before DBOS records it, so a restart  *)
(* runs it again; a cancelled workflow may still commit the step it was in;  *)
(* executors, permit supervision, the cleanup retries and the operator work   *)
(* beside it on the same rows.  Source: drainer.py and drainer_router.py in   *)
(* projects/monolith/factory/orchestration, admission.py, store.py and        *)
(* permit_supervision.py in factory/execution, routine_jobs.py and            *)
(* routine_reconciliation.py in agent.                                        *)
(***************************************************************************)
EXTENDS Naturals, FiniteSets

CONSTANTS
  Flows,            \* drain workflows, by id
  Workers,          \* cycles in their job loop at a time (DrainFleet)
  Jobs,             \* routine jobs
  KG,               \* those of a knowledge-graph kind
  Review,           \* the fact review (kg-fact-review), which may be recomputed
  Recurring,        \* those with an interval
  NoFlow, NoJob,    \* no workflow, no job
  MaxJobs,          \* max_jobs_per_cycle
  MaxTries,         \* MAX_GARDENER_RETRIES
  TotalLimit, BackgroundLimit, KgLimit,   \* admission limits
  BaseCap, BurstJobs,   \* rolling allowance of KG starts, and a burst's extra
  MaxFaults         \* bound: restarts and stale cancellations

ASSUME DrainerAssumption ==
  /\ KG \subseteq Jobs /\ Review \subseteq KG /\ Recurring \subseteq Jobs
  /\ IsFiniteSet(Jobs)
  /\ NoJob \notin Jobs /\ NoFlow \notin Flows /\ IsFiniteSet(Flows)
  /\ {Workers, MaxJobs, MaxTries, TotalLimit, BackgroundLimit, KgLimit, BaseCap,
      BurstJobs, MaxFaults} \subseteq Nat

\* A session and its permit are keyed by workflow and job (_session_key).
Keys == Flows \X Jobs

VARIABLES
  status,   \* DBOS status of a workflow
  job,      \* routine row: when it is next due, its lease, its unknown hold
  permit,   \* admission reservation of a key; "waived" is an uncertain one whose
            \* outcome is operator_recompute_unknown
  sess,     \* where the session of a key is
  guest,    \* its guest, as bound to the session row
  claim,    \* keys whose guest has a cleanup claim
  cyc,      \* the drain cycle of a workflow
  late,     \* cancelled workflows with a step still in flight
  fg,       \* an interactive turn has a permit of the pool
  burst,    \* a KG burst grant is active
  faults

rowVars == <<job, permit, sess, guest, claim>>
envVars == <<fg, burst>>
drainVars == <<status, rowVars, cyc, late, envVars, faults>>

\* Workflows that have ended, and those of them a reconciliation accepts.
Settled == {"success", "error", "cancelled"}
Terminal == Settled \cup {"exceeded"}
Fresh == [pc |-> "claim", n |-> 0, job |-> NoJob, how |-> "ok", began |-> FALSE,
          bad |-> FALSE, kg |-> TRUE]

DrainInit ==
  /\ status = [w \in Flows |-> "queued"]
  /\ job = [j \in Jobs |-> [next |-> "due", lease |-> NoFlow, held |-> NoFlow, tries |-> 0]]
  /\ permit = [k \in Keys |-> "none"]
  /\ sess = [k \in Keys |-> "none"]
  /\ guest = [k \in Keys |-> "none"]
  /\ claim = {}
  /\ cyc = [w \in Flows |-> Fresh]
  /\ late = {}
  /\ fg = FALSE /\ burst \in {FALSE, BurstJobs > 0} /\ faults = 0

----------------------------------------------------------------------------
(* Admission *)

Active == {k \in Keys : permit[k] \notin {"none", "settled"}}
\* The other reservations that keep job j to themselves (_operator_recomputation).
Rivals(j) == {k \in Active : k[2] = j /\ permit[k] # "waived"}
InUse == Cardinality(Active) + (IF fg THEN 1 ELSE 0)
KgKeys == {k \in Keys : k[2] \in KG}
\* Sessions of the rolling day, and reservations without a session yet.
Used == Cardinality({k \in KgKeys : sess[k] # "none"})
Unbound == Cardinality({k \in KgKeys \cap Active : sess[k] = "none"})
\* What is left of a burst's grant can only lower its extra, and is left out.
Cap == BaseCap + (IF burst THEN BurstJobs ELSE 0)

\* Mutant: the allowance is compared after it is spent.
HasRoomOver(k) ==
  /\ Rivals(k[2]) = {}
  /\ InUse < TotalLimit
  /\ Cardinality(Active) < BackgroundLimit
  /\ k \in KgKeys => /\ Cardinality(Active \cap KgKeys) < KgLimit
                     /\ Used + Unbound <= Cap

\* reserve_start_verdict for a key without a reservation row (a waiting start
\* of a higher tier only makes the claim come back empty: EndLoop).
HasRoom(k) ==
  /\ Rivals(k[2]) = {}
  /\ InUse < TotalLimit
  /\ Cardinality(Active) < BackgroundLimit
  /\ k \in KgKeys => /\ Cardinality(Active \cap KgKeys) < KgLimit
                     /\ Used + Unbound < Cap

\* An existing row of this key admits only its own unfinished start.
Admits(k) ==
  /\ k \notin claim
  /\ \/ permit[k] \in {"reserved", "running"}
     \/ permit[k] = "none" /\ HasRoom(k)

CancelUnbound(k) ==
  permit' = [permit EXCEPT ![k] =
               IF @ = "reserved" /\ sess[k] = "none" THEN "settled" ELSE @]

HasUnknown(k) == sess[k] = "unknown" \/ permit[k] \in {"uncertain", "waived"}
HeldFor(k) == job[k[2]].held = k[1]
Holds(w, j) == job[j].lease = w /\ job[j].held = NoFlow
Bound(k) == guest[k] \in {"run", "stray", "idle", "mute"}

----------------------------------------------------------------------------
(* Steps of a cycle *)

\* w's next step is pc: it runs it, or it was cancelled while running it.
At(w, pc) == cyc[w].pc = pc /\ (status[w] = "draining" \/ w \in late)
Alive(w, pc) == cyc[w].pc = pc /\ status[w] = "draining"
Key(w) == <<w, cyc[w].job>>

\* After a step's commit: the checkpoint; a restart, so that the step runs
\* again; or nothing more, because the workflow was cancelled meanwhile.
Advance(w, c) ==
  \/ /\ status[w] = "draining"
     /\ cyc' = [cyc EXCEPT ![w] = c]
     /\ UNCHANGED <<late, faults>>
  \/ /\ status[w] = "draining"
     /\ faults < MaxFaults
     /\ faults' = faults + 1
     /\ UNCHANGED <<cyc, late>>
  \/ /\ w \in late
     /\ late' = late \ {w}
     /\ cyc' = [cyc EXCEPT ![w] = Fresh]
     /\ UNCHANGED faults

\* The iteration is over, or its exception leaves the loop.
Done(c) ==
  IF c.bad THEN [c EXCEPT !.pc = "fail"]
  ELSE [c EXCEPT !.pc = "claim", !.n = @ + 1, !.job = NoJob, !.how = "ok", !.began = FALSE]

\* The finally block.
Finally(c) ==
  IF ~c.began THEN [c EXCEPT !.pc = "cancel"]
  ELSE IF c.how = "unknown" THEN Done(c)
  ELSE [c EXCEPT !.pc = "destroy"]

\* The general handler: a KG job counts an attempt, another one just fails.
Failing(c) ==
  [c EXCEPT !.how = "fail", !.pc = IF c.job \in KG THEN "increment" ELSE "finish"]

\* The queue starts a cycle; while the lane is disabled it ends at once.
BeginCycle(w) ==
  /\ status[w] = "queued"
  /\ Cardinality({v \in Flows : status[v] = "draining"}) < Workers
  /\ \E s \in {"draining", "success"} : status' = [status EXCEPT ![w] = s]
  /\ UNCHANGED <<rowVars, cyc, late, envVars, faults>>

ClaimsLeft(w) == cyc[w].n < MaxJobs

\* A replay finds the lease its holder already has.
Claimable(w) ==
  LET prior == {j \in Jobs : Holds(w, j)}
  IN  IF prior # {} THEN prior
      ELSE {j \in Jobs : /\ job[j].next = "due"
                         /\ job[j].lease = NoFlow
                         /\ job[j].held = NoFlow
                         /\ Rivals(j) = {}}

ClaimJob(w, j) ==
  /\ At(w, "claim") /\ ClaimsLeft(w)
  /\ j \in Claimable(w)
  /\ j \in KG => cyc[w].kg
  /\ Admits(<<w, j>>)
  /\ job' = [job EXCEPT ![j].lease = w]
  /\ permit' = [permit EXCEPT ![<<w, j>>] = IF @ = "none" THEN "reserved" ELSE @]
  /\ Advance(w, [cyc[w] EXCEPT !.pc = "gate", !.job = j])
  /\ UNCHANGED <<status, sess, guest, claim, envVars>>

\* The loop is over: every claim was made, or one came back empty (nothing due
\* or admitted, a walled provider, a paused lane).  Whether the cycle hands its
\* slot to a successor is DrainFleet's concern.
EndLoop(w) ==
  /\ Alive(w, "claim")
  /\ status' = [status EXCEPT ![w] = "success"]
  /\ cyc' = [cyc EXCEPT ![w] = Fresh]
  /\ UNCHANGED <<rowVars, late, envVars, faults>>

\* The allowance is read again after the claim: a burst may have ended.
Gate(w) ==
  /\ Alive(w, "gate")
  /\ cyc' = [cyc EXCEPT ![w] =
       IF @.job \in KG /\ Used >= Cap
       THEN [@ EXCEPT !.pc = "cancel", !.how = "deferred"]
       ELSE [@ EXCEPT !.pc = "build"]]
  /\ UNCHANGED <<status, rowVars, late, envVars, faults>>

\* Build the prompt: go on, nothing to do, a bad payload, or an exception.
Build(w) ==
  /\ Alive(w, "build")
  /\ \E c \in {[cyc[w] EXCEPT !.pc = "begin", !.began = TRUE],
               [cyc[w] EXCEPT !.pc = "finish", !.how = "skip"],
               [cyc[w] EXCEPT !.pc = "finish", !.how = "malformed"],
               Failing(cyc[w])} :
       cyc' = [cyc EXCEPT ![w] = c]
  /\ UNCHANGED <<status, rowVars, late, envVars, faults>>

\* start_agent_session: the session, the permit's binding and the first message
\* commit together; a known key is returned; a spent permit cannot be rebound.
StartSession(w) ==
  LET k == Key(w)
      fresh == sess[k] = "none" /\ permit[k] = "reserved"
      starts == fresh \/ sess[k] # "none"
  IN  /\ At(w, "begin")
      /\ sess' = [sess EXCEPT ![k] = IF fresh THEN "queued" ELSE @]
      /\ Advance(w, IF starts THEN [cyc[w] EXCEPT !.pc = "await"] ELSE Failing(cyc[w]))
      /\ UNCHANGED <<status, job, permit, guest, claim, envVars>>

StartFails(w) ==
  /\ Alive(w, "begin")
  /\ cyc' = [cyc EXCEPT ![w] = Failing(@)]
  /\ UNCHANGED <<status, rowVars, late, envVars, faults>>

\* The turn: usable, unusable, of unknown outcome, or not seen in time.
AwaitTurn(w) ==
  LET k == Key(w)
      c == cyc[w]
  IN  /\ Alive(w, "await")
      /\ \/ /\ sess[k] = "done"
            /\ cyc' = [cyc EXCEPT ![w].pc = "finish"]
         \/ /\ HasUnknown(k)
            /\ cyc' = [cyc EXCEPT ![w] = [c EXCEPT !.pc = "hold", !.how = "unknown"]]
         \/ cyc' = [cyc EXCEPT ![w] = Failing(c)]
      /\ UNCHANGED <<status, rowVars, late, envVars, faults>>

\* When a finished row is next due: after a while, never, or it is deleted.
NextRun(j, how) ==
  IF how = "deferred" \/ j \in Recurring THEN "due"
  ELSE IF j \in KG /\ how # "skip" THEN "gone"
  ELSE "never"

\* finish_drainer_job, by its holder only: anyone else's raises.
FinishJob(w) ==
  LET c == cyc[w]
      j == c.job
      after == IF c.how = "deferred" THEN Done([c EXCEPT !.kg = FALSE]) ELSE Finally(c)
      raised == [c EXCEPT !.bad = TRUE]
  IN  /\ At(w, "finish")
      /\ \/ /\ Holds(w, j)
            /\ job' = [job EXCEPT ![j].lease = NoFlow, ![j].next = NextRun(j, c.how)]
            /\ Advance(w, after)
         \/ /\ ~Holds(w, j)
            /\ UNCHANGED job
            /\ Advance(w, IF c.how = "deferred" THEN Done(raised) ELSE Finally(raised))
      /\ UNCHANGED <<status, permit, sess, guest, claim, envVars>>

\* increment_kg_job_attempt: not idempotent, and refused to anyone but the holder.
Increment(w) ==
  LET c == cyc[w]
      j == c.job
      pc == IF job[j].tries + 1 < MaxTries THEN "defer" ELSE "finish"
  IN  /\ At(w, "increment")
      /\ \/ /\ Holds(w, j)
            /\ job' = [job EXCEPT ![j].tries = @ + 1]
            /\ Advance(w, [c EXCEPT !.pc = pc])
         \/ /\ ~Holds(w, j)
            /\ UNCHANGED job
            /\ Advance(w, Finally([c EXCEPT !.bad = TRUE]))
      /\ UNCHANGED <<status, permit, sess, guest, claim, envVars>>

DeferJob(w) ==
  LET j == cyc[w].job
  IN  /\ At(w, "defer")
      /\ job' = IF Holds(w, j)
                THEN [job EXCEPT ![j].lease = NoFlow, ![j].next = "due"]
                ELSE job
      /\ Advance(w, Finally(cyc[w]))
      /\ UNCHANGED <<status, permit, sess, guest, claim, envVars>>

\* hold_job_for_unknown_outcome for key k.
Hold(js, k) ==
  IF js[k[2]].lease = k[1]
  THEN [js EXCEPT ![k[2]].lease = NoFlow, ![k[2]].next = "never", ![k[2]].held = k[1]]
  ELSE js

HoldJob(w) ==
  LET k == Key(w)
      c == cyc[w]
      held == job[k[2]].lease = w \/ HeldFor(k)
  IN  /\ At(w, "hold")
      /\ job' = Hold(job, k)
      /\ Advance(w, Finally([c EXCEPT !.bad = ~held]))
      /\ UNCHANGED <<status, permit, sess, guest, claim, envVars>>

\* cancel_drainer_reservation, in the finally block or by the allowance gate.
CancelReservation(w) ==
  LET c == cyc[w]
  IN  /\ At(w, "cancel")
      /\ CancelUnbound(Key(w))
      /\ Advance(w, IF c.how = "deferred" THEN [c EXCEPT !.pc = "finish"] ELSE Done(c))
      /\ UNCHANGED <<status, job, sess, guest, claim, envVars>>

----------------------------------------------------------------------------
(* Giving a session's guest back *)

\* A committed cleanup claim, and a DELETE that is confirmed or is not.
CleanUp(k) ==
  \/ /\ claim' = claim \ {k}
     /\ guest' = [guest EXCEPT ![k] = "cleared"]
  \/ /\ claim' = claim \cup {k}
     /\ UNCHANGED guest

\* begin_guest_cleanup refuses a new claim beside an attempted message.
Cleanable(k) == ~HasUnknown(k) /\ Bound(k) /\ (k \in claim \/ sess[k] \notin {"claimed", "run"})

\* destroy_drainer_session: a failure or a refusal leaves everything as it is.
DestroySession(k) ==
  \/ UNCHANGED rowVars
  \/ /\ sess[k] = "none"
     /\ CancelUnbound(k)
     /\ UNCHANGED <<job, sess, guest, claim>>
  \/ /\ Cleanable(k)
     /\ CleanUp(k)
     /\ UNCHANGED <<job, permit, sess>>
  \/ /\ ~HasUnknown(k) /\ ~Bound(k)
     /\ sess[k] \in {"queued", "claimed"}
     /\ sess' = [sess EXCEPT ![k] = IF @ = "queued" THEN "dropped" ELSE "lost"]
     /\ permit' = [permit EXCEPT ![k] = IF sess[k] = "queued" THEN "settled" ELSE @]
     /\ UNCHANGED <<job, guest, claim>>

Destroy(w) ==
  /\ At(w, "destroy")
  /\ DestroySession(Key(w))
  /\ Advance(w, Done(cyc[w]))
  /\ UNCHANGED <<status, envVars>>

\* An exception of a handler ends the workflow.
Fail(w) ==
  /\ Alive(w, "fail")
  /\ status' = [status EXCEPT ![w] = "error"]
  /\ cyc' = [cyc EXCEPT ![w] = Fresh]
  /\ UNCHANGED <<rowVars, late, envVars, faults>>

\* retry_stranded_drainer_cleanups, at the start of any cycle.
RetryCleanup(k) ==
  /\ k \in claim
  /\ DestroySession(k)
  /\ UNCHANGED <<status, cyc, late, envVars, faults>>

\* The guest cleanup sweep takes only settled sessions.
SweepGuest(k) ==
  /\ sess[k] \in {"done", "failed", "error"} /\ permit[k] = "settled"
  /\ Cleanable(k)
  /\ CleanUp(k)
  /\ UNCHANGED <<status, job, permit, sess, cyc, late, envVars, faults>>

\* Mutant: a started session does not keep the reservation.
LostStarted ==
  {k \in Keys : permit[k] \in {"reserved", "running"} /\ status[k[1]] \in Terminal}
\* Mutant: a queued session does not keep it.
LostQueued ==
  {k \in Keys : permit[k] = "reserved" /\ status[k[1]] \in Terminal}
\* Mutant: a cancelled owner is not one that ended.
LostUncancelled ==
  {k \in Keys : permit[k] = "reserved" /\ sess[k] = "none" /\ status[k[1]] \in {"success", "error"}}

\* settle_lost_drainer_reservations, at the start of any cycle: reservations of
\* ended workflows that never queued a turn, with the leases of those workflows.
Lost ==
  {k \in Keys : permit[k] = "reserved" /\ sess[k] = "none" /\ status[k[1]] \in Terminal}
SweepLost ==
  \E L \in SUBSET Lost :
    /\ L # {}
    /\ permit' = [k \in Keys |-> IF k \in L THEN "settled" ELSE permit[k]]
    /\ job' = [j \in Jobs |->
         IF job[j].held = NoFlow /\ <<job[j].lease, j>> \in L
         THEN [job[j] EXCEPT !.lease = NoFlow] ELSE job[j]]
    /\ UNCHANGED <<status, sess, guest, claim, cyc, late, envVars, faults>>

----------------------------------------------------------------------------
(* The executor of a turn, as far as a drain cycle sees it (TurnExecution) *)

ExecVars == <<status, job, claim, cyc, late, envVars, faults>>

ExecClaim(k) ==
  /\ sess[k] = "queued" /\ permit[k] = "reserved" /\ k \notin claim
  /\ sess' = [sess EXCEPT ![k] = "claimed"]
  /\ UNCHANGED <<permit, guest, ExecVars>>

\* recheck, the guest's creation and the POST.
ExecStart(k) ==
  /\ sess[k] = "claimed" /\ permit[k] = "reserved"
  /\ sess' = [sess EXCEPT ![k] = "run"]
  /\ permit' = [permit EXCEPT ![k] = "running"]
  /\ guest' = [guest EXCEPT ![k] = "run"]
  /\ UNCHANGED ExecVars

\* A result; one without a native outcome ("odd", a provider's api_error) leaves
\* the permit uncertain.
ExecAnswer(k) ==
  /\ sess[k] = "run"
  /\ \E o \in {"done", "odd"} :
       /\ sess' = [sess EXCEPT ![k] = o]
       /\ permit' = [permit EXCEPT ![k] = IF o = "done" THEN "settled" ELSE "uncertain"]
  /\ guest' = [guest EXCEPT ![k] = "idle"]
  /\ UNCHANGED ExecVars

\* An error turn: the guest is taken to be out of the way ("failed"), or it is
\* not ("error"), or the turn itself is of unknown outcome ("unknown").  A prompt
\* given up as session_gone on a restored guest may go on under its settled permit
\* ("stray").  Without a guest, the outcome may be one that does not show that
\* there never was any ("untraced").
ExecError(k) ==
  /\ sess[k] \in {"claimed", "run"}
  /\ \E o \in {"failed", "error", "unknown"} :
       /\ sess' = [sess EXCEPT ![k] = o]
       /\ permit' = [permit EXCEPT ![k] = IF o = "failed" THEN "settled" ELSE "uncertain"]
       /\ \E g \in {guest[k], "idle", "stray", "untraced"} :
            /\ \/ g = guest[k] /\ ~(g = "run" /\ o = "failed")
               \/ g \in {"idle", "stray"} /\ guest[k] = "run" /\ o = "failed"
               \/ g = "untraced" /\ guest[k] = "none" /\ o # "failed"
            /\ guest' = [guest EXCEPT ![k] = g]
  /\ UNCHANGED ExecVars

\* A guest nobody waits for stops, and is evicted in the end; its record then
\* proves the end of the invocation or does not ("mute").
GuestStops(k) ==
  /\ \/ /\ guest[k] = "run" /\ sess[k] # "run"
        /\ \E g \in {"idle", "mute"} : guest' = [guest EXCEPT ![k] = g]
     \/ /\ guest[k] = "stray"
        /\ guest' = [guest EXCEPT ![k] = "idle"]
  /\ UNCHANGED <<permit, sess, ExecVars>>

----------------------------------------------------------------------------
(* Who settles an uncertain permit, and who releases a held job *)

\* Mutant: no proof that the guest stopped.
CeasedUnproved(k) == TRUE

\* _record, _record_no_guest: the record of the guest proves the end of the
\* invocation, or nothing was ever bound.  missing_invoke_completion and
\* cessation_precedes_turn ("mute"), prior_binding_evidence and unrecognised_outcome
\* ("untraced") are refused at every sweep.
Ceased(k) == guest[k] \in {"none", "idle"}

\* Permit supervision settles the permit of a job that is not held (Reconcile is
\* the way of a held one).  _identity wants a turn that ended in an error.
Supervise(k) ==
  /\ permit[k] \in {"uncertain", "waived"} /\ sess[k] \in {"error", "unknown"}
  /\ ~HeldFor(k) /\ k \notin claim
  /\ Ceased(k)
  /\ permit' = [permit EXCEPT ![k] = "settled"]
  /\ UNCHANGED <<sess, guest, ExecVars>>

\* The holds routine_reconciliation accepts: a delivery error or an unknown
\* turn; a project job always with its uncertain permit.
Reconcilable(k) ==
  /\ \/ sess[k] = "error" /\ permit[k] = "uncertain"
     \/ sess[k] = "unknown"
  /\ k[2] \in KG \/ permit[k] = "uncertain"

\* The only reservation of its job, waived ones included.
Sole(k) == \A q \in Active : q[2] = k[2] => q = k

\* By an operator, or by permit supervision: the bound guest has stopped, or an
\* unknown turn is proved to have had none.
Reconcile(k) ==
  /\ HeldFor(k) /\ Reconcilable(k) /\ Sole(k)
  /\ \/ guest[k] \in {"idle", "mute"}
     \/ guest[k] = "none" /\ sess[k] = "unknown" /\ permit[k] = "uncertain"
  /\ status[k[1]] \in Settled
  /\ permit' = [permit EXCEPT ![k] = "settled"]
  /\ guest' = [guest EXCEPT ![k] = IF @ = "none" THEN @ ELSE "cleared"]
  /\ claim' = claim \ {k}
  /\ \E next \in {"due", "never"} :
       job' = [job EXCEPT ![k[2]].held = NoFlow, ![k[2]].next = next]
  /\ UNCHANGED <<status, sess, cyc, late, envVars, faults>>

\* _recover_review: the operator accepts duplicate work and has the fact review
\* run again.  Without proof that the guest stopped, the old permit stays charged.
RecoverReview(k) ==
  /\ k[2] \in Review /\ HeldFor(k)
  /\ sess[k] = "unknown" /\ permit[k] = "uncertain" /\ Bound(k) /\ k \notin claim
  /\ Sole(k)
  /\ status[k[1]] \in Settled
  /\ \E p \in {"waived", "settled"} :
       /\ p = "settled" => Ceased(k)
       /\ permit' = [permit EXCEPT ![k] = p]
  /\ job' = [job EXCEPT ![k[2]].held = NoFlow, ![k[2]].next = "due"]
  /\ UNCHANGED <<status, sess, guest, claim, cyc, late, envVars, faults>>

----------------------------------------------------------------------------
(* The reaper of stale cycles *)

\* Quarantine: every unknown session of w must end up with its job held.
Unknowns(w) == {k \in Keys : k[1] = w /\ HasUnknown(k)}
Quarantinable(w) == \A k \in Unknowns(w) : job[k[2]].lease = w \/ HeldFor(k)

CancelStale(w) ==
  /\ faults < MaxFaults
  /\ Quarantinable(w)
  /\ job' = [j \in Jobs |-> IF <<w, j>> \in Unknowns(w) THEN Hold(job, <<w, j>>)[j] ELSE job[j]]
  /\ status[w] = "draining" /\ status' = [status EXCEPT ![w] = "cancelled"]
  /\ \E C \in SUBSET {k \in Keys : k[1] = w /\ Cleanable(k)} : \E R \in SUBSET C :
       /\ claim' = (claim \cup C) \ R
       /\ guest' = [k \in Keys |-> IF k \in R THEN "cleared" ELSE guest[k]]
  /\ late' = late \cup {w}
  /\ faults' = faults + 1
  /\ UNCHANGED <<permit, sess, cyc, envVars>>

\* Cancelled with the stale predecessor that started it: neither its unknown
\* sessions nor its guests are looked at.
CancelChild(w) ==
  /\ faults < MaxFaults
  /\ status[w] = "draining" /\ status' = [status EXCEPT ![w] = "cancelled"]
  /\ late' = late \cup {w}
  /\ faults' = faults + 1
  /\ UNCHANGED <<rowVars, cyc, envVars>>

\* DBOS gives up on a workflow that was recovered too often
\* (MAX_RECOVERY_ATTEMPTS_EXCEEDED).
Expire(w) ==
  /\ status[w] = "draining" /\ faults < MaxFaults
  /\ status' = [status EXCEPT ![w] = "exceeded"]
  /\ cyc' = [cyc EXCEPT ![w] = Fresh]
  /\ faults' = faults + 1
  /\ UNCHANGED <<rowVars, late, envVars>>

----------------------------------------------------------------------------
(* Around the fleet *)

\* trigger_job re-arms an idle row unless it is held.
Trigger(j) ==
  /\ job[j].next = "never" /\ job[j].held = NoFlow
  /\ job' = [job EXCEPT ![j].next = "due"]
  /\ UNCHANGED <<status, permit, sess, guest, claim, cyc, late, envVars, faults>>

\* Interactive turns share the pool, and only its total.
Interactive ==
  /\ fg \/ InUse < TotalLimit
  /\ fg' = ~fg
  /\ UNCHANGED <<status, rowVars, cyc, late, burst, faults>>

BurstEnds ==
  /\ burst /\ burst' = FALSE
  /\ UNCHANGED <<status, rowVars, cyc, late, fg, faults>>

----------------------------------------------------------------------------
CycleStep(w) ==
  \/ BeginCycle(w) \/ EndLoop(w) \/ Gate(w) \/ Build(w)
  \/ StartSession(w) \/ StartFails(w) \/ AwaitTurn(w) \/ FinishJob(w)
  \/ Increment(w) \/ DeferJob(w) \/ HoldJob(w) \/ CancelReservation(w)
  \/ Destroy(w) \/ Fail(w)

DrainNext ==
  \/ \E w \in Flows : CycleStep(w) \/ CancelStale(w) \/ CancelChild(w) \/ Expire(w)
  \/ \E w \in Flows, j \in Jobs : ClaimJob(w, j)
  \/ \E k \in Keys : \/ RetryCleanup(k) \/ SweepGuest(k)
                     \/ ExecClaim(k) \/ ExecStart(k) \/ ExecAnswer(k) \/ ExecError(k)
                     \/ GuestStops(k) \/ Supervise(k) \/ Reconcile(k)
                     \/ RecoverReview(k)
  \/ \E j \in Jobs : Trigger(j)
  \/ SweepLost \/ Interactive \/ BurstEnds

DrainSpec == DrainInit /\ [][DrainNext]_drainVars

\* DBOS runs a cycle's next step, the sweeps and the supervisor come round, an
\* executor finishes its turn and a guest nobody waits for stops.  Restarts,
\* cancellations, operators and refused deletes owe nothing.
FairDrainSpec ==
  /\ DrainSpec
  /\ \A w \in Flows : WF_drainVars(CycleStep(w))
  /\ WF_drainVars(SweepLost)
  /\ \A k \in Keys : /\ WF_drainVars(ExecClaim(k))
                     /\ WF_drainVars(ExecStart(k))
                     /\ WF_drainVars(ExecAnswer(k))
                     /\ WF_drainVars(GuestStops(k))
                     /\ WF_drainVars(Supervise(k))

----------------------------------------------------------------------------
Permits == {"none", "reserved", "running", "uncertain", "waived", "settled"}
Sessions == {"none", "queued", "claimed", "run", "done", "odd", "failed", "error", "unknown",
             "dropped", "lost"}
Guests == {"none", "untraced", "run", "stray", "idle", "mute", "cleared"}

\* Every variable has its type, and a cycle claims at most max_jobs_per_cycle jobs.
DrainTypeOK ==
  /\ status \in [Flows -> {"queued", "draining"} \cup Terminal]
  /\ job \in [Jobs -> [next : {"due", "never", "gone"},
                       lease : Flows \cup {NoFlow}, held : Flows \cup {NoFlow}, tries : Nat]]
  /\ permit \in [Keys -> Permits] /\ sess \in [Keys -> Sessions] /\ guest \in [Keys -> Guests]
  /\ claim \subseteq Keys
  /\ late \subseteq Flows
  /\ fg \in BOOLEAN /\ burst \in BOOLEAN
  /\ faults \in 0 .. MaxFaults
  /\ \A w \in Flows : cyc[w].job \in Jobs \cup {NoJob} /\ cyc[w].n \in 0 .. MaxJobs

\* Of two starts of one job, one is an old one that an operator waived.
Recomputed(k, q) ==
  \/ permit[k] = "waived" /\ permit[q] # "waived"
  \/ permit[q] = "waived" /\ permit[k] # "waived"

\* Keys that count against the allowance.
Spent == {k \in KgKeys : sess[k] # "none" \/ k \in Active}

(* Session, permit and guest of a key agree at every commit, whoever made it:   *)
(* a queued message keeps its reservation and a running turn its permit until   *)
(* the executor is done with them, and a guest that may be working belongs to   *)
(* a turn that runs or failed with its permit retained (a "stray" one, whose    *)
(* permit session_gone settled, excepted).  Two permits of one job are an old   *)
(* one an operator waived and its recomputation.  With the limits, this is what *)
(* the steps of all the actors preserve.                                        *)
PermitInv ==
  /\ permit \in [Keys -> Permits] /\ sess \in [Keys -> Sessions] /\ guest \in [Keys -> Guests]
  /\ fg \in BOOLEAN
  /\ \A k \in Keys :
       /\ permit[k] = "none" => sess[k] = "none"
       /\ sess[k] \in {"queued", "claimed"} => permit[k] = "reserved"
       /\ sess[k] = "run" => permit[k] = "running"
       /\ permit[k] = "waived" => k[2] \in Review /\ sess[k] = "unknown"
       /\ guest[k] = "run" => sess[k] \in {"run", "error", "unknown"} /\ k \in Active
  /\ \A k, q \in Active : k # q /\ k[2] = q[2] => Recomputed(k, q)
  /\ InUse <= TotalLimit
  /\ Cardinality(Active \cap KgKeys) <= KgLimit
  /\ Cardinality(Spent) <= BaseCap + BurstJobs

(* One job never has two starts in the pool, and never two guests that may be  *)
(* working on it: not after a replayed claim, a lost owner's lease was given    *)
(* back while its last step was still running, or an unknown turn.  The code    *)
(* has two exceptions.  An operator may have the fact review recomputed, and    *)
(* then exactly one old attempt, whose permit stays charged, runs beside the    *)
(* new one; a "stray" guest is not counted.                                     *)
JobRunsAlone ==
  \A k, q \in Keys : k # q /\ k[2] = q[2] =>
    /\ k \in Active /\ q \in Active => k[2] \in Review /\ Recomputed(k, q)
    /\ guest[k] = "run" /\ guest[q] = "run" => k[2] \in Review /\ Recomputed(k, q)

(* A guest that may be working is paid for: its permit is in the pool, and the *)
(* pool, with everyone else's starts, stays within its limits.  Only a prompt   *)
(* given up as session_gone on a restored guest ("stray") works for nothing.    *)
PoolHolds ==
  /\ \A k \in Keys : guest[k] = "run" => k \in Active
  /\ InUse <= TotalLimit
  /\ Cardinality(Active \cap KgKeys) <= KgLimit

(* Sessions created and starts still to be bound never exceed the allowance,   *)
(* however claims, replays, refunds and ending bursts interleave.               *)
AllowanceHolds == Used + Unbound <= BaseCap + BurstJobs

\* Permit supervision refuses the permit of k at every sweep: the turn is no error
\* turn, or nothing proves that its guest ended or that it never had one.
Refused(k) == sess[k] = "odd" \/ guest[k] \in {"mute", "untraced"}

(* A permit a drain cycle took comes back, wherever the cycle was stopped or    *)
(* cancelled, with three exceptions: its job is held for an operator, the cycle *)
(* deleted the message under an executor that had claimed it (settled by        *)
(* nobody), or permit supervision refuses it for good.                          *)
PermitsReturn ==
  \A k \in Keys :
    k \in Active ~> (permit[k] = "settled" \/ HeldFor(k) \/ sess[k] = "lost" \/ Refused(k))

(* A held job has somebody who can release it: the operator's reconciliation    *)
(* accepts the attempt the job is held for.  (It never accepts a result without *)
(* a native outcome, which is left out here.)                                   *)
HeldJobHasOwner ==
  \A k \in Keys : HeldFor(k) /\ sess[k] # "odd" => Reconcilable(k)

=============================================================================
