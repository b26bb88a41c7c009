---------------------------- MODULE TurnExecution ----------------------------
(***************************************************************************)
(* The executors that run a session's turns on guests, and the sweeps that *)
(* recover what they leave behind.  Source: mcp.py, transport.py,          *)
(* execution_api.py, guest_cleanup.py and permit_supervision.py in         *)
(* projects/monolith/factory/execution.                                    *)
(*                                                                         *)
(* Executors live in replicas that crash, are cancelled by a rollout or    *)
(* stall past their lease.  The guest and the network are the environment: *)
(* a POST may be refused, answered, answered after nobody waits any more,  *)
(* or lost, and the guest's result callback may arrive late or never.      *)
(***************************************************************************)
EXTENDS TurnStore

CONSTANTS
  FaultBound,     \* bound: faults of the environment in one behaviour
  Budget          \* bound: faults and messages together

ASSUME ExecutionAssumption == {FaultBound, Budget} \subseteq Nat

VARIABLES
  ex,     \* executor -> where its delivery stands
  wire,   \* POST -> what became of it on the network and in the guest
  guest,  \* guest -> its state at the control plane
  obs,    \* POST -> the coroutine waiting for its response
  rec,    \* the seq a zombie recovery has claimed, or 0
  reap,   \* the workflow reaper: its step and the fence it has released
  over,   \* the owning workflow has ended
  stray,  \* history: POSTs to a restored guest given up as session_gone
  faults  \* how many faults there have been

execVars == <<ex, wire, guest, obs, rec, reap, over, stray>>
turnVars == <<sess, pend, turn, permit, rc,
              ex, wire, guest, obs, rec, reap, over, stray, faults>>

\* cur: the receipt of the POST being made; last: the invocation record's
\* receipt, which names the last attempted POST.
Idle == [pc |-> "idle", seq |-> 0, dispatch |-> 0, cur |-> 0, last |-> 0,
         attempted |-> FALSE, held |-> FALSE, reused |-> FALSE, polling |-> FALSE,
         arm |-> "plain", why |-> "none"]
Done == [Idle EXCEPT !.pc = "done"]
Active == {e \in Executors : ex[e].pc \notin {"idle", "done"}}

Steps == {"idle", "claimed", "ready", "prepared", "promoted", "admitted", "posted",
          "answered", "won", "failed", "interrupted", "done"}
Failures == {"none", "not_invoked", "brick_gone", "session_gone", "guest_error",
             "lost", "unavailable"}
\* turned: refused before the guest was called; dead: the guest is gone.
Fates == {"none", "sent", "running", "refused", "turned", "dead"} \cup Bodies
GuestStates == {"unborn", "up", "banked", "gone"}

\* Every variable keeps to its type.
TurnTypeOK ==
  /\ StoreTypeOK
  /\ ex \in [Executors -> [pc : Steps, seq : 0 .. MaxSeq,
                           dispatch : 0 .. MaxDispatches,
                           cur : 0 .. MaxPosts, last : 0 .. MaxPosts,
                           attempted : BOOLEAN, held : BOOLEAN,
                           reused : BOOLEAN, polling : BOOLEAN,
                           arm : {"plain", "brick", "gone"}, why : Failures]]
  /\ wire \in [Posts -> Fates]
  /\ guest \in [Guests -> GuestStates]
  /\ obs \in [Posts -> {"none", "waiting", "cut", "done"}]
  /\ rec \in 0 .. MaxSeq
  /\ reap \in [pc : {"idle", "released", "cleaning"}, fence : 0 .. MaxPosts]
  /\ over \in BOOLEAN
  /\ stray \subseteq Posts
  /\ faults \in 0 .. FaultBound

TurnInit ==
  /\ StoreInit
  /\ ex = [e \in Executors |-> Idle]
  /\ wire = [r \in Posts |-> "none"]
  /\ guest = [g \in Guests |-> IF g = sess.guest THEN "up" ELSE "unborn"]
  /\ obs = [r \in Posts |-> "none"]
  /\ rec = 0
  /\ reap = [pc |-> "idle", fence |-> 0]
  /\ over = FALSE
  /\ stray = {}
  /\ faults = 0

OnGuest(r, g) == r \in Used /\ rc[r].guest = g

\* The prompt of POST r is running in a guest, or may still start there.
Live(r) == wire[r] \in {"sent", "running"}

Fail(e, why) ==
  ex' = [ex EXCEPT ![e].pc = "failed", ![e].why = why]

------------------------------------------------------------------------------
(* An executor's delivery: claim, bind, prepare, admit, POST.              *)

\* The operator, or the workflow, sends a message.
Enqueue ==
  \E s \in Seqs :
    /\ ~over
    /\ s + faults <= Budget
    /\ CreatePending(s)
    /\ UNCHANGED execVars

Claim(e) ==
  \E s \in Seqs :
    /\ e = Cardinality({f \in Executors : ex[f].pc # "idle"}) + 1
    /\ ClaimPending(s, e)
    /\ ex' = [ex EXCEPT ![e] = [Idle EXCEPT !.pc = "claimed", !.seq = s,
                                            !.dispatch = pend'[s].dispatches]]
    /\ UNCHANGED <<wire, guest, obs, rec, reap, over, stray>>

ClaimUnpermitted ==
  \E s \in Seqs : ClaimFindsAttempt(s) /\ UNCHANGED execVars

NextGuest == Cardinality({g \in Guests : guest[g] # "unborn"}) + 1
NewGuest ==
  /\ NextGuest \in Guests
  /\ guest' = [guest EXCEPT ![NextGuest] = "up"]

\* _deliver reuses the bound guest, or creates one and persists the binding.
Bind(e) ==
  /\ ex[e].pc = "claimed"
  /\ \/ /\ sess.guest # 0
        /\ ex' = [ex EXCEPT ![e].pc = "ready", ![e].reused = TRUE]
        /\ UNCHANGED <<sess, guest>>
     \/ /\ sess.guest = 0
        /\ NewGuest
        /\ IF Sendable /\ GuestReusable
             THEN BindGuest(NextGuest) /\ ex' = [ex EXCEPT ![e].pc = "ready"]
             ELSE Fail(e, "not_invoked") /\ UNCHANGED sess
  /\ UNCHANGED <<pend, turn, permit, rc, wire, obs, rec, reap, over, stray>>

\* What a refused admission or a refused receipt is raised as.
AdmissionRefused(e) ==
  IF ~ex[e].attempted THEN "not_invoked"
  ELSE IF ex[e].arm = "gone" THEN "session_gone" ELSE "lost"
ReceiptRefused(e) == IF ex[e].attempted THEN "lost" ELSE "not_invoked"

NextPost == Cardinality(Used) + 1

\* The first admission check and prepare_receipt.  Recheck marks the permit
\* running before the receipt is prepared.
Prepare(e) ==
  LET s == ex[e].seq
      running == [state |-> "running", owner |-> e]
      r == NextPost
  IN
  /\ ex[e].pc = "ready"
  /\ r \in Posts
  /\ IF Recheck(s, e)
       THEN /\ permit' = [permit EXCEPT ![s] = running]
            /\ IF PreparationOwner(s, e, ex[e].dispatch, running)
                 THEN /\ rc' = Prepared(r, s, e, ex[e].dispatch)
                      /\ ex' = [ex EXCEPT ![e].pc = "prepared", ![e].cur = r,
                                  ![e].last = IF Staged THEN @ ELSE r]
                 ELSE Fail(e, ReceiptRefused(e)) /\ UNCHANGED rc
       ELSE Fail(e, AdmissionRefused(e)) /\ UNCHANGED <<permit, rc>>
  /\ UNCHANGED <<sess, pend, turn, wire, guest, obs, rec, reap, over, stray>>

\* post(): the second check and, when staged, the promotion that publishes the
\* attempt.  The hand-off guard keeps a hold from being written in between.
Promote(e) ==
  LET r == ex[e].cur IN
  /\ Staged
  /\ ex[e].pc = "prepared"
  /\ IF ~Recheck(ex[e].seq, e)
       THEN Fail(e, AdmissionRefused(e)) /\ UNCHANGED rc
       ELSE IF Promotable(r)
         THEN /\ rc' = AttemptPrepared(r)
              /\ ex' = [ex EXCEPT ![e].pc = "promoted", ![e].last = r,
                                  ![e].attempted = TRUE]
         ELSE Fail(e, ReceiptRefused(e)) /\ UNCHANGED rc
  /\ UNCHANGED <<sess, pend, turn, permit,
                 wire, guest, obs, rec, reap, over, stray>>

\* The last admission check before the POST.
Admit(e) ==
  /\ ex[e].pc = IF Staged THEN "promoted" ELSE "prepared"
  /\ IF Recheck(ex[e].seq, e)
       THEN ex' = [ex EXCEPT ![e].pc = "admitted"]
       ELSE Fail(e, AdmissionRefused(e))
  /\ UNCHANGED storeVars
  /\ UNCHANGED <<wire, guest, obs, rec, reap, over, stray>>

\* client.post: a banked guest is relit, one that is gone starts nothing.
Post(e) ==
  LET r == ex[e].cur IN
  /\ ex[e].pc = "admitted"
  /\ ex' = [ex EXCEPT ![e].pc = "posted", ![e].attempted = TRUE,
                      ![e].polling = TRUE]
  /\ wire' = [wire EXCEPT ![r] = IF guest[rc[r].guest] = "gone" THEN "dead" ELSE "sent"]
  /\ guest' = [guest EXCEPT ![rc[r].guest] = IF @ = "gone" THEN @ ELSE "up"]
  /\ obs' = [obs EXCEPT ![r] = "waiting"]
  /\ UNCHANGED storeVars
  /\ UNCHANGED <<rec, reap, over, stray>>

------------------------------------------------------------------------------
(* What the executor makes of the answer (_observe_native_result, _deliver). *)

Posted(e) == ex[e].pc = "posted"
Ended(e) == obs' = [obs EXCEPT ![ex[e].cur] = "done"]

\* original_post returns the guest's result; only one with a native outcome is
\* stamped as observed.
Answer(e) ==
  LET r == ex[e].cur IN
  /\ Posted(e)
  /\ wire[r] \in Bodies
  /\ IF wire[r] \in Usable THEN MarkObserved(r) ELSE MarkObserverReleased(r)
  /\ ex' = [ex EXCEPT ![e].pc = "answered"]
  /\ Ended(e)
  /\ UNCHANGED <<wire, guest, rec, reap, over, stray>>

\* The receipt poll sees the committed result first; the POST keeps waiting.
WinByReceipt(e) ==
  LET r == ex[e].cur IN
  /\ Posted(e)
  /\ ex[e].polling
  /\ rc[r].body \in Usable
  /\ ActiveOwner(r)
  /\ ex' = [ex EXCEPT ![e].pc = "won"]
  /\ UNCHANGED storeVars
  /\ UNCHANGED <<wire, guest, obs, rec, reap, over, stray>>

\* A poll that is refused, or reads a body without a native outcome, stops the
\* adoption, not the POST.
PollRefused(e) ==
  /\ Posted(e)
  /\ ex[e].polling
  /\ ~ActiveOwner(ex[e].cur) \/ rc[ex[e].cur].body = "odd"
  /\ ex' = [ex EXCEPT ![e].polling = FALSE]
  /\ UNCHANGED storeVars
  /\ UNCHANGED <<wire, guest, obs, rec, reap, over, stray>>

\* The POST fails: its observer is released and the receipt is read once more,
\* so that a committed result is not hidden behind a transport retry.
FailedPost(e, Recover) ==
  LET r == ex[e].cur IN
  /\ Posted(e)
  /\ rc' = [rc EXCEPT ![r].released = TRUE]
  /\ IF ex[e].polling /\ rc[r].body \in Usable /\ ActiveOwner(r)
       THEN ex' = [ex EXCEPT ![e].pc = "won"] /\ UNCHANGED <<sess, guest, stray>>
       ELSE Recover
  /\ Ended(e)
  /\ UNCHANGED <<pend, turn, permit, wire, rec, reap, over>>

Raise(e, why) == Fail(e, why) /\ UNCHANGED <<sess, guest, stray>>
Again(e, arm) ==
  /\ ex' = [ex EXCEPT ![e].pc = "ready", ![e].arm = arm]
  /\ UNCHANGED <<sess, guest, stray>>
StatusError(e) == IF ex[e].arm = "gone" THEN "session_gone" ELSE "lost"

\* The control plane refused the POST before it called the guest: the backoff
\* prepares another POST, or gives up.
TurnedAway(e) ==
  /\ Posted(e)
  /\ wire[ex[e].cur] = "turned"
  /\ FailedPost(e, Again(e, ex[e].arm) \/ Raise(e, StatusError(e)))

\* A replacement guest is bound (on_create) and invoked on the given arm.
Replace(e, arm) ==
  /\ NewGuest
  /\ IF Sendable /\ GuestReusable
       THEN /\ BindGuest(NextGuest)
            /\ ex' = [ex EXCEPT ![e].pc = "ready", ![e].arm = arm]
       ELSE /\ Fail(e, "lost")
            /\ UNCHANGED sess
  /\ UNCHANGED stray

\* The brick is gone.  A banked guest is invoked again under its own id, else
\* a new guest takes the prompt.  A second loss is raised.
BrickGone(e) ==
  /\ Posted(e)
  /\ \/ wire[ex[e].cur] = "dead"
     \/ wire[ex[e].cur] \in Bodies /\ guest[rc[ex[e].cur].guest] # "up"
  /\ FailedPost(e,
       CASE ex[e].arm = "plain" ->
              IF guest[rc[ex[e].cur].guest] = "gone" THEN Replace(e, "brick")
                                                    ELSE Again(e, "brick")
         [] ex[e].arm = "brick" -> Raise(e, "brick_gone")
         [] ex[e].arm = "gone" -> Raise(e, "session_gone"))

\* 403 or 410: a reused guest is replaced once by one restored from its lineage.
GuestExpired(e) ==
  /\ Posted(e)
  /\ wire[ex[e].cur] \in {"turned", "dead"}
  /\ FailedPost(e, IF ex[e].arm = "plain" /\ ex[e].reused
                     THEN Replace(e, "gone")
                     ELSE Raise(e, StatusError(e)))

\* The guest itself answered with an error: nothing of the prompt is running.
GuestError(e) ==
  /\ Posted(e)
  /\ wire[ex[e].cur] = "refused"
  /\ FailedPost(e, Raise(e, IF ex[e].arm = "gone" THEN "session_gone"
                                                  ELSE "guest_error"))

\* The response is lost: a timeout or a 502 that says nothing about the guest,
\* or a connection the control plane dropped.  On a guest restored after 403 or
\* 410 the first is raised as session_gone, whatever the guest is doing.
LoseResponse(e) ==
  FailedPost(e,
    \/ Raise(e, "unavailable")
    \/ ex[e].arm # "gone" /\ Raise(e, "lost")
    \/ /\ ex[e].arm = "gone"
       /\ Fail(e, "session_gone")
       /\ stray' = stray \cup {ex[e].cur}
       /\ UNCHANGED <<sess, guest>>)

------------------------------------------------------------------------------
(* How a delivery ends (_do_execute and its finally block).                *)

Finish(e) == ex' = [ex EXCEPT ![e] = Done]

\* _response_lost_eligible
Eligible(e) == ex[e].attempted /\ ~ex[e].held

\* Hold the attempt if the writer allows it, else do what follows a refusal.
HoldOr(e, Otherwise) ==
  LET s == ex[e].seq
      d == ex[e].dispatch
      r == ex[e].last
  IN \/ Eligible(e) /\ MarkResponseLost(s, e, d, r)
     \/ ~(Eligible(e) /\ Holdable(s, e, d, r)) /\ Otherwise

\* The generic arm reads the guest once.  It holds while the guest shows the
\* invocation (or, after a dropped connection, cannot be read) and otherwise
\* records an error without evidence that the guest ceased.
HandleLost(e) ==
  LET error == MarkError(ex[e].seq, e, FALSE, FALSE)
      shown == wire[ex[e].last] \notin {"none", "sent"}
      unread == ex[e].why = "unavailable"
  IN \/ (shown \/ unread) /\ HoldOr(e, error)
     \/ wire[ex[e].last] # "running" /\ error

\* The except arms of _do_execute, each after confirming the claim.
Handle(e) ==
  LET s == ex[e].seq
      why == ex[e].why
      exhausted == ex[e].dispatch >= MaxDispatches
  IN
  /\ ex[e].pc = "failed"
  /\ IF pend[s].owner # e
       THEN Finish(e) /\ UNCHANGED storeVars
       ELSE CASE why = "not_invoked" -> MarkError(s, e, FALSE, TRUE) /\ Finish(e)
              [] why \in {"session_gone", "guest_error"} ->
                   MarkError(s, e, TRUE, FALSE) /\ Finish(e)
              [] why = "brick_gone" /\ exhausted ->
                   MarkError(s, e, TRUE, FALSE) /\ Finish(e)
              [] why = "brick_gone" /\ ~exhausted ->
                   /\ MarkInterrupted(s, e)
                   /\ ex' = [ex EXCEPT ![e].pc = "interrupted"]
              [] why \in {"lost", "unavailable"} -> HandleLost(e) /\ Finish(e)
  /\ UNCHANGED <<wire, guest, obs, rec, reap, over, stray>>

\* The second transaction of the preemption arm.
ReleaseInterrupted(e) ==
  /\ ex[e].pc = "interrupted"
  /\ ReleaseClaim(ex[e].seq, e)
  /\ Finish(e)
  /\ UNCHANGED <<wire, guest, obs, rec, reap, over, stray>>

\* Persist what the POST returned; a lost claim leaves only the release.
PersistAnswer(e) ==
  LET s == ex[e].seq
      body == wire[ex[e].cur]
      owns == ~UnknownOutcome /\ pend[s].owner = e /\ pend[s].dispatches = ex[e].dispatch
  IN
  /\ ex[e].pc = "answered"
  /\ IF owns THEN PersistResponse(s, e, ex[e].dispatch, body)
             ELSE ReleaseClaim(s, e)
  /\ Finish(e)
  /\ UNCHANGED <<wire, guest, obs, rec, reap, over, stray>>

\* Persist the result of the receipt; a refusal is held like a failed write.
PersistWin(e) ==
  LET r == ex[e].cur IN
  /\ ex[e].pc = "won"
  /\ IF ActiveOwner(r) THEN PersistReceipt(r)
                       ELSE HoldOr(e, ReleaseClaim(ex[e].seq, e))
  /\ Finish(e)
  /\ UNCHANGED <<wire, guest, obs, rec, reap, over, stray>>

\* The database refuses the write of a finished turn.
PersistFails(e) ==
  /\ ex[e].pc \in {"answered", "won"}
  /\ HoldOr(e, ReleaseClaim(ex[e].seq, e))
  /\ Finish(e)
  /\ UNCHANGED <<wire, guest, obs, rec, reap, over, stray>>

\* drain_inflight_executors: the hold is written while the delivery still runs.
Handoff(e) ==
  /\ e \in Active
  /\ Eligible(e)
  /\ MarkResponseLost(ex[e].seq, e, ex[e].dispatch, ex[e].last)
  /\ ex' = [ex EXCEPT ![e].held = TRUE]
  /\ UNCHANGED <<wire, guest, obs, rec, reap, over, stray>>

\* The rollout cancels the executor: no POST was made, or the attempt is held.
Cancel(e) ==
  LET s == ex[e].seq IN
  /\ e \in Active
  /\ CASE ex[e].held -> UNCHANGED storeVars
       [] ~ex[e].held /\ ex[e].attempted -> HoldOr(e, ReleaseClaim(s, e))
       [] ~ex[e].held /\ ~ex[e].attempted ->
            IF pend[s].owner = e /\ OwnsPermit(s, e)
              THEN MarkError(s, e, FALSE, TRUE)
              ELSE ReleaseClaim(s, e)
  /\ Finish(e)
  /\ obs' = [r \in Posts |-> IF r = ex[e].cur /\ obs[r] = "waiting"
                               THEN "cut" ELSE obs[r]]
  /\ UNCHANGED <<wire, guest, rec, reap, over, stray>>

\* The replica is killed: nothing is written.
Crash(e) ==
  /\ e \in Active
  /\ Finish(e)
  /\ obs' = [r \in Posts |-> IF r = ex[e].cur THEN "done" ELSE obs[r]]
  /\ UNCHANGED storeVars
  /\ UNCHANGED <<wire, guest, rec, reap, over, stray>>

Heartbeat(e) ==
  /\ e \in Active
  /\ RefreshClaim(ex[e].seq, e)
  /\ UNCHANGED execVars

------------------------------------------------------------------------------
(* The POST a receipt winner or a cancelled executor has left behind.      *)

LeftBehind(r) ==
  /\ obs[r] \in {"waiting", "cut"}
  /\ \A e \in Executors : ~(Posted(e) /\ ex[e].cur = r)

\* It returns, ends without a response, or dies with its replica.
ObserverEnds(r) ==
  /\ LeftBehind(r)
  /\ \/ obs[r] = "waiting" /\ wire[r] \in Usable /\ MarkObserved(r)
     \/ MarkObserverReleased(r)
     \/ UNCHANGED storeVars
  /\ obs' = [obs EXCEPT ![r] = "done"]
  /\ UNCHANGED <<ex, wire, guest, rec, reap, over, stray>>

------------------------------------------------------------------------------
(* Clocks.                                                                 *)

\* The claim goes RECLAIM_LEASE without a refresh: its executor is gone, or it
\* stalls (a fault: the heartbeat comes every third of the lease).
LeaseExpires(stalled) ==
  /\ \E s \in Queued :
       /\ pend[s].fresh
       /\ (pend[s].owner \in Active) = stalled
       /\ pend' = [pend EXCEPT ![s].fresh = FALSE]
  /\ UNCHANGED <<sess, turn, permit, rc>>
  /\ UNCHANGED execVars

HoldExpires ==
  /\ \E s \in Seqs : turn[s].live /\ turn' = [turn EXCEPT ![s].live = FALSE]
  /\ UNCHANGED <<sess, pend, permit, rc>>
  /\ UNCHANGED execVars

AcceptanceEnds(r) ==
  /\ rc[r].open
  /\ rc' = [rc EXCEPT ![r].open = FALSE]
  /\ UNCHANGED <<sess, pend, turn, permit>>
  /\ UNCHANGED execVars

------------------------------------------------------------------------------
(* The guests and the control plane between them and the executors.        *)

\* The guest starts the prompt: one invocation at a time.
GuestStarts(r) ==
  /\ wire[r] = "sent"
  /\ guest[rc[r].guest] = "up"
  /\ \A q \in Posts : OnGuest(q, rc[r].guest) => wire[q] # "running"
  /\ wire' = [wire EXCEPT ![r] = "running"]
  /\ UNCHANGED storeVars
  /\ UNCHANGED <<ex, guest, obs, rec, reap, over, stray>>

\* The turn ends, with or without a native outcome, or fails inside the guest.
GuestEnds(r) ==
  /\ wire[r] = "running"
  /\ \E fate \in {"result", "odd", "refused"} :
       wire' = [wire EXCEPT ![r] = fate]
  /\ UNCHANGED storeVars
  /\ UNCHANGED <<ex, guest, obs, rec, reap, over, stray>>

\* The guest's brick is drained: the turn is interrupted and says so.
GuestDrained(r) ==
  /\ wire[r] = "running"
  /\ wire' = [wire EXCEPT ![r] = "drain"]
  /\ UNCHANGED storeVars
  /\ UNCHANGED <<ex, guest, obs, rec, reap, over, stray>>

\* The control plane refuses the POST without calling the guest.
Refuse(r) ==
  /\ wire[r] = "sent"
  /\ wire' = [wire EXCEPT ![r] = "turned"]
  /\ UNCHANGED storeVars
  /\ UNCHANGED <<ex, guest, obs, rec, reap, over, stray>>

Killed(g) ==
  [r \in Posts |-> IF OnGuest(r, g) /\ Live(r) THEN "dead" ELSE wire[r]]

\* Its brick is preempted: what ran is gone, the guest may be banked.  Or the
\* guest is evicted or destroyed, and its id never returns.
GuestCeases(g) ==
  /\ \/ guest[g] = "up" /\ guest' = [guest EXCEPT ![g] = "banked"]
     \/ guest[g] \in {"up", "banked"} /\ guest' = [guest EXCEPT ![g] = "gone"]
  /\ wire' = Killed(g)
  /\ UNCHANGED storeVars
  /\ UNCHANGED <<ex, obs, rec, reap, over, stray>>

\* The guest's result callback, whenever it gets through.
Capture(r) ==
  /\ wire[r] \in Bodies
  /\ CaptureResult(r, wire[r])
  /\ UNCHANGED execVars

------------------------------------------------------------------------------
(* The sweeps of the leader.                                               *)

ReclaimStale ==
  \E s \in Seqs : Reclaim(s) /\ UNCHANGED execVars

\* _adopt_response_lost_results
Adopt ==
  \E s \in Seqs : AdoptHeld(s) /\ UNCHANGED execVars

\* _recover_terminal_response_lost, _recover_response_lost: the guest has
\* ceased, or the invocation is over and nothing was published.
SettleCeased ==
  \E s \in Seqs :
    LET r == turn[s].receipt IN
    /\ LiveHold(s)
    /\ guest[rc[r].guest] = "gone" \/ wire[r] \in {"result", "odd", "refused"}
    /\ SettleHold(s)
    /\ UNCHANGED execVars

\* The node workflow of a held turn finds its guest drained and parked.
RelayHeldDrain ==
  \E s \in Seqs :
    LET r == turn[s].receipt IN
    /\ LiveHold(s)
    /\ guest[rc[r].guest] # "gone" /\ wire[r] = "drain"
    /\ RelayDrain(s)
    /\ UNCHANGED execVars

\* recover_zombie_session_if_needed: claim, then finalize.
ZombieClaim ==
  \E s \in Seqs :
    /\ rec = 0
    /\ ZombieCandidate(s)
    /\ ClaimRecovery(s)
    /\ rec' = IF s \in Queued /\ pend'[s].queued THEN s ELSE 0
    /\ UNCHANGED <<ex, wire, guest, obs, reap, over, stray>>

ZombieFinalize ==
  /\ rec # 0
  /\ FinalizeRecovery(rec)
  /\ rec' = 0
  /\ UNCHANGED <<ex, wire, guest, obs, reap, over, stray>>

\* The replica is killed between the two transactions.
ZombieAbandon ==
  /\ rec # 0
  /\ rec' = 0
  /\ UNCHANGED storeVars
  /\ UNCHANGED <<ex, wire, guest, obs, reap, over, stray>>

\* The guest has started no prompt: it carries no invoke stamp.
NeverInvoked(g) ==
  /\ ~(sess.earlier /\ g = 1)
  /\ \A r \in Posts : OnGuest(r, g) => wire[r] \in {"none", "sent", "turned"}

\* The same function for a claim that stays fresh over a guest the control
\* plane says was never invoked.
HungClaim ==
  \E s \in Seqs :
    /\ HungCandidate(s)
    /\ guest[sess.guest] # "gone" => NeverInvoked(sess.guest)
    /\ ClaimRecovery(s)
    /\ UNCHANGED execVars

\* permit_supervision: an uncertain permit is settled on evidence that no guest
\* runs its prompt: the bound guest is gone (_record), or the guest was never
\* invoked and no receipt exists (_never_invoked_live_guest, _record_no_guest).
\* _identity wants an idle session whose turn ended in an error: the permit of a
\* result without a native outcome is refused for ever.
Supervise ==
  /\ Queued = {} /\ ~sess.cleanup
  /\ \E s \in Seqs : permit[s].state = "uncertain" /\ turn[s].kind \in {"error", "unknown"}
  /\ \/ sess.guest # 0 /\ guest[sess.guest] = "gone"
     \/ Used = {} /\ sess.fence = 0 /\ ~sess.earlier
  /\ permit' = ConfirmCessation
  /\ UNCHANGED <<sess, pend, turn, rc>>
  /\ UNCHANGED execVars

------------------------------------------------------------------------------
(* The reaper of a workflow's guests (_reap_session_rows).                 *)

WorkflowEnds ==
  /\ ~Interactive /\ ~over
  /\ over' = TRUE
  /\ UNCHANGED storeVars
  /\ UNCHANGED <<ex, wire, guest, obs, rec, reap, stray>>

MayReap == ~Interactive /\ (over \/ SettledForCleanup)

\* First transaction: the fence nobody waits on is released.
ReapRelease ==
  /\ MayReap
  /\ reap.pc = "idle"
  /\ AbandonedFenceReleasable
  /\ sess' = [sess EXCEPT !.fence = 0]
  /\ reap' = [pc |-> "released", fence |-> sess.fence]
  /\ UNCHANGED <<pend, turn, permit, rc>>
  /\ UNCHANGED <<ex, wire, guest, obs, rec, over, stray>>

\* Second transaction: the cleanup claim takes over from the fence.
ReapBegin ==
  /\ MayReap
  /\ reap.pc \in {"idle", "released"}
  /\ sess.cleanup \/ CleanupFree
  /\ sess' = [sess EXCEPT !.cleanup = TRUE]
  /\ reap' = [pc |-> "cleaning", fence |-> 0]
  /\ UNCHANGED <<pend, turn, permit, rc>>
  /\ UNCHANGED <<ex, wire, guest, obs, rec, over, stray>>

\* The claim was refused: the fence goes back unless another has been set.
ReapRestore ==
  /\ reap.pc = "released"
  /\ ~(MayReap /\ CleanupFree)
  /\ sess' = [sess EXCEPT !.fence =
                IF @ = 0 /\ sess.guest = rc[reap.fence].guest THEN reap.fence ELSE @]
  /\ reap' = [pc |-> "idle", fence |-> 0]
  /\ UNCHANGED <<pend, turn, permit, rc>>
  /\ UNCHANGED <<ex, wire, guest, obs, rec, over, stray>>

\* DELETE, and the read that confirms the guest is gone.
ReapDestroy ==
  /\ reap.pc = "cleaning"
  /\ guest[sess.guest] # "gone"
  /\ guest' = [guest EXCEPT ![sess.guest] = "gone"]
  /\ wire' = Killed(sess.guest)
  /\ UNCHANGED storeVars
  /\ UNCHANGED <<ex, obs, rec, reap, over, stray>>

ReapFinish ==
  /\ reap.pc = "cleaning"
  /\ guest[sess.guest] = "gone"
  /\ sess' = FinishCleanup
  /\ reap' = [pc |-> "idle", fence |-> 0]
  /\ UNCHANGED <<pend, turn, permit, rc>>
  /\ UNCHANGED <<ex, wire, guest, obs, rec, over, stray>>

\* The replica that reaps is killed between two of its steps.
ReapCrash ==
  /\ reap.pc # "idle"
  /\ reap' = [pc |-> "idle", fence |-> 0]
  /\ UNCHANGED storeVars
  /\ UNCHANGED <<ex, wire, guest, obs, rec, over, stray>>

------------------------------------------------------------------------------
Executor(e) ==
  \/ Claim(e) \/ Bind(e) \/ Prepare(e) \/ Promote(e) \/ Admit(e) \/ Post(e)
  \/ Answer(e) \/ WinByReceipt(e) \/ PollRefused(e) \/ TurnedAway(e)
  \/ BrickGone(e) \/ GuestExpired(e) \/ GuestError(e) \/ Handle(e) \/ ReleaseInterrupted(e)
  \/ PersistAnswer(e) \/ PersistWin(e)

Rollout(e) == Handoff(e) \/ Cancel(e) \/ Crash(e)

\* What goes wrong outside the protocol; FaultBound limits how often.
Fault ==
  \/ \E e \in Executors : LoseResponse(e) \/ PersistFails(e) \/ Rollout(e)
  \/ \E r \in Posts : Refuse(r) \/ GuestDrained(r)
  \/ \E g \in Guests : GuestCeases(g)
  \/ LeaseExpires(TRUE) \/ ZombieAbandon \/ ReapCrash

Clock ==
  \/ LeaseExpires(FALSE) \/ HoldExpires
  \/ \E r \in Posts : AcceptanceEnds(r)

Network ==
  \E r \in Posts : GuestStarts(r) \/ GuestEnds(r) \/ Capture(r) \/ ObserverEnds(r)

Sweep ==
  \/ ClaimUnpermitted \/ ReclaimStale \/ Adopt \/ SettleCeased \/ RelayHeldDrain
  \/ ZombieClaim \/ ZombieFinalize \/ HungClaim \/ Supervise

Reaper ==
  \/ WorkflowEnds \/ ReapRelease \/ ReapBegin \/ ReapRestore \/ ReapDestroy
  \/ ReapFinish

TurnNext ==
  \/ /\ \/ Enqueue
        \/ \E e \in Executors : Executor(e) \/ Heartbeat(e)
        \/ Network \/ Clock \/ Sweep \/ Reaper
     /\ UNCHANGED faults
  \/ /\ faults < FaultBound
     /\ Cardinality({s \in Seqs : s \in Queued \/ turn[s].kind # "none"}) + faults < Budget
     /\ Fault
     /\ faults' = faults + 1

TurnSpec == TurnInit /\ [][TurnNext]_turnVars

\* A step of the program or of a clock is not put off for ever.  Nothing is
\* asked of the faults, of new messages or of the guest's result callback.
stepVars == <<sess, pend, turn, permit, rc, ex, wire, guest, obs, rec, reap, over>>
TurnFairness ==
  /\ \A e \in Executors : WF_stepVars(Executor(e))
  /\ \A r \in Posts : /\ WF_stepVars(GuestStarts(r)) /\ WF_stepVars(GuestEnds(r))
                      /\ WF_stepVars(ObserverEnds(r)) /\ WF_stepVars(AcceptanceEnds(r))
  /\ WF_stepVars(LeaseExpires(FALSE)) /\ WF_stepVars(HoldExpires)
  /\ WF_stepVars(ClaimUnpermitted) /\ WF_stepVars(ReclaimStale) /\ WF_stepVars(ZombieFinalize)

FairTurnSpec == TurnSpec /\ TurnFairness

------------------------------------------------------------------------------
(* Properties.                                                             *)

\* While a guest runs a prompt, or may still start it, the permit of its turn is
\* not settled.  The code has one exception, which the property names: a POST whose
\* response was lost on a guest restored after 403 or 410 is reported as
\* session_gone, and that settles the permit as if the prompt had ceased.
PermitCoversRun ==
  \A r \in Posts \ stray :
    Live(r) => permit[rc[r].seq].state \in {"running", "uncertain"}

\* The same without the exception, as admission.py's header claims it; false.
PermitCoversEveryRun ==
  \A r \in Posts : Live(r) => permit[rc[r].seq].state \in {"running", "uncertain"}

\* At most one POST of the session is running or may still start.  A prompt given
\* up as session_gone on a restored guest is not counted: the session is free, and
\* its next message is posted while that prompt may still run.
OneLivePost == \A q, r \in Posts \ stray : Live(q) /\ Live(r) => q = r

\* The same without the exception; false.
PostsNeverOverlap == \A q, r \in Posts : Live(q) /\ Live(r) => q = r

\* A hold wins against a late preparation or promotion of the same dispatch: the
\* receipt it names is never superseded while the hold lives.
HoldKeepsReceipt == \A s \in Seqs : LiveHold(s) => ~rc[turn[s].receipt].superseded

\* The turn of a live hold whose usable result is committed is discarded in this
\* step.
Discarded(s) ==
  /\ LiveHold(s) /\ rc[turn[s].receipt].body \in Usable
  /\ turn'[s].kind \in {"error", "unknown"}

\* Once a usable result is committed for a live hold, it is adopted: nothing turns
\* that message into an error or an unknown.
CommittedResultWins == [][\A s \in Seqs : ~Discarded(s)]_turnVars

\* No sweep, reaper or other executor discards the committed result of a live
\* hold if that result has a native outcome; only the executor the hold was
\* written over can still do it.  A committed body without a native outcome is
\* not covered: the adopting sweep itself turns it into an unknown.
SweepsKeepCommittedResult ==
  [][\A s \in Seqs : Discarded(s) =>
       \E e \in Executors : pend[s].owner = e /\ ex[e].pc = "failed"]_turnVars

\* For the caller a result without a native outcome is an error.
Phase(s) ==
  CASE turn[s].kind \in Final -> IF turn[s].kind = "odd" THEN "error" ELSE turn[s].kind
    [] turn[s].kind \notin Final /\ pend[s].queued ->
         IF pend[s].owner = None THEN "waiting" ELSE "inflight"
    [] OTHER -> "absent"

Contract ==
  INSTANCE TurnContract WITH
    phase <- [s \in Seqs |-> Phase(s)],
    tries <- [s \in Seqs |-> pend[s].dispatches],
    live <- {s \in Seqs : \E r \in Posts \ stray : Live(r) /\ rc[r].seq = s},
    charged <- {s \in Seqs : permit[s].state \in {"reserved", "running", "uncertain"}}

\* The executors, sweeps and reapers together keep the contract of TurnContract,
\* in which a prompt given up as session_gone on a restored guest counts as
\* stopped.
ImplementsContract == Contract!Spec

\* Zombie recovery has claimed a session that never had a turn and was stopped
\* before its second transaction: the session stays recovering, which no sweep and
\* no claim takes up again.
Stranded ==
  /\ sess.status = "recovering" /\ rec = 0 /\ NeverTurned
  /\ \A s \in Queued : pend[s].owner = None

\* No session is stranded; false.
NeverStranded == ~Stranded

\* Every message an interactive session accepts leaves the queue with an outcome,
\* unless an outcome nobody can know stops the session for the operator or a
\* stopped zombie recovery has stranded it.
EveryMessageEnds ==
  \A s \in Seqs : Interactive /\ s \in Queued
    ~> (s \notin Queued \/ UnknownOutcome \/ Stranded)
==============================================================================
