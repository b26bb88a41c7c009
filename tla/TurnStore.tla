------------------------------ MODULE TurnStore ------------------------------
(***************************************************************************)
(* The durable rows of one agent session of the monolith's turn execution: *)
(* the session row, its queue of pending messages, its turns, the capacity *)
(* permits of its turns and the native result receipts of its invocations. *)
(* Source: store.py, result_receipts.py and admission.py in                *)
(* projects/monolith/factory/execution.                                    *)
(*                                                                         *)
(* Each operator below that primes a variable is the body of one           *)
(* transaction; module TurnExecution says who runs it and when.            *)
(***************************************************************************)
EXTENDS Naturals, FiniteSets

CONSTANTS
  MaxClaims,      \* bound: executor runs, each with a claim owner of its own
  MaxSeq,         \* bound: messages the session is sent
  MaxDispatches,  \* MAX_PENDING_DISPATCHES
  MaxPosts,       \* bound: receipts, one per invoke POST that is prepared
  MaxGuests,      \* bound: guests the session is given
  Kinds,          \* "interactive", "workflow": who may own the session
  Staged          \* staged receipt preparation is on

\* Executors, receipts and guests are numbered in the order they appear.
Executors == 1 .. MaxClaims
None == 0
Seqs == 1 .. MaxSeq
Posts == 1 .. MaxPosts
Guests == 1 .. MaxGuests

ASSUME TurnAssumption ==
  /\ {MaxClaims, MaxSeq, MaxPosts, MaxGuests} \subseteq Nat
  /\ MaxDispatches \in Nat \ {0}
  /\ Kinds \subseteq {"interactive", "workflow"}
  /\ Staged \in BOOLEAN

VARIABLES
  sess,    \* the session row; guest and fence are 0 when NULL
  pend,    \* seq -> pending message; fresh: claimed within RECLAIM_LEASE
  turn,    \* seq -> turn row; live: its hold has not reached hold_until
  permit,  \* seq -> capacity reservation of (session, seq)
  rc       \* receipts, numbered in the order they are prepared

storeVars == <<sess, pend, turn, permit, rc>>

NoMessage == [queued |-> FALSE, owner |-> None, dispatches |-> 0, fresh |-> FALSE]
NoTurn == [kind |-> "none", grant |-> 0, receipt |-> 0, live |-> FALSE]
NoReceipt ==
  [seq |-> 0, owner |-> None, dispatch |-> 0, guest |-> 0, superseded |-> FALSE,
   phase |-> "unused", body |-> "none", observed |-> FALSE,
   released |-> FALSE, open |-> FALSE]

\* Turn rows whose terminal_reason is an interruption may be replaced; the
\* others are final.
Interruptions == {"preempted", "drained", "held"}
Final == {"done", "odd", "error", "unknown"}

\* What an invocation ends with: a native result, a drained turn, or a result whose
\* terminal_reason names no native outcome (a provider's api_error).
Bodies == {"result", "drain", "odd"}

\* completed, captured_turn: the results a receipt's reader accepts.
Usable == {"result", "drain"}

StoreTypeOK ==
  /\ sess \in [kind : Kinds, earlier : BOOLEAN,
               status : {"running", "recovering", "ended", "failed"},
               guest : 0 .. MaxGuests, fence : 0 .. MaxPosts,
               cleanup : BOOLEAN, recovered : BOOLEAN]
  /\ pend \in [Seqs -> [queued : BOOLEAN, owner : Executors \cup {None},
                        dispatches : 0 .. MaxDispatches, fresh : BOOLEAN]]
  /\ turn \in [Seqs -> [kind : {"none"} \cup Interruptions \cup Final,
                        grant : 0 .. MaxDispatches, receipt : 0 .. MaxPosts,
                        live : BOOLEAN]]
  /\ permit \in [Seqs -> [state : {"none", "reserved", "running", "uncertain",
                                   "settled"},
                          owner : Executors \cup {None}]]
  /\ rc \in [Posts -> [seq : 0 .. MaxSeq, owner : Executors \cup {None},
                       dispatch : 0 .. MaxDispatches, guest : 0 .. MaxGuests,
                       superseded : BOOLEAN,
                       phase : {"unused", "prepared", "attempted"},
                       body : {"none"} \cup Bodies, observed : BOOLEAN,
                       released : BOOLEAN, open : BOOLEAN]]

\* A new session, or one whose earlier turns are settled and have left it a guest.
StoreInit ==
  /\ \E kind \in Kinds, earlier \in BOOLEAN :
       sess = [kind |-> kind, earlier |-> earlier,
               status |-> IF earlier THEN "ended" ELSE "running",
               guest |-> IF earlier THEN 1 ELSE 0, fence |-> 0,
               cleanup |-> FALSE, recovered |-> FALSE]
  /\ pend = [s \in Seqs |-> NoMessage]
  /\ turn = [s \in Seqs |-> NoTurn]
  /\ permit = [s \in Seqs |-> [state |-> "none", owner |-> None]]
  /\ rc = [r \in Posts |-> NoReceipt]

------------------------------------------------------------------------------
(* What the transactions read.                                             *)

Queued == {s \in Seqs : pend[s].queued}
Interactive == sess.kind = "interactive"
Used == {r \in Posts : rc[r].phase # "unused"}

\* The lane head: the lowest pending seq of the session.
IsHead(s) == s \in Queued /\ \A q \in Queued : s <= q

UnknownOutcome ==
  \E s \in Seqs : turn[s].kind = "unknown" \/ permit[s].state = "uncertain"

Replaceable(s) == turn[s].kind \in {"none"} \cup Interruptions

Attempted(s) == pend[s].dispatches > 0 \/ pend[s].owner # None

OwnsPermit(s, e) ==
  permit[s].owner = e /\ permit[s].state \in {"reserved", "running"}

\* Mutant: any interruption permits the retry.
RetryPermissionHeld(s) ==
  /\ turn[s].kind \in Interruptions
  /\ pend[s].dispatches \in 1 .. (MaxDispatches - 1)

\* _retry_permission: a recorded preemption or drain grants one retry of the
\* exact interrupted attempt, below the dispatch limit.
RetryPermission(s) ==
  /\ turn[s].kind \in {"preempted", "drained"}
  /\ pend[s].dispatches > 0
  /\ turn[s].grant = pend[s].dispatches
  /\ pend[s].dispatches < MaxDispatches

\* _covered_response_lost_hold: a hold names this dispatch, live or not.
CoveredHold(s, e, d) ==
  /\ turn[s].kind = "held"
  /\ rc[turn[s].receipt].owner = e
  /\ rc[turn[s].receipt].dispatch = d

\* _response_lost_hold: the hold of the claim the message carries now.
LiveHold(s) ==
  /\ pend[s].owner # None
  /\ CoveredHold(s, pend[s].owner, pend[s].dispatches)
  /\ turn[s].live

\* _newer_work_exists: work after receipt r was dispatched, claimed or ended.
NewerWork(r) ==
  \/ \E s \in Queued : /\ Attempted(s)
                       /\ \/ s > rc[r].seq
                          \/ /\ s = rc[r].seq
                             /\ \/ pend[s].dispatches # rc[r].dispatch
                                \/ pend[s].owner \notin {None, rc[r].owner}
  \/ \E s \in Seqs : s > rc[r].seq /\ turn[s].kind # "none"

\* _active_owner: the dispatch that may still read receipt r's result.
ActiveOwner(r) ==
  LET s == rc[r].seq IN
  /\ rc[r].phase = "attempted"
  /\ ~rc[r].superseded
  /\ sess.guest = rc[r].guest
  /\ sess.status # "failed"
  /\ sess.fence \in {0, r}
  /\ IsHead(s)
  /\ pend[s].owner = rc[r].owner
  /\ pend[s].dispatches = rc[r].dispatch
  /\ pend[s].fresh \/ (LiveHold(s) /\ turn[s].receipt = r)
  /\ ~UnknownOutcome
  /\ ~NewerWork(r)
  /\ permit[s] = [state |-> "running", owner |-> rc[r].owner]
  /\ Replaceable(s)

------------------------------------------------------------------------------
(* Admission (admission.py).  The pool's limits belong to the whole         *)
(* monolith, so here a start may always be refused.                         *)

\* Mutant: the end of a turn frees its capacity whatever became of the guest.
SettleAlways(s, ceased) == [permit EXCEPT ![s].state = "settled"]

\* settle: a settled permit stays settled; without evidence that the guest
\* ceased the permit is kept as uncertain.
Settle(s, ceased) ==
  [permit EXCEPT ![s].state =
     IF @ = "settled" \/ ceased THEN "settled" ELSE "uncertain"]

\* recheck: the permit and the claim still belong to this executor.
Recheck(s, e) ==
  /\ OwnsPermit(s, e)
  /\ pend[s].owner = e
  /\ sess.status # "failed"
  /\ sess.fence = 0
  /\ ~sess.cleanup
  /\ \A q \in Seqs : turn[q].kind # "unknown"

\* confirm_guest_cessation: one terminal guest settles every uncertain permit.
ConfirmCessation ==
  [s \in Seqs |-> IF permit[s].state = "uncertain"
                    THEN [permit[s] EXCEPT !.state = "settled"]
                    ELSE permit[s]]

------------------------------------------------------------------------------
(* Transactions of the pending queue (store.py).                            *)

\* create_pending_message, then activate_session_after_enqueue.
CreatePending(s) ==
  /\ ~UnknownOutcome
  /\ s \notin Queued /\ turn[s].kind = "none"
  /\ \A q \in 1 .. (s - 1) : q \in Queued \/ turn[q].kind # "none"
  /\ pend' = [pend EXCEPT ![s].queued = TRUE]
  /\ sess' = [sess EXCEPT !.status = IF @ = "recovering" THEN @ ELSE "running"]
  /\ UNCHANGED <<turn, permit, rc>>

\* _finish_unknown_locked
FinishUnknown(s) ==
  /\ pend' = [pend EXCEPT ![s] = NoMessage]
  /\ IF Replaceable(s)
       THEN /\ turn' = [turn EXCEPT ![s] = [NoTurn EXCEPT !.kind = "unknown"]]
            /\ permit' = Settle(s, FALSE)
            /\ sess' = [sess EXCEPT !.status = "failed"]
       ELSE UNCHANGED <<turn, permit, sess>>
  /\ UNCHANGED rc

\* Mutant: only a response that was seen releases the fence.
ObservedFenceReleasable ==
  LET r == sess.fence IN
  /\ Interactive
  /\ r # 0
  /\ sess.guest = rc[r].guest
  /\ rc[r].body # "none" /\ ~rc[r].superseded /\ rc[r].observed
  /\ ~NewerWork(r)

\* release_ownerless_fence_locked: an interactive follow-up may take over once
\* the old observer is done with its receipt.
OwnerlessFenceReleasable ==
  LET r == sess.fence IN
  /\ Interactive
  /\ r # 0
  /\ sess.guest = rc[r].guest
  /\ rc[r].body # "none"
  /\ ~rc[r].superseded
  /\ ~NewerWork(r)
  /\ rc[r].observed \/ rc[r].released \/ ~rc[r].open

Claimable(s) ==
  /\ IsHead(s)
  /\ pend[s].owner = None
  /\ sess.status # "failed"
  /\ ~sess.cleanup
  /\ sess.fence = 0 \/ OwnerlessFenceReleasable
  /\ ~UnknownOutcome

\* claim_pending_message_for_session_sync, admitted by admission.claim_pending.
ClaimPending(s, e) ==
  /\ Claimable(s)
  /\ ~Attempted(s) => sess.status # "recovering"
  /\ Attempted(s) => RetryPermission(s)
  /\ permit[s].state \in {"none", "reserved", "running"}
  /\ permit' = [permit EXCEPT
       ![s] = [state |-> IF @.state = "none" THEN "reserved" ELSE @.state,
               owner |-> e]]
  /\ pend' = [pend EXCEPT ![s].owner = e, ![s].dispatches = @ + 1,
                          ![s].fresh = TRUE]
  /\ turn' = [turn EXCEPT ![s].grant = 0]
  /\ sess' = [sess EXCEPT !.fence = 0, !.recovered = FALSE]
  /\ UNCHANGED rc

\* The same call finds an attempt that nothing permits to retry.
ClaimFindsAttempt(s) ==
  /\ Claimable(s)
  /\ Attempted(s)
  /\ ~RetryPermission(s)
  /\ FinishUnknown(s)

\* refresh_claim_sync
RefreshClaim(s, e) ==
  /\ pend[s].owner = e
  /\ ~pend[s].fresh
  /\ pend' = [pend EXCEPT ![s].fresh = TRUE]
  /\ UNCHANGED <<sess, turn, permit, rc>>

\* The claim is dropped and the message waits for its permitted retry.
Unclaim(s) == [pend EXCEPT ![s].owner = None, ![s].fresh = FALSE]

\* release_pending_message_claim_sync
ReleaseClaim(s, e) ==
  IF pend[s].owner # e \/ LiveHold(s)
    THEN UNCHANGED storeVars
    ELSE IF RetryPermission(s)
      THEN pend' = Unclaim(s) /\ UNCHANGED <<sess, turn, permit, rc>>
      ELSE FinishUnknown(s)

\* mark_turn_interrupted_sync: the control plane said the brick is gone.
MarkInterrupted(s, e) ==
  IF pend[s].owner = e /\ Replaceable(s)
    THEN /\ turn' = [turn EXCEPT ![s] = [NoTurn EXCEPT !.kind = "preempted",
                                                !.grant = pend[s].dispatches]]
         /\ sess' = [sess EXCEPT !.status = "recovering"]
         /\ UNCHANGED <<pend, permit, rc>>
    ELSE UNCHANGED storeVars

\* mark_turn_error_sync; a permit that is still only reserved was never used.
MarkError(s, e, ceased, notAttempted) ==
  IF pend[s].owner # e \/ (notAttempted /\ ~OwnsPermit(s, e))
    THEN UNCHANGED storeVars
    ELSE /\ pend' = [pend EXCEPT ![s] = NoMessage]
         /\ IF Replaceable(s)
              THEN /\ turn' = [turn EXCEPT ![s] = [NoTurn EXCEPT !.kind = "error"]]
                   /\ sess' = [sess EXCEPT !.status = "ended"]
                   /\ permit' = Settle(s, \/ ceased \/ notAttempted
                                          \/ permit[s].state = "reserved")
              ELSE UNCHANGED <<turn, sess, permit>>
         /\ UNCHANGED rc

\* Mutant: a drain settles the permit like an ordinary result.
PersistTurnSettled(s, body) ==
  /\ turn' = [turn EXCEPT ![s] = IF body = "drain"
       THEN [NoTurn EXCEPT !.kind = "drained", !.grant = pend[s].dispatches]
       ELSE [NoTurn EXCEPT !.kind = IF body = "odd" THEN "odd" ELSE "done"]]
  /\ pend' = IF body = "drain" THEN Unclaim(s) ELSE [pend EXCEPT ![s] = NoMessage]
  /\ permit' = Settle(s, TRUE)

\* The turn of seq s takes its result: an ordinary one ends the message, a drain
\* keeps the permit and grants the interrupted dispatch one retry.  A result
\* without a native outcome ends the message and leaves the permit uncertain.
PersistTurn(s, body) ==
  IF body = "drain"
    THEN /\ turn' = [turn EXCEPT ![s] = [NoTurn EXCEPT !.kind = "drained",
                                                !.grant = pend[s].dispatches]]
         /\ pend' = Unclaim(s)
         /\ UNCHANGED permit
    ELSE /\ turn' = [turn EXCEPT ![s] = [NoTurn EXCEPT
                       !.kind = IF body = "odd" THEN "odd" ELSE "done"]]
         /\ pend' = [pend EXCEPT ![s] = NoMessage]
         /\ permit' = Settle(s, body # "odd")

StatusAfter(body) == IF body = "drain" THEN "recovering" ELSE "ended"

\* persist_turn_from_pending_sync with the result the original POST returned.
PersistResponse(s, e, d, body) ==
  /\ ~UnknownOutcome
  /\ pend[s].owner = e /\ pend[s].dispatches = d
  /\ PersistTurn(s, body)
  /\ sess' = [sess EXCEPT !.status = StatusAfter(body)]
  /\ UNCHANGED rc

\* The same writer with a result read from receipt r: validate_active_result
\* fences the session until the original POST is observed, unless a hold
\* already stands for that POST.
PersistReceipt(r) ==
  LET s == rc[r].seq
      fenced == /\ ~rc[r].observed
                /\ ~(Interactive /\ rc[r].released)
                /\ ~(LiveHold(s) /\ turn[s].receipt = r)
  IN /\ rc[r].body \in Usable
     /\ ActiveOwner(r)
     /\ PersistTurn(s, rc[r].body)
     /\ sess' = [sess EXCEPT !.status = StatusAfter(rc[r].body),
                             !.fence = IF fenced THEN r ELSE @]
     /\ UNCHANGED rc

------------------------------------------------------------------------------
(* Response-lost holds (store.py).                                          *)

WriteHold(s, r) ==
  /\ turn' = [turn EXCEPT ![s] = [kind |-> "held", grant |-> 0, receipt |-> r,
                               live |-> TRUE]]
  /\ sess' = [sess EXCEPT !.status = "recovering"]
  /\ UNCHANGED <<pend, permit, rc>>

\* mark_turn_response_lost_sync's checks.
Holdable(s, e, d, r) ==
  /\ pend[s].owner = e /\ pend[s].dispatches = d
  /\ sess.guest = rc[r].guest
  /\ sess.fence = 0
  /\ ~sess.cleanup
  /\ ~UnknownOutcome
  /\ OwnsPermit(s, e)
  /\ Replaceable(s)

\* A dispatch is held once: a second call keeps the first hold and its bound.
MarkResponseLost(s, e, d, r) ==
  /\ Holdable(s, e, d, r)
  /\ IF CoveredHold(s, e, d) THEN UNCHANGED storeVars ELSE WriteHold(s, r)

\* The receipts _hold_lease_expired_response selects for a stale claim.
LeaseReceipts(s) ==
  {r \in Used : /\ rc[r].seq = s
                /\ rc[r].dispatch = pend[s].dispatches
                /\ rc[r].owner = pend[s].owner
                /\ rc[r].guest = sess.guest
                /\ ~rc[r].superseded
                /\ ~rc[r].observed}

LeaseHoldable(s, r) ==
  /\ sess.guest # 0
  /\ sess.fence = 0
  /\ ~sess.cleanup
  /\ Replaceable(s) /\ turn[s].kind # "held"
  /\ ~UnknownOutcome
  /\ OwnsPermit(s, pend[s].owner)
  /\ LeaseReceipts(s) = {r}
  /\ rc[r].body = "none" => permit[s].state = "running" /\ rc[r].open

\* reclaim_stale_claims_sync, for one claim past its lease.
Reclaim(s) ==
  /\ pend[s].owner # None
  /\ ~pend[s].fresh
  /\ ~LiveHold(s)
  /\ IF RetryPermission(s)
       THEN pend' = Unclaim(s) /\ UNCHANGED <<sess, turn, permit, rc>>
       ELSE IF \E r \in Posts : LeaseHoldable(s, r)
         THEN WriteHold(s, CHOOSE r \in Posts : LeaseHoldable(s, r))
         ELSE FinishUnknown(s)

\* adopt_response_lost_result: the committed result finishes the held turn.  A body
\* that can never be adopted ends the hold as an unknown outcome at once.
AdoptHeld(s) ==
  LET r == turn[s].receipt IN
  /\ LiveHold(s)
  /\ \/ PersistReceipt(r)
     \/ rc[r].body = "odd" /\ ActiveOwner(r) /\ FinishUnknown(s)

\* Mutant: the receipt is not read again.
SettleHoldUnread(s) ==
  /\ LiveHold(s)
  /\ sess.guest = rc[turn[s].receipt].guest
  /\ FinishUnknown(s)

\* settle_response_lost_hold for the exact hold that was read: a result that
\* was committed meanwhile wins.
SettleHold(s) ==
  /\ LiveHold(s)
  /\ sess.guest = rc[turn[s].receipt].guest
  /\ rc[turn[s].receipt].body = "none"
  /\ FinishUnknown(s)

\* relay_response_lost_drain_sync: the guest drained without publishing.
RelayDrain(s) ==
  /\ LiveHold(s)
  /\ sess.guest = rc[turn[s].receipt].guest
  /\ sess.fence = 0
  /\ ~sess.cleanup
  /\ ~UnknownOutcome
  /\ pend[s].dispatches < MaxDispatches
  /\ rc[turn[s].receipt].body = "none"
  /\ OwnsPermit(s, pend[s].owner)
  /\ PersistTurn(s, "drain")
  /\ sess' = [sess EXCEPT !.status = "recovering"]
  /\ UNCHANGED rc

------------------------------------------------------------------------------
(* Result receipts (result_receipts.py).                                    *)

\* Mutant: a hold does not keep its own executor from preparing another POST.
PreparationOwnerUnheld(s, e, d, p) ==
  /\ sess.status # "failed"
  /\ sess.fence = 0
  /\ ~sess.cleanup
  /\ IsHead(s)
  /\ pend[s].owner = e /\ pend[s].dispatches = d /\ pend[s].fresh
  /\ p = [state |-> "running", owner |-> e]
  /\ ~UnknownOutcome
  /\ Replaceable(s)

\* _preparation_owner: the exact executor still owns the lane, and no hold
\* has taken its dispatch over; p is the permit row that transaction reads.
PreparationOwner(s, e, d, p) ==
  /\ sess.status # "failed"
  /\ sess.fence = 0
  /\ ~sess.cleanup
  /\ IsHead(s)
  /\ pend[s].owner = e /\ pend[s].dispatches = d
  /\ pend[s].fresh
  /\ p = [state |-> "running", owner |-> e]
  /\ ~UnknownOutcome
  /\ ~CoveredHold(s, e, d)
  /\ Replaceable(s)

\* Receipt r replaces every other receipt of its seq.
Promoted(r, row) ==
  [q \in Posts |-> IF q = r THEN row
                   ELSE IF rc[q].seq = row.seq
                     THEN [rc[q] EXCEPT !.superseded = TRUE]
                     ELSE rc[q]]

\* prepare_receipt: staged preparation leaves the predecessors intact.
Prepared(r, s, e, d) ==
  LET row == [NoReceipt EXCEPT !.seq = s, !.owner = e, !.dispatch = d,
                               !.guest = sess.guest, !.open = TRUE]
  IN IF Staged
       THEN [rc EXCEPT ![r] = [row EXCEPT !.phase = "prepared",
                                          !.superseded = TRUE]]
       ELSE Promoted(r, [row EXCEPT !.phase = "attempted"])

\* attempt_prepared_receipt: promotion at the attempt-intent boundary.
Promotable(r) ==
  /\ PreparationOwner(rc[r].seq, rc[r].owner, rc[r].dispatch, permit[rc[r].seq])
  /\ sess.guest = rc[r].guest
  /\ rc[r].phase = "prepared"
  /\ rc[r].open
  /\ \A q \in Used : q > r => rc[q].seq # rc[r].seq

AttemptPrepared(r) ==
  Promoted(r, [rc[r] EXCEPT !.phase = "attempted", !.superseded = FALSE])

\* capture_result: the first body inside the acceptance window is kept.
CaptureResult(r, body) ==
  /\ rc[r].phase = "attempted"
  /\ rc[r].open
  /\ rc[r].body = "none"
  /\ rc' = [rc EXCEPT ![r].body = body]
  /\ UNCHANGED <<sess, pend, turn, permit>>

\* mark_response_observed and mark_response_observer_released stamp the
\* receipt; each drops the fence only for the work the receipt belongs to.
FenceAfter(r, drop) ==
  [sess EXCEPT !.fence =
     IF /\ drop
        /\ @ = r
        /\ sess.guest = rc[r].guest
        /\ ~rc[r].superseded
        /\ ~NewerWork(r)
       THEN 0 ELSE @]

MarkObserved(r) ==
  /\ rc' = [rc EXCEPT ![r].observed = TRUE]
  /\ sess' = FenceAfter(r, TRUE)
  /\ UNCHANGED <<pend, turn, permit>>

MarkObserverReleased(r) ==
  /\ rc' = [rc EXCEPT ![r].released = TRUE]
  /\ sess' = FenceAfter(r, Interactive /\ rc[r].body # "none" /\ ~rc[r].observed)
  /\ UNCHANGED <<pend, turn, permit>>

------------------------------------------------------------------------------
(* Guest binding and cleanup (store.py, result_receipts.py).                *)

Sendable == ~UnknownOutcome
GuestReusable == ~sess.cleanup /\ sess.fence = 0

\* set_ember_session, replace_ember_session_after_preemption
BindGuest(g) ==
  /\ Sendable /\ GuestReusable
  /\ sess' = [sess EXCEPT !.guest = g]

\* release_abandoned_fence: a body has arrived, or none can arrive any more.
AbandonedFenceReleasable ==
  /\ sess.fence # 0
  /\ sess.guest = rc[sess.fence].guest
  /\ rc[sess.fence].body # "none" \/ ~rc[sess.fence].open

\* begin_guest_cleanup: nothing attempted, fenced, unknown or awaited.
CleanupFree ==
  /\ sess.guest # 0
  /\ sess.fence = 0
  /\ ~UnknownOutcome
  /\ \A s \in Queued : ~Attempted(s)

\* settled_guest_cleanup_conditions
SettledForCleanup ==
  /\ sess.status \in {"ended", "failed"}
  /\ sess.guest # 0
  /\ Queued = {}
  /\ sess.earlier \/ \E s \in Seqs : permit[s].state = "settled"
  /\ \A s \in Seqs : permit[s].state \in {"none", "settled"}

\* finish_guest_cleanup: an unknown outcome keeps its binding.
FinishCleanup ==
  [sess EXCEPT !.cleanup = FALSE,
               !.guest = IF UnknownOutcome THEN @ ELSE 0]

------------------------------------------------------------------------------
(* Recovery of sessions that never produced a turn (store.py).              *)

NeverTurned == ~sess.earlier /\ \A s \in Seqs : turn[s].kind = "none"

\* _recovery_candidate_predicate: an old head without a fresh claim.
ZombieCandidate(s) ==
  /\ sess.status = "running"
  /\ ~sess.recovered
  /\ NeverTurned
  /\ IsHead(s)
  /\ ~pend[s].fresh

\* _hung_claim_candidate_predicate: a fresh claim whose guest has not moved.
HungCandidate(s) ==
  /\ sess.status = "running"
  /\ sess.guest # 0
  /\ NeverTurned
  /\ IsHead(s)
  /\ pend[s].owner # None /\ pend[s].dispatches > 0
  /\ pend[s].fresh

\* _claim_zombie_session_recovery: an attempt or a binding makes the outcome
\* unknown; an untouched message is claimed for recovery.
ClaimRecovery(s) ==
  IF Attempted(s) \/ sess.guest # 0
    THEN FinishUnknown(s)
    ELSE /\ sess' = [sess EXCEPT !.status = "recovering"]
         /\ UNCHANGED <<pend, turn, permit, rc>>

\* finalize_zombie_session_recovery
FinalizeRecovery(s) ==
  IF /\ sess.status = "recovering"
     /\ s \in Queued
     /\ ~Attempted(s)
     /\ sess.guest = 0
     /\ turn[s].kind = "none"
    THEN /\ sess' = [sess EXCEPT !.status = "running", !.recovered = TRUE]
         /\ UNCHANGED <<pend, turn, permit, rc>>
    ELSE UNCHANGED storeVars
==============================================================================
