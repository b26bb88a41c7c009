----------------------------- MODULE DrainFleet -----------------------------
(***************************************************************************)
(* The drain workers: a fixed number of slots, each owned by one numbered   *)
(* generation at a time, and the DBOS workflows that carry them.  A refill   *)
(* first commits the intents of the missing workers and only then enqueues   *)
(* them; a worker that finished its job loop hands its own slot over.        *)
(* Source: drainer_worker_intents and reserve_drainer_workers in             *)
(* projects/monolith/agent/routine_jobs.py, queues.py, the chaining in       *)
(* drainer.py and the reapers in drainer_router.py (factory/orchestration).  *)
(***************************************************************************)
EXTENDS Naturals, FiniteSets

CONSTANTS
  WorkerCount,  \* DRAINER_WORKER_COUNT
  MaxGen,       \* bound: generations of one slot
  MaxLegacy,    \* bound: cycles left by an older release
  FaultBound    \* bound: restarts, cancellations and lost refills

ASSUME FleetAssumption ==
  WorkerCount \in Nat /\ MaxGen \in Nat /\ MaxLegacy \in 0 .. WorkerCount /\ FaultBound \in Nat

Slots == 1 .. WorkerCount
WorkerFlows == Slots \X (1 .. MaxGen)
\* The refill of the drain endpoint completes no workflow of its own.
Tick == <<0, 0>>
Actors == WorkerFlows \cup {Tick}

\* A PENDING workflow is "draining" in its job loop, "leaving" after it and
\* "chaining" once the ids of its successors are recorded.  The terminal ones
\* (SUCCESS, ERROR, CANCELLED, MAX_RECOVERY_ATTEMPTS_EXCEEDED) are treated alike.
Leaving == {"leaving", "chaining"}
Statuses == {"absent", "enqueued", "draining", "ended"} \cup Leaving

VARIABLES
  gen,            \* slot -> generation its durable intent names, 0 before the first
  flowStatus,     \* workflow -> its DBOS status
  legacy,         \* untracked cycles of an older release that still run
  ids,            \* actor -> workflow ids it reserved and has not enqueued yet
  line,           \* workflow -> the running workflows that started it, directly or not
  cancelledLate,  \* workflows cancelled while their reservation was under way
  stuck,          \* some stale cycle's unknown turns cannot be held (quarantine)
  fleetFaults

fleetVars == <<gen, flowStatus, legacy, ids, line, cancelledLate, stuck, fleetFaults>>

Current(s) == <<s, gen[s]>>

FleetInit ==
  /\ gen = [s \in Slots |-> 0]
  /\ flowStatus = [w \in WorkerFlows |-> "absent"]
  /\ legacy \in 0 .. MaxLegacy
  /\ ids = [a \in Actors |-> {}]
  /\ line = [w \in WorkerFlows |-> {}]
  /\ cancelledLate = {}
  /\ stuck = FALSE
  /\ fleetFaults = 0

Fault == fleetFaults < FaultBound /\ fleetFaults' = fleetFaults + 1

\* The workflows of W get a terminal status.
EndFlows(W) ==
  /\ flowStatus' = [v \in WorkerFlows |-> IF v \in W THEN "ended" ELSE flowStatus[v]]
  /\ line' = [v \in WorkerFlows |-> IF v \in W THEN {} ELSE line[v] \ W]

----------------------------------------------------------------------------
(* reserve_drainer_workers *)

\* Mutant: a missing workflow row frees its slot for a fresh id.
FreeAbsent(a) ==
  {s \in Slots : /\ gen[s] < MaxGen
                 /\ \/ gen[s] = 0
                    \/ Current(s) = a
                    \/ flowStatus[Current(s)] \in {"ended", "absent"}}

\* Slots a refill by a may take: never used, a's own, or seen terminal.
Free(a) ==
  {s \in Slots : /\ gen[s] < MaxGen
                 /\ \/ gen[s] = 0
                    \/ Current(s) = a
                    \/ flowStatus[Current(s)] = "ended"}

\* The statuses were read before the pool lock, so an ended worker may still
\* look alive; an unused slot and the caller's own cannot.
Seen(a) ==
  {F \in SUBSET Free(a) : \A s \in Free(a) : gen[s] = 0 \/ Current(s) = a => s \in F}

\* Mutant: the cycles of an older release are not counted.
RoomUntracked(F) == Cardinality(F)
\* Mutant: the last place is never filled.
RoomShort(F) ==
  LET occupied == legacy + Cardinality(Slots \ F) + 1
  IN  IF occupied < WorkerCount THEN WorkerCount - occupied ELSE 0

Room(F) ==
  LET occupied == legacy + Cardinality(Slots \ F)
  IN  IF occupied < WorkerCount THEN WorkerCount - occupied ELSE 0

\* The slots a refill that sees F free takes: the first ones there is room for.
Taken(F) ==
  {T \in SUBSET F : /\ Cardinality(T) <= Room(F)
                    /\ T = F \/ Cardinality(T) = Room(F)
                    /\ \A s \in T, t \in F \ T : s < t}

\* Mutant: only the caller's fresh reservations are enqueued.
ReenqueuedNone(F) == {}

\* An intent whose workflow row is missing is enqueued again under its own id.
Reenqueued(F) ==
  {w \in WorkerFlows : w[1] \notin F /\ w = Current(w[1]) /\ flowStatus[w] = "absent"}

\* keep says whether the caller goes on to enqueue what it reserved.
Reserve(a, F, keep) ==
  \E T \in Taken(F) :
    /\ gen' = [s \in Slots |-> IF s \in T THEN gen[s] + 1 ELSE gen[s]]
    /\ ids' = IF keep
              THEN [ids EXCEPT ![a] =
                      @ \cup Reenqueued(F) \cup {w \in WorkerFlows : w[1] \in T /\ w[2] = gen[w[1]] + 1}]
              ELSE ids

----------------------------------------------------------------------------
(* The drain endpoint and the queue *)

Pending == {w \in WorkerFlows : flowStatus[w] \in {"draining"} \cup Leaving}

\* A stale cycle whose unknown turns cannot be held blocks the refill
\* (quarantine_blocked) for as long as it is PENDING.
Blocked == stuck /\ (Pending # {} \/ legacy > 0)

Quarantine ==
  /\ stuck' = ~stuck
  /\ UNCHANGED <<gen, flowStatus, legacy, ids, line, cancelledLate, fleetFaults>>

TickRefill(F) ==
  /\ ~Blocked
  /\ F \in Seen(Tick)
  /\ Reserve(Tick, F, TRUE)
  /\ UNCHANGED <<flowStatus, legacy, line, cancelledLate, fleetFaults, stuck>>

\* The replica serving the endpoint stops between reserving and enqueueing.
TickLost ==
  /\ ids[Tick] # {}
  /\ ids' = [ids EXCEPT ![Tick] = {}]
  /\ Fault
  /\ UNCHANGED <<gen, flowStatus, legacy, line, cancelledLate, stuck>>

\* Enqueueing an id DBOS already knows changes nothing.  A workflow that was
\* cancelled meanwhile gets no further.
Enqueue(a, w) ==
  /\ w \in ids[a]
  /\ ids' = [ids EXCEPT ![a] = IF a # Tick /\ flowStatus[a] = "ended" THEN {} ELSE @ \ {w}]
  /\ flowStatus' = [flowStatus EXCEPT ![w] = IF @ = "absent" THEN "enqueued" ELSE @]
  /\ line' = [line EXCEPT ![w] =
       IF flowStatus[w] = "absent" /\ a # Tick /\ flowStatus[a] # "ended"
       THEN line[a] \cup {a} ELSE @]
  /\ UNCHANGED <<gen, legacy, cancelledLate, fleetFaults, stuck>>

\* The queue runs at most WorkerCount cycles at a time.
Dequeue(w) ==
  /\ flowStatus[w] = "enqueued"
  /\ Cardinality(Pending) < WorkerCount
  /\ flowStatus' = [flowStatus EXCEPT ![w] = "draining"]
  /\ UNCHANGED <<gen, legacy, ids, line, cancelledLate, fleetFaults, stuck>>

\* An untracked cycle of the older release ends; it has no slot to hand over.
LegacyEnds ==
  /\ legacy > 0
  /\ legacy' = legacy - 1
  /\ UNCHANGED <<gen, flowStatus, ids, line, cancelledLate, fleetFaults, stuck>>

----------------------------------------------------------------------------
(* The end of a cycle *)

\* The job loop of w is over: it ends, or it hands its slot over.
LeaveLoop(w) ==
  /\ flowStatus[w] = "draining"
  /\ \/ EndFlows({w})
     \/ /\ flowStatus' = [flowStatus EXCEPT ![w] = "leaving"]
        /\ UNCHANGED line
  /\ UNCHANGED <<gen, legacy, ids, cancelledLate, fleetFaults, stuck>>

\* prepare_next_cycle: its result is recorded, or a restart repeats it.
PrepareNext(w) ==
  /\ flowStatus[w] = "leaving"
  /\ \E F \in Seen(w) :
       \/ /\ Reserve(w, F, TRUE)
          /\ flowStatus' = [flowStatus EXCEPT ![w] = "chaining"]
          /\ UNCHANGED fleetFaults
       \/ /\ Reserve(w, F, FALSE)
          /\ Fault
          /\ UNCHANGED flowStatus
  /\ UNCHANGED <<legacy, line, cancelledLate, stuck>>

\* The reservation of a cancelled workflow commits, and nobody enqueues it.
LatePrepare(w) ==
  /\ w \in cancelledLate
  /\ cancelledLate' = cancelledLate \ {w}
  /\ \E F \in Seen(w) : Reserve(w, F, FALSE)
  /\ UNCHANGED <<flowStatus, legacy, line, fleetFaults, stuck>>

\* Every successor is enqueued.
HandedOver(w) ==
  /\ flowStatus[w] = "chaining"
  /\ ids[w] = {}
  /\ EndFlows({w})
  /\ UNCHANGED <<gen, legacy, ids, cancelledLate, fleetFaults, stuck>>

\* An exception of the handover, or the last recovery DBOS allows.
CycleErrs(w) ==
  /\ w \in Pending
  /\ EndFlows({w})
  /\ ids' = [ids EXCEPT ![w] = {}]
  /\ Fault
  /\ UNCHANGED <<gen, legacy, cancelledLate, stuck>>

----------------------------------------------------------------------------
(* The reapers of the drain endpoint *)

\* Cancelling takes the workflows that w started with it, and theirs.
CancelWithChildren(w) ==
  LET gone == {v \in WorkerFlows : v = w \/ w \in line[v]}
  IN  /\ EndFlows(gone)
      /\ cancelledLate' = cancelledLate \cup {v \in gone : flowStatus[v] = "leaving"}
      /\ Fault
      /\ UNCHANGED <<gen, legacy, ids, stuck>>

\* _reap_stale_drain_cycles: no step for too long.
CancelStaleWorkers(w) == w \in Pending /\ CancelWithChildren(w)

\* _reap_version_stranded_cycles: no running worker can dequeue this row.
CancelStranded(w) == flowStatus[w] = "enqueued" /\ CancelWithChildren(w)

\* What a cancelled workflow had not enqueued is left to the next refill.
DropIds(w) ==
  /\ flowStatus[w] = "ended" /\ ids[w] # {}
  /\ ids' = [ids EXCEPT ![w] = {}]
  /\ UNCHANGED <<gen, flowStatus, legacy, line, cancelledLate, fleetFaults, stuck>>

----------------------------------------------------------------------------
FleetNext ==
  \/ \E F \in SUBSET Slots : TickRefill(F)
  \/ TickLost
  \/ LegacyEnds
  \/ Quarantine
  \/ \E a \in Actors : \E w \in WorkerFlows : Enqueue(a, w)
  \/ \E w \in WorkerFlows :
       \/ Dequeue(w)
       \/ LeaveLoop(w)
       \/ PrepareNext(w)
       \/ LatePrepare(w)
       \/ HandedOver(w)
       \/ CycleErrs(w)
       \/ CancelStaleWorkers(w)
       \/ CancelStranded(w)
       \/ DropIds(w)

FleetSpec == FleetInit /\ [][FleetNext]_fleetVars

\* The endpoint is called every quarter of an hour and reads the statuses
\* afresh; what it reserved it enqueues unless its replica stops; an untracked
\* cycle is one bounded job loop.
FairFleetSpec ==
  /\ FleetSpec
  /\ WF_fleetVars(TickRefill(Free(Tick)))
  /\ \A w \in WorkerFlows : WF_fleetVars(Enqueue(Tick, w))
  /\ WF_fleetVars(LegacyEnds)

----------------------------------------------------------------------------
\* Every variable has its type.
FleetTypeOK ==
  /\ gen \in [Slots -> 0 .. MaxGen]
  /\ flowStatus \in [WorkerFlows -> Statuses]
  /\ legacy \in 0 .. WorkerCount
  /\ ids \in [Actors -> SUBSET WorkerFlows]
  /\ line \in [WorkerFlows -> SUBSET WorkerFlows]
  /\ cancelledLate \subseteq WorkerFlows
  /\ stuck \in BOOLEAN
  /\ fleetFaults \in 0 .. FaultBound

\* Workflows that take jobs now or as soon as the queue lets them.
Drawing == {w \in WorkerFlows : flowStatus[w] \in {"enqueued", "draining"}}

\* Slots whose current workflow draws jobs, will, or will once it is enqueued.
Busy == {s \in Slots : gen[s] > 0 /\ flowStatus[Current(s)] \in {"absent", "enqueued", "draining"}}

(* What makes a slot's generations safe to count: a generation past the       *)
(* intent has no workflow and nobody is about to enqueue one, one before it    *)
(* has left its job loop for good, and busy slots and untracked cycles fit     *)
(* the fleet already when the intent is committed, before any enqueue.         *)
FleetInv ==
  /\ FleetTypeOK
  /\ \A w \in WorkerFlows : w[2] > gen[w[1]] => flowStatus[w] = "absent"
  /\ \A w \in WorkerFlows : w[2] < gen[w[1]] => flowStatus[w] \in Leaving \cup {"ended"}
  /\ \A a \in Actors : \A w \in ids[a] : w[2] <= gen[w[1]]
  /\ \A w \in cancelledLate : flowStatus[w] = "ended"
  /\ \A w \in WorkerFlows : flowStatus[w] = "absent" => line[w] = {}
  /\ legacy + Cardinality(Busy) <= WorkerCount

(* The refills of the endpoint, the handovers of finishing workers, their    *)
(* replays and the reapers never leave more cycles in or before their job    *)
(* loop than there are workers, untracked ones of an older release included, *)
(* and never two generations of one slot.                                    *)
FleetBound ==
  /\ legacy + Cardinality(Drawing) <= WorkerCount
  /\ \A v, w \in Drawing : v[1] = w[1] => v = w

(* A committed intent gets its workflow, whoever reserved it and wherever     *)
(* that caller stopped before enqueueing it, unless the endpoint finds the     *)
(* refill blocked by a quarantine again and again.                             *)
IntentsAreServed ==
  \A w \in WorkerFlows :
    (w = Current(w[1]) /\ flowStatus[w] = "absent") ~> (flowStatus[w] # "absent" \/ Blocked)

(* A worker that ended, was cancelled or never was is replaced, once the       *)
(* cycles of an older release are gone and unless a quarantine blocks the      *)
(* refill again and again.                                                     *)
SlotsRefill ==
  \A w \in WorkerFlows :
    (gen[w[1]] = w[2] - 1 /\ (w[2] > 1 => flowStatus[Current(w[1])] = "ended"))
      ~> (gen[w[1]] >= w[2] \/ Blocked)

=============================================================================
