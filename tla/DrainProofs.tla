----------------------------- MODULE DrainProofs -----------------------------
(***************************************************************************)
(* The drain: its workers and their cycles.  The fleet (DrainFleet) keeps   *)
(* its bound for any number of workers, generations, untracked cycles and   *)
(* faults.  Admission of drain cycles (Drainer): one live start per job,    *)
(* and the pool and the allowance within their limits, for any number of    *)
(* workflows, jobs, replays, cancellations and late steps.                  *)
(***************************************************************************)
EXTENDS Drainer, DrainFleet, FiniteSetTheorems, TLAPS

\* The provers a leaf that names none is given, in order: the solver again after
\* Zenon, for a leaf whose translation was too slow the first time.
USE SMTT(30), ZenonT(30), SMTT(31), SMTT(32), SMTT(33)

-----------------------------------------------------------------------------
(* What is below a limit may grow by one *)

\* Taking one more place under a limit, or under a cap that a limit bounds.
LEMMA RoomForOne ==
  /\ \A a, b, l \in Nat : a < l /\ b <= a + 1 => b <= l
  /\ \A a, b, c, l, m \in Nat : a < c /\ b <= a + 1 /\ c <= l + m => b <= l + m
OBVIOUS

-----------------------------------------------------------------------------
(* The fleet *)

\* The slots are as many as the workers.
LEMMA SlotsFinite == IsFiniteSet(Slots) /\ Cardinality(Slots) = WorkerCount
<1>1. 1 \in Int /\ WorkerCount \in Int
  BY FleetAssumption
<1>2. IsFiniteSet(1 .. WorkerCount)
        /\ Cardinality(1 .. WorkerCount) = IF 1 > WorkerCount THEN 0 ELSE WorkerCount - 1 + 1
  BY <1>1, FS_Interval
<1> QED
  BY <1>2, FleetAssumption DEF Slots

\* Any set of slots is finite, and no larger than the fleet.
LEMMA SlotSets ==
  ASSUME NEW F \in SUBSET Slots
  PROVE  /\ IsFiniteSet(F)
         /\ Cardinality(F) \in Nat
         /\ Cardinality(F) <= WorkerCount
<1>1. IsFiniteSet(F) /\ Cardinality(F) <= Cardinality(Slots)
  BY SlotsFinite, FS_Subset
<1> QED
  BY <1>1, SlotsFinite, FS_CardinalityType

\* Fewer busy slots count no more.
LEMMA SlotSetsGrow ==
  ASSUME NEW F \in SUBSET Slots, NEW G \in SUBSET F
  PROVE  Cardinality(G) <= Cardinality(F)
BY SlotSets, FS_Subset

\* reserve_drainer_workers fills no more than the room beside the slots it does
\* not see free and the untracked cycles.
LEMMA TakenFits ==
  ASSUME legacy \in Nat, NEW F \in SUBSET Slots, NEW T \in Taken(F),
         NEW B \in SUBSET ((Slots \ F) \cup T), T # {}
  PROVE  legacy + Cardinality(B) <= WorkerCount
<1> DEFINE N == Slots \ F
<1>1. N \in SUBSET Slots /\ T \in SUBSET Slots /\ N \cup T \in SUBSET Slots
  BY DEF Taken
<1>2. /\ IsFiniteSet(N) /\ Cardinality(N) \in Nat
      /\ IsFiniteSet(T) /\ Cardinality(T) \in Nat
      /\ Cardinality(N \cup T) \in Nat
  BY <1>1, SlotSets
<1>3. Cardinality(N \cup T) <= Cardinality(N) + Cardinality(T)
  <2>1. N \cap T = {}
    BY DEF Taken
  <2>2. Cardinality(N \cup T) = Cardinality(N) + Cardinality(T) - Cardinality(N \cap T)
    BY <1>2, FS_Union, ZenonT(30)
  <2>3. Cardinality(N \cap T) = 0
    BY <2>1, FS_EmptySet
  <2> HIDE DEF N
  <2> QED
    BY <2>2, <2>3, <1>2
<1>4. Cardinality(T) # 0
  BY <1>2, FS_EmptySet
<1>5. Cardinality(T) <= Room(F)
  BY DEF Taken
<1>6. legacy + Cardinality(N) + Cardinality(T) <= WorkerCount
  BY <1>2, <1>4, <1>5, FleetAssumption DEF Room
<1>7. Cardinality(B) \in Nat /\ Cardinality(B) <= Cardinality(N \cup T)
  BY <1>1, SlotSets, SlotSetsGrow
<1> HIDE DEF N
<1> QED
  BY <1>2, <1>3, <1>6, <1>7, FleetAssumption

\* A refill by an actor that has left its job loop keeps the lineage of every
\* slot and the count of the busy ones.
LEMMA ReserveKeeps ==
  ASSUME FleetInv, NEW a \in Actors, NEW F \in Seen(a), NEW keep \in BOOLEAN,
         a = Tick \/ flowStatus[a] \in Leaving \cup {"ended"},
         Reserve(a, F, keep), UNCHANGED legacy,
         flowStatus' \in [WorkerFlows -> Statuses],
         \A w \in WorkerFlows : \/ flowStatus'[w] = flowStatus[w]
                                \/ w = a /\ flowStatus[w] \in Leaving /\ flowStatus'[w] \in Leaving
  PROVE  /\ gen' \in [Slots -> 0 .. MaxGen]
         /\ ids' \in [Actors -> SUBSET WorkerFlows]
         /\ \A w \in WorkerFlows : w[2] > gen'[w[1]] => flowStatus'[w] = "absent"
         /\ \A w \in WorkerFlows : w[2] < gen'[w[1]] => flowStatus'[w] \in Leaving \cup {"ended"}
         /\ \A b \in Actors : \A w \in ids'[b] : w[2] <= gen'[w[1]]
         /\ legacy' + Cardinality(Busy') <= WorkerCount
<1>1. PICK T \in Taken(F) :
        /\ gen' = [s \in Slots |-> IF s \in T THEN gen[s] + 1 ELSE gen[s]]
        /\ ids' = IF keep
                  THEN [ids EXCEPT ![a] =
                          @ \cup Reenqueued(F)
                            \cup {w \in WorkerFlows : w[1] \in T /\ w[2] = gen[w[1]] + 1}]
                  ELSE ids
  BY ZenonT(30) DEF Reserve
<1>2. T \subseteq F /\ F \subseteq Free(a) /\ Free(a) \subseteq Slots
  BY DEF Taken, Seen, Free
<1>3. /\ gen \in [Slots -> 0 .. MaxGen] /\ flowStatus \in [WorkerFlows -> Statuses]
      /\ ids \in [Actors -> SUBSET WorkerFlows] /\ legacy \in Nat
      /\ MaxGen \in Nat
  BY FleetAssumption DEF FleetInv, FleetTypeOK
<1>4. \A w \in WorkerFlows : w[1] \in Slots /\ w[2] \in 1 .. MaxGen /\ w = <<w[1], w[2]>>
  BY DEF WorkerFlows
<1>5. \A s \in T : gen[s] < MaxGen /\ (gen[s] = 0 \/ flowStatus[<<s, gen[s]>>] \in Leaving \cup {"ended"})
  <2> SUFFICES ASSUME NEW s \in T
               PROVE  gen[s] < MaxGen
                        /\ (gen[s] = 0 \/ flowStatus[<<s, gen[s]>>] \in Leaving \cup {"ended"})
    OBVIOUS
  <2>1. s \in Free(a) /\ s \in Slots
    BY <1>2
  <2>2. <<s, gen[s]>> = Tick => gen[s] = 0
    BY DEF Tick
  <2> QED
    BY <2>1, <2>2 DEF Free, Current
<1>6. gen' \in [Slots -> 0 .. MaxGen]
  <2>1. \A s \in Slots : (IF s \in T THEN gen[s] + 1 ELSE gen[s]) \in 0 .. MaxGen
    <3> SUFFICES ASSUME NEW s \in Slots
                 PROVE  (IF s \in T THEN gen[s] + 1 ELSE gen[s]) \in 0 .. MaxGen
      OBVIOUS
    <3>1. gen[s] \in 0 .. MaxGen /\ MaxGen \in Nat
      BY <1>3
    <3>2. s \in T => gen[s] < MaxGen
      BY <1>5, ZenonT(30)
    <3> QED
      BY <3>1, <3>2
  <2> QED
    BY <1>1, <2>1
<1>7. Reenqueued(F) \subseteq WorkerFlows /\ \A w \in Reenqueued(F) : w[2] = gen[w[1]]
  BY DEF Reenqueued, Current
<1>8. ids' \in [Actors -> SUBSET WorkerFlows]
  BY <1>1, <1>3, <1>7
<1>9. \A s \in Slots : gen'[s] >= gen[s]
  BY <1>1, <1>3
<1>10. \A w \in WorkerFlows : w[2] > gen'[w[1]] => flowStatus'[w] = "absent"
  <2> SUFFICES ASSUME NEW w \in WorkerFlows, w[2] > gen'[w[1]] PROVE flowStatus'[w] = "absent"
    OBVIOUS
  <2>1. w[2] > gen[w[1]]
    BY <1>3, <1>4, <1>6, <1>9
  <2>2. flowStatus[w] = "absent"
    BY <2>1 DEF FleetInv
  <2> QED
    BY <2>2 DEF Leaving
<1>11. \A w \in WorkerFlows : w[2] < gen'[w[1]] => flowStatus'[w] \in Leaving \cup {"ended"}
  <2> SUFFICES ASSUME NEW w \in WorkerFlows, w[2] < gen'[w[1]]
               PROVE  flowStatus[w] \in Leaving \cup {"ended"}
    BY ZenonT(30)
  <2>1. CASE w[2] < gen[w[1]]
    BY <2>1 DEF FleetInv
  <2>2. CASE ~(w[2] < gen[w[1]])
    <3>1. w[1] \in Slots /\ w[2] \in Nat /\ gen[w[1]] \in Nat
      BY <1>3, <1>4
    <3>2. gen'[w[1]] = IF w[1] \in T THEN gen[w[1]] + 1 ELSE gen[w[1]]
      BY <1>1, <3>1, ZenonT(30)
    <3>3. w[1] \in T /\ w[2] = gen[w[1]]
      BY <2>2, <3>1, <3>2
    <3> QED
      BY <3>3, <1>3, <1>4, <1>5
  <2> QED
    BY <2>1, <2>2
<1>12. \A b \in Actors : \A w \in ids'[b] : w[2] <= gen'[w[1]]
  <2> SUFFICES ASSUME NEW b \in Actors, NEW w \in ids'[b] PROVE w[2] <= gen'[w[1]]
    BY ZenonT(30)
  <2>1. w \in WorkerFlows
    BY <1>8
  <2>2. CASE w \in ids[b]
    <3>1. w[2] <= gen[w[1]]
      BY <2>2 DEF FleetInv
    <3> QED
      BY <3>1, <2>1, <1>3, <1>4, <1>6, <1>9
  <2>3. CASE w \in Reenqueued(F)
    BY <2>3, <2>1, <1>3, <1>4, <1>6, <1>7, <1>9
  <2>4. CASE w[1] \in T /\ w[2] = gen[w[1]] + 1
    BY <2>4, <2>1, <1>1, <1>3, <1>4
  <2> QED
    BY <1>1, <1>3, <2>2, <2>3, <2>4, ZenonT(30)
<1>13. legacy' + Cardinality(Busy') <= WorkerCount
  <2>1. Busy \in SUBSET Slots /\ Busy' \in SUBSET Slots
    BY ZenonT(30) DEF Busy
  <2>2. CASE T = {}
    <3>1. gen' = gen
      BY <2>2, <1>1, <1>3
    <3>2. Busy' \subseteq Busy
      <4> SUFFICES ASSUME NEW s \in Busy' PROVE s \in Busy
        OBVIOUS
      <4>1. s \in Slots /\ gen[s] > 0 /\ flowStatus'[<<s, gen[s]>>] \in {"absent", "enqueued", "draining"}
        BY <3>1 DEF Busy, Current
      <4>2. <<s, gen[s]>> \in WorkerFlows
        BY <4>1, <1>3 DEF WorkerFlows
      <4> QED
        BY <4>1, <4>2 DEF Busy, Current, Leaving
    <3> QED
      BY <3>2, <2>1, <1>3, SlotSets, SlotSetsGrow, FleetAssumption DEF FleetInv
  <2>3. CASE T # {}
    <3>1. Busy' \subseteq (Slots \ F) \cup T
      <4> SUFFICES ASSUME NEW s \in Busy', s \in F, s \notin T PROVE FALSE
        BY <2>1
      <4>1. s \in Slots /\ gen'[s] = gen[s] /\ gen[s] > 0
               /\ flowStatus'[<<s, gen[s]>>] \in {"absent", "enqueued", "draining"}
        BY <1>1, <2>1 DEF Busy, Current
      <4>2. <<s, gen[s]>> \in WorkerFlows
        BY <4>1, <1>3 DEF WorkerFlows
      <4>3. flowStatus[<<s, gen[s]>>] \notin Leaving \cup {"ended"}
        BY <4>1, <4>2 DEF Leaving
      <4>4. s \in Free(a) /\ <<s, gen[s]>> # Tick
        BY <1>2, <4>1, <1>3 DEF Tick
      <4> QED
        BY <4>1, <4>3, <4>4, <1>3 DEF Free, Current
    <3>2. F \in SUBSET Slots
      BY <1>2
    <3>3. legacy + Cardinality(Busy') <= WorkerCount
      BY <3>1, <3>2, <2>3, <1>3, TakenFits
    <3> QED
      BY <3>3
  <2> QED
    BY <2>2, <2>3, ZenonT(30)
<1> QED
  BY <1>6, <1>8, <1>10, <1>11, <1>12, <1>13

\* Ending, cancelling, dequeueing or recording never make a slot busy.
LEMMA QuietStep ==
  ASSUME FleetInv, UNCHANGED gen, legacy' \in Nat, legacy' <= legacy,
         flowStatus' \in [WorkerFlows -> Statuses],
         \A w \in WorkerFlows : flowStatus'[w] \in {"absent", "enqueued", "draining"}
                           => flowStatus[w] \in {"absent", "enqueued", "draining"},
         \A w \in WorkerFlows : flowStatus[w] = "absent" /\ w[2] > gen[w[1]] => flowStatus'[w] = "absent"
  PROVE  /\ \A w \in WorkerFlows : w[2] > gen'[w[1]] => flowStatus'[w] = "absent"
         /\ \A w \in WorkerFlows : w[2] < gen'[w[1]] => flowStatus'[w] \in Leaving \cup {"ended"}
         /\ legacy' + Cardinality(Busy') <= WorkerCount
<1>1. /\ gen \in [Slots -> 0 .. MaxGen] /\ flowStatus \in [WorkerFlows -> Statuses]
      /\ legacy \in Nat /\ MaxGen \in Nat /\ WorkerCount \in Nat
  BY FleetAssumption DEF FleetInv, FleetTypeOK
<1>2. \A w \in WorkerFlows : w[2] > gen'[w[1]] => flowStatus'[w] = "absent"
  BY DEF FleetInv
<1>3. \A w \in WorkerFlows : w[2] < gen'[w[1]] => flowStatus'[w] \in Leaving \cup {"ended"}
  <2> SUFFICES ASSUME NEW w \in WorkerFlows, w[2] < gen[w[1]]
               PROVE  flowStatus'[w] \in Leaving \cup {"ended"}
    OBVIOUS
  <2>1. flowStatus[w] \in Leaving \cup {"ended"}
    BY DEF FleetInv
  <2>2. flowStatus'[w] \in Statuses
    OBVIOUS
  <2> QED
    BY <2>1, <2>2 DEF Leaving, Statuses
<1>4. Busy \in SUBSET Slots /\ Busy' \in SUBSET Busy
  <2>1. Busy \in SUBSET Slots
    BY DEF Busy
  <2> SUFFICES ASSUME NEW s \in Busy' PROVE s \in Busy
    BY <2>1
  <2>2. s \in Slots /\ gen[s] > 0 /\ flowStatus'[<<s, gen[s]>>] \in {"absent", "enqueued", "draining"}
    BY DEF Busy, Current
  <2>3. <<s, gen[s]>> \in WorkerFlows
    BY <2>2, <1>1 DEF WorkerFlows
  <2> QED
    BY <2>2, <2>3 DEF Busy, Current
<1>5. Cardinality(Busy') <= Cardinality(Busy) /\ Cardinality(Busy') \in Nat
        /\ Cardinality(Busy) \in Nat
  BY <1>4, SlotSets, SlotSetsGrow
<1>6. legacy + Cardinality(Busy) <= WorkerCount
  BY DEF FleetInv
<1> QED
  BY <1>1, <1>2, <1>3, <1>5, <1>6

\* A terminal status keeps the types.
LEMMA EndTyped ==
  ASSUME FleetTypeOK, NEW W, EndFlows(W)
  PROVE  /\ flowStatus' \in [WorkerFlows -> Statuses]
         /\ line' \in [WorkerFlows -> SUBSET WorkerFlows]
         /\ \A v \in WorkerFlows : flowStatus'[v] = flowStatus[v] \/ flowStatus'[v] = "ended"
         /\ \A v \in WorkerFlows : v \notin W => flowStatus'[v] = flowStatus[v]
         /\ \A v \in WorkerFlows : v \in W => flowStatus'[v] = "ended"
BY ZenonT(30) DEF FleetTypeOK, EndFlows, Statuses

\* Everything but a reservation, in one shape: the intents stay, no slot
\* becomes busy, and nobody reserves more.
LEMMA FleetQuietKeeps ==
  ASSUME FleetInv, UNCHANGED gen, legacy' \in 0 .. WorkerCount, legacy' <= legacy,
         flowStatus' \in [WorkerFlows -> Statuses], line' \in [WorkerFlows -> SUBSET WorkerFlows],
         ids' \in [Actors -> SUBSET WorkerFlows], \A a \in Actors : ids'[a] \subseteq ids[a],
         cancelledLate' \subseteq WorkerFlows, stuck' \in BOOLEAN,
         fleetFaults' \in 0 .. FaultBound,
         \A w \in WorkerFlows : flowStatus'[w] \in {"absent", "enqueued", "draining"}
                           => flowStatus[w] \in {"absent", "enqueued", "draining"},
         \A w \in WorkerFlows : flowStatus[w] = "absent" /\ w[2] > gen[w[1]] => flowStatus'[w] = "absent",
         \A w \in cancelledLate' : flowStatus'[w] = "ended",
         \A w \in WorkerFlows : flowStatus'[w] = "absent" => line'[w] = {}
  PROVE  FleetInv'
<1>1. legacy' \in Nat
  BY FleetAssumption
<1>2. /\ \A w \in WorkerFlows : w[2] > gen'[w[1]] => flowStatus'[w] = "absent"
      /\ \A w \in WorkerFlows : w[2] < gen'[w[1]] => flowStatus'[w] \in Leaving \cup {"ended"}
      /\ legacy' + Cardinality(Busy') <= WorkerCount
  BY <1>1, QuietStep
<1>3. \A a \in Actors : \A w \in ids'[a] : w[2] <= gen'[w[1]]
  BY DEF FleetInv
<1>4. FleetTypeOK'
  BY DEF FleetInv, FleetTypeOK
<1> QED
  BY <1>2, <1>3, <1>4, ZenonT(30) DEF FleetInv

\* Every step of the fleet keeps the invariant.
LEMMA FleetStep == FleetInv /\ [FleetNext]_fleetVars => FleetInv'
<1> SUFFICES ASSUME FleetInv, [FleetNext]_fleetVars PROVE FleetInv'
  OBVIOUS
<1>s. stuck' \in BOOLEAN
  <2>1. stuck \in BOOLEAN
    BY DEF FleetInv, FleetTypeOK
  <2>2. stuck' = stuck \/ stuck' = ~stuck
    BY ZenonT(30) DEF FleetNext, TickRefill, TickLost, LegacyEnds, Quarantine, Enqueue, Dequeue,
       LeaveLoop, PrepareNext, LatePrepare, HandedOver, CycleErrs, CancelStaleWorkers,
       CancelStranded, CancelWithChildren, DropIds, fleetVars
  <2> QED
    BY <2>1, <2>2, ZenonT(30)
<1>t. /\ FleetTypeOK
      /\ gen \in [Slots -> 0 .. MaxGen] /\ flowStatus \in [WorkerFlows -> Statuses]
      /\ legacy \in 0 .. WorkerCount /\ ids \in [Actors -> SUBSET WorkerFlows]
      /\ line \in [WorkerFlows -> SUBSET WorkerFlows] /\ cancelledLate \subseteq WorkerFlows
      /\ fleetFaults \in 0 .. FaultBound /\ FaultBound \in Nat /\ WorkerCount \in Nat
  BY FleetAssumption DEF FleetInv, FleetTypeOK
<1>l. /\ \A w \in cancelledLate : flowStatus[w] = "ended"
      /\ \A w \in WorkerFlows : flowStatus[w] = "absent" => line[w] = {}
  BY DEF FleetInv
<1>f. Fault => fleetFaults' \in 0 .. FaultBound
  BY <1>t DEF Fault
<1>1. ASSUME NEW F \in SUBSET Slots, TickRefill(F) PROVE FleetInv'
  <2>1. /\ F \in Seen(Tick) /\ Reserve(Tick, F, TRUE)
        /\ UNCHANGED <<flowStatus, legacy, line, cancelledLate, fleetFaults>>
    BY <1>1, ZenonT(30) DEF TickRefill
  <2>2. Tick \in Actors
    BY DEF Actors
  <2>3. /\ gen' \in [Slots -> 0 .. MaxGen]
        /\ ids' \in [Actors -> SUBSET WorkerFlows]
        /\ \A w \in WorkerFlows : w[2] > gen'[w[1]] => flowStatus'[w] = "absent"
        /\ \A w \in WorkerFlows : w[2] < gen'[w[1]] => flowStatus'[w] \in Leaving \cup {"ended"}
        /\ \A b \in Actors : \A w \in ids'[b] : w[2] <= gen'[w[1]]
        /\ legacy' + Cardinality(Busy') <= WorkerCount
    BY <2>1, <2>2, <1>t, ReserveKeeps, ZenonT(30)
  <2> QED
    BY <2>1, <2>3, <1>s, <1>t, <1>l DEF FleetInv, FleetTypeOK
<1>i. ASSUME NEW a \in Actors, ids' = [ids EXCEPT ![a] = {}]
      PROVE  ids' \in [Actors -> SUBSET WorkerFlows] /\ \A b \in Actors : ids'[b] \subseteq ids[b]
  BY <1>i, <1>t
<1>e. ASSUME NEW w \in WorkerFlows, EndFlows({w}), flowStatus[w] # "absent"
      PROVE  /\ flowStatus' \in [WorkerFlows -> Statuses] /\ line' \in [WorkerFlows -> SUBSET WorkerFlows]
             /\ \A v \in WorkerFlows : flowStatus'[v] \in {"absent", "enqueued", "draining"}
                                 => flowStatus[v] \in {"absent", "enqueued", "draining"}
             /\ \A v \in WorkerFlows : flowStatus[v] = "absent" => flowStatus'[v] = "absent"
             /\ \A v \in cancelledLate : flowStatus'[v] = "ended"
             /\ \A v \in WorkerFlows : flowStatus'[v] = "absent" => line'[v] = {}
  <2>1. /\ flowStatus' \in [WorkerFlows -> Statuses] /\ line' \in [WorkerFlows -> SUBSET WorkerFlows]
        /\ \A v \in WorkerFlows : flowStatus'[v] = flowStatus[v] \/ flowStatus'[v] = "ended"
        /\ \A v \in WorkerFlows : v \notin {w} => flowStatus'[v] = flowStatus[v]
    BY <1>e, <1>t, EndTyped
  <2>2. \A v \in WorkerFlows : flowStatus'[v] = "absent" => line'[v] = {}
    BY <2>1, <1>e, <1>l DEF EndFlows
  <2> QED
    BY <2>1, <2>2, <1>e, <1>t, <1>l
<1>2. ASSUME TickLost PROVE FleetInv'
  <2>1. ids' \in [Actors -> SUBSET WorkerFlows] /\ \A b \in Actors : ids'[b] \subseteq ids[b]
    BY <1>2, <1>i, ZenonT(30) DEF TickLost, Actors
  <2> QED
    BY <2>1, <1>2, <1>s, <1>t, <1>l, <1>f, FleetQuietKeeps DEF TickLost
<1>3. ASSUME LegacyEnds PROVE FleetInv'
  BY <1>3, <1>s, <1>t, <1>l, FleetQuietKeeps DEF LegacyEnds
<1>4. ASSUME NEW a \in Actors, NEW w \in WorkerFlows, Enqueue(a, w) PROVE FleetInv'
  <2>1. w \in ids[a] /\ w[2] <= gen[w[1]] /\ w[2] \in Nat /\ gen[w[1]] \in Nat
    BY <1>4, <1>t, FleetAssumption DEF Enqueue, FleetInv, WorkerFlows
  <2>2. flowStatus' = [flowStatus EXCEPT ![w] = IF @ = "absent" THEN "enqueued" ELSE @]
          /\ UNCHANGED <<gen, legacy, cancelledLate, fleetFaults>>
    BY <1>4 DEF Enqueue
  <2>3. flowStatus' \in [WorkerFlows -> Statuses]
    BY <2>2, <1>t DEF Statuses
  <2>4. ids' \in [Actors -> SUBSET WorkerFlows] /\ \A b \in Actors : ids'[b] \subseteq ids[b]
    BY <1>4, <1>t DEF Enqueue
  <2>5. line' \in [WorkerFlows -> SUBSET WorkerFlows]
    <3>1. a # Tick => a \in WorkerFlows
      BY DEF Actors
    <3> QED
      BY <1>4, <3>1, <1>t DEF Enqueue
  <2>6. \A v \in WorkerFlows : v # w => flowStatus'[v] = flowStatus[v] /\ line'[v] = line[v]
    BY <1>4, <1>t DEF Enqueue
  <2>7. flowStatus'[w] # "absent"
    BY <2>2, <1>t
  <2>8. flowStatus'[w] = flowStatus[w] \/ flowStatus[w] = "absent"
    BY <2>2, <1>t
  <2>9. \A v \in WorkerFlows : flowStatus[v] = "absent" /\ v[2] > gen[v[1]] => flowStatus'[v] = "absent"
    BY <2>1, <2>6
  <2> QED
    BY <2>2, <2>3, <2>4, <2>5, <2>6, <2>7, <2>8, <2>9, <1>s, <1>t, <1>l, FleetQuietKeeps
<1>5. ASSUME NEW w \in WorkerFlows, Dequeue(w) PROVE FleetInv'
  BY <1>5, <1>s, <1>t, <1>l, FleetQuietKeeps DEF Dequeue, Statuses
<1>6. ASSUME NEW w \in WorkerFlows, LeaveLoop(w) PROVE FleetInv'
  <2>1. CASE EndFlows({w})
    <3>1. flowStatus[w] # "absent" /\ UNCHANGED <<gen, legacy, ids, cancelledLate, fleetFaults>>
      BY <1>6 DEF LeaveLoop
    <3> QED
      BY <3>1, <2>1, <1>e, <1>s, <1>t, FleetQuietKeeps
  <2>2. CASE flowStatus' = [flowStatus EXCEPT ![w] = "leaving"] /\ UNCHANGED line
    BY <2>2, <1>6, <1>s, <1>t, <1>l, FleetQuietKeeps DEF LeaveLoop, Statuses, Leaving
  <2> QED
    BY <2>1, <2>2, <1>6 DEF LeaveLoop
<1>7. ASSUME NEW w \in WorkerFlows, PrepareNext(w) PROVE FleetInv'
  <2>1. flowStatus[w] = "leaving" /\ UNCHANGED <<legacy, line, cancelledLate>>
    BY <1>7 DEF PrepareNext
  <2>2. PICK F \in Seen(w), keep \in BOOLEAN :
          /\ Reserve(w, F, keep)
          /\ fleetFaults' \in 0 .. FaultBound
          /\ flowStatus' = flowStatus \/ flowStatus' = [flowStatus EXCEPT ![w] = "chaining"]
    BY <1>7, <1>t, <1>f, ZenonT(30) DEF PrepareNext
  <2>3. /\ flowStatus' \in [WorkerFlows -> Statuses]
        /\ \A v \in WorkerFlows :
             \/ flowStatus'[v] = flowStatus[v]
             \/ v = w /\ flowStatus[v] \in Leaving /\ flowStatus'[v] \in Leaving
    BY <2>1, <2>2, <1>t DEF Statuses, Leaving
  <2>4. w \in Actors /\ flowStatus[w] \in Leaving \cup {"ended"}
    BY <2>1 DEF Actors, Leaving
  <2>5. /\ gen' \in [Slots -> 0 .. MaxGen]
        /\ ids' \in [Actors -> SUBSET WorkerFlows]
        /\ \A v \in WorkerFlows : v[2] > gen'[v[1]] => flowStatus'[v] = "absent"
        /\ \A v \in WorkerFlows : v[2] < gen'[v[1]] => flowStatus'[v] \in Leaving \cup {"ended"}
        /\ \A b \in Actors : \A v \in ids'[b] : v[2] <= gen'[v[1]]
        /\ legacy' + Cardinality(Busy') <= WorkerCount
    BY <2>1, <2>2, <2>3, <2>4, ReserveKeeps, ZenonT(30)
  <2>6. \A v \in cancelledLate' : flowStatus'[v] = "ended"
    BY <2>1, <2>3, <1>t, <1>l, ZenonT(30) DEF Leaving
  <2>7. \A v \in WorkerFlows : flowStatus'[v] = "absent" => line'[v] = {}
    BY <2>1, <2>3, <1>l, ZenonT(30) DEF Leaving
  <2> QED
    BY <2>1, <2>2, <2>3, <2>5, <2>6, <2>7, <1>s, <1>t, ZenonT(30) DEF FleetInv, FleetTypeOK
<1>8. ASSUME NEW w \in WorkerFlows, LatePrepare(w) PROVE FleetInv'
  <2>1. /\ flowStatus[w] = "ended" /\ cancelledLate' \subseteq cancelledLate
        /\ UNCHANGED <<flowStatus, legacy, line, fleetFaults>>
    BY <1>8, <1>l, ZenonT(30) DEF LatePrepare
  <2>2. PICK F \in Seen(w) : Reserve(w, F, FALSE)
    BY <1>8, ZenonT(30) DEF LatePrepare
  <2>3. w \in Actors
    BY DEF Actors
  <2>4. /\ gen' \in [Slots -> 0 .. MaxGen]
        /\ ids' \in [Actors -> SUBSET WorkerFlows]
        /\ \A v \in WorkerFlows : v[2] > gen'[v[1]] => flowStatus'[v] = "absent"
        /\ \A v \in WorkerFlows : v[2] < gen'[v[1]] => flowStatus'[v] \in Leaving \cup {"ended"}
        /\ \A b \in Actors : \A v \in ids'[b] : v[2] <= gen'[v[1]]
        /\ legacy' + Cardinality(Busy') <= WorkerCount
    BY <2>1, <2>2, <2>3, <1>t, ReserveKeeps, ZenonT(30)
  <2> QED
    BY <2>1, <2>4, <1>s, <1>t, <1>l, ZenonT(30) DEF FleetInv, FleetTypeOK
<1>9. ASSUME NEW w \in WorkerFlows, HandedOver(w) PROVE FleetInv'
  <2>1. flowStatus[w] # "absent" /\ EndFlows({w}) /\ UNCHANGED <<gen, legacy, ids, cancelledLate,
     fleetFaults>>
    BY <1>9 DEF HandedOver
  <2> QED
    BY <2>1, <1>e, <1>s, <1>t, FleetQuietKeeps
<1>10. ASSUME NEW w \in WorkerFlows, CycleErrs(w) PROVE FleetInv'
  <2>1. /\ flowStatus[w] # "absent" /\ EndFlows({w}) /\ ids' = [ids EXCEPT ![w] = {}]
        /\ fleetFaults' \in 0 .. FaultBound /\ UNCHANGED <<gen, legacy, cancelledLate>>
    BY <1>10, <1>f DEF CycleErrs, Pending, Leaving
  <2>2. ids' \in [Actors -> SUBSET WorkerFlows] /\ \A b \in Actors : ids'[b] \subseteq ids[b]
    BY <2>1, <1>i, ZenonT(30) DEF Actors
  <2> QED
    BY <2>1, <2>2, <1>e, <1>s, <1>t, FleetQuietKeeps
<1>11. ASSUME NEW w \in WorkerFlows, flowStatus[w] # "absent", CancelWithChildren(w) PROVE FleetInv'
  <2> DEFINE gone == {v \in WorkerFlows : v = w \/ w \in line[v]}
  <2>1. /\ EndFlows(gone) /\ cancelledLate' = cancelledLate \cup {v \in gone : flowStatus[v] = "leaving"}
        /\ fleetFaults' \in 0 .. FaultBound /\ UNCHANGED <<gen, legacy, ids>>
    BY <1>11, <1>f, ZenonT(30) DEF CancelWithChildren
  <2>2. \A v \in gone : v \in WorkerFlows /\ flowStatus[v] # "absent"
    BY <1>11, <1>l
  <2>3. /\ flowStatus' \in [WorkerFlows -> Statuses]
        /\ line' \in [WorkerFlows -> SUBSET WorkerFlows]
        /\ \A v \in WorkerFlows : flowStatus'[v] = flowStatus[v] \/ flowStatus'[v] = "ended"
        /\ \A v \in WorkerFlows : v \notin gone => flowStatus'[v] = flowStatus[v]
        /\ \A v \in WorkerFlows : v \in gone => flowStatus'[v] = "ended"
    BY <2>1, <1>t, EndTyped, ZenonT(30)
  <2>4. \A v \in WorkerFlows : flowStatus'[v] = "absent" => line'[v] = {}
    BY <2>1, <2>3, <1>l, Zenon DEF EndFlows
  <2>5. cancelledLate' \subseteq WorkerFlows /\ \A v \in cancelledLate' : flowStatus'[v] = "ended"
    BY <2>1, <2>2, <2>3, <1>t, <1>l, ZenonT(30)
  <2> HIDE DEF gone
  <2> QED
    BY <2>1, <2>2, <2>3, <2>4, <2>5, <1>s, <1>t, FleetQuietKeeps
<1>12. ASSUME NEW w \in WorkerFlows, DropIds(w) PROVE FleetInv'
  <2>1. ids' \in [Actors -> SUBSET WorkerFlows] /\ \A b \in Actors : ids'[b] \subseteq ids[b]
    BY <1>12, <1>i, ZenonT(30) DEF DropIds, Actors
  <2> QED
    BY <2>1, <1>12, <1>s, <1>t, <1>l, FleetQuietKeeps DEF DropIds
<1>13. CASE UNCHANGED fleetVars
  BY <1>13, <1>s, <1>t, <1>l, FleetQuietKeeps DEF fleetVars
<1>14. ASSUME NEW w \in WorkerFlows, CancelStaleWorkers(w) \/ CancelStranded(w) PROVE FleetInv'
  BY <1>11, <1>14 DEF CancelStaleWorkers, CancelStranded, Pending, Leaving
<1>15. ASSUME Quarantine PROVE FleetInv'
  BY <1>15, <1>s, <1>t, <1>l, FleetQuietKeeps DEF Quarantine
<1> QED
  BY <1>1, <1>2, <1>3, <1>4, <1>5, <1>6, <1>7, <1>8, <1>9, <1>10, <1>12, <1>13, <1>14,
     <1>15, ZenonT(30) DEF FleetNext

\* No workflow exists before the first refill.
LEMMA FleetStart == FleetInit => FleetInv
<1> SUFFICES ASSUME FleetInit PROVE FleetInv
  OBVIOUS
<1>b. stuck \in BOOLEAN
  BY ZenonT(30) DEF FleetInit
<1>1. FleetTypeOK
  BY <1>b, FleetAssumption DEF FleetInit, FleetTypeOK, Statuses
<1>2. Busy = {}
  BY DEF Busy, FleetInit
<1>3. legacy \in Nat /\ legacy <= WorkerCount
  BY FleetAssumption DEF FleetInit
<1>4. legacy + Cardinality(Busy) <= WorkerCount
  BY <1>2, <1>3, FS_EmptySet
<1>5. \A w \in WorkerFlows : ~(w[2] < gen[w[1]])
  BY FleetAssumption DEF FleetInit, WorkerFlows
<1> QED
  BY <1>1, <1>4, <1>5 DEF FleetInit, FleetInv

\* The workflows that draw jobs are the current ones of distinct busy slots.
LEMMA FleetInvBounds == FleetInv => FleetBound
<1> SUFFICES ASSUME FleetInv PROVE FleetBound
  OBVIOUS
<1>1. /\ gen \in [Slots -> 0 .. MaxGen] /\ flowStatus \in [WorkerFlows -> Statuses]
      /\ legacy \in Nat /\ MaxGen \in Nat /\ WorkerCount \in Nat
  BY FleetAssumption DEF FleetInv, FleetTypeOK
<1>2. \A w \in Drawing : w \in WorkerFlows /\ w[1] \in Busy /\ w = <<w[1], gen[w[1]]>>
  <2> SUFFICES ASSUME NEW w \in Drawing
               PROVE  w \in WorkerFlows /\ w[1] \in Busy /\ w = <<w[1], gen[w[1]]>>
    OBVIOUS
  <2>1. w \in WorkerFlows /\ flowStatus[w] \in {"enqueued", "draining"}
    BY DEF Drawing
  <2>2. w[1] \in Slots /\ w[2] \in 1 .. MaxGen /\ w = <<w[1], w[2]>>
    BY <2>1 DEF WorkerFlows
  <2>3. ~(w[2] > gen[w[1]]) /\ ~(w[2] < gen[w[1]])
    BY <2>1 DEF FleetInv, Leaving
  <2>4. w[2] = gen[w[1]] /\ gen[w[1]] > 0
    BY <2>2, <2>3, <1>1
  <2> QED
    BY <2>1, <2>2, <2>4 DEF Busy, Current
<1>3. \A v, w \in Drawing : v[1] = w[1] => v = w
  BY <1>2
<1>4. Cardinality(Drawing) <= Cardinality(Busy) /\ Cardinality(Drawing) \in Nat
        /\ Cardinality(Busy) \in Nat
  <2> DEFINE f == [w \in Drawing |-> w[1]]
  <2>1. Busy \in SUBSET Slots
    BY DEF Busy
  <2>2. IsFiniteSet(Busy) /\ Cardinality(Busy) \in Nat
    BY <2>1, SlotSets
  <2>3. f \in Injection(Drawing, Busy)
    <3>1. f \in [Drawing -> Busy]
      BY <1>2
    <3>2. \A v, w \in Drawing : f[v] = f[w] => v = w
      BY <1>3
    <3> QED
      BY <3>1, <3>2 DEF Injection, IsInjective
  <2>4. IsFiniteSet(Drawing) /\ Cardinality(Drawing) <= Cardinality(Busy)
    BY <2>2, <2>3, FS_Injection
  <2> QED
    BY <2>2, <2>4, FS_CardinalityType
<1>5. legacy + Cardinality(Busy) <= WorkerCount
  BY DEF FleetInv
<1> QED
  BY <1>1, <1>3, <1>4, <1>5 DEF FleetBound

\* Refills, handovers, replays and reapers never leave two generations of a
\* slot drawing jobs, nor more cycles than workers with the untracked ones
\* counted: the reservation is bounded before anything is enqueued.
THEOREM FleetSafe == FleetSpec => []FleetBound
<1>1. FleetInit => FleetInv
  BY FleetStart
<1>2. FleetInv /\ [FleetNext]_fleetVars => FleetInv'
  BY FleetStep
<1>3. FleetInv => FleetBound
  BY FleetInvBounds
<1> QED
  BY <1>1, <1>2, <1>3, PTL DEF FleetSpec

\* Every generation before a slot's intent has left its job loop and none
\* after it exists, in every reachable state.
THEOREM FleetLineage == FleetSpec => []FleetInv
<1>1. FleetInit => FleetInv
  BY FleetStart
<1>2. FleetInv /\ [FleetNext]_fleetVars => FleetInv'
  BY FleetStep
<1> QED
  BY <1>1, <1>2, PTL DEF FleetSpec

-----------------------------------------------------------------------------
(* Admission *)

\* There are finitely many keys.
LEMMA KeysFinite == \A S \in SUBSET Keys : IsFiniteSet(S) /\ Cardinality(S) \in Nat
<1>1. IsFiniteSet(Flows) /\ IsFiniteSet(Jobs)
  BY DrainerAssumption
<1>2. IsFiniteSet(Keys)
  BY <1>1, FS_Product DEF Keys
<1>3. \A S \in SUBSET Keys : IsFiniteSet(S)
  BY <1>2, FS_Subset
<1> QED
  BY <1>3, FS_CardinalityType

\* Fewer keys count no more, and one more key counts at most one.
LEMMA KeysCount ==
  ASSUME NEW S \in SUBSET Keys, NEW T \in SUBSET Keys
  PROVE  /\ T \subseteq S => Cardinality(T) <= Cardinality(S)
         /\ \A k \in Keys : T \subseteq S \cup {k} => Cardinality(T) <= Cardinality(S) + 1
<1>1. IsFiniteSet(S) /\ IsFiniteSet(T) /\ Cardinality(S) \in Nat /\ Cardinality(T) \in Nat
  BY KeysFinite
<1>2. T \subseteq S => Cardinality(T) <= Cardinality(S)
  BY <1>1, FS_Subset
<1>3. ASSUME NEW k \in Keys, T \subseteq S \cup {k}
      PROVE  Cardinality(T) <= Cardinality(S) + 1
  <2>1. IsFiniteSet(S \cup {k})
          /\ (Cardinality(S \cup {k}) = Cardinality(S)
              \/ Cardinality(S \cup {k}) = Cardinality(S) + 1)
    BY <1>1, FS_AddElement
  <2>2. Cardinality(T) <= Cardinality(S \cup {k})
    BY <1>3, <2>1, FS_Subset
  <2> QED
    BY <1>1, <2>1, <2>2
<1> QED
  BY <1>2, <1>3

\* kg_jobs_today and the unbound reservations count disjoint keys.
LEMMA SpentIsUsed == Cardinality(Spent) = Used + Unbound
<1> DEFINE A == {k \in KgKeys : sess[k] # "none"}
           B == {k \in KgKeys \cap Active : sess[k] = "none"}
<1>1. A \in SUBSET Keys /\ B \in SUBSET Keys
  BY DEF KgKeys
<1>2. IsFiniteSet(A) /\ IsFiniteSet(B) /\ Cardinality(A) \in Nat /\ Cardinality(B) \in Nat
  BY <1>1, KeysFinite
<1>3. Spent = A \cup B /\ A \cap B = {}
  BY DEF Spent
<1>4. Cardinality(A \cup B) = Cardinality(A) + Cardinality(B) - Cardinality(A \cap B)
  BY <1>2, FS_Union
<1>5. Cardinality(A \cap B) = 0
  BY <1>3, FS_EmptySet
<1>6. Used = Cardinality(A) /\ Unbound = Cardinality(B)
  BY DEF Used, Unbound
<1> HIDE DEF A, B
<1> QED
  BY <1>2, <1>3, <1>4, <1>5, <1>6

\* What one key's session, permit and guest keep.
Agree(k) ==
  /\ permit[k] = "none" => sess[k] = "none"
  /\ sess[k] \in {"queued", "claimed"} => permit[k] = "reserved"
  /\ sess[k] = "run" => permit[k] = "running"
  /\ permit[k] = "waived" => k[2] \in Review /\ sess[k] = "unknown"
  /\ guest[k] = "run" => sess[k] \in {"run", "error", "unknown"} /\ k \in Active

\* A step that starts nothing: every key goes on agreeing, none becomes active or
\* starts to count, and only a permit that has its job to itself is waived.
Quiet ==
  /\ permit' \in [Keys -> Permits] /\ sess' \in [Keys -> Sessions] /\ guest' \in [Keys -> Guests]
  /\ \A k \in Keys :
       /\ permit'[k] = "none" => sess'[k] = "none"
       /\ sess'[k] \in {"queued", "claimed"} => permit'[k] = "reserved"
       /\ sess'[k] = "run" => permit'[k] = "running"
       /\ permit'[k] = "waived" => k[2] \in Review /\ sess'[k] = "unknown"
       /\ guest'[k] = "run" => /\ sess'[k] \in {"run", "error", "unknown"}
                               /\ permit'[k] \notin {"none", "settled"}
       /\ permit[k] \in {"none", "settled"} => permit'[k] \in {"none", "settled"}
       /\ permit'[k] \notin {"none", "settled"} =>
            Sole(k) \/ (permit'[k] = "waived" <=> permit[k] = "waived")
       /\ sess'[k] # "none" => sess[k] # "none" \/ permit[k] \notin {"none", "settled"}

\* Quiet steps keep the limits.
LEMMA QuietKeeps ==
  ASSUME PermitInv, Quiet, UNCHANGED fg
  PROVE  PermitInv'
<1>1. Active' \subseteq Active /\ Active \in SUBSET Keys
  BY DEF Active, Quiet
<1>2. Spent' \subseteq Spent /\ Spent \in SUBSET Keys
  BY DEF Spent, Active, Quiet, KgKeys
<1>3. Active \cap KgKeys \in SUBSET Keys /\ Active' \cap KgKeys \subseteq Active \cap KgKeys
  BY <1>1
<1>4. /\ Cardinality(Active') <= Cardinality(Active)
      /\ Cardinality(Active' \cap KgKeys) <= Cardinality(Active \cap KgKeys)
      /\ Cardinality(Spent') <= Cardinality(Spent)
  BY <1>1, <1>2, <1>3, KeysCount
<1>5. /\ Cardinality(Active) \in Nat /\ Cardinality(Active') \in Nat
      /\ Cardinality(Active \cap KgKeys) \in Nat /\ Cardinality(Active' \cap KgKeys) \in Nat
      /\ Cardinality(Spent) \in Nat /\ Cardinality(Spent') \in Nat
  BY <1>1, <1>2, <1>3, KeysFinite
<1>6. /\ TotalLimit \in Nat /\ KgLimit \in Nat /\ BaseCap \in Nat /\ BurstJobs \in Nat
  BY DrainerAssumption
<1>7. InUse' <= TotalLimit
  <2>1. InUse <= TotalLimit
    BY DEF PermitInv
  <2> QED
    BY <2>1, <1>4, <1>5, <1>6 DEF InUse
<1>8. KgKeys' = KgKeys
  BY DEF KgKeys
<1>9. Cardinality(Active' \cap KgKeys) <= KgLimit
  BY <1>4, <1>5, <1>6 DEF PermitInv
<1>10. Cardinality(Spent') <= BaseCap + BurstJobs
  BY <1>4, <1>5, <1>6 DEF PermitInv
<1>11. \A k, q \in Active' : k # q /\ k[2] = q[2] => Recomputed(k, q)'
  <2> SUFFICES ASSUME NEW k \in Active', NEW q \in Active', k # q, k[2] = q[2]
               PROVE  Recomputed(k, q)'
    OBVIOUS
  <2>1. k \in Active /\ q \in Active /\ k \in Keys /\ q \in Keys
    BY <1>1
  <2>2. Recomputed(k, q) /\ ~Sole(k) /\ ~Sole(q)
    BY <2>1 DEF PermitInv, Sole
  <2>3. /\ permit'[k] = "waived" <=> permit[k] = "waived"
        /\ permit'[q] = "waived" <=> permit[q] = "waived"
    BY <2>1, <2>2 DEF Quiet, Active
  <2> QED
    BY <2>2, <2>3 DEF Recomputed
<1>12. \A k \in Keys : Agree(k)'
  BY DEF Quiet, Agree, Active
<1>13. permit' \in [Keys -> Permits] /\ sess' \in [Keys -> Sessions] /\ guest' \in [Keys -> Guests]
         /\ fg' \in BOOLEAN
  BY DEF Quiet, PermitInv
<1> QED
  BY <1>7, <1>8, <1>9, <1>10, <1>11, <1>12, <1>13 DEF PermitInv, Agree

\* The facts about one key that the steps below rest on.
LEMMA KeyFacts ==
  ASSUME PermitInv
  PROVE  /\ permit \in [Keys -> Permits] /\ sess \in [Keys -> Sessions]
         /\ guest \in [Keys -> Guests] /\ fg \in BOOLEAN
         /\ \A k \in Keys : Agree(k)
         /\ (permit' = permit /\ sess' = sess /\ guest' = guest) => Quiet
<1>1. /\ permit \in [Keys -> Permits] /\ sess \in [Keys -> Sessions]
      /\ guest \in [Keys -> Guests] /\ fg \in BOOLEAN
  BY DEF PermitInv
<1>2. \A k \in Keys : Agree(k)
  BY DEF PermitInv, Agree
<1>3. ASSUME permit' = permit, sess' = sess, guest' = guest PROVE Quiet
  BY <1>1, <1>2, <1>3 DEF Quiet, Agree, Active
<1> QED
  BY <1>1, <1>2, <1>3

\* A claim takes a permit only where the limits and the job leave room for it.
LEMMA ClaimKeeps ==
  ASSUME PermitInv, NEW w \in Flows, NEW j \in Jobs, ClaimJob(w, j)
  PROVE  PermitInv'
<1> DEFINE k == <<w, j>>
<1>1. /\ Admits(k) /\ UNCHANGED <<sess, guest, fg>>
      /\ permit' = [permit EXCEPT ![k] = IF @ = "none" THEN "reserved" ELSE @]
  BY DEF ClaimJob, envVars
<1>2. /\ permit \in [Keys -> Permits] /\ sess \in [Keys -> Sessions]
      /\ guest \in [Keys -> Guests] /\ fg \in BOOLEAN /\ k \in Keys
      /\ \A q \in Keys : Agree(q)
  BY KeyFacts DEF Keys
<1> HIDE DEF k
<1>3. CASE permit[k] # "none"
  <2>1. permit' = permit
    BY <1>1, <1>2, <1>3, ZenonT(30)
  <2> QED
    BY <2>1, <1>1, KeyFacts, QuietKeeps
<1>4. CASE permit[k] = "none"
  <2>1. HasRoom(k) /\ permit'[k] = "reserved" /\ permit' \in [Keys -> Permits]
          /\ \A q \in Keys : q # k => permit'[q] = permit[q]
    BY <1>1, <1>2, <1>4 DEF Admits, Permits
  <2>2. Active' = Active \cup {k} /\ Active \in SUBSET Keys /\ Active' \in SUBSET Keys
    BY <2>1, <1>2 DEF Active
  <2>3. Spent \in SUBSET Keys /\ Spent' \in SUBSET Keys /\ Spent' \subseteq Spent \cup {k}
          /\ (k \notin KgKeys => Spent' \subseteq Spent)
    BY <2>2, <1>1 DEF Spent, KgKeys
  <2>4. /\ Cardinality(Active) \in Nat /\ Cardinality(Active') \in Nat
        /\ Cardinality(Active \cap KgKeys) \in Nat /\ Cardinality(Active' \cap KgKeys) \in Nat
        /\ Cardinality(Spent) \in Nat /\ Cardinality(Spent') \in Nat
    BY <2>2, <2>3, KeysFinite
  <2>5. /\ TotalLimit \in Nat /\ KgLimit \in Nat /\ BaseCap \in Nat /\ BurstJobs \in Nat
    BY DrainerAssumption
  <2>6. Cardinality(Active') <= Cardinality(Active) + 1
    BY <2>2, <1>2, KeysCount
  <2>7. InUse' <= TotalLimit
    <3>1. InUse < TotalLimit
      BY <2>1 DEF HasRoom
    <3> QED
      BY <3>1, <2>4, <2>5, <2>6, <1>1 DEF InUse
  <2>8. Cardinality(Active' \cap KgKeys) <= KgLimit
    <3>1. CASE k \in KgKeys
      <4>1. Cardinality(Active \cap KgKeys) < KgLimit
        BY <2>1, <3>1 DEF HasRoom
      <4>2. Active \cap KgKeys \in SUBSET Keys /\ Active' \cap KgKeys \in SUBSET Keys
              /\ Active' \cap KgKeys \subseteq (Active \cap KgKeys) \cup {k}
        BY <2>2
      <4>3. Cardinality(Active' \cap KgKeys) <= Cardinality(Active \cap KgKeys) + 1
        BY <4>2, <1>2, KeysCount
      <4> QED
        BY <4>1, <4>3, <2>4, <2>5, RoomForOne, ZenonT(30)
    <3>2. CASE k \notin KgKeys
      <4>1. Active' \cap KgKeys = Active \cap KgKeys
        BY <2>2, <3>2
      <4> QED
        BY <4>1, ZenonT(30) DEF PermitInv
    <3> QED
      BY <3>1, <3>2
  <2>9. Cardinality(Spent') <= BaseCap + BurstJobs
    <3>1. CASE k \in KgKeys
      <4>1. Cardinality(Spent) < Cap
        BY <2>1, <3>1, SpentIsUsed DEF HasRoom
      <4>2. Cardinality(Spent') <= Cardinality(Spent) + 1
        BY <2>3, <1>2, KeysCount
      <4>3. Cap \in Nat /\ Cap <= BaseCap + BurstJobs
        BY <2>5 DEF Cap
      <4> QED
        BY <4>1, <4>2, <4>3, <2>4, <2>5, RoomForOne, ZenonT(30)
    <3>2. CASE k \notin KgKeys
      <4>1. Cardinality(Spent') <= Cardinality(Spent)
        BY <2>3, <3>2, KeysCount
      <4>2. Cardinality(Spent) <= BaseCap + BurstJobs
        BY DEF PermitInv
      <4> QED
        BY <4>1, <4>2, <2>4, <2>5
    <3> QED
      BY <3>1, <3>2
  <2>10. \A q, r \in Active' : q # r /\ q[2] = r[2] => Recomputed(q, r)'
    <3>1. \A q \in Active : q[2] = k[2] => permit[q] = "waived"
      BY <2>1 DEF HasRoom, Rivals
    <3>2. \A q, r \in Active : q # r /\ q[2] = r[2] => Recomputed(q, r)
      BY DEF PermitInv
    <3> QED
      BY <3>1, <3>2, <2>1, <2>2 DEF Recomputed
  <2>11. \A q \in Keys : Agree(q)'
    <3> SUFFICES ASSUME NEW q \in Keys PROVE Agree(q)'
      OBVIOUS
    <3>1. Agree(q) /\ (q \in Active => q \in Active')
      BY <1>2, <2>2
    <3>2. CASE q = k
      BY <3>1, <3>2, <2>1, <1>1, <1>4, ZenonT(30) DEF Agree
    <3>3. CASE q # k
      BY <3>1, <3>3, <2>1, <1>1, ZenonT(30) DEF Agree
    <3> QED
      BY <3>2, <3>3
  <2>12. KgKeys' = KgKeys
    BY DEF KgKeys
  <2> QED
    BY <2>1, <2>7, <2>8, <2>9, <2>10, <2>11, <2>12, <1>1, <1>2 DEF PermitInv, Agree
<1> QED
  BY <1>3, <1>4

\* cancel_drainer_reservation refunds only what never got a session.
LEMMA CancelQuiet ==
  ASSUME PermitInv, NEW k, CancelUnbound(k), UNCHANGED <<sess, guest>>
  PROVE  Quiet
<1>1. /\ permit \in [Keys -> Permits] /\ sess \in [Keys -> Sessions]
      /\ guest \in [Keys -> Guests] /\ \A q \in Keys : Agree(q)
  BY KeyFacts
<1>2. permit' \in [Keys -> Permits]
        /\ \A q \in Keys : \/ permit'[q] = permit[q]
                           \/ permit[q] = "reserved" /\ sess[q] = "none" /\ permit'[q] = "settled"
  BY <1>1, ZenonT(30) DEF CancelUnbound, Permits
<1> QED
  BY <1>1, <1>2 DEF Quiet, Agree, Active

\* A confirmed or unconfirmed DELETE only ever clears a guest.
LEMMA CleanQuiet ==
  ASSUME PermitInv, guest' \in [Keys -> Guests], UNCHANGED <<permit, sess>>,
         \A q \in Keys : guest'[q] = guest[q] \/ guest'[q] = "cleared"
  PROVE  Quiet
BY KeyFacts, ZenonT(30) DEF Quiet, Agree, Active

\* destroy_drainer_session: a message without a guest is dropped with its
\* permit, or under its executor, which keeps the permit.
LEMMA DestroyQuiet ==
  ASSUME PermitInv, NEW k, DestroySession(k)
  PROVE  Quiet
<1>1. /\ permit \in [Keys -> Permits] /\ sess \in [Keys -> Sessions]
      /\ guest \in [Keys -> Guests] /\ \A q \in Keys : Agree(q)
  BY KeyFacts
<1>2. CASE UNCHANGED rowVars
  BY <1>2, KeyFacts DEF rowVars
<1>3. CASE CancelUnbound(k) /\ UNCHANGED <<job, sess, guest, claim>>
  BY <1>3, CancelQuiet
<1>4. CASE CleanUp(k) /\ UNCHANGED <<job, permit, sess>>
  <2>1. guest' \in [Keys -> Guests] /\ \A q \in Keys : guest'[q] = guest[q] \/ guest'[q] = "cleared"
    BY <1>1, <1>4 DEF CleanUp, Guests
  <2> QED
    BY <1>4, <2>1, CleanQuiet
<1>5. CASE /\ ~Bound(k) /\ sess[k] \in {"queued", "claimed"}
           /\ sess' = [sess EXCEPT ![k] = IF @ = "queued" THEN "dropped" ELSE "lost"]
           /\ permit' = [permit EXCEPT ![k] = IF sess[k] = "queued" THEN "settled" ELSE @]
           /\ UNCHANGED <<job, guest, claim>>
  <2>1. /\ permit' \in [Keys -> Permits] /\ sess' \in [Keys -> Sessions]
        /\ \A q \in Keys : q # k => permit'[q] = permit[q] /\ sess'[q] = sess[q]
    BY <1>1, <1>5, ZenonT(30) DEF Permits, Sessions
  <2>2. k \in Keys => /\ sess'[k] \in {"dropped", "lost"} /\ guest[k] # "run"
                      /\ permit[k] = "reserved" /\ permit'[k] \in {"reserved", "settled"}
    BY <1>1, <1>5 DEF Bound, Agree
  <2> QED
    BY <1>1, <1>5, <2>1, <2>2, ZenonT(30) DEF Quiet, Agree, Active
<1> QED
  BY <1>2, <1>3, <1>4, <1>5 DEF DestroySession

\* start_agent_session queues the first message of a reserved key.
LEMMA StartQuiet ==
  ASSUME PermitInv, NEW w \in Flows, StartSession(w)
  PROVE  Quiet
<1>1. /\ permit \in [Keys -> Permits] /\ sess \in [Keys -> Sessions]
      /\ guest \in [Keys -> Guests] /\ \A q \in Keys : Agree(q)
  BY KeyFacts
<1> DEFINE k == Key(w)
<1>2. /\ sess' = [sess EXCEPT ![k] =
             IF sess[k] = "none" /\ permit[k] = "reserved" THEN "queued" ELSE @]
      /\ permit' = permit /\ guest' = guest
  BY DEF StartSession
<1> HIDE DEF k
<1>3. sess' \in [Keys -> Sessions]
        /\ \A q \in Keys : \/ sess'[q] = sess[q]
                           \/ sess[q] = "none" /\ permit[q] = "reserved" /\ sess'[q] = "queued"
  BY <1>1, <1>2, ZenonT(30) DEF Sessions
<1> QED
  BY <1>1, <1>2, <1>3 DEF Quiet, Agree, Active

\* The executor's steps move one key along its turn.
LEMMA ExecQuiet ==
  ASSUME PermitInv, NEW k \in Keys,
         ExecClaim(k) \/ ExecStart(k) \/ ExecAnswer(k) \/ ExecError(k) \/ GuestStops(k)
  PROVE  Quiet
<1>1. /\ permit \in [Keys -> Permits] /\ sess \in [Keys -> Sessions]
      /\ guest \in [Keys -> Guests] /\ \A q \in Keys : Agree(q)
  BY KeyFacts
<1>2. ASSUME NEW p \in Permits, NEW s \in Sessions, NEW g \in Guests,
             permit' = [permit EXCEPT ![k] = p], sess' = [sess EXCEPT ![k] = s],
             guest' = [guest EXCEPT ![k] = g],
             p # "none", s \notin {"none", "queued"}, sess[k] # "none",
             s = "claimed" => p = "reserved", s = "run" => p = "running",
             permit[k] # "waived", p # "waived",
             g = "run" => s \in {"run", "error", "unknown"} /\ p # "settled",
             permit[k] = "settled" => p = "settled"
      PROVE  Quiet
  <2>1. /\ permit' \in [Keys -> Permits] /\ sess' \in [Keys -> Sessions]
        /\ guest' \in [Keys -> Guests]
        /\ permit'[k] = p /\ sess'[k] = s /\ guest'[k] = g
        /\ \A q \in Keys : q # k => permit'[q] = permit[q] /\ sess'[q] = sess[q]
                                     /\ guest'[q] = guest[q]
    BY <1>1, <1>2
  <2>2. permit[k] # "none"
    BY <1>1, <1>2 DEF Agree
  <2> QED
    BY <1>1, <1>2, <2>1, <2>2 DEF Quiet, Agree, Active
<1>w. sess[k] # "unknown" => permit[k] # "waived"
  BY <1>1 DEF Agree
<1>3. CASE ExecClaim(k)
  <2>1. /\ permit[k] = "reserved" /\ sess[k] = "queued" /\ guest[k] # "run" /\ guest[k] \in Guests
        /\ permit' = [permit EXCEPT ![k] = "reserved"] /\ guest' = [guest EXCEPT ![k] = guest[k]]
        /\ sess' = [sess EXCEPT ![k] = "claimed"]
    BY <1>1, <1>3 DEF ExecClaim, Agree
  <2> QED
    BY <1>2, <1>w, <2>1, ZenonT(30) DEF Permits, Sessions
<1>4. CASE ExecStart(k)
  BY <1>1, <1>2, <1>4, <1>w DEF ExecStart, Permits, Sessions, Guests
<1>5. CASE ExecAnswer(k)
  <2>1. PICK o \in {"done", "odd"} :
          /\ sess' = [sess EXCEPT ![k] = o]
          /\ permit' = [permit EXCEPT ![k] = IF o = "done" THEN "settled" ELSE "uncertain"]
          /\ guest' = [guest EXCEPT ![k] = "idle"]
    BY <1>5, ZenonT(30) DEF ExecAnswer
  <2> DEFINE p == IF o = "done" THEN "settled" ELSE "uncertain"
  <2>2. p \in Permits /\ p \notin {"none", "waived"} /\ o \in Sessions /\ "idle" \in Guests
    BY DEF Permits, Sessions, Guests
  <2>3. /\ sess[k] # "none" /\ permit[k] \notin {"waived", "settled"}
        /\ o \notin {"none", "queued", "claimed", "run"} /\ "idle" # "run"
    BY <1>1, <1>5 DEF ExecAnswer, Agree
  <2> HIDE DEF p
  <2>4. permit' = [permit EXCEPT ![k] = p]
    BY <2>1 DEF p
  <2> QED
    BY <1>2, <2>1, <2>2, <2>3, <2>4, ZenonT(30)
<1>6. CASE ExecError(k)
  <2>1. PICK o \in {"failed", "error", "unknown"}, g \in Guests :
          /\ sess' = [sess EXCEPT ![k] = o]
          /\ permit' = [permit EXCEPT ![k] = IF o = "failed" THEN "settled" ELSE "uncertain"]
          /\ guest' = [guest EXCEPT ![k] = g]
          /\ g = "run" => o # "failed"
    <3>1. {guest[k], "idle", "stray", "untraced"} \subseteq Guests
      BY <1>1 DEF Guests
    <3> QED
      BY <3>1, <1>6, ZenonT(30) DEF ExecError
  <2> DEFINE p == IF o = "failed" THEN "settled" ELSE "uncertain"
  <2>2. /\ p \in Permits /\ p \notin {"none", "waived"} /\ o \in Sessions
        /\ g = "run" => o \in {"run", "error", "unknown"} /\ p # "settled"
    BY <2>1 DEF Permits, Sessions
  <2>3. /\ sess[k] # "none" /\ permit[k] \notin {"waived", "settled"}
        /\ o \notin {"none", "queued", "claimed", "run"}
    BY <1>1, <1>6 DEF ExecError, Agree
  <2> HIDE DEF p
  <2>4. permit' = [permit EXCEPT ![k] = p]
    BY <2>1 DEF p
  <2> QED
    BY <1>2, <2>1, <2>2, <2>3, <2>4, ZenonT(30)
<1>7. CASE GuestStops(k)
  <2>1. guest' \in [Keys -> Guests] /\ permit' = permit /\ sess' = sess
          /\ \A q \in Keys : guest'[q] = guest[q] \/ guest'[q] \in {"idle", "mute"}
    BY <1>1, <1>7 DEF GuestStops, Guests
  <2> QED
    BY <1>1, <2>1 DEF Quiet, Agree, Active
<1> QED
  BY <1>3, <1>4, <1>5, <1>6, <1>7

\* Whoever settles an uncertain permit has seen its guest out of the way.
LEMMA SettleQuiet ==
  ASSUME PermitInv, NEW k \in Keys, Supervise(k) \/ Reconcile(k)
  PROVE  Quiet
<1>1. /\ permit \in [Keys -> Permits] /\ sess \in [Keys -> Sessions]
      /\ guest \in [Keys -> Guests] /\ \A q \in Keys : Agree(q)
  BY KeyFacts
<1>2. /\ sess[k] \in {"error", "unknown"} /\ guest[k] # "run" /\ sess' = sess
      /\ permit' = [permit EXCEPT ![k] = "settled"]
      /\ guest' = guest \/ guest' = [guest EXCEPT ![k] = IF @ = "none" THEN @ ELSE "cleared"]
  BY DEF Supervise, Reconcile, Reconcilable, Ceased
<1>3. /\ permit' \in [Keys -> Permits] /\ guest' \in [Keys -> Guests]
      /\ permit'[k] = "settled" /\ guest'[k] # "run"
      /\ \A q \in Keys : q # k => permit'[q] = permit[q] /\ guest'[q] = guest[q]
  BY <1>1, <1>2 DEF Permits, Guests
<1> QED
  BY <1>1, <1>2, <1>3, ZenonT(30) DEF Quiet, Agree, Active

\* The operator's recomputation waives a permit that has its job to itself, and
\* settles it only with proof that its guest stopped.
LEMMA RecoverQuiet ==
  ASSUME PermitInv, NEW k \in Keys, RecoverReview(k)
  PROVE  Quiet
<1>1. /\ permit \in [Keys -> Permits] /\ sess \in [Keys -> Sessions]
      /\ guest \in [Keys -> Guests] /\ \A q \in Keys : Agree(q)
  BY KeyFacts
<1>2. PICK p \in {"waived", "settled"} :
        /\ permit' = [permit EXCEPT ![k] = p]
        /\ p = "settled" => Ceased(k)
  BY ZenonT(30) DEF RecoverReview
<1>3. p = "settled" => guest[k] # "run"
  BY <1>2 DEF Ceased
<1>4. /\ sess' = sess /\ guest' = guest /\ Sole(k) /\ k[2] \in Review
      /\ sess[k] = "unknown" /\ permit[k] = "uncertain"
  BY DEF RecoverReview
<1>5. /\ permit' \in [Keys -> Permits] /\ permit'[k] = p
      /\ \A q \in Keys : q # k => permit'[q] = permit[q]
  BY <1>1, <1>2 DEF Permits
<1> QED
  BY <1>1, <1>4, <1>5, <1>3 DEF Quiet, Agree, Active

\* The sweep of lost starts refunds only reservations without a session.
LEMMA SweepQuiet ==
  ASSUME PermitInv, SweepLost
  PROVE  Quiet
<1>1. /\ permit \in [Keys -> Permits] /\ sess \in [Keys -> Sessions]
      /\ guest \in [Keys -> Guests] /\ \A q \in Keys : Agree(q)
  BY KeyFacts
<1>2. PICK L \in SUBSET Lost :
        permit' = [k \in Keys |-> IF k \in L THEN "settled" ELSE permit[k]]
          /\ sess' = sess /\ guest' = guest
  BY DEF SweepLost
<1>3. permit' \in [Keys -> Permits]
        /\ \A q \in Keys : \/ permit'[q] = permit[q]
                           \/ permit[q] = "reserved" /\ sess[q] = "none" /\ permit'[q] = "settled"
  BY <1>1, <1>2 DEF Lost, Permits
<1> QED
  BY <1>1, <1>2, <1>3 DEF Quiet, Agree, Active

\* No step of a cycle but its claim starts anything.
LEMMA CycleQuiet ==
  ASSUME PermitInv, NEW w \in Flows, CycleStep(w)
  PROVE  Quiet /\ fg' = fg
<1>1. CASE BeginCycle(w) \/ EndLoop(w) \/ Gate(w) \/ Build(w) \/ StartFails(w)
             \/ AwaitTurn(w) \/ Fail(w)
  <2>1. permit' = permit /\ sess' = sess /\ guest' = guest /\ fg' = fg
    BY <1>1 DEF BeginCycle, EndLoop, Gate, Build, StartFails, AwaitTurn, Fail, rowVars, envVars
  <2> QED
    BY <2>1, KeyFacts
<1>2. CASE FinishJob(w) \/ Increment(w) \/ DeferJob(w) \/ HoldJob(w)
  <2>1. permit' = permit /\ sess' = sess /\ guest' = guest /\ fg' = fg
    BY <1>2 DEF FinishJob, Increment, DeferJob, HoldJob, envVars
  <2> QED
    BY <2>1, KeyFacts
<1>3. CASE StartSession(w)
  BY <1>3, StartQuiet, ZenonT(30) DEF StartSession, envVars
<1>4. CASE CancelReservation(w)
  BY <1>4, CancelQuiet DEF CancelReservation, envVars
<1>5. CASE Destroy(w)
  BY <1>5, DestroyQuiet DEF Destroy, envVars
<1> QED
  BY <1>1, <1>2, <1>3, <1>4, <1>5 DEF CycleStep

\* An interactive turn takes a place of the pool only while there is one.
LEMMA InteractiveKeeps ==
  ASSUME PermitInv, Interactive
  PROVE  PermitInv'
<1>1. /\ permit' = permit /\ sess' = sess /\ guest' = guest /\ fg' = ~fg
      /\ fg \/ InUse < TotalLimit
  BY DEF Interactive, rowVars
<1>2. Active' = Active /\ Spent' = Spent /\ KgKeys' = KgKeys /\ Active \in SUBSET Keys
  BY <1>1 DEF Active, Spent, KgKeys
<1>3. Cardinality(Active) \in Nat /\ TotalLimit \in Nat
  BY <1>2, KeysFinite, DrainerAssumption
<1>4. InUse' <= TotalLimit
  <2>1. InUse <= TotalLimit
    BY DEF PermitInv
  <2>2. CASE fg = TRUE
    BY <2>1, <2>2, <1>1, <1>2, <1>3 DEF InUse
  <2>3. CASE fg = FALSE
    BY <2>3, <1>1, <1>2, <1>3 DEF InUse
  <2> QED
    BY <2>2, <2>3, ZenonT(30) DEF PermitInv
<1>5. fg' \in BOOLEAN
  BY <1>1 DEF PermitInv
<1>6. /\ permit' \in [Keys -> Permits] /\ sess' \in [Keys -> Sessions]
      /\ guest' \in [Keys -> Guests]
      /\ \A k \in Keys : Agree(k)'
  BY <1>1, <1>2, KeyFacts DEF Agree
<1>7. /\ \A k, q \in Active' : k # q /\ k[2] = q[2] => Recomputed(k, q)'
      /\ Cardinality(Active' \cap KgKeys') <= KgLimit
      /\ Cardinality(Spent') <= BaseCap + BurstJobs
  BY <1>1, <1>2 DEF PermitInv, Recomputed
<1> QED
  BY <1>4, <1>5, <1>6, <1>7 DEF PermitInv, Agree

\* Every step of every actor keeps the invariant.
LEMMA DrainStep == PermitInv /\ [DrainNext]_drainVars => PermitInv'
<1> SUFFICES ASSUME PermitInv, [DrainNext]_drainVars PROVE PermitInv'
  OBVIOUS
<1>u. ASSUME permit' = permit, sess' = sess, guest' = guest, fg' = fg PROVE PermitInv'
  BY <1>u, KeyFacts, QuietKeeps
<1>1. ASSUME NEW w \in Flows, CycleStep(w) PROVE PermitInv'
  BY <1>1, CycleQuiet, QuietKeeps
<1>2. ASSUME NEW w \in Flows, CancelStale(w) PROVE PermitInv'
  <2>1. permit' = permit /\ sess' = sess /\ fg' = fg
    BY <1>2, ZenonT(30) DEF CancelStale, envVars
  <2>2. guest' \in [Keys -> Guests] /\ \A q \in Keys : guest'[q] = guest[q] \/ guest'[q] = "cleared"
    BY <1>2, KeyFacts, ZenonT(30) DEF CancelStale, Guests
  <2>3. Quiet
    BY <2>1, <2>2, CleanQuiet, ZenonT(30)
  <2> QED
    BY <2>1, <2>3, QuietKeeps, ZenonT(30)
<1>3. ASSUME NEW w \in Flows, CancelChild(w) \/ Expire(w) PROVE PermitInv'
  BY <1>3, <1>u DEF CancelChild, Expire, rowVars, envVars
<1>4. ASSUME NEW w \in Flows, NEW j \in Jobs, ClaimJob(w, j) PROVE PermitInv'
  BY <1>4, ClaimKeeps
<1>5. ASSUME NEW k \in Keys, RetryCleanup(k) PROVE PermitInv'
  BY <1>5, DestroyQuiet, QuietKeeps DEF RetryCleanup, envVars
<1>6. ASSUME NEW k \in Keys, SweepGuest(k) PROVE PermitInv'
  <2>1. permit' = permit /\ sess' = sess /\ fg' = fg
    BY <1>6 DEF SweepGuest, envVars
  <2>2. guest' \in [Keys -> Guests] /\ \A q \in Keys : guest'[q] = guest[q] \/ guest'[q] = "cleared"
    BY <1>6, KeyFacts DEF SweepGuest, CleanUp, Guests
  <2>3. Quiet
    BY <2>1, <2>2, CleanQuiet, ZenonT(30)
  <2> QED
    BY <2>1, <2>3, QuietKeeps, ZenonT(30)
<1>7. ASSUME NEW k \in Keys,
             ExecClaim(k) \/ ExecStart(k) \/ ExecAnswer(k) \/ ExecError(k) \/ GuestStops(k)
      PROVE  PermitInv'
  <2>1. fg' = fg
    BY <1>7 DEF ExecClaim, ExecStart, ExecAnswer, ExecError, GuestStops, ExecVars, envVars
  <2> QED
    BY <1>7, <2>1, ExecQuiet, QuietKeeps, ZenonT(30)
<1>8. ASSUME NEW k \in Keys, Supervise(k) \/ Reconcile(k) PROVE PermitInv'
  <2>1. fg' = fg
    BY <1>8 DEF Supervise, Reconcile, ExecVars, envVars
  <2> QED
    BY <1>8, <2>1, SettleQuiet, QuietKeeps, ZenonT(30)
<1>9. ASSUME NEW j \in Jobs, Trigger(j) PROVE PermitInv'
  BY <1>9, <1>u DEF Trigger, envVars
<1>10. ASSUME SweepLost PROVE PermitInv'
  BY <1>10, SweepQuiet, QuietKeeps, ZenonT(30) DEF SweepLost, envVars
<1>11. ASSUME Interactive PROVE PermitInv'
  BY <1>11, InteractiveKeeps
<1>12. ASSUME BurstEnds PROVE PermitInv'
  BY <1>12, <1>u DEF BurstEnds, rowVars
<1>13. CASE UNCHANGED drainVars
  BY <1>13, <1>u DEF drainVars, rowVars, envVars
<1>14. ASSUME NEW k \in Keys, RecoverReview(k) PROVE PermitInv'
  <2>1. fg' = fg
    BY <1>14 DEF RecoverReview, envVars
  <2> QED
    BY <1>14, <2>1, RecoverQuiet, QuietKeeps, ZenonT(30)
<1> QED
  BY <1>1, <1>2, <1>3, <1>4, <1>5, <1>6, <1>7, <1>8, <1>9, <1>10, <1>11, <1>12, <1>13,
     <1>14, ZenonT(30) DEF DrainNext

\* Nothing is reserved before the first claim.
LEMMA DrainStart == DrainInit => PermitInv
<1> SUFFICES ASSUME DrainInit PROVE PermitInv
  OBVIOUS
<1>1. Active = {} /\ Spent = {} /\ Active \cap KgKeys = {}
  BY DEF DrainInit, Active, Spent, KgKeys
<1>2. Cardinality({}) = 0
  BY FS_EmptySet
<1>3. InUse = 0 /\ fg = FALSE
  BY <1>1, <1>2 DEF InUse, DrainInit
<1>4. /\ TotalLimit \in Nat /\ KgLimit \in Nat /\ BaseCap \in Nat /\ BurstJobs \in Nat
  BY DrainerAssumption
<1>5. permit \in [Keys -> Permits] /\ sess \in [Keys -> Sessions] /\ guest \in [Keys -> Guests]
        /\ \A k \in Keys : permit[k] = "none" /\ sess[k] = "none" /\ guest[k] = "none"
  BY DEF DrainInit, Permits, Sessions, Guests
<1>6. /\ InUse <= TotalLimit /\ Cardinality(Active \cap KgKeys) <= KgLimit
      /\ Cardinality(Spent) <= BaseCap + BurstJobs
  BY <1>1, <1>2, <1>3, <1>4
<1>7. \A k, q \in Active : k # q /\ k[2] = q[2] => Recomputed(k, q)
  BY <1>1
<1>8. fg \in BOOLEAN
  BY <1>3, ZenonT(30)
<1> QED
  BY <1>5, <1>6, <1>7, <1>8 DEF PermitInv

\* Session, permit and guest agree, and the limits hold, in every reachable state.
THEOREM PermitsAgree == DrainSpec => []PermitInv
<1>1. DrainInit => PermitInv
  BY DrainStart
<1>2. PermitInv /\ [DrainNext]_drainVars => PermitInv'
  BY DrainStep
<1> QED
  BY <1>1, <1>2, PTL DEF DrainSpec

\* No replayed claim, late step of a cancelled workflow, swept lease or unknown
\* turn gives one routine job two live starts or two guests working on it; an
\* operator's recomputation of the fact review adds one start to a waived one.
THEOREM JobAlone == DrainSpec => []JobRunsAlone
<1>1. PermitInv => JobRunsAlone
  BY DEF PermitInv, JobRunsAlone, Recomputed
<1> QED
  BY <1>1, PermitsAgree, PTL

\* A guest that may be working always has a permit of the pool, unless session_gone
\* settled it, and the pool stays within its total and its KG limit.
THEOREM PoolSafe == DrainSpec => []PoolHolds
<1>1. PermitInv => PoolHolds
  BY DEF PermitInv, PoolHolds
<1> QED
  BY <1>1, PermitsAgree, PTL

\* Sessions of the day and unbound reservations never exceed the allowance.
THEOREM AllowanceSafe == DrainSpec => []AllowanceHolds
<1>1. PermitInv => AllowanceHolds
  BY SpentIsUsed DEF PermitInv, AllowanceHolds
<1> QED
  BY <1>1, PermitsAgree, PTL

=============================================================================
