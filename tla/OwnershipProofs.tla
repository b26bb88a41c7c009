--------------------------- MODULE OwnershipProofs ---------------------------
(***************************************************************************)
(* Who may use what: the VMs of the dispatcher's inventory and the         *)
(* capacity a session's turns run on.                                      *)
(*                                                                         *)
(* The ownership invariants of VmInventory, proved for every set of VMs,   *)
(* workers and creates and every number of restarts.  Bookkeeping (BInv)   *)
(* is inductive by itself.  Exclusive ownership is not.  What makes it so  *)
(* (OInv): a VM nobody has primed appears nowhere; the dispatcher's entry  *)
(* of a worker is empty or names the worker's VM; a deposit under way is   *)
(* of a VM that nobody has or that the books show; a session's VM is       *)
(* reserved, or claimed once the claims were read.                         *)
(*                                                                         *)
(* The turn contract (TurnContract), for any number of messages and        *)
(* dispatches: order, charging and final outcomes.                         *)
(***************************************************************************)
EXTENDS VmInventory, TurnContract, TLAPS

\* The provers a leaf that names none is given, in order: the solver again after
\* Zenon, for a leaf whose translation was too slow the first time.
USE SMTT(30), ZenonT(30), SMTT(31), SMTT(32), SMTT(33)

\* The stages in which a create or session has a VM.
HasVm ==
  {"reserve", "append", "register", "commit", "release", "live", "ending", "dropped", "unowned", "reaped"}

StageHasVm == \A c \in Creates : stage[c] \in HasVm => svm[c] \in Vms

BInv == InventoryTypeOK /\ StageHasVm /\ ParkedApart

\* A VM not yet primed is in no table, not reported and not on its way.
UnbornIsNowhere ==
  \A v \in Vms : vm[v] = "unborn" =>
    /\ v \notin facts \cup deposits \cup reservations \cup claimed
    /\ inventory[v] = 0
    /\ \A w \in Workers : own[w] # v /\ meta[w] # v
    /\ \A c \in Creates : svm[c] # v

\* What the dispatcher knows of a worker at each of its steps: nothing once it has
\* outlived a restart.
WorkerEntry(s, o, m, t) ==
  /\ s = "idle" => o = NoVm /\ m = NoMeta /\ ~t
  /\ s = "prime" => o = NoVm /\ m \in {NoVm, NoMeta} /\ ~t
  /\ s = "primed" => o \in Vms /\ m \in {NoVm, NoMeta} /\ ~t
  /\ s = "assign" => o \in Vms
  /\ t => o \in Vms /\ m = NoVm
  /\ m \in {o, NoVm, NoMeta}

WorkerEntries == \A w \in Workers : WorkerEntry(step[w], own[w], meta[w], told[w])

\* The worker holds a VM that is to be used only by it.
Using(w) ==
  step[w] \in {"primed", "assign"} /\ vm[own[w]] = "primed" /\ own[w] \notin misadopted

\* So does the create or session.
Current(c) ==
  /\ stage[c] \in HasVm
  /\ ~(orphan[c] /\ stage[c] \in Working)
  /\ vm[svm[c]] = "primed" /\ svm[c] \notin misadopted

\* A session's VM is in the dispatcher's books.
SessionVmIsKept ==
  \A c \in Creates : Current(c) =>
    /\ stage[c] \in {"reserve", "register", "release"} => svm[c] \in reservations
    /\ stage[c] \in {"commit", "live"} /\ seen => svm[c] \in reservations \cup claimed

\* A deposit that is still to come does not park a VM somebody holds: the books show it.
DepositIsKnown ==
  /\ \A w \in Workers : Using(w) /\ own[w] \in deposits => meta[w] = own[w]
  /\ \A c \in Creates : Current(c) /\ svm[c] \in deposits =>
       svm[c] \in reservations \/ (stage[c] \in {"commit", "live"} /\ svm[c] \in claimed)

\* OneHolder, pair by pair.
PairwiseApart ==
  /\ \A w \in Workers : Using(w) =>
       /\ inventory[own[w]] = 0
       /\ \A x \in Workers \ {w} : Using(x) => own[x] # own[w]
       /\ \A c \in Creates : Current(c) => svm[c] # own[w]
  /\ \A c \in Creates : Current(c) =>
       /\ inventory[svm[c]] = 0
       /\ \A d \in Creates \ {c} : Current(d) => svm[d] # svm[c]

\* A create or session in a stage without a VM names none; past its Destroy the VM is used.
StageVm ==
  \A c \in Creates :
    /\ stage[c] \notin HasVm => svm[c] = NoVm
    /\ stage[c] \in {"ending", "dropped", "reaped"} => vm[svm[c]] = "used"

OInv ==
  /\ UnbornIsNowhere
  /\ WorkerEntries
  /\ SessionVmIsKept
  /\ DepositIsKnown
  /\ PairwiseApart
  /\ StageVm

-----------------------------------------------------------------------------
(* Exclusive ownership *)

\* Every step keeps the ownership of every VM exclusive that no sweep adopted from under a
\* process the dispatcher had no record of.
LEMMA OInvStep ==
  ASSUME BInv, OInv, [InventoryNext]_ivars
  PROVE  OInv'
<1> USE InventoryAssumption DEF BInv, InventoryTypeOK, StageHasVm, ParkedApart, OInv,
     UnbornIsNowhere, WorkerEntries, WorkerEntry, DepositIsKnown,
     SessionVmIsKept, Current, PairwiseApart, Using, StageVm, HasVm, Working,
     Goto, Enter, Ready, node, books, tasks, sessions, history
<1>1. CASE Report
  BY <1>1 DEF Report, Primed
<1>2. ASSUME NEW v \in Vms, PoolPrime(v) PROVE OInv'
  BY <1>2 DEF PoolPrime, Born
<1>3. ASSUME NEW v \in Vms, DepositLost(v) PROVE OInv'
  BY <1>3 DEF DepositLost
<1>4. ASSUME NEW v \in Vms, Deposit(v) PROVE OInv'
  BY <1>4 DEF Deposit, PutVmIfUnknown, Known, Parked, Park
<1>5. CASE SweepStart
  BY <1>5 DEF SweepStart, Rows, Without
<1>6. CASE SweepAdopt
  BY <1>6 DEF SweepAdopt, Known, Parked, Unprotected
<1>7. CASE SweepAbort
  BY <1>7 DEF SweepAbort
<1>8. ASSUME NEW w \in Workers, DispatchWarm(w) PROVE OInv'
  BY <1>8 DEF DispatchWarm, Spawn, Take, Parked
<1>9. ASSUME NEW w \in Workers, DispatchMiss(w) PROVE OInv'
  BY <1>9 DEF DispatchMiss, Spawn
<1>10. ASSUME NEW w \in Workers, PrimeServed(w) PROVE OInv'
  BY <1>10 DEF PrimeServed, Born
<1>11. ASSUME NEW w \in Workers, PrimeReturns(w) PROVE OInv'
  <2>1. CASE meta[w] = NoMeta
    <3>1. told' = [told EXCEPT ![w] = FALSE]
      BY <1>11, <2>1, ZenonT(30) DEF PrimeReturns
    <3> QED
      BY <1>11, <2>1, <3>1 DEF PrimeReturns
  <2>2. CASE meta[w] # NoMeta
    <3>1. (meta[w] # NoMeta) = TRUE
      BY <2>2
    <3>2. told' = [told EXCEPT ![w] = TRUE]
      BY <1>11, <3>1, ZenonT(30) DEF PrimeReturns
    <3> QED
      BY <1>11, <2>2, <3>2 DEF PrimeReturns
  <2> QED
    BY <2>1, <2>2
<1>12. ASSUME NEW w \in Workers, VmPrimed(w) PROVE OInv'
  BY <1>12 DEF VmPrimed
<1>13. ASSUME NEW w \in Workers, Assign(w) PROVE OInv'
  BY <1>13 DEF Assign, Spent
<1>14. ASSUME NEW w \in Workers, WorkerFails(w) PROVE OInv'
  BY <1>14 DEF WorkerFails
<1>15. ASSUME NEW w \in Workers, FinishWorker(w) PROVE OInv'
  BY <1>15 DEF FinishWorker
<1>16. ASSUME NEW c \in Creates, ClaimHit(c) PROVE OInv'
  BY <1>16 DEF ClaimHit, Parked, Take
<1>17. ASSUME NEW c \in Creates, ClaimMiss(c) PROVE OInv'
  BY <1>17 DEF ClaimMiss
<1>18. ASSUME NEW c \in Creates, SessionPrime(c) PROVE OInv'
  BY <1>18 DEF SessionPrime, Born
<1>19. ASSUME NEW c \in Creates, ReserveSessionVm(c) PROVE OInv'
  BY <1>19 DEF ReserveSessionVm, Without
<1>20. ASSUME NEW c \in Creates, CreateFails(c) PROVE OInv'
  BY <1>20 DEF CreateFails
<1>21. ASSUME NEW c \in Creates, Register(c) PROVE OInv'
  BY <1>21 DEF Register
<1>22. ASSUME NEW c \in Creates, CommitSessionVm(c) PROVE OInv'
  BY <1>22 DEF CommitSessionVm, Without
<1>23. ASSUME NEW c \in Creates, ReleaseSessionVm(c) PROVE OInv'
  BY <1>23 DEF ReleaseSessionVm
<1>24. ASSUME NEW c \in Creates, SessionAssign(c) PROVE OInv'
  BY <1>24 DEF SessionAssign, Spent
<1>25. ASSUME NEW c \in Creates, DestroySession(c) PROVE OInv'
  BY <1>25 DEF DestroySession, Spent
<1>26. ASSUME NEW c \in Creates, SessionDestroyed(c) PROVE OInv'
  BY <1>26 DEF SessionDestroyed
<1>27. CASE ManagerRestart
  BY <1>27 DEF ManagerRestart, ManagerDies
<1>28. CASE DispatcherRestart
  <2>1. \A c \in Creates : Current(c)' => Current(c) /\ stage'[c] \in HasVm \ (Working \cup {"commit", "release"})
    BY <1>28 DEF DispatcherRestart, ManagerDies
  <2>2. \A c \in Creates : Current(c)' => svm'[c] = svm[c]
    BY <1>28 DEF DispatcherRestart, ManagerDies
  <2>3. \A w \in Workers : Using(w)' => Using(w) /\ own'[w] = own[w]
    BY <1>28 DEF DispatcherRestart, Killed
  <2>4. SessionVmIsKept' /\ DepositIsKnown'
    BY <1>28, <2>1, <2>3 DEF DispatcherRestart
  <2>5. PairwiseApart'
    BY <1>28, <2>1, <2>2, <2>3 DEF DispatcherRestart, Without
  <2>6. UnbornIsNowhere' /\ WorkerEntries'
    BY <1>28 DEF DispatcherRestart, Killed, ManagerDies, Without
  <2>7. StageVm'
    BY <1>28 DEF DispatcherRestart, ManagerDies
  <2> QED
    BY <2>4, <2>5, <2>6, <2>7, ZenonT(30)
<1>29. ASSUME NEW c \in Creates, CreateTimeout(c) PROVE OInv'
  BY <1>29 DEF CreateTimeout
<1>30. ASSUME NEW c \in Creates, DestroyUnowned(c) PROVE OInv'
  BY <1>30 DEF DestroyUnowned, Spent
<1>31. ASSUME NEW c \in Creates, DropUnowned(c) PROVE OInv'
  BY <1>31 DEF DropUnowned, DropVmId, Without
<1>32. ASSUME NEW c \in Creates, DropVm(c) PROVE OInv'
  BY <1>32 DEF DropVm, DropVmId, Without
<1>33. CASE UNCHANGED ivars
  BY <1>33 DEF ivars
<1> QED
  BY <1>1, <1>2, <1>3, <1>4, <1>5, <1>6, <1>7, <1>8, <1>9, <1>10, <1>11, <1>12, <1>13, <1>14,
     <1>15, <1>16, <1>17, <1>18, <1>19, <1>20, <1>21, <1>22, <1>23, <1>24, <1>25, <1>26, <1>27,
     <1>28, <1>29, <1>30, <1>31, <1>32, <1>33, ZenonT(30)
  DEF InventoryNext, NodeStep, SweepStep, WorkerStep, CreateStep

-----------------------------------------------------------------------------
(* Bookkeeping *)

\* Every step of the control plane and of the node keeps the books typed, gives every
\* session past its claim a VM and parks no vm_id twice or beside a session's.
LEMMA BInvStep == BInv /\ [InventoryNext]_ivars => BInv'
<1> SUFFICES ASSUME BInv, [InventoryNext]_ivars PROVE BInv'
  OBVIOUS
<1> USE InventoryAssumption DEF BInv
<1>1. CASE Report
  BY <1>1 DEF Report, Primed, InventoryTypeOK, StageHasVm, HasVm, Working, ParkedApart, Goto,
     Enter, node, books, tasks, sessions, history
<1>2. CASE \E v \in Vms : PoolPrime(v)
  BY <1>2 DEF PoolPrime, Born, InventoryTypeOK, StageHasVm, HasVm, Working, ParkedApart, Goto,
     Enter, node, books, tasks, sessions, history
<1>3. CASE \E v \in Vms : DepositLost(v)
  BY <1>3 DEF DepositLost, InventoryTypeOK, StageHasVm, HasVm, Working, ParkedApart, Goto, Enter,
     node, books, tasks, sessions, history
<1>4. CASE \E v \in Vms : Deposit(v)
  BY <1>4 DEF Deposit, PutVmIfUnknown, Known, Parked, Park, InventoryTypeOK, StageHasVm, HasVm,
     Working, ParkedApart, Goto, Enter, node, books, tasks, sessions, history
<1>5. CASE SweepStart
  <2>1. seen' \in BOOLEAN
    BY <1>5, ZenonT(30) DEF SweepStart, InventoryTypeOK
  <2>2. claimed' \subseteq Vms
    BY <1>5 DEF SweepStart, Rows, InventoryTypeOK, StageHasVm, HasVm
  <2> QED
    BY <1>5, <2>1, <2>2 DEF SweepStart, Without, InventoryTypeOK, StageHasVm, ParkedApart, node,
       tasks, sessions
<1>6. CASE SweepAdopt
  BY <1>6 DEF SweepAdopt, Known, Parked, InventoryTypeOK, StageHasVm, HasVm, Working, ParkedApart,
     Goto, Enter, node, books, tasks, sessions, history
<1>7. CASE SweepAbort
  BY <1>7 DEF SweepAbort, InventoryTypeOK, StageHasVm, HasVm, Working, ParkedApart, Goto, Enter,
     node, books, tasks, sessions, history
<1>8. CASE \E w \in Workers : DispatchWarm(w)
  BY <1>8 DEF DispatchWarm, Spawn, Take, Parked, InventoryTypeOK, StageHasVm, HasVm, Working,
     ParkedApart, Goto, Enter, node, books, tasks, sessions, history
<1>9. CASE \E w \in Workers : DispatchMiss(w)
  BY <1>9 DEF DispatchMiss, Spawn, InventoryTypeOK, StageHasVm, HasVm, Working, ParkedApart, Goto,
     Enter, node, books, tasks, sessions, history
<1>10. CASE \E w \in Workers : PrimeServed(w)
  BY <1>10 DEF PrimeServed, Born, InventoryTypeOK, StageHasVm, HasVm, Working, ParkedApart, Goto,
     Enter, node, books, tasks, sessions, history
<1>11. CASE \E w \in Workers : PrimeReturns(w)
  BY <1>11 DEF PrimeReturns, InventoryTypeOK, StageHasVm, HasVm, Working, ParkedApart, Goto, Enter,
     node, books, tasks, sessions, history
<1>12. CASE \E w \in Workers : VmPrimed(w)
  BY <1>12 DEF VmPrimed, InventoryTypeOK, StageHasVm, HasVm, Working, ParkedApart, Goto, Enter,
     node, books, tasks, sessions, history
<1>13. CASE \E w \in Workers : Assign(w)
  BY <1>13 DEF Assign, Spent, InventoryTypeOK, StageHasVm, HasVm, Working, ParkedApart, Goto,
     Enter, node, books, tasks, sessions, history
<1>14. CASE \E w \in Workers : WorkerFails(w)
  BY <1>14 DEF WorkerFails, InventoryTypeOK, StageHasVm, HasVm, Working, ParkedApart, Goto, Enter,
     node, books, tasks, sessions, history
<1>15. CASE \E w \in Workers : FinishWorker(w)
  BY <1>15 DEF FinishWorker, InventoryTypeOK, StageHasVm, HasVm, Working, ParkedApart, Goto, Enter,
     node, books, tasks, sessions, history
<1>16. CASE \E c \in Creates : ClaimHit(c)
  BY <1>16 DEF ClaimHit, Parked, Take, InventoryTypeOK, StageHasVm, HasVm, Working, ParkedApart,
     Goto, Enter, node, books, tasks, sessions, history
<1>17. CASE \E c \in Creates : ClaimMiss(c)
  BY <1>17 DEF ClaimMiss, InventoryTypeOK, StageHasVm, HasVm, Working, ParkedApart, Goto, Enter,
     node, books, tasks, sessions, history
<1>18. CASE \E c \in Creates : SessionPrime(c)
  BY <1>18 DEF SessionPrime, Born, InventoryTypeOK, StageHasVm, HasVm, Working, ParkedApart, Goto,
     Enter, node, books, tasks, sessions, history
<1>19. CASE \E c \in Creates : ReserveSessionVm(c)
  BY <1>19 DEF ReserveSessionVm, Without, InventoryTypeOK, StageHasVm, HasVm, Working, ParkedApart,
     Goto, Enter, node, books, tasks, sessions, history
<1>20. CASE \E c \in Creates : CreateFails(c)
  BY <1>20 DEF CreateFails, InventoryTypeOK, StageHasVm, HasVm, Working, ParkedApart, Goto, Enter,
     node, books, tasks, sessions, history
<1>21. CASE \E c \in Creates : Register(c)
  BY <1>21 DEF Register, InventoryTypeOK, StageHasVm, HasVm, Working, ParkedApart, Goto, Enter,
     node, books, tasks, sessions, history
<1>22. CASE \E c \in Creates : CommitSessionVm(c)
  BY <1>22 DEF CommitSessionVm, Without, InventoryTypeOK, StageHasVm, HasVm, Working, ParkedApart,
     Goto, Enter, node, books, tasks, sessions, history
<1>23. CASE \E c \in Creates : ReleaseSessionVm(c)
  BY <1>23 DEF ReleaseSessionVm, InventoryTypeOK, StageHasVm, HasVm, Working, ParkedApart, Goto,
     Enter, node, books, tasks, sessions, history
<1>24. CASE \E c \in Creates : SessionAssign(c)
  BY <1>24 DEF SessionAssign, Spent, InventoryTypeOK, StageHasVm, HasVm, Working, ParkedApart,
     Goto, Enter, node, books, tasks, sessions, history
<1>25. CASE \E c \in Creates : DestroySession(c)
  BY <1>25 DEF DestroySession, Spent, InventoryTypeOK, StageHasVm, HasVm, Working, ParkedApart,
     Goto, Enter, node, books, tasks, sessions, history
<1>26. CASE \E c \in Creates : SessionDestroyed(c)
  BY <1>26 DEF SessionDestroyed, InventoryTypeOK, StageHasVm, HasVm, Working, ParkedApart, Goto,
     Enter, node, books, tasks, sessions, history
<1>27. CASE ManagerRestart
  <2>1. orphan' \in [Creates -> BOOLEAN]
    BY <1>27, ZenonT(30) DEF ManagerRestart, ManagerDies, InventoryTypeOK
  <2>2. InventoryTypeOK'
    <3>1. /\ stage' \in [Creates -> Working \cup {"none", "commit", "release", "live", "ending",
                                           "dropped", "unowned", "reaped", "closed"}]
          /\ svm' \in [Creates -> Vms \cup {NoVm}]
      BY <1>27 DEF ManagerRestart, ManagerDies, InventoryTypeOK, Working
    <3> QED
      BY <1>27, <2>1, <3>1 DEF ManagerRestart, InventoryTypeOK, node, books, tasks, history
  <2>3. StageHasVm' /\ ParkedApart'
    BY <1>27 DEF ManagerRestart, ManagerDies, InventoryTypeOK, StageHasVm, HasVm, Working,
       ParkedApart, books
  <2> QED
    BY <2>2, <2>3
<1>28. CASE DispatcherRestart
  <2>1. orphan' \in [Creates -> BOOLEAN]
    BY <1>28, ZenonT(30) DEF DispatcherRestart, ManagerDies, InventoryTypeOK
  <2>2. InventoryTypeOK'
    <3>1. /\ stage' \in [Creates -> Working \cup {"none", "commit", "release", "live", "ending",
                                           "dropped", "unowned", "reaped", "closed"}]
          /\ svm' \in [Creates -> Vms \cup {NoVm}]
      BY <1>28 DEF DispatcherRestart, ManagerDies, InventoryTypeOK, Working
    <3>2. seen' \in BOOLEAN
      BY <1>28, ZenonT(30) DEF DispatcherRestart
    <3> QED
      BY <1>28, <2>1, <3>1, <3>2 DEF DispatcherRestart, Without, InventoryTypeOK, node
  <2>3. StageHasVm' /\ ParkedApart'
    BY <1>28 DEF DispatcherRestart, ManagerDies, Without, InventoryTypeOK, StageHasVm, HasVm,
       Working, ParkedApart, books
  <2> QED
    BY <2>2, <2>3
<1>29. CASE \E c \in Creates : CreateTimeout(c)
  BY <1>29 DEF CreateTimeout, InventoryTypeOK, StageHasVm, HasVm, Working, ParkedApart, Goto,
     Enter, node, books, tasks, sessions, history
<1>30. CASE \E c \in Creates : DestroyUnowned(c)
  BY <1>30 DEF DestroyUnowned, Spent, InventoryTypeOK, StageHasVm, HasVm, Working, ParkedApart,
     Goto, Enter, node, books, tasks, sessions, history
<1>31. CASE \E c \in Creates : DropUnowned(c)
  BY <1>31 DEF DropUnowned, DropVmId, Without, InventoryTypeOK, StageHasVm, HasVm, Working,
     ParkedApart, Goto, Enter, node, books, tasks, sessions, history
<1>32. CASE \E c \in Creates : DropVm(c)
  BY <1>32 DEF DropVm, DropVmId, Without, InventoryTypeOK, StageHasVm, HasVm, Working, ParkedApart,
     Goto, Enter, node, books, tasks, sessions, history
<1>33. CASE UNCHANGED ivars
  BY <1>33 DEF ivars, InventoryTypeOK, StageHasVm, HasVm, Working, ParkedApart, Goto, Enter, node,
     books, tasks, sessions, history
<1> QED
  BY <1>1, <1>2, <1>3, <1>4, <1>5, <1>6, <1>7, <1>8, <1>9, <1>10, <1>11, <1>12, <1>13, <1>14,
     <1>15, <1>16, <1>17, <1>18, <1>19, <1>20, <1>21, <1>22, <1>23, <1>24, <1>25, <1>26, <1>27,
     <1>28, <1>29, <1>30, <1>31,
     <1>32, <1>33
  DEF InventoryNext, NodeStep, SweepStep, WorkerStep, CreateStep

-----------------------------------------------------------------------------
(* Where it starts, and what follows *)

\* The tables of a control plane that has just started are in order.
LEMMA InitInv == InventoryInit => BInv /\ OInv
<1> SUFFICES ASSUME InventoryInit PROVE BInv /\ OInv
  OBVIOUS
<1> USE InventoryAssumption DEF InventoryInit, InventoryTypeOK, HasVm, Working
<1>1. InventoryTypeOK
  <2>1. seen \in BOOLEAN
    BY ZenonT(30)
  <2> QED
    BY <2>1
<1>2. StageHasVm /\ ParkedApart
  BY DEF StageHasVm, ParkedApart
<1>3. OInv
  BY DEF OInv, UnbornIsNowhere, WorkerEntries, WorkerEntry, DepositIsKnown,
         SessionVmIsKept, Current, PairwiseApart, Using, StageVm
<1> QED
  BY <1>1, <1>2, <1>3 DEF BInv

\* The invariants leave no VM with two holders, nor a parked one with any.
LEMMA ApartIsOneHolder == BInv /\ OInv => OneHolder
<1> SUFFICES ASSUME BInv, OInv, NEW v \in Primed \ misadopted
             PROVE  /\ \A p, q \in Holders(v) : p = q
                    /\ inventory[v] > 0 => Holders(v) = {}
  BY DEF OneHolder
<1> USE InventoryAssumption DEF BInv, InventoryTypeOK, OInv, WorkerEntries, WorkerEntry,
     PairwiseApart, Using, Current, StageVm, HasVm, Primed
<1>1. \A w \in Workers : w \in Holders(v) => Using(w) /\ own[w] = v
  BY DEF Holders
<1>2. \A c \in Creates : c \in Holders(v) => Current(c) /\ svm[c] = v
  BY DEF Holders
<1>3. Holders(v) \subseteq Workers \cup Creates
  BY DEF Holders
<1> QED
  BY <1>1, <1>2, <1>3

\* c is a session, or about to be one, and keeps its primed VM through the step.
Keeps(c) ==
  /\ stage[c] \in {"commit", "live"}
  /\ svm[c] \in Primed \ misadopted
  /\ svm[c] \notin Primed'
  => SessionAssign(c) \/ DestroySession(c)

\* Under exclusive ownership only a session's own SessionAssign or Destroy moves its VM on:
\* the three requests that use a VM up name the VM of the process that sends them.
LEMMA KeepsStep ==
  ASSUME BInv, OInv, InventoryNext, NEW c \in Creates
  PROVE  Keeps(c)
<1> SUFFICES ASSUME stage[c] \in {"commit", "live"}, svm[c] \in Primed \ misadopted, svm[c] \notin Primed'
             PROVE  SessionAssign(c) \/ DestroySession(c)
  BY DEF Keeps
<1> USE InventoryAssumption DEF BInv, InventoryTypeOK, StageHasVm, HasVm
<1>1. Current(c) /\ svm[c] \in Vms /\ vm[svm[c]] = "primed" /\ vm'[svm[c]] # "primed"
  BY DEF Current, Working, Primed
<1>2. ASSUME NEW w \in Workers, Assign(w) PROVE FALSE
  <2>1. own[w] \in Vms
    BY <1>2 DEF Assign, OInv, WorkerEntries, WorkerEntry
  <2>2. own[w] = svm[c]
    BY <1>1, <1>2, <2>1 DEF Assign, Spent
  <2>3. Using(w)
    BY <1>1, <1>2, <2>2 DEF Assign, Using
  <2> QED
    BY <1>1, <2>2, <2>3 DEF OInv, PairwiseApart
<1>3. ASSUME NEW d \in Creates, SessionAssign(d) \/ DestroySession(d) \/ DestroyUnowned(d) PROVE d = c
  <2>1. svm[d] \in Vms /\ stage[d] \in {"live", "unowned"}
    BY <1>3 DEF SessionAssign, DestroySession, DestroyUnowned
  <2>2. svm[d] = svm[c]
    BY <1>1, <1>3, <2>1 DEF SessionAssign, DestroySession, DestroyUnowned, Spent
  <2>3. Current(d)
    BY <1>1, <2>1, <2>2 DEF Current, Working
  <2> QED
    BY <1>1, <2>2, <2>3 DEF OInv, PairwiseApart
<1>4. ASSUME NEW v \in Vms, Born(v) PROVE FALSE
  BY <1>1, <1>4 DEF Born
<1>5. vm' = vm => FALSE
  BY <1>1
<1>6. CASE NodeStep
  BY <1>4, <1>5, <1>6 DEF NodeStep, Report, PoolPrime, DepositLost, Deposit, node
<1>7. CASE SweepStep
  BY <1>5, <1>7 DEF SweepStep, SweepStart, SweepAdopt, SweepAbort, node
<1>8. ASSUME NEW w \in Workers, WorkerStep(w) PROVE FALSE
  BY <1>2, <1>4, <1>5, <1>8
  DEF WorkerStep, DispatchWarm, DispatchMiss, Spawn, PrimeServed, PrimeReturns, VmPrimed,
      WorkerFails, FinishWorker, node
<1>9. ASSUME NEW d \in Creates,
   CreateStep(d) PROVE SessionAssign(d) \/ DestroySession(d) \/ DestroyUnowned(d)
  BY <1>4, <1>5, <1>9, ZenonT(30)
  DEF CreateStep, ClaimHit, ClaimMiss, SessionPrime, ReserveSessionVm, CreateFails, Register,
      CommitSessionVm, ReleaseSessionVm, SessionDestroyed, CreateTimeout, DropUnowned, DropVm, node
<1>10. CASE ManagerRestart \/ DispatcherRestart
  BY <1>5, <1>10 DEF ManagerRestart, DispatcherRestart, node
<1>11. ~DestroyUnowned(c)
  BY DEF DestroyUnowned
<1> QED
  BY <1>3, <1>6, <1>7, <1>8, <1>9, <1>10, <1>11 DEF InventoryNext

-----------------------------------------------------------------------------
(* The theorems *)

\* The dispatcher's tables stay typed whatever happens: no nil is claimed, reserved or
\* parked, and a vm_id is never taken from a queue that does not hold it.
THEOREM InventoryTyped == InventorySpec => []InventoryTypeOK
<1>1. InventoryInit => BInv
  BY InitInv
<1> QED
  BY <1>1, BInvStep, PTL DEF InventorySpec, BInv

\* put_vm_if_unknown, adopt_inventory and the session handlers never park a vm_id twice nor
\* beside a session's reservation or claim, under every fault and any number of restarts.
THEOREM InventoryApart == InventorySpec => []ParkedApart
<1>1. InventoryInit => BInv
  BY InitInv
<1> QED
  BY <1>1, BInvStep, PTL DEF InventorySpec, BInv

\* A VM is parked, or held by one assign worker, or held by one session: exclusive ownership
\* for any number of VMs, workers, sessions, restarts, early reports and unread claims, save
\* for the VMs a sweep adopts from under a process the dispatcher has no record of.
THEOREM ExclusiveOwnership == InventorySpec => []OneHolder
<1>1. InventoryInit => BInv /\ OInv
  BY InitInv
<1>2. BInv /\ OInv /\ [InventoryNext]_ivars => (BInv /\ OInv)'
  BY BInvStep, OInvStep
<1> QED
  BY <1>1, <1>2, ApartIsOneHolder, PTL DEF InventorySpec

\* No task, pool or restart takes the VM from under a live session, for any number of VMs,
\* workers, sessions, restarts, early reports and unread claims, save for a VM a sweep
\* adopted from under a process the dispatcher had no record of.
THEOREM SessionsKeepVms == InventorySpec => SessionKeepsVm
<1>1. InventoryInit => BInv /\ OInv
  BY InitInv
<1>2. BInv /\ OInv /\ [InventoryNext]_ivars => (BInv /\ OInv)'
  BY BInvStep, OInvStep
<1>3. BInv /\ OInv /\ [InventoryNext]_ivars => [\A c \in Creates : Keeps(c)]_ivars
  BY KeepsStep
<1> QED
  BY <1>1, <1>2, <1>3, PTL DEF InventorySpec, SessionKeepsVm, Keeps

-----------------------------------------------------------------------------
(* The turn contract *)

\* What TurnStore assumes of the two constants (TurnAssumption).
Bounds == MaxSeq \in Nat /\ MaxDispatches \in Nat \ {0}

Safe == ContractTypeOK /\ InOrder /\ RunsCharged

\* Every step of the contract keeps its types, its order and its charging rule.
LEMMA SafeStep == ASSUME Bounds, Safe, [Next]_vars PROVE Safe'
<1> USE DEF Bounds, Safe, Messages, Ended
<1>1. ASSUME NEW m \in Messages, Accept(m) PROVE Safe'
  <2>1. ContractTypeOK'
    BY <1>1 DEF Accept, Become, ContractTypeOK
  <2>2. InOrder'
    <3> SUFFICES ASSUME NEW j \in Messages, NEW k \in 1 .. (j - 1)
                 PROVE  /\ phase'[j] \in Ended \cup {"inflight"} => phase'[k] \in Ended
                        /\ phase'[j] = "inflight"
                             => phase'[k] # "unknown" /\ k \notin charged'
      BY DEF InOrder
    <3>1. k \in Messages /\ k # j
      OBVIOUS
    <3>2. phase' = [phase EXCEPT ![m] = "waiting"] /\ phase[m] = "absent"
          /\ charged' = charged
      BY <1>1 DEF Accept, Become
    <3> QED
      BY <3>1, <3>2 DEF ContractTypeOK, InOrder
  <2>3. RunsCharged'
    BY <1>1 DEF Accept, Become, ContractTypeOK, RunsCharged
  <2> QED BY <2>1, <2>2, <2>3
<1>2. ASSUME NEW m \in Messages, Dispatch(m) PROVE Safe'
  <2>1. ContractTypeOK'
    BY <1>2 DEF Dispatch, Become, ContractTypeOK
  <2>2. InOrder'
    BY <1>2 DEF Dispatch, Become, ContractTypeOK, InOrder
  <2>3. RunsCharged'
    BY <1>2 DEF Dispatch, Become, ContractTypeOK, RunsCharged
  <2> QED BY <2>1, <2>2, <2>3
<1>3. ASSUME NEW m \in Messages, Start(m) PROVE Safe'
  BY <1>3 DEF Start, ContractTypeOK, InOrder, RunsCharged
<1>4. ASSUME NEW m \in Messages, Stop(m) PROVE Safe'
  BY <1>4 DEF Stop, ContractTypeOK, InOrder, RunsCharged
<1>5. ASSUME NEW m \in Messages, Requeue(m) PROVE Safe'
  <2>1. ContractTypeOK'
    BY <1>5 DEF Requeue, Become, ContractTypeOK
  <2>2. InOrder'
    BY <1>5 DEF Requeue, Become, ContractTypeOK, InOrder
  <2>3. RunsCharged'
    BY <1>5 DEF Requeue, Become, ContractTypeOK, RunsCharged
  <2> QED BY <2>1, <2>2, <2>3
<1>6. ASSUME NEW m \in Messages, Conclude(m) PROVE Safe'
  <2>1. ContractTypeOK'
    BY <1>6 DEF Conclude, End, Become, ContractTypeOK
  <2>2. InOrder'
    BY <1>6 DEF Conclude, End, Become, ContractTypeOK, InOrder
  <2>3. RunsCharged'
    BY <1>6 DEF Conclude, End, Become, ContractTypeOK, RunsCharged
  <2> QED BY <2>1, <2>2, <2>3
<1>7. ASSUME NEW m \in Messages, GiveUp(m) PROVE Safe'
  <2>1. ContractTypeOK'
    BY <1>7 DEF GiveUp, End, Become, ContractTypeOK
  <2>2. InOrder'
    BY <1>7 DEF GiveUp, End, Become, ContractTypeOK, InOrder
  <2>3. RunsCharged'
    BY <1>7 DEF GiveUp, End, Become, ContractTypeOK, RunsCharged
  <2> QED BY <2>1, <2>2, <2>3
<1>8. ASSUME NEW m \in Messages, Release(m) PROVE Safe'
  BY <1>8, ZenonT(30) DEF Release, ContractTypeOK, InOrder, RunsCharged
<1>9. CASE UNCHANGED vars
  BY <1>9 DEF vars, ContractTypeOK, InOrder, RunsCharged
<1> QED
  BY <1>1, <1>2, <1>3, <1>4, <1>5, <1>6, <1>7, <1>8, <1>9 DEF Next

\* A session that keeps the contract runs its messages in order, one at a time,
\* on charged capacity.
THEOREM ContractSafe == ASSUME Bounds PROVE Spec => [](InOrder /\ RunsCharged)
<1>1. Init => Safe
  BY DEF Bounds, Init, Safe, ContractTypeOK, InOrder, RunsCharged, Messages, Ended
<1>2. Safe /\ [Next]_vars => Safe'
  BY SafeStep
<1> QED BY <1>1, <1>2, PTL DEF Spec, Safe

\* It never changes an outcome it has given, nor releases capacity under a prompt
\* that runs.
THEOREM ContractFinal == ASSUME Bounds PROVE Spec => OutcomesAreFinal
<1>1. Init => Safe
  BY DEF Bounds, Init, Safe, ContractTypeOK, InOrder, RunsCharged, Messages, Ended
<1> DEFINE Holding == /\ \A m \in Messages : phase[m] \in Ended => phase'[m] = phase[m]
                      /\ charged \ charged' \subseteq Messages \ live'
<1>2. Safe /\ [Next]_vars => [Holding]_vars
  <2> SUFFICES ASSUME Safe, Next PROVE Holding
    OBVIOUS
  <2> PICK m \in Messages :
        \/ Accept(m) \/ Dispatch(m) \/ Start(m) \/ Stop(m) \/ Requeue(m)
        \/ Conclude(m) \/ GiveUp(m) \/ Release(m)
    BY DEF Next
  <2> QED
    BY DEF Accept, Dispatch, Start, Stop, Requeue, Conclude, GiveUp, Release,
           Become, End, Ended, Safe, ContractTypeOK
<1>3. Safe /\ [Next]_vars => Safe'
  BY SafeStep
<1> QED BY <1>1, <1>2, <1>3, PTL DEF Spec, OutcomesAreFinal
=============================================================================
