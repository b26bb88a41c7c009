---------------------------- MODULE VmInventory ----------------------------
(***************************************************************************)
(* Who owns a primed VM: the dispatcher's warm inventory on one node for   *)
(* one workload, the assign workers and session creates that take VMs from *)
(* it, the pool that fills it and the sweep that adopts what the node      *)
(* reports.  Source: control/lib/embervm/dispatcher.ex (inventory, claims, *)
(* assign workers, adopt_inventory), session_manager.ex (create and        *)
(* destroy of a session without persistence), pool_manager.ex, and the     *)
(* daemon's VM registry, noded/server/registry.go.                         *)
(*                                                                         *)
(* A VM is single-use: the node gives it to one Assign or to one session.  *)
(* The inventory is a bag, vm_id -> times parked: the order of its queue   *)
(* does not matter to ownership, a vm_id queued twice does.  The drain     *)
(* that ends most handlers of the dispatcher is DispatchWarm and           *)
(* DispatchMiss: tasks come and go freely, so a handler that drains        *)
(* nothing is one that finds no task to serve.                             *)
(***************************************************************************)
EXTENDS Naturals

CONSTANTS
  Vms,          \* vm_ids
  Workers,      \* assign worker processes
  Creates,      \* session creates, and the sessions they make
  NoVm,         \* nil as a vm_id
  NoMeta,       \* no entry in the dispatcher's workers map
  FaultBound    \* bound: restarts and aborted sweeps

ASSUME InventoryAssumption ==
  /\ NoVm \notin Vms
  /\ Workers \cap Creates = {}
  /\ NoMeta \notin Vms \cup {NoVm}
  /\ FaultBound \in Nat

VARIABLES
  vm,           \* the node's registry: vm_id -> "unborn", "primed" or "used"
  facts,        \* primed_vm_ids of the node's last status
  inventory,    \* vm_id -> times parked
  reservations, \* session_reservations
  claimed,      \* claimed_vm_ids
  sweep,        \* "idle", "boot" (boot_sweep is next) or "adopt" (claims are read)
  meta,         \* worker -> vm_id of its entry in the workers map
  step,         \* worker -> step of the process
  own,          \* worker -> the VM it primed or was given
  told,         \* worker -> its vm_primed message is in the dispatcher's mailbox
  deposits,     \* VMs the pool primed whose deposit is under way
  stage,        \* create -> stage of the create, then of the session
  svm,          \* create -> the VM of the create or the session
  orphan,       \* create -> its manager died, the create worker did not
  faults,       \* faults so far
  seen,         \* history: this dispatcher has read the session claims
  misadopted    \* history: VMs a sweep adopted while Unprotected

node == <<vm, facts>>
books == <<inventory, reservations, claimed, sweep>>
tasks == <<meta, step, own, told>>
sessions == <<stage, svm, orphan>>
history == <<seen, misadopted>>
ivars == <<node, books, tasks, deposits, sessions, faults, history>>

-----------------------------------------------------------------------------
(* State *)

Primed == {v \in Vms : vm[v] = "primed"}

Parked == {v \in Vms : inventory[v] > 0}

\* Mutant: terminal rows, whose vm_id is nil, are not filtered out.
RowsUnfiltered ==
  {svm[c] : c \in {d \in Creates : stage[d] \in {"commit", "live", "ending", "dropped", "closed"}}}

\* The vm_ids of live session rows (SessionStore's claimed_vm_ids): a row exists from
\* SessionStore.create until a teardown the node has confirmed is recorded.
Rows == {svm[c] : c \in {d \in Creates : stage[d] \in {"commit", "live", "ending", "dropped"}}}

\* Mutant: the VMs of assign workers are not known.
KnownWithoutWorkers == Parked \cup reservations \cup claimed

\* known_vm_ids.
Known == Parked \cup {meta[w] : w \in Workers} \cup reservations \cup claimed

\* The VMs of processes that will use them and that the dispatcher has no record of: the
\* reply of their Prime is not handled (an assign worker's vm_primed, a create's
\* reserve_session_vm), or they outlived a restart of the dispatcher (an assign worker, the
\* destroy of a VM without owner), or they are live sessions whose claims it never read.
Unprotected ==
  {own[w] : w \in {x \in Workers : step[x] \in {"primed", "assign"} /\ meta[x] \in {NoVm, NoMeta}}}
    \cup {svm[c] : c \in {d \in Creates : \/ stage[d] = "append" /\ ~orphan[d]
                                          \/ stage[d] = "unowned"
                                          \/ stage[d] \in {"commit", "live"} /\ ~seen}}

Park(v) == [inventory EXCEPT ![v] = @ + 1]

Take(v) == [inventory EXCEPT ![v] = @ - 1]

\* drop_vm_id on the inventory, for a set of ids.
Without(S) == [v \in Vms |-> IF v \in S THEN 0 ELSE inventory[v]]

\* drop_vm_id.
DropVmId(v) ==
  /\ inventory' = Without({v})
  /\ claimed' = claimed \ {v}
  /\ reservations' = reservations \ {v}

\* The dispatcher is at the top of its loop: a running sweep blocks every handler.
Ready == sweep = "idle"

\* Stages in which the create worker process runs.
Working == {"reserve", "prime", "append", "register"}

\* finish_create runs in the manager process, one at a time.
ManagerFree == \A c \in Creates : stage[c] \notin {"commit", "release"}

Goto(w, s) == step' = [step EXCEPT ![w] = s]

Enter(c, s) == stage' = [stage EXCEPT ![c] = s]

-----------------------------------------------------------------------------
(* The node and the pool *)

\* A Prime that succeeds on the node: the VM is primed, and reportable, from here on.
Born(v) ==
  /\ vm[v] = "unborn"
  /\ vm' = [vm EXCEPT ![v] = "primed"]

\* claimForAssign, claimForSession and Destroy all move a VM out of primed for good.
Spent(v) == vm' = [vm EXCEPT ![v] = "used"]

\* A node status replaces the capacity row: every primed VM, also one whose Prime reply
\* is still on its way.
Report ==
  /\ facts' = Primed
  /\ UNCHANGED <<vm, books, tasks, deposits, sessions, faults, history>>

\* A prime worker of the pool primes; its result is on its way to the pool manager and
\* from there to the dispatcher.
PoolPrime(v) ==
  /\ Born(v)
  /\ deposits' = deposits \cup {v}
  /\ UNCHANGED <<facts, books, tasks, sessions, faults, history>>

\* The pool manager never hears of the VM (a timed-out Prime, a dead pool manager).
DepositLost(v) ==
  /\ deposits' = deposits \ {v}
  /\ v \in deposits
  /\ UNCHANGED <<node, books, tasks, sessions, faults, history>>

\* Mutant: the VM is queued without asking whether it is known.
PutVm(v) == Park(v)

\* put_vm_if_unknown.
PutVmIfUnknown(v) == IF v \in Known THEN inventory ELSE Park(v)

\* handle_cast {:deposit, ...}.
Deposit(v) ==
  /\ Ready
  /\ v \in deposits
  /\ deposits' = deposits \ {v}
  /\ inventory' = PutVmIfUnknown(v)
  /\ UNCHANGED <<node, reservations, claimed, sweep, tasks, sessions, faults, history>>

-----------------------------------------------------------------------------
(* The sweep *)

\* Mutant: only the boot sweep runs.
SweepStartBoot ==
  /\ sweep = "boot"
  /\ claimed' = Rows
  /\ seen' = TRUE
  /\ inventory' = Without(Rows)
  /\ sweep' = "adopt"
  /\ UNCHANGED <<node, reservations, tasks, deposits, sessions, faults, misadopted>>

\* refresh_claimed_vm_ids; a call that fails keeps the previous claims.
SweepStart ==
  /\ sweep \in {"idle", "boot"}
  /\ \/ claimed' = Rows /\ seen' = TRUE
     \/ claimed' = claimed /\ seen' = seen
  /\ inventory' = Without(claimed')
  /\ sweep' = "adopt"
  /\ UNCHANGED <<node, reservations, tasks, deposits, sessions, faults, misadopted>>

\* adopt_inventory, once the task store has answered list_backlog.
SweepAdopt ==
  /\ sweep = "adopt"
  /\ inventory' = [v \in Vms |-> inventory[v] + IF v \in facts \ Known THEN 1 ELSE 0]
  /\ misadopted' = misadopted \cup ((facts \ Known) \cap Unprotected)
  /\ sweep' = "idle"
  /\ UNCHANGED <<node, reservations, claimed, tasks, deposits, sessions, faults, seen>>

\* list_backlog failed: the sweep ends before adoption.
SweepAbort ==
  /\ sweep = "adopt"
  /\ faults < FaultBound
  /\ faults' = faults + 1
  /\ sweep' = "idle"
  /\ UNCHANGED <<node, inventory, reservations, claimed, tasks, deposits, sessions, history>>

-----------------------------------------------------------------------------
(* Assign workers *)

Spawn(w, s, v) ==
  /\ Ready
  /\ step[w] = "idle"
  /\ Goto(w, s)
  /\ own' = [own EXCEPT ![w] = v]
  /\ meta' = [meta EXCEPT ![w] = v]
  /\ UNCHANGED <<node, reservations, claimed, sweep, told, deposits, sessions, faults, history>>

\* commit_dispatch on a warm node.  When the store refuses the assignment, return_vm puts
\* the VM back and nothing has changed.
DispatchWarm(w) ==
  \E v \in Parked :
    /\ inventory' = Take(v)
    /\ Spawn(w, "assign", v)

\* commit_dispatch with nothing parked: the worker primes its own VM.
DispatchMiss(w) ==
  /\ Parked = {}
  /\ inventory' = inventory
  /\ Spawn(w, "prime", NoVm)

\* Prime on the node: the VM exists, the reply is on its way.
PrimeServed(w) ==
  /\ step[w] = "prime"
  /\ \E v \in Vms : Born(v) /\ own' = [own EXCEPT ![w] = v]
  /\ Goto(w, "primed")
  /\ UNCHANGED <<facts, books, meta, told, deposits, sessions, faults, history>>

\* prime_on: the worker reports its VM to the dispatcher that spawned it, if that one
\* still lives, and goes on to Assign.
PrimeReturns(w) ==
  /\ step[w] = "primed"
  /\ told' = [told EXCEPT ![w] = meta[w] # NoMeta]
  /\ Goto(w, "assign")
  /\ UNCHANGED <<node, books, meta, own, deposits, sessions, faults, history>>

\* handle_info {:vm_primed, ...}.
VmPrimed(w) ==
  /\ Ready
  /\ told[w]
  /\ told' = [told EXCEPT ![w] = FALSE]
  /\ meta' = [meta EXCEPT ![w] = own[w]]
  /\ UNCHANGED <<node, books, step, own, deposits, sessions, faults, history>>

\* Assign: the node takes a primed VM for this task and destroys it afterwards; any other
\* vm_id is refused with FAILED_PRECONDITION.
Assign(w) ==
  /\ step[w] = "assign"
  /\ IF vm[own[w]] = "primed" THEN Spent(own[w]) ELSE vm' = vm
  /\ Goto(w, "done")
  /\ UNCHANGED <<facts, books, meta, own, told, deposits, sessions, faults, history>>

\* The worker ends before its Assign: no request body, no channel, a failed Prime, or the
\* watchdog's kill.  A VM it had stays primed on the node.
WorkerFails(w) ==
  /\ step[w] \in {"prime", "primed", "assign"}
  /\ Goto(w, "done")
  /\ UNCHANGED <<node, books, meta, own, told, deposits, sessions, faults, history>>

\* finish_worker on assign_done or DOWN, which follow vm_primed in the mailbox.  Nobody
\* hears of the end of a worker whose dispatcher is gone.
FinishWorker(w) ==
  /\ step[w] = "done"
  /\ meta[w] = NoMeta \/ (Ready /\ ~told[w])
  /\ Goto(w, "idle")
  /\ own' = [own EXCEPT ![w] = NoVm]
  /\ meta' = [meta EXCEPT ![w] = NoMeta]
  /\ UNCHANGED <<node, books, told, deposits, sessions, faults, history>>

-----------------------------------------------------------------------------
(* Session creates and sessions *)

\* A create is admitted and its worker calls claim: a hit pops a VM and reserves it in the
\* same handler.
ClaimHit(c) ==
  /\ Ready
  /\ stage[c] = "none"
  /\ \E v \in Parked :
       /\ inventory' = Take(v)
       /\ reservations' = reservations \cup {v}
       /\ svm' = [svm EXCEPT ![c] = v]
  /\ Enter(c, "reserve")
  /\ UNCHANGED <<node, claimed, sweep, tasks, deposits, orphan, faults, history>>

ClaimMiss(c) ==
  /\ Ready
  /\ stage[c] = "none"
  /\ Parked = {}
  /\ Enter(c, "prime")
  /\ UNCHANGED <<node, books, tasks, deposits, svm, orphan, faults, history>>

\* prime: Prime answers, and append_primed writes to the op-log before the reservation.
SessionPrime(c) ==
  /\ stage[c] = "prime"
  /\ \E v \in Vms : Born(v) /\ svm' = [svm EXCEPT ![c] = v]
  /\ Enter(c, "append")
  /\ UNCHANGED <<facts, books, tasks, deposits, orphan, faults, history>>

\* handle_call {:reserve_session_vm, ...}.
ReserveSessionVm(c) ==
  /\ Ready
  /\ stage[c] \in {"reserve", "append"}
  /\ inventory' = Without({svm[c]})
  /\ claimed' = claimed \ {svm[c]}
  /\ reservations' = reservations \cup {svm[c]}
  /\ Enter(c, "register")
  /\ UNCHANGED <<node, sweep, tasks, deposits, svm, orphan, faults, history>>

\* The create worker fails, or the manager kills it at create_timeout: finish_create
\* denies the create and leaves a reservation it had made.
CreateFails(c) ==
  /\ stage[c] \in Working
  /\ ManagerFree \/ orphan[c]
  /\ Enter(c, "closed")
  /\ svm' = [svm EXCEPT ![c] = NoVm]
  /\ UNCHANGED <<node, books, tasks, deposits, orphan, faults, history>>

\* The worker's result is in the mailbox behind its own create_timeout: finish_create
\* finds no such create any more and starts the destroy of a VM nobody owns.
CreateTimeout(c) ==
  /\ stage[c] = "register"
  /\ ManagerFree
  /\ ~orphan[c]
  /\ Enter(c, "unowned")
  /\ UNCHANGED <<node, books, tasks, deposits, svm, orphan, faults, history>>

\* destroy_unowned_vm_async: the node confirms, or the VM stays, reserved.
DestroyUnowned(c) ==
  /\ stage[c] = "unowned"
  /\ \/ Spent(svm[c]) /\ Enter(c, "reaped") /\ svm' = svm
     \/ vm' = vm /\ Enter(c, "closed") /\ svm' = [svm EXCEPT ![c] = NoVm]
  /\ UNCHANGED <<facts, books, tasks, deposits, orphan, faults, history>>

\* destroy_vm tells the dispatcher once the node has confirmed.
DropUnowned(c) ==
  /\ Ready
  /\ stage[c] = "reaped"
  /\ DropVmId(svm[c])
  /\ Enter(c, "closed")
  /\ svm' = [svm EXCEPT ![c] = NoVm]
  /\ UNCHANGED <<node, sweep, tasks, deposits, orphan, faults, history>>

\* finish_create, register_and_start: SessionStore.create writes the row, or fails and
\* the VM is to be released.  The result of an orphaned worker reaches nobody.
Register(c) ==
  /\ stage[c] = "register"
  /\ ManagerFree
  /\ ~orphan[c]
  /\ \E s \in {"commit", "release"} : Enter(c, s)
  /\ UNCHANGED <<node, books, tasks, deposits, svm, orphan, faults, history>>

\* Mutant: the claim is not recorded.
CommitSessionVmUnclaimed(c) ==
  /\ Ready
  /\ stage[c] = "commit"
  /\ inventory' = Without({svm[c]})
  /\ reservations' = reservations \ {svm[c]}
  /\ Enter(c, "live")
  /\ UNCHANGED <<node, claimed, sweep, tasks, deposits, svm, orphan, faults, history>>

\* handle_call {:commit_session_vm, ...}.
CommitSessionVm(c) ==
  /\ Ready
  /\ stage[c] = "commit"
  /\ inventory' = Without({svm[c]})
  /\ claimed' = claimed \cup {svm[c]}
  /\ reservations' = reservations \ {svm[c]}
  /\ Enter(c, "live")
  /\ UNCHANGED <<node, sweep, tasks, deposits, svm, orphan, faults, history>>

\* discard_create_vm, handle_call {:release_session_vm, ...}.
ReleaseSessionVm(c) ==
  /\ Ready
  /\ stage[c] = "release"
  /\ reservations' = reservations \ {svm[c]}
  /\ Enter(c, "closed")
  /\ svm' = [svm EXCEPT ![c] = NoVm]
  /\ UNCHANGED <<node, inventory, claimed, sweep, tasks, deposits, orphan, faults, history>>

\* The first SessionAssign moves the VM into the node's session registry.
SessionAssign(c) ==
  /\ stage[c] = "live"
  /\ svm[c] \in Primed
  /\ Spent(svm[c])
  /\ UNCHANGED <<facts, books, tasks, deposits, sessions, faults, history>>

\* Destroy: the node tears the VM down and confirms.
DestroySession(c) ==
  /\ stage[c] = "live"
  /\ Spent(svm[c])
  /\ Enter(c, "ending")
  /\ UNCHANGED <<facts, books, tasks, deposits, svm, orphan, faults, history>>

\* destroy_vm tells the dispatcher, again when the teardown is redriven.
DropVm(c) ==
  /\ Ready
  /\ stage[c] \in {"ending", "dropped"}
  /\ DropVmId(svm[c])
  /\ Enter(c, "dropped")
  /\ UNCHANGED <<node, sweep, tasks, deposits, svm, orphan, faults, history>>

\* The teardown is recorded, after destroy_vm or because the node no longer reports the
\* VM: the row is terminal.
SessionDestroyed(c) ==
  /\ stage[c] \in {"ending", "dropped"}
  /\ Enter(c, "closed")
  /\ svm' = [svm EXCEPT ![c] = NoVm]
  /\ UNCHANGED <<node, books, tasks, deposits, orphan, faults, history>>

-----------------------------------------------------------------------------
(* Restarts *)

\* The session manager dies: a row already written is a session (its process is rebuilt
\* from the row), what was at one of the stages in lost is forgotten, create workers live on.
ManagerDies(lost) ==
  /\ stage' = [c \in Creates |-> CASE stage[c] = "commit" -> "live"
                                   [] stage[c] \in lost -> "closed"
                                   [] OTHER -> stage[c]]
  /\ svm' = [c \in Creates |-> IF stage[c] \in lost THEN NoVm ELSE svm[c]]
  /\ orphan' = [c \in Creates |-> IF stage[c] \in Working THEN TRUE ELSE orphan[c]]

ManagerRestart ==
  /\ faults < FaultBound
  /\ faults' = faults + 1
  /\ ManagerDies({"release"})
  /\ UNCHANGED <<node, books, tasks, deposits, history>>

\* The workers that die with their dispatcher: terminate kills them all when the dispatcher
\* itself fails; a supervisor's shutdown does not run it (no trap_exit).
Killed == {{w \in Workers : meta[w] # NoMeta}, {}}

\* The dispatcher restarts, and with it (rest_for_one) the pool manager and the session
\* manager.  The destroy of a VM without owner is linked to nobody and goes on.
DispatcherRestart ==
  \E killed \in Killed :
    /\ faults < FaultBound
    /\ faults' = faults + 1
    /\ inventory' = Without(Vms)
    /\ reservations' = {}
    /\ claimed' = {}
    /\ sweep' = "boot"
    /\ meta' = [w \in Workers |-> NoMeta]
    /\ told' = [w \in Workers |-> FALSE]
    /\ step' = [w \in Workers |-> IF w \in killed THEN "idle" ELSE step[w]]
    /\ own' = [w \in Workers |-> IF w \in killed THEN NoVm ELSE own[w]]
    /\ deposits' = {}
    /\ ManagerDies({"release"})
    /\ seen' = FALSE
    /\ UNCHANGED <<node, misadopted>>

-----------------------------------------------------------------------------
(* The specification *)

InventoryInit ==
  /\ vm = [v \in Vms |-> "unborn"]
  /\ facts = {}
  /\ inventory = [v \in Vms |-> 0]
  /\ reservations = {}
  /\ claimed = {}
  /\ sweep = "boot"
  /\ meta = [w \in Workers |-> NoMeta]
  /\ step = [w \in Workers |-> "idle"]
  /\ own = [w \in Workers |-> NoVm]
  /\ told = [w \in Workers |-> FALSE]
  /\ deposits = {}
  /\ stage = [c \in Creates |-> "none"]
  /\ svm = [c \in Creates |-> NoVm]
  /\ orphan = [c \in Creates |-> FALSE]
  /\ faults = 0
  /\ seen = FALSE
  /\ misadopted = {}

NodeStep == Report \/ \E v \in Vms : PoolPrime(v) \/ DepositLost(v) \/ Deposit(v)

SweepStep == SweepStart \/ SweepAdopt \/ SweepAbort

WorkerStep(w) ==
  \/ DispatchWarm(w) \/ DispatchMiss(w) \/ PrimeServed(w) \/ PrimeReturns(w)
  \/ VmPrimed(w) \/ Assign(w) \/ WorkerFails(w) \/ FinishWorker(w)

CreateStep(c) ==
  \/ ClaimHit(c) \/ ClaimMiss(c) \/ SessionPrime(c) \/ ReserveSessionVm(c)
  \/ CreateFails(c) \/ CreateTimeout(c) \/ DestroyUnowned(c) \/ DropUnowned(c)
  \/ Register(c) \/ CommitSessionVm(c) \/ ReleaseSessionVm(c)
  \/ SessionAssign(c) \/ DestroySession(c) \/ DropVm(c) \/ SessionDestroyed(c)

InventoryNext ==
  \/ NodeStep
  \/ SweepStep
  \/ \E w \in Workers : WorkerStep(w)
  \/ \E c \in Creates : CreateStep(c)
  \/ ManagerRestart
  \/ DispatcherRestart

\* The node streams its status and the sweep timer fires.
InventoryFairness == WF_ivars(Report) /\ WF_ivars(SweepStart) /\ WF_ivars(SweepAdopt)

InventorySpec == InventoryInit /\ [][InventoryNext]_ivars /\ InventoryFairness

-----------------------------------------------------------------------------
(* Properties *)

InventoryTypeOK ==
  /\ vm \in [Vms -> {"unborn", "primed", "used"}]
  /\ facts \subseteq Vms
  /\ inventory \in [Vms -> Nat]
  /\ reservations \subseteq Vms
  /\ claimed \subseteq Vms
  /\ sweep \in {"idle", "boot", "adopt"}
  /\ meta \in [Workers -> Vms \cup {NoVm, NoMeta}]
  /\ step \in [Workers -> {"idle", "prime", "primed", "assign", "done"}]
  /\ own \in [Workers -> Vms \cup {NoVm}]
  /\ told \in [Workers -> BOOLEAN]
  /\ deposits \subseteq Vms
  /\ stage \in [Creates -> Working \cup
                 {"none", "commit", "release", "live", "ending", "dropped", "unowned", "reaped", "closed"}]
  /\ svm \in [Creates -> Vms \cup {NoVm}]
  /\ orphan \in [Creates -> BOOLEAN]
  /\ faults \in 0 .. FaultBound
  /\ seen \in BOOLEAN
  /\ misadopted \subseteq Vms

\* put_vm_if_unknown, adopt_inventory and the session handlers: a vm_id is parked at most
\* once, and never while the dispatcher keeps it for a session.
ParkedApart ==
  \A v \in Vms : inventory[v] <= 1 /\ (inventory[v] = 1 => v \notin reservations \cup claimed)

\* The processes that will use v, those that outlived their dispatcher included; an
\* orphaned create worker uses nothing any more.
Holders(v) ==
  {w \in Workers : own[w] = v /\ step[w] \in {"primed", "assign"}}
    \cup {c \in Creates : svm[c] = v /\ ~(orphan[c] /\ stage[c] \in Working)}

\* reserve_vm, claim, adopt_inventory and deposit: a primed VM is parked, or held by one
\* worker, or held by one session, across crashes, stale reports, unread claims and late
\* deposits.  The exceptions are the VMs a sweep adopted from under a process the dispatcher
\* had no record of (Unprotected), which the code does hand out twice.  (A used VM may be
\* handed out again; the node refuses it.)
OneHolder ==
  \A v \in Primed \ misadopted : /\ \A p, q \in Holders(v) : p = q
                                 /\ inventory[v] > 0 => Holders(v) = {}

\* No step takes the primed VM of a live session from under it: only its own SessionAssign
\* or Destroy moves the VM on, unless a sweep adopted the VM from under a process the
\* dispatcher had no record of (the session itself, or the worker or destroy that had the VM
\* before): then that process or a second holder may.
SessionKeepsVm ==
  [][\A c \in Creates :
       /\ stage[c] \in {"commit", "live"}
       /\ svm[c] \in Primed \ misadopted
       /\ svm[c] \notin Primed'
       => SessionAssign(c) \/ DestroySession(c)]_ivars

\* adopt_inventory recovers the warm pool: a primed VM is used in the end or known to the
\* dispatcher, however it came to be forgotten.
PrimedIsKnown == \A v \in Vms : v \in Primed ~> v \in Known \/ v \notin Primed

=============================================================================
