---------------------------- MODULE TurnContract ----------------------------
(***************************************************************************)
(* What the turn execution promises about one session, without executors,  *)
(* claims, receipts, holds, fences or sweeps: every accepted message runs   *)
(* in order, alone, on charged capacity and at most MaxDispatches times,    *)
(* and ends once.  Module TurnExecution implements it.                      *)
(***************************************************************************)
EXTENDS Naturals

CONSTANTS
  MaxSeq,        \* messages of the session
  MaxDispatches  \* MAX_PENDING_DISPATCHES

VARIABLES
  phase,    \* message -> where it stands for the caller
  tries,    \* message -> how often it was dispatched
  live,     \* messages whose prompt a guest runs or may still start
  charged   \* messages whose permit counts against the pool

vars == <<phase, tries, live, charged>>

Messages == 1 .. MaxSeq
Ended == {"done", "error", "unknown"}

ContractTypeOK ==
  /\ phase \in [Messages -> {"absent", "waiting", "inflight"} \cup Ended]
  /\ tries \in [Messages -> 0 .. MaxDispatches]
  /\ live \in SUBSET Messages
  /\ charged \in SUBSET Messages

Init ==
  /\ phase = [m \in Messages |-> "absent"]
  /\ tries = [m \in Messages |-> 0]
  /\ live = {}
  /\ charged = {}

Become(m, p) == phase' = [phase EXCEPT ![m] = p]
End(m, p) == Become(m, p) /\ tries' = [tries EXCEPT ![m] = 0]

Accept(m) ==
  /\ phase[m] = "absent"
  /\ \A k \in 1 .. (m - 1) : phase[k] # "absent"
  /\ Become(m, "waiting")
  /\ UNCHANGED <<tries, live, charged>>

\* The oldest message goes out, unless an earlier outcome is still open.
Dispatch(m) ==
  /\ phase[m] = "waiting"
  /\ \A k \in 1 .. (m - 1) : phase[k] \in {"done", "error"} /\ k \notin charged
  /\ live = {}
  /\ tries[m] < MaxDispatches
  /\ Become(m, "inflight")
  /\ tries' = [tries EXCEPT ![m] = @ + 1]
  /\ charged' = charged \cup {m}
  /\ UNCHANGED live

Start(m) ==
  /\ live = {}
  /\ m \in charged
  /\ live' = {m}
  /\ UNCHANGED <<phase, tries, charged>>

Stop(m) ==
  /\ m \in live
  /\ live' = live \ {m}
  /\ UNCHANGED <<phase, tries, charged>>

\* An interrupted dispatch may be repeated: nothing of it runs any more.
Requeue(m) ==
  /\ phase[m] = "inflight"
  /\ m \notin live
  /\ Become(m, "waiting")
  /\ UNCHANGED <<tries, live, charged>>

\* The caller gets a result, or an error that is known to be one.
Conclude(m) ==
  /\ phase[m] = "inflight"
  /\ m \notin live
  /\ \E p \in {"done", "error"} : End(m, p)
  /\ charged' = charged \ {m}
  /\ UNCHANGED live

\* Nobody can tell what the guest did, or its result names no native outcome: the
\* capacity stays charged.
GiveUp(m) ==
  /\ phase[m] \in {"waiting", "inflight"}
  /\ \A k \in 1 .. (m - 1) : phase[k] \in Ended
  /\ \E p \in {"error", "unknown"} : End(m, p)
  /\ charged' = charged \cup {m}
  /\ UNCHANGED live

\* The guest is known to have ceased.
Release(m) ==
  /\ phase[m] \in Ended
  /\ m \notin live
  /\ charged' = charged \ {m}
  /\ UNCHANGED <<phase, tries, live>>

\* Every step changes what the caller sees.
Next ==
  /\ vars' # vars
  /\ \E m \in Messages :
       \/ Accept(m) \/ Dispatch(m) \/ Start(m) \/ Stop(m) \/ Requeue(m)
       \/ Conclude(m) \/ GiveUp(m) \/ Release(m)

Spec == Init /\ [][Next]_vars

------------------------------------------------------------------------------
(* What the contract gives a caller.                                       *)

\* Messages go out in order and alone: when one is dispatched or has ended, the
\* earlier ones have ended, and none of them still holds capacity while a later
\* one is in flight.
InOrder ==
  \A m \in Messages : \A k \in 1 .. (m - 1) :
    /\ phase[m] \in Ended \cup {"inflight"} => phase[k] \in Ended
    /\ phase[m] = "inflight" => phase[k] # "unknown" /\ k \notin charged

\* At most one prompt runs, and it runs on charged capacity.
RunsCharged ==
  /\ live \subseteq charged
  /\ \A m, k \in live : m = k
  /\ \A m \in Messages : phase[m] = "inflight" => m \in charged

\* An outcome is final, and capacity is released only when nothing runs on it.
OutcomesAreFinal ==
  [][/\ \A m \in Messages : phase[m] \in Ended => phase'[m] = phase[m]
     /\ charged \ charged' \subseteq Messages \ live']_vars
==============================================================================
