---------------------------- MODULE MCDispatcher ----------------------------
(***************************************************************************)
(* Dispatcher for TLC: two tasks of two principals, or one task.           *)
(***************************************************************************)
EXTENDS Dispatcher, TLC

CONSTANTS t1, t2, a, b

TwoOwners == (t1 :> a) @@ (t2 :> b)
SoleTask == (t1 :> a)

-----------------------------------------------------------------------------
(* What the repository says of the dispatcher and TLC refutes.             *)

\* dispatcher.ex: "A task a live worker still owns is skipped, so a running task
\* is never double-dispatched."
NeverDoubleDispatched ==
  \A p, q \in Live : workers[p].task = workers[q].task => p = q

=============================================================================
