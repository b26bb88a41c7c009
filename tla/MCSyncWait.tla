----------------------------- MODULE MCSyncWait -----------------------------
(***************************************************************************)
(* SyncWait for TLC: two request processes of one principal.               *)
(***************************************************************************)
EXTENDS SyncWait, TLC

CONSTANTS w1, w2, c1

OneCaller == (w1 :> c1) @@ (w2 :> c1)

-----------------------------------------------------------------------------
(* What the repository says of the park cap and TLC refutes.               *)

\* sync_wait.ex, reserve: "{:error, :park_cap_exceeded} when principal already holds
\* cap parked waiters".
RefusedOnlyAtCap ==
  [][\A w \in Waiters : step[w] = "reserve" /\ step'[w] = "rollback"
        => Cardinality(Holders(Caller[w])) >= ParkCap]_wvars

=============================================================================
