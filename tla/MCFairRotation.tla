--------------------------- MODULE MCFairRotation ---------------------------
(***************************************************************************)
(* FairRotation for TLC: three principals, one of them with two tasks.     *)
(***************************************************************************)
EXTENDS FairRotation, TLC

CONSTANTS p1, p2, p3, a1, a2, b1, b2, c1

MCPrincipals == {p1, p2, p3}
MCWaiting == {a1, a2, b1, b2, c1}
MCOwner ==
  (a1 :> p1) @@ (a2 :> p1) @@ (b1 :> p2) @@ (b2 :> p2) @@ (c1 :> p3)

=============================================================================
