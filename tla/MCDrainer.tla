------------------------------ MODULE MCDrainer ------------------------------
(* Small instances of the drain cycles for TLC. *)
EXTENDS Drainer, TLC

CONSTANTS w1, w2, a, b

\* The workflows differ in nothing but their ids.
FlowSymmetry == Permutations(Flows)

=============================================================================
