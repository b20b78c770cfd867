-------------------------- MODULE MCCentralSystem --------------------------
(* Instances of CentralSystem for TLC. *)
EXTENDS CentralSystem, TLC

\* Charge points and stamps are interchangeable; only the safety runs use it.
Symmetry == Permutations(ChargePoint) \cup Permutations(Stamps)

=============================================================================
