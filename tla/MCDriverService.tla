-------------------------- MODULE MCDriverService --------------------------
(***************************************************************************)
(* Small instances of DriverService for TLC.                               *)
(***************************************************************************)
EXTENDS DriverService, TLC

Symmetric ==
  Permutations(Driver) \cup Permutations(Ride) \cup Permutations(Worker)
=============================================================================
