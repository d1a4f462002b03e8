--------------------------- MODULE MCRideService ---------------------------
(***************************************************************************)
(* Small instances of RideService for TLC.                                 *)
(***************************************************************************)
EXTENDS RideService, TLC

\* Rides, passengers, drivers and workers are interchangeable.
Symmetric == Permutations(Ride) \cup Permutations(Passenger)
               \cup Permutations(Driver) \cup Permutations(Worker)
=============================================================================
