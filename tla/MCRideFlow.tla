----------------------------- MODULE MCRideFlow -----------------------------
(***************************************************************************)
(* Small instances of RideFlow for TLC.                                    *)
(***************************************************************************)
EXTENDS RideFlow
=============================================================================
