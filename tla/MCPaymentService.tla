-------------------------- MODULE MCPaymentService --------------------------
(***************************************************************************)
(* Small instances of PaymentService for TLC.                              *)
(***************************************************************************)
EXTENDS PaymentService, TLC

Symmetric == Permutations(Ride) \cup Permutations(Worker)
=============================================================================
