---------------------------- MODULE MCUserService ----------------------------
(***************************************************************************)
(* Small instances of UserService for TLC.                                 *)
(***************************************************************************)
EXTENDS UserService, TLC

Symmetric == Permutations(User) \cup Permutations(Email)
             \cup Permutations(Password) \cup Permutations(Worker)
=============================================================================
