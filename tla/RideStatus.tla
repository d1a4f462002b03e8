----------------------------- MODULE RideStatus -----------------------------
(***************************************************************************)
(* The ride state machine of services/ride/internal/domain/ride.go: the    *)
(* status names, the table of allowed transitions and the two predicates   *)
(* the use cases and the repository call.  Everything here is constant.    *)
(***************************************************************************)

Statuses == {"requested", "driver_assigned", "driver_arrived",
             "in_progress", "completed", "cancelled"}

allowedTransitions ==
  [ requested       |-> {"driver_assigned", "cancelled"},
    driver_assigned |-> {"driver_arrived", "in_progress", "cancelled"},
    driver_arrived  |-> {"in_progress", "cancelled"},
    in_progress     |-> {"completed", "cancelled"},
    completed       |-> {},
    cancelled       |-> {} ]

\* A table that lets a cancelled ride go on.
CanTransition_Reopen(from, to) ==
  to \in allowedTransitions[from] \/ (from = "cancelled" /\ to = "in_progress")

\* A status that is not a key of the table has no way out.
CanTransition(from, to) ==
  from \in DOMAIN allowedTransitions /\ to \in allowedTransitions[from]

IsActiveStatus(s) ==
  s \in {"requested", "driver_assigned", "driver_arrived", "in_progress"}

\* The statuses a ride never leaves.
Terminal == {s \in Statuses : allowedTransitions[s] = {}}
=============================================================================
