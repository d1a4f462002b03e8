--------------------------- MODULE RideLifecycle ---------------------------
(***************************************************************************)
(* What the ride-service promises its clients and its event subscribers,   *)
(* with no handlers, tables or faults: a ride moves along the status       *)
(* machine, and the end of a ride is announced once, under the subject     *)
(* that names its outcome.                                                 *)
(***************************************************************************)
EXTENDS Integers, RideStatus

CONSTANT Ride

VARIABLES status,    \* "absent" before the ride is created
          announced  \* announcements made, per ride and outcome

vars == <<status, announced>>

\* The statuses a ride ends in.
Outcome == {"completed", "cancelled"}

Init ==
  /\ status = [r \in Ride |-> "absent"]
  /\ announced = [r \in Ride |-> [o \in Outcome |-> 0]]

Create(r) ==
  /\ status[r] = "absent"
  /\ status' = [status EXCEPT ![r] = "requested"]
  /\ UNCHANGED announced

Advance(r) ==
  /\ \E to \in Statuses :
       /\ CanTransition(status[r], to)
       /\ status' = [status EXCEPT ![r] = to]
  /\ UNCHANGED announced

Announce(r) ==
  /\ status[r] \in Outcome
  /\ \A o \in Outcome : announced[r][o] = 0
  /\ announced' = [announced EXCEPT ![r][status[r]] = 1]
  /\ UNCHANGED status

Next == \E r \in Ride : Create(r) \/ Advance(r) \/ Announce(r)

Spec == Init /\ [][Next]_vars

\* The end of a ride is announced some time after it.
FairSpec == Spec /\ \A r \in Ride : WF_vars(Announce(r))
=============================================================================
