---------------------------- MODULE RidePlatform ----------------------------
(***************************************************************************)
(* What the platform promises about a ride, with no services, messages,    *)
(* races or faults: it is offered to the drivers once, goes to one driver, *)
(* ends once, is charged once and only when it was completed, and what was *)
(* paid for it is given back only when it was cancelled.                   *)
(*                                                                         *)
(* A cancelled ride may still be offered and assigned: nobody tells the    *)
(* driver-service of the cancellation.                                     *)
(***************************************************************************)
CONSTANTS Ride, Driver, Payment

VARIABLES outcome,  \* "open", or the status the ride ended in
          offered,  \* the rides offered to the drivers
          assigned, \* pairs of a driver and a ride
          charged,  \* pairs of a payment the platform made and its ride
          refunded  \* pairs of a payment given back and its ride

vars == <<outcome, offered, assigned, charged, refunded>>

Init ==
  /\ outcome = [r \in Ride |-> "open"]
  /\ offered = {}
  /\ assigned = {}
  /\ charged = {}
  /\ refunded = {}

Offer(r) ==
  /\ r \notin offered
  /\ offered' = offered \cup {r}
  /\ UNCHANGED <<outcome, assigned, charged, refunded>>

Assign(d, r) ==
  /\ r \in offered
  /\ \A a \in assigned : a[2] # r
  /\ assigned' = assigned \cup {<<d, r>>}
  /\ UNCHANGED <<outcome, offered, charged, refunded>>

End(r, o) ==
  /\ outcome[r] = "open"
  /\ outcome' = [outcome EXCEPT ![r] = o]
  /\ UNCHANGED <<offered, assigned, charged, refunded>>

Charge(p, r) ==
  /\ outcome[r] = "completed"
  /\ \A c \in charged : c[1] # p /\ c[2] # r
  /\ charged' = charged \cup {<<p, r>>}
  /\ UNCHANGED <<outcome, offered, assigned, refunded>>

Refund(p, r) ==
  /\ outcome[r] = "cancelled"
  /\ \A c \in refunded : c[1] # p
  /\ refunded' = refunded \cup {<<p, r>>}
  /\ UNCHANGED <<outcome, offered, assigned, charged>>

Next ==
  \E r \in Ride :
    \/ Offer(r)
    \/ \E d \in Driver : Assign(d, r)
    \/ \E o \in {"completed", "cancelled"} : End(r, o)
    \/ \E p \in Payment : Charge(p, r) \/ Refund(p, r)

Spec == Init /\ [][Next]_vars
=============================================================================
