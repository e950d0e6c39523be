-------------------------- MODULE BookingLifecycle --------------------------
(***************************************************************************)
(* What the status checks of BookingsService promise a client: each        *)
(* successful request moves one booking, at once, along one of the         *)
(* transitions below.                                                      *)
(***************************************************************************)
CONSTANT Bookings

Status == {"PENDING", "CONFIRMED", "REJECTED", "PROVIDER_EN_ROUTE",
           "PROVIDER_ARRIVED", "IN_PROGRESS", "COMPLETED", "CANCELLED"}

VARIABLE status

Transition ==
  {<<"PENDING", "CONFIRMED">>, <<"PENDING", "REJECTED">>,
   <<"PROVIDER_ARRIVED", "IN_PROGRESS">>, <<"IN_PROGRESS", "COMPLETED">>}
    \cup ((Status \ {"COMPLETED", "CANCELLED"}) \X {"CANCELLED"})
    \cup (Status \X {"PROVIDER_EN_ROUTE", "PROVIDER_ARRIVED"})

Init == status \in [Bookings -> Status]

Move(b, s) ==
  /\ <<status[b], s>> \in Transition
  /\ status' = [status EXCEPT ![b] = s]

Next == \E b \in Bookings, s \in Status : Move(b, s)

Spec == Init /\ [][Next]_status
=============================================================================
