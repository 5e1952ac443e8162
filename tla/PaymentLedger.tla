--------------------------- MODULE PaymentLedger ---------------------------
(***************************************************************************)
(* What the payment code promises, without requests, transactions, jobs    *)
(* and failures: each shipment has a trail that starts with PENDING, and   *)
(* every change of its payment is one more row of the trail, written in    *)
(* the same step as the change.  The first payment releases the parcel to  *)
(* the couriers for good.  A paid trail goes on in one way only: the       *)
(* expiry job, which does not look again before it writes, may put EXPIRED *)
(* after it, and the payment may then be applied anew.                     *)
(***************************************************************************)
EXTENDS Naturals, Sequences

CONSTANT Shipments

VARIABLES
  trail,      \* the history rows of each shipment, oldest first
  released    \* may couriers take the parcel

Newest(s) == trail[s][Len(trail[s])]

Open(s) ==
  /\ trail[s] = <<>>
  /\ trail' = [trail EXCEPT ![s] = <<"PENDING">>]
  /\ UNCHANGED released

Unpaid(s) == trail[s] # <<>> /\ Newest(s) # "READY_TO_PICKUP"

Pay(s) ==
  /\ Unpaid(s)
  /\ trail' = [trail EXCEPT ![s] = Append(@, "READY_TO_PICKUP")]
  /\ released' = [released EXCEPT ![s] = TRUE]

Fail(s) ==
  /\ Unpaid(s)
  /\ trail' = [trail EXCEPT ![s] = Append(@, "FAILED")]
  /\ UNCHANGED released

\* Also of a paid trail: the overwrite by the expiry job.
Expire(s) ==
  /\ trail[s] # <<>>
  /\ trail' = [trail EXCEPT ![s] = Append(@, "EXPIRED")]
  /\ UNCHANGED released

Init ==
  /\ trail = [s \in Shipments |-> <<>>]
  /\ released = [s \in Shipments |-> FALSE]

Next == \E s \in Shipments : Open(s) \/ Pay(s) \/ Fail(s) \/ Expire(s)

Spec == Init /\ [][Next]_<<trail, released>>
=============================================================================
