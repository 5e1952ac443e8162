----------------------------- MODULE MCPayment -----------------------------
(* Instances of Payment small enough for TLC. *)
EXTENDS Payment, TLC

\* Two handlers are interchangeable: nothing orders requests.
HandlerSymmetry == Permutations(Handlers)

\* What Xendit notifies about.
AllStatuses    == Statuses
NoPending      == Statuses \ {"PENDING"}
PaidAndExpired == {"PAID", "EXPIRED"}
=============================================================================
