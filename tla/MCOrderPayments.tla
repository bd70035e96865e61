-------------------------- MODULE MCOrderPayments --------------------------
(***************************************************************************)
(* Small instances of OrderPayments.                                       *)
(***************************************************************************)
EXTENDS OrderPayments, TLC

\* Handlers are alike, and so are the ids bKash issues.
Symmetry == Permutations(Actors) \cup Permutations(PaymentIDs)
=============================================================================
