--------------------------- MODULE SubscriptionMC ---------------------------
(* Commands on one subscription for TLC. *)
EXTENDS Subscription, TLC

Symmetry == Permutations(Call)
=============================================================================
