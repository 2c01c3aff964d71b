----------------------------- MODULE MCDelivery -----------------------------
(* Delivery for TLC: the webhooks, and the lanes, are interchangeable.      *)
EXTENDS Delivery, TLC

Symmetry == Permutations(Triggers) \cup Permutations(Lanes)
=============================================================================
