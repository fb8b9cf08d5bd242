-------------------------- MODULE MCSubscriptions --------------------------
(* Instances of Subscriptions for TLC. *)
EXTENDS Subscriptions, TLC

(* No action tells sockets, accounts or callbacks apart by their names.    *)
Symmetry == Permutations(Sockets) \cup Permutations(Accounts) \cup Permutations(Callbacks)
=============================================================================
