------------------------------ MODULE MCServer ------------------------------
(* ESServer on small instances for TLC: the configurations MCReservations,   *)
(* MCLifecycle and the ones named after what they refute use it.             *)
EXTENDS ESServer, TLC

\* Nothing in ESServer tells two users, or two passwords, apart.
Symmetry == Permutations(Users) \cup Permutations(Passwords)
=============================================================================
