---------------------------- MODULE MCSupervisor ----------------------------
(* Instances of Supervisor for TLC. *)
EXTENDS Supervisor

\* Every name has a slug of its own.
Distinct == [a \in Accounts |-> a]

\* All names have one slug, as "User 1" and "user-1".
Same == [a \in Accounts |-> 1]
=============================================================================
