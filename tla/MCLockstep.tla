---------------------------- MODULE MCLockstep ----------------------------
(* Lockstep with the clients accepted in the order of their players.       *)
EXTENDS Lockstep

MCAccepted == [f \in Fields |-> f]
=============================================================================
