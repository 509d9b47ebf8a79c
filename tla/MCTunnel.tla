------------------------------ MODULE MCTunnel ------------------------------
(* One connection: the application sends up to two bytes, the target one. *)
EXTENDS Tunnel

TwoOne == [e \in Ends |-> IF e = "client" THEN 2 ELSE 1]

=============================================================================
