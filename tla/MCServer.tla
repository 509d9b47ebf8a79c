------------------------------ MODULE MCServer ------------------------------
(* Constant values of the run of Server. *)
EXTENDS Server

CONSTANTS a1, a2

TwoAddrs == {a1, a2}
TheSessions == 1..MaxSess

=============================================================================
