----------------------------- MODULE MCClientMux ----------------------------
(* Constant values of the runs of ClientMux. *)
EXTENDS ClientMux

CONSTANTS c1, c2, c3

ThreeConns == {c1, c2, c3}

=============================================================================
