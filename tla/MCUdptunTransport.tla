-------------------------- MODULE MCUdptunTransport --------------------------
(* Constant values of the runs of UdptunTransport. *)
EXTENDS UdptunTransport

CONSTANTS g1, g2

TwoConns == {g1, g2}

=============================================================================
