---------------------------- MODULE MCUDPSession ----------------------------
(* Constant values of the runs of UDPSession. *)
EXTENDS UDPSession

CONSTANTS r1, w1

OneReader == {r1}
OneWriter == {w1}

=============================================================================
