------------------------------ MODULE MCRawTCP ------------------------------
(* Constant values of the runs of RawTCP. *)
EXTENDS RawTCP

CONSTANTS p1, p2, h1

TwoPeers == {p1, p2}
OneHandle == {h1}

=============================================================================
