--------------------------- MODULE MCUdptunServer ---------------------------
(* Constant values of the runs of UdptunServer. *)
EXTENDS UdptunServer

CONSTANTS t1, a1, nobody, s1, s2

OneClient == {t1}
OneAsker == {a1}
TwoSocks == {s1, s2}

=============================================================================
