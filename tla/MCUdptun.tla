------------------------------ MODULE MCUdptun ------------------------------
(* Constant values of the runs of Udptun. *)
EXTENDS Udptun, TLC

CONSTANTS c1, t1, t2, x1, x2, s1

OneClient == {c1}
TwoAddrs == {t1, t2}
Home == [c \in OneClient |-> t1]
TwoSockets == {x1, x2}
OneSock == {s1}
\* Every flow is idle at once: the server may forget it at any time.
AnyTime == -1
\* The sockets of ss-local are alike.
Symmetry == Permutations(TwoSockets)

=============================================================================
