-------------------------------- MODULE MCKCP -------------------------------
(* Constant values of the runs of KCP. *)
EXTENDS KCP

OneWay(n) == [e \in Ends |-> IF e = "client" THEN n ELSE 0]
OneWay3 == OneWay(3)
OneWay4 == OneWay(4)
Wnd1 == [e \in Ends |-> 1]
Wnd2 == [e \in Ends |-> 2]
Cap2 == [e \in Ends |-> 2]
Cap21 == [e \in Ends |-> IF e = "client" THEN 2 ELSE 1]

=============================================================================
