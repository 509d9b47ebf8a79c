----------------------------- MODULE ByteStream -----------------------------
(***************************************************************************)
(* What a UDPSession promises to the layer above (smux, or a copy loop):   *)
(* a pair of byte streams.  Write appends bytes to the writer's stream,    *)
(* Read returns the next bytes of the other end's stream, in order, once   *)
(* each, never one that was not written.  Nothing is said of packets.      *)
(***************************************************************************)
EXTENDS Integers, Sequences

CONSTANT MaxBytes   \* bound: bytes each end writes in all

VARIABLES
    written,    \* bytes each end has written; byte i of a stream is i
    rstream     \* what each end has read

Ends == {"client", "server"}

Other(e) == IF e = "client" THEN "server" ELSE "client"

Init ==
    /\ written = [e \in Ends |-> 0]
    /\ rstream = [e \in Ends |-> <<>>]

Write(e) ==
    \E n \in (written[e] + 1)..MaxBytes[e] :
        /\ written' = [written EXCEPT ![e] = n]
        /\ UNCHANGED rstream

Read(e) ==
    \E n \in 1..(written[Other(e)] - Len(rstream[e])) :
        /\ rstream' = [rstream EXCEPT ![e] =
                          rstream[e] \o [i \in 1..n |-> Len(rstream[e]) + i]]
        /\ UNCHANGED written

Next == \E e \in Ends : Write(e) \/ Read(e)

Spec == Init /\ [][Next]_<<written, rstream>>

=============================================================================
