------------------------------- MODULE MCFEC -------------------------------
(* Constant values of the runs of FEC are plain numbers in the .cfg files. *)
EXTENDS FEC

=============================================================================
