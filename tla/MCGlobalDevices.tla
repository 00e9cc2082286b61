-------------------------- MODULE MCGlobalDevices --------------------------
(* Instance of GlobalDevices for TLC.                                      *)
EXTENDS GlobalDevices, TLC

CallSymmetry == Permutations(Calls)
=============================================================================
