-------------------------- MODULE MCDirectDispatch --------------------------
(* Instances of DirectDispatch for TLC.                                    *)
EXTENDS DirectDispatch
=============================================================================
