--------------------------- MODULE MCSpeedControl ---------------------------
(* Instance of SpeedControl for TLC: the panel lifts the user's limit,     *)
(* sets it again or deletes the user.                                      *)
EXTENDS SpeedControl

TwoLimits == [cred : {1}, limit : {0, 3}]
=============================================================================
