---------------------------- MODULE SpeedControl ----------------------------
(***************************************************************************)
(* AutoSpeedLimit and RateWait together: the limits the two monitors write *)
(* to the limiter, and the transfers of the user's open connections, which *)
(* wait for tokens of the bucket they got when they were dialled.          *)
(*                                                                         *)
(* UpdateInboundLimiter reaches that bucket only as long as the limiter's  *)
(* BucketHub holds it.  A limit of 0 removes it, and so do the deletion of *)
(* the user and a report of the online devices that finds no connection    *)
(* newer than the report before (GetOnlineDevice, at the end of the user   *)
(* monitor's run); the connections keep the bucket and its last limit.     *)
(***************************************************************************)
EXTENDS AutoSpeedLimit, RateWait

VARIABLE inHub  \* BucketHub still holds the bucket of the open connections

controlVars == <<speedVars, rateVars, inHub>>

\* The connections were dialled under the limit the panel listed first.
ControlInit ==
  /\ SpeedInit /\ RateInit
  /\ burst = speed
  /\ inHub = TRUE

\* Mutant: an update stores the user's limit and leaves the bucket alone.
BucketIgnores == UNCHANGED rateVars /\ inHub' = inHub

\* UpdateInboundLimiter and DeleteInboundLimiterUsers on the bucket.
BucketFollows ==
  IF inHub /\ speed' \in Bursts
    THEN SetBurst(speed') /\ inHub' = inHub
    ELSE UNCHANGED rateVars /\ inHub' = FALSE

\* The sweep of GetOnlineDevice, which ends the user monitor's run.
Sweeps == um # "idle" /\ um' = "idle" /\ inHub' = FALSE /\ UNCHANGED rateVars

Control ==
  /\ SpeedNext
  /\ \/ speed' # speed /\ BucketFollows
     \/ speed' = speed /\ UNCHANGED <<rateVars, inHub>>
     \/ speed' = speed /\ Sweeps

Answered(w) == (Granted(w) \/ Exceeds(w)) /\ UNCHANGED <<speedVars, inHub>>

Transfer ==
  /\ \/ \E w \in Writers, n \in 0..MaxLen : Begin(w, n)
     \/ \E w \in Writers : Granted(w) \/ Exceeds(w) \/ Cancel(w) \/ Return(w)
  /\ UNCHANGED <<speedVars, inHub>>

ControlNext == Control \/ Transfer

\* The bucket refills: a transfer that waits gets its answer.
ControlFairness == \A w \in Writers : WF_controlVars(Answered(w))

ControlSpec == ControlInit /\ [][ControlNext]_controlVars /\ ControlFairness

-----------------------------------------------------------------------------
(* Between the monitors' runs the limiter has the punishment's limit for a *)
(* user who is punished and the panel's for any other, and so has the      *)
(* bucket open connections pay from while the hub holds it: a punishment,  *)
(* its end and a new limit reach transfers under way.  Not claimed after   *)
(* the panel changed the user while the user monitor ran or had the user   *)
(* on record (crossed).                                                    *)
PolicyReachesTransfers ==
  /\ PolicyHolds
  /\ Quiet /\ ~crossed /\ inHub => burst = speed

ControlInv == SpeedInv /\ RateInv /\ (inHub => burst = speed)
=============================================================================
