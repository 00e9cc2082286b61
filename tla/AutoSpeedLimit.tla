--------------------------- MODULE AutoSpeedLimit ---------------------------
(***************************************************************************)
(* AutoSpeedLimit: the user monitor (service/controller/controller.go)     *)
(* warns users whose traffic in a period is too high, punishes them with a *)
(* lower limit and releases them, while the node monitor follows the       *)
(* panel's limits.  Both write the limits of the limiter.                  *)
(*                                                                         *)
(* One user is modelled: the maps are keyed by the user's whole record, so *)
(* that users do not affect each other but a record the panel changed is   *)
(* another key.                                                            *)
(***************************************************************************)
EXTENDS Integers

CONSTANTS
  None,
  Recs,          \* records of the user: [cred, limit]
  WarnTimes,     \* config: warnings before the user is punished
  LimitSpeed,    \* config: the limit of a punished user
  LimitDuration, \* config: ticks a punishment lasts
  MaxTime,       \* bound: ticks
  MaxChanges     \* bound: changes at the panel

ASSUME ConfigAssumption ==
  /\ WarnTimes \in Nat /\ LimitSpeed \in Nat /\ LimitDuration \in Nat
  /\ MaxTime \in Nat /\ MaxChanges \in Nat
ASSUME NoneIsNothing == None \notin Nat /\ None \notin Recs

VARIABLES
  now,
  listed,    \* the user in controller.userList, or None
  speed,     \* SpeedLimit of the user in the limiter, or None
  limited,   \* limitedUsers: end of the punishment of each record, or None
  warned,    \* warnedUsers
  um, snap,  \* the user monitor and the user in its snapshot
  nm, next,  \* the node monitor and the record it fetched
  changes,
  streak,    \* history: samples above the limit in a row, at most WarnTimes + 1
  crossed    \* history: the panel changed the user in the middle of it all

speedVars == <<now, listed, speed, limited, warned, um, snap, nm, next, changes,
               streak, crossed>>
history == <<streak, crossed>>

Limits == {r.limit : r \in Recs}

SpeedTypeOK ==
  /\ now \in 0..MaxTime
  /\ listed \in Recs \cup {None} /\ snap \in Recs \cup {None} /\ next \in Recs \cup {None}
  /\ speed \in Limits \cup {None, LimitSpeed}
  /\ \A r \in Recs : limited[r] \in {None} \cup 0..(MaxTime + LimitDuration)
  /\ warned \in [Recs -> 0..WarnTimes]
  /\ um \in {"idle", "release", "sample", "apply"}
  /\ nm \in {"idle", "publish"}
  /\ changes \in 0..MaxChanges /\ streak \in 0..(WarnTimes + 1)
  /\ crossed \in BOOLEAN

SpeedInit ==
  /\ now = 0
  /\ listed \in Recs
  /\ speed = listed.limit
  /\ limited = [r \in Recs |-> None]
  /\ warned = [r \in Recs |-> 0]
  /\ um = "idle" /\ snap = None
  /\ nm = "idle" /\ next = None
  /\ changes = 0 /\ streak = 0 /\ crossed = FALSE

Tick ==
  /\ now < MaxTime
  /\ now' = now + 1
  /\ UNCHANGED <<listed, speed, limited, warned, um, snap, nm, next, changes, history>>

-----------------------------------------------------------------------------
(* The node monitor.                                                       *)

Pending == um # "idle" \/ \E r \in Recs : limited[r] # None \/ warned[r] > 0

\* UpdateInboundLimiter or DeleteInboundLimiterUsers ...
FollowPanel ==
  /\ nm = "idle" /\ changes < MaxChanges
  /\ next' \in (Recs \cup {None}) \ {listed}
  /\ speed' = IF next' = None THEN None ELSE next'.limit
  /\ nm' = "publish"
  /\ changes' = changes + 1
  /\ crossed' = (crossed \/ Pending)
  /\ UNCHANGED <<now, listed, limited, warned, um, snap, streak>>

\* ... and the end of the run.
PublishList ==
  /\ nm = "publish"
  /\ listed' = next
  /\ next' = None
  /\ nm' = "idle"
  /\ UNCHANGED <<now, speed, limited, warned, um, snap, changes, history>>

-----------------------------------------------------------------------------
(* The user monitor.                                                       *)

Snapshot ==
  /\ um = "idle"
  /\ snap' = listed
  /\ um' = "release"
  /\ crossed' = (crossed \/ nm # "idle")
  /\ UNCHANGED <<now, listed, speed, limited, warned, nm, next, changes, streak>>

Expired == {r \in Recs : limited[r] # None /\ now > limited[r]}

\* Mutant: the users are released with the limit they are punished with.
ReleaseSlow ==
  /\ um = "release"
  /\ limited' = [r \in Recs |-> IF r \in Expired THEN None ELSE limited[r]]
  /\ um' = "sample"
  /\ UNCHANGED <<now, listed, speed, warned, snap, nm, next, changes, history>>

\* The limit at the time of the punishment is restored; of several records
\* the last one in the order of the map.
Release ==
  /\ um = "release"
  /\ limited' = [r \in Recs |-> IF r \in Expired THEN None ELSE limited[r]]
  /\ IF Expired = {} THEN UNCHANGED speed
     ELSE \E r \in Expired : speed' = r.limit
  /\ um' = "sample"
  /\ UNCHANGED <<now, listed, warned, snap, nm, next, changes, history>>

UserMonitorDone == um' = "idle" /\ snap' = None

\* limitUser.
Limit ==
  /\ limited' = [limited EXCEPT ![snap] = now + LimitDuration]
  /\ warned' = [warned EXCEPT ![snap] = 0]
  /\ um' = "apply"
  /\ UNCHANGED snap

Min2(a, b) == IF a < b THEN a ELSE b

\* The traffic of the period is above the limit.
SampleOver ==
  /\ um = "sample" /\ snap # None
  /\ IF limited[snap] # None THEN UserMonitorDone /\ UNCHANGED <<limited, warned>>
     ELSE IF warned[snap] + 1 > WarnTimes THEN Limit
     ELSE /\ warned' = [warned EXCEPT ![snap] = @ + 1]
          /\ UserMonitorDone
          /\ UNCHANGED limited
  /\ streak' = Min2(streak + 1, WarnTimes + 1)
  /\ UNCHANGED <<now, listed, speed, nm, next, changes, crossed>>

\* Mutant: only a period without traffic ends the warnings.
SampleUnderKeeps ==
  /\ um = "sample" /\ snap # None
  /\ UserMonitorDone
  /\ streak' = 0
  /\ UNCHANGED <<now, listed, speed, limited, warned, nm, next, changes, crossed>>

\* It is not, or there is none.
SampleUnder ==
  /\ um = "sample" /\ snap # None
  /\ warned' = [warned EXCEPT ![snap] = 0]
  /\ UserMonitorDone
  /\ streak' = 0
  /\ UNCHANGED <<now, listed, speed, limited, nm, next, changes, crossed>>

\* The user is not in the snapshot.
SampleNothing ==
  /\ um = "sample" /\ snap = None
  /\ UserMonitorDone
  /\ UNCHANGED <<now, listed, speed, limited, warned, nm, next, changes, history>>

\* UpdateInboundLimiter of the punished.
Apply ==
  /\ um = "apply"
  /\ speed' = LimitSpeed
  /\ UserMonitorDone
  /\ UNCHANGED <<now, listed, limited, warned, nm, next, changes, history>>

SpeedNext ==
  \/ Tick
  \/ FollowPanel \/ PublishList
  \/ Snapshot \/ Release \/ SampleOver \/ SampleUnder \/ SampleNothing \/ Apply

SpeedSpec == SpeedInit /\ [][SpeedNext]_speedVars

-----------------------------------------------------------------------------
Quiet == um = "idle" /\ nm = "idle"

\* The limit a user is meant to have.
Policy ==
  CASE listed = None -> None
    [] listed # None /\ limited[listed] # None -> LimitSpeed
    [] OTHER -> listed.limit

(* Between runs the limiter has the punishment's limit for a user who is   *)
(* punished and the panel's for any other, provided the panel did not      *)
(* change the user while the user monitor ran or had the user on record.   *)
PolicyHolds ==
  Quiet /\ ~crossed => speed = Policy

(* Warnings count periods in a row, under the same proviso.                *)
WarnedInARow == ~crossed => \A r \in Recs : warned[r] <= streak

\* Why: while the panel does not interfere, the user monitor works on the
\* listed record, and no other record is punished or warned.
SpeedInv ==
  /\ SpeedTypeOK
  /\ limited = [r \in Recs |-> limited[r]]
  /\ ~crossed =>
       /\ \A r \in Recs : warned[r] <= streak
       /\ nm = "publish" =>
            /\ um = "idle"
            /\ \A r \in Recs : limited[r] = None /\ warned[r] = 0
            /\ speed = IF next = None THEN None ELSE next.limit
       /\ nm = "idle" => \A r \in Recs : r # listed => limited[r] = None /\ warned[r] = 0
       /\ um # "idle" => snap = listed
       /\ nm = "idle" /\ um # "apply" => speed = Policy
       /\ um = "apply" => snap # None /\ limited[snap] # None
=============================================================================
