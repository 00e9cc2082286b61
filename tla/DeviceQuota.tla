---------------------------- MODULE DeviceQuota ----------------------------
(***************************************************************************)
(* How the SSPanel client (api/sspanel/sspanel.go) shares a user's device  *)
(* limit with the other nodes of the panel.  The panel counts the devices  *)
(* its nodes report; the client adds back those this node reported itself  *)
(* (LastReportOnline), hands the rest over as the limit of this node, and  *)
(* leaves out a user for whom nothing remains.                             *)
(*                                                                         *)
(* One user.  The node monitor fetches the list, the user monitor reports  *)
(* the online devices; APIClient.access guards the log, not the request.   *)
(***************************************************************************)
EXTENDS Integers

CONSTANTS
  Nil,
  Dropped,       \* the user is not on the list handed over
  DeviceLimits,  \* device limits: of the user, and configured for the node
  MaxDevices     \* bound: devices of the user at a node

ASSUME LimitsAreNat == DeviceLimits \subseteq Nat /\ DeviceLimits # {}
ASSUME DevicesNat == MaxDevices \in Nat
ASSUME DroppedIsNoLimit == Dropped \notin Nat \cup {Nil}

Devices == 0 .. MaxDevices

VARIABLES
  override,  \* configured: APIClient.DeviceLimit, or 0
  limit,     \* the panel: UserResponse.DeviceLimit
  ours,      \* the panel: devices it counts for this node
  other,     \* the panel: devices it counts for the other nodes
  log,       \* LastReportOnline of the user
  posting,   \* devices in the report being sent, access held, or Nil
  response,  \* the list fetched and not yet parsed, or Nil
  served,    \* what the last fetch handed over: a limit, Dropped, or Nil
  online,    \* devices the limiter has seen since the last report
  inStep,    \* history: the panel counts for this node what log says
  fresh,     \* history: log was written since it was cleared
  verdict    \* history: what the last fetch was decided on, or Nil

panelVars == <<limit, ours, other>>
quotaVars == <<override, panelVars, log, posting, response, served, online,
               inStep, fresh, verdict>>

Response == [limit : DeviceLimits, other : Devices, ours : Devices,
             sound : BOOLEAN]
Answer(l, n, m, s) == [limit |-> l, other |-> n, ours |-> m, sound |-> s]
Verdict == [limit : DeviceLimits, other : Devices, ours : Devices,
            sound : BOOLEAN, fresh : BOOLEAN]

QuotaTypeOK ==
  /\ override \in DeviceLimits /\ limit \in DeviceLimits
  /\ ours \in Devices /\ other \in Devices /\ log \in Devices
  /\ posting \in Devices \cup {Nil}
  /\ response \in Response \cup {Nil}
  /\ served \in Nat \cup {Dropped, Nil}
  /\ online \in Devices
  /\ inStep \in BOOLEAN /\ fresh \in BOOLEAN
  /\ verdict \in Verdict \cup {Nil}

QuotaInit ==
  /\ override \in DeviceLimits /\ limit \in DeviceLimits
  /\ ours = 0 /\ other \in Devices
  /\ log = 0 /\ posting = Nil /\ response = Nil
  /\ served = Nil /\ online = 0
  /\ inStep = TRUE /\ fresh = FALSE /\ verdict = Nil

-----------------------------------------------------------------------------
(* The panel.                                                              *)

\* Another node reports, or the user's plan changes.
CountChanges ==
  /\ \/ other' \in Devices \ {other} /\ UNCHANGED limit
     \/ limit' \in DeviceLimits \ {limit} /\ UNCHANGED other
  /\ UNCHANGED <<override, ours, log, posting, response, served, online,
                 inStep, fresh, verdict>>

\* The devices of a report count for some time only.
PanelForgets ==
  /\ ours > 0
  /\ ours' = 0
  /\ inStep' = FALSE
  /\ UNCHANGED <<override, limit, other, log, posting, response, served,
                 online, fresh, verdict>>

-----------------------------------------------------------------------------
(* The node: a device connects within the limit handed over; 0 is none.    *)

Connect ==
  /\ served \notin {Nil, Dropped}
  /\ online < MaxDevices
  /\ served > 0 => online < served
  /\ online' = online + 1
  /\ UNCHANGED <<override, panelVars, log, posting, response, served, inStep,
                 fresh, verdict>>

\* ReportNodeOnlineUsers: the log is written before the request.  A report
\* without devices of this user is one for the devices of others.
Report ==
  /\ posting = Nil
  /\ posting' = online
  /\ log' = online
  /\ online' = 0
  /\ inStep' = FALSE /\ fresh' = TRUE
  /\ response' = IF response = Nil THEN Nil
                 ELSE Answer(response.limit, response.other, response.ours, FALSE)
  /\ UNCHANGED <<override, panelVars, served, verdict>>

\* The request arrives, or it fails: the log stays.
ReportSent ==
  /\ posting # Nil
  /\ \/ ours' = posting /\ inStep' = TRUE
     \/ UNCHANGED <<ours, inStep>>
  /\ posting' = Nil
  /\ UNCHANGED <<override, limit, other, log, response, served, online, fresh,
                 verdict>>

-----------------------------------------------------------------------------
(* GetUserList.                                                            *)

\* The panel answers; AliveIP is response.other + response.ours.
Fetch ==
  /\ response = Nil
  /\ response' = Answer(limit, other, ours, inStep)
  /\ UNCHANGED <<override, panelVars, log, posting, served, online, inStep,
                 fresh, verdict>>

\* The device limit that applies.
deviceLimit == IF override > 0 THEN override ELSE response.limit

\* Mutant: the devices this node reported itself are not added back.
LocalLimitAlone(aliveIP, lastOnline) ==
  IF deviceLimit > 0 /\ aliveIP > 0
    THEN IF deviceLimit - aliveIP > 0 THEN deviceLimit - aliveIP ELSE Dropped
    ELSE deviceLimit

\* What remains for this node, or the devices it already has.
LocalLimit(aliveIP, lastOnline) ==
  LET localDeviceLimit == deviceLimit - aliveIP + lastOnline
  IN  IF deviceLimit > 0 /\ aliveIP > 0
        THEN IF localDeviceLimit > 0 THEN localDeviceLimit
             ELSE IF lastOnline > 0 THEN lastOnline
             ELSE Dropped
        ELSE deviceLimit

\* The controller takes the list over; the devices of a dropped user are
\* forgotten with it.
HandOver(l) ==
  /\ served' = l
  /\ online' = IF l = Dropped THEN 0 ELSE online
  /\ verdict' = [limit |-> deviceLimit, other |-> response.other,
                 ours |-> response.ours, sound |-> response.sound,
                 fresh |-> fresh]
  /\ response' = Nil

\* Mutant: the log is not cleared.
ParseKeepsLog ==
  /\ response # Nil /\ posting = Nil
  /\ HandOver(LocalLimit(response.other + response.ours, log))
  /\ fresh' = FALSE /\ inStep' = FALSE
  /\ UNCHANGED <<override, panelVars, log, posting>>

\* ParseUserListResponse, under access.
Parse ==
  /\ response # Nil /\ posting = Nil
  /\ HandOver(LocalLimit(response.other + response.ours, log))
  /\ log' = 0
  /\ fresh' = FALSE /\ inStep' = FALSE
  /\ UNCHANGED <<override, panelVars, posting>>

\* A failed request.
ListFails ==
  /\ response # Nil
  /\ response' = Nil
  /\ UNCHANGED <<override, panelVars, log, posting, served, online, inStep,
                 fresh, verdict>>

\* The process is started again: the panel still counts its devices.
Restart ==
  /\ log' = 0 /\ posting' = Nil /\ response' = Nil
  /\ served' = Nil /\ online' = 0
  /\ inStep' = FALSE /\ fresh' = FALSE /\ verdict' = Nil
  /\ UNCHANGED <<override, panelVars>>

-----------------------------------------------------------------------------
QuotaNext ==
  \/ CountChanges \/ PanelForgets
  \/ Connect \/ Report \/ ReportSent
  \/ Fetch \/ Parse \/ ListFails
  \/ Restart

QuotaSpec == QuotaInit /\ [][QuotaNext]_quotaVars

-----------------------------------------------------------------------------
(* A user is left out only when the devices at the other nodes fill the    *)
(* limit, or when the panel counts devices of this node that the client no *)
(* longer knows to be its own: the list was fetched twice without a report *)
(* in between, was overtaken by one, or the report or the process failed.  *)
EvictedOnlyWhenFull ==
  served = Dropped =>
    \/ verdict.other >= verdict.limit
    \/ verdict.ours > 0 /\ ~verdict.sound

(* A limited user is never handed over without limit.  What this node may  *)
(* hold and what the panel counts elsewhere stay within the limit, or the  *)
(* node keeps what it had: devices are credited only against a report made *)
(* since the list before, and no more of them than the panel counted when  *)
(* it got that report.                                                     *)
QuotaWithinLimit ==
  served \notin {Nil, Dropped} /\ verdict.limit > 0 =>
    /\ served > 0
    /\ ~verdict.fresh => served <= verdict.limit - verdict.other
    /\ verdict.sound => \/ served <= verdict.limit - verdict.other
                        \/ served <= verdict.ours

(* The inductive invariant.  A report in flight is the one in the log;     *)
(* nothing is in the log that was not written since it was cleared; and    *)
(* what the panel counts for this node, now or in the list being parsed,   *)
(* is what the log says as long as the two are in step.                    *)
QuotaInv ==
  /\ QuotaTypeOK
  /\ posting # Nil => posting = log /\ ~inStep
  /\ ~fresh => log = 0
  /\ inStep => ours = log
  /\ response # Nil => (response.sound => response.ours = log)
  /\ EvictedOnlyWhenFull
  /\ QuotaWithinLimit
=============================================================================
