------------------------- MODULE TrafficAccounting -------------------------
(***************************************************************************)
(* One node's traffic accounting: the data-path flows of UserFlows, the    *)
(* node monitor that retires and registers users (controller.go,           *)
(* nodeInfoMonitor) and the user monitor that drains the counters, reports *)
(* them to the panel and finalizes retired users (userInfoMonitor).  The   *)
(* two monitors and the flows run concurrently; each monitor is sequential *)
(* and runs again and again (task.Periodic).                               *)
(*                                                                         *)
(* Inbound, outbound and panel calls are choices between their outcomes;   *)
(* what they do to the inbound's credentials is the subject of NodeSync.   *)
(***************************************************************************)
EXTENDS UserFlows

CONSTANTS
  Vers,                  \* runtime identities a uid can have (uuid, password)
  DisableUploadTraffic   \* config: sampled traffic is discarded

ASSUME DisableIsBoolean == DisableUploadTraffic \in BOOLEAN

\* api.UserInfo: the fields that tell a user apart.
User == [uid : Uids, ver : Vers]
UserLists == {list \in SUBSET User : \A u, v \in list : u.uid = v.uid => u = v}
EmailOf(t, u) == <<t, u.uid>>
Emails(t, list) == {EmailOf(t, u) : u \in list}
Entries(t, list) == {<<EmailOf(t, u), u>> : u \in list}

VARIABLES
  tag,       \* Controller.Tag
  userList,  \* Controller.userList
  retiring,  \* Controller.retiringUsers: <<e-mail, user>> pairs
  lost,      \* history: e-mails of retired users whose new entry was removed
  nm,        \* node monitor: program counter
  job,       \* node monitor: the change it is carrying out
  um,        \* user monitor: program counter
  todo,      \* user monitor: counters left to drain
  retired,   \* user monitor: its snapshot of retiring
  dropped,   \* user monitor: entry whose user was just finalized
  delta,     \* user monitor: trafficDeltas
  booked,    \* history: bytes of the reports the panel acknowledged
  discarded  \* history: bytes dropped by DisableUploadTraffic

controllerVars == <<tag, userList, retiring, lost>>
nodeMonitorVars == <<nm, job>>
userMonitorVars == <<um, todo, retired, dropped, delta>>
ledgerVars == <<booked, discarded>>
vars == <<flowsVars, controllerVars, nodeMonitorVars, userMonitorVars, ledgerVars>>

NodeState == {"start", "idle", "retire", "record", "remove", "restore", "unrecordGone",
              "addTag", "register", "unrecord", "addUsers", "withdraw",
              "recordFresh", "publish"}
UserState == {"idle", "snapshot", "drainList", "drainRetired", "flush",
              "finalize", "drop"}

\* replace: the node itself changed; newTag, list: what the panel answered.
Job == [replace : BOOLEAN, newTag : Tags, list : UserLists]
NoJob(t) == [replace |-> FALSE, newTag |-> t, list |-> {}]

Zero == [k \in Counters |-> 0]

TypeOK ==
  /\ FlowsTypeOK
  /\ tag \in Tags
  /\ userList \in UserLists
  /\ retiring \subseteq Email \X User
  /\ lost \subseteq Email
  /\ nm \in NodeState
  /\ job \in Job
  /\ um \in UserState
  /\ todo \subseteq Counters
  /\ retired \subseteq Email \X User
  /\ dropped \subseteq Email \X User
  /\ delta \in [Counters -> Nat]
  /\ booked \in [Counters -> Nat]
  /\ discarded \in [Counters -> Nat]

\* Controller.Start holds the panel's first answer; no monitor is running.
Init ==
  /\ FlowsInit
  /\ tag \in Tags
  /\ userList \in UserLists
  /\ retiring = {}
  /\ lost = {}
  /\ nm = "start"
  /\ job = NoJob(tag)
  /\ um = "idle"
  /\ todo = {}
  /\ retired = {}
  /\ dropped = {}
  /\ delta = Zero
  /\ booked = Zero
  /\ discarded = Zero

-----------------------------------------------------------------------------
(* The retirement map, each operation under stateMu.                       *)

Record(t, list) ==
  /\ retiring' = {p \in retiring : p[1] \notin Emails(t, list)} \cup Entries(t, list)
  /\ lost' = lost \ Emails(t, list)

Unrecord(t, list) ==
  /\ retiring' = {p \in retiring : p[1] \notin Emails(t, list)}
  /\ lost' = lost \ Emails(t, list)

-----------------------------------------------------------------------------
(* The node monitor.                                                       *)

NodeGoto(from, to) == nm = from /\ nm' = to /\ UNCHANGED job

\* The cycle ends under tag t; its local variables are gone.
NodeReturn(from, t) == nm = from /\ nm' = "idle" /\ job' = NoJob(t)

\* The users to take away and to add: all of them when the node changed,
\* compareUserList's difference otherwise.
Gone(j) == IF j.replace THEN userList ELSE userList \ j.list
Fresh(j) == IF j.replace THEN j.list ELSE j.list \ userList

AfterRemove(j) ==
  IF j.replace THEN "addTag" ELSE IF Fresh(j) # {} THEN "register" ELSE "publish"

\* Start's addNewUser; an error there ends the process.
Start ==
  /\ NodeReturn("start", tag)
  /\ RegisterUsers(tag, Emails(tag, userList))
  /\ UNCHANGED <<controllerVars, userMonitorVars, ledgerVars>>

\* The panel answered.  A failed request ends the cycle where it began.
Fetch ==
  /\ nm = "idle"
  /\ job' \in Job
  /\ job'.replace \/ job'.newTag = tag
  /\ nm' = IF job'.replace \/ Gone(job') # {} THEN "retire" ELSE AfterRemove(job')
  /\ UNCHANGED <<flowsVars, controllerVars, userMonitorVars, ledgerVars>>

\* retireManagedUsers, dispatcher part; it returns early on an empty list.
RetireGone ==
  /\ NodeGoto("retire", "record")
  /\ \/ Gone(job) = {} /\ UNCHANGED flowsVars
     \/ Gone(job) # {} /\ RetireUsers(tag, Emails(tag, Gone(job)))
  /\ UNCHANGED <<controllerVars, userMonitorVars, ledgerVars>>

\* Mutant: the retired users are not recorded.
ForgetGone ==
  /\ NodeGoto("record", "remove")
  /\ UNCHANGED <<flowsVars, controllerVars, userMonitorVars, ledgerVars>>

\* Mutant: the entries are filed under the new tag.
RecordGoneElsewhere ==
  /\ NodeGoto("record", "remove")
  /\ Record(job.newTag, Gone(job))
  /\ UNCHANGED <<flowsVars, tag, userList, userMonitorVars, ledgerVars>>

\* retireManagedUsers, retiringUsers part.
RecordGone ==
  /\ NodeGoto("record", "remove")
  /\ Record(tag, Gone(job))
  /\ UNCHANGED <<flowsVars, tag, userList, userMonitorVars, ledgerVars>>

\* removeOldTag or removeUsers: on an error the users are restored.
RemoveGone ==
  /\ NodeGoto("remove", "restore") \/ NodeGoto("remove", AfterRemove(job))
  /\ UNCHANGED <<flowsVars, controllerVars, userMonitorVars, ledgerVars>>

RestoreGone ==
  /\ NodeGoto("restore", "unrecordGone")
  /\ RegisterUsers(tag, Emails(tag, Gone(job)))
  /\ UNCHANGED <<controllerVars, userMonitorVars, ledgerVars>>

UnrecordGone ==
  /\ NodeReturn("unrecordGone", tag)
  /\ Unrecord(tag, Gone(job))
  /\ UNCHANGED <<flowsVars, tag, userList, userMonitorVars, ledgerVars>>

\* addNewTag: on an error the cycle ends, the old users stay retired.
AddTag ==
  /\ NodeReturn("addTag", tag) \/ NodeGoto("addTag", "register")
  /\ UNCHANGED <<flowsVars, controllerVars, userMonitorVars, ledgerVars>>

\* addNewUser: registerManagedUsers, then addUsers.
RegisterFresh ==
  /\ NodeGoto("register", "unrecord")
  /\ RegisterUsers(job.newTag, Emails(job.newTag, Fresh(job)))
  /\ UNCHANGED <<controllerVars, userMonitorVars, ledgerVars>>

UnrecordFresh ==
  /\ NodeGoto("unrecord", "addUsers")
  /\ Unrecord(job.newTag, Fresh(job))
  /\ UNCHANGED <<flowsVars, tag, userList, userMonitorVars, ledgerVars>>

AddUsers ==
  /\ NodeGoto("addUsers", "publish") \/ NodeGoto("addUsers", "withdraw")
  /\ UNCHANGED <<flowsVars, controllerVars, userMonitorVars, ledgerVars>>

WithdrawFresh ==
  /\ NodeGoto("withdraw", "recordFresh")
  /\ \/ Fresh(job) = {} /\ UNCHANGED flowsVars
     \/ Fresh(job) # {} /\ RetireUsers(job.newTag, Emails(job.newTag, Fresh(job)))
  /\ UNCHANGED <<controllerVars, userMonitorVars, ledgerVars>>

\* A failed addNewUser ends the cycle of a changed node and is only logged
\* otherwise.
RecordFresh ==
  /\ \/ job.replace /\ NodeReturn("recordFresh", tag)
     \/ ~job.replace /\ NodeGoto("recordFresh", "publish")
  /\ Record(job.newTag, Fresh(job))
  /\ UNCHANGED <<flowsVars, tag, userList, userMonitorVars, ledgerVars>>

Publish ==
  /\ NodeReturn("publish", job.newTag)
  /\ tag' = job.newTag
  /\ userList' = job.list
  /\ UNCHANGED <<flowsVars, retiring, lost, userMonitorVars, ledgerVars>>

NodeMonitor ==
  \/ Start \/ Fetch \/ RetireGone \/ RecordGone \/ RemoveGone
  \/ RestoreGone \/ UnrecordGone \/ AddTag \/ RegisterFresh
  \/ UnrecordFresh \/ AddUsers \/ WithdrawFresh \/ RecordFresh \/ Publish

-----------------------------------------------------------------------------
(* The user monitor.                                                       *)

\* The first stateMu section: tag and user list.
SnapshotUsers ==
  /\ nm # "start"
  /\ um = "idle"
  /\ um' = "snapshot"
  /\ todo' = Emails(tag, userList) \X Dir
  /\ UNCHANGED <<flowsVars, controllerVars, nodeMonitorVars, retired, dropped,
                 delta, ledgerVars>>

\* The second one: retiringUserSnapshot.
SnapshotRetiring ==
  /\ um = "snapshot"
  /\ um' = "drainList"
  /\ retired' = retiring
  /\ UNCHANGED <<flowsVars, controllerVars, nodeMonitorVars, todo, dropped,
                 delta, ledgerVars>>

\* Mutant: a counter drained twice in a cycle overwrites its first delta.
DrainOver(k) ==
  /\ um \in {"drainList", "drainRetired"}
  /\ k \in todo
  /\ DrainCounter(k)
  /\ todo' = todo \ {k}
  /\ delta' = [delta EXCEPT ![k] = counter[k]]
  /\ UNCHANGED <<controllerVars, nodeMonitorVars, um, retired, dropped,
                 ledgerVars>>

\* drainTraffic, one counter at a time; a counter that is not registered
\* yields nothing.
Drain(k) ==
  /\ um \in {"drainList", "drainRetired"}
  /\ k \in todo
  /\ k[2] = "downlink" => <<k[1], "uplink">> \notin todo
  /\ DrainCounter(k)
  /\ todo' = todo \ {k}
  /\ delta' = [delta EXCEPT ![k] = @ + counter[k]]
  /\ UNCHANGED <<controllerVars, nodeMonitorVars, um, retired, dropped,
                 ledgerVars>>

\* Mutant: the retired users' counters are not drained.
DrainListedOnly ==
  /\ um = "drainList"
  /\ todo = {}
  /\ um' = "drainRetired"
  /\ UNCHANGED <<flowsVars, controllerVars, nodeMonitorVars, todo, retired, dropped,
                 delta, ledgerVars>>

\* The listed users are done, the retired ones follow.
DrainRetired ==
  /\ um = "drainList"
  /\ todo = {}
  /\ um' = "drainRetired"
  /\ todo' = {p[1] : p \in retired} \X Dir
  /\ UNCHANGED <<flowsVars, controllerVars, nodeMonitorVars, retired, dropped,
                 delta, ledgerVars>>

\* Mutant: users are finalized before the report has been made.
FinalizeFirst ==
  /\ um = "drainRetired"
  /\ todo = {}
  /\ um' = "finalize"
  /\ UNCHANGED <<flowsVars, controllerVars, nodeMonitorVars, todo, retired,
                 dropped, delta, ledgerVars>>

DrainDone ==
  /\ um = "drainRetired"
  /\ todo = {}
  /\ um' = IF delta = Zero THEN "finalize" ELSE "flush"
  /\ UNCHANGED <<flowsVars, controllerVars, nodeMonitorVars, todo, retired,
                 dropped, delta, ledgerVars>>

Plus(f, g) == [k \in Counters |-> f[k] + g[k]]

\* Mutant: the sample survives into the next cycle.
DiscardAndKeep ==
  /\ DisableUploadTraffic
  /\ um = "flush"
  /\ um' = "finalize"
  /\ discarded' = Plus(discarded, delta)
  /\ UNCHANGED <<flowsVars, controllerVars, nodeMonitorVars, todo, retired,
                 dropped, delta, booked>>

\* flushUserTraffic with uploads disabled.
Discard ==
  /\ DisableUploadTraffic
  /\ um = "flush"
  /\ um' = "finalize"
  /\ discarded' = Plus(discarded, delta)
  /\ delta' = Zero
  /\ UNCHANGED <<flowsVars, controllerVars, nodeMonitorVars, todo, retired,
                 dropped, booked>>

ReportSucceeds ==
  /\ ~DisableUploadTraffic
  /\ um = "flush"
  /\ um' = "finalize"
  /\ booked' = Plus(booked, delta)
  /\ delta' = Zero
  /\ UNCHANGED <<flowsVars, controllerVars, nodeMonitorVars, todo, retired,
                 dropped, discarded>>

\* Mutant: restored deltas survive into the next cycle.
RestoreAndKeep ==
  /\ ~DisableUploadTraffic
  /\ um = "flush"
  /\ um' = "idle"
  /\ RestoreTraffic(delta)
  /\ retired' = {}
  /\ UNCHANGED <<controllerVars, nodeMonitorVars, todo, dropped, delta, ledgerVars>>

\* ReportUserTraffic returns an error or panics, whether or not the panel
\* booked the report: the deltas go back and nothing is finalized.
ReportFails ==
  /\ ~DisableUploadTraffic
  /\ um = "flush"
  /\ um' = "idle"
  /\ RestoreTraffic(delta)
  /\ delta' = Zero
  /\ retired' = {}
  /\ UNCHANGED <<controllerVars, nodeMonitorVars, todo, dropped, ledgerVars>>

\* finalizeRetiringUsers: the dispatcher decides ...
Finalize(p) ==
  /\ um = "finalize"
  /\ p \in retired
  /\ retired' = retired \ {p}
  /\ \/ /\ FinalizeRetiredUser(p[1])
        /\ dropped' = {p}
        /\ um' = "drop"
     \/ /\ ~CanFinalize(p[1])
        /\ UNCHANGED <<flowsVars, dropped, um>>
  /\ UNCHANGED <<controllerVars, nodeMonitorVars, todo, delta, ledgerVars>>

\* ... and the entry goes, if it still is the same user's.  History: it may
\* be a new entry, of a user re-registered and retired since the decision.
Drop ==
  /\ um = "drop"
  /\ um' = "finalize"
  /\ retiring' = retiring \ dropped
  /\ lost' = lost \cup {p[1] : p \in {q \in dropped \cap retiring :
                                       q[1] \in runtime \ current}}
  /\ dropped' = {}
  /\ UNCHANGED <<flowsVars, tag, userList, nodeMonitorVars, todo, retired,
                 delta, ledgerVars>>

FinalizeDone ==
  /\ um = "finalize"
  /\ retired = {}
  /\ um' = "idle"
  /\ UNCHANGED <<flowsVars, controllerVars, nodeMonitorVars, todo, retired,
                 dropped, delta, ledgerVars>>

UserMonitor ==
  \/ SnapshotUsers \/ SnapshotRetiring \/ DrainRetired \/ DrainDone
  \/ Discard \/ ReportSucceeds \/ ReportFails \/ Drop \/ FinalizeDone
  \/ \E k \in Counters : Drain(k)
  \/ \E p \in Email \X User : Finalize(p)

monitorVars == <<controllerVars, nodeMonitorVars, userMonitorVars, ledgerVars>>

Data == (\E f \in Flows : FlowStep(f)) /\ UNCHANGED monitorVars

Next == NodeMonitor \/ UserMonitor \/ Data

Spec == Init /\ [][Next]_vars

\* task.Periodic runs each monitor again and again; an idle connection times
\* out; the panel does not refuse every report.
Fairness ==
  /\ WF_vars(NodeMonitor)
  /\ WF_vars(UserMonitor)
  /\ SF_vars(ReportSucceeds)
  /\ \A f \in Flows : WF_vars(FlowEnds(f) /\ UNCHANGED monitorVars)

FairSpec == Spec /\ Fairness

-----------------------------------------------------------------------------
(* Properties.                                                             *)

\* The user's bill: all that was counted, apart from what still waits on a
\* registered counter or in the report under way, is in exactly one report
\* the panel acknowledged or was discarded by configuration; only bytes
\* counted on a connection that was already released can be missing.
BillIsExact ==
  \A k \in Counters :
    counted[k] = booked[k] + discarded[k] + counter[k] + delta[k] + orphaned[k]

\* restoreTraffic always finds the counter it drained still registered.
DeltasAreRestorable ==
  \A k \in Counters : delta[k] > 0 => k \in registered

\* Between two node monitor cycles, traffic waiting on a counter of a managed
\* inbound belongs to a user the next report looks at.  The exception are users
\* retired anew between a finalization and the removal of its entry (Drop).
EveryCounterIsReported ==
  nm = "idle" =>
    \A k \in registered : TagOf(k[1]) \in Tags /\ counter[k] > 0 =>
      k[1] \in Emails(tag, userList) \cup {p[1] : p \in retiring} \cup lost

\* The registry and the counters are used as UserFlows prescribes: in
\* particular restoreTraffic only returns what was taken, to live counters.
RegistryIsUsedWell == FlowsSpec

\* Once the panel's answers stop changing the node, all traffic reaches the
\* panel and the dispatcher forgets every retired user, with the same
\* exception.
EventuallySettled ==
  <>[](nm \in {"idle", "publish"}) =>
    <>[](/\ runtime \subseteq current \cup lost
         /\ \A k \in Counters : TagOf(k[1]) \in Tags =>
              (counter[k] = 0 \/ k[1] \in lost) /\ delta[k] = 0)

-----------------------------------------------------------------------------
(* What the bill rests on.                                                 *)

\* The user monitor holds deltas only between draining and the report.
Sampling == {"drainList", "drainRetired", "flush"}

\* What was taken from a counter is on the bill or in the sample; a sampled
\* counter stays registered until its delta is reported or put back.
BillInv ==
  /\ um \notin Sampling => delta = Zero
  /\ \A k \in Counters :
       /\ taken[k] = booked[k] + discarded[k] + delta[k]
       /\ counted[k] <= MaxBytes
       /\ delta[k] > 0 => k \in registered

AccountingInv == FlowsInv /\ TypeOK /\ BillInv

-----------------------------------------------------------------------------
(* What the reports rest on.                                               *)

\* The users a report looks at: the listed and the retired ones; and the
\* exception.
Listed == Emails(tag, userList)
Awaited == {p[1] : p \in retiring} \cup lost

\* The users the node monitor takes away, and those addNewUser has begun to
\* add, which will be listed once the list is published.
Leaving == Emails(tag, Gone(job))
Arriving ==
  IF nm \in {"unrecord", "addUsers", "withdraw", "recordFresh", "publish"}
  THEN Emails(job.newTag, Fresh(job))
  ELSE {}

\* The leaving users have been recorded and will not be restored.
Recorded == {"remove", "addTag", "register", "unrecord", "addUsers", "withdraw",
             "recordFresh", "publish"}

\* A user of the registry is listed, awaited or arriving.  One that may open
\* connections is so without an entry in the retirement map, which the user
\* monitor may remove at any time (Drop).
ListInv ==
  /\ ~job.replace => job.newTag = tag
  /\ runtime \subseteq Listed \cup Awaited \cup Arriving
  /\ current \subseteq Listed \cup (IF nm = "recordFresh" THEN {} ELSE Arriving)
  /\ nm \in Recorded => runtime \cap Leaving \subseteq Awaited \cup Arriving
  /\ nm \in Recorded \cup {"record"} => current \cap Leaving \subseteq Arriving

ReportInv == KnownInv /\ ListInv
=============================================================================
