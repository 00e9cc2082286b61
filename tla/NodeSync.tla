------------------------------ MODULE NodeSync ------------------------------
(***************************************************************************)
(* How a node follows the panel: Controller.Start and nodeInfoMonitor      *)
(* (service/controller/controller.go) fetch the node and its users with    *)
(* the client of a panel and bring the inbound of xray-core, the limiter   *)
(* and the registry of managed users in line.                              *)
(*                                                                         *)
(* The clients (api/) differ in what they remember:                        *)
(*   v2board    a validator, published together with the list              *)
(*   v2boardSS  the same; the node info comes with the list                *)
(*   newV2board a validator, stored before the response is looked at       *)
(*   plain      nothing: SSPanel, PMPanel, ProxyPanel and V2RaySocks       *)
(*   sspanelSS  nothing; the node info is taken from one of the users      *)
(*                                                                         *)
(* Panel and core are seen as the code uses them.  The user monitor, which *)
(* changes none of this, and the traffic of retired users are in           *)
(* TrafficAccounting, the rules in RuleManager.                            *)
(***************************************************************************)
EXTENDS Integers

CONSTANTS
  None,
  Nodes,       \* node infos: [tag, net], net standing for all but the tag
  UserLists,   \* user lists: sets of [uid, cred, limit], one per uid
  Kinds,       \* kinds of client to consider
  MaxChanges,  \* bound: changes at the panel
  MaxFails,    \* bound: failed requests
  MaxFaults    \* bound: core operations that fail

ASSUME KindsAreKnown ==
  Kinds \subseteq {"v2board", "v2boardSS", "newV2board", "plain", "sspanelSS"}
ASSUME OneRecordPerUser ==
  \A list \in UserLists : \A u, v \in list :
    /\ u = [uid |-> u.uid, cred |-> u.cred, limit |-> u.limit]
    /\ u.uid = v.uid => u = v
ASSUME BoundsAreNat == MaxChanges \in Nat /\ MaxFails \in Nat /\ MaxFaults \in Nat

Tags == {n.tag : n \in Nodes}
Users == UNION UserLists
Page == [node : Nodes, users : UserLists]
Cred(u) == [uid |-> u.uid, cred |-> u.cred]
Creds(list) == {Cred(u) : u \in list}
Emails(t, list) == {<<t, u.uid>> : u \in list}

VARIABLES
  kind,      \* configured: the client
  panel,     \* what the panel has
  etag,      \* client.userETag or eTag, as the page it stands for, or None
  last,      \* page of the list handed over last (client.lastUserList), or None
  pending,   \* client.ssPending
  ssNode,    \* client.lastSSNodeInfo
  node,      \* controller.nodeInfo and Tag
  users,     \* controller.userList
  inbound,   \* inbound handler of each tag: its settings and credentials, or None
  outbound,  \* tags with an outbound handler
  limiter,   \* users the limiter knows for each tag, or None
  managed,   \* emails registered with the dispatcher and not retired
  pc,        \* where Start or the node monitor is
  job,       \* what it fetched
  changes, fails, faults

clientVars == <<etag, last, pending, ssNode>>
ctlVars == <<node, users>>
coreVars == <<inbound, outbound, limiter, managed>>
bounds == <<changes, fails, faults>>
syncVars == <<kind, panel, clientVars, ctlVars, coreVars, pc, job, bounds>>

Handler == [net : {n.net : n \in Nodes}, creds : SUBSET Creds(Users), up : BOOLEAN]
ASSUME NoneIsNothing == None \notin Handler /\ \A known \in SUBSET Users : known # None
Job == [node : Nodes, users : UserLists, usersChanged : BOOLEAN]

Places == {"start", "startUsers", "idle", "users", "remove", "add", "addAll",
           "addLimiter", "delete", "addNew", "limits", "publish"}

SyncTypeOK ==
  /\ kind \in Kinds
  /\ panel \in Page
  /\ etag \in Page \cup {None} /\ last \in Page \cup {None}
  /\ pending # None => pending.users \in UserLists /\ pending.unchanged \in BOOLEAN
  /\ ssNode \in Nodes \cup {None} /\ node \in Nodes \cup {None}
  /\ users \in UserLists
  /\ \A t \in Tags : inbound[t] = None \/ inbound[t] \in Handler
  /\ outbound \subseteq Tags
  /\ \A t \in Tags : limiter[t] = None \/ limiter[t] \subseteq Users
  /\ managed \subseteq UNION {Emails(t, Users) : t \in Tags}
  /\ pc \in Places
  /\ job = None \/ job \in Job
  /\ changes \in 0..MaxChanges /\ fails \in 0..MaxFails /\ faults \in 0..MaxFaults

Nothing == [t \in Tags |-> None]

SyncInit ==
  /\ kind \in Kinds
  /\ panel \in Page
  /\ etag = None /\ last = None /\ pending = None /\ ssNode = None
  /\ node = None /\ users = {}
  /\ inbound = Nothing /\ outbound = {} /\ limiter = Nothing /\ managed = {}
  /\ pc = "start" /\ job = None
  /\ changes = 0 /\ fails = 0 /\ faults = 0

PanelChanges ==
  /\ changes < MaxChanges
  /\ panel' \in Page \ {panel}
  /\ changes' = changes + 1
  /\ UNCHANGED <<kind, clientVars, ctlVars, coreVars, pc, job, fails, faults>>

-----------------------------------------------------------------------------
(* The client.                                                             *)

\* The node info is part of the response that brings the users.
shared == kind = "v2boardSS"

\* The node info is found in the users: an empty list has none.
NodeInUsers == kind \in {"v2boardSS", "sspanelSS"}

\* A request or the parsing of its response fails.
RequestFails ==
  /\ fails < MaxFails
  /\ fails' = fails + 1

\* 304: the panel's page is the one the validator stands for.  The node is
\* part of a user list through the records of its users.
NotModified ==
  /\ etag # None
  /\ etag.users = panel.users
  /\ shared /\ panel.users # {} => etag.node = panel.node

\* fetchUserListLocked publishes list and validator together; a response
\* without an ETag clears the validator.
FetchUserListLocked ==
  IF NotModified
    THEN UNCHANGED <<etag, last>>
    ELSE etag' \in {panel, None} /\ last' = panel

\* GetNodeInfo of a Shadowsocks node: the users are fetched and kept for
\* GetUserList; the node info of an empty list is the one seen last.
SSNodeInfo(n) ==
  /\ FetchUserListLocked
  /\ n = IF last'.users # {} THEN last'.node ELSE ssNode
  /\ n # None
  /\ ssNode' = n
  /\ pending' = [users |-> last'.users, unchanged |-> NotModified]

\* SSPanel's Shadowsocks node: port and cipher are those of one of the users.
MultiUserNodeInfo(n) ==
  /\ panel.users # {}
  /\ n = panel.node
  /\ UNCHANGED clientVars

\* A request of its own, of which the client remembers nothing.
OwnNodeInfo(n) ==
  /\ n = panel.node
  /\ UNCHANGED clientVars

GetNodeInfo(n) ==
  CASE kind = "v2boardSS" -> SSNodeInfo(n)
    [] kind = "sspanelSS" -> MultiUserNodeInfo(n)
    [] OTHER              -> OwnNodeInfo(n)

\* GetUserList of a Shadowsocks node: the list that GetNodeInfo has fetched.
TakePending(list, unchanged) ==
  /\ list = pending.users /\ unchanged = pending.unchanged
  /\ pending' = None
  /\ UNCHANGED <<etag, last, ssNode, fails>>

\* "users no change" included.
CachedUserList(list, unchanged) ==
  /\ FetchUserListLocked
  /\ list = last'.users /\ unchanged = NotModified
  /\ UNCHANGED <<pending, ssNode, fails>>

\* A validator is stored when the response has one and is never cleared; a
\* response without users is an empty list.
NewV2boardUserList(list, unchanged) ==
  /\ unchanged = NotModified
  /\ IF NotModified
       THEN list = last.users /\ UNCHANGED <<etag, last, fails>>
       ELSE /\ etag' \in {panel, etag}
            /\ \/ last' = panel /\ UNCHANGED fails
               \/ last' = [node |-> panel.node, users |-> {}] /\ RequestFails
            /\ list = last'.users
  /\ UNCHANGED <<pending, ssNode>>

\* The whole list, every time.
WholeUserList(list, unchanged) ==
  /\ list = panel.users /\ ~unchanged
  /\ last' = panel
  /\ UNCHANGED <<etag, pending, ssNode, fails>>

GetUserList(list, unchanged) ==
  CASE kind = "v2boardSS"  -> TakePending(list, unchanged)
    [] kind = "v2board"    -> CachedUserList(list, unchanged)
    [] kind = "newV2board" -> NewV2boardUserList(list, unchanged)
    [] OTHER               -> WholeUserList(list, unchanged)

-----------------------------------------------------------------------------
(* Controller.Start.                                                       *)

Listening(n) == [net |-> n.net, creds |-> {}, up |-> TRUE]
WithCreds(h, cs) == [net |-> h.net, creds |-> cs, up |-> h.up]

StartNode ==
  /\ pc = "start"
  /\ \E n \in Nodes :
       /\ GetNodeInfo(n)
       /\ node' = n
       /\ inbound' = [inbound EXCEPT ![n.tag] = Listening(n)]
       /\ outbound' = {n.tag}
  /\ pc' = "startUsers"
  /\ UNCHANGED <<kind, panel, users, limiter, managed, job, bounds>>

StartUsers ==
  /\ pc = "startUsers"
  /\ \E list \in UserLists :
       /\ GetUserList(list, FALSE)
       /\ users' = list
       /\ managed' = Emails(node.tag, list)
       /\ inbound' = [inbound EXCEPT ![node.tag] = WithCreds(@, Creds(list))]
       /\ limiter' = [limiter EXCEPT ![node.tag] = list]
  /\ pc' = "idle"
  /\ UNCHANGED <<kind, panel, node, outbound, job, changes, faults>>

\* An error of Start ends the process; it is started again.  A Shadowsocks
\* node that never had users is one.
StartFails ==
  /\ pc \in {"start", "startUsers"}
  /\ \/ RequestFails
     \/ pc = "start" /\ NodeInUsers /\ panel.users = {} /\ UNCHANGED fails
  /\ etag' = None /\ last' = None /\ pending' = None /\ ssNode' = None
  /\ node' = None /\ users' = {}
  /\ inbound' = Nothing /\ outbound' = {} /\ limiter' = Nothing /\ managed' = {}
  /\ pc' = "start"
  /\ UNCHANGED <<kind, panel, job, changes, faults>>

-----------------------------------------------------------------------------
(* nodeInfoMonitor: the fetches.                                           *)

MonitorNode ==
  /\ pc = "idle"
  /\ \E n \in Nodes :
       /\ GetNodeInfo(n)
       /\ job' = [node |-> n, users |-> users, usersChanged |-> FALSE]
  /\ pc' = "users"
  /\ UNCHANGED <<kind, panel, ctlVars, coreVars, bounds>>

AfterFetch(j) == IF j.node # node THEN "remove" ELSE "delete"

MonitorUsers ==
  /\ pc = "users"
  /\ \E list \in UserLists, unchanged \in BOOLEAN :
       /\ GetUserList(list, unchanged)
       /\ job' = IF unchanged THEN job
                 ELSE [node |-> job.node, users |-> list, usersChanged |-> TRUE]
  /\ pc' = AfterFetch(job)
  /\ UNCHANGED <<kind, panel, ctlVars, coreVars, changes, faults>>

Return == pc' = "idle" /\ job' = None

\* Mutant: the validator is published before the response is parsed.
FetchFailsLate ==
  /\ pc \in {"idle", "users"}
  /\ pc = "users" => ~shared
  /\ RequestFails
  /\ Return
  /\ etag' = panel
  /\ UNCHANGED <<kind, panel, last, pending, ssNode, ctlVars,
                 coreVars, changes, faults>>

\* newV2board has stored the validator of a response it then refuses.
FetchFails ==
  /\ pc \in {"idle", "users"}
  /\ pc = "users" => ~shared
  /\ RequestFails
  /\ Return
  /\ \/ UNCHANGED etag
     \/ kind = "newV2board" /\ pc = "users" /\ etag' = panel
  /\ UNCHANGED <<kind, panel, last, pending, ssNode, ctlVars, coreVars,
                 changes, faults>>

\* SSPanel finds no user to take the node info from: the run ends, the users
\* stay.
NoMultiUser ==
  /\ pc = "idle"
  /\ kind = "sspanelSS" /\ panel.users = {}
  /\ Return
  /\ UNCHANGED <<kind, panel, clientVars, ctlVars, coreVars, bounds>>

-----------------------------------------------------------------------------
(* nodeInfoMonitor: the node changed.                                      *)

Fault ==
  /\ faults < MaxFaults
  /\ faults' = faults + 1
  /\ UNCHANGED <<changes, fails>>

Step == UNCHANGED <<kind, panel, clientVars, ctlVars, job>>
Abort == UNCHANGED <<kind, panel, clientVars, ctlVars>>

\* Mutant: an error of removeOldTag does not end the run.
RemoveRegardless ==
  /\ pc = "remove"
  /\ inbound' = [inbound EXCEPT ![node.tag] = None]
  /\ outbound' = outbound \ {node.tag}
  /\ managed' = managed \ Emails(node.tag, users)
  /\ pc' = "add"
  /\ Step
  /\ UNCHANGED <<limiter, bounds>>

RemoveOldTag ==
  /\ pc = "remove"
  /\ inbound[node.tag] # None
  /\ inbound' = [inbound EXCEPT ![node.tag] = None]
  /\ outbound' = outbound \ {node.tag}
  /\ managed' = managed \ Emails(node.tag, users)
  /\ pc' = "add"
  /\ Step
  /\ UNCHANGED <<limiter, bounds>>

\* There is no such handler: the users are restored and the run ends.
RemoveOldTagFails ==
  /\ pc = "remove"
  /\ inbound[node.tag] = None
  /\ managed' = managed \cup Emails(node.tag, users)
  /\ Return
  /\ Abort
  /\ UNCHANGED <<inbound, outbound, limiter, bounds>>

\* addNewTag, then the limiter of the old tag is deleted.
AddNewTag ==
  LET t == job.node.tag
  IN  /\ pc = "add"
      /\ inbound[t] = None
      /\ inbound' = [inbound EXCEPT ![t] = Listening(job.node)]
      /\ outbound' = outbound \cup {t}
      /\ limiter' = [limiter EXCEPT ![node.tag] = None]
      /\ pc' = "addAll"
      /\ Step
      /\ UNCHANGED <<managed, bounds>>

\* The tag exists, or a fault: the settings are refused, or the handler is
\* registered but cannot listen.
AddNewTagFails ==
  LET t == job.node.tag
  IN  /\ pc = "add"
      /\ \/ inbound[t] # None /\ UNCHANGED <<inbound, bounds>>
         \/ /\ inbound[t] = None
            /\ Fault
            /\ \/ UNCHANGED inbound
               \/ inbound' = [inbound EXCEPT ![t] =
                    [net |-> job.node.net, creds |-> {}, up |-> FALSE]]
      /\ Return
      /\ Abort
      /\ UNCHANGED <<outbound, limiter, managed>>

AddAllUsers ==
  LET t == job.node.tag
  IN  /\ pc = "addAll"
      /\ inbound' = [inbound EXCEPT ![t] = WithCreds(@, Creds(job.users))]
      /\ managed' = managed \cup Emails(t, job.users)
      /\ pc' = "addLimiter"
      /\ Step
      /\ UNCHANGED <<outbound, limiter, bounds>>

\* addUsers stops at the first user the core refuses.
AddAllUsersFails ==
  LET t == job.node.tag
  IN  /\ pc = "addAll"
      /\ Fault
      /\ \E some \in SUBSET job.users :
           /\ some # job.users
           /\ inbound' = [inbound EXCEPT ![t] = WithCreds(@, Creds(some))]
      /\ managed' = managed \ Emails(t, job.users)
      /\ Return
      /\ Abort
      /\ UNCHANGED <<outbound, limiter>>

\* Mutant: the limiter is told the users fetched before.
AddOldLimiter ==
  /\ pc = "addLimiter"
  /\ limiter' = [limiter EXCEPT ![job.node.tag] = users]
  /\ pc' = "publish"
  /\ Step
  /\ UNCHANGED <<inbound, outbound, managed, bounds>>

AddInboundLimiter ==
  /\ pc = "addLimiter"
  /\ limiter' = [limiter EXCEPT ![job.node.tag] = job.users]
  /\ pc' = "publish"
  /\ Step
  /\ UNCHANGED <<inbound, outbound, managed, bounds>>

-----------------------------------------------------------------------------
(* nodeInfoMonitor: the node is the same.                                  *)

\* Mutant: a changed credential is not a change of the runtime user.
SameUid(u, v) == u.uid = v.uid

SameRuntimeUser(u, v) == u.uid = v.uid /\ u.cred = v.cred

\* compareUserList.
Deleted(old, new) == {u \in old : ~\E v \in new : SameRuntimeUser(u, v)}
Added(old, new) == {v \in new : ~\E u \in old : SameRuntimeUser(u, v)}
LimitUpdated(old, new) ==
  {v \in new : \E u \in old : SameRuntimeUser(u, v) /\ u.limit # v.limit}

Gone == IF job.usersChanged THEN Deleted(users, job.users) ELSE {}
New == IF job.usersChanged THEN Added(users, job.users) ELSE {}
Relimited == IF job.usersChanged THEN LimitUpdated(users, job.users) ELSE {}

Serves(t, list) == inbound[t] # None /\ Creds(list) \subseteq inbound[t].creds

DeleteUsers ==
  LET t == node.tag
  IN  /\ pc = "delete"
      /\ Gone = {} \/ Serves(t, Gone)
      /\ inbound' = IF Gone = {} THEN inbound
                    ELSE [inbound EXCEPT ![t] = WithCreds(@, @.creds \ Creds(Gone))]
      /\ managed' = managed \ Emails(t, Gone)
      /\ limiter' = IF limiter[t] = None THEN limiter
                    ELSE [limiter EXCEPT ![t] = {u \in @ : <<t, u.uid>> \notin Emails(t, Gone)}]
      /\ pc' = "addNew"
      /\ Step
      /\ UNCHANGED <<outbound, bounds>>

\* removeUsers stops at the first user the inbound does not have; the ones
\* before it stay removed.
DeleteUsersFails ==
  LET t == node.tag
  IN  /\ pc = "delete"
      /\ Gone # {} /\ ~Serves(t, Gone)
      /\ IF inbound[t] = None THEN UNCHANGED inbound
         ELSE \E some \in SUBSET Creds(Gone) :
                inbound' = [inbound EXCEPT ![t] = WithCreds(@, @.creds \ some)]
      /\ managed' = managed \cup Emails(t, Gone)
      /\ Return
      /\ Abort
      /\ UNCHANGED <<outbound, limiter, bounds>>

AddNewUsers ==
  LET t == node.tag
  IN  /\ pc = "addNew"
      /\ New = {} \/ inbound[t] # None
      /\ inbound' = IF New = {} THEN inbound
                    ELSE [inbound EXCEPT ![t] = WithCreds(@, @.creds \cup Creds(New))]
      /\ managed' = managed \cup Emails(t, New)
      /\ pc' = "limits"
      /\ Step
      /\ UNCHANGED <<outbound, limiter, bounds>>

\* The error is logged and the run goes on.
AddNewUsersFails ==
  LET t == node.tag
  IN  /\ pc = "addNew"
      /\ New # {}
      /\ \/ inbound[t] = None /\ UNCHANGED <<inbound, bounds>>
         \/ /\ inbound[t] # None
            /\ Fault
            /\ \E some \in SUBSET New :
                 /\ some # New
                 /\ inbound' = [inbound EXCEPT ![t] = WithCreds(@, @.creds \cup Creds(some))]
      /\ managed' = managed \ Emails(t, New)
      /\ pc' = "limits"
      /\ Step
      /\ UNCHANGED <<outbound, limiter>>

\* UpdateInboundLimiter of the added users and of those with new limits.
UpdateLimits ==
  LET t == node.tag
      updated == New \cup Relimited
  IN  /\ pc = "limits"
      /\ limiter' = IF limiter[t] = None THEN limiter
                    ELSE [limiter EXCEPT ![t] =
                            {u \in @ : ~\E v \in updated : u.uid = v.uid} \cup updated]
      /\ pc' = "publish"
      /\ Step
      /\ UNCHANGED <<inbound, outbound, managed, bounds>>

Publish ==
  /\ pc = "publish"
  /\ node' = job.node
  /\ users' = job.users
  /\ Return
  /\ UNCHANGED <<kind, panel, clientVars, coreVars, bounds>>

-----------------------------------------------------------------------------
Monitor ==
  \/ StartNode \/ StartUsers \/ StartFails
  \/ MonitorNode \/ MonitorUsers \/ FetchFails \/ NoMultiUser
  \/ RemoveOldTag \/ RemoveOldTagFails \/ AddNewTag \/ AddNewTagFails
  \/ AddAllUsers \/ AddAllUsersFails \/ AddInboundLimiter
  \/ DeleteUsers \/ DeleteUsersFails \/ AddNewUsers \/ AddNewUsersFails
  \/ UpdateLimits \/ Publish

SyncNext == PanelChanges \/ Monitor

\* The node monitor is executed again and again (Lifecycle).
SyncSpec == SyncInit /\ [][SyncNext]_syncVars /\ WF_syncVars(Monitor)

-----------------------------------------------------------------------------
(* Between two runs of the node monitor, as long as the core refused       *)
(* nothing, what is served is what the client fetched last: one inbound,   *)
(* exactly the listed users and credentials, known to the limiter with     *)
(* their limits and registered for accounting.                             *)
InSync ==
  pc = "idle" /\ faults = 0 =>
    /\ users = last.users
    /\ inbound = [t \in Tags |-> IF t # node.tag THEN None
                    ELSE [net |-> node.net, creds |-> Creds(users), up |-> TRUE]]
    /\ outbound = {node.tag}
    /\ limiter = [t \in Tags |-> IF t = node.tag THEN users ELSE None]
    /\ managed = Emails(node.tag, users)

(* Whatever fails, a node never has two inbounds: the old one is gone      *)
(* before the new one is added, also in runs that follow a failed one.     *)
AtMostOneInbound ==
  \A s, t \in Tags : inbound[s] # None /\ inbound[t] # None => s = t

(* A user who can connect has their limits known, except while they are    *)
(* being added.                                                            *)
ServedAreLimited ==
  faults = 0 /\ pc \notin {"addLimiter", "limits"} =>
    \A t \in Tags : inbound[t] # None /\ inbound[t].creds # {} =>
      limiter[t] # None /\ inbound[t].creds \subseteq Creds(limiter[t])

\* newV2board's validator stands for another list than the one handed over.
Misled == kind = "newV2board" /\ etag # None /\ etag.users # last.users

(* The node follows the panel: when it no longer changes, requests no      *)
(* longer fail and the core refused nothing, its node and users are served *)
(* from some time on.  An empty list of a Shadowsocks node is followed     *)
(* with V2board, whose client remembers the node info, and not with        *)
(* SSPanel; a newV2board client whose validator got ahead of its list is   *)
(* told that nothing changed.                                              *)
FollowsPanel ==
  [](faults = 0 /\ ~Misled) =>
    <>[](\/ /\ users = panel.users
            /\ ~(shared /\ panel.users = {}) => node = panel.node
         \/ kind = "sspanelSS" /\ panel.users = {})

-----------------------------------------------------------------------------
(* Why the node is in sync: what the core, the limiter and the registry    *)
(* have at each point of Start and of the node monitor.                    *)

Only(t, x) == [s \in Tags |-> IF s = t THEN x ELSE None]

CoreIs(n, creds, limits, emails) ==
  /\ inbound = Only(n.tag, [net |-> n.net, creds |-> creds, up |-> TRUE])
  /\ outbound = {n.tag}
  /\ limiter = limits
  /\ managed = emails

CoreServes(n, list) == CoreIs(n, Creds(list), Only(n.tag, list), Emails(n.tag, list))

Kept == {u \in users : <<node.tag, u.uid>> \notin Emails(node.tag, Gone)}

(* As long as the core refused nothing.                                    *)
CoreInv ==
  /\ pc = "start" => inbound = Nothing /\ limiter = Nothing /\ managed = {}
  /\ pc = "startUsers" => CoreIs(node, {}, Nothing, {})
  /\ pc \in {"idle", "users", "remove", "delete"} => CoreServes(node, users)
  /\ pc = "add" => /\ inbound = Nothing /\ outbound = {} /\ managed = {}
                   /\ limiter = Only(node.tag, users)
  /\ pc = "addAll" => CoreIs(job.node, {}, Nothing, {})
  /\ pc = "addLimiter" =>
       CoreIs(job.node, Creds(job.users), Nothing, Emails(job.node.tag, job.users))
  /\ pc = "addNew" =>
       CoreIs(node, Creds(users) \ Creds(Gone), Only(node.tag, Kept),
              Emails(node.tag, users) \ Emails(node.tag, Gone))
  /\ pc = "limits" =>
       CoreIs(node, Creds(job.users), Only(node.tag, Kept), Emails(node.tag, job.users))
  /\ pc = "publish" => CoreServes(job.node, job.users)

(* What was fetched: the list handed over last is the one of this run, or  *)
(* the one the controller has.                                             *)
FetchInv ==
  /\ kind = "v2boardSS" /\ pc \in {"startUsers", "users"} => pending.users = last.users
  /\ pc = "idle" => users = last.users
  /\ pc \notin {"start", "startUsers"} => users \in UserLists
  /\ pc \notin {"start", "startUsers", "idle"} => job.users \in UserLists
  /\ pc = "users" =>
       /\ job.users = users /\ job.usersChanged = FALSE
       /\ kind # "v2boardSS" \/ pending.unchanged => last.users = users
  /\ pc \notin {"start", "startUsers", "idle", "users"} =>
       /\ job.users = last.users
       /\ job.usersChanged \/ job.users = users
  /\ pc \in {"delete", "addNew", "limits"} => job.node = node

SyncInv == faults \in Nat /\ (faults = 0 => CoreInv /\ FetchInv)
(* Whatever fails: the slots of the other tags are empty.                  *)
OneInv ==
  /\ pc \in Places
  /\ pc # "start" => node \in Nodes
  /\ pc \notin {"start", "startUsers", "idle"} => job.node \in Nodes
  /\ inbound = [t \in Tags |-> inbound[t]]
  /\ \A s, t \in Tags : inbound[s] # None /\ inbound[t] # None => s = t
  /\ pc \in {"start", "add"} => \A t \in Tags : inbound[t] = None
  /\ pc = "startUsers" => \A t \in Tags : t # node.tag => inbound[t] = None
  /\ pc = "addAll" => \A t \in Tags : t # job.node.tag => inbound[t] = None
=============================================================================
