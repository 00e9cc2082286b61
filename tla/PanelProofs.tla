---------------------------- MODULE PanelProofs -----------------------------
(***************************************************************************)
(* Proofs about what the panel's answers become on the node: what the core *)
(* serves (NodeSync, for any nodes, user lists and kinds of client), and   *)
(* the share of the device limit that the panel's count leaves             *)
(* (DeviceQuota).  The two specifications share no state; each is proved   *)
(* by itself.                                                              *)
(***************************************************************************)
EXTENDS NodeSync, DeviceQuota, TLAPS

-----------------------------------------------------------------------------
(* compareUserList: what is taken from the old list and added to it makes  *)
(* the new one, for the credentials of the core, the registry of emails    *)
(* and the limiter.                                                        *)

(* The credentials of the core.                                            *)
LEMMA CredsFollow ==
  ASSUME NEW old \in UserLists, NEW new \in UserLists
  PROVE  (Creds(old) \ Creds(Deleted(old, new))) \cup Creds(Added(old, new)) = Creds(new)
<1>1. \A u, v : Cred(u) = Cred(v) <=> SameRuntimeUser(u, v)
  BY DEF Cred, SameRuntimeUser
<1>2. ASSUME NEW c \in Creds(old), c \notin Creds(Deleted(old, new)) PROVE c \in Creds(new)
  BY <1>1, <1>2 DEF Creds, Deleted
<1>3. Creds(Added(old, new)) \subseteq Creds(new)
  BY DEF Creds, Added
<1>4. ASSUME NEW v \in new, v \notin Added(old, new)
      PROVE  Cred(v) \in Creds(old) /\ Cred(v) \notin Creds(Deleted(old, new))
  <2>1. PICK u \in old : SameRuntimeUser(u, v)
    BY <1>4 DEF Added
  <2>2. Cred(v) \notin Creds(Deleted(old, new))
    BY <1>1 DEF Creds, Deleted
  <2> QED
    BY <1>1, <2>1, <2>2 DEF Creds
<1>5. Creds(new) \subseteq (Creds(old) \ Creds(Deleted(old, new))) \cup Creds(Added(old, new))
  BY <1>4 DEF Creds
<1> QED
  BY <1>2, <1>3, <1>5

(* The registry's emails.                                                  *)
LEMMA EmailsFollow ==
  ASSUME NEW old \in UserLists, NEW new \in UserLists, NEW t
  PROVE  (Emails(t, old) \ Emails(t, Deleted(old, new))) \cup Emails(t, Added(old, new))
           = Emails(t, new)
<1>1. \A u \in old : u \notin Deleted(old, new) => \E v \in new : SameRuntimeUser(u, v)
  BY DEF Deleted
<1>2. \A v \in new : v \notin Added(old, new) => \E u \in old : SameRuntimeUser(u, v)
  BY DEF Added
<1>3. Deleted(old, new) \subseteq old /\ Added(old, new) \subseteq new
  BY DEF Deleted, Added
<1>4. \A u, v \in old : u.uid = v.uid => u = v
  BY OneRecordPerUser
<1>5. ASSUME NEW v \in new, v \notin Added(old, new)
      PROVE  <<t, v.uid>> \in Emails(t, old) \ Emails(t, Deleted(old, new))
  <2>1. PICK u \in old : SameRuntimeUser(u, v)
    BY <1>2, <1>5
  <2>2. u \notin Deleted(old, new)
    BY <2>1 DEF Deleted
  <2>3. \A d \in Deleted(old, new) : d.uid # v.uid
    BY Zenon, <1>3, <1>4, <2>1, <2>2 DEF SameRuntimeUser
  <2> QED
    BY <2>1, <2>3 DEF Emails, SameRuntimeUser
<1>6. Emails(t, new) \subseteq
        (Emails(t, old) \ Emails(t, Deleted(old, new))) \cup Emails(t, Added(old, new))
  BY <1>5 DEF Emails
<1>7. Emails(t, old) \ Emails(t, Deleted(old, new)) \subseteq Emails(t, new)
  BY <1>1 DEF Emails, SameRuntimeUser
<1>8. Emails(t, Added(old, new)) \subseteq Emails(t, new)
  BY <1>3 DEF Emails
<1> QED
  BY <1>6, <1>7, <1>8

(* The limiter's records.                                                  *)
LEMMA LimitsFollow ==
  ASSUME NEW old \in UserLists, NEW new \in UserLists, NEW t
  PROVE  LET kept == {u \in old : <<t, u.uid>> \notin Emails(t, Deleted(old, new))}
             updated == Added(old, new) \cup LimitUpdated(old, new)
         IN  {u \in kept : ~\E v \in updated : u.uid = v.uid} \cup updated = new
<1> DEFINE kept == {u \in old : <<t, u.uid>> \notin Emails(t, Deleted(old, new))}
           updated == Added(old, new) \cup LimitUpdated(old, new)
           left == {u \in kept : ~\E v \in updated : u.uid = v.uid}
<1>1. \A u \in old : u \in kept => \E v \in new : SameRuntimeUser(u, v)
  BY DEF Deleted, Emails
<1>2. \A u, v \in old : u.uid = v.uid => u = v
  BY OneRecordPerUser
<1>3. \A u, v \in new : u.uid = v.uid => u = v
  BY OneRecordPerUser
<1>4. \A u \in old, v \in new : SameRuntimeUser(u, v) /\ u.limit = v.limit => u = v
  <2>1. \A u \in old : u = [uid |-> u.uid, cred |-> u.cred, limit |-> u.limit]
    BY OneRecordPerUser
  <2>2. \A v \in new : v = [uid |-> v.uid, cred |-> v.cred, limit |-> v.limit]
    BY OneRecordPerUser
  <2> QED
    BY <2>1, <2>2 DEF SameRuntimeUser
<1>5. updated \subseteq new
  BY DEF Added, LimitUpdated
<1>6. ASSUME NEW u \in left PROVE u \in new
  <2>1. PICK v \in new : SameRuntimeUser(u, v)
    BY <1>1
  <2>2. v \notin updated
    BY <2>1 DEF SameRuntimeUser
  <2>3. u.limit = v.limit
    BY Zenon, <2>1, <2>2 DEF LimitUpdated
  <2> QED
    BY Zenon, <1>4, <2>1, <2>3
<1>7. ASSUME NEW v \in new, v \notin updated PROVE v \in left
  <2>1. PICK u \in old : SameRuntimeUser(u, v)
    BY <1>7 DEF Added
  <2>2. u.limit = v.limit
    BY <1>7, <2>1 DEF LimitUpdated
  <2>3. u = v
    BY <1>4, <2>1, <2>2
  <2>4. v \notin Deleted(old, new)
    BY <2>1, <2>3 DEF Deleted
  <2>5. \A d \in Deleted(old, new) : d.uid # v.uid
    BY Zenon, <1>2, <2>3, <2>4 DEF Deleted
  <2>6. v \in kept
    BY <2>3, <2>5 DEF Emails
  <2>7. ~\E w \in updated : v.uid = w.uid
    BY Zenon, <1>3, <1>5, <1>7
  <2> QED
    BY <2>6, <2>7
<1> QED
  BY <1>5, <1>6, <1>7

(* Credentials that stay belong to records that stay.                      *)
LEMMA KeptAreKnown ==
  ASSUME NEW old \in UserLists, NEW new, NEW t
  PROVE  Creds(old) \ Creds(Deleted(old, new)) \subseteq
           Creds({u \in old : <<t, u.uid>> \notin Emails(t, Deleted(old, new))})
<1>1. \A u, v \in old : u.uid = v.uid => u = v
  BY OneRecordPerUser
<1>2. Deleted(old, new) \subseteq old
  BY DEF Deleted
<1>3. ASSUME NEW u \in old, u \notin Deleted(old, new)
      PROVE  <<t, u.uid>> \notin Emails(t, Deleted(old, new))
  BY Zenon, <1>1, <1>2, <1>3 DEF Emails
<1> QED
  BY <1>3 DEF Creds

-----------------------------------------------------------------------------
(* One inbound.                                                            *)

(* The first state has no inbound.                                         *)
LEMMA OneInvInit == SyncInit => OneInv
BY Zenon DEF SyncInit, OneInv, Nothing, Places

(* Every step leaves at most the inbound of its place.                     *)
LEMMA OneInvStep == OneInv /\ [SyncNext]_syncVars => OneInv'
<1> SUFFICES ASSUME OneInv, [SyncNext]_syncVars PROVE OneInv'
  OBVIOUS
<1> USE DEF OneInv, Places
<1>1. CASE StartNode
  BY Zenon, <1>1 DEF StartNode
<1>2. CASE StartUsers
  BY Zenon, <1>2 DEF StartUsers
<1>3. CASE StartFails
  <2>1. inbound' = [t \in Tags |-> None] /\ pc' = "start"
    BY Zenon, <1>3 DEF StartFails, Nothing
  <2> QED
    BY <2>1
<1>4. CASE RemoveOldTag
  <2>1. node.tag \in Tags
    BY Zenon, <1>4 DEF RemoveOldTag, Tags
  <2> QED
    BY Zenon, <1>4, <2>1 DEF RemoveOldTag, Step, ctlVars
<1>5. CASE AddNewTag
  BY Zenon, <1>5 DEF AddNewTag, Step, ctlVars
<1>6. CASE AddNewTagFails
  BY Zenon, <1>6 DEF AddNewTagFails, Return, Abort, ctlVars
<1>7. CASE AddAllUsers
  BY Zenon, <1>7 DEF AddAllUsers, Step, ctlVars
<1>8. CASE AddAllUsersFails
  BY Zenon, <1>8 DEF AddAllUsersFails, Return, Abort, ctlVars
<1>9. CASE DeleteUsers
  <2>1. node.tag \in Tags
    BY Zenon, <1>9 DEF DeleteUsers, Tags
  <2> QED
    BY ZenonT(40), <1>9, <2>1 DEF DeleteUsers, Serves, Step, ctlVars
<1>10. CASE DeleteUsersFails
  <2>1. node.tag \in Tags
    BY Zenon, <1>10 DEF DeleteUsersFails, Tags
  <2> QED
    BY ZenonT(40), <1>10, <2>1 DEF DeleteUsersFails, Return, Abort, ctlVars
<1>11. CASE AddNewUsers
  <2>1. node.tag \in Tags
    BY <1>11 DEF AddNewUsers, Tags
  <2> QED
    BY ZenonT(40), <1>11, <2>1 DEF AddNewUsers, Step, ctlVars
<1>12. CASE AddNewUsersFails
  <2>1. node.tag \in Tags
    BY Zenon, <1>12 DEF AddNewUsersFails, Tags
  <2> QED
    BY ZenonT(40), <1>12, <2>1 DEF AddNewUsersFails, Step, ctlVars
<1>13. CASE MonitorNode
  <2>1. pc = "idle" /\ pc' = "users" /\ UNCHANGED <<node, inbound>>
    BY Zenon, <1>13 DEF MonitorNode, coreVars, ctlVars
  <2>2. job'.node \in Nodes
    BY SMTT(40), <1>13 DEF MonitorNode
  <2> QED
    BY Zenon, <2>1, <2>2
<1>18. CASE FetchFails \/ NoMultiUser
  BY Zenon, <1>18 DEF FetchFails, NoMultiUser, Return, Abort, coreVars, ctlVars
<1>19. CASE RemoveOldTagFails
  BY Zenon, <1>19 DEF RemoveOldTagFails, Return, Step, Abort, coreVars, ctlVars
<1>17. CASE AddInboundLimiter \/ UpdateLimits \/ Publish
  BY ZenonT(40), <1>17 DEF AddInboundLimiter, UpdateLimits, Publish, Return, Step,
     coreVars, ctlVars
<1>14. CASE MonitorUsers
  BY SMTT(40), <1>14 DEF MonitorUsers, AfterFetch, coreVars, ctlVars
<1>15. CASE PanelChanges
  BY Zenon, <1>15 DEF PanelChanges, coreVars, ctlVars
<1>16. CASE UNCHANGED syncVars
  BY <1>16 DEF syncVars, coreVars, ctlVars
<1> QED
  BY ZenonT(40), <1>1, <1>2, <1>3, <1>4, <1>5, <1>6, <1>7, <1>8, <1>9, <1>10, <1>11, <1>12,
     <1>13, <1>18, <1>19, <1>17, <1>14, <1>15, <1>16 DEF SyncNext, Monitor

(* A node never has two inbounds, whatever fails, for any nodes and lists  *)
(* (nodeInfoMonitor, removeOldTag, addNewTag).                             *)
THEOREM OneInbound == SyncSpec => []AtMostOneInbound
<1>1. OneInv => AtMostOneInbound
  BY DEF OneInv, AtMostOneInbound
<1> QED
  BY <1>1, OneInvInit, OneInvStep, PTL DEF SyncSpec

-----------------------------------------------------------------------------
(* In sync.                                                                *)

\* The inbound of node n, with these credentials.
Serving(n, cs) == Only(n.tag, [net |-> n.net, creds |-> cs, up |-> TRUE])

(* A node's tag is a tag.                                                  *)
LEMMA NodeTags == \A n \in Nodes : n.tag \in Tags
BY DEF Tags

(* What the inbound of a node is.                                          *)
LEMMA ServingFacts ==
  ASSUME NEW n \in Nodes, NEW cs, inbound = Serving(n, cs)
  PROVE  inbound[n.tag] = [net |-> n.net, creds |-> cs, up |-> TRUE] /\ inbound[n.tag].creds = cs
BY NodeTags DEF Serving, Only

(* AddUsers and RemoveUsers change the credentials only.                   *)
LEMMA Recredited ==
  ASSUME NEW n \in Nodes, NEW cs, NEW ds, inbound = Serving(n, cs),
         inbound' = [inbound EXCEPT ![n.tag] = WithCreds(@, ds)]
  PROVE  inbound' = Serving(n, ds)
<1> DEFINE g == [net |-> n.net, creds |-> ds, up |-> TRUE]
<1>0. inbound[n.tag] = [net |-> n.net, creds |-> cs, up |-> TRUE]
  BY ServingFacts
<1>1. WithCreds(inbound[n.tag], ds) = g
  BY <1>0 DEF WithCreds
<1> HIDE DEF g
<1>2. inbound' = Only(n.tag, g)
  BY <1>1, NodeTags DEF Only, Serving
<1> QED
  BY ZenonT(40), <1>2 DEF Serving, g

\* A handler is not None.
LEMMA HandlerFacts ==
  ASSUME NEW n \in Nodes, NEW list \in UserLists, NEW cs \in SUBSET Creds(list)
  PROVE  /\ [net |-> n.net, creds |-> cs, up |-> TRUE] # None
         /\ list # None
<1>1. [net |-> n.net, creds |-> cs, up |-> TRUE] \in Handler
  <2>1. Creds(list) \subseteq Creds(Users)
    BY DEF Creds, Users
  <2>2. cs \in SUBSET Creds(Users)
    BY <2>1
  <2> QED
    BY <2>2 DEF Handler
<1> QED
  BY ZenonT(40), <1>1, NoneIsNothing DEF Users

(* Nothing is claimed before Start.                                        *)
LEMMA SyncInvInit == SyncInit => SyncInv
BY DEF SyncInit, SyncInv, CoreInv, FetchInv

\* What a client hands over is what it keeps as handed over last.
LEMMA UserListIsLast ==
  ASSUME NEW list, NEW unchanged, GetUserList(list, unchanged),
         kind = "v2boardSS" => pending.users = last.users
  PROVE  /\ list = last'.users
         /\ unchanged /\ kind # "v2boardSS" => last' = last
         /\ kind = "v2boardSS" => last' = last /\ unchanged = pending.unchanged
<1>1. CASE kind = "v2boardSS"
  BY <1>1 DEF GetUserList, TakePending
<1>2. CASE kind = "v2board"
  <2>1. CachedUserList(list, unchanged)
    BY <1>2 DEF GetUserList
  <2> QED
    BY <1>2, <2>1 DEF CachedUserList, FetchUserListLocked
<1>3. CASE kind = "newV2board"
  <2>1. NewV2boardUserList(list, unchanged)
    BY <1>3 DEF GetUserList
  <2> QED
    BY <1>3, <2>1 DEF NewV2boardUserList
<1>4. CASE kind \notin {"v2boardSS", "v2board", "newV2board"}
  <2>1. WholeUserList(list, unchanged)
    BY <1>4 DEF GetUserList
  <2> QED
    BY <1>4, <2>1 DEF WholeUserList
<1> QED
  BY Zenon, <1>1, <1>2, <1>3, <1>4

\* Only V2board's Shadowsocks node fetches the users with the node info.
LEMMA NodeInfoKeepsList ==
  ASSUME NEW n, GetNodeInfo(n)
  PROVE  /\ kind # "v2boardSS" => last' = last
         /\ kind = "v2boardSS" =>
              pending'.users = last'.users /\ (pending'.unchanged => last' = last)
<1>1. CASE kind = "v2boardSS"
  <2>1. SSNodeInfo(n)
    BY <1>1 DEF GetNodeInfo
  <2> QED
    BY <1>1, <2>1 DEF SSNodeInfo, FetchUserListLocked
<1>2. CASE kind = "sspanelSS"
  <2>1. MultiUserNodeInfo(n)
    BY <1>2 DEF GetNodeInfo
  <2> QED
    BY <1>2, <2>1 DEF MultiUserNodeInfo, clientVars
<1>3. CASE kind \notin {"v2boardSS", "sspanelSS"}
  <2>1. OwnNodeInfo(n)
    BY <1>3 DEF GetNodeInfo
  <2> QED
    BY <1>3, <2>1 DEF OwnNodeInfo, clientVars
<1> QED
  BY Zenon, <1>1, <1>2, <1>3

(* Start.                                                                  *)
LEMMA StartInSync ==
  ASSUME OneInv, CoreInv, FetchInv, StartNode \/ StartUsers \/ StartFails
  PROVE  CoreInv' /\ FetchInv'
<1>1. CASE StartNode
  <2>1. PICK n \in Nodes : /\ GetNodeInfo(n) /\ node' = n
                           /\ inbound' = [inbound EXCEPT ![n.tag] = Listening(n)]
                           /\ outbound' = {n.tag}
    BY ZenonT(40), <1>1 DEF StartNode
  <2>2. /\ pc = "start" /\ pc' = "startUsers"
        /\ UNCHANGED <<kind, limiter, managed>>
    BY <1>1 DEF StartNode
  <2>3. inbound' = Only(n.tag, [net |-> n.net, creds |-> {}, up |-> TRUE])
    <3>1. inbound = Nothing /\ n.tag \in Tags
      BY Zenon, <2>2, NodeTags DEF CoreInv
    <3>2. inbound' = Only(n.tag, Listening(n))
      BY Zenon, <2>1, <3>1 DEF Only, Nothing
    <3> QED
      BY <3>2 DEF Listening
  <2>4. CoreInv'
    BY ZenonT(40), <2>1, <2>2, <2>3 DEF CoreInv, CoreIs, Nothing
  <2>5. FetchInv'
    BY Zenon, <2>1, <2>2, NodeInfoKeepsList DEF FetchInv
  <2> QED
    BY Zenon, <2>4, <2>5
<1>2. CASE StartUsers
  <2>1. PICK list \in UserLists :
          /\ GetUserList(list, FALSE) /\ users' = list
          /\ managed' = Emails(node.tag, list)
          /\ inbound' = [inbound EXCEPT ![node.tag] = WithCreds(@, Creds(list))]
          /\ limiter' = [limiter EXCEPT ![node.tag] = list]
    BY ZenonT(40), <1>2 DEF StartUsers
  <2>2. pc = "startUsers" /\ pc' = "idle" /\ UNCHANGED <<kind, node, outbound>>
    BY ZenonT(40), <1>2 DEF StartUsers
  <2>3. node \in Nodes /\ node.tag \in Tags /\ CoreIs(node, {}, Nothing, {})
    BY <2>2, NodeTags DEF OneInv, CoreInv
  <2>4. inbound' = Only(node.tag, [net |-> node.net, creds |-> Creds(list), up |-> TRUE])
    <3>1. inbound = Serving(node, {})
      BY ZenonT(40), <2>3 DEF CoreIs, Serving
    <3> QED
      BY ZenonT(40), <2>1, <2>3, <3>1, Recredited DEF Serving
  <2>5. limiter' = Only(node.tag, list)
    BY Zenon, <2>1, <2>3 DEF CoreIs, Only, Nothing
  <2>6. CoreInv'
    <3>1. CoreServes(node, list)'
      BY ZenonT(40), <2>1, <2>2, <2>3, <2>4, <2>5 DEF CoreServes, CoreIs, Only
    <3> QED
      BY ZenonT(40), <2>1, <2>2, <3>1 DEF CoreInv
  <2>7. FetchInv'
    <3>1. list = last'.users
      BY ZenonT(40), <2>1, <2>2, UserListIsLast DEF FetchInv
    <3> QED
      BY ZenonT(40), <2>1, <2>2, <3>1 DEF FetchInv
  <2> QED
    BY <2>6, <2>7
<1>3. CASE StartFails
  BY Zenon, <1>3 DEF StartFails, CoreInv, FetchInv, Nothing
<1> QED
  BY Zenon, <1>1, <1>2, <1>3

(* The fetches of the node monitor, and their failures.                    *)
LEMMA FetchInSync ==
  ASSUME OneInv, CoreInv, FetchInv, MonitorNode \/ MonitorUsers
           \/ FetchFails \/ NoMultiUser
  PROVE  CoreInv' /\ FetchInv'
<1>0. ASSUME UNCHANGED <<ctlVars, coreVars>>,
             pc \in {"idle", "users"}, pc' \in {"idle", "users", "remove", "delete"}
      PROVE  CoreInv'
  <2>1. CoreServes(node, users)
    BY Zenon, <1>0 DEF CoreInv
  <2>2. CoreServes(node, users)'
    BY <1>0, <2>1 DEF CoreServes, CoreIs, Only, ctlVars, coreVars
  <2> QED
    BY ZenonT(40), <1>0, <2>2 DEF CoreInv
<1>1. CASE MonitorNode
  <2>1. PICK n \in Nodes : /\ GetNodeInfo(n)
                           /\ job' = [node |-> n, users |-> users, usersChanged |-> FALSE]
    BY ZenonT(40), <1>1 DEF MonitorNode
  <2>2. /\ pc = "idle" /\ pc' = "users"
        /\ UNCHANGED <<kind, ctlVars, coreVars>>
    BY <1>1 DEF MonitorNode
  <2>3. users = last.users /\ users \in UserLists
    BY Zenon, <2>2 DEF FetchInv
  <2>4. FetchInv'
    BY Zenon, <2>1, <2>2, <2>3, NodeInfoKeepsList DEF FetchInv, ctlVars
  <2> QED
    BY Zenon, <1>0, <2>2, <2>4
<1>2. CASE MonitorUsers
  <2>1. PICK list \in UserLists, unchanged \in BOOLEAN :
          /\ GetUserList(list, unchanged)
          /\ job' = IF unchanged THEN job
                    ELSE [node |-> job.node, users |-> list, usersChanged |-> TRUE]
    BY ZenonT(40), <1>2 DEF MonitorUsers
  <2>2. /\ pc = "users" /\ pc' = AfterFetch(job)
        /\ UNCHANGED <<kind, ctlVars, coreVars>>
    BY <1>2 DEF MonitorUsers
  <2>3. pc' \in {"remove", "delete"} /\ (pc' = "delete" => job.node = node)
    BY <2>2 DEF AfterFetch
  <2>4. /\ list = last'.users
        /\ unchanged => last'.users = users
    <3>1. /\ list = last'.users
          /\ unchanged /\ kind # "v2boardSS" => last' = last
          /\ kind = "v2boardSS" => last' = last /\ unchanged = pending.unchanged
      BY Zenon, <2>1, <2>2, UserListIsLast DEF FetchInv
    <3> QED
      BY Zenon, <2>2, <3>1 DEF FetchInv
  <2>5. /\ job'.users = last'.users /\ job'.users \in UserLists /\ job'.node = job.node
        /\ job'.usersChanged \/ job'.users = users
    BY Zenon, <2>1, <2>2, <2>4 DEF FetchInv
  <2>6. users' = users /\ node' = node /\ users \in UserLists
    BY Zenon, <2>2 DEF FetchInv, ctlVars
  <2>7. FetchInv'
    BY Zenon, <2>3, <2>5, <2>6 DEF FetchInv
  <2> QED
    BY Zenon, <1>0, <2>2, <2>3, <2>7
<1>3. CASE FetchFails
  <2>1. /\ pc \in {"idle", "users"} /\ pc' = "idle"
        /\ pc = "users" => kind # "v2boardSS"
        /\ UNCHANGED <<kind, last, ctlVars, coreVars>>
    BY Zenon, <1>3 DEF FetchFails, Return, shared
  <2>2. users = last.users /\ users \in UserLists
    BY Zenon, <2>1 DEF FetchInv
  <2>3. FetchInv'
    BY Zenon, <2>1, <2>2 DEF FetchInv, ctlVars
  <2> QED
    BY Zenon, <1>0, <2>1, <2>3
<1>4. CASE NoMultiUser
  <2>1. pc = "idle" /\ pc' = "idle" /\ UNCHANGED <<kind, clientVars, ctlVars, coreVars>>
    BY Zenon, <1>4 DEF NoMultiUser, Return
  <2>2. FetchInv'
    BY Zenon, <2>1 DEF FetchInv, ctlVars, clientVars
  <2> QED
    BY Zenon, <1>0, <2>1, <2>2
<1> QED
  BY Zenon, <1>1, <1>2, <1>3, <1>4

\* A step that leaves what was fetched alone.
LEMMA FetchKept ==
  ASSUME FetchInv, Step,
         \/ pc = "remove" /\ pc' = "add"
         \/ pc = "add" /\ pc' = "addAll"
         \/ pc = "addAll" /\ pc' = "addLimiter"
         \/ pc = "addLimiter" /\ pc' = "publish"
         \/ pc = "delete" /\ pc' = "addNew"
         \/ pc = "addNew" /\ pc' = "limits"
         \/ pc = "limits" /\ pc' = "publish"
  PROVE  FetchInv'
BY DEF FetchInv, Step, ctlVars, clientVars

(* A changed node: removeOldTag, addNewTag, the users and the limiter.     *)
LEMMA NodeInSync ==
  ASSUME OneInv, CoreInv, FetchInv, RemoveOldTag \/ RemoveOldTagFails \/ AddNewTag
           \/ AddAllUsers \/ AddInboundLimiter
  PROVE  CoreInv' /\ FetchInv'
<1>1. CASE RemoveOldTag
  <2>1. /\ pc = "remove" /\ pc' = "add" /\ Step
        /\ inbound' = [inbound EXCEPT ![node.tag] = None]
        /\ outbound' = outbound \ {node.tag}
        /\ managed' = managed \ Emails(node.tag, users)
        /\ limiter' = limiter
    BY Zenon, <1>1 DEF RemoveOldTag
  <2>2. CoreServes(node, users) /\ node \in Nodes /\ node.tag \in Tags
    BY Zenon, <2>1, NodeTags DEF CoreInv, OneInv
  <2>3. inbound' = Nothing
    BY Zenon, <2>1, <2>2 DEF CoreServes, CoreIs, Only, Nothing
  <2>4. outbound' = {} /\ managed' = {} /\ limiter' = Only(node.tag, users)'
    BY Zenon, <2>1, <2>2 DEF CoreServes, CoreIs, Only, Step, ctlVars
  <2> QED
    BY ZenonT(40), <2>1, <2>3, <2>4, FetchKept DEF CoreInv, Nothing
<1>2. CASE RemoveOldTagFails
  <2>1. pc = "remove" /\ inbound[node.tag] = None
    BY Zenon, <1>2 DEF RemoveOldTagFails
  <2>2. CoreServes(node, users) /\ node \in Nodes /\ users \in UserLists
    BY ZenonT(40), <2>1 DEF CoreInv, OneInv, FetchInv
  <2>3. inbound[node.tag] = [net |-> node.net, creds |-> Creds(users), up |-> TRUE]
    BY ZenonT(40), <2>2, ServingFacts DEF CoreServes, CoreIs, Serving
  <2> QED
    BY ZenonT(40), <2>1, <2>2, <2>3, HandlerFacts
<1>3. CASE AddNewTag
  <2> DEFINE n == job.node
  <2>1. /\ pc = "add" /\ pc' = "addAll" /\ Step
        /\ inbound' = [inbound EXCEPT ![n.tag] = Listening(n)]
        /\ outbound' = outbound \cup {n.tag}
        /\ managed' = managed
        /\ limiter' = [limiter EXCEPT ![node.tag] = None]
    BY Zenon, <1>3 DEF AddNewTag
  <2>2. /\ inbound = Nothing /\ outbound = {} /\ managed = {}
        /\ limiter = Only(node.tag, users)
        /\ n \in Nodes /\ n.tag \in Tags /\ node.tag \in Tags
    BY ZenonT(40), <2>1, NodeTags DEF CoreInv, OneInv
  <2>3. inbound' = Only(n.tag, Listening(n))
    BY Zenon, <2>1, <2>2 DEF Only, Nothing
  <2>4. limiter' = Nothing
    BY Zenon, <2>1, <2>2 DEF Only, Nothing
  <2>5. outbound' = {n.tag} /\ managed' = {} /\ job' = job
    BY ZenonT(40), <2>1, <2>2 DEF Step
  <2>6. CoreIs(job.node, {}, Nothing, {})'
    BY Zenon, <2>3, <2>4, <2>5 DEF CoreIs, Listening, Only, Nothing
  <2> QED
    BY ZenonT(40), <2>1, <2>6, FetchKept DEF CoreInv
<1>4. CASE AddAllUsers
  <2> DEFINE n == job.node
  <2>1. /\ pc = "addAll" /\ pc' = "addLimiter" /\ Step
        /\ inbound' = [inbound EXCEPT ![n.tag] = WithCreds(@, Creds(job.users))]
        /\ managed' = managed \cup Emails(n.tag, job.users)
        /\ UNCHANGED <<outbound, limiter>>
    BY Zenon, <1>4 DEF AddAllUsers
  <2>2. CoreIs(n, {}, Nothing, {}) /\ n \in Nodes
    BY ZenonT(40), <2>1 DEF CoreInv, OneInv
  <2>3. inbound' = Serving(n, Creds(job.users))
    <3>1. inbound = Serving(n, {})
      BY Zenon, <2>2 DEF CoreIs, Serving
    <3> QED
      BY Zenon, <2>1, <2>2, <3>1, Recredited
  <2>4. /\ outbound' = {n.tag} /\ limiter' = Nothing /\ job' = job
        /\ managed' = Emails(n.tag, job.users)
    BY Zenon, <2>1, <2>2 DEF CoreIs, Step
  <2>5. CoreIs(job.node, Creds(job.users), Nothing, Emails(job.node.tag, job.users))'
    BY Zenon, <2>3, <2>4 DEF CoreIs, Serving, Only, Nothing
  <2> QED
    BY ZenonT(40), <2>1, <2>5, FetchKept DEF CoreInv
<1>5. CASE AddInboundLimiter
  <2> DEFINE n == job.node
  <2>1. /\ pc = "addLimiter" /\ pc' = "publish" /\ Step
        /\ limiter' = [limiter EXCEPT ![n.tag] = job.users]
        /\ UNCHANGED <<inbound, outbound, managed>>
    BY Zenon, <1>5 DEF AddInboundLimiter
  <2>2. /\ CoreIs(n, Creds(job.users), Nothing, Emails(n.tag, job.users))
        /\ n.tag \in Tags
    BY Zenon, <2>1, NodeTags DEF CoreInv, OneInv
  <2>3. limiter' = Only(n.tag, job.users)
    BY ZenonT(40), <2>1, <2>2 DEF CoreIs, Only, Nothing
  <2>4. CoreServes(job.node, job.users)'
    BY ZenonT(40), <2>1, <2>2, <2>3 DEF CoreServes, CoreIs, Only, Step
  <2> QED
    BY ZenonT(40), <2>1, <2>4, FetchKept DEF CoreInv
<1> QED
  BY Zenon, <1>1, <1>2, <1>3, <1>4, <1>5

\* The differences the node monitor applies lead from its list to the one
\* it fetched.
LEMMA JobFacts ==
  ASSUME FetchInv, pc \in {"delete", "addNew", "limits"}
  PROVE  /\ Gone \subseteq users
         /\ (Creds(users) \ Creds(Gone)) \cup Creds(New) = Creds(job.users)
         /\ (Emails(node.tag, users) \ Emails(node.tag, Gone)) \cup Emails(node.tag, New)
              = Emails(node.tag, job.users)
         /\ LET updated == New \cup Relimited
            IN  {u \in Kept : ~\E v \in updated : u.uid = v.uid} \cup updated = job.users
         /\ Creds(users) \ Creds(Gone) \subseteq Creds(Kept)
<1>0. /\ users \in UserLists /\ job.users \in UserLists
      /\ job.usersChanged \/ job.users = users
  BY Zenon DEF FetchInv
<1>1. CASE job.usersChanged
  <2>1. /\ Gone = Deleted(users, job.users) /\ New = Added(users, job.users)
        /\ Relimited = LimitUpdated(users, job.users)
    BY Zenon, <1>1 DEF Gone, New, Relimited
  <2>2. Gone \subseteq users
    BY Zenon, <2>1 DEF Deleted
  <2>3. (Creds(users) \ Creds(Gone)) \cup Creds(New) = Creds(job.users)
    BY Zenon, <1>0, <2>1, CredsFollow
  <2>4. (Emails(node.tag, users) \ Emails(node.tag, Gone)) \cup Emails(node.tag, New)
          = Emails(node.tag, job.users)
    BY SMTT(40), Z3T(40), <1>0, <2>1, EmailsFollow
  <2>5. LET updated == New \cup Relimited
        IN  {u \in Kept : ~\E v \in updated : u.uid = v.uid} \cup updated = job.users
    BY SMTT(40), Z3T(40), <1>0, <2>1, LimitsFollow DEF Kept
  <2>6. Creds(users) \ Creds(Gone) \subseteq Creds(Kept)
    BY SMTT(60), Z3T(60), <1>0, <2>1, KeptAreKnown DEF Kept
  <2> QED
    BY ZenonT(40), <2>2, <2>3, <2>4, <2>5, <2>6
<1>2. CASE ~job.usersChanged
  <2>1. Gone = {} /\ New = {} /\ Relimited = {} /\ job.users = users
    BY Zenon, <1>0, <1>2 DEF Gone, New, Relimited
  <2>2. Creds({}) = {} /\ Emails(node.tag, {}) = {}
    BY Zenon DEF Creds, Emails
  <2>3. Kept = users
    BY Zenon, <2>1, <2>2 DEF Kept
  <2> QED
    BY <2>1, <2>2, <2>3
<1> QED
  BY ZenonT(40), <1>1, <1>2

(* The users that are gone.                                                *)
LEMMA DeleteInSync ==
  ASSUME OneInv, CoreInv, FetchInv, DeleteUsers \/ DeleteUsersFails
  PROVE  CoreInv' /\ FetchInv'
<1>0. /\ pc = "delete" /\ node \in Nodes /\ node.tag \in Tags
      /\ users \in UserLists /\ CoreServes(node, users)
  BY ZenonT(40), NodeTags DEF DeleteUsers, DeleteUsersFails, OneInv, CoreInv, FetchInv
<1>1. /\ Gone \subseteq users /\ Creds(Gone) \subseteq Creds(users)
  <2>1. Gone \subseteq users
    BY ZenonT(40), <1>0, JobFacts
  <2> QED
    BY Zenon, <2>1 DEF Creds
<1>2. inbound = Serving(node, Creds(users))
  BY Zenon, <1>0 DEF CoreServes, CoreIs, Serving
<1>3. Serves(node.tag, Gone)
  <2>1. /\ inbound[node.tag] = [net |-> node.net, creds |-> Creds(users), up |-> TRUE]
        /\ inbound[node.tag].creds = Creds(users)
    BY Zenon, <1>0, <1>2, ServingFacts
  <2>2. inbound[node.tag] # None
    BY Zenon, <1>0, <2>1, HandlerFacts
  <2> QED
    BY Zenon, <1>1, <2>1, <2>2 DEF Serves
<1>4. CASE DeleteUsersFails
  BY ZenonT(40), <1>3, <1>4 DEF DeleteUsersFails
<1>5. CASE DeleteUsers
  <2>1. /\ pc' = "addNew" /\ Step /\ outbound' = outbound
        /\ managed' = managed \ Emails(node.tag, Gone)
        /\ inbound' = IF Gone = {} THEN inbound
             ELSE [inbound EXCEPT ![node.tag] = WithCreds(@, @.creds \ Creds(Gone))]
        /\ limiter' = IF limiter[node.tag] = None THEN limiter
             ELSE [limiter EXCEPT ![node.tag] =
                     {u \in @ : <<node.tag, u.uid>> \notin Emails(node.tag, Gone)}]
    BY ZenonT(40), <1>5 DEF DeleteUsers
  <2>2. inbound' = Serving(node, Creds(users) \ Creds(Gone))
    <3>1. CASE Gone = {}
      <4>1. Creds(users) \ Creds(Gone) = Creds(users)
        BY Zenon, <3>1 DEF Creds
      <4> QED
        BY ZenonT(40), <1>2, <2>1, <3>1, <4>1
    <3>2. CASE Gone # {}
      <4>1. inbound' = [inbound EXCEPT ![node.tag] =
                          WithCreds(@, inbound[node.tag].creds \ Creds(Gone))]
        BY Zenon, <2>1, <3>2
      <4>2. inbound[node.tag].creds = Creds(users)
        BY ZenonT(40), <1>0, <1>2, ServingFacts
      <4>3. inbound' = [inbound EXCEPT ![node.tag] =
                          WithCreds(@, Creds(users) \ Creds(Gone))]
        BY <4>1, <4>2
      <4> QED
        BY ZenonT(40), <1>0, <1>2, <4>3, Recredited
    <3> QED
      BY Zenon, <3>1, <3>2
  <2>3. limiter' = Only(node.tag, Kept)
    <3>1. limiter = Only(node.tag, users) /\ limiter[node.tag] = users
      BY <1>0 DEF CoreServes, CoreIs, Only
    <3>2. users # None
      BY Zenon, <1>0, NoneIsNothing DEF Users
    <3>3. limiter' = [limiter EXCEPT ![node.tag] = Kept]
      BY Zenon, <2>1, <3>1, <3>2 DEF Kept
    <3> QED
      BY Zenon, <1>0, <3>1, <3>3 DEF Only
  <2>4. outbound' = {node.tag}
        /\ managed' = Emails(node.tag, users) \ Emails(node.tag, Gone)
    BY ZenonT(40), <1>0, <2>1 DEF CoreServes, CoreIs
  <2>5. node' = node /\ users' = users /\ job' = job /\ Gone' = Gone /\ Kept' = Kept
    BY ZenonT(40), <2>1 DEF Step, ctlVars, Gone, Kept, Deleted
  <2>6. CoreIs(node, Creds(users) \ Creds(Gone), Only(node.tag, Kept),
               Emails(node.tag, users) \ Emails(node.tag, Gone))'
    BY Zenon, <2>2, <2>3, <2>4, <2>5 DEF CoreIs, Serving
  <2> QED
    BY ZenonT(40), <1>0, <2>1, <2>6, FetchKept DEF CoreInv
<1> QED
  BY Zenon, <1>4, <1>5

\* The inbound is there when users are added: only a fault stops addNewUsers.
LEMMA AddNewHasInbound ==
  ASSUME OneInv, CoreInv, FetchInv, pc = "addNew"
  PROVE  inbound[node.tag] # None
<1>1. /\ node \in Nodes /\ users \in UserLists
      /\ inbound = Serving(node, Creds(users) \ Creds(Gone))
  BY ZenonT(40) DEF OneInv, CoreInv, FetchInv, CoreIs, Serving
<1>2. inbound[node.tag] = [net |-> node.net, creds |-> Creds(users) \ Creds(Gone), up |-> TRUE]
  BY ZenonT(40), <1>1, ServingFacts
<1> QED
  BY ZenonT(40), <1>1, <1>2, HandlerFacts

(* The users that are new.                                                 *)
LEMMA AddInSync ==
  ASSUME OneInv, CoreInv, FetchInv, AddNewUsers
  PROVE  CoreInv' /\ FetchInv'
<1>0. /\ pc = "addNew" /\ node \in Nodes /\ node.tag \in Tags
      /\ CoreIs(node, Creds(users) \ Creds(Gone), Only(node.tag, Kept),
                Emails(node.tag, users) \ Emails(node.tag, Gone))
  BY ZenonT(40), NodeTags DEF AddNewUsers, OneInv, CoreInv
<1>1. inbound = Serving(node, Creds(users) \ Creds(Gone))
  BY Zenon, <1>0 DEF CoreIs, Serving
<1>2. /\ pc' = "limits" /\ Step /\ UNCHANGED <<outbound, limiter>>
      /\ managed' = managed \cup Emails(node.tag, New)
      /\ inbound' = IF New = {} THEN inbound
           ELSE [inbound EXCEPT ![node.tag] = WithCreds(@, @.creds \cup Creds(New))]
  BY ZenonT(40) DEF AddNewUsers
<1>3. /\ (Creds(users) \ Creds(Gone)) \cup Creds(New) = Creds(job.users)
      /\ (Emails(node.tag, users) \ Emails(node.tag, Gone)) \cup Emails(node.tag, New)
           = Emails(node.tag, job.users)
  BY ZenonT(40), <1>0, JobFacts
<1>4. inbound' = Serving(node, Creds(job.users))
  <2>1. CASE New = {}
    <3>1. Creds(users) \ Creds(Gone) = Creds(job.users)
      BY Zenon, <1>3, <2>1 DEF Creds
    <3> QED
      BY Zenon, <1>1, <1>2, <2>1, <3>1
  <2>2. CASE New # {}
    <3>1. inbound' = [inbound EXCEPT ![node.tag] =
                        WithCreds(@, inbound[node.tag].creds \cup Creds(New))]
      BY Zenon, <1>2, <2>2
    <3>2. inbound[node.tag].creds = Creds(users) \ Creds(Gone)
      BY ZenonT(40), <1>0, <1>1, ServingFacts
    <3>3. inbound' = [inbound EXCEPT ![node.tag] = WithCreds(@, Creds(job.users))]
      BY ZenonT(40), <1>3, <3>1, <3>2
    <3> QED
      BY ZenonT(40), <1>0, <1>1, <3>3, Recredited
  <2> QED
    BY Zenon, <2>1, <2>2
<1>5. /\ outbound' = {node.tag} /\ limiter' = Only(node.tag, Kept)
      /\ managed' = Emails(node.tag, job.users)
  BY ZenonT(40), <1>0, <1>2, <1>3 DEF CoreIs
<1>6. node' = node /\ users' = users /\ job' = job /\ Kept' = Kept
  BY ZenonT(40), <1>2 DEF Step, ctlVars, Gone, Kept, Deleted
<1>7. CoreIs(node, Creds(job.users), Only(node.tag, Kept), Emails(node.tag, job.users))'
  BY Zenon, <1>4, <1>5, <1>6 DEF CoreIs, Serving
<1> QED
  BY ZenonT(40), <1>0, <1>2, <1>7, FetchKept DEF CoreInv

(* UpdateInboundLimiter.                                                   *)
LEMMA LimitsInSync ==
  ASSUME OneInv, CoreInv, FetchInv, UpdateLimits
  PROVE  CoreInv' /\ FetchInv'
<1> DEFINE updated == New \cup Relimited
<1>0. /\ pc = "limits" /\ node.tag \in Tags /\ job.node = node /\ users \in UserLists
      /\ CoreIs(node, Creds(job.users), Only(node.tag, Kept), Emails(node.tag, job.users))
  BY ZenonT(40), NodeTags DEF UpdateLimits, OneInv, CoreInv, FetchInv
<1>1. /\ pc' = "publish" /\ Step /\ UNCHANGED <<inbound, outbound, managed>>
      /\ limiter' = IF limiter[node.tag] = None THEN limiter
           ELSE [limiter EXCEPT ![node.tag] =
                   {u \in @ : ~\E v \in updated : u.uid = v.uid} \cup updated]
  BY Zenon DEF UpdateLimits
<1>2. limiter = Only(node.tag, Kept) /\ limiter[node.tag] = Kept
  BY <1>0 DEF CoreIs, Only
<1>3. Kept # None
  <2>1. Kept \subseteq Users
    BY Zenon, <1>0 DEF Kept, Users
  <2> QED
    BY Zenon, <2>1, NoneIsNothing
<1>4. {u \in Kept : ~\E v \in updated : u.uid = v.uid} \cup updated = job.users
  BY ZenonT(40), <1>0, JobFacts
<1>5. limiter' = [limiter EXCEPT ![node.tag] = job.users]
  BY ZenonT(40), <1>1, <1>2, <1>3, <1>4
<1>6. limiter' = Only(node.tag, job.users)
  BY Zenon, <1>0, <1>2, <1>5 DEF Only
<1>7. CoreServes(job.node, job.users)'
  BY ZenonT(40), <1>0, <1>1, <1>6 DEF CoreServes, CoreIs, Step
<1> QED
  BY ZenonT(40), <1>0, <1>1, <1>7, FetchKept DEF CoreInv

(* The end of the node monitor.                                            *)
LEMMA PublishInSync ==
  ASSUME OneInv, CoreInv, FetchInv, Publish
  PROVE  CoreInv' /\ FetchInv'
<1>1. /\ pc = "publish" /\ pc' = "idle" /\ node' = job.node /\ users' = job.users
      /\ UNCHANGED <<kind, clientVars, coreVars>>
  BY Zenon DEF Publish, Return
<1>2. CoreServes(job.node, job.users)
  BY ZenonT(40), <1>1 DEF CoreInv
<1>3. CoreServes(node, users)'
  BY ZenonT(40), <1>1, <1>2 DEF CoreServes, CoreIs, coreVars
<1>4. FetchInv'
  BY Zenon, <1>1 DEF FetchInv, clientVars
<1> QED
  BY ZenonT(40), <1>1, <1>3, <1>4 DEF CoreInv

(* Every step keeps the invariant.                                         *)
LEMMA SyncInvStep == OneInv /\ SyncInv /\ [SyncNext]_syncVars => SyncInv'
<1> SUFFICES ASSUME OneInv, SyncInv, [SyncNext]_syncVars PROVE SyncInv'
  BY Zenon
<1>1. faults \in Nat /\ (faults' = faults \/ faults' = faults + 1)
  BY Zenon DEF SyncInv, SyncNext, Monitor, PanelChanges, StartNode, StartUsers, StartFails,
         MonitorNode, MonitorUsers, FetchFails, NoMultiUser, RemoveOldTag, RemoveOldTagFails,
         AddNewTag, AddNewTagFails, AddAllUsers, AddAllUsersFails, AddInboundLimiter,
         DeleteUsers, DeleteUsersFails, AddNewUsers, AddNewUsersFails, UpdateLimits,
         Publish, Fault, bounds, syncVars
<1> SUFFICES ASSUME faults' = 0 PROVE CoreInv' /\ FetchInv'
  BY <1>1 DEF SyncInv
<1>2. CoreInv /\ FetchInv /\ faults = 0 /\ ~Fault
  BY <1>1 DEF SyncInv, Fault
<1>3. CASE StartNode \/ StartUsers \/ StartFails
  BY Zenon, <1>2, <1>3, StartInSync
<1>4. CASE MonitorNode \/ MonitorUsers \/ FetchFails \/ NoMultiUser
  BY Zenon, <1>2, <1>4, FetchInSync
<1>5. CASE RemoveOldTag \/ RemoveOldTagFails \/ AddNewTag \/ AddAllUsers \/ AddInboundLimiter
  BY Zenon, <1>2, <1>5, NodeInSync
<1>6. CASE DeleteUsers \/ DeleteUsersFails
  BY Zenon, <1>2, <1>6, DeleteInSync
<1>7. CASE AddNewUsers
  BY Zenon, <1>2, <1>7, AddInSync
<1>8. CASE UpdateLimits
  BY Zenon, <1>2, <1>8, LimitsInSync
<1>9. CASE Publish
  BY <1>2, <1>9, PublishInSync
<1>10. CASE AddAllUsersFails
  BY Zenon, <1>2, <1>10 DEF AddAllUsersFails
<1>11. CASE AddNewUsersFails
  BY ZenonT(40), <1>2, <1>11, AddNewHasInbound DEF AddNewUsersFails
<1>12. CASE AddNewTagFails
  <2>1. pc = "add" /\ job.node.tag \in Tags /\ inbound[job.node.tag] # None
    BY ZenonT(40), <1>2, <1>12, NodeTags DEF AddNewTagFails, OneInv
  <2> QED
    BY Zenon, <2>1 DEF OneInv
<1>13. CASE PanelChanges \/ UNCHANGED syncVars
  <2>1. UNCHANGED <<kind, clientVars, ctlVars, coreVars, pc, job>>
    BY Zenon, <1>13 DEF PanelChanges, syncVars
  <2>2. FetchInv'
    BY ZenonT(40), <1>2, <2>1 DEF FetchInv, clientVars, ctlVars
  <2>3. CoreInv'
    <3>1. /\ UNCHANGED <<node, users, inbound, outbound, limiter, managed, pc, job>>
          /\ UNCHANGED <<Gone, Kept>>
      BY ZenonT(40), <2>1 DEF Gone, Kept, coreVars, ctlVars
    <3> QED
      BY ZenonT(40), <1>2, <3>1 DEF CoreInv, CoreServes, CoreIs
  <2> QED
    BY Zenon, <2>2, <2>3
<1> QED
  BY Zenon, <1>3, <1>4, <1>5, <1>6, <1>7, <1>8, <1>9, <1>10, <1>11, <1>12, <1>13
     DEF SyncNext, Monitor

(* What the core, the limiter and the registry have at each point of Start *)
(* and of the node monitor (controller.go), and that a node never has two  *)
(* inbounds: the inductive invariant.                                      *)
THEOREM SyncInvariant == SyncSpec => [](OneInv /\ SyncInv)
BY OneInvInit, OneInvStep, SyncInvInit, SyncInvStep, PTL DEF SyncSpec

(* After every run of the node monitor in which the core refused nothing,  *)
(* what is served is what the client fetched last, for any nodes, user     *)
(* lists and kinds of client (nodeInfoMonitor, compareUserList, GetUserList *)
(* and GetNodeInfo of the clients).                                        *)
THEOREM Synced == SyncSpec => []InSync
<1>1. SyncInv => InSync
  <2> SUFFICES ASSUME SyncInv, pc = "idle", faults = 0 PROVE InSync
    BY ZenonT(40) DEF InSync
  <2>1. users = last.users
    BY Zenon DEF SyncInv, FetchInv
  <2>2. CoreServes(node, users)
    BY ZenonT(40) DEF SyncInv, CoreInv
  <2> DEFINE entry == [net |-> node.net, creds |-> Creds(users), up |-> TRUE]
  <2>3. /\ inbound = Only(node.tag, entry) /\ outbound = {node.tag}
        /\ limiter = Only(node.tag, users) /\ managed = Emails(node.tag, users)
    BY <2>2 DEF CoreServes, CoreIs
  <2>4. ASSUME NEW x
        PROVE  Only(node.tag, x) = [t \in Tags |-> IF t # node.tag THEN None ELSE x]
    BY Zenon DEF Only
  <2>5. inbound = [t \in Tags |-> IF t # node.tag THEN None ELSE entry]
    BY ZenonT(40), <2>3, <2>4
  <2>6. limiter = [t \in Tags |-> IF t = node.tag THEN users ELSE None]
    BY <2>3 DEF Only
  <2> QED
    BY ZenonT(40), <2>1, <2>3, <2>5, <2>6 DEF InSync
<1> QED
  BY <1>1, SyncInvariant, PTL

(* Whoever can connect is known to the limiter with a record that has      *)
(* their credential, also in the middle of a run, but for the steps        *)
(* between addNewUser and the update of the limiter.                       *)
THEOREM Limited == SyncSpec => []ServedAreLimited
<1>1. OneInv /\ SyncInv => ServedAreLimited
  <2> SUFFICES ASSUME OneInv, SyncInv, faults = 0, pc \notin {"addLimiter", "limits"},
                      NEW t \in Tags, inbound[t] # None, inbound[t].creds # {}
               PROVE  limiter[t] # None /\ inbound[t].creds \subseteq Creds(limiter[t])
    BY Zenon DEF ServedAreLimited
  <2>0. CoreInv /\ FetchInv
    BY Zenon DEF SyncInv
  <2>1. ASSUME NEW n \in Nodes, NEW cs, NEW list \in SUBSET Users, cs \subseteq Creds(list),
               inbound = Serving(n, cs), limiter = Only(n.tag, list)
        PROVE  limiter[t] # None /\ inbound[t].creds \subseteq Creds(limiter[t])
    <3>1. t = n.tag
      BY ZenonT(40), <2>1 DEF Serving, Only
    <3>2. inbound[t].creds = cs
      BY ZenonT(40), <2>1, <3>1, ServingFacts
    <3>3. limiter[t] = list
      <4>1. Only(n.tag, list)[n.tag] = list
        BY ZenonT(40), NodeTags DEF Only
      <4> QED
        BY Zenon, <2>1, <3>1, <4>1
    <3> QED
      BY ZenonT(40), <2>1, <3>2, <3>3, NoneIsNothing
  <2>2. CASE pc \in {"start", "add"}
    BY Zenon, <2>0, <2>2 DEF OneInv
  <2>3. ASSUME NEW n \in Nodes, inbound = Serving(n, {}) PROVE FALSE
    <3>1. t = n.tag
      BY <2>3 DEF Serving, Only
    <3> QED
      BY ZenonT(40), <2>3, <3>1, ServingFacts
  <2>4. CASE pc = "startUsers"
    BY ZenonT(40), <2>0, <2>3, <2>4 DEF OneInv, CoreInv, CoreIs, Serving
  <2>5. CASE pc = "addAll"
    BY ZenonT(40), <2>0, <2>3, <2>5 DEF OneInv, CoreInv, CoreIs, Serving
  <2>6. CASE pc \in {"idle", "users", "remove", "delete"}
    <3>1. /\ node \in Nodes /\ users \in SUBSET Users
          /\ inbound = Serving(node, Creds(users)) /\ limiter = Only(node.tag, users)
      BY ZenonT(40), <2>0, <2>6 DEF OneInv, CoreInv, FetchInv, CoreServes, CoreIs, Serving,
         Users
    <3> QED
      BY ZenonT(40), <2>1, <3>1
  <2>7. CASE pc = "publish"
    <3>1. /\ job.node \in Nodes /\ job.users \in SUBSET Users
          /\ inbound = Serving(job.node, Creds(job.users))
          /\ limiter = Only(job.node.tag, job.users)
      BY ZenonT(40), <2>0, <2>7 DEF OneInv, CoreInv, FetchInv, CoreServes, CoreIs, Serving,
         Users
    <3> QED
      BY ZenonT(40), <2>1, <3>1
  <2>8. CASE pc = "addNew"
    <3>1. /\ node \in Nodes /\ Kept \in SUBSET Users
          /\ inbound = Serving(node, Creds(users) \ Creds(Gone))
          /\ limiter = Only(node.tag, Kept)
      BY ZenonT(40), <2>0, <2>8 DEF OneInv, CoreInv, FetchInv, CoreIs, Serving, Users, Kept
    <3>2. Creds(users) \ Creds(Gone) \subseteq Creds(Kept)
      BY ZenonT(40), <2>0, <2>8, JobFacts
    <3> QED
      BY ZenonT(40), <2>1, <3>1, <3>2
  <2> QED
    BY ZenonT(40), <2>2, <2>4, <2>5, <2>6, <2>7, <2>8 DEF OneInv, Places
<1> QED
  BY <1>1, SyncInvariant, PTL

-----------------------------------------------------------------------------
(* DeviceQuota, for any limits and any number of devices.                  *)

\* What LocalLimit returns, case by case.
LEMMA LocalLimitCases ==
  ASSUME NEW alive \in Nat, NEW mine \in Nat, deviceLimit \in Nat
  PROVE  LET q == LocalLimit(alive, mine)
             rest == deviceLimit - alive + mine
         IN  \/ ~(deviceLimit > 0 /\ alive > 0) /\ q = deviceLimit
             \/ deviceLimit > 0 /\ rest > 0 /\ q = rest
             \/ deviceLimit > 0 /\ mine > 0 /\ q = mine
             \/ deviceLimit > 0 /\ mine = 0 /\ rest <= 0 /\ q = Dropped
<1>1. CASE ~(deviceLimit > 0 /\ alive > 0)
  BY Zenon, <1>1 DEF LocalLimit
<1>2. CASE deviceLimit > 0 /\ alive > 0 /\ deviceLimit - alive + mine > 0
  BY Zenon, <1>2 DEF LocalLimit
<1>3. CASE deviceLimit > 0 /\ alive > 0 /\ ~(deviceLimit - alive + mine > 0)
  <2>1. CASE mine > 0
    BY <1>3, <2>1 DEF LocalLimit
  <2>2. CASE ~(mine > 0)
    <3>1. LocalLimit(alive, mine) = Dropped
      BY <1>3, <2>2 DEF LocalLimit
    <3>2. mine = 0 /\ deviceLimit - alive + mine <= 0
      BY <1>3, <2>2
    <3> QED
      BY <1>3, <3>1, <3>2
  <2> QED
    BY Zenon, <2>1, <2>2
<1> QED
  BY <1>1, <1>2, <1>3

\* The first state satisfies the invariant.
LEMMA QuotaInvInit == QuotaInit => QuotaInv
<1> SUFFICES ASSUME QuotaInit PROVE QuotaInv
  OBVIOUS
<1>1. 0 \in Devices
  BY DevicesNat DEF Devices
<1>2. QuotaTypeOK
  BY Zenon, <1>1 DEF QuotaInit, QuotaTypeOK
<1>3. served # Dropped
  BY ZenonT(40), DroppedIsNoLimit DEF QuotaInit
<1> QED
  BY <1>2, <1>3 DEF QuotaInit, QuotaInv, EvictedOnlyWhenFull, QuotaWithinLimit

\* ParseUserListResponse hands over the quota the invariant describes.
LEMMA ParseStep == QuotaInv /\ Parse => QuotaInv'
<1> SUFFICES ASSUME QuotaInv, Parse PROVE QuotaInv'
  OBVIOUS
<1> DEFINE alive == response.other + response.ours
           q == LocalLimit(alive, log)
<1>1. /\ response \in Response /\ log \in Devices
      /\ response.other \in Nat /\ response.ours \in Nat /\ log \in Nat
      /\ deviceLimit \in Nat /\ deviceLimit \in DeviceLimits
      /\ response.sound \in BOOLEAN
  BY SMTT(40), Z3T(40), LimitsAreNat, DevicesNat
     DEF QuotaInv, QuotaTypeOK, Response, Devices, Parse, deviceLimit
<1>2. /\ served' = q /\ log' = 0 /\ fresh' = FALSE /\ inStep' = FALSE
      /\ response' = Nil /\ posting = Nil
      /\ verdict' = [limit |-> deviceLimit, other |-> response.other,
                     ours |-> response.ours, sound |-> response.sound,
                     fresh |-> fresh]
      /\ UNCHANGED <<override, panelVars, posting>>
  BY DEF Parse, HandOver
<1>a. alive \in Nat
  BY SMTT(40), Z3T(40), <1>1
<1>b. \/ ~(deviceLimit > 0 /\ alive > 0) /\ q = deviceLimit
      \/ deviceLimit > 0 /\ deviceLimit - alive + log > 0 /\ q = deviceLimit - alive + log
      \/ deviceLimit > 0 /\ log > 0 /\ q = log
      \/ deviceLimit > 0 /\ log = 0 /\ deviceLimit - alive + log <= 0 /\ q = Dropped
  BY Zenon, <1>1, <1>a, LocalLimitCases
<1>3. /\ q \in Nat \cup {Dropped}
      /\ q = Dropped => log = 0 /\ alive >= deviceLimit
      /\ q # Dropped /\ deviceLimit > 0 =>
           q > 0 /\ (q <= deviceLimit - alive + log \/ q <= log \/ (alive = 0 /\ q = deviceLimit))
  <2> HIDE DEF q
  <2> QED
    BY SMTT(40), Z3T(40), <1>1, <1>a, <1>b, DroppedIsNoLimit
<1> HIDE DEF q
<1>4. /\ verdict' \in Verdict
      /\ verdict'.limit = deviceLimit /\ verdict'.other = response.other
      /\ verdict'.ours = response.ours /\ verdict'.sound = response.sound
      /\ verdict'.fresh = fresh
  BY Zenon, <1>1, <1>2 DEF QuotaInv, QuotaTypeOK, Verdict, Response
<1>5. online' \in Devices
  <2>1. online' = 0 \/ online' = online
    BY Zenon DEF Parse, HandOver
  <2>2. online \in Devices
    BY Zenon DEF QuotaInv, QuotaTypeOK
  <2>3. 0 \in Devices
    BY SMTT(40), Z3T(40), DevicesNat DEF Devices
  <2> QED
    BY Zenon, <2>1, <2>2, <2>3
<1>6. QuotaTypeOK'
  <2>1. QuotaTypeOK
    BY Zenon DEF QuotaInv
  <2>2. 0 \in Devices
    BY DevicesNat DEF Devices
  <2>3. served' \in Nat \cup {Dropped, Nil}
    BY Zenon, <1>2, <1>3
  <2> QED
    BY <1>2, <1>4, <1>5, <2>1, <2>2, <2>3, Zenon DEF QuotaTypeOK, panelVars
<1>7. response.sound => response.ours = log
  BY Zenon DEF QuotaInv, Parse
<1>8. EvictedOnlyWhenFull'
  BY SMTT(40), Z3T(40), <1>1, <1>2, <1>3, <1>4, <1>7 DEF EvictedOnlyWhenFull
<1>9. QuotaWithinLimit'
  <2>1. ~fresh => log = 0
    BY DEF QuotaInv
  <2> QED
    BY <1>1, <1>2, <1>3, <1>4, <1>7, <2>1 DEF QuotaWithinLimit
<1> QED
  BY <1>2, <1>6, <1>8, <1>9 DEF QuotaInv, panelVars

\* The other steps leave the verdict alone, or forget it.
LEMMA VerdictStands ==
  ASSUME EvictedOnlyWhenFull, QuotaWithinLimit, UNCHANGED <<served, verdict>>
  PROVE  EvictedOnlyWhenFull' /\ QuotaWithinLimit'
BY DEF EvictedOnlyWhenFull, QuotaWithinLimit

\* An answer is a record of its parts.
LEMMA AnswerFields ==
  ASSUME NEW l \in DeviceLimits, NEW n \in Devices, NEW m \in Devices, NEW s \in BOOLEAN
  PROVE  /\ Answer(l, n, m, s) \in Response
         /\ Answer(l, n, m, s).ours = m /\ Answer(l, n, m, s).sound = s
BY DEF Answer, Response

\* Every step of the client, the panel and the node keeps the invariant.
LEMMA QuotaInvStep == QuotaInv /\ [QuotaNext]_quotaVars => QuotaInv'
<1> SUFFICES ASSUME QuotaInv, [QuotaNext]_quotaVars PROVE QuotaInv'
  OBVIOUS
<1>a. EvictedOnlyWhenFull /\ QuotaWithinLimit
  BY DEF QuotaInv
<1>b. 0 \in Devices /\ Devices \subseteq Nat
  BY SMTT(40), Z3T(40), DevicesNat DEF Devices
<1>1. CASE CountChanges
  <2>1. UNCHANGED <<served, verdict>>
    BY Zenon, <1>1 DEF CountChanges
  <2>2. QuotaTypeOK'
    BY ZenonT(40), <1>1 DEF CountChanges, QuotaInv, QuotaTypeOK
  <2> QED
    BY <1>1, <1>a, <2>1, <2>2, VerdictStands DEF CountChanges, QuotaInv
<1>2. CASE PanelForgets
  <2>1. UNCHANGED <<served, verdict>>
    BY <1>2 DEF PanelForgets
  <2>2. QuotaTypeOK'
    BY Zenon, <1>2, <1>b DEF PanelForgets, QuotaInv, QuotaTypeOK
  <2> QED
    BY Zenon, <1>2, <1>a, <2>1, <2>2, VerdictStands DEF PanelForgets, QuotaInv
<1>3. CASE Connect
  <2>1. UNCHANGED <<served, verdict>>
    BY Zenon, <1>3 DEF Connect
  <2>2. online' \in Devices
    BY SMTT(40), Z3T(40), <1>3, DevicesNat DEF Connect, QuotaInv, QuotaTypeOK, Devices
  <2>3. QuotaTypeOK'
    BY <1>3, <2>2 DEF Connect, QuotaInv, QuotaTypeOK, panelVars
  <2> QED
    BY <1>3, <1>a, <2>1, <2>3, VerdictStands DEF Connect, QuotaInv, panelVars
<1>4. CASE Report
  <2>1. UNCHANGED <<served, verdict>>
    BY <1>4 DEF Report
  <2>2. /\ response' \in Response \cup {Nil}
        /\ response' # Nil => response'.sound = FALSE
    <3>1. CASE response = Nil
      BY <1>4, <3>1 DEF Report
    <3>2. CASE response # Nil
      <4>1. /\ response.limit \in DeviceLimits /\ response.other \in Devices
            /\ response.ours \in Devices
        BY <3>2 DEF QuotaInv, QuotaTypeOK, Response
      <4>2. response' = Answer(response.limit, response.other, response.ours, FALSE)
        BY Zenon, <1>4, <3>2 DEF Report
      <4>3. /\ Answer(response.limit, response.other, response.ours, FALSE) \in Response
            /\ Answer(response.limit, response.other, response.ours, FALSE).sound = FALSE
        BY <4>1 DEF Answer, Response
      <4> QED
        BY Zenon, <4>2, <4>3
    <3> QED
      BY Zenon, <3>1, <3>2
  <2>3. QuotaTypeOK'
    BY Zenon, <1>4, <1>b, <2>2 DEF Report, QuotaInv, QuotaTypeOK, panelVars
  <2> QED
    BY Zenon, <1>4, <1>a, <2>1, <2>2, <2>3, VerdictStands DEF Report, QuotaInv, panelVars
<1>5. CASE ReportSent
  <2>1. UNCHANGED <<served, verdict>>
    BY <1>5 DEF ReportSent
  <2>2. QuotaTypeOK'
    BY Zenon, <1>5 DEF ReportSent, QuotaInv, QuotaTypeOK
  <2> QED
    BY <1>5, <1>a, <2>1, <2>2, VerdictStands DEF ReportSent, QuotaInv
<1>6. CASE Fetch
  <2>1. UNCHANGED <<served, verdict>>
    BY Zenon, <1>6 DEF Fetch
  <2>2. /\ response' \in Response
        /\ response'.ours = ours /\ response'.sound = inStep
    BY SMTT(40), Z3T(40), <1>6, AnswerFields DEF Fetch, QuotaInv, QuotaTypeOK
  <2>3. QuotaTypeOK'
    BY <1>6, <2>2 DEF Fetch, QuotaInv, QuotaTypeOK, panelVars
  <2> QED
    BY <1>6, <1>a, <2>1, <2>2, <2>3, VerdictStands DEF Fetch, QuotaInv, panelVars
<1>7. CASE Parse
  BY Zenon, <1>7, ParseStep
<1>8. CASE ListFails
  <2>1. UNCHANGED <<served, verdict>>
    BY Zenon, <1>8 DEF ListFails
  <2>2. QuotaTypeOK'
    BY Zenon, <1>8 DEF ListFails, QuotaInv, QuotaTypeOK, panelVars
  <2> QED
    BY Zenon, <1>8, <1>a, <2>1, <2>2, VerdictStands
       DEF ListFails, QuotaInv, panelVars
<1>9. CASE Restart
  <2>1. QuotaTypeOK'
    BY Zenon, <1>9, <1>b DEF Restart, QuotaInv, QuotaTypeOK, panelVars
  <2>2. EvictedOnlyWhenFull' /\ QuotaWithinLimit'
    BY ZenonT(40), <1>9, DroppedIsNoLimit DEF Restart, EvictedOnlyWhenFull,
       QuotaWithinLimit
  <2> QED
    BY <1>9, <2>1, <2>2 DEF Restart, QuotaInv
<1>10. CASE UNCHANGED quotaVars
  <2>1. UNCHANGED <<served, verdict>>
    BY ZenonT(40), <1>10 DEF quotaVars
  <2>2. QuotaTypeOK'
    BY <1>10 DEF quotaVars, panelVars, QuotaInv, QuotaTypeOK
  <2> QED
    BY <1>10, <1>a, <2>1, <2>2, VerdictStands DEF quotaVars, panelVars, QuotaInv
<1> QED
  BY Zenon, <1>1, <1>2, <1>3, <1>4, <1>5, <1>6, <1>7, <1>8, <1>9, <1>10 DEF QuotaNext

\* The invariant of LastReportOnline, the report in flight and the list being
\* parsed holds always.
THEOREM QuotaInvariant == QuotaSpec => []QuotaInv
BY QuotaInvInit, QuotaInvStep, PTL DEF QuotaSpec

\* ParseUserListResponse leaves a user out only for devices elsewhere, or for
\* devices of this node of which the client no longer knows.
THEOREM Eviction == QuotaSpec => []EvictedOnlyWhenFull
<1>1. QuotaInv => EvictedOnlyWhenFull
  BY DEF QuotaInv
<1> QED
  BY <1>1, QuotaInvariant, PTL

\* The limit ParseUserListResponse hands over is positive and within what the
\* other nodes leave, but for devices this node has reported since.
THEOREM Quota == QuotaSpec => []QuotaWithinLimit
<1>1. QuotaInv => QuotaWithinLimit
  BY DEF QuotaInv
<1> QED
  BY <1>1, QuotaInvariant, PTL
=============================================================================
