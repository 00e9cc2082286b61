------------------------------ MODULE Limiter ------------------------------
(***************************************************************************)
(* The per-inbound limiter (common/limiter/limiter.go): the table of user  *)
(* limits, the shared token buckets and the online devices, used at once   *)
(* by the connections (GetUserBucket), the node monitor (Add, Update,      *)
(* Delete) and the user monitor (GetOnlineDevice).                         *)
(*                                                                         *)
(* One tag is modelled.  Its InboundInfo objects are the generations       *)
(* 1..MaxGens, because a call that loaded an object goes on using it after *)
(* it was replaced.  A section under a user's device lock is one step.     *)
(***************************************************************************)
EXTENDS Naturals, FiniteSets

CONSTANTS
  Users,       \* users of the inbound
  Sources,     \* source addresses
  Conns,       \* connections
  Speeds,      \* speed limits the panel may set, 0 for none
  Devices,     \* device limits the panel may set, 0 for none
  MaxGens,     \* bound on the InboundInfo objects made
  GlobalLimit, \* GlobalDeviceLimitConfig.Enable
  None         \* absent from a map

Gens == 1..MaxGens
UserLimits == [speed: Speeds, device: Devices]

ASSUME SpeedsNat == Speeds \subseteq Nat
ASSUME DevicesNat == Devices \subseteq Nat
ASSUME SizesFinite == IsFiniteSet(Users) /\ IsFiniteSet(Conns) /\ IsFiniteSet(Sources) /\ MaxGens \in Nat
ASSUME NoneIsAbsent == None \notin UserLimits /\ \A S \in SUBSET Sources : S # None

\* A bucket in use is in the hub or held by a connection, so these suffice.
Buckets == 1..(Cardinality(Conns) + Cardinality(Users) * MaxGens)

VARIABLES
  made,     \* number of InboundInfo objects made so far
  inbound,  \* the one Limiter.InboundInfo holds for the tag, 0 for none
  node,     \* NodeSpeedLimit of each object
  info,     \* UserInfo of each object
  hub,      \* BucketHub of each object: a bucket, or 0
  online,   \* UserOnlineIP of each object: the addresses, or None
  rate,     \* the limit and burst of each bucket
  conn,     \* each connection: its place in GetUserBucket and what it got
  scan,     \* GetOnlineDevice: its place, object, keys left, map in hand
  missing   \* history: devices admitted since their user's last report

tables == <<made, inbound, node, info, hub, online>>
limiterVars == <<tables, rate, conn, scan, missing>>

Place(at, gen, user, ip, bucket) ==
  [at |-> at, gen |-> gen, user |-> user, ip |-> ip, bucket |-> bucket]
Idle == Place("idle", 0, None, None, 0)
Conn == [at: {"idle", "loaded", "local", "open"}, gen: 0..MaxGens,
         user: Users \cup {None}, ip: Sources \cup {None}, bucket: {0} \cup Buckets]

\* The map Range hands to its callback: still the one in UserOnlineIP or not.
Map(user, live, ips) == [user |-> user, live |-> live, ips |-> ips]
Scan(at, gen, todo, map) == [at |-> at, gen |-> gen, todo |-> todo, map |-> map]
NoMap == Map(None, FALSE, {})
NoScan == Scan("idle", 0, {}, NoMap)

LimiterTypeOK ==
  /\ made \in 0..MaxGens /\ inbound \in 0..made
  /\ node \in [Gens -> Nat]
  /\ info \in [Gens \X Users -> UserLimits \cup {None}]
  /\ hub \in [Gens \X Users -> {0} \cup Buckets]
  /\ online \in [Gens \X Users -> (SUBSET Sources) \cup {None}]
  /\ rate \in [Buckets -> Nat]
  /\ conn \in [Conns -> Conn]
  /\ scan \in [at: {"idle", "buckets", "devices"}, gen: 0..MaxGens,
               todo: SUBSET Users,
               map: [user: Users \cup {None}, live: BOOLEAN, ips: SUBSET Sources]]
  /\ missing \in [Users -> SUBSET Sources]

LimiterInit ==
  /\ made = 0 /\ inbound = 0
  /\ node = [g \in Gens |-> 0]
  /\ info = [k \in Gens \X Users |-> None]
  /\ hub = [k \in Gens \X Users |-> 0]
  /\ online = [k \in Gens \X Users |-> None]
  /\ rate = [b \in Buckets |-> 0]
  /\ conn = [c \in Conns |-> Idle]
  /\ scan = NoScan
  /\ missing = [u \in Users |-> {}]

-----------------------------------------------------------------------------
(* determineRate: the smaller of two limits, where 0 is no limit.          *)

DetermineRate(n, u) ==
  IF n = 0 \/ u = 0 THEN n + u ELSE IF n < u THEN n ELSE u

InUse == {conn[c].bucket : c \in Conns} \cup {hub[k] : k \in Gens \X Users}
FreshBucket == CHOOSE b \in Buckets : b \notin InUse

-----------------------------------------------------------------------------
(* What the controller calls.                                              *)

\* Users of the list get their limits, all maps of the object start empty.
AddInboundLimiter(n, table) ==
  /\ made < MaxGens
  /\ made' = made + 1
  /\ inbound' = made'
  /\ node' = [node EXCEPT ![made'] = n]
  /\ info' = [k \in Gens \X Users |->
                IF k[1] = made' THEN table[k[2]] ELSE info[k]]
  /\ missing' = [u \in Users |-> {}]
  /\ UNCHANGED <<hub, online, rate, conn, scan>>

DeleteInboundLimiter ==
  /\ inbound # 0
  /\ inbound' = 0
  /\ missing' = [u \in Users |-> {}]
  /\ UNCHANGED <<made, node, info, hub, online, rate, conn, scan>>

\* Mutant: the bucket of a user who is no longer limited stays.
UpdateKeepsBucket(u, l) ==
  LET k == <<inbound, u>>
      limit == DetermineRate(node[inbound], l.speed)
  IN  /\ inbound # 0
      /\ info' = [info EXCEPT ![k] = l]
      /\ rate' = IF limit > 0 /\ hub[k] # 0
                   THEN [rate EXCEPT ![hub[k]] = limit] ELSE rate
      /\ UNCHANGED <<made, inbound, node, hub, online, conn, scan, missing>>

\* Mutant: the devices start anew with the new limit.
UpdateResetsDevices(u, l) ==
  LET k == <<inbound, u>>
  IN  /\ inbound # 0
      /\ info' = [info EXCEPT ![k] = l]
      /\ hub' = [hub EXCEPT ![k] = 0]
      /\ online' = [online EXCEPT ![k] = None]
      /\ UNCHANGED <<made, inbound, node, rate, conn, scan, missing>>

\* One user of the list, under its lock.
UpdateInboundLimiter(u, l) ==
  LET k == <<inbound, u>>
      limit == DetermineRate(node[inbound], l.speed)
  IN  /\ inbound # 0
      /\ info' = [info EXCEPT ![k] = l]
      /\ rate' = IF limit > 0 /\ hub[k] # 0
                   THEN [rate EXCEPT ![hub[k]] = limit] ELSE rate
      /\ hub' = IF limit > 0 THEN hub ELSE [hub EXCEPT ![k] = 0]
      /\ UNCHANGED <<made, inbound, node, online, conn, scan, missing>>

\* A map the scan has in hand is no longer the user's once it is deleted.
Detached(k) ==
  IF scan.gen = k[1] /\ scan.map.user = k[2] /\ scan.map.live
    THEN Scan(scan.at, scan.gen, scan.todo, Map(scan.map.user, FALSE, online[k]))
    ELSE scan

\* Mutant: the devices of the user stay.
DeleteKeepsDevices(u) ==
  LET k == <<inbound, u>>
  IN  /\ inbound # 0
      /\ info' = [info EXCEPT ![k] = None]
      /\ hub' = [hub EXCEPT ![k] = 0]
      /\ missing' = [missing EXCEPT ![u] = {}]
      /\ UNCHANGED <<made, inbound, node, online, rate, conn, scan>>

\* One user of the list, under its lock.
DeleteInboundLimiterUsers(u) ==
  LET k == <<inbound, u>>
  IN  /\ inbound # 0
      /\ info' = [info EXCEPT ![k] = None]
      /\ hub' = [hub EXCEPT ![k] = 0]
      /\ online' = [online EXCEPT ![k] = None]
      /\ scan' = Detached(k)
      /\ missing' = [missing EXCEPT ![u] = {}]
      /\ UNCHANGED <<made, inbound, node, rate, conn>>

-----------------------------------------------------------------------------
(* GetUserBucket, called for each new connection.                          *)

\* Load of the tag's object; without one the connection is not limited.
Dial(c, u, i) ==
  /\ conn[c].at = "idle"
  /\ conn' = [conn EXCEPT ![c] =
       Place(IF inbound = 0 THEN "open" ELSE "loaded", inbound, u, i, 0)]
  /\ UNCHANGED <<tables, rate, scan, missing>>

Addresses(k) == IF online[k] = None THEN {} ELSE online[k]

\* Mutant: off by one.
DeviceRejectedLate(k, i) ==
  LET limit == info[k].device
  IN  i \notin Addresses(k) /\ limit > 0 /\ Cardinality(Addresses(k)) > limit

DeviceRejected(k, i) ==
  LET limit == info[k].device
  IN  i \notin Addresses(k) /\ limit > 0 /\ Cardinality(Addresses(k)) >= limit

Opened(c) == Place("open", conn[c].gen, conn[c].user, conn[c].ip, conn[c].bucket)
AfterLocal == IF GlobalLimit THEN "local" ELSE "open"

LocalUnknown(c) ==
  LET k == <<conn[c].gen, conn[c].user>>
  IN  /\ conn[c].at = "loaded" /\ info[k] = None
      /\ conn' = [conn EXCEPT ![c] = Opened(c)]
      /\ UNCHANGED <<tables, rate, scan, missing>>

LocalReject(c) ==
  LET k == <<conn[c].gen, conn[c].user>>
  IN  /\ conn[c].at = "loaded" /\ info[k] # None
      /\ DeviceRejected(k, conn[c].ip)
      /\ conn' = [conn EXCEPT ![c] = Idle]
      /\ UNCHANGED <<tables, rate, scan, missing>>

\* History: the device is owed to the report of the tag's own object.
Owed(g, u, i) ==
  IF g = inbound THEN [missing EXCEPT ![u] = @ \cup {i}] ELSE missing

LocalAdmit(c) ==
  LET g == conn[c].gen
      u == conn[c].user
      k == <<g, u>>
      limit == DetermineRate(node[g], info[k].speed)
      fresh == FreshBucket
      bucket == IF limit = 0 THEN 0 ELSE IF hub[k] # 0 THEN hub[k] ELSE fresh
  IN  /\ conn[c].at = "loaded" /\ info[k] # None
      /\ ~DeviceRejected(k, conn[c].ip)
      /\ online' = [online EXCEPT ![k] = Addresses(k) \cup {conn[c].ip}]
      /\ conn' = [conn EXCEPT ![c] = Place(AfterLocal, g, u, conn[c].ip, bucket)]
      /\ hub' = IF bucket = fresh THEN [hub EXCEPT ![k] = fresh] ELSE hub
      /\ rate' = IF bucket = fresh THEN [rate EXCEPT ![fresh] = limit] ELSE rate
      /\ missing' = Owed(g, u, conn[c].ip)
      /\ UNCHANGED <<made, inbound, node, info, scan>>

\* globalLimit runs outside the lock; what it decides is GlobalDevices' part.
GlobalAdmit(c) ==
  /\ conn[c].at = "local"
  /\ conn' = [conn EXCEPT ![c] = Opened(c)]
  /\ UNCHANGED <<tables, rate, scan, missing>>

GlobalReject(c) ==
  /\ conn[c].at = "local"
  /\ conn' = [conn EXCEPT ![c] = Idle]
  /\ UNCHANGED <<tables, rate, scan, missing>>

Hangup(c) ==
  /\ conn[c].at = "open"
  /\ conn' = [conn EXCEPT ![c] = Idle]
  /\ UNCHANGED <<tables, rate, scan, missing>>

-----------------------------------------------------------------------------
(* GetOnlineDevice, called by the user monitor.                            *)

ScanStart ==
  /\ scan.at = "idle" /\ inbound # 0
  /\ scan' = Scan("buckets", inbound, Users, NoMap)
  /\ UNCHANGED <<tables, rate, conn, missing>>

\* Range over BucketHub: buckets of users without devices are dropped.
SweepBucket(u) ==
  LET k == <<scan.gen, u>>
  IN  /\ scan.at = "buckets" /\ u \in scan.todo /\ hub[k] # 0
      /\ hub' = IF online[k] = None THEN [hub EXCEPT ![k] = 0] ELSE hub
      /\ scan' = Scan("buckets", scan.gen, scan.todo \ {u}, NoMap)
      /\ UNCHANGED <<made, inbound, node, info, online, rate, conn, missing>>

SweepEnd ==
  /\ scan.at = "buckets"
  /\ \A u \in scan.todo : hub[<<scan.gen, u>>] = 0
  /\ scan' = Scan("devices", scan.gen, Users, NoMap)
  /\ UNCHANGED <<tables, rate, conn, missing>>

\* Range over UserOnlineIP loads the map before the callback locks the user.
VisitDevices(u) ==
  /\ scan.at = "devices" /\ scan.map = NoMap
  /\ u \in scan.todo /\ online[<<scan.gen, u>>] # None
  /\ scan' = Scan("devices", scan.gen, scan.todo \ {u}, Map(u, TRUE, {}))
  /\ UNCHANGED <<tables, rate, conn, missing>>

\* The addresses of the map in hand are reported, the user's entry deleted.
\* History: with a map that was deleted meanwhile, the entry that took its
\* place goes unreported.
CollectDevices ==
  LET u == scan.map.user
      k == <<scan.gen, u>>
      ips == IF scan.map.live THEN online[k] ELSE scan.map.ips
  IN  /\ scan.at = "devices" /\ scan.map # NoMap
      /\ online' = [online EXCEPT ![k] = None]
      /\ scan' = Scan("devices", scan.gen, scan.todo, NoMap)
      /\ missing' = IF scan.gen = inbound
                      THEN [missing EXCEPT ![u] =
                              IF scan.map.live THEN @ \ ips ELSE {}]
                      ELSE missing
      /\ UNCHANGED <<made, inbound, node, info, hub, rate, conn>>

ScanEnd ==
  /\ scan.at = "devices" /\ scan.map = NoMap
  /\ \A u \in scan.todo : online[<<scan.gen, u>>] = None
  /\ scan' = NoScan
  /\ UNCHANGED <<tables, rate, conn, missing>>
-----------------------------------------------------------------------------
NextLimiter ==
  \/ \E n \in Speeds, t \in [Users -> UserLimits \cup {None}] : AddInboundLimiter(n, t)
  \/ DeleteInboundLimiter
  \/ \E u \in Users, l \in UserLimits : UpdateInboundLimiter(u, l)
  \/ \E u \in Users : DeleteInboundLimiterUsers(u)
  \/ \E c \in Conns, u \in Users, i \in Sources : Dial(c, u, i)
  \/ \E c \in Conns : LocalUnknown(c)
  \/ \E c \in Conns : LocalReject(c)
  \/ \E c \in Conns : LocalAdmit(c)
  \/ \E c \in Conns : GlobalAdmit(c)
  \/ \E c \in Conns : GlobalReject(c)
  \/ \E c \in Conns : Hangup(c)
  \/ ScanStart
  \/ \E u \in Users : SweepBucket(u)
  \/ SweepEnd
  \/ \E u \in Users : VisitDevices(u)
  \/ CollectDevices
  \/ ScanEnd

LimiterSpec == LimiterInit /\ [][NextLimiter]_limiterVars

-----------------------------------------------------------------------------
(* Deleting a user while connections are in GetUserBucket leaves nothing   *)
(* behind (DeleteInboundLimiterUsers): buckets and devices are only kept   *)
(* for users that have limits.                                             *)
RuntimeStateIsKnown ==
  \A k \in Gens \X Users : info[k] = None => hub[k] = 0 /\ online[k] = None

(* The bucket new connections are given always has the limit the panel set *)
(* last, the smaller of the node's and the user's (UpdateInboundLimiter    *)
(* adjusts or drops it), and it is no bucket of another user.              *)
HubHasTheLimit ==
  \A k \in Gens \X Users : hub[k] # 0 =>
    /\ rate[hub[k]] = DetermineRate(node[k[1]], info[k].speed)
    /\ rate[hub[k]] > 0
    /\ \A j \in Gens \X Users : hub[j] = hub[k] => j = k

(* However connections, reports and updates interleave, an address joins a *)
(* user's online devices only within the device limit (GetUserBucket).     *)
DevicesWithinLimit ==
  [][\A k \in Gens \X Users :
       online'[k] # None /\ ~(online'[k] \subseteq Addresses(k)) =>
         info[k].device = 0 \/ Cardinality(online'[k]) <= info[k].device]_limiterVars

(* A device admitted since the user's last report is still among the       *)
(* online devices, so that the next GetOnlineDevice reports it.  The       *)
(* exception is a device admitted after its user was deleted under a       *)
(* GetOnlineDevice that had the user's map in hand: that report is taken   *)
(* to be the device's (CollectDevices).                                    *)
NoDeviceIsLost ==
  inbound # 0 => \A u \in Users : missing[u] \subseteq Addresses(<<inbound, u>>)
-----------------------------------------------------------------------------
(* What the properties rest on: what a call in progress has in hand.       *)
CallsInv ==
  /\ \A k \in Gens \X Users : k[1] > made => info[k] = None
  /\ \A c \in Conns : conn[c].at = "loaded" =>
       conn[c].gen \in 1..made /\ conn[c].user \in Users /\ conn[c].ip \in Sources /\ conn[c].bucket = 0
  /\ scan.at # "idle" => scan.gen \in 1..made
  /\ scan.map # NoMap => scan.at = "devices" /\ scan.map.user \in Users
  /\ scan.map.live => online[<<scan.gen, scan.map.user>>] # None

LimiterInv ==
  LimiterTypeOK /\ CallsInv /\ RuntimeStateIsKnown /\ HubHasTheLimit /\ NoDeviceIsLost
=============================================================================
