--------------------------- MODULE LimiterProofs ---------------------------
(***************************************************************************)
(* Proofs about Limiter, for any number of users, addresses, connections,  *)
(* reports, inbound objects and limits.  The inductive invariant LimiterInv*)
(* adds to the types what each call in progress holds on to: the map or the*)
(* bucket it read before and will write to later.                          *)
(***************************************************************************)
EXTENDS Limiter, FiniteSetTheorems, TLAPS

\* The keys of the per-user tables: an inbound object and a user.
Keys == Gens \X Users

(* A limit is a number of bytes.                                           *)
LEMMA RateType ==
  ASSUME NEW n \in Nat, NEW u \in Nat
  PROVE  DetermineRate(n, u) \in Nat
BY SMTT(40) DEF DetermineRate

Fields == [at: {"idle", "buckets", "devices"}, gen: 0..MaxGens, todo: SUBSET Users,
           map: [user: Users \cup {None}, live: BOOLEAN, ips: SUBSET Sources]]

\* What the calls of the connections leave alone.
TableInv == RuntimeStateIsKnown /\ HubHasTheLimit /\ NoDeviceIsLost

(* They hold as long as nobody touches the tables.                         *)
LEMMA TablesUnchanged ==
  ASSUME TableInv, UNCHANGED <<tables, rate, missing>>
  PROVE  TableInv'
BY DEF TableInv, RuntimeStateIsKnown, HubHasTheLimit, NoDeviceIsLost, tables, Addresses

\* A step of a connection that does not touch the tables.
Talks(c) == \/ \E u \in Users, i \in Sources : Dial(c, u, i)
            \/ LocalUnknown(c) \/ LocalReject(c) \/ GlobalAdmit(c) \/ GlobalReject(c) \/ Hangup(c)

(* A connection that only moves on.                                        *)
LEMMA TalksInv ==
  ASSUME LimiterInv, NEW c \in Conns, Talks(c)
  PROVE  LimiterInv'
<1>1. UNCHANGED <<tables, rate, scan, missing>>
  BY DEF Talks, Dial, LocalUnknown, LocalReject, GlobalAdmit, GlobalReject, Hangup
<1>2. TableInv'
  BY Zenon, <1>1, TablesUnchanged DEF LimiterInv, TableInv
<1>3. conn \in [Conns -> Conn] /\ conn[c] \in Conn /\ made \in 0..MaxGens /\ inbound \in 0..made
  BY DEF LimiterInv, LimiterTypeOK
<1>4. /\ conn[c].gen \in 0..MaxGens /\ conn[c].user \in Users \cup {None}
      /\ conn[c].ip \in Sources \cup {None} /\ conn[c].bucket \in {0} \cup Buckets
  BY Zenon, <1>3 DEF Conn
<1>5. PICK p \in Conn : /\ conn' = [conn EXCEPT ![c] = p]
                        /\ p.at = "loaded" => p.gen \in 1..made /\ p.user \in Users /\ p.ip \in Sources /\ p.bucket = 0
  <2>1. CASE \E u \in Users, i \in Sources : Dial(c, u, i)
    <3>1. PICK u \in Users, i \in Sources : Dial(c, u, i)
      BY <2>1
    <3> DEFINE p == Place(IF inbound = 0 THEN "open" ELSE "loaded", inbound, u, i, 0)
    <3>2. inbound \in 0..MaxGens /\ (inbound # 0 => inbound \in 1..made)
      BY <1>3, SizesFinite
    <3>3. p \in Conn /\ p.at = (IF inbound = 0 THEN "open" ELSE "loaded")
          /\ p.gen = inbound /\ p.user = u /\ p.ip = i /\ p.bucket = 0
      BY <3>2 DEF Place, Conn
    <3>4. conn' = [conn EXCEPT ![c] = p]
      BY Zenon, <3>1 DEF Dial
    <3> HIDE DEF p
    <3> QED
      BY ZenonT(40), <3>2, <3>3, <3>4
  <2>2. CASE LocalUnknown(c) \/ GlobalAdmit(c)
    <3>1. Opened(c) \in Conn /\ Opened(c).at = "open"
      BY Zenon, <1>4 DEF Opened, Place, Conn
    <3> QED
      BY Zenon, <2>2, <3>1 DEF LocalUnknown, GlobalAdmit
  <2>3. CASE LocalReject(c) \/ GlobalReject(c) \/ Hangup(c)
    <3>0. 0 \in 0..MaxGens
      BY SMTT(40), SizesFinite
    <3>1. Idle \in Conn /\ Idle.at = "idle"
      BY <3>0 DEF Idle, Place, Conn
    <3> QED
      BY Zenon, <2>3, <3>1 DEF LocalReject, GlobalReject, Hangup
  <2> QED
    BY Zenon, <2>1, <2>2, <2>3 DEF Talks
<1>6. conn' \in [Conns -> Conn] /\ \A d \in Conns : conn'[d] = IF d = c THEN p ELSE conn[d]
  BY Zenon, <1>3, <1>5
<1>7. LimiterTypeOK'
  BY Zenon, <1>1, <1>6 DEF LimiterInv, LimiterTypeOK, tables
<1>8. CallsInv'
  BY Zenon, <1>1, <1>5, <1>6 DEF LimiterInv, CallsInv, tables
<1> QED
  BY Zenon, <1>2, <1>7, <1>8 DEF LimiterInv, TableInv

\* A step of the report that does not touch the tables.
Looks == ScanStart \/ SweepEnd \/ (\E u \in Users : VisitDevices(u)) \/ ScanEnd

(* Types of what a report has in hand.                                     *)
LEMMA ScanFacts ==
  ASSUME LimiterTypeOK
  PROVE  /\ scan.at \in {"idle", "buckets", "devices"} /\ scan.gen \in 0..MaxGens
         /\ scan.todo \in SUBSET Users /\ scan.map.user \in Users \cup {None}
         /\ scan.map.live \in BOOLEAN /\ scan.map.ips \in SUBSET Sources
         /\ NoMap = Map(None, FALSE, {}) /\ NoMap.live = FALSE
BY DEF LimiterTypeOK, NoMap, Map

(* A report that only moves on.                                            *)
LEMMA LooksInv ==
  ASSUME LimiterInv, Looks
  PROVE  LimiterInv'
<1>1. UNCHANGED <<tables, rate, conn, missing>>
  BY ZenonT(40) DEF Looks, ScanStart, SweepEnd, VisitDevices, ScanEnd
<1>2. TableInv'
  BY Zenon, <1>1, TablesUnchanged DEF LimiterInv, TableInv
<1>3. LimiterTypeOK /\ CallsInv /\ inbound \in 0..made /\ made \in 0..MaxGens
  BY DEF LimiterInv, LimiterTypeOK
<1>4. /\ scan' \in Fields
      /\ scan'.at # "idle" => scan'.gen \in 1..made
      /\ scan'.map # NoMap => scan'.at = "devices" /\ scan'.map.user \in Users
      /\ scan'.map.live => online[<<scan'.gen, scan'.map.user>>] # None
  <2>1. CASE ScanStart
    <3>1. inbound \in 1..made /\ inbound \in 0..MaxGens
      BY SMTT(40), <1>3, <2>1, SizesFinite DEF ScanStart
    <3>2. scan' = Scan("buckets", inbound, Users, Map(None, FALSE, {}))
      BY Zenon, <2>1 DEF ScanStart, NoMap
    <3>3. scan' \in Fields /\ scan'.gen = inbound /\ scan'.map = NoMap /\ scan'.map.live = FALSE
      BY Zenon, <3>1, <3>2 DEF NoMap, Map, Scan, Fields
    <3> QED
      BY Zenon, <3>1, <3>3
  <2>2. CASE SweepEnd
    <3>1. scan.gen \in 1..made /\ scan.gen \in 0..MaxGens
      BY Zenon, <1>3, <2>2, ScanFacts DEF SweepEnd, CallsInv
    <3>2. scan' = Scan("devices", scan.gen, Users, Map(None, FALSE, {}))
      BY Zenon, <2>2 DEF SweepEnd, NoMap
    <3>3. scan' \in Fields /\ scan'.gen = scan.gen /\ scan'.map = NoMap /\ scan'.map.live = FALSE
      BY Zenon, <3>1, <3>2 DEF NoMap, Map, Scan, Fields
    <3> QED
      BY Zenon, <3>1, <3>3
  <2>3. ASSUME NEW u \in Users, VisitDevices(u)
        PROVE  /\ scan' \in Fields
               /\ scan'.at # "idle" => scan'.gen \in 1..made
               /\ scan'.map # NoMap => scan'.at = "devices" /\ scan'.map.user \in Users
               /\ scan'.map.live => online[<<scan'.gen, scan'.map.user>>] # None
    <3>1. scan.gen \in 1..made /\ scan.gen \in 0..MaxGens /\ scan.todo \ {u} \in SUBSET Users
      BY <1>3, <2>3, ScanFacts DEF VisitDevices, CallsInv
    <3>2. scan' = Scan("devices", scan.gen, scan.todo \ {u}, Map(u, TRUE, {}))
      BY Zenon, <2>3 DEF VisitDevices
    <3>3. /\ scan' \in Fields /\ scan'.gen = scan.gen /\ scan'.at = "devices"
          /\ scan'.map.user = u
      BY <3>1, <3>2 DEF Map, Scan, Fields
    <3> QED
      BY ZenonT(40), <2>3, <3>1, <3>3 DEF VisitDevices
  <2>4. CASE ScanEnd
    <3>1. 0 \in 0..MaxGens /\ {} \in SUBSET Users
      BY SizesFinite
    <3>2. scan' = Scan("idle", 0, {}, Map(None, FALSE, {}))
      BY Zenon, <2>4 DEF ScanEnd, NoScan, NoMap
    <3>3. scan' \in Fields /\ scan'.at = "idle" /\ scan'.map = NoMap /\ scan'.map.live = FALSE
      BY Zenon, <3>1, <3>2 DEF NoMap, Map, Scan, Fields
    <3> QED
      BY <3>3
  <2> QED
    BY Zenon, <2>1, <2>2, <2>3, <2>4 DEF Looks
<1>5. LimiterTypeOK'
  BY Zenon, <1>1, <1>4 DEF LimiterInv, LimiterTypeOK, tables, Fields
<1>6. CallsInv'
  BY <1>1, <1>4 DEF LimiterInv, CallsInv, tables
<1> QED
  BY Zenon, <1>2, <1>5, <1>6 DEF LimiterInv, TableInv

(* A key is an object and a user.                                          *)
LEMMA KeyShape ==
  ASSUME NEW k \in Keys
  PROVE  k[1] \in Gens /\ k[2] \in Users /\ k = <<k[1], k[2]>>
BY DEF Keys

(* The limits in the table.                                                *)
LEMMA InfoFacts ==
  ASSUME NEW l \in UserLimits
  PROVE  l.speed \in Nat /\ l.device \in Nat /\ l # None
BY ZenonT(40), SpeedsNat, DevicesNat, NoneIsAbsent DEF UserLimits

(* A new object has empty maps, since no call could reach it before.       *)
LEMMA AddInv ==
  ASSUME LimiterInv, NEW n \in Speeds, NEW table \in [Users -> UserLimits \cup {None}],
         AddInboundLimiter(n, table)
  PROVE  LimiterInv'
<1> USE DEF LimiterInv
<1>0. /\ made \in Nat /\ made < MaxGens /\ made' = made + 1 /\ inbound' = made'
      /\ UNCHANGED <<hub, online, rate, conn, scan>> /\ missing' = [u \in Users |-> {}]
      /\ n \in Nat /\ made' \in Gens /\ made' \in 0..MaxGens /\ inbound' \in 0..made'
  BY SizesFinite, SpeedsNat DEF AddInboundLimiter, LimiterTypeOK, Gens
<1>1. /\ node' \in [Gens -> Nat]
      /\ \A g \in Gens : g # made' => node'[g] = node[g]
  BY Zenon, <1>0 DEF AddInboundLimiter, LimiterTypeOK
<1>2. /\ info' \in [Keys -> UserLimits \cup {None}]
      /\ \A k \in Keys : k[1] # made' => info'[k] = info[k]
  <2>1. info' = [k \in Keys |-> IF k[1] = made' THEN table[k[2]] ELSE info[k]]
    BY Zenon DEF AddInboundLimiter, Keys
  <2>2. \A k \in Keys : table[k[2]] \in UserLimits \cup {None} /\ info[k] \in UserLimits \cup {None}
    BY Zenon, KeyShape DEF LimiterTypeOK, Keys
  <2> QED
    BY Zenon, <2>1, <2>2
<1>3. \A k \in Keys : k[1] = made' => hub[k] = 0 /\ online[k] = None
  BY SMTT(40), <1>0 DEF CallsInv, RuntimeStateIsKnown, Keys
<1>4. LimiterTypeOK'
  BY Zenon, <1>0, <1>1, <1>2 DEF LimiterTypeOK, Keys
<1>5. CallsInv'
  <2>1. \A k \in Keys : k[1] > made' => info'[k] = None
    <3> SUFFICES ASSUME NEW k \in Keys, k[1] > made' PROVE info'[k] = None
      OBVIOUS
    <3>1. k[1] \in Nat
      BY KeyShape DEF Gens
    <3>2. k[1] # made' /\ k[1] > made
      BY SMTT(40), <1>0, <3>1
    <3> QED
      BY Zenon, <1>2, <3>2 DEF CallsInv, Keys
  <2>2. \A g \in 1..made : g \in 1..made'
    BY SMTT(40), <1>0
  <2> QED
    BY Zenon, <1>0, <2>1, <2>2 DEF CallsInv, Keys
<1>6. RuntimeStateIsKnown'
  BY Zenon, <1>0, <1>2, <1>3 DEF RuntimeStateIsKnown, Keys
<1>7. HubHasTheLimit'
  <2>1. \A k \in Keys : hub[k] # 0 => /\ info'[k] = info[k] /\ node'[k[1]] = node[k[1]]
    BY Zenon, <1>1, <1>2, <1>3, KeyShape
  <2> QED
    BY ZenonT(40), <1>0, <2>1 DEF HubHasTheLimit, Keys
<1>8. NoDeviceIsLost'
  BY <1>0 DEF NoDeviceIsLost
<1> QED
  BY ZenonT(40), <1>4, <1>5, <1>6, <1>7, <1>8

(* Without an inbound nothing is owed.                                     *)
LEMMA DeleteInv ==
  ASSUME LimiterInv, DeleteInboundLimiter
  PROVE  LimiterInv'
<1> USE DEF LimiterInv
<1>0. /\ UNCHANGED <<made, node, info, hub, online, rate, conn, scan>>
      /\ inbound' = 0 /\ missing' = [u \in Users |-> {}]
  BY Zenon DEF DeleteInboundLimiter
<1>1. LimiterTypeOK'
  BY SMTT(40), <1>0 DEF LimiterTypeOK
<1>2. CallsInv'
  BY Zenon, <1>0 DEF CallsInv
<1>3. RuntimeStateIsKnown' /\ HubHasTheLimit' /\ NoDeviceIsLost'
  BY <1>0 DEF RuntimeStateIsKnown, HubHasTheLimit, NoDeviceIsLost
<1> QED
  BY Zenon, <1>1, <1>2, <1>3

(* An update adjusts the user's bucket or drops it.                        *)
LEMMA UpdateInv ==
  ASSUME LimiterInv, NEW u \in Users, NEW l \in UserLimits, UpdateInboundLimiter(u, l)
  PROVE  LimiterInv'
<1> USE DEF LimiterInv
<1> DEFINE k == <<inbound, u>>
           limit == DetermineRate(node[inbound], l.speed)
<1>0. /\ inbound # 0 /\ UNCHANGED <<made, inbound, node, online, conn, scan, missing>>
      /\ info' = [info EXCEPT ![k] = l]
      /\ rate' = (IF limit > 0 /\ hub[k] # 0 THEN [rate EXCEPT ![hub[k]] = limit] ELSE rate)
      /\ hub' = (IF limit > 0 THEN hub ELSE [hub EXCEPT ![k] = 0])
  BY Zenon DEF UpdateInboundLimiter
<1>1. inbound \in Gens /\ inbound \in 1..made /\ k \in Keys
  BY SMTT(40), <1>0, SizesFinite DEF LimiterTypeOK, Gens, Keys
<1>2. limit \in Nat /\ l # None
  <2>1. node[inbound] \in Nat /\ l.speed \in Nat /\ l # None
    BY <1>1, InfoFacts DEF LimiterTypeOK
  <2> QED
    BY ZenonT(40), <2>1, RateType
<1>a. k[1] = inbound /\ k[2] = u
  BY Zenon
<1> HIDE DEF k, limit
<1>3. /\ info' \in [Keys -> UserLimits \cup {None}] /\ info'[k] = l
      /\ \A j \in Keys : j # k => info'[j] = info[j]
  BY ZenonT(40), <1>0, <1>1 DEF LimiterTypeOK, Keys
<1>4. /\ hub' \in [Keys -> {0} \cup Buckets] /\ (limit = 0 => hub'[k] = 0)
      /\ (limit > 0 => hub' = hub) /\ \A j \in Keys : j # k => hub'[j] = hub[j]
  BY SMTT(40), Z3T(40), <1>0, <1>1, <1>2 DEF LimiterTypeOK, Keys
<1>5. hub[k] # 0 => hub[k] \in Buckets
  BY Zenon, <1>1 DEF LimiterTypeOK, Keys
<1>6. /\ rate' \in [Buckets -> Nat]
      /\ limit > 0 /\ hub[k] # 0 => rate'[hub[k]] = limit
      /\ \A b \in Buckets : b # hub[k] => rate'[b] = rate[b]
  BY Zenon, <1>0, <1>2, <1>5 DEF LimiterTypeOK
<1>7. LimiterTypeOK'
  BY Zenon, <1>0, <1>3, <1>4, <1>6 DEF LimiterTypeOK, Keys
<1>8. CallsInv'
  <2>1. ~(k[1] > made)
    BY SMTT(40), <1>1, <1>a DEF LimiterTypeOK
  <2>2. \A j \in Keys : j[1] > made => info'[j] = None
    BY Zenon, <1>3, <2>1 DEF CallsInv, Keys
  <2> QED
    BY Zenon, <1>0, <2>2 DEF CallsInv, Keys
<1>9. RuntimeStateIsKnown'
  BY Zenon, <1>0, <1>2, <1>3, <1>4 DEF RuntimeStateIsKnown, Keys
<1>10. HubHasTheLimit'
  <2> SUFFICES ASSUME NEW j \in Keys, hub'[j] # 0
               PROVE  /\ rate'[hub'[j]] = DetermineRate(node[j[1]], info'[j].speed)
                      /\ rate'[hub'[j]] > 0
                      /\ \A i \in Keys : hub'[i] = hub'[j] => i = j
    BY <1>0 DEF HubHasTheLimit, Keys
  <2>1. \A i \in Keys : hub'[i] # 0 => hub'[i] = hub[i]
    BY SMTT(40), <1>2, <1>4
  <2>2. \A i \in Keys : hub'[i] = hub'[j] => i = j
    BY Zenon, <2>1 DEF HubHasTheLimit, Keys
  <2>3. CASE j = k
    <3>1. limit > 0 /\ hub'[k] = hub[k] /\ hub[k] # 0
      BY SMTT(40), <1>2, <1>4, <2>3
    <3>2. rate'[hub'[k]] = limit
      BY Zenon, <1>6, <3>1
    <3>3. limit = DetermineRate(node[k[1]], info'[k].speed)
      BY Zenon, <1>3, <1>a DEF limit
    <3> QED
      BY Zenon, <2>2, <2>3, <3>1, <3>2, <3>3
  <2>4. CASE j # k
    <3>1. hub'[j] = hub[j] /\ info'[j] = info[j] /\ hub[j] \in Buckets
      BY ZenonT(40), <1>3, <1>4, <2>4 DEF LimiterTypeOK, Keys
    <3>2. hub[j] # hub[k]
      BY ZenonT(40), <1>1, <2>4, <3>1 DEF HubHasTheLimit, Keys
    <3>3. rate'[hub[j]] = rate[hub[j]]
      BY ZenonT(40), <1>6, <3>1, <3>2
    <3> QED
      BY Zenon, <2>2, <3>1, <3>3 DEF HubHasTheLimit, Keys
  <2> QED
    BY Zenon, <2>3, <2>4
<1>11. NoDeviceIsLost'
  BY ZenonT(40), <1>0 DEF NoDeviceIsLost, Addresses
<1> QED
  BY Zenon, <1>7, <1>8, <1>9, <1>10, <1>11

(* Dropping buckets breaks nothing.                                        *)
LEMMA HubDrops ==
  ASSUME LimiterTypeOK, HubHasTheLimit, UNCHANGED <<node, rate>>,
         \A k \in Keys : hub'[k] # 0 => hub'[k] = hub[k] /\ info'[k] = info[k]
  PROVE  HubHasTheLimit'
<1> SUFFICES ASSUME NEW k \in Keys, hub'[k] # 0
             PROVE  /\ rate[hub'[k]] = DetermineRate(node[k[1]], info'[k].speed)
                    /\ rate[hub'[k]] > 0
                    /\ \A j \in Keys : hub'[j] = hub'[k] => j = k
  BY ZenonT(40) DEF HubHasTheLimit, Keys
<1> QED
  BY ZenonT(40) DEF HubHasTheLimit, Keys

(* A deleted user leaves nothing behind but a map a report has in hand.    *)
LEMMA DeleteUsersInv ==
  ASSUME LimiterInv, NEW u \in Users, DeleteInboundLimiterUsers(u)
  PROVE  LimiterInv'
<1> USE DEF LimiterInv
<1> DEFINE k == <<inbound, u>>
<1>0. /\ inbound # 0 /\ UNCHANGED <<made, inbound, node, rate, conn>>
      /\ info' = [info EXCEPT ![k] = None] /\ hub' = [hub EXCEPT ![k] = 0]
      /\ online' = [online EXCEPT ![k] = None] /\ scan' = Detached(k)
      /\ missing' = [missing EXCEPT ![u] = {}]
  BY Zenon DEF DeleteInboundLimiterUsers
<1>1. inbound \in Gens /\ inbound \in 1..made /\ k \in Keys
  BY SMTT(40), <1>0, SizesFinite DEF LimiterTypeOK, Gens, Keys
<1>a. k[1] = inbound /\ k[2] = u /\ k = <<inbound, u>>
  OBVIOUS
<1>b. \A g \in Gens, w \in Users : <<g, w>> \in Keys /\ (<<g, w>> = k <=> g = inbound /\ w = u)
  BY Zenon DEF Keys
<1> HIDE DEF k
<1>2. /\ info' \in [Keys -> UserLimits \cup {None}] /\ info'[k] = None
      /\ \A j \in Keys : j # k => info'[j] = info[j]
  BY Zenon, <1>0, <1>1 DEF LimiterTypeOK, Keys
<1>3. /\ hub' \in [Keys -> {0} \cup Buckets] /\ hub'[k] = 0
      /\ \A j \in Keys : j # k => hub'[j] = hub[j]
  BY Zenon, <1>0, <1>1 DEF LimiterTypeOK, Keys
<1>4. /\ online' \in [Keys -> (SUBSET Sources) \cup {None}] /\ online'[k] = None
      /\ \A j \in Keys : j # k => online'[j] = online[j]
  BY Zenon, <1>0, <1>1 DEF LimiterTypeOK, Keys
<1>5. /\ missing' \in [Users -> SUBSET Sources] /\ missing'[u] = {}
      /\ \A w \in Users : w # u => missing'[w] = missing[w]
  BY Zenon, <1>0 DEF LimiterTypeOK
<1>6. /\ scan' \in Fields /\ scan'.at = scan.at /\ scan'.gen = scan.gen
      /\ scan'.map.user = scan.map.user
      /\ (scan'.map # NoMap => scan.map # NoMap)
      /\ (scan'.map.live => scan.map.live /\ ~(scan.gen = inbound /\ scan.map.user = u))
  <2>1. CASE scan.gen = inbound /\ scan.map.user = u /\ scan.map.live
    <3>1. online[k] \in SUBSET Sources
      <4>1. online[k] # None
        BY Zenon, <1>a, <2>1 DEF CallsInv
      <4> QED
        BY Zenon, <1>1, <4>1 DEF LimiterTypeOK, Keys
    <3>2. scan' = Scan(scan.at, scan.gen, scan.todo, Map(u, FALSE, online[k]))
      BY Zenon, <1>0, <1>a, <2>1 DEF Detached
    <3>3. /\ scan.at \in {"idle", "buckets", "devices"} /\ scan.gen \in 0..MaxGens
          /\ scan.todo \in SUBSET Users
      BY Zenon, ScanFacts
    <3>4. scan.map # NoMap
      BY ZenonT(40), <2>1, ScanFacts
    <3> QED
      BY ZenonT(40), <2>1, <3>1, <3>2, <3>3, <3>4 DEF Scan, Map, Fields
  <2>2. CASE ~(scan.gen = inbound /\ scan.map.user = u /\ scan.map.live)
    <3>1. scan' = scan
      BY ZenonT(40), <1>0, <1>a, <2>2 DEF Detached
    <3> QED
      BY ZenonT(40), <2>2, <3>1 DEF LimiterTypeOK, Fields
  <2> QED
    BY Zenon, <2>1, <2>2
<1>7. LimiterTypeOK'
  BY ZenonT(40), <1>0, <1>2, <1>3, <1>4, <1>5, <1>6 DEF LimiterTypeOK, Keys, Fields
<1>8. CallsInv'
  <2>1. \A j \in Keys : j[1] > made => info'[j] = None
    BY ZenonT(40), <1>2 DEF CallsInv, Keys
  <2>2. ASSUME scan'.map.live
        PROVE  online'[<<scan'.gen, scan'.map.user>>] # None
    <3>1. scan.map.live /\ scan.map # NoMap /\ ~(scan.gen = inbound /\ scan.map.user = u)
      BY ZenonT(40), <1>6, <2>2, ScanFacts
    <3>2. scan.gen \in Gens /\ scan.map.user \in Users
      BY SMTT(40), Z3T(40), <3>1, SizesFinite DEF CallsInv, LimiterTypeOK, Gens
    <3> QED
      BY SMTT(60), <1>4, <1>6, <1>b, <3>1, <3>2 DEF CallsInv
  <2> QED
    BY ZenonT(40), <1>0, <1>6, <2>1, <2>2 DEF CallsInv, Keys
<1>9. RuntimeStateIsKnown'
  BY SMTT(40), <1>2, <1>3, <1>4 DEF RuntimeStateIsKnown, Keys
<1>10. HubHasTheLimit'
  BY Zenon, <1>0, <1>2, <1>3, HubDrops
<1>11. NoDeviceIsLost'
  <2> SUFFICES ASSUME NEW w \in Users PROVE missing'[w] \subseteq Addresses(<<inbound, w>>)'
    BY Zenon, <1>0 DEF NoDeviceIsLost
  <2>1. CASE w = u
    BY Zenon, <1>5, <2>1
  <2>2. CASE w # u
    <3>1. online'[<<inbound, w>>] = online[<<inbound, w>>] /\ missing'[w] = missing[w]
      BY ZenonT(40), <1>1, <1>4, <1>5, <1>b, <2>2
    <3> QED
      BY Zenon, <1>0, <3>1 DEF NoDeviceIsLost, Addresses
  <2> QED
    BY Zenon, <2>1, <2>2
<1> QED
  BY Zenon, <1>7, <1>8, <1>9, <1>10, <1>11

(* Buckets of users without devices are dropped.                           *)
LEMMA SweepInv ==
  ASSUME LimiterInv, NEW u \in Users, SweepBucket(u)
  PROVE  LimiterInv'
<1> USE DEF LimiterInv
<1> DEFINE k == <<scan.gen, u>>
<1>0. /\ scan.at = "buckets" /\ UNCHANGED <<made, inbound, node, info, online, rate, conn, missing>>
      /\ hub' = (IF online[k] = None THEN [hub EXCEPT ![k] = 0] ELSE hub)
      /\ scan' = Scan("buckets", scan.gen, scan.todo \ {u}, NoMap)
  BY Zenon DEF SweepBucket
<1>1. scan.gen \in Gens /\ scan.gen \in 1..made /\ k \in Keys
  BY SMTT(60), <1>0, SizesFinite DEF CallsInv, LimiterTypeOK, Gens, Keys
<1> HIDE DEF k
<1>2. hub' \in [Keys -> {0} \cup Buckets] /\ \A j \in Keys : hub'[j] \in {0, hub[j]}
  BY ZenonT(40), <1>0, <1>1 DEF LimiterTypeOK, Keys
<1>3. scan' \in Fields /\ scan'.gen = scan.gen /\ scan'.map = NoMap /\ scan'.map.live = FALSE
  <2>1. scan.gen \in 0..MaxGens /\ scan.todo \ {u} \in SUBSET Users
    BY Zenon, ScanFacts
  <2> QED
    BY ZenonT(40), <1>0, <2>1 DEF NoMap, Map, Scan, Fields
<1>4. LimiterTypeOK'
  BY ZenonT(40), <1>0, <1>2, <1>3 DEF LimiterTypeOK, Keys, Fields
<1>5. CallsInv'
  BY ZenonT(40), <1>0, <1>1, <1>3 DEF CallsInv
<1>6. RuntimeStateIsKnown'
  BY ZenonT(40), <1>0, <1>2 DEF RuntimeStateIsKnown, Keys
<1>7. HubHasTheLimit'
  BY ZenonT(40), <1>0, <1>2, HubDrops
<1>8. NoDeviceIsLost'
  BY <1>0 DEF NoDeviceIsLost, Addresses
<1> QED
  BY Zenon, <1>4, <1>5, <1>6, <1>7, <1>8

(* A report takes all that is owed of the user it deletes the map of.      *)
LEMMA CollectInv ==
  ASSUME LimiterInv, CollectDevices
  PROVE  LimiterInv'
<1> USE DEF LimiterInv
<1> DEFINE u == scan.map.user
           k == <<scan.gen, u>>
<1>0. /\ scan.at = "devices" /\ scan.map # NoMap
      /\ UNCHANGED <<made, inbound, node, info, hub, rate, conn>>
      /\ online' = [online EXCEPT ![k] = None]
      /\ scan' = Scan("devices", scan.gen, scan.todo, NoMap)
      /\ scan.gen # inbound => missing' = missing
      /\ scan.gen = inbound => missing' = [missing EXCEPT ![u] =
           IF scan.map.live
             THEN missing[u] \ (IF scan.map.live THEN online[k] ELSE scan.map.ips) ELSE {}]
  BY ZenonT(40) DEF CollectDevices
<1>1. scan.gen \in Gens /\ scan.gen \in 1..made /\ u \in Users /\ k \in Keys
  BY SMTT(60), <1>0, SizesFinite DEF CallsInv, LimiterTypeOK, Gens, Keys
<1>b. \A g \in Gens, w \in Users : <<g, w>> \in Keys /\ (<<g, w>> = k <=> g = scan.gen /\ w = u)
  BY DEF Keys
<1>c. scan.map.live => online[k] # None
  BY Zenon DEF CallsInv
<1>d. k = <<scan.gen, u>>
  BY Zenon
<1> HIDE DEF k, u
<1>2. /\ online' \in [Keys -> (SUBSET Sources) \cup {None}] /\ online'[k] = None
      /\ \A j \in Keys : j # k => online'[j] = online[j]
  BY Zenon, <1>0, <1>1 DEF LimiterTypeOK, Keys
<1>3. /\ scan.gen = inbound => missing'[u] = {}
      /\ missing' \in [Users -> SUBSET Sources]
      /\ \A w \in Users : w # u => missing'[w] = missing[w]
  <2>1. CASE scan.gen # inbound
    BY Zenon, <1>0, <2>1 DEF LimiterTypeOK
  <2>2. CASE scan.gen = inbound /\ ~scan.map.live
    BY ZenonT(40), <1>0, <1>1, <2>2 DEF LimiterTypeOK
  <2>3. CASE scan.gen = inbound /\ scan.map.live
    <3>1. missing' = [missing EXCEPT ![u] = missing[u] \ online[k]]
      BY Zenon, <1>0, <2>3
    <3>2. missing[u] \subseteq online[k]
      <4>1. inbound # 0
        BY SMTT(40), <1>1, <2>3 DEF Gens
      <4>2. missing[u] \subseteq Addresses(k)
        BY Zenon, <1>1, <1>d, <2>3, <4>1 DEF NoDeviceIsLost
      <4> QED
        BY Zenon, <1>c, <2>3, <4>2 DEF Addresses
    <3>3. missing[u] \ online[k] = {}
      BY Zenon, <3>2
    <3> QED
      BY ZenonT(40), <1>1, <3>1, <3>3 DEF LimiterTypeOK
  <2> QED
    BY ZenonT(40), <2>1, <2>2, <2>3
<1>4. scan' \in Fields /\ scan'.gen = scan.gen /\ scan'.map = NoMap /\ scan'.map.live = FALSE
  <2>1. scan.gen \in 0..MaxGens /\ scan.todo \in SUBSET Users
    BY Zenon, ScanFacts
  <2> QED
    BY ZenonT(40), <1>0, <2>1 DEF NoMap, Map, Scan, Fields
<1>5. LimiterTypeOK'
  BY ZenonT(40), <1>0, <1>2, <1>3, <1>4 DEF LimiterTypeOK, Keys, Fields
<1>6. CallsInv'
  BY ZenonT(40), <1>0, <1>1, <1>4 DEF CallsInv
<1>7. RuntimeStateIsKnown'
  BY ZenonT(40), <1>0, <1>2 DEF RuntimeStateIsKnown, Keys
<1>8. HubHasTheLimit'
  BY Zenon, <1>0, HubDrops
<1>9. NoDeviceIsLost'
  <2> SUFFICES ASSUME inbound # 0, NEW w \in Users
               PROVE  missing'[w] \subseteq Addresses(<<inbound, w>>)'
    BY Zenon, <1>0 DEF NoDeviceIsLost
  <2>0. inbound \in Gens
    BY SMTT(40), SizesFinite DEF LimiterTypeOK, Gens
  <2>1. CASE w = u /\ scan.gen = inbound
    BY Zenon, <1>3, <2>1
  <2>2. CASE ~(w = u /\ scan.gen = inbound)
    <3>1. online'[<<inbound, w>>] = online[<<inbound, w>>]
      BY Zenon, <1>2, <1>b, <2>0, <2>2
    <3>2. missing'[w] = missing[w]
      BY Zenon, <1>0, <1>3, <2>2
    <3> QED
      BY ZenonT(40), <1>0, <3>1, <3>2 DEF NoDeviceIsLost, Addresses
  <2> QED
    BY Zenon, <2>1, <2>2
<1> QED
  BY ZenonT(40), <1>5, <1>6, <1>7, <1>8, <1>9

(* The record of a call that found its user.                               *)
LEMMA Placed ==
  ASSUME NEW a \in {"local", "open"}, NEW g \in 0..MaxGens, NEW u \in Users,
         NEW i \in Sources, NEW b \in {0} \cup Buckets
  PROVE  Place(a, g, u, i, b) \in Conn /\ Place(a, g, u, i, b).at = a
BY DEF Place, Conn

(* What an admission does to the tables.                                   *)
LEMMA AdmitFacts ==
  ASSUME LimiterInv, NEW c \in Conns, LocalAdmit(c),
         conn[c].bucket = 0 => FreshBucket \in Buckets /\ FreshBucket \notin InUse,
         NEW g, g = conn[c].gen, NEW u, u = conn[c].user, NEW i, i = conn[c].ip,
         NEW k, k = <<g, u>>
  PROVE  /\ g \in Gens /\ g \in 1..made /\ u \in Users /\ i \in Sources /\ k \in Keys
         /\ info[k] \in UserLimits /\ DetermineRate(node[g], info[k].speed) \in Nat
         /\ FreshBucket \in Buckets /\ FreshBucket \notin InUse /\ FreshBucket # 0
         /\ online' = [online EXCEPT ![k] = Addresses(k) \cup {i}]
         /\ Addresses(k) \in SUBSET Sources
<1>1. conn[c].at = "loaded" /\ info[k] # None
  BY ZenonT(40) DEF LocalAdmit
<1>2. g \in 1..made /\ u \in Users /\ i \in Sources /\ conn[c].bucket = 0
  BY ZenonT(40), <1>1 DEF LimiterInv, CallsInv
<1>3. g \in Gens /\ k \in Keys
  BY SMTT(60), Z3T(60), <1>2, SizesFinite DEF LimiterInv, LimiterTypeOK, Gens, Keys
<1>4. info[k] \in UserLimits
  BY Zenon, <1>1, <1>3 DEF LimiterInv, LimiterTypeOK, Keys
<1>5. DetermineRate(node[g], info[k].speed) \in Nat
  <2>1. node[g] \in Nat /\ info[k].speed \in Nat
    BY Zenon, <1>3, <1>4, InfoFacts DEF LimiterInv, LimiterTypeOK
  <2> QED
    BY ZenonT(40), <2>1, RateType
<1>6. FreshBucket \in Buckets /\ FreshBucket \notin InUse
  BY Zenon, <1>2
<1>7. FreshBucket # 0
  BY SMTT(40), Z3T(40), <1>6 DEF Buckets
<1>8. Addresses(k) \in SUBSET Sources
  BY Zenon, <1>3 DEF Addresses, LimiterInv, LimiterTypeOK, Keys
<1>9. online' = [online EXCEPT ![k] = Addresses(k) \cup {i}]
  BY ZenonT(40) DEF LocalAdmit
<1> QED
  BY ZenonT(40), <1>2, <1>3, <1>4, <1>5, <1>6, <1>7, <1>8, <1>9

(* A connection is admitted with the user's bucket, or a new one.          *)
LEMMA AdmitFresh ==
  ASSUME LimiterInv, NEW c \in Conns, LocalAdmit(c),
         conn[c].bucket = 0 => FreshBucket \in Buckets /\ FreshBucket \notin InUse
  PROVE  LimiterInv'
<1> USE DEF LimiterInv
<1> DEFINE g == conn[c].gen
           u == conn[c].user
           i == conn[c].ip
           k == <<g, u>>
           limit == DetermineRate(node[g], info[k].speed)
           fresh == FreshBucket
           bucket == IF limit = 0 THEN 0 ELSE IF hub[k] # 0 THEN hub[k] ELSE fresh
<1>0. /\ UNCHANGED <<made, inbound, node, info, scan>> /\ missing' = Owed(g, u, i)
      /\ conn' = [conn EXCEPT ![c] = Place(AfterLocal, g, u, i, bucket)]
      /\ hub' = (IF bucket = fresh THEN [hub EXCEPT ![k] = fresh] ELSE hub)
      /\ rate' = (IF bucket = fresh THEN [rate EXCEPT ![fresh] = limit] ELSE rate)
      /\ info[k] # None
  BY ZenonT(40) DEF LocalAdmit
<1>1. /\ g \in Gens /\ g \in 1..made /\ u \in Users /\ i \in Sources /\ k \in Keys
      /\ info[k] \in UserLimits /\ limit \in Nat
      /\ fresh \in Buckets /\ fresh \notin InUse /\ fresh # 0
      /\ online' = [online EXCEPT ![k] = Addresses(k) \cup {i}]
      /\ Addresses(k) \in SUBSET Sources
  BY ZenonT(40), AdmitFacts
<1>a. k[1] = g /\ k[2] = u /\ limit = DetermineRate(node[k[1]], info[k].speed)
  BY Zenon
<1>b. \A h \in Gens, w \in Users : <<h, w>> \in Keys /\ (<<h, w>> = k <=> h = g /\ w = u)
  BY Zenon DEF Keys
<1>c. bucket = (IF limit = 0 THEN 0 ELSE IF hub[k] # 0 THEN hub[k] ELSE fresh)
  BY Zenon
<1>d. \A j \in Keys : hub[j] # fresh /\ hub[j] \in {0} \cup Buckets
  BY ZenonT(40), <1>1 DEF InUse, Keys, LimiterTypeOK
<1>e. k = <<g, u>>
  OBVIOUS
<1> HIDE DEF k, limit, fresh, bucket, g, u, i
<1>2. bucket \in {0} \cup Buckets /\ (bucket = fresh => limit > 0)
  BY SMTT(60), Z3T(60), <1>1, <1>c, <1>d
<1>3. /\ online' \in [Keys -> (SUBSET Sources) \cup {None}]
      /\ online'[k] = Addresses(k) \cup {i} /\ online'[k] # None
      /\ \A j \in Keys : j # k => online'[j] = online[j]
  <2>1. Addresses(k) \cup {i} \in SUBSET Sources
    BY Zenon, <1>1
  <2>2. Addresses(k) \cup {i} # None
    BY Zenon, <2>1, NoneIsAbsent
  <2> QED
    BY ZenonT(40), <1>1, <2>1, <2>2 DEF LimiterTypeOK, Keys
<1>4. /\ hub' \in [Keys -> {0} \cup Buckets] /\ (bucket = fresh => hub'[k] = fresh)
      /\ (bucket # fresh => hub' = hub) /\ \A j \in Keys : j # k => hub'[j] = hub[j]
  BY ZenonT(40), <1>0, <1>1 DEF LimiterTypeOK, Keys
<1>5. /\ rate' \in [Buckets -> Nat] /\ (bucket = fresh => rate'[fresh] = limit)
      /\ \A b \in Buckets : b # fresh => rate'[b] = rate[b]
      /\ (bucket # fresh => rate' = rate)
  BY ZenonT(40), <1>0, <1>1 DEF LimiterTypeOK
<1>6. missing' \in [Users -> SUBSET Sources]
  BY ZenonT(40), <1>0, <1>1 DEF LimiterTypeOK, Owed
<1>7. /\ conn' \in [Conns -> Conn] /\ conn'[c].at # "loaded"
      /\ \A d \in Conns : d # c => conn'[d] = conn[d]
  <2>1. AfterLocal \in {"local", "open"} /\ g \in 0..MaxGens
    BY SMTT(40), Z3T(40), <1>1, SizesFinite DEF AfterLocal, Gens
  <2>2. /\ Place(AfterLocal, g, u, i, bucket) \in Conn
        /\ Place(AfterLocal, g, u, i, bucket).at = AfterLocal
    <3>1. /\ AfterLocal \in {"local", "open"} /\ g \in 0..MaxGens /\ u \in Users
          /\ i \in Sources /\ bucket \in {0} \cup Buckets
      BY Zenon, <1>1, <1>2, <2>1
    <3> QED
      BY ZenonT(40), Z3T(40), <3>1, Placed
  <2> QED
    BY ZenonT(40), <1>0, <2>1, <2>2 DEF LimiterTypeOK
<1>8. LimiterTypeOK'
  BY ZenonT(40), <1>0, <1>3, <1>4, <1>5, <1>6, <1>7 DEF LimiterTypeOK, Keys
<1>9. CallsInv'
  <2>1. ASSUME scan.map.live PROVE online'[<<scan.gen, scan.map.user>>] # None
    <3>1. scan.map # NoMap
      BY Zenon, <2>1, ScanFacts
    <3>2. scan.gen \in Gens /\ scan.map.user \in Users
      BY SMTT(60), Z3T(60), <3>1, SizesFinite DEF CallsInv, LimiterTypeOK, Gens
    <3>3. online[<<scan.gen, scan.map.user>>] # None
      BY ZenonT(40), <2>1 DEF CallsInv
    <3> QED
      BY ZenonT(40), <1>3, <1>b, <3>2, <3>3
  <2> QED
    BY ZenonT(40), <1>0, <1>7, <2>1 DEF CallsInv
<1>10. RuntimeStateIsKnown'
  BY ZenonT(40), <1>0, <1>3, <1>4 DEF RuntimeStateIsKnown, Keys
<1>11. HubHasTheLimit'
  <2>1. CASE bucket # fresh
    BY ZenonT(40), <1>0, <1>4, <1>5, <2>1 DEF HubHasTheLimit
  <2>2. CASE bucket = fresh
    <3> SUFFICES ASSUME NEW j \in Keys, hub'[j] # 0
                 PROVE  /\ rate'[hub'[j]] = DetermineRate(node[j[1]], info[j].speed)
                        /\ rate'[hub'[j]] > 0
                        /\ \A h \in Keys : hub'[h] = hub'[j] => h = j
      BY ZenonT(40), <1>0 DEF HubHasTheLimit, Keys
    <3>1. CASE j = k
      <4>1. \A h \in Keys : hub'[h] = fresh => h = k
        BY Zenon, <1>4, <1>d
      <4> QED
        BY Zenon, <1>1, <1>2, <1>4, <1>5, <1>a, <2>2, <3>1, <4>1
    <3>2. CASE j # k
      <4>1. hub'[j] = hub[j] /\ hub[j] \in Buckets /\ hub[j] # fresh
        BY ZenonT(40), <1>4, <1>d, <3>2
      <4>2. rate'[hub'[j]] = rate[hub[j]]
        BY Zenon, <1>5, <4>1
      <4>3. \A h \in Keys : hub'[h] = hub'[j] => h # k /\ hub[h] = hub[j]
        BY Zenon, <1>4, <2>2, <4>1
      <4> QED
        BY ZenonT(40), <4>1, <4>2, <4>3 DEF HubHasTheLimit, Keys
    <3> QED
      BY Zenon, <3>1, <3>2
  <2> QED
    BY Zenon, <2>1, <2>2
<1>12. NoDeviceIsLost'
  <2> SUFFICES ASSUME inbound # 0, NEW w \in Users
               PROVE  missing'[w] \subseteq Addresses(<<inbound, w>>)'
    BY ZenonT(40), <1>0 DEF NoDeviceIsLost
  <2>0. inbound \in Gens /\ missing[w] \subseteq Addresses(<<inbound, w>>)
    BY SMTT(40), Z3T(40), SizesFinite DEF LimiterTypeOK, Gens, NoDeviceIsLost
  <2>1. CASE w = u /\ g = inbound
    <3>1. missing'[w] = missing[w] \cup {i}
      BY ZenonT(40), <1>0, <1>1, <2>1 DEF Owed, LimiterTypeOK
    <3>2. Addresses(<<inbound, w>>)' = Addresses(k) \cup {i}
      BY ZenonT(40), <1>0, <1>3, <1>e, <2>1 DEF Addresses
    <3> QED
      BY Zenon, <1>e, <2>0, <2>1, <3>1, <3>2
  <2>2. CASE ~(w = u /\ g = inbound)
    <3>1. online'[<<inbound, w>>] = online[<<inbound, w>>]
      BY ZenonT(40), <1>3, <1>b, <2>0, <2>2
    <3>2. missing'[w] = missing[w]
      BY ZenonT(40), <1>0, <2>2 DEF Owed, LimiterTypeOK
    <3> QED
      BY ZenonT(40), <1>0, <2>0, <3>1, <3>2 DEF Addresses
  <2> QED
    BY Zenon, <2>1, <2>2
<1> QED
  BY ZenonT(40), <1>8, <1>9, <1>10, <1>11, <1>12

(* The first state satisfies the invariant.                                *)
LEMMA LimiterInitInv == LimiterInit => LimiterInv
<1> SUFFICES ASSUME LimiterInit PROVE LimiterInv
  OBVIOUS
<1>0. 0 \in 0..MaxGens /\ 0 \in 0..0
  BY SMTT(40), SizesFinite
<1>1. /\ made \in 0..MaxGens /\ inbound \in 0..made /\ node \in [Gens -> Nat]
      /\ rate \in [Buckets -> Nat] /\ missing \in [Users -> SUBSET Sources]
  BY Zenon, <1>0 DEF LimiterInit
<1>2. /\ info \in [Keys -> UserLimits \cup {None}] /\ hub \in [Keys -> {0} \cup Buckets]
      /\ online \in [Keys -> (SUBSET Sources) \cup {None}]
  BY Zenon DEF LimiterInit, Keys
<1>3. conn \in [Conns -> Conn] /\ \A c \in Conns : conn[c].at = "idle"
  <2>1. Idle \in Conn /\ Idle.at = "idle"
    BY Zenon, <1>0 DEF Idle, Place, Conn
  <2> QED
    BY Zenon, <2>1 DEF LimiterInit
<1>4. scan \in Fields /\ scan.at = "idle" /\ scan.map = NoMap /\ scan.map.live = FALSE
  BY ZenonT(40), <1>0 DEF LimiterInit, NoScan, NoMap, Map, Scan, Fields
<1>5. LimiterTypeOK
  BY Zenon, <1>1, <1>2, <1>3, <1>4 DEF LimiterTypeOK, Keys, Fields
<1>6. CallsInv
  BY ZenonT(40), <1>3, <1>4 DEF CallsInv, LimiterInit
<1>7. RuntimeStateIsKnown /\ HubHasTheLimit /\ NoDeviceIsLost
  BY Zenon DEF LimiterInit, RuntimeStateIsKnown, HubHasTheLimit, NoDeviceIsLost
<1> QED
  BY Zenon, <1>5, <1>6, <1>7 DEF LimiterInv

-----------------------------------------------------------------------------
(* Counting.                                                               *)

(* While a connection has no bucket there is one that nobody has: the      *)
(* model never runs out of buckets to allocate.                            *)
LEMMA FreshBucketExists ==
  ASSUME NEW c \in Conns, conn[c].bucket = 0
  PROVE  FreshBucket \in Buckets /\ FreshBucket \notin InUse
<1> DEFINE others == Conns \ {c}
           H == {hub[k] : k \in Keys}
           B == {conn[d].bucket : d \in others}
           hubs == [k \in Keys |-> hub[k]]
           held == [d \in others |-> conn[d].bucket]
           nc == Cardinality(Conns)
           nk == Cardinality(Users) * MaxGens
<1>1. IsFiniteSet(H) /\ Cardinality(H) <= nk /\ nk \in Nat
  <2>1. Cardinality(Users) \in Nat /\ MaxGens \in Nat
    BY Zenon, SizesFinite, FS_CardinalityType
  <2>2. IsFiniteSet(Gens) /\ Cardinality(Gens) = MaxGens
    <3>0. 1 \in Int /\ MaxGens \in Int
      BY <2>1
    <3>1. IsFiniteSet(1..MaxGens) /\ Cardinality(1..MaxGens) = IF 1 > MaxGens THEN 0 ELSE MaxGens - 1 + 1
      BY ONLY <3>0, FS_Interval
    <3> QED
      BY <2>1, <3>1 DEF Gens
  <2>3. IsFiniteSet(Keys) /\ Cardinality(Keys) = MaxGens * Cardinality(Users)
    BY Zenon, <2>2, SizesFinite, FS_Product DEF Keys
  <2>4. hubs \in Surjection(Keys, H)
    BY DEF Surjection
  <2>5. IsFiniteSet(H) /\ Cardinality(H) <= Cardinality(Keys)
    BY Zenon, <2>3, <2>4, FS_Surjection
  <2> QED
    BY <2>1, <2>3, <2>5
<1>2. IsFiniteSet(B) /\ Cardinality(B) <= nc - 1 /\ nc \in Nat \ {0}
  <2>1. IsFiniteSet(others) /\ Cardinality(others) = nc - 1
    BY ZenonT(40), SizesFinite, FS_RemoveElement
  <2>2. nc \in Nat /\ Cardinality(others) \in Nat
    BY ZenonT(40), <2>1, SizesFinite, FS_CardinalityType
  <2>3. held \in Surjection(others, B)
    BY DEF Surjection
  <2>4. IsFiniteSet(B) /\ Cardinality(B) <= Cardinality(others)
    BY Zenon, <2>1, <2>3, FS_Surjection
  <2> QED
    BY SMTT(40), <2>1, <2>2, <2>4
<1>3. IsFiniteSet(B \cup H) /\ Cardinality(B \cup H) <= nc - 1 + nk
  <2>1. /\ IsFiniteSet(B \cup H)
        /\ Cardinality(B \cup H) = Cardinality(B) + Cardinality(H) - Cardinality(B \cap H)
    BY Zenon, <1>1, <1>2, FS_Union
  <2>2. Cardinality(B) \in Nat /\ Cardinality(H) \in Nat /\ Cardinality(B \cap H) \in Nat
    BY Zenon, <1>1, <1>2, FS_CardinalityType, FS_Intersection
  <2> HIDE DEF B, H, nc, nk
  <2> QED
    BY SMTT(40), Z3T(40), <1>1, <1>2, <2>1, <2>2
<1>4. Cardinality(Buckets) = nc + nk
  <2> HIDE DEF nc, nk
  <2>1. nc + nk \in Nat \ {0}
    BY <1>1, <1>2
  <2>2. Buckets = 1..(nc + nk)
    BY DEF Buckets, nc, nk
  <2> QED
    BY <2>1, <2>2, FS_Interval
<1>5. InUse \subseteq B \cup H \cup {0}
  BY DEF InUse, Keys
<1>6. 0 \notin Buckets
  BY DEF Buckets
<1>7. ~(Buckets \subseteq InUse)
  <2> SUFFICES ASSUME Buckets \subseteq InUse PROVE FALSE
    OBVIOUS
  <2>1. Buckets \subseteq B \cup H
    BY Zenon, <1>5, <1>6
  <2> HIDE DEF B, H, nc, nk
  <2>2. Cardinality(Buckets) <= Cardinality(B \cup H)
    BY Zenon, <1>3, <2>1, FS_Subset
  <2>3. Cardinality(B \cup H) \in Nat
    BY Zenon, <1>3, FS_CardinalityType
  <2> QED
    BY SMTT(40), Z3T(40), <1>1, <1>2, <1>3, <1>4, <2>2, <2>3
<1>8. \E b \in Buckets : b \notin InUse
  BY <1>7
<1> QED
  BY Zenon, <1>8 DEF FreshBucket

(* There is one.                                                           *)
LEMMA AdmitInv ==
  ASSUME LimiterInv, NEW c \in Conns, LocalAdmit(c)
  PROVE  LimiterInv'
BY Zenon, FreshBucketExists, AdmitFresh

(* Every step keeps the invariant.                                         *)
LEMMA LimiterStep == LimiterInv /\ [NextLimiter]_limiterVars => LimiterInv'
<1> SUFFICES ASSUME LimiterInv, [NextLimiter]_limiterVars PROVE LimiterInv'
  BY Zenon
<1>1. CASE UNCHANGED limiterVars
  <2>1. TableInv'
    BY ZenonT(40), <1>1, TablesUnchanged DEF LimiterInv, TableInv, limiterVars
  <2> QED
    BY ZenonT(40), <1>1, <2>1 DEF LimiterInv, TableInv, LimiterTypeOK, CallsInv,
       limiterVars, tables
<1>2. ASSUME NEW c \in Conns, Talks(c) PROVE LimiterInv'
  BY <1>2, TalksInv
<1>3. CASE Looks
  BY <1>3, LooksInv
<1> QED
  BY ZenonT(40), <1>1, <1>2, <1>3, AddInv, DeleteInv, UpdateInv, DeleteUsersInv,
     SweepInv, CollectInv,
     AdmitInv DEF NextLimiter, Talks, Looks

(* The tables, the buckets, the devices and the calls in progress fit      *)
(* together however connections, reports and updates interleave.           *)
THEOREM LimiterInvariant == LimiterSpec => []LimiterInv
BY LimiterInitInv, LimiterStep, PTL DEF LimiterSpec

(* RuntimeStateIsKnown: no interleaving of GetUserBucket and               *)
(* DeleteInboundLimiterUsers brings a deleted user's state back.           *)
THEOREM StateKnown == LimiterSpec => []RuntimeStateIsKnown
<1>1. LimiterInv => RuntimeStateIsKnown
  BY Zenon DEF LimiterInv
<1> QED
  BY <1>1, LimiterInvariant, PTL

(* HubHasTheLimit: the bucket of the hub has the limit of the panel, and   *)
(* no two users share one.                                                 *)
THEOREM HubLimited == LimiterSpec => []HubHasTheLimit
<1>1. LimiterInv => HubHasTheLimit
  BY Zenon DEF LimiterInv
<1> QED
  BY <1>1, LimiterInvariant, PTL

(* NoDeviceIsLost: what GetUserBucket admitted is there for the next       *)
(* report.                                                                 *)
THEOREM DevicesKept == LimiterSpec => []NoDeviceIsLost
<1>1. LimiterInv => NoDeviceIsLost
  BY Zenon DEF LimiterInv
<1> QED
  BY <1>1, LimiterInvariant, PTL

(* What DevicesWithinLimit says of a step.                                 *)
LEMMA JoinsWithinLimit ==
  ASSUME LimiterInv, [NextLimiter]_limiterVars, NEW k \in Keys,
         online'[k] # None, ~(online'[k] \subseteq Addresses(k))
  PROVE  info[k].device = 0 \/ Cardinality(online'[k]) <= info[k].device
<1>0. online \in [Keys -> (SUBSET Sources) \cup {None}]
  BY Zenon DEF LimiterInv, LimiterTypeOK, Keys
<1>1. \E c \in Conns : LocalAdmit(c)
  <2>1. CASE \E u \in Users : DeleteInboundLimiterUsers(u)
    BY Zenon, <1>0, <2>1 DEF DeleteInboundLimiterUsers, Addresses
  <2>2. CASE CollectDevices
    BY ZenonT(40), <1>0, <2>2 DEF CollectDevices, Addresses
  <2>3. CASE online' = online
    BY Zenon, <1>0, <2>3 DEF Addresses
  <2> QED
    BY ZenonT(40), <2>1, <2>2, <2>3 DEF NextLimiter, AddInboundLimiter, DeleteInboundLimiter,
       UpdateInboundLimiter, Dial, LocalUnknown, LocalReject, GlobalAdmit, GlobalReject, Hangup,
       ScanStart, SweepBucket, SweepEnd, VisitDevices, ScanEnd, tables, limiterVars
<1>2. PICK c \in Conns : LocalAdmit(c)
  BY Zenon, <1>1
<1> DEFINE g == conn[c].gen
           u == conn[c].user
           i == conn[c].ip
           j == <<g, u>>
<1>3. /\ j \in Keys /\ info[j] \in UserLimits /\ i \in Sources
      /\ online' = [online EXCEPT ![j] = Addresses(j) \cup {i}]
      /\ Addresses(j) \in SUBSET Sources
  <2>1. conn[c].bucket = 0 => FreshBucket \in Buckets /\ FreshBucket \notin InUse
    BY Zenon, FreshBucketExists
  <2>2. /\ g \in Gens /\ g \in 1..made /\ u \in Users /\ i \in Sources /\ j \in Keys
        /\ info[j] \in UserLimits /\ DetermineRate(node[g], info[j].speed) \in Nat
        /\ FreshBucket \in Buckets /\ FreshBucket \notin InUse /\ FreshBucket # 0
        /\ online' = [online EXCEPT ![j] = Addresses(j) \cup {i}]
        /\ Addresses(j) \in SUBSET Sources
    BY ZenonT(40), <1>2, <2>1, AdmitFacts
  <2> QED
    BY Zenon, <2>2
<1>4. ~DeviceRejected(j, i)
  BY Zenon, <1>2 DEF LocalAdmit
<1> HIDE DEF i, j
<1>5. k = j /\ online'[k] = Addresses(k) \cup {i} /\ i \notin Addresses(k)
  BY Zenon, <1>0, <1>3 DEF Addresses
<1>6. info[k].device \in Nat
  BY Zenon, <1>3, <1>5, InfoFacts
<1>7. IsFiniteSet(Addresses(k)) /\ Cardinality(Addresses(k)) \in Nat
  BY ZenonT(40), <1>3, <1>5, SizesFinite, FS_Subset, FS_CardinalityType
<1>8. Cardinality(online'[k]) = Cardinality(Addresses(k)) + 1
  <2>1. Cardinality(Addresses(k) \cup {i}) =
          IF i \in Addresses(k) THEN Cardinality(Addresses(k)) ELSE Cardinality(Addresses(k)) + 1
    BY Zenon, <1>7, FS_AddElement
  <2> QED
    BY Zenon, <1>5, <2>1
<1> QED
  BY SMTT(60), Z3T(60), <1>4, <1>5, <1>6, <1>7, <1>8 DEF DeviceRejected

(* DevicesWithinLimit: no step of any connection, report or update takes a *)
(* user's devices beyond the limit.                                        *)
THEOREM DevicesLimited == LimiterSpec => DevicesWithinLimit
<1>1. LimiterInv /\ [NextLimiter]_limiterVars =>
        [\A k \in Gens \X Users :
           online'[k] # None /\ ~(online'[k] \subseteq Addresses(k)) =>
             info[k].device = 0 \/ Cardinality(online'[k]) <= info[k].device]_limiterVars
  BY JoinsWithinLimit DEF Keys
<1> QED
  BY <1>1, LimiterInvariant, PTL DEF LimiterSpec, DevicesWithinLimit
=============================================================================
