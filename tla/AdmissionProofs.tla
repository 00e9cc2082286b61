-------------------------- MODULE AdmissionProofs ---------------------------
(***************************************************************************)
(* Proofs about what lets a connection in besides the limiter of its node: *)
(* the list of addresses the nodes share in the cache (GlobalDevices) and  *)
(* the audit rules (RuleManager).  The two specifications share no state;  *)
(* each is proved by itself.                                               *)
(***************************************************************************)
EXTENDS RuleManager, GlobalDevices, FiniteSetTheorems, TLAPS

-----------------------------------------------------------------------------
(* GlobalDevices, for any number of processes, calls, addresses, limits    *)
(* and windows.  The inductive invariant is that every verdict, delivered  *)
(* or under way, matches the key of its window.                            *)

DevicesInv == DevicesTypeOK /\ VerdictsMatchKey

(* Between calls a call's record is a record.                              *)
LEMMA FreeType ==
  /\ AnyFree.window = 0
  /\ AnyFree \in [at: At, node: Nodes, limit: Limits, ip: IPs,
                  value: SUBSET IPs, window: 0..MaxExpiries]
  /\ AnyFree.at = "idle"
<1>1. (CHOOSE n \in Nodes : TRUE) \in Nodes BY NonEmpty
<1>2. (CHOOSE l \in Limits : TRUE) \in Limits BY NonEmpty
<1>3. (CHOOSE i \in IPs : TRUE) \in IPs BY NonEmpty
<1> QED BY <1>1, <1>2, <1>3, ExpiriesNat DEF AnyFree, Call, At

(* Adding an address to a key with room keeps the key within its limit,    *)
(* and never makes it smaller.                                             *)
LEMMA AddAddress ==
  ASSUME NEW S \in SUBSET IPs, NEW i \in IPs
  PROVE  /\ Cardinality(S) \in Nat
         /\ Cardinality(S \cup {i}) \in Nat
         /\ Cardinality(S \cup {i}) = IF i \in S THEN Cardinality(S) ELSE Cardinality(S) + 1
<1>1. IsFiniteSet(S) BY Zenon, IPsFinite, FS_Subset
<1> QED BY Zenon, <1>1, FS_AddElement, FS_CardinalityType

(* A subset of a key's addresses is not larger than the key.               *)
LEMMA FewerAddresses ==
  ASSUME NEW S \in SUBSET IPs, NEW T \in SUBSET S
  PROVE  /\ Cardinality(S) \in Nat /\ Cardinality(T) \in Nat
         /\ Cardinality(T) <= Cardinality(S)
<1>1. IsFiniteSet(S) BY IPsFinite, FS_Subset
<1>2. IsFiniteSet(T) BY Zenon, <1>1, FS_Subset
<1> QED BY Zenon, <1>1, <1>2, FS_Subset, FS_CardinalityType

(* DeviceWindow counts addresses as GlobalDevices does.                    *)
LEMMA SameCardinality ==
  ASSUME NEW S PROVE Window!Cardinality(S) = Cardinality(S)
BY Zenon DEF Window!Cardinality, Cardinality

(* Every step keeps the types.                                             *)
LEMMA DevicesTypeStep == DevicesTypeOK /\ [DevicesNext]_devicesVars => DevicesTypeOK'
<1> SUFFICES ASSUME DevicesTypeOK, [DevicesNext]_devicesVars PROVE DevicesTypeOK'
    OBVIOUS
<1> USE DEF DevicesTypeOK
<1>1. ASSUME NEW c \in Calls, NEW n \in Nodes, NEW l \in Limits, NEW i \in IPs,
             Send(c, n, l, i)
      PROVE  DevicesTypeOK'
  BY <1>1, ExpiriesNat DEF Send, Call, At
<1>2. ASSUME NEW c \in Calls, Reserve(c) PROVE DevicesTypeOK'
  <2>1. PICK at \in At, value \in SUBSET IPs :
          call' = [call EXCEPT ![c] = Call(at, @.node, @.limit, @.ip, value, window[@.limit])]
    BY <1>2 DEF Reserve, Reply, At
  <2>2. call' \in [Calls -> [at: At, node: Nodes, limit: Limits, ip: IPs,
                             value: SUBSET IPs, window: 0..MaxExpiries]]
    BY Zenon, <2>1 DEF Call
  <2>3. remote' \in [Limits -> SUBSET IPs]
    BY <1>2 DEF Reserve
  <2> QED BY ZenonT(40), <1>2, <2>2, <2>3 DEF Reserve
<1>3. ASSUME NEW c \in Calls, FailOpen(c) PROVE DevicesTypeOK'
  BY Zenon, <1>3, FreeType DEF FailOpen
<1>4. ASSUME NEW c \in Calls, Accept(c) PROVE DevicesTypeOK'
  BY SMTT(40), Z3T(40), <1>4, FreeType DEF Accept, InWindow
<1>5. ASSUME NEW c \in Calls, Refuse(c) PROVE DevicesTypeOK'
  BY <1>5, FreeType DEF Refuse, InWindow
<1>6. ASSUME NEW l \in Limits, ExpireRemote(l) PROVE DevicesTypeOK'
  BY SMTT(40), <1>6, ExpiriesNat DEF ExpireRemote
<1>7. ASSUME NEW n \in Nodes, NEW l \in Limits, ExpireLocal(n, l) PROVE DevicesTypeOK'
  BY Zenon, <1>7 DEF ExpireLocal
<1>8. ASSUME NEW n \in Nodes, Close(n) \/ Open(n) PROVE DevicesTypeOK'
  BY <1>8 DEF Close, Open
<1>9. CASE UNCHANGED devicesVars
  BY Zenon, <1>9 DEF devicesVars
<1> QED BY ZenonT(40), <1>1, <1>2, <1>3, <1>4, <1>5, <1>6, <1>7, <1>8, <1>9 DEF DevicesNext

(* What VerdictsMatchKey says of one key, and of one call.                 *)
KeyOK(l) ==
  /\ l > 0 => Cardinality(remote[l]) <= l
  /\ admitted[l] \subseteq remote[l]
  /\ refused[l] # {} =>
       l > 0 /\ Cardinality(remote[l]) >= l /\ refused[l] \cap remote[l] = {}

CallOK(c) ==
  /\ call[c].window <= window[call[c].limit]
  /\ call[c].window = window[call[c].limit] =>
       /\ call[c].at = "accepted" => call[c].ip \in remote[call[c].limit]
       /\ call[c].at = "rejected" =>
            /\ call[c].limit > 0
            /\ Cardinality(remote[call[c].limit]) >= call[c].limit
            /\ call[c].ip \notin remote[call[c].limit]

(* VerdictsMatchKey speaks of each key and each call by itself.            *)
LEMMA MatchSplit ==
  VerdictsMatchKey <=> (\A l \in Limits : KeyOK(l)) /\ (\A c \in Calls : CallOK(c))
BY DEF VerdictsMatchKey, KeyOK, CallOK

(* A call that returns says nothing of its key any more.                   *)
LEMMA FreedCall ==
  ASSUME DevicesTypeOK, \A d \in Calls : CallOK(d), NEW c \in Calls,
         call' = [call EXCEPT ![c] = AnyFree], UNCHANGED <<remote, window>>
  PROVE  \A d \in Calls : CallOK(d)'
<1> SUFFICES ASSUME NEW d \in Calls PROVE CallOK(d)'
    BY ZenonT(40)
<1>1. CASE d = c
  <2>1. call'[d] = AnyFree BY <1>1 DEF DevicesTypeOK
  <2>2. AnyFree.limit \in Limits BY Zenon, FreeType
  <2>3. 0 <= window[AnyFree.limit] BY SMTT(40), Z3T(40), <2>2, ExpiriesNat DEF DevicesTypeOK
  <2> QED BY ZenonT(40), <2>1, <2>3, FreeType DEF CallOK
<1>2. CASE d # c
  <2>1. call'[d] = call[d] BY <1>2 DEF DevicesTypeOK
  <2> QED BY Zenon, <2>1 DEF CallOK
<1> QED BY Zenon, <1>1, <1>2

(* Every step keeps the verdicts and the keys in agreement.                *)
LEMMA MatchStep ==
  DevicesInv /\ [DevicesNext]_devicesVars => VerdictsMatchKey'
<1> SUFFICES ASSUME DevicesInv, [DevicesNext]_devicesVars
             PROVE  (\A l \in Limits : KeyOK(l)') /\ (\A d \in Calls : CallOK(d)')
    BY DEF VerdictsMatchKey, KeyOK, CallOK
<1>0. DevicesTypeOK /\ DevicesTypeOK'
    BY DevicesTypeStep DEF DevicesInv
<1>m. (\A l \in Limits : KeyOK(l)) /\ (\A d \in Calls : CallOK(d))
    BY ZenonT(40), MatchSplit DEF DevicesInv
<1>1. ASSUME NEW c \in Calls, NEW n \in Nodes, NEW k \in Limits, NEW i \in IPs,
             Send(c, n, k, i)
      PROVE  (\A l \in Limits : KeyOK(l)') /\ (\A d \in Calls : CallOK(d)')
  BY <1>0, <1>m, <1>1 DEF Send, Call, KeyOK, CallOK, DevicesTypeOK
<1>2. ASSUME NEW c \in Calls, Reserve(c)
      PROVE  (\A l \in Limits : KeyOK(l)') /\ (\A d \in Calls : CallOK(d)')
  <2> DEFINE k == call[c].limit
             i == call[c].ip
  <2>1. k \in Limits /\ i \in IPs /\ k \in Nat /\ remote[k] \in SUBSET IPs
    BY ZenonT(40), <1>0, LimitsNat DEF DevicesTypeOK
  <2>2. /\ Cardinality(remote[k]) \in Nat
        /\ Cardinality(remote[k] \cup {i}) \in Nat
        /\ Cardinality(remote[k] \cup {i}) =
             IF i \in remote[k] THEN Cardinality(remote[k]) ELSE Cardinality(remote[k]) + 1
    BY Zenon, <2>1, AddAddress
  <2>3. CASE Full(remote[k], k, i)
    <3>1. /\ UNCHANGED <<remote, window, admitted, refused>>
          /\ call' = [call EXCEPT ![c] = Call("rejected", @.node, k, i, {}, window[k])]
      BY ZenonT(40), <1>2, <2>3 DEF Reserve, Reply
    <3>2. ASSUME NEW l \in Limits PROVE KeyOK(l)'
      BY Zenon, <1>m, <3>1 DEF KeyOK
    <3>3. ASSUME NEW d \in Calls PROVE CallOK(d)'
      <4>1. CASE d = c
        <5>1. /\ call'[c].at = "rejected" /\ call'[c].limit = k /\ call'[c].ip = i
              /\ call'[c].window = window[k]
          BY Zenon, <1>0, <3>1 DEF Call, DevicesTypeOK
        <5>2. k > 0 /\ Cardinality(remote[k]) >= k /\ i \notin remote[k]
          BY ZenonT(40), <2>1, <2>2, <2>3 DEF Full
        <5>3. window[k] <= window[k]
          BY SMTT(40), <1>0, <2>1, ExpiriesNat DEF DevicesTypeOK
        <5> QED BY ZenonT(40), <3>1, <4>1, <5>1, <5>2, <5>3 DEF CallOK
      <4>2. CASE d # c
        <5>1. call'[d] = call[d] BY ZenonT(40), <1>0, <3>1, <4>2 DEF DevicesTypeOK
        <5> QED BY ZenonT(40), <1>m, <3>1, <5>1 DEF CallOK
      <4> QED BY Zenon, <4>1, <4>2
    <3> QED BY Zenon, <3>2, <3>3
  <2>4. CASE ~Full(remote[k], k, i)
    <3>1. /\ UNCHANGED <<window, admitted, refused>>
          /\ remote' = [remote EXCEPT ![k] = @ \cup {i}]
          /\ call' = [call EXCEPT ![c] = Call("accepted", @.node, k, i, remote'[k], window[k])]
      BY Zenon, <1>2, <2>4 DEF Reserve, Reply
    <3>2. remote'[k] = remote[k] \cup {i} /\ \A l \in Limits \ {k} : remote'[l] = remote[l]
      BY ZenonT(40), <1>0, <2>1, <3>1 DEF DevicesTypeOK
    <3>3. ASSUME NEW l \in Limits PROVE KeyOK(l)'
      <4>1. CASE l # k
        <5>1. remote'[l] = remote[l] BY ZenonT(40), <3>2, <4>1
        <5> QED BY ZenonT(40), <1>m, <3>1, <5>1 DEF KeyOK
      <4>2. CASE l = k /\ i \in remote[k]
        <5>1. remote'[k] = remote[k] BY ZenonT(40), <3>2, <4>2
        <5> QED BY ZenonT(40), <1>m, <3>1, <4>2, <5>1 DEF KeyOK
      <4>3. CASE l = k /\ i \notin remote[k]
        <5>1. k > 0 => Cardinality(remote[k]) < k BY SMTT(40), Z3T(40), <2>1, <2>2, <2>4, <4>3 DEF Full
        <5>2. KeyOK(k) BY ZenonT(40), <1>m, <2>1
        <5> HIDE DEF k, i
        <5>3. refused[k] = {} BY SMTT(40), Z3T(40), <2>1, <2>2, <5>1, <5>2 DEF KeyOK
        <5>4. k > 0 => Cardinality(remote'[k]) <= k BY SMTT(40), Z3T(40), <2>1, <2>2, <3>2, <4>3, <5>1
        <5>5. admitted[k] \subseteq remote'[k] BY Zenon, <3>2, <5>2 DEF KeyOK
        <5> QED BY ZenonT(40), <3>1, <4>3, <5>3, <5>4, <5>5 DEF KeyOK
      <4> QED BY ZenonT(40), <4>1, <4>2, <4>3
    <3>4. ASSUME NEW d \in Calls PROVE CallOK(d)'
      <4>1. CASE d = c
        BY SMTT(60), Z3T(60), <1>0, <2>1, <3>1, <3>2, <4>1 DEF Call, CallOK, DevicesTypeOK
      <4>2. CASE d # c
        <5>1. call'[d] = call[d] BY Zenon, <1>0, <3>1, <4>2 DEF DevicesTypeOK
        <5>2. call[d].limit = k /\ call[d].at = "rejected" /\ call[d].window = window[k]
                => i \in remote[k]
          BY ZenonT(40), <1>m, <2>1, <2>2, <2>4 DEF CallOK, Full
        <5>3. CASE call[d].limit = k
          <6>1. /\ call[d].window <= window[k]
                /\ call[d].window = window[k] =>
                     /\ call[d].at = "accepted" => call[d].ip \in remote[k]
                     /\ call[d].at = "rejected" =>
                          k > 0 /\ Cardinality(remote[k]) >= k /\ call[d].ip \notin remote[k]
            BY Zenon, <1>m, <5>3 DEF CallOK
          <6>2. call[d].at = "rejected" /\ call[d].window = window[k] => remote'[k] = remote[k]
            BY ZenonT(40), <3>2, <5>2, <5>3
          <6>3. call[d].ip \in remote[k] => call[d].ip \in remote'[k]
            BY Zenon, <3>2
          <6> QED BY ZenonT(40), <3>1, <5>1, <5>3, <6>1, <6>2, <6>3 DEF CallOK
        <5>4. CASE call[d].limit # k
          <6>1. call[d].limit \in Limits \ {k} BY Zenon, <1>0, <5>4 DEF DevicesTypeOK
          <6> QED BY ZenonT(40), <1>m, <3>1, <3>2, <5>1, <6>1 DEF CallOK
        <5> QED BY Zenon, <5>3, <5>4
      <4> QED BY Zenon, <4>1, <4>2
    <3> QED BY Zenon, <3>3, <3>4
  <2> QED BY Zenon, <2>3, <2>4
<1>3. ASSUME NEW c \in Calls, FailOpen(c)
      PROVE  (\A l \in Limits : KeyOK(l)') /\ (\A d \in Calls : CallOK(d)')
  <2>1. UNCHANGED <<remote, window, admitted, refused>> /\ call' = [call EXCEPT ![c] = AnyFree]
    BY <1>3 DEF FailOpen
  <2>2. \A d \in Calls : CallOK(d)'
    BY ZenonT(40), <1>0, <1>m, <2>1, FreedCall
  <2> QED BY ZenonT(40), <1>m, <2>1, <2>2 DEF KeyOK
<1>4. ASSUME NEW c \in Calls, Accept(c)
      PROVE  (\A l \in Limits : KeyOK(l)') /\ (\A d \in Calls : CallOK(d)')
  <2> DEFINE k == call[c].limit
             i == call[c].ip
  <2>1. /\ UNCHANGED <<remote, window, refused>>
        /\ call' = [call EXCEPT ![c] = AnyFree]
        /\ \/ admitted' = admitted
           \/ /\ call[c].window = window[k]
              /\ admitted' = [admitted EXCEPT ![k] = @ \cup {i}]
    BY <1>4 DEF Accept, InWindow
  <2>2. \A d \in Calls : CallOK(d)'
    BY ZenonT(40), <1>0, <1>m, <2>1, FreedCall
  <2>3. ASSUME NEW l \in Limits PROVE KeyOK(l)'
    <3>1. CASE admitted'[l] = admitted[l]
      BY ZenonT(40), <1>m, <2>1, <3>1 DEF KeyOK
    <3>2. CASE admitted'[l] # admitted[l]
      <4>1. l = k /\ call[c].window = window[k] /\ admitted'[k] = admitted[k] \cup {i}
        BY ZenonT(40), <1>0, <2>1, <3>2 DEF DevicesTypeOK
      <4>2. i \in remote[k]
        BY ZenonT(40), <1>m, <1>4, <4>1 DEF Accept, CallOK
      <4> HIDE DEF k, i
      <4> QED BY ZenonT(40), <1>m, <2>1, <4>1, <4>2 DEF KeyOK
    <3> QED BY Zenon, <3>1, <3>2
  <2> QED BY ZenonT(40), <2>2, <2>3
<1>5. ASSUME NEW c \in Calls, Refuse(c)
      PROVE  (\A l \in Limits : KeyOK(l)') /\ (\A d \in Calls : CallOK(d)')
  <2> DEFINE k == call[c].limit
             i == call[c].ip
  <2>1. /\ UNCHANGED <<remote, window, admitted>>
        /\ call' = [call EXCEPT ![c] = AnyFree]
        /\ \/ refused' = refused
           \/ /\ call[c].window = window[k]
              /\ refused' = [refused EXCEPT ![k] = @ \cup {i}]
    BY ZenonT(40), <1>5 DEF Refuse, InWindow
  <2>2. \A d \in Calls : CallOK(d)'
    BY Zenon, <1>0, <1>m, <2>1, FreedCall
  <2>3. ASSUME NEW l \in Limits PROVE KeyOK(l)'
    <3>1. CASE refused'[l] = refused[l]
      BY ZenonT(40), <1>m, <2>1, <3>1 DEF KeyOK
    <3>2. CASE refused'[l] # refused[l]
      <4>1. l = k /\ call[c].window = window[k] /\ refused'[k] = refused[k] \cup {i}
        BY Zenon, <1>0, <2>1, <3>2 DEF DevicesTypeOK
      <4>2. k > 0 /\ Cardinality(remote[k]) >= k /\ i \notin remote[k]
        BY ZenonT(40), <1>m, <1>5, <4>1 DEF Refuse, CallOK
      <4> HIDE DEF k, i
      <4> QED BY SMTT(40), Z3T(40), <1>m, <2>1, <4>1, <4>2 DEF KeyOK
    <3> QED BY Zenon, <3>1, <3>2
  <2> QED BY Zenon, <2>2, <2>3
<1>6. ASSUME NEW k \in Limits, ExpireRemote(k)
      PROVE  (\A l \in Limits : KeyOK(l)') /\ (\A d \in Calls : CallOK(d)')
  <2>1. Cardinality({}) = 0 /\ k \in Nat BY Zenon, FS_EmptySet, LimitsNat
  <2>2. \A l \in Limits : KeyOK(l)'
    BY SMTT(40), Z3T(40), <1>0, <1>m, <1>6, <2>1 DEF ExpireRemote, KeyOK, DevicesTypeOK
  <2>3. \A d \in Calls : CallOK(d)'
    BY SMTT(40), <1>0, <1>m, <1>6, ExpiriesNat DEF ExpireRemote, CallOK, DevicesTypeOK
  <2> QED BY Zenon, <2>2, <2>3
<1>7. ASSUME NEW n \in Nodes, NEW l \in Limits, ExpireLocal(n, l)
      PROVE  (\A k \in Limits : KeyOK(k)') /\ (\A d \in Calls : CallOK(d)')
  BY ZenonT(40), <1>m, <1>7 DEF ExpireLocal, KeyOK, CallOK
<1>8. ASSUME NEW n \in Nodes, Close(n) \/ Open(n)
      PROVE  (\A l \in Limits : KeyOK(l)') /\ (\A d \in Calls : CallOK(d)')
  BY ZenonT(40), <1>m, <1>8 DEF Close, Open, KeyOK, CallOK
<1>9. CASE UNCHANGED devicesVars
  BY Zenon, <1>m, <1>9 DEF devicesVars, KeyOK, CallOK
<1> QED BY ZenonT(40), <1>1, <1>2, <1>3, <1>4, <1>5, <1>6, <1>7, <1>8, <1>9 DEF DevicesNext

(* The inductive invariant: DevicesTypeOK and VerdictsMatchKey.            *)
THEOREM DevicesInvariant == DevicesSpec => []DevicesInv
<1>1. DevicesInit => DevicesInv
  <2> SUFFICES ASSUME DevicesInit PROVE DevicesInv OBVIOUS
  <2>1. DevicesTypeOK
    BY Zenon, FreeType, ExpiriesNat DEF DevicesInit, DevicesTypeOK
  <2>2. \A l \in Limits : KeyOK(l)
    BY SMTT(40), Z3T(40), FS_EmptySet, LimitsNat DEF DevicesInit, KeyOK
  <2>3. \A c \in Calls : CallOK(c)
    BY <2>1, FreeType DEF DevicesInit, CallOK, DevicesTypeOK
  <2> QED BY ZenonT(40), <2>1, <2>2, <2>3, MatchSplit DEF DevicesInv
<1>2. DevicesInv /\ [DevicesNext]_devicesVars => DevicesInv'
  BY Zenon, DevicesTypeStep, MatchStep DEF DevicesInv
<1> QED BY <1>1, <1>2, PTL DEF DevicesSpec

(* No window of a key admits more addresses than the key's limit.          *)
THEOREM LimitHolds == DevicesSpec => []GlobalLimitHolds
<1>1. DevicesInv => GlobalLimitHolds
  <2> SUFFICES ASSUME DevicesInv, NEW l \in Limits, l > 0
               PROVE  Cardinality(admitted[l]) <= l
      BY Zenon DEF GlobalLimitHolds
  <2>1. remote[l] \in SUBSET IPs /\ admitted[l] \in SUBSET remote[l] /\ l \in Nat
    BY LimitsNat DEF DevicesInv, DevicesTypeOK, VerdictsMatchKey
  <2>2. Cardinality(remote[l]) <= l
    BY ZenonT(40) DEF DevicesInv, VerdictsMatchKey
  <2> QED BY <2>1, <2>2, FewerAddresses
<1> QED BY <1>1, DevicesInvariant, PTL

(* No address is admitted and refused in the same window.                  *)
THEOREM Agreement == DevicesSpec => []VerdictsAgree
<1>1. DevicesInv => VerdictsAgree
  BY DEF DevicesInv, DevicesTypeOK, VerdictsMatchKey, VerdictsAgree
<1> QED BY <1>1, DevicesInvariant, PTL

(* The processes, their calls and their snapshots implement one register   *)
(* of addresses per key: a step of DeviceWindow, or none, for every step.  *)
THEOREM WindowImplemented == DevicesSpec => ImplementsWindow
<1>1. DevicesInit => Window!WindowInit
  BY DEF DevicesInit, Window!WindowInit
<1>2. DevicesInv /\ [DevicesNext]_devicesVars => [Window!WindowNext]_(Window!windowVars)
  <2> SUFFICES ASSUME DevicesInv, [DevicesNext]_devicesVars
               PROVE  Window!WindowNext \/ UNCHANGED <<remote, admitted, refused>>
      BY DEF Window!windowVars
  <2>0. DevicesTypeOK /\ VerdictsMatchKey BY Zenon DEF DevicesInv
  <2>1. ASSUME NEW c \in Calls, Reserve(c)
        PROVE  Window!WindowNext \/ UNCHANGED <<remote, admitted, refused>>
    <3> DEFINE l == call[c].limit
               i == call[c].ip
    <3>1. l \in Limits /\ i \in IPs /\ l \in Nat /\ remote[l] \in SUBSET IPs
      BY Zenon, <2>0, LimitsNat DEF DevicesTypeOK
    <3>2. Cardinality(remote[l]) \in Nat BY Zenon, <3>1, AddAddress
    <3>3. CASE Full(remote[l], l, i) \/ i \in remote[l]
      <4>1. UNCHANGED <<admitted, refused>> BY ZenonT(40), <2>1 DEF Reserve
      <4>2. remote' = remote \/ remote' = [remote EXCEPT ![l] = @ \cup {i}]
        BY <2>1 DEF Reserve
      <4>3. i \in remote[l] => [remote EXCEPT ![l] = @ \cup {i}] = remote
        BY ZenonT(40), <2>0, <3>1 DEF DevicesTypeOK
      <4>4. Full(remote[l], l, i) => remote' = remote BY <2>1 DEF Reserve
      <4> QED BY ZenonT(40), <3>3, <4>1, <4>2, <4>3, <4>4
    <3>4. CASE ~Full(remote[l], l, i) /\ i \notin remote[l]
      <4>1. Window!HasRoom(l)
        BY SMTT(40), Z3T(40), <3>1, <3>2, <3>4, SameCardinality DEF Full, Window!HasRoom
      <4>2. Window!TakePlace(l, i)
        BY ZenonT(40), <2>1, <3>4, <4>1 DEF Reserve, Window!TakePlace
      <4> QED BY Zenon, <3>1, <4>2 DEF Window!WindowNext
    <3> QED BY Zenon, <3>3, <3>4
  <2>2. ASSUME NEW c \in Calls, Accept(c)
        PROVE  Window!WindowNext \/ UNCHANGED <<remote, admitted, refused>>
    <3> DEFINE l == call[c].limit
               i == call[c].ip
    <3>1. l \in Limits /\ i \in IPs BY <2>0 DEF DevicesTypeOK
    <3>2. CASE call[c].window = window[l]
      <4>1. Window!Admit(l, i)
        BY ZenonT(40), <2>0, <2>2, <3>1, <3>2 DEF Accept, InWindow, VerdictsMatchKey,
           Window!Admit
      <4> QED BY Zenon, <3>1, <4>1 DEF Window!WindowNext
    <3>3. CASE call[c].window # window[l]
      BY ZenonT(40), <2>2, <3>3 DEF Accept, InWindow
    <3> QED BY ZenonT(40), <3>2, <3>3
  <2>3. ASSUME NEW c \in Calls, Refuse(c)
        PROVE  Window!WindowNext \/ UNCHANGED <<remote, admitted, refused>>
    <3> DEFINE l == call[c].limit
               i == call[c].ip
    <3>1. l \in Limits /\ i \in IPs /\ l \in Nat /\ remote[l] \in SUBSET IPs
      BY Zenon, <2>0, LimitsNat DEF DevicesTypeOK
    <3>2. Cardinality(remote[l]) \in Nat BY Zenon, <3>1, AddAddress
    <3>3. CASE call[c].window = window[l]
      <4>1. l > 0 /\ Cardinality(remote[l]) >= l /\ i \notin remote[l]
        BY ZenonT(40), <2>0, <2>3, <3>3 DEF Refuse, VerdictsMatchKey
      <4>2. ~Window!HasRoom(l)
        BY SMTT(40), <3>1, <3>2, <4>1, SameCardinality DEF Window!HasRoom
      <4>3. Window!TurnAway(l, i)
        BY ZenonT(40), <2>3, <3>3, <4>1, <4>2 DEF Refuse, InWindow, Window!TurnAway
      <4> QED BY Zenon, <3>1, <4>3 DEF Window!WindowNext
    <3>4. CASE call[c].window # window[l]
      BY ZenonT(40), <2>3, <3>4 DEF Refuse, InWindow
    <3> QED BY <3>3, <3>4
  <2>4. ASSUME NEW l \in Limits, ExpireRemote(l)
        PROVE  Window!WindowNext \/ UNCHANGED <<remote, admitted, refused>>
    <3>1. Window!EndWindow(l) BY Zenon, <2>4 DEF ExpireRemote, Window!EndWindow
    <3> QED BY Zenon, <3>1 DEF Window!WindowNext
  <2>5. ASSUME NEW c \in Calls,
               FailOpen(c) \/ \E n \in Nodes, l \in Limits, i \in IPs : Send(c, n, l, i)
        PROVE  UNCHANGED <<remote, admitted, refused>>
    BY <2>5 DEF FailOpen, Send
  <2>6. ASSUME NEW n \in Nodes, Close(n) \/ Open(n) \/ \E l \in Limits : ExpireLocal(n, l)
        PROVE  UNCHANGED <<remote, admitted, refused>>
    BY Zenon, <2>6 DEF Close, Open, ExpireLocal
  <2>7. CASE UNCHANGED devicesVars
    BY <2>7 DEF devicesVars
  <2> QED BY ZenonT(40), <2>1, <2>2, <2>3, <2>4, <2>5, <2>6, <2>7 DEF DevicesNext
<1> QED
  BY <1>1, <1>2, DevicesInvariant, PTL DEF DevicesSpec, ImplementsWindow, Window!WindowSpec

-----------------------------------------------------------------------------
(* RuleManager, for any number of connections, users, rules and lists.     *)

(* While no set is published there is one that nobody points to: the model *)
(* never runs out of sets to allocate.                                     *)
LEMMA FreshSetExists ==
  ASSUME RuleInv, results = 0
  PROVE  FreshSet \in Sets \ InUse
<1> DEFINE pointed == [c \in Conns |-> detect[c].set]
           F == {detect[c].set : c \in Conns}
<1>1. IsFiniteSet(F) /\ Cardinality(F) <= Cardinality(Conns)
  <2>1. pointed \in Surjection(Conns, F)
    BY Zenon DEF Surjection
  <2> QED
    BY Zenon, <2>1, ConnsFinite, FS_Surjection
<1>2. /\ IsFiniteSet(F \cup {held})
      /\ Cardinality(F \cup {held}) <= Cardinality(Conns) + 1
  <2>1. Cardinality(F) \in Nat /\ Cardinality(Conns) \in Nat
    BY ZenonT(40), <1>1, ConnsFinite, FS_CardinalityType
  <2>2. IsFiniteSet(F \cup {held})
    BY Zenon, <1>1, FS_AddElement
  <2>3. Cardinality(F \cup {held}) \in {Cardinality(F), Cardinality(F) + 1}
    BY Zenon, <1>1, FS_AddElement
  <2> QED
    BY SMTT(40), Z3T(40), <1>1, <2>1, <2>2, <2>3
<1>3. Cardinality(Sets) = Cardinality(Conns) + 2 /\ Cardinality(Conns) \in Nat
  <2>1. Cardinality(Conns) \in Nat
    BY Zenon, ConnsFinite, FS_CardinalityType
  <2>2. /\ 1 \in Int /\ Cardinality(Conns) + 2 \in Int /\ ~(1 > Cardinality(Conns) + 2)
    BY <2>1
  <2>3. Cardinality(1 .. (Cardinality(Conns) + 2)) = (Cardinality(Conns) + 2) - 1 + 1
    BY Zenon, <2>2, FS_Interval
  <2> QED
    BY <2>1, <2>3 DEF Sets
<1>4. ~(Sets \subseteq F \cup {held})
  <2> SUFFICES ASSUME Sets \in SUBSET (F \cup {held}) PROVE FALSE
    OBVIOUS
  <2>1. Cardinality(Sets) <= Cardinality(F \cup {held})
    BY Zenon, <1>2, FS_Subset
  <2>2. Cardinality(F \cup {held}) \in Nat
    BY Zenon, <1>2, FS_CardinalityType
  <2> QED
    BY <1>2, <1>3, <2>1, <2>2
<1>5. \E s \in Sets : s \notin InUse
  BY <1>3, <1>4 DEF InUse, Sets
<1> QED
  BY Zenon, <1>5 DEF FreshSet

(* sameRuleList says yes to equal lists only.                              *)
LEMMA SameListsAreEqual ==
  ASSUME NEW old \in RuleLists, NEW new \in RuleLists, SameRuleList(old, new)
  PROVE  old = new
<1> DEFINE R == [id : Int, pattern : DOMAIN Matches]
<1>1. old \in Seq(R) /\ new \in Seq(R)
  BY Zenon, ListsOfRules
<1>2. Len(old) = Len(new) /\ DOMAIN old = 1..Len(old) /\ DOMAIN new = 1..Len(new)
  BY <1>1 DEF SameRuleList
<1>3. ASSUME NEW n \in 1..Len(old) PROVE old[n] = new[n]
  <2>1. old[n] \in R /\ new[n] \in R
    <3> HIDE DEF R
    <3> QED
      BY <1>1, <1>2
  <2>2. old[n].id = new[n].id /\ old[n].pattern = new[n].pattern
    BY Zenon, <1>2 DEF SameRuleList
  <2>3. ASSUME NEW r \in R PROVE r = [id |-> r.id, pattern |-> r.pattern]
    OBVIOUS
  <2>4. old[n] = [id |-> old[n].id, pattern |-> old[n].pattern]
    BY Zenon, <2>1, <2>3
  <2>5. new[n] = [id |-> new[n].id, pattern |-> new[n].pattern]
    BY ZenonT(40), <2>1, <2>3
  <2> QED
    BY Zenon, <2>2, <2>4, <2>5
<1> QED
  BY SMTT(40), <1>1, <1>2, <1>3

(* UpdateRule leaves the list it was called with.                          *)
LEMMA UpdateStep ==
  ASSUME RuleInv, NEW l \in RuleLists \cup {<<>>}, UpdateRule(l)
  PROVE  RuleInv'
<1>1. rules' = l /\ fetched' = l
  BY SameListsAreEqual DEF UpdateRule, RuleInv
<1> QED
  BY Zenon, <1>1 DEF UpdateRule, RuleInv, DetectInv, ResultInv, Published

(* A connection that matched a rule points to no set yet.                  *)
LEMMA RuleMatchStep ==
  ASSUME RuleInv, NEW c \in Conns, NEW u \in Uids, NEW d \in Dests, Match(c, u, d)
  PROVE  RuleInv'
<1> DEFINE hit == <<u, rules[FirstHit(rules, d)].id>>
<1>1. /\ detect' = [detect EXCEPT ![c] = [at |-> "hit", hit |-> hit, set |-> 0]]
      /\ UNCHANGED <<rules, fetched, results, members, held, owed, spanned>>
  BY DEF Match
<1> HIDE DEF hit
<1>2. DetectInv'
  BY ZenonT(40), <1>1 DEF RuleInv, DetectInv
<1>3. ResultInv'
  BY <1>1 DEF RuleInv, DetectInv, ResultInv, Published
<1> QED
  BY ZenonT(40), <1>1, <1>2, <1>3 DEF RuleInv

(* The first hit publishes a set of its own, later ones join it.           *)
LEMMA LoadOrStoreStep ==
  ASSUME RuleInv, NEW c \in Conns, LoadOrStore(c)
  PROVE  RuleInv'
<1>a. DOMAIN detect = Conns /\ DOMAIN members = Sets /\ 0 \notin Sets
  BY DEF RuleInv, DetectInv, Sets
<1>1. CASE results = 0
  <2> DEFINE s == FreshSet
             hit == detect[c].hit
  <2>1. s \in Sets /\ s \notin InUse
    BY Zenon, <1>1, FreshSetExists
  <2>2. /\ results' = s /\ members' = [members EXCEPT ![s] = {hit}]
        /\ detect' = [detect EXCEPT ![c] = NotDetecting] /\ owed' = owed \cup {hit}
        /\ UNCHANGED <<rules, fetched, held, spanned>>
    BY Zenon, <1>1 DEF LoadOrStore, Completed
  <2> HIDE DEF s, hit
  <2>3. s # held /\ \A b \in Conns : s # detect[b].set
    BY Zenon, <2>1 DEF InUse
  <2>4. DetectInv'
    BY ZenonT(40), <2>2, <1>a DEF RuleInv, DetectInv, NotDetecting
  <2>5. ResultInv'
    <3>1. SUFFICES ASSUME ~spanned PROVE ResultInv'
      BY ZenonT(40), <2>2 DEF ResultInv
    <3>2. /\ owed \subseteq Published
          /\ \A b \in Conns : detect[b].at \in {"adding", "storing"} => detect[b].set = results
      BY Zenon, <3>1 DEF RuleInv, ResultInv
    <3>3. \A b \in Conns : detect[b].at \notin {"adding", "storing"}
      BY ZenonT(40), <1>1, <1>a, <3>2 DEF RuleInv, DetectInv
    <3>4. owed' \subseteq Published'
      <4>1. ASSUME NEW h \in owed PROVE held # 0 /\ h \in members[held]
        BY Zenon, <1>1, <3>2 DEF Published
      <4>2. held' # 0 => members'[held'] = members[held]
        BY <2>2, <2>3, <1>a
      <4>3. results' # 0 /\ hit \in members'[results']
        BY ZenonT(40), <2>1, <2>2, <1>a
      <4> QED
        BY SMTT(40), Z3T(40), <2>2, <4>1, <4>2, <4>3 DEF Published
    <3>5. \A b \in Conns : detect'[b].at \notin {"adding", "storing"}
      BY ZenonT(40), <2>2, <3>3, <1>a DEF NotDetecting
    <3> QED
      BY Zenon, <3>4, <3>5 DEF ResultInv
  <2> QED
    BY ZenonT(40), <2>1, <2>2, <2>4, <2>5, <1>a DEF RuleInv
<1>2. CASE results # 0
  <2>1. /\ detect' = [detect EXCEPT ![c] =
             [at |-> "adding", hit |-> detect[c].hit, set |-> results]]
        /\ UNCHANGED <<results, members, owed, rules, fetched, held, spanned>>
    BY Zenon, <1>2 DEF LoadOrStore
  <2>2. DetectInv'
    BY ZenonT(40), <2>1, <1>2, <1>a DEF RuleInv, DetectInv
  <2>3. ResultInv'
    BY ZenonT(40), <2>1, <1>a DEF RuleInv, ResultInv, Published
  <2> QED
    BY ZenonT(40), <2>1, <2>2, <2>3 DEF RuleInv
<1> QED
  BY ZenonT(40), <1>1, <1>2

(* Adding to the published set keeps what it holds.                        *)
LEMMA AddHitStep ==
  ASSUME RuleInv, NEW c \in Conns, AddHit(c)
  PROVE  RuleInv'
<1> DEFINE s == detect[c].set
           hit == detect[c].hit
           added == [members EXCEPT ![s] = @ \cup {hit}]
<1>a. DOMAIN detect = Conns /\ DOMAIN members = Sets /\ 0 \notin Sets
  BY DEF RuleInv, DetectInv, Sets
<1>1. /\ detect[c].at = "adding" /\ s \in Sets
      /\ UNCHANGED <<rules, fetched, results, held, owed, spanned>>
      /\ members' = Alive(added)
      /\ \/ hit \in members[s] /\ detect' = [detect EXCEPT ![c] = NotDetecting]
         \/ detect' = [detect EXCEPT ![c] = [at |-> "storing", hit |-> hit, set |-> s]]
  BY DEF AddHit, RuleInv, DetectInv
<1>2. ASSUME NEW t \in Sets, t \in InUse'
      PROVE  members'[t] = IF t = s THEN members[t] \cup {hit} ELSE members[t]
  BY ZenonT(40), <1>1, <1>2, <1>a DEF Alive
<1>3. DOMAIN members' = Sets
  BY Zenon, <1>1 DEF Alive
<1> HIDE DEF s, hit, added
<1>4. DetectInv'
  BY <1>1, <1>a DEF RuleInv, DetectInv, NotDetecting
<1>5. ResultInv'
  <2> SUFFICES ASSUME ~spanned PROVE ResultInv'
    BY ZenonT(40), <1>1 DEF ResultInv
  <2>1. /\ owed \subseteq Published
        /\ \A b \in Conns : detect[b].at \in {"adding", "storing"} => detect[b].set = results
        /\ \A b \in Conns : detect[b].at = "storing" => detect[b].hit \in members[detect[b].set]
    BY DEF RuleInv, ResultInv
  <2>2. s = results
    BY ZenonT(40), <1>1, <2>1 DEF s
  <2>3. \A t \in {results, held} \ {0} : t \in Sets /\ t \in InUse'
    BY <1>1 DEF RuleInv, InUse
  <2>4. \A t \in {results, held} \ {0} : members[t] \subseteq members'[t]
    BY Zenon, <1>2, <2>3
  <2>5. owed' \subseteq Published'
    BY <1>1, <2>1, <2>4 DEF Published
  <2>6. hit \in members'[results]
    BY Zenon, <1>1, <1>2, <1>a, <2>2, <2>3
  <2>7. ASSUME NEW b \in Conns, detect'[b].at \in {"adding", "storing"}
        PROVE  detect'[b].set = results
    BY SMTT(40), Z3T(40), <1>1, <1>a, <2>1, <2>2, <2>7 DEF NotDetecting
  <2>8. ASSUME NEW b \in Conns, detect'[b].at = "storing"
        PROVE  detect'[b].hit \in members'[results]
    <3>1. CASE b = c
      BY SMTT(40), Z3T(40), <1>1, <1>a, <2>6, <2>8, <3>1 DEF NotDetecting
    <3>2. CASE b # c
      <4>1. detect'[b] = detect[b]
        BY ZenonT(40), <1>1, <1>a, <3>2
      <4>2. detect[b].hit \in members[results]
        BY ZenonT(40), <2>1, <2>8, <4>1
      <4> QED
        BY ZenonT(40), <4>1, <4>2, <1>1, <1>a, <2>2, <2>4
    <3> QED
      BY Zenon, <3>1, <3>2
  <2> QED
    BY ZenonT(40), <1>1, <2>5, <2>7, <2>8 DEF ResultInv
<1> QED
  BY ZenonT(40), <1>1, <1>3, <1>4, <1>5 DEF RuleInv

(* Storing the published set again changes nothing unless a collection     *)
(* fell in between.                                                        *)
LEMMA StoreStep ==
  ASSUME RuleInv, NEW c \in Conns, StoreSet(c)
  PROVE  RuleInv'
<1> DEFINE s == detect[c].set
           hit == detect[c].hit
<1>a. DOMAIN detect = Conns /\ DOMAIN members = Sets /\ 0 \notin Sets
  BY DEF RuleInv, DetectInv, Sets
<1>1. /\ detect[c].at = "storing" /\ s \in Sets
      /\ results' = s /\ detect' = [detect EXCEPT ![c] = NotDetecting]
      /\ owed' = owed \cup {hit} /\ members' = Alive(members)
      /\ UNCHANGED <<rules, fetched, held, spanned>>
  BY ZenonT(40) DEF StoreSet, Completed, RuleInv, DetectInv
<1>2. DetectInv'
  BY ZenonT(40), <1>1, <1>a DEF RuleInv, DetectInv, NotDetecting
<1>3. ResultInv'
  <2> SUFFICES ASSUME ~spanned PROVE ResultInv'
    BY Zenon, <1>1 DEF ResultInv
  <2>1. /\ owed \subseteq Published
        /\ \A b \in Conns : detect[b].at \in {"adding", "storing"} => detect[b].set = results
        /\ \A b \in Conns : detect[b].at = "storing" => detect[b].hit \in members[detect[b].set]
    BY DEF RuleInv, ResultInv
  <2>2. results' = results /\ results # 0 /\ hit \in members[results]
    BY ZenonT(40), <1>1, <1>a, <2>1
  <2>3. \A t \in {results, held} \ {0} : members'[t] = members[t]
    BY ZenonT(40), <1>1, <2>2 DEF Alive, InUse, RuleInv
  <2>4. owed' \subseteq Published'
    BY SMTT(40), Z3T(40), <1>1, <2>1, <2>2, <2>3 DEF Published
  <2>5. \A b \in Conns : detect'[b].at \in {"adding", "storing"} => detect'[b] = detect[b]
    BY Zenon, <1>1, <1>a DEF NotDetecting
  <2>6. \A b \in Conns : detect[b].at = "storing" => detect[b].hit \in members'[results]
    BY ZenonT(40), <2>1, <2>2, <2>3
  <2> QED
    BY ZenonT(40), <2>1, <2>2, <2>4, <2>5, <2>6 DEF ResultInv
<1> QED
  BY ZenonT(40), <1>1, <1>2, <1>3 DEF RuleInv, Alive

(* A collection outside every Detect takes the set as a whole ...          *)
LEMMA TakeStep ==
  ASSUME RuleInv, TakeResults
  PROVE  RuleInv'
<1>1. DetectInv'
  BY DEF TakeResults, RuleInv, DetectInv
<1>2. ResultInv'
  <2> SUFFICES ASSUME ~spanned' PROVE ResultInv'
    BY DEF ResultInv
  <2>1. /\ ~spanned /\ \A c \in Conns : detect[c].at \notin {"adding", "storing"}
        /\ held = 0 /\ results # 0 /\ held' = results /\ results' = 0
        /\ UNCHANGED <<members, detect, owed>>
    BY ZenonT(40) DEF TakeResults
  <2>2. owed \subseteq Published
    BY ZenonT(40), <2>1 DEF RuleInv, ResultInv
  <2>3. Published = members[results] /\ Published' = members[results]
    BY <2>1 DEF Published
  <2> QED
    BY ZenonT(40), <2>1, <2>2, <2>3 DEF ResultInv
<1> QED
  BY <1>1, <1>2 DEF TakeResults, RuleInv

(* ... and reports all it holds.                                           *)
LEMMA ReadStep ==
  ASSUME RuleInv, ReadResults
  PROVE  RuleInv'
<1>1. DetectInv'
  BY Zenon DEF ReadResults, RuleInv, DetectInv
<1>2. ResultInv'
  <2> SUFFICES ASSUME ~spanned PROVE ResultInv'
    BY DEF ReadResults, ResultInv
  <2>1. results # 0 => members'[results] = members[results] /\ results' = results
    BY Zenon DEF ReadResults, Alive, InUse, RuleInv
  <2>2. owed' \subseteq Published'
    BY SMTT(40), Z3T(40), <2>1 DEF ReadResults, Published, RuleInv, ResultInv
  <2>3. ASSUME NEW c \in Conns, detect[c].at \in {"adding", "storing"}
        PROVE  detect[c].set = results /\ results # 0
    BY SMTT(40), Z3T(40), <2>3 DEF RuleInv, DetectInv, ResultInv, Sets
  <2> QED
    BY ZenonT(40), <2>1, <2>2, <2>3 DEF ReadResults, RuleInv, ResultInv
<1> QED
  BY ZenonT(40), <1>1, <1>2 DEF ReadResults, RuleInv, Alive

(* The inductive invariant of rules, result sets and Detects.              *)
THEOREM RuleInvariant == RuleSpec => []RuleInv
<1>1. RuleInit => RuleInv
  BY DEF RuleInit, RuleInv, DetectInv, ResultInv, NotDetecting
<1>2. RuleInv /\ [RuleNext]_ruleVars => RuleInv'
  <2> SUFFICES ASSUME RuleInv, [RuleNext]_ruleVars PROVE RuleInv'
    OBVIOUS
  <2>1. CASE UNCHANGED ruleVars
    BY ZenonT(40), <2>1 DEF ruleVars, RuleInv, DetectInv, ResultInv, Published
  <2> QED
    BY Zenon, <2>1, UpdateStep, RuleMatchStep, LoadOrStoreStep, AddHitStep, StoreStep, TakeStep,
       ReadStep DEF RuleNext
<1> QED
  BY <1>1, <1>2, PTL DEF RuleSpec

(* Connections match against the list UpdateRule was last called with.     *)
THEOREM RulesCurrent == RuleSpec => []RulesAreCurrent
<1>1. RuleInv => RulesAreCurrent
  BY ZenonT(40) DEF RuleInv, RulesAreCurrent
<1> QED
  BY <1>1, RuleInvariant, PTL

(* A hit gets lost only when a collection fell within a Detect.            *)
THEOREM QuietCollections == RuleSpec => []QuietCollectionsLoseNothing
<1>1. RuleInv => QuietCollectionsLoseNothing
  BY DEF RuleInv, ResultInv, Published, QuietCollectionsLoseNothing, Kept
<1> QED
  BY <1>1, RuleInvariant, PTL
=============================================================================
