-------------------------- MODULE UserFlowsProofs --------------------------
(***************************************************************************)
(* Proofs about UserFlows, for any number of tags, users, connections and  *)
(* bytes.                                                                  *)
(***************************************************************************)
EXTENDS UserFlows, FiniteSetTheorems, TLAPS

\* Counting one byte leaves the three byte ledgers functions into Nat.
AddedTypes ==
  /\ counter \in [Counters -> Nat]
  /\ counted \in [Counters -> Nat]
  /\ orphaned \in [Counters -> Nat]
  /\ taken \in [Counters -> Nat]

\* AddToCounter adds one to counted and to either the counter or orphaned.
LEMMA AddToCounterEffect ==
  ASSUME FlowsTypeOK, NEW f \in Flows, NEW d \in Dir, AddToCounter(f, d)
  PROVE  \E k \in Counters :
           /\ k = <<email[f], d>>
           /\ counted' = [counted EXCEPT ![k] = @ + 1]
           /\ taken' = taken
           /\ \/ /\ handle[<<f, d>>] = "live"
                 /\ counter' = [counter EXCEPT ![k] = @ + 1]
                 /\ orphaned' = orphaned
              \/ /\ handle[<<f, d>>] = "detached"
                 /\ counter' = counter
                 /\ orphaned' = [orphaned EXCEPT ![k] = @ + 1]
<1>1. <<email[f], d>> \in Counters
  BY DEF FlowsTypeOK, Counters
<1>2. WITNESS <<email[f], d>> \in Counters
<1> QED
  BY DEF AddToCounter

(* AddToCounter does that.                                                 *)
LEMMA AddToCounterTypes ==
  ASSUME FlowsTypeOK, NEW f \in Flows, NEW d \in Dir, AddToCounter(f, d)
  PROVE  AddedTypes'
<1>1. PICK k \in Counters :
           /\ counted' = [counted EXCEPT ![k] = @ + 1]
           /\ taken' = taken
           /\ \/ /\ counter' = [counter EXCEPT ![k] = @ + 1]
                 /\ orphaned' = orphaned
              \/ /\ counter' = counter
                 /\ orphaned' = [orphaned EXCEPT ![k] = @ + 1]
  BY ZenonT(40), AddToCounterEffect
<1>2. /\ counted \in [Counters -> Nat] /\ taken \in [Counters -> Nat]
      /\ counter \in [Counters -> Nat] /\ orphaned \in [Counters -> Nat]
  BY DEF FlowsTypeOK
<1>3. counted' \in [Counters -> Nat] /\ taken' \in [Counters -> Nat]
  BY <1>1, <1>2
<1>4. counter' \in [Counters -> Nat] /\ orphaned' \in [Counters -> Nat]
  BY <1>1, <1>2
<1> QED
  BY <1>3, <1>4 DEF AddedTypes

\* Giving a reference back keeps the types of the references and of their count.
LEMMA ReleaseTypes ==
  ASSUME FlowsTypeOK, NEW f \in Flows, Release(f)
  PROVE  active' \in [Email -> Nat] /\ ref' \in [Flows -> Pointer]
<1>1. active \in [Email -> Nat] /\ ref \in [Flows -> Pointer] /\ email[f] \in Email
  BY DEF FlowsTypeOK
<1>2. ref' \in [Flows -> Pointer]
  BY Zenon, <1>1 DEF Release, Pointer
<1>3. CASE ref[f] = "live" /\ active[email[f]] > 0
  <2>1. active[email[f]] - 1 \in Nat
    BY SMTT(40), <1>1, <1>3
  <2> QED
    BY Zenon, <1>1, <1>2, <1>3, <2>1 DEF Release
<1>4. CASE ~(ref[f] = "live" /\ active[email[f]] > 0)
  BY ZenonT(40), <1>1, <1>2, <1>4 DEF Release
<1> QED
  BY <1>3, <1>4

\* So does an owner that lets go, last or not.
LEMMA ReleaseOwnerTypes ==
  ASSUME FlowsTypeOK, NEW f \in Flows, NEW o \in Owner, ReleaseOwner(f, o)
  PROVE  active' \in [Email -> Nat] /\ ref' \in [Flows -> Pointer]
<1>1. Release(f) \/ UNCHANGED <<ref, active>>
  BY Zenon DEF ReleaseOwner
<1> QED
  BY <1>1, ReleaseTypes DEF FlowsTypeOK

\* Every step of the registry preserves the types of its variables.
LEMMA TypeStep == FlowsTypeOK /\ [FlowsNext]_flowsVars => FlowsTypeOK'
<1> SUFFICES ASSUME FlowsTypeOK, [FlowsNext]_flowsVars PROVE FlowsTypeOK'
  BY Zenon
<1> USE DEF FlowsTypeOK, registryVars, statsVars, flowVars, historyVars
<1>1. ASSUME NEW f \in Flows, NEW e \in Email, Acquire(f, e) PROVE FlowsTypeOK'
  <2> USE <1>1 DEF Acquire
  <2>1. runtime' \subseteq Email
    BY Zenon
  <2>2. active' \in [Email -> Nat]
    BY SMTT(40)
  <2>3. state' \in [Flows -> FlowState]
    BY Zenon DEF FlowState
  <2>4. email' \in [Flows -> Email]
    BY Zenon
  <2>5. ref' \in [Flows -> Pointer]
    BY Zenon DEF Pointer
  <2> QED
    BY ZenonT(40), <2>1, <2>2, <2>3, <2>4, <2>5
<1>2. ASSUME NEW f \in Flows, RejectDevice(f) PROVE FlowsTypeOK'
  <2> USE <1>2 DEF RejectDevice
  <2>1. active' \in [Email -> Nat] /\ ref' \in [Flows -> Pointer]
    BY Zenon, ReleaseTypes
  <2>2. state' \in [Flows -> FlowState]
    BY Zenon DEF FlowState
  <2> QED
    BY <2>1, <2>2
<1>3. ASSUME NEW f \in Flows, GetUplinkCounter(f) \/ GetDownlinkCounter(f) PROVE FlowsTypeOK'
  <2> USE <1>3 DEF GetUplinkCounter, GetDownlinkCounter, GetCounter
  <2>1. registered' \subseteq Counters
    BY SMTT(40) DEF Counters, Dir
  <2>2. handle' \in [Flows \X Dir -> Pointer]
    BY ZenonT(40) DEF Dir, Pointer
  <2>3. state' \in [Flows -> FlowState]
    BY Zenon DEF FlowState
  <2> QED
    BY Zenon, <2>1, <2>2, <2>3
<1>4. ASSUME NEW f \in Flows, OpenLink(f) \/ OpenDirect(f) PROVE FlowsTypeOK'
  <2> USE <1>4 DEF OpenLink, OpenDirect
  <2>1. owners' \in [Flows -> SUBSET Owner]
    BY SMTT(40) DEF Owner
  <2>2. pipe' \in [Flows -> SUBSET Dir]
    BY ZenonT(40)
  <2>3. state' \in [Flows -> FlowState]
    BY ZenonT(40) DEF FlowState
  <2> QED
    BY Zenon, <2>1, <2>2, <2>3
<1>5. ASSUME NEW f \in Flows, FallBack(f) PROVE FlowsTypeOK'
  <2> USE <1>5 DEF FallBack
  <2>1. active' \in [Email -> Nat] /\ ref' \in [Flows -> Pointer]
    BY ReleaseTypes
  <2>2. handle' \in [Flows \X Dir -> Pointer]
    BY Zenon DEF Dir, Pointer
  <2>3. state' \in [Flows -> FlowState]
    BY DEF FlowState
  <2> QED
    BY ZenonT(40), <2>1, <2>2, <2>3
<1>6. ASSUME NEW f \in Flows, CloseDirect(f) PROVE FlowsTypeOK'
  <2>0. "direct" \in Owner /\ ReleaseOwner(f, "direct")
    BY Zenon, <1>6 DEF CloseDirect, Owner, Dir
  <2>1. active' \in [Email -> Nat] /\ ref' \in [Flows -> Pointer]
    BY Zenon, <2>0, ReleaseOwnerTypes
  <2> USE <2>0 DEF ReleaseOwner
  <2>2. owners' \in [Flows -> SUBSET Owner]
    BY Zenon DEF Owner
  <2>3. state' \in [Flows -> FlowState]
    BY Zenon DEF FlowState
  <2> QED
    BY Zenon, <2>1, <2>2, <2>3
<1>7. ASSUME NEW f \in Flows, Forget(f) PROVE FlowsTypeOK'
  <2> USE <1>7 DEF Forget
  <2>1. handle' \in [Flows \X Dir -> Pointer]
    BY Zenon DEF Dir, Pointer
  <2>2. state' \in [Flows -> FlowState]
    BY Zenon DEF FlowState
  <2> QED
    BY ZenonT(40), <2>1, <2>2
<1>8. ASSUME NEW f \in Flows, NEW d \in Dir, CountWrite(f, d) PROVE FlowsTypeOK'
  <2>1. AddedTypes'
    BY Zenon, <1>8, AddToCounterTypes DEF CountWrite
  <2>2. chunk' \in [Flows \X Dir -> Pointer]
    BY Zenon, <1>8 DEF CountWrite, Dir, Pointer
  <2> QED
    BY Zenon, <1>8, <2>1, <2>2 DEF CountWrite, AddedTypes
<1>9. ASSUME NEW f \in Flows, NEW d \in Dir, CountDirect(f, d) PROVE FlowsTypeOK'
  <2>1. AddedTypes'
    BY Zenon, <1>9, AddToCounterTypes DEF CountDirect
  <2> QED
    BY Zenon, <1>9, <2>1 DEF CountDirect, AddedTypes
<1>10. ASSUME NEW f \in Flows, NEW d \in Dir, FinishWrite(f, d) \/ ClosePipe(f, d) PROVE FlowsTypeOK'
  <2> USE <1>10 DEF FinishWrite, ClosePipe
  <2>1. chunk' \in [Flows \X Dir -> Pointer]
    BY ZenonT(40) DEF Dir, Pointer
  <2>2. pipe' \in [Flows -> SUBSET Dir]
    BY ZenonT(40)
  <2> QED
    BY Zenon, <2>1, <2>2
<1>11. ASSUME NEW f \in Flows, NEW d \in Dir, ReleaseWriter(f, d) PROVE FlowsTypeOK'
  <2>0. d \in Owner /\ ReleaseOwner(f, d)
    BY Zenon, <1>11 DEF ReleaseWriter, Owner, Dir
  <2>1. active' \in [Email -> Nat] /\ ref' \in [Flows -> Pointer]
    BY Zenon, <2>0, ReleaseOwnerTypes
  <2> USE <2>0 DEF ReleaseOwner
  <2>2. owners' \in [Flows -> SUBSET Owner]
    BY Zenon DEF Owner
  <2>3. state' \in [Flows -> FlowState]
    BY Zenon DEF FlowState
  <2> QED
    BY Zenon, <2>1, <2>2, <2>3
<1>12. ASSUME NEW t \in Tags, NEW emails \in SUBSET EmailsOf(t),
              RegisterUsers(t, emails) \/ RetireUsers(t, emails)
       PROVE  FlowsTypeOK'
  <2>1. emails \subseteq Email
    BY Zenon DEF EmailsOf, Email
  <2> QED
    BY Zenon, <1>12, <2>1 DEF RegisterUsers, RetireUsers, RegisterManagedUsers,
       RetireManagedUsers
<1>13. ASSUME NEW e \in Email, FinalizeRetiredUser(e) PROVE FlowsTypeOK'
  <2> USE <1>13 DEF FinalizeRetiredUser
  <2>1. runtime' \subseteq Email /\ registered' \subseteq Counters
    BY Zenon
  <2>2. counter' \in [Counters -> Nat]
    BY Zenon
  <2>3. ref' \in [Flows -> Pointer]
    BY Zenon DEF Detach, Pointer
  <2>4. handle' \in [Flows \X Dir -> Pointer]
    BY Zenon DEF Detach, Pointer
  <2> QED
    BY ZenonT(40), <2>1, <2>2, <2>3, <2>4
<1>14. ASSUME NEW k \in Counters, DrainCounter(k) PROVE FlowsTypeOK'
  BY SMTT(40), <1>14 DEF DrainCounter
<1>15. ASSUME NEW deltas \in [Counters -> 0 .. MaxBytes], Restorable(deltas),
              RestoreTraffic(deltas)
       PROVE  FlowsTypeOK'
  BY SMTT(40), Z3T(40), <1>15, MaxBytesNat DEF RestoreTraffic, Restorable
<1>16. CASE UNCHANGED flowsVars
  BY <1>16 DEF flowsVars
<1> HIDE DEF FlowsTypeOK, registryVars, statsVars, flowVars, historyVars
<1> QED
  BY ZenonT(40), <1>1, <1>2, <1>3, <1>4, <1>5, <1>6, <1>7, <1>8, <1>9, <1>10, <1>11,
     <1>12, <1>13,
     <1>14, <1>15, <1>16 DEF FlowsNext, FlowStep

\* They do when an owner lets go whose pipe is closed, or that has none.
LEMMA ReleaseOwnerLifecycle ==
  ASSUME FlowsTypeOK, \A h \in Flows : FlowLifecycle(h), NEW f \in Flows, NEW o,
         ReleaseOwner(f, o), o \notin pipe[f], state[f] \in {"link", "direct"},
         NEW g \in Flows
  PROVE  FlowLifecycle(g)'
<1>1. FlowLifecycle(g) /\ UNCHANGED <<nodes, registered, email, handle, pipe, chunk>>
  BY ZenonT(40) DEF ReleaseOwner, statsVars
<1>2. owners'[g] = IF g = f THEN owners[g] \ {o} ELSE owners[g]
  BY Zenon DEF ReleaseOwner, FlowsTypeOK
<1>3. CASE g # f
  <2>1. ref'[g] = ref[g] /\ state'[g] = state[g]
    BY Zenon, <1>3 DEF ReleaseOwner, Release, FlowsTypeOK
  <2> QED
    BY ZenonT(40), <1>1, <1>2, <1>3, <2>1 DEF FlowLifecycle
<1>4. CASE g = f /\ owners[f] # {o}
  <2>1. ref'[g] = ref[g] /\ state'[g] = state[g]
    BY ZenonT(40), <1>4 DEF ReleaseOwner
  <2> QED
    BY ZenonT(40), <1>1, <1>2, <1>4, <2>1 DEF FlowLifecycle
<1>5. CASE g = f /\ owners[f] = {o}
  <2>1. ref'[g] = "none" /\ state'[g] = "closed"
    BY Zenon, <1>5 DEF ReleaseOwner, Release, FlowsTypeOK
  <2>2. pipe[g] = {}
    BY Zenon, <1>1, <1>5 DEF FlowLifecycle
  <2> QED
    BY ZenonT(40), <1>1, <1>2, <1>5, <2>1, <2>2 DEF FlowLifecycle
<1> QED
  BY Zenon, <1>3, <1>4, <1>5

\* A step that leaves the ledgers alone and unregisters nothing keeps them.
LEMMA SameLedger ==
  ASSUME UnregisteredAreEmpty, BytesConserved,
         UNCHANGED <<counter, counted, orphaned, taken>>,
         registered \subseteq registered'
  PROVE  UnregisteredAreEmpty' /\ BytesConserved'
BY DEF UnregisteredAreEmpty, BytesConserved

\* A counted byte lands on a registered counter or among the orphans.
LEMMA LedgerAdd ==
  ASSUME FlowsInv, NEW f \in Flows, NEW d \in Dir, AddToCounter(f, d),
         UNCHANGED registered
  PROVE  UnregisteredAreEmpty' /\ BytesConserved'
<1>1. FlowsTypeOK
  BY Zenon DEF FlowsInv
<1>2. PICK k \in Counters :
           /\ k = <<email[f], d>>
           /\ counted' = [counted EXCEPT ![k] = @ + 1]
           /\ taken' = taken
           /\ \/ /\ handle[<<f, d>>] = "live"
                 /\ counter' = [counter EXCEPT ![k] = @ + 1]
                 /\ orphaned' = orphaned
              \/ /\ handle[<<f, d>>] = "detached"
                 /\ counter' = counter
                 /\ orphaned' = [orphaned EXCEPT ![k] = @ + 1]
  BY Zenon, <1>1, AddToCounterEffect
<1>3. handle[<<f, d>>] = "live" => k \in registered
  BY ZenonT(40), <1>2 DEF FlowsInv, Lifecycle, FlowLifecycle
<1>4. UnregisteredAreEmpty'
  BY ZenonT(40), <1>1, <1>2, <1>3 DEF FlowsTypeOK, FlowsInv, UnregisteredAreEmpty
<1>5. BytesConserved'
  <2>1. ASSUME NEW j \in Counters
        PROVE  /\ counted[j] = counter[j] + taken[j] + orphaned[j]
               /\ counter[j] \in Nat /\ taken[j] \in Nat /\ orphaned[j] \in Nat
    BY Zenon, <1>1 DEF FlowsTypeOK, FlowsInv, BytesConserved
  <2>2. ASSUME NEW j \in Counters
        PROVE  counted'[j] = counter'[j] + taken'[j] + orphaned'[j]
    <3>1. /\ DOMAIN counted = Counters /\ DOMAIN counter = Counters
          /\ DOMAIN orphaned = Counters
      BY Zenon, <1>1 DEF FlowsTypeOK
    <3>2. CASE j = k
      <4>1. counted'[k] = counted[k] + 1 /\ taken'[k] = taken[k]
        BY Zenon, <1>2, <3>1
      <4>2. \/ counter'[k] = counter[k] + 1 /\ orphaned'[k] = orphaned[k]
            \/ counter'[k] = counter[k] /\ orphaned'[k] = orphaned[k] + 1
        BY Zenon, <1>2, <3>1
      <4>3. /\ counted[k] = counter[k] + taken[k] + orphaned[k]
            /\ counter[k] \in Nat /\ taken[k] \in Nat /\ orphaned[k] \in Nat
        BY ZenonT(40), <2>1
      <4>4. counted'[k] = counter'[k] + taken'[k] + orphaned'[k]
        <5>1. CASE counter'[k] = counter[k] + 1 /\ orphaned'[k] = orphaned[k]
          BY SMTT(40), <4>1, <4>3, <5>1
        <5>2. CASE counter'[k] = counter[k] /\ orphaned'[k] = orphaned[k] + 1
          BY SMTT(40), Z3T(40), <4>1, <4>3, <5>2
        <5> QED
          BY ZenonT(40), <4>2, <5>1, <5>2
      <4> QED
        BY ZenonT(40), <3>2, <4>4
    <3>3. CASE j # k
      BY Zenon, <1>2, <2>1, <3>1, <3>3
    <3> QED
      BY ZenonT(40), <3>2, <3>3
  <2> QED
    BY Zenon, <2>2 DEF BytesConserved
<1> QED
  BY <1>4, <1>5

\* No step loses or doubles a counted byte.
LEMMA LedgerStep ==
  FlowsInv /\ [FlowsNext]_flowsVars => UnregisteredAreEmpty' /\ BytesConserved'
<1> SUFFICES ASSUME FlowsInv, [FlowsNext]_flowsVars
             PROVE  UnregisteredAreEmpty' /\ BytesConserved'
  OBVIOUS
<1>a. FlowsTypeOK /\ UnregisteredAreEmpty /\ BytesConserved
  BY Zenon DEF FlowsInv
<1> USE DEF registryVars, statsVars, flowVars, historyVars
<1>1. ASSUME NEW f \in Flows, FlowStep(f)
      PROVE  UnregisteredAreEmpty' /\ BytesConserved'
  <2>1. ASSUME NEW d \in Dir, CountWrite(f, d) \/ CountDirect(f, d)
        PROVE  UnregisteredAreEmpty' /\ BytesConserved'
    BY ZenonT(40), <2>1, LedgerAdd DEF CountWrite, CountDirect
  <2>2. ASSUME NEW e \in Email, Acquire(f, e)
        PROVE  UnregisteredAreEmpty' /\ BytesConserved'
    BY ZenonT(40), <2>2, <1>a, SameLedger DEF Acquire
  <2>3. CASE RejectDevice(f) \/ FallBack(f) \/ OpenLink(f) \/ OpenDirect(f) \/ Forget(f)
    BY ZenonT(40), <2>3, <1>a, SameLedger DEF RejectDevice, FallBack, OpenLink, OpenDirect,
       Forget
  <2>4. CASE GetUplinkCounter(f) \/ GetDownlinkCounter(f)
    BY ZenonT(40), <2>4, <1>a, SameLedger DEF GetUplinkCounter, GetDownlinkCounter, GetCounter
  <2>5. ASSUME NEW d \in Dir, FinishWrite(f, d) \/ ClosePipe(f, d)
        PROVE  UnregisteredAreEmpty' /\ BytesConserved'
    BY ZenonT(40), <2>5, <1>a, SameLedger DEF FinishWrite, ClosePipe
  <2>6. ASSUME NEW o, ReleaseOwner(f, o)
        PROVE  UnregisteredAreEmpty' /\ BytesConserved'
    BY Zenon, <2>6, <1>a, SameLedger DEF ReleaseOwner
  <2> QED
    BY ZenonT(40), <1>1, <2>1, <2>2, <2>3, <2>4, <2>5, <2>6 DEF FlowStep, ReleaseWriter,
       CloseDirect
<1>2. ASSUME NEW t \in Tags, NEW emails \in SUBSET EmailsOf(t),
             RegisterUsers(t, emails) \/ RetireUsers(t, emails)
      PROVE  UnregisteredAreEmpty' /\ BytesConserved'
  BY Zenon, <1>2, <1>a, SameLedger DEF RegisterUsers, RetireUsers
<1>3. ASSUME NEW e \in Email, FinalizeRetiredUser(e)
      PROVE  UnregisteredAreEmpty' /\ BytesConserved'
  <2>1. ASSUME NEW k \in Counters, k[1] = e PROVE counter[k] = 0
    <3>1. k = <<e, k[2]>> /\ k[2] \in Dir
      BY SMTT(40), <2>1 DEF Counters
    <3> QED
      BY <1>3, <1>a, <3>1, SMTT(30)
         DEF FinalizeRetiredUser, CanFinalize, CountersDrained, UnregisteredAreEmpty
  <2>2. counter' = counter
    BY Zenon, <1>3, <1>a, <2>1 DEF FinalizeRetiredUser, FlowsTypeOK
  <2>3. ASSUME NEW k \in Counters, k \notin registered' PROVE counter[k] = 0
    <3>1. k \in registered => k[1] = e
      BY Zenon, <1>3, <2>3 DEF FinalizeRetiredUser
    <3> QED
      BY Zenon, <1>a, <2>1, <3>1 DEF UnregisteredAreEmpty
  <2> QED
    BY ZenonT(40), <1>3, <1>a, <2>2, <2>3
       DEF FinalizeRetiredUser, UnregisteredAreEmpty, BytesConserved
<1>4. ASSUME NEW k \in Counters, DrainCounter(k)
      PROVE  UnregisteredAreEmpty' /\ BytesConserved'
  BY SMTT(40), Z3T(40), <1>4, <1>a DEF DrainCounter, FlowsTypeOK, UnregisteredAreEmpty,
     BytesConserved
<1>5. ASSUME NEW deltas \in [Counters -> 0 .. MaxBytes], Restorable(deltas),
             RestoreTraffic(deltas)
      PROVE  UnregisteredAreEmpty' /\ BytesConserved'
  <2>1. ASSUME NEW k \in Counters
        PROVE  /\ deltas[k] \in Nat /\ deltas[k] <= taken[k]
               /\ k \notin registered => deltas[k] = 0
    BY SMTT(40), <1>5, MaxBytesNat DEF Restorable
  <2> QED
    BY SMTT(40), <1>5, <1>a, <2>1
       DEF RestoreTraffic, FlowsTypeOK, UnregisteredAreEmpty, BytesConserved
<1>6. CASE UNCHANGED flowsVars
  BY <1>6, <1>a, SameLedger DEF flowsVars
<1> QED
  BY ZenonT(40), <1>1, <1>2, <1>3, <1>4, <1>5, <1>6 DEF FlowsNext

\* A step that leaves e-mails, references and active counts alone leaves the
\* active counts right.
LEMMA SameHolders ==
  ASSUME ActiveCountsHolders, UNCHANGED <<active, ref, email>>
  PROVE  ActiveCountsHolders'
BY Zenon DEF ActiveCountsHolders, Holders

-----------------------------------------------------------------------------
(* Counting.                                                               *)

\* Finitely many connections hold a user.
LEMMA HoldersFinite == \A e \in Email : IsFiniteSet(Holders(e))
<1> TAKE e \in Email
<1>1. Holders(e) \in SUBSET Flows
  BY DEF Holders
<1> QED
  BY <1>1, FlowsFinite, FS_Subset

(* Both counter handles of a connection are given up together.             *)
LEMMA BothHandles ==
  ASSUME FlowsTypeOK, NEW f \in Flows, NEW g \in Flows,
         handle' = [handle EXCEPT ![<<f, "uplink">>] = "none", ![<<f, "downlink">>] = "none"]
  PROVE  \A d \in Dir : handle'[<<g, d>>] = IF g = f THEN "none" ELSE handle[<<g, d>>]
<1>1. handle \in [Flows \X Dir -> Pointer]
  BY DEF FlowsTypeOK
<1>2. handle'[<<g, "uplink">>] = IF g = f THEN "none" ELSE handle[<<g, "uplink">>]
  BY <1>1 DEF Dir
<1>3. handle'[<<g, "downlink">>] = IF g = f THEN "none" ELSE handle[<<g, "downlink">>]
  BY <1>1 DEF Dir
<1> QED
  BY <1>2, <1>3 DEF Dir

(* A connection of which nothing changes stays as it is.                   *)
LEMMA SameLifecycle ==
  ASSUME NEW g \in Flows, FlowLifecycle(g), UNCHANGED <<nodes, registered>>,
         UNCHANGED <<ref[g], state[g], email[g], pipe[g], owners[g]>>,
         \A d \in Dir : UNCHANGED <<handle[<<g, d>>], chunk[<<g, d>>]>>
  PROVE  FlowLifecycle(g)'
BY Zenon DEF FlowLifecycle

(* One that gave up its references without a pipe or a chunk is idle.      *)
LEMMA IdleLifecycle ==
  ASSUME NEW g \in Flows, FlowLifecycle(g),
         ref'[g] = "none", state'[g] = "idle", state[g] # "link",
         UNCHANGED <<pipe[g], owners[g]>>,
         \A d \in Dir : handle'[<<g, d>>] = "none" /\ chunk'[<<g, d>>] # "detached"
  PROVE  FlowLifecycle(g)'
BY Zenon DEF FlowLifecycle

\* The parts of a connection's state keep together through every step.
LEMMA LifecycleStep == FlowsInv /\ [FlowsNext]_flowsVars => Lifecycle'
<1> SUFFICES ASSUME FlowsInv, [FlowsNext]_flowsVars, NEW g \in Flows
             PROVE  FlowLifecycle(g)'
  BY DEF Lifecycle
<1>a. FlowsTypeOK /\ \A f \in Flows : FlowLifecycle(f)
  BY Zenon DEF FlowsInv, Lifecycle
<1> USE <1>a DEF FlowsTypeOK, FlowLifecycle, registryVars, statsVars, flowVars,
                 historyVars
<1>1. ASSUME NEW f \in Flows, NEW e \in Email,
             TagOf(e) \in nodes \cup CustomTags, Acquire(f, e)
      PROVE  FlowLifecycle(g)'
  <2>1. CASE g = f
    <3>1. /\ ref'[g] \in {"live", "detached"} /\ state'[g] = "acquired" /\ email'[g] = e
          /\ state[g] = "idle"
          /\ ref'[g] = "live" => TagOf(e) \in nodes
          /\ ref'[g] = "detached" => TagOf(e) \in CustomTags
          /\ UNCHANGED <<nodes, registered, handle, pipe, owners, chunk>>
      BY ZenonT(40), <1>1, <2>1 DEF Acquire
    <3> QED
      BY ZenonT(40), <3>1
  <2>2. CASE g # f
    <3>1. /\ ref'[g] = ref[g] /\ state'[g] = state[g] /\ email'[g] = email[g]
          /\ UNCHANGED <<nodes, registered, handle, pipe, owners, chunk>>
      BY ZenonT(40), <1>1, <2>2 DEF Acquire
    <3> QED
      BY ZenonT(40), <3>1
  <2> QED
    BY ZenonT(40), <2>1, <2>2
<1>2. ASSUME NEW f \in Flows, RejectDevice(f) PROVE FlowLifecycle(g)'
  BY ZenonT(40), <1>2 DEF RejectDevice, Release
<1>3. ASSUME NEW f \in Flows, GetUplinkCounter(f) \/ GetDownlinkCounter(f)
      PROVE  FlowLifecycle(g)'
  <2>1. PICK d \in Dir, to \in {"uplink", "ready"} :
               GetCounter(f, d, state[f], to) /\ state[f] \in {"acquired", "uplink"}
    BY ZenonT(40), <1>3 DEF GetUplinkCounter, GetDownlinkCounter, GetCounter, Dir
  <2>2. CASE g = f
    BY ZenonT(40), <2>1, <2>2 DEF GetCounter
  <2>3. CASE g # f
    BY ZenonT(40), <2>1, <2>3 DEF GetCounter
  <2> QED
    BY Zenon, <2>2, <2>3
<1>4. ASSUME NEW f \in Flows, OpenLink(f) \/ OpenDirect(f) PROVE FlowLifecycle(g)'
  <2>1. CASE OpenLink(f)
    BY ZenonT(40), <2>1, <1>4 DEF OpenLink
  <2>2. CASE OpenDirect(f)
    BY ZenonT(40), <2>2, <1>4 DEF OpenDirect
  <2> QED
    BY ZenonT(40), <2>1, <2>2, <1>4
<1>5. ASSUME NEW f \in Flows, FallBack(f) PROVE FlowLifecycle(g)'
  <2>1. \A d \in Dir : handle'[<<g, d>>] = IF g = f THEN "none" ELSE handle[<<g, d>>]
    BY Zenon, <1>5, BothHandles DEF FallBack
  <2>2. /\ ref'[g] = IF g = f THEN "none" ELSE ref[g]
        /\ state'[g] = IF g = f THEN "idle" ELSE state[g]
        /\ state[f] = "ready"
        /\ UNCHANGED <<nodes, registered, email, pipe, owners, chunk>>
    BY Zenon, <1>5 DEF FallBack, Release
  <2>3. CASE g = f
    <3>1. /\ ref'[g] = "none" /\ state'[g] = "idle" /\ state[g] # "link"
          /\ UNCHANGED <<pipe[g], owners[g]>>
      BY Zenon, <2>2, <2>3
    <3>2. \A d \in Dir : handle'[<<g, d>>] = "none" /\ chunk'[<<g, d>>] # "detached"
      BY Zenon, <2>1, <2>2, <2>3
    <3>3. FlowLifecycle(g)
      BY Zenon
    <3> HIDE DEF FlowLifecycle
    <3> QED
      BY Zenon, <3>1, <3>2, <3>3, IdleLifecycle
  <2>4. CASE g # f
    <3>1. UNCHANGED <<ref[g], state[g], email[g], pipe[g], owners[g]>>
      BY Zenon, <2>2, <2>4
    <3>2. \A d \in Dir : UNCHANGED <<handle[<<g, d>>], chunk[<<g, d>>]>>
      BY Zenon, <2>1, <2>2, <2>4
    <3>3. FlowLifecycle(g)
      BY Zenon
    <3> HIDE DEF FlowLifecycle
    <3> QED
      BY Zenon, <2>2, <3>1, <3>2, <3>3, SameLifecycle
  <2> QED
    BY Zenon, <2>3, <2>4
<1>6. ASSUME NEW f \in Flows, CloseDirect(f) PROVE FlowLifecycle(g)'
  BY Zenon, <1>6, ReleaseOwnerLifecycle DEF CloseDirect
<1>7. ASSUME NEW f \in Flows, Forget(f) PROVE FlowLifecycle(g)'
  <2>1. \A d \in Dir : /\ handle'[<<g, d>>] = IF g = f THEN "none" ELSE handle[<<g, d>>]
                       /\ g = f => chunk[<<g, d>>] = "none"
    BY ZenonT(40), <1>7 DEF Forget
  <2>2. /\ state'[g] = IF g = f THEN "idle" ELSE state[g]
        /\ state[f] = "closed"
        /\ UNCHANGED <<nodes, registered, email, ref, pipe, owners, chunk>>
    BY Zenon, <1>7 DEF Forget
  <2>3. CASE g = f
    <3>1. /\ ref'[g] = "none" /\ state'[g] = "idle" /\ state[g] # "link"
          /\ UNCHANGED <<pipe[g], owners[g]>>
      BY Zenon, <2>2, <2>3
    <3>2. \A d \in Dir : handle'[<<g, d>>] = "none" /\ chunk'[<<g, d>>] # "detached"
      BY Zenon, <2>1, <2>2, <2>3
    <3>3. FlowLifecycle(g)
      BY Zenon
    <3> HIDE DEF FlowLifecycle
    <3> QED
      BY Zenon, <3>1, <3>2, <3>3, IdleLifecycle
  <2>4. CASE g # f
    <3>1. UNCHANGED <<ref[g], state[g], email[g], pipe[g], owners[g]>>
      BY Zenon, <2>2, <2>4
    <3>2. \A d \in Dir : UNCHANGED <<handle[<<g, d>>], chunk[<<g, d>>]>>
      BY Zenon, <2>1, <2>2, <2>4
    <3>3. FlowLifecycle(g)
      BY Zenon
    <3> HIDE DEF FlowLifecycle
    <3> QED
      BY Zenon, <2>2, <3>1, <3>2, <3>3, SameLifecycle
  <2> QED
    BY Zenon, <2>3, <2>4
<1>8. ASSUME NEW f \in Flows, NEW d \in Dir, CountWrite(f, d) PROVE FlowLifecycle(g)'
  BY ZenonT(40), <1>8 DEF CountWrite
<1>9. ASSUME NEW f \in Flows, NEW d \in Dir, CountDirect(f, d) PROVE FlowLifecycle(g)'
  BY ZenonT(40), <1>9 DEF CountDirect
<1>10. ASSUME NEW f \in Flows, NEW d \in Dir, FinishWrite(f, d) \/ ClosePipe(f, d)
       PROVE  FlowLifecycle(g)'
  <2>1. CASE FinishWrite(f, d)
    BY ZenonT(40), <2>1 DEF FinishWrite
  <2>2. CASE ClosePipe(f, d)
    BY ZenonT(40), <2>2 DEF ClosePipe
  <2> QED
    BY ZenonT(40), <1>10, <2>1, <2>2
<1>11. ASSUME NEW f \in Flows, NEW d \in Dir, ReleaseWriter(f, d)
       PROVE  FlowLifecycle(g)'
  BY ZenonT(40), <1>11, ReleaseOwnerLifecycle DEF ReleaseWriter
<1>12. ASSUME NEW t \in Tags, NEW emails \in SUBSET EmailsOf(t),
              RegisterUsers(t, emails) \/ RetireUsers(t, emails)
       PROVE  FlowLifecycle(g)'
  BY <1>12, SMTT(30) DEF RegisterUsers, RetireUsers, RegisterManagedUsers, RetireManagedUsers
<1>13. ASSUME NEW e \in Email, FinalizeRetiredUser(e) PROVE FlowLifecycle(g)'
  <2>1. email[g] = e => ref[g] = "none"
    <3>1. Holders(e) = {}
      BY ZenonT(40), <1>13, HoldersFinite, FS_EmptySet
         DEF FinalizeRetiredUser, CanFinalize, FlowsInv, ActiveCountsHolders
    <3>2. email[g] = e => ref[g] # "live"
      BY Zenon, <3>1 DEF Holders
    <3>3. email[g] = e => ref[g] # "detached"
      BY ZenonT(40), <1>13, TagsDisjoint DEF FinalizeRetiredUser, CanFinalize
    <3> QED
      BY SMTT(40), Z3T(40), <3>2, <3>3 DEF Pointer
  <2> QED
    BY ZenonT(40), <1>13, <2>1 DEF FinalizeRetiredUser, Detach
<1>14. ASSUME NEW k \in Counters, DrainCounter(k) PROVE FlowLifecycle(g)'
  BY ZenonT(40), <1>14 DEF DrainCounter
<1>15. ASSUME NEW deltas, RestoreTraffic(deltas) PROVE FlowLifecycle(g)'
  BY ZenonT(40), <1>15 DEF RestoreTraffic
<1>16. CASE UNCHANGED flowsVars
  BY ZenonT(40), <1>16 DEF flowsVars
<1> HIDE <1>a DEF FlowsTypeOK, FlowLifecycle, registryVars, statsVars, flowVars,
                  historyVars
<1> QED
  BY ZenonT(40), <1>1, <1>2, <1>3, <1>4, <1>5, <1>6, <1>7, <1>8, <1>9, <1>10, <1>11,
     <1>12,
     <1>13, <1>14, <1>15, <1>16 DEF FlowsNext, FlowStep

\* acquire adds its connection to the holders of the user, and nobody else's.
LEMMA ActiveAcquire ==
  ASSUME FlowsInv, NEW f \in Flows, NEW e \in Email, Acquire(f, e)
  PROVE  ActiveCountsHolders'
<1>1. FlowsTypeOK /\ ref[f] = "none"
  BY ZenonT(40) DEF FlowsInv, Lifecycle, FlowLifecycle, Acquire
<1>2. SUFFICES ASSUME NEW x \in Email PROVE active'[x] = Cardinality(Holders(x)')
  BY Zenon DEF ActiveCountsHolders
<1>3. active[x] = Cardinality(Holders(x)) /\ f \notin Holders(x)
  BY ZenonT(40), <1>1 DEF FlowsInv, ActiveCountsHolders, Holders
<1>4. CASE ref' = [ref EXCEPT ![f] = "detached"] /\ active' = active
  <2>1. Holders(x)' = Holders(x)
    BY Zenon, <1>1, <1>4 DEF Holders, FlowsTypeOK, Acquire
  <2> QED
    BY Zenon, <1>3, <1>4, <2>1
<1>5. CASE ref' = [ref EXCEPT ![f] = "live"] /\ active' = [active EXCEPT ![e] = @ + 1]
  <2>1. Holders(x)' = IF x = e THEN Holders(x) \cup {f} ELSE Holders(x)
    BY SMTT(40), Z3T(40), <1>1, <1>5 DEF Holders, FlowsTypeOK, Acquire
  <2>2. CASE x = e
    <3>1. Cardinality(Holders(x) \cup {f}) = Cardinality(Holders(x)) + 1
      BY ZenonT(40), <1>3, HoldersFinite, FS_AddElement
    <3> QED
      BY Zenon, <1>1, <1>3, <1>5, <2>1, <2>2, <3>1 DEF FlowsTypeOK
  <2>3. CASE x # e
    BY <1>1, <1>3, <1>5, <2>1, <2>3 DEF FlowsTypeOK
  <2> QED
    BY Zenon, <2>2, <2>3
<1> QED
  BY ZenonT(40), <1>4, <1>5 DEF Acquire

\* Release removes its connection from the holders of the user; the guard
\* against a negative count in userFlowRuntime.release is never needed.
LEMMA ActiveRelease ==
  ASSUME FlowsInv, NEW f \in Flows, Release(f), UNCHANGED email
  PROVE  ActiveCountsHolders'
<1>1. FlowsTypeOK
  BY DEF FlowsInv
<1>2. SUFFICES ASSUME NEW x \in Email PROVE active'[x] = Cardinality(Holders(x)')
  BY DEF ActiveCountsHolders
<1>3. active[x] = Cardinality(Holders(x))
  BY Zenon DEF FlowsInv, ActiveCountsHolders
<1>4. Holders(x)' = Holders(x) \ {f}
  BY Zenon, <1>1 DEF Holders, FlowsTypeOK, Release
<1>5. CASE f \in Holders(x)
  <2>1. Cardinality(Holders(x) \ {f}) = Cardinality(Holders(x)) - 1
    BY ZenonT(40), <1>5, HoldersFinite, FS_RemoveElement
  <2>2. Cardinality(Holders(x)) # 0
    BY <1>5, HoldersFinite, FS_EmptySet
  <2>3. email[f] = x /\ ref[f] = "live" /\ active[x] \in Nat
    BY <1>1, <1>5 DEF Holders, FlowsTypeOK
  <2> QED
    BY SMTT(40), <1>1, <1>3, <1>4, <2>1, <2>2, <2>3 DEF Release, FlowsTypeOK
<1>6. CASE f \notin Holders(x)
  <2>1. Holders(x)' = Holders(x)
    BY Zenon, <1>4, <1>6
  <2>2. active'[x] = active[x]
    BY Zenon, <1>1, <1>6 DEF Release, FlowsTypeOK, Holders
  <2> QED
    BY Zenon, <1>3, <2>1, <2>2
<1> QED
  BY <1>5, <1>6

\* userFlowRuntime.active counts the holders after every step.
LEMMA ActiveStep == FlowsInv /\ [FlowsNext]_flowsVars => ActiveCountsHolders'
<1> SUFFICES ASSUME FlowsInv, [FlowsNext]_flowsVars PROVE ActiveCountsHolders'
  OBVIOUS
<1>a. ActiveCountsHolders
  BY Zenon DEF FlowsInv
<1> USE DEF registryVars, statsVars, flowVars, historyVars
<1>1. ASSUME NEW f \in Flows, FlowStep(f) PROVE ActiveCountsHolders'
  <2>1. ASSUME NEW e \in Email, Acquire(f, e) PROVE ActiveCountsHolders'
    BY Zenon, <2>1, ActiveAcquire
  <2>2. CASE RejectDevice(f) \/ FallBack(f)
    BY Zenon, <2>2, ActiveRelease DEF RejectDevice, FallBack
  <2>3. ASSUME NEW o, ReleaseOwner(f, o) PROVE ActiveCountsHolders'
    BY Zenon, <2>3, <1>a, ActiveRelease, SameHolders DEF ReleaseOwner
  <2>4. CASE GetUplinkCounter(f) \/ GetDownlinkCounter(f)
    BY Zenon, <2>4, <1>a, SameHolders DEF GetUplinkCounter, GetDownlinkCounter,
       GetCounter
  <2>5. CASE OpenLink(f) \/ OpenDirect(f) \/ Forget(f)
    BY Zenon, <2>5, <1>a, SameHolders DEF OpenLink, OpenDirect, Forget
  <2>6. ASSUME NEW d \in Dir,
               CountWrite(f, d) \/ FinishWrite(f, d) \/ CountDirect(f, d)
                 \/ ClosePipe(f, d)
        PROVE  ActiveCountsHolders'
    BY ZenonT(40), <2>6, <1>a, SameHolders DEF CountWrite, FinishWrite, CountDirect, ClosePipe
  <2> QED
    BY ZenonT(40), <1>1, <2>1, <2>2, <2>3, <2>4, <2>5, <2>6 DEF FlowStep, ReleaseWriter,
       CloseDirect
<1>2. ASSUME NEW t \in Tags, NEW emails \in SUBSET EmailsOf(t),
             RegisterUsers(t, emails) \/ RetireUsers(t, emails)
      PROVE  ActiveCountsHolders'
  BY Zenon, <1>2, <1>a, SameHolders
     DEF RegisterUsers, RetireUsers, RegisterManagedUsers, RetireManagedUsers
<1>3. ASSUME NEW e \in Email, FinalizeRetiredUser(e) PROVE ActiveCountsHolders'
  <2>1. Holders(e) = {}
    BY ZenonT(40), <1>3, HoldersFinite, FS_EmptySet
       DEF FinalizeRetiredUser, CanFinalize, FlowsInv, ActiveCountsHolders
  <2>2. ASSUME NEW x \in Email PROVE Holders(x)' = Holders(x)
    BY ZenonT(40), <1>3, <2>1 DEF Holders, FinalizeRetiredUser, Detach
  <2> QED
    BY ZenonT(40), <1>3, <1>a, <2>2 DEF FinalizeRetiredUser, ActiveCountsHolders
<1>4. ASSUME NEW k \in Counters, DrainCounter(k) PROVE ActiveCountsHolders'
  BY Zenon, <1>4, <1>a, SameHolders DEF DrainCounter
<1>5. ASSUME NEW deltas, RestoreTraffic(deltas) PROVE ActiveCountsHolders'
  BY Zenon, <1>5, <1>a, SameHolders DEF RestoreTraffic
<1>6. CASE UNCHANGED flowsVars
  BY Zenon, <1>6, <1>a, SameHolders DEF flowsVars
<1> QED
  BY ZenonT(40), <1>1, <1>2, <1>3, <1>4, <1>5, <1>6 DEF FlowsNext

\* The initial state of the registry satisfies the inductive invariant.
LEMMA FlowsInvInit == FlowsInit => FlowsInv
<1> SUFFICES ASSUME FlowsInit PROVE FlowsInv
  BY Zenon
<1>1. FlowsTypeOK
  BY Zenon DEF FlowsInit, FlowsTypeOK, FlowState, Pointer
<1>2. Lifecycle
  BY Zenon DEF FlowsInit, Lifecycle, FlowLifecycle
<1>3. ActiveCountsHolders
  BY ZenonT(40), FS_EmptySet DEF FlowsInit, ActiveCountsHolders, Holders
<1>4. UnregisteredAreEmpty /\ BytesConserved
  BY DEF FlowsInit, UnregisteredAreEmpty, BytesConserved
<1> QED
  BY Zenon, <1>1, <1>2, <1>3, <1>4 DEF FlowsInv

\* Every step preserves the inductive invariant.
LEMMA FlowsInvStep == FlowsInv /\ [FlowsNext]_flowsVars => FlowsInv'
<1> SUFFICES ASSUME FlowsInv, [FlowsNext]_flowsVars PROVE FlowsInv'
  OBVIOUS
<1>1. FlowsTypeOK'
  BY TypeStep DEF FlowsInv
<1> QED
  BY Zenon, <1>1, LifecycleStep, ActiveStep, LedgerStep DEF FlowsInv

\* The inductive invariant holds throughout.
THEOREM FlowsInvariant == FlowsSpec => []FlowsInv
BY FlowsInvInit, FlowsInvStep, PTL DEF FlowsSpec

\* No interleaving of connections, reports and finalization loses or doubles
\* a counted byte, for any number of users and connections.
THEOREM Conservation == FlowsSpec => []BytesConserved
<1>1. FlowsInv => BytesConserved
  BY DEF FlowsInv
<1> QED
  BY <1>1, FlowsInvariant, PTL

\* userFlowRuntime.active always is the number of open connections.
THEOREM ReferenceCount == FlowsSpec => []ActiveCountsHolders
<1>1. FlowsInv => ActiveCountsHolders
  BY Zenon DEF FlowsInv
<1> QED
  BY <1>1, FlowsInvariant, PTL

\* FinalizeRetiredUser never takes a counter from an open connection, and a
\* byte that can still be delivered was counted where the report reads.
THEOREM DeliveredIsReported == FlowsSpec => []CountedIsReported
<1>1. FlowsInv => HeldCountersAreRegistered
  BY SMTT(40) DEF FlowsInv, FlowsTypeOK, Lifecycle, FlowLifecycle, HeldCountersAreRegistered,
         Pointer
<1>2. FlowsInv => NoFreeBytes
  BY Zenon DEF FlowsInv, Lifecycle, FlowLifecycle, NoFreeBytes
<1>3. FlowsInv => CountedIsReported
  BY <1>1, <1>2 DEF CountedIsReported
<1> QED
  BY <1>3, FlowsInvariant, PTL
=============================================================================
