---------------------- MODULE TrafficAccountingProofs ----------------------
(***************************************************************************)
(* Proofs about TrafficAccounting, for any number of tags, users, flows    *)
(* and bytes: the two monitors implement the registry's specification, the *)
(* bill they make of the counters is exact and no counter escapes them.    *)
(***************************************************************************)
EXTENDS TrafficAccounting, UserFlowsProofs

(* The e-mails of a user list belong to its tag.                           *)
LEMMA ListEmails ==
  ASSUME NEW t \in Tags, NEW list \in SUBSET User
  PROVE  /\ Emails(t, list) \in SUBSET EmailsOf(t)
         /\ Emails(t, list) \subseteq Email
         /\ Entries(t, list) \subseteq Email \X User
<1>1. ASSUME NEW u \in list PROVE EmailOf(t, u) \in EmailsOf(t) /\ EmailOf(t, u) \in Email
  BY DEF EmailOf, EmailsOf, Email, User
<1> QED
  BY <1>1 DEF Emails, Entries

(* What the node monitor takes away and adds are lists of users.           *)
LEMMA JobLists ==
  ASSUME TypeOK
  PROVE  /\ Gone(job) \in SUBSET User /\ Fresh(job) \in SUBSET User
         /\ userList \in SUBSET User
         /\ job.newTag \in Tags /\ job.list \in UserLists
BY DEF TypeOK, Job, Gone, Fresh, UserLists

(* A step of the monitors is a step of the registry's environment, or one  *)
(* the registry does not see; restoreTraffic returns what was taken.       *)
LEMMA StepImplements == AccountingInv /\ [Next]_vars => [FlowsNext]_flowsVars
<1> SUFFICES ASSUME AccountingInv, [Next]_vars PROVE [FlowsNext]_flowsVars
  OBVIOUS
<1>a. TypeOK /\ BillInv /\ FlowsTypeOK
  BY DEF AccountingInv, TypeOK
<1>b. tag \in Tags
  BY Zenon, <1>a DEF TypeOK
<1>1. ASSUME NEW t \in Tags, NEW list \in SUBSET User,
             RegisterUsers(t, Emails(t, list)) \/ RetireUsers(t, Emails(t, list))
      PROVE  FlowsNext
  BY Zenon, <1>1, ListEmails DEF FlowsNext
<1>2. CASE NodeMonitor
  <2>1. CASE Start
    BY ZenonT(40), <1>1, <1>a, <1>b, <2>1, JobLists DEF Start
  <2>2. CASE RetireGone
    BY ZenonT(40), <1>1, <1>a, <1>b, <2>2, JobLists DEF RetireGone
  <2>3. CASE RestoreGone
    BY ZenonT(40), <1>1, <1>a, <1>b, <2>3, JobLists DEF RestoreGone
  <2>4. CASE RegisterFresh
    BY ZenonT(40), <1>1, <1>a, <2>4, JobLists DEF RegisterFresh
  <2>5. CASE WithdrawFresh
    BY ZenonT(40), <1>1, <1>a, <2>5, JobLists DEF WithdrawFresh
  <2>6. CASE Fetch \/ RecordGone \/ RemoveGone \/ UnrecordGone \/ AddTag
    BY Zenon, <2>6 DEF Fetch, RecordGone, RemoveGone, UnrecordGone, AddTag
  <2>7. CASE UnrecordFresh \/ AddUsers \/ RecordFresh \/ Publish
    BY <2>7 DEF UnrecordFresh, AddUsers, RecordFresh, Publish
  <2> QED
    BY ZenonT(40), <1>2, <2>1, <2>2, <2>3, <2>4, <2>5, <2>6, <2>7 DEF NodeMonitor
<1>3. CASE UserMonitor
  <2>1. ASSUME NEW k \in Counters, Drain(k) PROVE FlowsNext
    BY Zenon, <2>1 DEF Drain, FlowsNext
  <2>2. ASSUME NEW p \in Email \X User, Finalize(p) PROVE [FlowsNext]_flowsVars
    BY <2>2 DEF Finalize, FlowsNext
  <2>3. CASE ReportFails
    <3>1. ASSUME NEW k \in Counters
          PROVE  /\ delta[k] \in Nat /\ delta[k] <= taken[k]
                 /\ delta[k] <= MaxBytes /\ (delta[k] > 0 => k \in registered)
      <4>1. /\ delta[k] \in Nat /\ booked[k] \in Nat /\ discarded[k] \in Nat
            /\ counter[k] \in Nat /\ orphaned[k] \in Nat
        BY Zenon, <1>a DEF TypeOK, FlowsTypeOK
      <4>2. /\ taken[k] = booked[k] + discarded[k] + delta[k]
            /\ counted[k] <= MaxBytes /\ (delta[k] > 0 => k \in registered)
        BY Zenon, <1>a DEF BillInv
      <4>3. counted[k] = counter[k] + taken[k] + orphaned[k]
        BY DEF AccountingInv, FlowsInv, BytesConserved
      <4> QED
        BY SMTT(40), Z3T(40), <4>1, <4>2, <4>3, MaxBytesNat
    <3>2. delta \in [Counters -> 0 .. MaxBytes]
      BY SMTT(40), <1>a, <3>1, MaxBytesNat DEF TypeOK
    <3>3. Restorable(delta)
      BY Zenon, <3>1 DEF Restorable
    <3> QED
      BY Zenon, <2>3, <3>2, <3>3 DEF ReportFails, FlowsNext
  <2>4. CASE \/ SnapshotUsers \/ SnapshotRetiring \/ DrainRetired \/ DrainDone
             \/ Discard \/ ReportSucceeds \/ Drop \/ FinalizeDone
    BY ZenonT(40), <2>4 DEF SnapshotUsers, SnapshotRetiring, DrainRetired, DrainDone, Discard,
                ReportSucceeds, Drop, FinalizeDone
  <2> QED
    BY ZenonT(40), <1>3, <2>1, <2>2, <2>3, <2>4 DEF UserMonitor
<1>4. CASE Data
  BY <1>4 DEF Data, FlowsNext
<1>5. CASE UNCHANGED vars
  BY Zenon, <1>5 DEF vars
<1> QED
  BY ZenonT(40), <1>2, <1>3, <1>4, <1>5 DEF Next

(* The retirement map holds users under e-mails of the node.               *)
LEMMA RetirementTypes ==
  ASSUME TypeOK, NEW t \in Tags, NEW list \in SUBSET User,
         Record(t, list) \/ Unrecord(t, list)
  PROVE  retiring' \subseteq Email \X User /\ lost' \subseteq Email
BY ZenonT(40), ListEmails DEF TypeOK, Record, Unrecord

(* The node monitor keeps the types of what it writes.                     *)
LEMMA NodeTypes ==
  ASSUME TypeOK, FlowsTypeOK', NodeMonitor
  PROVE  TypeOK'
<1>1. /\ \A t \in Tags : NoJob(t) \in Job
      /\ AfterRemove(job) \in NodeState
  BY DEF NoJob, Job, UserLists, AfterRemove, NodeState
<1>2. tag \in Tags
  BY Zenon DEF TypeOK
<1> USE DEF TypeOK, NodeGoto, NodeReturn, controllerVars, nodeMonitorVars,
            userMonitorVars, ledgerVars, NodeState
<1>3. CASE Start \/ Fetch \/ RetireGone \/ RemoveGone
  BY ZenonT(40), <1>1, <1>2, <1>3 DEF Start, Fetch, RetireGone, RemoveGone, AfterRemove
<1>4. CASE RestoreGone \/ AddTag \/ RegisterFresh \/ AddUsers \/ WithdrawFresh
  BY ZenonT(40), <1>1, <1>2, <1>4 DEF RestoreGone, AddTag, RegisterFresh, AddUsers,
     WithdrawFresh
<1>5. CASE RecordGone
  BY ZenonT(40), <1>1, <1>2, <1>5, RetirementTypes, JobLists DEF RecordGone
<1>8. CASE UnrecordGone
  BY ZenonT(40), <1>1, <1>2, <1>8, RetirementTypes, JobLists DEF UnrecordGone
<1>6. CASE UnrecordFresh
  BY ZenonT(40), <1>1, <1>2, <1>6, RetirementTypes, JobLists DEF UnrecordFresh
<1>9. CASE RecordFresh
  BY ZenonT(40), <1>1, <1>2, <1>9, RetirementTypes, JobLists DEF RecordFresh
<1>7. CASE Publish
  BY ZenonT(40), <1>1, <1>7, JobLists DEF Publish
<1> QED
  BY ZenonT(40), <1>3, <1>4, <1>5, <1>6, <1>7, <1>8, <1>9 DEF NodeMonitor

(* So does the user monitor.                                               *)
LEMMA UserTypes ==
  ASSUME TypeOK, FlowsTypeOK', UserMonitor
  PROVE  TypeOK'
<1> USE DEF TypeOK, controllerVars, nodeMonitorVars, userMonitorVars, ledgerVars,
            UserState
<1>1. CASE SnapshotUsers
  <2>1. Emails(tag, userList) \subseteq Email
    BY ZenonT(40), JobLists, ListEmails
  <2> QED
    BY ZenonT(40), <1>1, <2>1 DEF SnapshotUsers, Counters
<1>2. CASE SnapshotRetiring \/ DrainDone \/ FinalizeDone \/ Drop
  BY ZenonT(40), <1>2 DEF SnapshotRetiring, DrainDone, FinalizeDone, Drop
<1>3. CASE DrainRetired
  <2>1. {p[1] : p \in retired} \subseteq Email
    BY Zenon
  <2> QED
    BY ZenonT(40), <1>3, <2>1 DEF DrainRetired, Counters
<1>4. ASSUME NEW k \in Counters, Drain(k) PROVE TypeOK'
  <2>1. counter[k] \in Nat
    BY Zenon DEF FlowsTypeOK
  <2>2. delta' \in [Counters -> Nat]
    BY SMTT(40), Z3T(40), <1>4, <2>1 DEF Drain
  <2> QED
    BY ZenonT(40), <1>4, <2>2 DEF Drain
<1>5. CASE Discard \/ ReportSucceeds \/ ReportFails
  <2>1. Zero \in [Counters -> Nat]
    BY DEF Zero
  <2>2. Plus(booked, delta) \in [Counters -> Nat] /\ Plus(discarded, delta) \in [Counters -> Nat]
    BY SMTT(40) DEF Plus
  <2> QED
    BY Zenon, <1>5, <2>1, <2>2 DEF Discard, ReportSucceeds, ReportFails
<1>6. ASSUME NEW p \in Email \X User, Finalize(p) PROVE TypeOK'
  BY Zenon, <1>6 DEF Finalize
<1> QED
  BY ZenonT(40), <1>1, <1>2, <1>3, <1>4, <1>5, <1>6 DEF UserMonitor

(* A registry step never counts beyond the bound, and unregisters a        *)
(* counter only by finalizing its user; only draining and restoring change *)
(* what was taken.                                                         *)
LEMMA FlowStepLedger ==
  ASSUME FlowsTypeOK, NEW f \in Flows, FlowStep(f), NEW k \in Counters,
         counted[k] <= MaxBytes
  PROVE  /\ counted'[k] <= MaxBytes
         /\ taken' = taken
         /\ registered \subseteq registered'
<1> USE DEF statsVars, historyVars, registryVars, flowVars
<1>1. ASSUME NEW d \in Dir, CountWrite(f, d) \/ CountDirect(f, d)
      PROVE  counted'[k] <= MaxBytes /\ taken' = taken /\ registered' = registered
  <2>1. AddToCounter(f, d) /\ registered' = registered
    BY ZenonT(40), <1>1 DEF CountWrite, CountDirect
  <2> DEFINE j == <<email[f], d>>
  <2>a. j \in Counters
    BY Zenon DEF FlowsTypeOK, Counters
  <2>2. counted' = [counted EXCEPT ![j] = @ + 1] /\ taken' = taken
    BY Zenon, <2>1 DEF AddToCounter
  <2>3. counted[j] < MaxBytes
    BY Zenon, <2>1 DEF AddToCounter
  <2> HIDE DEF j
  <2>4. counted[k] \in Nat /\ counted[j] \in Nat /\ DOMAIN counted = Counters
    BY Zenon, <2>a DEF FlowsTypeOK
  <2>5. counted'[k] <= MaxBytes
    BY SMTT(40), Z3T(40), <2>2, <2>3, <2>4, MaxBytesNat
  <2> QED
    BY Zenon, <2>1, <2>2, <2>5
<1>2. ASSUME NEW e \in Email, Acquire(f, e)
      PROVE  counted' = counted /\ taken' = taken /\ registered' = registered
  BY Zenon, <1>2 DEF Acquire
<1>3. CASE RejectDevice(f) \/ FallBack(f) \/ OpenLink(f) \/ OpenDirect(f) \/ Forget(f)
  BY ZenonT(40), <1>3 DEF RejectDevice, FallBack, OpenLink, OpenDirect, Forget
<1>4. CASE GetUplinkCounter(f) \/ GetDownlinkCounter(f)
  BY Zenon, <1>4 DEF GetUplinkCounter, GetDownlinkCounter, GetCounter
<1>5. ASSUME NEW d \in Dir, FinishWrite(f, d) \/ ClosePipe(f, d)
      PROVE  counted' = counted /\ taken' = taken /\ registered' = registered
  BY Zenon, <1>5 DEF FinishWrite, ClosePipe
<1>6. ASSUME NEW o, ReleaseOwner(f, o)
      PROVE  counted' = counted /\ taken' = taken /\ registered' = registered
  BY ZenonT(40), <1>6 DEF ReleaseOwner
<1> QED
  BY ZenonT(40), <1>1, <1>2, <1>3, <1>4, <1>5, <1>6 DEF FlowStep, ReleaseWriter, CloseDirect

(* A step that leaves the bill, the sample and the counters' registration  *)
(* alone keeps the bill exact.                                             *)
LEMMA SameBill ==
  ASSUME BillInv, UNCHANGED <<um, delta, booked, discarded, taken, counted, registered>>
  PROVE  BillInv'
BY DEF BillInv

(* The node monitor does not touch the bill: users it retires keep their   *)
(* counters.                                                               *)
LEMMA NodeBill ==
  ASSUME BillInv, NodeMonitor
  PROVE  BillInv'
<1> USE DEF flowsVars, statsVars, historyVars, userMonitorVars, ledgerVars,
            RegisterUsers, RetireUsers
<1>1. CASE Start \/ Fetch \/ RetireGone \/ RecordGone \/ RemoveGone
  BY ZenonT(40), <1>1, SameBill DEF Start, Fetch, RetireGone, RecordGone, RemoveGone
<1>2. CASE RestoreGone \/ UnrecordGone \/ AddTag \/ RegisterFresh
  BY ZenonT(40), <1>2, SameBill DEF RestoreGone, UnrecordGone, AddTag, RegisterFresh
<1>3. CASE UnrecordFresh \/ AddUsers \/ WithdrawFresh \/ RecordFresh \/ Publish
  BY ZenonT(40), <1>3, SameBill DEF UnrecordFresh, AddUsers, WithdrawFresh, RecordFresh, Publish
<1> QED
  BY ZenonT(40), <1>1, <1>2, <1>3 DEF NodeMonitor

(* drainTraffic moves a counter's bytes to the sample; flushUserTraffic    *)
(* moves the sample to the bill or back; finalizeRetiringUsers unregisters *)
(* counters only when there is no sample.                                  *)
LEMMA UserBill ==
  ASSUME AccountingInv, UserMonitor
  PROVE  BillInv'
<1>a. BillInv /\ TypeOK /\ FlowsTypeOK /\ UnregisteredAreEmpty
  BY Zenon DEF AccountingInv, FlowsInv
<1>b. ASSUME NEW k \in Counters
      PROVE  /\ taken[k] = booked[k] + discarded[k] + delta[k]
             /\ counted[k] <= MaxBytes
             /\ delta[k] > 0 => k \in registered
             /\ counter[k] \in Nat /\ delta[k] \in Nat /\ booked[k] \in Nat
             /\ discarded[k] \in Nat /\ taken[k] \in Nat
             /\ counter[k] > 0 => k \in registered
             /\ Zero[k] = 0
  <2>1. /\ taken[k] = booked[k] + discarded[k] + delta[k]
        /\ counted[k] <= MaxBytes
        /\ delta[k] > 0 => k \in registered
    BY Zenon, <1>a DEF BillInv
  <2>2. counter[k] \in Nat /\ taken[k] \in Nat
    BY Zenon, <1>a DEF FlowsTypeOK
  <2>3. delta[k] \in Nat /\ booked[k] \in Nat /\ discarded[k] \in Nat
    BY Zenon, <1>a DEF TypeOK
  <2>4. counter[k] > 0 => k \in registered
    BY SMTT(40), <1>a, <2>2 DEF UnregisteredAreEmpty
  <2>5. Zero[k] = 0
    BY Zenon DEF Zero
  <2> QED
    BY ZenonT(40), <2>1, <2>2, <2>3, <2>4, <2>5
<1>c. um \notin Sampling => delta = Zero
  BY Zenon, <1>a DEF BillInv
<1> USE DEF flowsVars, statsVars, historyVars, ledgerVars
<1>1. CASE SnapshotUsers \/ FinalizeDone \/ Drop
  BY ZenonT(40), <1>1, <1>a DEF SnapshotUsers, FinalizeDone, Drop, BillInv, Sampling
<1>2. CASE SnapshotRetiring \/ DrainRetired \/ DrainDone
  BY ZenonT(40), <1>2, <1>a DEF SnapshotRetiring, DrainRetired, DrainDone, BillInv, Sampling
<1>3. ASSUME NEW k \in Counters, Drain(k) PROVE BillInv'
  <2>1. /\ um' = um /\ um \in Sampling
        /\ registered' = registered /\ counted' = counted
        /\ booked' = booked /\ discarded' = discarded
        /\ taken' = [taken EXCEPT ![k] = @ + counter[k]]
        /\ delta' = [delta EXCEPT ![k] = @ + counter[k]]
    BY Zenon, <1>3 DEF Drain, DrainCounter, Sampling
  <2>2. ASSUME NEW j \in Counters
        PROVE  /\ taken'[j] = booked[j] + discarded[j] + delta'[j]
               /\ delta'[j] > 0 => j \in registered
    <3>1. DOMAIN taken = Counters /\ DOMAIN delta = Counters
      BY Zenon, <1>a DEF TypeOK, FlowsTypeOK
    <3>2. CASE j = k
      <4>1. taken'[k] = taken[k] + counter[k] /\ delta'[k] = delta[k] + counter[k]
        BY Zenon, <2>1, <3>1
      <4>2. /\ taken[k] = booked[k] + discarded[k] + delta[k]
            /\ counter[k] \in Nat /\ delta[k] \in Nat /\ booked[k] \in Nat
            /\ discarded[k] \in Nat
        BY Zenon, <1>b
      <4>3. (delta[k] > 0 => k \in registered) /\ (counter[k] > 0 => k \in registered)
        BY Zenon, <1>b
      <4>4. taken'[k] = booked[k] + discarded[k] + delta'[k]
        BY SMTT(40), Z3T(40), <4>1, <4>2
      <4>5. delta'[k] > 0 => k \in registered
        BY SMTT(40), Z3T(40), <4>1, <4>2, <4>3
      <4> QED
        BY ZenonT(40), <4>4, <4>5, <3>2
    <3>3. CASE j # k
      BY ZenonT(40), <2>1, <1>b, <3>1, <3>3
    <3> QED
      BY ZenonT(40), <3>2, <3>3
  <2> QED
    BY ZenonT(40), <2>1, <2>2, <1>b DEF BillInv
<1>4. CASE Discard \/ ReportSucceeds
  <2>1. /\ delta' = Zero /\ registered' = registered /\ counted' = counted
        /\ taken' = taken
        /\ \/ discarded' = Plus(discarded, delta) /\ booked' = booked
           \/ booked' = Plus(booked, delta) /\ discarded' = discarded
    BY Zenon, <1>4 DEF Discard, ReportSucceeds
  <2>2. ASSUME NEW k \in Counters
        PROVE  taken'[k] = booked'[k] + discarded'[k] + delta'[k] /\ delta'[k] = 0
    BY SMTT(40), Z3T(40), <1>b, <2>1 DEF Plus
  <2> QED
    BY SMTT(40), Z3T(40), <1>b, <2>1, <2>2 DEF BillInv
<1>5. CASE ReportFails
  <2>1. /\ delta' = Zero /\ registered' = registered /\ counted' = counted
        /\ taken' = [k \in Counters |-> taken[k] - delta[k]]
        /\ booked' = booked /\ discarded' = discarded
    BY Zenon, <1>5 DEF ReportFails, RestoreTraffic
  <2>2. ASSUME NEW k \in Counters
        PROVE  taken'[k] = booked'[k] + discarded'[k] + delta'[k] /\ delta'[k] = 0
    BY SMTT(40), Z3T(40), <1>b, <2>1
  <2> QED
    BY SMTT(40), Z3T(40), <1>b, <2>1, <2>2 DEF BillInv
<1>6. ASSUME NEW p \in Email \X User, Finalize(p) PROVE BillInv'
  <2>1. /\ delta = Zero /\ delta' = delta /\ booked' = booked
        /\ discarded' = discarded /\ taken' = taken /\ counted' = counted
    BY ZenonT(40), <1>6, <1>c DEF Finalize, FinalizeRetiredUser, Sampling
  <2> QED
    BY SMTT(40), Z3T(40), <1>b, <2>1 DEF BillInv
<1> QED
  BY ZenonT(40), <1>1, <1>2, <1>3, <1>4, <1>5, <1>6 DEF UserMonitor

(* The invariant holds when Controller.Start has the first answer.         *)
LEMMA AccountingInit == Init => AccountingInv
<1> SUFFICES ASSUME Init PROVE AccountingInv
  OBVIOUS
<1>1. FlowsInv
  BY Zenon, FlowsInvInit DEF Init
<1>2. NoJob(tag) \in Job
  BY Zenon DEF Init, NoJob, Job, UserLists
<1>3. TypeOK
  BY ZenonT(40), <1>1, <1>2 DEF Init, TypeOK, FlowsInv, Zero, NodeState, UserState
<1>4. BillInv
  BY MaxBytesNat DEF Init, FlowsInit, BillInv, Zero
<1> QED
  BY ZenonT(40), <1>1, <1>3, <1>4 DEF AccountingInv

(* Every step of the monitors and of the flows preserves it.               *)
LEMMA AccountingStep == AccountingInv /\ [Next]_vars => AccountingInv'
<1> SUFFICES ASSUME AccountingInv, [Next]_vars PROVE AccountingInv'
  OBVIOUS
<1>a. FlowsInv /\ TypeOK /\ BillInv /\ FlowsTypeOK
  BY DEF AccountingInv, FlowsInv
<1>b. FlowsInv' /\ FlowsTypeOK'
  <2>1. FlowsInv'
    BY ZenonT(40), <1>a, StepImplements, FlowsInvStep
  <2> QED
    BY Zenon, <2>1 DEF FlowsInv
<1>1. CASE NodeMonitor
  BY ZenonT(40), <1>1, <1>a, <1>b, NodeTypes, NodeBill DEF AccountingInv
<1>2. CASE UserMonitor
  BY ZenonT(40), <1>2, <1>a, <1>b, UserTypes, UserBill DEF AccountingInv
<1>3. CASE Data
  <2>1. TypeOK'
    BY ZenonT(40), <1>3, <1>a, <1>b DEF Data, TypeOK, monitorVars, controllerVars,
       nodeMonitorVars,
                            userMonitorVars, ledgerVars
  <2>2. PICK f \in Flows : FlowStep(f)
    BY Zenon, <1>3 DEF Data
  <2>3. ASSUME NEW k \in Counters
        PROVE  /\ counted'[k] <= MaxBytes /\ taken' = taken
               /\ registered \subseteq registered'
    BY ZenonT(40), <1>a, <2>2, FlowStepLedger DEF BillInv
  <2>4. BillInv'
    BY ZenonT(40), <1>3, <1>a, <2>3 DEF Data, BillInv, monitorVars, userMonitorVars, ledgerVars
  <2> QED
    BY ZenonT(40), <1>b, <2>1, <2>4 DEF AccountingInv
<1>4. CASE UNCHANGED vars
  <2>1. TypeOK'
    BY ZenonT(40), <1>4, <1>a, <1>b DEF TypeOK, vars, controllerVars, nodeMonitorVars,
                            userMonitorVars, ledgerVars
  <2>2. BillInv'
    BY ZenonT(40), <1>4, <1>a, SameBill DEF vars, flowsVars, statsVars, historyVars,
                                userMonitorVars, ledgerVars
  <2> QED
    BY ZenonT(40), <1>b, <2>1, <2>2 DEF AccountingInv
<1> QED
  BY ZenonT(40), <1>1, <1>2, <1>3, <1>4 DEF Next

(* The inductive invariant of the two monitors and the flows.              *)
THEOREM AccountingInvariant == Spec => []AccountingInv
BY AccountingInit, AccountingStep, PTL DEF Spec

(* The monitors use the registry and the counters as UserFlows prescribes: *)
(* the composed node implements the registry's own specification, so what  *)
(* UserFlowsProofs establishes holds for the node.                         *)
THEOREM UsedWell == Spec => RegistryIsUsedWell
<1>1. Init => FlowsInit
  BY DEF Init
<1> QED
  BY <1>1, StepImplements, AccountingInvariant, PTL
     DEF Spec, RegistryIsUsedWell, FlowsSpec

(* The bill is exact: every counted byte is in exactly one acknowledged    *)
(* report, discarded by configuration, waiting, or was counted after its   *)
(* connection had been released and its user finalized (userInfoMonitor).  *)
THEOREM ExactBill == Spec => []BillIsExact
<1>1. AccountingInv => BillIsExact
  <2> SUFFICES ASSUME AccountingInv, NEW k \in Counters
               PROVE  counted[k] = booked[k] + discarded[k] + counter[k] + delta[k] + orphaned[k]
    BY ZenonT(40) DEF BillIsExact
  <2>1. /\ counted[k] = counter[k] + taken[k] + orphaned[k]
        /\ taken[k] = booked[k] + discarded[k] + delta[k]
    BY Zenon DEF AccountingInv, FlowsInv, BytesConserved, BillInv
  <2>2. /\ counter[k] \in Nat /\ orphaned[k] \in Nat /\ booked[k] \in Nat
        /\ discarded[k] \in Nat /\ delta[k] \in Nat
    BY ZenonT(40) DEF AccountingInv, TypeOK, FlowsTypeOK
  <2> QED
    BY <2>1, <2>2, SMTT(30)
<1> QED
  BY <1>1, AccountingInvariant, PTL

(* restoreTraffic always finds the counter it drained still registered.    *)
THEOREM Restored == Spec => []DeltasAreRestorable
<1>1. AccountingInv => DeltasAreRestorable
  BY DEF AccountingInv, BillInv, DeltasAreRestorable
<1> QED
  BY <1>1, AccountingInvariant, PTL

-----------------------------------------------------------------------------
(* No counter is forgotten.                                                *)

(* acquire, the counters' registration and the controller's calls leave    *)
(* every user with a connection, a counter or a place in current known to  *)
(* the registry.                                                           *)
LEMMA KnownStep == FlowsInv /\ KnownInv /\ [FlowsNext]_flowsVars => KnownInv'
<1> SUFFICES ASSUME FlowsInv, KnownInv, [FlowsNext]_flowsVars PROVE KnownInv'
  OBVIOUS
<1>a. FlowsTypeOK /\ \A f \in Flows : FlowLifecycle(f)
  BY DEF FlowsInv, Lifecycle
<1>s. ASSUME UNCHANGED <<registered, email>>, current' = current, runtime' = runtime,
             \A f \in Flows : ref'[f] = "live" => ref[f] = "live"
      PROVE  KnownInv'
  BY Zenon, <1>s DEF KnownInv
<1> USE DEF registryVars, statsVars, flowVars, historyVars
<1>1. ASSUME NEW f \in Flows, FlowStep(f) PROVE KnownInv'
  <2>1. ASSUME NEW e \in Email, Acquire(f, e) PROVE KnownInv'
    <3>1. /\ UNCHANGED <<registered, current>>
          /\ runtime \subseteq runtime'
          /\ ref'[f] = "live" => e \in runtime'
          /\ email'[f] = e
          /\ \A g \in Flows \ {f} : ref'[g] = ref[g] /\ email'[g] = email[g]
      BY ZenonT(40), <2>1, <1>a DEF Acquire, FlowsTypeOK
    <3> QED
      BY Zenon, <3>1 DEF KnownInv
  <2>2. ASSUME Release(f), UNCHANGED <<registered, email, current, runtime>> PROVE KnownInv'
    <3>1. \A g \in Flows : ref'[g] = "live" => ref[g] = "live"
      BY ZenonT(40), <2>2, <1>a DEF Release, FlowsTypeOK
    <3> QED
      BY Zenon, <1>s, <2>2, <3>1
  <2>3. CASE RejectDevice(f) \/ FallBack(f)
    BY Zenon, <2>2, <2>3 DEF RejectDevice, FallBack
  <2>4. ASSUME NEW o, ReleaseOwner(f, o) PROVE KnownInv'
    BY ZenonT(40), <1>s, <2>2, <2>4 DEF ReleaseOwner
  <2>5. ASSUME NEW d \in Dir, registered' = registered \cup {<<email[f], d>>},
               state[f] \in {"acquired", "uplink"},
               UNCHANGED <<nodes, current, runtime, active, email, ref>>
        PROVE  KnownInv'
    <3>1. ref[f] # "live" => TagOf(email[f]) \notin Tags
      BY SMTT(40), Z3T(40), <1>a, <2>5, TagsDisjoint DEF FlowLifecycle, FlowsTypeOK, Pointer
    <3>2. ASSUME NEW k \in registered', TagOf(k[1]) \in Tags PROVE k[1] \in runtime
      <4>1. CASE k \in registered
        BY ZenonT(40), <3>2, <4>1 DEF KnownInv
      <4>2. CASE k = <<email[f], d>>
        BY ZenonT(40), <2>5, <3>1, <3>2, <4>2 DEF KnownInv
      <4> QED
        BY Zenon, <2>5, <4>1, <4>2
    <3> QED
      BY ZenonT(40), <2>5, <3>2 DEF KnownInv
  <2>6. CASE GetUplinkCounter(f) \/ GetDownlinkCounter(f)
    BY ZenonT(40), <2>5, <2>6 DEF GetUplinkCounter, GetDownlinkCounter, GetCounter, Dir
  <2>7. CASE OpenLink(f) \/ OpenDirect(f) \/ Forget(f)
    BY ZenonT(40), <1>s, <2>7 DEF OpenLink, OpenDirect, Forget
  <2>8. ASSUME NEW d \in Dir, CountWrite(f, d) \/ FinishWrite(f, d) PROVE KnownInv'
    BY Zenon, <1>s, <2>8 DEF CountWrite, FinishWrite
  <2>9. ASSUME NEW d \in Dir, CountDirect(f, d) \/ ClosePipe(f, d) PROVE KnownInv'
    BY Zenon, <1>s, <2>9 DEF CountDirect, ClosePipe
  <2> QED
    BY ZenonT(40), <1>1, <2>1, <2>3, <2>4, <2>6, <2>7, <2>8, <2>9
       DEF FlowStep, ReleaseWriter, CloseDirect
<1>2. ASSUME NEW t, NEW emails, RegisterUsers(t, emails) \/ RetireUsers(t, emails)
      PROVE  KnownInv'
  BY Zenon, <1>2 DEF KnownInv, RegisterUsers, RetireUsers,
     RegisterManagedUsers, RetireManagedUsers
<1>3. ASSUME NEW e \in Email, FinalizeRetiredUser(e) PROVE KnownInv'
  <2>1. /\ runtime' = runtime \ {e} /\ registered' = registered \ ({e} \X Dir)
        /\ UNCHANGED <<current, email>> /\ e \notin current
    BY Zenon, <1>3 DEF FinalizeRetiredUser, CanFinalize
  <2>2. ASSUME NEW f \in Flows, ref'[f] = "live" PROVE ref[f] = "live" /\ email[f] # e
    BY ZenonT(40), <1>3, <2>2 DEF FinalizeRetiredUser, Detach
  <2>3. ASSUME NEW k \in registered' PROVE k \in registered /\ k[1] # e
    BY ZenonT(40), <1>a, <2>1, <2>3 DEF FlowsTypeOK, Counters
  <2> QED
    BY ZenonT(40), <2>1, <2>2, <2>3 DEF KnownInv
<1>4. ASSUME NEW k \in Counters, DrainCounter(k) PROVE KnownInv'
  BY Zenon, <1>s, <1>4 DEF DrainCounter
<1>5. ASSUME NEW deltas, RestoreTraffic(deltas) PROVE KnownInv'
  BY ZenonT(40), <1>s, <1>5 DEF RestoreTraffic
<1>6. CASE UNCHANGED flowsVars
  BY Zenon, <1>s, <1>6 DEF flowsVars
<1> QED
  BY ZenonT(40), <1>1, <1>2, <1>3, <1>4, <1>5, <1>6 DEF FlowsNext

(* recordRetiring and removing the entries of a list again.                *)
LEMMA AwaitedAfter ==
  ASSUME NEW t, NEW list
  PROVE  /\ Record(t, list) => Awaited' = Awaited \cup Emails(t, list)
         /\ Unrecord(t, list) => Awaited' = Awaited \ Emails(t, list)
<1>1. {p[1] : p \in Entries(t, list)} = Emails(t, list)
  <2>1. ASSUME NEW u \in list PROVE <<EmailOf(t, u), u>>[1] = EmailOf(t, u)
    OBVIOUS
  <2>2. \A e : e \in {p[1] : p \in Entries(t, list)} <=> \E u \in list : e = EmailOf(t, u)
    BY Zenon, <2>1 DEF Entries
  <2> QED
    BY Zenon, <2>2 DEF Emails
<1> DEFINE E == Emails(t, list)
           First(S) == {p[1] : p \in S}
           Kept == {p \in retiring : p[1] \notin E}
<1>2. First(Kept) = First(retiring) \ E
  OBVIOUS
<1>3. First(Kept \cup Entries(t, list)) = First(Kept) \cup First(Entries(t, list))
  OBVIOUS
<1>4. Awaited = First(retiring) \cup lost /\ Awaited' = First(retiring') \cup lost'
  BY DEF Awaited
<1>5. ASSUME Record(t, list) PROVE Awaited' = Awaited \cup Emails(t, list)
  <2>1. retiring' = Kept \cup Entries(t, list) /\ lost' = lost \ E
    BY Zenon, <1>5 DEF Record
  <2> HIDE DEF E, First, Kept
  <2>2. Awaited' = ((First(retiring) \ E) \cup E) \cup (lost \ E)
    BY ZenonT(40), <1>1, <1>2, <1>3, <1>4, <2>1 DEF First, E
  <2> QED
    BY <1>4, <2>2 DEF E
<1>6. ASSUME Unrecord(t, list) PROVE Awaited' = Awaited \ Emails(t, list)
  <2>1. retiring' = Kept /\ lost' = lost \ E
    BY Zenon, <1>6 DEF Unrecord
  <2> HIDE DEF E, First, Kept
  <2> QED
    BY ZenonT(40), <1>2, <1>4, <2>1 DEF E
<1> QED
  BY ZenonT(40), <1>5, <1>6

(* The connections and the user monitor take users from the registry, and  *)
(* entries from the retirement map only of users that remain accounted     *)
(* for.                                                                    *)
LEMMA ListShrinks ==
  ASSUME ListInv, runtime' \subseteq runtime, UNCHANGED <<current, tag, userList, nm, job>>,
         runtime' \cap Awaited \subseteq Awaited' \cup current
  PROVE  ListInv'
<1>1. UNCHANGED <<Listed, Leaving, Arriving>>
  BY Zenon DEF Listed, Leaving, Arriving, Gone, Fresh
<1> QED
  BY Zenon, <1>1 DEF ListInv, Recorded
(* A list that takes users away takes listed ones.                         *)
LEMMA LeavingListed == Leaving \subseteq Listed
BY DEF Leaving, Listed, Emails, Gone

(* Taking users away, up to the restoring of users that cannot be removed. *)
LEMMA NodeRetires ==
  ASSUME ListInv, Start \/ RetireGone \/ RecordGone \/ RemoveGone \/ RestoreGone \/ UnrecordGone
  PROVE  ListInv'
<1> USE DEF NodeGoto, NodeReturn, controllerVars, flowsVars, registryVars, RegisterUsers,
            RetireUsers, RegisterManagedUsers, RetireManagedUsers
<1>1. CASE Start
  <2>1. /\ current' = current \cup Listed /\ runtime' = runtime \cup Listed
        /\ UNCHANGED <<Listed, Awaited>> /\ Arriving = {} /\ Arriving' = {} /\ nm' = "idle"
    BY Zenon, <1>1 DEF Start, Listed, Awaited, Arriving
  <2>2. job'.newTag = tag'
    BY Zenon, <1>1 DEF Start, NoJob
  <2> QED
    BY ZenonT(40), <2>1, <2>2 DEF ListInv, Recorded
<1>2. CASE RetireGone
  <2>1. /\ UNCHANGED <<Listed, Leaving, Awaited, job, tag>>
        /\ Arriving = {} /\ Arriving' = {} /\ nm' = "record"
    BY Zenon, <1>2 DEF RetireGone, Listed, Leaving, Awaited, Arriving, Gone
  <2>2. current' = current \ Leaving /\ runtime' \subseteq runtime \cup Leaving
    <3>1. CASE Gone(job) = {} /\ UNCHANGED flowsVars
      BY Zenon, <3>1 DEF Leaving, Emails
    <3>2. CASE RetireUsers(tag, Emails(tag, Gone(job)))
      BY Zenon, <3>2 DEF Leaving
    <3> QED
      BY ZenonT(40), <1>2, <3>1, <3>2 DEF RetireGone
  <2> QED
    BY ZenonT(40), <2>1, <2>2, LeavingListed DEF ListInv, Recorded
<1>3. CASE RecordGone
  <2>1. /\ UNCHANGED <<Listed, Leaving, job, tag, current, runtime>> /\ nm = "record"
        /\ Arriving = {} /\ Arriving' = {} /\ nm' = "remove"
    BY Zenon, <1>3 DEF RecordGone, Listed, Leaving, Arriving, Gone
  <2>2. Awaited' = Awaited \cup Leaving
    BY ZenonT(40), <1>3, AwaitedAfter DEF RecordGone, Leaving
  <2> QED
    BY ZenonT(40), <2>1, <2>2 DEF ListInv, Recorded
<1>4. CASE RemoveGone
  <2>1. /\ UNCHANGED <<Listed, Leaving, Awaited, job, tag, current, runtime>>
        /\ nm = "remove" /\ Arriving = {} /\ nm' # "recordFresh"
    BY Zenon, <1>4 DEF RemoveGone, Listed, Leaving, Awaited, Arriving, Gone,
       AfterRemove
  <2> QED
    BY Zenon, <2>1 DEF ListInv, Recorded
<1>5. CASE RestoreGone
  <2>1. /\ UNCHANGED <<Listed, Leaving, Awaited, job, tag>>
        /\ Arriving = {} /\ Arriving' = {} /\ nm' = "unrecordGone"
    BY Zenon, <1>5 DEF RestoreGone, Listed, Leaving, Awaited, Arriving, Gone
  <2>2. current' = current \cup Leaving /\ runtime' = runtime \cup Leaving
    BY Zenon, <1>5 DEF RestoreGone, Leaving
  <2> QED
    BY ZenonT(40), <2>1, <2>2, LeavingListed DEF ListInv, Recorded
<1>6. CASE UnrecordGone
  <2>1. /\ UNCHANGED <<Listed, tag, current, runtime>>
        /\ Arriving = {} /\ Arriving' = {} /\ nm' = "idle"
    BY Zenon, <1>6 DEF UnrecordGone, Listed, Arriving
  <2>2. Awaited' = Awaited \ Leaving
    BY ZenonT(40), <1>6, AwaitedAfter DEF UnrecordGone, Leaving
  <2>3. job'.newTag = tag'
    BY Zenon, <1>6 DEF UnrecordGone, NoJob
  <2> QED
    BY ZenonT(40), <2>1, <2>2, <2>3, LeavingListed DEF ListInv, Recorded
<1> QED
  BY ZenonT(40), <1>1, <1>2, <1>3, <1>4, <1>5, <1>6

(* Adding users, from the panel's answer to the published list.            *)
LEMMA NodeAdds ==
  ASSUME ListInv, \/ Fetch \/ AddTag \/ RegisterFresh \/ UnrecordFresh \/ AddUsers
                  \/ WithdrawFresh \/ RecordFresh \/ Publish
  PROVE  ListInv'
<1> DEFINE New == Emails(job.newTag, Fresh(job))
<1> USE DEF NodeGoto, NodeReturn, controllerVars, flowsVars, registryVars, RegisterUsers,
            RetireUsers, RegisterManagedUsers, RetireManagedUsers
<1>1. CASE Fetch
  <2>1. /\ UNCHANGED <<Listed, Awaited, tag, current, runtime>> /\ Arriving = {}
        /\ ~job'.replace => job'.newTag = tag
        /\ nm' # "recordFresh"
    BY Zenon, <1>1 DEF Fetch, Listed, Awaited, Arriving, AfterRemove
  <2>2. nm' \in Recorded \cup {"record"} => Leaving' = {}
    BY Zenon, <1>1 DEF Fetch, Recorded, AfterRemove, Leaving, Gone, Emails
  <2> QED
    BY ZenonT(40), <2>1, <2>2 DEF ListInv
<1>2. CASE AddTag
  <2>0. NoJob(tag).newTag = tag
    BY DEF NoJob
  <2>1. /\ UNCHANGED <<tag, current, runtime>> /\ nm = "addTag"
        /\ \/ nm' = "idle" /\ job'.newTag = tag
           \/ nm' = "register" /\ UNCHANGED job
    BY Zenon, <1>2, <2>0 DEF AddTag
  <2>3. UNCHANGED <<Listed, Awaited>>
    BY Zenon, <1>2 DEF AddTag, Listed, Awaited
  <2>4. Arriving = {} /\ Arriving' = {}
    BY Zenon, <2>1 DEF Arriving
  <2>2. job' = job => Leaving' = Leaving
    BY Zenon, <1>2 DEF AddTag, Leaving, Gone
  <2> QED
    BY ZenonT(40), <2>1, <2>2, <2>3, <2>4 DEF ListInv, Recorded
<1>3. CASE RegisterFresh
  <2>1. /\ UNCHANGED <<Listed, Leaving, Awaited, job, tag>> /\ nm = "register"
        /\ Arriving = {} /\ Arriving' = New /\ nm' = "unrecord"
    BY Zenon, <1>3 DEF RegisterFresh, Listed, Leaving, Awaited, Arriving, Gone,
       Fresh
  <2>2. current' = current \cup New /\ runtime' = runtime \cup New
    BY Zenon, <1>3 DEF RegisterFresh
  <2> HIDE DEF New
  <2> QED
    BY ZenonT(40), <2>1, <2>2 DEF ListInv, Recorded
<1>4. CASE UnrecordFresh
  <2>1. /\ UNCHANGED <<Listed, Leaving, job, tag, current, runtime>> /\ nm = "unrecord"
        /\ Arriving = New /\ Arriving' = New /\ nm' = "addUsers"
    BY Zenon, <1>4 DEF UnrecordFresh, Listed, Leaving, Arriving, Gone, Fresh
  <2>2. Awaited' = Awaited \ New
    BY ZenonT(40), <1>4, AwaitedAfter DEF UnrecordFresh
  <2> HIDE DEF New
  <2> QED
    BY ZenonT(40), <2>1, <2>2 DEF ListInv, Recorded
<1>5. CASE AddUsers
  <2>1. /\ UNCHANGED <<Listed, Leaving, Awaited, job, tag, current, runtime, Arriving>>
        /\ nm = "addUsers" /\ nm' \in {"publish", "withdraw"}
    BY Zenon, <1>5 DEF AddUsers, Listed, Leaving, Awaited, Arriving, Gone, Fresh
  <2> QED
    BY Zenon, <2>1 DEF ListInv, Recorded
<1>6. CASE WithdrawFresh
  <2>1. /\ UNCHANGED <<Listed, Leaving, Awaited, job, tag, Arriving>> /\ Arriving = New
        /\ nm = "withdraw" /\ nm' = "recordFresh"
    BY Zenon, <1>6 DEF WithdrawFresh, Listed, Leaving, Awaited, Arriving, Gone,
       Fresh
  <2>2. current' = current \ New /\ runtime' \subseteq runtime \cup New
    <3>1. CASE Fresh(job) = {} /\ UNCHANGED flowsVars
      BY Zenon, <3>1 DEF Emails
    <3>2. CASE RetireUsers(job.newTag, New)
      BY Zenon, <3>2
    <3> QED
      BY ZenonT(40), <1>6, <3>1, <3>2 DEF WithdrawFresh
  <2> HIDE DEF New
  <2> QED
    BY ZenonT(40), <2>1, <2>2 DEF ListInv, Recorded
<1>7. CASE RecordFresh
  <2>0. NoJob(tag).newTag = tag
    BY DEF NoJob
  <2>1. /\ UNCHANGED <<tag, userList, current, runtime>> /\ nm = "recordFresh"
        /\ \/ nm' = "idle" /\ job'.newTag = tag
           \/ nm' = "publish" /\ UNCHANGED job
    BY Zenon, <1>7, <2>0 DEF RecordFresh
  <2>3. UNCHANGED Listed
    BY Zenon, <2>1 DEF Listed
  <2>4. Arriving = New
    BY Zenon, <2>1 DEF Arriving
  <2>6. nm' = "idle" => Arriving' = {}
    BY Zenon, <2>1 DEF Arriving
  <2>7. job' = job => Leaving' = Leaving /\ New' = New
    BY Zenon, <2>1 DEF Leaving, Gone, Fresh
  <2>5. nm' = "publish" => Arriving' = New
    BY ZenonT(40), <2>1, <2>7 DEF Arriving
  <2>2. Awaited' = Awaited \cup New
    BY ZenonT(40), <1>7, AwaitedAfter DEF RecordFresh
  <2> HIDE DEF New
  <2> QED
    BY ZenonT(40), <2>1, <2>2, <2>3, <2>4, <2>5, <2>6, <2>7 DEF ListInv, Recorded
<1>8. CASE Publish
  <2>1. /\ UNCHANGED <<Awaited, current, runtime>> /\ Arriving = New /\ nm = "publish"
        /\ Arriving' = {} /\ nm' = "idle" /\ job'.newTag = tag'
        /\ Listed' = Emails(job.newTag, job.list)
    BY Zenon, <1>8 DEF Publish, Awaited, Arriving, Listed, NoJob
  <2>2. New \subseteq Listed'
    BY Zenon, <2>1 DEF Emails, Fresh
  <2>3. Listed \subseteq Leaving \cup Listed'
    BY Zenon, <2>1 DEF Listed, Leaving, Emails, Gone, ListInv
  <2> HIDE DEF New
  <2> QED
    BY ZenonT(40), <2>1, <2>2, <2>3 DEF ListInv, Recorded
<1> QED
  BY ZenonT(40), <1>1, <1>2, <1>3, <1>4, <1>5, <1>6, <1>7, <1>8

(* The user monitor removes an entry of the retirement map only for a user *)
(* it finalized, who may have been registered or retired anew since.       *)
LEMMA MonitorLists ==
  ASSUME ListInv, UserMonitor
  PROVE  ListInv'
<1> USE DEF controllerVars, nodeMonitorVars, flowsVars, registryVars
<1>1. CASE Drop
  <2>1. UNCHANGED <<runtime, current, tag, userList, nm, job>>
    BY Zenon, <1>1 DEF Drop
  <2>2. ASSUME NEW e \in runtime, e \in Awaited, e \notin current PROVE e \in Awaited'
    <3>1. CASE e \in lost
      BY ZenonT(40), <1>1, <3>1 DEF Drop, Awaited
    <3>2. ASSUME NEW p \in retiring, e = p[1] PROVE e \in Awaited'
      <4>1. CASE p \in dropped
        BY ZenonT(40), <1>1, <2>2, <3>2, <4>1 DEF Drop, Awaited
      <4>2. CASE p \notin dropped
        BY ZenonT(40), <1>1, <3>2, <4>2 DEF Drop, Awaited
      <4> QED
        BY ZenonT(40), <4>1, <4>2
    <3> QED
      BY ZenonT(40), <2>2, <3>1, <3>2 DEF Awaited
  <2> QED
    BY ZenonT(40), <2>1, <2>2, ListShrinks
<1>s. ASSUME runtime' \subseteq runtime, UNCHANGED <<current, controllerVars, nodeMonitorVars>>
      PROVE  ListInv'
  <2>1. Awaited' = Awaited
    BY Zenon, <1>s DEF Awaited
  <2> QED
    BY ZenonT(40), <1>s, <2>1, ListShrinks
<1>2. ASSUME NEW k \in Counters, Drain(k) PROVE ListInv'
  BY ZenonT(40), <1>s, <1>2 DEF Drain, DrainCounter
<1>3. ASSUME NEW p \in Email \X User, Finalize(p) PROVE ListInv'
  BY ZenonT(40), <1>s, <1>3 DEF Finalize, FinalizeRetiredUser
<1>4. CASE ReportFails
  BY ZenonT(40), <1>s, <1>4 DEF ReportFails, RestoreTraffic
<1>5. CASE SnapshotUsers \/ SnapshotRetiring \/ DrainRetired \/ DrainDone
  BY ZenonT(40), <1>s, <1>5 DEF SnapshotUsers, SnapshotRetiring, DrainRetired, DrainDone
<1>6. CASE Discard \/ ReportSucceeds \/ FinalizeDone
  BY ZenonT(40), <1>s, <1>6 DEF Discard, ReportSucceeds, FinalizeDone
<1> QED
  BY ZenonT(40), <1>1, <1>2, <1>3, <1>4, <1>5, <1>6 DEF UserMonitor

(* A connection adds no user to the registry: acquire only admits current  *)
(* ones.                                                                   *)
LEMMA FlowLists ==
  ASSUME ListInv, KnownInv, Data
  PROVE  ListInv'
<1> USE DEF registryVars
<1>1. PICK f \in Flows : FlowStep(f)
  BY Zenon DEF Data
<1>2. ASSUME NEW e \in Email, Acquire(f, e) PROVE runtime' = runtime /\ current' = current
  BY ZenonT(40), <1>2 DEF Acquire, KnownInv
<1>3. ASSUME RejectDevice(f) \/ FallBack(f) \/ OpenLink(f) \/ OpenDirect(f) \/ Forget(f)
      PROVE  runtime' = runtime /\ current' = current
  BY Zenon, <1>3 DEF RejectDevice, FallBack, OpenLink, OpenDirect, Forget
<1>4. ASSUME GetUplinkCounter(f) \/ GetDownlinkCounter(f)
      PROVE  runtime' = runtime /\ current' = current
  BY Zenon, <1>4 DEF GetUplinkCounter, GetDownlinkCounter, GetCounter
<1>5. ASSUME NEW d \in Dir,
             \/ CountWrite(f, d) \/ CountDirect(f, d)
             \/ FinishWrite(f, d) \/ ClosePipe(f, d)
      PROVE  runtime' = runtime /\ current' = current
  BY Zenon, <1>5 DEF CountWrite, CountDirect, FinishWrite, ClosePipe
<1>6. ASSUME NEW o, ReleaseOwner(f, o) PROVE runtime' = runtime /\ current' = current
  BY Zenon, <1>6 DEF ReleaseOwner
<1>7. runtime' = runtime /\ current' = current
  BY ZenonT(40), <1>1, <1>2, <1>3, <1>4, <1>5, <1>6 DEF FlowStep, ReleaseWriter,
     CloseDirect
<1>8. UNCHANGED <<tag, userList, nm, job, Awaited>>
  BY DEF Data, monitorVars, controllerVars, nodeMonitorVars, Awaited
<1> QED
  BY ZenonT(40), <1>7, <1>8, ListShrinks

(* The invariant behind the reports holds when nothing has been registered. *)
LEMMA ReportInit == Init => ReportInv
<1> SUFFICES ASSUME Init PROVE ReportInv
  OBVIOUS
<1>1. KnownInv
  BY Zenon DEF Init, FlowsInit, KnownInv
<1>2. ListInv
  BY Zenon DEF Init, FlowsInit, ListInv, NoJob, Recorded
<1> QED
  BY Zenon, <1>1, <1>2 DEF ReportInv

(* Every step of the monitors and of the flows preserves it.               *)
LEMMA ReportStep == AccountingInv /\ ReportInv /\ [Next]_vars => ReportInv'
<1> SUFFICES ASSUME AccountingInv, KnownInv, ListInv, [Next]_vars PROVE ReportInv'
  BY DEF ReportInv
<1>1. KnownInv'
  BY Zenon, StepImplements, KnownStep DEF AccountingInv
<1>2. CASE NodeMonitor
  <2>1. ListInv'
    BY ZenonT(40), <1>2, NodeRetires, NodeAdds DEF NodeMonitor
  <2> QED
    BY Zenon, <1>1, <2>1 DEF ReportInv
<1>3. CASE UserMonitor
  BY ZenonT(40), <1>1, <1>3, MonitorLists DEF ReportInv
<1>4. CASE Data
  BY ZenonT(40), <1>1, <1>4, FlowLists DEF ReportInv
<1>5. CASE UNCHANGED vars
  <2>1. UNCHANGED <<runtime, current, tag, userList, nm, job, Awaited>>
    BY Zenon, <1>5 DEF vars, flowsVars, registryVars, controllerVars, nodeMonitorVars, Awaited
  <2> QED
    BY ZenonT(40), <1>1, <2>1, ListShrinks DEF ReportInv
<1> QED
  BY ZenonT(40), <1>2, <1>3, <1>4, <1>5 DEF Next

(* Between two cycles of the node monitor no counter of a managed inbound  *)
(* escapes the next report, whatever the panel answers, wherever an        *)
(* inbound call fails and however the user monitor's snapshots and removals *)
(* fall between the node monitor's steps; but for the users of Drop's      *)
(* exception.                                                              *)
THEOREM ReportsMissNothing == Spec => []EveryCounterIsReported
<1>1. ReportInv => EveryCounterIsReported
  <2> SUFFICES ASSUME KnownInv, ListInv, nm = "idle", NEW k \in registered, TagOf(k[1]) \in Tags
               PROVE  k[1] \in Listed \cup Awaited
    BY ZenonT(40) DEF EveryCounterIsReported, ReportInv, Listed, Awaited
  <2>1. k[1] \in runtime /\ Arriving = {}
    BY DEF KnownInv, Arriving
  <2> QED
    BY ZenonT(40), <2>1 DEF ListInv
<1> QED
  BY <1>1, ReportInit, ReportStep, AccountingInvariant, PTL DEF Spec
=============================================================================
