----------------------------- MODULE UserFlows -----------------------------
(***************************************************************************)
(* The dispatcher's user registry (app/mydispatcher/user_lifecycle.go),    *)
(* the data-path flows that hold a reference on it (default.go, stats.go)  *)
(* and the per-user counters of the stats manager.                         *)
(*                                                                         *)
(* A pointer to a runtime or counter object matters only in so far as the  *)
(* object is still the one the registry or the stats manager hands out, so *)
(* a pointer is "live" or "detached"; FinalizeRetiredUser detaches the     *)
(* pointers to the objects it drops.                                       *)
(***************************************************************************)
EXTENDS Naturals, FiniteSets

CONSTANTS
  Tags,        \* inbound tags the panel controllers manage
  CustomTags,  \* inbounds of the custom configuration, managed by nobody
  Uids,        \* user ids
  Flows,       \* connections, each with at most one userIO at a time
  Paths,       \* dispatch paths in use: VMess inbounds try "direct" first
  MaxBytes     \* bound on the bytes counted per user and direction

ASSUME FlowsFinite == IsFiniteSet(Flows)
ASSUME PathsKnown == Paths \subseteq {"link", "direct"}
ASSUME MaxBytesNat == MaxBytes \in Nat
ASSUME TagsDisjoint == Tags \cap CustomTags = {}

\* buildUserTagWithTag: the runtime e-mail of a user names its tag and uid.
Email == (Tags \cup CustomTags) \X Uids
TagOf(e) == e[1]
EmailsOf(t) == {t} \X Uids

Dir == {"uplink", "downlink"}
Counters == Email \X Dir
Owner == Dir \cup {"direct"}

\* idle: no userIO;  acquired: acquire succeeded;  uplink: uplink counter
\* fetched;  ready: userIO complete;  link, direct: carrying data;
\* closed: reference released, goroutines of the connection may linger.
FlowState == {"idle", "acquired", "uplink", "ready", "link", "direct", "closed"}

VARIABLES
  nodes,       \* tags with a managedUserNode
  current,     \* node.current: users that may start a flow
  runtime,     \* node.runtime: users with a userFlowRuntime
  active,      \* userFlowRuntime.active of the users in runtime
  registered,  \* counters known to the stats manager
  counter,     \* their values
  state,       \* FlowState of each flow
  email,       \* sessionInbound.User.Email of each flow
  ref,         \* the flow's userIO.runtime: none, live or detached
  handle,      \* the flow's counters: none, live or detached
  pipe,        \* the writers whose pipe is still open
  owners,      \* the owners that have not released the connection
  chunk,       \* bytes counted and not yet written: none, live or detached
  counted,     \* history: bytes added to any counter of the user
  orphaned,    \* history: bytes added to a detached counter
  taken        \* history: bytes drained from the counter and not put back

registryVars == <<nodes, current, runtime, active>>
statsVars == <<registered, counter>>
flowVars == <<state, email, ref, handle, pipe, owners, chunk>>
historyVars == <<counted, orphaned, taken>>
flowsVars == <<registryVars, statsVars, flowVars, historyVars>>

Pointer == {"none", "live", "detached"}

FlowsTypeOK ==
  /\ nodes \subseteq Tags
  /\ current \subseteq Email
  /\ runtime \subseteq Email
  /\ active \in [Email -> Nat]
  /\ registered \subseteq Counters
  /\ counter \in [Counters -> Nat]
  /\ state \in [Flows -> FlowState]
  /\ email \in [Flows -> Email]
  /\ ref \in [Flows -> Pointer]
  /\ handle \in [Flows \X Dir -> Pointer]
  /\ pipe \in [Flows -> SUBSET Dir]
  /\ owners \in [Flows -> SUBSET Owner]
  /\ chunk \in [Flows \X Dir -> Pointer]
  /\ counted \in [Counters -> Nat]
  /\ orphaned \in [Counters -> Nat]
  /\ taken \in [Counters -> Nat]

FlowsInit ==
  /\ nodes = {}
  /\ current = {}
  /\ runtime = {}
  /\ active = [e \in Email |-> 0]
  /\ registered = {}
  /\ counter = [k \in Counters |-> 0]
  /\ state = [f \in Flows |-> "idle"]
  /\ email \in [Flows -> Email]
  /\ ref = [f \in Flows |-> "none"]
  /\ handle = [k \in Flows \X Dir |-> "none"]
  /\ pipe = [f \in Flows |-> {}]
  /\ owners = [f \in Flows |-> {}]
  /\ chunk = [k \in Flows \X Dir |-> "none"]
  /\ counted = [k \in Counters |-> 0]
  /\ orphaned = [k \in Counters |-> 0]
  /\ taken = [k \in Counters |-> 0]

-----------------------------------------------------------------------------
(* The registry, each operation under its mutex.                           *)

RegisterManagedUsers(t, emails) ==
  /\ nodes' = nodes \cup {t}
  /\ current' = current \cup emails
  /\ runtime' = runtime \cup emails
  /\ UNCHANGED active

RetireManagedUsers(t, emails) ==
  /\ nodes' = nodes \cup {t}
  /\ current' = current \ emails
  /\ runtime' = runtime \cup emails
  /\ UNCHANGED active

\* Mutant: only the uplink counter is looked at.
UplinkDrained(e) ==
  <<e, "uplink">> \in registered => counter[<<e, "uplink">>] = 0

CountersDrained(e) ==
  \A d \in Dir : <<e, d>> \in registered => counter[<<e, d>>] = 0

\* Mutant: open connections are not waited for.
CanFinalizeBusy(e) ==
  /\ TagOf(e) \in nodes
  /\ e \notin current
  /\ e \in runtime
  /\ CountersDrained(e)

CanFinalize(e) ==
  /\ TagOf(e) \in nodes
  /\ e \notin current
  /\ e \in runtime
  /\ active[e] = 0
  /\ CountersDrained(e)

Detach(p) == IF p = "none" THEN "none" ELSE "detached"

\* Drops the user's runtime and both counters; whoever still points to them
\* is left with detached objects.
FinalizeRetiredUser(e) ==
  /\ CanFinalize(e)
  /\ runtime' = runtime \ {e}
  /\ registered' = registered \ ({e} \X Dir)
  /\ counter' = [k \in Counters |-> IF k[1] = e THEN 0 ELSE counter[k]]
  /\ ref' = [f \in Flows |-> IF email[f] = e THEN Detach(ref[f]) ELSE ref[f]]
  /\ handle' = [k \in Flows \X Dir |->
                  IF email[k[1]] = e THEN Detach(handle[k]) ELSE handle[k]]
  /\ UNCHANGED <<nodes, current, active, state, email, pipe, owners, chunk,
                 historyVars>>

-----------------------------------------------------------------------------
(* getUserIO.                                                              *)

Acquire(f, e) ==
  /\ state[f] = "idle"
  /\ \/ /\ TagOf(e) \notin nodes
        /\ ref' = [ref EXCEPT ![f] = "detached"]
        /\ UNCHANGED <<runtime, active>>
     \/ /\ TagOf(e) \in nodes
        /\ e \in current
        /\ runtime' = runtime \cup {e}
        /\ active' = [active EXCEPT ![e] = @ + 1]
        /\ ref' = [ref EXCEPT ![f] = "live"]
  /\ state' = [state EXCEPT ![f] = "acquired"]
  /\ email' = [email EXCEPT ![f] = e]
  /\ UNCHANGED <<nodes, current, statsVars, handle, pipe, owners, chunk,
                 historyVars>>

\* userIO.Release, once; the CAS loop of userFlowRuntime.release never goes
\* below zero.
Release(f) ==
  /\ ref' = [ref EXCEPT ![f] = "none"]
  /\ active' = IF ref[f] = "live" /\ active[email[f]] > 0
               THEN [active EXCEPT ![email[f]] = @ - 1]
               ELSE active

\* Mutant: the error return forgets the deferred Release.
RejectDeviceLeak(f) ==
  /\ state[f] = "acquired"
  /\ ref' = [ref EXCEPT ![f] = "none"]
  /\ state' = [state EXCEPT ![f] = "idle"]
  /\ UNCHANGED <<registryVars, statsVars, email, handle, pipe, owners, chunk,
                 historyVars>>

\* GetUserBucket rejects the device: the deferred Release runs.
RejectDevice(f) ==
  /\ state[f] = "acquired"
  /\ Release(f)
  /\ state' = [state EXCEPT ![f] = "idle"]
  /\ UNCHANGED <<nodes, current, runtime, statsVars, email, handle, pipe,
                 owners, chunk, historyVars>>

\* getOrRegisterCounter: whoever loses the registration race reads the
\* winner's counter back.
GetCounter(f, d, from, to) ==
  /\ state[f] = from
  /\ registered' = registered \cup {<<email[f], d>>}
  /\ handle' = [handle EXCEPT ![<<f, d>>] = "live"]
  /\ state' = [state EXCEPT ![f] = to]
  /\ UNCHANGED <<registryVars, counter, email, ref, pipe, owners, chunk,
                 historyVars>>

GetUplinkCounter(f) == GetCounter(f, "uplink", "acquired", "uplink")
GetDownlinkCounter(f) == GetCounter(f, "downlink", "uplink", "ready")

-----------------------------------------------------------------------------
(* Links.                                                                  *)

\* getLink: two lifecycle writers share the reference.
OpenLink(f) ==
  /\ "link" \in Paths
  /\ state[f] = "ready"
  /\ state' = [state EXCEPT ![f] = "link"]
  /\ pipe' = [pipe EXCEPT ![f] = Dir]
  /\ owners' = [owners EXCEPT ![f] = Dir]
  /\ UNCHANGED <<registryVars, statsVars, email, ref, handle, chunk,
                 historyVars>>

\* DispatchDirect succeeds: SetFlow hands the reference to the direct link.
OpenDirect(f) ==
  /\ "direct" \in Paths
  /\ state[f] = "ready"
  /\ state' = [state EXCEPT ![f] = "direct"]
  /\ owners' = [owners EXCEPT ![f] = {"direct"}]
  /\ UNCHANGED <<registryVars, statsVars, email, ref, handle, pipe, chunk,
                 historyVars>>

\* Every other exit of DispatchDirect releases the reference.
FallBack(f) ==
  /\ state[f] = "ready"
  /\ Release(f)
  /\ handle' = [handle EXCEPT ![<<f, "uplink">>] = "none",
                              ![<<f, "downlink">>] = "none"]
  /\ state' = [state EXCEPT ![f] = "idle"]
  /\ UNCHANGED <<nodes, current, runtime, statsVars, email, pipe, owners,
                 chunk, historyVars>>

\* One byte is added to the counter the flow points to.
AddToCounter(f, d) ==
  LET k == <<email[f], d>> IN
  /\ counted[k] < MaxBytes
  /\ counted' = [counted EXCEPT ![k] = @ + 1]
  /\ \/ /\ handle[<<f, d>>] = "live"
        /\ counter' = [counter EXCEPT ![k] = @ + 1]
        /\ UNCHANGED <<orphaned, taken>>
     \/ /\ handle[<<f, d>>] = "detached"
        /\ orphaned' = [orphaned EXCEPT ![k] = @ + 1]
        /\ UNCHANGED <<counter, taken>>

\* SizeStatWriter counts before the pipe write; the writing goroutine may
\* still be here after another one closed the writer.
CountWrite(f, d) ==
  /\ state[f] \in {"link", "closed"}
  /\ chunk[<<f, d>>] = "none"
  /\ AddToCounter(f, d)
  /\ chunk' = [chunk EXCEPT ![<<f, d>>] = handle[<<f, d>>]]
  /\ UNCHANGED <<registryVars, registered, state, email, ref, handle, pipe,
                 owners>>

\* The pipe write: delivers through an open pipe, fails on a closed one.
FinishWrite(f, d) ==
  /\ chunk[<<f, d>>] # "none"
  /\ chunk' = [chunk EXCEPT ![<<f, d>>] = "none"]
  /\ UNCHANGED <<registryVars, statsVars, state, email, ref, handle, pipe,
                 owners, historyVars>>

\* A direct flow counts around its socket calls (SizeStatReader,
\* SizeStatWriter, or AddUplink/AddDownlink of the owner session); a call
\* under way when the link is closed may still count.
CountDirect(f, d) ==
  /\ state[f] \in {"direct", "closed"}
  /\ AddToCounter(f, d)
  /\ UNCHANGED <<registryVars, registered, flowVars>>

\* lifecycleWriter.Close and .Interrupt: first the pipe ...
ClosePipe(f, d) ==
  /\ state[f] = "link"
  /\ d \in pipe[f]
  /\ pipe' = [pipe EXCEPT ![f] = @ \ {d}]
  /\ UNCHANGED <<registryVars, statsVars, state, email, ref, handle, owners,
                 chunk, historyVars>>

\* The owner lets go once; the last one releases the user reference.
ReleaseOwner(f, o) ==
  /\ o \in owners[f]
  /\ owners' = [owners EXCEPT ![f] = @ \ {o}]
  /\ \/ /\ owners[f] # {o}
        /\ UNCHANGED <<ref, active, state>>
     \/ /\ owners[f] = {o}
        /\ Release(f)
        /\ state' = [state EXCEPT ![f] = "closed"]
  /\ UNCHANGED <<nodes, current, runtime, statsVars, email, handle, pipe,
                 chunk, historyVars>>

\* ... then the owner's sync.Once.
ReleaseWriter(f, d) ==
  /\ state[f] = "link"
  /\ d \notin pipe[f]
  /\ ReleaseOwner(f, d)

\* DirectLink.Close, or the owner session the flow was handed to.
CloseDirect(f) ==
  /\ state[f] = "direct"
  /\ ReleaseOwner(f, "direct")

\* The connection's goroutines are gone; the slot is free.
Forget(f) ==
  /\ state[f] = "closed"
  /\ \A d \in Dir : chunk[<<f, d>>] = "none"
  /\ handle' = [k \in Flows \X Dir |-> IF k[1] = f THEN "none" ELSE handle[k]]
  /\ state' = [state EXCEPT ![f] = "idle"]
  /\ UNCHANGED <<registryVars, statsVars, email, ref, pipe, owners, chunk,
                 historyVars>>

FlowStep(f) ==
  \/ \E e \in Email : TagOf(e) \in nodes \cup CustomTags /\ Acquire(f, e)
  \/ RejectDevice(f)
  \/ GetUplinkCounter(f)
  \/ GetDownlinkCounter(f)
  \/ OpenLink(f)
  \/ OpenDirect(f)
  \/ FallBack(f)
  \/ CloseDirect(f)
  \/ Forget(f)
  \/ \E d \in Dir : \/ CountWrite(f, d)
                    \/ FinishWrite(f, d)
                    \/ CountDirect(f, d)
                    \/ ClosePipe(f, d)
                    \/ ReleaseWriter(f, d)

\* What brings a connection to its end.
FlowEnds(f) ==
  \/ GetUplinkCounter(f) \/ GetDownlinkCounter(f) \/ FallBack(f)
  \/ CloseDirect(f) \/ Forget(f)
  \/ \E d \in Dir : FinishWrite(f, d) \/ ClosePipe(f, d) \/ ReleaseWriter(f, d)

-----------------------------------------------------------------------------
(* The controller's side of the stats manager.                             *)

\* drainTrafficCounter: Set(0) returns what it replaces.
DrainCounter(k) ==
  /\ counter' = [counter EXCEPT ![k] = 0]
  /\ taken' = [taken EXCEPT ![k] = @ + counter[k]]
  /\ UNCHANGED <<registryVars, registered, flowVars, counted, orphaned>>

\* restoreTraffic: each delta is added back to the counter it came from.
RestoreTraffic(deltas) ==
  /\ counter' = [k \in Counters |-> counter[k] + deltas[k]]
  /\ taken' = [k \in Counters |-> taken[k] - deltas[k]]
  /\ UNCHANGED <<registryVars, registered, flowVars, counted, orphaned>>

-----------------------------------------------------------------------------
(* The registry with a controller that may do anything it is able to do.   *)

RegisterUsers(t, emails) ==
  RegisterManagedUsers(t, emails) /\ UNCHANGED <<statsVars, flowVars, historyVars>>

RetireUsers(t, emails) ==
  RetireManagedUsers(t, emails) /\ UNCHANGED <<statsVars, flowVars, historyVars>>

\* The deltas a report may hold: at most what was taken, of live counters.
Restorable(deltas) ==
  \A k \in Counters : deltas[k] <= taken[k] /\ (deltas[k] > 0 => k \in registered)

FlowsNext ==
  \/ \E f \in Flows : FlowStep(f)
  \/ \E t \in Tags : \E emails \in SUBSET EmailsOf(t) :
       \/ RegisterUsers(t, emails)
       \/ RetireUsers(t, emails)
  \/ \E e \in Email : FinalizeRetiredUser(e)
  \/ \E k \in Counters : DrainCounter(k)
  \/ \E deltas \in [Counters -> 0 .. MaxBytes] :
       Restorable(deltas) /\ RestoreTraffic(deltas)

FlowsSpec == FlowsInit /\ [][FlowsNext]_flowsVars

-----------------------------------------------------------------------------
(* Properties every user of the registry relies on.                        *)

\* A connection that is not yet closed counts on the counter
\* the stats manager hands to the traffic report: FinalizeRetiredUser never
\* unregisters a counter under an open connection.
HeldCountersAreRegistered ==
  \A f \in Flows, d \in Dir :
    state[f] # "closed" /\ handle[<<f, d>>] # "none" =>
      handle[<<f, d>>] = "live" /\ <<email[f], d>> \in registered

\* A byte that a link's pipe still can deliver was counted on a counter the
\* traffic report reads: the pipes are closed before the reference goes.
NoFreeBytes ==
  \A f \in Flows, d \in Dir :
    chunk[<<f, d>>] = "detached" => d \notin pipe[f]

\* What an open connection carries is counted where the traffic report looks,
\* up to the last byte: userFlowRuntime.release and FinalizeRetiredUser take
\* the counters away only behind the pipes.
CountedIsReported == HeldCountersAreRegistered /\ NoFreeBytes

\* userFlowRuntime.active is the number of connections that hold the user,
\* whatever sequence of retire, re-register and finalize the user went through.
Holders(e) == {f \in Flows : ref[f] = "live" /\ email[f] = e}
ActiveCountsHolders == \A e \in Email : active[e] = Cardinality(Holders(e))

\* Every byte ever counted is still on a counter the report reads, was
\* drained from one, or was counted after its connection had been released
\* and the user finalized: no interleaving of counting, draining, restoring
\* and finalizing loses or doubles a byte.
BytesConserved ==
  \A k \in Counters : counted[k] = counter[k] + taken[k] + orphaned[k]

\* What the properties above rest on, connection by connection: only an open
\* connection holds its user; its counters are live until it is closed; the
\* pipes close before their owners let go; only the users of custom inbounds
\* are unknown to the registry.
FlowLifecycle(f) ==
  /\ ref[f] = "none" <=> state[f] \in {"idle", "closed"}
  /\ ref[f] = "live" => TagOf(email[f]) \in nodes
  /\ ref[f] = "detached" => TagOf(email[f]) \in CustomTags
  /\ state[f] # "link" => pipe[f] = {}
  /\ pipe[f] \subseteq owners[f]
  /\ \A d \in Dir :
       /\ state[f] \in {"idle", "acquired"} => handle[<<f, d>>] = "none"
       /\ handle[<<f, d>>] = "live" => <<email[f], d>> \in registered
       /\ handle[<<f, d>>] = "detached" => state[f] = "closed"
       /\ chunk[<<f, d>>] = "detached" => state[f] = "closed"

Lifecycle == \A f \in Flows : FlowLifecycle(f)

\* A counter the stats manager does not know holds nothing.
UnregisteredAreEmpty ==
  \A k \in Counters : k \notin registered => counter[k] = 0

\* A user who may start a flow, holds one open or has counters is known to
\* the registry.
KnownInv ==
  /\ current \subseteq runtime
  /\ \A f \in Flows : ref[f] = "live" => email[f] \in runtime
  /\ \A k \in registered : TagOf(k[1]) \in Tags => k[1] \in runtime

(* The inductive invariant: the registry (userFlows), the counters and the *)
(* connections agree at every step, whoever takes it, on who holds a user, *)
(* which counters exist, where each byte is and how far a connection got.  *)
FlowsInv ==
  /\ FlowsTypeOK
  /\ Lifecycle
  /\ ActiveCountsHolders
  /\ UnregisteredAreEmpty
  /\ BytesConserved
=============================================================================
