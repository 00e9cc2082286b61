--------------------------- MODULE GlobalDevices ---------------------------
(***************************************************************************)
(* The global device limit (common/limiter/global_cache.go and globalLimit *)
(* of limiter.go): several oldxr processes admit the addresses of one user *)
(* through a script that runs atomically on a shared Redis.                *)
(*                                                                         *)
(* The Redis key holds the user's device limit in place of the tag, so a   *)
(* key is named by its limit.  Time appears as the expiry of a key, which  *)
(* starts a new window, and as the timeout of a call.                      *)
(***************************************************************************)
EXTENDS Naturals, FiniteSets

CONSTANTS
  Nodes,      \* oldxr processes
  IPs,        \* source addresses of the user
  Calls,      \* connections in globalLimit
  Limits,     \* device limits, 0 for none
  MaxExpiries \* bound on the windows of a key

ASSUME LimitsNat == Limits \subseteq Nat
ASSUME ExpiriesNat == MaxExpiries \in Nat
ASSUME IPsFinite == IsFiniteSet(IPs)
ASSUME NonEmpty == Nodes # {} /\ IPs # {} /\ Limits # {}

VARIABLES
  remote,   \* Redis: the addresses under each key
  window,   \* number of times the key expired
  local,    \* layeredGlobalIPCache.local of each process
  closed,   \* processes whose cache was closed with its inbound
  call,     \* globalLimit of each connection
  admitted, \* history: addresses the key's window admitted
  refused   \* history: addresses the key's window refused

devicesVars == <<remote, window, local, closed, call, admitted, refused>>

At == {"idle", "sent", "accepted", "rejected"}

DevicesTypeOK ==
  /\ remote \in [Limits -> SUBSET IPs]
  /\ window \in [Limits -> 0..MaxExpiries]
  /\ local \in [Nodes \X Limits -> SUBSET IPs]
  /\ closed \subseteq Nodes
  /\ call \in [Calls -> [at: At, node: Nodes, limit: Limits, ip: IPs,
                         value: SUBSET IPs, window: 0..MaxExpiries]]
  /\ admitted \in [Limits -> SUBSET IPs]
  /\ refused \in [Limits -> SUBSET IPs]

\* Between calls the fields of a call mean nothing.
Call(at, n, l, i, value, w) ==
  [at |-> at, node |-> n, limit |-> l, ip |-> i, value |-> value, window |-> w]
AnyFree == Call("idle", CHOOSE n \in Nodes : TRUE, CHOOSE l \in Limits : TRUE,
                CHOOSE i \in IPs : TRUE, {}, 0)

DevicesInit ==
  /\ remote = [l \in Limits |-> {}]
  /\ window = [l \in Limits |-> 0]
  /\ local = [k \in Nodes \X Limits |-> {}]
  /\ closed = {}
  /\ call = [c \in Calls |-> AnyFree]
  /\ admitted = [l \in Limits |-> {}]
  /\ refused = [l \in Limits |-> {}]

-----------------------------------------------------------------------------
(* globalLimit calls ReserveIP with the limit GetUserBucket had read.      *)
Send(c, n, l, i) ==
  /\ call[c].at = "idle"
  /\ call' = [call EXCEPT ![c] = Call("sent", n, l, i, {}, 0)]
  /\ UNCHANGED <<remote, window, local, closed, admitted, refused>>

\* Mutant: a full key also refuses the addresses it holds.
FullForAll(known, l, i) == l > 0 /\ Cardinality(known) >= l

Full(known, l, i) == i \notin known /\ l > 0 /\ Cardinality(known) >= l

Reply(c, at, value) ==
  call' = [call EXCEPT ![c] = Call(at, @.node, @.limit, @.ip, value, window[@.limit])]

\* Mutant: the process decides on the snapshot it has.
ReserveOnSnapshot(c) ==
  LET l == call[c].limit
      i == call[c].ip
      known == local[<<call[c].node, l>>]
  IN  /\ call[c].at = "sent" /\ call[c].node \notin closed
      /\ IF Full(known, l, i)
           THEN Reply(c, "rejected", {}) /\ UNCHANGED remote
           ELSE /\ remote' = [remote EXCEPT ![l] = known \cup {i}]
                /\ Reply(c, "accepted", known \cup {i})
      /\ UNCHANGED <<window, local, closed, admitted, refused>>

\* Mutant: the script saves the address before it looks at the limit.
ReserveSavesFirst(c) ==
  LET l == call[c].limit
      i == call[c].ip
  IN  /\ call[c].at = "sent" /\ call[c].node \notin closed
      /\ remote' = [remote EXCEPT ![l] = @ \cup {i}]
      /\ IF Full(remote[l], l, i)
           THEN Reply(c, "rejected", {})
           ELSE Reply(c, "accepted", remote'[l])
      /\ UNCHANGED <<window, local, closed, admitted, refused>>

\* reserveGlobalIPScript, one step on Redis.
Reserve(c) ==
  LET l == call[c].limit
      i == call[c].ip
  IN  /\ call[c].at = "sent" /\ call[c].node \notin closed
      /\ IF Full(remote[l], l, i)
           THEN Reply(c, "rejected", {}) /\ UNCHANGED remote
           ELSE /\ remote' = [remote EXCEPT ![l] = @ \cup {i}]
                /\ Reply(c, "accepted", remote'[l])
      /\ UNCHANGED <<window, local, closed, admitted, refused>>

\* The call fails before or after the script ran: closed client, Redis away
\* or timeout.  globalLimit lets the connection pass.
FailOpen(c) ==
  /\ call[c].at # "idle"
  /\ call' = [call EXCEPT ![c] = AnyFree]
  /\ UNCHANGED <<remote, window, local, closed, admitted, refused>>

\* History: verdicts count in the window of the key they were given in.
InWindow(c, history) ==
  IF call[c].window = window[call[c].limit]
    THEN [history EXCEPT ![call[c].limit] = @ \cup {call[c].ip}] ELSE history

\* Status 1: setLocal with what the script returned.
Accept(c) ==
  /\ call[c].at = "accepted"
  /\ local' = [local EXCEPT ![<<call[c].node, call[c].limit>>] = call[c].value]
  /\ admitted' = InWindow(c, admitted)
  /\ call' = [call EXCEPT ![c] = AnyFree]
  /\ UNCHANGED <<remote, window, closed, refused>>

\* Status 0: deleteLocal, the connection is refused.
Refuse(c) ==
  /\ call[c].at = "rejected"
  /\ local' = [local EXCEPT ![<<call[c].node, call[c].limit>>] = {}]
  /\ refused' = InWindow(c, refused)
  /\ call' = [call EXCEPT ![c] = AnyFree]
  /\ UNCHANGED <<remote, window, closed, admitted>>

-----------------------------------------------------------------------------
ExpireRemote(l) ==
  /\ remote[l] # {} /\ window[l] < MaxExpiries
  /\ remote' = [remote EXCEPT ![l] = {}]
  /\ window' = [window EXCEPT ![l] = @ + 1]
  /\ admitted' = [admitted EXCEPT ![l] = {}]
  /\ refused' = [refused EXCEPT ![l] = {}]
  /\ UNCHANGED <<local, closed, call>>

ExpireLocal(n, l) ==
  /\ local[<<n, l>>] # {}
  /\ local' = [local EXCEPT ![<<n, l>>] = {}]
  /\ UNCHANGED <<remote, window, closed, call, admitted, refused>>

\* closeGlobalIPCache, when the inbound is deleted or replaced.
Close(n) ==
  /\ n \notin closed
  /\ closed' = closed \cup {n}
  /\ local' = [k \in Nodes \X Limits |-> IF k[1] = n THEN {} ELSE local[k]]
  /\ UNCHANGED <<remote, window, call, admitted, refused>>

\* AddInboundLimiter makes the new inbound's cache.
Open(n) ==
  /\ n \in closed
  /\ closed' = closed \ {n}
  /\ local' = [k \in Nodes \X Limits |-> IF k[1] = n THEN {} ELSE local[k]]
  /\ UNCHANGED <<remote, window, call, admitted, refused>>

DevicesNext ==
  \/ \E c \in Calls :
       \/ \E n \in Nodes, l \in Limits, i \in IPs : Send(c, n, l, i)
       \/ Reserve(c)
       \/ FailOpen(c)
       \/ Accept(c)
       \/ Refuse(c)
  \/ \E l \in Limits : ExpireRemote(l)
  \/ \E n \in Nodes, l \in Limits : ExpireLocal(n, l)
  \/ \E n \in Nodes : Close(n) \/ Open(n)

DevicesSpec == DevicesInit /\ [][DevicesNext]_devicesVars

-----------------------------------------------------------------------------
(* However the processes' calls, timeouts and expiries interleave, within  *)
(* the window of a key no more addresses are admitted than its limit: the  *)
(* decision runs on Redis, not on a process's snapshot (ReserveIP).        *)
GlobalLimitHolds ==
  \A l \in Limits : l > 0 => Cardinality(admitted[l]) <= l

(* Within the window of a key the processes agree on every address: none   *)
(* is refused by one and admitted by another, in whatever order they ask.  *)
VerdictsAgree == \A l \in Limits : admitted[l] \cap refused[l] = {}

Window == INSTANCE DeviceWindow WITH members <- remote

(* The processes together are one register of addresses per key, although  *)
(* a verdict is given on Redis and reaches the process later, or never:    *)
(* ReserveIP's answers are those of DeviceWindow at the time they arrive.  *)
ImplementsWindow == Window!WindowSpec

(* What all three rest on: an admitted address is under the key, a refused *)
(* one is not and the key is full, until the key expires; a verdict under  *)
(* way was given on such a key, in this window or an earlier one.          *)
VerdictsMatchKey ==
  /\ \A l \in Limits :
       /\ l > 0 => Cardinality(remote[l]) <= l
       /\ admitted[l] \subseteq remote[l]
       /\ refused[l] # {} =>
            l > 0 /\ Cardinality(remote[l]) >= l /\ refused[l] \cap remote[l] = {}
  /\ \A c \in Calls :
       LET l == call[c].limit
       IN  /\ call[c].window <= window[l]
           /\ call[c].window = window[l] =>
                /\ call[c].at = "accepted" => call[c].ip \in remote[l]
                /\ call[c].at = "rejected" =>
                     l > 0 /\ Cardinality(remote[l]) >= l /\ call[c].ip \notin remote[l]
=============================================================================
