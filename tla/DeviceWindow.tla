---------------------------- MODULE DeviceWindow ----------------------------
(***************************************************************************)
(* What the global device limit promises, without processes, calls or      *)
(* snapshots: for each key one register of addresses.  An address takes a  *)
(* place in it while there is room; a connection is admitted when its      *)
(* address has a place and refused when it has none and the key is full;   *)
(* the window of a key ends for all of it at once.  A place may be taken   *)
(* by a connection that never learns its verdict.                          *)
(***************************************************************************)
EXTENDS Naturals, FiniteSets

CONSTANTS
  IPs,    \* addresses
  Limits  \* device limits, 0 for none

VARIABLES
  members,   \* addresses with a place, by key
  admitted,  \* addresses told so
  refused    \* addresses told that there is none

windowVars == <<members, admitted, refused>>

HasRoom(l) == l = 0 \/ Cardinality(members[l]) < l

WindowInit ==
  /\ members = [l \in Limits |-> {}]
  /\ admitted = [l \in Limits |-> {}]
  /\ refused = [l \in Limits |-> {}]

TakePlace(l, i) ==
  /\ HasRoom(l)
  /\ members' = [members EXCEPT ![l] = @ \cup {i}]
  /\ UNCHANGED <<admitted, refused>>

Admit(l, i) ==
  /\ i \in members[l]
  /\ admitted' = [admitted EXCEPT ![l] = @ \cup {i}]
  /\ UNCHANGED <<members, refused>>

TurnAway(l, i) ==
  /\ i \notin members[l]
  /\ ~HasRoom(l)
  /\ refused' = [refused EXCEPT ![l] = @ \cup {i}]
  /\ UNCHANGED <<members, admitted>>

EndWindow(l) ==
  /\ members' = [members EXCEPT ![l] = {}]
  /\ admitted' = [admitted EXCEPT ![l] = {}]
  /\ refused' = [refused EXCEPT ![l] = {}]

WindowNext ==
  \E l \in Limits :
    \/ EndWindow(l)
    \/ \E i \in IPs : TakePlace(l, i) \/ Admit(l, i) \/ TurnAway(l, i)

WindowSpec == WindowInit /\ [][WindowNext]_windowVars
=============================================================================
