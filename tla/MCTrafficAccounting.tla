------------------------ MODULE MCTrafficAccounting ------------------------
(* TrafficAccounting for TLC: a node that moves between interchangeable    *)
(* tags, with bounds on what the flows and the panel do meanwhile.         *)
EXTENDS TrafficAccounting, TLC

TagSymmetry == Permutations(Tags)

\* The flows carry a single byte between them, upwards.
OneByte ==
  \A k, l \in Counters : counted[k] > 0 =>
    k[2] = "uplink" /\ (l # k => counted[l] = 0)

\* The panel adds and removes the user, and replaces a node without users.
OneByteListed == OneByte /\ (job.replace => userList = {})

\* Only the node moves, to another tag, and the panel always lists the user.
\* No connection is opened after the byte, and nothing follows its discarding.
OneByteMoving ==
  /\ OneByte
  /\ userList # {} /\ (nm \in {"start", "idle"} \/ job.list # {})
  /\ job.replace => job.newTag # tag
  /\ counted # Zero =>
       \A f \in Flows : state[f] \notin {"acquired", "uplink", "ready"}
  /\ discarded = Zero
=============================================================================
