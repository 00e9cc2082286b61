----------------------------- MODULE MCNodeSync -----------------------------
(* Instances of NodeSync for TLC: two users who come and go, one of whom   *)
(* gets a new limit, the other a new credential; a node that changes its   *)
(* settings or its tag.                                                    *)
EXTENDS NodeSync

User(i, c, l) == [uid |-> i, cred |-> c, limit |-> l]
Both == {User(1, 1, 1), User(2, 1, 1)}
Lists == {{}, Both, {User(1, 1, 2), User(2, 2, 1)}}

Node(t, n) == [tag |-> t, net |-> n]
TwoTags == {Node("a", 1), Node("a", 2), Node("b", 1)}

\* The panel starts with both users; a request or a core operation fails.
OneFailure ==
  /\ changes = 0 => panel = [node |-> Node("a", 1), users |-> Both]
  /\ fails + faults <= 1
=============================================================================
