---------------------------- MODULE RuleManager ----------------------------
(***************************************************************************)
(* Audit rules and their hits (common/rule/rule.go), for one inbound tag:  *)
(* the node monitor publishes rule lists (UpdateRule), connections match   *)
(* their destination and record hits (Detect), the user monitor collects   *)
(* and reports the hits (GetDetectResult, ReportIllegal).                  *)
(*                                                                         *)
(* A result set is an object: a Detect that loaded it goes on using it     *)
(* after the user monitor took it out of InboundDetectResult.              *)
(***************************************************************************)
EXTENDS Integers, FiniteSets, Sequences, FiniteSetsExt

CONSTANTS
  Conns,     \* connections in Detect
  Uids,      \* their users
  RuleLists, \* rule lists of the panel: sequences of rules
  Dests,     \* destinations
  Matches    \* Matches[p]: destinations the pattern p matches

ASSUME ConnsFinite == IsFiniteSet(Conns)
ASSUME ListsOfRules ==
  \A l \in RuleLists : l \in Seq([id : Int, pattern : DOMAIN Matches])

\* -1 is the id of the rules of the local file; their hits are not recorded.
LocalId == -1

Sets == 1..(Cardinality(Conns) + 2)

VARIABLES
  rules,     \* InboundRule of the tag, << >> for none
  fetched,   \* the list UpdateRule was last called with
  results,   \* InboundDetectResult of the tag: a set object, or 0
  members,   \* what each set object holds
  detect,    \* Detect of each connection
  held,      \* the set GetDetectResult took and not yet read, or 0
  owed,      \* history: hits recorded since they were last reported
  spanned    \* history: a collection happened within a Detect

ruleVars == <<rules, fetched, results, members, detect, held, owed, spanned>>

Ids == {r.id : r \in UNION {{l[n] : n \in DOMAIN l} : l \in RuleLists}} \ {LocalId}
Hits == Uids \X Ids
NoHit == <<>>
NotDetecting == [at |-> "idle", hit |-> NoHit, set |-> 0]

RuleTypeOK ==
  /\ rules \in RuleLists \cup {<<>>} /\ fetched \in RuleLists \cup {<<>>}
  /\ results \in {0} \cup Sets /\ held \in {0} \cup Sets
  /\ members \in [Sets -> SUBSET Hits]
  /\ \A c \in Conns : /\ detect[c].at \in {"idle", "hit", "adding", "storing"}
                      /\ detect[c].hit \in Hits \cup {NoHit}
                      /\ detect[c].set \in {0} \cup Sets
  /\ owed \subseteq Hits
  /\ spanned \in BOOLEAN

RuleInit ==
  /\ rules = <<>> /\ fetched = <<>>
  /\ results = 0 /\ held = 0
  /\ members = [s \in Sets |-> {}]
  /\ detect = [c \in Conns |-> NotDetecting]
  /\ owed = {}
  /\ spanned = FALSE

-----------------------------------------------------------------------------
(* UpdateRule.                                                             *)

\* Mutant: only the ids are compared.
SameRuleIds(old, new) ==
  Len(old) = Len(new) /\ \A n \in DOMAIN old : old[n].id = new[n].id

SameRuleList(old, new) ==
  /\ Len(old) = Len(new)
  /\ \A n \in DOMAIN old : old[n].id = new[n].id /\ old[n].pattern = new[n].pattern

\* An empty list removes the entry, an equal one is not published again.
UpdateRule(list) ==
  /\ fetched' = list
  /\ rules' = IF list = <<>> THEN <<>>
              ELSE IF rules # <<>> /\ SameRuleList(rules, list) THEN rules
              ELSE list
  /\ UNCHANGED <<results, members, detect, held, owed, spanned>>

-----------------------------------------------------------------------------
(* Detect.                                                                 *)

FirstHit(list, d) == Min({n \in DOMAIN list : d \in Matches[list[n].pattern]})
Hit(list, d) == \E n \in DOMAIN list : d \in Matches[list[n].pattern]

\* The published list is matched in order; a hit of a local rule or no hit
\* records nothing.
Match(c, u, d) ==
  /\ detect[c].at = "idle" /\ Hit(rules, d)
  /\ rules[FirstHit(rules, d)].id # LocalId
  /\ detect' = [detect EXCEPT ![c] =
       [at |-> "hit", hit |-> <<u, rules[FirstHit(rules, d)].id>>, set |-> 0]]
  /\ UNCHANGED <<rules, fetched, results, members, held, owed, spanned>>

InUse == {results, held} \cup {detect[c].set : c \in Conns}
FreshSet == CHOOSE s \in Sets \ InUse : TRUE

\* A set nobody refers to any more is garbage.
Alive(m) == [s \in Sets |-> IF s \in InUse' THEN m[s] ELSE {}]

Completed(c) ==
  /\ detect' = [detect EXCEPT ![c] = NotDetecting]
  /\ owed' = owed \cup {detect[c].hit}

\* Mutant: the new set is stored whatever is there.
LoadOrStoreBlindly(c) ==
  /\ detect[c].at = "hit"
  /\ results' = FreshSet
  /\ members' = [members EXCEPT ![FreshSet] = {detect[c].hit}]
  /\ Completed(c)
  /\ UNCHANGED <<rules, fetched, held, spanned>>

\* LoadOrStore of a set with the hit: it is stored, or the one there is kept.
LoadOrStore(c) ==
  /\ detect[c].at = "hit"
  /\ \/ /\ results = 0
        /\ results' = FreshSet
        /\ members' = [members EXCEPT ![FreshSet] = {detect[c].hit}]
        /\ Completed(c)
     \/ /\ results # 0
        /\ detect' = [detect EXCEPT ![c] =
             [at |-> "adding", hit |-> detect[c].hit, set |-> results]]
        /\ UNCHANGED <<results, members, owed>>
  /\ UNCHANGED <<rules, fetched, held, spanned>>

\* resultSet.Add: only a new member is stored; a member is on record already.
AddHit(c) ==
  LET s == detect[c].set
  IN  /\ detect[c].at = "adding"
      /\ IF detect[c].hit \in members[s]
           THEN detect' = [detect EXCEPT ![c] = NotDetecting]
           ELSE detect' = [detect EXCEPT ![c] =
                  [at |-> "storing", hit |-> detect[c].hit, set |-> s]]
      /\ UNCHANGED <<rules, fetched, results, held, owed, spanned>>
      /\ members' = Alive([members EXCEPT ![s] = @ \cup {detect[c].hit}])

\* Store publishes the set again, whatever is there by now.
StoreSet(c) ==
  /\ detect[c].at = "storing"
  /\ results' = detect[c].set
  /\ Completed(c)
  /\ UNCHANGED <<rules, fetched, held, spanned>>
  /\ members' = Alive(members)

-----------------------------------------------------------------------------
(* The user monitor.                                                       *)

\* GetDetectResult: LoadAndDelete ...
TakeResults ==
  /\ held = 0 /\ results # 0
  /\ held' = results
  /\ results' = 0
  /\ spanned' = (spanned \/ \E c \in Conns : detect[c].at \in {"adding", "storing"})
  /\ UNCHANGED <<rules, fetched, members, detect, owed>>

\* ... then the set's lock while it is read.  Whether ReportIllegal
\* succeeds, the hits are gone.
ReadResults ==
  /\ held # 0
  /\ owed' = owed \ members[held]
  /\ held' = 0
  /\ UNCHANGED <<rules, fetched, results, detect, spanned>>
  /\ members' = Alive(members)

RuleNext ==
  \/ \E l \in RuleLists \cup {<<>>} : UpdateRule(l)
  \/ \E c \in Conns, u \in Uids, d \in Dests : Match(c, u, d)
  \/ \E c \in Conns : LoadOrStore(c) \/ AddHit(c) \/ StoreSet(c)
  \/ TakeResults
  \/ ReadResults

RuleSpec == RuleInit /\ [][RuleNext]_ruleVars

-----------------------------------------------------------------------------
(* Connections match against the list the panel sent last, also after the  *)
(* shortcuts UpdateRule takes for empty and unchanged lists.               *)
RulesAreCurrent == rules = fetched

\* The hits that will be in a report: of the published set, the one being
\* read, and those about to be published again.
Kept ==
  LET reached == {results, held} \cup
                 {detect[c].set : c \in {d \in Conns : detect[d].at = "storing"}}
  IN  UNION {members[s] : s \in reached \ {0}}

(* Concurrent Detects and collections between them lose no hit: a hit can  *)
(* only get lost when a collection fell within a Detect.                   *)
QuietCollectionsLoseNothing == spanned \/ owed \subseteq Kept

-----------------------------------------------------------------------------
(* What the two rest on.                                                   *)

\* A connection points to a result set while it adds to it and stores it.
DetectInv ==
  /\ DOMAIN detect = Conns
  /\ \A c \in Conns :
       \/ detect[c].at \in {"idle", "hit"} /\ detect[c].set = 0
       \/ detect[c].at \in {"adding", "storing"} /\ detect[c].set \in Sets

\* The hits in the published set and in the one being read.
Published == UNION {members[s] : s \in {results, held} \ {0}}

\* As long as no collection fell within a Detect, every Detect under way
\* works on the published set, so that storing it again changes nothing.
ResultInv ==
  \/ spanned
  \/ /\ owed \subseteq Published
     /\ \A c \in Conns : detect[c].at \in {"adding", "storing"} => detect[c].set = results
     /\ \A c \in Conns : detect[c].at = "storing" => detect[c].hit \in members[detect[c].set]

RuleInv ==
  /\ rules = fetched /\ fetched \in RuleLists \cup {<<>>}
  /\ results \in {0} \cup Sets /\ held \in {0} \cup Sets
  /\ DOMAIN members = Sets
  /\ DetectInv
  /\ ResultInv
=============================================================================
