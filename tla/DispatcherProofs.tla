-------------------------- MODULE DispatcherProofs --------------------------
(***************************************************************************)
(* Proofs about what the dispatcher does with a connection: the pace of its*)
(* transfers and the two monitors that set it (SpeedControl with           *)
(* AutoSpeedLimit and RateWait), and the sniffer's cache and the handover  *)
(* to direct copying (DirectDispatch).  The two specifications share no    *)
(* state; each is proved by itself.                                        *)
(***************************************************************************)
EXTENDS SpeedControl, DirectDispatch, SequenceTheorems, TLAPS

-----------------------------------------------------------------------------
(* SpeedControl, for any records of the user, configuration, number of     *)
(* transfers and burst sizes: first the transfers, then the two monitors,  *)
(* then all together.                                                      *)

(* waitRateLimit splits what is left into what it asks for and the rest.   *)
LEMMA ChunkFacts ==
  ASSUME NEW left \in Nat, NEW seen \in Nat
  PROVE  LET c == Chunk(left, seen)
         IN  c.pay \in 0..left /\ c.rest \in 0..left /\ c.pay + c.rest = left
BY DEF Chunk, Smaller

(* A step of a transfer, or a new burst, loses no byte of the bill.        *)
LEMMA RateStep ==
  ASSUME RateInv,
         \/ \E w \in Writers, n \in 0..MaxLen : Begin(w, n)
         \/ \E w \in Writers : Granted(w) \/ Exceeds(w) \/ Cancel(w) \/ Return(w)
         \/ \E b \in Bursts : SetBurst(b)
  PROVE  RateInv'
<1> DEFINE Sound(o) == /\ o \in [at: At, len: 0..MaxLen, left: 0..MaxLen,
                                 seen: Bursts \cup {0}, paid: 0..MaxLen]
                       /\ o.paid + o.left = o.len
                       /\ o.at = "done" => o.left = 0
                       /\ o.at = "waiting" => o.seen > 0
<1>0. ASSUME NEW w \in Writers, NEW o, Sound(o), op' = [op EXCEPT ![w] = o], UNCHANGED burst
      PROVE  RateInv'
  BY <1>0 DEF RateInv, RateTypeOK
<1>1. ASSUME NEW w \in Writers PROVE Sound(op[w])
  BY DEF RateInv, RateTypeOK
<1>2. ASSUME NEW w \in Writers, NEW n \in 0..MaxLen, Begin(w, n) PROVE RateInv'
  <2> DEFINE o == [at |-> IF n = 0 THEN "done" ELSE "waiting", len |-> n, left |-> n,
                   seen |-> IF n = 0 THEN 0 ELSE burst, paid |-> 0]
  <2>1. op' = [op EXCEPT ![w] = o] /\ UNCHANGED burst
    BY <1>2 DEF Begin
  <2>2. Sound(o)
    BY BurstsPositive DEF RateInv, RateTypeOK, At
  <2> HIDE DEF o, Sound
  <2> QED
    BY Zenon, <1>0, <2>1, <2>2
<1>3. ASSUME NEW w \in Writers, Granted(w) PROVE RateInv'
  <2> DEFINE c == Chunk(op[w].left, op[w].seen)
             p == op[w].paid + c.pay
             o == Moved(op[w], IF c.rest = 0 THEN "done" ELSE "waiting", c.rest, p)
  <2>1. op' = [op EXCEPT ![w] = o] /\ UNCHANGED burst /\ op[w].at = "waiting"
    BY Zenon, <1>3 DEF Granted
  <2>2. /\ op[w].left \in 0..MaxLen /\ op[w].paid \in 0..MaxLen /\ op[w].len \in 0..MaxLen
        /\ op[w].seen \in Bursts \cup {0} /\ op[w].seen > 0
        /\ op[w].paid + op[w].left = op[w].len
    BY <1>1, <2>1
  <2>3. op[w].left \in Nat /\ op[w].seen \in Nat
    <3>1. \A b \in Bursts : b \in Nat
      BY BurstsPositive
    <3>2. op[w].seen \in Nat
      BY <2>2, <3>1
    <3>3. op[w].left \in Nat
      BY <2>2, BurstsPositive
    <3> QED
      BY <3>2, <3>3
  <2>4. c.pay \in 0..op[w].left /\ c.rest \in 0..op[w].left /\ c.pay + c.rest = op[w].left
    BY Zenon, <2>3, ChunkFacts
  <2> HIDE DEF c
  <2>5. p \in 0..MaxLen /\ c.rest \in 0..MaxLen /\ p + c.rest = op[w].len
    BY <2>2, <2>4, BurstsPositive
  <2> HIDE DEF p
  <2>6. Sound(o)
    BY <2>2, <2>5 DEF Moved, At
  <2> HIDE DEF o, Sound
  <2> QED
    BY Zenon, <1>0, <2>1, <2>6
<1>4. ASSUME NEW w \in Writers, NEW a \in {"failed", "cancelled"},
             op' = [op EXCEPT ![w] = Moved(@, a, @.left, @.paid)], UNCHANGED burst
      PROVE  RateInv'
  <2> DEFINE o == Moved(op[w], a, op[w].left, op[w].paid)
  <2>1. Sound(o)
    BY <1>1 DEF Moved, At
  <2>2. op' = [op EXCEPT ![w] = o]
    BY Zenon, <1>4
  <2> HIDE DEF o, Sound
  <2> QED
    BY Zenon, <1>0, <1>4, <2>1, <2>2
<1>5. ASSUME NEW w \in Writers, Exceeds(w) \/ Cancel(w) PROVE RateInv'
  BY <1>4, <1>5 DEF Exceeds, Cancel
<1>6. ASSUME NEW w \in Writers, Return(w) PROVE RateInv'
  <2>1. Sound(Idle)
    BY BurstsPositive DEF Idle, At
  <2> HIDE DEF Sound
  <2> QED
    BY Zenon, <1>0, <1>6, <2>1 DEF Return
<1>7. ASSUME NEW b \in Bursts, SetBurst(b) PROVE RateInv'
  BY <1>7 DEF SetBurst, RateInv, RateTypeOK
<1> QED
  BY Zenon, <1>2, <1>3, <1>5, <1>6, <1>7

(* The monitors' invariant holds before the first period.                  *)
LEMMA SpeedInvInit == SpeedInit => SpeedInv
<1> SUFFICES ASSUME SpeedInit PROVE SpeedInv
  OBVIOUS
<1> USE ConfigAssumption, NoneIsNothing
<1>1. SpeedTypeOK
  <2>1. crossed \in BOOLEAN
    BY Zenon DEF SpeedInit
  <2>2. speed \in Limits
    BY DEF SpeedInit, Limits
  <2> QED
    BY <2>1, <2>2 DEF SpeedInit, SpeedTypeOK
<1>2. listed \in Recs /\ listed # None
  BY DEF SpeedInit
<1>3. speed = Policy
  BY <1>2 DEF SpeedInit, Policy
<1> QED
  BY <1>1, <1>3 DEF SpeedInit, SpeedInv

(* Every run of a monitor keeps it.                                        *)
LEMMA SpeedStep == SpeedInv /\ SpeedNext => SpeedInv'
<1> SUFFICES ASSUME SpeedInv, SpeedNext PROVE SpeedInv'
  OBVIOUS
<1> USE ConfigAssumption, NoneIsNothing
<1>1. CASE Tick
  BY <1>1 DEF Tick, SpeedInv, SpeedTypeOK, Policy, history
<1>2. CASE FollowPanel
  <2>1. crossed' = (crossed \/ Pending) /\ nm' = "publish"
    BY ZenonT(40), <1>2 DEF FollowPanel
  <2>2. speed' \in Limits \cup {None}
    BY <1>2 DEF FollowPanel, SpeedInv, SpeedTypeOK, Limits
  <2>3. crossed' \in BOOLEAN
    BY <2>1, Zenon DEF SpeedInv, SpeedTypeOK
  <2>4. SpeedTypeOK'
    BY <1>2, <2>2, <2>3 DEF FollowPanel, SpeedInv, SpeedTypeOK
  <2>5. CASE Pending \/ crossed
    BY Zenon, <1>2, <2>1, <2>4, <2>5 DEF FollowPanel, SpeedInv
  <2>6. CASE ~Pending /\ ~crossed
    <3>1. um = "idle" /\ \A r \in Recs : limited[r] = None /\ warned[r] = 0
      BY <2>6 DEF Pending, SpeedInv, SpeedTypeOK
    <3> QED
      BY Zenon, <1>2, <2>1, <2>4, <2>6, <3>1 DEF FollowPanel, SpeedInv
  <2> QED
    BY <2>5, <2>6
<1>3. CASE PublishList
  BY <1>3 DEF PublishList, SpeedInv, SpeedTypeOK, Policy, history
<1>4. CASE Snapshot
  BY Zenon, <1>4 DEF Snapshot, SpeedInv, SpeedTypeOK, Policy
<1>5. CASE Release
  BY ZenonT(40), <1>5 DEF Release, Expired, SpeedInv, SpeedTypeOK, Policy, Limits, history
<1>6. CASE SampleOver
  BY <1>6 DEF SampleOver, Limit, UserMonitorDone, Min2, SpeedInv, SpeedTypeOK, Policy
<1>7. CASE SampleUnder
  BY <1>7 DEF SampleUnder, UserMonitorDone, SpeedInv, SpeedTypeOK, Policy
<1>8. CASE SampleNothing
  BY ZenonT(40), <1>8 DEF SampleNothing, UserMonitorDone, SpeedInv, SpeedTypeOK, Policy, history
<1>9. CASE Apply
  BY <1>9 DEF Apply, UserMonitorDone, SpeedInv, SpeedTypeOK, Policy, history
<1> QED
  BY Zenon, <1>1, <1>2, <1>3, <1>4, <1>5, <1>6, <1>7, <1>8, <1>9 DEF SpeedNext

(* Together: the first state ...                                           *)
LEMMA ControlInvInit == ControlInit => ControlInv
<1> SUFFICES ASSUME ControlInit PROVE ControlInv
  OBVIOUS
<1>1. SpeedInv
  BY SpeedInvInit DEF ControlInit
<1>2. RateInv
  BY BurstsPositive DEF ControlInit, RateInit, RateInv, RateTypeOK, Idle, At
<1> QED
  BY <1>1, <1>2 DEF ControlInit, ControlInv

(* ... and every step of the monitors, of the sweep and of the transfers.  *)
LEMMA ControlInvStep == ControlInv /\ [ControlNext]_controlVars => ControlInv'
<1> SUFFICES ASSUME ControlInv, [ControlNext]_controlVars PROVE ControlInv'
  OBVIOUS
<1>1. CASE Control
  <2>1. SpeedInv'
    BY <1>1, SpeedStep DEF Control, ControlInv
  <2>2. CASE speed' # speed /\ BucketFollows
    <3>1. CASE inHub /\ speed' \in Bursts
      <4>1. SetBurst(speed') /\ inHub' = inHub
        BY <2>2, <3>1 DEF BucketFollows
      <4>2. RateInv'
        BY Zenon, <3>1, <4>1, RateStep DEF ControlInv
      <4> QED
        BY <2>1, <4>1, <4>2 DEF ControlInv, SetBurst
    <3>2. CASE ~(inHub /\ speed' \in Bursts)
      <4>1. UNCHANGED rateVars /\ inHub' = FALSE
        BY Zenon, <2>2, <3>2 DEF BucketFollows
      <4> QED
        BY <2>1, <4>1 DEF ControlInv, rateVars, RateInv, RateTypeOK
    <3> QED
      BY <3>1, <3>2
  <2>3. CASE speed' = speed /\ UNCHANGED <<rateVars, inHub>>
    BY Zenon, <2>1, <2>3 DEF ControlInv, rateVars, RateInv, RateTypeOK
  <2>4. CASE speed' = speed /\ Sweeps
    BY <2>1, <2>4 DEF Sweeps, ControlInv, rateVars, RateInv, RateTypeOK
  <2> QED
    BY <1>1, <2>2, <2>3, <2>4 DEF Control
<1>2. CASE Transfer
  <2>1. UNCHANGED <<speedVars, inHub, burst>>
    BY Zenon, <1>2 DEF Transfer, Begin, Granted, Exceeds, Cancel, Return
  <2>2. RateInv'
    BY Zenon, <1>2, RateStep DEF Transfer, ControlInv
  <2>3. SpeedInv'
    BY <2>1 DEF speedVars, ControlInv, SpeedInv, SpeedTypeOK, Policy
  <2> QED
    BY Zenon, <2>1, <2>2, <2>3 DEF ControlInv, speedVars
<1>3. CASE UNCHANGED controlVars
  BY <1>3 DEF controlVars, speedVars, rateVars, ControlInv, SpeedInv, SpeedTypeOK,
              Policy, RateInv, RateTypeOK
<1> QED
  BY <1>1, <1>2, <1>3 DEF ControlNext

(* The inductive invariant of the two monitors, the bucket and the         *)
(* transfers (userInfoMonitor, nodeInfoMonitor, waitRateLimit).            *)
THEOREM ControlInvariant == ControlSpec => []ControlInv
BY ControlInvInit, ControlInvStep, PTL DEF ControlSpec

(* A transfer goes through only with a token for each of its bytes,        *)
(* however the monitors change the limit while it waits (waitRateLimit).   *)
THEOREM Paid == ControlSpec => []PaidInFull
<1>1. ControlInv => PaidInFull
  BY BurstsPositive DEF ControlInv, RateInv, RateTypeOK, PaidInFull
<1> QED
  BY <1>1, ControlInvariant, PTL

(* Between the monitors' runs the limiter, and the bucket of the open      *)
(* connections while the hub holds it, have the limit the user is meant to *)
(* have, unless the panel changed the user in the middle.                  *)
THEOREM PolicyFollowed == ControlSpec => []PolicyReachesTransfers
<1>1. ControlInv => PolicyReachesTransfers
  BY Zenon DEF ControlInv, SpeedInv, PolicyReachesTransfers, PolicyHolds, Quiet
<1> QED
  BY <1>1, ControlInvariant, PTL

(* Warnings count periods above the limit in a row (userInfoMonitor).      *)
THEOREM Warnings == ControlSpec => []WarnedInARow
<1>1. ControlInv => WarnedInARow
  BY DEF ControlInv, SpeedInv, WarnedInARow
<1> QED
  BY <1>1, ControlInvariant, PTL

-----------------------------------------------------------------------------
(* DirectDispatch, for any number of records and pieces.                   *)

\* What a read may return: a record, or the rest of the request record (0).
Rec == 0..Records

\* Concatenation, as an operator of which only the laws below are used.
Cat(a, b) == a \o b

(* Concatenation is associative.                                           *)
LEMMA CatAssoc ==
  ASSUME NEW S, NEW a \in Seq(S), NEW b \in Seq(S), NEW c \in Seq(S)
  PROVE  Cat(Cat(a, b), c) = Cat(a, Cat(b, c))
<1>1. (a \o b) \o c = a \o (b \o c)
  BY SMTT(40), Z3T(40), ConcatAssociative
<1> QED
  BY <1>1 DEF Cat

(* The laws of concatenation.                                              *)
LEMMA CatLaws ==
  ASSUME NEW S
  PROVE  /\ \A a, b, d \in Seq(S) : Cat(Cat(a, b), d) = Cat(a, Cat(b, d))
         /\ \A a, b \in Seq(S) : Cat(a, b) \in Seq(S)
         /\ \A a \in Seq(S) : Cat(a, <<>>) = a /\ Cat(<<>>, a) = a
<1>1. \A a, b \in Seq(S) : Cat(a, b) \in Seq(S)
  BY ConcatProperties DEF Cat
<1>2. \A a \in Seq(S) : Cat(a, <<>>) = a /\ Cat(<<>>, a) = a
  BY Zenon, ConcatEmptySeq DEF Cat
<1> QED
  BY <1>1, <1>2, CatAssoc

(* What the copies from one holder to the next leave of the whole.         *)
LEMMA Regroup ==
  ASSUME NEW S, NEW o \in Seq(S), NEW r \in Seq(S), NEW p \in Seq(S),
         NEW c \in Seq(S), NEW g \in Seq(S)
  PROVE  /\ Cat(Cat(Cat(Cat(o, r), p), Cat(c, g)), <<>>) = Cat(Cat(Cat(Cat(o, r), p), c), g)
         /\ Cat(Cat(Cat(Cat(o, r), Cat(p, c)), <<>>), g) = Cat(Cat(Cat(Cat(o, r), p), c), g)
         /\ Cat(Cat(Cat(Cat(o, Cat(r, p)), <<>>), c), g) = Cat(Cat(Cat(Cat(o, r), p), c), g)
         /\ Cat(Cat(Cat(Cat(Cat(o, r), <<>>), p), c), g) = Cat(Cat(Cat(Cat(o, r), p), c), g)
<1> DEFINE x == Cat(o, r)
           y == Cat(x, p)
           z == Cat(y, c)
<1>0. /\ \A a, b, d \in Seq(S) : Cat(Cat(a, b), d) = Cat(a, Cat(b, d))
      /\ \A a, b \in Seq(S) : Cat(a, b) \in Seq(S)
      /\ \A a \in Seq(S) : Cat(a, <<>>) = a /\ Cat(<<>>, a) = a
  BY Zenon, CatLaws
<1>1. x \in Seq(S) /\ Cat(c, g) \in Seq(S)
  BY <1>0
<1>2. y \in Seq(S)
  BY Zenon, <1>0, <1>1
<1>3. z \in Seq(S) /\ Cat(y, Cat(c, g)) \in Seq(S)
  BY Zenon, <1>0, <1>1, <1>2
<1> HIDE DEF x, y, z
<1>4. Cat(y, Cat(c, g)) = Cat(z, g)
  BY <1>0, <1>2 DEF z
<1>5. Cat(x, Cat(p, c)) = z
  BY <1>0, <1>1 DEF y, z
<1>6. Cat(o, Cat(r, p)) = y
  BY <1>0 DEF x, y
<1>7. Cat(x, <<>>) = x /\ Cat(y, <<>>) = y /\ Cat(z, <<>>) = z
  BY Zenon, <1>0, <1>1, <1>2, <1>3
<1>8. Cat(Cat(y, Cat(c, g)), <<>>) = Cat(y, Cat(c, g))
  BY <1>0, <1>3
<1>9. Cat(x, p) = y /\ Cat(y, c) = z /\ Cat(o, r) = x
  BY DEF x, y, z
<1> QED
  BY Zenon, <1>4, <1>5, <1>6, <1>7, <1>8, <1>9

(* One more record decoded is one more at the end of what was sent.        *)
LEMMA SentNext ==
  ASSUME head \in {0, 1}, NEW n \in Nat, n + 1 \in Rec
  PROVE  Sent(n + 1) = Sent(n) \o <<n + 1>>
<1> DEFINE s == Sent(n)
           t == <<n + 1>>
           u == Sent(n + 1)
<1>1. s \in Seq(Int) /\ Len(s) = n + 1 - head
  BY DEF Sent
<1>2. u \in Seq(Int) /\ Len(u) = n + 2 - head
  BY DEF Sent
<1>3. t \in Seq(Int) /\ Len(t) = 1 /\ t[1] = n + 1
  OBVIOUS
<1>4. /\ s \o t \in Seq(Int) /\ Len(s \o t) = Len(s) + Len(t)
      /\ \A i \in 1..Len(s) + Len(t) :
           (s \o t)[i] = IF i <= Len(s) THEN s[i] ELSE t[i - Len(s)]
  BY Zenon, <1>1, <1>3, ConcatProperties
<1>5. ASSUME NEW i \in 1..Len(u) PROVE u[i] = (s \o t)[i]
  <2>1. u[i] = i - 1 + head
    BY <1>2 DEF Sent
  <2>2. CASE i <= Len(s)
    BY <1>1, <1>2, <1>3, <1>4, <2>1, <2>2 DEF Sent
  <2>3. CASE ~(i <= Len(s))
    <3>1. i = Len(s) + 1
      BY <1>1, <1>2, <2>3
    <3> HIDE DEF s, t, u
    <3>2. Len(s) \in Nat /\ i \in 1..Len(s) + Len(t) /\ i - Len(s) = 1
      BY <1>1, <1>3, <3>1
    <3>3. (s \o t)[i] = t[1]
      BY Zenon, <1>4, <2>3, <3>2
    <3> QED
      BY <1>1, <1>3, <2>1, <3>1, <3>3
  <2> QED
    BY Zenon, <2>2, <2>3
<1>6. Len(u) = Len(s \o t)
  BY <1>1, <1>2, <1>3, <1>4
<1> HIDE DEF s, t, u
<1>7. u = s \o t
  BY Zenon, <1>2, <1>4, <1>5, <1>6, SeqEqual
<1> QED
  BY <1>7 DEF s, t, u

\* Sent, of a connection whose first record is h.
Line(h, n) == [i \in 1..(n + 1 - h) |-> i - 1 + h]

(* What comes first in all that was decoded is the beginning of what the   *)
(* client sends.                                                           *)
LEMMA PrefixInOrder ==
  ASSUME NEW h \in {0, 1}, NEW n \in Rec, Records \in Nat,
         NEW first \in Seq(Rec), NEW rest \in Seq(Rec), first \o rest = Line(h, n)
  PROVE  first = SubSeq(Line(h, Records), 1, Len(first))
<1> DEFINE s == Line(h, n)
           u == Line(h, Records)
           v == SubSeq(u, 1, Len(first))
<1>0. n \in Nat /\ n <= Records
  BY DEF Rec
<1>1. s \in Seq(Int) /\ Len(s) = n + 1 - h
  BY <1>0 DEF Line
<1>a. \A i \in 1..Len(s) : s[i] = i - 1 + h
  BY <1>0, <1>1 DEF Line
<1>2. Len(first) \in Nat /\ Len(rest) \in Nat
  BY Zenon, LenProperties
<1>3. /\ Len(s) = Len(first) + Len(rest)
      /\ \A i \in 1..Len(first) : s[i] = first[i]
  BY <1>2, ConcatProperties
<1>4. \A i \in 1..Len(first) : first[i] = u[i] /\ u[i] \in Int
  <2> SUFFICES ASSUME NEW i \in 1..Len(first)
               PROVE  first[i] = u[i] /\ u[i] \in Int
    OBVIOUS
  <2> HIDE DEF s
  <2>0. Len(s) = n + 1 - h /\ Len(s) = Len(first) + Len(rest)
    BY Zenon, <1>1, <1>3
  <2>1. i \in 1..Len(s) /\ i \in 1..(Records + 1 - h)
    BY <1>0, <1>2, <2>0
  <2>2. first[i] = i - 1 + h
    BY Zenon, <1>a, <1>3, <2>1
  <2>3. u[i] = i - 1 + h
    BY Zenon, <2>1 DEF Line
  <2> HIDE DEF u
  <2> QED
    BY <2>1, <2>2, <2>3
<1>5. /\ v \in Seq(Int)
      /\ Len(v) = Len(first)
      /\ \A i \in 1..Len(first) : v[i] = u[i]
  <2> HIDE DEF u
  <2>1. /\ SubSeq(u, 1, Len(first)) \in Seq(Int)
        /\ Len(SubSeq(u, 1, Len(first))) = IF 1 <= Len(first) THEN Len(first) - 1 + 1 ELSE 0
        /\ \A i \in 1 .. Len(first) - 1 + 1 : SubSeq(u, 1, Len(first))[i] = u[1 + i - 1]
    BY <1>2, <1>4, SubSeqProperties
  <2>2. Len(first) - 1 + 1 = Len(first) /\ \A i \in 1..Len(first) : 1 + i - 1 = i
    BY <1>2
  <2> QED
    BY <1>2, <2>1, <2>2
<1>6. first \in Seq(Int)
  BY SeqMonotonic DEF Rec
<1> HIDE DEF u, v
<1>7. first = v
  BY Zenon, <1>4, <1>5, <1>6, SeqEqual
<1> QED
  BY <1>7 DEF u, v

(* All that was decoded and not dropped: what the outbound has, then the   *)
(* holders in the order in which the copies empty them.                    *)
Whole(o, r, p, c, q) == Cat(Cat(Cat(Cat(o, r), p), c), q)

(* Held is that concatenation.                                             *)
LEMMA HeldIsWhole == Held = Whole(out, recache, pipe, cache, pending)
  BY Zenon DEF Held, Whole, Cat

(* What is moved one place ahead stays in its order.                       *)
LEMMA MovedAhead ==
  ASSUME NEW S, NEW o \in Seq(S), NEW r \in Seq(S), NEW p \in Seq(S),
         NEW c \in Seq(S), NEW q \in Seq(S)
  PROVE  /\ Whole(o, Cat(r, p), <<>>, c, q) = Whole(o, r, p, c, q)
         /\ Whole(Cat(o, r), <<>>, p, c, q) = Whole(o, r, p, c, q)
BY Regroup DEF Whole

(* ReadMultiBuffer returns what comes next after all that is held.         *)
LEMMA ReadNext ==
  ASSUME StreamTypeOK, Held = Sent(decoded), head' = head,
         NEW got \in Reads, ReadRecord(got)
  PROVE  /\ got \in Seq(Rec) /\ pending' = <<>> /\ decoded' \in Rec
         /\ Whole(out, recache, pipe, cache, got) = Sent(decoded)'
<1> DEFINE x == Cat(Cat(Cat(out, recache), pipe), cache)
<1>0. Held = Cat(x, pending)
  BY HeldIsWhole DEF Whole
<1>1. got \in Seq(Rec)
  <2>1. PICK i \in Rec : got = <<i>>
    BY DEF Reads, Rec
  <2>2. <<i>> \in Seq(Rec)
    OBVIOUS
  <2> QED
    BY Zenon, <2>1, <2>2
<1>2. x \in Seq(Rec)
  <2>1. out \in Seq(Rec) /\ recache \in Seq(Rec) /\ pipe \in Seq(Rec) /\ cache \in Seq(Rec)
    BY DEF StreamTypeOK, Rec
  <2>2. \A a, b \in Seq(Rec) : Cat(a, b) \in Seq(Rec)
    BY CatLaws
  <2> QED
    BY Zenon, <2>1, <2>2
<1> HIDE DEF x
<1>3. CASE pending # <<>>
  <2>1. got = pending /\ pending' = <<>> /\ decoded' = decoded
    BY <1>3 DEF ReadRecord
  <2>2. Sent(decoded)' = Sent(decoded)
    BY Zenon, <2>1 DEF Sent
  <2> QED
    BY Zenon, <1>0, <1>1, <2>1, <2>2 DEF x, Whole, StreamTypeOK, Rec
<1>4. CASE pending = <<>>
  <2>1. got = <<decoded + 1>> /\ pending' = <<>> /\ decoded' = decoded + 1
    BY Zenon, <1>4 DEF ReadRecord, ReadWire
  <2>2. decoded \in Nat /\ decoded + 1 \in Rec
    BY SMTT(40), Z3T(40), <2>1, StreamAssumption DEF Reads, Rec, StreamTypeOK
  <2>3. Sent(decoded)' = Sent(decoded + 1)
    BY <2>1 DEF Sent
  <2>4. Sent(decoded + 1) = Cat(Sent(decoded), <<decoded + 1>>)
    BY ZenonT(40), <2>2, SentNext DEF Cat, StreamTypeOK
  <2>5. Cat(x, <<>>) = x
    BY Zenon, <1>2, CatLaws
  <2> QED
    BY Zenon, <1>0, <1>1, <1>4, <2>1, <2>2, <2>3, <2>4, <2>5 DEF x, Whole
<1> QED
  BY <1>3, <1>4

(* The records move between the holders only as HoldersInv allows.         *)
LEMMA HoldersStep ==
  ASSUME StreamInv, [StreamNext]_streamVars
  PROVE  HoldersInv'
<1> USE DEF StreamInv, HoldersInv, given, reader, fallback
<1>1. CASE Arrive
  BY Zenon, <1>1 DEF Arrive
<1>2. CASE Cache
  BY ZenonT(40), <1>2 DEF Cache, ReadRecord, ReadWire, Reads
<1>3. CASE CacheTimeout
  BY Zenon, <1>3 DEF CacheTimeout, ReadCut
<1>4. CASE SniffingTimeout
  BY Zenon, <1>4 DEF SniffingTimeout
<1>5. CASE SelectFails
  BY Zenon, <1>5 DEF SelectFails
<1>6. CASE OpenDirect
  BY Zenon, <1>6 DEF OpenDirect
<1>7. CASE Adopt
  BY Zenon, <1>7 DEF Adopt
<1>8. CASE FallBack
  BY Zenon, <1>8 DEF FallBack
<1>9. CASE OwnerReads
  BY Zenon, <1>9 DEF OwnerReads, ReadWire
<1>10. CASE CopyReplay
  BY Zenon, <1>10 DEF CopyReplay, Write
<1>11. CASE CopyRecord
  BY Zenon, <1>11 DEF CopyRecord, Write, ReadRecord, ReadWire, Reads
<1>12. CASE CopyFails
  BY Zenon, <1>12 DEF CopyFails
<1>13. CASE DispatchCache
  BY <1>13 DEF DispatchCache
<1>14. CASE DispatchSniffed
  BY Zenon, <1>14 DEF DispatchSniffed
<1>15. CASE RoutedDispatch
  BY Zenon, <1>15 DEF RoutedDispatch
<1>16. CASE DispatchFails
  BY Zenon, <1>16 DEF DispatchFails
<1>17. CASE HandlerReads
  BY Zenon, <1>17 DEF HandlerReads
<1>18. CASE UNCHANGED streamVars
  BY Zenon, <1>18 DEF streamVars
<1> QED
  BY Zenon, <1>1, <1>2, <1>3, <1>4, <1>5, <1>6, <1>7, <1>8, <1>9, <1>10, <1>11,
     <1>12, <1>13,
     <1>14, <1>15, <1>16, <1>17, <1>18 DEF StreamNext, Inbound, Dispatch

(* A whole record is read from the socket without losing the boundary.     *)
LEMMA ReadWireAligned ==
  ASSUME StreamTypeOK, arrived' = arrived, NEW got, ReadWire(got)
  PROVE  Aligned' /\ taken' \in 0..arrived' /\ part' \in 0..(Units - 1)
<1>1. Units \in Nat \ {0} /\ decoded \in Nat /\ Units * decoded \in Nat
  BY StreamAssumption DEF StreamTypeOK
<1>2. Units * (decoded + 1) = Units * decoded + Units
  BY <1>1
<1> DEFINE before == Units * decoded
           after == Units * (decoded + 1)
<1>3. taken = before + part /\ taken' = taken + Units - part /\ part' = 0 /\ decoded' = decoded + 1
  BY Zenon DEF ReadWire, Aligned
<1>4. taken \in Nat /\ part \in Nat /\ before \in Nat /\ after = before + Units
  BY <1>1, <1>2, StreamAssumption DEF StreamTypeOK
<1>5. Aligned' <=> taken' = Units * decoded' + part'
  BY DEF Aligned
<1>6. Units * decoded' + part' = after + 0
  BY Zenon, <1>3
<1>7. arrived - taken + part >= Units /\ arrived \in Int
  BY SMTT(40), Z3T(40) DEF ReadWire, WireReady, StreamTypeOK
<1> HIDE DEF before, after
<1> QED
  BY <1>1, <1>3, <1>4, <1>5, <1>6, <1>7

(* What is held goes on being what was decoded, and boundaries are kept.   *)
LEMMA LosslessStep ==
  ASSUME StreamInv, [StreamNext]_streamVars
  PROVE  Lossless'
<1> SUFFICES ASSUME phase' # "closed" PROVE Held' = Sent(decoded)' /\ (retains => Aligned)'
  BY Zenon DEF Lossless
<1> USE DEF StreamInv
<1>0. phase # "closed"
  BY Zenon DEF StreamNext, Inbound, Dispatch, Arrive, Cache, CacheTimeout,
     SniffingTimeout,
         SelectFails, OpenDirect, Adopt, FallBack, OwnerReads, CopyReplay, CopyRecord,
         CopyFails, DispatchCache, DispatchSniffed, RoutedDispatch, DispatchFails,
         HandlerReads, streamVars
<1>H. Held = Sent(decoded) /\ (retains => Aligned) /\ HoldersInv /\ StreamTypeOK
  BY <1>0 DEF Lossless
<1>S. /\ out \in Seq(Rec) /\ recache \in Seq(Rec) /\ pipe \in Seq(Rec)
      /\ cache \in Seq(Rec) /\ pending \in Seq(Rec)
  <2>1. <<0>> \in Seq(Rec) /\ <<>> \in Seq(Rec)
    BY StreamAssumption DEF Rec
  <2> QED
    BY Zenon, <2>1 DEF StreamTypeOK, Rec
<1>E. /\ Cat(cache, <<>>) = cache /\ Cat(<<>>, cache) = cache /\ Cat(<<>>, pending) = pending
      /\ Cat(out, <<>>) = out /\ Cat(<<>>, <<>>) = <<>>
  <2>1. \A a \in Seq(Rec) : Cat(a, <<>>) = a /\ Cat(<<>>, a) = a
    BY CatLaws
  <2>2. <<>> \in Seq(Rec)
    OBVIOUS
  <2> QED
    BY Zenon, <1>S, <2>1, <2>2
<1>W. Held' = Whole(out', recache', pipe', cache', pending')
  BY HeldIsWhole DEF Held, Whole, Cat
<1>1. CASE Arrive \/ SniffingTimeout \/ OpenDirect \/ FallBack
           \/ DispatchSniffed \/ RoutedDispatch \/ UNCHANGED streamVars
  <2>1. UNCHANGED <<out, recache, pipe, cache, pending, head, decoded, retains, taken, part>>
    BY Zenon, <1>1 DEF Arrive, SniffingTimeout, OpenDirect, FallBack,
       DispatchSniffed,
                RoutedDispatch, streamVars, given, reader, fallback
  <2> QED
    BY Zenon, <1>H, <2>1 DEF Held, Sent, Aligned
<1>2. CASE Cache
  <2>1. PICK got \in Reads : ReadRecord(got) /\ cache' = cache \o got
    BY Zenon, <1>2 DEF Cache
  <2>2. UNCHANGED <<out, recache, pipe, head, retains, arrived>>
    BY Zenon, <1>2 DEF Cache, given, fallback
  <2>3. /\ got \in Seq(Rec) /\ pending' = <<>>
        /\ Whole(out, recache, pipe, cache, got) = Sent(decoded)'
    BY <1>H, <2>1, <2>2, ReadNext
  <2>4. Held' = Whole(out, recache, pipe, Cat(cache, got), <<>>)
    BY Zenon, <1>W, <2>1, <2>2, <2>3 DEF Cat
  <2>5. Held' = Whole(out, recache, pipe, cache, got)
    BY SMTT(40), <1>S, <2>3, <2>4, Regroup DEF Whole
  <2>6. (retains => Aligned)'
    BY Zenon, <1>H, <2>1, <2>2, ReadWireAligned DEF ReadRecord, Aligned
  <2> QED
    BY <2>3, <2>5, <2>6
<1>3. CASE CacheTimeout
  <2>1. UNCHANGED <<out, recache, pipe, cache, pending, head, decoded, retains, arrived>>
    BY Zenon, <1>3 DEF CacheTimeout, given, reader, fallback, ReadCut
  <2>2. Held' = Sent(decoded)'
    BY <1>H, <2>1 DEF Held, Sent
  <2>3. ASSUME retains PROVE Aligned'
    <3>1. CASE late
      BY Zenon, <1>3, <1>H, <2>3, <3>1 DEF CacheTimeout, reader, Aligned
    <3>2. CASE ~late
      <4>1. taken' = arrived /\ part' = part + arrived - taken
        BY ZenonT(40), <1>3, <2>3, <3>2 DEF CacheTimeout, ReadCut
      <4>2. taken = Units * decoded + part /\ Units * decoded \in Int
        BY <1>H, <2>3, StreamAssumption DEF Aligned, StreamTypeOK
      <4>3. taken \in Int /\ part \in Int /\ arrived \in Int
        BY <1>H, StreamAssumption DEF StreamTypeOK
      <4> QED
        BY <2>1, <4>1, <4>2, <4>3 DEF Aligned
    <3> QED
      BY Zenon, <3>1, <3>2
  <2> QED
    BY Zenon, <2>1, <2>2, <2>3
<1>4. CASE Adopt
  <2>1. UNCHANGED <<recache, pipe, head, decoded, retains, taken, part>>
    BY Zenon, <1>4 DEF Adopt, given, fallback
  <2>2. out = <<>> /\ recache = <<>> /\ pipe = <<>> /\ (cache # <<>> => pending = <<>>)
    BY Zenon, <1>4, <1>H DEF Adopt, HoldersInv
  <2>3. Held = Cat(cache, pending)
    BY Zenon, <1>E, <2>2, HeldIsWhole DEF Whole
  <2>4. Held = out' /\ cache' = <<>> /\ pending' = <<>>
    BY Zenon, <1>4, <1>E, <2>2, <2>3 DEF Adopt
  <2>5. out' \in Seq(Rec)
    BY Zenon, <1>4, <1>S DEF Adopt
  <2>6. Cat(out', <<>>) = out'
    BY Zenon, <2>5, CatLaws
  <2>7. Held' = out'
    BY Zenon, <1>W, <2>1, <2>2, <2>4, <2>6 DEF Whole
  <2> QED
    BY Zenon, <1>H, <2>1, <2>4, <2>7 DEF Sent, Aligned
<1>5. CASE OwnerReads
  <2>1. PICK got \in Reads : ReadWire(got) /\ out' = out \o got
    BY Zenon, <1>5 DEF OwnerReads
  <2>2. UNCHANGED <<recache, pipe, cache, pending, head, retains, arrived>>
    BY Zenon, <1>5 DEF OwnerReads, given, fallback
  <2>3. recache = <<>> /\ pipe = <<>> /\ cache = <<>> /\ pending = <<>>
    BY Zenon, <1>5, <1>H DEF OwnerReads, HoldersInv
  <2>4. ReadRecord(got)
    BY Zenon, <2>1, <2>2, <2>3 DEF ReadRecord
  <2>5. /\ got \in Seq(Rec)
        /\ Whole(out, recache, pipe, cache, got) = Sent(decoded)'
    BY Zenon, <1>H, <2>2, <2>4, ReadNext
  <2>6. Whole(out, recache, pipe, cache, got) = Cat(out, got)
    BY Zenon, <1>E, <2>3 DEF Whole
  <2>7. Cat(out, got) \in Seq(Rec)
    BY Zenon, <1>S, <2>5, CatLaws
  <2>8. Cat(Cat(out, got), <<>>) = Cat(out, got)
    BY Zenon, <2>7, CatLaws
  <2>9. Held' = Cat(out, got)
    BY Zenon, <1>W, <2>1, <2>2, <2>3, <2>8 DEF Whole, Cat
  <2>10. Aligned'
    BY Zenon, <1>H, <2>1, <2>2, ReadWireAligned
  <2> QED
    BY <2>5, <2>6, <2>9, <2>10
<1>6. CASE CopyReplay
  <2>1. UNCHANGED <<recache, pending, head, decoded, retains, taken, part>> /\ cache' = <<>>
    BY Zenon, <1>6 DEF CopyReplay, given, reader
  <2>2. CASE phase = "direct"
    <3>1. out' = Cat(out, cache) /\ pipe' = pipe /\ recache = <<>> /\ pipe = <<>>
      BY Zenon, <1>6, <1>H, <2>2 DEF CopyReplay, Write, HoldersInv, Cat
    <3>2. Cat(out, cache) \in Seq(Rec)
      BY <1>S, CatLaws
    <3>3. Cat(Cat(out, cache), <<>>) = Cat(out, cache)
      BY Zenon, <3>2, CatLaws
    <3>4. Held' = Held
      BY ZenonT(40), <1>E, <1>W, <2>1, <3>1, <3>3, HeldIsWhole DEF Whole
    <3> QED
      BY Zenon, <1>H, <2>1, <3>4 DEF Sent, Aligned
  <2>3. CASE phase # "direct"
    <3>1. pipe' = Cat(pipe, cache) /\ out' = out
      BY <1>6, <2>3 DEF CopyReplay, Write, Cat
    <3>2. Held' = Whole(out, recache, Cat(pipe, cache), <<>>, pending)
      BY ZenonT(40), <1>W, <2>1, <3>1
    <3>3. Held' = Held
      BY <1>S, <3>2, Regroup, HeldIsWhole DEF Whole
    <3> QED
      BY <1>H, <2>1, <3>3 DEF Sent, Aligned
  <2> QED
    BY Zenon, <2>2, <2>3
<1>7. CASE CopyRecord
  <2>1. PICK got \in Reads : ReadRecord(got) /\ Write(got)
    BY Zenon, <1>7 DEF CopyRecord
  <2>2. UNCHANGED <<recache, cache, head, retains, arrived>> /\ cache = <<>>
    BY <1>7 DEF CopyRecord, given
  <2>3. /\ got \in Seq(Rec) /\ pending' = <<>>
        /\ Whole(out, recache, pipe, cache, got) = Sent(decoded)'
    BY Zenon, <1>H, <2>1, <2>2, ReadNext
  <2>4. ASSUME phase = "direct" PROVE Held' = Sent(decoded)'
    <3>1. out' = Cat(out, got) /\ pipe' = pipe /\ recache = <<>> /\ pipe = <<>>
      BY Zenon, <1>H, <2>1, <2>4 DEF Write, HoldersInv, Cat
    <3>2. Whole(out, recache, pipe, cache, got) = Cat(out, got)
      BY <1>E, <2>2, <3>1 DEF Whole
    <3>3. Cat(out, got) \in Seq(Rec)
      BY ZenonT(40), <1>S, <2>3, CatLaws
    <3>4. Cat(Cat(out, got), <<>>) = Cat(out, got)
      BY <3>3, CatLaws
    <3> QED
      BY ZenonT(40), <1>W, <2>2, <2>3, <3>1, <3>2, <3>4 DEF Whole
  <2>5. ASSUME phase # "direct" PROVE Held' = Sent(decoded)'
    <3>1. pipe' = Cat(pipe, got) /\ out' = out
      BY Zenon, <2>1, <2>5 DEF Write, Cat
    <3>2. Held' = Whole(out, recache, Cat(pipe, got), <<>>, <<>>)
      BY Zenon, <1>W, <2>2, <2>3, <3>1
    <3> DEFINE x == Cat(out, recache)
    <3>3. /\ \A a, b \in Seq(Rec) : Cat(a, b) \in Seq(Rec)
          /\ \A a, b, d \in Seq(Rec) : Cat(Cat(a, b), d) = Cat(a, Cat(b, d))
          /\ \A a \in Seq(Rec) : Cat(a, <<>>) = a
      BY Zenon, CatLaws
    <3>4. x \in Seq(Rec) /\ Cat(x, pipe) \in Seq(Rec)
      BY Zenon, <1>S, <3>3
    <3>5. Cat(Cat(x, pipe), got) \in Seq(Rec)
      BY ZenonT(40), <2>3, <3>3, <3>4
    <3> HIDE DEF x
    <3>6. Cat(x, Cat(pipe, got)) = Cat(Cat(x, pipe), got)
      BY SMTT(40), Z3T(40), <1>S, <2>3, <3>3, <3>4
    <3>7. /\ Cat(Cat(Cat(x, pipe), got), <<>>) = Cat(Cat(x, pipe), got)
          /\ Cat(Cat(x, pipe), <<>>) = Cat(x, pipe)
      BY Zenon, <3>3, <3>4, <3>5
    <3> QED
      BY Zenon, <2>2, <2>3, <3>2, <3>6, <3>7 DEF Whole, x
  <2>6. (retains => Aligned)'
    BY ZenonT(40), <1>H, <2>1, <2>2, ReadWireAligned DEF ReadRecord, Aligned
  <2> QED
    BY Zenon, <2>4, <2>5, <2>6
<1>8. CASE DispatchCache
  <2>1. /\ UNCHANGED <<out, cache, pending, head, decoded, retains, taken, part>>
        /\ recache' = Cat(recache, pipe) /\ pipe' = <<>>
    BY Zenon, <1>8 DEF DispatchCache, given, reader, Cat
  <2>2. Held' = Held
    <3>1. Whole(out, Cat(recache, pipe), <<>>, cache, pending)
            = Whole(out, recache, pipe, cache, pending)
      BY <1>S, MovedAhead
    <3> QED
      BY Zenon, <1>W, <2>1, <3>1, HeldIsWhole
  <2> QED
    BY <1>H, <2>1, <2>2 DEF Sent, Aligned
<1>9. CASE HandlerReads
  <2>1. UNCHANGED <<cache, pending, head, decoded, retains, taken, part>>
    BY Zenon, <1>9 DEF HandlerReads, given, reader
  <2>2. CASE recache # <<>>
    <3>1. out' = Cat(out, recache) /\ recache' = <<>> /\ pipe' = pipe
      BY Zenon, <1>9, <2>2 DEF HandlerReads, Cat
    <3>2. Held' = Held
      <4>1. Whole(Cat(out, recache), <<>>, pipe, cache, pending)
              = Whole(out, recache, pipe, cache, pending)
        BY <1>S, MovedAhead
      <4> QED
        BY Zenon, <1>W, <2>1, <3>1, <4>1, HeldIsWhole
    <3> QED
      BY <1>H, <2>1, <3>2 DEF Sent, Aligned
  <2>3. CASE recache = <<>>
    <3>1. out' = Cat(out, pipe) /\ pipe' = <<>> /\ recache' = <<>>
      BY <1>9, <2>3 DEF HandlerReads, Cat
    <3>2. Cat(out, pipe) \in Seq(Rec)
      BY ZenonT(40), <1>S, CatLaws
    <3>3. Cat(Cat(out, pipe), <<>>) = Cat(out, pipe)
      BY <3>2, CatLaws
    <3>4. Held' = Held
      BY Zenon, <1>E, <1>W, <2>1, <2>3, <3>1, <3>3, HeldIsWhole DEF Whole
    <3> QED
      BY <1>H, <2>1, <3>4 DEF Sent, Aligned
  <2> QED
    BY Zenon, <2>2, <2>3
<1>10. CASE SelectFails \/ CopyFails \/ DispatchFails
  BY ZenonT(40), <1>10 DEF SelectFails, CopyFails, DispatchFails
<1> QED
  BY ZenonT(40), <1>1, <1>2, <1>3, <1>4, <1>5, <1>6, <1>7, <1>8, <1>9, <1>10
     DEF StreamNext, Inbound, Dispatch

(* What is held, split at the outbound.                                    *)
LEMMA WholeSplits ==
  ASSUME NEW S, NEW o \in Seq(S), NEW r \in Seq(S), NEW p \in Seq(S),
         NEW c \in Seq(S), NEW q \in Seq(S)
  PROVE  /\ Cat(Cat(Cat(r, p), c), q) \in Seq(S)
         /\ Whole(o, r, p, c, q) = Cat(o, Cat(Cat(Cat(r, p), c), q))
<1>0. /\ \A a, b, d \in Seq(S) : Cat(Cat(a, b), d) = Cat(a, Cat(b, d))
      /\ \A a, b \in Seq(S) : Cat(a, b) \in Seq(S)
  BY Zenon, CatLaws
<1> DEFINE x == Cat(r, p)
           y == Cat(x, c)
<1>1. x \in Seq(S)
  BY Zenon, <1>0
<1>2. Cat(Cat(o, r), p) = Cat(o, x)
  BY <1>0
<1> HIDE DEF x
<1>3. y \in Seq(S)
  BY Zenon, <1>0, <1>1
<1>4. Cat(Cat(o, x), c) = Cat(o, y)
  BY <1>0, <1>1
<1> HIDE DEF y
<1>5. Cat(Cat(o, y), q) = Cat(o, Cat(y, q))
  BY <1>0, <1>3
<1>6. Cat(y, q) \in Seq(S)
  BY Zenon, <1>0, <1>3
<1> QED
  BY <1>2, <1>4, <1>5, <1>6 DEF Whole, x, y

(* What the outbound gets stays a prefix of what the client sent.          *)
LEMMA InOrderStep ==
  ASSUME StreamInv, [StreamNext]_streamVars, StreamTypeOK', Lossless'
  PROVE  InOrder'
<1>1. CASE phase' # "closed"
  <2>1. /\ out' \in Seq(Rec) /\ recache' \in Seq(Rec) /\ pipe' \in Seq(Rec)
        /\ cache' \in Seq(Rec) /\ pending' \in Seq(Rec)
    <3>1. <<0>> \in Seq(Rec) /\ <<>> \in Seq(Rec)
      BY StreamAssumption DEF Rec
    <3> QED
      BY Zenon, <3>1 DEF StreamTypeOK, Rec
  <2>2. Whole(out', recache', pipe', cache', pending') = Line(head', decoded')
    BY ZenonT(40), <1>1 DEF Lossless, Held, Whole, Cat, Sent, Line
  <2> DEFINE rest == Cat(Cat(Cat(recache', pipe'), cache'), pending')
  <2>3. rest \in Seq(Rec) /\ Cat(out', rest) = Line(head', decoded')
    BY <2>1, <2>2, WholeSplits
  <2>4. head' \in {0, 1} /\ decoded' \in Rec /\ Records \in Nat
    BY Zenon, StreamAssumption DEF StreamTypeOK, Rec
  <2>5. out' \o rest = Line(head', decoded')
    BY <2>3 DEF Cat
  <2> HIDE DEF rest
  <2>6. out' = SubSeq(Line(head', Records), 1, Len(out'))
    BY ZenonT(40), <2>1, <2>3, <2>4, <2>5, PrefixInOrder
  <2> QED
    BY <2>6 DEF InOrder, Sent, Line
<1>2. CASE phase' = "closed"
  <2>1. UNCHANGED <<out, head>>
    BY Zenon, <1>2 DEF StreamNext, Inbound, Dispatch, Arrive, Cache, CacheTimeout,
       SniffingTimeout,
         SelectFails, OpenDirect, Adopt, FallBack, OwnerReads, CopyReplay, CopyRecord,
         CopyFails, DispatchCache, DispatchSniffed, RoutedDispatch, DispatchFails,
         HandlerReads, streamVars, given
  <2> QED
    BY <2>1 DEF StreamInv, InOrder, Sent
<1> QED
  BY <1>1, <1>2

(* The counters stay within their bounds.                                  *)
LEMMA CountersStep ==
  ASSUME StreamTypeOK, [StreamNext]_streamVars
  PROVE  /\ arrived' \in 0..(Records * Units) /\ taken' \in 0..arrived'
         /\ part' \in 0..(Units - 1) /\ decoded' \in 0..Records
<1>0. /\ Records * Units \in Nat /\ Units \in Nat \ {0} /\ Records \in Nat
      /\ arrived \in 0..(Records * Units) /\ taken \in 0..arrived
      /\ part \in 0..(Units - 1) /\ decoded \in 0..Records
  BY StreamAssumption DEF StreamTypeOK
<1> DEFINE all == Records * Units
<1>1. CASE Arrive
  <2>1. arrived < all /\ arrived' = arrived + 1 /\ UNCHANGED <<taken, part, decoded>>
    BY <1>1 DEF Arrive, reader
  <2> HIDE DEF all
  <2> QED
    BY <1>0, <2>1 DEF all
<1>2. CASE Cache \/ CopyRecord \/ OwnerReads
  <2>1. PICK got \in Reads : ReadRecord(got) \/ ReadWire(got)
    BY Zenon, <1>2 DEF Cache, CopyRecord, OwnerReads
  <2>2. arrived' = arrived
    BY Zenon, <1>2 DEF Cache, CopyRecord, OwnerReads
  <2>3. CASE ReadWire(got)
    <3>1. Aligned' /\ taken' \in 0..arrived' /\ part' \in 0..(Units - 1)
      BY Zenon, <2>2, <2>3, ReadWireAligned
    <3>2. decoded' = decoded + 1 /\ got = <<decoded + 1>>
      BY Zenon, <2>3 DEF ReadWire
    <3>3. decoded + 1 \in 0..Records
      BY Zenon, <2>1, <3>2 DEF Reads
    <3> QED
      BY Zenon, <1>0, <2>2, <3>1, <3>2, <3>3
  <2>4. CASE UNCHANGED <<taken, part, decoded>>
    BY Zenon, <1>0, <2>2, <2>4
  <2> QED
    BY ZenonT(40), <2>1, <2>3, <2>4 DEF ReadRecord
<1>3. CASE CacheTimeout
  <2>1. UNCHANGED <<arrived, decoded>>
    BY Zenon, <1>3 DEF CacheTimeout, reader, ReadCut
  <2>2. CASE late
    BY Zenon, <1>0, <1>3, <2>1, <2>2 DEF CacheTimeout, reader
  <2>3. CASE ~late
    <3>1. /\ taken' = arrived
          /\ part' = (IF retains THEN part + arrived - taken ELSE 0)
          /\ ~(arrived - taken + part >= Units)
      BY <1>3, <2>3 DEF CacheTimeout, ReadCut, WireReady
    <3> QED
      BY <1>0, <2>1, <3>1
  <2> QED
    BY Zenon, <2>2, <2>3
<1>4. CASE UNCHANGED <<arrived, taken, part, decoded>>
  BY Zenon, <1>0, <1>4
<1> QED
  BY ZenonT(40), <1>1, <1>2, <1>3, <1>4 DEF StreamNext, Inbound, Dispatch, SniffingTimeout,
         SelectFails, OpenDirect, Adopt, FallBack, CopyReplay,
         CopyFails, DispatchCache, DispatchSniffed, RoutedDispatch, DispatchFails,
         HandlerReads, streamVars, reader

(* What is held stays sequences of records.                                *)
LEMMA SequencesStep ==
  ASSUME StreamTypeOK, [StreamNext]_streamVars
  PROVE  /\ cache' \in Seq(Rec) /\ pipe' \in Seq(Rec) /\ recache' \in Seq(Rec)
         /\ out' \in Seq(Rec) /\ pending' \in {<<>>, <<0>>}
<1>0. /\ cache \in Seq(Rec) /\ pipe \in Seq(Rec) /\ recache \in Seq(Rec)
      /\ out \in Seq(Rec) /\ pending \in {<<>>, <<0>>}
  BY DEF StreamTypeOK, Rec
<1>1. \A a, b \in Seq(Rec) : a \o b \in Seq(Rec)
  BY CatLaws DEF Cat
<1>2. /\ pending \in Seq(Rec) /\ <<>> \in Seq(Rec)
      /\ \A got \in Reads : got \in Seq(Rec)
  <2>1. <<>> \in Seq(Rec) /\ \A i \in Rec : <<i>> \in Seq(Rec)
    OBVIOUS
  <2>2. 0 \in Rec
    BY StreamAssumption DEF Rec
  <2> QED
    BY Zenon, <1>0, <2>1, <2>2 DEF Reads, Rec
<1>3. CASE Cache
  <2>1. PICK got \in Reads : ReadRecord(got) /\ cache' = cache \o got
    BY Zenon, <1>3 DEF Cache
  <2>2. UNCHANGED <<pipe, recache, out>> /\ pending' \in {pending, <<>>}
    BY Zenon, <1>3, <2>1 DEF Cache, fallback, ReadRecord
  <2>3. cache \o got \in Seq(Rec)
    BY Zenon, <1>0, <1>1, <1>2
  <2> QED
    BY <1>0, <2>1, <2>2, <2>3
<1>4. CASE Adopt
  BY Zenon, <1>0, <1>2, <1>4 DEF Adopt, fallback
<1>5. CASE OwnerReads
  <2>1. PICK got \in Reads : ReadWire(got) /\ out' = out \o got
    BY Zenon, <1>5 DEF OwnerReads
  <2>2. UNCHANGED <<pipe, recache, cache, pending>>
    BY Zenon, <1>5 DEF OwnerReads, fallback
  <2>3. out \o got \in Seq(Rec)
    BY <1>0, <1>1, <1>2
  <2> QED
    BY <1>0, <2>1, <2>2, <2>3
<1>6. CASE CopyReplay
  <2>1. out \o cache \in Seq(Rec) /\ pipe \o cache \in Seq(Rec)
    BY Zenon, <1>0, <1>1
  <2>2. Write(cache) /\ cache' = <<>> /\ UNCHANGED <<recache, pending>>
    BY Zenon, <1>6 DEF CopyReplay, reader
  <2>3. out' \in {out, out \o cache} /\ pipe' \in {pipe, pipe \o cache}
    BY <2>2 DEF Write
  <2> QED
    BY Zenon, <1>0, <1>2, <2>1, <2>2, <2>3
<1>7. CASE CopyRecord
  <2>1. PICK got \in Reads : ReadRecord(got) /\ Write(got)
    BY Zenon, <1>7 DEF CopyRecord
  <2>2. UNCHANGED <<recache, cache>> /\ pending' \in {pending, <<>>}
    BY Zenon, <1>7, <2>1 DEF CopyRecord, ReadRecord
  <2>3. out \o got \in Seq(Rec) /\ pipe \o got \in Seq(Rec)
    BY Zenon, <1>0, <1>1, <1>2
  <2>4. out' \in {out, out \o got} /\ pipe' \in {pipe, pipe \o got}
    BY Zenon, <2>1 DEF Write
  <2> QED
    BY Zenon, <1>0, <2>2, <2>3, <2>4
<1>8. CASE DispatchCache
  <2>1. recache \o pipe \in Seq(Rec)
    BY Zenon, <1>0, <1>1
  <2>2. recache' = recache \o pipe /\ pipe' = <<>> /\ UNCHANGED <<cache, out, pending>>
    BY <1>8 DEF DispatchCache, reader
  <2> QED
    BY Zenon, <1>0, <1>2, <2>1, <2>2
<1>9. CASE HandlerReads
  <2>1. out \o recache \in Seq(Rec) /\ out \o pipe \in Seq(Rec)
    BY Zenon, <1>0, <1>1
  <2>2. /\ UNCHANGED <<cache, pending>> /\ out' \in {out \o recache, out \o pipe}
        /\ recache' \in {recache, <<>>} /\ pipe' \in {pipe, <<>>}
    BY Zenon, <1>9 DEF HandlerReads, reader
  <2> QED
    BY ZenonT(40), <1>0, <1>2, <2>1, <2>2
<1>10. CASE UNCHANGED <<cache, pipe, recache, out, pending>>
  BY <1>0, <1>10
<1> QED
  BY ZenonT(40), <1>3, <1>4, <1>5, <1>6, <1>7, <1>8, <1>9, <1>10
     DEF StreamNext, Inbound, Dispatch, Arrive, CacheTimeout, ReadCut, SniffingTimeout,
         SelectFails, OpenDirect, FallBack, CopyFails, DispatchSniffed, RoutedDispatch,
         DispatchFails, streamVars, reader, fallback

(* Every step keeps the types.                                             *)
LEMMA StreamTypesStep ==
  ASSUME StreamTypeOK, [StreamNext]_streamVars
  PROVE  StreamTypeOK'
<1>1. retains' \in BOOLEAN /\ head' \in {0, 1}
  BY ZenonT(40) DEF StreamTypeOK, StreamNext, Inbound, Dispatch, Arrive, Cache, CacheTimeout,
         SniffingTimeout, SelectFails, OpenDirect, Adopt, FallBack, OwnerReads, CopyReplay,
         CopyRecord, CopyFails, DispatchCache, DispatchSniffed, RoutedDispatch,
         DispatchFails, HandlerReads, streamVars, given
<1>2. /\ phase' \in Phases /\ again' \in {"off", "sniffing", "routing", "routed"}
      /\ again' # "off" => phase' \in {"fallback", "closed"}
  BY ZenonT(40) DEF StreamTypeOK, Phases, StreamNext, Inbound, Dispatch, Arrive, Cache,
     CacheTimeout,
         SniffingTimeout, SelectFails, OpenDirect, Adopt, FallBack, OwnerReads, CopyReplay,
         CopyRecord, CopyFails, DispatchCache, DispatchSniffed, RoutedDispatch,
         DispatchFails, HandlerReads, streamVars, fallback
<1>3. late' \in BOOLEAN
  BY Zenon DEF StreamTypeOK, StreamNext, Inbound, Dispatch, Arrive, Cache, CacheTimeout,
         SniffingTimeout, SelectFails, OpenDirect, Adopt, FallBack, OwnerReads, CopyReplay,
         CopyRecord, CopyFails, DispatchCache, DispatchSniffed, RoutedDispatch,
         DispatchFails, HandlerReads, streamVars
<1>4. attempts' \in 0..2 /\ reattempts' \in 0..2
  <2>1. attempts' = attempts \/ (attempts < 2 /\ attempts' = attempts + 1)
    BY ZenonT(40) DEF StreamNext, Inbound, Dispatch, Arrive, Cache, CacheTimeout,
           SniffingTimeout, SelectFails, OpenDirect, Adopt, FallBack, OwnerReads, CopyReplay,
           CopyRecord, CopyFails, DispatchCache, DispatchSniffed, RoutedDispatch,
           DispatchFails, HandlerReads, streamVars
  <2>2. reattempts' = reattempts \/ (reattempts < 2 /\ reattempts' = reattempts + 1)
    BY Zenon DEF StreamNext, Inbound, Dispatch, Arrive, Cache, CacheTimeout,
           SniffingTimeout, SelectFails, OpenDirect, Adopt, FallBack, OwnerReads, CopyReplay,
           CopyRecord, CopyFails, DispatchCache, DispatchSniffed, RoutedDispatch,
           DispatchFails, HandlerReads, streamVars, fallback
  <2> QED
    BY SMTT(40), Z3T(40), <2>1, <2>2 DEF StreamTypeOK
<1>5. {cache, pipe, recache, out}' \subseteq Seq(0..Records) /\ pending' \in {<<>>, <<0>>}
  BY Zenon, SequencesStep DEF Rec
<1>6. /\ arrived' \in 0..(Records * Units) /\ taken' \in 0..arrived'
      /\ part' \in 0..(Units - 1) /\ decoded' \in 0..Records
  BY CountersStep
<1> QED
  BY <1>1, <1>2, <1>3, <1>4, <1>5, <1>6, Zenon DEF StreamTypeOK

(* The first state satisfies the invariant.                                *)
LEMMA StreamInitInv ==
  ASSUME StreamInit
  PROVE  StreamInv
<1>1. StreamTypeOK
  <2>1. {cache, pipe, recache, out} \subseteq Seq(0..Records)
    BY DEF StreamInit
  <2>2. Records * Units \in Nat
    BY StreamAssumption
  <2>3. /\ arrived \in 0..(Records * Units) /\ taken \in 0..arrived
        /\ part \in 0..(Units - 1) /\ decoded \in 0..Records
        /\ attempts \in 0..2 /\ reattempts \in 0..2
    BY <2>2, StreamAssumption DEF StreamInit
  <2>4. retains \in BOOLEAN /\ head \in {0, 1} /\ late \in BOOLEAN /\ pending \in {<<>>, <<0>>}
    BY Zenon DEF StreamInit
  <2>5. phase \in Phases /\ again = "off"
    BY Zenon DEF StreamInit, Phases
  <2> QED
    BY Zenon, <2>1, <2>3, <2>4, <2>5 DEF StreamTypeOK
<1>2. HoldersInv
  BY DEF StreamInit, HoldersInv
<1>3. Held = Sent(decoded) /\ Aligned
  <2>1. pending \in Seq(Rec)
    <3>1. <<>> \in Seq(Rec) /\ \A i \in Rec : <<i>> \in Seq(Rec)
      OBVIOUS
    <3>2. 0 \in Rec
      BY StreamAssumption DEF Rec
    <3> QED
      BY <3>1, <3>2 DEF StreamInit
  <2>2. Held = pending
    <3>1. <<>> \in Seq(Rec) /\ \A a \in Seq(Rec) : Cat(<<>>, a) = a
      BY CatLaws
    <3>2. Cat(<<>>, <<>>) = <<>> /\ Cat(<<>>, pending) = pending
      BY Zenon, <2>1, <3>1
    <3>3. Held = Whole(<<>>, <<>>, <<>>, <<>>, pending)
      BY Zenon, HeldIsWhole DEF StreamInit
    <3> QED
      BY Zenon, <3>2, <3>3 DEF Whole
  <2>3. pending = Sent(decoded)
    BY DEF StreamInit, Sent
  <2>4. Aligned
    BY StreamAssumption DEF StreamInit, Aligned
  <2> QED
    BY Zenon, <2>2, <2>3, <2>4
<1>4. InOrder
  <2>1. Sent(Records) \in Seq(Int)
    BY StreamAssumption DEF StreamInit, Sent
  <2>2. SubSeq(Sent(Records), 1, 0) = <<>>
    BY <2>1, SubSeqProperties
  <2> QED
    BY Zenon, <2>2 DEF StreamInit, InOrder
<1> QED
  BY ZenonT(40), <1>1, <1>2, <1>3, <1>4 DEF StreamInv, Lossless

(* Types, holders and contents of the stream fit together whatever way the *)
(* sockets take - the owner reactor, the direct copy or the regular        *)
(* Dispatch - and wherever a deadline cuts a record.                       *)
THEOREM StreamInvariant == StreamSpec => []StreamInv
<1>1. StreamInit => StreamInv
  BY StreamInitInv
<1>2. StreamInv /\ [StreamNext]_streamVars => StreamInv'
  BY Zenon, StreamTypesStep, HoldersStep, LosslessStep, InOrderStep DEF StreamInv
<1> QED
  BY <1>1, <1>2, PTL DEF StreamSpec

(* Lossless: what was decoded of an open connection is with the outbound or*)
(* held in order (cachedReader, the multi-buffers of the direct copy).     *)
THEOREM NothingIsLost == StreamSpec => []Lossless
<1>1. StreamInv => Lossless
  BY DEF StreamInv
<1> QED
  BY <1>1, StreamInvariant, PTL

(* InOrder: the outbound of any connection, closed ones included, has a    *)
(* prefix of what the client sent.                                         *)
THEOREM NothingIsReordered == StreamSpec => []InOrder
<1>1. StreamInv => InOrder
  BY DEF StreamInv
<1> QED
  BY <1>1, StreamInvariant, PTL
=============================================================================
