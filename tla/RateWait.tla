------------------------------ MODULE RateWait ------------------------------
(***************************************************************************)
(* Waiting for tokens of a user's shared bucket: waitRateLimit             *)
(* (common/limiter/rate.go) and userIO.Acquire (app/mydispatcher), while   *)
(* UpdateInboundLimiter may change the bucket.                             *)
(*                                                                         *)
(* rate.Limiter is external: WaitN and ReserveN grant n tokens after some  *)
(* delay and fail when n exceeds the burst the bucket has by then.         *)
(***************************************************************************)
EXTENDS Naturals

CONSTANTS
  Writers,  \* readers and writers that share the bucket
  Bursts,   \* burst sizes the panel's limits lead to
  MaxLen,   \* largest transfer
  Cancels   \* do contexts get cancelled?

ASSUME BurstsPositive == Bursts \subseteq Nat \ {0} /\ MaxLen \in Nat

VARIABLES
  burst,  \* Burst() of the bucket
  op      \* each transfer: its place, length, bytes left, burst read, tokens

rateVars == <<burst, op>>

At == {"idle", "waiting", "done", "failed", "cancelled"}
Idle == [at |-> "idle", len |-> 0, left |-> 0, seen |-> 0, paid |-> 0]

RateTypeOK ==
  /\ burst \in Bursts
  /\ op \in [Writers -> [at: At, len: 0..MaxLen, left: 0..MaxLen,
                         seen: Bursts \cup {0}, paid: 0..MaxLen]]

RateInit == burst \in Bursts /\ op = [w \in Writers |-> Idle]

\* The burst is read once; an empty transfer needs no tokens.
Begin(w, n) ==
  /\ op[w].at = "idle"
  /\ op' = [op EXCEPT ![w] =
       [at |-> IF n = 0 THEN "done" ELSE "waiting",
        len |-> n, left |-> n, seen |-> IF n = 0 THEN 0 ELSE burst, paid |-> 0]]
  /\ UNCHANGED burst

Smaller(m, n) == IF m < n THEN m ELSE n

\* Mutant: the rest of a large transfer is forgotten.
ChunkAtMost(left, seen) == [pay |-> Smaller(left, seen), rest |-> 0]

Chunk(left, seen) ==
  [pay |-> Smaller(left, seen), rest |-> left - Smaller(left, seen)]

\* The transfer goes on at another place, with what is left and paid by then.
Moved(o, a, left, paid) ==
  [at |-> a, len |-> o.len, left |-> left, seen |-> o.seen, paid |-> paid]

\* Mutant: the transfer is not split.
GrantedWhole(w) ==
  /\ op[w].at = "waiting" /\ op[w].left <= burst
  /\ op' = [op EXCEPT ![w] = Moved(@, "done", 0, @.paid + @.left)]
  /\ UNCHANGED burst

\* One round of the loop: the bucket grants the chunk ...
Granted(w) ==
  LET c == Chunk(op[w].left, op[w].seen)
  IN  /\ op[w].at = "waiting" /\ c.pay <= burst
      /\ op' = [op EXCEPT ![w] =
           Moved(@, IF c.rest = 0 THEN "done" ELSE "waiting", c.rest, @.paid + c.pay)]
      /\ UNCHANGED burst

\* ... or it has shrunk below the chunk and the call fails.
Exceeds(w) ==
  /\ op[w].at = "waiting" /\ Chunk(op[w].left, op[w].seen).pay > burst
  /\ op' = [op EXCEPT ![w] = Moved(@, "failed", @.left, @.paid)]
  /\ UNCHANGED burst

Cancel(w) ==
  /\ Cancels
  /\ op[w].at = "waiting"
  /\ op' = [op EXCEPT ![w] = Moved(@, "cancelled", @.left, @.paid)]
  /\ UNCHANGED burst

\* The caller transfers the bytes, or gives the connection up.
Return(w) ==
  /\ op[w].at \in {"done", "failed", "cancelled"}
  /\ op' = [op EXCEPT ![w] = Idle]
  /\ UNCHANGED burst

SetBurst(b) == burst' = b /\ UNCHANGED op

RateNext ==
  \/ \E w \in Writers, n \in 0..MaxLen : Begin(w, n)
  \/ \E w \in Writers : Granted(w) \/ Exceeds(w) \/ Cancel(w) \/ Return(w)
  \/ \E b \in Bursts : SetBurst(b)

\* The bucket refills: a transfer that waits gets its answer.
RateFairness == \A w \in Writers : WF_rateVars(Granted(w) \/ Exceeds(w))

RateSpec == RateInit /\ [][RateNext]_rateVars /\ RateFairness

-----------------------------------------------------------------------------
(* A transfer goes through only with a token for each of its bytes, however *)
(* often the limit changes while it waits.                                  *)
PaidInFull == \A w \in Writers : op[w].at = "done" => op[w].paid = op[w].len

\* Why: what is paid and what is left add up to the transfer, and a transfer
\* is through when nothing is left.
RateInv ==
  /\ RateTypeOK
  /\ \A w \in Writers :
       /\ op[w].paid + op[w].left = op[w].len
       /\ op[w].at = "done" => op[w].left = 0
       /\ op[w].at = "waiting" => op[w].seen > 0

(* A transfer that waits for tokens is answered, also when it is larger    *)
(* than the burst and while the limit keeps changing (waitRateLimit).      *)
WaitsEnd == \A w \in Writers : op[w].at = "waiting" ~> op[w].at # "waiting"
=============================================================================
