------------------------------- MODULE RateLimiter -------------------------------
(***************************************************************************)
(* TokenBucketRateLimiter (rate_limiter.rs): a bucket per client, filled   *)
(* anew whenever it is looked at.  Every call holds the lock throughout.   *)
(* Tokens are counted in fractions of a token, so that a tick of the clock *)
(* refills less than one; the rounding of f64 is left out.                 *)
(***************************************************************************)
EXTENDS Naturals, Sequences

CONSTANTS
  Clients,
  Token,        \* the fractions in a token
  Capacity,     \* capacity, in tokens
  Refill,       \* refill_per_second, in fractions a tick
  MaxSeconds    \* bound: the clock

ASSUME LimiterAssumption ==
  /\ Token \in Nat /\ Capacity \in Nat /\ Refill \in Nat

VARIABLES
  seconds,     \* Instant::now()
  buckets,     \* the clients seen: tokens and last_refill
  admitted     \* when each client's requests were allowed since its bucket was made

limiterVars == <<seconds, buckets, admitted>>

LimiterInit ==
  /\ seconds = 0
  /\ buckets = [c \in {} |-> 0]
  /\ admitted = [c \in Clients |-> <<>>]

-----------------------------------------------------------------------------
(* Mutant of Refilled: only whole tokens are added. *)
RefilledWhole(b) ==
  LET tokens == b.tokens + (((seconds - b.last_refill) * Refill) \div Token) * Token
  IN IF tokens < Capacity * Token THEN tokens ELSE Capacity * Token

(* refill_bucket *)
Refilled(b) ==
  LET tokens == b.tokens + (seconds - b.last_refill) * Refill
  IN IF tokens < Capacity * Token THEN tokens ELSE Capacity * Token

(* What a call finds for c: its bucket refilled, or a new one. *)
Found(c) == IF c \in DOMAIN buckets THEN Refilled(buckets[c]) ELSE Capacity * Token

Put(c, tokens) ==
  buckets' = [d \in DOMAIN buckets \cup {c} |->
    IF d = c THEN [tokens |-> tokens, last_refill |-> seconds] ELSE buckets[d]]

Allows(c) == Found(c) >= Token

CheckAllows(c) ==
  /\ Allows(c)
  /\ Put(c, Found(c) - Token)
  /\ admitted' = [admitted EXCEPT ![c] = Append(@, seconds)]
  /\ UNCHANGED seconds

(* A check that is refused, and peek, leave the bucket refilled. *)
CheckRefuses(c) ==
  /\ ~Allows(c)
  /\ Put(c, Found(c))
  /\ UNCHANGED <<seconds, admitted>>

Peek(c) ==
  /\ Put(c, Found(c))
  /\ UNCHANGED <<seconds, admitted>>

ResetClient(c) ==
  /\ buckets' = [d \in DOMAIN buckets \ {c} |-> buckets[d]]
  /\ admitted' = [admitted EXCEPT ![c] = <<>>]
  /\ UNCHANGED seconds

SecondPasses ==
  /\ seconds < MaxSeconds
  /\ seconds' = seconds + 1
  /\ UNCHANGED <<buckets, admitted>>

LimiterNext ==
  \/ \E c \in Clients :
       CheckAllows(c) \/ CheckRefuses(c) \/ Peek(c) \/ ResetClient(c)
  \/ SecondPasses

LimiterSpec == LimiterInit /\ [][LimiterNext]_limiterVars

-----------------------------------------------------------------------------
(* n requests between two instants are within the rate: a full bucket, and *)
(* what was refilled in between.                                           *)
WithinRate(n, from, to) == n * Token <= Capacity * Token + (to - from) * Refill

(* From any allowed request to any later one, a client was never allowed   *)
(* more than the rate, however checks, peeks and refusals fall in between  *)
(* (a reset gives it a new bucket, and starts the count anew).             *)
NeverAboveRate ==
  \A c \in Clients : \A i \in DOMAIN admitted[c] : \A j \in i .. Len(admitted[c]) :
    WithinRate(j - i + 1, admitted[c][i], admitted[c][j])

(* And nothing is lost to it: a request is refused only if allowing it     *)
(* would put the client above the rate, counted from some request on;      *)
(* looking at a bucket often never takes away what it refills meanwhile.   *)
RefusesOnlyExcess ==
  \A c \in Clients : ~Allows(c) =>
    \/ Capacity = 0
    \/ \E i \in DOMAIN admitted[c] :
         ~WithinRate(Len(admitted[c]) - i + 2, admitted[c][i], seconds)

(* Both: the limiter allows the rate, no more and no less. *)
AllowsExactlyTheRate == NeverAboveRate /\ RefusesOnlyExcess
==================================================================================
