--------------------------- MODULE ResilienceProofs ---------------------------
(***************************************************************************)
(* Proofs for every value of their constants about the circuit breaker,    *)
(* the saga, the rate limiter, the daemon and the log streamer.            *)
(***************************************************************************)
EXTENDS CircuitBreaker, Saga, RateLimiter, Daemon, WalStreamer, FiniteSetTheorems,
        SequenceTheorems, TLAPS

(* The provers a leaf is given that names none of its own, tried in this order. *)
USE SMTT(30), ZenonT(30), Z3T(30), SMTT(40)

-----------------------------------------------------------------------------
(* CircuitBreaker. *)

(* A counter never exceeds what really happened since it was last cleared, *)
(* unless a reset has not cleared it yet or a late success was carried     *)
(* over; and a request that was told half-open came after the rest.        *)
BreakerInv ==
  /\ circuit \in {"closed", "open"}
  /\ failure_count \in Nat /\ success_count \in Nat /\ failures \in Nat /\ probes \in Nat
  /\ DOMAIN request = Requesters
  /\ "failures" \notin resetting => failure_count <= failures
  /\ \/ "successes" \in resetting
     \/ carried
     \/ success_count = 0
     \/ circuit = "open" /\ success_count <= probes
  /\ \A r \in Requesters : request[r] = "half_open" => elapsed

(* Every step keeps the invariant. *)
LEMMA BreakerStep == BreakerInv /\ [BreakerNext]_breakerVars => BreakerInv'
<1> SUFFICES ASSUME BreakerInv, [BreakerNext]_breakerVars PROVE BreakerInv'
  OBVIOUS
<1> USE DEF BreakerInv, Goes, CountersUnchanged
<1>1. CASE TimeoutPasses
  BY <1>1 DEF TimeoutPasses
<1>2. ASSUME NEW r \in Requesters, AllowRequest(r) \/ ReadState(r) \/ IgnoreSuccess(r)
      PROVE  BreakerInv'
  BY <1>2 DEF AllowRequest, ReadState, IgnoreSuccess
<1>3. ASSUME NEW r \in Requesters, ReadLastFailure(r) PROVE BreakerInv'
  BY <1>3 DEF ReadLastFailure, OpenLooks
<1>4. ASSUME NEW r \in Requesters, CountProbe(r) PROVE BreakerInv'
  BY <1>4 DEF CountProbe, FailuresAfterClose
<1>5. ASSUME NEW r \in Requesters, CountSuccess(r) PROVE BreakerInv'
  BY <1>5 DEF CountSuccess
<1>6. ASSUME NEW r \in Requesters, RecordFailure(r) PROVE BreakerInv'
  BY <1>6 DEF RecordFailure
<1>7. CASE Reset
  BY <1>7 DEF Reset
<1>8. CASE ClearFailures
  BY <1>8 DEF ClearFailures
<1>9. CASE ClearSuccesses
  BY <1>9 DEF ClearSuccesses
<1>10. CASE UNCHANGED breakerVars
  BY <1>10 DEF breakerVars
<1>11. QED
  BY <1>1, <1>2, <1>3, <1>4, <1>5, <1>6, <1>7, <1>8, <1>9, <1>10 DEF BreakerNext

(* Whatever the thresholds and however the calls of the threads interleave,*)
(* the breaker opens on enough failures, closes on enough successes, and   *)
(* tries requests again only after its rest: but for the reports of a      *)
(* state it has left and for counters a reset has not cleared yet.         *)
THEOREM BreakerTurns == BreakerSpec => TurnsWhenDue
<1>1. BreakerInit => BreakerInv
  BY DEF BreakerInit, BreakerInv
<1>2. ASSUME BreakerInv, [BreakerNext]_breakerVars, circuit = "closed", circuit' = "open"
      PROVE  failures' >= FailureThreshold \/ "failures" \in resetting
  <2>1. PICK r \in Requesters : RecordFailure(r)
    BY <1>2 DEF BreakerNext, breakerVars, TimeoutPasses, AllowRequest, ReadState, IgnoreSuccess,
      ReadLastFailure, CountProbe, CountSuccess, Reset, ClearFailures, ClearSuccesses,
      CountersUnchanged
  <2>2. QED
    BY <1>2, <2>1, BreakerAssumption DEF RecordFailure, BreakerInv
<1>3. ASSUME BreakerInv, [BreakerNext]_breakerVars, circuit = "open", circuit' = "closed",
             resetting = resetting'
      PROVE  /\ probes + 1 >= SuccessThreshold \/ carried \/ "successes" \in resetting
             /\ \/ elapsed
                \/ \E r \in Requesters : request[r] = "outdated" /\ request'[r] = "idle"
  <2>1. ~Reset
    BY <1>3 DEF Reset
  <2>2. PICK r \in Requesters : CountProbe(r)
    BY <1>3, <2>1 DEF BreakerNext, breakerVars, TimeoutPasses, AllowRequest, ReadState,
      IgnoreSuccess, ReadLastFailure, RecordFailure, CountSuccess, ClearFailures, ClearSuccesses,
      CountersUnchanged
  <2>3. success_count + 1 >= SuccessThreshold
    BY <1>3, <2>2 DEF CountProbe, EnoughProbes
  <2>4. probes + 1 >= SuccessThreshold \/ carried \/ "successes" \in resetting
    BY <1>3, <2>3, BreakerAssumption DEF BreakerInv
  <2>5. elapsed \/ (request[r] = "outdated" /\ request'[r] = "idle")
    BY <1>3, <2>2 DEF CountProbe, BreakerInv, Goes
  <2>6. QED
    BY <2>4, <2>5
<1>4. QED
  BY <1>1, <1>2, <1>3, BreakerStep, PTL
    DEF BreakerSpec, TurnsWhenDue, OpensByFailures, ClosesBySuccesses, ClosesAfterRest

-----------------------------------------------------------------------------
(* Saga. *)

(* Until a step was compensated, the completed steps are those before the  *)
(* current one; from then until it is executed again, a first part of      *)
(* them.                                                                   *)
SagaInv ==
  /\ current_step \in 1 .. Steps + 1
  /\ undone \in BOOLEAN /\ resumed \in BOOLEAN
  /\ ~undone => completed = 1 .. current_step - 1
  /\ EffectsAreFirstSteps
  /\ saga_state = "completed" /\ ~resumed => ~undone /\ current_step = Steps + 1
  /\ saga_state = "compensated" => completed = {}

(* Every call keeps the invariant. *)
LEMMA SagaStep == SagaInv /\ [SagaNext]_sagaVars => SagaInv'
<1> SUFFICES ASSUME SagaInv, [SagaNext]_sagaVars PROVE SagaInv'
  OBVIOUS
<1> USE SagaAssumption
<1>1. ASSUME NEW n \in 1 .. Steps + 1, Execute(n) PROVE SagaInv'
  <2>1. /\ current_step' = n
        /\ saga_state' = IF n <= Steps THEN "compensating" ELSE "completed"
        /\ resumed' = (resumed \/ undone) /\ undone' = undone
        /\ completed' = completed \cup current_step .. n - 1
        /\ n \in current_step .. Steps + 1
    BY <1>1 DEF Execute, StepAfterFailure
  <2>2. ~undone => completed' = 1 .. n - 1
    BY <2>1 DEF SagaInv
  <2>3. EffectsAreFirstSteps'
    BY <2>1, <2>2 DEF SagaInv, EffectsAreFirstSteps
  <2>4. QED
    BY <2>1, <2>2, <2>3 DEF SagaInv
<1>2. CASE CompensateAll
  <2>1. completed' = {} /\ {} = 1 .. 0
    BY <1>2 DEF CompensateAll
  <2>2. EffectsAreFirstSteps'
    BY <2>1 DEF EffectsAreFirstSteps
  <2>3. QED
    BY <1>2, <2>1, <2>2, ZenonT(30) DEF CompensateAll, SagaInv
<1>3. ASSUME NEW i \in 1 .. Steps, CompensateUntil(i) PROVE SagaInv'
  <2>1. ASSUME ~resumed PROVE completed' = 1 .. i
    BY <1>3, <2>1 DEF CompensateUntil, UndoneBefore, SagaInv, EffectsAreFirstSteps
  <2>2. EffectsAreFirstSteps'
    BY <1>3, <2>1 DEF CompensateUntil, EffectsAreFirstSteps
  <2>3. ~undone' => completed' = completed
    BY <1>3, ZenonT(30) DEF CompensateUntil, SagaInv
  <2>4. QED
    BY <1>3, <2>2, <2>3 DEF CompensateUntil, SagaInv
<1>4. CASE UNCHANGED sagaVars
  BY <1>4 DEF sagaVars, SagaInv, EffectsAreFirstSteps
<1>5. QED
  BY <1>1, <1>2, <1>3, <1>4 DEF SagaNext

(* However long the saga and wherever its steps and compensations fail,    *)
(* what remains in effect is a first part of it and it reports truly, as   *)
(* long as it is not executed again after a compensation.                  *)
THEOREM SagaTrue == SagaSpec => []EffectsAreReported
<1>1. ASSUME SagaInit PROVE SagaInv
  <2>1. completed = 1 .. 0
    BY <1>1 DEF SagaInit
  <2>2. EffectsAreFirstSteps
    BY <2>1, SagaAssumption DEF EffectsAreFirstSteps
  <2>3. current_step \in 1 .. Steps + 1 /\ completed = 1 .. current_step - 1
    BY <1>1, <2>1, SagaAssumption DEF SagaInit
  <2>4. undone \in BOOLEAN /\ resumed \in BOOLEAN /\ saga_state = "running"
    BY <1>1, ZenonT(30) DEF SagaInit
  <2>5. QED
    BY <2>2, <2>3, <2>4 DEF SagaInv
<1>2. SagaInv => EffectsAreFirstSteps /\ ReportsItsEffects
  BY SagaAssumption DEF SagaInv, ReportsItsEffects
<1>3. QED
  BY <1>1, <1>2, SagaStep, PTL DEF SagaSpec, EffectsAreReported

-----------------------------------------------------------------------------
(* RateLimiter. *)

(* What a full bucket holds. *)
Full == Capacity * Token

(* What k requests cost. *)
Worth(k) == k * Token

(* What is refilled between two seconds. *)
Flow(from, to) == (to - from) * Refill

(* Since request i of c was allowed, a full bucket and the refill have paid *)
(* for it and all later ones and for what the bucket still holds.          *)
Accounted(c, i) ==
  /\ admitted[c][i] <= buckets[c].last_refill
  /\ buckets[c].tokens + Worth(Len(admitted[c]) - i + 1)
       <= Full + Flow(admitted[c][i], buckets[c].last_refill)

(* Every request allowed is accounted for. *)
LimiterInv ==
  /\ seconds \in Nat
  /\ DOMAIN buckets \subseteq Clients
  /\ \A c \in DOMAIN buckets :
       /\ buckets[c].tokens \in Nat /\ buckets[c].last_refill \in 0 .. seconds
       /\ buckets[c].tokens <= Full
       /\ \A i \in 1 .. Len(admitted[c]) : Accounted(c, i)
  /\ admitted \in [Clients -> Seq(Nat)]
  /\ \A c \in Clients \ DOMAIN buckets : admitted[c] = <<>>
  /\ NeverAboveRate

(* The amounts are numbers, and what is refilled adds up. *)
LEMMA Amounts ==
  /\ Full \in Nat
  /\ \A k \in Nat : Worth(k) \in Nat /\ Worth(k + 1) = Worth(k) + Token
  /\ \A x, y \in Nat : x <= y => Flow(x, y) \in Nat
  /\ \A x, y, z \in Nat : x <= y /\ y <= z => Flow(x, z) = Flow(x, y) + Flow(y, z)
<1> USE LimiterAssumption DEF Full, Worth, Flow
<1>1. Full \in Nat
  OBVIOUS
<1>2. ASSUME NEW k \in Nat PROVE Worth(k) \in Nat /\ Worth(k + 1) = Worth(k) + Token
  OBVIOUS
<1>3. ASSUME NEW x \in Nat, NEW y \in Nat, x <= y PROVE Flow(x, y) \in Nat
  <2>1. PICK d \in Nat : y - x = d
    BY <1>3
  <2>2. d * Refill \in Nat
    OBVIOUS
  <2>3. QED
    BY <2>1, <2>2
<1>4. ASSUME NEW x \in Nat, NEW y \in Nat, NEW z \in Nat, x <= y, y <= z
      PROVE Flow(x, z) = Flow(x, y) + Flow(y, z)
  <2>1. \A a, b \in Nat : (a + b) * Refill = a * Refill + b * Refill
    OBVIOUS
  <2>2. (y - x) \in Nat /\ (z - y) \in Nat /\ z - x = (y - x) + (z - y)
    BY <1>4
  <2>3. QED
    BY <2>1, <2>2
<1>5. QED
  BY <1>1, <1>2, <1>3, <1>4

(* What a call finds is within the bucket, and is what the requests        *)
(* allowed so far have left of it.                                         *)
LEMMA FoundAccounted ==
  ASSUME LimiterInv, NEW c \in Clients
  PROVE  /\ Found(c) \in Nat /\ Found(c) <= Full
         /\ \A i \in 1 .. Len(admitted[c]) :
              /\ admitted[c][i] \in Nat /\ admitted[c][i] <= seconds
              /\ Found(c) + Worth(Len(admitted[c]) - i + 1) <= Full + Flow(admitted[c][i], seconds)
<1>1. CASE c \in DOMAIN buckets
  <2> DEFINE b == buckets[c]
             sum == b.tokens + Flow(b.last_refill, seconds)
  <2>1. /\ b.tokens \in Nat /\ b.last_refill \in Nat /\ b.last_refill <= seconds
        /\ b.tokens <= Full /\ seconds \in Nat
    BY <1>1 DEF LimiterInv
  <2>2. Found(c) = IF sum < Full THEN sum ELSE Full
    BY <1>1 DEF Found, Refilled, Full, Flow
  <2>3. Full \in Nat /\ Flow(b.last_refill, seconds) \in Nat
    BY <2>1, Amounts, ZenonT(30)
  <2>4. Found(c) \in Nat /\ Found(c) <= Full /\ Found(c) <= sum
    <3> HIDE DEF b
    <3> QED BY <2>1, <2>2, <2>3
  <2>5. ASSUME NEW i \in 1 .. Len(admitted[c])
        PROVE  /\ admitted[c][i] \in Nat /\ admitted[c][i] <= seconds
               /\ Found(c) + Worth(Len(admitted[c]) - i + 1)
                    <= Full + Flow(admitted[c][i], seconds)
    <3> DEFINE t == admitted[c][i]
               k == Len(admitted[c]) - i + 1
    <3>1. t \in Nat /\ k \in Nat
      BY DEF LimiterInv
    <3>2. t <= b.last_refill /\ b.tokens + Worth(k) <= Full + Flow(t, b.last_refill)
      BY <1>1 DEF Accounted, LimiterInv
    <3> DEFINE l == b.last_refill
               x == b.tokens
    <3>3. l \in Nat /\ t <= l /\ l <= seconds /\ x \in Nat
      BY <2>1, <3>2
    <3> HIDE DEF t, k, l, x
    <3>4. Flow(t, seconds) = Flow(t, l) + Flow(l, seconds)
      BY <2>1, <3>1, <3>3, Amounts
    <3>5. Flow(t, l) \in Nat /\ Worth(k) \in Nat
      BY <2>1, <3>1, <3>3, Amounts, ZenonT(30)
    <3>6. /\ x + Worth(k) <= Full + Flow(t, l) /\ Found(c) <= x + Flow(l, seconds)
          /\ Flow(l, seconds) \in Nat
      BY <2>3, <2>4, <3>2 DEF l, x
    <3>7. t <= seconds /\ Found(c) + Worth(k) <= Full + Flow(t, seconds)
      <4> DEFINE f == Found(c)
                 p == Flow(t, l)
                 q == Flow(l, seconds)
                 w == Worth(k)
      <4>1. f \in Nat /\ p \in Nat /\ q \in Nat /\ w \in Nat /\ Full \in Nat
        BY <2>3, <2>4, <3>5, <3>6
      <4>2. f <= x + q /\ x + w <= Full + p
        BY <3>6
      <4>3. Flow(t, seconds) = p + q
        BY <3>4
      <4> HIDE DEF f, p, q, w
      <4>4. f + w <= Full + (p + q)
        BY <3>3, <4>1, <4>2
      <4>5. t <= seconds
        BY <2>1, <3>1, <3>3
      <4>6. QED
        BY <4>3, <4>4, <4>5 DEF f, w
    <3> QED BY <3>1, <3>7 DEF t, k
  <2> QED BY <2>4, <2>5
<1>2. CASE c \notin DOMAIN buckets
  <2>1. Found(c) = Full /\ admitted[c] = <<>>
    BY <1>2 DEF Found, Full, LimiterInv
  <2> QED BY <2>1, Amounts
<1> QED BY <1>1, <1>2

(* A call that leaves the bucket refilled keeps the invariant. *)
LEMMA LookKeepsInv ==
  ASSUME LimiterInv, NEW c \in Clients, Put(c, Found(c)), UNCHANGED <<seconds, admitted>>
  PROVE  LimiterInv'
<1>1. /\ DOMAIN buckets' = DOMAIN buckets \cup {c}
      /\ \A d \in DOMAIN buckets : d # c => buckets'[d] = buckets[d]
      /\ buckets'[c] = [tokens |-> Found(c), last_refill |-> seconds]
  BY DEF Put
<1>2. buckets'[c].tokens = Found(c) /\ buckets'[c].last_refill = seconds
  BY <1>1
<1>3. ASSUME NEW i \in 1 .. Len(admitted'[c]) PROVE Accounted(c, i)'
  BY <1>2, FoundAccounted DEF Accounted
<1>4. ASSUME NEW d \in DOMAIN buckets, d # c, NEW i \in 1 .. Len(admitted'[d])
      PROVE  Accounted(d, i)'
  BY <1>1, <1>4 DEF Accounted, LimiterInv
<1>5. NeverAboveRate'
  BY DEF LimiterInv, NeverAboveRate
<1>6. ASSUME NEW d \in DOMAIN buckets'
      PROVE  /\ buckets'[d].tokens \in Nat /\ buckets'[d].last_refill \in 0 .. seconds
             /\ buckets'[d].tokens <= Full
  BY <1>1, <1>2, FoundAccounted DEF LimiterInv
<1>7. QED
  BY <1>1, <1>3, <1>4, <1>5, <1>6 DEF LimiterInv, Full

(* A request that is allowed is paid for. *)
LEMMA AllowKeepsInv ==
  ASSUME LimiterInv, NEW c \in Clients, CheckAllows(c)
  PROVE  LimiterInv'
<1> DEFINE n == Len(admitted[c])
<1>0. n \in Nat /\ admitted[c] \in Seq(Nat) /\ seconds \in Nat /\ Token \in Nat
  BY LimiterAssumption DEF LimiterInv
<1>1. /\ DOMAIN buckets' = DOMAIN buckets \cup {c}
      /\ \A d \in DOMAIN buckets : d # c => buckets'[d] = buckets[d]
      /\ buckets'[c] = [tokens |-> Found(c) - Token, last_refill |-> seconds]
      /\ Found(c) >= Token
  BY DEF Put, CheckAllows, Allows
<1>2. /\ buckets'[c].tokens = Found(c) - Token /\ buckets'[c].last_refill = seconds
      /\ seconds' = seconds
  BY <1>1 DEF CheckAllows
<1>3. /\ admitted' \in [Clients -> Seq(Nat)]
      /\ \A d \in Clients : d # c => admitted'[d] = admitted[d]
      /\ Len(admitted'[c]) = n + 1
      /\ \A i \in 1 .. n : admitted'[c][i] = admitted[c][i]
      /\ admitted'[c][n + 1] = seconds
  BY <1>0 DEF LimiterInv, CheckAllows
<1>4. Found(c) \in Nat /\ Found(c) <= Full
  BY FoundAccounted
<1>5. ASSUME NEW i \in 1 .. n + 1
      PROVE  /\ admitted'[c][i] \in Nat /\ admitted'[c][i] <= seconds
             /\ Found(c) - Token + Worth(n + 1 - i + 1) <= Full + Flow(admitted'[c][i], seconds)
  <2>1. CASE i = n + 1
    <3>1. Worth(1) = Token /\ Flow(seconds, seconds) = 0 /\ n + 1 - i + 1 = 1
      BY <1>0, <2>1, LimiterAssumption DEF Worth, Flow
    <3>2. admitted'[c][i] = seconds
      BY <1>3, <2>1
    <3> DEFINE f == Found(c)
    <3>3. f \in Nat /\ f <= Full /\ Full \in Nat
      BY <1>4, Amounts
    <3> HIDE DEF f
    <3>4. f - Token + Token <= Full + 0
      BY <1>0, <3>3
    <3>5. QED
      BY <1>0, <3>1, <3>2, <3>4 DEF f
  <2>2. CASE i \in 1 .. n
    <3>1. Worth(n + 1 - i + 1) = Worth(n - i + 1) + Token /\ Worth(n - i + 1) \in Nat
      <4>1. (n - i + 1) \in Nat /\ n + 1 - i + 1 = (n - i + 1) + 1
        BY <1>0, <2>2
      <4>2. QED
        BY <4>1, Amounts, ZenonT(30)
    <3>2. /\ admitted[c][i] \in Nat /\ admitted[c][i] <= seconds
          /\ Found(c) + Worth(n - i + 1) <= Full + Flow(admitted[c][i], seconds)
      BY <2>2, FoundAccounted
    <3>3. Flow(admitted[c][i], seconds) \in Nat /\ Full \in Nat
      BY <1>0, <3>2, Amounts, ZenonT(30)
    <3> DEFINE f == Found(c)
               w == Worth(n - i + 1)
               q == Flow(admitted[c][i], seconds)
    <3>4. f \in Nat /\ w \in Nat /\ q \in Nat /\ Full \in Nat /\ f + w <= Full + q
      BY <1>4, <3>1, <3>2, <3>3
    <3> HIDE DEF f, w, q
    <3>5. f - Token + (w + Token) <= Full + q
      BY <1>0, <3>4
    <3>6. QED
      BY <1>3, <2>2, <3>1, <3>2, <3>5, ZenonT(30) DEF f, w, q
  <2>3. QED
    BY <1>0, <2>1, <2>2
<1>6. \A i \in 1 .. Len(admitted'[c]) : Accounted(c, i)'
  BY <1>2, <1>3, <1>5 DEF Accounted
<1>7. ASSUME NEW d \in DOMAIN buckets, d # c
      PROVE  \A i \in 1 .. Len(admitted'[d]) : Accounted(d, i)'
  BY <1>1, <1>3, <1>7, ZenonT(30) DEF Accounted, LimiterInv
<1>8. NeverAboveRate'
  <2> SUFFICES ASSUME NEW d \in Clients, NEW i \in DOMAIN admitted'[d],
                      NEW j \in i .. Len(admitted'[d])
               PROVE  WithinRate(j - i + 1, admitted'[d][i], admitted'[d][j])
    BY DEF NeverAboveRate, WithinRate
  <2>0. admitted'[d] \in Seq(Nat) /\ i \in 1 .. Len(admitted'[d])
    BY <1>3
  <2>1. CASE d # c \/ j \in 1 .. n
    <3>1. CASE d # c
      BY <1>3, <3>1 DEF LimiterInv, NeverAboveRate
    <3>2. CASE d = c /\ j \in 1 .. n
      <4>1. i \in 1 .. n /\ DOMAIN admitted[c] = 1 .. n
        BY <1>0, <2>0, <3>2
      <4>2. admitted'[d][i] = admitted[c][i] /\ admitted'[d][j] = admitted[c][j]
        BY <1>3, <3>2, <4>1
      <4>3. i \in DOMAIN admitted[c] /\ j \in i .. Len(admitted[c])
        BY <1>0, <3>2, <4>1
      <4>4. WithinRate(j - i + 1, admitted[c][i], admitted[c][j])
        BY <4>3, Zenon DEF LimiterInv, NeverAboveRate
      <4>5. QED
        BY <4>2, <4>4, Zenon
    <3>3. QED
      BY <2>1, <3>1, <3>2
  <2>2. CASE d = c /\ j = n + 1
    <3>1. i \in 1 .. n + 1 /\ admitted'[c][j] = seconds
      BY <1>0, <1>3, <2>0, <2>2
    <3>2. /\ Found(c) - Token + Worth(j - i + 1) <= Full + Flow(admitted'[c][i], seconds)
          /\ admitted'[c][i] \in Nat /\ admitted'[c][i] <= seconds
      BY <1>5, <2>2, <3>1
    <3>3. Worth(j - i + 1) \in Nat /\ Flow(admitted'[c][i], seconds) \in Nat /\ Full \in Nat
      <4>1. (j - i + 1) \in Nat
        BY <1>0, <2>2, <3>1
      <4>2. QED
        BY <1>0, <3>2, <4>1, Amounts, ZenonT(30)
    <3>4. Worth(j - i + 1) <= Full + Flow(admitted'[c][i], seconds)
      <4> DEFINE f == Found(c)
                 w == Worth(j - i + 1)
                 q == Flow(admitted'[c][i], seconds)
      <4>1. /\ f \in Nat /\ w \in Nat /\ q \in Nat /\ Full \in Nat
            /\ f >= Token /\ f - Token + w <= Full + q
        BY <1>1, <1>4, <3>2, <3>3
      <4> HIDE DEF f, w, q
      <4>2. w <= Full + q
        BY <1>0, <4>1
      <4>3. QED
        BY <4>2 DEF w, q
    <3>5. QED
      BY <2>2, <3>1, <3>4 DEF WithinRate, Worth, Flow, Full
  <2>3. d = c => j \in 1 .. n \/ j = n + 1
    BY <1>0, <1>3, <2>0
  <2>4. QED
    BY <2>1, <2>2, <2>3
<1>9. ASSUME NEW d \in DOMAIN buckets'
      PROVE  /\ buckets'[d].tokens \in Nat /\ buckets'[d].last_refill \in 0 .. seconds
             /\ buckets'[d].tokens <= Full
  <2>1. CASE d = c
    <3> DEFINE f == Found(c)
    <3>1. f \in Nat /\ f <= Full /\ Full \in Nat /\ f >= Token
      BY <1>1, <1>4, Amounts
    <3> HIDE DEF f
    <3>2. f - Token \in Nat /\ f - Token <= Full
      BY <1>0, <3>1
    <3>3. QED
      BY <1>0, <1>2, <2>1, <3>2 DEF f
  <2>2. CASE d # c
    BY <1>1, <2>2 DEF LimiterInv
  <2>3. QED
    BY <2>1, <2>2
<1>10. QED
  BY <1>1, <1>2, <1>3, <1>6, <1>7, <1>8, <1>9 DEF LimiterInv, Full

(* Every call, and the clock, keep the invariant. *)
LEMMA LimiterStep == LimiterInv /\ [LimiterNext]_limiterVars => LimiterInv'
<1> SUFFICES ASSUME LimiterInv, [LimiterNext]_limiterVars PROVE LimiterInv'
  OBVIOUS
<1>1. ASSUME NEW c \in Clients, CheckAllows(c) PROVE LimiterInv'
  BY <1>1, AllowKeepsInv
<1>2. ASSUME NEW c \in Clients, CheckRefuses(c) PROVE LimiterInv'
  BY <1>2, LookKeepsInv DEF CheckRefuses
<1>3. ASSUME NEW c \in Clients, Peek(c) PROVE LimiterInv'
  BY <1>3, LookKeepsInv DEF Peek
<1>4. ASSUME NEW c \in Clients, ResetClient(c) PROVE LimiterInv'
  <2>1. /\ DOMAIN buckets' = DOMAIN buckets \ {c} /\ seconds' = seconds
        /\ \A d \in DOMAIN buckets' : buckets'[d] = buckets[d] /\ admitted'[d] = admitted[d]
        /\ admitted' \in [Clients -> Seq(Nat)] /\ admitted'[c] = <<>>
        /\ \A d \in Clients : d # c => admitted'[d] = admitted[d]
    BY <1>4 DEF ResetClient, LimiterInv
  <2>2. ASSUME NEW d \in DOMAIN buckets', NEW i \in 1 .. Len(admitted'[d])
        PROVE  Accounted(d, i)'
    BY <2>1, ZenonT(30) DEF Accounted, LimiterInv
  <2>3. NeverAboveRate'
    <3> SUFFICES ASSUME NEW d \in Clients, NEW i \in DOMAIN admitted'[d],
                        NEW j \in i .. Len(admitted'[d])
                 PROVE  WithinRate(j - i + 1, admitted'[d][i], admitted'[d][j])
      BY DEF NeverAboveRate
    <3>1. d # c
      BY <2>1
    <3>2. QED
      BY <2>1, <3>1 DEF LimiterInv, NeverAboveRate
  <2>4. QED
    BY <2>1, <2>2, <2>3 DEF LimiterInv, Full
<1>5. CASE SecondPasses
  BY <1>5 DEF SecondPasses, LimiterInv, NeverAboveRate, WithinRate, Accounted, Full
<1>6. CASE UNCHANGED limiterVars
  BY <1>6 DEF limiterVars, LimiterInv, NeverAboveRate, WithinRate, Accounted, Full
<1>7. QED
  BY <1>1, <1>2, <1>3, <1>4, <1>5, <1>6 DEF LimiterNext

(* A full bucket, or one that a request i explains: all that was allowed   *)
(* from it on, and all that was refilled since, make up what is there.     *)
Explained(c, tokens, at) ==
  \/ tokens = Full
  \/ \E i \in 1 .. Len(admitted[c]) :
       tokens + Worth(Len(admitted[c]) - i + 1) = Full + Flow(admitted[c][i], at)

(* Nothing is lost: every bucket is explained. *)
LimiterExact ==
  /\ LimiterInv
  /\ \A c \in DOMAIN buckets : Explained(c, buckets[c].tokens, buckets[c].last_refill)

(* What a call finds is explained too. *)
LEMMA FoundExplained ==
  ASSUME LimiterExact, NEW c \in Clients
  PROVE  Explained(c, Found(c), seconds)
<1>1. CASE c \in DOMAIN buckets
  <2> DEFINE x == buckets[c].tokens
             l == buckets[c].last_refill
             f == Found(c)
             q == Flow(l, seconds)
  <2>1. x \in Nat /\ l \in Nat /\ l <= seconds /\ seconds \in Nat
    BY <1>1 DEF LimiterExact, LimiterInv
  <2>2. f = IF x + q < Full THEN x + q ELSE Full
    BY <1>1 DEF Found, Refilled, Full, Flow
  <2>3. Explained(c, x, l) /\ x <= Full
    BY <1>1 DEF LimiterExact, LimiterInv
  <2>4. Full \in Nat /\ q \in Nat
    BY <2>1, Amounts, ZenonT(30)
  <2> HIDE DEF x, l, f, q
  <2>5. CASE f = Full
    BY <2>5 DEF Explained, f
  <2>6. CASE f # Full
    <3>1. f = x + q /\ x # Full
      BY <2>1, <2>2, <2>3, <2>4, <2>6
    <3>2. PICK i \in 1 .. Len(admitted[c]) :
            x + Worth(Len(admitted[c]) - i + 1) = Full + Flow(admitted[c][i], l)
      BY <2>3, <3>1 DEF Explained
    <3> DEFINE t == admitted[c][i]
               k == Len(admitted[c]) - i + 1
               w == Worth(k)
               p == Flow(t, l)
    <3>3. t \in Nat /\ k \in Nat /\ t <= l
      BY <1>1 DEF LimiterExact, LimiterInv, Accounted, l
    <3>4. x + w = Full + p
      BY <3>2
    <3>5. w \in Nat /\ p \in Nat
      <4> HIDE DEF t, k
      <4>1. QED
        BY <2>1, <3>3, Amounts, ZenonT(30)
    <3>6. Flow(t, seconds) = p + q
      <4> HIDE DEF t
      <4>1. QED
        BY <2>1, <3>3, Amounts DEF q
    <3> HIDE DEF t, k, w, p
    <3>7. f + w = Full + (p + q)
      BY <2>1, <2>4, <3>1, <3>4, <3>5
    <3>8. QED
      BY <3>6, <3>7 DEF Explained, f, w, t, k
  <2>7. QED
    BY <2>5, <2>6 DEF f
<1>2. CASE c \notin DOMAIN buckets
  BY <1>2 DEF Found, Full, Explained
<1>3. QED
  BY <1>1, <1>2

(* Every call, and the clock, keep the buckets explained. *)
LEMMA ExactStep == LimiterExact /\ [LimiterNext]_limiterVars => LimiterExact'
<1> SUFFICES ASSUME LimiterExact, [LimiterNext]_limiterVars PROVE LimiterExact'
  OBVIOUS
<1>0. LimiterInv /\ LimiterInv'
  BY LimiterStep DEF LimiterExact
<1>1. ASSUME NEW c \in Clients, Put(c, Found(c)), UNCHANGED <<seconds, admitted>>
      PROVE  LimiterExact'
  <2>1. /\ DOMAIN buckets' = DOMAIN buckets \cup {c}
        /\ \A d \in DOMAIN buckets : d # c => buckets'[d] = buckets[d]
        /\ buckets'[c] = [tokens |-> Found(c), last_refill |-> seconds]
    BY <1>1 DEF Put
  <2>2. buckets'[c].tokens = Found(c) /\ buckets'[c].last_refill = seconds
    BY <2>1
  <2>3. QED
    BY <1>0, <1>1, <2>1, <2>2, FoundExplained DEF LimiterExact, Explained
<1>2. ASSUME NEW c \in Clients, CheckAllows(c) PROVE LimiterExact'
  <2> DEFINE n == Len(admitted[c])
             f == Found(c)
  <2>1. n \in Nat /\ admitted[c] \in Seq(Nat) /\ seconds \in Nat /\ Token \in Nat
    BY <1>0, LimiterAssumption DEF LimiterInv
  <2>2. /\ DOMAIN buckets' = DOMAIN buckets \cup {c}
        /\ \A d \in DOMAIN buckets : d # c => buckets'[d] = buckets[d]
        /\ buckets'[c] = [tokens |-> f - Token, last_refill |-> seconds]
    BY <1>2 DEF Put, CheckAllows
  <2>3. buckets'[c].tokens = f - Token /\ buckets'[c].last_refill = seconds
    BY <2>2
  <2>4. /\ \A d \in Clients : d # c => admitted'[d] = admitted[d]
        /\ Len(admitted'[c]) = n + 1
        /\ \A i \in 1 .. n : admitted'[c][i] = admitted[c][i]
        /\ admitted'[c][n + 1] = seconds
    BY <1>0, <1>2, <2>1 DEF LimiterInv, CheckAllows
  <2>5. f \in Nat /\ Full \in Nat /\ Explained(c, f, seconds)
    BY <1>0, FoundAccounted, FoundExplained, Amounts
  <2> HIDE DEF f
  <2>6. \E i \in 1 .. n + 1 :
          f - Token + Worth(n + 1 - i + 1) = Full + Flow(admitted'[c][i], seconds)
    <3>1. CASE f = Full
      <4>1. n + 1 - (n + 1) + 1 = 1 /\ (n + 1) \in 1 .. n + 1
        BY <2>1
      <4>2. Worth(1) = Token /\ Flow(seconds, seconds) = 0
        BY <2>1, LimiterAssumption DEF Worth, Flow
      <4>3. f - Token + Token = Full + 0
        BY <2>1, <2>5, <3>1
      <4>4. QED
        BY <2>4, <4>1, <4>2, <4>3
    <3>2. ASSUME NEW i \in 1 .. n,
                 f + Worth(n - i + 1) = Full + Flow(admitted[c][i], seconds)
          PROVE  f - Token + Worth(n + 1 - i + 1) = Full + Flow(admitted'[c][i], seconds)
      <4>1. (n - i + 1) \in Nat /\ n + 1 - i + 1 = (n - i + 1) + 1
        BY <2>1
      <4>2. Worth(n + 1 - i + 1) = Worth(n - i + 1) + Token /\ Worth(n - i + 1) \in Nat
        BY <4>1, Amounts, ZenonT(30)
      <4>3. admitted[c][i] \in Nat /\ admitted[c][i] <= seconds
        BY <1>0, FoundAccounted
      <4>4. Flow(admitted[c][i], seconds) \in Nat
        BY <2>1, <4>3, Amounts, ZenonT(30)
      <4> DEFINE w == Worth(n - i + 1)
                 q == Flow(admitted[c][i], seconds)
      <4>5. f + w = Full + q /\ w \in Nat /\ q \in Nat
        BY <3>2, <4>2, <4>4
      <4> HIDE DEF w, q
      <4>6. f - Token + (w + Token) = Full + q
        BY <2>1, <2>5, <4>5
      <4>7. QED
        BY <2>4, <4>2, <4>6 DEF w, q
    <3>3. QED
      BY <2>1, <2>5, <3>1, <3>2 DEF Explained
  <2>7. Explained(c, buckets[c].tokens, buckets[c].last_refill)'
    BY <2>3, <2>4, <2>6 DEF Explained
  <2>8. ASSUME NEW d \in DOMAIN buckets, d # c
        PROVE  Explained(d, buckets[d].tokens, buckets[d].last_refill)'
    <3>1. Explained(d, buckets[d].tokens, buckets[d].last_refill) /\ d \in Clients
      BY <1>0 DEF LimiterExact, LimiterInv
    <3>2. buckets'[d] = buckets[d] /\ admitted'[d] = admitted[d]
      BY <2>2, <2>4, <2>8, <3>1
    <3> QED
      BY <3>1, <3>2 DEF Explained
  <2>9. QED
    BY <1>0, <2>2, <2>7, <2>8 DEF LimiterExact
<1>3. ASSUME NEW c \in Clients, ResetClient(c) PROVE LimiterExact'
  BY <1>0, <1>3 DEF ResetClient, LimiterExact, LimiterInv, Explained
<1>4. CASE SecondPasses \/ UNCHANGED limiterVars
  BY <1>0, <1>4 DEF SecondPasses, limiterVars, LimiterExact, Explained
<1>5. QED
  BY <1>1, <1>2, <1>3, <1>4 DEF LimiterNext, CheckRefuses, Peek

(* For every capacity and rate, no client is ever allowed more than the    *)
(* capacity and what was refilled between two of its requests, and none is *)
(* refused a request that would stay within that.                          *)
THEOREM RateExact == LimiterSpec => []AllowsExactlyTheRate
<1>1. LimiterInit => LimiterExact
  <2> SUFFICES ASSUME LimiterInit PROVE LimiterExact
    OBVIOUS
  <2>1. seconds \in Nat /\ DOMAIN buckets = {} /\ admitted \in [Clients -> Seq(Nat)]
    BY DEF LimiterInit
  <2>2. \A c \in Clients : admitted[c] = <<>> /\ DOMAIN admitted[c] = {}
    BY DEF LimiterInit
  <2>3. NeverAboveRate
    BY <2>2 DEF NeverAboveRate
  <2> QED
    BY <2>1, <2>2, <2>3 DEF LimiterExact, LimiterInv
<1>2. LimiterExact => NeverAboveRate /\ RefusesOnlyExcess
  <2> SUFFICES ASSUME LimiterExact, NEW c \in Clients, ~Allows(c), Capacity # 0
               PROVE  \E i \in DOMAIN admitted[c] :
                        ~WithinRate(Len(admitted[c]) - i + 2, admitted[c][i], seconds)
    BY DEF LimiterExact, LimiterInv, RefusesOnlyExcess
  <2> DEFINE f == Found(c)
             n == Len(admitted[c])
  <2>1. f \in Nat /\ Full \in Nat /\ f < Token /\ seconds \in Nat /\ Token \in Nat
    <3>1. f \in Nat /\ Full \in Nat /\ seconds \in Nat /\ Token \in Nat
      BY FoundAccounted, Amounts, LimiterAssumption, ZenonT(30) DEF LimiterExact, LimiterInv
    <3>2. ~(f >= Token)
      BY DEF Allows
    <3> HIDE DEF f
    <3>3. QED
      BY <3>1, <3>2
  <2>2. Token <= Full
    BY LimiterAssumption DEF Full
  <2>3. n \in Nat /\ DOMAIN admitted[c] = 1 .. n
    BY DEF LimiterExact, LimiterInv
  <2>4. PICK i \in 1 .. n : f + Worth(n - i + 1) = Full + Flow(admitted[c][i], seconds)
    BY <2>1, <2>2, FoundExplained DEF Explained
  <2>5. admitted[c][i] \in Nat /\ admitted[c][i] <= seconds
    BY FoundAccounted DEF LimiterExact
  <2>6. (n - i + 1) \in Nat /\ n - i + 2 = (n - i + 1) + 1
    BY <2>3
  <2>7. Worth(n - i + 2) = Worth(n - i + 1) + Token /\ Worth(n - i + 1) \in Nat
    BY <2>6, Amounts, ZenonT(30)
  <2>8. Flow(admitted[c][i], seconds) \in Nat
    BY <2>1, <2>5, Amounts, ZenonT(30)
  <2> DEFINE w == Worth(n - i + 1)
             q == Flow(admitted[c][i], seconds)
  <2>9. f + w = Full + q /\ w \in Nat /\ q \in Nat
    BY <2>4, <2>7, <2>8
  <2> HIDE DEF f, w, q
  <2>10. ~(w + Token <= Full + q)
    BY <2>1, <2>9
  <2>11. ~(Worth(n - i + 2) <= Full + Flow(admitted[c][i], seconds))
    BY <2>7, <2>10 DEF w, q
  <2>12. QED
    BY <2>3, <2>11 DEF WithinRate, Worth, Full, Flow
<1>3. QED
  BY <1>1, <1>2, ExactStep, PTL DEF LimiterSpec, AllowsExactlyTheRate

-----------------------------------------------------------------------------
(* Daemon. *)

(* The numbers of the messages of a list that a reply is due to. *)
DueIn(s) == {n \in DOMAIN s : ReplyDue(s[n])}

(* The replies are in the order of the messages. *)
Rising(r) == \A i, j \in 1 .. Len(r) : i < j => r[i] < r[j]

(* What is so of a connection in state c, with replies r to the messages   *)
(* s; lost: those whose client is gone, or dropped while they wrote.       *)
Answered(c, r, s, p, lost) ==
  /\ r \in Seq(Nat) /\ s \in Seq(Messages)
  /\ Rising(r)
  /\ \/ Range(r) = DueIn(s)
     \/ (c = "writing" \/ p \in lost) /\ Range(r) = DueIn(s) \ {Len(s)}
  /\ c \in {"new", "queued", "serving"} => Range(r) = DueIn(s)
  /\ c = "writing" => Len(s) \in DueIn(s) /\ Range(r) = DueIn(s) \ {Len(s)}

(* A connection that may still read has read nothing since the token was   *)
(* set, and nothing was dropped before the daemon exited.                  *)
DaemonInv ==
  /\ conn \in [Peers -> {"new", "queued", "serving", "writing", "ended"}]
  /\ unread \in [Peers -> Seq(Messages)]
  /\ taken \in [Peers -> Seq(Messages)]
  /\ replies \in [Peers -> Seq(Nat)]
  /\ atCancel \in [Peers -> Nat]
  /\ cancelled \in BOOLEAN
  /\ daemon = "running" => cut = {}
  /\ \A p \in Peers : Answered(conn[p], replies[p], taken[p], p, gone \cup cut)
  /\ cancelled => \A p \in Peers :
       /\ Len(taken[p]) <= atCancel[p] + 1
       /\ conn[p] \in {"new", "queued", "serving"} => Len(taken[p]) <= atCancel[p]

(* One more message read. *)
LEMMA DueAppend ==
  ASSUME NEW s \in Seq(Messages), NEW m \in Messages
  PROVE  /\ Len(s) \in Nat /\ Append(s, m) \in Seq(Messages)
         /\ Len(Append(s, m)) = Len(s) + 1
         /\ DueIn(s) \subseteq 1 .. Len(s)
         /\ ReplyDue(m) => DueIn(Append(s, m)) = DueIn(s) \cup {Len(s) + 1}
         /\ ~ReplyDue(m) => DueIn(Append(s, m)) = DueIn(s)
<1>1. /\ Len(s) \in Nat /\ DOMAIN s = 1 .. Len(s)
      /\ Append(s, m) \in Seq(Messages)
      /\ Len(Append(s, m)) = Len(s) + 1
      /\ DOMAIN Append(s, m) = 1 .. Len(s) + 1
      /\ \A i \in 1 .. Len(s) : Append(s, m)[i] = s[i]
      /\ Append(s, m)[Len(s) + 1] = m
  OBVIOUS
<1>a. PICK n \in Nat : n = Len(s)
  BY <1>1, ZenonT(30)
<1>b. PICK t : t = Append(s, m)
  BY ZenonT(30)
<1>2. n = Len(s) /\ t = Append(s, m)
  BY <1>a, <1>b
<1>3. /\ DOMAIN s = 1 .. n /\ DOMAIN t = 1 .. n + 1
      /\ \A i \in 1 .. n : t[i] = s[i]
  BY <1>1, <1>2
<1>4. 1 .. n + 1 = (1 .. n) \cup {n + 1} /\ n + 1 \notin 1 .. n /\ t[n + 1] = m
  BY <1>1, <1>2
<1>5. ReplyDue(m) => DueIn(t) = DueIn(s) \cup {n + 1}
  BY <1>3, <1>4, Zenon DEF DueIn
<1>6. ASSUME ~ReplyDue(m) PROVE DueIn(t) = DueIn(s)
  <2>1. \A i \in 1 .. n : i \in 1 .. n + 1 /\ i # n + 1
    OBVIOUS
  <2>2. DueIn(s) \subseteq DueIn(t)
    BY <1>3, <2>1, Zenon DEF DueIn
  <2>3. DueIn(t) \subseteq DueIn(s)
    BY <1>3, <1>4, <1>6, Zenon DEF DueIn
  <2> QED
    BY <2>2, <2>3, ZenonT(30)
<1>7. DueIn(s) \subseteq 1 .. n
  BY <1>3 DEF DueIn
<1> QED
  BY <1>1, <1>2, <1>5, <1>6, <1>7

(* One more reply written, to a later message. *)
LEMMA ReplyAppend ==
  ASSUME NEW r \in Seq(Nat), Rising(r), NEW n \in Nat, \A k \in Range(r) : k < n
  PROVE  /\ Append(r, n) \in Seq(Nat) /\ Rising(Append(r, n))
         /\ Range(Append(r, n)) = Range(r) \cup {n}
<1>0. Len(r) \in Nat
  OBVIOUS
<1>a. PICK l \in Nat : l = Len(r)
  BY <1>0
<1>b. PICK t : t = Append(r, n)
  BY ZenonT(30)
<1>1. l = Len(r) /\ t = Append(r, n)
  BY <1>a, <1>b
<1>2. /\ DOMAIN r = 1 .. l /\ DOMAIN t = 1 .. l + 1 /\ t \in Seq(Nat) /\ Len(t) = l + 1
      /\ \A i \in 1 .. l : t[i] = r[i]
      /\ t[l + 1] = n
  BY <1>1
<1>3. 1 .. l + 1 = (1 .. l) \cup {l + 1}
  OBVIOUS
<1>4. Range(t) = Range(r) \cup {n}
  <2>1. Range(r) = {r[i] : i \in 1 .. l} /\ Range(t) = {t[i] : i \in 1 .. l + 1}
    BY <1>2 DEF Range
  <2> QED
    BY <1>2, <1>3, <2>1
<1>5. ASSUME NEW i \in 1 .. l + 1, NEW j \in 1 .. l + 1, i < j
      PROVE  t[i] < t[j]
  <2>1. i \in 1 .. l
    BY <1>5
  <2>2. CASE j = l + 1
    <3>1. r[i] \in Range(r)
      BY <1>2, <2>1 DEF Range
    <3> QED
      BY <1>2, <2>1, <2>2, <3>1
  <2>3. CASE j \in 1 .. l
    BY <1>1, <1>2, <1>5, <2>1, <2>3 DEF Rising
  <2> QED
    BY <2>2, <2>3
<1>6. Rising(t)
  BY <1>2, <1>5 DEF Rising
<1> QED
  BY <1>1, <1>2, <1>4, <1>6

(* A message read and answered. *)
LEMMA AnswerWritten ==
  ASSUME NEW r, NEW s, NEW p, NEW lost, NEW m \in Messages, NEW c,
         Answered("serving", r, s, p, lost), ReplyDue(m), c # "writing"
  PROVE  Answered(c, Append(r, Len(s) + 1), Append(s, m), p, lost)
<1>1. /\ r \in Seq(Nat) /\ s \in Seq(Messages) /\ Rising(r) /\ Range(r) = DueIn(s)
  BY DEF Answered
<1>2. /\ Len(s) \in Nat /\ Append(s, m) \in Seq(Messages)
      /\ DueIn(s) \subseteq 1 .. Len(s)
      /\ DueIn(Append(s, m)) = DueIn(s) \cup {Len(s) + 1}
  BY <1>1, DueAppend
<1>3. PICK n \in Nat : n = Len(s) + 1 /\ \A k \in Range(r) : k < n
  BY <1>1, <1>2
<1>4. /\ Append(r, n) \in Seq(Nat) /\ Rising(Append(r, n))
      /\ Range(Append(r, n)) = Range(r) \cup {n}
  BY <1>1, <1>3, ReplyAppend
<1> QED
  BY <1>1, <1>2, <1>3, <1>4 DEF Answered

(* A message read whose reply waits, or is never written. *)
LEMMA AnswerWaits ==
  ASSUME NEW r, NEW s, NEW p, NEW lost, NEW m \in Messages, NEW c,
         Answered("serving", r, s, p, lost), ReplyDue(m),
         c = "writing" \/ (c = "ended" /\ p \in lost)
  PROVE  Answered(c, r, Append(s, m), p, lost)
<1>1. /\ r \in Seq(Nat) /\ s \in Seq(Messages) /\ Rising(r) /\ Range(r) = DueIn(s)
  BY DEF Answered
<1>a. PICK n \in Nat : n = Len(s)
  BY <1>1, DueAppend
<1>b. PICK t, due : t = Append(s, m) /\ due = DueIn(t)
  BY ZenonT(30)
<1>2. n = Len(s) /\ t = Append(s, m) /\ due = DueIn(t)
  BY <1>a, <1>b
<1>3. /\ t \in Seq(Messages) /\ Len(t) = n + 1
      /\ DueIn(s) \subseteq 1 .. n
      /\ due = DueIn(s) \cup {n + 1}
  BY <1>1, <1>2, DueAppend
<1>4. Len(t) \in due /\ Range(r) = due \ {Len(t)}
  BY <1>1, <1>3
<1>5. Answered(c, r, t, p, lost)
  BY <1>1, <1>2, <1>3, <1>4 DEF Answered
<1> QED
  BY <1>2, <1>5

(* A message read that gets no reply. *)
LEMMA NoAnswer ==
  ASSUME NEW r, NEW s, NEW p, NEW lost, NEW m \in Messages, NEW c,
         Answered("serving", r, s, p, lost), ~ReplyDue(m), c # "writing"
  PROVE  Answered(c, r, Append(s, m), p, lost)
BY DueAppend DEF Answered

(* The reply that waited. *)
LEMMA AnswerResumed ==
  ASSUME NEW r, NEW s, NEW p, NEW lost, NEW c, Answered("writing", r, s, p, lost), c # "writing"
  PROVE  Answered(c, Append(r, Len(s)), s, p, lost)
<1>1. /\ r \in Seq(Nat) /\ s \in Seq(Messages) /\ Rising(r)
      /\ Len(s) \in DueIn(s) /\ Range(r) = DueIn(s) \ {Len(s)}
  BY DEF Answered
<1>2. PICK n \in Nat : n = Len(s)
  BY <1>1
<1>3. DueIn(s) \subseteq 1 .. n
  BY <1>1, <1>2 DEF DueIn
<1>4. \A k \in Range(r) : k < n
  BY <1>1, <1>2, <1>3
<1>5. /\ Append(r, n) \in Seq(Nat) /\ Rising(Append(r, n))
      /\ Range(Append(r, n)) = Range(r) \cup {n}
  BY <1>1, <1>4, ReplyAppend
<1>6. Range(Append(r, n)) = DueIn(s)
  BY <1>1, <1>2, <1>5
<1> QED
  BY <1>1, <1>2, <1>5, <1>6 DEF Answered

(* The state of a connection that stops. *)
LEMMA StaysAnswered ==
  ASSUME NEW r, NEW s, NEW p, NEW lost, NEW c, NEW lost2, NEW c2, Answered(c, r, s, p, lost),
         p \in lost => p \in lost2,
         \/ c2 = c
         \/ c2 = "ended" /\ (c = "writing" => p \in lost2)
         \/ c2 \in {"queued", "serving"} /\ c \in {"new", "queued", "serving"}
  PROVE  Answered(c2, r, s, p, lost2)
BY DEF Answered

(* A step that moves one connection and reads nothing. *)
LEMMA ConnMoves ==
  ASSUME DaemonInv, NEW p \in Peers, NEW c,
         UNCHANGED <<taken, replies, cancelled, daemon, atCancel, cut, gone>>,
         unread' \in [Peers -> Seq(Messages)],
         conn' = [conn EXCEPT ![p] = c],
         \/ c = conn[p]
         \/ c = "ended" /\ (conn[p] = "writing" => p \in gone)
         \/ c \in {"queued", "serving"} /\ conn[p] \in {"new", "queued", "serving"}
  PROVE  DaemonInv'
<1>1. /\ conn' \in [Peers -> {"new", "queued", "serving", "writing", "ended"}]
      /\ conn'[p] = c
      /\ \A q \in Peers : q # p => conn'[q] = conn[q]
  BY DEF DaemonInv
<1>2. ASSUME NEW q \in Peers
      PROVE  Answered(conn'[q], replies[q], taken[q], q, gone \cup cut)
  <2>1. PICK b, d : b = conn[q] /\ d = conn'[q]
    BY ZenonT(30)
  <2>2. Answered(b, replies[q], taken[q], q, gone \cup cut)
    BY <2>1, ZenonT(30) DEF DaemonInv
  <2>3. \/ d = b
        \/ d = "ended" /\ (b = "writing" => q \in gone \cup cut)
        \/ d \in {"queued", "serving"} /\ b \in {"new", "queued", "serving"}
    BY <1>1, <2>1
  <2>4. Answered(d, replies[q], taken[q], q, gone \cup cut)
    BY <2>2, <2>3, StaysAnswered
  <2> QED
    BY <2>1, <2>4
<1>3. ASSUME NEW q \in Peers, cancelled, conn'[q] \in {"new", "queued", "serving"}
      PROVE  Len(taken[q]) <= atCancel[q]
  BY <1>1, <1>3 DEF DaemonInv
<1> QED
  BY <1>1, <1>2, <1>3, ZenonT(30) DEF DaemonInv

(* A message sent, or a client gone. *)
LEMMA ClientActs ==
  ASSUME DaemonInv,
         UNCHANGED <<taken, replies, cancelled, daemon, atCancel, cut, conn>>,
         unread' \in [Peers -> Seq(Messages)], gone \subseteq gone'
  PROVE  DaemonInv'
<1>1. ASSUME NEW q \in Peers
      PROVE  Answered(conn[q], replies[q], taken[q], q, gone' \cup cut)
  BY StaysAnswered DEF DaemonInv
<1> QED
  BY <1>1, ZenonT(30) DEF DaemonInv

(* run_tcp returns: what was being written is cut. *)
LEMMA ExitKeeps ==
  ASSUME DaemonInv, daemon = "running", Exit
  PROVE  DaemonInv'
<1>1. /\ conn' \in [Peers -> {"new", "queued", "serving", "writing", "ended"}]
      /\ \A q \in Peers : conn'[q] = "ended"
  BY DEF Exit
<1>2. ASSUME NEW q \in Peers
      PROVE  Answered("ended", replies[q], taken[q], q, gone \cup cut')
  <2>1. q \in gone \cup cut => q \in gone \cup cut'
    BY DEF DaemonInv
  <2>2. conn[q] = "writing" => q \in gone \cup cut'
    BY DEF Exit
  <2>3. Answered(conn[q], replies[q], taken[q], q, gone \cup cut)
    BY ZenonT(30) DEF DaemonInv
  <2> QED
    BY <2>1, <2>2, <2>3, StaysAnswered
<1>3. daemon' # "running"
  BY DEF Exit
<1>4. UNCHANGED <<gone, unread, taken, replies, cancelled, atCancel>>
  BY DEF Exit
<1> QED
  BY <1>1, <1>2, <1>3, <1>4, ZenonT(30) DEF DaemonInv

(* A reply that waited is written, and the connection goes on or ends. *)
LEMMA ResumeKeeps ==
  ASSUME DaemonInv, NEW p \in Peers, ResumeWrite(p)
  PROVE  DaemonInv'
<1>0. conn[p] = "writing" /\ UNCHANGED <<gone, unread, taken, cancelled, daemon, atCancel, cut>>
  BY DEF ResumeWrite
<1>1. CASE p \in gone /\ Becomes(p, "ended") /\ UNCHANGED replies
  <2>1. unread' \in [Peers -> Seq(Messages)]
    BY <1>0 DEF DaemonInv
  <2> QED
    BY <1>0, <1>1, <2>1, ConnMoves, ZenonT(30) DEF Becomes
<1>2. CASE /\ replies' = [replies EXCEPT ![p] = Append(@, Len(taken[p]))]
           /\ Becomes(p, AfterMessage(cancelled))
  <2>1. PICK c : c = AfterMessage(cancelled)
    OBVIOUS
  <2>2. c \in {"serving", "ended"} /\ (cancelled => c = "ended")
    BY <2>1 DEF AfterMessage, LoopsOn
  <2>3. /\ conn' \in [Peers -> {"new", "queued", "serving", "writing", "ended"}]
        /\ conn'[p] = c
        /\ \A q \in Peers : q # p => conn'[q] = conn[q]
    BY <1>2, <2>1, <2>2 DEF DaemonInv, Becomes
  <2>4. Len(taken[p]) \in Nat
    BY DEF DaemonInv
  <2>5. /\ replies' \in [Peers -> Seq(Nat)]
        /\ replies'[p] = Append(replies[p], Len(taken[p]))
        /\ \A q \in Peers : q # p => replies'[q] = replies[q]
    BY <1>2, <2>4 DEF DaemonInv
  <2>6. ASSUME NEW q \in Peers
        PROVE  Answered(conn'[q], replies'[q], taken[q], q, gone \cup cut)
    <3>1. Answered(conn[q], replies[q], taken[q], q, gone \cup cut)
      BY ZenonT(30) DEF DaemonInv
    <3>2. CASE q = p
      <4>1. Answered("writing", replies[p], taken[p], p, gone \cup cut)
        BY <1>0, <3>1, <3>2
      <4>2. Answered(c, Append(replies[p], Len(taken[p])), taken[p], p, gone \cup cut)
        BY <2>2, <4>1, AnswerResumed
      <4> QED
        BY <2>3, <2>5, <3>2, <4>2, ZenonT(30)
    <3> QED
      BY <2>3, <2>5, <3>1, <3>2
  <2>7. ASSUME NEW q \in Peers, cancelled, conn'[q] \in {"new", "queued", "serving"}
        PROVE  Len(taken[q]) <= atCancel[q]
    BY <2>2, <2>3, <2>7 DEF DaemonInv
  <2> QED
    BY <1>0, <2>3, <2>5, <2>6, <2>7, ZenonT(30) DEF DaemonInv
<1> QED
  BY <1>1, <1>2 DEF ResumeWrite

(* A message is read, processed and perhaps answered. *)
LEMMA HandleKeeps ==
  ASSUME DaemonInv, NEW p \in Peers, HandleMessage(p)
  PROVE  DaemonInv'
<1>1. PICK m, stopping : m = Head(unread[p]) /\ stopping = (cancelled \/ Cancels(m))
  OBVIOUS
<1>2. m \in Messages /\ stopping \in BOOLEAN /\ unread[p] # <<>>
  BY <1>1 DEF HandleMessage, DaemonInv
<1>3. /\ conn[p] = "serving" /\ daemon = "running" /\ cancelled' = stopping
      /\ unread' = [unread EXCEPT ![p] = Tail(@)]
      /\ taken' = [taken EXCEPT ![p] = Append(@, m)]
      /\ UNCHANGED <<gone, daemon, cut>>
  BY <1>1, ZenonT(30) DEF HandleMessage
<1>4. /\ unread' \in [Peers -> Seq(Messages)]
  BY <1>2, <1>3 DEF DaemonInv
<1>5. PICK s, r, n : s = taken[p] /\ r = replies[p] /\ n = Len(s)
  BY ZenonT(30)
<1>6. /\ s \in Seq(Messages) /\ r \in Seq(Nat) /\ n \in Nat
      /\ Append(s, m) \in Seq(Messages) /\ Len(Append(s, m)) = n + 1
  BY <1>2, <1>5 DEF DaemonInv
<1>7. /\ taken' \in [Peers -> Seq(Messages)]
      /\ taken'[p] = Append(s, m) /\ Len(taken'[p]) = n + 1
      /\ \A q \in Peers : q # p => taken'[q] = taken[q]
  BY <1>3, <1>5, <1>6 DEF DaemonInv
<1>8. Answered("serving", r, s, p, gone \cup cut)
  BY <1>3, <1>5, ZenonT(30) DEF DaemonInv
<1>9. PICK c, new : /\ c \in {"serving", "writing", "ended"} /\ (stopping => c # "serving")
                    /\ new \in Seq(Nat)
                    /\ conn' = [conn EXCEPT ![p] = c]
                    /\ replies' = [replies EXCEPT ![p] = new]
                    /\ Answered(c, new, Append(s, m), p, gone \cup cut)
  <2>0. replies = [replies EXCEPT ![p] = r]
    BY <1>5 DEF DaemonInv
  <2>1. PICK after : after = AfterMessage(stopping)
    OBVIOUS
  <2>2. after \in {"serving", "ended"} /\ (stopping => after = "ended")
    BY <2>1 DEF AfterMessage, LoopsOn
  <2>3. CASE ~ReplyDue(m)
    <3>1. conn' = [conn EXCEPT ![p] = after] /\ replies' = replies
      BY <1>1, <2>1, <2>3 DEF HandleMessage, Answers, Becomes
    <3>2. Answered(after, r, Append(s, m), p, gone \cup cut)
      BY <1>2, <1>8, <2>2, <2>3, NoAnswer
    <3> QED
      BY <1>6, <2>0, <2>2, <3>1, <3>2, ZenonT(30)
  <2>4. CASE ReplyDue(m)
    <3>1. WriteReply(p, n + 1, stopping)
      BY <1>1, <1>7, <2>4, ZenonT(30) DEF HandleMessage, Answers
    <3>2. CASE replies' = [replies EXCEPT ![p] = Append(@, n + 1)] /\ Becomes(p, after)
      <4>1. replies' = [replies EXCEPT ![p] = Append(r, n + 1)] /\ Append(r, n + 1) \in Seq(Nat)
        BY <1>5, <1>6, <3>2
      <4>2. Answered(after, Append(r, n + 1), Append(s, m), p, gone \cup cut)
        BY <1>2, <1>5, <1>8, <2>2, <2>4, AnswerWritten
      <4> QED
        BY <2>2, <3>2, <4>1, <4>2, ZenonT(30) DEF Becomes
    <3>3. CASE Becomes(p, "writing") /\ UNCHANGED replies
      <4>1. Answered("writing", r, Append(s, m), p, gone \cup cut)
        <5>1. PICK w : w = "writing"
          OBVIOUS
        <5>2. Answered(w, r, Append(s, m), p, gone \cup cut)
          BY <1>2, <1>8, <2>4, <5>1, AnswerWaits
        <5> QED
          BY <5>1, <5>2
      <4> QED
        BY <1>6, <2>0, <3>3, <4>1, ZenonT(30) DEF Becomes
    <3>4. CASE p \in gone /\ Becomes(p, "ended") /\ UNCHANGED replies
      <4>1. Answered("ended", r, Append(s, m), p, gone \cup cut)
        BY <1>2, <1>8, <2>4, <3>4, AnswerWaits
      <4> QED
        BY <1>6, <2>0, <3>4, <4>1, ZenonT(30) DEF Becomes
    <3> QED
      BY <2>1, <3>1, <3>2, <3>3, <3>4, ZenonT(30) DEF WriteReply
  <2> QED
    BY <2>3, <2>4, ZenonT(30)
<1>10. /\ conn' \in [Peers -> {"new", "queued", "serving", "writing", "ended"}]
       /\ conn'[p] = c /\ \A q \in Peers : q # p => conn'[q] = conn[q]
       /\ replies' \in [Peers -> Seq(Nat)]
       /\ replies'[p] = new /\ \A q \in Peers : q # p => replies'[q] = replies[q]
  BY <1>9 DEF DaemonInv
<1>11. ASSUME NEW q \in Peers
       PROVE  Answered(conn'[q], replies'[q], taken'[q], q, gone \cup cut)
  <2>1. CASE q = p
    BY <1>7, <1>9, <1>10, <2>1, ZenonT(30)
  <2>2. CASE q # p
    BY <1>7, <1>10, <2>2, ZenonT(30) DEF DaemonInv
  <2> QED
    BY <2>1, <2>2, ZenonT(30)
<1>12. atCancel' = IF stopping /\ ~cancelled
                   THEN [q \in Peers |-> Len(taken'[q])] ELSE atCancel
  BY <1>1, ZenonT(30) DEF HandleMessage
<1>13. \A q \in Peers : Len(taken'[q]) \in Nat
  BY <1>7
<1>14. /\ atCancel' \in [Peers -> Nat]
       /\ stopping => \A q \in Peers :
            /\ Len(taken'[q]) <= atCancel'[q] + 1
            /\ conn'[q] \in {"new", "queued", "serving"} => Len(taken'[q]) <= atCancel'[q]
  <2>1. CASE stopping /\ ~cancelled
    BY <1>12, <1>13, <2>1
  <2>2. CASE ~(stopping /\ ~cancelled)
    <3>1. atCancel' = atCancel
      BY <1>12, <2>2
    <3>2. ASSUME stopping, NEW q \in Peers
          PROVE  /\ Len(taken'[q]) <= atCancel[q] + 1
                 /\ conn'[q] \in {"new", "queued", "serving"} => Len(taken'[q]) <= atCancel[q]
      <4>1. cancelled
        BY <2>2, <3>2
      <4>2. CASE q = p
        <5>1. n <= atCancel[p] /\ atCancel[p] \in Nat
          BY <1>3, <1>5, <4>1 DEF DaemonInv
        <5>2. conn'[p] \notin {"new", "queued", "serving"}
          BY <1>9, <1>10, <3>2
        <5> QED
          BY <1>6, <1>7, <4>2, <5>1, <5>2
      <4>3. CASE q # p
        BY <1>7, <1>10, <4>1, <4>3 DEF DaemonInv
      <4> QED
        BY <4>2, <4>3
    <3> QED
      BY <3>1, <3>2 DEF DaemonInv
  <2> QED
    BY <2>1, <2>2
<1> QED
  BY <1>2, <1>3, <1>4, <1>7, <1>10, <1>11, <1>14, ZenonT(30) DEF DaemonInv

(* Every step of the daemon and of its clients keeps the invariant. *)
LEMMA DaemonStep ==
  ASSUME DaemonInv, [DaemonNext]_daemonVars
  PROVE  DaemonInv'
<1>0. unread \in [Peers -> Seq(Messages)]
  BY DEF DaemonInv
<1>1. CASE UNCHANGED daemonVars
  <2>1. UNCHANGED <<conn, gone, unread, taken, replies, cancelled, daemon, atCancel, cut>>
    BY <1>1 DEF daemonVars
  <2> QED
    BY <1>0, <2>1, ClientActs
<1>2. ASSUME NEW p \in Peers, Connect(p) \/ Accept(p) \/ EndRead(p)
      PROVE  DaemonInv'
  <2>1. PICK c : /\ conn' = [conn EXCEPT ![p] = c]
                 /\ \/ c = "ended" /\ conn[p] # "writing"
                    \/ c \in {"queued", "serving"} /\ conn[p] \in {"new", "queued", "serving"}
    BY <1>2 DEF Connect, Accept, EndRead, Becomes
  <2>2. UNCHANGED <<gone, unread, taken, replies, cancelled, daemon, atCancel, cut>>
    BY <1>2 DEF Connect, Accept, EndRead
  <2> QED
    BY <1>0, <2>1, <2>2, ConnMoves, ZenonT(30)
<1>3. ASSUME NEW p \in Peers, NEW m \in Messages, SendMessage(p, m)
      PROVE  DaemonInv'
  <2>1. unread' \in [Peers -> Seq(Messages)]
    BY <1>0, <1>3 DEF SendMessage
  <2>2. UNCHANGED <<conn, gone, taken, replies, cancelled, daemon, atCancel, cut>>
    BY <1>3 DEF SendMessage
  <2> QED
    BY <2>1, <2>2, ClientActs
<1>4. ASSUME NEW p \in Peers, Hang(p)
      PROVE  DaemonInv'
  BY <1>0, <1>4, ClientActs DEF Hang
<1>5. CASE StopDaemon \/ AcceptFails
  BY <1>5, ExitKeeps DEF StopDaemon, AcceptFails
<1> QED
  BY <1>1, <1>2, <1>3, <1>4, <1>5, HandleKeeps, ResumeKeeps DEF DaemonNext

(* A daemon that just started has it. *)
LEMMA DaemonStart ==
  ASSUME DaemonInit
  PROVE  DaemonInv
<1>1. <<>> \in Seq(Messages) /\ <<>> \in Seq(Nat) /\ Len(<<>>) = 0
  OBVIOUS
<1>2. Rising(<<>>) /\ Range(<<>>) = {} /\ DueIn(<<>>) = {}
  BY DEF Rising, Range, DueIn
<1>3. \A p, lost : Answered("new", <<>>, <<>>, p, lost)
  BY <1>1, <1>2 DEF Answered
<1> QED
  BY <1>1, <1>3, ZenonT(30) DEF DaemonInit, DaemonInv

(* Around a shutdown, every message that drive_connection read is answered *)
(* once and in order, but for the last one of a client that is gone or of  *)
(* a write that the exit cut; and no connection reads more than one        *)
(* message after the token is set.                                         *)
THEOREM DaemonSafety == DaemonSpec => []AnsweredUntilShutdown
<1>1. DaemonInit => DaemonInv
  BY DaemonStart
<1>2. DaemonInv /\ [DaemonNext]_daemonVars => DaemonInv'
  BY DaemonStep
<1>3. DaemonInv => AnsweredUntilShutdown
  <2> SUFFICES ASSUME DaemonInv PROVE AnsweredUntilShutdown
    OBVIOUS
  <2>1. OneMoreMessage
    BY DEF DaemonInv, OneMoreMessage
  <2>2. ASSUME NEW p \in Peers
        PROVE  /\ \A i, j \in DOMAIN replies[p] : i < j => replies[p][i] < replies[p][j]
               /\ \/ Range(replies[p]) = DueReplies(p)
                  \/ /\ conn[p] = "writing" \/ p \in gone \cup cut
                     /\ Range(replies[p]) = DueReplies(p) \ {Len(taken[p])}
    <3>1. Answered(conn[p], replies[p], taken[p], p, gone \cup cut)
      BY ZenonT(30) DEF DaemonInv
    <3>2. DueReplies(p) = DueIn(taken[p])
      BY DEF DueReplies, DueIn
    <3>3. DOMAIN replies[p] = 1 .. Len(replies[p])
      BY <3>1 DEF Answered
    <3> QED
      BY <3>1, <3>2, <3>3, ZenonT(30) DEF Answered, Rising
  <2> QED
    BY <2>1, <2>2 DEF AnsweredUntilShutdown, AnsweredInOrder
<1> QED
  BY <1>1, <1>2, <1>3, PTL DEF DaemonSpec

-----------------------------------------------------------------------------
(* WalStreamer: the entries that stream_since filters out of the log. *)

(* A set of indices is finite, and so is every part of it. *)
LEMMA IndicesFinite ==
  ASSUME NEW n \in Nat, NEW I \in SUBSET (1 .. n), NEW J \in SUBSET I
  PROVE  /\ IsFiniteSet(I) /\ IsFiniteSet(J) /\ Cardinality(I) \in Nat /\ Cardinality(J) \in Nat
         /\ Cardinality(J) <= Cardinality(I) /\ (Cardinality(I) = Cardinality(J) => I = J)
<1>1. IsFiniteSet(1 .. n)
  BY FS_Interval
<1>2. IsFiniteSet(I)
  BY <1>1, FS_Subset, ZenonT(30)
<1>3. IsFiniteSet(J) /\ Cardinality(J) <= Cardinality(I) /\ (Cardinality(I) = Cardinality(J) => I = J)
  BY <1>2, FS_Subset, ZenonT(30)
<1> QED
  BY <1>2, <1>3, FS_CardinalityType

(* The ranks of indices. *)
LEMMA Ranks ==
  ASSUME NEW n \in Nat, NEW I \in SUBSET (1 .. n)
  PROVE  /\ \A i \in 1 .. n : Rank(I, i) \in Nat /\ Rank(I, i) <= Cardinality(I)
         /\ \A i \in I : Rank(I, i) \in 1 .. Cardinality(I)
         /\ \A i, j \in I : i < j => Rank(I, i) < Rank(I, j)
<1>1. ASSUME NEW i \in 1 .. n
      PROVE  Rank(I, i) \in Nat /\ Rank(I, i) <= Cardinality(I)
  <2>1. {j \in I : j <= i} \in SUBSET I
    OBVIOUS
  <2> QED
    BY <2>1, IndicesFinite, ZenonT(30) DEF Rank
<1>2. ASSUME NEW i \in I PROVE Rank(I, i) # 0
  <2>1. PICK J : J = {j \in I : j <= i}
    BY ZenonT(30)
  <2>2. J \in SUBSET I /\ i \in J
    BY <2>1
  <2>3. IsFiniteSet(J)
    BY <2>2, IndicesFinite, ZenonT(30)
  <2> QED
    BY <2>1, <2>2, <2>3, FS_EmptySet DEF Rank
<1>3. ASSUME NEW i \in I, NEW j \in I, i < j PROVE Rank(I, i) < Rank(I, j)
  <2>1. PICK A, B : A = {x \in I : x <= i} /\ B = {x \in I : x <= j}
    BY ZenonT(30)
  <2>2. A \in SUBSET B /\ B \in SUBSET (1 .. n) /\ A # B
    <3>1. \A x \in I : x \in Nat
      OBVIOUS
    <3>2. \A x \in I : x <= i => x <= j
      BY <1>3, <3>1
    <3>3. ~(j <= i) /\ j <= j
      BY <1>3, <3>1
    <3>4. j \in B /\ j \notin A
      BY <2>1, <3>3
    <3> QED
      BY <2>1, <3>2, <3>4, ZenonT(30)
  <2>3. /\ Cardinality(A) \in Nat /\ Cardinality(B) \in Nat
        /\ Cardinality(A) <= Cardinality(B) /\ Cardinality(A) # Cardinality(B)
    BY <2>2, IndicesFinite, ZenonT(30)
  <2> QED
    BY <2>1, <2>3 DEF Rank
<1>4. Cardinality(I) \in Nat
  BY IndicesFinite, ZenonT(30)
<1>5. \A i \in I : Rank(I, i) \in 1 .. Cardinality(I)
  BY <1>1, <1>2, <1>4
<1> QED
  BY <1>1, <1>3, <1>5

(* Every place is that of one index. *)
LEMMA NthIs ==
  ASSUME NEW n \in Nat, NEW I \in SUBSET (1 .. n)
  PROVE  /\ Cardinality(I) \in Nat
         /\ \A k \in 1 .. Cardinality(I) : Nth(I, k) \in I /\ Rank(I, Nth(I, k)) = k
         /\ \A i \in I : Nth(I, Rank(I, i)) = i
<1>1. IsFiniteSet(I) /\ Cardinality(I) \in Nat
  BY IndicesFinite, ZenonT(30)
<1>2. PICK m \in Nat : m = Cardinality(I)
  BY <1>1
<1>3. PICK f : f = [i \in I |-> Rank(I, i)]
  BY ZenonT(30)
<1>4. \A i, j \in I : Rank(I, i) = Rank(I, j) => i = j
  BY Ranks
<1>5. f \in Injection(I, 1 .. m)
  <2>1. f \in [I -> 1 .. m]
    BY <1>2, <1>3, Ranks
  <2>2. \A i, j \in I : f[i] = f[j] => i = j
    BY <1>3, <1>4
  <2> QED
    BY <2>1, <2>2 DEF Injection, IsInjective
<1>6. IsFiniteSet(1 .. m) /\ Cardinality(1 .. m) = m
  BY FS_Interval
<1>7. f \in Surjection(I, 1 .. m)
  BY <1>2, <1>5, <1>6, FS_Injection
<1>8. \A k \in 1 .. m : \E i \in I : Rank(I, i) = k
  BY <1>3, <1>7 DEF Surjection
<1>9. ASSUME NEW k \in 1 .. m PROVE Nth(I, k) \in I /\ Rank(I, Nth(I, k)) = k
  BY <1>8 DEF Nth
<1>10. ASSUME NEW i \in I PROVE Nth(I, Rank(I, i)) = i
  <2>1. PICK k \in 1 .. m : k = Rank(I, i)
    BY <1>2, Ranks
  <2> QED
    BY <1>4, <1>9, <2>1, ZenonT(30)
<1> QED
  BY <1>1, <1>2, <1>9, <1>10

-----------------------------------------------------------------------------
(* What is kept of a sequence. *)
LEMMA KeptIs ==
  ASSUME NEW S, NEW s \in Seq(S), NEW I \in SUBSET (1 .. Len(s))
  PROVE  /\ Cardinality(I) \in Nat
         /\ Kept(s, I) \in Seq(S) /\ Len(Kept(s, I)) = Cardinality(I)
         /\ \A i \in I : s[i] \in Range(Kept(s, I))
<1>1. PICK n \in Nat : n = Len(s)
  BY LenProperties
<1>2. PICK m \in Nat : m = Cardinality(I)
  BY <1>1, NthIs, ZenonT(30)
<1>3. \A k \in 1 .. m : Nth(I, k) \in 1 .. n
  BY <1>1, <1>2, NthIs, ZenonT(30)
<1>4. PICK q : q = Kept(s, I)
  OBVIOUS
<1>5. q = [k \in 1 .. m |-> s[Nth(I, k)]]
  BY <1>2, <1>4 DEF Kept
<1>6. \A i \in 1 .. n : s[i] \in S
  BY <1>1
<1>7. q \in [1 .. m -> S]
  BY <1>3, <1>5, <1>6
<1>8. q \in Seq(S) /\ Len(q) = m
  BY <1>7
<1>9. ASSUME NEW i \in I PROVE s[i] \in Range(q)
  <2>1. PICK k \in 1 .. m : k = Rank(I, i) /\ Nth(I, k) = i
    BY <1>1, <1>2, NthIs, Ranks, ZenonT(30)
  <2> QED
    BY <1>5, <2>1 DEF Range
<1> QED
  BY <1>2, <1>4, <1>8, <1>9

(* What is kept depends on the elements there. *)
LEMMA KeptSame ==
  ASSUME NEW n \in Nat, NEW I \in SUBSET (1 .. n), NEW s, NEW t, \A i \in I : s[i] = t[i]
  PROVE  Kept(s, I) = Kept(t, I)
BY NthIs, ZenonT(30) DEF Kept

(* Nothing is kept at no index. *)
LEMMA KeptNone ==
  ASSUME NEW s
  PROVE  Kept(s, {}) = <<>>
BY FS_EmptySet DEF Kept

(* First the elements at I, then those behind them at J. *)
LEMMA KeptJoin ==
  ASSUME NEW S, NEW s \in Seq(S), NEW I \in SUBSET (1 .. Len(s)),
         NEW J \in SUBSET (1 .. Len(s)), \A i \in I, j \in J : i < j
  PROVE  Kept(s, I) \o Kept(s, J) = Kept(s, I \cup J)
<1>1. PICK n \in Nat : n = Len(s)
  BY LenProperties
<1>2. PICK a \in Nat, b \in Nat : a = Cardinality(I) /\ b = Cardinality(J)
  BY KeptIs
<1>3. PICK K : K = I \cup J /\ K \in SUBSET (1 .. n)
  BY <1>1, ZenonT(30)
<1>4. I \cap J = {}
  BY <1>1
<1>5. IsFiniteSet(I) /\ IsFiniteSet(J)
  BY <1>1, IndicesFinite, ZenonT(30)
<1>6. Cardinality(K) = a + b
  <2>1. Cardinality(I \cup J) = Cardinality(I) + Cardinality(J) - Cardinality(I \cap J)
    BY <1>5, FS_Union
  <2>2. Cardinality(I \cap J) = 0
    BY <1>4, FS_EmptySet, ZenonT(30)
  <2> QED
    BY <1>2, <1>3, <2>1, <2>2
<1>7. ASSUME NEW i \in I PROVE Rank(K, i) = Rank(I, i)
  <2>1. {x \in K : x <= i} = {x \in I : x <= i}
    <3>1. \A x \in K : x \in Nat
      BY <1>3
    <3>2. \A j \in J : ~(j <= i)
      BY <1>3, <3>1
    <3> QED
      BY <1>3, <3>2, ZenonT(30)
  <2> QED
    BY <2>1, ZenonT(30) DEF Rank
<1>8. ASSUME NEW j \in J PROVE Rank(K, j) = a + Rank(J, j)
  <2>1. PICK B : B = {x \in J : x <= j} /\ B \in SUBSET J
    BY ZenonT(30)
  <2>2. {x \in K : x <= j} = I \cup B /\ I \cap B = {}
    <3>1. \A x \in K : x \in Nat
      BY <1>3
    <3>2. \A i \in I : i <= j
      BY <1>3, <3>1
    <3> QED
      BY <1>3, <1>4, <2>1, <3>2, ZenonT(30)
  <2>3. IsFiniteSet(B) /\ Cardinality(B) \in Nat
    BY <1>1, <2>1, IndicesFinite, ZenonT(30)
  <2>4. Cardinality(I \cup B) = a + Cardinality(B)
    <3>1. Cardinality(I \cup B) = Cardinality(I) + Cardinality(B) - Cardinality(I \cap B)
      BY <1>5, <2>3, FS_Union
    <3>2. Cardinality(I \cap B) = 0
      BY <2>2, FS_EmptySet, ZenonT(30)
    <3> QED
      BY <1>2, <2>3, <3>1, <3>2
  <2> QED
    BY <2>1, <2>2, <2>4, ZenonT(30) DEF Rank
<1>9. ASSUME NEW k \in 1 .. a PROVE Nth(K, k) = Nth(I, k)
  <2>1. PICK i \in I : i = Nth(I, k) /\ Rank(I, i) = k
    BY <1>1, <1>2, NthIs, ZenonT(30)
  <2>2. Rank(K, i) = k /\ i \in K
    BY <1>3, <1>7, <2>1, ZenonT(30)
  <2> QED
    <3>1. Nth(K, Rank(K, i)) = i
      BY <1>3, <2>2, NthIs, ZenonT(30)
    <3> QED
      BY <2>1, <2>2, <3>1
<1>10. ASSUME NEW k \in 1 .. b PROVE Nth(K, a + k) = Nth(J, k)
  <2>1. PICK j \in J : j = Nth(J, k) /\ Rank(J, j) = k
    BY <1>1, <1>2, NthIs, ZenonT(30)
  <2>2. Rank(K, j) = a + k /\ j \in K
    BY <1>3, <1>8, <2>1, ZenonT(30)
  <2> QED
    <3>1. Nth(K, Rank(K, j)) = j
      BY <1>3, <2>2, NthIs, ZenonT(30)
    <3> QED
      BY <2>1, <2>2, <3>1
<1>11. PICK p, q, r : p = Kept(s, I) /\ q = Kept(s, J) /\ r = Kept(s, K)
  OBVIOUS
<1>12. /\ p \in Seq(S) /\ Len(p) = a /\ \A k \in 1 .. a : p[k] = s[Nth(I, k)]
       /\ q \in Seq(S) /\ Len(q) = b /\ \A k \in 1 .. b : q[k] = s[Nth(J, k)]
       /\ r \in Seq(S) /\ Len(r) = a + b /\ \A k \in 1 .. a + b : r[k] = s[Nth(K, k)]
  <2>1. p \in Seq(S) /\ Len(p) = a /\ q \in Seq(S) /\ Len(q) = b
    BY <1>2, <1>11, KeptIs
  <2>2. r \in Seq(S) /\ Len(r) = a + b
    BY <1>1, <1>3, <1>6, <1>11, KeptIs
  <2>3. /\ p = [k \in 1 .. a |-> s[Nth(I, k)]]
        /\ q = [k \in 1 .. b |-> s[Nth(J, k)]]
        /\ r = [k \in 1 .. a + b |-> s[Nth(K, k)]]
    BY <1>2, <1>6, <1>11 DEF Kept
  <2> QED
    BY <2>1, <2>2, <2>3
<1>13. \A k \in 1 .. a : r[k] = p[k]
  BY <1>9, <1>12
<1>14. \A k \in 1 .. b : r[a + k] = q[k]
  BY <1>10, <1>12
<1>15. p \o q \in Seq(S) /\ Len(p \o q) = a + b
  BY <1>12
<1>16. ASSUME NEW k \in 1 .. a + b PROVE (p \o q)[k] = r[k]
  <2>1. CASE k <= a
    <3>1. k \in 1 .. a
      BY <2>1
    <3>2. (p \o q)[k] = p[k]
      BY <1>12, <3>1
    <3> QED
      BY <1>13, <3>1, <3>2
  <2>2. CASE k > a
    <3>1. PICK l \in 1 .. b : k = a + l
      <4>1. k - a \in 1 .. b /\ k = a + (k - a)
        BY <2>2
      <4> QED
        BY <4>1
    <3>2. (p \o q)[k] = q[k - a] /\ k - a = l
      BY <1>12, <2>2, <3>1
    <3> QED
      BY <1>14, <3>1, <3>2
  <2>3. k <= a \/ k > a
    OBVIOUS
  <2> QED
    BY <2>1, <2>2, <2>3, ZenonT(30)
<1>17. p \o q = r
  BY <1>12, <1>15, <1>16, SeqEqual, ZenonT(30)
<1> QED
  BY <1>3, <1>11, <1>17

(* The j-th entry was pushed after one with a larger number; none was. *)
IsLate(e, j) == \E i \in 1 .. Len(e) : i < j /\ e[i] > e[j]
Increasing(e) == \A i, j \in 1 .. Len(e) : i < j => e[i] < e[j]

(* No number is 0 or given twice. *)
Numbered(e) ==
  /\ e \in Seq(Nat)
  /\ \A i \in 1 .. Len(e) : e[i] # 0
  /\ \A i, j \in 1 .. Len(e) : e[i] = e[j] => i = j

(* What a cursor may be: the number of an entry, or none. *)
Known(e, x) == x \in Nat /\ (x = 0 \/ \E i \in 1 .. Len(e) : e[i] = x)

(* The entries from the subscription at a up to the cursor z. *)
UpTo(e, a, z) == {i \in 1 .. Len(e) : a < e[i] /\ e[i] <= z}
Beyond(e, z) == {i \in 1 .. Len(e) : e[i] > z}

(* q has them, each once and in order if none was late. *)
Delivered(e, a, z, q) ==
  /\ q \in Seq(Nat)
  /\ \A i \in UpTo(e, a, z) : IsLate(e, i) \/ e[i] \in Range(q)
  /\ Increasing(e) => a <= z /\ q = Kept(e, UpTo(e, a, z))

(* Subscribed, and nothing was returned yet. *)
LEMMA DeliveredFirst ==
  ASSUME NEW e, Numbered(e), NEW a, Known(e, a)
  PROVE  Delivered(e, a, a, <<>>)
<1>1. PICK n \in Nat : n = Len(e)
  BY LenProperties DEF Numbered
<1>2. a \in Nat /\ \A i \in 1 .. n : e[i] \in Nat
  BY <1>1 DEF Known, Numbered
<1>3. UpTo(e, a, a) = {}
  BY <1>1, <1>2 DEF UpTo
<1>4. <<>> \in Seq(Nat)
  OBVIOUS
<1> QED
  BY <1>2, <1>3, <1>4, KeptNone DEF Delivered

(* A new entry is beyond the cursor, or late. *)
LEMMA DeliveredLater ==
  ASSUME NEW e, Numbered(e), NEW a \in Nat, NEW z, Known(e, z), NEW q, Delivered(e, a, z, q),
         NEW x \in Nat, x # 0, \A i \in 1 .. Len(e) : e[i] # x
  PROVE  Delivered(Append(e, x), a, z, q)
<1>1. PICK n \in Nat : n = Len(e)
  BY LenProperties DEF Numbered
<1>2. PICK f : f = Append(e, x)
  BY ZenonT(30)
<1>3. /\ f \in Seq(Nat) /\ Len(f) = n + 1 /\ f[n + 1] = x
      /\ \A i \in 1 .. n : f[i] = e[i] /\ e[i] \in Nat
  BY <1>1, <1>2 DEF Numbered
<1>4. z \in Nat
  BY DEF Known
<1>5. x <= z => IsLate(f, n + 1)
  <2>1. SUFFICES ASSUME x <= z PROVE IsLate(f, n + 1)
    OBVIOUS
  <2>2. PICK i \in 1 .. n : e[i] = z
    BY <1>1, <2>1 DEF Known
  <2>3. e[i] # x
    BY <1>1
  <2>4. f[i] > f[n + 1]
    BY <1>3, <1>4, <2>1, <2>2, <2>3
  <2>5. i \in 1 .. Len(f) /\ i < n + 1
    BY <1>3
  <2> QED
    BY <2>4, <2>5 DEF IsLate
<1>6. \A i \in 1 .. n : IsLate(e, i) => IsLate(f, i)
  BY <1>1, <1>3 DEF IsLate
<1>7. \A i \in UpTo(f, a, z) : IsLate(f, i) \/ f[i] \in Range(q)
  <2>1. SUFFICES ASSUME NEW i \in UpTo(f, a, z) PROVE IsLate(f, i) \/ f[i] \in Range(q)
    OBVIOUS
  <2>2. i \in 1 .. n + 1 /\ a < f[i] /\ f[i] <= z
    BY <1>3 DEF UpTo
  <2>3. CASE i = n + 1
    BY <1>3, <1>5, <2>2, <2>3
  <2>4. CASE i # n + 1
    <3>1. i \in 1 .. n
      BY <2>2, <2>4
    <3>2. i \in UpTo(e, a, z)
      BY <1>1, <1>3, <2>2, <3>1 DEF UpTo
    <3> QED
      BY <1>3, <1>6, <3>1, <3>2 DEF Delivered
  <2> QED
    BY <2>3, <2>4
<1>8. ASSUME Increasing(f) PROVE a <= z /\ q = Kept(f, UpTo(f, a, z))
  <2>1. Increasing(e)
    BY <1>1, <1>3, <1>8 DEF Increasing
  <2>2. ~IsLate(f, n + 1)
    <3>1. \A i \in 1 .. n + 1 : i < n + 1 => f[i] < f[n + 1]
      BY <1>3, <1>8 DEF Increasing
    <3>2. \A i \in 1 .. n + 1 : f[i] \in Nat
      BY <1>3
    <3> QED
      BY <1>3, <3>1, <3>2 DEF IsLate
  <2>3. ~(x <= z)
    BY <1>5, <2>2
  <2>4. UpTo(f, a, z) = UpTo(e, a, z)
    BY <1>1, <1>3, <2>3 DEF UpTo
  <2>5. Kept(f, UpTo(e, a, z)) = Kept(e, UpTo(e, a, z))
    <3>1. PICK I \in SUBSET (1 .. n) : I = UpTo(e, a, z)
      BY <1>1, ZenonT(30) DEF UpTo
    <3> QED
      BY <1>3, <3>1, KeptSame, ZenonT(30)
  <2> QED
    BY <2>1, <2>4, <2>5 DEF Delivered
<1> QED
  BY <1>2, <1>7, <1>8, ZenonT(30) DEF Delivered

(* stream_since returns what is beyond the cursor and moves it to the last *)
(* entry.                                                                  *)
LEMMA DeliveredMore ==
  ASSUME NEW e, Numbered(e), NEW a, Known(e, a), NEW z \in Nat, NEW q, Delivered(e, a, z, q),
         NEW y, y = IF e = <<>> THEN z ELSE e[Len(e)]
  PROVE  Delivered(e, a, y, q \o Kept(e, Beyond(e, z)))
<1>1. PICK n \in Nat : n = Len(e)
  BY LenProperties DEF Numbered
<1>2. e \in Seq(Nat) /\ a \in Nat /\ \A i \in 1 .. n : e[i] \in Nat
  BY <1>1 DEF Numbered, Known
<1>3. PICK J \in SUBSET (1 .. n) : J = Beyond(e, z)
  BY <1>1, ZenonT(30) DEF Beyond
<1>4. PICK r : r = Kept(e, J)
  OBVIOUS
<1>5. r \in Seq(Nat) /\ \A i \in J : e[i] \in Range(r)
  BY <1>1, <1>2, <1>4, KeptIs
<1>6. q \in Seq(Nat)
  BY DEF Delivered
<1>7. q \o r \in Seq(Nat) /\ \A v : v \in Range(q) \/ v \in Range(r) => v \in Range(q \o r)
  <2>1. PICK k \in Nat, l \in Nat : k = Len(q) /\ l = Len(r)
    BY <1>5, <1>6, LenProperties
  <2>2. /\ q \o r \in Seq(Nat) /\ Len(q \o r) = k + l
        /\ \A i \in 1 .. k : (q \o r)[i] = q[i]
        /\ \A i \in 1 .. l : (q \o r)[k + i] = r[i]
    BY <1>5, <1>6, <2>1
  <2> DEFINE t == q \o r
  <2>3. \A i \in 1 .. k + l : t[i] \in Range(t)
    <3>1. DOMAIN t = 1 .. k + l
      BY <2>2
    <3> HIDE DEF t
    <3> QED
      BY <3>1 DEF Range
  <2>4. ASSUME NEW v \in Range(q) PROVE v \in Range(q \o r)
    <3>1. PICK i \in 1 .. k : v = q[i]
      BY <1>6, <2>1 DEF Range
    <3>2. i \in 1 .. k + l /\ t[i] = v
      BY <2>2, <3>1
    <3> QED
      BY <2>3, <3>2, ZenonT(30)
  <2>5. ASSUME NEW v \in Range(r) PROVE v \in Range(q \o r)
    <3>1. PICK i \in 1 .. l : v = r[i]
      BY <1>5, <2>1 DEF Range
    <3>2. PICK j \in 1 .. k + l : j = k + i
      OBVIOUS
    <3>3. t[j] = v
      BY <2>2, <3>1, <3>2
    <3> QED
      BY <2>3, <3>3, ZenonT(30)
  <2> QED
    BY <2>2, <2>4, <2>5, ZenonT(30)
<1>8. \A i \in UpTo(e, a, y) : IsLate(e, i) \/ e[i] \in Range(q \o r)
  <2>1. SUFFICES ASSUME NEW i \in UpTo(e, a, y), ~IsLate(e, i) PROVE e[i] \in Range(q \o r)
    OBVIOUS
  <2>2. i \in 1 .. n /\ a < e[i]
    BY <1>1 DEF UpTo
  <2>3. CASE e[i] <= z
    <3>1. i \in UpTo(e, a, z)
      BY <1>1, <2>2, <2>3 DEF UpTo
    <3> QED
      BY <1>7, <2>1, <3>1 DEF Delivered
  <2>4. CASE ~(e[i] <= z)
    <3>1. i \in J
      BY <1>1, <1>2, <1>3, <2>2, <2>4 DEF Beyond
    <3> QED
      BY <1>5, <1>7, <3>1
  <2> QED
    BY <2>3, <2>4
<1>9. ASSUME Increasing(e) PROVE a <= y /\ q \o r = Kept(e, UpTo(e, a, y))
  <2>1. a <= z /\ q = Kept(e, UpTo(e, a, z))
    BY <1>9 DEF Delivered
  <2>2. PICK I \in SUBSET (1 .. n) : I = UpTo(e, a, z)
    BY <1>1, ZenonT(30) DEF UpTo
  <2>3. \A i \in I, j \in J : i < j
    <3>1. SUFFICES ASSUME NEW i \in I, NEW j \in J, ~(i < j) PROVE FALSE
      OBVIOUS
    <3>2. e[i] <= z /\ e[j] > z /\ i \in 1 .. n /\ j \in 1 .. n
      BY <1>1, <1>3, <2>2 DEF UpTo, Beyond
    <3>3. i = j \/ j < i
      BY <3>1, <3>2
    <3>4. j < i => e[j] < e[i]
      BY <1>1, <1>9, <3>2 DEF Increasing
    <3> QED
      BY <1>2, <3>2, <3>3, <3>4
  <2>4. Kept(e, I) \o Kept(e, J) = Kept(e, I \cup J)
    BY <1>1, <1>2, <2>3, KeptJoin, ZenonT(30)
  <2>5. CASE e = <<>>
    <3>1. n = 0 /\ y = z
      BY <1>1, <2>5
    <3>2. \A K \in SUBSET (1 .. n) : K = {}
      BY <3>1
    <3>3. J = {} /\ I \cup J = UpTo(e, a, y)
      BY <2>2, <3>1, <3>2, ZenonT(30)
    <3> QED
      BY <1>4, <2>1, <2>2, <2>4, <3>1, <3>3
  <2>6. CASE e # <<>>
    <3>1. n # 0
      BY <1>1, <1>2, <2>6, EmptySeq
    <3>2. y = e[n] /\ n \in 1 .. n
      BY <1>1, <2>6, <3>1
    <3>3. \A i \in 1 .. n : e[i] <= y
      <4>1. \A i \in 1 .. n : i = n \/ i < n
        OBVIOUS
      <4>2. \A i \in 1 .. n : i < n => e[i] < e[n]
        BY <1>1, <1>9, <3>2 DEF Increasing
      <4> QED
        BY <1>2, <3>2, <4>1, <4>2
    <3>4. a <= y
      BY <1>1, <1>2, <3>2, <3>3 DEF Known
    <3>5. I \cup J = UpTo(e, a, y)
      <4>1. \A i \in 1 .. n : i \in I <=> a < e[i] /\ e[i] <= z
        BY <1>1, <2>2 DEF UpTo
      <4>2. \A i \in 1 .. n : i \in J <=> e[i] > z
        BY <1>1, <1>3 DEF Beyond
      <4>3. \A i \in 1 .. n : i \in I \cup J <=> a < e[i]
        BY <1>2, <2>1, <4>1, <4>2
      <4>4. \A i \in 1 .. n : i \in UpTo(e, a, y) <=> a < e[i]
        BY <1>1, <3>3 DEF UpTo
      <4>5. UpTo(e, a, y) \in SUBSET (1 .. n)
        BY <1>1 DEF UpTo
      <4> QED
        BY <4>3, <4>4, <4>5, ZenonT(30)
    <3> QED
      BY <1>4, <2>1, <2>2, <2>4, <3>4, <3>5, ZenonT(30)
  <2> QED
    BY <2>5, <2>6
<1> QED
  BY <1>3, <1>4, <1>7, <1>8, <1>9 DEF Delivered

StreamConsumer ==
  [at : {"new", "looked", "pushed", "idle", "reading"},
   start : Nat, id : Nat, last_seen : Nat, crossed : BOOLEAN]

HasId(c) == c.at \in {"idle", "reading"}
Lone(s, c) ==
  ~s[c].crossed /\ \A d \in Consumers : HasId(s[d]) /\ s[d].id = s[c].id => c = d

(* The numbers that were given to entries and to writers. *)
NumbersOk(e, n, m) ==
  /\ Numbered(e)
  /\ n \in Nat /\ n # 0 /\ m \in [Writers -> Nat]
  /\ \A i \in 1 .. Len(e) : e[i] < n
  /\ \A w \in Writers : m[w] < n
  /\ \A w \in Writers : m[w] # 0 => \A i \in 1 .. Len(e) : e[i] # m[w]
  /\ \A v, w \in Writers : m[v] = m[w] /\ m[v] # 0 => v = w

CursorsOk(e, u, s) ==
  /\ u \in Seq(Nat) /\ s \in [Consumers -> StreamConsumer]
  /\ \A i \in 1 .. Len(u) : Known(e, u[i])
  /\ \A c \in Consumers : Known(e, s[c].start)
  /\ \A c \in Consumers : s[c].at = "pushed" => Len(u) # 0
  /\ \A c \in Consumers : HasId(s[c]) => s[c].id \in 1 .. Len(u)

(* Of two that subscribe at a time one is crossed, and so is one of those  *)
(* with the same cursor.  The last cursor is where the one who pushed it,  *)
(* and is not crossed, has left it, or someone else has taken it.          *)
RacesOk(u, s) ==
  /\ \A c, d \in Consumers :
       s[c].at = "pushed" /\ s[d].at = "pushed" => c = d \/ s[c].crossed \/ s[d].crossed
  /\ \A c, d \in Consumers :
       /\ s[c].at = "pushed" /\ ~s[c].crossed
       /\ HasId(s[d]) /\ s[d].id = Len(u)
       => s[d].crossed
  /\ \A c, d \in Consumers :
       HasId(s[c]) /\ HasId(s[d]) /\ s[c].id = s[d].id
       => c = d \/ s[c].crossed \/ s[d].crossed
  /\ \A c \in Consumers :
       s[c].at = "pushed" /\ ~s[c].crossed =>
         \/ u[Len(u)] = s[c].start
         \/ \E d \in Consumers : HasId(s[d]) /\ s[d].id = Len(u)

(* What a consumer with a cursor of its own was returned. *)
ReturnedOk(e, u, s, g) ==
  /\ g \in [Consumers -> Seq(Nat)]
  /\ \A c \in Consumers : ~HasId(s[c]) => g[c] = <<>>
  /\ \A c \in Consumers : HasId(s[c]) /\ Lone(s, c) =>
       /\ Delivered(e, s[c].start, u[s[c].id], g[c])
       /\ s[c].at = "reading" => s[c].last_seen = u[s[c].id]

StreamOk(e, u, n, m, s, g) ==
  NumbersOk(e, n, m) /\ CursorsOk(e, u, s) /\ RacesOk(u, s) /\ ReturnedOk(e, u, s, g)

(* What the calls of append, subscribe and stream_since keep. *)
StreamerInv == StreamOk(entries, subscribers, stream_seq, numbered, consumer, got)

(* The race that a consumer is in, if any, is the same in x and y. *)
SameRace(x, y) ==
  /\ HasId(x) <=> HasId(y)
  /\ x.at = "pushed" <=> y.at = "pushed"
  /\ HasId(y) \/ y.at = "pushed" =>
       x.id = y.id /\ x.start = y.start /\ (x.crossed <=> y.crossed)

(* Parts of the calls that no other call races with. *)
LEMMA RacesSame ==
  ASSUME NEW u, NEW v, NEW k, Len(u) = k, Len(v) = k, NEW s, NEW t, RacesOk(u, s),
         \A d \in Consumers : SameRace(t[d], s[d]),
         v[k] = u[k] \/ \E d \in Consumers : HasId(s[d]) /\ s[d].id = k
  PROVE  RacesOk(v, t)
<1>1. ASSUME NEW c \in Consumers, NEW d \in Consumers, t[c].at = "pushed", t[d].at = "pushed"
      PROVE  c = d \/ t[c].crossed \/ t[d].crossed
  <2>1. c = d \/ s[c].crossed \/ s[d].crossed
    BY <1>1, ZenonT(30) DEF RacesOk, SameRace
  <2> QED
    BY <1>1, <2>1, ZenonT(30) DEF SameRace
<1>2. ASSUME NEW c \in Consumers, NEW d \in Consumers, t[c].at = "pushed", ~t[c].crossed,
             HasId(t[d]), t[d].id = k
      PROVE  t[d].crossed
  <2>1. s[c].at = "pushed" /\ ~s[c].crossed /\ HasId(s[d]) /\ s[d].id = Len(u)
    BY <1>2, ZenonT(30) DEF SameRace
  <2>2. s[d].crossed
    BY <2>1, ZenonT(30) DEF RacesOk
  <2> QED
    BY <2>1, <2>2, ZenonT(30) DEF SameRace
<1>3. ASSUME NEW c \in Consumers, NEW d \in Consumers, HasId(t[c]), HasId(t[d]), t[c].id = t[d].id
      PROVE  c = d \/ t[c].crossed \/ t[d].crossed
  <2>1. HasId(s[c]) /\ HasId(s[d]) /\ s[c].id = s[d].id
    BY <1>3, ZenonT(30) DEF SameRace
  <2>2. c = d \/ s[c].crossed \/ s[d].crossed
    BY <2>1, ZenonT(30) DEF RacesOk
  <2> QED
    BY <2>1, <2>2, ZenonT(30) DEF SameRace
<1>4. ASSUME NEW c \in Consumers, t[c].at = "pushed", ~t[c].crossed
      PROVE  v[k] = t[c].start \/ \E d \in Consumers : HasId(t[d]) /\ t[d].id = k
  <2>1. s[c].at = "pushed" /\ ~s[c].crossed /\ t[c].start = s[c].start
    BY <1>4, ZenonT(30) DEF SameRace
  <2>2. u[k] = s[c].start \/ \E d \in Consumers : HasId(s[d]) /\ s[d].id = k
    BY <2>1, ZenonT(30) DEF RacesOk
  <2>3. \A d \in Consumers : HasId(s[d]) /\ s[d].id = k => HasId(t[d]) /\ t[d].id = k
    BY ZenonT(30) DEF SameRace
  <2> QED
    BY <2>1, <2>2, <2>3, ZenonT(30)
<1> QED
  BY <1>1, <1>2, <1>3, <1>4, ZenonT(30) DEF RacesOk

(* append takes the next number. *)
LEMMA TakeNumberKeeps ==
  ASSUME StreamerInv, NEW w \in Writers, TakeNumber(w)
  PROVE  StreamerInv'
<1>1. PICK e, u, n, m, s, g :
        /\ e = entries /\ u = subscribers /\ n = stream_seq /\ m = numbered
        /\ s = consumer /\ g = got /\ StreamOk(e, u, n, m, s, g)
  BY DEF StreamerInv
<1>2. PICK m2 : m2 = numbered' /\ m2 = [m EXCEPT ![w] = n]
  BY <1>1 DEF TakeNumber
<1>3. NumbersOk(e, n, m)
  BY <1>1 DEF StreamOk
<1>4. PICK k \in Nat : k = Len(e)
  BY <1>3, LenProperties DEF NumbersOk, Numbered
<1>5. /\ \A i \in 1 .. k : e[i] \in Nat /\ e[i] < n
      /\ n \in Nat /\ \A v \in Writers : m[v] \in Nat /\ m[v] < n
  BY <1>3, <1>4 DEF NumbersOk, Numbered
<1>6. m2 \in [Writers -> Nat] /\ m2[w] = n /\ \A v \in Writers : v # w => m2[v] = m[v]
  BY <1>2, <1>3 DEF NumbersOk
<1>7. NumbersOk(e, n + 1, m2)
  <2>1. n + 1 \in Nat /\ n + 1 # 0 /\ \A i \in 1 .. k : e[i] < n + 1
    BY <1>5
  <2>2. \A v \in Writers : m2[v] < n + 1
    BY <1>5, <1>6
  <2>3. \A v \in Writers : m2[v] # 0 => \A i \in 1 .. k : e[i] # m2[v]
    BY <1>3, <1>4, <1>5, <1>6 DEF NumbersOk
  <2>4. \A v, x \in Writers : m2[v] = m2[x] /\ m2[v] # 0 => v = x
    BY <1>3, <1>5, <1>6 DEF NumbersOk
  <2> QED
    BY <1>3, <1>4, <1>6, <2>1, <2>2, <2>3, <2>4 DEF NumbersOk
<1>8. StreamOk(e, u, n + 1, m2, s, g)
  BY <1>1, <1>7 DEF StreamOk
<1> QED
  BY <1>1, <1>2, <1>8 DEF StreamerInv, TakeNumber

(* append pushes the entry. *)
LEMMA PushEntryKeeps ==
  ASSUME StreamerInv, NEW w \in Writers, PushEntry(w)
  PROVE  StreamerInv'
<1>1. PICK e, u, n, m, s, g :
        /\ e = entries /\ u = subscribers /\ n = stream_seq /\ m = numbered
        /\ s = consumer /\ g = got /\ StreamOk(e, u, n, m, s, g)
  BY DEF StreamerInv
<1>2. PICK x : x = m[w]
  OBVIOUS
<1>3. PICK f, m2 : /\ f = entries' /\ f = Append(e, x)
                   /\ m2 = numbered' /\ m2 = [m EXCEPT ![w] = 0]
  BY <1>1, <1>2 DEF PushEntry
<1>4. NumbersOk(e, n, m) /\ Numbered(e)
  BY <1>1 DEF StreamOk, NumbersOk
<1>5. PICK k \in Nat : k = Len(e)
  BY <1>4, LenProperties DEF Numbered
<1>6. x \in Nat /\ x < n /\ x # 0 /\ \A i \in 1 .. k : e[i] # x
  BY <1>1, <1>2, <1>4, <1>5 DEF NumbersOk, PushEntry
<1>7. /\ f \in Seq(Nat) /\ Len(f) = k + 1 /\ f[k + 1] = x
      /\ \A i \in 1 .. k : f[i] = e[i] /\ e[i] \in Nat
  BY <1>3, <1>4, <1>5, <1>6 DEF Numbered
<1>8. m2 \in [Writers -> Nat] /\ m2[w] = 0 /\ \A v \in Writers : v # w => m2[v] = m[v]
  BY <1>3, <1>4 DEF NumbersOk
<1>9. \A i \in 1 .. k + 1 : i \in 1 .. k \/ i = k + 1
  OBVIOUS
<1>10. NumbersOk(f, n, m2)
  <2>1. Numbered(f)
    <3>1. \A i \in 1 .. k + 1 : f[i] # 0
      BY <1>4, <1>5, <1>6, <1>7, <1>9 DEF Numbered
    <3>2. \A i, j \in 1 .. k + 1 : f[i] = f[j] => i = j
      BY <1>4, <1>5, <1>6, <1>7, <1>9 DEF Numbered
    <3> QED
      BY <1>7, <3>1, <3>2 DEF Numbered
  <2>2. \A i \in 1 .. k + 1 : f[i] < n
    BY <1>4, <1>5, <1>6, <1>7, <1>9 DEF NumbersOk
  <2>3. \A v \in Writers : m2[v] < n
    BY <1>4, <1>6, <1>8 DEF NumbersOk
  <2>4. \A v \in Writers : m2[v] # 0 => \A i \in 1 .. k + 1 : f[i] # m2[v]
    BY <1>2, <1>4, <1>5, <1>6, <1>7, <1>8, <1>9 DEF NumbersOk
  <2>5. \A v, y \in Writers : m2[v] = m2[y] /\ m2[v] # 0 => v = y
    BY <1>4, <1>8 DEF NumbersOk
  <2> QED
    BY <1>4, <1>7, <1>8, <2>1, <2>2, <2>3, <2>4, <2>5 DEF NumbersOk
<1>11. \A y : Known(e, y) => Known(f, y)
  BY <1>5, <1>7 DEF Known
<1>12. CursorsOk(f, u, s)
  BY <1>1, <1>11, ZenonT(30) DEF StreamOk, CursorsOk
<1>13. ReturnedOk(f, u, s, g)
  <2>1. ASSUME NEW c \in Consumers, HasId(s[c]), Lone(s, c)
        PROVE  Delivered(f, s[c].start, u[s[c].id], g[c])
    <3>1. PICK a \in Nat, z \in Nat : /\ a = s[c].start /\ z = u[s[c].id] /\ Known(e, z)
                                      /\ Delivered(e, a, z, g[c])
      BY <1>1, <2>1, ZenonT(30) DEF StreamOk, CursorsOk, ReturnedOk, Known
    <3>2. \A i \in 1 .. Len(e) : e[i] # x
      BY <1>5, <1>6
    <3>3. Delivered(Append(e, x), a, z, g[c])
      BY <1>4, <1>6, <3>1, <3>2, DeliveredLater, ZenonT(30)
    <3> QED
      BY <1>3, <3>1, <3>3, ZenonT(30)
  <2> QED
    BY <1>1, <2>1, ZenonT(30) DEF StreamOk, ReturnedOk
<1>14. StreamOk(f, u, n, m2, s, g)
  BY <1>1, <1>10, <1>12, <1>13 DEF StreamOk
<1> QED
  BY <1>1, <1>3, <1>14 DEF StreamerInv, PushEntry

-----------------------------------------------------------------------------
(* subscribe reads the last number. *)
LEMMA LookKeeps ==
  ASSUME StreamerInv, NEW c \in Consumers, Look(c)
  PROVE  StreamerInv'
<1>1. PICK e, u, n, m, s, g :
        /\ e = entries /\ u = subscribers /\ n = stream_seq /\ m = numbered
        /\ s = consumer /\ g = got /\ StreamOk(e, u, n, m, s, g)
  BY DEF StreamerInv
<1>2. s \in [Consumers -> StreamConsumer] /\ s[c].at = "new" /\ e \in Seq(Nat)
  BY <1>1 DEF StreamOk, CursorsOk, NumbersOk, Numbered, Look
<1>3. PICK a \in Nat : a = (IF e = <<>> THEN 0 ELSE e[Len(e)]) /\ Known(e, a)
  <2>1. CASE e = <<>>
    BY <2>1 DEF Known
  <2>2. CASE e # <<>>
    <3>1. PICK k \in Nat : k = Len(e)
      BY <1>2, LenProperties
    <3>2. k \in 1 .. k
      BY <1>2, <2>2, <3>1, EmptySeq
    <3>3. e[Len(e)] = e[k] /\ e[k] \in Nat
      BY <1>2, <3>1, <3>2
    <3> QED
      BY <2>2, <3>1, <3>2, <3>3 DEF Known
  <2> QED
    BY <2>1, <2>2
<1>4. PICK b \in StreamConsumer : b = s[c]
  BY <1>2
<1>5. PICK r : r = [b EXCEPT !.at = "looked", !.start = a]
  OBVIOUS
<1>6. r \in StreamConsumer /\ r.at = "looked" /\ r.start = a
  BY <1>5, ZenonT(30) DEF StreamConsumer
<1>7. PICK t : t = consumer' /\ t = [s EXCEPT ![c] = r]
  BY <1>1, <1>3, <1>4, <1>5 DEF Look
<1>8. t \in [Consumers -> StreamConsumer] /\ t[c] = r /\ \A d \in Consumers : d # c => t[d] = s[d]
  BY <1>2, <1>6, <1>7
<1>9. ~HasId(s[c]) /\ ~HasId(r) /\ s[c].at # "pushed" /\ r.at # "pushed"
  BY <1>2, <1>6 DEF HasId
<1>10. \A d \in Consumers : HasId(t[d]) => d # c /\ t[d] = s[d]
  BY <1>8, <1>9
<1>11. ASSUME NEW d \in Consumers, d # c, Lone(t, d) PROVE Lone(s, d)
  BY <1>8, <1>9, <1>11 DEF Lone
<1>12. CursorsOk(e, u, t)
  BY <1>1, <1>3, <1>6, <1>8, <1>9, <1>10 DEF StreamOk, CursorsOk
<1>13. RacesOk(u, t)
  <2>1. \A d \in Consumers : SameRace(t[d], s[d])
    BY <1>8, <1>9, ZenonT(30) DEF SameRace
  <2> QED
    BY <1>1, <2>1, RacesSame, ZenonT(30) DEF StreamOk
<1>14. ReturnedOk(e, u, t, g)
  BY <1>1, <1>8, <1>9, <1>10, <1>11, ZenonT(30) DEF StreamOk, ReturnedOk
<1>15. StreamOk(e, u, n, m, t, g)
  BY <1>1, <1>12, <1>13, <1>14 DEF StreamOk
<1> QED
  BY <1>1, <1>7, <1>15 DEF StreamerInv, Look

(* subscribe pushes a cursor. *)
LEMMA PushCursorKeeps ==
  ASSUME StreamerInv, NEW c \in Consumers, PushCursor(c)
  PROVE  StreamerInv'
<1>1. PICK e, u, n, m, s, g :
        /\ e = entries /\ u = subscribers /\ n = stream_seq /\ m = numbered
        /\ s = consumer /\ g = got /\ StreamOk(e, u, n, m, s, g)
  BY DEF StreamerInv
<1>2. s \in [Consumers -> StreamConsumer] /\ s[c].at = "looked" /\ u \in Seq(Nat)
  BY <1>1, ZenonT(30) DEF StreamOk, CursorsOk, PushCursor
<1>3. PICK a \in Nat : a = s[c].start /\ Known(e, a)
  BY <1>1 DEF StreamOk, CursorsOk, Known
<1>4. PICK v, t : /\ v = subscribers' /\ v = Append(u, a) /\ t = consumer'
                  /\ t = [d \in Consumers |->
                           [s[d] EXCEPT !.at = IF d = c THEN "pushed" ELSE @,
                                        !.crossed = @ \/ s[d].at = "pushed"]]
  BY <1>1, <1>3, ZenonT(30) DEF PushCursor, WithCursor
<1>5. ASSUME NEW d \in Consumers
      PROVE  /\ t[d] \in StreamConsumer /\ t[d].at = IF d = c THEN "pushed" ELSE s[d].at
             /\ t[d].start = s[d].start /\ t[d].id = s[d].id
             /\ t[d].last_seen = s[d].last_seen
             /\ t[d].crossed <=> s[d].crossed \/ s[d].at = "pushed"
  <2>1. PICK b \in StreamConsumer : b = s[d]
    BY <1>2
  <2>2. PICK z \in BOOLEAN : z = (b.crossed \/ b.at = "pushed")
    BY ZenonT(30)
  <2>3. PICK y : y = IF d = c THEN "pushed" ELSE b.at
    OBVIOUS
  <2>4. y \in {"new", "looked", "pushed", "idle", "reading"}
    BY <2>3 DEF StreamConsumer
  <2>5. t[d] = [b EXCEPT !.at = y, !.crossed = z]
    BY <1>4, <2>1, <2>2, <2>3, ZenonT(30)
  <2>6. /\ t[d] \in StreamConsumer /\ t[d].at = y /\ t[d].start = b.start /\ t[d].id = b.id
        /\ t[d].last_seen = b.last_seen /\ t[d].crossed = z
    BY <2>4, <2>5, ZenonT(30) DEF StreamConsumer
  <2> QED
    BY <2>1, <2>2, <2>6, <2>3, ZenonT(30)
<1>6. t \in [Consumers -> StreamConsumer]
  BY <1>4, <1>5, ZenonT(30)
<1>7. PICK k \in Nat : k = Len(u)
  BY <1>2, LenProperties
<1>8. /\ v \in Seq(Nat) /\ Len(v) = k + 1 /\ v[k + 1] = a
      /\ \A i \in 1 .. k : v[i] = u[i]
  <2>1. v = Append(u, a)
    BY <1>4, ZenonT(30)
  <2> QED
    BY <1>2, <1>7, <2>1
<1>9. ASSUME NEW d \in Consumers
      PROVE  /\ HasId(t[d]) <=> HasId(s[d])
             /\ HasId(s[d]) => (t[d].crossed <=> s[d].crossed) /\ s[d].id \in 1 .. k
             /\ HasId(s[d]) => t[d].at = s[d].at
             /\ t[d].at = "pushed" => d = c \/ (s[d].at = "pushed" /\ t[d].crossed)
  <2>1. /\ HasId(t[d]) <=> HasId(s[d])
        /\ HasId(s[d]) => (t[d].crossed <=> s[d].crossed) /\ t[d].at = s[d].at
        /\ t[d].at = "pushed" => d = c \/ (s[d].at = "pushed" /\ t[d].crossed)
    BY <1>2, <1>5 DEF HasId
  <2>2. HasId(s[d]) => s[d].id \in 1 .. k
    BY <1>1, <1>7, ZenonT(30) DEF StreamOk, CursorsOk
  <2> QED
    BY <2>1, <2>2
<1>10. ASSUME NEW d \in Consumers, HasId(s[d]), Lone(t, d) PROVE Lone(s, d)
  BY <1>5, <1>9, <1>10 DEF Lone
<1>11. CursorsOk(e, v, t)
  <2>1. \A i \in 1 .. k + 1 : i \in 1 .. k \/ i = k + 1
    OBVIOUS
  <2>2. \A i \in 1 .. k + 1 : Known(e, v[i])
    BY <1>1, <1>3, <1>7, <1>8, <2>1 DEF StreamOk, CursorsOk
  <2>3. \A d \in Consumers : Known(e, t[d].start)
    BY <1>1, <1>5, ZenonT(30) DEF StreamOk, CursorsOk
  <2>4. \A d \in Consumers : HasId(t[d]) => t[d].id \in 1 .. k + 1
    <3>1. \A i \in 1 .. k : i \in 1 .. k + 1
      OBVIOUS
    <3> QED
      BY <1>5, <1>9, <3>1, ZenonT(30)
  <2> QED
    BY <1>6, <1>8, <2>2, <2>3, <2>4 DEF CursorsOk
<1>12. RacesOk(v, t)
  <2>1. ASSUME NEW b \in Consumers, NEW d \in Consumers, t[b].at = "pushed", t[d].at = "pushed"
        PROVE  b = d \/ t[b].crossed \/ t[d].crossed
    BY <1>9, <2>1, ZenonT(30)
  <2>2. ASSUME NEW d \in Consumers, HasId(t[d]) PROVE t[d].id # k + 1
    <3>1. \A i \in 1 .. k : i # k + 1
      OBVIOUS
    <3> QED
      BY <1>5, <1>9, <2>2, <3>1, ZenonT(30)
  <2>3. ASSUME NEW b \in Consumers, NEW d \in Consumers, HasId(t[b]), HasId(t[d]), t[b].id = t[d].id
        PROVE  b = d \/ t[b].crossed \/ t[d].crossed
    <3>1. HasId(s[b]) /\ HasId(s[d]) /\ s[b].id = s[d].id
      BY <1>5, <1>9, <2>3, ZenonT(30)
    <3>2. b = d \/ s[b].crossed \/ s[d].crossed
      BY <1>1, <3>1, ZenonT(30) DEF StreamOk, RacesOk
    <3> QED
      BY <1>9, <3>1, <3>2, ZenonT(30)
  <2>4. ASSUME NEW b \in Consumers, t[b].at = "pushed", ~t[b].crossed
        PROVE  v[k + 1] = t[b].start
    BY <1>3, <1>5, <1>8, <1>9, <2>4, ZenonT(30)
  <2> QED
    BY <1>8, <2>1, <2>2, <2>3, <2>4, ZenonT(30) DEF RacesOk
<1>13. ReturnedOk(e, v, t, g)
  <2>1. ASSUME NEW d \in Consumers, HasId(t[d]), Lone(t, d)
        PROVE  /\ Delivered(e, t[d].start, v[t[d].id], g[d])
               /\ t[d].at = "reading" => t[d].last_seen = v[t[d].id]
    <3>1. HasId(s[d]) /\ Lone(s, d)
      BY <1>9, <1>10, <2>1, ZenonT(30)
    <3>2. /\ Delivered(e, s[d].start, u[s[d].id], g[d])
          /\ s[d].at = "reading" => s[d].last_seen = u[s[d].id]
      BY <1>1, <3>1, ZenonT(30) DEF StreamOk, ReturnedOk
    <3>3. v[t[d].id] = u[s[d].id]
      BY <1>5, <1>8, <1>9, <3>1, ZenonT(30)
    <3> QED
      BY <1>5, <1>9, <3>1, <3>2, <3>3, ZenonT(30)
  <2> QED
    BY <1>1, <1>9, <2>1, ZenonT(30) DEF StreamOk, ReturnedOk
<1>14. StreamOk(e, v, n, m, t, g)
  BY <1>1, <1>11, <1>12, <1>13 DEF StreamOk
<1> QED
  BY <1>1, <1>4, <1>14, ZenonT(30) DEF StreamerInv, PushCursor

(* subscribe counts the cursors and returns. *)
LEMMA TakeIdKeeps ==
  ASSUME StreamerInv, NEW c \in Consumers, TakeId(c)
  PROVE  StreamerInv'
<1>1. PICK e, u, n, m, s, g :
        /\ e = entries /\ u = subscribers /\ n = stream_seq /\ m = numbered
        /\ s = consumer /\ g = got /\ StreamOk(e, u, n, m, s, g)
  BY DEF StreamerInv
<1>2. s \in [Consumers -> StreamConsumer] /\ s[c].at = "pushed" /\ u \in Seq(Nat)
  BY <1>1 DEF StreamOk, CursorsOk, TakeId
<1>3. PICK k \in Nat : k = Len(u)
  BY <1>2, LenProperties
<1>4. PICK b \in StreamConsumer : b = s[c]
  BY <1>2
<1>5. PICK r : r = [b EXCEPT !.at = "idle", !.id = k]
  OBVIOUS
<1>6. /\ r \in StreamConsumer /\ r.at = "idle" /\ r.id = k /\ r.start = b.start
      /\ r.crossed = b.crossed
  BY <1>5, ZenonT(30) DEF StreamConsumer
<1>7. PICK t : t = consumer' /\ t = [s EXCEPT ![c] = r]
  BY <1>1, <1>3, <1>4, <1>5 DEF TakeId
<1>8. t \in [Consumers -> StreamConsumer] /\ t[c] = r /\ \A d \in Consumers : d # c => t[d] = s[d]
  BY <1>2, <1>6, <1>7
<1>9. HasId(r) /\ ~HasId(s[c]) /\ r.at # "pushed" /\ k \in 1 .. k
  <2>1. k # 0
    BY <1>1, <1>2, <1>3, ZenonT(30) DEF StreamOk, CursorsOk
  <2> QED
    BY <1>2, <1>6, <2>1 DEF HasId
<1>10. ASSUME NEW d \in Consumers, d # c, Lone(t, d) PROVE Lone(s, d)
  BY <1>8, <1>9, <1>10 DEF Lone
<1>11. CursorsOk(e, u, t)
  <2>1. \A d \in Consumers : Known(e, t[d].start)
    BY <1>1, <1>4, <1>6, <1>8, ZenonT(30) DEF StreamOk, CursorsOk
  <2>2. \A d \in Consumers : HasId(t[d]) => t[d].id \in 1 .. k
    BY <1>1, <1>3, <1>6, <1>8, <1>9, ZenonT(30) DEF StreamOk, CursorsOk
  <2> QED
    BY <1>1, <1>3, <1>8, <1>9, <2>1, <2>2, ZenonT(30) DEF StreamOk, CursorsOk
<1>12. RacesOk(u, t)
  <2>1. ASSUME NEW d \in Consumers, t[d].at = "pushed"
        PROVE  d # c /\ t[d] = s[d] /\ (s[d].crossed \/ r.crossed)
    BY <1>1, <1>2, <1>4, <1>6, <1>8, <1>9, <2>1, ZenonT(30) DEF StreamOk, RacesOk
  <2>2. ASSUME NEW a \in Consumers, NEW d \in Consumers, t[a].at = "pushed", t[d].at = "pushed"
        PROVE  a = d \/ t[a].crossed \/ t[d].crossed
    BY <1>1, <2>1, <2>2, ZenonT(30) DEF StreamOk, RacesOk
  <2>3. ASSUME NEW a \in Consumers, NEW d \in Consumers, t[a].at = "pushed", ~t[a].crossed,
               HasId(t[d]), t[d].id = k
        PROVE  t[d].crossed
    <3>1. CASE d = c
      BY <1>8, <2>1, <2>3, <3>1
    <3>2. CASE d # c
      BY <1>1, <1>3, <1>8, <2>1, <2>3, <3>2, ZenonT(30) DEF StreamOk, RacesOk
    <3> QED
      BY <3>1, <3>2
  <2>4. ASSUME NEW d \in Consumers, HasId(t[d]), t[d].id = k
        PROVE  d = c \/ r.crossed \/ t[d].crossed
    BY <1>1, <1>2, <1>3, <1>4, <1>6, <1>8, <2>4, ZenonT(30) DEF StreamOk, RacesOk
  <2>5. ASSUME NEW a \in Consumers, NEW d \in Consumers, HasId(t[a]), HasId(t[d]), t[a].id = t[d].id
        PROVE  a = d \/ t[a].crossed \/ t[d].crossed
    <3>1. CASE a = c \/ d = c
      BY <1>6, <1>8, <2>4, <2>5, <3>1
    <3>2. CASE a # c /\ d # c
      BY <1>1, <1>8, <2>5, <3>2, ZenonT(30) DEF StreamOk, RacesOk
    <3> QED
      BY <3>1, <3>2
  <2>6. ASSUME NEW a \in Consumers, t[a].at = "pushed", ~t[a].crossed
        PROVE  \/ u[k] = t[a].start
               \/ \E d \in Consumers : HasId(t[d]) /\ t[d].id = k
    BY <1>6, <1>8, <1>9, ZenonT(30)
  <2> QED
    BY <1>3, <2>2, <2>3, <2>5, <2>6, ZenonT(30) DEF RacesOk
<1>13. ReturnedOk(e, u, t, g)
  <2>1. ASSUME NEW d \in Consumers, HasId(t[d]), Lone(t, d)
        PROVE  /\ Delivered(e, t[d].start, u[t[d].id], g[d])
               /\ t[d].at = "reading" => t[d].last_seen = u[t[d].id]
    <3>1. CASE d = c
      <4>1. ~s[c].crossed /\ \A a \in Consumers : HasId(s[a]) => s[a].id # k
        BY <1>4, <1>6, <1>8, <1>9, <2>1, <3>1 DEF Lone
      <4>2. u[k] = r.start
        BY <1>1, <1>2, <1>3, <1>4, <1>6, <4>1, ZenonT(30) DEF StreamOk, RacesOk
      <4>3. g[c] = <<>> /\ Known(e, r.start) /\ Numbered(e)
        BY <1>1, <1>4, <1>6, <1>9, ZenonT(30) DEF StreamOk, ReturnedOk, CursorsOk, NumbersOk
      <4>4. Delivered(e, r.start, r.start, <<>>)
        BY <4>3, DeliveredFirst
      <4> QED
        BY <1>6, <1>8, <3>1, <4>2, <4>3, <4>4, ZenonT(30)
    <3>2. CASE d # c
      BY <1>1, <1>8, <1>10, <2>1, <3>2 DEF StreamOk, ReturnedOk
    <3> QED
      BY <3>1, <3>2, ZenonT(30)
  <2> QED
    BY <1>1, <1>8, <1>9, <2>1 DEF StreamOk, ReturnedOk
<1>14. StreamOk(e, u, n, m, t, g)
  BY <1>1, <1>11, <1>12, <1>13 DEF StreamOk
<1> QED
  BY <1>1, <1>7, <1>14 DEF StreamerInv, TakeId

(* stream_since reads the cursor. *)
LEMMA ReadCursorKeeps ==
  ASSUME StreamerInv, NEW c \in Consumers, ReadCursor(c)
  PROVE  StreamerInv'
<1>1. PICK e, u, n, m, s, g :
        /\ e = entries /\ u = subscribers /\ n = stream_seq /\ m = numbered
        /\ s = consumer /\ g = got /\ StreamOk(e, u, n, m, s, g)
  BY DEF StreamerInv
<1>2. s \in [Consumers -> StreamConsumer] /\ s[c].at = "idle" /\ u \in Seq(Nat)
  BY <1>1 DEF StreamOk, CursorsOk, ReadCursor
<1>3. PICK z \in Nat : z = u[s[c].id]
  <2>1. s[c].id \in 1 .. Len(u)
    BY <1>1, <1>2, ZenonT(30) DEF StreamOk, CursorsOk, HasId
  <2> QED
    BY <1>2, <2>1
<1>4. PICK b \in StreamConsumer : b = s[c]
  BY <1>2
<1>5. PICK r : r = [b EXCEPT !.at = "reading", !.last_seen = z]
  OBVIOUS
<1>6. /\ r \in StreamConsumer /\ r.at = "reading" /\ r.last_seen = z
      /\ r.id = b.id /\ r.start = b.start /\ r.crossed = b.crossed
  BY <1>5, ZenonT(30) DEF StreamConsumer
<1>7. PICK t : t = consumer' /\ t = [s EXCEPT ![c] = r]
  BY <1>1, <1>3, <1>4, <1>5 DEF ReadCursor
<1>8. t \in [Consumers -> StreamConsumer] /\ t[c] = r /\ \A d \in Consumers : d # c => t[d] = s[d]
  BY <1>2, <1>6, <1>7
<1>9. \A d \in Consumers :
        /\ HasId(t[d]) <=> HasId(s[d])
        /\ t[d].at = "pushed" <=> s[d].at = "pushed"
        /\ t[d].id = s[d].id /\ t[d].start = s[d].start /\ t[d].crossed = s[d].crossed
        /\ t[d].at = "reading" => d = c \/ (s[d].at = "reading" /\ t[d].last_seen = s[d].last_seen)
  BY <1>2, <1>4, <1>6, <1>8 DEF HasId
<1>10. ASSUME NEW d \in Consumers, Lone(t, d) PROVE Lone(s, d)
  BY <1>9, <1>10, ZenonT(30) DEF Lone
<1>11. CursorsOk(e, u, t)
  BY <1>1, <1>8, <1>9, ZenonT(30) DEF StreamOk, CursorsOk
<1>12. RacesOk(u, t)
  <2>1. \A d \in Consumers : SameRace(t[d], s[d])
    BY <1>9, ZenonT(30) DEF SameRace
  <2> QED
    BY <1>1, <2>1, RacesSame, ZenonT(30) DEF StreamOk
<1>13. ReturnedOk(e, u, t, g)
  <2>1. ASSUME NEW d \in Consumers, HasId(t[d]), Lone(t, d)
        PROVE  /\ Delivered(e, t[d].start, u[t[d].id], g[d])
               /\ t[d].at = "reading" => t[d].last_seen = u[t[d].id]
    <3>1. /\ Delivered(e, s[d].start, u[s[d].id], g[d])
          /\ s[d].at = "reading" => s[d].last_seen = u[s[d].id]
      BY <1>1, <1>9, <1>10, <2>1, ZenonT(30) DEF StreamOk, ReturnedOk
    <3>2. t[c].last_seen = u[t[c].id]
      BY <1>3, <1>4, <1>6, <1>8, ZenonT(30)
    <3> QED
      BY <1>9, <3>1, <3>2, ZenonT(30)
  <2> QED
    BY <1>1, <1>9, <2>1, ZenonT(30) DEF StreamOk, ReturnedOk
<1>14. StreamOk(e, u, n, m, t, g)
  BY <1>1, <1>11, <1>12, <1>13 DEF StreamOk
<1> QED
  BY <1>1, <1>7, <1>14 DEF StreamerInv, ReadCursor

(* stream_since takes the entries and moves the cursor. *)
LEMMA CollectKeeps ==
  ASSUME StreamerInv, NEW c \in Consumers, Collect(c)
  PROVE  StreamerInv'
<1>1. PICK e, u, n, m, s, g :
        /\ e = entries /\ u = subscribers /\ n = stream_seq /\ m = numbered
        /\ s = consumer /\ g = got /\ StreamOk(e, u, n, m, s, g)
  BY DEF StreamerInv
<1>2. /\ s \in [Consumers -> StreamConsumer] /\ s[c].at = "reading" /\ u \in Seq(Nat)
      /\ g \in [Consumers -> Seq(Nat)] /\ Numbered(e) /\ e \in Seq(Nat)
  BY <1>1 DEF StreamOk, CursorsOk, ReturnedOk, NumbersOk, Numbered, Collect
<1>3. PICK b \in StreamConsumer : b = s[c]
  BY <1>2
<1>4. PICK k \in Nat, i \in Nat : k = Len(u) /\ i = b.id
  BY <1>2, <1>3, LenProperties DEF StreamConsumer
<1>5. i \in 1 .. k
  BY <1>1, <1>2, <1>3, <1>4, ZenonT(30) DEF StreamOk, CursorsOk, HasId
<1>6. PICK z \in Nat : z = u[i] /\ Known(e, z)
  BY <1>1, <1>4, <1>5 DEF StreamOk, CursorsOk, Known
<1>7. PICK y \in Nat : y = (IF e = <<>> THEN z ELSE e[Len(e)]) /\ Known(e, y)
  <2>1. CASE e = <<>>
    BY <1>6, <2>1
  <2>2. CASE e # <<>>
    <3>1. PICK l \in Nat : l = Len(e)
      BY <1>2, LenProperties
    <3>2. l \in 1 .. l
      BY <1>2, <2>2, <3>1, EmptySeq
    <3>3. e[Len(e)] = e[l] /\ e[l] \in Nat
      BY <1>2, <3>1, <3>2
    <3> QED
      BY <2>2, <3>1, <3>2, <3>3 DEF Known
  <2> QED
    BY <2>1, <2>2
<1>8. PICK q \in Seq(Nat) : q = Kept(e, Beyond(e, b.last_seen))
  <2>1. Beyond(e, b.last_seen) \in SUBSET (1 .. Len(e))
    BY DEF Beyond
  <2> QED
    BY <1>2, <2>1, KeptIs
<1>9. PICK r : r = [b EXCEPT !.at = "idle", !.last_seen = 0]
  OBVIOUS
<1>10. /\ r \in StreamConsumer /\ r.at = "idle"
       /\ r.id = b.id /\ r.start = b.start /\ r.crossed = b.crossed
  BY <1>9, ZenonT(30) DEF StreamConsumer
<1>11. PICK t : t = consumer' /\ t = [s EXCEPT ![c] = r]
  BY <1>1, <1>3, <1>9 DEF Collect
<1>12. PICK v : v = subscribers' /\ v = [u EXCEPT ![i] = y]
  BY <1>1, <1>3, <1>4, <1>6, <1>7, ZenonT(30) DEF Collect, NextCursor
<1>13. PICK h : h = got' /\ h = [g EXCEPT ![c] = g[c] \o q]
  <2>1. NewEntries(b.last_seen) = q
    <3>1. DOMAIN e = 1 .. Len(e)
      BY <1>2
    <3> QED
      BY <1>1, <1>8, <3>1 DEF NewEntries, Beyond
  <2> QED
    BY <1>1, <1>3, <2>1, ZenonT(30) DEF Collect
<1>14. t \in [Consumers -> StreamConsumer] /\ t[c] = r /\ \A d \in Consumers : d # c => t[d] = s[d]
  BY <1>2, <1>10, <1>11
<1>15. /\ v \in Seq(Nat) /\ Len(v) = k /\ v[i] = y
       /\ \A j \in 1 .. k : j # i => v[j] = u[j]
  BY <1>2, <1>4, <1>5, <1>12
<1>16. /\ h \in [Consumers -> Seq(Nat)] /\ h[c] = g[c] \o q
       /\ \A d \in Consumers : d # c => h[d] = g[d]
  <2>1. PICK p \in Seq(Nat) : p = g[c]
    BY <1>2
  <2>2. p \o q \in Seq(Nat)
    BY ConcatProperties
  <2>3. PICK l \in Seq(Nat) : l = g[c] \o q
    BY <2>1, <2>2, ZenonT(30)
  <2> QED
    BY <1>2, <1>13, <2>3
<1>17. HasId(s[c]) /\ HasId(t[c])
  BY <1>2, <1>10, <1>14 DEF HasId
<1>18. \A d \in Consumers :
        /\ HasId(t[d]) <=> HasId(s[d])
        /\ t[d].at = "pushed" <=> s[d].at = "pushed"
        /\ t[d].id = s[d].id /\ t[d].start = s[d].start /\ t[d].crossed = s[d].crossed
        /\ t[d].at = "reading" => d # c /\ s[d].at = "reading" /\ t[d].last_seen = s[d].last_seen
  BY <1>2, <1>3, <1>10, <1>14, <1>17
<1>19. ASSUME NEW d \in Consumers, Lone(t, d) PROVE Lone(s, d)
  BY <1>18, <1>19, ZenonT(30) DEF Lone
<1>20. CursorsOk(e, v, t)
  <2>1. \A j \in 1 .. k : Known(e, v[j])
    BY <1>1, <1>4, <1>7, <1>15, ZenonT(30) DEF StreamOk, CursorsOk
  <2> QED
    BY <1>1, <1>4, <1>14, <1>15, <1>18, <2>1, ZenonT(30) DEF StreamOk, CursorsOk
<1>21. RacesOk(v, t)
  <2>1. \A d \in Consumers : SameRace(t[d], s[d])
    BY <1>18, ZenonT(30) DEF SameRace
  <2>2. v[k] = u[k] \/ \E d \in Consumers : HasId(s[d]) /\ s[d].id = k
    <3>1. CASE i = k
      BY <1>3, <1>4, <1>17, <3>1, ZenonT(30)
    <3>2. CASE i # k
      <4>1. k \in 1 .. k
        BY <1>5
      <4> QED
        BY <1>15, <3>2, <4>1, ZenonT(30)
    <3> QED
      BY <3>1, <3>2
  <2>3. RacesOk(u, s) /\ Len(u) = k /\ Len(v) = k
    BY <1>1, <1>4, <1>15, ZenonT(30) DEF StreamOk
  <2> QED
    BY <2>1, <2>2, <2>3, RacesSame, ZenonT(30)
<1>22. ReturnedOk(e, v, t, h)
  <2>1. ASSUME NEW d \in Consumers, HasId(t[d]), Lone(t, d)
        PROVE  /\ Delivered(e, t[d].start, v[t[d].id], h[d])
               /\ t[d].at = "reading" => t[d].last_seen = v[t[d].id]
    <3>1. /\ Delivered(e, s[d].start, u[s[d].id], g[d])
          /\ s[d].at = "reading" => s[d].last_seen = u[s[d].id]
          /\ HasId(s[d]) /\ Known(e, s[d].start)
      BY <1>1, <1>18, <1>19, <2>1, ZenonT(30) DEF StreamOk, ReturnedOk, CursorsOk
    <3>2. CASE d = c
      <4>1. b.last_seen = z /\ Delivered(e, b.start, z, g[c]) /\ Known(e, b.start)
        BY <1>2, <1>3, <1>4, <1>6, <3>1, <3>2
      <4>2. Delivered(e, b.start, y, g[c] \o q)
        BY <1>2, <1>7, <1>8, <4>1, DeliveredMore
      <4>3. v[t[c].id] = y /\ t[c].start = b.start /\ t[c].at # "reading"
        BY <1>4, <1>10, <1>14, <1>15, ZenonT(30)
      <4> QED
        BY <1>16, <3>2, <4>2, <4>3, ZenonT(30)
    <3>3. CASE d # c
      <4>1. s[d].id # i
        BY <1>3, <1>4, <1>17, <1>18, <2>1, <3>3, ZenonT(30) DEF Lone
      <4>2. s[d].id \in 1 .. k
        BY <1>1, <1>4, <3>1, ZenonT(30) DEF StreamOk, CursorsOk
      <4>3. v[t[d].id] = u[s[d].id]
        BY <1>15, <1>18, <4>1, <4>2, ZenonT(30)
      <4> QED
        BY <1>16, <1>18, <3>1, <3>3, <4>3, ZenonT(30)
    <3> QED
      BY <3>2, <3>3, ZenonT(30)
  <2>2. \A d \in Consumers : ~HasId(t[d]) => h[d] = <<>>
    BY <1>1, <1>16, <1>17, <1>18, ZenonT(30) DEF StreamOk, ReturnedOk
  <2> QED
    BY <1>16, <2>1, <2>2, ZenonT(30) DEF ReturnedOk
<1>23. StreamOk(e, v, n, m, t, h)
  BY <1>1, <1>20, <1>21, <1>22 DEF StreamOk
<1> QED
  BY <1>1, <1>11, <1>12, <1>13, <1>23 DEF StreamerInv, Collect

-----------------------------------------------------------------------------
(* A new streamer has the invariant. *)
LEMMA StreamerStart ==
  ASSUME StreamInit
  PROVE  StreamerInv
<1>1. /\ NewConsumer \in StreamConsumer /\ NewConsumer.at = "new" /\ NewConsumer.start = 0
      /\ ~HasId(NewConsumer)
  BY DEF NewConsumer, StreamConsumer, HasId
<1>2. \A c \in Consumers : consumer[c] = NewConsumer /\ got[c] = <<>>
  BY DEF StreamInit
<1>3. NumbersOk(entries, stream_seq, numbered)
  <2>1. Numbered(entries)
    BY DEF StreamInit, Numbered
  <2>2. numbered \in [Writers -> Nat] /\ \A w \in Writers : numbered[w] = 0
    BY DEF StreamInit
  <2> QED
    BY <2>1, <2>2 DEF StreamInit, NumbersOk
<1>4. CursorsOk(entries, subscribers, consumer)
  <2>1. consumer \in [Consumers -> StreamConsumer]
    BY <1>1 DEF StreamInit
  <2>2. Known(entries, 0)
    BY DEF Known
  <2>3. subscribers \in Seq(Nat) /\ Len(subscribers) = 0
    BY DEF StreamInit
  <2> QED
    BY <1>1, <1>2, <2>1, <2>2, <2>3 DEF CursorsOk
<1>5. RacesOk(subscribers, consumer)
  BY <1>1, <1>2 DEF RacesOk
<1>6. ReturnedOk(entries, subscribers, consumer, got)
  <2>1. <<>> \in Seq(Nat)
    OBVIOUS
  <2>2. got \in [Consumers -> Seq(Nat)]
    BY <2>1 DEF StreamInit
  <2> QED
    BY <1>1, <1>2, <2>2, ZenonT(30) DEF ReturnedOk
<1> QED
  BY <1>3, <1>4, <1>5, <1>6 DEF StreamerInv, StreamOk

(* Every part of a call keeps it. *)
LEMMA StreamerStep == StreamerInv /\ [StreamNext]_streamVars => StreamerInv'
<1> SUFFICES ASSUME StreamerInv, [StreamNext]_streamVars PROVE StreamerInv'
  OBVIOUS
<1>1. CASE UNCHANGED streamVars
  BY <1>1 DEF streamVars, StreamerInv
<1>2. ASSUME NEW w \in Writers, TakeNumber(w) \/ PushEntry(w) PROVE StreamerInv'
  BY <1>2, TakeNumberKeeps, PushEntryKeeps
<1>3. ASSUME NEW c \in Consumers,
             Look(c) \/ PushCursor(c) \/ TakeId(c) \/ ReadCursor(c) \/ Collect(c)
      PROVE  StreamerInv'
  BY <1>3, LookKeeps, PushCursorKeeps, TakeIdKeeps, ReadCursorKeeps, CollectKeeps
<1> QED
  BY <1>1, <1>2, <1>3 DEF StreamNext

(* What it says of the consumers. *)
LEMMA StreamerDelivers ==
  ASSUME StreamerInv
  PROVE  CursorsDeliver
<1>1. PICK e, u, s, g :
        /\ e = entries /\ u = subscribers /\ s = consumer /\ g = got
        /\ Numbered(e) /\ CursorsOk(e, u, s) /\ RacesOk(u, s) /\ ReturnedOk(e, u, s, g)
  BY DEF StreamerInv, StreamOk, NumbersOk
<1>2. PICK n \in Nat : n = Len(e)
  BY <1>1, LenProperties DEF Numbered
<1>3. e \in Seq(Nat) /\ DOMAIN e = 1 .. n /\ \A i \in 1 .. n : e[i] \in Nat
  BY <1>1, <1>2 DEF Numbered
<1>4. \A c \in Consumers : c \in Subscribed <=> HasId(s[c])
  BY <1>1, ZenonT(30) DEF Subscribed, HasId
<1>5. \A c \in Consumers : Alone(c) => Lone(s, c)
  BY <1>1, <1>4 DEF Alone, Lone
<1>6. OwnCursorUnlessCrossed
  BY <1>1, <1>4, ZenonT(30) DEF OwnCursorUnlessCrossed, RacesOk, Subscribed
<1>7. \A x : x \in Range(e) <=> \E i \in 1 .. n : e[i] = x
  BY <1>3 DEF Range
<1>8. ASSUME NEW i \in 1 .. n PROVE IsLate(e, i) => e[i] \in Late
  BY <1>1, <1>2, <1>3, <1>7 DEF IsLate, Late
<1>9. MissesOnlyLate
  <2>1. SUFFICES ASSUME NEW c \in Consumers, HasId(s[c]), Lone(s, c), NEW x \in Range(e), x \notin Late,
                        s[c].start < x, x <= u[s[c].id]
                 PROVE  x \in Range(g[c])
    BY <1>1, <1>4, <1>5, ZenonT(30) DEF MissesOnlyLate, Subscribed
  <2>2. PICK i \in 1 .. n : e[i] = x
    BY <1>7
  <2>3. i \in UpTo(e, s[c].start, u[s[c].id]) /\ ~IsLate(e, i)
    BY <1>2, <1>8, <2>1, <2>2 DEF UpTo
  <2>4. Delivered(e, s[c].start, u[s[c].id], g[c])
    BY <1>1, <2>1, ZenonT(30) DEF ReturnedOk
  <2> QED
    BY <2>2, <2>3, <2>4, ZenonT(30) DEF Delivered
<1>10. ASSUME Late = {} PROVE Increasing(e)
  <2>1. SUFFICES ASSUME NEW i \in 1 .. n, NEW j \in 1 .. n, i < j PROVE e[i] < e[j]
    BY <1>2 DEF Increasing
  <2>2. ~IsLate(e, j)
    BY <1>8, <1>10
  <2>3. ~(e[i] > e[j])
    BY <1>2, <2>1, <2>2 DEF IsLate
  <2>4. e[i] # e[j]
    BY <1>1, <1>2, <2>1 DEF Numbered
  <2> QED
    BY <1>3, <2>3, <2>4
<1>11. OnceInOrder
  <2>1. SUFFICES ASSUME NEW c \in Consumers, HasId(s[c]), Lone(s, c), Late = {}
                 PROVE  g[c] = Kept(e, {i \in DOMAIN e : s[c].start < e[i] /\ e[i] <= u[s[c].id]})
    BY <1>1, <1>4, <1>5, ZenonT(30) DEF OnceInOrder, Subscribed
  <2>2. Delivered(e, s[c].start, u[s[c].id], g[c])
    BY <1>1, <2>1, ZenonT(30) DEF ReturnedOk
  <2>3. g[c] = Kept(e, UpTo(e, s[c].start, u[s[c].id]))
    BY <1>10, <2>1, <2>2, ZenonT(30) DEF Delivered
  <2> QED
    BY <1>2, <1>3, <2>3, ZenonT(30) DEF UpTo
<1> QED
  BY <1>6, <1>9, <1>11 DEF CursorsDeliver

(* subscribe and stream_since, whatever append calls and other consumers   *)
(* do in between: a consumer has a cursor of its own unless it subscribed  *)
(* at the same time as another one; with one, it misses no entry that was  *)
(* pushed in its turn, and gets each once and in order if all were.        *)
THEOREM StreamerSafety == StreamerSpec => []CursorsDeliver
<1>1. StreamInit => StreamerInv
  BY StreamerStart
<1>2. StreamerInv /\ [StreamNext]_streamVars => StreamerInv'
  BY StreamerStep
<1>3. StreamerInv => CursorsDeliver
  BY StreamerDelivers
<1> QED
  BY <1>1, <1>2, <1>3, PTL DEF StreamerSpec
================================================================================
