------------------------- MODULE RateLimiterProofs -------------------------
(***************************************************************************)
(* A proof that the streams of a tunnel id keep to their common quota, for *)
(* any number of streams, any limit, clock, chunk and amount of data.      *)
(***************************************************************************)
EXTENDS RateLimiter, TLAPS

USE SMTT(40), ZenonT(40), Z3T(40), SMTT(30), Z3T(30)

\* The bucket that pays for what is moved has at least the tokens of the real
\* one, which pays for what is asked for; and a stream never has more ready
\* than is left.
Inv ==
  /\ TypeOK /\ tokens <= strict
  /\ \A s \in Streams : ready[s] <= left[s]

\* A wait is never longer than the missing tokens.
LEMMA DivBound ==
  ASSUME NEW x \in Nat \ {0}, NEW d \in Nat \ {0}
  PROVE  (x + d - 1) \div d \in 0 .. x
<1> DEFINE q == (x + d - 1) \div d
<1>1. q \in Nat /\ q * d <= x + d - 1
  OBVIOUS
<1>2. ASSUME q >= x + 1 PROVE FALSE
  <2>1. q * d >= (x + 1) * d
    BY <1>1, <1>2
  <2>2. (x + 1) * d = x * d + d /\ x * d >= x
    OBVIOUS
  <2> QED
    BY <1>1, <2>1, <2>2
<1> QED
  BY <1>1, <1>2

\* The rate and the burst are at least one token.
LEMMA RateTypes == Burst \in Nat \ {0} /\ PerTick \in Nat \ {0}
  BY LimiterAssumption DEF Burst, PerTick, Rate, AtLeast

\* What a poll asks for: at least one byte.
LEMMA RequestTypes ==
  ASSUME TypeOK, NEW s \in Streams, s \in Writers => left[s] > 0, NEW n \in Requests(s)
  PROVE  n \in Nat \ {0}
<1> USE LimiterAssumption
<1>1. Remaining(s) \in Nat \ {0}
  BY DEF TypeOK, Remaining, Streams
<1>2. clamp(Remaining(s), 1, CHUNK) \in 1 .. CHUNK
  BY <1>1 DEF clamp, AtLeast, AtMost
<1>3. PICK m \in jittered_chunk[clamp(Remaining(s), 1, CHUNK)] : n = AtMost(m, Remaining(s))
  BY DEF Requests
<1>4. PICK pct \in 90 .. 110 :
        m = clamp((clamp(Remaining(s), 1, CHUNK) * pct) \div 100, 1, CHUNK)
  BY <1>2, <1>3 DEF jittered_chunk
<1>5. (clamp(Remaining(s), 1, CHUNK) * pct) \div 100 \in Int
  BY <1>2
<1>6. m \in Nat \ {0}
  BY <1>4, <1>5 DEF clamp, AtLeast, AtMost
<1> QED
  BY <1>1, <1>3, <1>6 DEF AtMost

\* Both buckets start full.
LEMMA InvInit == Init => Inv
  BY RateTypes, LimiterAssumption DEF Init, Inv, TypeOK, NoSleep

\* A poll that moves nothing.
LEMMA WaitStep ==
  ASSUME Inv, NEW s \in Streams, PollSleep(s) \/ PollHeldUp(s) \/ PollPending(s)
  PROVE  Inv'
<1> USE RateTypes, LimiterAssumption
<1>1. CASE PollSleep(s)
  BY <1>1 DEF Inv, TypeOK, PollSleep
<1>2. CASE PollHeldUp(s)
  <2>1. PICK n \in Requests(s) : n > tokens /\ schedule_wait(s, WaitTime(n))
    BY <1>2 DEF PollHeldUp
  <2>2. n \in Nat \ {0} /\ tokens \in 0 .. Burst
    BY <1>2, RequestTypes DEF PollHeldUp, Awake, Inv, TypeOK
  <2>3. WaitTime(n) \in 0 .. Burst
    <3>1. CASE n > Burst
      BY <3>1 DEF WaitTime
    <3>2. CASE n <= Burst
      <4>1. n - tokens \in Nat \ {0} /\ n - tokens <= Burst
        BY <2>1, <2>2, <3>2
      <4>2. (n - tokens + PerTick - 1) \div PerTick \in 0 .. n - tokens
        BY <4>1, DivBound
      <4> QED
        BY <2>2, <3>2, <4>1, <4>2 DEF WaitTime
    <3> QED
      BY <2>2, <3>1, <3>2
  <2> QED
    BY <1>2, <2>1, <2>3 DEF Inv, TypeOK, PollHeldUp, schedule_wait
<1>3. CASE PollPending(s)
  <2>1. PICK n \in Requests(s) : n <= tokens /\ tokens' = tokens - n
    BY <1>3 DEF PollPending
  <2>2. n \in Nat
    BY <1>3, RequestTypes DEF PollPending, Awake, Inv
  <2>3. tokens' \in 0 .. Burst /\ tokens' <= strict'
    BY <1>3, <2>1, <2>2 DEF PollPending, Inv, TypeOK
  <2> QED
    BY <1>3, <2>3 DEF Inv, TypeOK, PollPending, NoSleep
<1> QED
  BY <1>1, <1>2, <1>3

\* A poll moves at most what it has paid for.
LEMMA MoveStep ==
  ASSUME Inv, NEW s \in Streams, PollMoves(s)
  PROVE  Inv'
<1> USE RateTypes, LimiterAssumption
<1>0. PICK n \in Requests(s) :
        /\ n <= tokens /\ tokens' = tokens - n
        /\ \E k \in {1, AtMost(n, ready[s])} :
             /\ strict' = strict - k
             /\ left' = [left EXCEPT ![s] = @ - k]
             /\ ready' = [ready EXCEPT ![s] = @ - k]
  BY ZenonT(40) DEF PollMoves
<1>1. PICK k \in {1, AtMost(n, ready[s])} :
        /\ strict' = strict - k
        /\ left' = [left EXCEPT ![s] = @ - k]
        /\ ready' = [ready EXCEPT ![s] = @ - k]
  BY <1>0, ZenonT(40)
<1>2. n \in Nat \ {0}
  BY RequestTypes DEF PollMoves, Awake, Inv
<1>3. /\ ready[s] \in Nat \ {0} /\ left[s] \in Nat /\ ready[s] <= left[s] /\ left[s] <= Data
      /\ tokens \in 0 .. Burst /\ strict \in Int /\ tokens <= strict
  BY DEF Inv, TypeOK, PollMoves
<1>4. k \in Nat \ {0} /\ k <= n /\ k <= ready[s]
  BY <1>1, <1>2, <1>3 DEF AtMost
<1>5. tokens' \in 0 .. Burst /\ strict' \in Int /\ tokens' <= strict'
  BY <1>0, <1>1, <1>2, <1>3, <1>4
<1>6. /\ left' \in [Streams -> 0 .. Data] /\ ready' \in [Streams -> 0 .. Data]
      /\ \A t \in Streams : ready'[t] <= left'[t]
  BY <1>1, <1>3, <1>4 DEF Inv, TypeOK
<1> QED
  BY <1>5, <1>6 DEF Inv, TypeOK, PollMoves, NoSleep

\* Time and the other ends of the streams.
LEMMA OutsideStep ==
  ASSUME Inv, Tick \/ \E s \in Streams : Arrive(s) \/ TimerFires(s)
  PROVE  Inv'
<1> USE RateTypes, LimiterAssumption
<1>1. CASE Tick
  <2>1. tokens' \in 0 .. Burst /\ strict' \in Int /\ tokens' <= strict'
    BY <1>1 DEF Inv, TypeOK, Tick, AtMost
  <2>2. sleep' \in [Streams -> [kind : {"none", "new", "armed"}, wait : 0 .. Burst]]
    BY <1>1 DEF Inv, TypeOK, Tick, AtLeast
  <2> QED
    BY <1>1, <2>1, <2>2 DEF Inv, TypeOK, Tick
<1>2. ASSUME NEW s \in Streams, Arrive(s) PROVE Inv'
  BY <1>2 DEF Inv, TypeOK, Arrive
<1>3. ASSUME NEW s \in Streams, TimerFires(s) PROVE Inv'
  BY <1>3 DEF Inv, TypeOK, TimerFires
<1> QED
  BY <1>1, <1>2, <1>3

\* Every step keeps the invariant.
LEMMA InvStep == Inv /\ [Next]_vars => Inv'
<1> SUFFICES ASSUME Inv, [Next]_vars PROVE Inv'
  OBVIOUS
<1>1. CASE UNCHANGED vars
  BY <1>1 DEF Inv, TypeOK, vars
<1>2. CASE Next
  BY <1>2, WaitStep, MoveStep, OutsideStep DEF Next, Poll
<1> QED
  BY <1>1, <1>2

\* README.md:496: the connections of a tunnel id share one quota, and together
\* never move more than a burst and the rate times the time passed, for any
\* number of readers and writers, limit, chunk, buffer and clock
\* (rate_limiter.rs).
THEOREM QuotaAlwaysRespected == Spec => []QuotaRespected
<1>1. Inv => QuotaRespected
  BY RateTypes DEF Inv, TypeOK, QuotaRespected
<1> QED
  BY InvInit, InvStep, <1>1, PTL DEF Spec
=============================================================================
