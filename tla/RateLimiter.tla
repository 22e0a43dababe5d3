----------------------------- MODULE RateLimiter -----------------------------
(***************************************************************************)
(* Streams that share a rate limiter (wstunnel/src/tunnel/rate_limiter.rs):*)
(* the readers, or the writers, of the connections of one tunnel id.       *)
(*                                                                         *)
(* A poll that the limiter holds up stores a sleep and asks to be polled   *)
(* again, because a sleep counts only once it has been polled.  The tokens *)
(* are paid before the inner stream is tried.                              *)
(*                                                                         *)
(* External: the governor crate (a bucket of tokens), tokio's timer, the   *)
(* inner stream, and the task that polls a stream again after every        *)
(* transfer.  A second is a number of ticks.                               *)
(***************************************************************************)
EXTENDS Integers, FiniteSets

CONSTANTS
  Readers, Writers,  \* the streams
  Limit,             \* the limit in MiB per second
  MiB, CHUNK,        \* bytes
  BufSize,           \* room in the buffer of a read
  Ticks,             \* ticks of the clock per second
  Data               \* bytes each stream has to move

Streams == Readers \cup Writers

AtLeast(n, low) == IF n < low THEN low ELSE n
AtMost(n, high) == IF n > high THEN high ELSE n
clamp(n, low, high) == AtMost(AtLeast(n, low), high)

\* build_limiter.
Rate == AtLeast(Limit * MiB, 1)
Burst == AtLeast((Limit * MiB * 12) \div 10, 1)
PerTick == AtLeast(Rate \div Ticks, 1)

ASSUME LimiterAssumption ==
  /\ Readers \cap Writers = {}
  /\ Limit \in Nat
  /\ {MiB, CHUNK, BufSize, Ticks, Data} \subseteq Nat \ {0}

VARIABLES
  tokens,  \* in the bucket
  strict,  \* tokens of a bucket that pays for the bytes moved and no more
  left,    \* bytes a stream has not moved yet
  ready,   \* bytes of them the inner stream would move now
  woken,   \* the stream's task will be polled
  sleep    \* the stored sleep: ticks left and whether it has been polled

vars == <<tokens, strict, left, ready, woken, sleep>>

NoSleep == [kind |-> "none", wait |-> 0]

Init ==
  /\ tokens = Burst /\ strict = Burst
  /\ left = [s \in Streams |-> Data]
  /\ ready = [s \in Streams |-> 0]
  /\ woken = [s \in Streams |-> TRUE]
  /\ sleep = [s \in Streams |-> NoSleep]

-----------------------------------------------------------------------------
\* What jittered_chunk may return: the base within ten percent.
jittered_chunk ==
  [base \in 1 .. CHUNK |->
     {clamp((base * pct) \div 100, 1, CHUNK) : pct \in 90 .. 110}]

\* The room of a read, the bytes of a write.
Remaining(s) == IF s \in Readers THEN BufSize ELSE left[s]

\* The bytes a poll may ask for.
Requests(s) ==
  {AtMost(n, Remaining(s)) :
     n \in jittered_chunk[clamp(Remaining(s), 1, CHUNK)]}

\* Ticks until the bucket holds n tokens, or a pause if it never will.
WaitTime(n) ==
  IF n > Burst THEN 1 ELSE (n - tokens + PerTick - 1) \div PerTick

\* Mutant of schedule_wait: the task is not woken.
schedule_wait_silent(s, wait) ==
  /\ sleep' = [sleep EXCEPT ![s] = [kind |-> "new", wait |-> wait]]
  /\ woken' = [woken EXCEPT ![s] = FALSE]

schedule_wait(s, wait) ==
  /\ sleep' = [sleep EXCEPT ![s] = [kind |-> "new", wait |-> wait]]
  /\ woken' = [woken EXCEPT ![s] = TRUE]

\* A sleep that has not elapsed; polling it sets its timer.
PollSleep(s) ==
  /\ woken[s] /\ sleep[s].kind # "none" /\ sleep[s].wait > 0
  /\ sleep' = [sleep EXCEPT ![s].kind = "armed"]
  /\ woken' = [woken EXCEPT ![s] = FALSE]
  /\ UNCHANGED <<tokens, strict, left, ready>>

Awake(s) ==
  /\ woken[s] /\ (s \in Writers => left[s] > 0)
  /\ sleep[s].kind = "none" \/ sleep[s].wait = 0

\* The limiter has not enough tokens, or can never have so many.
PollHeldUp(s) ==
  /\ Awake(s)
  /\ \E n \in Requests(s) : n > tokens /\ schedule_wait(s, WaitTime(n))
  /\ UNCHANGED <<tokens, strict, left, ready>>

\* The tokens are paid and the inner stream has nothing to move.
PollPending(s) ==
  /\ Awake(s) /\ ready[s] = 0
  /\ \E n \in Requests(s) : n <= tokens /\ tokens' = tokens - n
  /\ sleep' = [sleep EXCEPT ![s] = NoSleep]
  /\ woken' = [woken EXCEPT ![s] = FALSE]
  /\ UNCHANGED <<strict, left, ready>>

\* Mutant of PollMoves: the whole buffer is handed to the inner stream.
PollMovesAll(s) ==
  /\ Awake(s)
  /\ \E n \in Requests(s), k \in 1 .. AtMost(ready[s], Remaining(s)) :
       /\ n <= tokens
       /\ tokens' = tokens - n
       /\ strict' = strict - k
       /\ left' = [left EXCEPT ![s] = @ - k]
       /\ ready' = [ready EXCEPT ![s] = @ - k]
  /\ sleep' = [sleep EXCEPT ![s] = NoSleep]
  /\ UNCHANGED woken

\* The tokens are paid and at most so many bytes are moved; the caller comes
\* back for more.
PollMoves(s) ==
  /\ Awake(s) /\ ready[s] > 0
  /\ \E n \in Requests(s) :
       /\ n <= tokens
       /\ tokens' = tokens - n
       /\ \E k \in {1, AtMost(n, ready[s])} :
            /\ strict' = strict - k
            /\ left' = [left EXCEPT ![s] = @ - k]
            /\ ready' = [ready EXCEPT ![s] = @ - k]
  /\ sleep' = [sleep EXCEPT ![s] = NoSleep]
  /\ UNCHANGED woken

-----------------------------------------------------------------------------
\* Data arrives at the inner stream, or room for it, and wakes the task.
Arrive(s) ==
  /\ ready[s] < left[s]
  /\ \E r \in {ready[s] + 1, left[s]} : ready' = [ready EXCEPT ![s] = r]
  /\ woken' = [woken EXCEPT ![s] = TRUE]
  /\ UNCHANGED <<tokens, strict, left, sleep>>

Tick ==
  /\ tokens' = AtMost(tokens + PerTick, Burst)
  /\ strict' = AtMost(strict + PerTick, Burst)
  /\ sleep' = [s \in Streams |-> [sleep[s] EXCEPT !.wait = AtLeast(@ - 1, 0)]]
  /\ UNCHANGED <<left, ready, woken>>

\* The timer of a sleep that has been polled.
TimerFires(s) ==
  /\ sleep[s] = [kind |-> "armed", wait |-> 0] /\ ~woken[s]
  /\ woken' = [woken EXCEPT ![s] = TRUE]
  /\ UNCHANGED <<tokens, strict, left, ready, sleep>>

-----------------------------------------------------------------------------
Poll(s) == PollSleep(s) \/ PollHeldUp(s) \/ PollPending(s) \/ PollMoves(s)

Next ==
  \/ \E s \in Streams : Poll(s) \/ Arrive(s) \/ TimerFires(s)
  \/ Tick

Spec == Init /\ [][Next]_vars

\* Woken tasks are polled, timers fire, time passes, and the other end of
\* each stream keeps going.
FairSpec ==
  /\ Spec
  /\ WF_vars(Tick)
  /\ \A s \in Streams : WF_vars(Poll(s) \/ TimerFires(s)) /\ WF_vars(Arrive(s))

-----------------------------------------------------------------------------
(***************************************************************************)
(* Properties                                                              *)
(***************************************************************************)

\* Every variable keeps its type.
TypeOK ==
  /\ tokens \in 0 .. Burst /\ strict \in Int
  /\ left \in [Streams -> 0 .. Data] /\ ready \in [Streams -> 0 .. Data]
  /\ woken \in [Streams -> BOOLEAN]
  /\ sleep \in [Streams -> [kind : {"none", "new", "armed"}, wait : 0 .. Burst]]

\* README.md:496, "all connections belonging to the same tunnel-id share a
\* single bandwidth quota": all streams together never move more than a burst
\* and the rate times the time passed, over any stretch of time, whatever
\* their polls ask for and how they interleave.
QuotaRespected == TypeOK /\ strict >= 0

\* A limit slows a tunnel down and does not stop it: with at least 1 MiB/s
\* every stream moves all its data, however the other streams of the tunnel
\* compete for the tokens.
AllDataMoves == <>(\A s \in Streams : left[s] = 0)
=============================================================================
