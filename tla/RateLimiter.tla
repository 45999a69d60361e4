------------------------------- MODULE RateLimiter -------------------------------
(***************************************************************************)
(* The token bucket of core/dispatcher.py for one key.  Time is counted in *)
(* ticks, Minute of them to a minute; tokens are counted in the largest    *)
(* part of a token that makes a tick's refill and a whole token integers.  *)
(* (The code's floating-point numbers round these values.)                 *)
(***************************************************************************)
EXTENDS Integers, Sequences

CONSTANTS
  Callers,
  Limit, Denominator,   \* limit_per_minute is Limit / Denominator
  Minute,
  Timeout,              \* how long acquire() waits for a token
  MaxTime               \* bound on the clock

ASSUME RateLimiterAssumption ==
  /\ Limit \in Nat \ {0} /\ Denominator \in Nat \ {0} /\ Minute \in Nat \ {0}
  /\ Timeout \in Nat /\ MaxTime \in Nat

VARIABLES
  now,
  tokens, last,  \* the bucket; an absent one is like a full one
  pc, deadline, wake,  \* caller -> where it is, when it gives up, when it wakes
  grants         \* the times of the tokens handed out since the last reset()

vars == <<now, tokens, last, pc, deadline, wake, grants>>

Token    == Denominator * Minute
Refill   == Limit
Capacity == IF Limit < Denominator THEN Token ELSE Limit * Minute

TypeOK ==
  /\ now \in Nat /\ last \in 0..now
  /\ tokens \in 0..Capacity
  /\ pc \in [Callers -> {"new", "sleeping", "granted", "refused"}]
  /\ deadline \in [Callers -> Nat] /\ wake \in [Callers -> Nat]
  /\ grants \in Seq(0..now)

Init ==
  /\ now = 0 /\ tokens = Capacity /\ last = 0
  /\ pc = [a \in Callers |-> "new"]
  /\ deadline = [a \in Callers |-> 0] /\ wake = [a \in Callers |-> 0]
  /\ grants = <<>>

Tick ==
  /\ now < MaxTime
  /\ now' = now + 1
  /\ UNCHANGED <<tokens, last, pc, deadline, wake, grants>>

\* What the bucket holds at this moment.
CurrentTokens ==
  LET refilled == tokens + (now - last) * Refill IN
  IF refilled < Capacity THEN refilled ELSE Capacity

Smaller(x, y) == IF x < y THEN x ELSE y

\* The ticks until the deficit is refilled, rounded up to whole ticks.
SleepFor == (Token - CurrentTokens + Refill - 1) \div Refill

\* Mutated form: the time of the visit is kept only with a token.
TakeForgetsVisit(a) ==
  /\ CurrentTokens >= Token
  /\ tokens' = CurrentTokens - Token
  /\ UNCHANGED last
  /\ grants' = Append(grants, now)
  /\ pc' = [pc EXCEPT ![a] = "granted"]
  /\ UNCHANGED wake

\* One turn of the loop, with the lock held and without an await: take a token,
Take(a) ==
  /\ CurrentTokens >= Token
  /\ tokens' = CurrentTokens - Token
  /\ last' = now
  /\ grants' = Append(grants, now)
  /\ pc' = [pc EXCEPT ![a] = "granted"]
  /\ UNCHANGED wake

\* Mutated form: the sleep may go past the deadline.
SleepTooLong(a, end) ==
  /\ CurrentTokens < Token /\ now < end
  /\ tokens' = CurrentTokens /\ last' = now
  /\ wake' = [wake EXCEPT ![a] = now + SleepFor]
  /\ pc' = [pc EXCEPT ![a] = "sleeping"]
  /\ UNCHANGED grants

\* or sleep until there may be one, at most to the deadline,
Sleep(a, end) ==
  /\ CurrentTokens < Token /\ now < end
  /\ tokens' = CurrentTokens /\ last' = now
  /\ wake' = [wake EXCEPT ![a] = now + Smaller(SleepFor, end - now)]
  /\ pc' = [pc EXCEPT ![a] = "sleeping"]
  /\ UNCHANGED grants

\* or give up: the deadline has passed, or the caller does not wait.
GiveUp(a) ==
  /\ CurrentTokens < Token
  /\ tokens' = CurrentTokens /\ last' = now
  /\ pc' = [pc EXCEPT ![a] = "refused"]
  /\ UNCHANGED <<wake, grants>>

\* acquire(wait): its first turn.
Acquire(a, wait) ==
  /\ pc[a] = "new"
  /\ deadline' = [deadline EXCEPT ![a] = now + Timeout]
  /\ \/ Take(a)
     \/ wait /\ Sleep(a, now + Timeout)
     \/ (~wait \/ Timeout = 0) /\ GiveUp(a)
  /\ UNCHANGED now

\* The sleep is over, some time at or after the moment it was meant to be.
Wake(a) ==
  /\ pc[a] = "sleeping" /\ now >= wake[a]
  /\ \/ Take(a)
     \/ Sleep(a, deadline[a])
     \/ now >= deadline[a] /\ GiveUp(a)
  /\ UNCHANGED <<now, deadline>>

\* reset() drops the bucket: the next caller finds a full one.
Reset ==
  /\ tokens' = Capacity /\ grants' = <<>>
  /\ UNCHANGED <<now, last, pc, deadline, wake>>

Next ==
  \/ Tick \/ Reset
  \/ \E a \in Callers : Wake(a) \/ \E wait \in BOOLEAN : Acquire(a, wait)

Spec == Init /\ [][Next]_vars

\* Time goes on and a sleeper whose time has come runs.
FairSpec == Spec /\ WF_vars(Tick) /\ \A a \in Callers : WF_vars(Wake(a))

-----------------------------------------------------------------------------
\* Between two resets, any run of consecutive grants stays within a burst of
\* one capacity and the refill of the time it spans: "a modest burst while
\* keeping the long-run average within the configured ceiling".
WithinCeiling ==
  \A k \in 1..Len(grants) : \A i \in 1..k :
    (k - i + 1) * Token <= Capacity + Refill * (grants[k] - grants[i])

\* Whoever waits ends with a token or a refusal, whatever the others take.
WaitEnds ==
  \A a \in Callers :
    (pc[a] = "sleeping" /\ deadline[a] <= MaxTime) ~> pc[a] \in {"granted", "refused"}
=============================================================================
