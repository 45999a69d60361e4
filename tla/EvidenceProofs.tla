----------------------------- MODULE EvidenceProofs -----------------------------
(***************************************************************************)
(* How evidence is asked for, weighed and joined, for every value of the   *)
(* constants: the long-run bound of the token bucket, the quota of the     *)
(* lookups that go through it, the score of a scanned URL, which sees all  *)
(* that was found, and the one graph of the payloads of unrelated tools.   *)
(***************************************************************************)
EXTENDS Lookups, UrlScan, Collection, Induction, FiniteSetTheorems

-----------------------------------------------------------------------------
LEMMA ProductOfSum == \A x, y, z \in Int : x * (y + z) = x * y + x * z
OBVIOUS

LEMMA ProductGrows == \A x, y, z \in Nat : x <= y => x * z <= y * z
OBVIOUS

\* One token is a positive amount that fits into the bucket.
LEMMA TokenFits == Token \in Nat \ {0} /\ Capacity \in Nat /\ Token <= Capacity /\ Refill \in Nat \ {0}
<1>1. Token \in Nat \ {0} /\ Refill \in Nat \ {0} /\ Limit * Minute \in Nat
  BY RateLimiterAssumption DEF Token, Refill
<1>2. CASE Limit < Denominator
  BY <1>1, <1>2 DEF Token, Capacity
<1>3. CASE ~(Limit < Denominator)
  <2>1. Denominator * Minute <= Limit * Minute
    BY <1>3, RateLimiterAssumption, ProductGrows
  <2> QED
    BY <1>1, <1>3, <2>1 DEF Token, Capacity
<1> QED
  BY <1>2, <1>3

\* Looking at the bucket never shows more than it can hold or was refilled.
LEMMA CurrentBounded ==
  ASSUME TypeOK
  PROVE  /\ CurrentTokens \in 0..Capacity
         /\ CurrentTokens <= tokens + Refill * (now - last)
<1> DEFINE added == (now - last) * Refill
<1>1. now - last \in Nat /\ added \in Nat /\ added = Refill * (now - last)
  BY TokenFits DEF TypeOK
<1>2. tokens \in 0..Capacity /\ tokens \in Nat
  BY TokenFits DEF TypeOK
<1>3. CurrentTokens = IF tokens + added < Capacity THEN tokens + added ELSE Capacity
  BY DEF CurrentTokens
<1> HIDE DEF added
<1> QED
  BY <1>1, <1>2, <1>3, TokenFits

-----------------------------------------------------------------------------
(* The account of any bucket: what was taken from the i-th on, and what is *)
(* left in it, stay within its capacity and the refill since the i-th.     *)

Accounted(taken, level, moment, capacity) ==
  \A i \in 1..Len(taken) :
    (Len(taken) - i + 1) * Token + level <= capacity + Refill * (moment - taken[i])

WithinBurst(taken, capacity) ==
  \A k \in 1..Len(taken) : \A i \in 1..k :
    (k - i + 1) * Token <= capacity + Refill * (taken[k] - taken[i])

\* A visit that takes nothing keeps the account.
LEMMA VisitAccounted ==
  ASSUME NEW taken \in Seq(Int), NEW capacity \in Int, NEW time \in Int,
         NEW level \in Int, NEW moment \in Int, Accounted(taken, level, moment, capacity),
         NEW seen \in Int, seen <= level + Refill * (time - moment)
  PROVE  Accounted(taken, seen, time, capacity)
<1> SUFFICES ASSUME NEW i \in 1..Len(taken)
             PROVE  (Len(taken) - i + 1) * Token + seen <= capacity + Refill * (time - taken[i])
  BY DEF Accounted
<1> DEFINE given   == (Len(taken) - i + 1) * Token
           before  == Refill * (moment - taken[i])
           between == Refill * (time - moment)
<1>1. taken[i] \in Int /\ Len(taken) \in Nat
  OBVIOUS
<1>2. Refill * (time - taken[i]) = between + before
  <2>1. time - taken[i] = (time - moment) + (moment - taken[i])
    BY <1>1
  <2> QED
    BY <1>1, <2>1, TokenFits, ProductOfSum
<1>3. given + level <= capacity + before
  BY DEF Accounted
<1>4. given \in Int /\ before \in Int /\ between \in Int /\ seen <= level + between
  BY <1>1, TokenFits
<1> HIDE DEF given, before, between
<1>5. given + seen <= capacity + (between + before)
  BY <1>3, <1>4
<1> QED
  BY <1>2, <1>5 DEF given

\* So does one that takes a token, and what was taken stays within the burst.
LEMMA TokenAccounted ==
  ASSUME NEW taken \in Seq(Int), NEW capacity \in Int, NEW time \in Int,
         NEW level \in Int, NEW moment \in Int, Accounted(taken, level, moment, capacity),
         WithinBurst(taken, capacity),
         NEW seen \in Int, seen <= level + Refill * (time - moment), seen \in Token..capacity
  PROVE  /\ Accounted(Append(taken, time), seen - Token, time, capacity)
         /\ WithinBurst(Append(taken, time), capacity)
<1> DEFINE n == Len(taken)
           next == Append(taken, time)
<1>1. /\ n \in Nat /\ Len(next) = n + 1 /\ next[n + 1] = time
      /\ \A i \in 1..n : next[i] = taken[i] /\ taken[i] \in Int
  OBVIOUS
<1>2. Accounted(taken, seen, time, capacity)
  BY VisitAccounted
<1> HIDE DEF n, next
<1>3. ASSUME NEW i \in 1..(n + 1)
      PROVE  (n + 1 - i + 1) * Token + (seen - Token) <= capacity + Refill * (time - next[i])
  <2>1. CASE i = n + 1
    <3>1. Refill * (time - next[i]) = 0 /\ (n + 1 - i + 1) * Token = Token
      BY <1>1, <2>1, TokenFits
    <3> QED
      BY <3>1, TokenFits
  <2>2. CASE i \in 1..n
    <3> DEFINE given == (n - i + 1) * Token
               since == Refill * (time - taken[i])
    <3>1. given + seen <= capacity + since
      BY <1>2, <2>2 DEF Accounted, n
    <3>2. (n + 1 - i + 1) * Token = given + Token
      <4>1. n + 1 - i + 1 = (n - i + 1) + 1
        BY <1>1
      <4>2. Token * ((n - i + 1) + 1) = Token * (n - i + 1) + Token * 1
        BY <1>1, TokenFits, ProductOfSum
      <4> QED
        BY <1>1, <4>1, <4>2, TokenFits
    <3>3. given \in Int /\ since \in Int /\ next[i] = taken[i]
      BY <1>1, <2>2, TokenFits
    <3> HIDE DEF given
    <3> QED
      BY <3>1, <3>2, <3>3, TokenFits
  <2> QED
    BY <1>1, <2>1, <2>2
<1>4. ASSUME NEW k \in 1..(n + 1), NEW i \in 1..k
      PROVE  (k - i + 1) * Token <= capacity + Refill * (next[k] - next[i])
  <2>1. CASE k = n + 1
    <3>1. (k - i + 1) * Token + (seen - Token) <= capacity + Refill * (time - next[i])
      BY <1>1, <1>3, <2>1
    <3>2. next[i] \in Int
      BY <1>1, <2>1
    <3>3. (k - i + 1) * Token \in Int /\ Refill * (time - next[i]) \in Int
      BY <1>1, <3>2, TokenFits
    <3> QED
      BY <1>1, <2>1, <3>1, <3>3, TokenFits
  <2>2. CASE k \in 1..n
    <3>1. i \in 1..n /\ next[k] = taken[k] /\ next[i] = taken[i]
      BY <1>1, <2>2
    <3> QED
      BY <2>2, <3>1 DEF WithinBurst, n
  <2> QED
    BY <1>1, <2>1, <2>2
<1>5. Accounted(next, seen - Token, time, capacity) /\ WithinBurst(next, capacity)
  BY <1>1, <1>3, <1>4 DEF Accounted, WithinBurst
<1> QED
  BY <1>5 DEF next

-----------------------------------------------------------------------------
(* The limiter's bucket.                                                   *)

\* Inductive; WithinCeiling is its main part.
BurstAccounted == Accounted(grants, tokens, last, Capacity)

CeilingInv == TypeOK /\ BurstAccounted /\ WithinCeiling

LEMMA CeilingInit == Init => CeilingInv
BY TokenFits DEF Init, CeilingInv, TypeOK, BurstAccounted, Accounted, WithinCeiling

\* What the three outcomes of a turn do to the types.
LEMMA TurnTyped ==
  ASSUME TypeOK, NEW a \in Callers, NEW end \in Nat, UNCHANGED now,
         Take(a) \/ Sleep(a, end) \/ GiveUp(a)
  PROVE  /\ now' \in Nat /\ last' \in 0..now' /\ tokens' \in 0..Capacity
         /\ pc' \in [Callers -> {"new", "sleeping", "granted", "refused"}]
         /\ wake' \in [Callers -> Nat] /\ grants' \in Seq(0..now')
<1>0. CurrentTokens \in 0..Capacity /\ Capacity \in Nat /\ Token \in Nat
  BY CurrentBounded, TokenFits
<1>1. CASE Take(a)
  BY <1>0, <1>1 DEF Take, TypeOK
<1>2. CASE Sleep(a, end)
  <2>1. now + Smaller(SleepFor, end - now) \in Nat
    <3>1. end - now \in Nat /\ end - now > 0
      BY <1>2 DEF Sleep, TypeOK
    <3>2. SleepFor \in Nat
      BY <1>0, <1>2, TokenFits DEF Sleep, SleepFor
    <3> QED
      BY <3>1, <3>2 DEF TypeOK, Smaller
  <2> QED
    BY <1>0, <1>2, <2>1 DEF Sleep, TypeOK
<1>3. CASE GiveUp(a)
  BY <1>0, <1>3 DEF GiveUp, TypeOK
<1> QED
  BY <1>1, <1>2, <1>3

LEMMA CeilingTurn ==
  ASSUME CeilingInv, NEW a \in Callers, NEW end \in Nat, UNCHANGED now,
         deadline' \in [Callers -> Nat],
         Take(a) \/ Sleep(a, end) \/ GiveUp(a)
  PROVE  CeilingInv'
<1>1. TypeOK'
  BY TurnTyped DEF CeilingInv, TypeOK, Capacity, Token
<1>a. /\ grants \in Seq(Int) /\ now \in Int /\ last \in Int /\ tokens \in Int /\ Capacity \in Int
      /\ CurrentTokens \in Int /\ CurrentTokens <= Capacity
      /\ CurrentTokens <= tokens + Refill * (now - last)
      /\ Accounted(grants, tokens, last, Capacity) /\ WithinBurst(grants, Capacity)
  BY CurrentBounded, TokenFits DEF CeilingInv, TypeOK, BurstAccounted, WithinCeiling, WithinBurst
<1>2. CASE Take(a)
  <2>1. /\ CurrentTokens \in Token..Capacity /\ grants' = Append(grants, now) /\ last' = now
        /\ tokens' = CurrentTokens - Token
    BY <1>2, <1>a, TokenFits DEF Take
  <2>2. /\ Accounted(Append(grants, now), CurrentTokens - Token, now, Capacity)
        /\ WithinBurst(Append(grants, now), Capacity)
    BY <1>a, <2>1, TokenAccounted
  <2>3. Accounted(grants', tokens', last', Capacity) /\ WithinBurst(grants', Capacity)
    BY <2>1, <2>2
  <2> QED
    BY <1>1, <2>3 DEF CeilingInv, BurstAccounted, Accounted, WithinBurst, WithinCeiling,
                      Token, Capacity, Refill
<1>3. CASE Sleep(a, end) \/ GiveUp(a)
  <2>1. tokens' = CurrentTokens /\ last' = now /\ UNCHANGED grants
    BY <1>3 DEF Sleep, GiveUp
  <2>a. Accounted(grants, CurrentTokens, now, Capacity)
    BY <1>a, VisitAccounted
  <2>2. BurstAccounted'
    BY <2>1, <2>a DEF BurstAccounted, Accounted, Token, Capacity, Refill
  <2>3. WithinCeiling'
    BY <2>1 DEF CeilingInv, WithinCeiling, Token, Capacity, Refill
  <2> QED
    BY <1>1, <2>2, <2>3 DEF CeilingInv
<1> QED
  BY <1>2, <1>3

LEMMA CeilingStep == CeilingInv /\ [Next]_vars => CeilingInv'
<1> SUFFICES ASSUME CeilingInv, [Next]_vars PROVE CeilingInv'
  OBVIOUS
<1>1. ASSUME NEW a \in Callers, Wake(a) PROVE CeilingInv'
  <2>1. deadline[a] \in Nat /\ UNCHANGED <<now, deadline>>
    BY <1>1 DEF Wake, CeilingInv, TypeOK
  <2>2. Take(a) \/ Sleep(a, deadline[a]) \/ GiveUp(a)
    BY <1>1 DEF Wake
  <2> QED
    BY <2>1, <2>2, CeilingTurn DEF CeilingInv, TypeOK
<1>2. ASSUME NEW a \in Callers, NEW wait \in BOOLEAN, Acquire(a, wait) PROVE CeilingInv'
  <2>1. now + Timeout \in Nat /\ UNCHANGED now /\ deadline' \in [Callers -> Nat]
    BY <1>2, RateLimiterAssumption DEF Acquire, CeilingInv, TypeOK
  <2>2. Take(a) \/ Sleep(a, now + Timeout) \/ GiveUp(a)
    BY <1>2 DEF Acquire
  <2> QED
    BY <2>1, <2>2, CeilingTurn
<1>3. CASE Tick
  <2>1. TypeOK'
    BY <1>3 DEF Tick, CeilingInv, TypeOK, Capacity, Token
  <2> QED
    BY <1>3, <2>1 DEF Tick, CeilingInv, BurstAccounted, Accounted, WithinCeiling, Token, Capacity, Refill
<1>4. CASE Reset
  BY <1>4, TokenFits DEF Reset, CeilingInv, TypeOK, BurstAccounted, Accounted, WithinCeiling, Capacity, Token
<1>5. CASE UNCHANGED vars
  BY <1>5 DEF vars, CeilingInv, TypeOK, BurstAccounted, Accounted, WithinCeiling, Token, Capacity,
              Refill
<1> QED
  BY <1>1, <1>2, <1>3, <1>4, <1>5 DEF Next

\* For every limit, timeout and number of callers, whatever waits, refusals and
\* resets happen: no run of grants exceeds the burst and the refill.
THEOREM WithinCeilingAlways == Spec => []WithinCeiling
<1>1. CeilingInv => WithinCeiling
  BY DEF CeilingInv
<1> QED
  BY <1>1, CeilingInit, CeilingStep, PTL DEF Spec

\* The bucket never goes below empty or above full.
THEOREM BucketBounded == Spec => []TypeOK
<1>1. CeilingInv => TypeOK
  BY DEF CeilingInv
<1> QED
  BY <1>1, CeilingInit, CeilingStep, PTL DEF Spec

-----------------------------------------------------------------------------
(* Why waiting ends: a sleeper is woken by its deadline, and every further *)
(* sleep is a later one, so that it takes its turn a bounded number of times *)
(* whatever the others take.                                               *)

\* Nobody sleeps past the deadline.
WokenInTime == \A a \in Callers : pc[a] = "sleeping" => wake[a] <= deadline[a]

\* A turn of a sleeper is its last, or what is left of its time shrinks.
WaitShrinks ==
  [][\A a \in Callers : Wake(a) =>
       \/ pc'[a] \in {"granted", "refused"}
       \/ deadline'[a] - wake'[a] < deadline[a] - wake[a] /\ deadline'[a] - wake'[a] \in Nat]_vars

LEMMA SleepIsReal ==
  ASSUME TypeOK, CurrentTokens < Token
  PROVE  SleepFor \in Nat \ {0}
<1>1. CurrentTokens \in 0..Capacity /\ Token \in Nat /\ Capacity \in Nat /\ Refill \in Nat \ {0}
  BY CurrentBounded, TokenFits
<1> DEFINE lacking == Token - CurrentTokens + Refill - 1
<1>2. lacking \in Nat /\ lacking >= Refill /\ SleepFor = lacking \div Refill
  BY <1>1 DEF SleepFor
<1> HIDE DEF lacking
<1>3. \A x, y \in Nat : y # 0 /\ x >= y => x \div y \in Nat \ {0}
  OBVIOUS
<1> QED
  BY <1>1, <1>2, <1>3

\* What a turn that ends in sleep leaves.
LEMMA SleepBounds ==
  ASSUME TypeOK, NEW a \in Callers, NEW end \in Nat, Sleep(a, end)
  PROVE  /\ pc' = [pc EXCEPT ![a] = "sleeping"]
         /\ wake'[a] \in Nat /\ now < wake'[a] /\ wake'[a] <= end
         /\ \A b \in Callers : b # a => wake'[b] = wake[b]
<1>1. CurrentTokens < Token /\ now < end /\ now \in Nat
  BY DEF Sleep, TypeOK
<1>2. SleepFor \in Nat \ {0}
  BY <1>1, SleepIsReal
<1>3. wake' = [wake EXCEPT ![a] = now + Smaller(SleepFor, end - now)]
      /\ pc' = [pc EXCEPT ![a] = "sleeping"]
  BY DEF Sleep
<1>4. Smaller(SleepFor, end - now) \in 1..(end - now)
  BY <1>1, <1>2 DEF Smaller
<1>5. wake'[a] = now + Smaller(SleepFor, end - now)
      /\ \A b \in Callers : b # a => wake'[b] = wake[b]
  BY <1>3 DEF TypeOK
<1> QED
  BY <1>1, <1>3, <1>4, <1>5

LEMMA TurnInTime ==
  ASSUME TypeOK, WokenInTime, NEW a \in Callers, NEW end \in Nat,
         Take(a) \/ Sleep(a, end) \/ GiveUp(a),
         \A b \in Callers : b # a => deadline'[b] = deadline[b], deadline'[a] = end
  PROVE  WokenInTime'
<1>1. CASE Take(a) \/ GiveUp(a)
  BY <1>1 DEF Take, GiveUp, WokenInTime, TypeOK
<1>2. CASE Sleep(a, end)
  <2>1. /\ pc' = [pc EXCEPT ![a] = "sleeping"] /\ wake'[a] <= end
        /\ \A b \in Callers : b # a => wake'[b] = wake[b]
    BY <1>2, SleepBounds
  <2> QED
    BY <2>1 DEF WokenInTime, TypeOK
<1> QED
  BY <1>1, <1>2

LEMMA InTimeStep == TypeOK /\ WokenInTime /\ [Next]_vars => WokenInTime'
<1> SUFFICES ASSUME TypeOK, WokenInTime, [Next]_vars PROVE WokenInTime'
  OBVIOUS
<1>1. ASSUME NEW a \in Callers, Wake(a) PROVE WokenInTime'
  <2>1. /\ deadline' = deadline /\ deadline[a] \in Nat
        /\ Take(a) \/ Sleep(a, deadline[a]) \/ GiveUp(a)
    BY <1>1 DEF Wake, TypeOK
  <2> QED
    BY <2>1, TurnInTime
<1>2. ASSUME NEW a \in Callers, NEW wait \in BOOLEAN, Acquire(a, wait) PROVE WokenInTime'
  <2>1. /\ deadline' = [deadline EXCEPT ![a] = now + Timeout] /\ now + Timeout \in Nat
        /\ Take(a) \/ Sleep(a, now + Timeout) \/ GiveUp(a)
    BY <1>2, RateLimiterAssumption DEF Acquire, TypeOK
  <2>2. /\ deadline'[a] = now + Timeout
        /\ \A b \in Callers : b # a => deadline'[b] = deadline[b]
    BY <2>1 DEF TypeOK
  <2> QED
    BY <2>1, <2>2, TurnInTime
<1>3. CASE Tick \/ Reset \/ UNCHANGED vars
  BY <1>3 DEF Tick, Reset, vars, WokenInTime
<1> QED
  BY <1>1, <1>2, <1>3 DEF Next

LEMMA TurnShrinks ==
  ASSUME TypeOK, NEW a \in Callers, Wake(a)
  PROVE  \/ pc'[a] \in {"granted", "refused"}
         \/ deadline'[a] - wake'[a] < deadline[a] - wake[a] /\ deadline'[a] - wake'[a] \in Nat
<1>1. /\ deadline' = deadline /\ deadline[a] \in Nat /\ wake[a] \in Nat /\ wake[a] <= now
      /\ Take(a) \/ Sleep(a, deadline[a]) \/ GiveUp(a)
      /\ now \in Nat
  BY DEF Wake, TypeOK
<1>2. CASE Take(a) \/ GiveUp(a)
  BY <1>2 DEF Take, GiveUp, TypeOK
<1>3. CASE Sleep(a, deadline[a])
  <2>1. wake'[a] \in Nat /\ now < wake'[a] /\ wake'[a] <= deadline[a]
    BY <1>1, <1>3, SleepBounds
  <2> QED
    BY <1>1, <2>1
<1> QED
  BY <1>1, <1>2, <1>3

\* The safety half of WaitEnds: whoever waits is woken by the deadline, and sleeps only a
\* bounded number of times, since each turn that does not end the wait leaves less of it,
\* at any limit and whatever other callers take.
THEOREM WaitsAreBounded == Spec => []WokenInTime /\ WaitShrinks
<1>1. Init => CeilingInv /\ WokenInTime
  BY CeilingInit DEF Init, WokenInTime
<1>2. CeilingInv /\ WokenInTime /\ [Next]_vars => CeilingInv' /\ WokenInTime'
  BY CeilingStep, InTimeStep DEF CeilingInv
<1>3. CeilingInv =>
        \A a \in Callers : Wake(a) =>
          \/ pc'[a] \in {"granted", "refused"}
          \/ deadline'[a] - wake'[a] < deadline[a] - wake[a] /\ deadline'[a] - wake'[a] \in Nat
  BY TurnShrinks DEF CeilingInv
<1> QED
  BY <1>1, <1>2, <1>3, PTL DEF Spec, WaitShrinks

-----------------------------------------------------------------------------
(* The buckets of the lookups' clients.                                    *)

\* With a client in the context, nobody has one of its own, or waits anywhere but
\* at the shared one, which alone sends.
OneClient ==
  /\ stage \in [Calls -> {"new", "queued", "asking", "answered", "failed"}]
  /\ client \in [Calls -> Calls] /\ line \in [Calls -> Seq(Calls)]
  /\ \A c \in Calls : stage[c] \in {"queued", "asking"} => client[c] = TheOne
  /\ \A k \in Calls : k # TheOne => line[k] = <<>> /\ requests[k] = <<>>
  /\ \A i \in DOMAIN line[TheOne] : client[line[TheOne][i]] = TheOne

\* The buckets and the requests sent from them.
Buckets ==
  /\ now \in Nat /\ requests \in [Calls -> Seq(Int)]
  /\ bucket \in [Calls -> 0..BucketCap] /\ visited \in [Calls -> Int]
  /\ \A k \in Calls :
       /\ visited[k] <= now
       /\ Accounted(requests[k], bucket[k], visited[k], BucketCap)
       /\ WithinBurst(requests[k], BucketCap)

BurstInv == Buckets /\ (injected /\ Calls # {} => OneClient)

LEMMA TheOneIsThere == Calls # {} => TheOne \in Calls
BY DEF TheOne

LEMMA CapTyped == BucketCap \in Nat
BY RateLimiterAssumption DEF BucketCap

LEMMA BurstInitially == Init /\ LookupInit => BurstInv
<1> SUFFICES ASSUME Init, LookupInit PROVE BurstInv
  OBVIOUS
<1>1. <<>> \in Seq(Calls) /\ <<>> \in Seq(Int) /\ Len(<<>>) = 0
  OBVIOUS
<1>2. Calls # {} => OneClient
  BY <1>1, TheOneIsThere DEF LookupInit, OneClient
<1>3. Buckets
  BY <1>1, CapTyped DEF Init, LookupInit, Buckets, Accounted, WithinBurst
<1> QED
  BY <1>2, <1>3 DEF BurstInv

\* What is left of a line has nobody new in it.
LEMMA LineShortened ==
  ASSUME NEW s \in Seq(Calls), NEW i \in DOMAIN s
  PROVE  /\ RemoveAt(s, i) \in Seq(Calls)
         /\ \A j \in DOMAIN RemoveAt(s, i) : \E m \in DOMAIN s : RemoveAt(s, i)[j] = s[m]
<1> DEFINE r == RemoveAt(s, i)
           before == SubSeq(s, 1, i - 1)
           after  == SubSeq(s, i + 1, Len(s))
<1>1. r = before \o after
  BY DEF RemoveAt
<1>2. i \in 1..Len(s) /\ Len(s) \in Nat
  OBVIOUS
<1>3. /\ before \in Seq(Calls) /\ Len(before) = i - 1
      /\ after \in Seq(Calls) /\ Len(after) = Len(s) - i
  BY <1>2
<1>4. \A j \in 1..(i - 1) : before[j] = s[j]
  BY <1>2
<1>5. \A j \in 1..(Len(s) - i) : after[j] = s[i + j]
  BY <1>2
<1> HIDE DEF r, before, after
<1>6. /\ r \in Seq(Calls) /\ Len(r) = Len(before) + Len(after)
      /\ \A j \in 1..(Len(before) + Len(after)) :
           r[j] = IF j <= Len(before) THEN before[j] ELSE after[j - Len(before)]
  BY <1>1, <1>3, ConcatProperties
<1>a. Len(r) = Len(s) - 1
  BY <1>2, <1>3, <1>6
<1>7. \A j \in 1..(Len(s) - 1) : r[j] = IF j < i THEN s[j] ELSE s[j + 1]
  <2> SUFFICES ASSUME NEW j \in 1..(Len(s) - 1) PROVE r[j] = IF j < i THEN s[j] ELSE s[j + 1]
    OBVIOUS
  <2>0. j \in 1..(Len(before) + Len(after))
    BY <1>2, <1>3
  <2>1. CASE j < i
    <3>1. j \in 1..(i - 1) /\ j <= Len(before)
      BY <1>2, <1>3, <2>1
    <3> QED
      BY <1>4, <1>6, <2>0, <2>1, <3>1
  <2>2. CASE ~(j < i)
    <3>1. /\ j - (i - 1) \in 1..(Len(s) - i) /\ i + (j - (i - 1)) = j + 1
          /\ ~(j <= Len(before)) /\ Len(before) = i - 1
      BY <1>2, <1>3, <2>2
    <3>2. r[j] = after[j - (i - 1)]
      BY <1>6, <2>0, <3>1
    <3>3. after[j - (i - 1)] = s[j + 1]
      BY <1>5, <3>1
    <3> QED
      BY <2>2, <3>2, <3>3
  <2> QED
    BY <2>1, <2>2
<1>8. \A j \in DOMAIN r : j \in 1..(Len(s) - 1) /\ j \in DOMAIN s /\ j + 1 \in DOMAIN s
  BY <1>2, <1>6, <1>a
<1>9. \A j \in DOMAIN r : \E m \in DOMAIN s : r[j] = s[m]
  BY <1>7, <1>8
<1> QED
  BY <1>6, <1>9 DEF r

\* Nobody but the shared client's line moves.
LEMMA OneClientKept ==
  ASSUME injected, Calls # {}, OneClient, Buckets, LookupStep
  PROVE  OneClient'
<1>0. TheOne \in Calls
  BY TheOneIsThere
<1>1. ASSUME NEW c \in Calls, Refuse(c) \/ Answer(c) PROVE OneClient'
  <2>1. /\ UNCHANGED <<client, line, requests>>
        /\ \E end \in {"answered", "failed"} : stage' = [stage EXCEPT ![c] = end]
    BY <1>1 DEF Refuse, Answer
  <2> QED
    BY <2>1 DEF OneClient, TheOne
<1>2. ASSUME NEW c \in Calls, Ask(c) PROVE OneClient'
  <2> DEFINE q == line[TheOne]
  <2>1. /\ stage' = [stage EXCEPT ![c] = "queued"] /\ client' = [client EXCEPT ![c] = TheOne]
        /\ UNCHANGED requests /\ line' = [line EXCEPT ![TheOne] = Append(q, c)]
    BY <1>2 DEF Ask
  <2>2. q \in Seq(Calls)
    BY <1>0 DEF OneClient
  <2>3. /\ Append(q, c) \in Seq(Calls)
        /\ \A i \in DOMAIN Append(q, c) : (i \in DOMAIN q /\ Append(q, c)[i] = q[i]) \/ Append(q, c)[i] = c
    BY <2>2
  <2>4. line'[TheOne] = Append(q, c)
    BY <1>0, <2>1 DEF OneClient
  <2>5. \A i \in DOMAIN line'[TheOne] : client'[line'[TheOne][i]] = TheOne
    <3> SUFFICES ASSUME NEW i \in DOMAIN Append(q, c) PROVE client'[Append(q, c)[i]] = TheOne
      BY <2>4
    <3>1. CASE Append(q, c)[i] = c
      BY <2>1, <3>1 DEF OneClient
    <3>2. CASE i \in DOMAIN q /\ Append(q, c)[i] = q[i]
      <4>1. q[i] \in Calls /\ client[q[i]] = TheOne
        BY <2>2, <3>2 DEF OneClient
      <4> QED
        BY <2>1, <3>2, <4>1 DEF OneClient
    <3> QED
      BY <2>3, <3>1, <3>2
  <2> HIDE DEF q
  <2> QED
    BY <1>0, <2>1, <2>3, <2>5 DEF OneClient, TheOne
<1>3. ASSUME NEW c \in Calls, Abandon(c) PROVE OneClient'
  <2>1. client[c] = TheOne /\ UNCHANGED client /\ stage' = [stage EXCEPT ![c] = "failed"]
    BY <1>3 DEF Abandon, OneClient
  <2>2. CASE stage[c] = "queued"
    <3>1. PICK i \in DOMAIN line[TheOne] : line' = [line EXCEPT ![TheOne] = RemoveAt(@, i)]
      BY <1>3, <2>1, <2>2 DEF Abandon, LeaveLine
    <3> DEFINE r == RemoveAt(line[TheOne], i)
    <3>2. r \in Seq(Calls) /\ \A j \in DOMAIN r : \E m \in DOMAIN line[TheOne] : r[j] = line[TheOne][m]
      BY <1>0, LineShortened DEF OneClient
    <3>3. line' = [line EXCEPT ![TheOne] = r]
      BY <3>1
    <3> HIDE DEF r
    <3> QED
      BY <1>0, <2>1, <3>2, <3>3 DEF OneClient, TheOne
  <2>3. CASE stage[c] # "queued"
    BY <1>3, <2>1, <2>3 DEF Abandon, OneClient, TheOne
  <2> QED
    BY <2>2, <2>3
<1>4. ASSUME NEW k \in Calls, Turn(k) PROVE OneClient'
  <2>1. k = TheOne /\ line[k] # <<>> /\ line[k] \in Seq(Calls) /\ UNCHANGED client
    BY <1>4 DEF Turn, OneClient
  <2>2. CASE InBucket(k) >= Token
    <3>1. line' = [line EXCEPT ![k] = Tail(line[k])] /\ stage' = [stage EXCEPT ![Head(line[k])] = "asking"]
      BY <1>4, <2>2 DEF Turn
    <3>2. /\ Head(line[k]) = line[k][1] /\ 1 \in DOMAIN line[k] /\ Tail(line[k]) \in Seq(Calls)
          /\ \A i \in DOMAIN Tail(line[k]) : i + 1 \in DOMAIN line[k] /\ Tail(line[k])[i] = line[k][i + 1]
      BY <2>1
    <3>3. client[Head(line[k])] = TheOne
      BY <2>1, <3>2 DEF OneClient
    <3>4. \A i \in DOMAIN Tail(line[k]) : client[Tail(line[k])[i]] = TheOne
      BY <2>1, <3>2 DEF OneClient
    <3>5. line'[TheOne] = Tail(line[k])
      BY <2>1, <3>1 DEF OneClient
    <3> QED
      BY <2>1, <3>1, <3>2, <3>3, <3>4, <3>5 DEF OneClient, TheOne
  <2>3. CASE ~(InBucket(k) >= Token)
    BY <1>4, <2>1, <2>3 DEF Turn, OneClient, TheOne
  <2> QED
    BY <2>2, <2>3
<1> QED
  BY <1>1, <1>2, <1>3, <1>4 DEF LookupStep

\* Looking at a client's bucket never shows more than it holds or was refilled.
LEMMA InBucketBounded ==
  ASSUME Buckets, NEW k \in Calls
  PROVE  InBucket(k) \in 0..BucketCap /\ InBucket(k) <= bucket[k] + Refill * (now - visited[k])
<1> DEFINE added == (now - visited[k]) * Refill
<1>1. now - visited[k] \in Nat
  BY DEF Buckets
<1>2. added \in Nat /\ added = Refill * (now - visited[k])
  BY <1>1, TokenFits
<1>3. bucket[k] \in 0..BucketCap
  BY DEF Buckets
<1>4. InBucket(k) = IF bucket[k] + added < BucketCap THEN bucket[k] + added ELSE BucketCap
  BY DEF InBucket
<1> HIDE DEF added
<1> QED
  BY <1>2, <1>3, <1>4, CapTyped

\* A visit of one bucket leaves the others as they were.
LEMMA OneBucketVisited ==
  ASSUME Buckets, UNCHANGED now, NEW k \in Calls, NEW sent \in Seq(Int), NEW left \in 0..BucketCap,
         visited' = [visited EXCEPT ![k] = now], bucket' = [bucket EXCEPT ![k] = left],
         requests' = [requests EXCEPT ![k] = sent],
         Accounted(sent, left, now, BucketCap), WithinBurst(sent, BucketCap)
  PROVE  Buckets'
<1>1. /\ now' \in Nat /\ requests' \in [Calls -> Seq(Int)]
      /\ bucket' \in [Calls -> 0..BucketCap] /\ visited' \in [Calls -> Int]
  BY DEF Buckets
<1>2. ASSUME NEW c \in Calls
      PROVE  /\ visited'[c] <= now
             /\ Accounted(requests'[c], bucket'[c], visited'[c], BucketCap)
             /\ WithinBurst(requests'[c], BucketCap)
  <2>1. CASE c = k
    BY <2>1 DEF Buckets
  <2>2. CASE c # k
    BY <2>2 DEF Buckets
  <2> QED
    BY <2>1, <2>2
<1> QED
  BY <1>1, <1>2 DEF Buckets, BucketCap, Accounted, WithinBurst, Token, Refill

LEMMA BucketsKept ==
  ASSUME Buckets, LookupStep, UNCHANGED vars
  PROVE  Buckets'
<1>0. UNCHANGED now
  BY DEF vars
<1>1. ASSUME UNCHANGED <<bucket, visited, requests>> PROVE Buckets'
  BY <1>0, <1>1 DEF Buckets, BucketCap, Accounted, WithinBurst, Token, Refill
<1>2. ASSUME NEW c \in Calls, Refuse(c) \/ Answer(c) \/ Abandon(c) PROVE Buckets'
  BY <1>1, <1>2 DEF Refuse, Answer, Abandon
<1>3. ASSUME NEW c \in Calls, Ask(c) PROVE Buckets'
  <2>1. CASE injected
    BY <1>1, <1>3, <2>1 DEF Ask
  <2>2. CASE ~injected
    <3>1. /\ visited' = [visited EXCEPT ![c] = now] /\ UNCHANGED <<bucket, requests>>
      BY <1>3, <2>2 DEF Ask
    <3>2. /\ requests[c] \in Seq(Int) /\ BucketCap \in Int /\ now \in Int
          /\ bucket[c] \in 0..BucketCap /\ bucket[c] \in Int /\ visited[c] \in Int
          /\ visited[c] <= now
          /\ Accounted(requests[c], bucket[c], visited[c], BucketCap)
          /\ WithinBurst(requests[c], BucketCap)
      BY CapTyped DEF Buckets
    <3>3. bucket[c] <= bucket[c] + Refill * (now - visited[c])
      <4>1. now - visited[c] \in Nat
        BY <3>2
      <4>2. Refill * (now - visited[c]) \in Nat
        BY <4>1, TokenFits
      <4> HIDE DEF Refill
      <4> QED
        BY <3>2, <4>2
    <3>4. Accounted(requests[c], bucket[c], now, BucketCap)
      BY <3>2, <3>3, VisitAccounted
    <3>5. bucket' = [bucket EXCEPT ![c] = bucket[c]] /\ requests' = [requests EXCEPT ![c] = requests[c]]
      BY <3>1 DEF Buckets
    <3> QED
      BY <1>0, <3>1, <3>2, <3>4, <3>5, OneBucketVisited
  <2> QED
    BY <2>1, <2>2
<1>4. ASSUME NEW k \in Calls, Turn(k) PROVE Buckets'
  <2>2. /\ requests[k] \in Seq(Int) /\ BucketCap \in Int /\ now \in Int
        /\ bucket[k] \in Int /\ visited[k] \in Int
        /\ Accounted(requests[k], bucket[k], visited[k], BucketCap)
        /\ WithinBurst(requests[k], BucketCap)
    BY CapTyped DEF Buckets
  <2>3. /\ InBucket(k) \in Int /\ InBucket(k) \in 0..BucketCap
        /\ InBucket(k) <= bucket[k] + Refill * (now - visited[k])
    BY InBucketBounded, CapTyped
  <2>4. visited' = [visited EXCEPT ![k] = now]
    BY <1>4 DEF Turn
  <2>5. CASE InBucket(k) >= Token
    <3>1. /\ bucket' = [bucket EXCEPT ![k] = InBucket(k) - Token]
          /\ requests' = [requests EXCEPT ![k] = Append(requests[k], now)]
      BY <1>4, <2>5 DEF Turn
    <3>2. InBucket(k) \in Token..BucketCap /\ InBucket(k) - Token \in 0..BucketCap
      BY <2>3, <2>5, TokenFits, CapTyped
    <3>3. /\ Accounted(Append(requests[k], now), InBucket(k) - Token, now, BucketCap)
          /\ WithinBurst(Append(requests[k], now), BucketCap)
      BY <2>2, <2>3, <3>2, TokenAccounted
    <3>4. Append(requests[k], now) \in Seq(Int)
      BY <2>2
    <3> QED
      BY <1>0, <2>4, <3>1, <3>2, <3>3, <3>4, OneBucketVisited
  <2>6. CASE ~(InBucket(k) >= Token)
    <3>1. bucket' = [bucket EXCEPT ![k] = InBucket(k)] /\ UNCHANGED requests
      BY <1>4, <2>6 DEF Turn
    <3>2. Accounted(requests[k], InBucket(k), now, BucketCap)
      BY <2>2, <2>3, VisitAccounted
    <3>3. requests' = [requests EXCEPT ![k] = requests[k]]
      BY <3>1 DEF Buckets
    <3> QED
      BY <1>0, <2>2, <2>3, <2>4, <3>1, <3>2, <3>3, OneBucketVisited
  <2> QED
    BY <2>5, <2>6
<1> QED
  BY <1>2, <1>3, <1>4 DEF LookupStep

LEMMA BurstStep == BurstInv /\ [LookupNext]_<<vars, lookupVars>> => BurstInv'
<1> SUFFICES ASSUME BurstInv, [LookupNext]_<<vars, lookupVars>>
             PROVE  Buckets' /\ (injected' /\ Calls # {} => OneClient')
  BY DEF BurstInv
<1>0. Buckets /\ (injected /\ Calls # {} => OneClient)
  BY DEF BurstInv
<1>1. CASE LookupStep /\ UNCHANGED <<vars, injected>>
  BY <1>0, <1>1, OneClientKept, BucketsKept
<1>2. CASE UNCHANGED lookupVars /\ now' \in Nat /\ now <= now'
  <2>1. injected' /\ Calls # {} => OneClient'
    BY <1>0, <1>2 DEF lookupVars, OneClient, TheOne
  <2>2. \A k \in Calls : visited'[k] <= now'
    BY <1>0, <1>2 DEF lookupVars, Buckets
  <2>3. Buckets'
    BY <1>0, <1>2, <2>2 DEF lookupVars, Buckets, BucketCap, Accounted, WithinBurst, Token, Refill
  <2> QED
    BY <2>1, <2>3
<1>3. CASE Tick /\ UNCHANGED lookupVars
  BY <1>0, <1>2, <1>3 DEF Tick, Buckets
<1>4. CASE UNCHANGED <<vars, lookupVars>>
  BY <1>0, <1>2, <1>4 DEF vars, Buckets
<1> QED
  BY <1>1, <1>3, <1>4 DEF LookupNext

\* The requests of a client stay within a full bucket and its refill for every limit
\* and any number of lookups, whoever waits, fails or is cancelled in line, and a
\* client in the context sends them all.  Nothing is said of the requests that
\* clients made for one call each send together, which is what happens by default.
THEOREM BurstsAreBounded == LookupSpec => []BurstsBounded
<1>1. BurstInv => BurstsBounded
  <2> SUFFICES ASSUME BurstInv PROVE BurstsBounded
    OBVIOUS
  <2>1. \A c \in Calls : WithinBurst(requests[c], BucketCap)
    BY DEF BurstInv, Buckets
  <2>2. injected => \A c \in Calls \ {TheOne} : requests[c] = <<>>
    BY DEF BurstInv, OneClient
  <2> QED
    BY <2>1, <2>2 DEF BurstsBounded, WithinBurst
<1> QED
  BY <1>1, BurstInitially, BurstStep, PTL DEF LookupSpec

-----------------------------------------------------------------------------
(* The score of findings: the more of them, the higher it is. *)

LEMMA Weights == \A c : WeightOf(c) \in {0, 8, 30, 65, 92}
BY DEF WeightOf

LEMMA HeaviestIn ==
  ASSUME NEW S, S \subseteq {0, 8, 30, 65, 92}, S # {}
  PROVE  Max(S) \in S /\ \A w \in S : w <= Max(S)
<1>1. \E m \in S : \A w \in S : m >= w
  <2>1. CASE 92 \in S
    BY <2>1
  <2>2. CASE 92 \notin S /\ 65 \in S
    BY <2>2
  <2>3. CASE 92 \notin S /\ 65 \notin S /\ 30 \in S
    BY <2>3
  <2>4. CASE S \subseteq {0, 8} /\ 8 \in S
    BY <2>4
  <2>5. CASE S \subseteq {0}
    <3>1. 0 \in S /\ \A w \in S : w = 0
      BY <2>5
    <3> QED
      BY <3>1
  <2> QED
    BY <2>1, <2>2, <2>3, <2>4, <2>5
<1>2. Max(S) \in S /\ \A w \in S : Max(S) >= w
  BY <1>1 DEF Max
<1>3. \A w \in S : w \in Int
  OBVIOUS
<1> DEFINE m == Max(S)
<1>4. m \in S /\ \A w \in S : m >= w
  BY <1>2
<1> HIDE DEF m
<1>5. m \in Int /\ \A w \in S : w <= m
  BY <1>3, <1>4
<1> QED
  BY <1>4, <1>5 DEF m

LEMMA AtMostHundred ==
  ASSUME NEW x \in Nat
  PROVE  Min({100, x}) = IF x <= 100 THEN x ELSE 100
<1> DEFINE m == IF x <= 100 THEN x ELSE 100
<1>1. \A y \in {100, x} : (\A z \in {100, x} : y =< z) <=> y = m
  OBVIOUS
<1>2. m \in {100, x}
  OBVIOUS
<1> HIDE DEF m
<1>3. Min({100, x}) = m
  BY <1>1, <1>2 DEF Min
<1> QED
  BY <1>3 DEF m

\* The more findings, the heavier a category.
LEMMA CategoriesGrow ==
  ASSUME NEW A, NEW B, A \subseteq B, IsFiniteSet(B), NEW category
  PROVE  /\ CategoryWeight(A, category) \in 0..100 /\ CategoryWeight(B, category) \in 0..100
         /\ CategoryWeight(A, category) <= CategoryWeight(B, category)
<1> DEFINE Mine(findings) == {f \in findings : CategoryOf(f[1]) = category /\ WeightOf(f[1]) > 0}
           Heaviest(findings) == Max({WeightOf(f[1]) : f \in Mine(findings)})
           Sum(findings) == Heaviest(findings) + 4 * (Cardinality(Mine(findings)) - 1)
<1>1. ASSUME NEW findings, findings \subseteq B
      PROVE  /\ Mine(findings) = {} => CategoryWeight(findings, category) = 0
             /\ Mine(findings) # {} =>
                  /\ Heaviest(findings) \in {WeightOf(f[1]) : f \in Mine(findings)}
                  /\ \A f \in Mine(findings) : WeightOf(f[1]) <= Heaviest(findings)
                  /\ Heaviest(findings) \in {8, 30, 65, 92}
                  /\ Cardinality(Mine(findings)) \in Nat \ {0} /\ Sum(findings) \in Nat \ {0}
                  /\ CategoryWeight(findings, category) = IF Sum(findings) <= 100 THEN Sum(findings) ELSE 100
             /\ IsFiniteSet(Mine(findings))
  <2>1. IsFiniteSet(Mine(findings)) /\ (Cardinality(Mine(findings)) = 0 <=> Mine(findings) = {})
    BY <1>1, FS_Subset, FS_EmptySet
  <2>2. Mine(findings) = {} => CategoryWeight(findings, category) = 0
    BY DEF CategoryWeight
  <2>3. ASSUME Mine(findings) # {}
        PROVE  /\ Heaviest(findings) \in {WeightOf(f[1]) : f \in Mine(findings)}
               /\ \A f \in Mine(findings) : WeightOf(f[1]) <= Heaviest(findings)
               /\ Heaviest(findings) \in {8, 30, 65, 92}
    <3> DEFINE W == {WeightOf(f[1]) : f \in Mine(findings)}
    <3>1. W \subseteq {0, 8, 30, 65, 92} /\ W # {} /\ 0 \notin W
      BY <2>3, Weights
    <3> HIDE DEF W
    <3>2. Max(W) \in W /\ \A w \in W : w <= Max(W)
      BY <3>1, HeaviestIn
    <3>3. Max(W) \in {8, 30, 65, 92}
      BY <3>1, <3>2
    <3>4. \A f \in Mine(findings) : WeightOf(f[1]) \in W
      BY DEF W
    <3>5. \A f \in Mine(findings) : WeightOf(f[1]) <= Max(W)
      BY <3>2, <3>4
    <3> QED
      BY <3>2, <3>3, <3>5 DEF W
  <2>4. Cardinality(Mine(findings)) \in Nat
    BY <2>1, FS_CardinalityType
  <2>5. Mine(findings) # {} => CategoryWeight(findings, category) = Min({100, Sum(findings)})
    BY DEF CategoryWeight
  <2> HIDE DEF Mine, Heaviest
  <2>6. Mine(findings) # {} => Cardinality(Mine(findings)) \in Nat \ {0} /\ Sum(findings) \in Nat \ {0}
    BY <2>1, <2>3, <2>4
  <2> QED
    BY <2>1, <2>2, <2>3, <2>5, <2>6, AtMostHundred
<1>2. Mine(A) \subseteq Mine(B)
  OBVIOUS
<1>3. Cardinality(Mine(A)) <= Cardinality(Mine(B))
  BY <1>1, <1>2, FS_Subset
<1>4. Mine(A) # {} => Heaviest(A) <= Heaviest(B)
  <2> SUFFICES ASSUME Mine(A) # {} PROVE Heaviest(A) <= Heaviest(B)
    OBVIOUS
  <2>1. Heaviest(A) \in {WeightOf(f[1]) : f \in Mine(A)}
    BY <1>1
  <2>2. \A f \in Mine(B) : WeightOf(f[1]) <= Heaviest(B)
    BY <1>1, <1>2
  <2> HIDE DEF Mine, Heaviest
  <2> QED
    BY <1>2, <2>1, <2>2
<1>5. /\ Mine(A) # {} => Mine(B) # {}
      /\ Mine(A) # {} => Sum(A) <= Sum(B)
  <2>1. ASSUME NEW findings, findings \subseteq B, Mine(findings) # {}
        PROVE  Cardinality(Mine(findings)) \in Nat /\ Heaviest(findings) \in Nat
    <3>1. Cardinality(Mine(findings)) \in Nat \ {0} /\ Heaviest(findings) \in {8, 30, 65, 92}
      BY <1>1, <2>1
    <3> HIDE DEF Mine, Heaviest
    <3> QED
      BY <3>1
  <2> HIDE DEF Mine, Heaviest
  <2> QED
    BY <1>2, <1>3, <1>4, <2>1
<1>6. /\ Mine(A) = {} => CategoryWeight(A, category) = 0
      /\ Mine(A) # {} => /\ Sum(A) \in Nat \ {0}
                         /\ CategoryWeight(A, category) = IF Sum(A) <= 100 THEN Sum(A) ELSE 100
      /\ Mine(B) = {} => CategoryWeight(B, category) = 0
      /\ Mine(B) # {} => /\ Sum(B) \in Nat \ {0}
                         /\ CategoryWeight(B, category) = IF Sum(B) <= 100 THEN Sum(B) ELSE 100
  BY <1>1
<1> HIDE DEF Mine, Sum
<1> QED
  BY <1>5, <1>6

\* What a category of this weight leaves of the innocence before it.
Leaves(rest, weight) == IF weight = 0 THEN rest ELSE (rest \div 100) * (100 - weight)

LEMMA ProductsGrow == \A x, y, u, v \in Nat : x <= y /\ u <= v => x * u <= y * v
<1>1. \A x, y, z \in Nat : x <= y => x * z <= y * z
  OBVIOUS
<1>2. \A x, y, z \in Nat : x <= y => z * x <= z * y
  OBVIOUS
<1> TAKE x, y, u, v \in Nat
<1> HAVE x <= y /\ u <= v
<1>3. x * u <= y * u /\ y * u <= y * v
  BY <1>1, <1>2
<1>4. x * u \in Nat /\ y * u \in Nat /\ y * v \in Nat
  OBVIOUS
<1> QED
  BY <1>3, <1>4

LEMMA LeavesLess ==
  ASSUME NEW n \in Nat, NEW a \in 0..n, NEW b \in 0..n, a <= b,
         NEW v \in 0..100, NEW w \in 0..100, w <= v
  PROVE  /\ Leaves(a, v) \in 0..n /\ Leaves(b, w) \in 0..n
         /\ Leaves(a, v) <= Leaves(b, w)
<1> DEFINE A == a \div 100
           B == b \div 100
<1>1. A \in Nat /\ B \in Nat /\ A <= B /\ A * 100 <= a /\ B * 100 <= b
  OBVIOUS
<1> HIDE DEF A, B
<1>2. 100 - v \in Nat /\ 100 - w \in Nat /\ 100 - v <= 100 - w /\ 100 - w <= 100
  OBVIOUS
<1>3. A * (100 - v) <= B * (100 - w)
  BY <1>1, <1>2, ProductsGrow
<1>4. A * (100 - v) <= A * 100 /\ B * (100 - w) <= B * 100
  BY <1>1, <1>2, ProductsGrow
<1>5. A * (100 - v) \in Nat /\ B * (100 - w) \in Nat
  BY <1>1, <1>2
<1> DEFINE P == A * (100 - v)
           Q == B * (100 - w)
<1> HIDE DEF P, Q
<1>6. P \in Nat /\ Q \in Nat /\ P <= Q /\ P <= a /\ Q <= b
  BY <1>1, <1>3, <1>4, <1>5 DEF P, Q
<1>7. Leaves(a, v) = (IF v = 0 THEN a ELSE P) /\ Leaves(b, w) = IF w = 0 THEN b ELSE Q
  BY DEF Leaves, A, B, P, Q
<1> QED
  BY <1>6, <1>7

\* The innocence of findings, category by category.
LEMMA InnocenceSteps ==
  ASSUME NEW findings, IsFiniteSet(findings)
  PROVE  \E left : /\ left[0] = Whole /\ left[7] = Innocence(findings)
                   /\ \A k \in 1..7 :
                        left[k] = Leaves(left[k - 1], CategoryWeight(findings, Categories[k]))
<1> DEFINE Levels == 0..Whole
           Kinds == {Categories[k] : k \in 1..7}
           F == [c \in Kinds |-> [rest \in Levels |-> Leaves(rest, CategoryWeight(findings, c))]]
<1>1. Len(Categories) = 7 /\ Categories \in Seq(Kinds)
  <2>1. /\ Len(Categories) = 7 /\ DOMAIN Categories = 1..7
        /\ Categories = [k \in 1..7 |-> Categories[k]]
    BY DEF Categories
  <2> QED
    BY <2>1, TupleIsSequence
<1>2. Whole \in Nat
  BY DEF Whole
<1>3. ASSUME NEW rest \in Levels, NEW c \in Kinds PROVE Leaves(rest, CategoryWeight(findings, c)) \in Levels
  <2>1. CategoryWeight(findings, c) \in 0..100
    BY CategoriesGrow
  <2>2. rest <= rest /\ CategoryWeight(findings, c) <= CategoryWeight(findings, c)
    BY <1>2, <2>1
  <2> QED
    BY <1>2, <2>1, <2>2, LeavesLess
<1>4. IsStep(F, Kinds, Levels) /\ Whole \in Levels
  BY <1>2, <1>3 DEF IsStep
<1>5. /\ \A k \in 1..7 : Categories[k] \in Kinds
      /\ \A c \in Kinds : \A rest \in Levels : F[c][rest] = Leaves(rest, CategoryWeight(findings, c))
  OBVIOUS
<1> HIDE DEF Kinds, F, Levels
<1>6. \E g : RunsAlong(g, F, Levels, Whole, Categories)
  BY <1>1, <1>4, RunExists
<1>7. PICK g \in [0..Len(Categories) -> Levels] :
        g[0] = Whole /\ \A i \in 1..Len(Categories) : g[i] = F[Categories[i]][g[i - 1]]
  BY <1>6, Zenon DEF RunsAlong
<1> DEFINE Unfolds(h) == h = [k \in 0..Len(Categories) |->
                                IF k = 0 THEN Whole
                                ELSE LET weight == CategoryWeight(findings, Categories[k]) IN
                                     IF weight = 0 THEN h[k - 1]
                                     ELSE (h[k - 1] \div 100) * (100 - weight)]
           left == CHOOSE h : Unfolds(h)
<1>8. Unfolds(g)
  <2>1. ASSUME NEW k \in 0..7
        PROVE  g[k] = IF k = 0 THEN Whole
                      ELSE LET weight == CategoryWeight(findings, Categories[k]) IN
                           IF weight = 0 THEN g[k - 1] ELSE (g[k - 1] \div 100) * (100 - weight)
    <3>1. CASE k = 0
      BY <1>7, <3>1
    <3>2. CASE k # 0
      <4>1. k \in 1..7 /\ k - 1 \in 0..7 /\ Categories[k] \in Kinds /\ g[k - 1] \in Levels
        BY <1>1, <1>5, <1>7, <3>2
      <4>2. g[k] = Leaves(g[k - 1], CategoryWeight(findings, Categories[k]))
        BY <1>1, <1>5, <1>7, <4>1
      <4> QED
        BY <3>2, <4>2 DEF Leaves
    <3> QED
      BY <3>1, <3>2
  <2> QED
    BY <1>1, <1>7, <2>1, Zenon
<1>9. Unfolds(left)
  BY <1>8, Zenon
<1>10. Innocence(findings) = left[Len(Categories)]
  BY DEF Innocence
<1> HIDE DEF left
<1>11. \A k \in 0..7 :
        left[k] = IF k = 0 THEN Whole
                  ELSE LET weight == CategoryWeight(findings, Categories[k]) IN
                       IF weight = 0 THEN left[k - 1] ELSE (left[k - 1] \div 100) * (100 - weight)
  BY <1>1, <1>9, Zenon
<1>12. left[0] = Whole
  BY <1>2, <1>11
<1>13. ASSUME NEW k \in 1..7
       PROVE  left[k] = Leaves(left[k - 1], CategoryWeight(findings, Categories[k]))
  <2>1. k \in 0..7 /\ k # 0
    OBVIOUS
  <2> QED
    BY <1>11, <2>1 DEF Leaves
<1> QED
  BY <1>1, <1>10, <1>12, <1>13

\* More findings never lower the score.
LEMMA ScoresGrow ==
  ASSUME NEW A, NEW B, A \subseteq B, IsFiniteSet(B)
  PROVE  Score(A) \in Int /\ Score(B) \in Int /\ Score(A) <= Score(B)
<1>1. Whole \in Nat
  BY DEF Whole
<1>2. IsFiniteSet(A)
  BY FS_Subset
<1>3. PICK a : /\ a[0] = Whole /\ a[7] = Innocence(A)
               /\ \A k \in 1..7 : a[k] = Leaves(a[k - 1], CategoryWeight(A, Categories[k]))
  BY <1>2, InnocenceSteps
<1>4. PICK b : /\ b[0] = Whole /\ b[7] = Innocence(B)
               /\ \A k \in 1..7 : b[k] = Leaves(b[k - 1], CategoryWeight(B, Categories[k]))
  BY InnocenceSteps
<1> DEFINE T == {k \in Nat : k <= 7 => /\ a[k] \in 0..Whole /\ b[k] \in 0..Whole
                                       /\ b[k] <= a[k]}
<1>5. 0 \in T
  BY <1>3, <1>4, <1>1
<1>6. ASSUME NEW k \in Nat, k \in T PROVE k + 1 \in T
  <2> SUFFICES ASSUME k + 1 <= 7
               PROVE  /\ a[k + 1] \in 0..Whole /\ b[k + 1] \in 0..Whole
                      /\ b[k + 1] <= a[k + 1]
    OBVIOUS
  <2>1. /\ k + 1 \in 1..7 /\ (k + 1) - 1 = k
        /\ a[k] \in 0..Whole /\ b[k] \in 0..Whole /\ b[k] <= a[k]
    BY <1>6
  <2> DEFINE category == Categories[k + 1]
  <2>2. /\ a[k + 1] = Leaves(a[k], CategoryWeight(A, category))
        /\ b[k + 1] = Leaves(b[k], CategoryWeight(B, category))
    BY <1>3, <1>4, <2>1
  <2> HIDE DEF category
  <2>3. /\ CategoryWeight(A, category) \in 0..100 /\ CategoryWeight(B, category) \in 0..100
        /\ CategoryWeight(A, category) <= CategoryWeight(B, category)
    BY CategoriesGrow
  <2> DEFINE v == CategoryWeight(B, category)
             w == CategoryWeight(A, category)
             aBefore == a[k]
             bBefore == b[k]
  <2> HIDE DEF v, w, aBefore, bBefore
  <2>4. /\ v \in 0..100 /\ w \in 0..100 /\ w <= v
        /\ aBefore \in 0..Whole /\ bBefore \in 0..Whole /\ bBefore <= aBefore
    BY <2>1, <2>3 DEF v, w, aBefore, bBefore
  <2>5. /\ Leaves(bBefore, v) \in 0..Whole /\ Leaves(aBefore, w) \in 0..Whole
        /\ Leaves(bBefore, v) <= Leaves(aBefore, w)
    BY <1>1, <2>4, LeavesLess
  <2> QED
    BY <2>2, <2>5 DEF v, w, aBefore, bBefore
<1> HIDE DEF T
<1>7. 7 \in T
  BY <1>5, <1>6, NaturalInduction
<1>8. /\ Innocence(A) \in 0..Whole /\ Innocence(B) \in 0..Whole
      /\ Innocence(B) <= Innocence(A)
  BY <1>3, <1>4, <1>7 DEF T
<1> QED
  BY <1>8, <1>1 DEF Score

-----------------------------------------------------------------------------
(* The plan of a scan: url_score after url_analyze at least, the rest at once. *)

LEMMA Tools ==
  /\ ScanTools = {"analyze", "inspect", "score", "urlscan", "submit", "virustotal"}
  /\ InPlan = {t \in ScanTools : Catalogue[t].risk <= maxRisk}
  /\ Catalogue["analyze"].risk = 0
<1>1. ScanTools = {"analyze", "inspect", "score", "urlscan", "submit", "virustotal"}
  BY DEF ScanTools, Catalogue
<1>2. \A t \in ScanTools : Catalogue[t].rank \in 0..6 /\ Catalogue[t].needs = {"target"}
  BY DEF ScanTools, Catalogue, Entry
<1>3. InPlan = {t \in ScanTools : Catalogue[t].risk <= maxRisk}
  BY <1>2 DEF InPlan, Planned, Selected, ScanTools
<1> QED
  BY <1>1, <1>3 DEF Catalogue, Entry

\* Only url_score waits, for url_analyze and perhaps for others.
LEMMA OnlyScoreWaits ==
  ASSUME maxRisk \in 0..1
  PROVE  /\ "analyze" \in InPlan /\ "score" \in InPlan
         /\ \A t \in InPlan : t # "score" => DependsOn(Catalogue, InPlan, t) = {}
         /\ "analyze" \in DependsOn(Catalogue, InPlan, "score")
         /\ DependsOn(Catalogue, InPlan, "score") \subseteq InPlan \ {"score"}
<1>1. /\ ScanTools = {"analyze", "inspect", "score", "urlscan", "submit", "virustotal"}
      /\ InPlan = {u \in ScanTools : Catalogue[u].risk <= maxRisk}
  BY Tools
<1>2. "analyze" \in InPlan /\ "score" \in InPlan
  BY <1>1 DEF Catalogue, Entry
<1>3. \A p \in InPlan : Catalogue[p].rank # NETWORK
  BY <1>1 DEF Catalogue, Entry, NETWORK
<1>4. \A t \in ScanTools : t # "score" => Catalogue[t].consumes = {}
  BY <1>1 DEF Catalogue, Entry
<1>5. ASSUME NEW t \in InPlan, t # "score"
      PROVE  DependsOn(Catalogue, InPlan, t) = {}
  BY <1>1, <1>3, <1>4, <1>5 DEF DependsOn
<1>6. DependsOn(Catalogue, InPlan, "score") \subseteq InPlan \ {"score"}
  <2>1. ~Before(Catalogue, "score", "score")
    BY DEF Before, Catalogue, Entry
  <2> QED
    BY <2>1 DEF DependsOn
<1>7. "analyze" \in DependsOn(Catalogue, InPlan, "score")
  <2>1. Before(Catalogue, "analyze", "score")
    BY DEF Before, Catalogue, Entry
  <2>2. "url_findings" \in Catalogue["analyze"].produces \intersect Catalogue["score"].consumes
    BY DEF Catalogue, Entry
  <2> QED
    BY <1>2, <2>1, <2>2 DEF DependsOn
<1> QED
  BY <1>2, <1>5, <1>6, <1>7

\* Whatever the tools find is finite, and they find nothing where url_score looks for nothing.
LEMMA FindingsFinite ==
  ASSUME page \in Pages, NEW E \in SUBSET ScanTools
  PROVE  /\ IsFiniteSet(UNION {Findings(t) : t \in E})
         /\ IsFiniteSet(Distinct(UNION {Findings(t) : t \in E}))
         /\ Findings("score") = {}
<1>1. \A t \in {"analyze", "inspect", "virustotal", "urlscan"} : IsFiniteSet(page[t])
  BY UrlScanAssumption
<1> DEFINE Urls == {"embedded_url_parameter"} \X (1..page.carrying)
           Codes == {"malformed_url"} \union {"embedded_url_parameter"} \union page["analyze"]
                    \union page["inspect"] \union page["virustotal"] \union page["urlscan"]
           All == (Codes \X {1}) \union Urls
<1>2. IsFiniteSet(Codes) /\ IsFiniteSet({1}) /\ IsFiniteSet({"embedded_url_parameter"})
  <2>1. IsFiniteSet({"malformed_url"} \union {"embedded_url_parameter"})
    BY FS_Singleton, FS_Union
  <2> QED
    BY <1>1, <2>1, FS_Singleton, FS_Union
<1>3. IsFiniteSet(1..page.carrying)
  BY UrlScanAssumption, FS_Interval
<1>4. IsFiniteSet(All)
  BY <1>2, <1>3, FS_Product, FS_Union
<1>5. Findings("analyze") \subseteq All
  <2>1. Findings("analyze") = AnalyzeUrl(page.analyze, page.carrying)
    BY DEF Findings
  <2>2. AnalyzeUrl(page.analyze, page.carrying) \subseteq All
    BY DEF AnalyzeUrl, Deception, Hosting, Once
  <2> QED
    BY <2>1, <2>2
<1>6. \A t \in {"inspect", "virustotal", "urlscan"} : Findings(t) \subseteq All
  BY DEF Findings, Once
<1>7. \A t \in {"score", "submit"} : Findings(t) = {}
  BY DEF Findings
<1>8. \A t \in ScanTools : Findings(t) \subseteq All
  BY <1>5, <1>6, <1>7, Tools
<1>9. UNION {Findings(t) : t \in E} \subseteq All
  BY <1>8
<1>10. \A f \in All : f[1] \in Codes
  OBVIOUS
<1>11. Distinct(UNION {Findings(t) : t \in E}) \subseteq All
  BY <1>9, <1>10 DEF Distinct, Once
<1> QED
  BY <1>4, <1>7, <1>9, <1>11, FS_Subset

\* Every step has one status, "absent" outside of the plan.
ScanTypeOK ==
  /\ maxRisk \in 0..1 /\ page \in Pages
  /\ status \in [ScanTools -> {"absent", "pending", "running", "succeeded", "failed", "skipped"}]
  /\ \A t \in ScanTools : status[t] = "absent" <=> t \notin InPlan

\* The first wave takes every step but url_score.
FirstWaveTakesAll ==
  (\E t \in InPlan : status[t] # "pending") =>
    \A t \in InPlan \ {"score"} : status[t] # "pending"

\* url_score started on what all the others left.
ScoreHasAll ==
  status["score"] \in {"running", "succeeded", "failed"} =>
    /\ \A t \in ScanTools \ {"score"} : status[t] \in Over
    /\ evidence = {t \in ScanTools : t # "score" /\ status[t] = "succeeded" /\ Concerns(t)}

ReportedLast ==
  report # None =>
    /\ Idle
    /\ status["score"] = "succeeded" =>
         report.score = Score(Distinct(UNION {Findings(t) : t \in evidence}))

ScanInv == ScanTypeOK /\ FirstWaveTakesAll /\ ScoreHasAll /\ ReportedLast

LEMMA ScanStarts == ScanInit => ScanInv
<1> SUFFICES ASSUME ScanInit PROVE ScanInv
  OBVIOUS
<1>1. /\ maxRisk \in 0..1 /\ page \in Pages /\ report = None
      /\ status = [t \in ScanTools |-> IF t \in InPlan THEN "pending" ELSE "absent"]
  BY DEF ScanInit
<1>2. "score" \in ScanTools /\ InPlan \subseteq ScanTools
  BY Tools
<1>3. ScanTypeOK
  BY <1>1 DEF ScanTypeOK
<1>4. FirstWaveTakesAll
  BY <1>1, <1>2 DEF FirstWaveTakesAll
<1>5. ScoreHasAll
  BY <1>1, <1>2 DEF ScoreHasAll
<1> QED
  BY <1>1, <1>3, <1>4, <1>5 DEF ScanInv, ReportedLast

LEMMA ScanWaveKeeps == ScanInv /\ ScanWave => ScanInv'
<1> SUFFICES ASSUME ScanInv, ScanWave PROVE ScanInv'
  OBVIOUS
<1>1. ScanTypeOK /\ FirstWaveTakesAll /\ ScoreHasAll
  BY DEF ScanInv
<1>2. /\ Idle /\ report = None /\ report' = None /\ maxRisk' = maxRisk /\ page' = page
      /\ status' = [t \in ScanTools |-> IF Hopeless(t) THEN "skipped"
                                        ELSE IF Runnable(t) THEN "running" ELSE status[t]]
      /\ evidence' = IF Runnable("score")
                     THEN {t \in ScanTools : status[t] = "succeeded" /\ Concerns(t)}
                     ELSE evidence
      /\ \E t \in ScanTools : Runnable(t)
  BY DEF ScanWave
<1>3. InPlan' = InPlan
  BY <1>2 DEF InPlan
<1>4. InPlan \subseteq ScanTools /\ "score" \in ScanTools
  BY Tools
<1>5. /\ "analyze" \in InPlan /\ "score" \in InPlan
      /\ \A t \in InPlan : t # "score" => DependsOn(Catalogue, InPlan, t) = {}
      /\ "analyze" \in DependsOn(Catalogue, InPlan, "score")
  BY <1>1, OnlyScoreWaits DEF ScanTypeOK
<1>6. \A t \in ScanTools : Hopeless(t) \/ Runnable(t) => status[t] = "pending" /\ t \in InPlan
  BY <1>1 DEF Hopeless, Runnable, ScanTypeOK
<1>7. \A t \in InPlan \ {"score"} : ~Hopeless(t) /\ (Runnable(t) <=> status[t] = "pending")
  BY <1>5 DEF Hopeless, Runnable
<1>8. ScanTypeOK'
  BY <1>1, <1>2, <1>3, <1>6 DEF ScanTypeOK
<1>9. FirstWaveTakesAll'
  BY <1>2, <1>3, <1>4, <1>7 DEF FirstWaveTakesAll
<1>10. ScoreHasAll'
  <2>1. CASE Runnable("score")
    <3>1. status["analyze"] = "succeeded"
      BY <1>5, <2>1 DEF Runnable
    <3>2. \A t \in InPlan \ {"score"} : status[t] # "pending"
      BY <1>1, <1>5, <3>1 DEF FirstWaveTakesAll
    <3>3. \A t \in ScanTools \ {"score"} : status'[t] = status[t] /\ status[t] \in Over
      BY <1>1, <1>2, <1>6, <3>2 DEF ScanTypeOK, Idle, Over
    <3>4. status["score"] = "pending"
      BY <2>1 DEF Runnable
    <3>5. evidence' = {t \in ScanTools : t # "score" /\ status'[t] = "succeeded" /\ Concerns(t)'}
      BY <1>2, <2>1, <3>3, <3>4 DEF Concerns
    <3> QED
      BY <3>3, <3>5 DEF ScoreHasAll
  <2>2. CASE ~Runnable("score")
    <3> SUFFICES ASSUME status'["score"] \in {"running", "succeeded", "failed"} PROVE ScoreHasAll'
      BY DEF ScoreHasAll
    <3>1. status["score"] = status'["score"] /\ evidence' = evidence
      BY <1>2, <1>4, <2>2
    <3>2. \A t \in ScanTools \ {"score"} : status[t] \in Over
      BY <1>1, <3>1 DEF ScoreHasAll
    <3>3. \A t \in ScanTools : status'[t] = status[t]
      BY <1>2, <1>6, <3>1, <3>2 DEF Over
    <3> QED
      BY <1>1, <1>2, <3>1, <3>3 DEF ScoreHasAll, Concerns
  <2> QED
    BY <2>1, <2>2
<1> QED
  BY <1>2, <1>8, <1>9, <1>10 DEF ScanInv, ReportedLast

LEMMA ToolEndsKeeps == ASSUME NEW t \in ScanTools PROVE ScanInv /\ ToolEnds(t) => ScanInv'
<1> SUFFICES ASSUME ScanInv, ToolEnds(t) PROVE ScanInv'
  OBVIOUS
<1>1. ScanTypeOK /\ FirstWaveTakesAll /\ ScoreHasAll /\ ReportedLast
  BY DEF ScanInv
<1>2. PICK end \in {"succeeded", "failed"} : status' = [status EXCEPT ![t] = end]
  BY DEF ToolEnds
<1>3. /\ status[t] = "running" /\ report' = report /\ maxRisk' = maxRisk /\ page' = page
      /\ evidence' = evidence
  BY DEF ToolEnds
<1>4. InPlan' = InPlan
  BY <1>3 DEF InPlan
<1>5. InPlan \subseteq ScanTools /\ "score" \in ScanTools
  BY Tools
<1>6. /\ \A u \in ScanTools : u # t => status'[u] = status[u]
      /\ status'[t] \in {"succeeded", "failed"}
  BY <1>1, <1>2 DEF ScanTypeOK
<1>7. report = None
  BY <1>1, <1>3 DEF ReportedLast, Idle
<1>8. ScanTypeOK'
  BY <1>1, <1>2, <1>3, <1>4 DEF ScanTypeOK
<1>9. FirstWaveTakesAll'
  BY <1>1, <1>3, <1>4, <1>5, <1>6 DEF FirstWaveTakesAll, ScanTypeOK
<1>10. ScoreHasAll'
  <2>1. CASE t = "score"
    BY <1>1, <1>3, <1>6, <2>1 DEF ScoreHasAll, Concerns
  <2>2. CASE t # "score"
    BY <1>1, <1>3, <1>5, <1>6, <2>2 DEF ScoreHasAll, Over
  <2> QED
    BY <2>1, <2>2
<1> QED
  BY <1>3, <1>7, <1>8, <1>9, <1>10 DEF ScanInv, ReportedLast

LEMMA ScanReportKeeps == ScanInv /\ ScanReport => ScanInv'
<1> SUFFICES ASSUME ScanInv, ScanReport PROVE ScanInv'
  OBVIOUS
<1>1. ScanTypeOK /\ FirstWaveTakesAll /\ ScoreHasAll
  BY DEF ScanInv
<1> DEFINE findings == IF status["score"] = "succeeded"
                       THEN Distinct(UNION {Findings(t) : t \in evidence})
                       ELSE IF status["analyze"] = "succeeded" THEN Findings("analyze") ELSE {}
<1>2. /\ Idle /\ maxRisk' = maxRisk /\ page' = page /\ evidence' = evidence
      /\ status' = [t \in ScanTools |-> IF Hopeless(t) THEN "skipped" ELSE status[t]]
  BY DEF ScanReport
<1>3. report' = [findings |-> findings, score |-> Score(findings)]
  BY DEF ScanReport
<1>4. InPlan' = InPlan
  BY <1>2 DEF InPlan
<1>5. InPlan \subseteq ScanTools /\ "score" \in ScanTools
  BY Tools
<1>6. /\ "score" \in InPlan
      /\ \A t \in InPlan : t # "score" => DependsOn(Catalogue, InPlan, t) = {}
      /\ DependsOn(Catalogue, InPlan, "score") \subseteq InPlan \ {"score"}
  BY <1>1, OnlyScoreWaits DEF ScanTypeOK
<1>7. \A t \in ScanTools : Hopeless(t) => status[t] = "pending" /\ t = "score"
  BY <1>1, <1>6 DEF Hopeless, ScanTypeOK
<1>8. \A t \in ScanTools : t # "score" => status'[t] = status[t]
  BY <1>2, <1>7
<1>9. Hopeless("score") => \E t \in InPlan : status[t] # "pending"
  BY <1>6 DEF Hopeless
<1>10. ScanTypeOK'
  BY <1>1, <1>2, <1>4, <1>6, <1>7 DEF ScanTypeOK
<1>11. FirstWaveTakesAll'
  BY <1>1, <1>2, <1>4, <1>5, <1>7, <1>8, <1>9 DEF FirstWaveTakesAll
<1>12. status'["score"] = IF Hopeless("score") THEN "skipped" ELSE status["score"]
  BY <1>2, <1>5
<1>13. ScoreHasAll'
  <2> SUFFICES ASSUME status'["score"] \in {"running", "succeeded", "failed"} PROVE ScoreHasAll'
    BY DEF ScoreHasAll
  <2>1. status'["score"] = status["score"]
    BY <1>12
  <2> QED
    BY <1>1, <1>2, <1>8, <2>1 DEF ScoreHasAll, Concerns
<1>14. ReportedLast'
  <2>1. Idle'
    BY <1>2 DEF Idle
  <2>2. ASSUME status'["score"] = "succeeded"
        PROVE  report'.score = Score(Distinct(UNION {Findings(t)' : t \in evidence'}))
    <3>1. status["score"] = "succeeded"
      BY <1>12, <2>2
    <3>2. \A t : Findings(t)' = Findings(t)
      BY <1>2 DEF Findings
    <3> QED
      BY <1>2, <1>3, <3>1, <3>2
  <2> QED
    BY <2>1, <2>2 DEF ReportedLast
<1> QED
  BY <1>10, <1>11, <1>13, <1>14 DEF ScanInv

\* At the end url_score counted what every successful tool found.
LEMMA ScanInvSees == ScanInv => ScoreSeesEvidence
<1> SUFFICES ASSUME ScanInv PROVE ScoreSeesEvidence
  OBVIOUS
<1>1. status["score"] = "running" => \A t \in ScanTools \ {"score"} : status[t] \in Over
  BY DEF ScanInv, ScoreHasAll
<1>2. ASSUME report # None, status["score"] = "succeeded",
             NEW t \in ScanTools, status[t] = "succeeded", Concerns(t)
      PROVE  report.score >= Score(Distinct(Findings(t)))
  <2> DEFINE All == UNION {Findings(u) : u \in evidence}
             Mine == Findings(t)
  <2>1. /\ evidence = {u \in ScanTools : u # "score" /\ status[u] = "succeeded" /\ Concerns(u)}
        /\ report.score = Score(Distinct(All)) /\ page \in Pages
    BY <1>2 DEF ScanInv, ScoreHasAll, ReportedLast, ScanTypeOK
  <2>2. IsFiniteSet(Distinct(All)) /\ Findings("score") = {}
    BY <2>1, FindingsFinite
  <2>3. Mine \subseteq All
    BY <1>2, <2>1, <2>2
  <2> HIDE DEF All, Mine
  <2>4. Distinct(Mine) \subseteq Distinct(All)
    BY <2>3 DEF Distinct, Once
  <2> DEFINE few == Distinct(Mine)
             many == Distinct(All)
  <2> HIDE DEF few, many
  <2>5. Score(few) \in Int /\ Score(many) \in Int /\ Score(few) <= Score(many)
    BY <2>2, <2>4, ScoresGrow DEF few, many
  <2> QED
    BY <2>1, <2>5 DEF few, many, Mine
<1> QED
  BY <1>1, <1>2 DEF ScoreSeesEvidence

\* url_score starts when every other tool has ended ("guaranteeing analysis never starts
\* before the data it reads exists"), and the score it gives is at least what each
\* successful one found would score by itself with every code once, but for a verdict
\* of urlscan on a URL whose host normalize_url respells, which it drops.
THEOREM ScoresSeeEvidence == ScanSpec => []ScoreSeesEvidence
<1>1. ScanInit => ScanInv
  BY ScanStarts
<1>2. ScanInv /\ [ScanNext]_scanVars => ScanInv'
  <2>1. ScanInv /\ UNCHANGED scanVars => ScanInv'
    BY DEF scanVars, ScanInv, ScanTypeOK, FirstWaveTakesAll, ScoreHasAll, ReportedLast, Idle,
           InPlan, Findings, Concerns
  <2> QED
    BY <2>1, ScanWaveKeeps, ToolEndsKeeps, ScanReportKeeps DEF ScanNext
<1> QED
  BY <1>1, <1>2, ScanInvSees, PTL DEF ScanSpec

-----------------------------------------------------------------------------
(* The graph of payloads: what is reached from an entity has no edge across *)
(* its border.                                                              *)

Uncut(edges, C) == \A e \in edges : e[1] \in C <=> e[3] \in C

Near(edges, entities) == entities \union Beside(edges, entities)

LEMMA ReachedUncut ==
  ASSUME NEW nodes, NEW edges, IsFiniteSet(nodes), NEW from \in nodes,
         \A e \in edges : e[1] \in nodes /\ e[3] \in nodes
  PROVE  from \in Reached([nodes |-> nodes, edges |-> edges], from) /\ Uncut(edges, Reached([nodes |-> nodes, edges |-> edges], from))
<1> DEFINE N == Cardinality(nodes)
<1>1. N \in Nat
  BY FS_CardinalityType
<1>2. Reached([nodes |-> nodes, edges |-> edges], from) =
         LET Within[n \in 0..N] ==
               IF n = 0 THEN {from} ELSE Within[n - 1] \union Beside(edges, Within[n - 1]) IN
         Within[N]
  BY DEF Reached
<1>3. ASSUME NEW X \in SUBSET nodes
       PROVE  Cardinality(X) <= N /\ Cardinality(X) \in Nat /\ IsFiniteSet(X)
  BY FS_Subset, FS_CardinalityType
<1> HIDE DEF N
\* The rounds exist, as many as there are entities.
<1>4. PICK g \in [0..N -> SUBSET nodes] :
        g[0] = {from} /\ \A i \in 1..N : g[i] = Near(edges, g[i - 1])
  <2> DEFINE Rounds == [i \in 1..N |-> 0]
             Levels == SUBSET nodes
             F == [x \in {0} |-> [near \in Levels |-> Near(edges, near)]]
  <2>1. Rounds \in Seq({0}) /\ Len(Rounds) = N /\ \A i \in 1..N : Rounds[i] = 0
    BY <1>1
  <2>2. \A near \in Levels : Near(edges, near) \in Levels
    BY DEF Near, Beside
  <2>3. IsStep(F, {0}, Levels) /\ \A near \in Levels : F[0][near] = Near(edges, near)
    BY <2>2 DEF IsStep
  <2>4. {from} \in Levels
    OBVIOUS
  <2> HIDE DEF Rounds, Levels, F
  <2>5. \E g : RunsAlong(g, F, Levels, {from}, Rounds)
    BY <2>1, <2>3, <2>4, RunExists
  <2>6. PICK g \in [0..N -> Levels] :
          g[0] = {from} /\ \A i \in 1..N : g[i] = F[Rounds[i]][g[i - 1]]
    BY <2>1, <2>5 DEF RunsAlong
  <2>7. \A i \in 1..N : g[i] = Near(edges, g[i - 1])
    <3> TAKE i \in 1..N
    <3>1. g[i - 1] \in Levels
      BY <1>1, <2>6
    <3> QED
      BY <2>1, <2>3, <2>6, <3>1
  <2> QED
    BY <2>6, <2>7 DEF Levels
<1> DEFINE Unfolds(h) == h = [n \in 0..N |-> IF n = 0 THEN {from}
                                             ELSE h[n - 1] \union Beside(edges, h[n - 1])]
           W == CHOOSE h : Unfolds(h)
<1>5. Unfolds(g)
  <2>1. ASSUME NEW n \in 0..N
        PROVE  g[n] = IF n = 0 THEN {from} ELSE g[n - 1] \union Beside(edges, g[n - 1])
    BY <1>1, <1>4 DEF Near
  <2> QED
    BY <1>4, <2>1, Zenon
<1>6. Unfolds(W)
  BY <1>5, Zenon
<1>7. Reached([nodes |-> nodes, edges |-> edges], from) = W[N]
  BY <1>2
<1> HIDE DEF W
<1>8. W[0] = {from} /\ \A n \in 1..N : W[n] = Near(edges, W[n - 1])
  <2>1. \A n \in 0..N :
          W[n] = IF n = 0 THEN {from} ELSE W[n - 1] \union Beside(edges, W[n - 1])
    BY <1>6, Zenon
  <2>2. W[0] = {from}
    <3>1. 0 \in 0..N
      BY <1>1
    <3> QED
      BY <2>1, <3>1, Zenon
  <2>3. ASSUME NEW n \in 1..N PROVE W[n] = Near(edges, W[n - 1])
    <3>1. n \in 0..N /\ n # 0
      BY <1>1
    <3> QED
      BY <2>1, <3>1, Zenon DEF Near
  <2> QED
    BY <2>2, <2>3
<1> DEFINE T == {n \in Nat : n <= N =>
                   /\ W[n] \subseteq nodes /\ from \in W[n]
                   /\ Near(edges, W[n]) = W[n] \/ Cardinality(W[n]) >= n + 1}
<1>9. 0 \in T
  <2>1. Cardinality(W[0]) = 1
    BY <1>8, FS_Singleton
  <2>2. W[0] \subseteq nodes /\ from \in W[0]
    BY <1>8
  <2> QED
    BY <2>1, <2>2
<1>10. ASSUME NEW n \in Nat, n \in T PROVE n + 1 \in T
  <2> SUFFICES ASSUME n + 1 <= N
               PROVE  /\ W[n + 1] \subseteq nodes /\ from \in W[n + 1]
                      /\ \/ Near(edges, W[n + 1]) = W[n + 1]
                         \/ Cardinality(W[n + 1]) >= (n + 1) + 1
    OBVIOUS
  <2>1. /\ W[n] \subseteq nodes /\ from \in W[n]
        /\ Near(edges, W[n]) = W[n] \/ Cardinality(W[n]) >= n + 1
        /\ n + 1 \in 1..N /\ (n + 1) - 1 = n
    BY <1>1, <1>10
  <2>2. W[n + 1] = Near(edges, W[n])
    BY <1>8, <2>1
  <2>3. W[n + 1] \subseteq nodes /\ W[n] \subseteq W[n + 1]
    BY <2>1, <2>2 DEF Near, Beside
  <2>4. CASE Near(edges, W[n]) = W[n]
    BY <2>1, <2>2, <2>4
  <2>5. CASE Near(edges, W[n]) # W[n]
    <3>1. IsFiniteSet(W[n + 1]) /\ Cardinality(W[n + 1]) \in Nat /\ Cardinality(W[n]) \in Nat
      BY <2>3, <1>3
    <3>2. Cardinality(W[n]) < Cardinality(W[n + 1])
      BY <2>2, <2>3, <2>5, <3>1, FS_Subset
    <3> QED
      BY <2>1, <2>3, <2>5, <3>1, <3>2
  <2> QED
    BY <2>4, <2>5
<1> HIDE DEF T
<1>11. N \in T
  BY <1>1, <1>9, <1>10, NaturalInduction
<1>12. /\ W[N] \subseteq nodes /\ from \in W[N]
       /\ Near(edges, W[N]) = W[N] \/ Cardinality(W[N]) >= N + 1
  BY <1>1, <1>11 DEF T
<1>13. Cardinality(W[N]) <= N /\ Cardinality(W[N]) \in Nat
  <2>1. W[N] \in SUBSET nodes
    BY <1>12
  <2> QED
    BY <1>3, <2>1, Zenon
<1>14. Near(edges, W[N]) = W[N]
  BY <1>1, <1>12, <1>13
<1>15. Uncut(edges, W[N])
  <2> DEFINE R == W[N]
  <2> SUFFICES ASSUME NEW e \in edges PROVE e[1] \in R <=> e[3] \in R
    BY DEF Uncut
  <2>1. R = R \union Beside(edges, R)
    BY <1>14 DEF Near
  <2> HIDE DEF R
  <2>2. /\ e[1] \in R => e[3] \in Beside(edges, R)
        /\ e[3] \in R => e[1] \in Beside(edges, R)
    BY DEF Beside
  <2> QED
    BY <2>1, <2>2
<1> QED
  BY <1>7, <1>12, <1>15

\* The edges of a payload join two of its entities.
EdgesInside(p) ==
  \A e \in p.edges : e[1] \in p.entities /\ e[3] \in p.entities /\ e[1] # e[3]

\* It hangs together: no way to part its entities that cuts no edge.
Hangs(p) ==
  \A C : Uncut(p.edges, C) => \A n \in p.entities : n \in C <=> p.subject \in C

LEMMA StarHangs ==
  ASSUME NEW subject, NEW links
  PROVE  LET p == Star(subject, links) IN
         /\ p.subject = subject /\ p.entities = {subject} \union {l[2] : l \in links}
         /\ EdgesInside(p) /\ Hangs(p)
<1> DEFINE p == Star(subject, links)
<1>1. /\ p.subject = subject /\ p.entities = {subject} \union {l[2] : l \in links}
      /\ p.edges = {<<subject, l[1], l[2]>> : l \in {k \in links : k[2] # subject}}
  BY DEF Star
<1> HIDE DEF p
<1>2. EdgesInside(p)
  <2> SUFFICES ASSUME NEW e \in p.edges
               PROVE  e[1] \in p.entities /\ e[3] \in p.entities /\ e[1] # e[3]
    BY DEF EdgesInside
  <2>1. PICK l \in links : l[2] # subject /\ e = <<subject, l[1], l[2]>>
    BY <1>1
  <2> QED
    BY <1>1, <2>1
<1>3. Hangs(p)
  <2> SUFFICES ASSUME NEW C, Uncut(p.edges, C), NEW n \in p.entities
               PROVE  n \in C <=> subject \in C
    BY <1>1 DEF Hangs
  <2>1. CASE n = subject
    BY <2>1
  <2>2. CASE n # subject
    <3>1. PICK l \in links : n = l[2]
      BY <1>1, <2>2
    <3>2. <<subject, l[1], l[2]>> \in p.edges
      BY <1>1, <2>2, <3>1
    <3>3. <<subject, l[1], l[2]>>[1] = subject /\ <<subject, l[1], l[2]>>[3] = n
      BY <3>1
    <3> QED
      BY <3>2, <3>3 DEF Uncut
  <2> QED
    BY <2>1, <2>2
<1> QED
  BY <1>1, <1>2, <1>3 DEF p

LEMMA StarFinite ==
  ASSUME NEW subject, NEW links, NEW E, IsFiniteSet(E), \A l \in links : l[2] \in E
  PROVE  IsFiniteSet(Star(subject, links).entities)
<1>1. Star(subject, links).entities \subseteq {subject} \union E
  BY StarHangs
<1>2. IsFiniteSet({subject} \union E)
  BY FS_Union, FS_Singleton
<1> QED
  BY <1>1, <1>2, FS_Subset

LEMMA ImageFinite ==
  ASSUME NEW f, IsFiniteSet(DOMAIN f)
  PROVE  IsFiniteSet({f[x] : x \in DOMAIN f})
<1> DEFINE S == DOMAIN f
           T == {f[x] : x \in S}
           g == [x \in S |-> f[x]]
<1>1. g \in Surjection(S, T)
  BY DEF Surjection
<1> QED
  BY <1>1, FS_Surjection

LEMMA CreatedFinite ==
  ASSUME NEW type, NEW values, IsFiniteSet(values)
  PROVE  IsFiniteSet(Created(type, values))
<1>1. Created(type, values) \subseteq {type} \X values
  BY DEF Created
<1>2. IsFiniteSet({type} \X values)
  BY FS_Product, FS_Singleton
<1> QED
  BY <1>1, <1>2, FS_Subset

LEMMA LinkedEnds == \A edge, entities : \A l \in Linked(edge, entities) : l[2] \in entities
BY DEF Linked

\* What is wanted of a payload and the places it speaks of.
Fine(p, places) ==
  /\ IsFiniteSet(p.entities) /\ EdgesInside(p)
  /\ p.entities # {} => p.subject \in p.entities
  /\ \A m \in places \ {Unusable} : EntityOf(m) \in p.entities

LEMMA NamesAreDomains ==
  ASSUME NEW values, Names(values)
  PROVE  /\ IsFiniteSet(values)
         /\ \A m \in values \ {Unusable} : EntityOf(m) \in Created("domain", values)
BY DEF Names, EntityOf, NodeOf, Created

\* A star is fine if it has the places among its ends.
LEMMA StarFine ==
  ASSUME NEW subject, NEW links, NEW E, IsFiniteSet(E), \A l \in links : l[2] \in E,
         NEW places, \A m \in places \ {Unusable} :
                       EntityOf(m) = subject \/ \E l \in links : l[2] = EntityOf(m)
  PROVE  Fine(Star(subject, links), places) /\ Hangs(Star(subject, links))
<1> DEFINE p == Star(subject, links)
<1>1. /\ p.subject = subject /\ p.entities = {subject} \union {l[2] : l \in links}
      /\ EdgesInside(p) /\ Hangs(p)
  BY StarHangs
<1>2. IsFiniteSet(p.entities)
  BY StarFinite
<1> HIDE DEF p
<1>3. \A m \in places \ {Unusable} : EntityOf(m) \in p.entities
  BY <1>1
<1> QED
  BY <1>1, <1>2, <1>3 DEF Fine, p

LEMMA DnsFine ==
  ASSUME NEW domain, NEW found, Shape("osint.dns", domain, found)
  PROVE  /\ Fine(DnsPayload(domain, found),
                 {domain} \union UNION {Answers(found, type) : type \in {"A", "MX", "NS", "CNAME"}})
         /\ Hangs(DnsPayload(domain, found))
<1> DEFINE addresses == Created("ip_address", Answers(found, "A"))
           mails == Created("domain", Answers(found, "MX"))
           servers == Created("domain", Answers(found, "NS"))
           aliases == Created("domain", Answers(found, "CNAME"))
           contacts == Created("email", Answers(found, "TXT"))
           links == Linked("resolves_to", addresses) \union Linked("mail_handled_by", mails)
                    \union Linked("nameserver_for", servers) \union Linked("alias_of", aliases)
                    \union Linked("registrant_contact", contacts)
           E == addresses \union mails \union servers \union aliases \union contacts
           places == {domain} \union UNION {Answers(found, type) : type \in {"A", "MX", "NS", "CNAME"}}
<1>1. /\ Names({domain}) /\ found.A \subseteq HostAddresses \union {Unusable}
      /\ IsFiniteSet(found.A)
      /\ \A type \in {"MX", "NS", "CNAME", "TXT"} : Names(found[type])
  BY DEF Shape
<1>2. /\ Answers(found, "A") \subseteq HostAddresses \union {Unusable}
      /\ IsFiniteSet(Answers(found, "A"))
      /\ \A type \in {"MX", "NS", "CNAME", "TXT"} : Names(Answers(found, type))
  BY <1>1, FS_EmptySet DEF Answers, Names
<1>3. /\ IsFiniteSet(addresses) /\ IsFiniteSet(mails) /\ IsFiniteSet(servers)
      /\ IsFiniteSet(aliases) /\ IsFiniteSet(contacts)
  BY <1>2, CreatedFinite DEF Names
<1>4. \A m \in Answers(found, "A") \ {Unusable} : EntityOf(m) \in addresses
  BY <1>2, CollectionAssumption DEF EntityOf, NodeOf, Created
<1>5. /\ \A m \in Answers(found, "MX") \ {Unusable} : EntityOf(m) \in mails
      /\ \A m \in Answers(found, "NS") \ {Unusable} : EntityOf(m) \in servers
      /\ \A m \in Answers(found, "CNAME") \ {Unusable} : EntityOf(m) \in aliases
  BY <1>2, NamesAreDomains
<1>6. EntityOf(domain) = <<"domain", domain>>
  BY <1>1 DEF EntityOf, NodeOf, Names
<1> HIDE DEF addresses, mails, servers, aliases, contacts
<1>7. IsFiniteSet(E)
  BY <1>3, FS_Union
<1>8. \A l \in links : l[2] \in E
  BY DEF Linked
<1>9. /\ \A n \in addresses : <<"resolves_to", n>> \in links /\ <<"resolves_to", n>>[2] = n
      /\ \A n \in mails : <<"mail_handled_by", n>> \in links /\ <<"mail_handled_by", n>>[2] = n
      /\ \A n \in servers : <<"nameserver_for", n>> \in links /\ <<"nameserver_for", n>>[2] = n
      /\ \A n \in aliases : <<"alias_of", n>> \in links /\ <<"alias_of", n>>[2] = n
  BY DEF Linked
<1> HIDE DEF E, links
<1>10. \A m \in places \ {Unusable} :
         EntityOf(m) = <<"domain", domain>> \/ \E l \in links : l[2] = EntityOf(m)
  BY <1>4, <1>5, <1>6, <1>9
<1> HIDE DEF places
<1>11. Fine(Star(<<"domain", domain>>, links), places) /\ Hangs(Star(<<"domain", domain>>, links))
  BY <1>7, <1>8, <1>10, StarFine
<1> QED
  BY <1>11 DEF DnsPayload, links, addresses, mails, servers, aliases, contacts, places

LEMMA WhoisFine ==
  ASSUME NEW domain, NEW found, Shape("osint.whois", domain, found)
  PROVE  /\ Fine(WhoisPayload(domain, found), {domain} \union found.nameservers)
         /\ Hangs(WhoisPayload(domain, found))
<1> DEFINE owners == Created("organization", found.registrant \union found.registrar)
           contacts == Created("email", found.emails)
           servers == Created("domain", found.nameservers)
           links == Linked("registered_by", owners) \union Linked("registrant_contact", contacts)
                    \union Linked("nameserver_for", servers)
           E == owners \union contacts \union servers
           places == {domain} \union found.nameservers
<1>1. /\ Names({domain}) /\ Names(found.nameservers)
      /\ IsFiniteSet(found.registrant) /\ IsFiniteSet(found.registrar) /\ IsFiniteSet(found.emails)
  BY DEF Shape
<1>2. IsFiniteSet(owners) /\ IsFiniteSet(contacts) /\ IsFiniteSet(servers)
  BY <1>1, CreatedFinite, FS_Union DEF Names
<1>3. \A m \in found.nameservers \ {Unusable} : EntityOf(m) \in servers
  BY <1>1, NamesAreDomains
<1>4. EntityOf(domain) = <<"domain", domain>>
  BY <1>1 DEF EntityOf, NodeOf, Names
<1> HIDE DEF owners, contacts, servers
<1>5. IsFiniteSet(E)
  BY <1>2, FS_Union
<1>6. \A l \in links : l[2] \in E
  BY DEF Linked
<1>7. \A n \in servers : <<"nameserver_for", n>> \in links /\ <<"nameserver_for", n>>[2] = n
  BY DEF Linked
<1> HIDE DEF E, links
<1>8. \A m \in places \ {Unusable} :
        EntityOf(m) = <<"domain", domain>> \/ \E l \in links : l[2] = EntityOf(m)
  BY <1>3, <1>4, <1>7
<1> HIDE DEF places
<1>9. Fine(Star(<<"domain", domain>>, links), places) /\ Hangs(Star(<<"domain", domain>>, links))
  BY <1>5, <1>6, <1>8, StarFine
<1> QED
  BY <1>9 DEF WhoisPayload, links, owners, contacts, servers, places

LEMMA TlsFine ==
  ASSUME NEW domain, NEW found, Shape("osint.tls", domain, found)
  PROVE  /\ Fine(TlsPayload(domain, found),
                 {domain} \union (IF found.verified THEN found.sans ELSE {}))
         /\ Hangs(TlsPayload(domain, found))
<1> DEFINE subject == <<"domain", domain>>
           names == Created("domain", found.sans)
           issuers == Created("organization", found.issuer)
           links == IF ~found.verified THEN {}
                    ELSE Linked("secures", names \ {subject}) \union Linked("issued_by", issuers)
           E == names \union issuers
           places == {domain} \union (IF found.verified THEN found.sans ELSE {})
<1>1. Names({domain}) /\ Names(found.sans) /\ IsFiniteSet(found.issuer)
  BY DEF Shape
<1>2. IsFiniteSet(names) /\ IsFiniteSet(issuers)
  BY <1>1, CreatedFinite DEF Names
<1>3. \A m \in found.sans \ {Unusable} : EntityOf(m) \in names
  BY <1>1, NamesAreDomains
<1>4. EntityOf(domain) = subject
  BY <1>1 DEF EntityOf, NodeOf, Names
<1>5. TlsPayload(domain, found) = Star(subject, links)
  BY DEF TlsPayload
<1> HIDE DEF names, issuers, subject
<1>6. IsFiniteSet(E)
  BY <1>2, FS_Union
<1>7. \A l \in links : l[2] \in E
  BY DEF Linked
<1>8. found.verified =>
        \A n \in names \ {subject} : <<"secures", n>> \in links /\ <<"secures", n>>[2] = n
  BY DEF Linked
<1> HIDE DEF E, links
<1>9. \A m \in places \ {Unusable} : EntityOf(m) = subject \/ \E l \in links : l[2] = EntityOf(m)
  BY <1>3, <1>4, <1>8
<1> HIDE DEF places
<1>10. Fine(Star(subject, links), places) /\ Hangs(Star(subject, links))
  BY <1>6, <1>7, <1>9, StarFine
<1> QED
  BY <1>5, <1>10 DEF places

LEMMA SocialFine ==
  ASSUME NEW domain, NEW found, Shape("osint.social", domain, found)
  PROVE  /\ Fine(SocialPayload(domain, found), IF found = <<>> THEN {} ELSE {domain})
         /\ Hangs(SocialPayload(domain, found))
<1> DEFINE subject == <<"domain", domain>>
           profiles == {p \in DOMAIN found : found[p] = "exists"}
           handles == Created("social_handle", profiles)
           links == Linked("has_handle", handles)
           star == Star(subject, links)
<1>1. IsFiniteSet(profiles)
  BY FS_Subset DEF Shape
<1>2. IsFiniteSet(handles)
  BY <1>1, CreatedFinite
<1>3. SocialPayload(domain, found) = IF found = <<>> THEN [star EXCEPT !.entities = {}] ELSE star
  BY DEF SocialPayload
<1>4. /\ found = <<>> => links = {}
      /\ EntityOf(domain) = subject
  BY DEF Linked, Created, Shape, EntityOf, NodeOf, Names
<1> HIDE DEF handles, subject
<1>5. \A l \in links : l[2] \in handles
  BY DEF Linked
<1>6. CASE found # <<>>
  <2> HIDE DEF links
  <2>1. Fine(star, {domain}) /\ Hangs(star)
    BY <1>2, <1>4, <1>5, StarFine
  <2> QED
    BY <1>3, <1>6, <2>1
<1>7. CASE found = <<>>
  <2> DEFINE p == [star EXCEPT !.entities = {}]
  <2>1. p.entities = {} /\ p.edges = {}
    BY <1>4, <1>7 DEF Star
  <2> HIDE DEF p
  <2>2. Fine(p, {}) /\ Hangs(p)
    BY <2>1, FS_EmptySet DEF Fine, EdgesInside, Hangs
  <2> QED
    BY <1>3, <1>7, <2>2 DEF p
<1> QED
  BY <1>6, <1>7

LEMMA DeviceFine ==
  ASSUME NEW host, NEW found, Shape("iot", host, found)
  PROVE  /\ Fine(DevicePayload(host, found),
                 IF host \in HostAddresses THEN {host} \union found.hostnames ELSE {})
         /\ host \in HostAddresses => Hangs(DevicePayload(host, found))
<1> DEFINE device == <<"iot_device", host>>
           address == {<<"ip_address", h>> : h \in {host} \intersect HostAddresses}
           names == Created("domain", found.hostnames)
           services == {<<"network_service", <<host, s>>>> : s \in found.services}
           vendors == Created("organization", found.vendor)
           links == Linked("runs_on", address) \union Linked("manufactured_by", vendors)
                    \union Linked("exposes_service", services)
           star == Star(device, links)
           resolved == {<<n, "resolves_to", a>> : n \in names, a \in address}
           located == {<<s, "service_on", a>> : s \in services, a \in address}
           p == DevicePayload(host, found)
           E == address \union vendors \union services
           places == IF host \in HostAddresses THEN {host} \union found.hostnames ELSE {}
<1>1. /\ Names(found.hostnames) /\ IsFiniteSet(found.hostnames) /\ IsFiniteSet(found.vendor)
      /\ IsFiniteSet(found.services)
  BY DEF Shape, Names
<1>2. IsFiniteSet(names) /\ IsFiniteSet(vendors) /\ IsFiniteSet(address) /\ IsFiniteSet(services)
  <2>1. IsFiniteSet(names) /\ IsFiniteSet(vendors)
    BY <1>1, CreatedFinite
  <2>2. address \subseteq {<<"ip_address", host>>}
    OBVIOUS
  <2>3. IsFiniteSet(address)
    BY <2>2, FS_Singleton, FS_Subset
  <2>4. services \subseteq {"network_service"} \X ({host} \X found.services)
    OBVIOUS
  <2>5. IsFiniteSet({"network_service"} \X ({host} \X found.services))
    BY <1>1, FS_Singleton, FS_Product
  <2> QED
    BY <2>1, <2>3, <2>4, <2>5, FS_Subset
<1>3. /\ p.subject = star.subject /\ p.entities = star.entities \union names
      /\ p.edges = star.edges \union resolved \union located
  BY DEF DevicePayload, Star
<1>4. /\ \A n \in names \union services : n \notin address
      /\ \A a \in address : a = <<"ip_address", host>> /\ a # device
      /\ host \in HostAddresses => address = {<<"ip_address", host>>}
      /\ host \in HostAddresses => EntityOf(host) \in address
  BY CollectionAssumption DEF Created, EntityOf, NodeOf
<1>15. \A m \in found.hostnames \ {Unusable} : EntityOf(m) \in names
  BY <1>1, NamesAreDomains
<1> HIDE DEF device, address, names, services, vendors, p, E
<1>5. IsFiniteSet(E)
  BY <1>2, FS_Union DEF E
<1>6. \A l \in links : l[2] \in E
  BY DEF Linked, E
<1>7. /\ \A n \in address : <<"runs_on", n>> \in links /\ <<"runs_on", n>>[2] = n
      /\ \A n \in services : <<"exposes_service", n>> \in links /\ <<"exposes_service", n>>[2] = n
  BY DEF Linked
<1> HIDE DEF links
<1>8. /\ star.subject = device /\ star.entities = {device} \union {l[2] : l \in links}
      /\ EdgesInside(star) /\ Hangs(star) /\ IsFiniteSet(star.entities)
  BY <1>5, <1>6, StarHangs, StarFinite
<1>9. address \subseteq star.entities /\ services \subseteq star.entities
  BY <1>7, <1>8
<1> HIDE DEF star
<1>10. /\ \A e \in resolved : e[1] \in names /\ e[3] \in address
       /\ \A e \in located : e[1] \in services /\ e[3] \in address
       /\ \A n \in names, a \in address : \E e \in resolved : e[1] = n /\ e[3] = a
  <2>1. \A n \in names, a \in address :
          /\ <<n, "resolves_to", a>> \in resolved
          /\ <<n, "resolves_to", a>>[1] = n /\ <<n, "resolves_to", a>>[3] = a
    OBVIOUS
  <2>2. ASSUME NEW e \in resolved PROVE e[1] \in names /\ e[3] \in address
    <3>1. PICK n \in names, a \in address : e = <<n, "resolves_to", a>>
      BY <2>2
    <3> QED
      BY <3>1
  <2>3. ASSUME NEW e \in located PROVE e[1] \in services /\ e[3] \in address
    <3>1. PICK n \in services, a \in address : e = <<n, "service_on", a>>
      BY <2>3
    <3> QED
      BY <3>1
  <2> HIDE DEF resolved, located
  <2>4. \A n \in names, a \in address : \E e \in resolved : e[1] = n /\ e[3] = a
    BY <2>1
  <2> QED
    BY <2>2, <2>3, <2>4
<1> HIDE DEF resolved, located
<1>11. EdgesInside(p)
  <2> SUFFICES ASSUME NEW e \in p.edges
               PROVE  e[1] \in p.entities /\ e[3] \in p.entities /\ e[1] # e[3]
    BY DEF EdgesInside
  <2>1. CASE e \in star.edges
    BY <1>3, <1>8, <2>1 DEF EdgesInside
  <2>2. CASE e \in resolved \union located
    <3>1. e[1] \in names \union services /\ e[3] \in address
      BY <1>10, <2>2
    <3> QED
      BY <1>3, <1>4, <1>9, <3>1
  <2>3. p.edges = star.edges \union resolved \union located
    BY <1>3
  <2>4. e \in star.edges \/ e \in resolved \union located
    BY <2>3
  <2> QED
    BY <2>1, <2>2, <2>4
<1>12. IsFiniteSet(p.entities)
  <2>1. IsFiniteSet(star.entities \union names)
    BY <1>2, <1>8, FS_Union
  <2> QED
    BY <1>3, <2>1
<1>13. Fine(p, places)
  BY <1>3, <1>4, <1>8, <1>9, <1>11, <1>12, <1>15 DEF Fine
<1>14. ASSUME host \in HostAddresses PROVE Hangs(p)
  <2> SUFFICES ASSUME NEW C, Uncut(p.edges, C), NEW n \in p.entities
               PROVE  n \in C <=> device \in C
    BY <1>3, <1>8 DEF Hangs
  <2>1. Uncut(star.edges, C) /\ Uncut(resolved, C)
    BY <1>3 DEF Uncut
  <2>2. \A x \in star.entities : x \in C <=> device \in C
    BY <1>8, <2>1 DEF Hangs
  <2>3. PICK a : a \in address
    BY <1>4, <1>14
  <2>4. CASE n \in names
    <3>1. PICK e \in resolved : e[1] = n /\ e[3] = a
      BY <1>10, <2>3, <2>4
    <3>2. n \in C <=> a \in C
      BY <2>1, <3>1 DEF Uncut
    <3> QED
      BY <1>9, <2>2, <2>3, <3>2
  <2> QED
    BY <1>3, <2>2, <2>4
<1> QED
  BY <1>13, <1>14 DEF p

LEMMA VerdictFine ==
  ASSUME NEW indicator
  PROVE  Fine(VerdictPayload(indicator), {indicator}) /\ Hangs(VerdictPayload(indicator))
<1>1. IsFiniteSet({})
  BY FS_EmptySet
<1> QED
  BY <1>1, StarFine DEF VerdictPayload

\* The URL before the i-th hop of a chain, and after it.
LEMMA PreviousSteps ==
  ASSUME NEW S, NEW url \in S, NEW chain \in Seq(S)
  PROVE  /\ Previous(url, chain) \in [0..Len(chain) -> S]
         /\ Previous(url, chain)[0] = url
         /\ \A i \in 1..Len(chain) :
              Previous(url, chain)[i] = IF chain[i] = Unusable THEN Previous(url, chain)[i - 1]
                                        ELSE chain[i]
<1> DEFINE F == [hop \in S |-> [before \in S |-> IF hop = Unusable THEN before ELSE hop]]
<1>1. IsStep(F, S, S)
  BY DEF IsStep
<1>2. \A hop, before \in S : F[hop][before] = IF hop = Unusable THEN before ELSE hop
  OBVIOUS
<1> HIDE DEF F
<1>3. \E g : RunsAlong(g, F, S, url, chain)
  BY <1>1, RunExists
<1>4. PICK g \in [0..Len(chain) -> S] :
        g[0] = url /\ \A i \in 1..Len(chain) : g[i] = F[chain[i]][g[i - 1]]
  BY <1>3, Zenon DEF RunsAlong
<1> DEFINE Unfolds(h) == h = [i \in 0..Len(chain) |->
                                IF i = 0 THEN url
                                ELSE IF chain[i] = Unusable THEN h[i - 1] ELSE chain[i]]
           passing == CHOOSE h : Unfolds(h)
<1>5. Unfolds(g)
  <2>1. ASSUME NEW i \in 0..Len(chain)
        PROVE  g[i] = IF i = 0 THEN url
                      ELSE IF chain[i] = Unusable THEN g[i - 1] ELSE chain[i]
    <3>1. CASE i = 0
      BY <1>4, <3>1
    <3>2. CASE i # 0
      <4>1. i \in 1..Len(chain) /\ chain[i] \in S /\ g[i - 1] \in S
        BY <1>4, <3>2
      <4> QED
        BY <1>2, <1>4, <3>2, <4>1
    <3> QED
      BY <3>1, <3>2
  <2> QED
    BY <1>4, <2>1, Zenon
<1>6. Unfolds(passing)
  BY <1>5, Zenon
<1>7. Previous(url, chain) = passing
  BY DEF Previous
<1> HIDE DEF passing
<1>8. \A i \in 0..Len(chain) :
        passing[i] = IF i = 0 THEN url ELSE IF chain[i] = Unusable THEN passing[i - 1] ELSE chain[i]
  BY <1>6, Zenon
<1>9. passing[0] = url
  BY <1>8
<1>10. \A i \in 1..Len(chain) :
         passing[i] = IF chain[i] = Unusable THEN passing[i - 1] ELSE chain[i]
  BY <1>8
<1> DEFINE T == {i \in Nat : i <= Len(chain) => passing[i] \in S}
<1>11. 0 \in T
  BY <1>9
<1>12. ASSUME NEW i \in Nat, i \in T PROVE i + 1 \in T
  <2> SUFFICES ASSUME i + 1 <= Len(chain) PROVE passing[i + 1] \in S
    OBVIOUS
  <2>1. i + 1 \in 1..Len(chain) /\ (i + 1) - 1 = i /\ passing[i] \in S /\ chain[i + 1] \in S
    BY <1>12
  <2> QED
    BY <1>10, <2>1
<1> HIDE DEF T
<1>13. \A i \in Nat : i \in T
  BY <1>11, <1>12, NaturalInduction
<1>14. passing \in [0..Len(chain) -> S]
  <2>1. \A i \in 0..Len(chain) : passing[i] \in S
    BY <1>13 DEF T
  <2>2. passing = [i \in 0..Len(chain) |-> passing[i]]
    BY <1>6, Zenon
  <2> QED
    BY <2>1, <2>2
<1> QED
  BY <1>7, <1>9, <1>10, <1>14

LEMMA UrlFine ==
  ASSUME NEW url, NEW found, Shape("threat.url_score", url, found)
  PROVE  /\ Fine(UrlPayload(url, found),
                 LET urls == ({url} \union Hops(found)) \ {Unusable} IN
                 urls \union {ServedFrom[u] : u \in urls} \union found.contacted)
         /\ Hangs(UrlPayload(url, found))
<1> DEFINE p == UrlPayload(url, found)
           chain == found.chain
           root == <<"url", url>>
           host == NodeOf(ServedFrom[url])
           contacts == Created("domain", found.contacted)
           files == Created("file_hash", found.files)
           links == Linked("served_by", {host}) \union Linked("contacts", contacts)
                    \union Linked("references_file", files)
           star == Star(root, links)
           passing == Previous(url, chain)
           moves == {i \in 1..Len(chain) : passing[i] # passing[i - 1]}
           hops == {passing[i] : i \in moves}
           passed == UNION {{<<"url", u>>, NodeOf(ServedFrom[u])} : u \in hops}
           redirects == {<<<<"url", passing[i - 1]>>, "redirects_to", <<"url", passing[i]>>>> : i \in moves}
           serves == {<<<<"url", u>>, "served_by", NodeOf(ServedFrom[u])>> : u \in hops}
           E == {host} \union contacts \union files
           urls == ({url} \union Hops(found)) \ {Unusable}
<1>1. /\ Names(found.contacted) /\ IsFiniteSet(found.files)
      /\ chain \in Seq(DOMAIN ServedFrom \union {Unusable})
      /\ url \in DOMAIN ServedFrom /\ Len(chain) \in Nat
  BY DEF Shape
<1>2. /\ p.subject = star.subject /\ p.entities = star.entities \union passed
      /\ p.edges = star.edges \union redirects \union serves
  BY DEF UrlPayload, Star
<1>3. /\ \A i \in 0..Len(chain) : i \in DOMAIN passing
      /\ DOMAIN passing = 0..Len(chain) /\ passing[0] = url
      /\ \A i \in 1..Len(chain) : chain[i] # Unusable => passing[i] = chain[i]
  <2> DEFINE S == DOMAIN ServedFrom \union {Unusable}
  <2>1. url \in S /\ chain \in Seq(S)
    BY <1>1
  <2> HIDE DEF S, passing
  <2>2. /\ Previous(url, chain) \in [0..Len(chain) -> S]
        /\ Previous(url, chain)[0] = url
        /\ \A i \in 1..Len(chain) :
             Previous(url, chain)[i] = IF chain[i] = Unusable THEN Previous(url, chain)[i - 1]
                                       ELSE chain[i]
    BY <2>1, PreviousSteps
  <2>3. /\ passing \in [0..Len(chain) -> S] /\ passing[0] = url
        /\ \A i \in 1..Len(chain) :
             passing[i] = IF chain[i] = Unusable THEN passing[i - 1] ELSE chain[i]
    BY <2>2 DEF passing
  <2> QED
    BY <2>3
<1>4. /\ \A u : NodeOf(ServedFrom[u]) \in {"ip_address", "domain"} \X {ServedFrom[u]}
      /\ \A u, v : NodeOf(ServedFrom[u]) # <<"url", v>>
  BY DEF NodeOf
<1>5. \A m \in found.contacted \ {Unusable} : EntityOf(m) \in contacts
  BY <1>1, NamesAreDomains
<1>6. IsFiniteSet(contacts) /\ IsFiniteSet(files)
  BY <1>1, CreatedFinite DEF Names
<1>7. Hops(found) = {chain[i] : i \in 1..Len(chain)}
  BY <1>1 DEF Hops
<1>30. \A u \in urls : EntityOf(u) = <<"url", u>>
                       /\ EntityOf(ServedFrom[u]) = NodeOf(ServedFrom[u])
  <2> SUFFICES ASSUME NEW u \in urls
               PROVE  EntityOf(u) = <<"url", u>> /\ EntityOf(ServedFrom[u]) = NodeOf(ServedFrom[u])
    OBVIOUS
  <2>1. u \in DOMAIN ServedFrom
    BY <1>1, <1>7
  <2> QED
    BY <2>1, CollectionAssumption DEF EntityOf
<1> HIDE DEF p, passing, contacts, files, host
<1>8. IsFiniteSet(E)
  BY <1>6, FS_Union, FS_Singleton
<1>9. \A l \in links : l[2] \in E
  BY DEF Linked
<1>10. /\ <<"served_by", host>> \in links /\ <<"served_by", host>>[2] = host
       /\ \A n \in contacts : <<"contacts", n>> \in links /\ <<"contacts", n>>[2] = n
  BY DEF Linked
<1> HIDE DEF E, links
<1>11. /\ star.subject = root /\ star.entities = {root} \union {l[2] : l \in links}
       /\ EdgesInside(star) /\ Hangs(star) /\ IsFiniteSet(star.entities)
  BY <1>8, <1>9, StarHangs, StarFinite
<1>12. host \in star.entities /\ contacts \subseteq star.entities /\ root \in star.entities
  BY <1>10, <1>11
<1> HIDE DEF star
\* Every URL on the way is the root or one of the hops.
<1> DEFINE T == {i \in Nat : i <= Len(chain) => passing[i] = url \/ passing[i] \in hops}
<1>13. 0 \in T
  BY <1>3
<1>14. ASSUME NEW i \in Nat, i \in T PROVE i + 1 \in T
  <2> SUFFICES ASSUME i + 1 <= Len(chain) PROVE passing[i + 1] = url \/ passing[i + 1] \in hops
    OBVIOUS
  <2>1. i + 1 \in 1..Len(chain) /\ (i + 1) - 1 = i /\ (passing[i] = url \/ passing[i] \in hops)
    BY <1>1, <1>14
  <2>2. CASE passing[i + 1] = passing[i]
    BY <2>1, <2>2
  <2>3. CASE passing[i + 1] # passing[i]
    BY <2>1, <2>3
  <2> QED
    BY <2>2, <2>3
<1> HIDE DEF T
<1>15. \A i \in Nat : i \in T
  BY <1>13, <1>14, NaturalInduction
<1>16. \A i \in 0..Len(chain) : passing[i] = url \/ passing[i] \in hops
  BY <1>15 DEF T
<1>17. \A i \in moves : i \in 1..Len(chain) /\ passing[i] # passing[i - 1] /\ passing[i] \in hops
                        /\ i - 1 \in 0..Len(chain)
  BY <1>1
<1>18. \A u \in hops : \E i \in moves : u = passing[i]
  OBVIOUS
<1>19. /\ \A u \in hops : <<"url", u>> \in passed /\ NodeOf(ServedFrom[u]) \in passed
       /\ \A n \in passed : \E u \in hops : n = <<"url", u>> \/ n = NodeOf(ServedFrom[u])
  <2> HIDE DEF hops
  <2>1. ASSUME NEW u \in hops PROVE <<"url", u>> \in passed /\ NodeOf(ServedFrom[u]) \in passed
    <3>1. {<<"url", u>>, NodeOf(ServedFrom[u])} \in {{<<"url", v>>, NodeOf(ServedFrom[v])} : v \in hops}
      OBVIOUS
    <3> QED
      BY <3>1
  <2>2. ASSUME NEW n \in passed
        PROVE  \E u \in hops : n = <<"url", u>> \/ n = NodeOf(ServedFrom[u])
    <3>1. PICK pair \in {{<<"url", v>>, NodeOf(ServedFrom[v])} : v \in hops} : n \in pair
      BY <2>2
    <3>2. PICK u \in hops : pair = {<<"url", u>>, NodeOf(ServedFrom[u])}
      OBVIOUS
    <3> QED
      BY <3>1, <3>2
  <2> QED
    BY <2>1, <2>2
<1>20. /\ \A e \in redirects : \E i \in moves :
            e[1] = <<"url", passing[i - 1]>> /\ e[3] = <<"url", passing[i]>>
       /\ \A i \in moves : \E e \in redirects :
            e[1] = <<"url", passing[i - 1]>> /\ e[3] = <<"url", passing[i]>>
  <2>1. ASSUME NEW e \in redirects
        PROVE  \E i \in moves : e[1] = <<"url", passing[i - 1]>> /\ e[3] = <<"url", passing[i]>>
    <3>1. PICK i \in moves : e = <<<<"url", passing[i - 1]>>, "redirects_to", <<"url", passing[i]>>>>
      OBVIOUS
    <3> QED
      BY <3>1
  <2>2. ASSUME NEW i \in moves
        PROVE  \E e \in redirects : e[1] = <<"url", passing[i - 1]>> /\ e[3] = <<"url", passing[i]>>
    <3> DEFINE e == <<<<"url", passing[i - 1]>>, "redirects_to", <<"url", passing[i]>>>>
    <3>1. e \in redirects /\ e[1] = <<"url", passing[i - 1]>> /\ e[3] = <<"url", passing[i]>>
      OBVIOUS
    <3> QED
      BY <3>1
  <2> QED
    BY <2>1, <2>2
<1>21. /\ \A e \in serves : \E u \in hops : e[1] = <<"url", u>> /\ e[3] = NodeOf(ServedFrom[u])
       /\ \A u \in hops : \E e \in serves : e[1] = <<"url", u>> /\ e[3] = NodeOf(ServedFrom[u])
  <2>1. ASSUME NEW e \in serves
        PROVE  \E u \in hops : e[1] = <<"url", u>> /\ e[3] = NodeOf(ServedFrom[u])
    <3>1. PICK u \in hops : e = <<<<"url", u>>, "served_by", NodeOf(ServedFrom[u])>>
      OBVIOUS
    <3> QED
      BY <3>1
  <2>2. ASSUME NEW u \in hops
        PROVE  \E e \in serves : e[1] = <<"url", u>> /\ e[3] = NodeOf(ServedFrom[u])
    <3> DEFINE e == <<<<"url", u>>, "served_by", NodeOf(ServedFrom[u])>>
    <3>1. e \in serves /\ e[1] = <<"url", u>> /\ e[3] = NodeOf(ServedFrom[u])
      OBVIOUS
    <3> QED
      BY <3>1
  <2> QED
    BY <2>1, <2>2
<1>22. IsFiniteSet(passed)
  <2>1. IsFiniteSet({passing[x] : x \in DOMAIN passing})
    <3>1. IsFiniteSet(DOMAIN passing)
      <4>1. 0 \in Int /\ Len(chain) \in Int
        BY <1>1
      <4>2. IsFiniteSet(0..Len(chain))
        BY <4>1, FS_Interval
      <4> QED
        BY <1>3, <4>2
    <3> QED
      BY <3>1, ImageFinite
  <2>2. hops \subseteq {passing[x] : x \in DOMAIN passing}
    <3> SUFFICES ASSUME NEW u \in hops PROVE u \in {passing[x] : x \in DOMAIN passing}
      OBVIOUS
    <3>1. PICK i \in moves : u = passing[i]
      BY <1>18
    <3>2. i \in DOMAIN passing
      BY <1>1, <1>3, <1>17
    <3> QED
      BY <3>1, <3>2
  <2>3. IsFiniteSet(hops)
    BY <2>1, <2>2, FS_Subset
  <2> HIDE DEF hops
  <2> DEFINE where == [u \in hops |-> ServedFrom[u]]
             hosts == {where[u] : u \in DOMAIN where}
  <2>4. IsFiniteSet(hosts)
    <3>1. IsFiniteSet(DOMAIN where)
      BY <2>3
    <3> HIDE DEF where
    <3> QED
      BY <3>1, ImageFinite
  <2>5. \A u \in hops : ServedFrom[u] \in hosts
    OBVIOUS
  <2> HIDE DEF hosts
  <2>6. passed \subseteq ({"url"} \X hops) \union ({"ip_address", "domain"} \X hosts)
    BY <1>4, <1>19, <2>5
  <2>7. IsFiniteSet({"url"} \X hops) /\ IsFiniteSet({"ip_address", "domain"} \X hosts)
    <3>1. IsFiniteSet({"ip_address"} \union {"domain"}) /\ IsFiniteSet({"url"})
      BY FS_Singleton, FS_Union
    <3>2. {"ip_address"} \union {"domain"} = {"ip_address", "domain"}
      OBVIOUS
    <3> QED
      BY <2>3, <2>4, <3>1, <3>2, FS_Product
  <2>8. IsFiniteSet(({"url"} \X hops) \union ({"ip_address", "domain"} \X hosts))
    BY <2>7, FS_Union
  <2> QED
    BY <2>6, <2>8, FS_Subset
<1> HIDE DEF moves, hops, passed, redirects, serves
<1>23. \A i \in 0..Len(chain) : <<"url", passing[i]>> \in p.entities
  BY <1>2, <1>12, <1>16, <1>19
<1>24. EdgesInside(p)
  <2> SUFFICES ASSUME NEW e \in p.edges
               PROVE  e[1] \in p.entities /\ e[3] \in p.entities /\ e[1] # e[3]
    BY DEF EdgesInside
  <2>1. CASE e \in star.edges
    BY <1>2, <1>11, <2>1 DEF EdgesInside
  <2>2. CASE e \in redirects
    <3>1. PICK i \in moves : e[1] = <<"url", passing[i - 1]>> /\ e[3] = <<"url", passing[i]>>
      BY <1>20, <2>2
    <3>2. i \in 0..Len(chain) /\ i - 1 \in 0..Len(chain) /\ passing[i] # passing[i - 1]
      BY <1>1, <1>17
    <3>3. <<"url", passing[i - 1]>> # <<"url", passing[i]>>
      BY <3>2
    <3> QED
      BY <1>23, <3>1, <3>2, <3>3
  <2>3. CASE e \in serves
    <3>1. PICK u \in hops : e[1] = <<"url", u>> /\ e[3] = NodeOf(ServedFrom[u])
      BY <1>21, <2>3
    <3> QED
      BY <1>2, <1>4, <1>19, <3>1
  <2>4. e \in star.edges \/ e \in redirects \/ e \in serves
    BY <1>2
  <2> QED
    BY <2>1, <2>2, <2>3, <2>4
<1>25. Hangs(p)
  <2> SUFFICES ASSUME NEW C, Uncut(p.edges, C), NEW n \in p.entities
               PROVE  n \in C <=> root \in C
    BY <1>2, <1>11 DEF Hangs
  <2>1. Uncut(star.edges, C) /\ Uncut(redirects, C) /\ Uncut(serves, C)
    BY <1>2 DEF Uncut
  <2>2. \A x \in star.entities : x \in C <=> root \in C
    BY <1>11, <2>1 DEF Hangs
  <2> DEFINE U == {i \in Nat : i <= Len(chain) => (<<"url", passing[i]>> \in C <=> root \in C)}
  <2>3. 0 \in U
    BY <1>3
  <2>4. ASSUME NEW i \in Nat, i \in U PROVE i + 1 \in U
    <3> SUFFICES ASSUME i + 1 <= Len(chain)
                 PROVE  <<"url", passing[i + 1]>> \in C <=> root \in C
      OBVIOUS
    <3>1. /\ i + 1 \in 1..Len(chain) /\ (i + 1) - 1 = i
          /\ <<"url", passing[i]>> \in C <=> root \in C
      BY <1>1, <2>4
    <3>2. CASE passing[i + 1] = passing[i]
      BY <3>1, <3>2
    <3>3. CASE passing[i + 1] # passing[i]
      <4>1. i + 1 \in moves
        BY <3>1, <3>3 DEF moves
      <4>2. PICK e \in redirects : e[1] = <<"url", passing[(i + 1) - 1]>>
                                   /\ e[3] = <<"url", passing[i + 1]>>
        BY <1>20, <4>1
      <4> QED
        BY <2>1, <3>1, <4>2 DEF Uncut
    <3> QED
      BY <3>2, <3>3
  <2> HIDE DEF U
  <2>5. \A i \in Nat : i \in U
    BY <2>3, <2>4, NaturalInduction
  <2>6. \A i \in 0..Len(chain) : <<"url", passing[i]>> \in C <=> root \in C
    BY <2>5 DEF U
  <2>7. ASSUME NEW u \in hops PROVE <<"url", u>> \in C <=> root \in C
    <3>1. PICK i \in moves : u = passing[i]
      BY <1>18
    <3>2. i \in 0..Len(chain)
      BY <1>1, <1>17
    <3> QED
      BY <2>6, <3>1, <3>2
  <2>8. ASSUME NEW u \in hops PROVE NodeOf(ServedFrom[u]) \in C <=> <<"url", u>> \in C
    <3>1. PICK e \in serves : e[1] = <<"url", u>> /\ e[3] = NodeOf(ServedFrom[u])
      BY <1>21
    <3> QED
      BY <2>1, <3>1 DEF Uncut
  <2>9. CASE n \in star.entities
    BY <2>2, <2>9
  <2>10. CASE n \in passed
    <3>1. PICK u \in hops : n = <<"url", u>> \/ n = NodeOf(ServedFrom[u])
      BY <1>19, <2>10
    <3> QED
      BY <2>7, <2>8, <3>1
  <2> QED
    BY <1>2, <2>9, <2>10
<1>26. IsFiniteSet(p.entities)
  <2>1. IsFiniteSet(star.entities \union passed)
    BY <1>11, <1>22, FS_Union
  <2> QED
    BY <1>2, <2>1
<1>27. ASSUME NEW u \in ({url} \union Hops(found)) \ {Unusable}
       PROVE  EntityOf(u) \in p.entities /\ EntityOf(ServedFrom[u]) \in p.entities
  <2>1. u = url \/ u \in hops
    <3>1. CASE u # url
      <4>1. PICK i \in 1..Len(chain) : u = chain[i]
        BY <1>7, <1>27, <3>1
      <4>2. passing[i] = u /\ i \in 0..Len(chain)
        BY <1>1, <1>3, <1>27, <4>1
      <4> QED
        BY <1>16, <4>2
    <3> QED
      BY <3>1
  <2>2. host = NodeOf(ServedFrom[url])
    BY DEF host
  <2>3. <<"url", u>> \in p.entities /\ NodeOf(ServedFrom[u]) \in p.entities
    BY <1>2, <1>12, <1>19, <2>1, <2>2
  <2>4. u \in urls
    BY <1>27
  <2> QED
    BY <1>30, <2>3, <2>4
<1>28. \A m \in found.contacted \ {Unusable} : EntityOf(m) \in p.entities
  BY <1>2, <1>5, <1>12
<1>29. Fine(p, urls \union {ServedFrom[u] : u \in urls} \union found.contacted)
  <2>1. \A m \in (urls \union {ServedFrom[u] : u \in urls} \union found.contacted) \ {Unusable} :
          EntityOf(m) \in p.entities
    BY <1>27, <1>28
  <2> QED
    BY <1>2, <1>11, <1>24, <1>26, <2>1 DEF Fine
<1> QED
  BY <1>25, <1>29 DEF p

LEMMA PayloadFine ==
  ASSUME NEW f \in Obtained
  PROVE  /\ Fine(PayloadOf(f), IF NamedDevice(f) THEN {} ELSE Mentions(f))
         /\ NamedDevice(f) \/ Hangs(PayloadOf(f))
<1> DEFINE target == f.target
           found == f.found
<1>1. Shape(f.tool, target, found)
  BY CollectionAssumption
<1>10. f.tool # "iot" => ~NamedDevice(f)
  BY DEF NamedDevice
<1>2. f.tool \in {"osint.dns", "osint.whois", "osint.tls", "osint.social", "iot",
                  "threat.url_score", "threat.lookup"}
  BY <1>1 DEF Shape
<1> HIDE DEF target, found
<1>3. CASE f.tool = "osint.dns"
  <2>1. /\ PayloadOf(f) = DnsPayload(target, found)
        /\ Mentions(f) = {target} \union UNION {Answers(found, type) : type \in {"A", "MX", "NS", "CNAME"}}
    BY <1>3 DEF PayloadOf, Mentions, target, found
  <2>2. Shape("osint.dns", target, found)
    BY <1>1, <1>3
  <2> QED
    BY <1>10, <2>1, <2>2, <1>3, DnsFine
<1>4. CASE f.tool = "osint.whois"
  <2>1. /\ PayloadOf(f) = WhoisPayload(target, found)
        /\ Mentions(f) = {target} \union found.nameservers
    BY <1>4 DEF PayloadOf, Mentions, target, found
  <2>2. Shape("osint.whois", target, found)
    BY <1>1, <1>4
  <2> QED
    BY <1>10, <2>1, <2>2, <1>4, WhoisFine
<1>5. CASE f.tool = "osint.tls"
  <2>1. /\ PayloadOf(f) = TlsPayload(target, found)
        /\ Mentions(f) = {target} \union (IF found.verified THEN found.sans ELSE {})
    BY <1>5 DEF PayloadOf, Mentions, target, found
  <2>2. Shape("osint.tls", target, found)
    BY <1>1, <1>5
  <2> QED
    BY <1>10, <2>1, <2>2, <1>5, TlsFine
<1>6. CASE f.tool = "osint.social"
  <2>1. /\ PayloadOf(f) = SocialPayload(target, found)
        /\ Mentions(f) = IF found = <<>> THEN {} ELSE {target}
    BY <1>6 DEF PayloadOf, Mentions, target, found
  <2>2. Shape("osint.social", target, found)
    BY <1>1, <1>6
  <2> QED
    BY <1>6, <1>10, <2>1, <2>2, SocialFine
<1>7. CASE f.tool = "iot"
  <2>1. /\ PayloadOf(f) = DevicePayload(target, found)
        /\ Mentions(f) = {target} \union found.hostnames
        /\ NamedDevice(f) <=> target \notin HostAddresses
    BY <1>7 DEF PayloadOf, Mentions, NamedDevice, target, found
  <2>2. Shape("iot", target, found)
    BY <1>1, <1>7
  <2>3. /\ Fine(DevicePayload(target, found),
                IF target \in HostAddresses THEN {target} \union found.hostnames ELSE {})
        /\ target \in HostAddresses => Hangs(DevicePayload(target, found))
    BY <2>2, DeviceFine
  <2> QED
    BY <2>1, <2>3
<1>8. CASE f.tool = "threat.url_score"
  <2>1. /\ PayloadOf(f) = UrlPayload(target, found)
        /\ Mentions(f) = LET urls == ({target} \union Hops(found)) \ {Unusable} IN
                         urls \union {ServedFrom[u] : u \in urls} \union found.contacted
    BY <1>8 DEF PayloadOf, Mentions, target, found
  <2>2. Shape("threat.url_score", target, found)
    BY <1>1, <1>8
  <2> QED
    BY <1>8, <1>10, <2>1, <2>2, UrlFine
<1>9. CASE f.tool = "threat.lookup"
  <2>1. PayloadOf(f) = VerdictPayload(target) /\ Mentions(f) = {target}
    BY <1>9 DEF PayloadOf, Mentions, target, found
  <2> QED
    BY <1>9, <1>10, <2>1, VerdictFine
<1> QED
  BY <1>2, <1>3, <1>4, <1>5, <1>6, <1>7, <1>8, <1>9

\* Only finitely many findings are gathered: each of them one of those there are.
GatheredOK == gathered \subseteq Obtained /\ IsFiniteSet(gathered)

LEMMA GraphHolds ==
  ASSUME GatheredOK
  PROVE  /\ Graph = [nodes |-> Graph.nodes, edges |-> Graph.edges]
         /\ IsFiniteSet(Graph.nodes)
         /\ \A e \in Graph.edges : e[1] \in Graph.nodes /\ e[3] \in Graph.nodes
         /\ \A f \in gathered : /\ PayloadOf(f).entities \subseteq Graph.nodes
                                /\ PayloadOf(f).edges \subseteq Graph.edges
<1> DEFINE N == Graph.nodes
           payloads == {PayloadOf(f) : f \in gathered}
<1>1. /\ Graph = [nodes |-> Graph.nodes, edges |-> Graph.edges]
      /\ N = UNION {p.entities : p \in payloads}
      /\ Graph.edges = {e \in UNION {p.edges : p \in payloads} : e[1] \in N /\ e[3] \in N}
  BY DEF Graph
<1> DEFINE brought == [f \in gathered |-> PayloadOf(f).entities]
           all == {brought[f] : f \in DOMAIN brought}
<1>2. IsFiniteSet(all)
  <2>1. IsFiniteSet(DOMAIN brought)
    BY DEF GatheredOK
  <2> HIDE DEF brought
  <2> QED
    BY <2>1, ImageFinite
<1>3. \A T \in all : IsFiniteSet(T)
  <2>1. \A f \in gathered : IsFiniteSet(PayloadOf(f).entities)
    BY PayloadFine DEF GatheredOK, Fine
  <2> QED
    BY <2>1
<1>4. UNION all = UNION {p.entities : p \in payloads}
  BY Zenon
<1> HIDE DEF all
<1>5. IsFiniteSet(N)
  BY <1>1, <1>2, <1>3, <1>4, FS_UNION
<1>6. \A p \in payloads : p.entities \subseteq N
  BY <1>1
<1>7. \A p \in payloads : \A e \in p.edges : e[1] \in p.entities /\ e[3] \in p.entities
  BY PayloadFine DEF GatheredOK, Fine, EdgesInside
<1> HIDE DEF N
<1>8. \A p \in payloads : p.edges \subseteq Graph.edges
  <2> TAKE p \in payloads
  <2>1. p.edges \subseteq UNION {q.edges : q \in payloads}
    OBVIOUS
  <2> HIDE DEF payloads
  <2> QED
    BY <1>1, <1>6, <1>7, <2>1
<1> QED
  BY <1>1, <1>5, <1>6, <1>8 DEF N

LEMMA GatheredJoin == GatheredOK => PayloadsJoin
<1> SUFFICES ASSUME GatheredOK PROVE PayloadsJoin
  OBVIOUS
<1>1. ASSUME NEW f \in gathered
      PROVE  LET p == PayloadOf(f) IN
             /\ \A e \in p.edges : {e[1], e[3]} \subseteq p.entities /\ e[1] # e[3]
             /\ \/ p.entities = {}
                \/ NamedDevice(f)
                \/ p.entities \subseteq Reached([nodes |-> p.entities, edges |-> p.edges], p.subject)
  <2> DEFINE p == PayloadOf(f)
             R == Reached([nodes |-> p.entities, edges |-> p.edges], p.subject)
  <2>1. /\ Fine(p, IF NamedDevice(f) THEN {} ELSE Mentions(f))
        /\ NamedDevice(f) \/ Hangs(p)
    BY PayloadFine DEF GatheredOK
  <2> HIDE DEF p
  <2>2. \A e \in p.edges : e[1] \in p.entities /\ e[3] \in p.entities /\ e[1] # e[3]
    BY <2>1 DEF Fine, EdgesInside
  <2>3. ASSUME p.entities # {}, Hangs(p) PROVE p.entities \subseteq R
    <3>1. IsFiniteSet(p.entities) /\ p.subject \in p.entities
      BY <2>1, <2>3 DEF Fine
    <3>2. p.subject \in R /\ Uncut(p.edges, R)
      BY <2>2, <3>1, ReachedUncut
    <3> QED
      BY <2>3, <3>2 DEF Hangs
  <2> QED
    BY <2>1, <2>2, <2>3 DEF p
<1>2. ASSUME NEW f \in gathered, NEW g \in gathered, ~NamedDevice(f), ~NamedDevice(g),
             (Mentions(f) \intersect Mentions(g)) \ {Unusable} # {}
      PROVE  PayloadOf(g).subject \in Reached(Graph, PayloadOf(f).subject)
  <2> DEFINE p == PayloadOf(f)
             q == PayloadOf(g)
             nodes == Graph.nodes
             edges == Graph.edges
             R == Reached(Graph, p.subject)
  <2>1. PICK m : m \in Mentions(f) /\ m \in Mentions(g) /\ m # Unusable
    BY <1>2
  <2>3. Fine(p, Mentions(f)) /\ Hangs(p) /\ Fine(q, Mentions(g)) /\ Hangs(q)
    BY <1>2, PayloadFine DEF GatheredOK
  <2>4. /\ Graph = [nodes |-> nodes, edges |-> edges] /\ IsFiniteSet(nodes)
        /\ \A e \in edges : e[1] \in nodes /\ e[3] \in nodes
        /\ p.entities \subseteq nodes /\ p.edges \subseteq edges /\ q.edges \subseteq edges
    BY GraphHolds
  <2> HIDE DEF p, q, nodes, edges
  <2>5. /\ EntityOf(m) \in p.entities /\ EntityOf(m) \in q.entities /\ p.subject \in p.entities
    BY <2>1, <2>3 DEF Fine
  <2>6. p.subject \in R /\ Uncut(edges, R)
    <3>1. p.subject \in nodes
      BY <2>4, <2>5
    <3> DEFINE G == [nodes |-> nodes, edges |-> edges]
    <3>2. p.subject \in Reached(G, p.subject) /\ Uncut(edges, Reached(G, p.subject))
      BY <2>4, <3>1, ReachedUncut
    <3> QED
      BY <2>4, <3>2
  <2> HIDE DEF R
  <2>7. Uncut(p.edges, R) /\ Uncut(q.edges, R)
    BY <2>4, <2>6 DEF Uncut
  <2>8. EntityOf(m) \in R
    BY <2>3, <2>5, <2>6, <2>7 DEF Hangs
  <2> QED
    BY <2>3, <2>5, <2>7, <2>8 DEF Hangs, R, p, q
<1>3. \A f, g \in {h \in gathered : ~NamedDevice(h)} :
        (Mentions(f) \intersect Mentions(g)) \ {Unusable} # {}
          => PayloadOf(g).subject \in Reached(Graph, PayloadOf(f).subject)
  BY <1>2
<1> QED
  BY <1>1, <1>3 DEF PayloadsJoin

\* In whatever order tools succeed, and whatever they found, their payloads join in the
\* one graph of build_graph_from_payloads: what two of them were asked about is connected
\* if they mention one address, domain or URL, but for devices known by a name, which
\* nothing links to it; and none brings an edge without its ends.
THEOREM PayloadsAreJoined == CollectionSpec => []PayloadsJoin
<1>1. CollectionInit => GatheredOK
  BY FS_EmptySet DEF CollectionInit, GatheredOK
<1>2. GatheredOK /\ [CollectionNext]_gathered => GatheredOK'
  <2> SUFFICES ASSUME GatheredOK, [CollectionNext]_gathered PROVE GatheredOK'
    OBVIOUS
  <2>1. CASE UNCHANGED gathered
    BY <2>1 DEF GatheredOK
  <2>2. ASSUME NEW f \in Obtained, Collect(f) PROVE GatheredOK'
    <3>1. gathered' = gathered \union {f}
      BY <2>2 DEF Collect
    <3> QED
      BY <3>1, FS_AddElement, FS_Singleton, FS_Union DEF GatheredOK
  <2> QED
    BY <2>1, <2>2 DEF CollectionNext
<1> QED
  BY <1>1, <1>2, GatheredJoin, PTL DEF CollectionSpec
=============================================================================
