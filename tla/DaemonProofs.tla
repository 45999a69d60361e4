------------------------------ MODULE DaemonProofs ------------------------------
(***************************************************************************)
(* Theorems about the daemon and the two supervisors it composes, for      *)
(* every set of workers, every budget, window, backoff and interval.  Each *)
(* supervisor is proved about by itself, under any caller, and again as    *)
(* the daemon drives it: run() starts the workers of a tunnel-less daemon  *)
(* a second time, and its cancellation gives up a tick halfway.            *)
(***************************************************************************)
EXTENDS Daemon, Induction

-----------------------------------------------------------------------------
(* The window: what Within keeps, by induction on the restarts.            *)

Filters(s, g) ==
  g = [i \in 0..Len(s) |-> IF i = 0 THEN << >>
                           ELSE IF s[i] <= Window THEN Append(g[i - 1], s[i])
                           ELSE g[i - 1]]

LEMMA WithinUnfolds ==
  ASSUME NEW s PROVE Within(s) = (CHOOSE g : Filters(s, g))[Len(s)]
BY DEF Within, Filters

LEMMA FilterSteps ==
  ASSUME NEW s \in Seq(Nat), NEW g, Filters(s, g)
  PROVE  /\ g[0] = << >>
         /\ \A i \in 1..Len(s) : g[i] = IF s[i] <= Window THEN Append(g[i - 1], s[i]) ELSE g[i - 1]
<1>1. \A i \in 0..Len(s) : g[i] = IF i = 0 THEN << >>
                                  ELSE IF s[i] <= Window THEN Append(g[i - 1], s[i])
                                  ELSE g[i - 1]
  BY Zenon DEF Filters
<1>2. 0 \in 0..Len(s) /\ \A i \in 1..Len(s) : i \in 0..Len(s) /\ i # 0
  OBVIOUS
<1> QED
  BY <1>1, <1>2, Zenon

\* The same of a sequence with one more element.
LEMMA ExtendedSteps ==
  ASSUME NEW s \in Seq(Nat), NEW e \in Nat, NEW h, Filters(Append(s, e), h)
  PROVE  /\ h[0] = << >>
         /\ \A i \in 1..Len(s) : h[i] = IF s[i] <= Window THEN Append(h[i - 1], s[i]) ELSE h[i - 1]
         /\ h[Len(s) + 1] = IF e <= Window THEN Append(h[Len(s)], e) ELSE h[Len(s)]
<1> DEFINE q == Append(s, e)
<1>1. /\ q \in Seq(Nat) /\ Len(q) = Len(s) + 1 /\ q[Len(s) + 1] = e
      /\ \A i \in 1..Len(s) : q[i] = s[i]
  OBVIOUS
<1>2. Filters(q, h)
  OBVIOUS
<1> HIDE DEF q
<1>3. /\ h[0] = << >>
      /\ \A i \in 1..(Len(s) + 1) : h[i] = IF q[i] <= Window THEN Append(h[i - 1], q[i]) ELSE h[i - 1]
  <2>1. /\ h[0] = << >>
        /\ \A i \in 1..Len(q) : h[i] = IF q[i] <= Window THEN Append(h[i - 1], q[i]) ELSE h[i - 1]
    BY <1>1, <1>2, FilterSteps, Zenon
  <2> QED
    BY <1>1, <2>1, Zenon
<1>4. \A i \in 1..Len(s) : i \in 1..(Len(s) + 1)
  OBVIOUS
<1>5. Len(s) + 1 \in 1..(Len(s) + 1) /\ (Len(s) + 1) - 1 = Len(s)
  OBVIOUS
<1>6. h[Len(s) + 1] = IF e <= Window THEN Append(h[Len(s)], e) ELSE h[Len(s)]
  BY <1>1, <1>3, <1>5
<1>7. ASSUME NEW i \in 1..Len(s)
      PROVE  h[i] = IF s[i] <= Window THEN Append(h[i - 1], s[i]) ELSE h[i - 1]
  BY <1>1, <1>3, <1>4
<1> QED
  BY <1>3, <1>6, <1>7

LEMMA FilterExists ==
  ASSUME NEW s \in Seq(Nat) PROVE \E g : Filters(s, g)
<1> DEFINE T == {q \in Seq(Nat) : \E g : Filters(q, g)}
<1>1. <<>> \in T
  <2>1. Filters(<<>>, [i \in 0..0 |-> <<>>])
    BY DEF Filters
  <2> QED
    BY <2>1
<1>2. ASSUME NEW q \in Seq(Nat), NEW e \in Nat, q \in T PROVE Append(q, e) \in T
  <2>1. PICK g : Filters(q, g)
    BY <1>2
  <2> DEFINE n == Len(q) + 1
             last == IF e <= Window THEN Append(g[Len(q)], e) ELSE g[Len(q)]
             h == [i \in 0..n |-> IF i < n THEN g[i] ELSE last]
  <2>2. /\ Len(Append(q, e)) = n /\ Append(q, e)[n] = e
        /\ \A i \in 1..Len(q) : Append(q, e)[i] = q[i]
    OBVIOUS
  <2>3. \A i \in 0..n : h[i] = IF i = 0 THEN << >>
                               ELSE IF Append(q, e)[i] <= Window THEN Append(h[i - 1], Append(q, e)[i])
                               ELSE h[i - 1]
    <3>1. h[0] = <<>>
      BY <2>1, FilterSteps
    <3>2. ASSUME NEW i \in 1..Len(q)
          PROVE  h[i] = IF q[i] <= Window THEN Append(h[i - 1], q[i]) ELSE h[i - 1]
      <4>1. h[i] = g[i] /\ h[i - 1] = g[i - 1]
        OBVIOUS
      <4>2. g[i] = IF q[i] <= Window THEN Append(g[i - 1], q[i]) ELSE g[i - 1]
        BY <2>1, FilterSteps
      <4> QED
        BY <4>1, <4>2
    <3>3. h[n] = IF e <= Window THEN Append(h[n - 1], e) ELSE h[n - 1]
      OBVIOUS
    <3> HIDE DEF h, last
    <3> SUFFICES ASSUME NEW i \in 0..n
                 PROVE  h[i] = IF i = 0 THEN << >>
                               ELSE IF Append(q, e)[i] <= Window THEN Append(h[i - 1], Append(q, e)[i])
                               ELSE h[i - 1]
      OBVIOUS
    <3>4. i = 0 \/ i \in 1..Len(q) \/ (i = n /\ i # 0)
      OBVIOUS
    <3>5. CASE i = 0
      BY <3>1, <3>5
    <3>6. CASE i \in 1..Len(q)
      <4>1. Append(q, e)[i] = q[i] /\ i # 0
        BY <2>2, <3>6
      <4> QED
        BY <3>2, <3>6, <4>1
    <3>7. CASE i = n /\ i # 0
      BY <2>2, <3>3, <3>7
    <3> QED
      BY <3>4, <3>5, <3>6, <3>7
  <2> HIDE DEF last
  <2>4. Filters(Append(q, e), h)
    BY <2>2, <2>3 DEF Filters
  <2> QED
    BY <2>4
<1> HIDE DEF T
<1>3. Seq(Nat) \subseteq T
  BY <1>1, <1>2, SequenceInduction
<1> QED
  BY <1>3 DEF T

LEMMA FiltersAgree ==
  ASSUME NEW s \in Seq(Nat), NEW e \in Nat, NEW g, NEW h,
         Filters(s, g), Filters(Append(s, e), h)
  PROVE  \A i \in 0..Len(s) : h[i] = g[i]
<1> DEFINE T == {i \in Nat : i <= Len(s) => h[i] = g[i]}
<1>0. /\ h[0] = << >>
      /\ \A i \in 1..Len(s) : h[i] = IF s[i] <= Window THEN Append(h[i - 1], s[i]) ELSE h[i - 1]
  BY ExtendedSteps
<1>1. 0 \in T
  BY <1>0, FilterSteps
<1>2. ASSUME NEW i \in Nat, i \in T PROVE i + 1 \in T
  <2> SUFFICES ASSUME i + 1 <= Len(s) PROVE h[i + 1] = g[i + 1]
    OBVIOUS
  <2>1. h[i] = g[i] /\ i + 1 \in 1..Len(s) /\ (i + 1) - 1 = i
    BY <1>2
  <2>2. g[i + 1] = IF s[i + 1] <= Window THEN Append(g[i], s[i + 1]) ELSE g[i]
    BY <2>1, FilterSteps
  <2>3. h[i + 1] = IF s[i + 1] <= Window THEN Append(h[i], s[i + 1]) ELSE h[i]
    BY <1>0, <2>1
  <2> QED
    BY <2>1, <2>2, <2>3
<1> HIDE DEF T
<1>3. Nat \subseteq T
  BY <1>1, <1>2, NaturalInduction
<1> QED
  BY <1>3 DEF T

LEMMA WithinEmpty == Within(<<>>) = <<>>
<1> DEFINE none == <<>>
           g == CHOOSE f : Filters(none, f)
<1>1. none \in Seq(Nat) /\ Len(none) = 0
  OBVIOUS
<1>2. Within(none) = g[0]
  <2> HIDE DEF none
  <2>1. Within(none) = g[Len(none)]
    BY WithinUnfolds
  <2> QED
    BY <1>1, <2>1
<1> HIDE DEF none
<1>3. Filters(none, g)
  <2>1. \E f : Filters(none, f)
    BY <1>1, FilterExists
  <2> QED
    BY <2>1, Zenon
<1> HIDE DEF g
<1>4. g[0] = << >>
  BY <1>1, <1>3, FilterSteps
<1>5. Within(none) = << >>
  BY <1>2, <1>4
<1> QED
  BY <1>5 DEF none

LEMMA WithinAppend ==
  ASSUME NEW s \in Seq(Nat), NEW e \in Nat
  PROVE  Within(Append(s, e)) = IF e <= Window THEN Append(Within(s), e) ELSE Within(s)
<1> DEFINE q == Append(s, e)
           g == CHOOSE f : Filters(s, f)
           h == CHOOSE f : Filters(q, f)
<1>1. q \in Seq(Nat) /\ Len(q) = Len(s) + 1
  OBVIOUS
<1>2. Within(s) = g[Len(s)] /\ Within(q) = h[Len(s) + 1]
  <2> HIDE DEF q
  <2>1. Within(s) = g[Len(s)] /\ Within(q) = h[Len(q)]
    BY WithinUnfolds
  <2> QED
    BY <1>1, <2>1
<1>3. Filters(s, g) /\ Filters(q, h)
  <2> HIDE DEF q
  <2>1. (\E f : Filters(s, f)) /\ (\E f : Filters(q, f))
    BY <1>1, FilterExists
  <2> QED
    BY <2>1, Zenon
<1> HIDE DEF g, h
<1>4. h[Len(s)] = g[Len(s)]
  BY <1>3, FiltersAgree
<1>5. h[Len(s) + 1] = IF e <= Window THEN Append(h[Len(s)], e) ELSE h[Len(s)]
  BY <1>3, ExtendedSteps
<1> QED
  BY <1>2, <1>4, <1>5

\* What Within keeps is within the window and no longer than what it was given.
LEMMA WithinBounds ==
  ASSUME NEW s \in Seq(Nat)
  PROVE  Within(s) \in Seq(Nat) /\ Len(Within(s)) <= Len(s)
<1> DEFINE T == {q \in Seq(Nat) : Within(q) \in Seq(Nat) /\ Len(Within(q)) <= Len(q)}
<1>1. <<>> \in T
  <2> DEFINE none == <<>>
  <2>1. none \in Seq(Nat) /\ Len(none) = 0 /\ Within(none) = none
    BY WithinEmpty
  <2> HIDE DEF none
  <2>2. Within(none) \in Seq(Nat) /\ Len(Within(none)) <= Len(none)
    BY <2>1
  <2>3. none \in T
    BY <2>1, <2>2
  <2> QED
    BY <2>3 DEF none
<1>2. ASSUME NEW q \in Seq(Nat), NEW e \in Nat, q \in T PROVE Append(q, e) \in T
  <2> DEFINE r == Append(q, e)
             kept == Within(q)
  <2>1. r \in Seq(Nat) /\ Len(r) = Len(q) + 1 /\ Len(q) \in Nat
    OBVIOUS
  <2>2. kept \in Seq(Nat) /\ Len(kept) <= Len(q)
    BY <1>2
  <2>3. Within(r) = IF e <= Window THEN Append(kept, e) ELSE kept
    BY WithinAppend
  <2> HIDE DEF r, kept
  <2>4. Append(kept, e) \in Seq(Nat) /\ Len(Append(kept, e)) = Len(kept) + 1 /\ Len(kept) \in Nat
    BY <2>2
  <2>5. Within(r) \in Seq(Nat) /\ Len(Within(r)) <= Len(r)
    BY <2>1, <2>2, <2>3, <2>4
  <2>6. r \in T
    BY <2>1, <2>5
  <2> QED
    BY <2>6 DEF r
<1> HIDE DEF T
<1>3. Seq(Nat) \subseteq T
  BY <1>1, <1>2, SequenceInduction
<1> QED
  BY <1>3 DEF T

LEMMA WithinTwice ==
  ASSUME NEW s \in Seq(Nat) PROVE Within(Within(s)) = Within(s)
<1> DEFINE T == {q \in Seq(Nat) : Within(Within(q)) = Within(q)}
<1>1. <<>> \in T
  BY WithinEmpty
<1>2. ASSUME NEW q \in Seq(Nat), NEW e \in Nat, q \in T PROVE Append(q, e) \in T
  <2>1. Append(q, e) \in Seq(Nat) /\ Within(q) \in Seq(Nat) /\ Within(Within(q)) = Within(q)
    BY <1>2, WithinBounds
  <2> QED
    BY <2>1, WithinAppend
<1> HIDE DEF T
<1>3. Seq(Nat) \subseteq T
  BY <1>1, <1>2, SequenceInduction
<1> QED
  BY <1>3 DEF T

\* recent_restarts and its shadow, one moment later.
Aged(ages) == [i \in DOMAIN ages |-> IF ages[i] > Window THEN Window + 1 ELSE ages[i] + 1]
Older(ages) == [i \in DOMAIN ages |-> ages[i] + 1]

LEMMA AgedAppend ==
  ASSUME NEW s \in Seq(Nat), NEW e \in Nat
  PROVE  /\ Aged(s) \in Seq(Nat) /\ Older(s) \in Seq(Nat) /\ Len(Older(s)) = Len(s)
         /\ Aged(Append(s, e)) = Append(Aged(s), IF e > Window THEN Window + 1 ELSE e + 1)
         /\ Older(Append(s, e)) = Append(Older(s), e + 1)
<1> DEFINE q == Append(s, e)
           n == Len(s)
           last == IF e > Window THEN Window + 1 ELSE e + 1
<1>1. n \in Nat /\ s \in [1..n -> Nat] /\ last \in Nat /\ Window \in Nat
  BY WorkerAssumption
<1>2. q \in Seq(Nat) /\ Len(q) = n + 1 /\ q[n + 1] = e /\ \A i \in 1..n : q[i] = s[i]
  OBVIOUS
<1> HIDE DEF q
<1>3. q \in [1..(n + 1) -> Nat]
  <2>1. q \in [1..Len(q) -> Nat]
    BY <1>2
  <2> QED
    BY <1>2, <2>1
<1>4. /\ Aged(s) \in [1..n -> Nat] /\ Older(s) \in [1..n -> Nat]
      /\ Aged(q) \in [1..(n + 1) -> Nat] /\ Older(q) \in [1..(n + 1) -> Nat]
  BY <1>1, <1>3 DEF Aged, Older
<1> HIDE DEF n
<1>5. /\ Aged(s) \in Seq(Nat) /\ Len(Aged(s)) = n /\ Older(s) \in Seq(Nat) /\ Len(Older(s)) = n
      /\ Aged(q) \in Seq(Nat) /\ Len(Aged(q)) = n + 1
      /\ Older(q) \in Seq(Nat) /\ Len(Older(q)) = n + 1
  <2>1. n + 1 \in Nat
    BY <1>1
  <2> QED
    BY <1>1, <1>4, <2>1, TupleIsSequence
<1>6. /\ \A i \in 1..n : Aged(q)[i] = Aged(s)[i] /\ Older(q)[i] = Older(s)[i]
      /\ Aged(q)[n + 1] = last /\ Older(q)[n + 1] = e + 1
  <2>1. \A i \in 1..n : i \in 1..(n + 1)
    BY <1>1
  <2>2. n + 1 \in 1..(n + 1)
    BY <1>1
  <2> QED
    BY <1>1, <1>2, <1>3, <2>1, <2>2 DEF Aged, Older
<1> HIDE DEF last
<1>7. Aged(q) = Append(Aged(s), last) /\ Older(q) = Append(Older(s), e + 1)
  BY <1>1, <1>5, <1>6
<1> QED
  BY <1>5, <1>7 DEF q, n, last

LEMMA AgeingCommutes ==
  ASSUME NEW s \in Seq(Nat) PROVE Within(Aged(s)) = Within(Older(Within(s)))
<1> DEFINE T == {q \in Seq(Nat) : Within(Aged(q)) = Within(Older(Within(q)))}
<1>1. <<>> \in T
  <2>1. Aged(<<>>) = <<>> /\ Older(<<>>) = <<>>
    BY DEF Aged, Older
  <2> QED
    BY <2>1, WithinEmpty
<1>2. ASSUME NEW q \in Seq(Nat), NEW e \in Nat, q \in T PROVE Append(q, e) \in T
  <2>1. /\ Append(q, e) \in Seq(Nat) /\ Aged(q) \in Seq(Nat)
        /\ Within(q) \in Seq(Nat) /\ Older(Within(q)) \in Seq(Nat)
    BY WithinBounds, AgedAppend
  <2>2. CASE e <= Window
    <3>1. Aged(Append(q, e)) = Append(Aged(q), e + 1)
      BY <2>2, AgedAppend, WorkerAssumption
    <3>2. Older(Within(Append(q, e))) = Append(Older(Within(q)), e + 1)
      BY <2>1, <2>2, WithinAppend, AgedAppend
    <3>a. e + 1 \in Nat
      OBVIOUS
    <3>3. /\ Within(Append(Aged(q), e + 1))
               = IF e + 1 <= Window THEN Append(Within(Aged(q)), e + 1) ELSE Within(Aged(q))
          /\ Within(Append(Older(Within(q)), e + 1))
               = IF e + 1 <= Window THEN Append(Within(Older(Within(q))), e + 1)
                 ELSE Within(Older(Within(q)))
      BY <2>1, <3>a, WithinAppend
    <3> QED
      BY <1>2, <2>1, <3>1, <3>2, <3>3
  <2>3. CASE ~(e <= Window)
    <3>1. Aged(Append(q, e)) = Append(Aged(q), Window + 1) /\ Window + 1 \in Nat /\ ~(Window + 1 <= Window)
      BY <2>3, AgedAppend, WorkerAssumption
    <3>2. Within(Append(Aged(q), Window + 1)) = Within(Aged(q))
      BY <2>1, <3>1, WithinAppend
    <3>3. Within(Append(q, e)) = Within(q)
      BY <2>3, WithinAppend
    <3> QED
      BY <1>2, <2>1, <3>1, <3>2, <3>3
  <2> QED
    BY <2>2, <2>3
<1> HIDE DEF T
<1>3. Seq(Nat) \subseteq T
  BY <1>1, <1>2, SequenceInduction
<1> QED
  BY <1>3 DEF T

-----------------------------------------------------------------------------
(* WorkerSupervisor.                                                       *)

\* What the workers do when their supervisor is driven by anyone: the daemon
\* starts all of them at once.
WorkerMoves == WorkersNext \/ StartWorkers(WorkerNames)

Busy == {"working", "sleeping"}

\* FAILED means no task; stop_all() waits for every task in a factory or a
\* backoff, and from its first line on the supervisor is stopping for good.
WorkersInv ==
  /\ wstate \in [WorkerNames -> {"unregistered", "stopped", "running", "restarting", "failed"}]
  /\ task \in [WorkerNames -> {"none", "ready", "working", "sleeping"}]
  /\ \A w \in WorkerNames : wstate[w] = "failed" => task[w] = "none"
  /\ stopAll \in {"idle", "grace", "forced", "stopped"}
  /\ stopAll # "idle" => stopping
  /\ stopAll = "stopped" => \A w \in WorkerNames : task[w] \notin Busy
  /\ stopAll \in {"grace", "forced"} =>
       \A w \in WorkerNames : task[w] \in Busy => w \in awaited
  /\ \A w \in WorkerNames : w \in awaited \union cancelled => task[w] # "none"

LEMMA WorkersInitially == WorkersInit => WorkersInv
  BY DEF WorkersInit, WorkersInv, Busy

LEMMA TaskStep ==
  ASSUME WorkersInv, NEW w \in WorkerNames, WorkerRuns(w)
  PROVE  WorkersInv'
  <1>1. CASE Begins(w)
    BY <1>1 DEF WorkersInv, Busy, Begins, Loops, Ends
  <1>2. CASE Completes(w)
    BY <1>2 DEF WorkersInv, Busy, Completes, EndsAs, Ends
  <1>3. CASE Crashes(w)
    <2>1. CASE stopping \/ Len(Within(recent[w])) >= MaxRestarts
      <3>1. EndsAs(w, IF stopping THEN "stopped" ELSE "failed")
        BY <1>3, <2>1 DEF Crashes
      <3>. QED  BY <3>1 DEF WorkersInv, Busy, EndsAs, Ends
    <2>2. CASE ~(stopping \/ Len(Within(recent[w])) >= MaxRestarts)
      <3>1. /\ wstate' = [wstate EXCEPT ![w] = "restarting"]
            /\ task' = [task EXCEPT ![w] = "sleeping"]
            /\ UNCHANGED <<stopping, stopAll, awaited, cancelled>>
            /\ ~stopping
        BY <1>3, <2>2 DEF Crashes
      <3>. QED  BY <3>1 DEF WorkersInv, Busy
    <2>. QED  BY <2>1, <2>2
  <1>4. CASE Wakes(w)
    BY <1>4 DEF WorkersInv, Busy, Wakes, Loops, Ends
  <1>5. CASE Cancelled(w)
    BY <1>5 DEF WorkersInv, Busy, Cancelled, EndsAs, Ends
  <1>6. CASE Swallows(w)
    BY <1>6 DEF WorkersInv, Busy, Swallows
  <1>. QED  BY <1>1, <1>2, <1>3, <1>4, <1>5, <1>6 DEF WorkerRuns

LEMMA WorkersStepInv == WorkersInv /\ [WorkerMoves]_workerVars => WorkersInv'
  <1>. SUFFICES ASSUME WorkersInv, [WorkerMoves]_workerVars PROVE WorkersInv'
    OBVIOUS
  <1>1. ASSUME NEW w \in WorkerNames, RegisterWorker(w) PROVE WorkersInv'
    BY <1>1 DEF WorkersInv, Busy, RegisterWorker
  <1>2. ASSUME NEW ws, StartWorkers(ws) PROVE WorkersInv'
    BY <1>2 DEF WorkersInv, Busy, StartWorkers, Startable
  <1>3. ASSUME NEW w \in WorkerNames, ResetWorker(w) PROVE WorkersInv'
    BY <1>3 DEF WorkersInv, Busy, ResetWorker
  <1>4. ASSUME NEW w \in WorkerNames, WorkerRuns(w) PROVE WorkersInv'
    BY <1>4, TaskStep
  <1>5. CASE Moment
    BY <1>5 DEF WorkersInv, Busy, Moment
  <1>6. CASE StopAll
    BY <1>6 DEF WorkersInv, Busy, StopAll, AllStopped, Alive
  <1>7. CASE GraceOver
    BY <1>7 DEF WorkersInv, Busy, GraceOver
  <1>8. CASE Gathers
    BY <1>8 DEF WorkersInv, Busy, Gathers, AllStopped
  <1>9. CASE UNCHANGED workerVars
    BY <1>9 DEF WorkersInv, Busy, workerVars
  <1>. QED  BY <1>1, <1>2, <1>3, <1>4, <1>5, <1>6, <1>7, <1>8, <1>9
          DEF WorkerMoves, WorkersNext, WorkersStep

LEMMA WorkersInvariant == WorkersSpec => []WorkersInv
  <1>1. [WorkersNext]_workerVars => [WorkerMoves]_workerVars
    BY DEF WorkerMoves
  <1>. QED  BY <1>1, WorkersInitially, WorkersStepInv, PTL DEF WorkersSpec

\* stop_all() leaves nothing running behind it, whatever is started or crashes
\* while it waits, for any number of workers.
THEOREM NothingOutlives == WorkersSpec => []NothingOutlivesStop
  <1>1. WorkersInv => NothingOutlivesStop
    BY DEF WorkersInv, NothingOutlivesStop, Busy
  <1>. QED  BY <1>1, WorkersInvariant, PTL

FailedStep(w) ==
  wstate[w] = "failed" =>
    /\ wstate'[w] = "failed" \/ ResetWorker(w)
    /\ task'[w] = "none"

\* The steps of the tasks, of the one that failed and of the others.
LEMMA OthersLeaveFailed ==
  ASSUME WorkersInv, NEW v \in WorkerNames, NEW w \in WorkerNames, WorkerRuns(v)
  PROVE  FailedStep(w)
  <1>. SUFFICES ASSUME wstate[w] = "failed" PROVE wstate'[w] = "failed" /\ task'[w] = "none"
    BY DEF FailedStep
  <1>1. task[w] = "none"
    BY DEF WorkersInv
  <1>2. CASE v = w
    <2>1. w \notin cancelled
      BY <1>1 DEF WorkersInv
    <2>. QED
      BY <2>1, <1>1, <1>2 DEF WorkerRuns, Begins, Completes, Crashes, Wakes, Cancelled, Swallows
  <1>3. CASE v # w
    <2>. /\ wstate \in [WorkerNames -> {"unregistered", "stopped", "running", "restarting", "failed"}]
         /\ task \in [WorkerNames -> {"none", "ready", "working", "sleeping"}]
      BY DEF WorkersInv
    <2>1. CASE Begins(v)
      BY <2>1, <1>1, <1>3 DEF Begins, Loops, Ends
    <2>2. CASE Completes(v)
      BY <2>2, <1>1, <1>3 DEF Completes, EndsAs, Ends
    <2>3. CASE Crashes(v)
      <3>1. CASE stopping \/ Len(Within(recent[v])) >= MaxRestarts
        BY <2>3, <3>1, <1>1, <1>3 DEF Crashes, EndsAs, Ends
      <3>2. CASE ~(stopping \/ Len(Within(recent[v])) >= MaxRestarts)
        BY <2>3, <3>2, <1>1, <1>3 DEF Crashes
      <3>. QED  BY <3>1, <3>2
    <2>4. CASE Wakes(v)
      BY <2>4, <1>1, <1>3 DEF Wakes, Loops, Ends
    <2>5. CASE Cancelled(v)
      BY <2>5, <1>1, <1>3 DEF Cancelled, EndsAs, Ends
    <2>6. CASE Swallows(v)
      BY <2>6, <1>1, <1>3 DEF Swallows
    <2>. QED  BY <2>1, <2>2, <2>3, <2>4, <2>5, <2>6 DEF WorkerRuns
  <1>. QED  BY <1>2, <1>3

LEMMA FailedStays ==
  ASSUME WorkersInv, [WorkerMoves]_workerVars, NEW w \in WorkerNames
  PROVE  FailedStep(w)
  <1>1. ASSUME NEW v \in WorkerNames, RegisterWorker(v) PROVE FailedStep(w)
    BY <1>1 DEF FailedStep, WorkersInv, RegisterWorker
  <1>2. ASSUME NEW ws, StartWorkers(ws) PROVE FailedStep(w)
    BY <1>2 DEF FailedStep, WorkersInv, StartWorkers, Startable
  <1>3. ASSUME NEW v \in WorkerNames, ResetWorker(v) PROVE FailedStep(w)
    <2>1. wstate[w] = "failed" => task'[w] = "none"
      BY <1>3 DEF WorkersInv, ResetWorker
    <2>2. CASE v = w
      BY <2>1, <2>2, <1>3 DEF FailedStep
    <2>3. CASE v # w
      BY <2>1, <2>3, <1>3 DEF FailedStep, WorkersInv, ResetWorker
    <2>. QED  BY <2>2, <2>3
  <1>4. ASSUME NEW v \in WorkerNames, WorkerRuns(v) PROVE FailedStep(w)
    BY <1>4, OthersLeaveFailed
  <1>5. CASE Moment
    BY <1>5 DEF FailedStep, WorkersInv, Moment
  <1>6. CASE StopAll
    BY <1>6 DEF FailedStep, WorkersInv, StopAll, AllStopped
  <1>7. CASE GraceOver
    BY <1>7 DEF FailedStep, WorkersInv, GraceOver
  <1>8. CASE Gathers
    BY <1>8 DEF FailedStep, WorkersInv, Gathers, AllStopped
  <1>9. CASE UNCHANGED workerVars
    BY <1>9 DEF FailedStep, WorkersInv, workerVars
  <1>. QED  BY <1>1, <1>2, <1>3, <1>4, <1>5, <1>6, <1>7, <1>8, <1>9
          DEF WorkerMoves, WorkersNext, WorkersStep

\* FAILED is left by an operator's reset only, and no task runs for a worker
\* reported as FAILED, for any number of workers and any budget.
THEOREM FailedStaysFailed == WorkersSpec => FailedIsFinal
  <1>1. WorkersInv /\ [WorkersNext]_workerVars
          => [\A w \in WorkerNames :
                wstate[w] = "failed" =>
                  /\ wstate'[w] = "failed" \/ ResetWorker(w)
                  /\ task'[w] = "none"]_workerVars
    BY FailedStays DEF FailedStep, WorkerMoves
  <1>. QED  BY <1>1, WorkersInvariant, PTL DEF WorkersSpec, FailedIsFinal

-----------------------------------------------------------------------------
(* The restart budget.                                                     *)

\* What recent_restarts keeps within the window is every restart that was made
\* in it since the last reset, and the budget has room for them.  The list
\* itself may still hold older ones.
BudgetInv ==
  /\ recent \in [WorkerNames -> Seq(Nat)]
  /\ lately \in [WorkerNames -> Seq(Nat)]
  /\ \A w \in WorkerNames : lately[w] = Within(recent[w]) /\ Len(lately[w]) <= MaxRestarts

LEMMA BudgetInitially == WorkersInit => BudgetInv
  <1>. SUFFICES ASSUME WorkersInit PROVE BudgetInv
    OBVIOUS
  <1>. DEFINE none == <<>>
  <1>1. none \in Seq(Nat) /\ Len(none) = 0 /\ Within(none) = none
    BY WithinEmpty
  <1>. HIDE DEF none
  <1>2. recent = [w \in WorkerNames |-> none] /\ lately = recent
    BY DEF WorkersInit, none
  <1>3. Len(none) <= MaxRestarts
    BY <1>1, WorkerAssumption
  <1>. QED  BY <1>1, <1>2, <1>3 DEF BudgetInv

\* A crash spends a unit of the budget only while there is one.
LEMMA CrashKeepsBudget ==
  ASSUME BudgetInv, NEW w \in WorkerNames, Crashes(w)
  PROVE  BudgetInv'
  <1>. DEFINE kept == Within(recent[w])
  <1>1. /\ recent[w] \in Seq(Nat) /\ lately[w] = kept /\ Len(kept) <= MaxRestarts
        /\ MaxRestarts \in Nat /\ Window \in Nat
    BY WorkerAssumption DEF BudgetInv
  <1>2. kept \in Seq(Nat) /\ Within(kept) = kept
    BY <1>1, WithinBounds, WithinTwice
  <1>. HIDE DEF kept
  <1>3. CASE stopping \/ Len(kept) >= MaxRestarts
    <2>1. recent' = [recent EXCEPT ![w] = IF stopping THEN @ ELSE kept] /\ UNCHANGED lately
      BY <1>3 DEF Crashes, kept
    <2>2. recent' \in [WorkerNames -> Seq(Nat)]
      BY <1>1, <1>2, <2>1 DEF BudgetInv
    <2>3. ASSUME NEW v \in WorkerNames PROVE lately'[v] = Within(recent'[v])
      <3>1. recent'[v] = recent[v] \/ (v = w /\ recent'[v] = kept)
        BY <2>1 DEF BudgetInv
      <3>. QED  BY <1>1, <1>2, <2>1, <3>1 DEF BudgetInv
    <2>. QED  BY <2>1, <2>2, <2>3 DEF BudgetInv
  <1>4. CASE ~(stopping \/ Len(kept) >= MaxRestarts)
    <2>1. /\ recent' = [recent EXCEPT ![w] = Append(kept, 0)]
          /\ lately' = [lately EXCEPT ![w] = Append(@, 0)]
      BY <1>4 DEF Crashes, kept
    <2>2. /\ Append(kept, 0) \in Seq(Nat) /\ Len(Append(kept, 0)) = Len(kept) + 1
          /\ Len(kept) \in Nat /\ Len(Append(kept, 0)) <= MaxRestarts
      BY <1>1, <1>2, <1>4
    <2>3. Within(Append(kept, 0)) = Append(kept, 0)
      BY <1>1, <1>2, WithinAppend
    <2>4. /\ recent' \in [WorkerNames -> Seq(Nat)] /\ lately' \in [WorkerNames -> Seq(Nat)]
          /\ recent'[w] = Append(kept, 0) /\ lately'[w] = Append(kept, 0)
          /\ \A v \in WorkerNames \ {w} : recent'[v] = recent[v] /\ lately'[v] = lately[v]
      BY <1>1, <2>1, <2>2 DEF BudgetInv
    <2>. HIDE DEF kept
    <2>5. ASSUME NEW v \in WorkerNames
          PROVE  lately'[v] = Within(recent'[v]) /\ Len(lately'[v]) <= MaxRestarts
      <3>1. CASE v = w
        BY <2>2, <2>3, <2>4, <3>1
      <3>2. CASE v # w
        BY <2>4, <3>2 DEF BudgetInv
      <3>. QED  BY <3>1, <3>2
    <2>. QED  BY <2>4, <2>5 DEF BudgetInv
  <1>. QED  BY <1>3, <1>4

\* Time makes room in both lists alike.
LEMMA MomentKeepsBudget ==
  ASSUME BudgetInv, Moment
  PROVE  BudgetInv'
  <1>1. /\ recent' = [w \in WorkerNames |-> Aged(recent[w])]
        /\ lately' = [w \in WorkerNames |-> Within(Older(lately[w]))]
    BY DEF Moment, Aged, Older
  <1>2. ASSUME NEW w \in WorkerNames
        PROVE  /\ recent'[w] \in Seq(Nat) /\ lately'[w] \in Seq(Nat)
               /\ lately'[w] = Within(recent'[w]) /\ Len(lately'[w]) <= MaxRestarts
    <2>. DEFINE ages == recent[w]
                kept == lately[w]
    <2>1. ages \in Seq(Nat) /\ kept \in Seq(Nat) /\ kept = Within(ages) /\ Len(kept) <= MaxRestarts
      BY DEF BudgetInv
    <2>2. recent'[w] = Aged(ages) /\ lately'[w] = Within(Older(kept))
      BY <1>1
    <2>. HIDE DEF ages, kept
    <2>3. Aged(ages) \in Seq(Nat) /\ Older(kept) \in Seq(Nat) /\ Len(Older(kept)) = Len(kept)
      BY <2>1, AgedAppend
    <2>4. Within(Aged(ages)) = Within(Older(kept))
      BY <2>1, AgeingCommutes
    <2>5. /\ Within(Older(kept)) \in Seq(Nat)
          /\ Len(Within(Older(kept))) <= Len(Older(kept))
      BY <2>3, WithinBounds
    <2>6. Len(Within(Older(kept))) \in Nat /\ Len(kept) \in Nat
      BY <2>1, <2>5
    <2>7. Len(Within(Older(kept))) <= MaxRestarts
      BY <2>1, <2>3, <2>5, <2>6, WorkerAssumption
    <2>. QED  BY <2>2, <2>3, <2>4, <2>5, <2>7
  <1>3. recent' \in [WorkerNames -> Seq(Nat)] /\ lately' \in [WorkerNames -> Seq(Nat)]
    BY <1>1, <1>2
  <1>. QED  BY <1>2, <1>3 DEF BudgetInv

LEMMA BudgetStep == BudgetInv /\ [WorkerMoves]_workerVars => BudgetInv'
  <1>. SUFFICES ASSUME BudgetInv, [WorkerMoves]_workerVars PROVE BudgetInv'
    OBVIOUS
  <1>1. CASE UNCHANGED <<recent, lately>>
    BY <1>1 DEF BudgetInv
  <1>2. ASSUME NEW w \in WorkerNames, RegisterWorker(w) \/ WorkerRuns(w) PROVE BudgetInv'
    <2>1. CASE Crashes(w)
      BY <2>1, CrashKeepsBudget
    <2>2. CASE ~Crashes(w)
      BY <1>1, <1>2, <2>2
         DEF RegisterWorker, WorkerRuns, Begins, Completes, Wakes, Cancelled, Swallows
    <2>. QED  BY <2>1, <2>2
  <1>3. ASSUME NEW w \in WorkerNames, ResetWorker(w) PROVE BudgetInv'
    <2>. DEFINE none == <<>>
    <2>1. none \in Seq(Nat) /\ Len(none) <= MaxRestarts /\ Within(none) = none
      BY WithinEmpty, WorkerAssumption
    <2>2. recent' = [recent EXCEPT ![w] = none] /\ lately' = [lately EXCEPT ![w] = none]
      BY <1>3 DEF ResetWorker
    <2>. HIDE DEF none
    <2>. QED  BY <2>1, <2>2 DEF BudgetInv
  <1>4. CASE Moment
    BY <1>4, MomentKeepsBudget
  <1>5. CASE StopAll \/ GraceOver \/ Gathers \/ UNCHANGED workerVars
    BY <1>1, <1>5 DEF StopAll, GraceOver, Gathers, workerVars
  <1>6. ASSUME NEW ws, StartWorkers(ws) PROVE BudgetInv'
    BY <1>1, <1>6 DEF StartWorkers
  <1>. QED  BY <1>2, <1>3, <1>4, <1>5, <1>6 DEF WorkerMoves, WorkersNext, WorkersStep

\* Between resets a worker is restarted at most max_restarts times in any
\* window, however it ends, is started again, or is stopped in between.
THEOREM BudgetIsKept == WorkersSpec => []RestartBudget
  <1>1. [WorkersNext]_workerVars => [WorkerMoves]_workerVars
    BY DEF WorkerMoves
  <1>2. BudgetInv => RestartBudget
    BY DEF BudgetInv, RestartBudget
  <1>. QED  BY <1>1, <1>2, BudgetInitially, BudgetStep, PTL DEF WorkersSpec

-----------------------------------------------------------------------------
(* TunnelSupervisor.                                                       *)

\* run() is cancelled: the tick under way is given up where it waits.
GivenUp ==
  /\ pc' = "idle" /\ escaped' = (escaped \/ pc = "cycling")
  /\ UNCHANGED <<config, link, state, attempts, attempt, wait>>

TunnelMoves == Next \/ GivenUp

\* Only the parts of TypeOK that the argument needs.
Counters == attempts \in Nat /\ attempt \in Nat /\ state \in Recovery

\* While the operator is needed no tick looks at the fault.
TerminalIsQuiet == state = "needs_operator" => pc \in {"idle", "terminal"}

\* Outside an attempt there is room for one more.
RoomForOne ==
  ~escaped /\ state # "needs_operator" /\ pc # "cycling" => attempts < MaxAttempts

\* During an attempt its number is the count, unless a reset cleared it.
AttemptCounted == pc = "cycling" => attempts \in {attempt, 0}

TunnelInv ==
  /\ Counters /\ TerminalIsQuiet /\ RoomForOne /\ AttemptCounted /\ RecoveryBounded

\* TunnelSupervisor.__init__ starts without an attempt.
LEMMA TunnelInitially == Init => TunnelInv
  BY SupervisorAssumption
     DEF Init, TunnelInv, Counters, Recovery, TerminalIsQuiet, RoomForOne, AttemptCounted,
         RecoveryBounded

\* Every step of tick(), reset() and the surroundings keeps the bound.
LEMMA TunnelStepInv == TunnelInv /\ [TunnelMoves]_vars => TunnelInv'
<1> SUFFICES ASSUME TunnelInv, [TunnelMoves]_vars PROVE TunnelInv'
  OBVIOUS
<1> USE SupervisorAssumption
    DEF TunnelInv, Counters, Recovery, TerminalIsQuiet, RoomForOne, AttemptCounted, RecoveryBounded
<1>1. CASE LinkChanges BY <1>1 DEF LinkChanges
<1>2. CASE Second BY <1>2 DEF Second
<1>3. CASE TickBegins BY <1>3 DEF TickBegins
<1>4. CASE Reported BY <1>4 DEF Reported
<1>5. CASE Healthy BY <1>5 DEF Healthy
<1>6. CASE NoFault BY <1>6 DEF NoFault
<1>7. CASE ReportFault BY <1>7 DEF ReportFault
<1>8. CASE Wait BY <1>8 DEF Wait
<1>9. CASE Attempt BY <1>9 DEF Attempt
<1>10. CASE CycleSucceeds BY <1>10 DEF CycleSucceeds
<1>11. CASE CycleFails BY <1>11 DEF CycleFails
<1>12. CASE CycleEscapes BY <1>12 DEF CycleEscapes
<1>13. CASE Reset BY <1>13 DEF Reset
<1>14. CASE UNCHANGED vars BY <1>14 DEF vars, config
<1>15. CASE GivenUp BY <1>15 DEF GivenUp, config
<1> QED
  BY <1>1, <1>2, <1>3, <1>4, <1>5, <1>6, <1>7, <1>8, <1>9, <1>10, <1>11, <1>12, <1>13, <1>14, <1>15
     DEF TunnelMoves, Next, TickStep

\* The inductive invariant holds of every execution.
LEMMA TunnelInvariant == Spec => []TunnelInv
<1>1. [Next]_vars => [TunnelMoves]_vars
  BY DEF TunnelMoves
<1> QED
  BY <1>1, TunnelInitially, TunnelStepInv, PTL DEF Spec

\* For every limit, the supervisor makes at most that many attempts between two
\* moments of health, as long as failures are reported as VpnErrors.
THEOREM RecoveryIsBounded == Spec => []RecoveryBounded
<1>1. TunnelInv => RecoveryBounded
  BY DEF TunnelInv
<1> QED
  BY <1>1, TunnelInvariant, PTL

\* What a step may do to the terminal state.
TerminalStep == /\ state = "needs_operator" /\ state' # "needs_operator" => Reset
                /\ Attempt => state # "needs_operator"

LEMMA TerminalKept == TunnelInv /\ [TunnelMoves]_vars => [TerminalStep]_vars
<1> SUFFICES ASSUME TunnelInv, TunnelMoves PROVE TerminalStep
  BY DEF vars
<1>1. ASSUME Attempt PROVE state # "needs_operator"
  BY <1>1 DEF Attempt, TunnelInv, TerminalIsQuiet
<1>2. ASSUME state = "needs_operator", state' # "needs_operator" PROVE Reset
  <2>1. pc \in {"idle", "terminal"}
    BY <1>2 DEF TunnelInv, TerminalIsQuiet
  <2>2. ~(LinkChanges \/ Second \/ TickBegins \/ Reported \/ GivenUp)
    BY <1>2 DEF LinkChanges, Second, TickBegins, Reported, GivenUp
  <2>3. ~(Healthy \/ NoFault \/ ReportFault \/ Wait \/ Attempt)
    BY <2>1 DEF Healthy, NoFault, ReportFault, Wait, Attempt
  <2>4. ~(CycleSucceeds \/ CycleFails \/ CycleEscapes)
    BY <2>1 DEF CycleSucceeds, CycleFails, CycleEscapes
  <2> QED
    BY <2>2, <2>3, <2>4 DEF TunnelMoves, Next, TickStep
<1> QED
  BY <1>1, <1>2 DEF TerminalStep

\* No step but the operator's reset leaves the terminal state, and no attempt
\* begins in it.
THEOREM TerminalHolds == Spec => TerminalUntilReset
<1>1. [Next]_vars => [TunnelMoves]_vars
  BY DEF TunnelMoves
<1>2. TerminalUntilReset <=> [][TerminalStep]_vars
  BY DEF TerminalUntilReset, TerminalStep
<1> QED
  BY <1>1, <1>2, TerminalKept, TunnelInvariant, PTL DEF Spec

-----------------------------------------------------------------------------
(* SecurityDaemon: its steps drive the two supervisors.                    *)

LEMMA DaemonDrivesTunnel == [DaemonNext]_allVars => [TunnelMoves]_vars
<1> SUFFICES ASSUME DaemonNext PROVE [TunnelMoves]_vars
  BY DEF allVars
<1>1. CASE Run \/ RequestStop
  BY <1>1 DEF Run, RequestStop
<1>2. CASE RunCancelled
  BY <1>2 DEF RunCancelled, TunnelMoves, GivenUp
<1>3. CASE Loop
  <2>1. CASE CheckTunnel \/ TickGoesOn
    BY <2>1 DEF CheckTunnel, TickGoesOn, TunnelMoves, Next, TickStep
  <2>2. CASE TickReturns
    BY <2>2 DEF TickReturns, TunnelMoves, Next, TickStep
  <2>3. CASE NoCheck \/ HealthChecked \/ HealthRaises \/ Waited \/ LoopEnds \/ RunEnds
    BY <2>3 DEF NoCheck, HealthChecked, HealthRaises, Waited, LoopEnds, RunEnds
  <2> QED
    BY <1>3, <2>1, <2>2, <2>3 DEF Loop
<1>4. CASE Outside /\ UNCHANGED <<workerVars, daemonVars>>
  BY <1>4 DEF Outside, TunnelMoves, Next
<1>5. CASE Workers /\ UNCHANGED <<vars, daemonVars>>
  BY <1>5
<1> QED
  BY <1>1, <1>2, <1>3, <1>4, <1>5 DEF DaemonNext

LEMMA DaemonDrivesWorkers == [DaemonNext]_allVars => [WorkerMoves]_workerVars
<1> SUFFICES ASSUME DaemonNext PROVE [WorkerMoves]_workerVars
  BY DEF allVars
<1>1. CASE Run
  BY <1>1 DEF Run, WorkerMoves
<1>2. CASE RequestStop
  BY <1>2 DEF RequestStop
<1>3. CASE RunCancelled
  BY <1>3 DEF RunCancelled, WorkerMoves, WorkersNext
<1>4. CASE Loop
  <2>1. CASE LoopEnds
    BY <2>1 DEF LoopEnds, WorkerMoves, WorkersNext
  <2>2. CASE CheckTunnel \/ NoCheck \/ TickGoesOn \/ TickReturns
    BY <2>2 DEF CheckTunnel, NoCheck, TickGoesOn, TickReturns
  <2>3. CASE HealthChecked \/ HealthRaises \/ Waited \/ RunEnds
    BY <2>3 DEF HealthChecked, HealthRaises, Waited, RunEnds
  <2> QED
    BY <1>4, <2>1, <2>2, <2>3 DEF Loop
<1>5. CASE Outside /\ UNCHANGED <<workerVars, daemonVars>>
  BY <1>5
<1>6. CASE Workers /\ UNCHANGED <<vars, daemonVars>>
  BY <1>6 DEF Workers, WorkerMoves, WorkersNext
<1> QED
  BY <1>1, <1>2, <1>3, <1>4, <1>5, <1>6 DEF DaemonNext

\* Bounded recovery survives the daemon: a run() that is cancelled in the
\* middle of a reconnect and a run() after it do not add to the attempts.
THEOREM DaemonBoundsRecovery == DaemonSpec => []RecoveryBounded
<1>1. TunnelInv => RecoveryBounded
  BY DEF TunnelInv
<1> QED
  BY <1>1, TunnelInitially, TunnelStepInv, DaemonDrivesTunnel, PTL DEF DaemonSpec, DaemonInit

\* Under the daemon too, only the operator ends the terminal state.
THEOREM DaemonLeavesTerminal == DaemonSpec => TerminalUntilReset
<1>1. TerminalUntilReset <=> [][TerminalStep]_vars
  BY DEF TerminalUntilReset, TerminalStep
<1> QED
  BY <1>1, TunnelInitially, TunnelStepInv, TerminalKept, DaemonDrivesTunnel, PTL
     DEF DaemonSpec, DaemonInit

\* A daemon that is run again starts its workers again, and none of them gets
\* a second budget for it.
THEOREM DaemonKeepsBudget == DaemonSpec => []RestartBudget
<1>1. BudgetInv => RestartBudget
  BY DEF BudgetInv, RestartBudget
<1> QED
  BY <1>1, BudgetInitially, BudgetStep, DaemonDrivesWorkers, PTL DEF DaemonSpec, DaemonInit

LEMMA DaemonWorkersInvariant == DaemonSpec => []WorkersInv
BY WorkersInitially, WorkersStepInv, DaemonDrivesWorkers, PTL DEF DaemonSpec, DaemonInit

\* A worker that run() finds FAILED stays FAILED: starting all workers passes
\* it by, and only the operator's reset brings it back.
THEOREM DaemonLeavesFailed == DaemonSpec => FailedIsFinal
<1>1. WorkersInv /\ [WorkerMoves]_workerVars
        => [\A w \in WorkerNames :
              wstate[w] = "failed" =>
                /\ wstate'[w] = "failed" \/ ResetWorker(w)
                /\ task'[w] = "none"]_workerVars
  BY FailedStays DEF FailedStep
<1> QED
  BY <1>1, DaemonWorkersInvariant, DaemonDrivesWorkers, PTL DEF DaemonSpec, FailedIsFinal

\* Nothing outlives a stop_all() of the daemon, though a later run() starts the
\* workers of the stopped supervisor once more.
THEOREM NothingOutlivesDaemon == DaemonSpec => []NothingOutlivesStop
<1>1. WorkersInv => NothingOutlivesStop
  BY DEF WorkersInv, NothingOutlivesStop, Busy
<1> QED
  BY <1>1, DaemonWorkersInvariant, PTL

\* run() returns only behind a stop_all() that has returned.
StopsFirst ==
  /\ dpc = "ended" => stopAll = "stopped"
  /\ stopAll \in {"grace", "forced"} => dpc = "stopping"

\* "Shutdown is orderly", as a safety property: when run() has ended, no worker
\* is in its factory or in a backoff.
OrderlyEnd == dpc = "ended" => \A w \in WorkerNames : task[w] \notin Busy

LEMMA StopsFirstStep == StopsFirst /\ [DaemonNext]_allVars => StopsFirst'
<1> SUFFICES ASSUME StopsFirst, [DaemonNext]_allVars PROVE StopsFirst'
  OBVIOUS
<1> USE DEF StopsFirst
<1>1. CASE Run
  BY <1>1 DEF Run, StartWorkers
<1>2. CASE RequestStop
  BY <1>2 DEF RequestStop, workerVars
<1>3. CASE RunCancelled
  BY <1>3 DEF RunCancelled, StopAll, AllStopped
<1>4. CASE Loop
  <2>1. CASE LoopEnds
    BY <2>1 DEF LoopEnds, StopAll, AllStopped
  <2>2. CASE CheckTunnel \/ NoCheck \/ TickGoesOn \/ TickReturns
    BY <2>2 DEF CheckTunnel, NoCheck, TickGoesOn, TickReturns, AfterTunnel, workerVars, daemonVars
  <2>3. CASE HealthChecked \/ HealthRaises \/ Waited \/ RunEnds
    BY <2>3 DEF HealthChecked, HealthRaises, Waited, RunEnds, workerVars
  <2> QED
    BY <1>4, <2>1, <2>2, <2>3 DEF Loop
<1>5. CASE Outside /\ UNCHANGED <<workerVars, daemonVars>>
  BY <1>5 DEF workerVars, daemonVars
<1>6. CASE Workers /\ UNCHANGED <<vars, daemonVars>>
  <2>1. CASE WorkersStep
    <3>1. UNCHANGED stopAll
      BY <2>1 DEF WorkersStep, RegisterWorker, StartWorkers, ResetWorker, WorkerRuns, Begins,
                  Completes, Crashes, Wakes, Cancelled, Swallows, Loops, EndsAs, Ends, Moment
    <3> QED
      BY <1>6, <3>1 DEF daemonVars
  <2>2. CASE GraceOver \/ Gathers
    BY <1>6, <2>2 DEF GraceOver, Gathers, AllStopped, daemonVars
  <2> QED
    BY <1>6, <2>1, <2>2 DEF Workers
<1>7. CASE UNCHANGED allVars
  BY <1>7 DEF allVars, workerVars, daemonVars
<1> QED
  BY <1>1, <1>2, <1>3, <1>4, <1>5, <1>6, <1>7 DEF DaemonNext

\* The shutdown of the daemon is orderly: no worker runs behind an ended run().
THEOREM ShutdownIsOrderly == DaemonSpec => []OrderlyEnd
<1>1. DaemonInit => StopsFirst
  BY DEF DaemonInit, WorkersInit, StopsFirst
<1>2. WorkersInv /\ StopsFirst => OrderlyEnd
  BY DEF WorkersInv, StopsFirst, OrderlyEnd
<1> QED
  BY <1>1, <1>2, StopsFirstStep, DaemonWorkersInvariant, PTL DEF DaemonSpec
=============================================================================
