--------------------------- MODULE OrchestratorProofs ---------------------------
(***************************************************************************)
(* Theorems about Orchestrator, for every set of jobs, workers, services   *)
(* and stoppers, every queue and history bound and every service list.     *)
(***************************************************************************)
EXTENDS OrchestratorInvariants, FiniteSetTheorems, TLAPS

(***************************************************************************)
(* Lemmas about sequences and counting.                                    *)
(***************************************************************************)

LEMMA FrontType ==
  ASSUME NEW S, NEW q \in Seq(S), q # <<>>
  PROVE  Front(q) \in Seq(S)
BY DEF Front

\* A suffix of a sequence has the elements of the sequence.
LEMMA SuffixType ==
  ASSUME NEW S, NEW q \in Seq(S), NEW n \in Nat, n <= Len(q)
  PROVE  SubSeq(q, n + 1, Len(q)) \in Seq(S)
OBVIOUS

LEMMA SuffixElements ==
  ASSUME NEW S, NEW q \in Seq(S), NEW n \in Nat, n <= Len(q),
         NEW i \in 1..Len(SubSeq(q, n + 1, Len(q)))
  PROVE  i + n \in 1..Len(q) /\ SubSeq(q, n + 1, Len(q))[i] = q[i + n]
OBVIOUS

\* A prefix grows by the element after it, and what follows does not matter.
LEMMA PrefixGrows ==
  ASSUME NEW S, NEW q \in Seq(S), NEW n \in Nat, n < Len(q)
  PROVE  SubSeq(q, 1, n + 1) = Append(SubSeq(q, 1, n), q[n + 1])
OBVIOUS

LEMMA PrefixOfLonger ==
  ASSUME NEW S, NEW q \in Seq(S), NEW n \in Nat, n <= Len(q), NEW e \in S
  PROVE  SubSeq(Append(q, e), 1, n) = SubSeq(q, 1, n)
OBVIOUS

LEMMA RememberType ==
  ASSUME history \in Seq(Jobs), tracked \in SUBSET Jobs, NEW j \in Jobs, Remember(j)
  PROVE  history' \in Seq(Jobs) /\ tracked' \in SUBSET Jobs
<1> DEFINE longer   == Append(history, j)
           overflow == Len(longer) - HistorySize
<1>1. longer \in Seq(Jobs) /\ Len(longer) \in Nat /\ HistorySize \in Nat
  BY OrchestratorAssumption
<1>2. CASE overflow > 0
  <2>1. overflow \in Nat /\ overflow <= Len(longer)
    BY <1>1, <1>2
  <2>2. history' = SubSeq(longer, overflow + 1, Len(longer))
    BY <1>2 DEF Remember
  <2>3. tracked' \subseteq tracked
    BY <1>2 DEF Remember
  <2> HIDE DEF longer
  <2> QED
    BY <1>1, <2>1, <2>2, <2>3, SuffixType
<1>3. CASE ~(overflow > 0)
  BY <1>1, <1>3 DEF Remember
<1> QED
  BY <1>2, <1>3

\* The workers that hold a job form a finite set, and so does the queue.
LEMMA CountsAreNumbers ==
  ASSUME TypeOK
  PROVE  /\ IsFiniteSet(queue) /\ Cardinality(queue) \in Nat
         /\ IsFiniteSet(Holding) /\ Cardinality(Holding) \in Nat
<1>1. queue \subseteq Jobs /\ Holding \subseteq Workers
  BY DEF TypeOK, Holding
<1>2. IsFiniteSet(queue) /\ IsFiniteSet(Holding)
  BY <1>1, FS_Subset, OrchestratorAssumption
<1> QED
  BY <1>2, FS_CardinalityType

\* put_nowait() and join() count the same item.
LEMMA EnqueueAccounts ==
  ASSUME AccountingInv, NEW j \in Jobs, Enqueue(j), held' = held,
         j \notin queue, \A w \in Holding : held[w] # j
  PROVE  ExactAccounting'
<1>1. Holding' = Holding
  BY DEF Holding
<1>2. Cardinality(queue') = Cardinality(queue) + 1
  BY FS_AddElement, CountsAreNumbers DEF AccountingInv, Enqueue
<1>3. unfinished' = Cardinality(queue') + Cardinality(Holding')
  BY <1>1, <1>2, CountsAreNumbers DEF AccountingInv, ExactAccounting, Enqueue, TypeOK
<1> QED
  BY <1>1, <1>3 DEF AccountingInv, ExactAccounting, Enqueue

\* task_done() is issued for an item that was counted, and for no other.
LEMMA TaskDoneAccounts ==
  ASSUME AccountingInv, NEW w \in Workers, w \in Holding,
         held' = [held EXCEPT ![w] = NoJob], unfinished' = unfinished - 1,
         queue' = queue
  PROVE  ExactAccounting' /\ unfinished' \in Nat
<1> USE DEF AccountingInv
<1>1. Holding' = Holding \ {w}
  BY DEF TypeOK, Holding
<1>2. Cardinality(Holding') = Cardinality(Holding) - 1 /\ Cardinality(Holding') \in Nat
  BY <1>1, FS_RemoveElement, FS_CardinalityType, CountsAreNumbers
<1>3. unfinished' = Cardinality(queue') + Cardinality(Holding')
  BY <1>2, CountsAreNumbers DEF ExactAccounting, TypeOK
<1>4. \A v \in Holding' : held'[v] = held[v] /\ v \in Holding
  BY <1>1 DEF TypeOK, Holding
<1>5. unfinished' \in Nat
  BY <1>2, <1>3, CountsAreNumbers
<1> QED
  BY <1>3, <1>4, <1>5 DEF ExactAccounting

\* A step that moves no job between its places keeps the accounts.
LEMMA PlacesKept ==
  ASSUME AccountingInv, UNCHANGED <<held, queue, blocked, unfinished>>,
         \A j \in Jobs : status[j] # "new" => status'[j] # "new"
  PROVE  OnePlace' /\ ExactAccounting'
<1>1. Holding' = Holding
  BY DEF Holding
<1>2. \A w \in Holding : held[w] \in Jobs
  BY DEF AccountingInv, TypeOK, Holding
<1> QED
  BY <1>1, <1>2 DEF AccountingInv, TypeOK, OnePlace, ExactAccounting

(***************************************************************************)
(* Type correctness and the accounting of the queue.                       *)
(***************************************************************************)

LEMMA AccountingInit == Init => AccountingInv
<1> SUFFICES ASSUME Init PROVE AccountingInv
  OBVIOUS
<1>1. TypeOK
  <2>1. registered \in Seq(Services) /\ started \in Seq(Services) /\ history \in Seq(Jobs)
    BY OrchestratorAssumption DEF Init
  <2>2. cursor \in Nat /\ starts \in 0..MaxStarts /\ unfinished \in Nat /\ sequence \in Nat
    BY OrchestratorAssumption DEF Init
  <2>3. /\ seqOf \in [Jobs -> Nat] /\ status \in [Jobs -> Status]
        /\ waiter \in [Jobs -> {"none", "waiting", "unknown", "lost"} \union Status]
    BY DEF Init, Status
  <2>4. /\ stopper \in [Stoppers -> {"idle", "drain", "gather", "services"}]
        /\ awaited \in [Stoppers -> SUBSET Workers]
        /\ wpc \in [Workers -> {"off", "fresh", "idle"} \union Busy]
        /\ held \in [Workers -> Jobs \union {NoJob}]
        /\ released \in SUBSET Stoppers /\ owed \in [Stoppers -> SUBSET Jobs]
    BY DEF Init
  <2>5. servicesFirst \in BOOLEAN
    BY OrchestratorAssumption DEF Init
  <2> QED
    BY <2>1, <2>2, <2>3, <2>4, <2>5 DEF Init, TypeOK
<1>2. Holding = {} /\ HeldWhileBusy /\ OnePlace
  BY DEF Init, Holding, HeldWhileBusy, OnePlace, Busy
<1>3. ExactAccounting
  BY <1>2, FS_EmptySet DEF Init, ExactAccounting
<1> QED
  BY <1>1, <1>2, <1>3 DEF AccountingInv

\* start(), register_service() and the unwinding of a failed start.
LEMMA AccountingStart ==
  ASSUME AccountingInv, Start \/ StarterStep \/ \E s \in Services : Register(s)
  PROVE  AccountingInv'
<1> USE DEF AccountingInv
<1>1. /\ UNCHANGED <<held, queue, blocked, unfinished, status, cancelled>>
      /\ \A w \in Workers : wpc'[w] = wpc[w] \/ (wpc[w] = "off" /\ wpc'[w] = "fresh")
      /\ wpc' \in [Workers -> {"off", "fresh", "idle"} \union Busy]
      /\ listed' \in SUBSET Workers
  <2>1. pool' = pool \/ SpawnWorkers
    BY DEF Start, StarterStep, ServiceUp, ServiceFails, Unwind, StartEnds, Register, pool
  <2>2. UNCHANGED <<intake, ledger>>
    BY DEF Start, StarterStep, ServiceUp, ServiceFails, Unwind, StartEnds, Register
  <2> QED
    BY <2>1, <2>2 DEF SpawnWorkers, TypeOK, pool, intake, ledger
<1>2. TypeOK'
  <2>1. CASE Start
    <3>1. starts' \in 0..MaxStarts
      BY <2>1, OrchestratorAssumption DEF Start, TypeOK
    <3> QED
      BY <2>1, <3>1, <1>1 DEF Start, TypeOK, stopping, intake, ledger
  <2>2. CASE ServiceUp
    <3>1. started' \in Seq(Services) /\ cursor' \in Nat
      BY <2>2 DEF ServiceUp, TypeOK
    <3> QED
      BY <2>2, <3>1, <1>1 DEF ServiceUp, TypeOK, stopping, intake, ledger, pool
  <2>3. CASE ServiceFails \/ Unwind
    <3>1. started' \in Seq(Services) /\ starter' \in {"idle", "unwind"}
      BY <2>3, FrontType DEF ServiceFails, Unwind, UnwindNext, TypeOK
    <3> QED
      BY <2>3, <3>1, <1>1 DEF ServiceFails, Unwind, TypeOK, stopping, intake, ledger
  <2>4. CASE StartEnds
    BY <2>4, <1>1 DEF StartEnds, TypeOK, stopping, intake, ledger
  <2>5. ASSUME NEW s \in Services, Register(s) PROVE TypeOK'
    BY <2>5, <1>1 DEF Register, TypeOK, stopping, intake, ledger, pool
  <2> QED
    BY <2>1, <2>2, <2>3, <2>4, <2>5 DEF StarterStep
<1>3. HeldWhileBusy'
  BY <1>1 DEF HeldWhileBusy, Busy
<1> QED
  BY <1>1, <1>2, <1>3, PlacesKept

\* submit(), its back-pressure, and wait_for().
LEMMA AccountingJob ==
  ASSUME AccountingInv, NEW j \in Jobs, JobStep(j)
  PROVE  AccountingInv'
<1> USE DEF AccountingInv
<1>1. CASE Submit(j)
  <2>1. j \notin queue /\ j \notin blocked /\ \A w \in Holding : held[w] # j
    BY <1>1 DEF Submit, OnePlace
  <2>2. TypeOK' /\ HeldWhileBusy'
    BY <1>1 DEF Submit, Enqueue, TypeOK, HeldWhileBusy, Status, lifecycle, stopping, pool
  <2>3. Holding' = Holding /\ held' = held
    BY <1>1 DEF Submit, pool, Holding
  <2>4. OnePlace'
    BY <1>1, <2>1, <2>3 DEF Submit, Enqueue, OnePlace, TypeOK, Holding
  <2>5. ExactAccounting'
    <3>1. CASE HasRoom
      BY <1>1, <3>1, <2>1, <2>3, EnqueueAccounts DEF Submit
    <3>2. CASE ~HasRoom
      BY <1>1, <3>2, <2>3 DEF Submit, ExactAccounting
    <3> QED
      BY <3>1, <3>2
  <2> QED
    BY <2>2, <2>4, <2>5
<1>2. CASE PutUnblocks(j)
  <2>1. j \notin queue /\ \A w \in Holding : held[w] # j
    BY <1>2 DEF PutUnblocks, OnePlace
  <2>2. TypeOK' /\ HeldWhileBusy'
    BY <1>2 DEF PutUnblocks, Enqueue, TypeOK, HeldWhileBusy, lifecycle, stopping, pool, ledger
  <2>3. Holding' = Holding /\ held' = held
    BY <1>2 DEF PutUnblocks, pool, Holding
  <2>4. OnePlace'
    BY <1>2, <2>1, <2>3 DEF PutUnblocks, Enqueue, OnePlace, TypeOK, ledger
  <2>5. ExactAccounting'
    BY <1>2, <2>1, <2>3, EnqueueAccounts DEF PutUnblocks
  <2> QED
    BY <2>2, <2>4, <2>5
<1>3. CASE SubmitAbandoned(j)
  <2>1. TypeOK' /\ HeldWhileBusy'
    BY <1>3 DEF SubmitAbandoned, TypeOK, HeldWhileBusy, lifecycle, stopping, pool, ledger
  <2>2. Holding' = Holding
    BY <1>3 DEF SubmitAbandoned, pool, Holding
  <2> QED
    BY <1>3, <2>1, <2>2 DEF SubmitAbandoned, OnePlace, ExactAccounting, pool, ledger
<1>4. CASE WaitFor(j) \/ WaitReturns(j)
  <2>1. TypeOK' /\ HeldWhileBusy'
    BY <1>4 DEF WaitFor, WaitReturns, TypeOK, HeldWhileBusy,
                lifecycle, stopping, pool, intake, ledger
  <2> QED
    BY <1>4, <2>1, PlacesKept DEF WaitFor, WaitReturns, pool, intake, ledger
<1> QED
  BY <1>1, <1>2, <1>3, <1>4 DEF JobStep

\* The worker loop: boot, get, run, report.
LEMMA AccountingWork ==
  ASSUME AccountingInv, NEW w \in Workers,
         \/ Boot(w) \/ RunAgent(w) \/ Reported(w)
         \/ \E j \in Jobs : Get(w, j)
         \/ \E outcome \in {"succeeded", "failed"} : AgentReturns(w, outcome)
  PROVE  AccountingInv'
<1> USE DEF AccountingInv
<1>1. CASE Boot(w) \/ RunAgent(w)
  <2>1. TypeOK' /\ HeldWhileBusy'
    <3>1. CASE Boot(w)
      BY <3>1 DEF Boot, TypeOK, HeldWhileBusy, Busy, lifecycle, stopping, intake, ledger
    <3>2. CASE RunAgent(w)
      BY <3>2 DEF RunAgent, TypeOK, HeldWhileBusy, Busy, lifecycle, stopping, intake, ledger
    <3> QED
      BY <1>1, <3>1, <3>2
  <2> QED
    BY <1>1, <2>1, PlacesKept DEF Boot, RunAgent, intake, ledger
<1>2. CASE Reported(w)
  <2>1. w \in Holding
    BY <1>2 DEF Reported, HeldWhileBusy, Busy, Holding
  <2>2. ExactAccounting' /\ unfinished' \in Nat
    BY <1>2, <2>1, TaskDoneAccounts DEF Reported, TaskDone
  <2>5. released' \in SUBSET Stoppers /\ owed' = owed
    BY <1>2 DEF Reported, TaskDone, TypeOK, Joining
  <2>3. TypeOK' /\ HeldWhileBusy'
    BY <1>2, <2>2, <2>5 DEF Reported, TaskDone, TypeOK, HeldWhileBusy, Busy,
                      lifecycle, stopping, ledger
  <2>4. OnePlace'
    BY <1>2 DEF Reported, TaskDone, TypeOK, OnePlace, Holding, ledger
  <2> QED
    BY <2>2, <2>3, <2>4
<1>3. ASSUME NEW j \in Jobs, Get(w, j) PROVE AccountingInv'
  <2>1. held[w] = NoJob /\ w \notin Holding /\ j \in queue /\ j # NoJob
    BY <1>3, OrchestratorAssumption DEF Get, HeldWhileBusy, Busy, Holding
  <2>2. TypeOK' /\ HeldWhileBusy'
    BY <1>3, <2>1 DEF Get, TypeOK, HeldWhileBusy, Busy, Status, lifecycle, stopping
  <2>3. Holding' = Holding \union {w} /\ \A v \in Holding : held'[v] = held[v] /\ v # w
    BY <1>3, <2>1 DEF Get, TypeOK, Holding
  <2>4. held'[w] = j
    BY <1>3 DEF Get, TypeOK
  <2>5. OnePlace'
    BY <1>3, <2>1, <2>3, <2>4 DEF Get, TypeOK, OnePlace
  <2>6. ExactAccounting'
    <3>1. /\ Cardinality(queue') = Cardinality(queue) - 1 /\ Cardinality(queue) \in Nat
          /\ Cardinality(Holding') = Cardinality(Holding) + 1 /\ Cardinality(Holding) \in Nat
      BY <1>3, <2>1, <2>3, CountsAreNumbers, FS_AddElement, FS_RemoveElement DEF Get
    <3>2. unfinished' = Cardinality(queue') + Cardinality(Holding')
      BY <1>3, <3>1 DEF Get, ExactAccounting, TypeOK
    <3>3. \A v \in Holding : held[v] # j
      BY <2>1 DEF ExactAccounting
    <3> QED
      BY <1>3, <2>3, <2>4, <3>2, <3>3 DEF Get, ExactAccounting
  <2> QED
    BY <2>2, <2>5, <2>6
<1>4. ASSUME NEW outcome \in {"succeeded", "failed"}, AgentReturns(w, outcome)
      PROVE  AccountingInv'
  <2>1. held[w] \in Jobs
    BY <1>4 DEF AgentReturns, HeldWhileBusy, Busy, TypeOK
  <2>2. history' \in Seq(Jobs) /\ tracked' \in SUBSET Jobs
    BY <1>4, <2>1, RememberType DEF AgentReturns, TypeOK
  <2>3. signalled' \in SUBSET Jobs
    BY <1>4, <2>2 DEF AgentReturns, Signal, TypeOK
  <2>4. TypeOK' /\ HeldWhileBusy'
    BY <1>4, <2>2, <2>3 DEF AgentReturns, TypeOK, HeldWhileBusy, Busy, Status, Terminal,
                            lifecycle, stopping, intake
  <2>5. \A j \in Jobs : status[j] # "new" => status'[j] # "new"
    BY <1>4 DEF AgentReturns, TypeOK
  <2> QED
    BY <1>4, <2>4, <2>5, PlacesKept DEF AgentReturns, intake
<1> QED
  BY <1>1, <1>2, <1>3, <1>4

\* Cancellation: the handler and the single task_done() of the finally clause.
LEMMA AccountingCancel ==
  ASSUME AccountingInv, NEW w \in Workers,
         \/ CancelledIdle(w) \/ CancelledStarting(w)
         \/ CancelledRunning(w) \/ CancelledReporting(w)
  PROVE  AccountingInv'
<1> USE DEF AccountingInv
<1>1. CASE CancelledIdle(w)
  <2>1. TypeOK' /\ HeldWhileBusy'
    BY <1>1 DEF CancelledIdle, TypeOK, HeldWhileBusy, Busy, lifecycle, stopping, intake, ledger
  <2> QED
    BY <1>1, <2>1, PlacesKept DEF CancelledIdle, intake, ledger
<1>2. CASE CancelledStarting(w) \/ CancelledRunning(w) \/ CancelledReporting(w)
  <2>1. w \in Holding /\ held[w] \in Jobs /\ CancelHeld(w)
    BY <1>2 DEF CancelledStarting, CancelledRunning, CancelledReporting,
                HeldWhileBusy, Busy, Holding, TypeOK
  <2>2. history' \in Seq(Jobs) /\ tracked' \in SUBSET Jobs
    BY <1>2, <2>1, RememberType
    DEF CancelledStarting, CancelledRunning, CancelledReporting, TypeOK
  <2>3. signalled' \in SUBSET Jobs
    BY <1>2, <2>2 DEF CancelledStarting, CancelledRunning, CancelledReporting, Signal, TypeOK
  <2>4. ExactAccounting' /\ unfinished' \in Nat
    BY <2>1, TaskDoneAccounts DEF CancelHeld, TaskDone
  <2>5. /\ status' \in [Jobs -> Status]
        /\ \A j \in Jobs : status[j] # "new" => status'[j] # "new"
    BY <2>1 DEF CancelHeld, TypeOK, Status, Terminal
  <2>8. released' \in SUBSET Stoppers /\ owed' = owed
    BY <2>1 DEF CancelHeld, TaskDone, TypeOK, Joining
  <2>6. TypeOK' /\ HeldWhileBusy'
    BY <2>1, <2>2, <2>3, <2>4, <2>5, <2>8
    DEF CancelHeld, TaskDone, TypeOK, HeldWhileBusy, Busy, lifecycle, stopping
  <2>7. OnePlace'
    BY <2>1, <2>5 DEF CancelHeld, TaskDone, TypeOK, OnePlace, Holding
  <2> QED
    BY <2>4, <2>6, <2>7
<1> QED
  BY <1>1, <1>2

\* stop() only reads the queue; its sweep closes records.
LEMMA AccountingStop ==
  ASSUME AccountingInv, NEW s \in Stoppers,
         StopperStep(s) \/ \E drain \in BOOLEAN : Stop(s, drain)
  PROVE  AccountingInv'
<1> USE DEF AccountingInv
<1>1. ASSUME StopNextService(s)
      PROVE  /\ running' \in BOOLEAN /\ started' \in Seq(Services)
             /\ stopper' \in [Stoppers -> {"idle", "drain", "gather", "services"}]
             /\ status' \in [Jobs -> Status] /\ tracked' = tracked /\ history' = history
             /\ signalled' \in SUBSET Jobs
             /\ \A j \in Jobs : status[j] # "new" => status'[j] # "new"
  <2>1. CASE started = <<>>
    <3>1. Sweep(s) /\ UNCHANGED started
      BY <1>1, <2>1 DEF StopNextService
    <3>2. running' \in BOOLEAN /\ started' \in Seq(Services)
          /\ stopper' \in [Stoppers -> {"idle", "drain", "gather", "services"}]
          /\ tracked' = tracked /\ history' = history
      BY <3>1 DEF Sweep, TypeOK
    <3>3. signalled' \in SUBSET Jobs
      BY <3>1 DEF Sweep, Signal, TypeOK
    <3>4. /\ status' \in [Jobs -> Status]
          /\ \A j \in Jobs : status[j] # "new" => status'[j] # "new"
      BY <3>1 DEF Sweep, TypeOK, Status, Terminal
    <3> QED
      BY <3>2, <3>3, <3>4
  <2>2. CASE started # <<>>
    <3>1. /\ stopper' = [stopper EXCEPT ![s] = "services"] /\ started' = Front(started)
          /\ UNCHANGED <<running, status, tracked, history, signalled>>
      BY <1>1, <2>2 DEF StopNextService, ledger
    <3>2. started' \in Seq(Services)
      BY <2>2, <3>1, FrontType DEF TypeOK
    <3> QED
      BY <3>1, <3>2 DEF TypeOK
  <2> QED
    BY <2>1, <2>2
<1>2. ASSUME CancelWorkers(s)
      PROVE  /\ running' \in BOOLEAN /\ started' \in Seq(Services)
             /\ stopper' \in [Stoppers -> {"idle", "drain", "gather", "services"}]
             /\ status' \in [Jobs -> Status] /\ tracked' = tracked /\ history' = history
             /\ signalled' \in SUBSET Jobs
             /\ \A j \in Jobs : status[j] # "new" => status'[j] # "new"
             /\ awaited' \in [Stoppers -> SUBSET Workers] /\ cancelled' \in SUBSET Workers
  BY <1>1, <1>2 DEF CancelWorkers, TypeOK, ledger
<1>3. /\ TypeOK' /\ HeldWhileBusy'
      /\ UNCHANGED <<held, queue, blocked, unfinished>>
      /\ \A j \in Jobs : status[j] # "new" => status'[j] # "new"
  <2>1. CASE Drained(s) \/ GraceElapsed(s)
    <3>1. DrainOver(s)
      BY <2>1 DEF Drained, GraceElapsed
    <3>2. CancelWorkers(s) /\ released' \in SUBSET Stoppers /\ owed' \in [Stoppers -> SUBSET Jobs]
      BY <3>1 DEF DrainOver, TypeOK
    <3> QED
      BY <3>1, <3>2, <1>2 DEF DrainOver, TypeOK, HeldWhileBusy
  <2>2. CASE Gathered(s)
    BY <2>2, <1>1 DEF Gathered, TypeOK, HeldWhileBusy, intake
  <2>3. CASE ServiceStopped(s)
    BY <2>3, <1>1 DEF ServiceStopped, TypeOK, HeldWhileBusy, intake, pool
  <2>4. ASSUME NEW drain \in BOOLEAN, Stop(s, drain)
        PROVE  /\ TypeOK' /\ HeldWhileBusy'
               /\ UNCHANGED <<held, queue, blocked, unfinished>>
               /\ \A j \in Jobs : status[j] # "new" => status'[j] # "new"
    <3>1. CASE drain
      <4>1. queue \union {held[w] : w \in Holding} \subseteq Jobs
        BY DEF TypeOK, Holding
      <4>2. released' \in SUBSET Stoppers /\ owed' \in [Stoppers -> SUBSET Jobs]
        BY <2>4, <3>1, <4>1 DEF Stop, TypeOK
      <4> QED
        BY <2>4, <3>1, <4>2 DEF Stop, TypeOK, HeldWhileBusy, ledger
    <3>2. CASE ~drain
      BY <2>4, <3>2, <1>2 DEF Stop, TypeOK, HeldWhileBusy, intake
    <3> QED
      BY <3>1, <3>2
  <2> QED
    BY <2>1, <2>2, <2>3, <2>4 DEF StopperStep
<1> QED
  BY <1>3, PlacesKept

LEMMA AccountingStep == AccountingInv /\ [Next]_vars => AccountingInv'
<1> SUFFICES ASSUME AccountingInv, [Next]_vars PROVE AccountingInv'
  OBVIOUS
<1>1. CASE Start \/ StarterStep \/ \E s \in Services : Register(s)
  BY <1>1, AccountingStart
<1>2. CASE \E j \in Jobs : JobStep(j)
  BY <1>2, AccountingJob
<1>3. CASE \E w \in Workers : WorkerStep(w)
  BY <1>3, AccountingWork, AccountingCancel DEF WorkerStep
<1>4. CASE \E s \in Stoppers : StopperStep(s) \/ \E drain \in BOOLEAN : Stop(s, drain)
  BY <1>4, AccountingStop
<1>5. CASE UNCHANGED vars
  BY <1>5 DEF vars, lifecycle, stopping, pool, intake, ledger, AccountingInv, TypeOK,
              HeldWhileBusy, OnePlace, ExactAccounting, Holding
<1> QED
  BY <1>1, <1>2, <1>3, <1>4, <1>5 DEF Next

LEMMA AccountingInvariant == Spec => []AccountingInv
BY AccountingInit, AccountingStep, PTL DEF Spec

\* Every variable keeps its type; in particular the count of unfinished items
\* never falls below zero, where asyncio's task_done() would raise.
THEOREM TypeCorrect == Spec => []TypeOK
<1>1. AccountingInv => TypeOK
  BY DEF AccountingInv
<1> QED
  BY <1>1, AccountingInvariant, PTL

\* join() waits for exactly the items that are queued or with a worker, and no
\* job is in two places, whatever is cancelled, retried, abandoned or stopped.
THEOREM QueueAccounted == Spec => []ExactAccounting
<1>1. AccountingInv => ExactAccounting
  BY DEF AccountingInv
<1> QED
  BY <1>1, AccountingInvariant, PTL

(***************************************************************************)
(* The bounded history: no record is evicted that is still needed.         *)
(***************************************************************************)

\* _remember keeps and evicts only what was remembered, and with room for one
\* record it does not evict the job it is called for.
LEMMA RememberEvicts ==
  ASSUME history \in Seq(Jobs), tracked \in SUBSET Jobs, NEW j \in Jobs, Remember(j)
  PROVE  /\ tracked' \subseteq tracked
         /\ tracked \ tracked' \subseteq Recorded \union {j}
         /\ Recorded' \subseteq Recorded \union {j}
         /\ HistorySize >= 1 /\ j \in tracked /\ j \notin Recorded => j \in tracked'
<1> DEFINE longer   == Append(history, j)
           overflow == Len(longer) - HistorySize
<1>1. /\ longer \in Seq(Jobs) /\ Len(longer) = Len(history) + 1 /\ HistorySize \in Nat
      /\ Len(history) \in Nat /\ overflow \in Int
  BY OrchestratorAssumption
<1>2. \A i \in 1..Len(longer) : longer[i] \in Recorded \union {j}
  BY DEF Recorded
<1>3. \A i \in 1..Len(longer) : i < Len(longer) => longer[i] \in Recorded
  BY DEF Recorded
<1>4. CASE overflow > 0
  <2>1. /\ overflow \in Nat /\ overflow <= Len(longer)
        /\ HistorySize >= 1 => overflow < Len(longer)
    BY <1>1, <1>4
  <2>2. /\ history' = SubSeq(longer, overflow + 1, Len(longer))
        /\ tracked' = tracked \ {longer[i] : i \in 1..overflow}
    BY <1>4 DEF Remember
  <2>3. \A i \in 1..overflow : longer[i] \in Recorded \union {j}
    BY <1>1, <1>2, <2>1
  <2>4. HistorySize >= 1 => \A i \in 1..overflow : longer[i] \in Recorded
    BY <1>1, <1>3, <2>1
  <2> HIDE DEF longer, overflow
  <2>5. \A i \in 1..Len(history') : history'[i] \in Recorded \union {j}
    BY <1>1, <1>2, <2>1, <2>2, SuffixElements
  <2>6. Recorded' \subseteq Recorded \union {j}
    BY <2>5 DEF Recorded
  <2> QED
    BY <2>2, <2>3, <2>4, <2>6
<1>5. CASE ~(overflow > 0)
  <2>1. history' = longer /\ tracked' = tracked
    BY <1>5 DEF Remember
  <2> HIDE DEF longer
  <2>2. Recorded' \subseteq Recorded \union {j}
    BY <1>2, <2>1 DEF Recorded
  <2> QED
    BY <2>1, <2>2
<1> QED
  BY <1>4, <1>5

LEMMA RecordsInit == Init => RecordsInv
BY DEF Init, RecordsInv, InHand, Recorded

\* Steps that remember nothing and take no job in hand.
LEMMA RecordsSame ==
  ASSUME TypeOK, RecordsInv, UNCHANGED <<tracked, history>>, InHand' \subseteq InHand,
         \A j \in Jobs : status[j] # "new" => status'[j] # "new"
  PROVE  RecordsInv'
<1>1. Recorded' = Recorded /\ Recorded \subseteq Jobs
  BY DEF Recorded, TypeOK
<1> QED
  BY <1>1 DEF RecordsInv

\* A worker remembers the one job it has run, as it lets go of it.
LEMMA RecordsRemembered ==
  ASSUME AccountingInv, RecordsInv, NEW w \in Workers, wpc[w] = "running", Remember(held[w]),
         UNCHANGED <<queue, blocked>>, wpc' = [wpc EXCEPT ![w] = wpc'[w]],
         wpc'[w] \notin {"started", "running"},
         \A v \in Workers \ {w} : held'[v] = held[v],
         \A j \in Jobs : status[j] # "new" => status'[j] # "new"
  PROVE  RecordsInv'
<1> USE DEF AccountingInv
<1>1. held[w] \in Jobs /\ w \in Holding /\ held[w] \notin queue /\ held[w] \notin blocked
      /\ status[held[w]] # "new"
  BY DEF TypeOK, HeldWhileBusy, OnePlace, ExactAccounting, Holding, Busy
<1>2. \A v \in Workers \ {w} :
        wpc[v] \in {"started", "running"} => held[v] # held[w]
  BY <1>1 DEF HeldWhileBusy, ExactAccounting, Holding, Busy
<1>3. \A v \in Workers \ {w} : wpc'[v] = wpc[v]
  BY DEF TypeOK
<1>4. InHand' \subseteq InHand \ {held[w]}
  BY <1>1, <1>2, <1>3 DEF InHand
<1>5. /\ tracked \ tracked' \subseteq Recorded \union {held[w]}
      /\ Recorded' \subseteq Recorded \union {held[w]}
  BY <1>1, RememberEvicts DEF TypeOK
<1>6. Recorded \subseteq Jobs
  BY DEF Recorded, TypeOK
<1> QED
  BY <1>1, <1>4, <1>5, <1>6 DEF RecordsInv

LEMMA RecordsJob ==
  ASSUME AccountingInv, RecordsInv, NEW j \in Jobs, JobStep(j)
  PROVE  RecordsInv'
<1> USE DEF AccountingInv
<1>1. CASE Submit(j)
  <2>1. InHand' \subseteq InHand \union {j}
    BY <1>1 DEF Submit, Enqueue, InHand, pool
  <2>2. Recorded' = Recorded /\ Recorded \subseteq Jobs /\ j \notin Recorded
    BY <1>1 DEF Submit, Recorded, RecordsInv, TypeOK
  <2>3. tracked' = tracked \union {j} /\ \A k \in Jobs : status[k] # "new" => status'[k] # "new"
    BY <1>1 DEF Submit, TypeOK
  <2> QED
    BY <2>1, <2>2, <2>3 DEF RecordsInv
<1>2. CASE PutUnblocks(j) \/ SubmitAbandoned(j) \/ WaitFor(j) \/ WaitReturns(j)
  <2>1. InHand' \subseteq InHand /\ UNCHANGED ledger
    BY <1>2 DEF PutUnblocks, SubmitAbandoned, WaitFor, WaitReturns, Enqueue, InHand, pool, intake
  <2> QED
    BY <2>1, RecordsSame DEF ledger
<1> QED
  BY <1>1, <1>2 DEF JobStep

LEMMA RecordsWork ==
  ASSUME AccountingInv, RecordsInv, NEW w \in Workers, WorkerStep(w)
  PROVE  RecordsInv'
<1> USE DEF AccountingInv
<1>1. CASE Boot(w) \/ RunAgent(w) \/ Reported(w) \/ CancelledIdle(w)
  <2>1. UNCHANGED <<ledger, queue, blocked>>
    BY <1>1 DEF Boot, RunAgent, Reported, CancelledIdle, intake
  <2>2. \A v \in Workers : wpc'[v] \in {"started", "running"} =>
          wpc[v] \in {"started", "running"} /\ held'[v] = held[v]
    BY <1>1 DEF Boot, RunAgent, Reported, CancelledIdle, TaskDone, TypeOK
  <2>3. InHand' \subseteq InHand
    BY <2>1, <2>2 DEF InHand
  <2> QED
    BY <2>1, <2>3, RecordsSame DEF ledger
<1>2. ASSUME NEW j \in Jobs, Get(w, j) PROVE RecordsInv'
  <2>1. /\ \A v \in Workers : held'[v] = IF v = w THEN j ELSE held[v]
        /\ \A v \in Workers \ {w} : wpc'[v] = wpc[v]
    BY <1>2 DEF Get, TypeOK
  <2>2. InHand' \subseteq InHand
    BY <1>2, <2>1 DEF Get, InHand
  <2>3. UNCHANGED <<tracked, history>> /\ \A k \in Jobs : status[k] # "new" => status'[k] # "new"
    BY <1>2 DEF Get, TypeOK
  <2> QED
    BY <2>2, <2>3, RecordsSame
<1>3. ASSUME NEW outcome \in {"succeeded", "failed"}, AgentReturns(w, outcome) PROVE RecordsInv'
  <2>1. /\ wpc[w] = "running" /\ Remember(held[w])
        /\ UNCHANGED <<held, queue, blocked>>
        /\ wpc' = [wpc EXCEPT ![w] = wpc'[w]] /\ wpc'[w] = "reporting"
    BY <1>3 DEF AgentReturns, intake, TypeOK
  <2>2. \A k \in Jobs : status[k] # "new" => status'[k] # "new"
    BY <1>3 DEF AgentReturns, TypeOK
  <2> QED
    BY <2>1, <2>2, RecordsRemembered
<1>4. ASSUME CancelHeld(w)
      PROVE  /\ UNCHANGED <<queue, blocked>>
             /\ wpc' = [wpc EXCEPT ![w] = wpc'[w]] /\ wpc'[w] = "off"
             /\ \A v \in Workers \ {w} : held'[v] = held[v]
             /\ \A k \in Jobs : status[k] # "new" => status'[k] # "new"
  BY <1>4 DEF CancelHeld, TaskDone, TypeOK
<1>5. CASE CancelledStarting(w) \/ CancelledReporting(w)
  <2>1. CancelHeld(w) /\ UNCHANGED <<tracked, history>>
    BY <1>5 DEF CancelledStarting, CancelledReporting
  <2>2. \A v \in Workers \ {w} : wpc'[v] = wpc[v]
    BY <1>4, <2>1 DEF TypeOK
  <2>3. InHand' \subseteq InHand
    BY <1>4, <2>1, <2>2 DEF InHand
  <2> QED
    BY <1>4, <2>1, <2>3, RecordsSame
<1>6. CASE CancelledRunning(w)
  <2>1. CancelHeld(w) /\ wpc[w] = "running" /\ Remember(held[w])
    BY <1>6 DEF CancelledRunning
  <2> QED
    BY <1>4, <2>1, RecordsRemembered
<1> QED
  BY <1>1, <1>2, <1>3, <1>5, <1>6 DEF WorkerStep

LEMMA RecordsStep == AccountingInv /\ RecordsInv /\ [Next]_vars => RecordsInv'
<1> SUFFICES ASSUME AccountingInv, RecordsInv, [Next]_vars PROVE RecordsInv'
  OBVIOUS
<1> USE DEF AccountingInv
<1>1. CASE Start \/ StarterStep \/ \E s \in Services : Register(s)
  <2>1. UNCHANGED <<intake, ledger>> /\ (pool' = pool \/ SpawnWorkers)
    BY <1>1 DEF Start, StarterStep, ServiceUp, ServiceFails, Unwind, StartEnds, Register, pool
  <2>2. UNCHANGED <<queue, blocked, held>> /\ \A w \in Workers :
          wpc'[w] \in {"started", "running"} => wpc[w] = wpc'[w]
    BY <2>1 DEF pool, SpawnWorkers, intake, TypeOK
  <2>3. InHand' \subseteq InHand
    BY <2>2 DEF InHand
  <2> QED
    BY <2>1, <2>3, RecordsSame DEF ledger
<1>2. CASE \E j \in Jobs : JobStep(j)
  BY <1>2, RecordsJob
<1>3. CASE \E w \in Workers : WorkerStep(w)
  BY <1>3, RecordsWork
<1>4. CASE \E s \in Stoppers : StopperStep(s) \/ \E drain \in BOOLEAN : Stop(s, drain)
  <2>1. PICK s \in Stoppers : StopperStep(s) \/ \E drain \in BOOLEAN : Stop(s, drain)
    BY <1>4
  <2>2. UNCHANGED <<queue, blocked, held, wpc>>
    BY <2>1 DEF StopperStep, DrainOver, Drained, GraceElapsed, Gathered, ServiceStopped, Stop, intake, pool
  <2>3. UNCHANGED <<tracked, history>> /\ \A j \in Jobs : status[j] # "new" => status'[j] # "new"
    <3>1. UNCHANGED ledger \/ Sweep(s)
      BY <2>1 DEF StopperStep, DrainOver, Drained, GraceElapsed, Gathered, ServiceStopped, Stop,
                  CancelWorkers, StopNextService
    <3> QED
      BY <3>1 DEF Sweep, ledger, TypeOK
  <2>4. InHand' = InHand
    BY <2>2 DEF InHand
  <2> QED
    BY <2>3, <2>4, RecordsSame
<1>5. CASE UNCHANGED vars
  BY <1>5, RecordsSame DEF vars, pool, intake, ledger, InHand
<1> QED
  BY <1>1, <1>2, <1>3, <1>4, <1>5 DEF Next

\* For every bound of the history, and over any stops and restarts, the record of
\* a job that is queued or being run is there when _worker_loop looks it up.
THEOREM RecordsKept == Spec => []QueuedJobsTracked
<1>1. RecordsInv => QueuedJobsTracked
  BY DEF RecordsInv, InHand, QueuedJobsTracked
<1> QED
  BY <1>1, RecordsInit, AccountingInvariant, RecordsStep, PTL DEF Spec

(***************************************************************************)
(* A drain sees its jobs out.                                              *)
(***************************************************************************)

\* What a step does to a job that has entered the queue.
SeesOut(j) ==
  Entered(j) =>
    /\ Entered(j)'
    /\ Present(j) \/ status[j] \in Terminal => Present(j)' \/ status'[j] \in Terminal
    /\ ~Present(j) => ~Present(j)'

ReportsEnded == \A w \in Workers : wpc[w] = "reporting" => status[held[w]] \in Terminal

\* A step that leaves the drains alone keeps what they are there for.
LEMMA SeenOutKept ==
  ASSUME TypeOK, SeenOutInv, UNCHANGED <<stopper, owed>>,
         \A j \in Jobs : SeesOut(j), ReportsEnded',
         released' = released \/ (released' = released \union Joining /\ \A j \in Jobs : ~Present(j)')
  PROVE  SeenOutInv'
<1>1. Joining' = Joining /\ released' \subseteq Joining'
  BY DEF SeenOutInv, Joining
<1>2. ASSUME NEW s \in Joining, NEW j \in owed[s]
      PROVE  /\ Entered(j)' /\ (Present(j)' \/ status'[j] \in Terminal)
             /\ s \in released' => ~Present(j)'
  <2>1. j \in Jobs /\ s \in Stoppers
    BY <1>2 DEF TypeOK, Joining
  <2>2. SeesOut(j) /\ Entered(j) /\ (Present(j) \/ status[j] \in Terminal)
        /\ (s \in released => ~Present(j))
    BY <1>2, <2>1 DEF SeenOutInv
  <2>3. s \in released' => s \in released \/ ~Present(j)'
    BY <2>1
  <2> QED
    BY <2>2, <2>3 DEF SeesOut
<1> QED
  BY <1>1, <1>2 DEF SeenOutInv, ReportsEnded

\* Steps that move no job.
LEMMA SeesOutSame ==
  ASSUME TypeOK, UNCHANGED <<queue, blocked, held>>, NEW j \in Jobs,
         status'[j] = status[j] \/ status'[j] \in Terminal
  PROVE  SeesOut(j)
BY DEF SeesOut, Entered, Present, Holding, Terminal

LEMMA SeenOutJob ==
  ASSUME AccountingInv, SeenOutInv, NEW k \in Jobs, JobStep(k)
  PROVE  SeenOutInv'
<1> USE DEF AccountingInv
<1>1. /\ UNCHANGED <<stopper, owed, released, held, wpc>>
      /\ \A j \in Jobs : j # k => status'[j] = status[j]
      /\ status'[k] = status[k] \/ status[k] = "new"
  BY DEF JobStep, Submit, PutUnblocks, SubmitAbandoned, WaitFor, WaitReturns,
         stopping, pool, intake, ledger, TypeOK
<1>2. /\ status[k] = "new" \/ k \in blocked \/ (blocked' = blocked /\ queue' = queue)
      /\ status[k] = "new" => status'[k] \in {"new", "pending"}
      /\ queue' \subseteq queue \union {k} /\ queue \subseteq queue'
      /\ blocked' \subseteq blocked \union {k}
  BY DEF JobStep, Submit, PutUnblocks, SubmitAbandoned, WaitFor, WaitReturns, Enqueue,
         stopping, pool, intake, ledger, TypeOK
<1>3. Holding' = Holding
  BY <1>1 DEF Holding
<1>4. ASSUME NEW j \in Jobs PROVE SeesOut(j)
  BY <1>1, <1>2, <1>3 DEF SeesOut, Entered, Present
<1>5. ReportsEnded'
  <2>1. \A w \in Workers : wpc[w] = "reporting" => held[w] \in Jobs /\ status[held[w]] # "new"
    BY DEF OnePlace, HeldWhileBusy, Busy, Holding, TypeOK
  <2> QED
    BY <1>1, <2>1 DEF ReportsEnded, SeenOutInv
<1> QED
  BY <1>1, <1>4, <1>5, SeenOutKept

LEMMA SeenOutWork ==
  ASSUME AccountingInv, SeenOutInv, NEW w \in Workers,
         \/ Boot(w) \/ RunAgent(w) \/ CancelledIdle(w)
         \/ \E j \in Jobs : Get(w, j)
         \/ \E outcome \in {"succeeded", "failed"} : AgentReturns(w, outcome)
  PROVE  SeenOutInv'
<1> USE DEF AccountingInv
<1>1. CASE Boot(w) \/ RunAgent(w) \/ CancelledIdle(w)
  <2>1. /\ UNCHANGED <<stopper, owed, released, queue, blocked, held, status>>
        /\ \A v \in Workers : wpc'[v] = "reporting" => wpc[v] = "reporting"
    BY <1>1 DEF Boot, RunAgent, CancelledIdle, stopping, intake, ledger, TypeOK
  <2>2. (\A j \in Jobs : SeesOut(j)) /\ ReportsEnded'
    BY <2>1, SeesOutSame DEF ReportsEnded, SeenOutInv
  <2> QED
    BY <2>1, <2>2, SeenOutKept
<1>2. ASSUME NEW k \in Jobs, Get(w, k) PROVE SeenOutInv'
  <2>1. /\ UNCHANGED <<stopper, owed, released, blocked>>
        /\ queue' = queue \ {k} /\ k \in queue /\ k # NoJob
        /\ held'[w] = k /\ held[w] = NoJob
        /\ \A v \in Workers \ {w} : held'[v] = held[v] /\ wpc'[v] = wpc[v]
        /\ wpc'[w] = "started" /\ status'[k] = "running"
        /\ \A j \in Jobs \ {k} : status'[j] = status[j]
    BY <1>2, OrchestratorAssumption DEF Get, TypeOK, stopping, HeldWhileBusy, Busy
  <2>2. Holding' = Holding \union {w} /\ w \notin Holding
    BY <2>1 DEF Holding
  <2>3. ASSUME NEW j \in Jobs PROVE SeesOut(j)
    <3>1. Present(j)' <=> Present(j)
      BY <2>1, <2>2 DEF Present, Holding
    <3> QED
      BY <2>1, <3>1 DEF SeesOut, Entered, Present
  <2>4. ReportsEnded'
    <3>1. \A v \in Workers : wpc[v] = "reporting" => held[v] \in Jobs /\ held[v] # k
      BY <2>1 DEF HeldWhileBusy, Busy, ExactAccounting, Holding, TypeOK
    <3> QED
      BY <2>1, <3>1 DEF ReportsEnded, SeenOutInv
  <2> QED
    BY <2>1, <2>3, <2>4, SeenOutKept
<1>3. ASSUME NEW outcome \in {"succeeded", "failed"}, AgentReturns(w, outcome) PROVE SeenOutInv'
  <2>1. /\ UNCHANGED <<stopper, owed, released, queue, blocked, held>>
        /\ \A v \in Workers \ {w} : wpc'[v] = wpc[v]
        /\ status' = [status EXCEPT ![held[w]] = outcome] /\ held[w] \in Jobs
    BY <1>3 DEF AgentReturns, TypeOK, stopping, intake, HeldWhileBusy, Busy
  <2>2. \A j \in Jobs : status'[j] = status[j] \/ status'[j] \in Terminal
    BY <2>1 DEF TypeOK, Terminal
  <2>3. status'[held[w]] \in Terminal
    BY <2>1 DEF TypeOK, Terminal
  <2>4. \A v \in Workers : wpc[v] = "reporting" => held[v] \in Jobs
    BY DEF HeldWhileBusy, Busy, TypeOK
  <2>5. ReportsEnded'
    BY <2>1, <2>2, <2>3, <2>4 DEF ReportsEnded, SeenOutInv, Terminal
  <2> QED
    BY <2>1, <2>2, <2>5, SeesOutSame, SeenOutKept
<1> QED
  BY <1>1, <1>2, <1>3

\* task_done() for a job that is over.
LEMMA SeenOutDone ==
  ASSUME AccountingInv, AccountingInv', SeenOutInv, NEW w \in Workers, w \in Holding,
         NEW pc \in {"off", "idle"}, TaskDone(w, pc),
         UNCHANGED <<stopper, owed, queue, blocked>>,
         status'[held[w]] \in Terminal,
         \A j \in Jobs : status'[j] = status[j] \/ status'[j] \in Terminal
  PROVE  SeenOutInv'
<1> USE DEF AccountingInv
<1>1. /\ Holding' = Holding \ {w} /\ held[w] \in Jobs
      /\ \A v \in Workers \ {w} : held'[v] = held[v] /\ wpc'[v] = wpc[v]
      /\ wpc'[w] = pc
  BY DEF TaskDone, TypeOK, Holding
<1>2. ASSUME NEW j \in Jobs PROVE SeesOut(j)
  <2>1. Present(j)' => Present(j)
    BY <1>1 DEF Present, Holding
  <2>2. Present(j) => Present(j)' \/ j = held[w]
    BY <1>1 DEF Present, Holding
  <2> QED
    BY <2>1, <2>2 DEF SeesOut, Entered, Terminal
<1>3. ReportsEnded'
  <2>1. \A v \in Workers : wpc[v] = "reporting" => held[v] \in Jobs
    BY DEF HeldWhileBusy, Busy, TypeOK
  <2> QED
    BY <1>1, <2>1 DEF ReportsEnded, SeenOutInv, Terminal
<1>4. unfinished' = 0 => \A j \in Jobs : ~Present(j)'
  <2>1. /\ IsFiniteSet(queue') /\ Cardinality(queue') \in Nat
        /\ IsFiniteSet(Holding') /\ Cardinality(Holding') \in Nat
    <3>1. queue' \subseteq Jobs /\ Holding' \subseteq Workers
      BY DEF TypeOK, Holding
    <3> QED
      BY <3>1, FS_Subset, FS_CardinalityType, OrchestratorAssumption
  <2>2. unfinished' = Cardinality(queue') + Cardinality(Holding')
    BY DEF ExactAccounting
  <2>3. unfinished' = 0 => Cardinality(queue') = 0 /\ Cardinality(Holding') = 0
    BY <2>1, <2>2
  <2>4. unfinished' = 0 => queue' = {} /\ Holding' = {}
    BY <2>1, <2>3, FS_EmptySet
  <2> QED
    BY <2>4 DEF Present
<1>5. released' = released \/ (released' = released \union Joining /\ \A j \in Jobs : ~Present(j)')
  BY <1>4 DEF TaskDone
<1> QED
  BY <1>2, <1>3, <1>5, SeenOutKept

LEMMA SeenOutLeaves ==
  ASSUME HistorySize >= 1, AccountingInv, AccountingInv', RecordsInv, SeenOutInv, NEW w \in Workers,
         Reported(w) \/ CancelledStarting(w) \/ CancelledRunning(w) \/ CancelledReporting(w)
  PROVE  SeenOutInv'
<1> USE DEF AccountingInv
<1>1. w \in Holding /\ held[w] \in Jobs
  BY DEF Reported, CancelledStarting, CancelledRunning, CancelledReporting,
         HeldWhileBusy, Busy, Holding, TypeOK
<1>2. CASE Reported(w)
  <2>1. /\ TaskDone(w, "idle") /\ UNCHANGED <<stopper, owed, queue, blocked, status>>
        /\ status[held[w]] \in Terminal
    BY <1>2 DEF Reported, stopping, ledger, SeenOutInv
  <2> QED
    BY <1>1, <2>1, SeenOutDone
<1>3. CASE CancelledStarting(w) \/ CancelledRunning(w) \/ CancelledReporting(w)
  <2>1. /\ CancelHeld(w) /\ TaskDone(w, "off")
        /\ UNCHANGED <<stopper, owed, queue, blocked>>
    BY <1>3 DEF CancelledStarting, CancelledRunning, CancelledReporting, CancelHeld, stopping
  <2>2. wpc[w] \in {"started", "running"} => held[w] \in tracked /\ held[w] \notin Recorded
    <3>1. wpc[w] \in {"started", "running"} => held[w] \in InHand
      BY DEF InHand
    <3>2. \A j \in Recorded : j \notin InHand
      BY DEF RecordsInv
    <3> QED
      BY <3>1, <3>2 DEF RecordsInv
  <2>3. wpc[w] \in {"started", "running"} => held[w] \in tracked'
    BY <1>1, <1>3, <2>2, RememberEvicts
    DEF CancelledStarting, CancelledRunning, CancelledReporting, TypeOK
  <2>4. wpc[w] = "reporting" => status[held[w]] \in Terminal
    BY DEF SeenOutInv
  <2>5. wpc[w] \in {"started", "running", "reporting"}
    BY <1>3 DEF CancelledStarting, CancelledRunning, CancelledReporting
  <2>6. held[w] \in tracked' \/ status[held[w]] \in Terminal
    BY <2>3, <2>4, <2>5
  <2>7. /\ status'[held[w]] \in Terminal
        /\ \A j \in Jobs : status'[j] = status[j] \/ status'[j] \in Terminal
    BY <1>1, <2>1, <2>6 DEF CancelHeld, TypeOK, Terminal
  <2> QED
    BY <1>1, <2>1, <2>7, SeenOutDone
<1> QED
  BY <1>2, <1>3

\* A drain begins and ends.
LEMMA SeenOutStop ==
  ASSUME AccountingInv, SeenOutInv, NEW s \in Stoppers,
         StopperStep(s) \/ \E drain \in BOOLEAN : Stop(s, drain)
  PROVE  SeenOutInv'
<1> USE DEF AccountingInv
<1>1. ASSUME StopNextService(s)
      PROVE  /\ stopper'[s] # "drain" /\ \A t \in Stoppers \ {s} : stopper'[t] = stopper[t]
             /\ \A j \in Jobs : status'[j] = status[j] \/ status'[j] \in Terminal
  BY <1>1 DEF StopNextService, Sweep, TypeOK, ledger, Terminal
<1>2. ASSUME CancelWorkers(s)
      PROVE  /\ stopper'[s] # "drain" /\ \A t \in Stoppers \ {s} : stopper'[t] = stopper[t]
             /\ \A j \in Jobs : status'[j] = status[j] \/ status'[j] \in Terminal
  BY <1>1, <1>2 DEF CancelWorkers, TypeOK, ledger
<1>3. /\ UNCHANGED <<queue, blocked, held, wpc, unfinished>>
  BY DEF StopperStep, DrainOver, Drained, GraceElapsed, Gathered, ServiceStopped, Stop, pool, intake
<1>4. ASSUME stopper'[s] # "drain", \A t \in Stoppers \ {s} : stopper'[t] = stopper[t],
             \A j \in Jobs : status'[j] = status[j] \/ status'[j] \in Terminal,
             \A t \in Stoppers \ {s} : owed'[t] = owed[t],
             released' = released \ {s}
      PROVE  SeenOutInv'
  <2>1. Joining' = Joining \ {s} /\ released' \subseteq Joining'
    BY <1>4 DEF Joining, SeenOutInv
  <2>2. \A j \in Jobs : SeesOut(j)
    BY <1>3, <1>4, SeesOutSame
  <2>3. ReportsEnded'
    <3>1. \A v \in Workers : wpc[v] = "reporting" => held[v] \in Jobs
      BY DEF HeldWhileBusy, Busy, TypeOK
    <3> QED
      BY <1>3, <1>4, <3>1 DEF ReportsEnded, SeenOutInv, Terminal
  <2>4. ASSUME NEW t \in Joining', NEW j \in owed'[t]
        PROVE  /\ Entered(j)' /\ (Present(j)' \/ status'[j] \in Terminal)
               /\ t \in released' => ~Present(j)'
    <3>1. t \in Joining /\ t # s /\ t \in Stoppers /\ j \in owed[t] /\ j \in Jobs
      BY <1>4, <2>1, <2>4 DEF Joining, TypeOK
    <3> QED
      BY <1>4, <2>2, <3>1 DEF SeenOutInv, SeesOut
  <2> QED
    BY <2>1, <2>3, <2>4 DEF SeenOutInv, ReportsEnded
<1>5. CASE Drained(s) \/ GraceElapsed(s)
  <2>1. /\ CancelWorkers(s) /\ released' = released \ {s}
        /\ \A t \in Stoppers \ {s} : owed'[t] = owed[t]
    BY <1>5 DEF DrainOver, Drained, GraceElapsed, TypeOK
  <2> QED
    BY <1>2, <1>4, <2>1
<1>6. CASE Gathered(s) \/ ServiceStopped(s)
  <2>1. StopNextService(s) /\ UNCHANGED <<released, owed>> /\ stopper[s] # "drain"
    BY <1>6 DEF Gathered, ServiceStopped, intake
  <2>2. released' = released \ {s}
    BY <2>1 DEF SeenOutInv, Joining
  <2> QED
    BY <1>1, <1>4, <2>1, <2>2
<1>7. ASSUME Stop(s, FALSE) PROVE SeenOutInv'
  <2>1. CancelWorkers(s) /\ UNCHANGED <<released, owed>> /\ stopper[s] # "drain"
    BY <1>7 DEF Stop
  <2>2. released' = released \ {s}
    BY <2>1 DEF SeenOutInv, Joining
  <2> QED
    BY <1>2, <1>4, <2>1, <2>2
<1>8. ASSUME Stop(s, TRUE) PROVE SeenOutInv'
  <2>1. /\ stopper'[s] = "drain" /\ \A t \in Stoppers \ {s} : stopper'[t] = stopper[t]
        /\ owed'[s] = queue \union {held[w] : w \in Holding}
        /\ \A t \in Stoppers \ {s} : owed'[t] = owed[t]
        /\ released' = IF unfinished = 0 THEN released \union {s} ELSE released
        /\ status' = status /\ stopper[s] # "drain"
    BY <1>8 DEF Stop, TypeOK, ledger
  <2>2. Joining' = Joining \union {s} /\ s \notin Joining /\ released' \subseteq Joining'
        /\ s \notin released /\ Holding' = Holding
    BY <1>3, <2>1 DEF Joining, SeenOutInv, Holding
  <2>3. unfinished = 0 => queue = {} /\ Holding = {}
    <3>1. unfinished = 0 => Cardinality(queue) = 0 /\ Cardinality(Holding) = 0
      BY CountsAreNumbers DEF ExactAccounting
    <3> QED
      BY <3>1, CountsAreNumbers, FS_EmptySet
  <2>4. ASSUME NEW j \in owed'[s]
        PROVE  Entered(j)' /\ Present(j)' /\ (s \in released' => ~Present(j)')
    <3>1. j \in queue \/ \E w \in Holding : held[w] = j
      BY <2>1, <2>4
    <3>2. Entered(j)
      BY <3>1 DEF OnePlace, Entered, Holding
    <3>3. unfinished # 0
      BY <2>3, <3>1
    <3> QED
      BY <1>3, <2>1, <2>2, <3>1, <3>2, <3>3 DEF Entered, Present
  <2>5. ASSUME NEW t \in Joining, NEW j \in owed'[t]
        PROVE  /\ Entered(j)' /\ (Present(j)' \/ status'[j] \in Terminal)
               /\ t \in released' => ~Present(j)'
    <3>1. t \in Stoppers \ {s} /\ j \in owed[t] /\ (t \in released' => t \in released)
      BY <2>1, <2>2, <2>5 DEF Joining
    <3> QED
      BY <1>3, <2>1, <2>2, <2>5, <3>1 DEF SeenOutInv, Entered, Present
  <2>6. \A w \in Workers : wpc'[w] = "reporting" => status'[held'[w]] \in Terminal
    BY <1>3, <2>1 DEF SeenOutInv
  <2> QED
    BY <2>2, <2>4, <2>5, <2>6 DEF SeenOutInv
<1> QED
  BY <1>5, <1>6, <1>7, <1>8 DEF StopperStep

LEMMA SeenOutStep ==
  ASSUME HistorySize >= 1
  PROVE  AccountingInv /\ AccountingInv' /\ RecordsInv /\ SeenOutInv /\ [Next]_vars => SeenOutInv'
<1> SUFFICES ASSUME AccountingInv, AccountingInv', RecordsInv, SeenOutInv, [Next]_vars
             PROVE  SeenOutInv'
  OBVIOUS
<1> USE DEF AccountingInv
<1>1. CASE Start \/ StarterStep \/ (\E s \in Services : Register(s)) \/ UNCHANGED vars
  <2>1. /\ UNCHANGED <<stopper, owed, released, queue, blocked, held, status>>
        /\ \A v \in Workers : wpc'[v] = "reporting" => wpc[v] = "reporting"
    <3>1. pool' = pool \/ SpawnWorkers
      BY <1>1 DEF Start, StarterStep, ServiceUp, ServiceFails, Unwind, StartEnds, Register,
                  pool, vars
    <3>2. UNCHANGED <<stopping, intake, ledger>>
      BY <1>1 DEF Start, StarterStep, ServiceUp, ServiceFails, Unwind, StartEnds, Register, vars
    <3> QED
      BY <3>1, <3>2 DEF pool, SpawnWorkers, stopping, intake, ledger, TypeOK
  <2>2. (\A j \in Jobs : SeesOut(j)) /\ ReportsEnded'
    BY <2>1, SeesOutSame DEF ReportsEnded, SeenOutInv
  <2> QED
    BY <2>1, <2>2, SeenOutKept
<1>2. CASE \E j \in Jobs : JobStep(j)
  BY <1>2, SeenOutJob
<1>3. CASE \E w \in Workers : WorkerStep(w)
  BY <1>3, SeenOutWork, SeenOutLeaves DEF WorkerStep
<1>4. CASE \E s \in Stoppers : StopperStep(s) \/ \E drain \in BOOLEAN : Stop(s, drain)
  BY <1>4, SeenOutStop
<1> QED
  BY <1>1, <1>2, <1>3, <1>4 DEF Next

\* A drain that ends before its grace period has seen to their end all jobs that were
\* queued or with a worker when it began, over any stops and restarts and whatever
\* other calls of stop() cancel; what it may lose is a submitter's that was blocked.
THEOREM DrainIsComplete ==
  ASSUME HistorySize >= 1
  PROVE  Spec => DrainSeesThemOut
<1>1. Init => SeenOutInv
  BY DEF Init, SeenOutInv, Joining
<1>2. SeenOutInv =>
        [\A s \in Stoppers : Drained(s) => \A j \in owed[s] : status[j] \in Terminal]_vars
  BY DEF SeenOutInv, Drained
<1> QED
  BY <1>1, <1>2, AccountingInvariant, RecordsInit, RecordsStep, SeenOutStep,
     PTL DEF Spec, DrainSeesThemOut

(***************************************************************************)
(* Work only behind the services, when one task calls stop().              *)
(***************************************************************************)

LEMMA PostureInit == Init => PostureInv
<1> SUFFICES ASSUME Init PROVE PostureInv
  OBVIOUS
<1>1. AllOff
  BY DEF Init, AllOff
<1>2. cursor <= Len(registered)
  BY OrchestratorAssumption DEF Init
<1> QED
  BY <1>1, <1>2 DEF Init, AllOff, PostureInv, LiveWorkersListed, PhasesExclusive,
                    StoppedIsEmpty, StartInOrder, WorkOnlyBehindServices

\* Steps that create no task and leave start() and stop() where they are.
LEMMA PostureKept ==
  ASSUME PostureInv, UNCHANGED <<lifecycle, stopping, listed>>,
         \A w \in Workers : wpc'[w] = "off" \/ wpc[w] # "off"
  PROVE  PostureInv'
BY DEF PostureInv, LiveWorkersListed, PhasesExclusive, StoppedIsEmpty, StartInOrder,
       WorkOnlyBehindServices, AllOff, lifecycle, stopping

\* No worker step makes a task out of none.
LEMMA WorkersOnlyEnd ==
  ASSUME TypeOK, NEW w \in Workers, WorkerStep(w)
  PROVE  /\ UNCHANGED <<lifecycle, stopping, listed>>
         /\ \A v \in Workers : wpc'[v] = "off" \/ wpc[v] # "off"
<1>1. CASE Boot(w) \/ RunAgent(w) \/ Reported(w)
  BY <1>1 DEF Boot, RunAgent, Reported, TaskDone, TypeOK
<1>2. CASE \E j \in Jobs : Get(w, j)
  BY <1>2 DEF Get, TypeOK
<1>3. CASE \E outcome \in {"succeeded", "failed"} : AgentReturns(w, outcome)
  BY <1>3 DEF AgentReturns, TypeOK
<1>4. CASE CancelledIdle(w)
  BY <1>4 DEF CancelledIdle, TypeOK
<1>5. CASE CancelledStarting(w) \/ CancelledRunning(w) \/ CancelledReporting(w)
  <2>1. CancelHeld(w)
    BY <1>5 DEF CancelledStarting, CancelledRunning, CancelledReporting
  <2> QED
    BY <2>1 DEF CancelHeld, TaskDone, TypeOK
<1> QED
  BY <1>1, <1>2, <1>3, <1>4, <1>5 DEF WorkerStep

\* The service list under a starting start(), and the spawning behind it.
LEMMA PostureStart ==
  ASSUME PostureInv, TypeOK, TypeOK',
         Start \/ StarterStep \/ \E s \in Services : Register(s)
  PROVE  PostureInv'
<1> USE DEF PostureInv
<1>1. CASE Start
  <2>1. /\ ~running /\ starter = "idle" /\ AllOff /\ started = <<>>
        /\ running' /\ starter' = "services" /\ cursor' = 0
        /\ UNCHANGED <<servicesFirst, started, registered, stopper, awaited>>
    BY <1>1 DEF Start, StoppedIsEmpty, stopping
  <2>2. SubSeq(registered', 1, 0) = <<>> /\ Len(registered') \in Nat
    BY DEF TypeOK
  <2>3. \A s \in Stoppers : stopper'[s] = "idle"
    BY <2>1 DEF PhasesExclusive, TypeOK
  <2>4. CASE servicesFirst
    <3>1. UNCHANGED <<wpc, listed>>
      BY <1>1, <2>4 DEF Start, pool
    <3> QED
      BY <2>1, <2>2, <2>3, <3>1 DEF AllOff, LiveWorkersListed, PhasesExclusive,
           StoppedIsEmpty, StartInOrder, WorkOnlyBehindServices
  <2>5. CASE ~servicesFirst
    <3>1. listed' = Workers
      BY <1>1, <2>5 DEF Start, SpawnWorkers
    <3> QED
      BY <2>1, <2>2, <2>3, <2>5, <3>1 DEF LiveWorkersListed, PhasesExclusive,
           StoppedIsEmpty, StartInOrder, WorkOnlyBehindServices
  <2> QED
    BY <2>4, <2>5
<1>2. CASE ServiceUp
  <2>1. /\ UNCHANGED <<servicesFirst, running, starter, registered, stopper, awaited, wpc, listed>>
        /\ starter = "services" /\ cursor < Len(registered) /\ cursor' = cursor + 1
        /\ started' = Append(started, registered[cursor + 1])
    BY <1>2 DEF ServiceUp, stopping, pool
  <2>2. started = SubSeq(registered, 1, cursor) => started' = SubSeq(registered', 1, cursor')
    BY <2>1, PrefixGrows DEF TypeOK
  <2>3. cursor' <= Len(registered')
    BY <2>1 DEF TypeOK
  <2>4. running'
    BY <2>1 DEF PhasesExclusive
  <2> QED
    BY <2>1, <2>2, <2>3, <2>4 DEF AllOff, LiveWorkersListed, PhasesExclusive,
         StoppedIsEmpty, StartInOrder, WorkOnlyBehindServices
<1>3. CASE ServiceFails \/ Unwind
  <2>1. /\ UNCHANGED <<servicesFirst, running, cursor, registered, stopper, awaited, wpc, listed>>
        /\ starter # "idle" /\ starter' \in {"idle", "unwind"}
    BY <1>3 DEF ServiceFails, Unwind, UnwindNext, stopping, pool
  <2>2. running' /\ \A s \in Stoppers : stopper'[s] = "idle"
    BY <2>1 DEF PhasesExclusive, TypeOK
  <2> QED
    BY <2>1, <2>2 DEF AllOff, LiveWorkersListed, PhasesExclusive,
         StoppedIsEmpty, StartInOrder, WorkOnlyBehindServices
<1>4. CASE StartEnds
  <2>1. /\ UNCHANGED <<servicesFirst, running, cursor, registered, started, stopper, awaited>>
        /\ starter = "services" /\ starter' = "idle"
    BY <1>4 DEF StartEnds, stopping
  <2>2. running' /\ \A s \in Stoppers : stopper'[s] = "idle"
    BY <2>1 DEF PhasesExclusive, TypeOK
  <2>3. LiveWorkersListed'
    BY <1>4 DEF StartEnds, SpawnWorkers, LiveWorkersListed, pool
  <2> QED
    BY <2>1, <2>2, <2>3 DEF AllOff, PhasesExclusive,
         StoppedIsEmpty, StartInOrder, WorkOnlyBehindServices
<1>5. ASSUME NEW s \in Services, Register(s) PROVE PostureInv'
  <2>1. /\ UNCHANGED <<servicesFirst, running, starter, cursor, started, stopper, awaited, wpc, listed>>
        /\ registered' = Append(registered, s)
    BY <1>5 DEF Register, stopping, pool
  <2>2. /\ SubSeq(registered', 1, cursor) = SubSeq(registered, 1, cursor)
        /\ cursor' <= Len(registered')
    BY <2>1, PrefixOfLonger DEF TypeOK, StartInOrder
  <2> QED
    BY <2>1, <2>2 DEF AllOff, LiveWorkersListed, PhasesExclusive,
         StoppedIsEmpty, StartInOrder, WorkOnlyBehindServices
<1> QED
  BY <1>1, <1>2, <1>3, <1>4, <1>5 DEF StarterStep

\* stop() takes the services down only after the last worker task ended.
LEMMA PostureStop ==
  ASSUME PostureInv, TypeOK, OneStopper, NEW s \in Stoppers,
         StopperStep(s) \/ \E drain \in BOOLEAN : Stop(s, drain)
  PROVE  PostureInv'
<1> USE DEF PostureInv
<1>1. /\ UNCHANGED <<servicesFirst, starter, cursor, registered, wpc>>
      /\ starter = "idle" /\ running
  <2>1. UNCHANGED <<servicesFirst, starter, cursor, registered, wpc>>
    BY DEF StopperStep, DrainOver, Drained, GraceElapsed, Gathered, ServiceStopped, Stop, pool
  <2>2. (\E drain \in BOOLEAN : Stop(s, drain)) => starter = "idle" /\ running
    BY DEF Stop
  <2>3. StopperStep(s) => stopper[s] # "idle"
    BY DEF StopperStep, DrainOver, Drained, GraceElapsed, Gathered, ServiceStopped
  <2> QED
    BY <2>1, <2>2, <2>3 DEF PhasesExclusive
<1>2. \A t \in Stoppers : t = s
  BY DEF OneStopper
<1>3. ASSUME StopNextService(s), AllOff, listed' = {} \/ UNCHANGED listed
      PROVE  PostureInv'
  <2>1. CASE started = <<>>
    <3>1. ~running' /\ started' = <<>> /\ stopper'[s] = "idle"
      BY <1>3, <2>1 DEF StopNextService, Sweep, TypeOK
    <3> QED
      BY <1>1, <1>2, <1>3, <3>1 DEF AllOff, LiveWorkersListed, PhasesExclusive,
           StoppedIsEmpty, StartInOrder, WorkOnlyBehindServices
  <2>2. CASE started # <<>>
    <3>1. running' = running /\ stopper'[s] = "services"
      BY <1>3, <2>2 DEF StopNextService, TypeOK
    <3> QED
      BY <1>1, <1>2, <1>3, <3>1 DEF AllOff, LiveWorkersListed, PhasesExclusive,
           StoppedIsEmpty, StartInOrder, WorkOnlyBehindServices
  <2> QED
    BY <2>1, <2>2
<1>4. ASSUME CancelWorkers(s), UNCHANGED listed PROVE PostureInv'
  <2>1. CASE listed = {}
    <3>1. AllOff
      BY <2>1 DEF LiveWorkersListed, AllOff
    <3> QED
      BY <1>3, <1>4, <2>1, <3>1 DEF CancelWorkers
  <2>2. CASE listed # {}
    <3>1. /\ running' = running /\ started' = started
          /\ stopper'[s] = "gather" /\ awaited'[s] = listed
      BY <1>4, <2>2 DEF CancelWorkers, TypeOK
    <3> QED
      BY <1>1, <1>2, <1>4, <3>1 DEF AllOff, LiveWorkersListed, PhasesExclusive,
           StoppedIsEmpty, StartInOrder, WorkOnlyBehindServices
  <2> QED
    BY <2>1, <2>2
<1>5. CASE Drained(s) \/ GraceElapsed(s)
  BY <1>4, <1>5 DEF DrainOver, Drained, GraceElapsed
<1>6. CASE Gathered(s)
  <2>1. AllOff
    BY <1>6 DEF Gathered, PhasesExclusive, LiveWorkersListed, AllOff
  <2> QED
    BY <1>3, <1>6, <2>1 DEF Gathered
<1>7. CASE ServiceStopped(s)
  BY <1>3, <1>7 DEF ServiceStopped, PhasesExclusive, pool
<1>8. ASSUME NEW drain \in BOOLEAN, Stop(s, drain) PROVE PostureInv'
  <2>1. CASE drain
    <3>1. running' = running /\ started' = started /\ stopper'[s] = "drain" /\ listed' = listed
      BY <1>8, <2>1 DEF Stop, TypeOK
    <3> QED
      BY <1>1, <1>2, <3>1 DEF AllOff, LiveWorkersListed, PhasesExclusive,
           StoppedIsEmpty, StartInOrder, WorkOnlyBehindServices
  <2>2. CASE ~drain
    BY <1>4, <1>8, <2>2 DEF Stop
  <2> QED
    BY <2>1, <2>2
<1> QED
  BY <1>5, <1>6, <1>7, <1>8 DEF StopperStep

LEMMA PostureStep ==
  ASSUME OneStopper
  PROVE  AccountingInv /\ AccountingInv' /\ PostureInv /\ [Next]_vars => PostureInv'
<1> SUFFICES ASSUME AccountingInv, AccountingInv', PostureInv, [Next]_vars
             PROVE  PostureInv'
  OBVIOUS
<1> USE DEF AccountingInv
<1>1. CASE Start \/ StarterStep \/ \E s \in Services : Register(s)
  BY <1>1, PostureStart
<1>2. CASE \E j \in Jobs : JobStep(j)
  <2>1. UNCHANGED <<lifecycle, stopping, listed, wpc>>
    BY <1>2 DEF JobStep, Submit, PutUnblocks, SubmitAbandoned, WaitFor, WaitReturns, pool
  <2> QED
    BY <2>1, PostureKept
<1>3. CASE \E w \in Workers : WorkerStep(w)
  BY <1>3, WorkersOnlyEnd, PostureKept
<1>4. CASE \E s \in Stoppers : StopperStep(s) \/ \E drain \in BOOLEAN : Stop(s, drain)
  BY <1>4, PostureStop
<1>5. CASE UNCHANGED vars
  BY <1>5, PostureKept DEF vars, pool
<1> QED
  BY <1>1, <1>2, <1>3, <1>4, <1>5 DEF Next

LEMMA PostureInvariant ==
  ASSUME OneStopper
  PROVE  Spec => []PostureInv
BY PostureInit, PostureStep, AccountingInvariant, PTL DEF Spec

\* A worker task exists only while the services start() was given are up, over
\* any number of failed starts, stops and restarts by one controlling task.
THEOREM WorkBehindServices ==
  ASSUME OneStopper
  PROVE  Spec => []WorkOnlyBehindServices
<1>1. PostureInv => WorkOnlyBehindServices
  BY DEF PostureInv
<1> QED
  BY <1>1, PostureInvariant, PTL

\* No worker task outlives its entry in _workers, so stop() reaches them all.
THEOREM NoOrphanWorker ==
  ASSUME OneStopper
  PROVE  Spec => []LiveWorkersListed
<1>1. PostureInv => LiveWorkersListed
  BY DEF PostureInv
<1> QED
  BY <1>1, PostureInvariant, PTL

(***************************************************************************)
(* One lifecycle implements JobService, however many tasks call stop().    *)
(***************************************************************************)

LEMMA LedgerInit == Init => LedgerInv /\ JobLedger!Init
<1> SUFFICES ASSUME Init PROVE LedgerInv /\ JobLedger!Init
  OBVIOUS
<1>1. NoRevival
  BY DEF Init, NoRevival, AllOff, LiveWorkersListed
<1>2. StatusAgrees
  <2>1. Len(history) = 0
    BY DEF Init
  <2> QED
    BY <2>1 DEF Init, StatusAgrees, Terminal
<1>3. JobLedger!Init
  BY DEF Init, JobLedger!Init
<1> QED
  BY <1>1, <1>2, <1>3 DEF LedgerInv

\* What a step must do to records and statuses when it is no stop() step.
LEMMA StatusKept ==
  ASSUME TypeOK, StatusAgrees, UNCHANGED <<shuttingDown, listed, ledger, queue, blocked, held>>,
         \A w \in Workers : \/ wpc'[w] = wpc[w]
                            \/ wpc'[w] \in {"off", "fresh", "idle"}
                            \/ wpc[w] = "started" /\ wpc'[w] = "running"
  PROVE  StatusAgrees'
BY DEF StatusAgrees, TypeOK, ledger

\* The first start() finds nothing of an earlier life; later steps of start()
\* happen before any stop().
LEMMA LedgerStart ==
  ASSUME OneLifecycle, AccountingInv, LedgerInv,
         Start \/ StarterStep \/ \E s \in Services : Register(s)
  PROVE  LedgerInv' /\ UNCHANGED <<status, waiter>>
<1> USE DEF AccountingInv, LedgerInv
<1>1. CASE Start
  <2>1. starts = 0 /\ starts' = 1 /\ AllOff /\ ~shuttingDown /\ ~shuttingDown'
    BY <1>1, OrchestratorAssumption DEF Start, NoRevival, OneLifecycle, TypeOK
  <2>2. \A s \in Stoppers : stopper'[s] = "idle"
    BY <1>1, <2>1 DEF Start, NoRevival, TypeOK, stopping
  <2>3. /\ LiveWorkersListed' /\ UNCHANGED <<intake, ledger, waiter, held>>
        /\ \A w \in Workers : wpc'[w] \in {"off", "fresh"}
    BY <1>1, <2>1 DEF Start, SpawnWorkers, AllOff, LiveWorkersListed, pool, TypeOK
  <2>4. NoRevival'
    BY <1>1, <2>1, <2>2, <2>3 DEF Start, NoRevival
  <2>5. StatusAgrees'
    BY <2>1, <2>3 DEF StatusAgrees, TypeOK, intake, ledger
  <2> QED
    BY <2>3, <2>4, <2>5 DEF ledger
<1>2. CASE StarterStep
  <2>1. /\ starts = 1 /\ ~shuttingDown /\ UNCHANGED <<starts, shuttingDown, running, stopper>>
        /\ \A s \in Stoppers : stopper[s] = "idle"
    BY <1>2 DEF StarterStep, ServiceUp, ServiceFails, Unwind, StartEnds, NoRevival,
                TypeOK, stopping
  <2>2. /\ LiveWorkersListed' /\ UNCHANGED <<intake, ledger, waiter, held>>
        /\ \A w \in Workers : wpc'[w] = wpc[w] \/ wpc'[w] = "fresh"
    <3>1. pool' = pool \/ SpawnWorkers
      BY <1>2 DEF StarterStep, ServiceUp, ServiceFails, Unwind, StartEnds
    <3>2. UNCHANGED <<intake, ledger, waiter>>
      BY <1>2 DEF StarterStep, ServiceUp, ServiceFails, Unwind, StartEnds
    <3> QED
      BY <3>1, <3>2 DEF SpawnWorkers, NoRevival, LiveWorkersListed, pool, TypeOK
  <2>3. NoRevival'
    BY <2>1, <2>2 DEF NoRevival
  <2>4. StatusAgrees'
    BY <2>1, <2>2 DEF StatusAgrees, TypeOK, intake, ledger
  <2> QED
    BY <2>2, <2>3, <2>4 DEF ledger
<1>3. ASSUME NEW s \in Services, Register(s)
      PROVE  LedgerInv' /\ UNCHANGED <<status, waiter>>
  <2>1. UNCHANGED <<running, shuttingDown, starter, starts, stopping, pool, intake, ledger, waiter>>
    BY <1>3 DEF Register
  <2>2. NoRevival'
    BY <2>1 DEF NoRevival, LiveWorkersListed, AllOff, stopping, pool
  <2> QED
    BY <2>1, <2>2, StatusKept DEF pool, intake, ledger
<1> QED
  BY <1>1, <1>2, <1>3

\* Steps that are neither start() nor stop() and create no task.
LEMMA NoRevivalKept ==
  ASSUME NoRevival, UNCHANGED <<lifecycle, stopping, listed>>,
         \A w \in Workers : wpc'[w] = "off" \/ wpc[w] # "off"
  PROVE  NoRevival'
BY DEF NoRevival, LiveWorkersListed, AllOff, lifecycle, stopping

LEMMA LedgerJob ==
  ASSUME AccountingInv, LedgerInv, NEW j \in Jobs, JobStep(j)
  PROVE  LedgerInv' /\ (JobLedger!Next \/ UNCHANGED <<status, waiter>>)
<1> USE DEF AccountingInv, LedgerInv
<1>1. NoRevival'
  <2>1. UNCHANGED <<lifecycle, stopping, pool>>
    BY DEF JobStep, Submit, PutUnblocks, SubmitAbandoned, WaitFor, WaitReturns
  <2> QED
    BY <2>1, NoRevivalKept DEF pool
<1>2. CASE Submit(j)
  <2>1. /\ status[j] = "new" /\ status' = [status EXCEPT ![j] = "pending"]
        /\ tracked' = tracked \union {j} /\ queue' \union blocked' = queue \union blocked \union {j}
        /\ UNCHANGED <<shuttingDown, history, signalled, held, wpc, listed, waiter>>
    BY <1>2 DEF Submit, Enqueue, lifecycle, pool
  <2>2. \A w \in Workers : wpc[w] \in Busy => held[w] # j
    BY <2>1 DEF HeldWhileBusy, OnePlace, Holding
  <2>3. StatusAgrees'
    BY <2>1, <2>2 DEF StatusAgrees, TypeOK, Busy, Terminal
  <2>4. JobLedger!Accept(j)
    BY <2>1 DEF JobLedger!Accept
  <2> QED
    BY <1>1, <2>3, <2>4 DEF JobLedger!Next
<1>3. CASE PutUnblocks(j) \/ SubmitAbandoned(j)
  <2>1. /\ UNCHANGED <<shuttingDown, ledger, held, wpc, listed, waiter>>
        /\ queue' \union blocked' \subseteq queue \union blocked
    BY <1>3 DEF PutUnblocks, Enqueue, SubmitAbandoned, lifecycle, pool
  <2>2. StatusAgrees'
    BY <2>1 DEF StatusAgrees, ledger
  <2> QED
    BY <1>1, <2>1, <2>2 DEF ledger
<1>4. CASE WaitFor(j) \/ WaitReturns(j)
  <2>1. StatusAgrees' /\ status' = status
    BY <1>4, StatusKept DEF WaitFor, WaitReturns, lifecycle, pool, intake, ledger
  <2>2. ASSUME WaitFor(j), j \in tracked PROVE JobLedger!Next
    BY <2>1, <2>2 DEF WaitFor, JobLedger!Ask, JobLedger!Next
  <2>3. ASSUME WaitFor(j), j \notin tracked PROVE JobLedger!Next
    <3>1. status[j] \in Terminal
      BY <2>3 DEF WaitFor, StatusAgrees
    <3>2. JobLedger!Forget(j)
      BY <2>1, <2>3, <3>1 DEF WaitFor, JobLedger!Forget, Terminal, JobLedger!Final
    <3> QED
      BY <3>2 DEF JobLedger!Next
  <2>4. ASSUME WaitReturns(j) PROVE JobLedger!Next
    <3>1. status[j] \in Terminal
      BY <2>4 DEF WaitReturns, StatusAgrees
    <3>2. JobLedger!Forget(j) \/ JobLedger!Tell(j)
      BY <2>1, <2>4, <3>1
      DEF WaitReturns, JobLedger!Forget, JobLedger!Tell, Terminal, JobLedger!Final
    <3> QED
      BY <3>2 DEF JobLedger!Next
  <2> QED
    BY <1>1, <1>4, <2>1, <2>2, <2>3, <2>4
<1> QED
  BY <1>2, <1>3, <1>4 DEF JobStep

\* A job with a worker is nowhere else.
LEMMA HeldAlone ==
  ASSUME AccountingInv, NEW w \in Workers, wpc[w] \in Busy
  PROVE  /\ held[w] \in Jobs /\ held[w] \notin queue \union blocked
         /\ \A v \in Workers \ {w} : wpc[v] \in Busy => held[v] # held[w]
BY DEF AccountingInv, TypeOK, HeldWhileBusy, OnePlace, ExactAccounting, Holding

LEMMA LedgerWork ==
  ASSUME AccountingInv, LedgerInv, NEW w \in Workers,
         \/ Boot(w) \/ RunAgent(w) \/ Reported(w)
         \/ \E j \in Jobs : Get(w, j)
         \/ \E outcome \in {"succeeded", "failed"} : AgentReturns(w, outcome)
  PROVE  StatusAgrees' /\ (JobLedger!Next \/ UNCHANGED <<status, waiter>>)
<1> USE DEF AccountingInv, LedgerInv
<1>1. CASE Boot(w) \/ RunAgent(w)
  <2>1. StatusAgrees'
    BY <1>1, StatusKept DEF Boot, RunAgent, TypeOK, lifecycle, intake
  <2> QED
    BY <1>1, <2>1 DEF Boot, RunAgent, ledger
<1>2. CASE Reported(w)
  <2>1. StatusAgrees'
    BY <1>2 DEF Reported, TaskDone, StatusAgrees, TypeOK, lifecycle, ledger
  <2> QED
    BY <1>2, <2>1 DEF Reported, ledger
<1>3. ASSUME NEW j \in Jobs, Get(w, j)
      PROVE  StatusAgrees' /\ JobLedger!Next
  <2>1. listed # {}
    BY <1>3 DEF Get, NoRevival, LiveWorkersListed
  <2>2. status[j] = "pending" /\ j \in tracked /\ j \notin blocked
    BY <1>3, <2>1 DEF Get, StatusAgrees, OnePlace, Terminal, TypeOK
  <2>3. \A v \in Workers : wpc[v] \in Busy => held[v] # j
    BY <1>3 DEF Get, HeldWhileBusy, ExactAccounting, Holding
  <2>4. StatusAgrees'
    BY <1>3, <2>2, <2>3 DEF Get, StatusAgrees, TypeOK, Busy, Terminal, lifecycle
  <2>5. JobLedger!Begin(j)
    BY <1>3, <2>2 DEF Get, JobLedger!Begin
  <2> QED
    BY <2>4, <2>5 DEF JobLedger!Next
<1>4. ASSUME NEW outcome \in {"succeeded", "failed"}, AgentReturns(w, outcome)
      PROVE  StatusAgrees' /\ JobLedger!Next
  <2> DEFINE j == held[w]
  <2>1. /\ j \in Jobs /\ j \notin queue \union blocked /\ status[j] = "running"
        /\ \A v \in Workers \ {w} : wpc[v] \in Busy => held[v] # j
    BY <1>4, HeldAlone DEF AgentReturns, StatusAgrees, Busy
  <2>2. /\ wpc' = [wpc EXCEPT ![w] = "reporting"] /\ status' = [status EXCEPT ![j] = outcome]
        /\ Remember(j) /\ signalled' \subseteq signalled \union {j}
        /\ UNCHANGED <<shuttingDown, listed, held, queue, blocked, waiter>>
    BY <1>4 DEF AgentReturns, Signal, lifecycle, intake
  <2>3. /\ tracked' \subseteq tracked /\ tracked \ tracked' \subseteq Recorded \union {j}
        /\ Recorded' \subseteq Recorded \union {j}
    BY <2>1, <2>2, RememberEvicts DEF TypeOK
  <2>4. \A k \in Recorded : k \in Jobs /\ status[k] \in Terminal
    BY DEF Recorded, StatusAgrees, TypeOK
  <2>5. /\ status'[j] \in Terminal
        /\ \A k \in Jobs \ {j} : status'[k] = status[k]
    BY <2>1, <2>2 DEF TypeOK, Terminal
  <2>6. \A i \in 1..Len(history') : status'[history'[i]] \in Terminal
    BY <2>3, <2>4, <2>5 DEF Recorded
  <2>7. \A k \in Jobs \ tracked' : status'[k] \in Terminal \union {"new"}
    BY <2>3, <2>4, <2>5 DEF StatusAgrees
  <2>8. /\ \A v \in Workers : wpc'[v] \in {"started", "running"} => status'[held'[v]] = "running"
        /\ \A v \in Workers : wpc'[v] = "reporting" => status'[held'[v]] \in Terminal
    BY <2>1, <2>2, <2>5 DEF StatusAgrees, TypeOK, Busy, HeldWhileBusy
  <2> HIDE DEF j
  <2>9. StatusAgrees'
    <3>1. \A k \in tracked' : status'[k] # "new"
      BY <2>1, <2>3, <2>5 DEF StatusAgrees, Terminal, TypeOK
    <3>2. \A k \in signalled' : status'[k] \in Terminal
      BY <2>2, <2>5 DEF StatusAgrees, TypeOK
    <3>3. \A k \in queue' \union blocked' : status'[k] = status[k]
      BY <2>1, <2>2, <2>5 DEF TypeOK
    <3> QED
      BY <2>2, <2>6, <2>7, <2>8, <3>1, <3>2, <3>3 DEF StatusAgrees
  <2>10. JobLedger!Conclude(j, outcome)
    BY <2>1, <2>2 DEF JobLedger!Conclude
  <2> QED
    BY <2>1, <2>9, <2>10 DEF JobLedger!Next, JobLedger!Final
<1> QED
  BY <1>1, <1>2, <1>3, <1>4

LEMMA LedgerCancel ==
  ASSUME OneLifecycle, AccountingInv, LedgerInv, NEW w \in Workers,
         \/ CancelledIdle(w) \/ CancelledStarting(w)
         \/ CancelledRunning(w) \/ CancelledReporting(w)
  PROVE  StatusAgrees' /\ (JobLedger!Next \/ UNCHANGED <<status, waiter>>)
<1> USE DEF AccountingInv, LedgerInv
<1> DEFINE j == held[w]
<1>1. CASE CancelledIdle(w)
  <2>1. StatusAgrees'
    BY <1>1, StatusKept DEF CancelledIdle, TypeOK, lifecycle, intake
  <2> QED
    BY <1>1, <2>1 DEF CancelledIdle, ledger
<1>2. CASE CancelledReporting(w)
  <2>1. CancelHeld(w) /\ UNCHANGED <<tracked, history, signalled>> /\ status[j] \in Terminal
    BY <1>2 DEF CancelledReporting, StatusAgrees
  <2>2. status' = status
    BY <2>1 DEF CancelHeld
  <2>3. StatusAgrees'
    BY <2>1, <2>2 DEF CancelHeld, TaskDone, StatusAgrees, TypeOK, lifecycle
  <2> QED
    BY <2>1, <2>2, <2>3 DEF CancelHeld
<1>3. CASE CancelledStarting(w) \/ CancelledRunning(w)
  <2>1. /\ j \in Jobs /\ j \notin queue \union blocked /\ status[j] = "running"
        /\ \A v \in Workers \ {w} : wpc[v] \in Busy => held[v] # j
    BY <1>3, HeldAlone DEF CancelledStarting, CancelledRunning, StatusAgrees, Busy
  <2>2. \A k \in Recorded : k \in Jobs /\ status[k] \in Terminal
    BY DEF Recorded, StatusAgrees, TypeOK
  <2>3. j \in tracked /\ j \notin Recorded
    BY <2>1, <2>2 DEF StatusAgrees, Terminal
  <2>4. /\ tracked' \subseteq tracked /\ tracked \ tracked' \subseteq Recorded
        /\ Recorded' \subseteq Recorded \union {j} /\ j \in tracked'
        /\ signalled' \subseteq signalled \union {j}
    <3>1. CASE CancelledStarting(w)
      BY <3>1, <2>3 DEF CancelledStarting, Signal, Recorded
    <3>2. CASE CancelledRunning(w)
      <4>1. Remember(j) /\ signalled' \subseteq signalled \union {j}
        BY <3>2 DEF CancelledRunning, Signal
      <4>2. /\ tracked' \subseteq tracked /\ tracked \ tracked' \subseteq Recorded \union {j}
            /\ Recorded' \subseteq Recorded \union {j} /\ j \in tracked'
        BY <4>1, <2>1, <2>3, RememberEvicts DEF TypeOK, OneLifecycle
      <4> QED
        BY <4>1, <4>2
    <3> QED
      BY <1>3, <3>1, <3>2
  <2>5. CancelHeld(w)
    BY <1>3 DEF CancelledStarting, CancelledRunning
  <2>6. /\ status' = [status EXCEPT ![j] = "cancelled"]
        /\ wpc' = [wpc EXCEPT ![w] = "off"]
        /\ held' = [held EXCEPT ![w] = NoJob]
        /\ UNCHANGED <<shuttingDown, listed, queue, blocked, waiter>>
    BY <2>1, <2>4, <2>5 DEF CancelHeld, TaskDone, lifecycle, Terminal
  <2>7. /\ status'[j] = "cancelled"
        /\ \A k \in Jobs \ {j} : status'[k] = status[k]
    BY <2>1, <2>6 DEF TypeOK
  <2> HIDE DEF j
  <2>8. StatusAgrees'
    <3>1. \A i \in 1..Len(history') : status'[history'[i]] \in Terminal
      BY <2>1, <2>2, <2>4, <2>7 DEF Recorded, Terminal
    <3>2. \A k \in Jobs \ tracked' : status'[k] \in Terminal \union {"new"}
      BY <2>2, <2>4, <2>7 DEF StatusAgrees, Terminal
    <3>3. /\ \A v \in Workers : wpc'[v] \in {"started", "running"} => status'[held'[v]] = "running"
          /\ \A v \in Workers : wpc'[v] = "reporting" => status'[held'[v]] \in Terminal
      BY <2>1, <2>6, <2>7 DEF StatusAgrees, TypeOK, Busy, HeldWhileBusy
    <3>4. \A k \in tracked' : status'[k] # "new"
      BY <2>4, <2>7 DEF StatusAgrees, TypeOK
    <3>5. \A k \in signalled' : status'[k] \in Terminal
      BY <2>4, <2>7 DEF StatusAgrees, TypeOK, Terminal
    <3>6. \A k \in queue' \union blocked' : status'[k] = status[k]
      BY <2>1, <2>6, <2>7 DEF TypeOK
    <3> QED
      BY <2>6, <3>1, <3>2, <3>3, <3>4, <3>5, <3>6 DEF StatusAgrees
  <2>9. JobLedger!Conclude(j, "cancelled")
    BY <2>1, <2>6 DEF JobLedger!Conclude
  <2> QED
    BY <2>1, <2>8, <2>9 DEF JobLedger!Next, JobLedger!Final
<1> QED
  BY <1>1, <1>2, <1>3

LEMMA LedgerStop ==
  ASSUME AccountingInv, LedgerInv, NEW s \in Stoppers,
         StopperStep(s) \/ \E drain \in BOOLEAN : Stop(s, drain)
  PROVE  LedgerInv' /\ (JobLedger!Next \/ UNCHANGED <<status, waiter>>)
<1> USE DEF AccountingInv, LedgerInv
<1>1. /\ starts = 1 /\ starter = "idle" /\ shuttingDown'
      /\ UNCHANGED <<starter, starts, wpc, held, queue, blocked, waiter>>
  <2>1. UNCHANGED <<starter, starts, wpc, held, queue, blocked, waiter>>
    BY DEF StopperStep, DrainOver, Drained, GraceElapsed, Gathered, ServiceStopped, Stop, pool, intake
  <2>2. (\E drain \in BOOLEAN : Stop(s, drain)) =>
          starter = "idle" /\ starts = 1 /\ shuttingDown'
    BY DEF Stop, NoRevival
  <2>3. StopperStep(s) => stopper[s] # "idle" /\ shuttingDown' = shuttingDown
    BY DEF StopperStep, DrainOver, Drained, GraceElapsed, Gathered, ServiceStopped
  <2> QED
    BY <2>1, <2>2, <2>3 DEF NoRevival
<1>2. ASSUME StopNextService(s), AllOff, listed' = {}
      PROVE  LedgerInv' /\ (JobLedger!Next \/ UNCHANGED <<status, waiter>>)
  <2>1. /\ stopper' \in [Stoppers -> {"idle", "drain", "gather", "services"}]
        /\ stopper'[s] \in {"idle", "services"}
        /\ \A t \in Stoppers \ {s} : stopper'[t] = stopper[t]
        /\ running' => running
    BY <1>2 DEF StopNextService, Sweep, TypeOK
  <2>2. NoRevival'
    BY <1>1, <1>2, <2>1 DEF NoRevival, LiveWorkersListed, AllOff
  <2>3. CASE started = <<>>
    <3> DEFINE lost == {j \in tracked : status[j] \notin Terminal}
    <3>1. /\ status' = [j \in Jobs |-> IF j \in lost THEN "cancelled" ELSE status[j]]
          /\ signalled' \subseteq signalled \union lost /\ UNCHANGED <<tracked, history>>
      BY <1>2, <2>3 DEF StopNextService, Sweep, Signal
    <3>2. lost \subseteq Jobs /\ \A j \in lost : status[j] \in JobLedger!Open
      BY DEF TypeOK, StatusAgrees, Status, JobLedger!Open
    <3>3. JobLedger!CancelAll(lost)
      BY <1>1, <3>1, <3>2 DEF JobLedger!CancelAll
    <3>4. \A j \in Jobs : IF j \in lost THEN status'[j] = "cancelled" ELSE status'[j] = status[j]
      BY <3>1
    <3>5. \A j \in Jobs : status[j] \in Terminal => status'[j] \in Terminal
      BY <3>4
    <3>6. \A j \in tracked : status'[j] \in Terminal
      BY <3>2, <3>4 DEF TypeOK, Terminal
    <3>7. \A j \in queue \union blocked : j \in Jobs /\ status'[j] \in Terminal
      BY <3>5, <3>6 DEF StatusAgrees, TypeOK, Terminal
    <3>8. \A j \in signalled' : status'[j] \in Terminal
      BY <3>1, <3>5, <3>6 DEF StatusAgrees, TypeOK
    <3>9. /\ \A j \in Jobs \ tracked' : status'[j] \in Terminal \union {"new"}
          /\ \A j \in tracked' : status'[j] # "new"
      BY <3>1, <3>4, <3>6 DEF StatusAgrees, Terminal
    <3>10. \A i \in 1..Len(history') : status'[history'[i]] \in Terminal
      <4>1. \A i \in 1..Len(history) : history[i] \in Jobs
        BY DEF TypeOK
      <4> QED
        BY <4>1, <3>1, <3>5 DEF StatusAgrees
    <3>11. StatusAgrees'
      BY <1>1, <1>2, <3>7, <3>8, <3>9, <3>10 DEF StatusAgrees, AllOff
    <3> QED
      BY <2>2, <3>2, <3>3, <3>11 DEF JobLedger!Next
  <2>4. CASE started # <<>>
    <3>1. UNCHANGED ledger
      BY <1>2, <2>4 DEF StopNextService
    <3>2. StatusAgrees'
      BY <1>1, <1>2, <3>1 DEF StatusAgrees, ledger
    <3> QED
      BY <1>1, <2>2, <3>1, <3>2 DEF ledger
  <2> QED
    BY <2>3, <2>4
<1>3. ASSUME CancelWorkers(s), listed' = listed
      PROVE  LedgerInv' /\ (JobLedger!Next \/ UNCHANGED <<status, waiter>>)
  <2>1. CASE listed = {}
    <3>1. AllOff
      BY <2>1 DEF NoRevival, LiveWorkersListed, AllOff
    <3> QED
      BY <1>2, <1>3, <2>1, <3>1 DEF CancelWorkers
  <2>2. CASE listed # {}
    <3>1. /\ running' = running /\ UNCHANGED ledger
          /\ stopper'[s] = "gather" /\ awaited'[s] = listed
          /\ \A t \in Stoppers \ {s} : stopper'[t] = stopper[t] /\ awaited'[t] = awaited[t]
      BY <1>3, <2>2 DEF CancelWorkers, TypeOK
    <3>2. NoRevival'
      BY <1>1, <1>3, <3>1 DEF NoRevival, LiveWorkersListed, AllOff
    <3>3. StatusAgrees'
      BY <1>1, <1>3, <3>1 DEF StatusAgrees, ledger
    <3> QED
      BY <1>1, <3>1, <3>2, <3>3 DEF ledger
  <2> QED
    BY <2>1, <2>2
<1>4. CASE Drained(s) \/ GraceElapsed(s)
  BY <1>3, <1>4 DEF DrainOver, Drained, GraceElapsed
<1>5. CASE Gathered(s)
  <2>1. AllOff
    BY <1>5 DEF Gathered, NoRevival, LiveWorkersListed, AllOff
  <2> QED
    BY <1>2, <1>5, <2>1 DEF Gathered
<1>6. CASE ServiceStopped(s)
  <2>1. listed = {} /\ AllOff
    BY <1>6 DEF ServiceStopped, NoRevival, LiveWorkersListed, AllOff
  <2> QED
    BY <1>2, <1>6, <2>1 DEF ServiceStopped, pool
<1>7. ASSUME NEW drain \in BOOLEAN, Stop(s, drain)
      PROVE  LedgerInv' /\ (JobLedger!Next \/ UNCHANGED <<status, waiter>>)
  <2>1. CASE drain
    <3>1. /\ UNCHANGED <<running, awaited, ledger, listed>> /\ stopper'[s] = "drain"
          /\ \A t \in Stoppers \ {s} : stopper'[t] = stopper[t]
      BY <1>7, <2>1 DEF Stop, TypeOK
    <3>2. NoRevival'
      BY <1>1, <3>1 DEF NoRevival, LiveWorkersListed, AllOff
    <3>3. StatusAgrees'
      BY <1>1, <3>1 DEF StatusAgrees, ledger
    <3> QED
      BY <1>1, <3>1, <3>2, <3>3 DEF ledger
  <2>2. CASE ~drain
    BY <1>3, <1>7, <2>2 DEF Stop
  <2> QED
    BY <2>1, <2>2
<1> QED
  BY <1>4, <1>5, <1>6, <1>7 DEF StopperStep

LEMMA LedgerStep ==
  ASSUME OneLifecycle
  PROVE  AccountingInv /\ LedgerInv /\ [Next]_vars =>
           LedgerInv' /\ [JobLedger!Next]_<<status, waiter>>
<1> SUFFICES ASSUME AccountingInv, LedgerInv, [Next]_vars
             PROVE  LedgerInv' /\ [JobLedger!Next]_<<status, waiter>>
  OBVIOUS
<1>1. CASE Start \/ StarterStep \/ \E s \in Services : Register(s)
  BY <1>1, LedgerStart
<1>2. CASE \E j \in Jobs : JobStep(j)
  BY <1>2, LedgerJob
<1>3. ASSUME NEW w \in Workers, WorkerStep(w)
      PROVE  LedgerInv' /\ [JobLedger!Next]_<<status, waiter>>
  <2>1. NoRevival'
    BY <1>3, WorkersOnlyEnd, NoRevivalKept DEF AccountingInv, LedgerInv
  <2>2. StatusAgrees' /\ [JobLedger!Next]_<<status, waiter>>
    BY <1>3, LedgerWork, LedgerCancel DEF WorkerStep
  <2> QED
    BY <2>1, <2>2 DEF LedgerInv
<1>4. CASE \E s \in Stoppers : StopperStep(s) \/ \E drain \in BOOLEAN : Stop(s, drain)
  BY <1>4, LedgerStop
<1>5. CASE UNCHANGED vars
  <2>1. NoRevival'
    BY <1>5, NoRevivalKept DEF vars, pool, LedgerInv
  <2>2. StatusAgrees'
    BY <1>5, StatusKept DEF vars, lifecycle, pool, intake, LedgerInv, AccountingInv
  <2> QED
    BY <1>5, <2>1, <2>2 DEF vars, ledger, LedgerInv
<1> QED
  BY <1>1, <1>2, <1>3, <1>4, <1>5 DEF Next

\* In one lifecycle the orchestrator implements JobService: every job gets one
\* verdict, which is final, and every waiter is told that verdict or that the
\* bounded history has dropped the job; no shutdown race breaks it.
THEOREM OrchestratorImplementsJobService ==
  ASSUME OneLifecycle
  PROVE  Spec => ImplementsJobService
<1>1. Init => JobLedger!Init
  BY LedgerInit
<1>2. Init => LedgerInv
  BY LedgerInit
<1>3. AccountingInv /\ LedgerInv /\ [Next]_vars => LedgerInv'
  BY LedgerStep
<1>4. AccountingInv /\ LedgerInv /\ [Next]_vars => [JobLedger!Next]_<<status, waiter>>
  BY LedgerStep
<1>5. Spec => []LedgerInv
  BY <1>2, <1>3, AccountingInvariant, PTL DEF Spec
<1>6. JobLedger!Spec <=> JobLedger!Init /\ [][JobLedger!Next]_<<status, waiter>>
  BY DEF JobLedger!Spec, JobLedger!vars
<1> QED
  BY <1>1, <1>4, <1>5, <1>6, AccountingInvariant, PTL DEF Spec, ImplementsJobService

\* A verdict is final within one lifecycle (TaskStatus.is_terminal).
THEOREM VerdictIsFinal ==
  ASSUME OneLifecycle
  PROVE  Spec => ResultIsFinal
<1>1. ASSUME TypeOK, [JobLedger!Next]_<<status, waiter>>
      PROVE  [\A j \in Jobs : status[j] \in Terminal => status'[j] = status[j]]_status
  <2>0. status \in [Jobs -> Status]
    BY <1>1 DEF TypeOK
  <2>1. CASE UNCHANGED <<status, waiter>>
    BY <2>1
  <2>2. ASSUME NEW k \in Jobs, JobLedger!Accept(k)
        PROVE  \A j \in Jobs : status[j] \in Terminal => status'[j] = status[j]
    BY <2>0, <2>2 DEF JobLedger!Accept, Terminal
  <2>3. ASSUME NEW k \in Jobs, JobLedger!Begin(k)
        PROVE  \A j \in Jobs : status[j] \in Terminal => status'[j] = status[j]
    BY <2>0, <2>3 DEF JobLedger!Begin, Terminal
  <2>4. ASSUME NEW k \in Jobs, JobLedger!Ask(k) \/ JobLedger!Tell(k) \/ JobLedger!Forget(k)
        PROVE  UNCHANGED status
    BY <2>4 DEF JobLedger!Ask, JobLedger!Tell, JobLedger!Forget
  <2>5. ASSUME NEW k \in Jobs, NEW v \in JobLedger!Final, JobLedger!Conclude(k, v)
        PROVE  \A j \in Jobs : status[j] \in Terminal => status'[j] = status[j]
    BY <2>0, <2>5 DEF JobLedger!Conclude, Terminal
  <2>6. ASSUME NEW js \in SUBSET Jobs, JobLedger!CancelAll(js)
        PROVE  \A j \in Jobs : status[j] \in Terminal => status'[j] = status[j]
    BY <2>6 DEF JobLedger!CancelAll, JobLedger!Open, Terminal
  <2> QED
    BY <1>1, <2>1, <2>2, <2>3, <2>4, <2>5, <2>6 DEF JobLedger!Next
<1>2. JobLedger!Spec => [][JobLedger!Next]_<<status, waiter>>
  BY DEF JobLedger!Spec, JobLedger!vars
<1> QED
  BY <1>1, <1>2, TypeCorrect, OrchestratorImplementsJobService,
     PTL DEF ImplementsJobService, ResultIsFinal
=============================================================================
