------------------------------ MODULE Orchestrator ------------------------------
(***************************************************************************)
(* The process-level orchestrator of core/orchestrator.py: a bounded       *)
(* priority queue of jobs, a pool of worker tasks, the background services *)
(* that must be up around them, and the start / stop lifecycle.            *)
(*                                                                         *)
(* asyncio is cooperative: code between two awaits is atomic.  Every       *)
(* action below is the code from one suspension point to the next, and the *)
(* program counters name the suspension points.  The event sink may be     *)
(* asynchronous, so each `await self._emit(...)` is one.                   *)
(***************************************************************************)
EXTENDS Integers, FiniteSets, SequencesExt

CONSTANTS
  Jobs,            \* job ids; each one is submitted at most once
  Workers,         \* the worker-N slots; one task per slot and start()
  BrokenWorkers,   \* slots whose agent_factory() raises
  Services,        \* background services
  FlakyServices,   \* services whose start() may raise
  InitialServices, \* the sequence of services given to the constructor
  Stoppers,        \* tasks that may call stop()
  Priority,        \* job -> priority, lower is dequeued first
  QueueSize, HistorySize,
  Orders,          \* the values of config.start_services_before_workers
  Watched,         \* bound: the jobs somebody may wait for
  MaxStarts,       \* bound: calls of start() that find the process stopped
  NoJob            \* what a worker that holds no job holds

ASSUME OrchestratorAssumption ==
  /\ IsFiniteSet(Jobs) /\ IsFiniteSet(Workers)
  /\ BrokenWorkers \subseteq Workers
  /\ FlakyServices \subseteq Services
  /\ InitialServices \in Seq(Services)
  /\ Priority \in [Jobs -> Nat]
  /\ QueueSize \in Nat \ {0}
  /\ HistorySize \in Nat
  /\ Orders \subseteq BOOLEAN
  /\ Watched \subseteq Jobs
  /\ MaxStarts \in Nat
  /\ NoJob \notin Jobs

VARIABLES
  servicesFirst,  \* config.start_services_before_workers, which nothing changes
  running, shuttingDown,
  starter,      \* where start() is: it holds _lock unless "idle"
  cursor,       \* services start() has brought up so far
  starts,       \* how often start() found the process stopped (bounds the model)
  registered,   \* _services
  started,      \* _started_services
  stopper,      \* task -> where its stop() is
  awaited,      \* task -> the worker tasks its stop() gathers
  listed,       \* the worker tasks in _workers
  wpc,          \* worker -> where its task is
  held,         \* worker -> the job it took from the queue
  cancelled,    \* workers whose task was cancelled and has not yet run since
  queue,        \* the jobs in _queue
  blocked,      \* the jobs whose submit() waits for room in the queue
  unfinished,   \* _queue._unfinished_tasks
  released,     \* tasks whose join() was woken and has not yet returned to stop()
  owed,         \* task -> the jobs its drain is there for (kept for a property)
  sequence,     \* _sequence
  seqOf,        \* job -> its tiebreaker
  status,       \* job -> job.status, "new" until submitted
  tracked,      \* the keys of _jobs (and of _completion)
  history,      \* _history
  signalled,    \* jobs whose completion event is set
  waiter        \* job -> where a wait_for(job) is, and what it delivered

lifecycle == <<servicesFirst, running, shuttingDown, starter, cursor, starts, registered, started>>
stopping  == <<stopper, awaited>>
pool      == <<listed, wpc, held, cancelled>>
intake    == <<queue, blocked, unfinished, released, owed, sequence, seqOf>>
ledger    == <<status, tracked, history, signalled>>
vars      == <<lifecycle, stopping, pool, intake, ledger, waiter>>

Terminal == {"succeeded", "failed", "cancelled"}
Status   == {"new", "pending", "running"} \union Terminal
Busy     == {"started", "running", "reporting"}

TypeOK ==
  /\ servicesFirst \in BOOLEAN /\ running \in BOOLEAN /\ shuttingDown \in BOOLEAN
  /\ starter \in {"idle", "services", "unwind"}
  /\ cursor \in Nat /\ starts \in 0..MaxStarts
  /\ registered \in Seq(Services) /\ started \in Seq(Services)
  /\ stopper \in [Stoppers -> {"idle", "drain", "gather", "services"}]
  /\ awaited \in [Stoppers -> SUBSET Workers]
  /\ listed \in SUBSET Workers /\ cancelled \in SUBSET Workers
  /\ wpc \in [Workers -> {"off", "fresh", "idle"} \union Busy]
  /\ held \in [Workers -> Jobs \union {NoJob}]
  /\ queue \in SUBSET Jobs /\ blocked \in SUBSET Jobs
  /\ released \in SUBSET Stoppers /\ owed \in [Stoppers -> SUBSET Jobs]
  /\ unfinished \in Nat /\ sequence \in Nat /\ seqOf \in [Jobs -> Nat]
  /\ status \in [Jobs -> Status]
  /\ tracked \in SUBSET Jobs /\ signalled \in SUBSET Jobs
  /\ history \in Seq(Jobs)
  /\ waiter \in [Jobs -> {"none", "waiting", "unknown", "lost"} \union Status]

Init ==
  /\ servicesFirst \in Orders
  /\ running = FALSE /\ shuttingDown = FALSE
  /\ starter = "idle" /\ cursor = 0 /\ starts = 0
  /\ registered = InitialServices /\ started = <<>>
  /\ stopper = [s \in Stoppers |-> "idle"]
  /\ awaited = [s \in Stoppers |-> {}]
  /\ listed = {} /\ cancelled = {}
  /\ wpc = [w \in Workers |-> "off"]
  /\ held = [w \in Workers |-> NoJob]
  /\ queue = {} /\ blocked = {} /\ unfinished = 0
  /\ released = {} /\ owed = [s \in Stoppers |-> {}]
  /\ sequence = 0 /\ seqOf = [j \in Jobs |-> 0]
  /\ status = [j \in Jobs |-> "new"]
  /\ tracked = {} /\ history = <<>> /\ signalled = {}
  /\ waiter = [j \in Jobs |-> "none"]

-----------------------------------------------------------------------------
(* start(), register_service() and _start_services().                      *)

\* create_task for every slot; a task runs no code before its first step.
SpawnWorkers ==
  /\ listed' = Workers
  /\ wpc' = [w \in Workers |-> IF wpc[w] = "off" THEN "fresh" ELSE wpc[w]]
  /\ UNCHANGED <<held, cancelled>>

\* register_service: appends to the list and starts nothing.
Register(s) ==
  /\ s \notin Range(registered)
  /\ registered' = Append(registered, s)
  /\ UNCHANGED <<servicesFirst, running, shuttingDown, starter, cursor, starts, started,
                 stopping, pool, intake, ledger, waiter>>

\* start() up to its first await: the flags are set before any service is up.
Start ==
  /\ starter = "idle" /\ ~running /\ starts < MaxStarts
  /\ running' = TRUE /\ shuttingDown' = FALSE
  /\ starter' = "services" /\ cursor' = 0 /\ starts' = starts + 1
  /\ IF servicesFirst THEN UNCHANGED pool ELSE SpawnWorkers
  /\ UNCHANGED <<servicesFirst, registered, started, stopping, intake, ledger, waiter>>

\* The service under the cursor came up; the loop reads the list as it grows.
ServiceUp ==
  /\ starter = "services" /\ cursor < Len(registered)
  /\ cursor' = cursor + 1
  /\ started' = Append(started, registered[cursor + 1])
  /\ UNCHANGED <<servicesFirst, running, shuttingDown, starter, starts, registered,
                 stopping, pool, intake, ledger, waiter>>

\* Mutated form: a service that fails to start is logged and skipped.
SkipFailedService ==
  /\ starter = "services" /\ cursor < Len(registered)
  /\ registered[cursor + 1] \in FlakyServices
  /\ cursor' = cursor + 1
  /\ UNCHANGED <<servicesFirst, running, shuttingDown, starter, starts, registered, started,
                 stopping, pool, intake, ledger, waiter>>

\* start() pops the next service to stop, or raises when none is left.
UnwindNext ==
  IF started = <<>>
    THEN starter' = "idle" /\ UNCHANGED started
    ELSE starter' = "unwind" /\ started' = Front(started)

\* It raised: _stop_services unwinds what is up.
ServiceFails ==
  /\ starter = "services" /\ cursor < Len(registered)
  /\ registered[cursor + 1] \in FlakyServices
  /\ UnwindNext
  /\ UNCHANGED <<servicesFirst, running, shuttingDown, cursor, starts, registered,
                 stopping, pool, intake, ledger, waiter>>

\* One service of the failed start was stopped; a failure to stop is logged.
Unwind ==
  /\ starter = "unwind"
  /\ UnwindNext
  /\ UNCHANGED <<servicesFirst, running, shuttingDown, cursor, starts, registered,
                 stopping, pool, intake, ledger, waiter>>

\* All registered services are up: start() ends and releases the lock.
StartEnds ==
  /\ starter = "services" /\ cursor = Len(registered)
  /\ starter' = "idle"
  /\ IF servicesFirst THEN SpawnWorkers ELSE UNCHANGED pool
  /\ UNCHANGED <<servicesFirst, running, shuttingDown, cursor, starts, registered, started,
                 stopping, intake, ledger, waiter>>

-----------------------------------------------------------------------------
(* submit() and wait_for().                                                *)

\* put_nowait: the item is in the queue and join() has one more to wait for.
Enqueue(j) ==
  /\ queue' = queue \union {j}
  /\ unfinished' = unfinished + 1

HasRoom == Cardinality(queue) < QueueSize

\* submit() up to the end of put() when there is room, else up to its wait.
Submit(j) ==
  /\ status[j] = "new" /\ running /\ ~shuttingDown
  /\ status' = [status EXCEPT ![j] = "pending"]
  /\ tracked' = tracked \union {j}
  /\ sequence' = sequence + 1
  /\ seqOf' = [seqOf EXCEPT ![j] = sequence + 1]
  /\ IF HasRoom
       THEN Enqueue(j) /\ UNCHANGED blocked
       ELSE blocked' = blocked \union {j} /\ UNCHANGED <<queue, unfinished>>
  /\ UNCHANGED <<lifecycle, stopping, pool, released, owed, history, signalled, waiter>>

\* A get() made room and the blocked put() went through.
PutUnblocks(j) ==
  /\ j \in blocked /\ HasRoom
  /\ Enqueue(j)
  /\ blocked' = blocked \ {j}
  /\ UNCHANGED <<lifecycle, stopping, pool, released, owed, sequence, seqOf, ledger, waiter>>

\* The caller gave up on a blocked submit(): the job record stays behind.
SubmitAbandoned(j) ==
  /\ j \in blocked
  /\ blocked' = blocked \ {j}
  /\ UNCHANGED <<lifecycle, stopping, pool, queue, unfinished, released, owed, sequence,
                 seqOf, ledger, waiter>>

\* wait_for(j) of a submitted job: it waits, or the record is already evicted.
WaitFor(j) ==
  /\ j \in Watched /\ waiter[j] = "none" /\ status[j] # "new"
  /\ waiter' = [waiter EXCEPT ![j] = IF j \in tracked THEN "waiting" ELSE "unknown"]
  /\ UNCHANGED <<lifecycle, stopping, pool, intake, ledger>>

\* The event is set and the task runs: it looks the job up only now.
WaitReturns(j) ==
  /\ waiter[j] = "waiting" /\ j \in signalled
  /\ waiter' = [waiter EXCEPT ![j] = IF j \in tracked THEN status[j] ELSE "lost"]
  /\ UNCHANGED <<lifecycle, stopping, pool, intake, ledger>>

-----------------------------------------------------------------------------
(* _worker_loop() and _run_job().                                          *)

\* _remember: append, then evict the oldest records over the bound.
Remember(j) ==
  LET longer   == Append(history, j)
      overflow == Len(longer) - HistorySize
  IN  IF overflow > 0
        THEN /\ history' = SubSeq(longer, overflow + 1, Len(longer))
             /\ tracked' = tracked \ {longer[i] : i \in 1..overflow}
        ELSE /\ history' = longer
             /\ tracked' = tracked

\* _signal_completion, given the records there are: an evicted job has no event.
Signal(js, records) == signalled' = signalled \union (js \intersect records)

\* The workers that hold a job.
Holding == {w \in Workers : held[w] # NoJob}

\* The tasks that wait in the join() of their drain.
Joining == {s \in Stoppers : stopper[s] = "drain"}

\* Mutated form: join() is woken by the last get().
TaskDoneEarly(w, pc) ==
  /\ wpc' = [wpc EXCEPT ![w] = pc]
  /\ held' = [held EXCEPT ![w] = NoJob]
  /\ unfinished' = unfinished - 1
  /\ released' = IF queue = {} THEN released \union Joining ELSE released

\* The worker leaves its job (task_done) and goes to pc.  The last task_done() wakes
\* every join(), whatever is put into the queue before the woken task runs.
TaskDone(w, pc) ==
  /\ wpc' = [wpc EXCEPT ![w] = pc]
  /\ held' = [held EXCEPT ![w] = NoJob]
  /\ unfinished' = unfinished - 1
  /\ released' = IF unfinished' = 0 THEN released \union Joining ELSE released

\* The task's first step builds the agent; a factory error ends the task.
Boot(w) ==
  /\ wpc[w] = "fresh" /\ w \notin cancelled
  /\ wpc' = [wpc EXCEPT ![w] = IF w \in BrokenWorkers THEN "off" ELSE "idle"]
  /\ UNCHANGED <<lifecycle, stopping, listed, held, cancelled, intake, ledger, waiter>>

\* The order of the (priority, sequence, id) tuples.
Before(j, k) ==
  \/ Priority[j] < Priority[k]
  \/ Priority[j] = Priority[k] /\ seqOf[j] < seqOf[k]

\* Mutated form: a get() lets the waiting put() go first.
GetAfterPuts(w, j) ==
  /\ wpc[w] = "idle" /\ w \notin cancelled
  /\ j \in queue /\ blocked = {}
  /\ queue' = queue \ {j}
  /\ wpc' = [wpc EXCEPT ![w] = "started"]
  /\ held' = [held EXCEPT ![w] = j]
  /\ status' = [status EXCEPT ![j] = "running"]
  /\ UNCHANGED <<lifecycle, stopping, listed, cancelled, blocked, unfinished,
                 released, owed, sequence, seqOf, tracked, history, signalled, waiter>>

\* get() returns the least item and _run_job marks it running.
Get(w, j) ==
  /\ wpc[w] = "idle" /\ w \notin cancelled
  /\ j \in queue /\ \A k \in queue \ {j} : Before(j, k)
  /\ queue' = queue \ {j}
  /\ wpc' = [wpc EXCEPT ![w] = "started"]
  /\ held' = [held EXCEPT ![w] = j]
  /\ status' = [status EXCEPT ![j] = "running"]
  /\ UNCHANGED <<lifecycle, stopping, listed, cancelled, blocked, unfinished,
                 released, owed, sequence, seqOf, tracked, history, signalled, waiter>>

\* The sink took "job.started"; the worker enters agent.run().
RunAgent(w) ==
  /\ wpc[w] = "started" /\ w \notin cancelled
  /\ wpc' = [wpc EXCEPT ![w] = "running"]
  /\ UNCHANGED <<lifecycle, stopping, listed, held, cancelled, intake, ledger, waiter>>

\* Mutated form: the completion event is left to the "job.finished" report.
ReturnsUnsignalled(w, outcome) ==
  /\ wpc[w] = "running" /\ w \notin cancelled
  /\ wpc' = [wpc EXCEPT ![w] = "reporting"]
  /\ status' = [status EXCEPT ![held[w]] = outcome]
  /\ Remember(held[w])
  /\ UNCHANGED <<lifecycle, stopping, listed, held, cancelled, intake, signalled, waiter>>

\* agent.run() returned or raised: status, history, event, all before an await.
AgentReturns(w, outcome) ==
  LET j == held[w] IN
  /\ wpc[w] = "running" /\ w \notin cancelled
  /\ wpc' = [wpc EXCEPT ![w] = "reporting"]
  /\ status' = [status EXCEPT ![j] = outcome]
  /\ Remember(j)
  /\ Signal({j}, tracked')
  /\ UNCHANGED <<lifecycle, stopping, listed, held, cancelled, intake, waiter>>

\* Mutated form: the worker serves one job and ends.
ReportedAndGone(w) ==
  /\ wpc[w] = "reporting" /\ w \notin cancelled
  /\ TaskDone(w, "off")
  /\ UNCHANGED <<lifecycle, stopping, listed, cancelled, queue, blocked,
                 owed, sequence, seqOf, ledger, waiter>>

\* The sink took "job.finished": the loop goes round.
Reported(w) ==
  /\ wpc[w] = "reporting" /\ w \notin cancelled
  /\ TaskDone(w, "idle")
  /\ UNCHANGED <<lifecycle, stopping, listed, cancelled, queue, blocked,
                 owed, sequence, seqOf, ledger, waiter>>

\* Mutated form: the idle worker swallows the cancellation and goes on.
CancelSwallowed(w) ==
  /\ w \in cancelled /\ wpc[w] \in {"fresh", "idle"}
  /\ cancelled' = cancelled \ {w}
  /\ UNCHANGED <<lifecycle, stopping, listed, wpc, held, intake, ledger, waiter>>

\* CancelledError at an await outside a job ends the task.
CancelledIdle(w) ==
  /\ w \in cancelled /\ wpc[w] \in {"fresh", "idle"}
  /\ wpc' = [wpc EXCEPT ![w] = "off"]
  /\ cancelled' = cancelled \ {w}
  /\ UNCHANGED <<lifecycle, stopping, listed, held, intake, ledger, waiter>>

\* Mutated form: an early exit that forgets task_done().
CancelKeepsItem(w) ==
  /\ status' = IF held[w] \in tracked' /\ status[held[w]] \notin Terminal
                 THEN [status EXCEPT ![held[w]] = "cancelled"] ELSE status
  /\ cancelled' = cancelled \ {w}
  /\ wpc' = [wpc EXCEPT ![w] = "off"]
  /\ held' = [held EXCEPT ![w] = NoJob]
  /\ UNCHANGED <<lifecycle, stopping, listed, intake, waiter>>

\* The loop's handler: a job that is not finished becomes CANCELLED, if its
\* record is still there; then the one task_done() of the finally clause.
CancelHeld(w) ==
  /\ status' = IF held[w] \in tracked' /\ status[held[w]] \notin Terminal
                 THEN [status EXCEPT ![held[w]] = "cancelled"] ELSE status
  /\ cancelled' = cancelled \ {w}
  /\ TaskDone(w, "off")
  /\ UNCHANGED <<lifecycle, stopping, listed, queue, blocked, owed, sequence,
                 seqOf, waiter>>

\* Cancelled in the sink of "job.started": _run_job has not entered its try.
CancelledStarting(w) ==
  /\ w \in cancelled /\ wpc[w] = "started"
  /\ UNCHANGED <<tracked, history>>
  /\ Signal({held[w]}, tracked)
  /\ CancelHeld(w)

\* Cancelled in agent.run(): _run_job's finally remembers and signals first.
CancelledRunning(w) ==
  /\ w \in cancelled /\ wpc[w] = "running"
  /\ Remember(held[w])
  /\ Signal({held[w]}, tracked')
  /\ CancelHeld(w)

\* Cancelled in the sink of "job.finished": the job keeps its verdict.
CancelledReporting(w) ==
  /\ w \in cancelled /\ wpc[w] = "reporting"
  /\ UNCHANGED <<tracked, history, signalled>>
  /\ CancelHeld(w)

-----------------------------------------------------------------------------
(* stop() and _stop_services().                                            *)

\* Mutated form: waiters are released but the lost jobs keep their status.
SweepSignalsOnly(s) ==
  /\ stopper' = [stopper EXCEPT ![s] = "idle"]
  /\ Signal(tracked, tracked)
  /\ running' = FALSE
  /\ UNCHANGED <<status, tracked, history>>

\* The end of stop(): every unfinished record is cancelled and released.
Sweep(s) ==
  LET lost == {j \in tracked : status[j] \notin Terminal} IN
  /\ stopper' = [stopper EXCEPT ![s] = "idle"]
  /\ status' = [j \in Jobs |-> IF j \in lost THEN "cancelled" ELSE status[j]]
  /\ Signal(lost, tracked)
  /\ running' = FALSE
  /\ UNCHANGED <<tracked, history>>

\* Pop the next service and stop it, or sweep when none is left.
StopNextService(s) ==
  IF started = <<>>
    THEN Sweep(s) /\ UNCHANGED started
    ELSE /\ stopper' = [stopper EXCEPT ![s] = "services"]
         /\ started' = Front(started)
         /\ UNCHANGED <<running, ledger>>

\* Cancel every task in _workers and wait for them; with none, go straight on.
CancelWorkers(s) ==
  IF listed = {}
    THEN StopNextService(s) /\ UNCHANGED <<awaited, cancelled>>
    ELSE /\ stopper' = [stopper EXCEPT ![s] = "gather"]
         /\ awaited' = [awaited EXCEPT ![s] = listed]
         /\ cancelled' = cancelled \union {w \in listed : wpc[w] # "off"}
         /\ UNCHANGED <<running, started, ledger>>

\* stop(drain): with drain it waits in join(), without it cancels at once.
Stop(s, drain) ==
  /\ stopper[s] = "idle" /\ starter = "idle" /\ running
  /\ shuttingDown' = TRUE
  /\ IF drain
       THEN /\ stopper' = [stopper EXCEPT ![s] = "drain"]
            /\ released' = IF unfinished = 0 THEN released \union {s} ELSE released
            /\ owed' = [owed EXCEPT ![s] = queue \union {held[w] : w \in Holding}]
            /\ UNCHANGED <<running, started, awaited, cancelled, ledger>>
       ELSE CancelWorkers(s) /\ UNCHANGED <<released, owed>>
  /\ UNCHANGED <<servicesFirst, starter, cursor, starts, registered, listed, wpc, held,
                 queue, blocked, unfinished, sequence, seqOf, waiter>>

\* What both ends of a drain do.
DrainOver(s) ==
  /\ stopper[s] = "drain"
  /\ released' = released \ {s}
  /\ owed' = [owed EXCEPT ![s] = {}]
  /\ CancelWorkers(s)
  /\ UNCHANGED <<servicesFirst, shuttingDown, starter, cursor, starts, registered, listed,
                 wpc, held, queue, blocked, unfinished, sequence, seqOf, waiter>>

\* join() returned: there was a moment without unfinished items.
Drained(s) == s \in released /\ DrainOver(s)

\* The grace period ended first.
GraceElapsed(s) == s \notin released /\ DrainOver(s)

\* Mutated form: the cancelled workers are not awaited.
GatherSkipped(s) ==
  /\ stopper[s] = "gather"
  /\ listed' = {}
  /\ awaited' = [awaited EXCEPT ![s] = {}]
  /\ StopNextService(s)
  /\ UNCHANGED <<servicesFirst, shuttingDown, starter, cursor, starts, registered,
                 wpc, held, cancelled, intake, waiter>>

\* gather() returned; _workers is emptied.
Gathered(s) ==
  /\ stopper[s] = "gather" /\ \A w \in awaited[s] : wpc[w] = "off"
  /\ listed' = {}
  /\ awaited' = [awaited EXCEPT ![s] = {}]
  /\ StopNextService(s)
  /\ UNCHANGED <<servicesFirst, shuttingDown, starter, cursor, starts, registered,
                 wpc, held, cancelled, intake, waiter>>

\* The service's stop() ended, with or without an error.
ServiceStopped(s) ==
  /\ stopper[s] = "services"
  /\ StopNextService(s)
  /\ UNCHANGED <<servicesFirst, shuttingDown, starter, cursor, starts, registered,
                 awaited, pool, intake, waiter>>

-----------------------------------------------------------------------------
WorkerStep(w) ==
  \/ Boot(w) \/ RunAgent(w) \/ Reported(w)
  \/ \E j \in Jobs : Get(w, j)
  \/ \E outcome \in {"succeeded", "failed"} : AgentReturns(w, outcome)
  \/ CancelledIdle(w) \/ CancelledStarting(w)
  \/ CancelledRunning(w) \/ CancelledReporting(w)

StarterStep == ServiceUp \/ ServiceFails \/ Unwind \/ StartEnds

StopperStep(s) == Drained(s) \/ GraceElapsed(s) \/ Gathered(s) \/ ServiceStopped(s)

JobStep(j) == Submit(j) \/ PutUnblocks(j) \/ SubmitAbandoned(j) \/ WaitFor(j) \/ WaitReturns(j)

Next ==
  \/ Start \/ StarterStep
  \/ \E s \in Services : Register(s)
  \/ \E j \in Jobs : JobStep(j)
  \/ \E w \in Workers : WorkerStep(w)
  \/ \E s \in Stoppers : StopperStep(s) \/ \E drain \in BOOLEAN : Stop(s, drain)

\* The event loop runs every ready task, agent.run() has a timeout of its own,
\* service calls return, and a drain lasts at most the grace period.  Nobody
\* has to call start, stop, submit or wait_for, or to give up a submit.
Fairness ==
  /\ WF_vars(StarterStep)
  /\ \A w \in Workers : WF_vars(WorkerStep(w))
  /\ \A s \in Stoppers : WF_vars(StopperStep(s))
  /\ \A j \in Jobs : WF_vars(PutUnblocks(j)) /\ WF_vars(WaitReturns(j))

Spec == Init /\ [][Next]_vars

FairSpec == Spec /\ Fairness

-----------------------------------------------------------------------------
(* Safety.                                                                 *)

\* Every item put into the queue is waited for by join() exactly until the one
\* task_done() of the worker that took it, and no job is in two places: the
\* promise of the comment on the single task_done() in _worker_loop.
ExactAccounting ==
  /\ unfinished = Cardinality(queue) + Cardinality(Holding)
  /\ \A w \in Holding : held[w] \notin queue
  /\ \A v, w \in Holding : held[v] = held[w] => v = w

\* stop() reaches every worker task there is: none outlives its entry in
\* _workers and goes on taking jobs from a stopped orchestrator.
LiveWorkersListed == \A w \in Workers : wpc[w] # "off" => w \in listed

\* With start_services_before_workers, a worker task exists only while every
\* service start() was given is up, through failed starts, stops and restarts:
\* what keeps scan traffic behind the VPN tunnel.
WorkOnlyBehindServices ==
  servicesFirst =>
    \A w \in Workers : wpc[w] # "off" =>
      starter = "idle" /\ started = SubSeq(registered, 1, cursor)

\* The record of a job that is queued or being run is never evicted, so that
\* self._jobs[job_id] in _worker_loop finds it whatever the history bound is.
QueuedJobsTracked ==
  queue \union {held[w] : w \in {v \in Workers : wpc[v] \in {"started", "running"}}}
    \subseteq tracked

-----------------------------------------------------------------------------
(* Action properties.                                                      *)

\* A job that reached a terminal status keeps it (TaskStatus.is_terminal).
ResultIsFinal ==
  [][\A j \in Jobs : status[j] \in Terminal => status'[j] = status[j]]_status

\* "Waits (up to the configured grace period) for queued and in-flight jobs": a drain
\* that ends before it has seen every job to its end that was queued or with a worker
\* when stop() was called, also while blocked submitters still put theirs.
DrainSeesThemOut ==
  [][\A s \in Stoppers : Drained(s) => \A j \in owed[s] : status[j] \in Terminal]_vars

\* One lifecycle of the orchestrator implements JobService: each job gets one
\* verdict and every waiter is told it, with the shutdown and all its races.
JobLedger == INSTANCE JobService WITH verdict <- status, answer <- waiter
ImplementsJobService == JobLedger!Spec

-----------------------------------------------------------------------------
(* Liveness.                                                               *)

\* What a start() that failed leaves behind if it was to start the services first: an
\* orchestrator that runs, accepts jobs and has no worker.
Stranded ==
  /\ running /\ servicesFirst /\ listed = {} /\ starter = "idle"
  /\ \A s \in Stoppers : stopper[s] = "idle"

\* Every job that got into the queue ends, by its own run or by a stop(), unless
\* start() has failed and nobody calls stop().
QueuedJobsEnd ==
  \A j \in Jobs : j \in queue ~> (status[j] \in Terminal \/ []Stranded)

\* Whoever waits for a queued job is released, with the same exception.
WaitersReleased ==
  \A j \in Jobs :
    (waiter[j] = "waiting" /\ j \in queue) ~> (waiter[j] # "waiting" \/ []Stranded)

\* stop() comes to its end, with jobs in flight or without.
StopEnds == \A s \in Stoppers : stopper[s] # "idle" ~> stopper[s] = "idle"

\* Back-pressure is temporary: a submit() blocked on a full queue goes on, unless the
\* orchestrator is being stopped, and with the same exception.
BackPressureReleases ==
  \A j \in Jobs : j \in blocked ~> (j \notin blocked \/ shuttingDown \/ []Stranded)
=============================================================================
