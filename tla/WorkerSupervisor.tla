---------------------------- MODULE WorkerSupervisor ----------------------------
(***************************************************************************)
(* daemon/service.py, WorkerSupervisor: background workers kept alive      *)
(* within a restart budget.  A worker is a coroutine that may return,      *)
(* raise, or hold on to a cancellation for a while; the operator may start *)
(* and reset workers at any moment, also while stop_all() waits.           *)
(***************************************************************************)
EXTENDS Integers, Sequences, FiniteSets, SequencesExt

CONSTANTS
  WorkerNames,
  MaxRestarts, Window, RestartDelay,  \* WorkerSpec, the same for all workers
  MaxSwallows                         \* bound: cancellations ignored per worker

ASSUME WorkerAssumption ==
  MaxRestarts \in Nat /\ Window \in Nat /\ RestartDelay \in Nat /\ MaxSwallows \in Nat

VARIABLES
  wstate,      \* _status[w].state, "unregistered" before register()
  task,        \* the worker's task: none (or ended), ready (created, not yet
               \* begun), working (in its factory), sleeping (in its backoff)
  recent,      \* recent_restarts, as ages; one above Window stands for all older
  nap,         \* what is left of the backoff
  stopping,    \* _stopping
  stopAll,     \* stop_all(): idle, grace (waiting), forced (the grace period is
               \* over and the tasks were cancelled again), or stopped
  awaited,     \* the tasks stop_all() waits for
  cancelled,   \* those a cancellation is on its way to
  swallows,    \* how many cancellations a worker has ignored
  lately       \* the ages of all restarts in the window since the last reset,
               \* whatever recent_restarts tells

workerVars == <<wstate, task, recent, nap, stopping, stopAll, awaited, cancelled,
                swallows, lately>>

Alive == {w \in WorkerNames : task[w] # "none"}

WorkersTypeOK ==
  /\ wstate \in [WorkerNames -> {"unregistered", "stopped", "running", "restarting", "failed"}]
  /\ task \in [WorkerNames -> {"none", "ready", "working", "sleeping"}]
  /\ recent \in [WorkerNames -> Seq(0..Window + 1)]
  /\ lately \in [WorkerNames -> Seq(0..Window)]
  /\ nap \in [WorkerNames -> Nat]
  /\ stopping \in BOOLEAN
  /\ stopAll \in {"idle", "grace", "forced", "stopped"}
  /\ awaited \subseteq Alive /\ cancelled \subseteq awaited
  /\ swallows \in [WorkerNames -> 0..MaxSwallows]

WorkersInit ==
  /\ wstate = [w \in WorkerNames |-> "unregistered"]
  /\ task = [w \in WorkerNames |-> "none"]
  /\ recent = [w \in WorkerNames |-> <<>>] /\ lately = recent
  /\ nap = [w \in WorkerNames |-> 0]
  /\ stopping = FALSE /\ stopAll = "idle" /\ awaited = {} /\ cancelled = {}
  /\ swallows = [w \in WorkerNames |-> 0]

-----------------------------------------------------------------------------
RegisterWorker(w) ==
  /\ wstate[w] = "unregistered"
  /\ wstate' = [wstate EXCEPT ![w] = "stopped"]
  /\ UNCHANGED <<task, recent, nap, stopping, stopAll, awaited, cancelled, swallows, lately>>

Startable(w) == wstate[w] \notin {"unregistered", "failed"} /\ task[w] = "none"

\* Mutated form: a start gives the worker a fresh budget.
StartWithBudget(ws) ==
  LET started == {w \in ws : Startable(w)} IN
  /\ wstate' = [w \in WorkerNames |-> IF w \in started THEN "running" ELSE wstate[w]]
  /\ task' = [w \in WorkerNames |-> IF w \in started THEN "ready" ELSE task[w]]
  /\ recent' = [w \in WorkerNames |-> IF w \in started THEN <<>> ELSE recent[w]]
  /\ UNCHANGED <<nap, stopping, stopAll, awaited, cancelled, swallows, lately>>

\* start() of every worker of ws: a live task is left alone, a FAILED worker
\* is refused.
StartWorkers(ws) ==
  LET started == {w \in ws : Startable(w)} IN
  /\ wstate' = [w \in WorkerNames |-> IF w \in started THEN "running" ELSE wstate[w]]
  /\ task' = [w \in WorkerNames |-> IF w \in started THEN "ready" ELSE task[w]]
  /\ UNCHANGED <<recent, nap, stopping, stopAll, awaited, cancelled, swallows, lately>>

-----------------------------------------------------------------------------
(* _run(w).                                                                *)

\* The task ends; a stop_all() that waits for it is told.
Ends(w) ==
  /\ task' = [task EXCEPT ![w] = "none"]
  /\ awaited' = awaited \ {w} /\ cancelled' = cancelled \ {w}
  /\ UNCHANGED <<nap, stopping, stopAll, swallows>>

EndsAs(w, outcome) ==
  /\ Ends(w)
  /\ wstate' = [wstate EXCEPT ![w] = outcome]

\* The head of the loop: the factory is called unless the supervisor stops.
Loops(w) ==
  IF stopping
    THEN Ends(w)
    ELSE /\ task' = [task EXCEPT ![w] = "working"]
         /\ UNCHANGED <<nap, stopping, stopAll, awaited, cancelled, swallows>>

Begins(w) ==
  /\ task[w] = "ready" /\ w \notin cancelled
  /\ Loops(w)
  /\ UNCHANGED <<wstate, recent, lately>>

\* The factory returned, or ended by a cancellation of its own.
Completes(w) ==
  /\ task[w] = "working"
  /\ EndsAs(w, "stopped")
  /\ UNCHANGED <<recent, lately>>

\* 2 ** min(n - 1, 5)
BackoffFactor(n) == 2 ^ (IF n - 1 < 5 THEN n - 1 ELSE 5)

\* The restarts of the window.
Within(ages) ==
  LET kept[i \in 0..Len(ages)] ==
        IF i = 0 THEN <<>>
        ELSE IF ages[i] <= Window THEN Append(kept[i - 1], ages[i])
        ELSE kept[i - 1]
  IN  kept[Len(ages)]

\* The factory raised: the end while stopping or when the budget of the window
\* is spent, otherwise a restart after its backoff.
Crashes(w) ==
  LET kept == Within(recent[w]) IN
  /\ task[w] = "working"
  /\ IF stopping \/ Len(kept) >= MaxRestarts
       THEN /\ EndsAs(w, IF stopping THEN "stopped" ELSE "failed")
            /\ recent' = [recent EXCEPT ![w] = IF stopping THEN @ ELSE kept]
            /\ UNCHANGED lately
       ELSE /\ wstate' = [wstate EXCEPT ![w] = "restarting"]
            /\ task' = [task EXCEPT ![w] = "sleeping"]
            /\ recent' = [recent EXCEPT ![w] = Append(kept, 0)]
            /\ lately' = [lately EXCEPT ![w] = Append(@, 0)]
            /\ nap' = [nap EXCEPT ![w] = RestartDelay * BackoffFactor(Len(kept) + 1)]
            /\ UNCHANGED <<stopping, stopAll, awaited, cancelled, swallows>>

Wakes(w) ==
  /\ task[w] = "sleeping" /\ nap[w] = 0 /\ w \notin cancelled
  /\ wstate' = [wstate EXCEPT ![w] = "running"]
  /\ Loops(w)
  /\ UNCHANGED <<recent, lately>>

\* The cancellation arrives. A task that had not begun never runs.
Cancelled(w) ==
  /\ w \in cancelled
  /\ IF task[w] = "ready" THEN Ends(w) /\ UNCHANGED wstate ELSE EndsAs(w, "stopped")
  /\ UNCHANGED <<recent, lately>>

\* The factory suppresses the cancellation and goes on.
Swallows(w) ==
  /\ w \in cancelled /\ task[w] = "working" /\ swallows[w] < MaxSwallows
  /\ cancelled' = cancelled \ {w}
  /\ swallows' = [swallows EXCEPT ![w] = @ + 1]
  /\ UNCHANGED <<wstate, task, recent, nap, stopping, stopAll, awaited, lately>>

-----------------------------------------------------------------------------
\* The operator's reset(): the task, if there is one, is left alone.
ResetWorker(w) ==
  /\ wstate[w] # "unregistered"
  /\ wstate' = [wstate EXCEPT ![w] = "stopped"]
  /\ recent' = [recent EXCEPT ![w] = <<>>]
  /\ lately' = [lately EXCEPT ![w] = <<>>]
  /\ UNCHANGED <<task, nap, stopping, stopAll, awaited, cancelled, swallows>>

\* Time passes for the restarts and the backoffs.
Moment ==
  /\ \E w \in WorkerNames : recent[w] # <<>> \/ nap[w] > 0
  /\ recent' = [w \in WorkerNames |->
                  [i \in DOMAIN recent[w] |->
                     IF recent[w][i] > Window THEN Window + 1 ELSE recent[w][i] + 1]]
  /\ lately' = [w \in WorkerNames |->
                  Within([i \in DOMAIN lately[w] |-> lately[w][i] + 1])]
  /\ nap' = [w \in WorkerNames |-> IF nap[w] > 0 THEN nap[w] - 1 ELSE 0]
  /\ UNCHANGED <<wstate, task, stopping, stopAll, awaited, cancelled, swallows>>

-----------------------------------------------------------------------------
(* stop_all().                                                             *)

\* The end of stop_all(): every status but FAILED is STOPPED, and the tasks
\* are forgotten.
AllStopped ==
  /\ stopAll' = "stopped"
  /\ wstate' = [w \in WorkerNames |->
                  IF wstate[w] \in {"unregistered", "failed"} THEN wstate[w] ELSE "stopped"]

\* Mutated form: the supervisor is marked as stopping only when it has stopped.
StopAllUnmarked ==
  /\ stopAll # "grace" /\ stopAll # "forced"
  /\ UNCHANGED <<stopping, task, recent, nap, swallows, lately>>
  /\ IF Alive = {}
       THEN AllStopped /\ UNCHANGED <<awaited, cancelled>>
       ELSE stopAll' = "grace" /\ awaited' = Alive /\ cancelled' = Alive /\ UNCHANGED wstate

\* Every live task is cancelled at once.
StopAll ==
  /\ stopAll # "grace" /\ stopAll # "forced"
  /\ stopping' = TRUE
  /\ UNCHANGED <<task, recent, nap, swallows, lately>>
  /\ IF Alive = {}
       THEN AllStopped /\ UNCHANGED <<awaited, cancelled>>
       ELSE stopAll' = "grace" /\ awaited' = Alive /\ cancelled' = Alive /\ UNCHANGED wstate

\* Mutated form: the tasks are not cancelled again.
GraceOverSilently ==
  /\ stopAll = "grace" /\ awaited # {} /\ cancelled = {}
  /\ stopAll' = "forced"
  /\ UNCHANGED <<wstate, task, recent, nap, stopping, awaited, cancelled, swallows, lately>>

\* The grace period is over, long after the first cancellations arrived:
\* wait_for cancels the gather, which cancels the tasks a second time, and goes
\* on waiting for them.
GraceOver ==
  /\ stopAll = "grace" /\ awaited # {} /\ cancelled = {}
  /\ stopAll' = "forced" /\ cancelled' = awaited
  /\ UNCHANGED <<wstate, task, recent, nap, stopping, awaited, swallows, lately>>

Gathers ==
  /\ stopAll \in {"grace", "forced"} /\ awaited = {}
  /\ AllStopped
  /\ UNCHANGED <<task, recent, nap, stopping, awaited, cancelled, swallows, lately>>

-----------------------------------------------------------------------------
WorkerRuns(w) ==
  Begins(w) \/ Completes(w) \/ Crashes(w) \/ Wakes(w) \/ Cancelled(w) \/ Swallows(w)

WorkersStep ==
  \/ \E w \in WorkerNames :
       RegisterWorker(w) \/ StartWorkers({w}) \/ ResetWorker(w) \/ WorkerRuns(w)
  \/ Moment

WorkersNext == WorkersStep \/ StopAll \/ GraceOver \/ Gathers

WorkersSpec == WorkersInit /\ [][WorkersNext]_workerVars

-----------------------------------------------------------------------------
\* "A bounded number of restarts inside a rolling window": between resets a
\* worker is restarted at most max_restarts times within the window, also when
\* it ended cleanly and was started again in between.
RestartBudget == \A w \in WorkerNames : Len(lately[w]) <= MaxRestarts

\* "Terminal until an operator intervenes": nothing but a reset leaves FAILED,
\* and no task runs for a worker that is reported as FAILED.
FailedIsFinal ==
  [][\A w \in WorkerNames :
       wstate[w] = "failed" =>
         /\ wstate'[w] = "failed" \/ ResetWorker(w)
         /\ task'[w] = "none"]_workerVars

\* When stop_all() has returned no worker's factory runs or will run again,
\* whatever was started while it waited.
NothingOutlivesStop ==
  stopAll = "stopped" => \A w \in WorkerNames : task[w] \in {"none", "ready"}
=============================================================================
