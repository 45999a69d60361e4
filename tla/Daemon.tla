--------------------------------- MODULE Daemon ---------------------------------
(***************************************************************************)
(* daemon/service.py, SecurityDaemon: one loop that ticks the tunnel       *)
(* supervisor, checks health and waits, around a WorkerSupervisor whose    *)
(* workers run beside it.  The tunnel and the workers are those of         *)
(* TunnelSupervisor and WorkerSupervisor; the daemon is the only caller of *)
(* tick(), and calls start_all() and stop_all() itself.  Time counts in    *)
(* ticks, the shortest of the three intervals; heartbeats change nothing.  *)
(***************************************************************************)
EXTENDS TunnelSupervisor, WorkerSupervisor

CONSTANTS
  TunnelEvery, HealthEvery,  \* the intervals, in ticks rounded up
  MaxRuns                    \* bound: calls of run()

ASSUME DaemonAssumption ==
  TunnelEvery \in Nat \ {0} /\ HealthEvery \in Nat \ {0} /\ MaxRuns \in Nat

VARIABLES
  hasTunnel,             \* a tunnel supervisor was given
  dpc,                   \* where run() is: off, top (of the loop), tick, health,
                         \* wait, stopping, ended
  stopEvent,             \* the event of this run() is set
  tunnelIn, healthIn,    \* ticks until the next check is due
  attention,             \* the workers last_health says need the operator
  runs

daemonVars == <<hasTunnel, dpc, stopEvent, tunnelIn, healthIn, attention, runs>>
allVars == <<vars, workerVars, daemonVars>>

Running == dpc \in {"top", "tick", "health", "wait"}

\* Workers and a tunnel have only the loop in common: a behaviour has one or the
\* other, a bound on the instance.
DaemonInit ==
  /\ Init /\ WorkersInit
  /\ hasTunnel \in BOOLEAN
  /\ ~hasTunnel => link = "unknown" /\ ~autoReconnect /\ ~degradedIsDown
  /\ dpc = "off" /\ stopEvent = FALSE
  /\ tunnelIn = 0 /\ healthIn = 0 /\ attention = {} /\ runs = 0

-----------------------------------------------------------------------------
\* run(), up to the loop: new state and event, and the workers are started.
Run ==
  /\ dpc \in {"off", "ended"} /\ runs < MaxRuns
  /\ dpc' = "top" /\ runs' = runs + 1
  /\ stopEvent' = FALSE /\ tunnelIn' = 0 /\ healthIn' = 0 /\ attention' = {}
  /\ StartWorkers(WorkerNames)
  /\ UNCHANGED <<hasTunnel, vars>>

\* request_stop(), by a signal or by max_iterations: the event of a run() to
\* come is a new one.
RequestStop ==
  /\ ~stopEvent /\ stopEvent' = TRUE
  /\ UNCHANGED <<hasTunnel, dpc, tunnelIn, healthIn, attention, runs, vars, workerVars>>

\* The next check of this iteration, after that of the tunnel.
AfterTunnel == IF healthIn = 0 THEN "health" ELSE "wait"

CheckTunnel ==
  /\ dpc = "top" /\ ~stopEvent /\ tunnelIn = 0 /\ hasTunnel
  /\ TickBegins
  /\ dpc' = "tick" /\ tunnelIn' = TunnelEvery
  /\ UNCHANGED <<hasTunnel, stopEvent, healthIn, attention, runs, workerVars>>

NoCheck ==
  /\ dpc = "top" /\ ~stopEvent /\ (tunnelIn > 0 \/ ~hasTunnel)
  /\ dpc' = AfterTunnel
  /\ tunnelIn' = IF tunnelIn = 0 THEN TunnelEvery ELSE tunnelIn
  /\ UNCHANGED <<hasTunnel, stopEvent, healthIn, attention, runs, vars, workerVars>>

TickGoesOn ==
  /\ dpc = "tick" /\ Attempt
  /\ UNCHANGED <<workerVars, daemonVars>>

\* tick() returns, or an error leaves it: the loop goes on either way.
TickReturns ==
  /\ dpc = "tick"
  /\ \/ Reported \/ Healthy \/ NoFault \/ ReportFault \/ Wait
     \/ CycleSucceeds \/ CycleFails \/ CycleEscapes
  /\ dpc' = AfterTunnel
  /\ UNCHANGED <<hasTunnel, stopEvent, tunnelIn, healthIn, attention, runs, workerVars>>

\* Mutated form: a failed worker is reported once, by the check that finds it.
HealthCheckedAnew ==
  /\ dpc = "health"
  /\ attention' = {w \in WorkerNames : wstate[w] = "failed"} \ attention
  /\ dpc' = "wait" /\ healthIn' = HealthEvery
  /\ UNCHANGED <<hasTunnel, stopEvent, tunnelIn, runs, vars, workerVars>>

\* The reading succeeds; the failed workers are looked up after it.
HealthChecked ==
  /\ dpc = "health"
  /\ attention' = {w \in WorkerNames : wstate[w] = "failed"}
  /\ dpc' = "wait" /\ healthIn' = HealthEvery
  /\ UNCHANGED <<hasTunnel, stopEvent, tunnelIn, runs, vars, workerVars>>

HealthRaises ==
  /\ dpc = "health"
  /\ dpc' = "wait" /\ healthIn' = HealthEvery
  /\ UNCHANGED <<hasTunnel, stopEvent, tunnelIn, attention, runs, vars, workerVars>>

\* The wait for the stop event ends, by the event or after a tick.
Waited ==
  /\ dpc = "wait"
  /\ dpc' = "top"
  /\ tunnelIn' = IF tunnelIn > 0 THEN tunnelIn - 1 ELSE 0
  /\ healthIn' = IF healthIn > 0 THEN healthIn - 1 ELSE 0
  /\ UNCHANGED <<hasTunnel, stopEvent, attention, runs, vars, workerVars>>

LoopEnds ==
  /\ dpc = "top" /\ stopEvent
  /\ dpc' = "stopping" /\ StopAll
  /\ UNCHANGED <<hasTunnel, stopEvent, tunnelIn, healthIn, attention, runs, vars>>

\* run() itself is cancelled while it waits: a tick under way is given up.
RunCancelled ==
  /\ dpc \in {"tick", "health", "wait"}
  /\ dpc' = "stopping" /\ StopAll
  /\ pc' = "idle" /\ escaped' = (escaped \/ pc = "cycling")
  /\ UNCHANGED <<hasTunnel, stopEvent, tunnelIn, healthIn, attention, runs,
                 config, link, state, attempts, attempt, wait>>

RunEnds ==
  /\ dpc = "stopping" /\ stopAll = "stopped"
  /\ dpc' = "ended"
  /\ UNCHANGED <<hasTunnel, stopEvent, tunnelIn, healthIn, attention, runs, vars, workerVars>>

-----------------------------------------------------------------------------
Loop ==
  \/ CheckTunnel \/ NoCheck \/ TickGoesOn \/ TickReturns
  \/ HealthChecked \/ HealthRaises \/ Waited \/ LoopEnds \/ RunEnds

\* What the tunnel and its operator do by themselves.
Outside == hasTunnel /\ (LinkChanges \/ Second \/ Reset)

\* What the workers and their operator do, and the end of stop_all().
Workers ==
  /\ ~hasTunnel
  /\ WorkersStep \/ GraceOver \/ Gathers

DaemonNext ==
  \/ Run \/ RequestStop \/ RunCancelled \/ Loop
  \/ Outside /\ UNCHANGED <<workerVars, daemonVars>>
  \/ Workers /\ UNCHANGED <<vars, daemonVars>>

\* The event loop runs every ready task, commands and health readings have
\* time limits, and the clock runs.  A cancelled worker ends or suppresses the
\* cancellation; one that is not cancelled may work forever.
DaemonSpec ==
  /\ DaemonInit /\ [][DaemonNext]_allVars
  /\ WF_allVars(Loop)
  /\ WF_allVars(hasTunnel /\ Second /\ UNCHANGED <<workerVars, daemonVars>>)
  /\ WF_allVars((GraceOver \/ Gathers) /\ UNCHANGED <<vars, daemonVars>>)
  /\ \A w \in WorkerNames :
       WF_allVars((Cancelled(w) \/ Swallows(w)) /\ UNCHANGED <<vars, daemonVars>>)

-----------------------------------------------------------------------------
\* "Shutdown is orderly": a stop requested while the daemon runs ends run(),
\* with no worker left, in whatever check or backoff it finds the daemon,
\* unless a worker suppresses its cancellation twice.
StopHonoured ==
  Running /\ stopEvent ~> \/ dpc = "ended"
                          \/ \E w \in awaited : swallows[w] > 1

\* A failed worker "surfaces in the health report" as long as health can be
\* read again and again.
FailuresSurface ==
  \A w \in WorkerNames :
    <>[](Running /\ wstate[w] = "failed") /\ []<><<HealthChecked>>_allVars
      => <>[](w \in attention)

\* As long as the daemon runs, a tunnel that is down for good ends with the
\* operator being needed, unless commands escape or the operator resets again
\* and again.
GivesUp ==
  /\ hasTunnel /\ autoReconnect /\ <>[]Running
  /\ <>[](link = "down") /\ <>[][~Reset /\ ~CycleEscapes]_vars
  => <>[](state = "needs_operator")

\* As long as the daemon runs, a tunnel that is up for good is found healthy,
\* unless the operator is needed already.
Recovers ==
  hasTunnel /\ <>[]Running /\ <>[](link = "up") => <>[](state \in {"healthy", "needs_operator"})

\* The two ends a tunnel under watch comes to.
TunnelSettles == GivesUp /\ Recovers
=============================================================================
