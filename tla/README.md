# Verification of the autonomous security-intelligence assistant

This directory holds TLA+ models of the program under `src/src/security_assistant/` (paths below are
relative to it), the TLC configurations that check them on small instances, and proofs of the main
results for every value of the constants, checked by TLAPS.

Contents: [the system](#1-the-system) · [the modules](#2-the-modules) · [the runs](#3-the-runs) ·
[fairness](#4-fairness) · [the proofs](#5-the-proofs) · [divergences](#6-divergences-between-code-and-documentation) ·
[what is left out](#7-what-is-not-modelled) · [what could come next](#8-what-could-come-next)

## 1. The system

Agents take an objective, plan it as a graph of tool invocations, and execute the plan through a
dispatcher that enforces the authorization scope. An orchestrator runs agents as jobs from a
priority queue, around background services. A daemon supervises the VPN tunnel and background workers,
the firewall kill switch keeps traffic off the open network, and a dashboard shows it all. What the
tools collect becomes a graph of entities that is merged and correlated, or a score. Everything runs in
one asyncio event loop, so there are no data races: what makes the code hard is that **every `await` is
a point where another task runs, a timeout fires, or the task is cancelled.**

| Component | Code | State | Operations | Talks to |
|---|---|---|---|---|
| Orchestrator | `core/orchestrator.py` | job map, priority queue and its `unfinished` count, history, completion events, worker tasks, services, lifecycle flags | `register_service`, `start`, `stop`, `submit`, `wait_for`, worker loop | agents (`run`), services, event sink |
| Agent | `core/agent.py` | plan steps and statuses, results, verdict | `run`: recall, plan, execute waves, refine, judge, remember | planner, dispatcher, memory, refiner |
| Planner | `core/planner.py` | `Plan` (steps, dependencies) | `validate`, `ready_steps`, `blocked_steps`, two planners | agent, registry |
| Dispatcher | `core/dispatcher.py` | semaphore, scope, audit trail, counters | `dispatch`, `dispatch_many`, `set_scope` | registry, scope, limiter, tools, sink |
| Rate limiter | `core/dispatcher.py` | a token bucket per tool | `acquire`, `reset` | dispatcher |
| Authorization | `core/authorization.py` | scopes (immutable) | target normalization, rule matching, `evaluate`, `check` | dispatcher |
| Registry and tools | `core/registry.py`, `core/tool.py` | name → tool, tag index | `register`, `register_all`, `unregister`, `select`, argument validation | dispatcher, planner |
| Memory | `core/memory.py` | a vector store shared by namespaces, a conversation window | `remember`, `remember_many`, `recall`, `delete`, `clear` | agent |
| Tunnel supervisor, backends | `network/vpn.py` | recovery state, attempt counter, next retry time | `tick`, `reset`; `status`, `connect`, `disconnect`, `reconnect` | daemon, command runner |
| Kill switch | `network/killswitch.py` | firewall chain and policy, engaged/confirmed, timer task | `apply`, `confirm`, `release`, automatic rollback | command runner, dashboard |
| Command runners, privileges | `network/commands.py`, `network/privileges.py` | none | run one command with a time limit; the grants it needs | vpn, kill switch, leaks |
| Leak validation | `network/leaks.py` | none | three checks and their verdict | daemon, dashboard |
| Daemon | `daemon/service.py`, `daemon/health.py` | worker states, restarts within a window, stop event, last health and tunnel status | `run`, `request_stop`, worker supervision, health | tunnel supervisor, health monitor |
| Dashboard | `web/*.py` | subscriber queues, projection of the system; sessions are signed cookies | publish/subscribe, request handlers, telemetry sockets | orchestrator, tunnel, kill switch |
| Entity graph, correlator | `osint/graph.py`, `osint/models.py`, `osint/correlator.py` | entities, edges, two adjacency indexes | add, remove, merge; duplicates, inference | collectors, reports |
| Collectors | `osint/collectors/*.py`, `iot/models.py`, `threat/models.py` | none | what a result becomes in the graph | graph |
| Device discovery | `iot/*.py` | a semaphore per scan | three live tools, index lookups, merging of records | dispatcher |
| Threat analysis | `threat/*.py` | a client-side token bucket; `ctx.state` of a run | URL analysis, page inspection, lookups, score | dispatcher, command line |

What is hard, and what makes each component correct:

* **Orchestrator.** A worker can be cancelled at any of its awaits, also after it has settled its job;
  `stop()` sweeps jobs while submitters are blocked and waiters wait; services must be up around the
  workers. Correct when each accepted job gets exactly one verdict and every waiter hears it, the
  queue's accounting is exact (else a drain hangs or ends early), no worker escapes a stop, and none
  exists without its services.
* **Dispatcher.** Correct when a tool runs only after the grant and before the verdict, within its
  budget, under the concurrency ceiling on every way out of an attempt, and every call leaves a record.
* **Rate limiter, lookup quotas.** Correct when no interleaving of sleepers, newcomers and refusals
  exceeds the ceiling, and whoever waits gets a token or is refused in time.
* **Agent.** Correct when steps start only after their dependencies succeeded, a refiner cannot break
  the plan, the verdict tells what happened, and a run ends though everything it calls may hang.
* **Kill switch and dashboard.** Correct when what must stay reachable is exempt whenever the policy
  drops, state and browsers tell the truth about the firewall, and an unconfirmed switch rolls back.
* **Tunnel supervisor and daemon.** Correct when recovery and restarts are bounded, a terminal state is
  the operator's to end, a dead tunnel is given up and a live one noticed, a failed worker is reported,
  and a requested stop ends everything.
* **Graph and correlator.** Correct when indexes and edges agree through merges that rewrite both, the
  outcome of a pass leaves nothing for the next, and what different collectors say of one thing meets in one node.
* **Authorization.** Correct when a denied target stays denied in every spelling.
* **Memory, scans, inspection, scoring, host queries.** Correct when a recall stays within its
  engagement, a scan respects its ports and its concurrency, no process outlives its inspection, no
  evidence is lost on the way to a score, and no good news is made up about a tunnel or a leak.

The hazards behind these properties are listed line by line in `PROJECT.json`.

## 2. The modules

The same convention holds everywhere: **an action is the code from one suspension point to the next**,
and a program counter names the point where a task waits. The event sink may be asynchronous, so
every emitted event is such a point. Timestamps, log texts and counters no property reads are left
out.

| Module | Role |
|---|---|
| `Orchestrator` | `core/orchestrator.py`, whole |
| `JobService` | what it promises to whoever submits a job; `Orchestrator` is shown to implement it |
| `OrchestratorInvariants`, `OrchestratorProofs` | inductive invariants, and the theorems |
| `Dispatcher`, `DispatcherProofs` | `ToolDispatcher.dispatch` and `dispatch_many`, and theorems |
| `ToolGate` | what it promises of every call; `Dispatcher` is shown to implement it |
| `RateLimiter` | `RateLimiter` of `core/dispatcher.py` |
| `Plans` | what a valid plan is (`Plan.validate`) |
| `AgentRun`, `AgentRunProofs` | `Agent.run` with the plan it executes, and theorems |
| `PlanExecution` | what executing a plan means; `AgentRun` is shown to implement it |
| `Planner` | which tools `RuleBasedPlanner` plans, and what they depend on |
| `TunnelSupervisor` | recovery of one tunnel |
| `WorkerSupervisor` | workers under a restart budget |
| `Daemon`, `DaemonProofs` | `SecurityDaemon.run`, composed of the two supervisors, and theorems about each supervisor and the whole |
| `KillSwitch`, `KillSwitchProofs` | the firewall switch, one command at a time, and theorems about it and `Dashboard` |
| `Dashboard` | the switch under the dashboard's handlers, with its projection and its sockets |
| `Host` | command runners, tunnel backends, leak checks, health: operations as lists of awaited steps |
| `EntityGraph` | the graph and its two indexes |
| `LinkGraph` | nodes with links; `EntityGraph` is shown to implement it |
| `Correlator` | duplicates, merges, inferred links, over `EntityGraph` |
| `Canonical`, `Collection` | the canonical values entities are keyed by; what collectors put into a graph |
| `Scopes`, `Memory`, `Lookups`, `Inspection`, `DeviceScan`, `UrlScan` | one component each, see below |
| `AnalysisProofs` | theorems about `EntityGraph`, `Correlator`, `Inspection`, `Host`, `Scopes`, `DeviceScan`, `Memory` and `Canonical` |
| `EvidenceProofs` | theorems about `RateLimiter`, `Lookups`, `UrlScan` and `Collection` |
| `Induction` | lemmas about naturals and sequences that the proofs share |
| `MCOrchestrator`, `MCDispatcher`, `MCAgentRun`, `MCCorrelator`, `MCUrlScan` | the values the configurations give to the constants |
| `MCAnalysis` | the components of the `analysis` run side by side |

### Orchestrator

`starter` is where `start()` is, `stopper[s]` where a `stop()` is, `wpc[w]` where a worker is and
`held[w]` the job it took; `status`, `tracked`, `history`, `signalled` are the job map, its keys, the
history deque and the completion events; `queue`, `blocked`, `unfinished` are the asyncio queue, its
putters and its counter. `Start`, `ServiceUp`, `ServiceFails`, `Unwind`, `StartEnds` are `start()`;
`Stop`, `Drained`/`GraceElapsed`, `Gathered`, `ServiceStopped` are `stop()`; `Submit`, `PutUnblocks`,
`SubmitAbandoned` are `submit()`; `Boot`, `Get`, `RunAgent`, `AgentReturns`, `Reported` and the four
`Cancelled…` actions are the worker loop and `_run_job`, with the cancellation delivered at each of
its awaits. Details worth knowing:

* `servicesFirst` is the option `start_services_before_workers`, any of `Orders`. `Register` may come at any
  moment and only appends, as the code does.
* The last `task_done()` wakes every `join()`: `released` are the drains it woke, which return whatever a
  blocked submitter puts into the queue before they run. `owed[s]` remembers what was queued or held when
  the drain of `s` began.
* The tasks that call `start()` and `stop()` are not themselves cancelled. `wait_for()` is called of the jobs
  in `Watched`.
* `wait_for`'s own timeout only ends the waiting; it is not modelled.
* The `except Exception` branch of the worker loop is unreachable here: nothing in the loop but the job
  lookup raises, and `QueuedJobsTracked` (proved) says the lookup finds its record.
* With a history of size 0 the event of a job is popped before it is set, and its record with it; the runs
  use size 1, and the theorem about drains assumes at least that.
* A `start()` that fails in the default order leaves `_running` true without workers, as the code does:
  jobs are accepted and rest until a `stop()`. The liveness properties name this state (`Stranded`) as
  their exception; it is among the findings.

### Dispatcher and RateLimiter

`pc[c]` walks the stages of `_dispatch_inner`: gate of the batch, denial, dry run, limiter, start event, slot,
run, backoff, report. `granted` and `grantedBy` are the authorization and the scope that gave it;
`ran` counts executions; `outcome`, `audit`, `counters` are the records, and `endings` is the history of the results in the order
in which the calls ended, with which the bounded trail is compared. A batch brings its own scope or
takes the dispatcher's, its own width, and may be dry. A cancellation meets a call
at its suspension point: inside an attempt it is recorded (`CancelAttempt`), elsewhere it is not
(`CancelElsewhere`). Abstracted: a semaphore wakes *any* waiter where asyncio wakes the first (more
behaviours, so the results hold for FIFO), a scope is the set of calls it allows together with its
expiry, the limiter says yes or no (its own module says when), a tool honours its timeout. A record of
a cancelled call always says one attempt, also when its tool never ran; no property reads that number.

`RateLimiter` counts time in ticks and tokens in exact rationals (numerators over a common
denominator), where the code rounds to floating point; an absent bucket is a full one; there is one
key, because keys share nothing.

### AgentRun and Planner

One agent and one plan over several calls of `run()`. Steps, dependencies, optional steps and
`fail_fast` are chosen in the initial state; `wave` is what was handed to `dispatch_many`. `TimesOut`
is the run's timeout, at each point where it can meet the run; `Cancel` the cancellation of its task.
Each of planner, memory, dispatcher and refiner may answer, fail, or never answer. One run at a
time works on a plan, the refiner returns steps and does not edit the live plan, a timed-out wave is
unwound atomically. A step whose tool is not registered is represented by a plan that does not
validate; `MaxRounds = 0` stands for an agent without refiner. `Planner` is operators only: selection
by risk and category, applicability, the order of planning and `depends_on`, over a catalogue of what
the tools declare; `UrlScan` gives it the real catalogue of the threat tools.

### TunnelSupervisor, WorkerSupervisor, Daemon

`link` is what `status()` would tell, and changes at any moment; `pc` is where `tick()` waits.
`attempt` is the local variable of the attempt under way, which a `Reset` in between does not touch.
`wait` is the time to `_ready_at`, counted down by `Second` rather than kept as an absolute time.
`CycleEscapes` is an attempt that ends with a `CommandError`, which is not caught; `MaxEscapes`
bounds how far the attempt counter may go this way (the code has no bound there: see section 6).

A worker's `task` is created, working in its factory or asleep in its backoff; `recent` are the restarts the
code counts, `lately` those that really happened, as ages, so that `RestartBudget` compares the
code's count with the truth. A factory may end, raise, be cancelled, or hold on to a cancellation
(`Swallows`). `StopAll`, `GraceOver`, `Gathers` are `stop_all()`: all tasks are cancelled at once, and a second
time after the grace period by `wait_for`.

`Daemon` EXTENDS both supervisors. `dpc` is where `run()` is; it calls the tunnel's `TickBegins`, waits through
`Attempt` and returns to the loop with whatever ends a tick; it starts and stops the workers. `tunnelIn` and
`healthIn` are the two intervals in ticks. Tunnel and workers meet only in the loop, so a behaviour has one or
the other (`hasTunnel`). `RunCancelled` is the cancellation of `run()`; `attention` is what the last health report says.

### KillSwitch and Dashboard

`policy` and `chain` are the firewall, `engaged`/`confirmed` the state object, `todo[o]` the commands
the call of operator `o` has still to run, `timer[o]`/`rolling[o]` the timer task its `apply()`
created, `armed` which of them `_rollback_task` refers to. The runner is `live` or the default dry one, whose
commands succeed and change nothing while `apply()` goes on to engage (`Ran`). Each command is one action; a live one that failed,
and one whose caller was cancelled, **may have run or not**. `cut` notes what the truth of the state does not survive: a call
cancelled where the policy is set, a cancelled `release()`, a `confirm()` that met the rolling timer. The exemptions for DHCP and DNS behave
like the optional ones modelled and are left out. One bound: an operator whose earlier timer still
lives does not apply again.

`Dashboard` EXTENDS `KillSwitch`. If `served`, the operator acts through the handlers, which apply
without the timer, take the endpoint from the request or from the tunnel as it was last shown, and update the projection
`shown`; each update is a frame in the bounded `inbox` of every subscribed client, dropped where it is
full. A client's `socket` comes, renders (`view`), leaves, and is noticed to have left. Otherwise the switch is used by the
command line, with its timer.

### Host

One operation at a time on a host that goes its own way in between: `todo` is the list of commands or measurements it still awaits,
`link` what they would show (of OpenVPN also whether its interface is connected, which no command asks), `setup` the deployment (backend,
dry or real runner, way of escalation, whether the rules of `plan_for()` are installed). `Outcomes` is the runner: not allowed, planned, refused by
sudo, failed, timed out, or fine.

### EntityGraph, Correlator, Canonical, Collection

`edges` are the stored relationships, `outEdges` and `inEdges` the two indexes, changed apart as the code changes them; an edge's
identity is source, type and target. `MergeEntities` is `merge_entities` with its rewiring, self-loops dropped
and aliases. `LinkGraph` knows no indexes: its three kinds of step are growth, removal and one node passing
into another, which hands on its links to third nodes and its own name, but neither the links between the two nor the aliases
it had collected. `Correlator` shows one synchronous `correlate()` merge by merge, because each merge changes what the next
finds; `pending` are the candidates in their order, and a confidence for each organization is chosen anew
for each pass. `Canonical` models a text as a record of what its normalizer looks at (case, dots, scheme, port,
legal forms...), with what the code leaves as it is: the spelling of an IPv6 address in a URL, an organization of punctuation only.
`Collection` maps what a tool obtained to entities and relationships, with answers
missing, refused by the normalizer or equal to the subject; `EntityOf` is the node of what is an address, a domain or a URL.
Lookups of file digests are left out: nothing else meets there.

### The others

* `Scopes`: networks are aligned sets of small integers, hosts sequences of labels; `evaluate` keeps
  the order of its reasons. `scope` is the one in force, set once.
* `Memory`: an operation embeds its text first and enters the store after that await; `operation` is the one
  under observation, `Forget` what others do meanwhile. Texts are sets of words, similarity the
  cosine of their incidence vectors, compared with a floor in hundredths (`Reaches`), and embeddings of different
  width do not compare. A `where` is a set of accepted values of one metadata key (`Tags`). Among equally
  close records any order may be the one the store returns. Left out are how often a word occurs, words that hash to one axis,
  negative similarities (of providers other than the hashing one), and texts without words.
* `Lookups`: `TokenBucket.acquire` sleeps *inside* its lock, so `line[k]` is a queue whose head sleeps until `ready[k]`; rate,
  units and clock are `RateLimiter`'s. `injected` says whether one client serves all calls or, as by default, each has its own.
* `Inspection`: `at` walks through `ContainerSandbox` with its two clean-ups (handler, `finally`) or the static
  inspector's redirect loop. `process` is the docker client, `container` what it started and cannot take with it when it is killed,
  `responses` what the browser in there was answered by: after the first URL, anything.
* `DeviceScan`: `waiting` and `probing` are the semaphore's queue and holders; a probe connects (`opened` remembers it), is sent what its
  protocol asks, speaks, or raises, also after it has connected. `Fold` is `merge_devices` over services, `Identity` what it takes for one.
* `UrlScan`: `AgentRun` reduced to six known tools, which either succeed or fail, so that what they find
  can be followed into the score. A finding is its code and its number among those of that code; `url_score` counts a code once (`Distinct`),
  `url_analyze` does not. `Concerns` is the filter on evidence about other URLs. Scores are parts of `Whole`, exact for up to four categories of findings.
* `Collection`: `Obtained` is what there is to find out; a payload is a star around its subject, and the chain of redirects of a URL,
  followed by `Previous` as the code's loop follows it. `Graph` is what they make together.

## 3. The runs

All passing runs are exhaustive. `CHECK_DEADLOCK FALSE` stands only where a bound (starts, runs, calls,
clock) or the end of a one-shot operation ends the behaviour.

| Run | Instance | What it shows |
|---|---|---|
| `orchestrator_lifecycle` | the default order; 3 jobs in 2 priority bands, 2 workers, queue of 1, history of 1, one flaky service, one start and stop | `ExactAccounting`: `unfinished` is exactly queued plus held. `DrainSeesThemOut`: a drain that ends in time has seen all its jobs to their end, though blocked submitters go on. `ImplementsJobService`: one verdict per job, told to every waiter, whatever races with the stop. |
| `orchestrator_restart` | services before the workers and after them; 2 jobs of which one is waited for, 2 workers of which one cannot be built, a service and a flaky one registered at any moment, two starts | `LiveWorkersListed`, `WorkOnlyBehindServices` (default order), and the liveness of the whole, both orders: `QueuedJobsEnd`, `WaitersReleased`, `StopEnds`, `BackPressureReleases`. |
| `orchestrator_stale_job` (violation) | 2 jobs, restart | `ResultIsFinal` fails across a restart: section 6. |
| `dispatcher_pipeline` | 2 calls in one batch, dry or real, of any width, one slot, audit trail of 1, two attempts each, two scopes of which one leaves a call out, one gated and limited call | `SlotsExact`, `AuditExact` (each result once, the trail the last of them), `ImplementsToolGate`, `CallsEnd`, with scope changes, expiry and cancellation everywhere. |
| `dispatcher_unaudited` (violation) | the same, both calls gated | `ExecutionsAudited` fails: section 6. |
| `agent` | every choice of optional steps and `fail_fast` and every dependency relation on 3 steps of which the first has none, 2 refinement rounds, 2 runs of the plan | `VerdictHonest`, `ImplementsPlanExecution`, `RunEnds`. |
| `agent_left_pending` (violation) | 3 steps, no refiner | `NothingLeftBelow` fails: section 6. |
| `daemon` | a tunnel with limit 3, backoff 2 capped at 3, both switches either way; or a worker with 2 restarts in a window of 3, backoff from 1, up to 2 suppressed cancellations; checks every 1 and 2 ticks, two calls of `run()` | `RecoveryBounded`, `RestartBudget`, `NothingOutlivesStop`, and the liveness `StopHonoured`, `FailuresSurface`, `TunnelSettles` (a dead tunnel is given up, a live one found healthy). |
| `tunnel_unbounded` (violation) | limit 2 | `AttemptsBounded` fails: section 6. |
| `dashboard` | one operator, a live or a dry runner, every plan the guard lets pass or not, failing commands before, at and after the policy, cancellation; one client with a queue of 2 | `ExemptWhileDropping`, `StateTellsTruth`, `BrowserTellsTruth` (firewall, switch, projection, queue and browser agree), `DeadMansSwitch`. |
| `analysis` | see below | fourteen properties of eleven parts. |
| `url_scan` (violation) | 180 pages by what six tools would find, two risk ceilings | `EvidenceFailsIndependently` fails: section 6. |

**`analysis`** holds the components that share no state with another one: each behaviour is one of a single
component (`part`), so the run is the union of eleven small state spaces. They share a run because each
would otherwise repeat a configuration; the properties say nothing of a part that does not run.

| Part | Instance | Properties |
|---|---|---|
| `graph` | 10 entities: a domain with `www` and `mail` names, a contact and its handle, two addresses, three spellings of an organization of which two are only alike through the third; built from every combination of sources and edges, or by single additions, removals and merges of three of them; two passes, applied or not | `IndexesExact`, `OnePassSettles`, `ImplementsLinkGraph` |
| `limiter` | 3 callers, 1.5 calls per minute, a minute of 4 ticks, timeout 2, clock to 7 | `WithinCeiling` over every pair of grants, `WaitEnds` |
| `lookups` | 3 lookups through one client with that rate, or 2 with a client each | `BurstsBounded` |
| `url` | as in `url_scan` | `ScoreSeesEvidence` |
| `page` | 5 URLs of which one must not be fetched, 3 hops, either inspector | `InspectionContained` |
| `host` | 7 operations, 2 backends, every deployment and every state of the tunnel | `AnswersTrue` |
| `memory` | 2 namespaces, 2 ids, 2 words, 2 embedding widths, 2 metadata values, floors of 0.05 and 0.8 | `RecallHonest` |
| `scopes` | at most 2 allow rules and 1 deny rule of 4 networks and 8 host rules over 8 addresses and 4 hosts | `DeniesWin` |
| `keys` | every text of every entity type from a few parts | `KeysStable` |
| `payloads` | up to 2 of the results of 7 tools for related targets, among them a device known by a name and lookups of all three kinds of places | `PayloadsJoin` |
| `devices` | 4 ports of which one is a control port and one has no convention, any selection of them asked for, 2 slots, an index record of either transport folded in | `ScanContained` |

Why the bounds are enough. Every hazard named needs few participants: a queue of one slot with three
jobs has a running, a queued and a blocked one at once, and two workers let one report while the other
starts; two starts are what it takes for state of one lifecycle to reach the next. Two calls on one
slot make one wait in each stage while the other is cancelled, retried or recorded, and a trail of one
evicts. Three callers on a bucket of one and a half tokens have a sleeper, a second sleeper and a newcomer, and the
clock reaches every refill twice. Three steps contain chains, forks, joins and cycles; two rounds let a
refiner extend what it extended; two runs make statuses survive. Three attempts reach the cap of the
backoff before the limit; two restarts in a window of three ticks let one fall out of the window while another backs
off; a second `run()` finds what the first left. A queue of two frames overflows between two updates. Three names of one
organization are the least with a chain of merges, three entities the least in which a merge meets an edge between
the two and one to a third. Eight addresses hold nested, equal and disjoint networks. What a bound could
still hide is covered by proofs, which have no bounds, for the components named in section 5.

Every property of a passing run has a mutant in `PROJECT.json`: a plausible bug in one mapped definition
(a dropped guard, a swapped order, a forgotten reset) that TLC finds as a violation of that
property under the same configuration.

## 4. Fairness

* **Orchestrator.** Weak fairness on every step the event loop owes: workers, `start()`, `stop()`, a
  blocked `put` with room, a waiter whose event is set. The justification of `AgentReturns` is the
  agent's own run timeout (checked as `RunEnds`); of `GraceElapsed` the `wait_for` around `join()`; that
  services return is assumed, as the code does. Nobody has to submit, wait, start or stop. `BackPressureReleases`
  excludes a submitter who is blocked when the orchestrator shuts down: it waits until a restart. Of an orchestrator that a
  failed `start()` left without workers (`Stranded`) nothing is promised until somebody stops it.
* **Dispatcher.** Each call's own step: limiter, tool and backoff have time limits. Nobody cancels.
* **RateLimiter** (in `analysis`, for its part only). The clock and the wake-up of a sleeper whose time has come; *no* fairness between
  sleepers, who may lose every token and are refused at the deadline.
* **AgentRun.** The agent's own step, the sink, and the run timeout; *nothing* is assumed of memory,
  planner, dispatcher or refiner.
* **Daemon.** The loop, whose checks have time limits; the clock; the end of the waiting in `stop_all()`; and that a
  cancelled worker ends or suppresses the cancellation. A worker that is *not* cancelled may work forever.
  `TunnelSettles` assumes a link that stays down or up, for giving up also that resets and escaping commands end;
  `FailuresSurface` that health can be read again and again; `StopHonoured` excludes a worker that suppresses two
  cancellations, for which `stop_all()` waits without bound.
* **Dashboard and KillSwitch.** Commands end (15 s limit) and the timer task runs. Nobody confirms or releases.

## 5. The proofs

Every proof is machine-checked to its leaves, for every value of the constants that satisfies the
`ASSUME` of the module (finite sets of jobs, workers, calls, steps; sizes in `Nat`).

* **Orchestrator.** `AccountingInv` (types; a worker holds a job exactly while busy; a job is in one
  place; the accounting itself) is inductive with any number of stops and restarts: accounting alone is
  not, since a cancelled worker must call `task_done()` exactly if it holds an item, which depends on where it is.
  `SeenOutInv` adds what a drain is owed: its jobs are queued, held or ended, and once it is released they are
  ended, which gives `DrainSeesThemOut` for any history of at least one record.
  On it rests `RecordsInv`, which adds that what is remembered is neither queued nor being run, and gives
  `QueuedJobsTracked`: no history bound evicts a record a worker will look up. `PostureInv` adds
  how `start()` and `stop()` exclude one another, and gives `WorkOnlyBehindServices` and `LiveWorkersListed`
  **for one task that calls `stop()`** (`OneStopper`). `LedgerInv` relates a job's status to its place and
  gives `ResultIsFinal` and the refinement of `JobService` **for one lifecycle** (`OneLifecycle`): after a
  restart they are false, as `orchestrator_stale_job` shows.
* **Dispatcher.** `DispatchInv` (types, `SlotsExact`, `ReturnsResult`, `StagesAgree`: what each stage implies
  of grant, attempts and executions) carries the refinement of `ToolGate`, and `AuditExact`: a step leaves the
  trail alone or records a call that had no result (`TrailStep`), and one more record keeps the trail exact: the call is new
  among the `endings`, of which the trail is the last part (`FinishKeepsTrail`, with the cardinalities of the counted sets).
* **RateLimiter, Lookups.** `CeilingInv`: with `BurstAccounted`, which relates the tokens in the bucket *now* to every
  suffix of the grants, the ceiling over all pairs of grants is inductive; alone it is not, because it says
  nothing of how many tokens are left. The same accounting, of the bucket of each client (`BurstInv`), gives
  `BurstsBounded`, with `OneClient`: if the context holds a client nobody else has a line or a bucket. It bounds a client by its
  bucket, which is not the service's quota (section 6).
  The safety half of `WaitEnds` is `WaitsAreBounded`: a sleeper is woken by its deadline (`WokenInTime`), and a turn that
  does not end its wait leaves less of it (`WaitShrinks`), because a sleep for what a token lacks is at least one tick.
* **UrlScan.** `ScanInv`: the first wave takes every step but `url_score` (`OnlyScoreWaits`: it is the only one with a
  dependency, on `url_analyze` at least), so that all of them have ended when it starts; the lookups it does *not*
  depend on are seen only because of that. The rest is arithmetic: more findings never make a category lighter
  (`CategoriesGrow`) and heavier categories never leave more innocence (`LeavesLess`), hence `ScoresGrow`. It is about findings
  counted once, so nothing follows for the score of `url_analyze`, which may be higher.
* **Collection.** The work is per payload: no way to part its entities cuts none of its edges (`Hangs`), a star by its shape, a
  URL by induction along its redirects (`UrlFine`). What is reached in the graph cuts no edge (`ReachedUncut`: the rounds
  of `Reached` stop growing before they outnumber the entities), so two payloads that share a place are on one side of it. That
  addresses are not taken for names is `CollectionAssumption`.
* **AgentRun.** `AgentInv` (validity of the plan, dependencies, results, what each point of the run
  implies) gives four invariants and the refinement of `PlanExecution`, for any shape of plan, rounds and
  runs.
* **Tunnel supervision.** `TunnelInv` relates the counter, the local attempt number and where `tick()` waits; a
  reset during an attempt is what makes the strengthening necessary. The bound does not depend on the delays, so
  nothing about `BackoffFor` is needed.
* **Workers.** `WorkersInv` says which tasks `stop_all()` still waits for: every task that is past its creation, since
  tasks created meanwhile see `_stopping` at the head of their loop and end; and that no task is behind a
  FAILED worker. It gives `NothingOutlivesStop` and `FailedIsFinal`, for any workers, budgets and
  suppressed cancellations. `BudgetInv` gives `RestartBudget`: the list the code prunes, filtered once more, is
  the list of the restarts of the window, whichever of the two was shortened last.
* **Daemon.** Each step of the daemon is one of the supervisors' or leaves them alone (`TunnelMoves`,
  `WorkerMoves`), so that both invariants carry over from the parts to the whole, with `ShutdownIsOrderly`, which is about
  `run()` itself.
* **KillSwitch.** `SwitchTypes` needs that an operator applying has no timer yet. `SwitchInv`, **for one
  operator at a time and a policy that can be restored** (`OneAtATime`), and for a dry runner that nothing is ever set, says what each call has still to
  run: an apply has an *orderly* rest (policy last, whatever is not yet exempt before it), a rollback
  restores the policy before it flushes. `PlanIsOrderly` proves that every plan the guard lets pass is
  orderly.
* **Dashboard.** Its steps are the switch's, which gives both properties again under its handlers. `DashInv`
  says what a browser *will* show: its view, with the frames of its queue rendered in their order, is
  the projection, unless a frame was dropped. A frame that is sent is appended to all
  queues at once, and one that is rendered only moves from the queue to the view.
* **EntityGraph.** `GraphInv` (types, the indexes hold exactly the edges of their entity, no edge dangles or loops) is
  inductive: for a merge it rests on `RewiredRenames`, which computes what the rewiring of the duplicate's edges does to edges and both
  indexes at once. With it every operation is a step of `LinkGraph`, and so is every step of a correlation.
* **Correlator.** `PassInv`: as long as a pass merges, every two entities the rules call the same *in the graph of this moment* are
  among its candidates. That needs that no merge makes two entities the same that were not
  (`MergeBringsNone`), for which links that resolve end in addresses and a merge leaves the addresses of the others
  alone; that a handled candidate is gone whether it was merged or refused (`HandledIsGone`); and that inferred
  links change nothing the rules look at (`InferenceSettles`). The attempt showed where one pass is *not* enough, hence the
  hypothesis `Settling` of `OnePassIsEnough`: see section 6.
* **Inspection.** `InspectInv` says at which points there is no process yet or none left to kill, and that what is started
  or held in the loop may be fetched. Of the container and of what its browser asks for next nothing is proved: nothing holds.
* **Host.** `HostInv`: what is left to do is the rest of one of the operations' lists, and a verdict comes from
  the links the operation has looked at, which need not be the link of the moment.
* **Scopes.** Without an inductive argument: `DeniesWin` is about one evaluation, by cases on what was written and on the rules
  (`ReadBack`: every spelling of an asset is read as that asset). `ScopesAssumption` says what addresses and rules are.
* **DeviceScan.** `DeviceInv`: the ports of a call are in the queue, under probe or answered, and together
  they are the planned ones; sorting loses none (`SortedHasAll`). `OpenedInv`: a port is in one of these places only, so that a
  result is never replaced and that of a port that was connected to tells of it. `FoldKeeps` is about any two sets of services.
* **Memory.** The invariant `MemoryInv` is small, because what is promised is about the store at the moment of the
  query, whatever happened since it was asked. The work is in `RecallFromRanking`: similarity orders the records
  (`CloserOrders`, a comparison of fractions without division), a finite set can be ranked by any order (`RankingExists`), so what is
  left out comes after what is returned; and a record above the floor has only such records
  before it, so that the floor removes nothing when the limit has cut something off.
* **Canonical.** No induction over behaviours, one lemma per type. The work is in two: stripping the formatting off a number
  strips nothing the second time, for numbers of any length (`KeptRest`), and the key of an organization is the name up to the
  last word that is no legal form, however many legal forms follow it (`OneLastName`, `OrganizationName`). `OneUrlHost` is where two
  spellings of one IPv6 address have to be excepted.

Proved and not run: the type invariants `TypeCorrect`, `DispatchTypes`, `SwitchTypes`, and `BucketBounded`, `WaitsAreBounded`, `ResultsReturned`,
`DependenciesAlwaysFirst`, `PlanAlwaysValid`, `ResultsAlwaysMatch`, `TerminalHolds` and `DaemonLeavesTerminal`, `FailedStaysFailed`
and `DaemonLeavesFailed`, `ShutdownIsOrderly`, `RecordsKept`; and `VerdictIsFinal`, whose property the violation run refutes beyond
one lifecycle.

Induction over data is done with *sets of values*: `Induction` derives from the library's well-founded induction
that a set which contains 0 and successors contains all naturals, and the same for sequences. What a
recursive function computes is then proved of its steps (filtered timestamps, rendered frames, records above the
floor). Where a definition had been a recursive operator or an enumeration of the community modules, it was
rewritten as such a function, or as a choice of what it enumerates (`Ranked`, `Sorted`).

Only model-checked:

* all liveness (`QueuedJobsEnd`, `WaitersReleased`, `StopEnds`, `BackPressureReleases`, `CallsEnd`, `WaitEnds`, `RunEnds`, `StopHonoured`,
  `FailuresSurface`, `TunnelSettles`, `DeadMansSwitch`), because the prover does not treat liveness under fairness.

## 6. Divergences between code and documentation

Each of the first five is a run that TLC ends with a counterexample.

1. **A cancelled job runs after a restart** (`orchestrator_stale_job`). `stop()` marks queued jobs
   CANCELLED (`core/orchestrator.py:307`) but leaves their items in the queue; the workers of the next
   `start()` run them. `core/types.py:140` calls such a status terminal.
2. **An executed call without a record** (`dispatcher_unaudited`). A cancellation during the backoff
   sleep, or at an event between attempts, lies outside the handler that records it
   (`core/dispatcher.py:432`); the module promises an audit trail of every outcome.
3. **Steps left pending below a lost one** (`agent_left_pending`). Steps below an optional step that was
   skipped in the last pass are never retired; the run reports success with a pending step
   (`core/agent.py:422`), where a comment says that they are retired.
4. **Unbounded recovery** (`tunnel_unbounded`). A `CommandError` escapes `_attempt_recovery`
   (`network/vpn.py:702`): neither backoff nor the give-up check follow, and the next tick tries again.
5. **Evidence that does not fail independently** (`url_scan`). `url_score` depends on every producer of evidence; if the
   sandbox fails it is skipped, and the scan reports the heuristics alone (`cli.py:175`), whatever the
   lookups said.

The others are quoted in `PROJECT.json` with their lines, without a run. Those that bound what a property can say, with the property:

* `stop()` may cancel a job whose `put()` was blocked when `join()` woke, with grace left (`DrainSeesThemOut` is about the jobs that were in
  the queue or with a worker); a service registered late is not started; a `start()` that fails in the default order leaves a running
  orchestrator without workers (`Stranded`, in the liveness properties).
* Kill switch: an `apply()` cancelled at the policy leaves DROP behind a state that is not engaged; two callers interleave; a rollback
  that cannot restore the policy flushes the exemptions all the same; a dry run reports an engaged switch without saying that
  nothing was executed. These are `cut`, `OneAtATime` and `live` in `ExemptWhileDropping` and `StateTellsTruth`. With `"restore"` in
  `MayFail` and `OneAtATime` taken out, TLC finds both violated, and so with two operators.
* The client's bucket lets up to eight requests go in a minute, and by default there is one for each call (`BurstsBounded`).
* `url_analyze` counts a code as often as it is found, and urlscan's verdict on a host that is not spelled canonically is dropped
  (`ScoreSeesEvidence`).
* The container's browser follows redirects unchecked, and the container may outlive its killed client (`InspectionContained`).
* OpenVPN is called UP without its management state; a `CommandError` of `ip link` escapes its `status`; a dry `disconnect` reports DOWN; a
  health report with one good metric and three unknown ones is OK (`AnswersTrue`).
* A URL keeps the spelling of its IPv6 host, an organization of punctuation gets an empty key (`KeysStable`); a device known by
  a name never joins its domain (`PayloadsJoin`); a TCP and a UDP service of a conventional port are one, and `merge_devices` keeps
  the earlier record of a service (`ScanContained`); a merge drops the aliases its duplicate had collected (`ImplementsLinkGraph`).
* An allowed range may contain a denied address (`DeniesWin`).

And: `WorkerSpec.critical` is never read; `register_all` with `replace=True` is not all-or-nothing; `stop_all` grants no worker a grace
period before its first cancellation; `credential_form` is never weighed by a deceptive domain.

Seen in the models and documented here only:

* Two overlapping `stop()` calls: only their first lines hold the lock (`core/orchestrator.py:280`). With two
  stoppers in the instance of `orchestrator_restart`, TLC finds the slower one stopping the services of a
  restarted orchestrator, under its workers, against the comment at line 162; `StopEnds` and `BackPressureReleases` fail with it.
* `core/orchestrator.py:16` says a failing worker is "logged and replaced"; one whose agent cannot be built is
  gone (`Boot`). Newer submitters may
  overtake one blocked in `put`. A job can be evicted from a small history before `wait_for` looks it up.
* Kill switch: a `confirm()` during the automatic rollback ends it between two commands and leaves an *engaged, confirmed*
  switch that does not drop; a cancelled `release()` has already disarmed the timer.
* `network/vpn.py` draws HEALTHY → DEGRADED → RECOVERING; the code also goes to RECOVERING directly, and stays
  HEALTHY while a tunnel is CONNECTING or UNKNOWN outside recovery. `tunnel.state_changed` compares a status object with itself
  (`daemon/service.py:427`): it is emitted at the first tick and after a reset only.
* A plan given to a second `run()` keeps the statuses of the first (`core/agent.py:271`): what was left RUNNING
  by a timeout is never run again. `VerdictHonest` states what a success means in spite of that.
* Daemon: a stop requested before `run()` is lost, because `run()` makes a new event; a second `run()` starts workers
  that end at once, because `_stopping` is never reset.
* Planner: `url_score` depends on producers planned *before* it, which VirusTotal and URLScan, of its category and later in the
  alphabet, are not; they come first because they need not wait for a wave and it must. `stream_probe` gets no edge to `control_port_probe` (`core/planner.py:296`).
* Network: a default route is found by the substring `dev <interface>` (`network/leaks.py:277`); `plan_for()` grants
  `systemctl is-active`, which is never run privileged; a scope judges whether a network is public by its first and last address.
* Graph: one applied pass leaves something for the next in two cases. A `www` name of a `www` name hands its addresses to
  its primary, which may then no longer conflict with the apex (the conflict check uses addresses read before the merges,
  `osint/correlator.py:396`); and a `merge_threshold` of 0.6 or less makes every pass propose the merge of a handle into the
  email address it is, which `merge_entities` refuses because the types differ. TLC finds both with `Bare` a chain and with
  `MergeAt = 60`. Also: `apply=False` infers on the unmerged graph;
  a repeated merge applies noisy-OR again; the rule `canonical_name_equal` (`osint/correlator.py:362`) and the suffix "l.l.c" are unreachable;
  a handle URL with an "@" is not its own canonical value.
* Threat: the retry without verification yields an empty certificate (`osint/collectors/tls_collector.py:92-105`), and
  the certificate of `osint.tls` never reaches `url_analyze`; a brand's own domain close to an *earlier* brand is a typosquat;
  running `url_score` twice in one run counts its own findings again.

## 7. What is not modelled

* External I/O and formats: command output, DNS, WHOIS, TLS, Shodan, urlscan and VirusTotal answers, `sudoers`, polkit and
  `systemd` texts, HTML, firewall arguments, the string tables of fingerprints, brands and vendors. Their meaning is
  an input of the models.
* Operations that are a few sequential lines without suspension or state of their own: argument validation of tools,
  `register_all`, the tag filter, `SequentialPlanner` (a chain), reading and grading single health numbers, the address checks
  of `threat/safety.py` and of a kill-switch plan, the graph's read-only queries, paths and serialization.
* The login gate (`web/auth.py`, whose sessions are signed cookies that no state is kept of), the server's start-up and the other commands of `cli.py`, the conversation window of the memory.
* Inside modelled components: `submit_and_wait`, `submit_all`, `run_forever` (sequences of modelled operations),
  and the contents of reports. Confidences appear where they decide something: in the order of a merge.
* Floating point: tokens and similarities are exact, scores as said of `UrlScan`.

## 8. What could come next

* Composition of the orchestrator with `AgentRun` and `Dispatcher`: each assumes of the next only what that one's
  abstract specification promises, which is stated but not checked as one system.
* Two operators on one kill switch, once the code orders their calls.
