---------------------------- MODULE TunnelSupervisor ----------------------------
(***************************************************************************)
(* network/vpn.py, TunnelSupervisor: bounded recovery of one tunnel.  The  *)
(* daemon calls tick(), one call at a time; the tunnel changes by itself,  *)
(* commands may fail or not run at all, and an operator may reset() the    *)
(* supervisor at any moment, also between the awaits of a tick.            *)
(***************************************************************************)
EXTENDS Integers

CONSTANTS
  MaxAttempts,         \* max_reconnect_attempts
  Base, MaxBackoff,    \* reconnect_backoff_seconds, max_backoff_seconds
  MaxEscapes           \* bound: the last attempt that may escape

ASSUME SupervisorAssumption ==
  /\ MaxAttempts \in Nat \ {0} /\ MaxEscapes \in Nat
  /\ Base \in Nat /\ MaxBackoff \in Nat /\ Base <= MaxBackoff

VARIABLES
  autoReconnect, degradedIsDown,  \* auto_reconnect, treat_degraded_as_down
  link,      \* what status() tells of the tunnel, or that it cannot (TunnelState)
  pc,        \* where tick() waits: for the status, the same once the state is
             \* terminal, for the down-and-up of a reconnect; or "idle"
  state,     \* _status.state (RecoveryState)
  attempts,  \* _status.attempts
  attempt,   \* the number of the attempt under way, a local variable
  wait,      \* how long _ready_at is away
  escaped    \* an attempt ended by an error that is no VpnError since the
             \* supervisor was last healthy or reset

config == <<autoReconnect, degradedIsDown>>
vars == <<config, link, pc, state, attempts, attempt, wait, escaped>>

Links    == {"down", "connecting", "up", "degraded", "unknown"}
Recovery == {"healthy", "degraded", "recovering", "backoff", "needs_operator"}

TypeOK ==
  /\ autoReconnect \in BOOLEAN /\ degradedIsDown \in BOOLEAN
  /\ link \in Links
  /\ pc \in {"idle", "status", "terminal", "cycling"}
  /\ state \in Recovery
  /\ attempts \in Nat /\ attempt \in Nat
  /\ wait \in 0..MaxBackoff
  /\ escaped \in BOOLEAN

Init ==
  /\ autoReconnect \in BOOLEAN /\ degradedIsDown \in BOOLEAN
  /\ link \in Links
  /\ pc = "idle" /\ state = "healthy"
  /\ attempts = 0 /\ attempt = 0 /\ wait = 0 /\ escaped = FALSE

-----------------------------------------------------------------------------
\* The tunnel changes by itself, and so does whether its tools answer.
LinkChanges ==
  /\ \E new \in Links \ {link} : link' = new
  /\ UNCHANGED <<config, pc, state, attempts, attempt, wait, escaped>>

Second ==
  /\ wait > 0
  /\ wait' = wait - 1
  /\ UNCHANGED <<config, link, pc, state, attempts, attempt, escaped>>

\* VpnConfig.backoff_for.
BackoffFor(n) ==
  IF n <= 1 THEN Base
  ELSE IF Base * 2 ^ (n - 1) < MaxBackoff THEN Base * 2 ^ (n - 1) ELSE MaxBackoff

-----------------------------------------------------------------------------
(* tick().                                                                 *)

TickBegins ==
  /\ pc = "idle"
  /\ pc' = IF state = "needs_operator" THEN "terminal" ELSE "status"
  /\ UNCHANGED <<config, link, state, attempts, attempt, wait, escaped>>

\* In the terminal state the tunnel is only reported.
Reported ==
  /\ pc = "terminal" /\ pc' = "idle"
  /\ UNCHANGED <<config, link, state, attempts, attempt, wait, escaped>>

Faulted == link = "down" \/ (degradedIsDown /\ link = "degraded")

Healthy ==
  /\ pc = "status" /\ link = "up"
  /\ pc' = "idle" /\ state' = "healthy"
  /\ IF state = "healthy" THEN UNCHANGED <<attempts, escaped>>
                          ELSE attempts' = 0 /\ escaped' = FALSE
  /\ UNCHANGED <<config, link, attempt, wait>>

\* Neither healthy nor a fault: nothing is done. (For OpenVPN a command of
\* status() that cannot run leaves tick() instead: nothing is done either.)
NoFault ==
  /\ pc = "status" /\ link # "up" /\ ~Faulted
  /\ pc' = "idle"
  /\ UNCHANGED <<config, link, state, attempts, attempt, wait, escaped>>

ReportFault ==
  /\ pc = "status" /\ Faulted /\ ~autoReconnect
  /\ pc' = "idle" /\ state' = "degraded"
  /\ UNCHANGED <<config, link, attempts, attempt, wait, escaped>>

BackingOff == state = "backoff" /\ wait > 0

Wait ==
  /\ pc = "status" /\ Faulted /\ autoReconnect /\ BackingOff
  /\ pc' = "idle"
  /\ UNCHANGED <<config, link, state, attempts, attempt, wait, escaped>>

\* _attempt_recovery, up to the commands.
Attempt ==
  /\ pc = "status" /\ Faulted /\ autoReconnect /\ ~BackingOff
  /\ attempts' = attempts + 1 /\ attempt' = attempts + 1
  /\ state' = "recovering" /\ pc' = "cycling"
  /\ UNCHANGED <<config, link, wait, escaped>>

-----------------------------------------------------------------------------
(* The end of a reconnect: wg-quick down and up, and the status after it.  *)

CycleSucceeds ==
  /\ pc = "cycling"
  /\ link' = "up"
  /\ pc' = "idle" /\ state' = "healthy" /\ attempts' = 0 /\ escaped' = FALSE
  /\ UNCHANGED <<config, attempt, wait>>

\* Mutated form: one attempt more than configured.
CycleFailsLate ==
  /\ pc = "cycling"
  /\ link' \in Links
  /\ pc' = "idle"
  /\ IF attempt > MaxAttempts
       THEN state' = "needs_operator" /\ UNCHANGED wait
       ELSE state' = "backoff" /\ wait' = BackoffFor(attempt)
  /\ UNCHANGED <<config, attempts, attempt, escaped>>

\* Mutated form: a failed attempt is forgotten when its backoff begins.
CycleFailsForgets ==
  /\ pc = "cycling"
  /\ link' \in Links
  /\ pc' = "idle"
  /\ IF attempt >= MaxAttempts
       THEN state' = "needs_operator" /\ UNCHANGED <<wait, attempts>>
       ELSE state' = "backoff" /\ wait' = BackoffFor(attempt) /\ attempts' = 0
  /\ UNCHANGED <<config, attempt, escaped>>

\* A VpnError, whatever it leaves behind, or a tunnel that is not up after the
\* commands.
CycleFails ==
  /\ pc = "cycling"
  /\ link' \in Links
  /\ pc' = "idle"
  /\ IF attempt >= MaxAttempts
       THEN state' = "needs_operator" /\ UNCHANGED wait
       ELSE state' = "backoff" /\ wait' = BackoffFor(attempt)
  /\ UNCHANGED <<config, attempts, attempt, escaped>>

\* A command timed out, is not installed or may not be escalated: the runner's
\* CommandError is no VpnError and leaves tick().
CycleEscapes ==
  /\ pc = "cycling" /\ attempt <= MaxEscapes
  /\ link' \in Links
  /\ pc' = "idle" /\ escaped' = TRUE
  /\ UNCHANGED <<config, state, attempts, attempt, wait>>

-----------------------------------------------------------------------------
\* reset(): a new status object, which a tick under way goes on to use.
Reset ==
  /\ state' = "healthy" /\ attempts' = 0 /\ wait' = 0 /\ escaped' = FALSE
  /\ UNCHANGED <<config, link, pc, attempt>>

TickStep ==
  \/ TickBegins \/ Reported
  \/ Healthy \/ NoFault \/ ReportFault \/ Wait \/ Attempt
  \/ CycleSucceeds \/ CycleFails \/ CycleEscapes

Next == TickStep \/ LinkChanges \/ Second \/ Reset

Spec == Init /\ [][Next]_vars

-----------------------------------------------------------------------------
\* "Autonomous recovery is bounded": since it was last healthy or reset, the
\* supervisor made at most max_reconnect_attempts attempts, as long as their
\* failures were reported as VpnErrors; a reset while an attempt is under way
\* does not change that.
RecoveryBounded == ~escaped => attempts <= MaxAttempts

\* Only the operator ends the terminal state, and no attempt starts in it.
TerminalUntilReset ==
  [][/\ state = "needs_operator" /\ state' # "needs_operator" => Reset
     /\ Attempt => state # "needs_operator"]_vars

\* "After this many consecutive failures the supervisor stops and requires
\* operator intervention."
AttemptsBounded == attempts <= MaxAttempts
=============================================================================
