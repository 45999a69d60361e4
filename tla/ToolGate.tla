-------------------------------- MODULE ToolGate --------------------------------
(***************************************************************************)
(* What the dispatcher promises about every tool call, without scopes,     *)
(* limiter, semaphore, retries or events: a tool executes only after the   *)
(* call was granted and before it has a verdict, never more often than its *)
(* budget, and a failure is the verdict only when the budget is spent.     *)
(***************************************************************************)
EXTENDS Naturals

CONSTANTS Calls, Budget

VARIABLES
  grant,       \* the calls granted so far
  executions, verdict

vars == <<grant, executions, verdict>>

Init ==
  /\ grant = {}
  /\ executions = [c \in Calls |-> 0]
  /\ verdict = [c \in Calls |-> "none"]

Grant(c) ==
  /\ c \notin grant /\ verdict[c] = "none"
  /\ grant' = grant \union {c}
  /\ UNCHANGED <<executions, verdict>>

Execute(c) ==
  /\ c \in grant /\ verdict[c] = "none" /\ executions[c] < Budget[c]
  /\ executions' = [executions EXCEPT ![c] = @ + 1]
  /\ UNCHANGED <<grant, verdict>>

Conclude(c, v) ==
  /\ verdict[c] = "none"
  /\ v \in {"not_found", "invalid", "rate_limited"} => executions[c] = 0
  /\ v \in {"timeout", "error"} => executions[c] = Budget[c]
  /\ v = "success" => c \in grant
  /\ verdict' = [verdict EXCEPT ![c] = v]
  /\ UNCHANGED <<grant, executions>>

\* A dry run is granted and concluded at once.
DryRun(c) ==
  /\ c \notin grant /\ verdict[c] = "none"
  /\ grant' = grant \union {c}
  /\ verdict' = [verdict EXCEPT ![c] = "success"]
  /\ UNCHANGED executions

Verdicts == {"not_found", "invalid", "denied", "rate_limited", "success",
             "timeout", "error", "cancelled"}

Next == \E c \in Calls : \/ Grant(c) \/ Execute(c) \/ DryRun(c)
                         \/ \E v \in Verdicts : Conclude(c, v)

Spec == Init /\ [][Next]_vars
=============================================================================
