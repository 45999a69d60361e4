----------------------------- MODULE PlanExecution -----------------------------
(***************************************************************************)
(* What executing a plan means, without waves, refiner, timeouts and runs: *)
(* a step starts when all its dependencies succeeded, ends once, is        *)
(* skipped only below a step that did not succeed, and is dropped only     *)
(* after a required step failed.  The plan grows by whole valid extensions.*)
(***************************************************************************)
EXTENDS Plans

CONSTANT Steps

VARIABLES
  needs, optional,  \* the shape of the plan
  plan,             \* the steps in it
  state             \* how far each step is

vars == <<needs, optional, plan, state>>

Lost == {"failed", "skipped", "cancelled"}

Init ==
  /\ plan = {}
  /\ state = [s \in Steps |-> "pending"]

Extend(added) ==
  /\ Valid(plan \union added, needs)
  /\ plan' = plan \union added
  /\ UNCHANGED <<needs, optional, state>>

Runnable(s) == state[s] = "pending" /\ \A d \in needs[s] : state[d] = "succeeded"
Hopeless(s) == state[s] = "pending" /\ \E d \in needs[s] : state[d] \in Lost

\* Hopeless steps are retired and runnable ones started.
Proceed(retired, started) ==
  /\ \A s \in retired : Hopeless(s)
  /\ \A s \in started : Runnable(s)
  /\ state' = [s \in Steps |-> IF s \in retired THEN "skipped"
                               ELSE IF s \in started THEN "running" ELSE state[s]]
  /\ UNCHANGED <<needs, optional, plan>>

\* Running steps end; with a required one failed, the rest may be dropped.
Conclude(ended, succeeded, dropped) ==
  /\ succeeded \subseteq ended
  /\ \A s \in ended : state[s] = "running"
  /\ \A s \in dropped : state[s] = "pending"
  /\ dropped # {} => \E s \in ended \ succeeded : s \notin optional
  /\ state' = [s \in Steps |-> IF s \in succeeded THEN "succeeded"
                               ELSE IF s \in ended THEN "failed"
                               ELSE IF s \in dropped THEN "cancelled" ELSE state[s]]
  /\ UNCHANGED <<needs, optional, plan>>

Next ==
  \/ \E added \in SUBSET Steps : Extend(added)
  \/ \E retired, started \in SUBSET plan : Proceed(retired, started)
  \/ \E ended, succeeded, dropped \in SUBSET plan : Conclude(ended, succeeded, dropped)

Spec == Init /\ [][Next]_vars
=============================================================================
