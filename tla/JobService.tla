------------------------------- MODULE JobService -------------------------------
(***************************************************************************)
(* What the orchestrator promises to whoever submits jobs, without queue,  *)
(* workers, services or shutdown: a job is accepted, perhaps begun, and    *)
(* gets exactly one verdict; whoever waits for it is told that verdict,    *)
(* or that the bounded history has forgotten the job.                      *)
(***************************************************************************)
CONSTANTS Jobs

VARIABLES verdict, answer

vars == <<verdict, answer>>

Final   == {"succeeded", "failed", "cancelled"}
Open    == {"pending", "running"}

Init ==
  /\ verdict = [j \in Jobs |-> "new"]
  /\ answer = [j \in Jobs |-> "none"]

Accept(j) ==
  /\ verdict[j] = "new"
  /\ verdict' = [verdict EXCEPT ![j] = "pending"]
  /\ UNCHANGED answer

Begin(j) ==
  /\ verdict[j] = "pending"
  /\ verdict' = [verdict EXCEPT ![j] = "running"]
  /\ UNCHANGED answer

\* The run of one job ends.
Conclude(j, v) ==
  /\ verdict[j] = "running"
  /\ verdict' = [verdict EXCEPT ![j] = v]
  /\ UNCHANGED answer

\* A shutdown gives every job of a set that has no verdict yet the same one.
CancelAll(js) ==
  /\ \A j \in js : verdict[j] \in Open
  /\ verdict' = [j \in Jobs |-> IF j \in js THEN "cancelled" ELSE verdict[j]]
  /\ UNCHANGED answer

\* Someone waits for an accepted job.
Ask(j) ==
  /\ answer[j] = "none" /\ verdict[j] # "new"
  /\ answer' = [answer EXCEPT ![j] = "waiting"]
  /\ UNCHANGED verdict

\* The verdict there is, and only once there is one.
Tell(j) ==
  /\ answer[j] = "waiting" /\ verdict[j] \in Final
  /\ answer' = [answer EXCEPT ![j] = verdict[j]]
  /\ UNCHANGED verdict

\* The history is bounded: a job with a verdict may have been forgotten, before
\* the question or while it was pending.
Forget(j) ==
  /\ verdict[j] \in Final
  /\ \/ answer[j] = "none" /\ answer' = [answer EXCEPT ![j] = "unknown"]
     \/ answer[j] = "waiting" /\ answer' = [answer EXCEPT ![j] = "lost"]
  /\ UNCHANGED verdict

Next ==
  \/ \E j \in Jobs :
       \/ Accept(j) \/ Begin(j) \/ Ask(j) \/ Tell(j) \/ Forget(j)
       \/ \E v \in Final : Conclude(j, v)
  \/ \E js \in SUBSET Jobs : CancelAll(js)

Spec == Init /\ [][Next]_vars
=============================================================================
