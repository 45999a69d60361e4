------------------------------- MODULE KillSwitch -------------------------------
(***************************************************************************)
(* network/killswitch.py: a plan of firewall rules is built, checked by    *)
(* the lockout guard and applied one command at a time; unless confirm()   *)
(* is called in time, a timer task rolls it back.  The code has no lock:   *)
(* every command is a suspension point at which the other tasks run.       *)
(***************************************************************************)
EXTENDS Integers, SequencesExt

CONSTANTS
  Operators,                     \* tasks that call apply() and release()
  RequireEndpoint, RequireAdmin, \* LockoutGuard: its two settings
  MayFail,                       \* the commands that may fail
  MayCancel,                     \* an operator's task may be cancelled
  Nobody

Exemptions == {"loopback", "established", "tunnel", "endpoint", "admin"}
Commands   == Exemptions \union {"drop", "restore", "flush"}

ASSUME KillSwitchAssumption ==
  /\ RequireEndpoint \in BOOLEAN /\ RequireAdmin \in BOOLEAN /\ MayCancel \in BOOLEAN
  /\ MayFail \subseteq Commands
  /\ Nobody \notin Operators

VARIABLES
  policy, chain,       \* the firewall: default policy and exemptions present
  live,                \* the runner executes; by default it only plans (DryRunRunner)
  engaged, confirmed,  \* KillSwitchState; it holds a plan iff it is engaged
  armed,               \* _rollback_task: whose apply() created it
  doing, todo,         \* operator -> its call, and the commands it has still to run
  deadman,             \* operator -> confirm_within of its apply() is not None
  timer, rolling,      \* operator -> the timer task of its apply(), and its commands
  cut                  \* a call was cancelled at a command that sets the policy or in
                       \* a release(), or confirm() ended a timer in its rollback, and
                       \* neither an apply nor a rollback was completed since

firewall == <<policy, chain, live>>
claim    == <<engaged, confirmed>>
calls    == <<doing, todo, deadman>>
timers   == <<armed, timer, rolling>>
vars     == <<firewall, claim, calls, timers, cut>>

TypeOK ==
  /\ policy \in {"accept", "drop"} /\ chain \in SUBSET Exemptions /\ live \in BOOLEAN
  /\ engaged \in BOOLEAN /\ confirmed \in BOOLEAN
  /\ armed \in Operators \union {Nobody}
  /\ doing \in [Operators -> {"idle", "applying", "undoing", "releasing"}]
  /\ todo \in [Operators -> Seq(Commands)]
  /\ deadman \in [Operators -> BOOLEAN]
  /\ timer \in [Operators -> {"off", "sleeping", "rolling"}]
  /\ rolling \in [Operators -> Seq(Commands)]
  /\ cut \in BOOLEAN
  /\ \A o \in Operators : /\ doing[o] = "idle" <=> todo[o] = <<>>
                          /\ timer[o] = "rolling" <=> rolling[o] # <<>>

Init ==
  /\ policy = "accept" /\ chain = {} /\ live \in BOOLEAN
  /\ engaged = FALSE /\ confirmed = FALSE
  /\ armed = Nobody
  /\ doing = [o \in Operators |-> "idle"] /\ todo = [o \in Operators |-> <<>>]
  /\ deadman = [o \in Operators |-> FALSE]
  /\ timer = [o \in Operators |-> "off"] /\ rolling = [o \in Operators |-> <<>>]
  /\ cut = FALSE

-----------------------------------------------------------------------------
(* Plans.  The exemptions for DHCP and DNS are like the optional ones here. *)

\* Mutated form: the policy flips before the last exemption.
BuildPlanDropsEarly(endpoint, admin) ==
  <<"loopback", "established", "drop", "tunnel">>
    \o (IF endpoint THEN <<"endpoint">> ELSE <<>>) \o (IF admin THEN <<"admin">> ELSE <<>>)

\* build_iptables_plan: exemptions first, the policy last.
BuildPlan(endpoint, admin) ==
  <<"loopback", "established", "tunnel">>
    \o (IF endpoint THEN <<"endpoint">> ELSE <<>>) \o (IF admin THEN <<"admin">> ELSE <<>>)
    \o <<"drop">>

\* The rollback every plan carries.
Rollback == <<"restore", "flush">>

\* What the guard wants preserved.
Vital == {"loopback", "established", "tunnel"}
           \union (IF RequireEndpoint THEN {"endpoint"} ELSE {})
           \union (IF RequireAdmin THEN {"admin"} ELSE {})

\* LockoutGuard.check.
Check(plan) == Vital \union {"drop"} \subseteq ToSet(plan)

\* What a command does to the firewall: the DryRunRunner reports success and
\* does nothing, and apply() and release() go on as if it had.
Ran(command) ==
  \/ ~live /\ UNCHANGED firewall
  \/ /\ live /\ UNCHANGED live
     /\ policy' = CASE command = "drop" -> "drop" [] command = "restore" -> "accept"
                    [] OTHER -> policy
     /\ chain'  = IF command = "flush" THEN {}
                  ELSE chain \union ({command} \intersect Exemptions)

\* A command that failed, timed out or lost its caller may have run or not.
PerhapsRan(command) == Ran(command) \/ UNCHANGED firewall

-----------------------------------------------------------------------------
(* apply().                                                                *)

\* The guard and the check for an engaged switch come before the first
\* command.  (Bound: an operator whose earlier timer lives does not apply.)
Apply(o, plan, within) ==
  /\ doing[o] = "idle" /\ timer[o] = "off"
  /\ Check(plan) /\ ~engaged
  /\ doing' = [doing EXCEPT ![o] = "applying"]
  /\ todo' = [todo EXCEPT ![o] = plan]
  /\ deadman' = [deadman EXCEPT ![o] = within]
  /\ UNCHANGED <<firewall, claim, timers, cut>>

\* The last command of a plan ran: the switch is engaged and the timer armed.
Engage(o) ==
  /\ engaged' = TRUE /\ confirmed' = ~deadman[o] /\ cut' = FALSE
  /\ doing' = [doing EXCEPT ![o] = "idle"]
  /\ IF deadman[o]
       THEN armed' = o /\ timer' = [timer EXCEPT ![o] = "sleeping"]
       ELSE UNCHANGED <<armed, timer>>

RuleRuns(o) ==
  /\ doing[o] = "applying"
  /\ Ran(Head(todo[o]))
  /\ todo' = [todo EXCEPT ![o] = Tail(@)]
  /\ IF Len(todo[o]) = 1 THEN Engage(o)
                         ELSE UNCHANGED <<claim, doing, armed, timer, cut>>
  /\ UNCHANGED <<deadman, rolling>>

\* Mutated form: a failed rule only ends the apply.
RuleFailsLeft(o) ==
  /\ doing[o] = "applying" /\ live /\ Head(todo[o]) \in MayFail
  /\ PerhapsRan(Head(todo[o]))
  /\ doing' = [doing EXCEPT ![o] = "idle"]
  /\ todo' = [todo EXCEPT ![o] = <<>>]
  /\ UNCHANGED <<claim, deadman, timers, cut>>

\* A CommandError, which only a live runner raises: everything is undone at once.
RuleFails(o) ==
  /\ doing[o] = "applying" /\ live /\ Head(todo[o]) \in MayFail
  /\ PerhapsRan(Head(todo[o]))
  /\ doing' = [doing EXCEPT ![o] = "undoing"]
  /\ todo' = [todo EXCEPT ![o] = Rollback]
  /\ UNCHANGED <<claim, deadman, timers, cut>>

-----------------------------------------------------------------------------
(* _run_rollback, in a failed apply(), in release() and in the timer task. *)

\* One command of a rollback: a failure is logged and the next one follows.
Undone(command) == Ran(command) \/ (command \in MayFail /\ UNCHANGED firewall)

Disengage == engaged' = FALSE /\ confirmed' = FALSE

UndoStep(o) ==
  /\ doing[o] \in {"undoing", "releasing"}
  /\ Undone(Head(todo[o]))
  /\ todo' = [todo EXCEPT ![o] = Tail(@)]
  /\ IF Len(todo[o]) = 1
       THEN /\ doing' = [doing EXCEPT ![o] = "idle"] /\ cut' = FALSE
            /\ IF doing[o] = "releasing" THEN Disengage ELSE UNCHANGED claim
       ELSE UNCHANGED <<doing, claim, cut>>
  /\ UNCHANGED <<deadman, timers>>

\* Task.cancel() of _rollback_task: a sleeping timer is gone, one that rolls
\* back ends at its command.
CancelTimer ==
  /\ armed' = Nobody
  /\ IF armed # Nobody
       THEN timer' = [timer EXCEPT ![armed] = "off"] /\ rolling' = [rolling EXCEPT ![armed] = <<>>]
       ELSE UNCHANGED <<timer, rolling>>
  /\ IF armed # Nobody /\ timer[armed] = "rolling"
       THEN PerhapsRan(Head(rolling[armed])) ELSE UNCHANGED firewall

\* release(): without a plan in the state nothing is rolled back.
Release(o) ==
  /\ doing[o] = "idle"
  /\ CancelTimer
  /\ IF engaged
       THEN /\ doing' = [doing EXCEPT ![o] = "releasing"]
            /\ todo' = [todo EXCEPT ![o] = Rollback]
            /\ UNCHANGED claim
       ELSE Disengage /\ UNCHANGED <<doing, todo>>
  /\ UNCHANGED <<deadman, cut>>

\* confirm(), from whichever task.
Confirm ==
  /\ engaged
  /\ confirmed' = TRUE
  /\ CancelTimer
  /\ cut' = (cut \/ (armed # Nobody /\ timer[armed] = "rolling"))
  /\ UNCHANGED <<engaged, calls>>

\* _auto_rollback wakes up.
TimerFires(o) ==
  /\ timer[o] = "sleeping"
  /\ IF confirmed THEN timer' = [timer EXCEPT ![o] = "off"] /\ UNCHANGED rolling
                  ELSE /\ timer' = [timer EXCEPT ![o] = "rolling"]
                       /\ rolling' = [rolling EXCEPT ![o] = Rollback]
  /\ UNCHANGED <<firewall, claim, calls, armed, cut>>

\* Mutated form: the state is not reset after the automatic rollback.
TimerStepKeepsState(o) ==
  /\ timer[o] = "rolling"
  /\ Undone(Head(rolling[o]))
  /\ rolling' = [rolling EXCEPT ![o] = Tail(@)]
  /\ IF Len(rolling[o]) = 1 THEN timer' = [timer EXCEPT ![o] = "off"] /\ cut' = FALSE
                            ELSE UNCHANGED <<timer, cut>>
  /\ UNCHANGED <<claim, armed, calls>>

TimerStep(o) ==
  /\ timer[o] = "rolling"
  /\ Undone(Head(rolling[o]))
  /\ rolling' = [rolling EXCEPT ![o] = Tail(@)]
  /\ IF Len(rolling[o]) = 1
       THEN timer' = [timer EXCEPT ![o] = "off"] /\ cut' = FALSE /\ Disengage
       ELSE UNCHANGED <<timer, claim, cut>>
  /\ UNCHANGED <<armed, calls>>

\* An operator's task is cancelled at its command; no handler undoes anything.
\* What is left behind belies the state where the command sets the policy, or
\* where the state is still that of an engaged switch.
CancelCall(o) ==
  /\ MayCancel /\ doing[o] # "idle"
  /\ PerhapsRan(Head(todo[o]))
  /\ doing' = [doing EXCEPT ![o] = "idle"]
  /\ todo' = [todo EXCEPT ![o] = <<>>]
  /\ cut' = (cut \/ doing[o] = "releasing" \/ Head(todo[o]) \in {"drop", "restore"})
  /\ UNCHANGED <<claim, deadman, timers>>

-----------------------------------------------------------------------------
CallStep(o) == RuleRuns(o) \/ RuleFails(o) \/ UndoStep(o)
TimerTask(o) == TimerFires(o) \/ TimerStep(o)

Next ==
  \/ \E o \in Operators :
       \/ \E endpoint, admin, within \in BOOLEAN : Apply(o, BuildPlan(endpoint, admin), within)
       \/ CallStep(o) \/ Release(o) \/ CancelCall(o) \/ TimerTask(o)
  \/ Confirm

Spec == Init /\ [][Next]_vars

\* Commands have a time limit, and the event loop runs the timer task.
FairSpec == Spec /\ \A o \in Operators : WF_vars(CallStep(o)) /\ WF_vars(TimerTask(o))

-----------------------------------------------------------------------------
\* What the three properties below exclude: two operators whose calls overlap,
\* since apply() checks many awaits before it engages and nothing is locked, and
\* a host on which the policy cannot be set back to ACCEPT, where a rollback goes
\* on and takes the exemptions away.  The README shows what TLC finds there.
OneAtATime == (\A o, p \in Operators : o = p) /\ "restore" \notin MayFail

\* "There is never a window in which the policy is DROP and the exemptions are
\* not yet present", nor one in which they are gone already: through failures of
\* any command but the one that restores the policy, cancellations, rollbacks
\* and confirmations, as long as one operator at a time works on the switch.
ExemptWhileDropping == OneAtATime => (policy = "drop" => Vital \subseteq chain)

AtRest == \A o \in Operators : doing[o] = "idle" /\ timer[o] # "rolling"

\* At rest the state tells the truth about the firewall of a live runner, with
\* one operator and a policy that can be restored: an engaged switch drops and a
\* disengaged one does not, after failures at any rule and after a cancellation
\* at any rule but the policy, unless a call was cancelled where the policy is
\* set, a release() was cancelled, or confirm() met a timer that was rolling
\* back.  Of a dry run it says that nothing drops: its state may be engaged.
StateTellsTruth ==
  OneAtATime /\ AtRest /\ ~cut => (engaged /\ live <=> policy = "drop")

\* "Application is a dead-man's switch": an engaged switch that nobody confirms
\* is rolled back, with one operator and a policy that can be restored, unless
\* the release() that was to replace the timer was cut short itself.
DeadMansSwitch ==
  OneAtATime => (engaged /\ ~confirmed ~> confirmed \/ cut \/ (~engaged /\ policy = "accept"))
=============================================================================
