---------------------------- MODULE KillSwitchProofs ----------------------------
(***************************************************************************)
(* Proofs about KillSwitch and Dashboard: with one operator at a time and  *)
(* a policy that can be restored, for every plan and whatever else fails   *)
(* or is cancelled, the policy never drops what must stay reachable, and   *)
(* at rest the state tells the truth unless a call was cut short where the *)
(* policy is set; and the browsers are shown that state.                   *)
(***************************************************************************)
EXTENDS Dashboard, Induction

\* What an apply has still to run: the policy last, and before it whatever
\* must be exempt and is not yet.
Orderly(rest, present) ==
  /\ rest \in Seq(Exemptions \union {"drop"}) /\ rest # <<>>
  /\ rest[Len(rest)] = "drop"
  /\ \A i \in 1..Len(rest) : rest[i] = "drop" => i = Len(rest)
  /\ \A v \in Vital : v \in present \/ \E i \in 1..Len(rest) : rest[i] = v

\* What a rollback has still to run: the chain is emptied under an open default.
Undoing(rest, default) == rest = Rollback \/ (rest = <<"flush">> /\ default = "accept")

CallsAgree ==
  \A o \in Operators :
    /\ doing[o] # "idle" => timer[o] = "off"
    /\ doing[o] = "applying" => /\ ~engaged /\ (live => Orderly(todo[o], chain))
                                /\ ~cut => policy = "accept"
    /\ doing[o] = "undoing" => ~engaged /\ Undoing(todo[o], policy)
    /\ doing[o] = "releasing" => engaged /\ Undoing(todo[o], policy)

TimersAgree ==
  \A o \in Operators :
    /\ timer[o] # "off" => engaged /\ armed = o
    /\ timer[o] = "rolling" => Undoing(rolling[o], policy)

Exempt == policy = "drop" => Vital \subseteq chain
Planned == ~live => policy = "accept"
Truth  == AtRest /\ ~cut => (engaged /\ live <=> policy = "drop")

\* Inductive with one operator and a policy that can be restored.
SwitchInv == TypeOK /\ CallsAgree /\ TimersAgree /\ Exempt /\ Planned /\ Truth

-----------------------------------------------------------------------------
\* build_iptables_plan is orderly when the guard lets it pass.
LEMMA PlanIsOrderly ==
  ASSUME NEW endpoint \in BOOLEAN, NEW admin \in BOOLEAN, Check(BuildPlan(endpoint, admin))
  PROVE  Orderly(BuildPlan(endpoint, admin), chain)
<1> DEFINE plan   == BuildPlan(endpoint, admin)
           first  == <<"loopback", "established", "tunnel">>
           second == IF endpoint THEN <<"endpoint">> ELSE <<>>
           third  == IF admin THEN <<"admin">> ELSE <<>>
           exempt == first \o second \o third
<1>1. first \in Seq(Exemptions) /\ second \in Seq(Exemptions) /\ third \in Seq(Exemptions)
  <2> {"loopback", "established", "tunnel", "endpoint", "admin"} \subseteq Exemptions
    BY DEF Exemptions
  <2>1. first \in Seq(Exemptions)
    OBVIOUS
  <2>2. <<"endpoint">> \in Seq(Exemptions) /\ <<"admin">> \in Seq(Exemptions) /\ <<>> \in Seq(Exemptions)
    OBVIOUS
  <2> QED
    BY <2>1, <2>2
<1>2. plan = exempt \o <<"drop">>
  BY DEF BuildPlan
<1> HIDE DEF first, second, third
<1>3. exempt \in Seq(Exemptions)
  BY <1>1
<1>4. Vital \subseteq ToSet(plan)
  BY DEF Check
<1> HIDE DEF exempt, plan
<1>5. /\ plan \in Seq(Exemptions \union {"drop"}) /\ plan # <<>>
      /\ Len(plan) = Len(exempt) + 1 /\ plan[Len(plan)] = "drop"
      /\ \A i \in 1..Len(exempt) : plan[i] = exempt[i]
  BY <1>2, <1>3
<1>6. "drop" \notin Exemptions
  BY DEF Exemptions
<1>7. \A i \in 1..Len(plan) : plan[i] = "drop" => i = Len(plan)
  BY <1>3, <1>5, <1>6
<1>8. \A v \in Vital : \E i \in 1..Len(plan) : plan[i] = v
  BY <1>4, <1>5 DEF ToSet
<1>9. Orderly(plan, chain)
  BY <1>5, <1>7, <1>8 DEF Orderly
<1> QED
  BY <1>9 DEF plan
-----------------------------------------------------------------------------
(* Types.                                                                  *)

\* A command leaves a firewall behind.
LEMMA CommandTyped ==
  ASSUME TypeOK, NEW c \in Commands, PerhapsRan(c) \/ Undone(c)
  PROVE  policy' \in {"accept", "drop"} /\ chain' \in SUBSET Exemptions /\ live' \in BOOLEAN
BY DEF TypeOK, PerhapsRan, Undone, Ran, firewall

\* A sequence of commands is its first one and the rest.
LEMMA HeadAndTail ==
  ASSUME NEW rest \in Seq(Commands), rest # <<>>
  PROVE  /\ Head(rest) \in Commands /\ Tail(rest) \in Seq(Commands)
         /\ Tail(rest) = <<>> <=> Len(rest) = 1
<1>1. Len(rest) \in Nat /\ Len(rest) # 0 /\ rest \in [1..Len(rest) -> Commands]
  OBVIOUS
<1>2. Head(rest) \in Commands
  BY <1>1
<1>3. Tail(rest) \in Seq(Commands) /\ Len(Tail(rest)) = Len(rest) - 1
  BY <1>1
<1>4. Tail(rest) = <<>> <=> Len(Tail(rest)) = 0
  BY <1>3
<1> QED
  BY <1>1, <1>2, <1>3, <1>4

\* The plans and the rollback are sequences of commands.
LEMMA PlansTyped ==
  /\ Rollback \in Seq(Commands) /\ Rollback # <<>>
  /\ \A endpoint, admin \in BOOLEAN :
       /\ BuildPlan(endpoint, admin) \in Seq(Commands)
       /\ BuildPlan(endpoint, admin) # <<>>
<1> {"loopback", "established", "tunnel", "endpoint", "admin", "drop", "restore", "flush"}
      \subseteq Commands
  BY DEF Commands, Exemptions
<1>1. Rollback \in Seq(Commands) /\ Rollback # <<>>
  BY DEF Rollback
<1>2. ASSUME NEW endpoint \in BOOLEAN, NEW admin \in BOOLEAN
      PROVE  BuildPlan(endpoint, admin) \in Seq(Commands) /\ BuildPlan(endpoint, admin) # <<>>
  <2> DEFINE first  == <<"loopback", "established", "tunnel">>
             second == IF endpoint THEN <<"endpoint">> ELSE <<>>
             third  == IF admin THEN <<"admin">> ELSE <<>>
             last   == <<"drop">>
  <2>1. first \in Seq(Commands) /\ last \in Seq(Commands) /\ last # <<>>
    OBVIOUS
  <2>2. <<"endpoint">> \in Seq(Commands) /\ <<"admin">> \in Seq(Commands) /\ <<>> \in Seq(Commands)
    OBVIOUS
  <2>3. second \in Seq(Commands) /\ third \in Seq(Commands)
    BY <2>2
  <2>4. BuildPlan(endpoint, admin) = first \o second \o third \o last
    BY DEF BuildPlan
  <2> HIDE DEF first, second, third, last
  <2> QED
    BY <2>1, <2>3, <2>4
<1> QED
  BY <1>1, <1>2

\* An operator's timer is armed only when its apply is over.
NoTimerYet == \A o \in Operators : doing[o] = "applying" => timer[o] = "off"

LEMMA NoTimerYetKept == TypeOK /\ NoTimerYet /\ [Next]_vars => NoTimerYet'
<1> SUFFICES ASSUME TypeOK, NoTimerYet, [Next]_vars PROVE NoTimerYet'
  OBVIOUS
<1> USE DEF firewall, claim, calls, timers, TypeOK, NoTimerYet
<1>1. CASE UNCHANGED vars
  BY <1>1 DEF vars
<1>2. ASSUME NEW o \in Operators, NEW endpoint \in BOOLEAN, NEW admin \in BOOLEAN,
             NEW within \in BOOLEAN, Apply(o, BuildPlan(endpoint, admin), within)
      PROVE  NoTimerYet'
  BY <1>2 DEF Apply
<1>3. ASSUME NEW o \in Operators, RuleRuns(o) PROVE NoTimerYet'
  BY <1>3 DEF RuleRuns, Engage
<1>4. ASSUME NEW o \in Operators, RuleFails(o) \/ UndoStep(o) \/ CancelCall(o)
      PROVE  NoTimerYet'
  BY <1>4 DEF RuleFails, UndoStep, CancelCall
<1>5. ASSUME NEW o \in Operators, Release(o) PROVE NoTimerYet'
  BY <1>5 DEF Release, CancelTimer
<1>6. CASE Confirm
  BY <1>6 DEF Confirm, CancelTimer
<1>7. ASSUME NEW o \in Operators, TimerTask(o) PROVE NoTimerYet'
  BY <1>7 DEF TimerTask, TimerFires, TimerStep
<1> QED
  BY <1>1, <1>2, <1>3, <1>4, <1>5, <1>6, <1>7 DEF Next, CallStep

\* Every step keeps the types, with any number of operators.
LEMMA TypesKept == TypeOK /\ NoTimerYet /\ [Next]_vars => TypeOK'
<1> SUFFICES ASSUME TypeOK, NoTimerYet, [Next]_vars PROVE TypeOK'
  OBVIOUS
<1> USE DEF firewall, claim, calls, timers
<1>1. CASE UNCHANGED vars
  BY <1>1 DEF vars, TypeOK
<1>2. ASSUME NEW o \in Operators, NEW endpoint \in BOOLEAN, NEW admin \in BOOLEAN,
             NEW within \in BOOLEAN, Apply(o, BuildPlan(endpoint, admin), within)
      PROVE  TypeOK'
  BY <1>2, PlansTyped DEF Apply, TypeOK
<1>3. ASSUME NEW o \in Operators, RuleRuns(o) PROVE TypeOK'
  <2>1. Head(todo[o]) \in Commands /\ Tail(todo[o]) \in Seq(Commands)
        /\ (Tail(todo[o]) = <<>> <=> Len(todo[o]) = 1)
    BY <1>3, HeadAndTail DEF RuleRuns, TypeOK
  <2>2. policy' \in {"accept", "drop"} /\ chain' \in SUBSET Exemptions /\ live' \in BOOLEAN
    BY <1>3, <2>1, CommandTyped DEF RuleRuns, Undone
  <2>3. CASE Len(todo[o]) = 1
    <3>1. /\ todo' = [todo EXCEPT ![o] = <<>>] /\ doing' = [doing EXCEPT ![o] = "idle"]
          /\ UNCHANGED <<deadman, rolling>> /\ timer[o] = "off"
          /\ engaged' \in BOOLEAN /\ confirmed' \in BOOLEAN /\ cut' \in BOOLEAN
      BY <1>3, <2>1, <2>3 DEF RuleRuns, Engage, TypeOK, NoTimerYet
    <3>2. CASE deadman[o]
      <4>1. armed' = o /\ timer' = [timer EXCEPT ![o] = "sleeping"]
        BY <1>3, <2>3, <3>2 DEF RuleRuns, Engage
      <4> QED
        BY <2>2, <3>1, <4>1 DEF TypeOK
    <3>3. CASE ~deadman[o]
      <4>1. UNCHANGED <<armed, timer>>
        BY <1>3, <2>3, <3>3 DEF RuleRuns, Engage
      <4> QED
        BY <2>2, <3>1, <4>1 DEF TypeOK
    <3> QED
      BY <3>2, <3>3
  <2>4. CASE Len(todo[o]) # 1
    BY <1>3, <2>1, <2>2, <2>4 DEF RuleRuns, TypeOK
  <2> QED
    BY <2>3, <2>4
<1>4. ASSUME NEW o \in Operators, RuleFails(o) PROVE TypeOK'
  <2>1. Head(todo[o]) \in Commands
    BY <1>4, HeadAndTail DEF RuleFails, TypeOK
  <2>2. policy' \in {"accept", "drop"} /\ chain' \in SUBSET Exemptions /\ live' \in BOOLEAN
    BY <1>4, <2>1, CommandTyped DEF RuleFails
  <2> QED
    BY <1>4, <2>2, PlansTyped DEF RuleFails, TypeOK
<1>5. ASSUME NEW o \in Operators, UndoStep(o) PROVE TypeOK'
  <2>1. Head(todo[o]) \in Commands /\ Tail(todo[o]) \in Seq(Commands)
        /\ (Tail(todo[o]) = <<>> <=> Len(todo[o]) = 1)
    BY <1>5, HeadAndTail DEF UndoStep, TypeOK
  <2>2. policy' \in {"accept", "drop"} /\ chain' \in SUBSET Exemptions /\ live' \in BOOLEAN
    BY <1>5, <2>1, CommandTyped DEF UndoStep
  <2> QED
    BY <1>5, <2>1, <2>2 DEF UndoStep, Disengage, TypeOK
<1>6. ASSUME CancelTimer
      PROVE  /\ policy' \in {"accept", "drop"} /\ chain' \in SUBSET Exemptions /\ live' \in BOOLEAN
             /\ armed' \in Operators \union {Nobody}
             /\ timer' \in [Operators -> {"off", "sleeping", "rolling"}]
             /\ rolling' \in [Operators -> Seq(Commands)]
             /\ \A o \in Operators : timer'[o] = "rolling" <=> rolling'[o] # <<>>
  <2>1. CASE armed = Nobody
    BY <1>6, <2>1 DEF CancelTimer, TypeOK
  <2>2. CASE armed # Nobody /\ timer[armed] = "rolling"
    <3>1. Head(rolling[armed]) \in Commands
      BY <2>2, HeadAndTail DEF TypeOK
    <3>2. policy' \in {"accept", "drop"} /\ chain' \in SUBSET Exemptions /\ live' \in BOOLEAN
      BY <1>6, <2>2, <3>1, CommandTyped DEF CancelTimer
    <3>3. armed \in Operators /\ armed' = Nobody
      BY <1>6, <2>2 DEF CancelTimer, TypeOK
    <3>4. /\ timer' = [timer EXCEPT ![armed] = "off"]
          /\ rolling' = [rolling EXCEPT ![armed] = <<>>]
      BY <1>6, <2>2 DEF CancelTimer
    <3>5. \A o \in Operators : timer'[o] = "rolling" <=> rolling'[o] # <<>>
      BY <3>3, <3>4 DEF TypeOK
    <3>6. /\ timer' \in [Operators -> {"off", "sleeping", "rolling"}]
          /\ rolling' \in [Operators -> Seq(Commands)]
      BY <3>3, <3>4 DEF TypeOK
    <3> QED
      BY <3>2, <3>3, <3>5, <3>6
  <2>3. CASE armed # Nobody /\ timer[armed] # "rolling"
    BY <1>6, <2>3 DEF CancelTimer, TypeOK
  <2> QED
    BY <2>1, <2>2, <2>3
<1>7. ASSUME NEW o \in Operators, Release(o) PROVE TypeOK'
  <2>1. CASE engaged
    <3>1. /\ CancelTimer /\ UNCHANGED <<engaged, confirmed, deadman, cut>>
          /\ doing' = [doing EXCEPT ![o] = "releasing"] /\ todo' = [todo EXCEPT ![o] = Rollback]
      BY <1>7, <2>1 DEF Release
    <3>2. /\ doing' \in [Operators -> {"idle", "applying", "undoing", "releasing"}]
          /\ todo' \in [Operators -> Seq(Commands)]
          /\ \A p \in Operators : doing'[p] = "idle" <=> todo'[p] = <<>>
      BY <3>1, PlansTyped DEF TypeOK
    <3> QED
      BY <1>6, <3>1, <3>2 DEF TypeOK
  <2>2. CASE ~engaged
    <3>1. /\ CancelTimer /\ UNCHANGED <<doing, todo, deadman, cut>>
          /\ engaged' \in BOOLEAN /\ confirmed' \in BOOLEAN
      BY <1>7, <2>2 DEF Release, Disengage
    <3> QED
      BY <1>6, <3>1 DEF TypeOK
  <2> QED
    BY <2>1, <2>2
<1>8. CASE Confirm
  <2>1. CancelTimer /\ UNCHANGED <<engaged, doing, todo, deadman>>
        /\ confirmed' \in BOOLEAN /\ cut' \in BOOLEAN
    BY <1>8 DEF Confirm, TypeOK
  <2> QED
    BY <1>6, <2>1 DEF TypeOK
<1>9. ASSUME NEW o \in Operators, CancelCall(o) PROVE TypeOK'
  <2>1. Head(todo[o]) \in Commands
    BY <1>9, HeadAndTail DEF CancelCall, TypeOK
  <2>2. policy' \in {"accept", "drop"} /\ chain' \in SUBSET Exemptions /\ live' \in BOOLEAN
    BY <1>9, <2>1, CommandTyped DEF CancelCall
  <2> QED
    BY <1>9, <2>2 DEF CancelCall, TypeOK
<1>10. ASSUME NEW o \in Operators, TimerFires(o) PROVE TypeOK'
  BY <1>10, PlansTyped DEF TimerFires, TypeOK
<1>11. ASSUME NEW o \in Operators, TimerStep(o) PROVE TypeOK'
  <2>1. Head(rolling[o]) \in Commands /\ Tail(rolling[o]) \in Seq(Commands)
        /\ (Tail(rolling[o]) = <<>> <=> Len(rolling[o]) = 1)
    BY <1>11, HeadAndTail DEF TimerStep, TypeOK
  <2>2. policy' \in {"accept", "drop"} /\ chain' \in SUBSET Exemptions /\ live' \in BOOLEAN
    BY <1>11, <2>1, CommandTyped DEF TimerStep
  <2> QED
    BY <1>11, <2>1, <2>2 DEF TimerStep, Disengage, TypeOK
<1> QED
  BY <1>1, <1>2, <1>3, <1>4, <1>5, <1>7, <1>8, <1>9, <1>10, <1>11
     DEF Next, CallStep, TimerTask

\* Every variable keeps its type, and a call or timer has commands left exactly
\* while it runs, with any number of operators and whatever fails.
THEOREM SwitchTypes == Spec => []TypeOK
<1>1. ASSUME Init PROVE TypeOK /\ NoTimerYet
  <2>1. <<>> \in Seq(Commands)
    OBVIOUS
  <2>2. /\ todo \in [Operators -> Seq(Commands)] /\ rolling \in [Operators -> Seq(Commands)]
        /\ \A o \in Operators : todo[o] = <<>> /\ rolling[o] = <<>>
    BY <1>1, <2>1 DEF Init
  <2>3. /\ doing \in [Operators -> {"idle", "applying", "undoing", "releasing"}]
        /\ timer \in [Operators -> {"off", "sleeping", "rolling"}]
        /\ deadman \in [Operators -> BOOLEAN]
        /\ \A o \in Operators : doing[o] = "idle" /\ timer[o] = "off"
    BY <1>1 DEF Init
  <2>4. /\ policy \in {"accept", "drop"} /\ chain \in SUBSET Exemptions /\ live \in BOOLEAN
        /\ engaged \in BOOLEAN /\ confirmed \in BOOLEAN /\ cut \in BOOLEAN
        /\ armed \in Operators \union {Nobody}
    BY <1>1 DEF Init
  <2>5. TypeOK
    BY <2>2, <2>3, <2>4 DEF TypeOK
  <2> QED
    BY <2>3, <2>5 DEF NoTimerYet
<1>2. Init => TypeOK /\ NoTimerYet
  BY <1>1
<1> QED
  BY <1>2, TypesKept, NoTimerYetKept, PTL DEF Spec

-----------------------------------------------------------------------------
(* What a command leaves of the plan and the firewall.                     *)

\* A rule of a plan that ran: what is left is still orderly, and with none left
\* the policy drops.
LEMMA RuleKeepsOrder ==
  ASSUME NEW rest, Orderly(rest, chain), live, Ran(Head(rest))
  PROVE  /\ Len(rest) = 1 => policy' = "drop" /\ chain' = chain /\ Vital \subseteq chain
         /\ Len(rest) # 1 => Orderly(Tail(rest), chain') /\ policy' = policy
         /\ chain \subseteq chain'
<1> DEFINE n    == Len(rest)
           left == Tail(rest)
<1>1. /\ rest \in Seq(Exemptions \union {"drop"}) /\ rest # <<>>
      /\ n \in Nat /\ n # 0 /\ Head(rest) = rest[1] /\ rest[n] = "drop"
      /\ \A i \in 1..n : rest[i] \in Exemptions \union {"drop"}
      /\ \A i \in 1..n : rest[i] = "drop" => i = n
      /\ \A v \in Vital : v \in chain \/ \E i \in 1..n : rest[i] = v
  BY DEF Orderly
<1>2. /\ left \in Seq(Exemptions \union {"drop"}) /\ Len(left) = n - 1
      /\ \A i \in 1..Len(left) : left[i] = rest[i + 1]
  BY <1>1, HeadTailProperties
<1> HIDE DEF n, left
<1>3. "drop" \notin Exemptions /\ "restore" \notin Exemptions /\ "flush" \notin Exemptions
      /\ Vital \subseteq Exemptions
  BY DEF Exemptions, Vital
<1>4. CASE n = 1
  <2>1. Head(rest) = "drop"
    BY <1>1, <1>4
  <2>2. policy' = "drop" /\ chain' = chain
    BY <1>3, <2>1 DEF Ran
  <2>3. Vital \subseteq chain
    BY <1>1, <1>3, <1>4
  <2> QED
    BY <1>4, <2>2, <2>3 DEF n
<1>5. CASE n # 1
  <2>1. rest[1] # "drop" /\ rest[1] \in Exemptions /\ n - 1 \in Nat \ {0}
    <3>1. 1 \in 1..n
      BY <1>1
    <3> QED
      BY <1>1, <1>5, <3>1
  <2>2. policy' = policy /\ chain' = chain \union {rest[1]}
    BY <1>1, <1>3, <2>1 DEF Ran
  <2>3. left # <<>> /\ left[Len(left)] = "drop"
    BY <1>1, <1>2, <2>1
  <2>4. \A i \in 1..Len(left) : left[i] = "drop" => i = Len(left)
    <3>1. ASSUME NEW i \in 1..Len(left), left[i] = "drop"
          PROVE  i = Len(left)
      <4>1. i \in Nat /\ i + 1 \in 1..n /\ left[i] = rest[i + 1]
        BY <1>1, <1>2
      <4>2. i + 1 = n
        BY <1>1, <3>1, <4>1
      <4> QED
        BY <1>2, <4>1, <4>2
    <3> QED
      BY <3>1
  <2>5. ASSUME NEW v \in Vital, v \notin chain'
        PROVE  \E i \in 1..Len(left) : left[i] = v
    <3>1. PICK i \in 1..n : rest[i] = v
      BY <1>1, <2>2, <2>5
    <3>2. i # 1
      BY <2>2, <2>5, <3>1
    <3>3. i - 1 \in 1..(n - 1) /\ (i - 1) + 1 = i
      BY <1>1, <3>2
    <3>4. left[i - 1] = rest[i]
      BY <1>2, <3>3
    <3> QED
      BY <1>2, <3>1, <3>3, <3>4
  <2>6. Orderly(left, chain')
    BY <1>2, <2>3, <2>4, <2>5 DEF Orderly
  <2> QED
    BY <1>5, <2>2, <2>6 DEF left, n
<1> QED
  BY <1>4, <1>5

\* A rule that perhaps ran takes no exemption away from a dropping policy.
LEMMA PerhapsRule ==
  ASSUME NEW rest, live => Orderly(rest, chain), Exempt, Planned, PerhapsRan(Head(rest))
  PROVE  Exempt' /\ Planned'
<1>1. CASE UNCHANGED firewall
  BY <1>1 DEF Exempt, Planned, firewall
<1>2. CASE live /\ Ran(Head(rest))
  <2>1. chain \subseteq chain' /\ (policy' = policy \/ Vital \subseteq chain')
    BY <1>2, RuleKeepsOrder
  <2> QED
    BY <1>2, <2>1 DEF Exempt, Planned, Ran
<1> QED
  BY <1>1, <1>2 DEF PerhapsRan, Ran

\* What a rollback has left is the whole of it or its last command.
LEMMA RollbackShape ==
  ASSUME NEW rest, Undoing(rest, policy)
  PROVE  \/ /\ Head(rest) = "restore" /\ Len(rest) = 2 /\ Tail(rest) = <<"flush">>
         \/ /\ Head(rest) = "flush" /\ Len(rest) = 1 /\ Tail(rest) = <<>>
            /\ policy = "accept"
<1>1. CASE rest = <<"restore", "flush">>
  BY <1>1
<1>2. CASE rest = <<"flush">> /\ policy = "accept"
  BY <1>2
<1> QED
  BY <1>1, <1>2 DEF Undoing, Rollback

\* A command of a rollback opens the policy before the exemptions go.
LEMMA UndoKeeps ==
  ASSUME NEW rest, Undoing(rest, policy), "restore" \notin MayFail, Planned, Undone(Head(rest))
  PROVE  /\ policy' = "accept"
         /\ Len(rest) # 1 => Undoing(Tail(rest), policy')
<1>1. CASE Head(rest) = "restore" /\ Len(rest) = 2 /\ Tail(rest) = <<"flush">>
  <2>1. policy' = "accept"
    BY <1>1 DEF Undone, Ran, Planned, firewall
  <2> QED
    BY <1>1, <2>1 DEF Undoing
<1>2. CASE Head(rest) = "flush" /\ Len(rest) = 1 /\ policy = "accept"
  BY <1>2 DEF Undone, Ran, firewall
<1> QED
  BY <1>1, <1>2, RollbackShape

\* Nor does one that was cut short leave a dropping policy without them.
LEMMA PerhapsUndone ==
  ASSUME NEW rest, Undoing(rest, policy), Exempt, PerhapsRan(Head(rest))
  PROVE  /\ Planned => Planned'
         /\ Exempt' /\ (Head(rest) # "restore" => policy' = "accept")
<1>1. CASE UNCHANGED firewall
  BY <1>1, RollbackShape DEF Exempt, Planned, firewall
<1>2. CASE live /\ Ran(Head(rest))
  BY <1>2, RollbackShape DEF Exempt, Planned, Ran
<1> QED
  BY <1>1, <1>2 DEF PerhapsRan, Ran

-----------------------------------------------------------------------------
(* The switch with one operator at a time.                                 *)

LEMMA SwitchKept == OneAtATime /\ SwitchInv /\ [Next]_vars => SwitchInv'
<1> SUFFICES ASSUME OneAtATime, SwitchInv, [Next]_vars
             PROVE  SwitchInv'
  OBVIOUS
<1> USE DEF firewall, claim, calls, timers
<1>a. TypeOK'
  <2>1. NoTimerYet
    BY DEF SwitchInv, TypeOK, CallsAgree, NoTimerYet
  <2> QED
    BY <2>1, TypesKept DEF SwitchInv
<1>b. SUFFICES CallsAgree' /\ TimersAgree' /\ Exempt' /\ Planned' /\ Truth'
  BY <1>a DEF SwitchInv
<1>c. /\ TypeOK /\ CallsAgree /\ TimersAgree /\ Exempt /\ Planned /\ Truth
      /\ "restore" \notin MayFail
      /\ \A o, p \in Operators : o = p
  BY DEF SwitchInv, OneAtATime
<1>d. Undoing(Rollback, policy) /\ Undoing(Rollback, policy')
  BY DEF Undoing
<1>1. CASE UNCHANGED vars
  <2>1. CallsAgree' /\ TimersAgree'
    BY <1>1, <1>c DEF vars, CallsAgree, TimersAgree, Undoing
  <2> QED
    BY <1>1, <1>c, <2>1 DEF vars, Exempt, Planned, Truth, AtRest
<1>2. ASSUME NEW o \in Operators, NEW endpoint \in BOOLEAN, NEW admin \in BOOLEAN,
             NEW within \in BOOLEAN, Apply(o, BuildPlan(endpoint, admin), within)
      PROVE  CallsAgree' /\ TimersAgree' /\ Exempt' /\ Planned' /\ Truth'
  <2>1. Orderly(BuildPlan(endpoint, admin), chain)
    BY <1>2, PlanIsOrderly DEF Apply
  <2>2. /\ doing'[o] = "applying" /\ todo'[o] = BuildPlan(endpoint, admin)
        /\ timer[o] = "off" /\ ~engaged
        /\ UNCHANGED <<firewall, claim, timers, cut>>
    BY <1>2, <1>c DEF Apply, TypeOK
  <2>a. ~cut => policy = "accept"
    <3>1. AtRest
      BY <1>2, <1>c DEF Apply, AtRest
    <3> QED
      BY <1>c, <2>2, <3>1 DEF Truth, TypeOK
  <2>3. CallsAgree'
    BY <1>c, <2>1, <2>2, <2>a DEF CallsAgree
  <2>4. TimersAgree'
    BY <1>c, <2>2 DEF TimersAgree
  <2>5. Exempt' /\ Planned' /\ Truth'
    BY <1>c, <2>2 DEF Exempt, Planned, Truth, AtRest
  <2> QED
    BY <2>3, <2>4, <2>5
<1>3. ASSUME NEW o \in Operators, RuleRuns(o)
      PROVE  CallsAgree' /\ TimersAgree' /\ Exempt' /\ Planned' /\ Truth'
  <2>1. /\ live => Orderly(todo[o], chain)
        /\ Ran(Head(todo[o])) /\ ~engaged /\ timer[o] = "off" /\ live' = live
        /\ ~live => UNCHANGED <<policy, chain>> /\ policy = "accept"
    BY <1>3, <1>c DEF RuleRuns, CallsAgree, Ran, Planned
  <2>2. /\ todo'[o] = Tail(todo[o]) /\ rolling' = rolling
    BY <1>3, <1>c DEF RuleRuns, TypeOK
  <2>3. CASE Len(todo[o]) = 1
    <3>1. /\ engaged' /\ doing'[o] = "idle"
          /\ live => policy' = "drop" /\ Vital \subseteq chain'
      BY <1>3, <1>c, <2>1, <2>3, RuleKeepsOrder DEF RuleRuns, Engage, TypeOK
    <3>2. (timer'[o] = "sleeping" /\ armed' = o) \/ timer'[o] = "off"
      BY <1>3, <1>c, <2>1, <2>3 DEF RuleRuns, Engage, TypeOK
    <3>3. CallsAgree'
      BY <1>c, <3>1 DEF CallsAgree
    <3>4. TimersAgree'
      BY <1>c, <3>1, <3>2 DEF TimersAgree
    <3>5. Exempt' /\ Planned' /\ Truth'
      BY <2>1, <3>1 DEF Exempt, Planned, Truth
    <3> QED
      BY <3>3, <3>4, <3>5
  <2>4. CASE Len(todo[o]) # 1
    <3>1. /\ live => Orderly(todo'[o], chain')
          /\ policy' = policy /\ chain \subseteq chain'
          /\ UNCHANGED <<claim, doing, armed, timer, cut>>
      BY <1>3, <2>1, <2>2, <2>4, RuleKeepsOrder DEF RuleRuns
    <3>2. doing[o] = "applying"
      BY <1>3 DEF RuleRuns
    <3>3. CallsAgree'
      BY <1>c, <2>1, <3>1, <3>2 DEF CallsAgree
    <3>4. TimersAgree'
      BY <1>c, <2>1, <3>1 DEF TimersAgree
    <3>5. Exempt' /\ Planned' /\ Truth'
      BY <1>c, <2>1, <3>1, <3>2 DEF Exempt, Planned, Truth, AtRest
    <3> QED
      BY <3>3, <3>4, <3>5
  <2> QED
    BY <2>3, <2>4
<1>4. ASSUME NEW o \in Operators, RuleFails(o)
      PROVE  CallsAgree' /\ TimersAgree' /\ Exempt' /\ Planned' /\ Truth'
  <2>1. (live => Orderly(todo[o], chain)) /\ ~engaged /\ timer[o] = "off"
    BY <1>4, <1>c DEF RuleFails, CallsAgree
  <2>2. /\ doing'[o] = "undoing" /\ todo'[o] = Rollback
        /\ UNCHANGED <<claim, timers>>
    BY <1>4, <1>c DEF RuleFails, TypeOK
  <2>3. Exempt' /\ Planned'
    BY <1>4, <1>c, <2>1, PerhapsRule DEF RuleFails
  <2>4. CallsAgree'
    BY <1>c, <1>d, <2>1, <2>2 DEF CallsAgree
  <2>5. TimersAgree'
    BY <1>c, <2>1, <2>2 DEF TimersAgree
  <2>6. Truth'
    BY <2>2 DEF Truth, AtRest
  <2> QED
    BY <2>3, <2>4, <2>5, <2>6
<1>5. ASSUME NEW o \in Operators, UndoStep(o)
      PROVE  CallsAgree' /\ TimersAgree' /\ Exempt' /\ Planned' /\ Truth'
  <2>1. /\ Undoing(todo[o], policy) /\ Undone(Head(todo[o])) /\ timer[o] = "off"
        /\ doing[o] \in {"undoing", "releasing"}
        /\ doing[o] = "undoing" => ~engaged
        /\ doing[o] = "releasing" => engaged
    BY <1>5, <1>c DEF UndoStep, CallsAgree
  <2>2. policy' = "accept" /\ (Len(todo[o]) # 1 => Undoing(Tail(todo[o]), policy'))
    BY <1>c, <2>1, UndoKeeps
  <2>a. Planned'
    BY <2>2 DEF Planned
  <2>3. todo'[o] = Tail(todo[o]) /\ timer' = timer /\ armed' = armed /\ rolling' = rolling
    BY <1>5, <1>c DEF UndoStep, TypeOK
  <2>4. Exempt'
    BY <2>2 DEF Exempt
  <2>5. TimersAgree'
    BY <1>c, <2>1, <2>3 DEF TimersAgree
  <2>6. CASE Len(todo[o]) = 1
    <3>1. doing'[o] = "idle" /\ ~engaged'
      BY <1>5, <1>c, <2>1, <2>6 DEF UndoStep, Disengage, TypeOK
    <3>2. CallsAgree'
      BY <1>c, <3>1 DEF CallsAgree
    <3> QED
      BY <2>2, <2>4, <2>5, <2>a, <3>1, <3>2 DEF Truth
  <2>7. CASE Len(todo[o]) # 1
    <3>1. UNCHANGED <<doing, claim>>
      BY <1>5, <2>7 DEF UndoStep
    <3>2. Undoing(todo'[o], policy')
      BY <2>2, <2>3, <2>7 DEF Undoing
    <3>3. CallsAgree'
      BY <1>c, <2>1, <2>3, <3>1, <3>2 DEF CallsAgree
    <3>4. Truth'
      BY <2>1, <3>1 DEF Truth, AtRest
    <3> QED
      BY <2>4, <2>5, <2>a, <3>3, <3>4
  <2> QED
    BY <2>6, <2>7
<1>6. ASSUME CancelTimer
      PROVE  /\ \A o \in Operators : timer'[o] = "off"
             /\ Exempt' /\ Planned' /\ live' = live
             /\ \A o \in Operators : timer[o] # "rolling" => UNCHANGED firewall
  <2>1. CASE \E o \in Operators : timer[o] # "off"
    <3>1. PICK o \in Operators : timer[o] # "off"
      BY <2>1
    <3>2. armed = o /\ armed # Nobody
      BY <1>c, <3>1, KillSwitchAssumption DEF TimersAgree
    <3>3. timer'[o] = "off"
      BY <1>6, <1>c, <3>2 DEF CancelTimer, TypeOK
    <3>4. CASE timer[o] = "rolling"
      <4>1. Undoing(rolling[o], policy) /\ PerhapsRan(Head(rolling[o]))
        BY <1>6, <1>c, <3>2, <3>4 DEF CancelTimer, TimersAgree
      <4>2. Exempt' /\ Planned' /\ live' = live
        BY <1>c, <4>1, PerhapsUndone DEF PerhapsRan, Ran
      <4> QED
        BY <1>c, <3>3, <3>4, <4>2
    <3>5. CASE timer[o] # "rolling"
      <4>1. UNCHANGED firewall
        BY <1>6, <3>2, <3>5 DEF CancelTimer
      <4> QED
        BY <1>c, <3>3, <4>1 DEF Exempt, Planned
    <3> QED
      BY <3>4, <3>5
  <2>2. CASE \A o \in Operators : timer[o] = "off"
    <3>1. UNCHANGED firewall
      BY <1>6, <1>c, <2>2 DEF CancelTimer, TypeOK
    <3>2. \A o \in Operators : timer'[o] = "off"
      BY <1>6, <1>c, <2>2 DEF CancelTimer, TypeOK
    <3> QED
      BY <1>c, <3>1, <3>2 DEF Exempt, Planned
  <2> QED
    BY <2>1, <2>2
<1>7. ASSUME NEW o \in Operators, Release(o)
      PROVE  CallsAgree' /\ TimersAgree' /\ Exempt' /\ Planned' /\ Truth'
  <2>1. Exempt' /\ Planned' /\ timer'[o] = "off" /\ (timer[o] # "rolling" => UNCHANGED firewall)
    BY <1>6, <1>7 DEF Release
  <2>2. TimersAgree'
    BY <1>c, <2>1 DEF TimersAgree
  <2>3. CASE engaged
    <3>1. doing'[o] = "releasing" /\ todo'[o] = Rollback /\ engaged'
      BY <1>7, <1>c, <2>3 DEF Release, TypeOK
    <3>2. CallsAgree'
      BY <1>c, <1>d, <2>1, <3>1 DEF CallsAgree
    <3> QED
      BY <2>1, <2>2, <3>1, <3>2 DEF Truth, AtRest
  <2>4. CASE ~engaged
    <3>1. doing' = doing /\ doing[o] = "idle" /\ ~engaged' /\ cut' = cut
      BY <1>7, <2>4 DEF Release, Disengage
    <3>2. timer[o] = "off" /\ policy' = policy
      BY <1>c, <2>1, <2>4 DEF TimersAgree
    <3>3. CallsAgree'
      BY <1>c, <3>1, <3>2 DEF CallsAgree
    <3>4. Truth'
      BY <1>c, <2>4, <3>1, <3>2 DEF Truth, AtRest
    <3> QED
      BY <2>1, <2>2, <3>3, <3>4
  <2> QED
    BY <2>3, <2>4
<1>8. ASSUME Confirm
      PROVE  CallsAgree' /\ TimersAgree' /\ Exempt' /\ Planned' /\ Truth'
  <2>1. /\ Exempt' /\ Planned' /\ live' = live
        /\ \A o \in Operators : timer'[o] = "off" /\ (timer[o] # "rolling" => UNCHANGED firewall)
    BY <1>6, <1>8 DEF Confirm
  <2>2. engaged /\ engaged' /\ UNCHANGED calls
    BY <1>8 DEF Confirm
  <2>3. TimersAgree'
    BY <2>1 DEF TimersAgree
  <2>4. CallsAgree'
    <3> SUFFICES ASSUME NEW o \in Operators
                 PROVE  /\ doing[o] \notin {"applying", "undoing"}
                        /\ doing[o] = "releasing" => Undoing(todo'[o], policy')
      BY <2>1, <2>2 DEF CallsAgree
    <3>1. CASE doing[o] = "releasing"
      <4>1. Undoing(todo[o], policy) /\ timer[o] = "off"
        BY <1>c, <3>1 DEF CallsAgree
      <4> QED
        BY <2>1, <2>2, <3>1, <4>1 DEF Undoing
    <3>2. CASE doing[o] # "releasing"
      BY <1>c, <2>2, <3>2 DEF CallsAgree
    <3> QED
      BY <3>1, <3>2
  <2>5. Truth'
    <3> SUFFICES ASSUME AtRest', ~cut' PROVE live <=> policy' = "drop"
      BY <2>1, <2>2 DEF Truth
    <3>1. CASE \E o \in Operators : timer[o] = "rolling"
      <4>1. PICK o \in Operators : timer[o] = "rolling"
        BY <3>1
      <4>2. armed = o /\ armed # Nobody
        BY <1>c, <4>1, KillSwitchAssumption DEF TimersAgree
      <4> QED
        BY <1>8, <4>1, <4>2 DEF Confirm
    <3>2. CASE \A o \in Operators : timer[o] # "rolling"
      <4>1. AtRest /\ ~cut
        BY <1>8, <2>2, <3>2 DEF AtRest, Confirm
      <4>2. live <=> policy = "drop"
        BY <1>c, <2>2, <4>1 DEF Truth
      <4>3. CASE Operators = {}
        BY <1>8, <1>c, <4>2, <4>3 DEF Confirm, CancelTimer, TypeOK
      <4>4. CASE Operators # {}
        BY <2>1, <3>2, <4>2, <4>4
      <4> QED
        BY <4>3, <4>4
    <3> QED
      BY <3>1, <3>2
  <2> QED
    BY <2>1, <2>3, <2>4, <2>5
<1>9. ASSUME NEW o \in Operators, CancelCall(o)
      PROVE  CallsAgree' /\ TimersAgree' /\ Exempt' /\ Planned' /\ Truth'
  <2>1. /\ doing'[o] = "idle" /\ UNCHANGED <<claim, timers>> /\ timer[o] = "off"
        /\ cut' = (cut \/ doing[o] = "releasing" \/ Head(todo[o]) \in {"drop", "restore"})
        /\ PerhapsRan(Head(todo[o])) /\ doing[o] \in {"applying", "undoing", "releasing"}
    BY <1>9, <1>c DEF CancelCall, CallsAgree, TypeOK
  <2>2. CallsAgree' /\ TimersAgree'
    BY <1>c, <2>1 DEF CallsAgree, TimersAgree
  <2>3. CASE doing[o] = "applying"
    <3>1. Exempt' /\ Planned' /\ ~engaged'
      BY <1>c, <2>1, <2>3, PerhapsRule DEF CallsAgree
    <3>2. ~cut' => policy' = "accept"
      BY <1>c, <2>1, <2>3 DEF CallsAgree, PerhapsRan, Ran
    <3> QED
      BY <2>2, <3>1, <3>2 DEF Truth
  <2>4. CASE doing[o] \in {"undoing", "releasing"}
    <3>1. Exempt' /\ Planned' /\ (Head(todo[o]) # "restore" => policy' = "accept")
      BY <1>c, <2>1, <2>4, PerhapsUndone DEF CallsAgree
    <3>2. ~cut' => ~engaged' /\ policy' = "accept"
      BY <1>c, <2>1, <2>4, <3>1 DEF CallsAgree
    <3> QED
      BY <2>2, <3>1, <3>2 DEF Truth
  <2> QED
    BY <2>1, <2>3, <2>4
<1>10. ASSUME NEW o \in Operators, TimerFires(o)
       PROVE  CallsAgree' /\ TimersAgree' /\ Exempt' /\ Planned' /\ Truth'
  <2>1. /\ timer[o] = "sleeping" /\ engaged /\ armed = o /\ doing[o] = "idle"
        /\ UNCHANGED <<firewall, claim, calls, armed, cut>>
    BY <1>10, <1>c DEF TimerFires, TimersAgree, CallsAgree, TypeOK
  <2>2. \/ timer'[o] = "off"
        \/ timer'[o] = "rolling" /\ rolling'[o] = Rollback
    BY <1>10, <1>c DEF TimerFires, TypeOK
  <2>3. TimersAgree'
    BY <1>c, <1>d, <2>1, <2>2 DEF TimersAgree
  <2>4. CallsAgree'
    BY <1>c, <2>1 DEF CallsAgree
  <2>5. Exempt' /\ Planned' /\ Truth'
    BY <1>c, <2>1 DEF Exempt, Planned, Truth, AtRest
  <2> QED
    BY <2>3, <2>4, <2>5
<1>11. ASSUME NEW o \in Operators, TimerStep(o)
       PROVE  CallsAgree' /\ TimersAgree' /\ Exempt' /\ Planned' /\ Truth'
  <2>1. /\ timer[o] = "rolling" /\ engaged /\ armed = o /\ doing[o] = "idle"
        /\ Undoing(rolling[o], policy) /\ Undone(Head(rolling[o]))
        /\ UNCHANGED <<armed, calls>> /\ rolling'[o] = Tail(rolling[o])
    BY <1>11, <1>c DEF TimerStep, TimersAgree, CallsAgree, TypeOK
  <2>2. policy' = "accept" /\ (Len(rolling[o]) # 1 => Undoing(Tail(rolling[o]), policy'))
    BY <1>c, <2>1, UndoKeeps
  <2>3. CallsAgree'
    BY <1>c, <2>1 DEF CallsAgree
  <2>4. CASE Len(rolling[o]) = 1
    <3>1. timer'[o] = "off" /\ ~engaged'
      BY <1>11, <1>c, <2>4 DEF TimerStep, Disengage, TypeOK
    <3>2. TimersAgree'
      BY <1>c, <3>1 DEF TimersAgree
    <3> QED
      BY <2>2, <2>3, <3>1, <3>2 DEF Exempt, Planned, Truth
  <2>5. CASE Len(rolling[o]) # 1
    <3>1. UNCHANGED <<timer, claim, cut>>
      BY <1>11, <2>5 DEF TimerStep
    <3>2. Undoing(rolling'[o], policy')
      BY <2>1, <2>2, <2>5 DEF Undoing
    <3>3. TimersAgree'
      BY <1>c, <2>1, <3>1, <3>2 DEF TimersAgree
    <3> QED
      BY <2>1, <2>2, <2>3, <3>1, <3>3 DEF Exempt, Planned, Truth, AtRest
  <2> QED
    BY <2>4, <2>5
<1> QED
  BY <1>1, <1>2, <1>3, <1>4, <1>5, <1>7, <1>8, <1>9, <1>10, <1>11
     DEF Next, CallStep, TimerTask

LEMMA SwitchAlways == Spec => [](OneAtATime => SwitchInv)
<1>1. Init => (OneAtATime => SwitchInv)
  <2> SUFFICES ASSUME Init PROVE SwitchInv
    OBVIOUS
  <2>1. <<>> \in Seq(Commands)
    OBVIOUS
  <2>2. TypeOK
    BY <2>1 DEF Init, TypeOK
  <2>3. CallsAgree /\ TimersAgree /\ Exempt /\ Planned /\ Truth
    BY DEF Init, CallsAgree, TimersAgree, Exempt, Planned, Truth
  <2> QED
    BY <2>2, <2>3 DEF SwitchInv
<1>2. (OneAtATime => SwitchInv) /\ [Next]_vars => (OneAtATime => SwitchInv)'
  BY SwitchKept DEF OneAtATime
<1> QED
  BY <1>1, <1>2, PTL DEF Spec

\* While the policy drops, everything the guard wants preserved is exempt, for
\* every plan, cancellation, rollback and confirmation and every failure but one
\* of the command that restores the policy, with one operator at a time.
THEOREM ExemptWhileDroppingHolds == Spec => []ExemptWhileDropping
<1>1. (OneAtATime => SwitchInv) => ExemptWhileDropping
  BY DEF SwitchInv, Exempt, ExemptWhileDropping
<1> QED
  BY <1>1, SwitchAlways, PTL

\* With one operator and a policy that can be restored, at rest an engaged switch
\* of a live runner drops and a disengaged one does not, unless a call was
\* cancelled at a command that sets the policy or in a release(), or confirm()
\* ended a rollback.  Under the dry runner nothing drops, engaged or not.
THEOREM StateTellsTruthHolds == Spec => []StateTellsTruth
<1>1. (OneAtATime => SwitchInv) => StateTellsTruth
  BY DEF SwitchInv, Truth, StateTellsTruth
<1> QED
  BY <1>1, SwitchAlways, PTL

-----------------------------------------------------------------------------
(* The dashboard.  What a client has rendered and has still to render is a *)
(* fold of its frames.                                                     *)

Pictures == [killswitch : BOOLEAN, tunnel : BOOLEAN]
Frames   == {"killswitch", "tunnel"} \X BOOLEAN

\* The intermediate pictures of Seen.
Renders(picture, frames, g) ==
  g = [i \in 0..Len(frames) |->
         IF i = 0 THEN picture ELSE Rendered(g[i - 1], frames[i])]

LEMMA RenderedTyped ==
  ASSUME NEW p \in Pictures, NEW e \in Frames
  PROVE  Rendered(p, e) \in Pictures
<1>1. PICK kind \in {"killswitch", "tunnel"}, value \in BOOLEAN : e = <<kind, value>>
  BY DEF Frames
<1>2. Rendered(p, e) = [p EXCEPT ![kind] = value]
  BY <1>1 DEF Rendered
<1>3. CASE kind = "killswitch"
  BY <1>2, <1>3 DEF Pictures
<1>4. CASE kind = "tunnel"
  BY <1>2, <1>4 DEF Pictures
<1> QED
  BY <1>3, <1>4

\* The function Seen is defined by exists, and takes a step for every frame.
LEMMA RenderSteps ==
  ASSUME NEW p \in Pictures, NEW f \in Seq(Frames)
  PROVE  \E g : /\ Seen(p, f) = g[Len(f)]
                /\ g \in [0..Len(f) -> Pictures] /\ g[0] = p
                /\ \A i \in 1..Len(f) : g[i] = Rendered(g[i - 1], f[i])
<1> DEFINE F == [e \in Frames |-> [q \in Pictures |-> Rendered(q, e)]]
<1>1. F \in [Frames -> [Pictures -> Pictures]]
  BY RenderedTyped
<1>2. \A e \in Frames, q \in Pictures : F[e][q] = Rendered(q, e)
  OBVIOUS
<1>3. \A i \in 1..Len(f) : f[i] \in Frames
  OBVIOUS
<1>4. \A i \in 1..Len(f) : i - 1 \in 0..Len(f) /\ i \in 0..Len(f) /\ i # 0
  OBVIOUS
<1>5. 0 \in 0..Len(f) /\ Len(f) \in 0..Len(f) /\ \A i \in 0..Len(f) : i # 0 => i \in 1..Len(f)
  OBVIOUS
<1> HIDE DEF F
<1>a. \E g \in [0..Len(f) -> Pictures] :
        g[0] = p /\ \A i \in 1..Len(f) : g[i] = F[f[i]][g[i - 1]]
  <2>1. ASSUME NEW G \in [Frames -> [Pictures -> Pictures]]
        PROVE  \E g \in [0..Len(f) -> Pictures] :
                 g[0] = p /\ \A i \in 1..Len(f) : g[i] = G[f[i]][g[i - 1]]
    BY FoldExists
  <2> QED
    BY <1>1, <2>1
<1>6. \E g : Renders(p, f, g)
  <2>1. PICK g \in [0..Len(f) -> Pictures] :
          g[0] = p /\ \A i \in 1..Len(f) : g[i] = F[f[i]][g[i - 1]]
    BY <1>a
  <2>2. \A i \in 0..Len(f) : g[i] = IF i = 0 THEN p ELSE Rendered(g[i - 1], f[i])
    <3> SUFFICES ASSUME NEW i \in 0..Len(f), i # 0 PROVE g[i] = Rendered(g[i - 1], f[i])
      BY <2>1
    <3>1. i \in 1..Len(f) /\ g[i - 1] \in Pictures /\ f[i] \in Frames
      BY <1>3, <1>4, <1>5
    <3>2. F[f[i]][g[i - 1]] = Rendered(g[i - 1], f[i])
      BY <1>2, <3>1
    <3> QED
      BY <2>1, <3>1, <3>2
  <2> QED
    BY <2>2 DEF Renders
<1> DEFINE g == CHOOSE h : Renders(p, f, h)
<1>7. Renders(p, f, g)
  BY <1>6
<1>8. Seen(p, f) = g[Len(f)]
  BY Zenon DEF Seen, Renders
<1> HIDE DEF g
<1>9. \A i \in 0..Len(f) : g[i] = IF i = 0 THEN p ELSE Rendered(g[i - 1], f[i])
  BY <1>7, Zenon DEF Renders
<1>10. /\ g[0] = p
       /\ \A i \in 1..Len(f) : g[i] = Rendered(g[i - 1], f[i])
  BY <1>4, <1>5, <1>9, Zenon
<1>11. \A i \in 0..Len(f) : g[i] \in Pictures
  <2>1. PICK h \in [0..Len(f) -> Pictures] :
          h[0] = p /\ \A i \in 1..Len(f) : h[i] = F[f[i]][h[i - 1]]
    BY <1>a
  <2>2. ASSUME NEW i \in 1..Len(f), g[i - 1] = h[i - 1] PROVE g[i] = h[i]
    <3>1. h[i - 1] \in Pictures /\ f[i] \in Frames
      BY <1>3, <1>4
    <3>2. F[f[i]][h[i - 1]] = Rendered(h[i - 1], f[i])
      BY <1>2, <3>1
    <3> QED
      BY <1>10, <2>1, <2>2, <3>2
  <2>3. Len(f) \in Nat /\ g[0] = h[0]
    BY <1>10, <2>1
  <2>4. \A i \in 0..Len(f) : g[i] = h[i]
    BY <2>2, <2>3, SameSteps
  <2> QED
    BY <2>4
<1>12. g \in [0..Len(f) -> Pictures]
  <2>1. g = [i \in 0..Len(f) |-> IF i = 0 THEN p ELSE Rendered(g[i - 1], f[i])]
    BY <1>7, Zenon DEF Renders
  <2>2. g = [i \in 0..Len(f) |-> g[i]]
    BY <1>9, <2>1
  <2> QED
    BY <1>11, <2>2
<1> QED
  BY <1>8, <1>10, <1>12

LEMMA SeenEmpty ==
  ASSUME NEW p \in Pictures PROVE Seen(p, <<>>) = p
<1> DEFINE none == <<>>
<1>1. none \in Seq(Frames) /\ Len(none) = 0
  OBVIOUS
<1> HIDE DEF none
<1>2. PICK g : /\ Seen(p, none) = g[Len(none)]
               /\ g \in [0..Len(none) -> Pictures] /\ g[0] = p
               /\ \A i \in 1..Len(none) : g[i] = Rendered(g[i - 1], none[i])
  BY <1>1, RenderSteps
<1> QED
  BY <1>1, <1>2 DEF none

LEMMA SeenTyped ==
  ASSUME NEW p \in Pictures, NEW f \in Seq(Frames) PROVE Seen(p, f) \in Pictures
<1>1. Len(f) \in 0..Len(f)
  OBVIOUS
<1> QED
  BY <1>1, RenderSteps

\* A frame that is queued is rendered last,
LEMMA SeenAppend ==
  ASSUME NEW p \in Pictures, NEW f \in Seq(Frames), NEW e \in Frames
  PROVE  Seen(p, Append(f, e)) = Rendered(Seen(p, f), e)
<1> DEFINE q == Append(f, e)
           n == Len(f)
<1>1. /\ q \in Seq(Frames) /\ Len(q) = n + 1 /\ q[n + 1] = e /\ n \in Nat
      /\ \A i \in 1..n : q[i] = f[i] /\ i \in 1..(n + 1)
      /\ n + 1 \in 1..(n + 1) /\ (n + 1) - 1 = n /\ n \in 0..n
  OBVIOUS
<1> HIDE DEF q, n
<1>2. PICK g : /\ Seen(p, f) = g[n] /\ g[0] = p
               /\ \A i \in 1..n : g[i] = Rendered(g[i - 1], f[i])
  BY RenderSteps DEF n
<1>3. PICK h : /\ Seen(p, q) = h[n + 1] /\ h[0] = p
               /\ \A i \in 1..(n + 1) : h[i] = Rendered(h[i - 1], q[i])
  <2>1. PICK h : /\ Seen(p, q) = h[Len(q)] /\ h[0] = p
                 /\ \A i \in 1..Len(q) : h[i] = Rendered(h[i - 1], q[i])
    BY <1>1, RenderSteps
  <2> QED
    BY <1>1, <2>1
<1>4. \A i \in 1..n : g[i - 1] = h[i - 1] => g[i] = h[i]
  BY <1>1, <1>2, <1>3
<1>5. g[n] = h[n]
  <2>1. \A i \in 0..n : g[i] = h[i]
    <3>1. n \in Nat /\ g[0] = h[0]
      BY <1>1, <1>2, <1>3
    <3> QED
      BY <1>4, <3>1, SameSteps
  <2> QED
    BY <1>1, <2>1
<1>6. h[n + 1] = Rendered(h[n], e)
  BY <1>1, <1>3
<1> QED
  BY <1>2, <1>3, <1>5, <1>6 DEF q

\* and the first one may be rendered already.
LEMMA SeenTail ==
  ASSUME NEW p \in Pictures, NEW f \in Seq(Frames), f # <<>>
  PROVE  Seen(Rendered(p, Head(f)), Tail(f)) = Seen(p, f)
<1> DEFINE T == {q \in Seq(Frames) : q # <<>> => Seen(Rendered(p, Head(q)), Tail(q)) = Seen(p, q)}
<1>1. <<>> \in T
  OBVIOUS
<1>2. ASSUME NEW q \in Seq(Frames), NEW e \in Frames, q \in T PROVE Append(q, e) \in T
  <2> SUFFICES Seen(Rendered(p, Head(Append(q, e))), Tail(Append(q, e))) = Seen(p, Append(q, e))
    OBVIOUS
  <2>1. CASE q = <<>>
    <3>1. Head(Append(q, e)) = e /\ Tail(Append(q, e)) = <<>>
      BY <2>1
    <3>2. Seen(Rendered(p, e), <<>>) = Rendered(p, e)
      BY RenderedTyped, SeenEmpty
    <3>3. Seen(p, Append(q, e)) = Rendered(p, e)
      BY <2>1, SeenAppend, SeenEmpty
    <3> QED
      BY <3>1, <3>2, <3>3
  <2>2. CASE q # <<>>
    <3>1. /\ Head(Append(q, e)) = Head(q) /\ Tail(Append(q, e)) = Append(Tail(q), e)
          /\ Head(q) \in Frames /\ Tail(q) \in Seq(Frames)
      BY <2>2
    <3>2. Rendered(p, Head(q)) \in Pictures
      BY <3>1, RenderedTyped
    <3>3. Seen(Rendered(p, Head(q)), Append(Tail(q), e))
            = Rendered(Seen(Rendered(p, Head(q)), Tail(q)), e)
      BY <3>1, <3>2, SeenAppend
    <3>4. Seen(Rendered(p, Head(q)), Tail(q)) = Seen(p, q)
      BY <1>2, <2>2
    <3>5. Seen(p, Append(q, e)) = Rendered(Seen(p, q), e)
      BY SeenAppend
    <3> QED
      BY <3>1, <3>3, <3>4, <3>5
  <2> QED
    BY <2>1, <2>2
<1> HIDE DEF T
<1>3. Seq(Frames) \subseteq T
  BY <1>1, <1>2, SequenceInduction
<1> QED
  BY <1>3 DEF T

DashTypes ==
  /\ served \in BOOLEAN /\ shown \in Pictures
  /\ socket \in [Clients -> {"off", "on", "gone"}]
  /\ inbox \in [Clients -> Seq(Frames)] /\ view \in [Clients -> Pictures]

\* Nobody listens to a switch without a dashboard.
Unserved == ~served => \A c \in Clients : socket[c] = "off"

\* The projection of a dashboard follows the state of its switch.
ShownIsSwitch == served => shown.killswitch = engaged

\* What a client shows comes to the projection, unless a frame was dropped.
UpToDate ==
  \A c \in Clients : socket[c] = "on" /\ c \notin lost => Seen(view[c], inbox[c]) = shown

DashInv == DashTypes /\ Unserved /\ ShownIsSwitch /\ UpToDate

LEMMA DashInitially == DashInit => DashInv
<1> SUFFICES ASSUME DashInit PROVE DashInv
  OBVIOUS
<1>1. shown \in Pictures /\ <<>> \in Seq(Frames)
  <2>1. shown = [killswitch |-> FALSE, tunnel |-> FALSE]
    BY DEF DashInit
  <2> QED
    BY <2>1 DEF Pictures
<1>2. DashTypes
  BY <1>1 DEF DashInit, DashTypes
<1> QED
  BY <1>2 DEF DashInit, Init, DashInv, Unserved, ShownIsSwitch, UpToDate

\* A projection that is published reaches every client, or drops a frame of it.
LEMMA ShowKeeps ==
  ASSUME DashTypes, UpToDate, UNCHANGED served,
         NEW kind \in {"killswitch", "tunnel"}, NEW value \in BOOLEAN, Show(kind, value)
  PROVE  DashTypes' /\ UpToDate'
<1> DEFINE e == <<kind, value>>
<1>1. e \in Frames
  BY DEF Frames
<1>2. shown' = Rendered(shown, e) /\ UNCHANGED <<socket, view>>
  BY DEF Show, Rendered
<1>3. \A c \in Clients : inbox[c] \in Seq(Frames) /\ view[c] \in Pictures
  BY DEF DashTypes
<1>4. inbox' \in [Clients -> Seq(Frames)]
  <2>1. \A c \in Clients : inbox'[c] \in {Append(inbox[c], e), inbox[c]}
    BY DEF Show
  <2>2. \A c \in Clients : Append(inbox[c], e) \in Seq(Frames)
    BY <1>1, <1>3
  <2> HIDE DEF e
  <2>3. \A c \in Clients : inbox'[c] \in Seq(Frames)
    BY <1>3, <2>1, <2>2
  <2>4. inbox' = [c \in Clients |-> inbox'[c]]
    BY DEF Show
  <2> QED
    BY <2>3, <2>4
<1> HIDE DEF e
<1>5. shown' \in Pictures
  BY <1>1, <1>2, RenderedTyped DEF DashTypes
<1>6. ASSUME NEW c \in Clients, socket'[c] = "on", c \notin lost'
      PROVE  Seen(view'[c], inbox'[c]) = shown'
  <2>1. c \in Subscribed /\ ~Full(c) /\ c \notin lost
    BY <1>2, <1>6 DEF Show, Subscribed
  <2>2. inbox'[c] = Append(inbox[c], e)
    BY <2>1 DEF Show, e
  <2>3. Seen(view[c], inbox[c]) = shown
    BY <1>2, <1>6, <2>1 DEF UpToDate
  <2>4. Seen(view[c], Append(inbox[c], e)) = Rendered(shown, e)
    BY <1>1, <1>3, <2>3, SeenAppend
  <2> QED
    BY <1>2, <2>2, <2>4
<1> QED
  BY <1>2, <1>4, <1>5, <1>6 DEF DashTypes, UpToDate

\* So does what a socket does.
LEMMA SocketKeeps ==
  ASSUME DashInv, UNCHANGED served, served, NEW c \in Clients,
         Attach(c) \/ Deliver(c) \/ Leave(c) \/ Unsubscribe(c)
  PROVE  DashTypes' /\ UpToDate' /\ UNCHANGED shown
<1> USE DEF DashInv
<1>1. CASE Attach(c)
  <2>1. <<>> \in Seq(Frames)
    OBVIOUS
  <2>2. DashTypes' /\ UNCHANGED shown
    BY <1>1, <2>1 DEF Attach, DashTypes
  <2>3. Seen(shown, <<>>) = shown
    BY SeenEmpty DEF DashTypes
  <2>4. view'[c] = shown /\ inbox'[c] = <<>>
    BY <1>1 DEF Attach, DashTypes
  <2>5. \A d \in Clients \ {c} : /\ view'[d] = view[d] /\ inbox'[d] = inbox[d]
                                 /\ socket'[d] = socket[d] /\ (d \in lost' <=> d \in lost)
    BY <1>1 DEF Attach, DashTypes
  <2> QED
    BY <2>2, <2>3, <2>4, <2>5 DEF UpToDate
<1>2. CASE Deliver(c)
  <2> DEFINE f == inbox[c]
  <2>1. f \in Seq(Frames) /\ f # <<>> /\ view[c] \in Pictures
    BY <1>2 DEF Deliver, DashTypes
  <2>2. Head(f) \in Frames /\ Tail(f) \in Seq(Frames)
    BY <2>1
  <2>3. view'[c] = Rendered(view[c], Head(f)) /\ inbox'[c] = Tail(f)
    BY <1>2 DEF Deliver, DashTypes
  <2>4. \A d \in Clients \ {c} : view'[d] = view[d] /\ inbox'[d] = inbox[d]
    BY <1>2 DEF Deliver, DashTypes
  <2>5. UNCHANGED <<shown, socket, lost>>
    BY <1>2 DEF Deliver
  <2>6. Seen(view'[c], inbox'[c]) = Seen(view[c], f)
    BY <2>1, <2>3, SeenTail
  <2>7. DashTypes'
    <3>1. Rendered(view[c], Head(f)) \in Pictures
      BY <2>1, <2>2, RenderedTyped
    <3>2. view' = [view EXCEPT ![c] = Rendered(view[c], Head(f))] /\ inbox' = [inbox EXCEPT ![c] = Tail(f)]
      BY <1>2 DEF Deliver
    <3> HIDE DEF f
    <3> QED
      BY <2>2, <2>5, <3>1, <3>2 DEF DashTypes
  <2> QED
    BY <2>4, <2>5, <2>6, <2>7 DEF UpToDate
<1>3. CASE Leave(c)
  BY <1>3 DEF Leave, DashTypes, UpToDate
<1>4. CASE Unsubscribe(c)
  <2>1. <<>> \in Seq(Frames)
    OBVIOUS
  <2>2. DashTypes' /\ UNCHANGED shown
    BY <1>4, <2>1 DEF Unsubscribe, DashTypes
  <2>3. socket'[c] = "off"
    BY <1>4 DEF Unsubscribe, DashTypes
  <2>4. \A d \in Clients \ {c} : /\ view'[d] = view[d] /\ inbox'[d] = inbox[d]
                                 /\ socket'[d] = socket[d] /\ (d \in lost' <=> d \in lost)
    BY <1>4 DEF Unsubscribe, DashTypes
  <2> QED
    BY <2>2, <2>3, <2>4 DEF UpToDate
<1> QED
  BY <1>1, <1>2, <1>3, <1>4

\* A handler that ends shows what its call left of the claim; one that goes on,
\* or whose plan failed, has not changed it.
LEMMA HandlerKeeps ==
  ASSUME TypeOK, DashInv, UNCHANGED served, served, NEW o \in Operators,
         CallStep(o) \/ Release(o), Reported(o), engaged' \in BOOLEAN
  PROVE  DashTypes' /\ UpToDate' /\ shown'.killswitch = engaged'
<1>1. CASE doing'[o] = "idle" /\ doing[o] # "undoing"
  <2>1. Show("killswitch", engaged')
    BY <1>1 DEF Reported
  <2>2. shown'.killswitch = engaged'
    BY <2>1 DEF Show, DashInv, DashTypes, Pictures
  <2> QED
    BY <2>1, <2>2, ShowKeeps DEF DashInv
<1>2. CASE ~(doing'[o] = "idle" /\ doing[o] # "undoing")
  <2>1. UNCHANGED web
    BY <1>2 DEF Reported
  <2>2. UNCHANGED engaged
    <3>1. CASE RuleRuns(o)
      BY <1>2, <3>1 DEF RuleRuns, Engage, TypeOK, claim
    <3>2. CASE RuleFails(o)
      BY <3>2 DEF RuleFails, claim
    <3>3. CASE UndoStep(o)
      BY <1>2, <3>3 DEF UndoStep, TypeOK, claim
    <3>4. CASE Release(o)
      BY <1>2, <3>4 DEF Release, TypeOK, claim
    <3> QED
      BY <3>1, <3>2, <3>3, <3>4 DEF CallStep
  <2> QED
    BY <2>1, <2>2 DEF web, DashInv, DashTypes, ShownIsSwitch, UpToDate
<1> QED
  BY <1>1, <1>2

\* Every step of the dashboard is a step of the switch, or leaves it alone.
LEMMA DashboardDrivesSwitch == [DashNext]_dashVars => [Next]_vars
<1> SUFFICES ASSUME DashNext PROVE Next \/ UNCHANGED vars
  BY DEF dashVars
<1>1. ASSUME NEW o \in Operators, Engagement(o) PROVE Next
  <2>1. PICK given, admin \in BOOLEAN : Apply(o, BuildPlan(given \/ shown.tunnel, admin), FALSE)
    BY <1>1 DEF Engagement
  <2>2. (given \/ shown.tunnel) \in BOOLEAN
    OBVIOUS
  <2> QED
    BY <2>1, <2>2 DEF Next
<1>2. ASSUME NEW o \in Operators, HandlerStep(o) \/ ReleaseRequest(o) \/ CancelCall(o) PROVE Next
  BY <1>2 DEF HandlerStep, ReleaseRequest, Next
<1> QED
  BY <1>1, <1>2 DEF DashNext, TunnelSampled

LEMMA DashStep == TypeOK /\ TypeOK' /\ DashInv /\ [DashNext]_dashVars => DashInv'
<1> SUFFICES ASSUME TypeOK, TypeOK', DashInv, [DashNext]_dashVars PROVE DashInv'
  OBVIOUS
<1>1. CASE UNCHANGED dashVars
  BY <1>1 DEF dashVars, vars, claim, web, DashInv, DashTypes, Unserved, ShownIsSwitch, UpToDate
<1>2. CASE ~served /\ Next /\ UNCHANGED <<served, web>>
  BY <1>2 DEF web, DashInv, DashTypes, Unserved, ShownIsSwitch, UpToDate
<1> SUFFICES ASSUME served, UNCHANGED served, DashNext PROVE DashInv'
  BY <1>1, <1>2 DEF DashNext
<1>3. shown.killswitch = engaged /\ engaged' \in BOOLEAN
  BY DEF DashInv, ShownIsSwitch, TypeOK
<1> SUFFICES DashTypes' /\ UpToDate' /\ shown'.killswitch = engaged'
  BY DEF DashInv, Unserved, ShownIsSwitch
<1>4. CASE \E o \in Operators : Engagement(o) \/ (CancelCall(o) /\ UNCHANGED web)
  <2>1. UNCHANGED <<web, engaged>>
    BY <1>4 DEF Engagement, Apply, CancelCall, claim
  <2> QED
    BY <1>3, <2>1 DEF web, DashInv, DashTypes, UpToDate
<1>5. CASE \E o \in Operators : HandlerStep(o) \/ ReleaseRequest(o)
  BY <1>3, <1>5, HandlerKeeps DEF HandlerStep, ReleaseRequest
<1>6. CASE TunnelSampled
  <2>1. PICK known \in BOOLEAN : Show("tunnel", known) /\ UNCHANGED vars
    BY <1>6 DEF TunnelSampled
  <2>2. DashTypes' /\ UpToDate'
    BY <2>1, ShowKeeps DEF DashInv
  <2>3. shown'.killswitch = shown.killswitch
    BY <2>1 DEF Show, DashInv, DashTypes, Pictures
  <2> QED
    BY <1>3, <2>1, <2>2, <2>3 DEF vars, claim
<1>7. CASE \E c \in Clients : (Attach(c) \/ Deliver(c) \/ Leave(c) \/ Unsubscribe(c)) /\ UNCHANGED vars
  BY <1>3, <1>7, SocketKeeps DEF vars, claim
<1> QED
  BY <1>4, <1>5, <1>6, <1>7 DEF DashNext

LEMMA DashSwitch == DashSpec => []TypeOK /\ [](OneAtATime => SwitchInv)
<1>1. DashSpec => Spec
  <2>1. DashInit => Init
    BY DEF DashInit
  <2> QED
    BY <2>1, DashboardDrivesSwitch, PTL DEF DashSpec, Spec
<1> QED
  BY <1>1, SwitchTypes, SwitchAlways, PTL

\* From the firewall to the browser: what a client that lost no frame has
\* rendered and has still to render comes to the projection, for any number of
\* clients and any length of their queues; and under the premises of
\* StateTellsTruth a server that executes shows an engaged switch exactly when
\* the policy drops.
THEOREM BrowsersAreTold == DashSpec => []BrowserTellsTruth
<1>1. DashInv /\ TypeOK /\ (OneAtATime => SwitchInv) => BrowserTellsTruth
  <2> SUFFICES ASSUME DashInv, TypeOK, OneAtATime => SwitchInv,
                      NEW c \in Clients, socket[c] = "on", c \notin lost
               PROVE  /\ Seen(view[c], inbox[c]) = shown
                      /\ OneAtATime /\ AtRest /\ ~cut => (shown.killswitch /\ live <=> policy = "drop")
    BY Zenon DEF BrowserTellsTruth
  <2>1. Seen(view[c], inbox[c]) = shown /\ shown.killswitch = engaged
    BY DEF DashInv, UpToDate, Unserved, ShownIsSwitch, DashTypes
  <2> QED
    BY <2>1 DEF SwitchInv, Truth
<1> QED
  BY <1>1, DashInitially, DashStep, DashSwitch, PTL DEF DashSpec

\* One at a time, the dashboard's handlers never expose what must stay reachable
\* either, though they arm no timer and report what their calls return.
THEOREM DashboardKeepsExempt == DashSpec => []ExemptWhileDropping
<1>1. (OneAtATime => SwitchInv) => ExemptWhileDropping
  BY DEF SwitchInv, Exempt, ExemptWhileDropping
<1> QED
  BY <1>1, DashSwitch, PTL

\* Nor does the state lie about the firewall under them, one handler at a time
\* and unless one was cancelled where the policy is set or in a release().
THEOREM DashboardTellsTruth == DashSpec => []StateTellsTruth
<1>1. (OneAtATime => SwitchInv) => StateTellsTruth
  BY DEF SwitchInv, Truth, StateTellsTruth
<1> QED
  BY <1>1, DashSwitch, PTL
=============================================================================
