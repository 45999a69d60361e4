---------------------------------- MODULE Planner ----------------------------------
(***************************************************************************)
(* RuleBasedPlanner of core/planner.py, with select() of core/registry.py: *)
(* which registered tools become steps of the plan and what each step      *)
(* depends on.  A catalogue gives every tool its                           *)
(*   rank       the position of its category in DEFAULT_CATEGORY_ORDER     *)
(*   risk       0 passive, 1 active, 2 intrusive                           *)
(*   name       its place in the alphabet                                  *)
(*   needs      its required parameters                                    *)
(*   gated      whether it works on a target                               *)
(*   consumes, produces   artifacts                                        *)
(***************************************************************************)
EXTENDS Naturals

NETWORK == 0
ANALYSIS == 4

\* select(): permitted risk, wanted categories.
Selected(catalogue, maxRisk, ranks) ==
  {t \in DOMAIN catalogue : catalogue[t].risk <= maxRisk /\ catalogue[t].rank \in ranks}

\* A tool with an input that nobody supplied is not applicable and left out.
Planned(catalogue, maxRisk, ranks, supplied) ==
  {t \in Selected(catalogue, maxRisk, ranks) : catalogue[t].needs \subseteq supplied}

\* No plan at all: nothing selected, nothing plannable, or no target to work on.
PlanningFails(catalogue, maxRisk, ranks, supplied) ==
  \/ Planned(catalogue, maxRisk, ranks, supplied) = {}
  \/ /\ "target" \notin supplied
     /\ \E t \in Selected(catalogue, maxRisk, ranks) : catalogue[t].gated

\* The order in which tools are planned: category, risk, name.
Before(catalogue, t, u) ==
  LET a == catalogue[t] b == catalogue[u] IN
  \/ a.rank < b.rank
  \/ a.rank = b.rank /\ a.risk < b.risk
  \/ a.rank = b.rank /\ a.risk = b.risk /\ a.name < b.name

\* Mutated form: what a tool consumes is not looked up among the producers.
NetworkEdges(catalogue, planned, t) ==
  {p \in planned : catalogue[t].consumes = {} /\ catalogue[t].gated
                   /\ catalogue[p].rank = NETWORK /\ catalogue[t].rank > NETWORK}

\* depends_on: the producers, among the tools planned so far, of what the tool
\* consumes; for a tool without such needs that works on the target, every
\* network step.
DependsOn(catalogue, planned, t) ==
  LET earlier == {p \in planned : Before(catalogue, p, t)} IN
  {p \in earlier :
     \/ catalogue[p].produces \intersect catalogue[t].consumes # {}
     \/ /\ catalogue[t].consumes = {} /\ catalogue[t].gated
        /\ catalogue[p].rank = NETWORK /\ catalogue[t].rank > NETWORK}
=============================================================================
