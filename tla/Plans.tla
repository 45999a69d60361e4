--------------------------------- MODULE Plans ---------------------------------
(* The shape of plans: core/planner.py, class Plan. *)

\* Plan.validate: the dependencies are other steps of the plan, and no set of
\* steps waits for itself, which is what Kahn's algorithm finds out.
Valid(plan, needs) ==
  /\ \A s \in plan : needs[s] \subseteq plan \ {s}
  /\ \A ring \in (SUBSET plan) \ {{}} : \E s \in ring : needs[s] \intersect ring = {}
=============================================================================
