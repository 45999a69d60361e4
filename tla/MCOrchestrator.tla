----------------------------- MODULE MCOrchestrator -----------------------------
(***************************************************************************)
(* Instances of Orchestrator for TLC.  Two workers, three jobs and a queue *)
(* of one slot make every hazard meet: a full queue, a worker that reports *)
(* while another one starts, and a stop in the middle of both.             *)
(***************************************************************************)
EXTENDS OrchestratorInvariants

CONSTANTS j1, j2, j3, vpn, monitor

TwoJobs   == {j1, j2}
ThreeJobs == {j1, j2, j3}

\* j3 outranks the two others, which share a band.
TwoBands == (j1 :> 2) @@ (j2 :> 2) @@ (j3 :> 1)
OneBand  == (j1 :> 2) @@ (j2 :> 2)

VpnOnly      == <<vpn>>
=============================================================================
