------------------------------- MODULE MCAgentRun -------------------------------
(* Instances of AgentRun for TLC: three steps, the first without dependencies. *)
EXTENDS AgentRun

all == {f \in [Steps -> SUBSET Steps] : f[1] = {}}
=============================================================================
