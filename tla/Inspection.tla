--------------------------------- MODULE Inspection ---------------------------------
(***************************************************************************)
(* Loading a page: threat/sandbox.py, with the checks of threat/safety.py. *)
(* One call of inspect(), by the inspector default_inspector picks: the    *)
(* container's, whose client process is run under a timeout, or, where     *)
(* that is allowed, the static one, which follows redirects itself.        *)
(***************************************************************************)
EXTENDS Naturals, FiniteSets, Sequences, SequencesExt

CONSTANTS
  Urls,      \* the URLs of the site
  Fetchable, \* those assert_fetchable lets pass
  MaxHops    \* MAX_REDIRECT_HOPS

ASSUME InspectionAssumption == MaxHops \in Nat

VARIABLES
  at,        \* where the call is
  engine,    \* "container", "static" or "none"
  process,   \* the client process: "none", "running", "killed" or "exited"
  container, \* the container: "none", "running" or "gone"
  responses, \* the URLs its browser had an answer from, in order
  chain,     \* the URLs in the report, in order
  current,   \* the URL asked for, or the one the static inspector fetches next
  ending     \* what the call will end with: a report, an error, a cancellation

inspectVars == <<at, engine, process, container, responses, chain, current, ending>>

InspectInit ==
  /\ at = "new" /\ engine = "none" /\ process = "none"
  /\ container = "none" /\ responses = <<>> /\ chain = <<>> /\ current \in Urls /\ ending = "none"

End(how) == at' = "over" /\ ending' = how

\* default_inspector: static only without a container runtime and by consent;
\* then both inspectors check the URL first.
Choose ==
  /\ at = "new"
  /\ engine' \in {"container", "static", "none"}
  /\ IF engine' = "none" \/ current \notin Fetchable
     THEN End("error")
     ELSE at' = (IF engine' = "static" THEN "loop" ELSE "starting") /\ ending' = "none"
  /\ UNCHANGED <<process, container, responses, chain, current>>

-----------------------------------------------------------------------------
(* ContainerSandbox *)

browser == <<container, responses>>

Start ==
  /\ at = "starting"
  /\ \/ at' = "running" /\ process' = "running" /\ UNCHANGED ending
     \/ End("error") /\ UNCHANGED process
     \/ End("cancelled") /\ UNCHANGED process
  /\ UNCHANGED <<engine, browser, chain, current>>

\* external: the client has the daemon start the container and ends when that has.  It
\* cannot pass the kill on: a container whose client is killed goes on by itself.
ContainerStarts ==
  /\ process = "running" /\ container = "none"
  /\ container' = "running"
  /\ UNCHANGED <<at, engine, process, responses, chain, current, ending>>

ContainerEnds ==
  /\ container = "running" /\ container' = "gone"
  /\ process' = IF process = "running" THEN "exited" ELSE process
  /\ UNCHANGED <<at, engine, responses, chain, current, ending>>

\* external: a killed client dies, and one whose container does not start ends.
ProcessExits ==
  /\ process = "killed" \/ (process = "running" /\ container = "none")
  /\ process' = "exited"
  /\ UNCHANGED <<at, engine, browser, chain, current, ending>>

\* _BROWSER_SCRIPT: the page asked for, then whatever its redirects and scripts ask
\* for, which nothing checks or counts (one answer too many for a report shows it).
Browse ==
  /\ container = "running" /\ Len(responses) <= MaxHops
  /\ \E url \in Urls :
       /\ responses = <<>> => url = current
       /\ responses' = Append(responses, url)
  /\ UNCHANGED <<at, engine, process, container, chain, current, ending>>

\* communicate() returns: a report, whose chain is cut, unless the code or the
\* output is bad.
Communicated ==
  /\ at = "running" /\ process = "exited"
  /\ at' = "finally"
  /\ \/ /\ container = "gone" /\ ending' = "report"
        /\ chain' = SubSeq(responses, 1, IF Len(responses) < MaxHops THEN Len(responses) ELSE MaxHops)
     \/ ending' = "error" /\ UNCHANGED chain
  /\ UNCHANGED <<engine, process, browser, current>>

\* The timeout is handled by a kill of its own, a cancellation only by the one
\* of the finally clause.
TimedOut ==
  /\ at = "running"
  /\ at' = "handling" /\ ending' = "error"
  /\ UNCHANGED <<engine, process, browser, chain, current>>

Cancelled ==
  /\ at \in {"running", "reaping", "reaping again"}
  /\ at' = IF at = "reaping again" THEN "over" ELSE "finally"
  /\ ending' = "cancelled"
  /\ UNCHANGED <<engine, process, browser, chain, current>>

\* Mutated form: the finally clause is left out where a report is on its way,
\* or a cancellation.
TerminateOnError ==
  /\ at \in {"handling", "finally"}
  /\ IF process = "exited" \/ ending # "error"
     THEN at' = (IF at = "handling" THEN "finally" ELSE "over") /\ UNCHANGED process
     ELSE /\ process' = "killed"
          /\ at' = (IF at = "handling" THEN "reaping" ELSE "reaping again")
  /\ UNCHANGED <<engine, browser, chain, current, ending>>

\* _terminate: kill what still runs and wait for its end,
Terminate ==
  /\ at \in {"handling", "finally"}
  /\ IF process = "exited"
     THEN at' = (IF at = "handling" THEN "finally" ELSE "over") /\ UNCHANGED process
     ELSE /\ process' = "killed"
          /\ at' = (IF at = "handling" THEN "reaping" ELSE "reaping again")
  /\ UNCHANGED <<engine, browser, chain, current, ending>>

\* at most five seconds.
Reaped ==
  /\ at \in {"reaping", "reaping again"}
  /\ at' = IF at = "reaping" THEN "finally" ELSE "over"
  /\ UNCHANGED <<engine, process, browser, chain, current, ending>>

-----------------------------------------------------------------------------
(* StaticInspector: with the hops used up, in a loop, or after an error or a *)
(* blocked redirect, the report holds what was seen until then.              *)

LeaveLoop == at = "loop" /\ (Len(chain) = MaxHops \/ Contains(chain, current))

\* One fetch: a redirect to follow, one that is blocked or a page; a transport
\* error; a cancellation.
Fetch ==
  /\ at = "loop" /\ Len(chain) < MaxHops /\ ~Contains(chain, current)
  /\ \/ \E next \in Fetchable : chain' = Append(chain, current) /\ current' = next
                                /\ UNCHANGED <<at, ending>>
     \/ chain' = Append(chain, current) /\ End("report") /\ UNCHANGED current
     \/ End("report") /\ UNCHANGED <<chain, current>>
     \/ End("cancelled") /\ UNCHANGED <<chain, current>>
  /\ UNCHANGED <<engine, process, browser>>

StopFollowing ==
  /\ LeaveLoop
  /\ End("report")
  /\ UNCHANGED <<engine, process, browser, chain, current>>

InspectNext ==
  \/ Choose \/ Start \/ ContainerStarts \/ ContainerEnds \/ ProcessExits \/ Browse
  \/ Communicated \/ TimedOut \/ Cancelled \/ Terminate \/ Reaped \/ Fetch \/ StopFollowing

InspectSpec == InspectInit /\ [][InspectNext]_inspectVars

-----------------------------------------------------------------------------
\* However the call ends, timeouts and cancellations at any point of the clean-up
\* included, it leaves no client process that was not at least killed ("killed on
\* timeout and again in a finally"), its report is bounded, and no inspector starts
\* with a URL that must not be fetched.  The static inspector fetches nothing else
\* that must not be, nothing twice, and no more than the limit ("redirects are
\* re-checked at every hop").  The container is promised neither: what its browser
\* asks for next is not checked, and it may outlive the call whose client was killed.
InspectionContained ==
  /\ at = "over" => process # "running"
  /\ Len(chain) <= MaxHops
  /\ responses # <<>> => responses[1] \in Fetchable
  /\ engine = "static" => IsInjective(chain) /\ ToSet(chain) \subseteq Fetchable
=============================================================================
