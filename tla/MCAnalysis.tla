------------------------------- MODULE MCAnalysis -------------------------------
(***************************************************************************)
(* The components that work by themselves, side by side: a behavior is one *)
(* of one of them, `part`, and the variables of the others stay where they *)
(* start.  For Canonical, which has no steps, an initial state is a sample *)
(* of what it is asked.                                                    *)
(***************************************************************************)
EXTENDS MCCorrelator, Lookups, MCUrlScan, Inspection, Host, Memory, Scopes, Canonical, Collection,
        DeviceScan

VARIABLE part

\* An engagement's host and two beneath it, and another; of eight addresses the
\* upper quarter is private.
MCHosts == {<<"com">>, <<"com", "acme">>, <<"com", "acme", "prod">>, <<"com", "other">>}

MCRules ==
  {[net |-> net] : net \in {0..7, 4..7, 4..5, {5}}}
  \union [host : {<<"com", "acme">>, <<"com", "acme", "prod">>}, wildcard : BOOLEAN, beneath : BOOLEAN]

MCEngagements ==
  [allow : {rules \in SUBSET MCRules : Cardinality(rules) <= 2},
   deny : {rules \in SUBSET MCRules : Cardinality(rules) <= 1},
   private : BOOLEAN, expired : {FALSE}, maxRisk : {1}]

MCServedFrom == ("u1" :> "a.com") @@ ("u2" :> "b.com") @@ ("u3" :> "10.0.0.1")

Some == {{}, {"a.com"}, {"b.com", Unusable}}

MCObtained ==
  [tool : {"osint.dns"}, target : {"a.com"},
   found : [failed : {{}, {"A", "MX", "NS", "TXT"}}, A : {{}, {"10.0.0.1", Unusable}}, MX : Some,
            NS : {{"a.com"}}, CNAME : {{}, {"b.com"}}, TXT : {{"ann@a.com"}}]]
  \union [tool : {"osint.whois"}, target : {"a.com", "b.com"},
          found : [registrant : {{}, {"acme"}}, registrar : {{"reg"}, {"acme"}},
                   emails : {{}, {"ann@a.com", Unusable}}, nameservers : {{"a.com"}}]]
  \union [tool : {"osint.tls"}, target : {"b.com"},
          found : [verified : BOOLEAN, sans : Some, issuer : {{}, {"ca"}}]]
  \union [tool : {"osint.social"}, target : {"a.com"},
          found : {<<>>} \union [{"x/ann", "y/ann"} -> {"exists", "absent", "unclear"}]]
  \union [tool : {"iot"}, target : {"10.0.0.1", "b.com"},
          found : [hostnames : {{}, {"b.com", Unusable}}, vendor : {{}, {"acme"}},
                   services : {{}, {"80/http", "22/ssh"}}]]
  \union [tool : {"threat.url_score"}, target : {"u1", "u2"},
          found : [chain : {<<>>, <<"u1", "u3">>, <<"u3", Unusable, "u3", "u1">>},
                   contacted : Some, files : {{"f1", Unusable}}]]
  \union [tool : {"threat.lookup"}, target : {"a.com", "10.0.0.1", "u2"}, found : {<<>>}]

-----------------------------------------------------------------------------
Parts == {"graph", "limiter", "lookups", "url", "page", "host", "memory", "scopes", "keys",
          "payloads", "devices"}

Only(name, all, one) == IF part = name THEN all ELSE {one}

AnalysisInit ==
  /\ part \in Parts
  /\ maxRisk \in Only("url", 0..1, 0) /\ page \in Only("url", Pages, CHOOSE p \in Pages : TRUE)
  /\ current \in Only("page", Urls, CHOOSE u \in Urls : TRUE)
  /\ setup \in Only("host", Setups, CHOOSE s \in Setups : TRUE)
  /\ link \in Only("host", Links(setup.backend), Gone(setup.backend))
  /\ sample \in Only("keys", Samples, NoSample) /\ injected \in Only("lookups", BOOLEAN, TRUE)
  /\ CorrelatorInit /\ Init /\ LookupInit /\ ScanInit /\ InspectInit /\ HostInit /\ MemoryInit
  /\ CollectionInit /\ ScanIdle /\ scope = NoScope

Still(others) ==
  /\ UNCHANGED <<part, sample>>
  /\ "graph" \in others => UNCHANGED correlatorVars
  /\ "time" \in others => UNCHANGED vars
  /\ "lookups" \in others => UNCHANGED lookupVars
  /\ "url" \in others => UNCHANGED scanVars
  /\ "page" \in others => UNCHANGED inspectVars
  /\ "host" \in others => UNCHANGED hostVars
  /\ "memory" \in others => UNCHANGED memoryVars
  /\ "payloads" \in others => UNCHANGED gathered
  /\ "devices" \in others => UNCHANGED scanVariables
  /\ "scopes" \in others => UNCHANGED scope

Components ==
  {"graph", "time", "lookups", "url", "page", "host", "memory", "payloads", "devices", "scopes"}

\* The lookups' buckets refill with the time of RateLimiter.  Calls with clients of
\* their own share nothing, and two of them are enough.
AnalysisNext ==
  \/ part = "graph" /\ CorrelatorNext /\ Still(Components \ {"graph"})
  \/ part = "limiter" /\ Next /\ Still(Components \ {"time"})
  \/ part = "lookups" /\ LookupNext /\ (injected \/ stage'[TheOne] = "new")
     /\ Still(Components \ {"time", "lookups"})
  \/ part = "url" /\ ScanNext /\ Still(Components \ {"url"})
  \/ part = "page" /\ InspectNext /\ Still(Components \ {"page"})
  \/ part = "host" /\ HostNext /\ Still(Components \ {"host"})
  \/ part = "memory" /\ MemoryNext /\ Still(Components \ {"memory"})
  \/ part = "payloads" /\ CollectionNext /\ Still(Components \ {"payloads"})
  \/ part = "devices" /\ ScanHostNext /\ Still(Components \ {"devices"})
  \/ part = "scopes" /\ Configure /\ Still(Components \ {"scopes"})

analysisVars ==
  <<part, sample, correlatorVars, vars, lookupVars, scanVars, inspectVars, hostVars, memoryVars,
    gathered, scanVariables, scope>>

\* Fairness is RateLimiter's, for its part.
AnalysisSpec ==
  /\ AnalysisInit /\ [][AnalysisNext]_analysisVars
  /\ WF_vars(part = "limiter" /\ Tick)
  /\ \A a \in Callers : WF_vars(part = "limiter" /\ Wake(a))
=============================================================================
