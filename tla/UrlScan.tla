---------------------------------- MODULE UrlScan ----------------------------------
(***************************************************************************)
(* Scanning one URL: the agent of cli.py (run_url_scan) and web/app.py     *)
(* (scan_url) with the tools of threat/tools.py.  The planner orders the   *)
(* tools, the agent runs them wave by wave (module AgentRun has all of     *)
(* that), url_score folds what the others found into one score, and the    *)
(* scan reports its score, or that of url_analyze in its absence.          *)
(*                                                                         *)
(* A finding is its code and its number among those of that code; the      *)
(* score is kept in the code's integer percentages, not rounded.           *)
(***************************************************************************)
EXTENDS Planner, Integers, Sequences, FiniteSets, FiniteSetsExt

\* What there is to find out: tool -> the features it would see, how many query
\* parameters carry a URL, and whether normalize_url leaves the URL's host as it is
\* spelled (but for its case), which it does not with an internationalized name or
\* one that ends with the root's dot.
CONSTANT Pages

\* Of any page, each of them sees finitely many.
ASSUME UrlScanAssumption ==
  \A p \in Pages :
    /\ p.carrying \in Nat
    /\ \A t \in {"analyze", "inspect", "virustotal", "urlscan"} : IsFiniteSet(p[t])

VARIABLES
  maxRisk,   \* of the engagement
  page,      \* the page scanned
  status,    \* tool -> the status of its step
  evidence,  \* the tools whose payloads url_score found in ctx.state
  report     \* the findings the reported score is made of, and that score

scanVars == <<maxRisk, page, status, evidence, report>>

Entry(rank, risk, name, consumes, produces) ==
  [rank |-> rank, risk |-> risk, name |-> name, needs |-> {"target"}, gated |-> TRUE,
   consumes |-> consumes, produces |-> produces]

\* The tools as they declare themselves.
Catalogue == [
  analyze    |-> Entry(4, 0, 1, {}, {"url_findings"}),
  inspect    |-> Entry(3, 1, 2, {}, {"sandbox_report", "url_findings"}),
  score      |-> Entry(4, 0, 3, {"url_findings", "reputation", "sandbox_report"}, {"risk_score"}),
  urlscan    |-> Entry(4, 0, 4, {}, {"reputation"}),
  submit     |-> Entry(3, 1, 5, {}, {"reputation", "sandbox_report"}),
  virustotal |-> Entry(4, 0, 6, {}, {"reputation"})]

ScanTools == DOMAIN Catalogue
InPlan == Planned(Catalogue, maxRisk, 0..6, {"target"})

-----------------------------------------------------------------------------
(* Findings: threat/analyzer.py and threat/models.py *)

\* Per code: the category, and the weight of the severity in percent.
CategoryOf(code) ==
  CASE code \in {"malformed_url", "embedded_credentials", "excessive_length", "deep_subdomain",
                 "embedded_url_parameter", "plaintext_scheme"} -> "structure"
    [] code \in {"punycode_host", "homoglyph_host", "typosquat", "lookalike_domain",
                 "brand_in_subdomain", "phishing_keyword_host"} -> "deception"
    [] code \in {"ip_literal_host", "suspicious_tld", "dynamic_dns_host", "random_subdomain",
                 "uncommon_port"} -> "hosting"
    [] code \in {"cert_expired", "cert_untrusted", "cert_host_mismatch"} -> "certificate"
    [] code \in {"vt_critical", "vt_high", "vt_medium", "vt_low", "us_critical", "us_high",
                 "us_medium"} -> "reputation"
    [] code = "credential_form" -> "content"
    [] OTHER -> "behavior"

WeightOf(code) ==
  CASE code \in {"vt_critical", "us_critical"} -> 92
    [] code \in {"embedded_credentials", "homoglyph_host", "typosquat", "lookalike_domain",
                 "brand_in_subdomain", "cert_host_mismatch", "vt_high", "us_high"} -> 65
    [] code \in {"malformed_url", "embedded_url_parameter", "punycode_host",
                 "phishing_keyword_host", "ip_literal_host", "dynamic_dns_host", "cert_expired",
                 "cert_untrusted", "cross_domain_redirect", "vt_medium", "us_medium"} -> 30
    [] code = "static_inspection_only" -> 0
    [] OTHER -> 8

\* _deception_findings: the loop over the brands stops at the first that is
\* the domain itself or close to it; the brand itself is left in peace, the
\* rest of the rules included.
Deception(seen) ==
  LET shape == seen \intersect {"punycode_host", "homoglyph_host"}
      rest  == seen \intersect {"brand_in_subdomain", "phishing_keyword_host"} IN
  IF "is_brand" \in seen /\ "typosquat" \notin seen THEN shape
  ELSE shape \union rest \union
       (IF "typosquat" \in seen THEN {"typosquat"} ELSE seen \intersect {"lookalike_domain"})

\* _hosting_findings: nothing but the address is said of an address.
Hosting(seen) ==
  IF "ip_literal_host" \in seen THEN {"ip_literal_host"}
  ELSE seen \intersect {"suspicious_tld", "dynamic_dns_host", "random_subdomain", "uncommon_port"}

Once(codes) == codes \X {1}

\* analyze_url and analyze_certificate: an URL that does not parse has no
\* other findings, and without its host no mismatch.  Of one code alone there
\* may be several: each parameter that carries a URL is a finding.
AnalyzeUrl(seen, carrying) ==
  IF "malformed_url" \in seen
  THEN Once({"malformed_url"} \union (seen \intersect {"cert_expired", "cert_untrusted"}))
  ELSE Once({c \in seen : CategoryOf(c) \in {"structure", "certificate"}}
            \union Deception(seen) \union Hosting(seen))
       \union ({"embedded_url_parameter"} \X (1..carrying))

\* What each tool finds: analyze_sandbox for the inspection, the verdict of a
\* lookup as to_finding turns it into a finding; a submission finds nothing.
Findings(t) ==
  CASE t = "analyze" -> AnalyzeUrl(page.analyze, page.carrying)
    [] t \in {"inspect", "virustotal", "urlscan"} -> Once(page[t])
    [] OTHER -> {}

\* score_findings: the strongest finding of each category and a little for every
\* other weighty one, the categories combined by noisy-OR (in parts of 100^n).
CategoryWeight(findings, category) ==
  LET mine == {f \in findings : CategoryOf(f[1]) = category /\ WeightOf(f[1]) > 0} IN
  IF mine = {} THEN 0
  ELSE Min({100, Max({WeightOf(f[1]) : f \in mine}) + 4 * (Cardinality(mine) - 1)})

Categories == <<"structure", "deception", "hosting", "certificate", "reputation", "behavior",
                "content">>

\* A score of 100 percent.
Whole == 100 * 100 * 100 * 100

\* The complement of the score, in parts of the whole, category by category: exact for up
\* to four of them with a finding, and rounded down after that.
Innocence(findings) ==
  LET left[k \in 0..Len(Categories)] ==
        IF k = 0 THEN Whole
        ELSE LET weight == CategoryWeight(findings, Categories[k]) IN
             IF weight = 0 THEN left[k - 1] ELSE (left[k - 1] \div 100) * (100 - weight) IN
  left[Len(Categories)]

Score(findings) == Whole - Innocence(findings)

\* Each code once, as url_score counts them.
Distinct(findings) == Once({f[1] : f \in findings})

-----------------------------------------------------------------------------
(* The run *)

None == [findings |-> {}, score |-> -1]

ScanInit ==
  /\ maxRisk \in 0..1 /\ page \in Pages
  /\ ~PlanningFails(Catalogue, maxRisk, 0..6, {"target"})
  /\ status = [t \in ScanTools |-> IF t \in InPlan THEN "pending" ELSE "absent"]
  /\ evidence = {} /\ report = None

Idle == \A t \in ScanTools : status[t] # "running"

Hopeless(t) ==
  status[t] = "pending"
  /\ \E d \in DependsOn(Catalogue, InPlan, t) : status[d] \in {"failed", "skipped"}

Runnable(t) ==
  status[t] = "pending" /\ \A d \in DependsOn(Catalogue, InPlan, t) : status[d] = "succeeded"

\* _concerns: a payload is about the URL when it names it, or its host, in canonical
\* form.  The search of urlscan names the target as it was given.
Concerns(t) == t = "urlscan" => page.canonical

\* The next wave; url_score reads what earlier waves left in ctx.state, of its own URL.
ScanWave ==
  /\ Idle /\ report = None
  /\ \E t \in ScanTools : Runnable(t)
  /\ status' = [t \in ScanTools |-> IF Hopeless(t) THEN "skipped"
                                    ELSE IF Runnable(t) THEN "running" ELSE status[t]]
  /\ evidence' = IF Runnable("score") THEN {t \in ScanTools : status[t] = "succeeded" /\ Concerns(t)}
                 ELSE evidence
  /\ UNCHANGED <<maxRisk, page, report>>

\* A tool answers or fails: no runtime for the sandbox, no key, a refusal by the
\* scope, a service that is down, a timeout.
ToolEnds(t) ==
  /\ status[t] = "running"
  /\ \E end \in {"succeeded", "failed"} : status' = [status EXCEPT ![t] = end]
  /\ UNCHANGED <<maxRisk, page, evidence, report>>

\* Nothing is runnable any more.  url_score counts findings with the same code once,
\* url_analyze by itself does not.
ScanReport ==
  /\ Idle /\ report = None /\ \A t \in ScanTools : ~Runnable(t)
  /\ LET findings == IF status["score"] = "succeeded"
                     THEN Distinct(UNION {Findings(t) : t \in evidence})
                     ELSE IF status["analyze"] = "succeeded" THEN Findings("analyze")
                     ELSE {} IN
     report' = [findings |-> findings, score |-> Score(findings)]
  /\ status' = [t \in ScanTools |-> IF Hopeless(t) THEN "skipped" ELSE status[t]]
  /\ UNCHANGED <<maxRisk, page, evidence>>

ScanNext == ScanWave \/ ScanReport \/ \E t \in ScanTools : ToolEnds(t)

ScanSpec == ScanInit /\ [][ScanNext]_scanVars

-----------------------------------------------------------------------------
Over == {"succeeded", "failed", "skipped", "absent"}

\* When url_score runs, every source of evidence has ended ("guaranteeing analysis
\* never starts before the data it reads exists"), and a score it gives counts what
\* each successful one found, a code once: it is no lower than that would score
\* alone.  Except for urlscan's verdict on a URL whose host normalize_url respells:
\* that evidence is dropped.  (url_analyze's own score, which counts a code as often
\* as it is found, may be higher.)
ScoreSeesEvidence ==
  /\ status["score"] = "running" =>
       \A t \in ScanTools \ {"score"} : status[t] \in Over
  /\ report # None /\ status["score"] = "succeeded" =>
       \A t \in ScanTools :
         status[t] = "succeeded" /\ Concerns(t) => report.score >= Score(Distinct(Findings(t)))

\* "A URL is assessed from evidence that fails independently": the reported
\* score counts what any source found, whichever others failed.  (Unless
\* aggregating itself failed.)
EvidenceFailsIndependently ==
  report # None /\ status["analyze"] = "succeeded" /\ status["score"] # "failed" =>
    \A t \in ScanTools :
      status[t] = "succeeded" /\ Concerns(t) => report.score >= Score(Distinct(Findings(t)))
=============================================================================
