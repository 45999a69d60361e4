------------------------------- MODULE Correlator -------------------------------
(***************************************************************************)
(* osint/correlator.py: a graph is built from what collectors returned,    *)
(* then passes over it merge the entities that are the same and add the    *)
(* links nobody observed.  correlate() is one synchronous call, shown here *)
(* merge by merge because each one changes what the next one finds.        *)
(* Scores are percentages; similarity of names is a constant of the pair.  *)
(***************************************************************************)
EXTENDS EntityGraph, FiniteSets, Sequences

CONSTANTS
  Similarity,                   \* of two organizations' names, by set of the two
  GenericOrgs,                  \* issuers and registrars
  Bare,                         \* "www." domain -> the name without it
  Ancestors,                    \* domain -> its parent domains, nearest first
  MailDomain,                   \* email -> its domain, if not a public provider
  HandleMail,                   \* handle that is an email address -> that email
  MergeAt, ReviewAt, OrgSimilarity, MaxFanout,  \* CorrelatorConfig
  Collected,                    \* bound: the sources collectors may name, by key
  MaxPasses                     \* bound: calls of correlate()

\* Key strings are ordered; Bare takes a prefix off, and a name that was derived
\* from another is not that other one; create() refuses loops, and what is
\* resolved to is an address.
ASSUME CorrelatorAssumption ==
  /\ Keys \subseteq Nat
  /\ Collected \subseteq [Keys -> SUBSET Observations]
  /\ MergeAt \in 1..100 /\ ReviewAt \in 0..MergeAt /\ MaxFanout \in Nat \ {0}
  /\ \A a, b \in Keys : KindOf[a] = "organization" /\ KindOf[b] = "organization" /\ a # b
                        => Similarity[{a, b}] \in 0..100
  /\ {"subdomain_of", "associated_with", "uses_email"} \subseteq EdgeTypes
  /\ \A d \in DOMAIN Bare : /\ KindOf[d] = "domain" /\ KindOf[Bare[d]] = "domain"
                           /\ \A e \in DOMAIN Bare : Bare[e] = Bare[d] => e = d
  /\ \A d \in DOMAIN Ancestors : \A i \in DOMAIN Ancestors[d] : Ancestors[d][i] # d
  /\ \A m \in DOMAIN MailDomain : MailDomain[m] # m
  /\ \A e \in PossibleEdges :
       e[1] # e[3] /\ (e[2] = "resolves_to" => KindOf[e[3]] = "ip_address")

VARIABLES
  phase,    \* collecting, merging, or done
  apply,    \* correlate(apply=...)
  pending,  \* the candidates still to be handled
  passes

correlatorVars == <<graphState, phase, apply, pending, passes>>

WwwScore == 90       \* WWW_ALIAS_CONFIDENCE
HandleScore == 60    \* Confidence.MODERATE

OfKind(kind) == {k \in nodes : KindOf[k] = kind}

-----------------------------------------------------------------------------
(* find_duplicates().                                                      *)

Candidate(p, d, score) == [primary |-> p, duplicate |-> d, score |-> score]

Alike(a, b) ==
  /\ a # b /\ {a, b} \cap GenericOrgs = {}
  /\ Similarity[{a, b}] >= OrgSimilarity

\* _order(), of two keys in order: more sources win, then more confidence, then
\* the first key.
Survivor(a, b, confidence) ==
  LET more == Cardinality(known[a]) - Cardinality(known[b]) IN
  IF more > 0 \/ (more = 0 /\ confidence[a] >= confidence[b]) THEN a ELSE b

OrganizationDuplicates(confidence) ==
  {LET p == Survivor(x[1], x[2], confidence) IN
     Candidate(p, IF p = x[1] THEN x[2] ELSE x[1], Similarity[{x[1], x[2]}]) :
   x \in {y \in OfKind("organization") \X OfKind("organization") :
            y[1] < y[2] /\ Alike(y[1], y[2])}}

ResolvedAddresses(k) == {e[3] : e \in {x \in outEdges[k] : x[2] = "resolves_to"}}

Conflicting(a, b) ==
  /\ ResolvedAddresses(a) # {} /\ ResolvedAddresses(b) # {}
  /\ ResolvedAddresses(a) \cap ResolvedAddresses(b) = {}

DomainDuplicates ==
  {Candidate(Bare[d], d, IF Conflicting(d, Bare[d]) THEN ReviewAt ELSE WwwScore) :
   d \in {x \in OfKind("domain") \cap DOMAIN Bare : Bare[x] \in nodes}}

HandleEmailMatches ==
  {Candidate(HandleMail[h], h, HandleScore) :
   h \in {x \in OfKind("social_handle") \cap DOMAIN HandleMail : HandleMail[x] \in nodes}}

Duplicates(confidence) ==
  OrganizationDuplicates(confidence) \union DomainDuplicates \union HandleEmailMatches

\* candidates.sort(): by score, highest first, then by keys.
Precedes(c, e) ==
  \/ c.score > e.score
  \/ c.score = e.score /\ c.primary < e.primary
  \/ c.score = e.score /\ c.primary = e.primary /\ c.duplicate < e.duplicate

-----------------------------------------------------------------------------
(* infer_relationships().                                                  *)

InferredSubdomains ==
  UNION {LET up == Ancestors[d]
             present == {i \in DOMAIN up : up[i] \in nodes} IN
         {Edge(d, "subdomain_of", up[i]) : i \in {j \in present : \A n \in present : j <= n}} :
         d \in OfKind("domain") \cap DOMAIN Ancestors}

Resolvers(address) == {e[1] : e \in {x \in inEdges[address] : x[2] = "resolves_to"}}

InferredShared ==
  UNION {{Edge(x[1], "associated_with", x[2]) :
            x \in {y \in Resolvers(ip) \X Resolvers(ip) : y[1] < y[2]}} :
         ip \in {x \in OfKind("ip_address") : Cardinality(Resolvers(x)) \in 2..MaxFanout}}

InferredEmailDomains ==
  {Edge(MailDomain[m], "uses_email", m) :
   m \in {x \in OfKind("email") \cap DOMAIN MailDomain : MailDomain[x] \in nodes}}

Inferred == (InferredSubdomains \union InferredShared \union InferredEmailDomains) \ edges

-----------------------------------------------------------------------------
CorrelatorInit ==
  /\ GraphInit
  /\ phase = "collecting" /\ apply = FALSE
  /\ pending = {} /\ passes = 0

\* build_graph_from_payloads(): every entity first, then the relationships
\* whose endpoints are there; the others are skipped.
Build ==
  /\ phase = "collecting" /\ nodes = {}
  /\ \E seen \in Collected, reported \in SUBSET PossibleEdges :
       LET there == {k \in Keys : seen[k] # {}}
           kept == {e \in reported : e[1] \in there /\ e[3] \in there} IN
       /\ reported = kept
       /\ nodes' = there /\ known' = seen
       /\ Added(kept)
  /\ UNCHANGED <<aliases, phase, apply, pending, passes>>

\* Or the graph is built operation by operation; a bound: not after payloads.
Edit ==
  /\ phase = "collecting" /\ nodes \subseteq EditedKeys
  /\ GraphNext
  /\ UNCHANGED <<phase, apply, pending, passes>>

\* correlate(): the candidates are found, and those below the threshold are
\* only proposed.
Correlate ==
  /\ phase # "merging" /\ nodes # {} /\ passes < MaxPasses
  /\ apply' \in BOOLEAN
  /\ \E confidence \in [OfKind("organization") -> 1..Cardinality(OfKind("organization"))] :
       pending' = {c \in Duplicates(confidence) : c.score >= MergeAt}
  /\ phase' = "merging" /\ passes' = passes + 1
  /\ UNCHANGED graphState

\* Mutated form: an entity takes part in one merge of a pass.
MergeNextOnce ==
  \E c \in pending :
    /\ phase = "merging" /\ \A e \in pending \ {c} : Precedes(c, e)
    /\ pending' = {e \in pending : {e.primary, e.duplicate} \cap {c.primary, c.duplicate} = {}}
    /\ IF apply /\ Mergeable(c.primary, c.duplicate)
         THEN MergeEntities(c.primary, c.duplicate)
         ELSE UNCHANGED graphState
    /\ UNCHANGED <<phase, apply, passes>>

\* The next candidate is merged, unless an earlier merge consumed one side.
MergeNext ==
  \E c \in pending :
    /\ phase = "merging" /\ \A e \in pending \ {c} : Precedes(c, e)
    /\ pending' = pending \ {c}
    /\ IF apply /\ Mergeable(c.primary, c.duplicate)
         THEN MergeEntities(c.primary, c.duplicate)
         ELSE UNCHANGED graphState
    /\ UNCHANGED <<phase, apply, passes>>

Infer ==
  /\ phase = "merging" /\ pending = {}
  /\ IF apply THEN Added(Inferred) ELSE UNCHANGED <<edges, outEdges, inEdges>>
  /\ phase' = "done"
  /\ UNCHANGED <<nodes, known, aliases, apply, pending, passes>>

CorrelatorNext == Build \/ Edit \/ Correlate \/ MergeNext \/ Infer

CorrelatorSpec == CorrelatorInit /\ [][CorrelatorNext]_correlatorVars

-----------------------------------------------------------------------------
\* One applied pass is enough: whatever was merged first, nothing is left that a
\* second pass would merge or link.  True of the instance, and proved, without a www
\* name of a www name and with a threshold above 0.6: the first hands on addresses that
\* the conflict check does not see until the next pass, and with the second every pass
\* proposes to merge a handle into the email address it is, which is refused.
OnePassSettles ==
  phase = "done" /\ apply =>
    /\ \A c \in Duplicates([k \in Keys |-> 1]) : c.score < MergeAt
    /\ Inferred = {}
=============================================================================
