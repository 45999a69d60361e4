------------------------------ MODULE AnalysisProofs ------------------------------
(***************************************************************************)
(* The components that work by themselves, for every value of their        *)
(* constants: the entity graph (its indexes, and that it implements        *)
(* LinkGraph) and its correlation, the inspection of pages, the operations *)
(* on the host, the scopes of engagements, the scan of devices, the memory *)
(* and the canonical values.                                               *)
(***************************************************************************)
EXTENDS Correlator, Inspection, Host, Scopes, DeviceScan, Memory, Canonical, Induction,
        FiniteSetTheorems

-----------------------------------------------------------------------------
(* EntityGraph.                                                            *)


Triples == Keys \X EdgeTypes \X Keys

\* Observations belong to entities that are there, and the indexes are exact.
GraphInv ==
  /\ nodes \subseteq Keys
  /\ edges \subseteq Triples
  /\ known \in [Keys -> SUBSET Observations]
  /\ outEdges \in [Keys -> SUBSET Triples]
  /\ inEdges \in [Keys -> SUBSET Triples]
  /\ \A k \in Keys : known[k] # {} => k \in nodes
  /\ IndexesExact

LEMMA InitGraph == GraphInit => GraphInv /\ LG!GInit
  BY DEF GraphInit, GraphInv, IndexesExact, LG!GInit

\* Adding edges between entities that are there.
LEMMA AddedExact ==
  ASSUME GraphInv, NEW es \in SUBSET Triples, Added(es),
         \A e \in es : e[1] # e[3] /\ e[1] \in nodes' /\ e[3] \in nodes',
         nodes \subseteq nodes'
  PROVE  /\ IndexesExact'
         /\ edges' \subseteq Triples
         /\ outEdges' \in [Keys -> SUBSET Triples] /\ inEdges' \in [Keys -> SUBSET Triples]
         /\ edges \subseteq edges'
  BY DEF GraphInv, IndexesExact, Added, Triples

\* What the two indexes list for a key is every edge that touches it.
LEMMA TouchingExact ==
  ASSUME GraphInv, NEW k \in Keys
  PROVE  Touching(k) = {e \in edges : e[1] = k \/ e[3] = k}
  BY DEF GraphInv, IndexesExact, Touching

Grown == GraphInv' /\ LG!Grow

LEMMA Growing ==
  ASSUME GraphInv, NEW es \in SUBSET Triples, Added(es), NEW ks \in SUBSET Keys,
         \A e \in es : e[1] # e[3] /\ e[1] \in nodes' /\ e[3] \in nodes',
         nodes' = nodes \union ks, UNCHANGED aliases,
         known' \in [Keys -> SUBSET Observations],
         \A k \in Keys : known[k] \subseteq known'[k] /\ (known'[k] # {} => k \in nodes')
  PROVE  Grown
  <1>1. /\ IndexesExact' /\ edges' \subseteq Triples /\ edges \subseteq edges'
        /\ outEdges' \in [Keys -> SUBSET Triples] /\ inEdges' \in [Keys -> SUBSET Triples]
    BY AddedExact
  <1>2. \A e \in edges' : e[1] \in nodes' /\ e[3] \in nodes' /\ e[1] # e[3]
    BY <1>1 DEF IndexesExact
  <1>. QED  BY <1>1, <1>2 DEF Grown, GraphInv, LG!Grow

LEMMA NothingAdded ==
  ASSUME GraphInv, UNCHANGED <<edges, outEdges, inEdges>>
  PROVE  Added({})
  BY DEF GraphInv, Added

LEMMA AddEntityStep ==
  ASSUME GraphInv, NEW k \in Keys, NEW o \in Observations, AddEntity(k, {o})
  PROVE  Grown
  <1>1. Added({}) /\ UNCHANGED aliases
    BY NothingAdded DEF AddEntity
  <1>2. /\ nodes' = nodes \union {k} /\ known' \in [Keys -> SUBSET Observations]
        /\ \A j \in Keys : known[j] \subseteq known'[j] /\ (known'[j] # {} => j \in nodes')
    BY DEF AddEntity, GraphInv
  <1>3. {} \in SUBSET Triples /\ {k} \in SUBSET Keys
    OBVIOUS
  <1>. QED  BY <1>1, <1>2, <1>3, Growing

LEMMA AddRelationshipStep ==
  ASSUME GraphInv, NEW e \in Triples, AddRelationship(e)
  PROVE  Grown
  <1>1. /\ Added({e}) /\ nodes' = nodes \union {} /\ known' = known /\ UNCHANGED aliases
        /\ e[1] \in nodes /\ e[3] \in nodes /\ e[1] # e[3]
    BY DEF AddRelationship
  <1>2. /\ known' \in [Keys -> SUBSET Observations]
        /\ \A j \in Keys : known[j] \subseteq known'[j] /\ (known'[j] # {} => j \in nodes')
    BY <1>1 DEF GraphInv
  <1>. QED  BY <1>1, <1>2, Growing

LEMMA ConnectStep ==
  ASSUME GraphInv, NEW e \in Triples, NEW o \in Observations, Connect(e, {o})
  PROVE  Grown
  <1>1. e[1] \in Keys /\ e[3] \in Keys
    BY DEF Triples
  <1>2. /\ Added({e}) /\ nodes' = nodes \union {e[1], e[3]} /\ e[1] # e[3] /\ UNCHANGED aliases
        /\ known' = [known EXCEPT ![e[1]] = @ \union {o}, ![e[3]] = @ \union {o}]
    BY DEF Connect
  <1>3. /\ known' \in [Keys -> SUBSET Observations]
        /\ \A j \in Keys : known[j] \subseteq known'[j] /\ (known'[j] # {} => j \in nodes')
    BY <1>1, <1>2 DEF GraphInv
  <1>4. {e} \in SUBSET Triples /\ {e[1], e[3]} \in SUBSET Keys
    BY <1>1
  <1>5. \A x \in {e} : x[1] # x[3] /\ x[1] \in nodes' /\ x[3] \in nodes'
    BY <1>2
  <1>. DEFINE es == {e}
              ks == {e[1], e[3]}
  <1>6. /\ es \in SUBSET Triples /\ ks \in SUBSET Keys
        /\ Added(es) /\ nodes' = nodes \union ks /\ UNCHANGED aliases
        /\ \A x \in es : x[1] # x[3] /\ x[1] \in nodes' /\ x[3] \in nodes'
    BY <1>2, <1>4, <1>5
  <1>. HIDE DEF es, ks
  <1>. QED  BY <1>3, <1>6, Growing

LEMMA RemoveStep ==
  ASSUME GraphInv, NEW k \in Keys, RemoveEntity(k)
  PROVE  GraphInv' /\ LG!Forget(k)
  <1>1. Touching(k) = {e \in edges : e[1] = k \/ e[3] = k}
    BY TouchingExact
  <1>2. edges' = {e \in edges : e[1] # k /\ e[3] # k}
    BY <1>1 DEF RemoveEntity
  <1>3. \A j \in Keys : /\ outEdges'[j] = {e \in edges' : e[1] = j}
                        /\ inEdges'[j] = {e \in edges' : e[3] = j}
    BY <1>1, <1>2 DEF RemoveEntity, Without, GraphInv, IndexesExact
  <1>4. outEdges' \in [Keys -> SUBSET Triples] /\ inEdges' \in [Keys -> SUBSET Triples]
    BY DEF RemoveEntity, Without, GraphInv
  <1>5. \A e \in edges' : e[1] \in nodes' /\ e[3] \in nodes' /\ e[1] # e[3]
    BY <1>2 DEF RemoveEntity, GraphInv, IndexesExact
  <1>6. /\ nodes' \subseteq Keys /\ known' \in [Keys -> SUBSET Observations]
        /\ \A j \in Keys : known'[j] # {} => j \in nodes'
    BY DEF RemoveEntity, GraphInv
  <1>7. edges' \subseteq Triples
    BY <1>2 DEF GraphInv
  <1>8. GraphInv'
    BY <1>3, <1>4, <1>5, <1>6, <1>7 DEF GraphInv, IndexesExact
  <1>. QED  BY <1>2, <1>8 DEF RemoveEntity, LG!Forget

\* The edges of a merge are the renamed ones, without loops.
LEMMA RewiredRenames ==
  ASSUME GraphInv, NEW p \in Keys, NEW d \in Keys, p # d
  PROVE  (edges \ Touching(d)) \union Rewired(p, d)
           = {l \in {<<LG!Renamed(e[1], d, p), e[2], LG!Renamed(e[3], d, p)>> : e \in edges} :
                l[1] # l[3]}
  <1>. DEFINE Image(e) == <<LG!Renamed(e[1], d, p), e[2], LG!Renamed(e[3], d, p)>>
             Merged == (edges \ Touching(d)) \union Rewired(p, d)
             Collapsed == {l \in {Image(e) : e \in edges} : l[1] # l[3]}
  <1>0. \A e \in edges : /\ e \in Triples /\ e = <<e[1], e[2], e[3]>> /\ e[1] # e[3]
    BY DEF GraphInv, IndexesExact, Triples
  <1>1. Touching(d) = {e \in edges : e[1] = d \/ e[3] = d}
    BY TouchingExact
  <1>2. Rewired(p, d) = {<<p, e[2], e[3]>> : e \in {x \in edges : x[1] = d /\ x[3] # p}}
                          \union {<<e[1], e[2], p>> : e \in {x \in edges : x[3] = d /\ x[1] # p}}
    BY DEF Rewired, Edge, GraphInv, IndexesExact
  <1>3. ASSUME NEW l \in Merged PROVE l \in Collapsed
    <2>1. CASE l \in edges \ Touching(d)
      <3>1. l \in edges /\ l[1] # d /\ l[3] # d
        BY <2>1, <1>1
      <3>2. Image(l) = l
        BY <3>1, <1>0 DEF LG!Renamed
      <3>. QED  BY <3>1, <3>2, <1>0
    <2>2. CASE l \in {<<p, e[2], e[3]>> : e \in {x \in edges : x[1] = d /\ x[3] # p}}
      <3>1. PICK e \in edges : e[1] = d /\ e[3] # p /\ l = <<p, e[2], e[3]>>
        BY <2>2
      <3>2. e[3] # d
        BY <3>1, <1>0
      <3>3. Image(e) = l /\ l[1] # l[3]
        BY <3>1, <3>2 DEF LG!Renamed
      <3>. QED  BY <3>1, <3>3
    <2>3. CASE l \in {<<e[1], e[2], p>> : e \in {x \in edges : x[3] = d /\ x[1] # p}}
      <3>1. PICK e \in edges : e[3] = d /\ e[1] # p /\ l = <<e[1], e[2], p>>
        BY <2>3
      <3>2. e[1] # d
        BY <3>1, <1>0
      <3>3. Image(e) = l /\ l[1] # l[3]
        BY <3>1, <3>2 DEF LG!Renamed
      <3>. QED  BY <3>1, <3>3
    <2>. QED  BY <2>1, <2>2, <2>3, <1>2
  <1>4. ASSUME NEW l \in Collapsed PROVE l \in Merged
    <2>1. PICK e \in edges : l = Image(e) /\ l[1] # l[3]
      OBVIOUS
    <2>2. CASE e[1] = d
      <3>1. e[3] # d /\ l = <<p, e[2], e[3]>> /\ e[3] # p
        BY <2>1, <2>2, <1>0 DEF LG!Renamed
      <3>. QED  BY <2>1, <2>2, <3>1, <1>2
    <2>3. CASE e[3] = d
      <3>1. e[1] # d /\ l = <<e[1], e[2], p>> /\ e[1] # p
        BY <2>1, <2>3, <1>0 DEF LG!Renamed
      <3>. QED  BY <2>1, <2>3, <3>1, <1>2
    <2>4. CASE e[1] # d /\ e[3] # d
      <3>1. l = e /\ e \notin Touching(d)
        BY <2>1, <2>4, <1>0, <1>1 DEF LG!Renamed
      <3>. QED  BY <3>1
    <2>. QED  BY <2>2, <2>3, <2>4
  <1>. QED  BY <1>3, <1>4

LEMMA MergeStep ==
  ASSUME GraphInv, NEW p \in Keys, NEW d \in Keys, MergeEntities(p, d)
  PROVE  GraphInv' /\ LG!Collapse(d, p)
  <1>0. p # d /\ p \in nodes /\ d \in nodes
    BY DEF MergeEntities, Mergeable
  <1>1. LG!Collapse(d, p)
    BY <1>0, RewiredRenames DEF MergeEntities, LG!Collapse
  <1>2. Touching(d) = {e \in edges : e[1] = d \/ e[3] = d}
    BY TouchingExact
  <1>3. \A e \in Rewired(p, d) : e \in Triples /\ e[1] # e[3] /\ e[1] # d /\ e[3] # d
                                 /\ e[1] \in nodes /\ e[3] \in nodes
    BY <1>0 DEF Rewired, Edge, GraphInv, IndexesExact, Triples
  <1>4. edges' = (edges \ Touching(d)) \union Rewired(p, d)
    BY DEF MergeEntities
  <1>5. edges' \subseteq Triples
        /\ \A e \in edges' : e[1] \in nodes' /\ e[3] \in nodes' /\ e[1] # e[3]
    BY <1>2, <1>3, <1>4 DEF MergeEntities, GraphInv, IndexesExact
  <1>6. outEdges' \in [Keys -> SUBSET Triples] /\ inEdges' \in [Keys -> SUBSET Triples]
    BY <1>3 DEF MergeEntities, GraphInv
  <1>7. \A k \in Keys : outEdges'[k] = {e \in edges' : e[1] = k}
    BY <1>2, <1>3, <1>4 DEF MergeEntities, GraphInv, IndexesExact
  <1>8. \A k \in Keys : inEdges'[k] = {e \in edges' : e[3] = k}
    BY <1>2, <1>3, <1>4 DEF MergeEntities, GraphInv, IndexesExact
  <1>9. /\ nodes' \subseteq Keys /\ known' \in [Keys -> SUBSET Observations]
        /\ \A j \in Keys : known'[j] # {} => j \in nodes'
    BY <1>0 DEF MergeEntities, GraphInv
  <1>. QED  BY <1>1, <1>5, <1>6, <1>7, <1>8, <1>9 DEF GraphInv, IndexesExact

Promised == LG!Keep \/ \E k \in Keys : RemoveEntity(k) /\ LG!Forget(k)

LEMMA GraphStep ==
  ASSUME GraphInv, GraphNext
  PROVE  GraphInv' /\ Promised
  <1>0. EditedKeys \subseteq Keys /\ PossibleEdges \subseteq Triples
    BY GraphAssumption DEF Triples
  <1>1. CASE \E k \in EditedKeys : RemoveEntity(k)
    BY <1>0, <1>1, RemoveStep DEF Promised
  <1>2. CASE \E k \in EditedKeys : \E o \in Observations : AddEntity(k, {o})
    BY <1>0, <1>2, AddEntityStep DEF Promised, Grown, LG!Keep
  <1>3. CASE \E e \in PossibleEdges : AddRelationship(e)
    BY <1>0, <1>3, AddRelationshipStep DEF Promised, Grown, LG!Keep
  <1>4. CASE \E e \in PossibleEdges : \E o \in Observations : Connect(e, {o})
    BY <1>0, <1>4, ConnectStep DEF Promised, Grown, LG!Keep
  <1>5. CASE \E p, d \in EditedKeys : MergeEntities(p, d)
    BY <1>0, <1>5, MergeStep DEF Promised, LG!Keep
  <1>. QED  BY <1>1, <1>2, <1>3, <1>4, <1>5 DEF GraphNext

LEMMA GraphInvariant == GraphSpec => []GraphInv
  <1>1. GraphInv /\ UNCHANGED graphState => GraphInv'
    BY DEF GraphInv, graphState, IndexesExact
  <1>2. GraphInv /\ [GraphNext]_graphState => GraphInv'
    BY <1>1, GraphStep
  <1>. QED  BY InitGraph, <1>2, PTL DEF GraphSpec

\* Both indexes list exactly the edges of their entity whatever is added, removed
\* and merged.
THEOREM IndexesStayExact == GraphSpec => []IndexesExact
  <1>1. GraphInv => IndexesExact
    BY DEF GraphInv
  <1>. QED  BY <1>1, GraphInvariant, PTL

\* The graph implements its promise: a merge hands over observations, the links to third
\* entities and the duplicate's own name; but for that only remove_entity() loses any.
THEOREM GraphImplements == GraphSpec => ImplementsLinkGraph
  <1>1. GraphInv /\ [GraphNext]_graphState => [Promised]_graphState
    BY GraphStep
  <1>2. GraphSpec => [][Promised]_graphState
    BY <1>1, GraphInvariant, PTL DEF GraphSpec
  <1>3. GraphSpec => LG!GInit
    BY InitGraph DEF GraphSpec
  <1>. QED  BY <1>2, <1>3 DEF ImplementsLinkGraph, Promised

-----------------------------------------------------------------------------
(* Correlator.                                                             *)

\* One pass may be too little where it can propose merges that are refused (of a
\* handle into an address, of two types) or where a merge brings the evidence for
\* another: www.www.acme.com hands its addresses to www.acme.com.
Settling ==
  /\ MergeAt > HandleScore
  /\ \A d \in DOMAIN Bare : Bare[d] \notin DOMAIN Bare

SameOrganization(a, b) ==
  /\ a \in OfKind("organization") /\ b \in OfKind("organization") /\ a < b
  /\ Alike(a, b) /\ Similarity[{a, b}] >= MergeAt

SameDomain(d) ==
  /\ d \in OfKind("domain") /\ d \in DOMAIN Bare /\ Bare[d] \in nodes
  /\ (IF Conflicting(d, Bare[d]) THEN ReviewAt ELSE WwwScore) >= MergeAt

\* The merges a pass is still to make are among its candidates, as long as any are
\* to be made; names resolve to addresses; and a pass that is over has settled.
PassInv ==
  /\ GraphInv
  /\ \A e \in edges : e[2] = "resolves_to" => KindOf[e[3]] = "ip_address"
  /\ \A c \in pending :
       /\ c.primary \in Keys /\ c.duplicate \in Keys /\ c.primary # c.duplicate
       /\ \/ KindOf[c.primary] = "organization" /\ KindOf[c.duplicate] = "organization"
          \/ c.duplicate \in DOMAIN Bare /\ c.primary = Bare[c.duplicate]
  /\ phase = "merging" /\ apply =>
       /\ \A a, b \in Keys : SameOrganization(a, b) =>
            \E c \in pending : {c.primary, c.duplicate} = {a, b}
       /\ \A d \in Keys : SameDomain(d) =>
            \E c \in pending : {c.primary, c.duplicate} = {d, Bare[d]}
  /\ phase = "done" /\ apply =>
       /\ \A a, b \in Keys : ~SameOrganization(a, b)
       /\ \A d \in Keys : ~SameDomain(d)
       /\ Inferred = {}

LEMMA SurvivorIsOne ==
  ASSUME NEW a, NEW b, NEW confidence
  PROVE  Survivor(a, b, confidence) \in {a, b}
  BY DEF Survivor

\* What is above the threshold, whatever the confidences: the two rules' pairs.
LEMMA CandidatesAre ==
  ASSUME Settling, GraphInv, NEW confidence
  PROVE  /\ \A c \in Duplicates(confidence) : c.score \in Nat
         /\ \A c \in Duplicates(confidence) : c.score >= MergeAt =>
              \/ \E a, b \in Keys : SameOrganization(a, b)
                                    /\ {c.primary, c.duplicate} = {a, b} /\ c.primary # c.duplicate
              \/ SameDomain(c.duplicate) /\ c.primary = Bare[c.duplicate]
         /\ \A a, b \in Keys : SameOrganization(a, b) =>
              \E c \in Duplicates(confidence) :
                c.score >= MergeAt /\ {c.primary, c.duplicate} = {a, b}
         /\ \A d \in Keys : SameDomain(d) =>
              \E c \in Duplicates(confidence) :
                c.score >= MergeAt /\ {c.primary, c.duplicate} = {d, Bare[d]}
<1> DEFINE Orgs == OrganizationDuplicates(confidence)
           Of(x) == LET p == Survivor(x[1], x[2], confidence) IN
                    Candidate(p, IF p = x[1] THEN x[2] ELSE x[1], Similarity[{x[1], x[2]}])
           Pairs == {y \in OfKind("organization") \X OfKind("organization") :
                       y[1] < y[2] /\ Alike(y[1], y[2])}
<1>0. nodes \subseteq Keys /\ Keys \subseteq Nat
  BY CorrelatorAssumption DEF GraphInv
<1>1. Orgs = {Of(x) : x \in Pairs}
  BY DEF OrganizationDuplicates
<1>2. ASSUME NEW x \in Pairs
      PROVE  /\ x[1] \in OfKind("organization") /\ x[2] \in OfKind("organization")
             /\ x[1] \in Keys /\ x[2] \in Keys /\ x[1] < x[2] /\ x[1] # x[2] /\ Alike(x[1], x[2])
             /\ Of(x).score = Similarity[{x[1], x[2]}]
             /\ {Of(x).primary, Of(x).duplicate} = {x[1], x[2]}
             /\ Of(x).primary # Of(x).duplicate
  <2>1. /\ x[1] \in OfKind("organization") /\ x[2] \in OfKind("organization")
        /\ x[1] < x[2] /\ Alike(x[1], x[2]) /\ x[1] # x[2]
    BY <1>0 DEF Alike
  <2>2. x[1] \in Keys /\ x[2] \in Keys
    BY <1>0, <2>1 DEF OfKind
  <2>3. Survivor(x[1], x[2], confidence) \in {x[1], x[2]}
    BY SurvivorIsOne
  <2> QED
    BY <2>1, <2>2, <2>3 DEF Candidate
<1> HIDE DEF Orgs, Of
<1>3. \A c \in DomainDuplicates :
        /\ c.duplicate \in OfKind("domain") /\ c.duplicate \in DOMAIN Bare
        /\ c.primary = Bare[c.duplicate] /\ Bare[c.duplicate] \in nodes
        /\ c.score = IF Conflicting(c.duplicate, Bare[c.duplicate]) THEN ReviewAt ELSE WwwScore
  BY DEF DomainDuplicates, Candidate
<1>4. \A c \in HandleEmailMatches : c.score = HandleScore
  BY DEF HandleEmailMatches, Candidate
<1>5. Duplicates(confidence) = Orgs \union DomainDuplicates \union HandleEmailMatches
  BY DEF Duplicates, Orgs
<1>6. ASSUME NEW c \in Duplicates(confidence), c.score >= MergeAt
      PROVE  \/ \E a, b \in Keys : SameOrganization(a, b)
                                   /\ {c.primary, c.duplicate} = {a, b} /\ c.primary # c.duplicate
             \/ SameDomain(c.duplicate) /\ c.primary = Bare[c.duplicate]
  <2>1. CASE c \in Orgs
    <3>1. PICK x \in Pairs : c = Of(x)
      BY <1>1, <2>1
    <3>2. SameOrganization(x[1], x[2])
      BY <1>2, <1>6, <3>1 DEF SameOrganization
    <3> HIDE DEF Pairs
    <3> QED
      BY <1>2, <3>1, <3>2
  <2>2. CASE c \in DomainDuplicates
    BY <1>3, <1>6, <2>2 DEF SameDomain
  <2>3. CASE c \in HandleEmailMatches
    BY <1>4, <1>6, <2>3, CorrelatorAssumption DEF Settling, HandleScore
  <2> QED
    BY <1>5, <2>1, <2>2, <2>3
<1>7. ASSUME NEW a \in Keys, NEW b \in Keys, SameOrganization(a, b)
      PROVE  \E c \in Duplicates(confidence) :
               c.score >= MergeAt /\ {c.primary, c.duplicate} = {a, b}
  <2>1. <<a, b>> \in Pairs /\ Similarity[{a, b}] >= MergeAt
    BY <1>7 DEF SameOrganization
  <2>2. Of(<<a, b>>) \in Orgs
    BY <1>1, <2>1
  <2>3. Of(<<a, b>>).score >= MergeAt /\ {Of(<<a, b>>).primary, Of(<<a, b>>).duplicate} = {a, b}
    <3>1. <<a, b>>[1] = a /\ <<a, b>>[2] = b
      OBVIOUS
    <3> HIDE DEF Pairs
    <3> QED
      BY <1>2, <2>1, <3>1
  <2> QED
    BY <1>5, <2>2, <2>3
<1>8. ASSUME NEW d \in Keys, SameDomain(d)
      PROVE  \E c \in Duplicates(confidence) :
               c.score >= MergeAt /\ {c.primary, c.duplicate} = {d, Bare[d]}
  <2> DEFINE c == Candidate(Bare[d], d, IF Conflicting(d, Bare[d]) THEN ReviewAt ELSE WwwScore)
  <2>1. c \in DomainDuplicates
    BY <1>8 DEF SameDomain, DomainDuplicates
  <2>2. c.score >= MergeAt /\ {c.primary, c.duplicate} = {d, Bare[d]}
    BY <1>8 DEF SameDomain, Candidate
  <2> QED
    BY <1>5, <2>1, <2>2
<1>9. ASSUME NEW c \in Duplicates(confidence) PROVE c.score \in Nat
  <2>1. \A x \in Pairs : Similarity[{x[1], x[2]}] \in 0..100
    BY <1>2, CorrelatorAssumption DEF OfKind
  <2>2. ReviewAt \in Nat /\ WwwScore \in Nat /\ HandleScore \in Nat
    BY CorrelatorAssumption DEF WwwScore, HandleScore
  <2>3. CASE c \in Orgs
    <3>1. PICK x \in Pairs : c = Of(x)
      BY <1>1, <2>3
    <3>2. c.score = Similarity[{x[1], x[2]}]
      BY <1>2, <3>1
    <3> QED
      BY <2>1, <3>2
  <2>4. CASE c \in DomainDuplicates
    BY <1>3, <2>2, <2>4
  <2>5. CASE c \in HandleEmailMatches
    BY <1>4, <2>2, <2>5
  <2> QED
    BY <1>5, <2>3, <2>4, <2>5
<1> QED
  BY <1>6, <1>7, <1>8, <1>9

\* What a merge does to the links of others.
LEMMA MergedEdges ==
  ASSUME GraphInv, NEW p \in Keys, NEW d \in Keys, MergeEntities(p, d)
  PROVE  /\ p # d /\ p \in nodes /\ d \in nodes /\ KindOf[p] = KindOf[d] /\ nodes' = nodes \ {d}
         /\ \A e \in edges' :
              \/ e \in edges /\ e[1] # d /\ e[3] # d
              \/ \E x \in edges : x[1] = d /\ e[1] = p /\ e[2] = x[2] /\ e[3] = x[3]
              \/ \E x \in edges : x[3] = d /\ e[1] = x[1] /\ e[2] = x[2] /\ e[3] = p
         /\ \A e \in edges : e[1] # d /\ e[3] # d => e \in edges'
<1>1. p # d /\ p \in nodes /\ d \in nodes /\ KindOf[p] = KindOf[d] /\ nodes' = nodes \ {d}
  BY DEF MergeEntities, Mergeable
<1>2. Touching(d) = {e \in edges : e[1] = d \/ e[3] = d}
  BY TouchingExact
<1>3. edges' = (edges \ Touching(d)) \union Rewired(p, d)
  BY DEF MergeEntities
<1>4. outEdges[d] = {e \in edges : e[1] = d} /\ inEdges[d] = {e \in edges : e[3] = d}
  BY DEF GraphInv, IndexesExact
<1>5. Rewired(p, d) = {<<p, e[2], e[3]>> : e \in {x \in edges : x[1] = d /\ x[3] # p}}
                        \union {<<e[1], e[2], p>> : e \in {x \in edges : x[3] = d /\ x[1] # p}}
  BY <1>4 DEF Rewired, Edge
<1>6. ASSUME NEW e \in Rewired(p, d)
      PROVE  \/ \E x \in edges : x[1] = d /\ e[1] = p /\ e[2] = x[2] /\ e[3] = x[3]
             \/ \E x \in edges : x[3] = d /\ e[1] = x[1] /\ e[2] = x[2] /\ e[3] = p
  <2>1. CASE \E x \in edges : x[1] = d /\ e = <<p, x[2], x[3]>>
    BY <2>1
  <2>2. CASE \E x \in edges : x[3] = d /\ e = <<x[1], x[2], p>>
    BY <2>2
  <2> QED
    BY <1>5, <2>1, <2>2
<1>7. \A e \in edges' : (e \in edges /\ e[1] # d /\ e[3] # d) \/ e \in Rewired(p, d)
  BY <1>2, <1>3
<1>8. \A e \in edges : e[1] # d /\ e[3] # d => e \in edges'
  BY <1>2, <1>3
<1> QED
  BY <1>1, <1>6, <1>7, <1>8

\* An edge of a kind of its own keeps leading to its kind.
LEMMA MergeKeepsAddresses ==
  ASSUME GraphInv, NEW p \in Keys, NEW d \in Keys, MergeEntities(p, d),
         \A e \in edges : e[2] = "resolves_to" => KindOf[e[3]] = "ip_address"
  PROVE  \A e \in edges' : e[2] = "resolves_to" => KindOf[e[3]] = "ip_address"
<1> SUFFICES ASSUME NEW e \in edges', e[2] = "resolves_to" PROVE KindOf[e[3]] = "ip_address"
  OBVIOUS
<1>1. KindOf[p] = KindOf[d]
  BY MergedEdges
<1>2. CASE e \in edges
  BY <1>2
<1>3. CASE \E x \in edges : x[1] = d /\ e[1] = p /\ e[2] = x[2] /\ e[3] = x[3]
  BY <1>3
<1>4. CASE \E x \in edges : x[3] = d /\ e[1] = x[1] /\ e[2] = x[2] /\ e[3] = p
  BY <1>1, <1>4
<1> QED
  BY <1>2, <1>3, <1>4, MergedEdges

LEMMA AddressesAre ==
  ASSUME GraphInv, NEW k \in Keys
  PROVE  ResolvedAddresses(k) = {e[3] : e \in {x \in edges : x[1] = k /\ x[2] = "resolves_to"}}
<1>1. outEdges[k] = {e \in edges : e[1] = k}
  BY DEF GraphInv, IndexesExact
<1>2. {x \in outEdges[k] : x[2] = "resolves_to"} = {x \in edges : x[1] = k /\ x[2] = "resolves_to"}
  BY <1>1
<1> QED
  BY <1>2 DEF ResolvedAddresses

\* The addresses of an entity that takes no part in a merge of others that are no
\* addresses stay.
LEMMA MergeLeavesAddresses ==
  ASSUME GraphInv, GraphInv', NEW p \in Keys, NEW d \in Keys, MergeEntities(p, d),
         \A e \in edges : e[2] = "resolves_to" => KindOf[e[3]] = "ip_address",
         KindOf[d] # "ip_address", NEW k \in Keys, k # p, k # d
  PROVE  ResolvedAddresses(k)' = ResolvedAddresses(k)
<1> DEFINE Old == {x \in edges : x[1] = k /\ x[2] = "resolves_to"}
           New == {x \in edges' : x[1] = k /\ x[2] = "resolves_to"}
<1>1. ASSUME NEW e \in Old PROVE e \in New
  <2>1. e[3] # d
    BY <1>1
  <2> QED
    BY <1>1, <2>1, MergedEdges
<1>2. ASSUME NEW e \in New PROVE e \in Old
  <2>1. ~\E x \in edges : x[3] = d /\ e[1] = x[1] /\ e[2] = x[2] /\ e[3] = p
    <3> SUFFICES ASSUME NEW x \in edges, x[3] = d, e[2] = x[2] PROVE FALSE
      OBVIOUS
    <3>1. x[2] = "resolves_to"
      BY <1>2
    <3> QED
      BY <3>1
  <2> QED
    BY <1>2, <2>1, MergedEdges
<1>3. Old = New
  BY <1>1, <1>2
<1>4. ResolvedAddresses(k) = {e[3] : e \in Old}
  BY AddressesAre
<1>5. outEdges'[k] = {e \in edges' : e[1] = k}
  BY DEF GraphInv, IndexesExact
<1>6. ResolvedAddresses(k)' = {e[3] : e \in {x \in outEdges'[k] : x[2] = "resolves_to"}}
  BY DEF ResolvedAddresses
<1>7. {x \in outEdges'[k] : x[2] = "resolves_to"} = New
  BY <1>5
<1> HIDE DEF Old, New
<1> QED
  BY <1>3, <1>4, <1>6, <1>7


\* A merge of a pass makes nothing the same that was not before.
LEMMA MergeBringsNone ==
  ASSUME Settling, PassInv, GraphInv', NEW c \in pending, MergeEntities(c.primary, c.duplicate)
  PROVE  /\ \A a, b \in Keys : SameOrganization(a, b)' => SameOrganization(a, b)
         /\ \A d \in Keys : SameDomain(d)' => SameDomain(d)
<1> DEFINE p == c.primary
           x == c.duplicate
<1>1. /\ p \in Keys /\ x \in Keys /\ p # x
      /\ \/ KindOf[p] = "organization" /\ KindOf[x] = "organization"
         \/ x \in DOMAIN Bare /\ p = Bare[x]
  BY DEF PassInv
<1>2. nodes' = nodes \ {x} /\ KindOf[x] # "ip_address"
  <2>1. nodes' = nodes \ {x}
    BY DEF MergeEntities
  <2> QED
    BY <1>1, <2>1, CorrelatorAssumption
<1>3. ASSUME NEW a \in Keys, NEW b \in Keys, SameOrganization(a, b)' PROVE SameOrganization(a, b)
  BY <1>2, <1>3 DEF SameOrganization, OfKind, Alike
<1>4. ASSUME NEW d \in Keys, SameDomain(d)' PROVE SameDomain(d)
  <2>1. /\ d \in nodes' /\ KindOf[d] = "domain" /\ d \in DOMAIN Bare /\ Bare[d] \in nodes'
        /\ (IF Conflicting(d, Bare[d])' THEN ReviewAt ELSE WwwScore) >= MergeAt
    BY <1>4 DEF SameDomain, OfKind
  <2>2. Bare[d] \in Keys /\ d # x /\ Bare[d] # x /\ d \in nodes /\ Bare[d] \in nodes
    BY <1>2, <2>1 DEF PassInv, GraphInv
  <2>3. d # p /\ Bare[d] # p
    <3>1. CASE KindOf[p] = "organization"
      BY <2>1, <3>1, CorrelatorAssumption
    <3>2. CASE x \in DOMAIN Bare /\ p = Bare[x]
      BY <2>1, <2>2, <3>2, CorrelatorAssumption DEF Settling
    <3> QED
      BY <1>1, <3>1, <3>2
  <2>4. GraphInv /\ \A e \in edges : e[2] = "resolves_to" => KindOf[e[3]] = "ip_address"
    BY DEF PassInv
  <2> HIDE DEF p, x
  <2>5. MergeEntities(p, x)
    BY DEF p, x
  <2>6. ResolvedAddresses(d)' = ResolvedAddresses(d)
    BY <1>1, <1>2, <2>2, <2>3, <2>4, <2>5, MergeLeavesAddresses
  <2>7. ResolvedAddresses(Bare[d])' = ResolvedAddresses(Bare[d])
    BY <1>1, <1>2, <2>2, <2>3, <2>4, <2>5, MergeLeavesAddresses
  <2>8. Conflicting(d, Bare[d])' <=> Conflicting(d, Bare[d])
    BY <2>6, <2>7 DEF Conflicting
  <2> QED
    BY <2>1, <2>2, <2>8 DEF SameDomain, OfKind
<1> QED
  BY <1>3, <1>4

\* What is inferred links entities that are there, and resolves nothing.
LEMMA InferredLinks ==
  ASSUME GraphInv
  PROVE  \A e \in Inferred : /\ e \in Triples /\ e[1] \in nodes /\ e[3] \in nodes /\ e[1] # e[3]
                             /\ e[2] # "resolves_to"
<1>0. nodes \subseteq Keys /\ Keys \subseteq Nat
  BY CorrelatorAssumption DEF GraphInv
<1>1. ASSUME NEW e \in InferredSubdomains
      PROVE  \E d, a \in nodes : d # a /\ e = <<d, "subdomain_of", a>>
  <2>1. PICK d \in OfKind("domain") \cap DOMAIN Ancestors :
          \E i \in DOMAIN Ancestors[d] :
            Ancestors[d][i] \in nodes /\ e = <<d, "subdomain_of", Ancestors[d][i]>>
    BY <1>1 DEF InferredSubdomains, Edge
  <2>2. PICK i \in DOMAIN Ancestors[d] :
          Ancestors[d][i] \in nodes /\ e = <<d, "subdomain_of", Ancestors[d][i]>>
    BY <2>1
  <2>3. d \in nodes /\ d \in DOMAIN Ancestors
    BY DEF OfKind
  <2>4. Ancestors[d][i] # d
    BY <2>3, CorrelatorAssumption
  <2> QED
    BY <2>2, <2>3, <2>4
<1>2. ASSUME NEW e \in InferredShared
      PROVE  \E d, a \in nodes : d # a /\ e = <<d, "associated_with", a>>
  <2>1. PICK ip \in OfKind("ip_address") :
          \E y \in Resolvers(ip) \X Resolvers(ip) :
            y[1] < y[2] /\ e = <<y[1], "associated_with", y[2]>>
    BY <1>2 DEF InferredShared, Edge
  <2>2. PICK y \in Resolvers(ip) \X Resolvers(ip) :
          y[1] < y[2] /\ e = <<y[1], "associated_with", y[2]>>
    BY <2>1
  <2>3. ip \in Keys
    BY <1>0 DEF OfKind
  <2>4. Resolvers(ip) \subseteq nodes
    BY <2>3 DEF Resolvers, GraphInv, IndexesExact
  <2>5. y[1] \in nodes /\ y[2] \in nodes /\ y[1] \in Nat /\ y[2] \in Nat
    BY <1>0, <2>4
  <2> QED
    BY <2>2, <2>5
<1>3. ASSUME NEW e \in InferredEmailDomains
      PROVE  \E d, a \in nodes : d # a /\ e = <<d, "uses_email", a>>
  <2>1. PICK m \in OfKind("email") \cap DOMAIN MailDomain :
          MailDomain[m] \in nodes /\ e = <<MailDomain[m], "uses_email", m>>
    BY <1>3 DEF InferredEmailDomains, Edge
  <2>2. m \in nodes /\ MailDomain[m] # m
    BY CorrelatorAssumption DEF OfKind
  <2> QED
    BY <2>1, <2>2
<1>4. {"subdomain_of", "associated_with", "uses_email"} \subseteq EdgeTypes
  BY CorrelatorAssumption
<1>5. ASSUME NEW e \in Inferred
      PROVE  \E d, a \in nodes, t \in {"subdomain_of", "associated_with", "uses_email"} :
               d # a /\ e = <<d, t, a>>
  BY <1>1, <1>2, <1>3, <1>5 DEF Inferred
<1>6. ASSUME NEW e \in Inferred
      PROVE  /\ e \in Triples /\ e[1] \in nodes /\ e[3] \in nodes /\ e[1] # e[3]
             /\ e[2] # "resolves_to"
  <2>1. PICK d \in nodes, a \in nodes, t \in {"subdomain_of", "associated_with", "uses_email"} :
          d # a /\ e = <<d, t, a>>
    BY <1>5, <1>6
  <2>2. e \in Triples
    BY <1>0, <1>4, <2>1 DEF Triples
  <2>3. e[1] = d /\ e[2] = t /\ e[3] = a
    BY <2>1
  <2>4. t # "resolves_to"
    OBVIOUS
  <2> QED
    BY <2>1, <2>2, <2>3, <2>4
<1> QED
  BY <1>6

\* Links that resolve nothing change nothing the rules look at.
LEMMA InferenceSettles ==
  ASSUME GraphInv, Added(Inferred), UNCHANGED nodes
  PROVE  /\ Inferred' = {}
         /\ \A a, b \in Keys : SameOrganization(a, b)' => SameOrganization(a, b)
         /\ \A d \in Keys : SameDomain(d)' => SameDomain(d)
<1> DEFINE new == Inferred
<1>0. nodes \subseteq Keys
  BY DEF GraphInv
<1>1. \A e \in new : e[2] # "resolves_to"
  BY InferredLinks
<1>2. /\ edges' = edges \union new
      /\ \A k \in Keys : /\ outEdges'[k] = outEdges[k] \union {e \in new : e[1] = k}
                         /\ inEdges'[k] = inEdges[k] \union {e \in new : e[3] = k}
  BY DEF Added
<1>3. (InferredSubdomains \union InferredShared \union InferredEmailDomains) \subseteq edges \union new
  BY DEF Inferred
<1> HIDE DEF new
<1>4. ASSUME NEW k \in Keys
      PROVE  ResolvedAddresses(k)' = ResolvedAddresses(k) /\ Resolvers(k)' = Resolvers(k)
  <2>1. {x \in outEdges'[k] : x[2] = "resolves_to"} = {x \in outEdges[k] : x[2] = "resolves_to"}
    BY <1>1, <1>2
  <2>2. {x \in inEdges'[k] : x[2] = "resolves_to"} = {x \in inEdges[k] : x[2] = "resolves_to"}
    BY <1>1, <1>2
  <2> QED
    BY <2>1, <2>2 DEF ResolvedAddresses, Resolvers
<1>5. InferredSubdomains' = InferredSubdomains /\ InferredEmailDomains' = InferredEmailDomains
  BY DEF InferredSubdomains, InferredEmailDomains, OfKind
<1>6. InferredShared' = InferredShared
  <2> DEFINE ips == {x \in OfKind("ip_address") : Cardinality(Resolvers(x)) \in 2..MaxFanout}
             Joined(ip) == {Edge(x[1], "associated_with", x[2]) :
                             x \in {y \in Resolvers(ip) \X Resolvers(ip) : y[1] < y[2]}}
  <2>1. \A ip \in OfKind("ip_address") : ip \in Keys
    BY <1>0 DEF OfKind
  <2>2. OfKind("ip_address")' = OfKind("ip_address")
    BY DEF OfKind
  <2>3. ips' = ips
    BY <1>4, <2>1, <2>2
  <2>4. \A ip \in ips : Joined(ip)' = Joined(ip)
    BY <1>4, <2>1
  <2>5. InferredShared = UNION {Joined(ip) : ip \in ips}
    BY DEF InferredShared
  <2>6. InferredShared' = UNION {Joined(ip)' : ip \in ips'}
    BY DEF InferredShared
  <2> HIDE DEF ips, Joined
  <2> QED
    BY <2>3, <2>4, <2>5, <2>6
<1>7. Inferred' = {}
  <2>1. Inferred' = (InferredSubdomains' \union InferredShared' \union InferredEmailDomains') \ edges'
    BY DEF Inferred
  <2> QED
    BY <1>2, <1>3, <1>5, <1>6, <2>1
<1>8. ASSUME NEW a \in Keys, NEW b \in Keys, SameOrganization(a, b)' PROVE SameOrganization(a, b)
  BY <1>8 DEF SameOrganization, OfKind, Alike
<1>9. ASSUME NEW d \in Keys, SameDomain(d)' PROVE SameDomain(d)
  <2>1. Bare[d] \in Keys /\ d \in OfKind("domain") /\ d \in DOMAIN Bare /\ Bare[d] \in nodes
    BY <1>0, <1>9 DEF SameDomain, OfKind
  <2>2. Conflicting(d, Bare[d])' <=> Conflicting(d, Bare[d])
    BY <1>4, <2>1 DEF Conflicting
  <2> QED
    BY <1>9, <2>1, <2>2 DEF SameDomain
<1> QED
  BY <1>7, <1>8, <1>9

LEMMA PassStarts == CorrelatorInit => PassInv
<1> SUFFICES ASSUME CorrelatorInit PROVE PassInv
  OBVIOUS
<1>1. GraphInv
  BY InitGraph DEF CorrelatorInit
<1> QED
  BY <1>1 DEF CorrelatorInit, GraphInit, PassInv

LEMMA BuildGrows ==
  ASSUME GraphInv, Build
  PROVE  Grown /\ edges' \subseteq PossibleEdges
<1>1. PICK gathered \in Collected, reported \in SUBSET PossibleEdges :
        LET there == {k \in Keys : gathered[k] # {}}
            kept == {e \in reported : e[1] \in there /\ e[3] \in there} IN
        nodes' = there /\ known' = gathered /\ Added(kept)
  BY DEF Build
<1> DEFINE there == {k \in Keys : gathered[k] # {}}
           kept == {e \in reported : e[1] \in there /\ e[3] \in there}
<1>2. nodes = {} /\ nodes' = there /\ known' = gathered /\ Added(kept) /\ UNCHANGED aliases
  BY <1>1 DEF Build
<1>3. kept \subseteq PossibleEdges /\ PossibleEdges \subseteq Triples
  BY GraphAssumption DEF Triples
<1>4. \A e \in kept : e[1] # e[3] /\ e[1] \in nodes' /\ e[3] \in nodes'
  BY <1>2, CorrelatorAssumption
<1>5. /\ gathered \in [Keys -> SUBSET Observations] /\ known \in [Keys -> SUBSET Observations]
      /\ \A k \in Keys : known[k] = {}
  BY <1>2, CorrelatorAssumption DEF GraphInv
<1>6. /\ known' \in [Keys -> SUBSET Observations] /\ there \subseteq Keys
      /\ nodes' = nodes \union there
      /\ \A k \in Keys : known[k] \subseteq known'[k] /\ (known'[k] # {} => k \in nodes')
  BY <1>2, <1>5
<1>7. edges = {}
  BY <1>2 DEF GraphInv, IndexesExact
<1> HIDE DEF there, kept
<1>8. Grown
  BY <1>2, <1>3, <1>4, <1>6, Growing
<1>9. edges' = kept
  BY <1>2, <1>7 DEF Added
<1> QED
  BY <1>3, <1>8, <1>9

LEMMA InferGrows ==
  ASSUME GraphInv, Infer, apply
  PROVE  Grown
<1>1. Added(Inferred) /\ UNCHANGED <<nodes, known, aliases>>
  BY DEF Infer
<1>2. \A e \in Inferred : e \in Triples /\ e[1] \in nodes /\ e[3] \in nodes /\ e[1] # e[3]
  BY InferredLinks
<1>3. \A k \in Keys : known[k] # {} => k \in nodes
  BY DEF GraphInv
<1>4. /\ Inferred \in SUBSET Triples /\ {} \in SUBSET Keys /\ nodes' = nodes \union {}
      /\ known' \in [Keys -> SUBSET Observations]
      /\ \A k \in Keys : known[k] \subseteq known'[k] /\ (known'[k] # {} => k \in nodes')
      /\ \A e \in Inferred : e[1] # e[3] /\ e[1] \in nodes' /\ e[3] \in nodes'
  BY <1>1, <1>2, <1>3 DEF GraphInv
<1> QED
  BY <1>1, <1>4, Growing

\* Correlation changes the graph by what LinkGraph allows.
LEMMA CorrelationStep ==
  ASSUME GraphInv, [CorrelatorNext]_correlatorVars
  PROVE  GraphInv' /\ [Promised]_graphState
<1>1. CASE UNCHANGED graphState
  BY <1>1 DEF graphState, GraphInv, IndexesExact
<1>2. CASE Build
  BY <1>2, BuildGrows DEF Grown, Promised, LG!Keep
<1>3. CASE Edit
  BY <1>3, GraphStep DEF Edit
<1>4. CASE MergeNext
  <2>1. CASE \E c \in pending : MergeEntities(c.primary, c.duplicate)
    <3>1. PICK c \in pending : MergeEntities(c.primary, c.duplicate)
      BY <2>1
    <3>2. c.primary \in Keys /\ c.duplicate \in Keys
      BY <3>1 DEF MergeEntities, Mergeable, GraphInv
    <3> QED
      BY <3>1, <3>2, MergeStep DEF Promised, LG!Keep
  <2> QED
    BY <1>1, <1>4, <2>1 DEF MergeNext
<1>5. CASE Infer
  <2>1. CASE apply
    BY <1>5, <2>1, InferGrows DEF Grown, Promised, LG!Keep
  <2>2. CASE ~apply
    <3>1. UNCHANGED <<nodes, known, aliases, edges, outEdges, inEdges>>
      BY <1>5, <2>2 DEF Infer
    <3> QED
      BY <1>1, <3>1 DEF graphState
  <2> QED
    BY <2>1, <2>2
<1>6. CASE Correlate
  BY <1>1, <1>6 DEF Correlate
<1>7. CASE UNCHANGED correlatorVars
  BY <1>1, <1>7 DEF correlatorVars
<1> QED
  BY <1>2, <1>3, <1>4, <1>5, <1>6, <1>7 DEF CorrelatorNext

\* Through whole passes, payloads and single operations before them, the indexes
\* stay exact.
THEOREM CorrelationKeepsIndexes == CorrelatorSpec => []IndexesExact
<1>1. CorrelatorInit => GraphInv
  BY InitGraph DEF CorrelatorInit
<1>2. GraphInv => IndexesExact
  BY DEF GraphInv
<1> QED
  BY <1>1, <1>2, CorrelationStep, PTL DEF CorrelatorSpec

\* Passes keep the promise too: they merge and they add, and an entity is lost only into
\* another one, with its observations, its links to third entities and its own name.
THEOREM CorrelationImplements == CorrelatorSpec => ImplementsLinkGraph
<1>1. CorrelatorInit => GraphInv /\ LG!GInit
  BY InitGraph DEF CorrelatorInit
<1>2. CorrelatorSpec => LG!GInit /\ [][Promised]_graphState
  BY <1>1, CorrelationStep, PTL DEF CorrelatorSpec
<1> QED
  BY <1>2 DEF ImplementsLinkGraph, Promised

LEMMA BuildStep ==
  ASSUME PassInv, Build
  PROVE  PassInv'
<1>1. phase = "collecting" /\ UNCHANGED <<phase, apply, pending>>
  BY DEF Build
<1>2. GraphInv' /\ edges' \subseteq PossibleEdges
  BY BuildGrows DEF PassInv, Grown
<1> QED
  BY <1>1, <1>2, CorrelatorAssumption DEF PassInv

LEMMA EditStep ==
  ASSUME PassInv, Edit
  PROVE  PassInv'
<1>1. GraphInv /\ GraphNext /\ phase = "collecting" /\ UNCHANGED <<phase, apply, pending>>
  BY DEF Edit, PassInv
<1>2. GraphInv'
  BY <1>1, GraphStep
<1>3. \A e \in edges : e[2] = "resolves_to" => KindOf[e[3]] = "ip_address"
  BY DEF PassInv
<1>4. \A e \in PossibleEdges : e[2] = "resolves_to" => KindOf[e[3]] = "ip_address"
  BY CorrelatorAssumption
<1>5. \A e \in edges' : e[2] = "resolves_to" => KindOf[e[3]] = "ip_address"
  <2>1. CASE \E k \in EditedKeys : RemoveEntity(k)
    BY <1>3, <2>1 DEF RemoveEntity
  <2>2. CASE \E k \in EditedKeys : \E o \in Observations : AddEntity(k, {o})
    BY <1>3, <2>2 DEF AddEntity
  <2>3. CASE \E e \in PossibleEdges : AddRelationship(e)
    BY <1>3, <1>4, <2>3 DEF AddRelationship, Added
  <2>4. CASE \E e \in PossibleEdges : \E o \in Observations : Connect(e, {o})
    BY <1>3, <1>4, <2>4 DEF Connect, Added
  <2>5. CASE \E p, d \in EditedKeys : MergeEntities(p, d)
    BY <1>1, <1>3, <2>5, GraphAssumption, MergeKeepsAddresses
  <2> QED
    BY <1>1, <2>1, <2>2, <2>3, <2>4, <2>5 DEF GraphNext
<1> QED
  BY <1>1, <1>2, <1>5 DEF PassInv

LEMMA CorrelateStep ==
  ASSUME Settling, PassInv, Correlate
  PROVE  PassInv'
<1>1. PICK confidence \in [OfKind("organization") -> 1..Cardinality(OfKind("organization"))] :
        pending' = {c \in Duplicates(confidence) : c.score >= MergeAt}
  BY DEF Correlate
<1>2. UNCHANGED graphState /\ phase' = "merging"
  BY DEF Correlate
<1>3. GraphInv /\ GraphInv' /\ (\A e \in edges' : e[2] = "resolves_to" => KindOf[e[3]] = "ip_address")
  BY <1>2 DEF PassInv, GraphInv, IndexesExact, graphState
<1>4. nodes \subseteq Keys
  BY <1>3 DEF GraphInv
<1>5. ASSUME NEW c \in pending'
      PROVE  /\ c.primary \in Keys /\ c.duplicate \in Keys /\ c.primary # c.duplicate
             /\ \/ KindOf[c.primary] = "organization" /\ KindOf[c.duplicate] = "organization"
                \/ c.duplicate \in DOMAIN Bare /\ c.primary = Bare[c.duplicate]
  <2>1. c \in Duplicates(confidence) /\ c.score >= MergeAt
    BY <1>1
  <2>2. CASE \E a, b \in Keys : SameOrganization(a, b)
                                /\ {c.primary, c.duplicate} = {a, b} /\ c.primary # c.duplicate
    <3>1. PICK a \in Keys, b \in Keys : /\ SameOrganization(a, b) /\ c.primary # c.duplicate
                                        /\ {c.primary, c.duplicate} = {a, b}
      BY <2>2
    <3>2. KindOf[a] = "organization" /\ KindOf[b] = "organization"
      BY <3>1 DEF SameOrganization, OfKind
    <3>3. c.primary \in {a, b} /\ c.duplicate \in {a, b}
      BY <3>1
    <3> QED
      BY <3>1, <3>2, <3>3
  <2>3. CASE SameDomain(c.duplicate) /\ c.primary = Bare[c.duplicate]
    <3>1. /\ c.duplicate \in nodes /\ c.duplicate \in DOMAIN Bare /\ Bare[c.duplicate] \in nodes
      BY <2>3 DEF SameDomain, OfKind
    <3>2. Bare[c.duplicate] # c.duplicate
      BY <3>1 DEF Settling
    <3> QED
      BY <1>4, <2>3, <3>1, <3>2
  <2> QED
    BY <1>3, <2>1, <2>2, <2>3, CandidatesAre
<1>6. \A a, b \in Keys : SameOrganization(a, b)' => SameOrganization(a, b)
  BY <1>2 DEF SameOrganization, OfKind, Alike, graphState
<1>7. \A d \in Keys : SameDomain(d)' => SameDomain(d)
  BY <1>2 DEF SameDomain, OfKind, Conflicting, ResolvedAddresses, graphState
<1>8. ASSUME NEW a \in Keys, NEW b \in Keys, SameOrganization(a, b)'
      PROVE  \E c \in pending' : {c.primary, c.duplicate} = {a, b}
  <2>1. SameOrganization(a, b)
    BY <1>6, <1>8
  <2>2. \A x, y \in Keys : SameOrganization(x, y) =>
          \E c \in Duplicates(confidence) :
            c.score >= MergeAt /\ {c.primary, c.duplicate} = {x, y}
    BY <1>3, CandidatesAre, Zenon
  <2>3. PICK c \in Duplicates(confidence) : c.score >= MergeAt /\ {c.primary, c.duplicate} = {a, b}
    BY <2>1, <2>2, Zenon
  <2> QED
    BY <1>1, <2>3
<1>9. ASSUME NEW d \in Keys, SameDomain(d)'
      PROVE  \E c \in pending' : {c.primary, c.duplicate} = {d, Bare[d]}
  <2>1. SameDomain(d)
    BY <1>7, <1>9
  <2>2. PICK c \in Duplicates(confidence) : /\ c.score >= MergeAt
                                            /\ {c.primary, c.duplicate} = {d, Bare[d]}
    BY <1>3, <2>1, CandidatesAre
  <2> QED
    BY <1>1, <2>2
<1> QED
  BY <1>2, <1>3, <1>5, <1>8, <1>9 DEF PassInv

\* A candidate that is handled is no pair of the graph any more, whether it was
\* merged now or had lost one of the two before.
LEMMA HandledIsGone ==
  ASSUME PassInv, NEW c \in pending,
         IF Mergeable(c.primary, c.duplicate) THEN nodes' = nodes \ {c.duplicate}
         ELSE UNCHANGED nodes
  PROVE  ~(c.primary \in nodes' /\ c.duplicate \in nodes')
<1>1. c.primary # c.duplicate /\ KindOf[c.primary] = KindOf[c.duplicate]
  BY CorrelatorAssumption DEF PassInv
<1> QED
  BY <1>1 DEF Mergeable

LEMMA MergeNextStep ==
  ASSUME Settling, PassInv, MergeNext
  PROVE  PassInv'
<1>1. PICK c \in pending :
        /\ phase = "merging" /\ pending' = pending \ {c}
        /\ IF apply /\ Mergeable(c.primary, c.duplicate) THEN MergeEntities(c.primary, c.duplicate)
           ELSE UNCHANGED graphState
        /\ UNCHANGED <<phase, apply, passes>>
  BY DEF MergeNext
<1>2. /\ GraphInv /\ c.primary \in Keys /\ c.duplicate \in Keys
      /\ \A e \in edges : e[2] = "resolves_to" => KindOf[e[3]] = "ip_address"
  BY DEF PassInv
<1>3. GraphInv'
  <2>1. CASE UNCHANGED graphState
    BY <1>2, <2>1 DEF graphState, GraphInv, IndexesExact
  <2>2. CASE MergeEntities(c.primary, c.duplicate)
    BY <1>2, <2>2, MergeStep
  <2> QED
    BY <1>1, <2>1, <2>2
<1>4. \A e \in edges' : e[2] = "resolves_to" => KindOf[e[3]] = "ip_address"
  <2>1. CASE UNCHANGED graphState
    BY <1>2, <2>1 DEF graphState
  <2>2. CASE MergeEntities(c.primary, c.duplicate)
    BY <1>2, <2>2, MergeKeepsAddresses
  <2> QED
    BY <1>1, <2>1, <2>2
<1>5. /\ \A a, b \in Keys : SameOrganization(a, b)' => SameOrganization(a, b)
      /\ \A d \in Keys : SameDomain(d)' => SameDomain(d)
  <2>1. CASE UNCHANGED graphState
    BY <2>1 DEF SameOrganization, SameDomain, OfKind, Alike, Conflicting, ResolvedAddresses, graphState
  <2>2. CASE MergeEntities(c.primary, c.duplicate)
    BY <1>3, <2>2, MergeBringsNone
  <2> QED
    BY <1>1, <2>1, <2>2
<1>6. apply => ~(c.primary \in nodes' /\ c.duplicate \in nodes')
  <2> SUFFICES ASSUME apply PROVE ~(c.primary \in nodes' /\ c.duplicate \in nodes')
    OBVIOUS
  <2>1. IF Mergeable(c.primary, c.duplicate) THEN nodes' = nodes \ {c.duplicate} ELSE UNCHANGED nodes
    BY <1>1 DEF MergeEntities, graphState
  <2> QED
    BY <2>1, HandledIsGone
<1>7. ASSUME apply, NEW a \in Keys, NEW b \in Keys, SameOrganization(a, b)'
      PROVE  \E o \in pending' : {o.primary, o.duplicate} = {a, b}
  <2>1. PICK o \in pending : {o.primary, o.duplicate} = {a, b}
    BY <1>1, <1>5, <1>7 DEF PassInv
  <2>2. a \in nodes' /\ b \in nodes'
    BY <1>7 DEF SameOrganization, OfKind
  <2>3. o # c
    BY <1>6, <1>7, <2>1, <2>2
  <2> QED
    BY <1>1, <2>1, <2>3
<1>8. ASSUME apply, NEW d \in Keys, SameDomain(d)'
      PROVE  \E o \in pending' : {o.primary, o.duplicate} = {d, Bare[d]}
  <2>1. PICK o \in pending : {o.primary, o.duplicate} = {d, Bare[d]}
    BY <1>1, <1>5, <1>8 DEF PassInv
  <2>2. d \in nodes' /\ Bare[d] \in nodes'
    BY <1>8 DEF SameDomain, OfKind
  <2>3. o # c
    BY <1>6, <1>8, <2>1, <2>2
  <2> QED
    BY <1>1, <2>1, <2>3
<1>9. \A o \in pending' : o \in pending
  BY <1>1
<1> QED
  BY <1>1, <1>3, <1>4, <1>7, <1>8, <1>9 DEF PassInv

LEMMA InferStep ==
  ASSUME PassInv, Infer
  PROVE  PassInv'
<1>1. /\ phase = "merging" /\ pending = {} /\ phase' = "done"
      /\ UNCHANGED <<nodes, known, apply, pending>>
      /\ IF apply THEN Added(Inferred) ELSE UNCHANGED <<edges, outEdges, inEdges>>
  BY DEF Infer
<1>2. GraphInv /\ (\A e \in edges : e[2] = "resolves_to" => KindOf[e[3]] = "ip_address")
  BY DEF PassInv
<1>3. CASE ~apply
  <2>1. UNCHANGED <<nodes, known, edges, outEdges, inEdges, pending>> /\ ~apply'
    BY <1>1, <1>3
  <2>2. GraphInv'
    BY <1>2, <2>1 DEF GraphInv, IndexesExact
  <2> QED
    BY <1>1, <1>2, <2>1, <2>2 DEF PassInv
<1>4. CASE apply
  <2>1. Added(Inferred)
    BY <1>1, <1>4
  <2>2. \A e \in Inferred : /\ e \in Triples /\ e[1] \in nodes /\ e[3] \in nodes /\ e[1] # e[3]
                            /\ e[2] # "resolves_to"
    BY <1>2, InferredLinks
  <2>3. GraphInv'
    BY <1>2, <1>4, InferGrows DEF Grown
  <2>4. \A e \in edges' : e[2] = "resolves_to" => KindOf[e[3]] = "ip_address"
    BY <1>2, <2>1, <2>2 DEF Added
  <2>5. /\ \A a, b \in Keys : ~SameOrganization(a, b)
        /\ \A d \in Keys : ~SameDomain(d)
    BY <1>1, <1>4 DEF PassInv
  <2>6. /\ Inferred' = {}
        /\ \A a, b \in Keys : ~SameOrganization(a, b)'
        /\ \A d \in Keys : ~SameDomain(d)'
    BY <1>1, <1>2, <2>1, <2>5, InferenceSettles
  <2> QED
    BY <1>1, <2>3, <2>4, <2>6 DEF PassInv
<1> QED
  BY <1>3, <1>4

\* Nothing the rules would merge or link is left by one applied pass: where the
\* rules propose no merge that is refused, and no www name of a www name.
THEOREM OnePassIsEnough ==
  ASSUME Settling
  PROVE  CorrelatorSpec => []OnePassSettles
<1>1. PassInv /\ [CorrelatorNext]_correlatorVars => PassInv'
  <2> SUFFICES ASSUME PassInv, [CorrelatorNext]_correlatorVars PROVE PassInv'
    OBVIOUS
  <2>1. CASE UNCHANGED correlatorVars
    <3>1. UNCHANGED <<graphState, phase, apply, pending>>
      BY <2>1 DEF correlatorVars
    <3>2. GraphInv'
      BY <3>1 DEF graphState, PassInv, GraphInv, IndexesExact
    <3>3. \A a, b \in Keys : SameOrganization(a, b)' = SameOrganization(a, b)
      BY <3>1 DEF graphState, SameOrganization, OfKind, Alike
    <3>4. \A d \in Keys : SameDomain(d)' = SameDomain(d)
      BY <3>1 DEF graphState, SameDomain, OfKind, Conflicting, ResolvedAddresses
    <3>5. Inferred' = Inferred
      BY <3>1 DEF graphState, Inferred, InferredSubdomains, InferredShared, InferredEmailDomains,
                  OfKind, Resolvers
    <3>6. \A e \in edges' : e[2] = "resolves_to" => KindOf[e[3]] = "ip_address"
      BY <3>1 DEF graphState, PassInv
    <3> QED
      BY <3>1, <3>2, <3>3, <3>4, <3>5, <3>6 DEF PassInv
  <2> QED
    BY <2>1, BuildStep, EditStep, CorrelateStep, MergeNextStep, InferStep DEF CorrelatorNext
<1>2. PassInv => OnePassSettles
  <2> SUFFICES ASSUME PassInv, phase = "done", apply
               PROVE  /\ \A c \in Duplicates([k \in Keys |-> 1]) : c.score < MergeAt
                      /\ Inferred = {}
    BY DEF OnePassSettles
  <2>1. /\ \A a, b \in Keys : ~SameOrganization(a, b)
        /\ \A d \in Keys : ~SameDomain(d)
        /\ Inferred = {} /\ GraphInv
    BY DEF PassInv
  <2>2. ASSUME NEW c \in Duplicates([k \in Keys |-> 1]) PROVE ~(c.score >= MergeAt)
    <3> SUFFICES ASSUME c.score >= MergeAt PROVE FALSE
      OBVIOUS
    <3>1. \/ \E a, b \in Keys : SameOrganization(a, b)
          \/ SameDomain(c.duplicate)
      BY <2>1, CandidatesAre
    <3>2. SameDomain(c.duplicate) => c.duplicate \in Keys
      BY <2>1 DEF SameDomain, OfKind, GraphInv
    <3> QED
      BY <2>1, <3>1, <3>2
  <2>3. \A c \in Duplicates([k \in Keys |-> 1]) : c.score < MergeAt
    <3>1. MergeAt \in Nat /\ \A c \in Duplicates([k \in Keys |-> 1]) : c.score \in Nat
      BY <2>1, CandidatesAre, CorrelatorAssumption
    <3>2. ASSUME NEW c \in Duplicates([k \in Keys |-> 1]) PROVE c.score < MergeAt
      <4>1. c.score \in Nat /\ ~(c.score >= MergeAt)
        BY <2>2, <3>1
      <4> QED
        BY <3>1, <4>1
    <3> QED
      BY <3>2
  <2> QED
    BY <2>1, <2>3
<1> QED
  BY <1>1, <1>2, PassStarts, PTL DEF CorrelatorSpec

-----------------------------------------------------------------------------
(* Inspection.                                                             *)

\* Neither client process nor container before the first is started; nothing is started
\* and nothing is in the loop for a URL that must not be fetched; what is waited for
\* was killed or has ended.
InspectInv ==
  /\ at \in {"new", "starting", "loop"} => process = "none" /\ container = "none"
  /\ at = "new" => chain = <<>>
  /\ at = "starting" => engine = "container"
  /\ at = "loop" => engine = "static"
  /\ process # "none" \/ container # "none" => engine = "container"
  /\ at \in {"starting", "loop"} \/ process # "none" \/ container # "none" =>
       current \in Fetchable
  /\ at \in {"running", "handling", "finally"} => process # "none"
  /\ at \in {"reaping", "reaping again"} => process \in {"killed", "exited"}
  /\ responses \in Seq(Urls) /\ current \in Urls \union Fetchable
  /\ engine = "static" => chain \in Seq(Fetchable)
  /\ chain \in Seq(Urls \union Fetchable)
  /\ InspectionContained

LEMMA InspectInitially == InspectInit => InspectInv
<1> SUFFICES ASSUME InspectInit PROVE InspectInv
  OBVIOUS
<1>1. /\ <<>> \in Seq(Fetchable) /\ <<>> \in Seq(Urls) /\ <<>> \in Seq(Urls \union Fetchable)
      /\ Len(<<>>) = 0 /\ DOMAIN <<>> = {}
  OBVIOUS
<1>2. IsInjective(<<>>) /\ ToSet(<<>>) \subseteq Fetchable
  BY <1>1 DEF IsInjective, ToSet
<1> QED
  BY <1>1, <1>2, InspectionAssumption DEF InspectInit, InspectInv, InspectionContained

\* One more fetch, of an URL that may be fetched and has not been.
LEMMA ChainGrows ==
  ASSUME InspectInv, engine = "static", current \in Fetchable, Len(chain) < MaxHops,
         ~Contains(chain, current)
  PROVE  /\ Append(chain, current) \in Seq(Fetchable) /\ Len(Append(chain, current)) <= MaxHops
         /\ IsInjective(Append(chain, current)) /\ ToSet(Append(chain, current)) \subseteq Fetchable
<1> DEFINE q == Append(chain, current)
           n == Len(chain)
<1>0. chain \in Seq(Fetchable) /\ IsInjective(chain)
  BY DEF InspectInv, InspectionContained
<1>1. /\ q \in Seq(Fetchable) /\ Len(q) = n + 1 /\ q[n + 1] = current /\ n \in Nat
      /\ DOMAIN q = 1..(n + 1) /\ DOMAIN chain = 1..n
      /\ \A i \in 1..n : q[i] = chain[i]
  BY <1>0
<1>2. \A i \in 1..n : chain[i] # current
  BY DEF Contains
<1>3. \A i \in 1..(n + 1) : q[i] \in Fetchable /\ (i \in 1..n \/ i = n + 1)
  BY <1>1
<1> HIDE DEF q, n
<1>4. ASSUME NEW i \in 1..(n + 1), NEW j \in 1..(n + 1), q[i] = q[j] PROVE i = j
  <2>1. CASE i \in 1..n /\ j \in 1..n
    <3>1. chain[i] = chain[j]
      BY <1>1, <1>4, <2>1
    <3> QED
      BY <1>0, <1>1, <2>1, <3>1 DEF IsInjective
  <2>2. CASE ~(i \in 1..n /\ j \in 1..n)
    BY <1>1, <1>2, <1>3, <1>4, <2>2
  <2> QED
    BY <2>1, <2>2
<1>5. IsInjective(q)
  BY <1>1, <1>4 DEF IsInjective
<1>6. ToSet(q) \subseteq Fetchable
  BY <1>1, <1>3 DEF ToSet
<1>7. Len(q) <= MaxHops
  BY <1>1, InspectionAssumption DEF n
<1> QED
  BY <1>1, <1>5, <1>6, <1>7 DEF q

LEMMA EmptyChain ==
  <<>> \in Seq(Fetchable) /\ IsInjective(<<>>) /\ ToSet(<<>>) \subseteq Fetchable
BY DEF IsInjective, ToSet

LEMMA WiderSeq == ASSUME NEW S, NEW T, S \subseteq T, NEW s \in Seq(S) PROVE s \in Seq(T)
OBVIOUS

\* What a report keeps of the container's answers.
LEMMA CutShort ==
  ASSUME NEW s \in Seq(Urls), NEW n \in 0..Len(s), n <= MaxHops
  PROVE  SubSeq(s, 1, n) \in Seq(Urls \union Fetchable) /\ Len(SubSeq(s, 1, n)) <= MaxHops
<1>1. SubSeq(s, 1, n) \in Seq(Urls) /\ Len(SubSeq(s, 1, n)) = n
  OBVIOUS
<1> QED
  BY <1>1, WiderSeq

LEMMA Shorter ==
  ASSUME NEW s \in Seq(Urls), NEW n, n = IF Len(s) < MaxHops THEN Len(s) ELSE MaxHops
  PROVE  n \in 0..Len(s) /\ n <= MaxHops
BY InspectionAssumption

\* The first answer is the one to the URL asked for.
LEMMA FirstAnswer ==
  ASSUME NEW s \in Seq(Urls), NEW url \in Urls, NEW asked,
         s = <<>> => url = asked, asked \in Fetchable, s # <<>> => s[1] \in Fetchable
  PROVE  Append(s, url) \in Seq(Urls) /\ Append(s, url)[1] \in Fetchable
<1>1. CASE s = <<>>
  BY <1>1
<1>2. CASE s # <<>>
  <2>1. Append(s, url)[1] = s[1]
    BY <1>2
  <2> QED
    BY <1>2, <2>1
<1> QED
  BY <1>1, <1>2

LEMMA InspectStep == InspectInv /\ [InspectNext]_inspectVars => InspectInv'
<1> SUFFICES ASSUME InspectInv, [InspectNext]_inspectVars PROVE InspectInv'
  OBVIOUS
<1> USE DEF InspectInv, InspectionContained
<1>1. CASE Choose
  BY <1>1, EmptyChain DEF Choose, End
<1>2. CASE Start
  BY <1>2 DEF Start, End, browser
<1>3. CASE ContainerStarts \/ ContainerEnds \/ ProcessExits
  BY <1>3 DEF ContainerStarts, ContainerEnds, ProcessExits, browser
<1>12. CASE Browse
  <2>1. PICK url \in Urls : /\ responses = <<>> => url = current
                            /\ responses' = Append(responses, url)
    BY <1>12 DEF Browse
  <2>2. current \in Fetchable /\ responses \in Seq(Urls)
    BY <1>12 DEF Browse
  <2>3. responses' \in Seq(Urls) /\ responses'[1] \in Fetchable
    BY <2>1, <2>2, FirstAnswer
  <2> QED
    BY <1>12, <2>3 DEF Browse
<1>4. CASE Communicated
  <2>1. CASE UNCHANGED chain
    BY <1>4, <2>1 DEF Communicated, browser
  <2>2. CASE chain' = SubSeq(responses, 1, IF Len(responses) < MaxHops THEN Len(responses) ELSE MaxHops)
    <3>1. chain' \in Seq(Urls \union Fetchable) /\ Len(chain') <= MaxHops
      <4> DEFINE n == IF Len(responses) < MaxHops THEN Len(responses) ELSE MaxHops
      <4>1. n \in 0..Len(responses) /\ n <= MaxHops /\ responses \in Seq(Urls)
        BY Shorter
      <4> HIDE DEF n
      <4> QED
        BY <2>2, <4>1, CutShort DEF n
    <3>2. engine = "container"
      BY <1>4 DEF Communicated
    <3> QED
      BY <1>4, <3>1, <3>2 DEF Communicated, browser
  <2> QED
    BY <1>4, <2>1, <2>2 DEF Communicated
<1>5. CASE TimedOut
  BY <1>5 DEF TimedOut, browser
<1>6. CASE Cancelled
  BY <1>6 DEF Cancelled, browser
<1>7. CASE Terminate
  <2>1. UNCHANGED <<engine, browser, chain, current, ending>> /\ at \in {"handling", "finally"}
    BY <1>7 DEF Terminate
  <2>2. CASE process = "exited" /\ UNCHANGED process /\ at' \in {"finally", "over"}
    BY <2>1, <2>2 DEF browser
  <2>3. CASE process # "exited" /\ process' = "killed" /\ at' \in {"reaping", "reaping again"}
    BY <2>1, <2>3 DEF browser
  <2> QED
    BY <1>7, <2>2, <2>3 DEF Terminate
<1>8. CASE Reaped
  BY <1>8 DEF Reaped, browser
<1>9. CASE Fetch
  <2>1. CASE UNCHANGED chain
    BY <1>9, <2>1 DEF Fetch, End, browser
  <2>2. CASE chain' = Append(chain, current)
    <3>1. /\ current \in Fetchable /\ Len(chain) < MaxHops /\ ~Contains(chain, current)
          /\ at = "loop" /\ engine = "static"
      BY <1>9 DEF Fetch
    <3>2. /\ chain' \in Seq(Fetchable) /\ Len(chain') <= MaxHops
          /\ IsInjective(chain') /\ ToSet(chain') \subseteq Fetchable
      BY <2>2, <3>1, ChainGrows
    <3>3. /\ UNCHANGED <<process, container, responses, engine>>
          /\ process = "none" /\ container = "none"
          /\ at' \in {"loop", "over"} /\ current' \in Fetchable
      BY <1>9, <3>1 DEF Fetch, End, browser
    <3>4. chain' \in Seq(Urls \union Fetchable)
      BY <3>2, WiderSeq
    <3> QED
      BY <3>1, <3>2, <3>3, <3>4
  <2> QED
    BY <1>9, <2>1, <2>2 DEF Fetch
<1>10. CASE StopFollowing
  BY <1>10 DEF StopFollowing, LeaveLoop, End, browser
<1>11. CASE UNCHANGED inspectVars
  BY <1>11 DEF inspectVars
<1> QED
  BY <1>1, <1>2, <1>3, <1>4, <1>5, <1>6, <1>7, <1>8, <1>9, <1>10, <1>11,
     <1>12 DEF InspectNext

\* However an inspection ends, its client process was killed if it did not end by itself
\* and its report is bounded; for every site and limit nothing is started with a URL
\* that must not be fetched, and the static inspector fetches no other, none twice and
\* no more than the limit.  (The container's browser is not contained by this code.)
THEOREM InspectionIsContained == InspectSpec => []InspectionContained
<1>1. InspectInv => InspectionContained
  BY DEF InspectInv
<1> QED
  BY <1>1, InspectInitially, InspectStep, PTL DEF InspectSpec

-----------------------------------------------------------------------------
(* Host.                                                                   *)

\* What an operation may have still to do.
Remaining ==
  CASE setup.op = "status" -> {<<"look">>, <<"interface">>, <<>>}
    [] setup.op = "connect" -> {<<"look", "up", "look">>, <<"interface", "up", "look">>,
                                <<"up", "look">>, <<"look">>, <<"interface">>, <<>>}
    [] setup.op = "disconnect" -> {<<"down">>, <<>>}
    [] setup.op = "reconnect" -> {<<"down", "up", "look">>, <<"up", "look">>, <<"look">>,
                                  <<"interface">>, <<>>}
    [] setup.op = "leaks" -> {<<"public_ip", "default_route", "dns">>, <<"default_route", "dns">>,
                              <<"dns">>, <<>>}
    [] setup.op = "firewall" -> {<<"iptables", "ip6tables">>, <<"ip6tables">>, <<>>}
    [] setup.op = "health" -> {<<"resources", "latency">>, <<"latency">>, <<>>}

\* The checks an operation has behind it, each with a status.
Statuses == {"ok", "leak", "unknown"}

ChecksDone ==
  setup.op = "leaks" =>
    /\ Step("public_ip") => seen = {}
    /\ Step("default_route") => \E ip \in Statuses : seen = {<<"public_ip", ip>>}
    /\ Step("dns") =>
         \E ip, route \in Statuses : seen = {<<"public_ip", ip>>, <<"default_route", route>>}

HostInv ==
  /\ setup \in Setups /\ link \in Links(setup.backend)
  /\ todo \in Remaining
  /\ Step("interface") => setup.executes
  /\ answer # "none" => todo = <<>>
  /\ ChecksDone
  /\ AnswersTrue

LEMMA HostInitially == HostInit => HostInv
<1> SUFFICES ASSUME HostInit PROVE HostInv
  OBVIOUS
<1>1. setup \in Setups /\ link \in Links(setup.backend) /\ seen = {} /\ answer = "none"
      /\ todo = Steps(setup.op, setup.backend)
  BY DEF HostInit
<1>2. setup.op \in {"status", "connect", "disconnect", "reconnect", "leaks", "firewall", "health"}
  BY <1>1 DEF Setups
<1>3. todo \in Remaining /\ ~Step("interface")
  BY <1>1, <1>2 DEF Steps, Remaining, Step
<1>4. setup.op = "leaks" => ~Step("default_route") /\ ~Step("dns")
  BY <1>1 DEF Steps, Step
<1> QED
  BY <1>1, <1>3, <1>4 DEF HostInv, ChecksDone, AnswersTrue

\* A step is one of its operation's, and leaves the rest of it to do.
LEMMA StepsOf ==
  ASSUME HostInv, todo # <<>>
  PROVE  /\ answer = "none"
         /\ Step("look") => setup.op \in {"status", "connect", "reconnect"}
         /\ Step("interface") => setup.op \in {"status", "connect", "reconnect"} /\ setup.executes
         /\ Step("up") => setup.op \in {"connect", "reconnect"}
         /\ Step("down") => setup.op \in {"disconnect", "reconnect"}
         /\ Step("iptables") \/ Step("ip6tables") => setup.op = "firewall"
         /\ Step("public_ip") => setup.op = "leaks" /\ todo = <<"public_ip", "default_route", "dns">>
         /\ Step("default_route") => setup.op = "leaks" /\ todo = <<"default_route", "dns">>
         /\ Step("dns") => setup.op = "leaks" /\ todo = <<"dns">>
         /\ Step("resources") \/ Step("latency") => setup.op = "health"
<1>1. setup.op \in {"status", "connect", "disconnect", "reconnect", "leaks", "firewall", "health"}
  BY DEF HostInv, Setups
<1>2. todo \in Remaining
  BY DEF HostInv
<1>3. CASE setup.op = "status"
  BY <1>2, <1>3 DEF HostInv, Remaining, Step
<1>4. CASE setup.op = "connect"
  BY <1>2, <1>4 DEF HostInv, Remaining, Step
<1>5. CASE setup.op = "disconnect"
  BY <1>2, <1>5 DEF HostInv, Remaining, Step
<1>6. CASE setup.op = "reconnect"
  BY <1>2, <1>6 DEF HostInv, Remaining, Step
<1>7. CASE setup.op = "leaks"
  BY <1>2, <1>7 DEF HostInv, Remaining, Step
<1>8. CASE setup.op = "firewall"
  BY <1>2, <1>8 DEF HostInv, Remaining, Step
<1>9. CASE setup.op = "health"
  BY <1>2, <1>9 DEF HostInv, Remaining, Step
<1> QED
  BY <1>1, <1>3, <1>4, <1>5, <1>6, <1>7, <1>8, <1>9

LEMMA Prefixed ==
  ASSUME NEW a, NEW b, NEW c PROVE <<a>> \o <<b, c>> = <<a, b, c>>
<1> DEFINE S == {a, b, c}
           p == <<a>>
           q == <<b, c>>
           r == <<a, b, c>>
<1>1. /\ p \in Seq(S) /\ q \in Seq(S) /\ r \in Seq(S)
      /\ Len(p) = 1 /\ Len(q) = 2 /\ Len(r) = 3
      /\ p[1] = a /\ q[1] = b /\ q[2] = c /\ r[1] = a /\ r[2] = b /\ r[3] = c
  OBVIOUS
<1> HIDE DEF p, q, r
<1>2. /\ p \o q \in Seq(S) /\ Len(p \o q) = 3
      /\ \A i \in 1..3 : (p \o q)[i] = IF i <= 1 THEN p[i] ELSE q[i - 1]
  <2>1. /\ p \o q \in Seq(S) /\ Len(p \o q) = Len(p) + Len(q)
        /\ \A i \in 1..(Len(p) + Len(q)) :
             (p \o q)[i] = IF i <= Len(p) THEN p[i] ELSE q[i - Len(p)]
    <3>1. p \in Seq(S) /\ q \in Seq(S)
      BY <1>1
    <3> QED
      BY <3>1, ConcatProperties
  <2> QED
    BY <1>1, <2>1
<1>3. (p \o q)[1] = p[1] /\ (p \o q)[2] = q[1] /\ (p \o q)[3] = q[2]
  BY <1>2
<1>4. \A i \in 1..3 : i = 1 \/ i = 2 \/ i = 3
  OBVIOUS
<1>5. \A i \in 1..Len(r) : (p \o q)[i] = r[i]
  BY <1>1, <1>3, <1>4
<1>6. p \o q = r
  BY <1>1, <1>2, <1>5, SeqEqual
<1> QED
  BY <1>6 DEF p, q, r

LEMMA Tails ==
  ASSUME NEW a, NEW b, NEW c
  PROVE  /\ Tail(<<a>>) = <<>> /\ Tail(<<a, b>>) = <<b>> /\ Tail(<<a, b, c>>) = <<b, c>>
         /\ Head(<<a>>) = a /\ Head(<<a, b>>) = a /\ Head(<<a, b, c>>) = a
         /\ Len(<<a>>) = 1 /\ Len(<<a, b>>) = 2 /\ Len(<<a, b, c>>) = 3
         /\ <<a>> \o <<>> = <<a>> /\ <<a>> \o <<b, c>> = <<a, b, c>>
         /\ <<a>> # <<>> /\ <<a, b>> # <<>> /\ <<a, b, c>> # <<>>
<1> DEFINE S == {a, b, c}
<1>1. <<a>> \in Seq(S) /\ <<a, b>> \in Seq(S) /\ <<a, b, c>> \in Seq(S) /\ <<b, c>> \in Seq(S)
      /\ <<>> \in Seq(S)
  OBVIOUS
<1>2. Tail(<<a>>) = <<>> /\ Tail(<<a, b>>) = <<b>> /\ Tail(<<a, b, c>>) = <<b, c>>
  OBVIOUS
<1>3. <<a>> \o <<>> = <<a>>
  OBVIOUS
<1>4. <<a>> \o <<b, c>> = <<a, b, c>>
  BY Prefixed
<1>5. /\ Head(<<a>>) = a /\ Head(<<a, b>>) = a /\ Head(<<a, b, c>>) = a
      /\ Len(<<a>>) = 1 /\ Len(<<a, b>>) = 2 /\ Len(<<a, b, c>>) = 3
  OBVIOUS
<1> QED
  BY <1>2, <1>3, <1>4, <1>5

LEMMA TailRemains ==
  ASSUME HostInv, todo # <<>>
  PROVE  /\ Tail(todo) \in Remaining /\ <<>> \in Remaining
         /\ Tail(todo) # <<>> => Head(Tail(todo)) # "interface"
         /\ Step("look") => <<"interface">> \o Tail(todo) \in Remaining
         /\ Len(todo) = 1 <=> Tail(todo) = <<>>
<1> DEFINE Fine(t, rest) ==
             /\ Tail(t) \in rest /\ <<>> \in rest
             /\ Tail(t) # <<>> => Head(Tail(t)) # "interface"
             /\ Head(t) = "look" => <<"interface">> \o Tail(t) \in rest
             /\ Len(t) = 1 <=> Tail(t) = <<>>
<1>1. setup.op \in {"status", "connect", "disconnect", "reconnect", "leaks", "firewall", "health"}
  BY DEF HostInv, Setups
<1>2. todo \in Remaining
  BY DEF HostInv
<1>3. CASE setup.op = "status"
  <2>1. Remaining = {<<"look">>, <<"interface">>, <<>>}
    BY <1>3 DEF Remaining
  <2>2. Fine(<<"look">>, Remaining) /\ Fine(<<"interface">>, Remaining)
    BY <2>1, Tails
  <2> QED
    BY <1>2, <2>1, <2>2 DEF Step
<1>4. CASE setup.op = "connect"
  <2>1. Remaining = {<<"look", "up", "look">>, <<"interface", "up", "look">>, <<"up", "look">>,
                     <<"look">>, <<"interface">>, <<>>}
    BY <1>4 DEF Remaining
  <2>2. Fine(<<"look", "up", "look">>, Remaining)
    <3>1. Tail(<<"look", "up", "look">>) = <<"up", "look">> /\ Len(<<"look", "up", "look">>) = 3
      BY Tails
    <3>2. <<"interface">> \o <<"up", "look">> = <<"interface", "up", "look">>
      BY Prefixed, Zenon
    <3>3. Head(<<"up", "look">>) = "up" /\ <<"up", "look">> # <<>>
      BY Tails
    <3> QED
      BY <2>1, <3>1, <3>2, <3>3
  <2>3. Fine(<<"interface", "up", "look">>, Remaining) /\ Fine(<<"up", "look">>, Remaining)
    BY <2>1, Tails
  <2>4. Fine(<<"look">>, Remaining) /\ Fine(<<"interface">>, Remaining)
    BY <2>1, Tails
  <2> QED
    BY <1>2, <2>1, <2>2, <2>3, <2>4 DEF Step
<1>5. CASE setup.op = "disconnect"
  <2>1. Remaining = {<<"down">>, <<>>}
    BY <1>5 DEF Remaining
  <2>2. Fine(<<"down">>, Remaining)
    BY <2>1, Tails
  <2> QED
    BY <1>2, <2>1, <2>2 DEF Step
<1>6. CASE setup.op = "reconnect"
  <2>1. Remaining = {<<"down", "up", "look">>, <<"up", "look">>, <<"look">>, <<"interface">>, <<>>}
    BY <1>6 DEF Remaining
  <2>2. Fine(<<"down", "up", "look">>, Remaining) /\ Fine(<<"up", "look">>, Remaining)
    BY <2>1, Tails
  <2>3. Fine(<<"look">>, Remaining) /\ Fine(<<"interface">>, Remaining)
    BY <2>1, Tails
  <2> QED
    BY <1>2, <2>1, <2>2, <2>3 DEF Step
<1>7. CASE setup.op = "leaks"
  <2>1. Remaining = {<<"public_ip", "default_route", "dns">>, <<"default_route", "dns">>,
                     <<"dns">>, <<>>}
    BY <1>7 DEF Remaining
  <2>2. /\ Fine(<<"public_ip", "default_route", "dns">>, Remaining)
        /\ Fine(<<"default_route", "dns">>, Remaining) /\ Fine(<<"dns">>, Remaining)
    BY <2>1, Tails
  <2> QED
    BY <1>2, <2>1, <2>2 DEF Step
<1>8. CASE setup.op = "firewall"
  <2>1. Remaining = {<<"iptables", "ip6tables">>, <<"ip6tables">>, <<>>}
    BY <1>8 DEF Remaining
  <2>2. Fine(<<"iptables", "ip6tables">>, Remaining) /\ Fine(<<"ip6tables">>, Remaining)
    BY <2>1, Tails
  <2> QED
    BY <1>2, <2>1, <2>2 DEF Step
<1>9. CASE setup.op = "health"
  <2>1. Remaining = {<<"resources", "latency">>, <<"latency">>, <<>>}
    BY <1>9 DEF Remaining
  <2>2. Fine(<<"resources", "latency">>, Remaining) /\ Fine(<<"latency">>, Remaining)
    BY <2>1, Tails
  <2> QED
    BY <1>2, <2>1, <2>2 DEF Step
<1> QED
  BY <1>1, <1>3, <1>4, <1>5, <1>6, <1>7, <1>8, <1>9

\* An operation ends,
LEMMA EndKept ==
  ASSUME HostInv, todo # <<>>, UNCHANGED setup, link' \in Links(setup.backend), todo' = <<>>,
         AnswersTrue'
  PROVE  HostInv'
<1>1. <<>> \in Remaining
  BY TailRemains
<1> QED
  BY <1>1 DEF HostInv, Remaining, ChecksDone, Step, Setups

\* or goes on.
LEMMA RestKept ==
  ASSUME HostInv, todo # <<>>, UNCHANGED <<setup, answer>>, link' \in Links(setup.backend),
         todo' = Tail(todo), setup.op # "leaks"
  PROVE  HostInv'
<1>1. answer = "none"
  BY StepsOf
<1>2. Tail(todo) \in Remaining /\ (Tail(todo) # <<>> => Head(Tail(todo)) # "interface")
  BY TailRemains
<1>3. todo' \in Remaining'
  BY <1>2 DEF Remaining
<1>4. ~Step("interface")'
  BY <1>2 DEF Step
<1> QED
  BY <1>1, <1>3, <1>4 DEF HostInv, ChecksDone, AnswersTrue

\* A command that sudo refused, or that could not be run.
LEMMA RaisedKept ==
  ASSUME HostInv, todo # <<>>, UNCHANGED setup, link' \in Links(setup.backend), setup.op # "leaks",
         NEW result, Raised(result), result = "refused" => ~setup.rules
  PROVE  HostInv'
<1>1. /\ todo' = <<>> /\ answer' = IF result = "refused" THEN "PrivilegeError" ELSE "CommandError"
  BY DEF Raised, Ends
<1>2. AnswersTrue'
  BY <1>1 DEF AnswersTrue
<1> QED
  BY <1>1, <1>2, EndKept

\* A look at the tunnel says that it is up only if it is.
LEMMA ReportedKept ==
  ASSUME HostInv, Step("look") \/ Step("interface"), UNCHANGED <<setup, link>>,
         NEW state \in {"up", "down", "unknown", "connecting", "degraded"}, Reported(state),
         state = "up" => setup.executes /\ link \in {"fresh"} \union Present
  PROVE  HostInv'
<1>1. todo # <<>> /\ link' \in Links(setup.backend)
  BY DEF Step, HostInv
<1>2. setup.op \in {"status", "connect", "reconnect"}
  BY <1>1, StepsOf
<1>3. seen' = {link}
  BY DEF Reported
<1>4. CASE Ends(state)
  <2>1. answer' = state /\ todo' = <<>>
    BY <1>4 DEF Ends
  <2>2. AnswersTrue'
    BY <1>2, <1>3, <2>1 DEF AnswersTrue
  <2> QED
    BY <1>1, <1>2, <2>1, <2>2, EndKept
<1>5. CASE todo' = Tail(todo) /\ UNCHANGED answer
  BY <1>1, <1>2, <1>5, RestKept
<1> QED
  BY <1>4, <1>5 DEF Reported

\* With the rules that plan_for() prints, sudo refuses none of the commands
\* that tunnels and the kill-switch run.
LEMMA NotRefused ==
  ASSUME NEW command, NEW privileged \in BOOLEAN, "refused" \in Outcomes(command, privileged)
  PROVE  privileged /\ ~(setup.rules /\ command \in Grants)
BY DEF Outcomes

LEMMA Runs ==
  ASSUME NEW command, NEW privileged, "ok" \in Outcomes(command, privileged)
  PROVE  setup.executes
BY DEF Outcomes

LEMMA Granted ==
  ASSUME HostInv
  PROVE  /\ setup.backend = "wireguard" => <<"wg", "show">> \in Grants /\ <<"wg-quick", "up">> \in Grants
                                           /\ <<"wg-quick", "down">> \in Grants
         /\ setup.backend # "wireguard" => <<"systemctl", "start">> \in Grants
                                           /\ <<"systemctl", "stop">> \in Grants
         /\ <<"iptables", "-A">> \in Grants /\ <<"ip6tables", "-A">> \in Grants
BY DEF Grants

LEMMA LookKept ==
  ASSUME HostInv, LookAtWireGuard \/ LookAtUnit \/ LookAtInterface
  PROVE  HostInv'
<1>1. CASE LookAtWireGuard
  <2>1. PICK result \in Outcomes(<<"wg", "show">>, TRUE) :
          Reported(CASE result = "ok" -> Dump [] result = "failed" -> "down" [] OTHER -> "unknown")
    BY <1>1 DEF LookAtWireGuard
  <2>2. Step("look") /\ UNCHANGED <<setup, link>> /\ setup.backend = "wireguard"
    BY <1>1 DEF LookAtWireGuard
  <2>3. link \in {"absent", "no_peer", "garbled", "no_handshake", "fresh", "stale"}
    BY <2>2 DEF HostInv, Links
  <2>4. Dump \in {"up", "down", "unknown", "connecting", "degraded"} /\ (Dump = "up" => link = "fresh")
    BY <2>3 DEF Dump
  <2>5. CASE result = "ok"
    <3>1. Reported(Dump) /\ setup.executes
      BY <2>1, <2>5, Runs
    <3> QED
      BY <2>2, <2>4, <3>1, ReportedKept
  <2>6. CASE result # "ok"
    BY <2>1, <2>2, <2>6, ReportedKept
  <2> QED
    BY <2>5, <2>6
<1>2. CASE LookAtUnit
  <2>1. PICK result \in Outcomes(<<"systemctl", "is-active">>, FALSE) :
          IF result = "ok" /\ link # "inactive"
          THEN todo' = <<"interface">> \o Tail(todo) /\ UNCHANGED <<seen, answer>>
          ELSE Reported(IF result \in {"error", "planned"} THEN "unknown" ELSE "down")
    BY <1>2 DEF LookAtUnit
  <2>2. Step("look") /\ UNCHANGED <<setup, link>>
    BY <1>2 DEF LookAtUnit
  <2>3. todo # <<>>
    BY <2>2 DEF Step
  <2>4. CASE result = "ok" /\ link # "inactive"
    <3>1. setup.executes /\ setup.op # "leaks" /\ answer = "none"
      BY <2>1, <2>2, <2>3, <2>4, Runs, StepsOf
    <3>2. todo' \in Remaining'
      BY <2>1, <2>2, <2>3, <2>4, TailRemains DEF Remaining
    <3> QED
      BY <2>1, <2>2, <2>4, <3>1, <3>2 DEF HostInv, ChecksDone, AnswersTrue
  <2>5. CASE ~(result = "ok" /\ link # "inactive")
    BY <2>1, <2>2, <2>5, ReportedKept
  <2> QED
    BY <2>4, <2>5
<1>3. CASE LookAtInterface
  <2>1. PICK result \in Outcomes(<<"ip", "link">>, FALSE) :
          IF result = "error" THEN Raised(result) /\ UNCHANGED seen
          ELSE Reported(IF result = "failed" \/ link \notin Present THEN "connecting" ELSE "up")
    BY <1>3 DEF LookAtInterface
  <2>2. Step("interface") /\ UNCHANGED <<setup, link>> /\ todo # <<>>
    BY <1>3 DEF LookAtInterface, Step
  <2>3. setup.executes /\ setup.op # "leaks" /\ link' \in Links(setup.backend)
    BY <2>2, StepsOf DEF HostInv
  <2>4. CASE result = "error"
    BY <2>1, <2>2, <2>3, <2>4, RaisedKept
  <2>5. CASE result # "error"
    BY <2>1, <2>2, <2>3, <2>5, ReportedKept
  <2> QED
    BY <2>4, <2>5
<1> QED
  BY <1>1, <1>2, <1>3

LEMMA BringKept ==
  ASSUME HostInv, Step("up") \/ Step("down"), NEW up \in BOOLEAN, NEW command \in Grants,
         Bring(up, command)
  PROVE  HostInv'
<1>1. todo # <<>> /\ UNCHANGED <<setup, seen>>
  BY DEF Step, Bring
<1>2. setup.op \in {"connect", "reconnect", "disconnect"} /\ answer = "none"
  BY <1>1, StepsOf
<1>3. link' \in Links(setup.backend)
  <2>1. Gone(setup.backend) \in Links(setup.backend)
    BY DEF HostInv, Setups, Gone, Links
  <2> QED
    BY <2>1 DEF Bring, HostInv
<1>4. PICK result \in Outcomes(command, TRUE) :
        IF result \in {"error", "refused"} THEN Raised(result)
        ELSE IF result = "failed" /\ (up \/ Len(todo) = 1)
             THEN Ends(IF setup.op = "reconnect" THEN "down" ELSE "VpnError")
        ELSE IF Len(todo) = 1 THEN Ends("down")
        ELSE todo' = Tail(todo) /\ UNCHANGED answer
  BY DEF Bring
<1>5. CASE Raised(result) /\ result \in {"error", "refused"}
  <2>1. result = "refused" => ~setup.rules
    BY NotRefused
  <2> QED
    BY <1>1, <1>2, <1>3, <1>5, <2>1, RaisedKept
<1>6. CASE Ends("down") \/ Ends("VpnError")
  <2>1. answer' \in {"down", "VpnError"} /\ todo' = <<>>
    BY <1>6 DEF Ends
  <2>2. AnswersTrue'
    BY <2>1 DEF AnswersTrue
  <2> QED
    BY <1>1, <1>2, <1>3, <2>1, <2>2, EndKept
<1>7. CASE todo' = Tail(todo) /\ UNCHANGED answer
  BY <1>1, <1>2, <1>3, <1>7, RestKept
<1> QED
  BY <1>4, <1>5, <1>6, <1>7

LEMMA RuleKept ==
  ASSUME HostInv, Rule
  PROVE  HostInv'
<1>1. /\ Step("iptables") \/ Step("ip6tables")
      /\ todo # <<>> /\ UNCHANGED <<setup, link, seen>> /\ link' \in Links(setup.backend)
  BY DEF Rule, Step, HostInv
<1>2. setup.op = "firewall" /\ <<Head(todo), "-A">> \in Grants
  BY <1>1, StepsOf, Granted DEF Step
<1>3. PICK result \in Outcomes(<<Head(todo), "-A">>, TRUE) :
        IF result \notin {"ok", "planned"} THEN Raised(result)
        ELSE IF Len(todo) = 1 THEN Ends("applied")
        ELSE todo' = Tail(todo) /\ UNCHANGED answer
  BY DEF Rule
<1>4. CASE Raised(result)
  <2>1. result = "refused" => ~setup.rules
    BY <1>2, NotRefused
  <2> QED
    BY <1>1, <1>2, <1>4, <2>1, RaisedKept
<1>5. CASE Ends("applied")
  <2>1. answer' = "applied" /\ todo' = <<>>
    BY <1>5 DEF Ends
  <2>2. AnswersTrue'
    BY <2>1 DEF AnswersTrue
  <2> QED
    BY <1>1, <1>2, <2>1, <2>2, EndKept
<1>6. CASE todo' = Tail(todo) /\ UNCHANGED answer
  BY <1>1, <1>2, <1>6, RestKept
<1> QED
  BY <1>3, <1>4, <1>5, <1>6

\* A check adds its status to those before it; the last of the three tells.
LEMMA CheckedKept ==
  ASSUME HostInv, Step("public_ip") \/ Step("default_route") \/ Step("dns"),
         NEW status \in Statuses, Checked(status), Step("dns") /\ status = "ok" => setup.executes
  PROVE  HostInv'
<1>1. /\ todo # <<>> /\ UNCHANGED <<setup, link>> /\ link' \in Links(setup.backend)
      /\ seen' = seen \union {<<Head(todo), status>>}
  BY DEF Step, Checked, HostInv
<1>2. setup.op = "leaks" /\ answer = "none"
  BY <1>1, StepsOf
<1>3. Tail(todo) \in Remaining /\ (Tail(todo) # <<>> => Head(Tail(todo)) # "interface")
  BY <1>1, TailRemains
<1>4. CASE Step("public_ip")
  <2>1. todo = <<"public_ip", "default_route", "dns">> /\ seen = {}
    BY <1>1, <1>2, <1>4, StepsOf DEF HostInv, ChecksDone
  <2>2. Len(todo) = 3 /\ Head(todo) = "public_ip" /\ Tail(todo) = <<"default_route", "dns">>
    <3>1. Len(<<"public_ip", "default_route", "dns">>) = 3
      OBVIOUS
    <3>2. /\ Head(<<"public_ip", "default_route", "dns">>) = "public_ip"
          /\ Tail(<<"public_ip", "default_route", "dns">>) = <<"default_route", "dns">>
      BY Tails
    <3> QED
      BY <2>1, <3>1, <3>2
  <2>3. todo' = <<"default_route", "dns">> /\ UNCHANGED answer
    <3>1. Len(todo) # 1
      BY <2>2
    <3>2. todo' = Tail(todo) /\ UNCHANGED answer
      BY <3>1, Zenon DEF Checked
    <3> QED
      BY <2>2, <3>2
  <2>4. Head(todo') = "default_route"
    BY <2>3, Tails
  <2>5. seen' = {<<"public_ip", status>>}
    BY <1>1, <2>1, <2>2
  <2>6. ChecksDone'
    BY <2>4, <2>5 DEF ChecksDone, Step
  <2>7. todo' \in Remaining'
    BY <1>1, <1>3, <2>2, <2>3 DEF Remaining
  <2> QED
    BY <1>1, <1>2, <2>3, <2>4, <2>6, <2>7 DEF HostInv, Step, AnswersTrue
<1>5. CASE Step("default_route")
  <2>1. todo = <<"default_route", "dns">>
    BY <1>1, <1>5, StepsOf
  <2>2. PICK ip \in Statuses : seen = {<<"public_ip", ip>>}
    BY <1>2, <1>5 DEF HostInv, ChecksDone
  <2>3. Len(todo) = 2 /\ Head(todo) = "default_route" /\ Tail(todo) = <<"dns">>
    <3>1. Len(<<"default_route", "dns">>) = 2
      OBVIOUS
    <3>2. /\ Head(<<"default_route", "dns">>) = "default_route"
          /\ Tail(<<"default_route", "dns">>) = <<"dns">>
      BY Tails
    <3> QED
      BY <2>1, <3>1, <3>2
  <2>4. todo' = <<"dns">> /\ UNCHANGED answer
    <3>1. Len(todo) # 1
      BY <2>3
    <3>2. todo' = Tail(todo) /\ UNCHANGED answer
      BY <3>1, Zenon DEF Checked
    <3> QED
      BY <2>3, <3>2
  <2>5. Head(todo') = "dns"
    BY <2>4, Tails
  <2>6. seen' = {<<"public_ip", ip>>, <<"default_route", status>>}
    BY <1>1, <2>2, <2>3
  <2>7. ChecksDone'
    BY <2>5, <2>6 DEF ChecksDone, Step
  <2>8. todo' \in Remaining'
    BY <1>1, <1>3, <2>3, <2>4 DEF Remaining
  <2> QED
    BY <1>1, <1>2, <2>4, <2>5, <2>7, <2>8 DEF HostInv, Step, AnswersTrue
<1>6. CASE Step("dns")
  <2>1. todo = <<"dns">>
    BY <1>1, <1>6, StepsOf
  <2>2. PICK ip \in Statuses, route \in Statuses :
          seen = {<<"public_ip", ip>>, <<"default_route", route>>}
    BY <1>2, <1>6 DEF HostInv, ChecksDone
  <2>3. Len(todo) = 1 /\ Head(todo) = "dns"
    BY <2>1, Tails
  <2>4. seen' = {<<"public_ip", ip>>, <<"default_route", route>>, <<"dns", status>>}
    BY <1>1, <2>2, <2>3
  <2>5. todo' = <<>> /\ answer' = Verdict(seen')
    BY <1>1, <2>3 DEF Checked, Ends
  <2>6. answer' = "protected" => ip = "ok" /\ route = "ok" /\ status = "ok"
    BY <2>4, <2>5 DEF Verdict, Statuses
  <2>7. {"public_ip", "default_route", "dns"} \X {"ok"}
          = {<<"public_ip", "ok">>, <<"default_route", "ok">>, <<"dns", "ok">>}
    OBVIOUS
  <2>8. answer' \in {"leaking", "inconclusive", "protected"}
    BY <2>5 DEF Verdict
  <2>9. AnswersTrue'
    BY <1>1, <1>2, <1>6, <2>4, <2>6, <2>7, <2>8 DEF AnswersTrue
  <2> QED
    BY <1>1, <2>5, <2>9, EndKept
<1> QED
  BY <1>4, <1>5, <1>6

\* Each of the three decides by what it sees, and "ok" takes a command that ran.
LEMMA CheckKept ==
  ASSUME HostInv, CheckPublicIp \/ CheckDefaultRoute \/ CheckDns
  PROVE  HostInv'
<1>1. CASE CheckPublicIp
  <2>1. Step("public_ip") /\ ~Step("dns")
    BY <1>1 DEF CheckPublicIp, Step
  <2>2. PICK status \in Statuses : Checked(status)
    BY <1>1 DEF CheckPublicIp, Statuses
  <2> QED
    BY <2>1, <2>2, CheckedKept
<1>2. CASE CheckDefaultRoute
  <2>1. Step("default_route") /\ ~Step("dns")
    BY <1>2 DEF CheckDefaultRoute, Step
  <2>2. PICK status \in Statuses : Checked(status)
    BY <1>2 DEF CheckDefaultRoute, Statuses
  <2> QED
    BY <2>1, <2>2, CheckedKept
<1>3. CASE CheckDns
  <2>1. Step("dns")
    BY <1>3 DEF CheckDns
  <2>2. PICK result \in Outcomes(<<"resolvectl", "status">>, FALSE),
             servers \in SUBSET {"own", "public", "expected"} :
          Checked(IF result # "ok" \/ servers = {} THEN "unknown"
                  ELSE IF setup.expectedDns THEN (IF "public" \in servers THEN "leak" ELSE "ok")
                  ELSE IF "own" \in servers THEN "ok"
                  ELSE IF "public" \in servers THEN "leak" ELSE "unknown")
    BY <1>3 DEF CheckDns
  <2>3. CASE result = "ok"
    <3>1. setup.executes
      BY <2>3, Runs
    <3>2. PICK status \in Statuses : Checked(status)
      BY <2>2 DEF Statuses
    <3> QED
      BY <2>1, <3>1, <3>2, CheckedKept
  <2>4. CASE result # "ok"
    <3>1. Checked("unknown")
      BY <2>2, <2>4
    <3> QED
      BY <2>1, <3>1, CheckedKept DEF Statuses
  <2> QED
    BY <2>3, <2>4
<1> QED
  BY <1>1, <1>2, <1>3

LEMMA HealthKept ==
  ASSUME HostInv, ReadResources \/ ProbeLatency
  PROVE  HostInv'
<1>1. /\ todo # <<>> /\ UNCHANGED <<setup, link>> /\ link' \in Links(setup.backend)
      /\ Step("resources") \/ Step("latency")
  BY DEF ReadResources, ProbeLatency, Step, HostInv
<1>2. setup.op = "health" /\ answer = "none"
  BY <1>1, StepsOf
<1>3. CASE ReadResources
  BY <1>1, <1>2, <1>3, RestKept DEF ReadResources
<1>4. CASE ProbeLatency
  <2>1. todo' = <<>> /\ answer' = Overall(seen')
    BY <1>4 DEF ProbeLatency, Ends
  <2>2. /\ answer' \in {"critical", "warn", "unknown", "ok"}
        /\ answer' = "ok" => seen' \intersect {"warn", "critical"} = {}
    BY <2>1 DEF Overall
  <2>3. AnswersTrue'
    BY <2>2 DEF AnswersTrue
  <2> QED
    BY <1>1, <2>1, <2>3, EndKept
<1> QED
  BY <1>3, <1>4

LEMMA HostStep == HostInv /\ [HostNext]_hostVars => HostInv'
<1> SUFFICES ASSUME HostInv, [HostNext]_hostVars PROVE HostInv'
  OBVIOUS
<1>1. CASE UNCHANGED hostVars
  BY <1>1 DEF HostInv, hostVars, Remaining, ChecksDone, AnswersTrue, Step
<1>2. CASE HostChanges
  BY <1>2 DEF HostChanges, HostInv, Remaining, ChecksDone, AnswersTrue, Step
<1>3. CASE LookAtWireGuard \/ LookAtUnit \/ LookAtInterface
  BY <1>3, LookKept
<1>4. CASE Up
  <2>1. PICK command \in Grants : Bring(TRUE, command)
    BY <1>4, Granted DEF Up
  <2> QED
    BY <1>4, <2>1, BringKept DEF Up
<1>5. CASE Down
  <2>1. PICK command \in Grants : Bring(FALSE, command)
    BY <1>5, Granted DEF Down
  <2> QED
    BY <1>5, <2>1, BringKept DEF Down
<1>6. CASE Rule
  BY <1>6, RuleKept
<1>7. CASE CheckPublicIp \/ CheckDefaultRoute \/ CheckDns
  BY <1>7, CheckKept
<1>8. CASE ReadResources \/ ProbeLatency
  BY <1>8, HealthKept
<1> QED
  BY <1>1, <1>2, <1>3, <1>4, <1>5, <1>6, <1>7, <1>8 DEF HostNext

\* No operation on the host reports what its commands did not find: "up" needs a
\* last look that found a fresh handshake or, with OpenVPN, an active unit's interface
\* (whether that is connected is not asked), "protected" three checks that passed,
\* health "ok" nothing bad measured, none of the first two in a dry run; and
\* the rules that plan_for() prints leave sudo nothing to refuse.  For every
\* deployment, and for a host that changes under every operation.
THEOREM HostAnswersTrue == HostSpec => []AnswersTrue
<1>1. HostSpec => []HostInv
  BY HostInitially, HostStep, PTL DEF HostSpec
<1>2. HostInv => AnswersTrue
  BY DEF HostInv
<1> QED
  BY <1>1, <1>2, PTL

-----------------------------------------------------------------------------
(* Scopes.                                                                 *)

ScopeInv == scope = NoScope \/ scope \in Engagements

\* A target is read as the asset it was written for, unless it is a range.
LEMMA ReadBack ==
  /\ \A t \in Written : t.asset.kind # "ip_network" => Read(t) = t.asset
  /\ \A asset \in Assets : Read(Plain(asset)) = asset
<1>1. ASSUME NEW t \in Written, t.asset.kind # "ip_network" \/ (~t.url /\ ~t.port)
      PROVE  Read(t) = t.asset
  <2>1. /\ t.asset \in Assets /\ t.url \in BOOLEAN /\ t.port \in BOOLEAN /\ t.dot \in BOOLEAN
        /\ t = [asset |-> t.asset, url |-> t.url, port |-> t.port, dot |-> t.dot]
    BY DEF Written
  <2>2. CASE t.url
    <3>1. Normalize(t) = Plain(t.asset)
      BY <1>1, <2>2 DEF Normalize
    <3>2. Normalize(Plain(t.asset)) = Plain(t.asset)
      BY DEF Normalize, Plain
    <3> QED
      BY <3>1, <3>2 DEF Read, Plain
  <2>3. CASE ~t.url /\ ~t.port
    <3>1. Normalize(t) = Plain(t.asset)
      BY <2>1, <2>3 DEF Normalize, Plain
    <3>2. Normalize(Plain(t.asset)) = Plain(t.asset)
      BY DEF Normalize, Plain
    <3> QED
      BY <3>1, <3>2 DEF Read, Plain
  <2>4. CASE ~t.url /\ t.port
    <3> DEFINE u == [asset |-> t.asset, url |-> FALSE, port |-> FALSE, dot |-> t.dot]
    <3>1. Normalize(t) = u
      BY <1>1, <2>1, <2>4 DEF Normalize
    <3>2. Normalize(u) = Plain(t.asset)
      BY DEF Normalize, Plain
    <3> QED
      BY <3>1, <3>2 DEF Read, Plain
  <2> QED
    BY <2>1, <2>2, <2>3, <2>4
<1>2. ASSUME NEW asset \in Assets PROVE Plain(asset) \in Written /\ Plain(asset).asset = asset
                                        /\ ~Plain(asset).url /\ ~Plain(asset).port
  BY DEF Plain, Written
<1> QED
  BY <1>1, <1>2

\* Beneath what is beneath.
LEMMA BeneathBeneath ==
  ASSUME NEW a \in Seq(STRING), NEW b \in Seq(STRING), NEW c \in Seq(STRING),
         IsBeneath(a, b), b = c \/ IsBeneath(b, c)
  PROVE  IsBeneath(a, c) /\ a # c
<1>1. /\ Len(a) \in Nat /\ Len(b) \in Nat /\ Len(c) \in Nat
      /\ Len(a) > Len(b) /\ Len(b) >= Len(c)
  BY DEF IsBeneath
<1>2. /\ \A i \in 1..Len(b) : b[i] = a[i]
      /\ \A i \in 1..Len(c) : c[i] = b[i]
  BY DEF IsBeneath, IsPrefix
<1>3. \A i \in 1..Len(c) : c[i] = a[i]
  BY <1>1, <1>2
<1>4. IsPrefix(c, a)
  BY <1>1, <1>3 DEF IsPrefix
<1> QED
  BY <1>1, <1>4 DEF IsBeneath

\* What evaluate() says of an asset, without its order.
LEMMA Verdicts ==
  ASSUME scope \in Engagements, NEW asset \in Assets
  PROVE  LET verdict == Evaluate(Plain(asset), 1) IN
         /\ verdict = "denied" =>
              /\ ~scope.expired /\ ~(1 > scope.maxRisk) /\ scope.allow # {}
              /\ \E r \in scope.deny : Matches(r, asset)
         /\ verdict = "allowed" =>
              /\ ~scope.expired /\ ~(1 > scope.maxRisk) /\ scope.allow # {}
              /\ \E r \in scope.allow : Matches(r, asset)
              /\ ~\E r \in scope.deny : Matches(r, asset)
         /\ ~scope.expired /\ ~(1 > scope.maxRisk) /\ scope.allow # {} =>
              /\ (\E r \in scope.deny : Matches(r, asset)) => verdict \in {"denied", "private"}
              /\ (\E r \in scope.allow : Matches(r, asset)) => verdict \in {"allowed", "denied", "private"}
              /\ asset.kind = "hostname" => verdict # "private"
<1>1. Read(Plain(asset)) = asset
  BY ReadBack
<1>2. asset # Nothing
  BY DEF Assets, Named, Single, Block, Nothing
<1>3. Evaluate(Plain(asset), 1) =
        IF scope.expired THEN "expired"
        ELSE IF 1 > scope.maxRisk THEN "risk"
        ELSE IF scope.allow = {} THEN "empty"
        ELSE IF ~scope.private /\ asset.kind # "hostname" /\ NonPublic(asset.net) THEN "private"
        ELSE IF \E r \in scope.deny : Matches(r, asset) THEN "denied"
        ELSE IF \E r \in scope.allow : Matches(r, asset) THEN "allowed"
        ELSE "no rule"
  BY <1>1, <1>2 DEF Evaluate
<1> QED
  BY <1>3, Zenon

\* Rules see networks as their addresses, and names as what is beneath them.
LEMMA RulesReach ==
  ASSUME NEW r \in Rules
  PROVE  /\ \A net \in Networks : \A a \in net : Matches(r, Block(net)) => Matches(r, Single(a))
         /\ \A h, sub \in Hosts :
              IsBeneath(sub, h) /\ Matches(r, Named(h)) /\ (r.beneath \/ r.wildcard)
                => Matches(r, Named(sub))
<1>1. ASSUME NEW net \in Networks, NEW a \in net, Matches(r, Block(net)) PROVE Matches(r, Single(a))
  BY <1>1 DEF Matches, Block, Single, Rules
<1>2. ASSUME NEW h \in Hosts, NEW sub \in Hosts, IsBeneath(sub, h), Matches(r, Named(h)),
             r.beneath \/ r.wildcard
      PROVE  Matches(r, Named(sub))
  <2>1. "net" \notin DOMAIN r
    BY <1>2 DEF Matches, Named
  <2>2. r \in [host : Hosts, wildcard : BOOLEAN, beneath : BOOLEAN]
    BY <2>1 DEF Rules
  <2>3. h = r.host \/ IsBeneath(h, r.host)
    BY <1>2, <2>1 DEF Matches, Named
  <2>4. IsBeneath(sub, r.host) /\ sub # r.host
    BY <1>2, <2>2, <2>3, BeneathBeneath, ScopesAssumption DEF ScopesAssumption
  <2> QED
    BY <1>2, <2>1, <2>4 DEF Matches, Named
<1> QED
  BY <1>1, <1>2

LEMMA DeniesWinThere ==
  ASSUME scope \in Engagements
  PROVE  DeniesWin
<1> DEFINE verdict(asset) == Evaluate(Plain(asset), 1)
           Open == ~scope.expired /\ ~(1 > scope.maxRisk) /\ scope.allow # {}
<1>1. scope.allow \subseteq Rules /\ scope.deny \subseteq Rules
  BY ScopesAssumption DEF ScopesAssumption
<1>2. \A a \in Assets :
        /\ verdict(a) = "denied" => Open /\ \E r \in scope.deny : Matches(r, a)
        /\ verdict(a) = "allowed" => /\ Open /\ \E r \in scope.allow : Matches(r, a)
                                     /\ ~\E r \in scope.deny : Matches(r, a)
        /\ Open => /\ (\E r \in scope.deny : Matches(r, a)) => verdict(a) \in {"denied", "private"}
                   /\ (\E r \in scope.allow : Matches(r, a)) =>
                        verdict(a) \in {"allowed", "denied", "private"}
                   /\ a.kind = "hostname" => verdict(a) # "private"
  BY Verdicts
<1>3. ASSUME NEW t \in Written, t.asset.kind # "ip_network" PROVE Evaluate(t, 1) = verdict(t.asset)
  <2>1. Read(t) = t.asset /\ t.asset \in Assets
    BY <1>3, ReadBack DEF Written
  <2>2. Read(Plain(t.asset)) = t.asset
    BY <2>1, ReadBack
  <2> QED
    BY <2>1, <2>2 DEF Evaluate
<1> HIDE DEF verdict, Open
<1>4. ASSUME NEW net \in Networks, NEW a \in net
      PROVE  /\ verdict(Block(net)) = "allowed" => verdict(Single(a)) \in {"allowed", "denied", "private"}
             /\ verdict(Block(net)) = "denied" => verdict(Single(a)) \in {"denied", "private"}
  <2>1. Block(net) \in Assets /\ Single(a) \in Assets
    <3>1. a \in Addresses
      <4>1. net \in {lo..hi : lo, hi \in Addresses}
        BY DEF Networks
      <4>2. PICK lo \in Addresses, hi \in Addresses : net = lo..hi
        BY <4>1
      <4> QED
        BY <4>2, ScopesAssumption DEF ScopesAssumption
    <3> QED
      BY <3>1 DEF Assets
  <2>2. \A r \in Rules : Matches(r, Block(net)) => Matches(r, Single(a))
    BY RulesReach
  <2> QED
    BY <1>1, <1>2, <2>1, <2>2
<1>5. ASSUME NEW h \in Hosts, NEW sub \in Hosts, verdict(Named(h)) = "denied", IsBeneath(sub, h),
             verdict(Named(sub)) # "denied", NEW r \in scope.deny, Matches(r, Named(h))
      PROVE  ~r.beneath /\ ~r.wildcard
  <2>1. Named(h) \in Assets /\ Named(sub) \in Assets /\ Named(sub).kind = "hostname"
    BY DEF Assets, Named
  <2>2. ASSUME r.beneath \/ r.wildcard PROVE FALSE
    <3>1. Matches(r, Named(sub))
      BY <1>1, <1>5, <2>2, RulesReach
    <3>2. Open
      BY <1>2, <1>5, <2>1
    <3> QED
      BY <1>2, <1>5, <2>1, <3>1, <3>2
  <2> QED
    BY <2>2
<1>6. ASSUME NEW asset \in Assets, verdict(asset) = "allowed"
      PROVE  ~\E r \in scope.deny : Matches(r, asset)
  BY <1>2, <1>6
<1> QED
  BY <1>3, <1>4, <1>5, <1>6 DEF DeniesWin, verdict

\* A host or an address has one verdict however it is written; a denial takes
\* everything with it that its rule covers, whatever else is allowed; an allowed
\* range is allowed address by address but for those denied or private by
\* themselves.  For every set of hosts, addresses and scopes.
THEOREM DenialsHold == ScopeSpec => []DeniesWin
<1>1. ScopeInv /\ [Configure]_scope => ScopeInv'
  BY DEF ScopeInv, Configure
<1>2. ScopeSpec => []ScopeInv
  BY <1>1, PTL DEF ScopeSpec, ScopeInv
<1>3. ScopeInv => DeniesWin
  BY DeniesWinThere DEF ScopeInv, DeniesWin
<1> QED
  BY <1>2, <1>3, PTL

-----------------------------------------------------------------------------
(* Orders.  What a finite set is sorted by need not be total: cosine        *)
(* similarities may be equal.                                              *)

\* R is irreflexive and transitive on S.
Orders(R, S) ==
  /\ \A x \in S : <<x, x>> \notin R
  /\ \A x, y, z \in S : <<x, y>> \in R /\ <<y, z>> \in R => <<x, z>> \in R

\* s enumerates S, and nothing comes in R before what is earlier in s.
Ranks(s, R, S) ==
  /\ s \in [1..Cardinality(S) -> S] /\ IsInjective(s)
  /\ \A i, j \in 1..Cardinality(S) : i < j => <<s[j], s[i]>> \notin R

LEMMA FirstExists ==
  ASSUME NEW R, NEW S, IsFiniteSet(S), S # {}, Orders(R, S)
  PROVE  \E x \in S : \A y \in S : <<y, x>> \notin R
<1> DEFINE T == {n \in Nat : \A Q \in SUBSET S : IsFiniteSet(Q) /\ Cardinality(Q) = n + 1 =>
                   \E x \in Q : \A y \in Q : <<y, x>> \notin R}
<1>1. 0 \in T
  <2> SUFFICES ASSUME NEW Q \in SUBSET S, IsFiniteSet(Q), Cardinality(Q) = 1
               PROVE  \E x \in Q : \A y \in Q : <<y, x>> \notin R
    OBVIOUS
  <2>1. PICK x : Q = {x}
    BY FS_Singleton
  <2> QED
    BY <2>1 DEF Orders
<1>2. ASSUME NEW n \in Nat, n \in T PROVE n + 1 \in T
  <2> SUFFICES ASSUME NEW Q \in SUBSET S, IsFiniteSet(Q), Cardinality(Q) = n + 2
               PROVE  \E x \in Q : \A y \in Q : <<y, x>> \notin R
    OBVIOUS
  <2>1. PICK z : z \in Q
    <3>1. Cardinality({}) = 0
      BY FS_EmptySet
    <3> QED
      BY <3>1
  <2>2. IsFiniteSet(Q \ {z}) /\ Cardinality(Q \ {z}) = n + 1
    <3>1. IsFiniteSet(Q \ {z}) /\ Cardinality(Q \ {z}) = Cardinality(Q) - 1
      BY <2>1, FS_RemoveElement
    <3> QED
      BY <3>1
  <2>3. PICK x \in Q \ {z} : \A y \in Q \ {z} : <<y, x>> \notin R
    <3>1. Q \ {z} \in SUBSET S
      OBVIOUS
    <3> QED
      BY <1>2, <2>2, <3>1
  <2>4. CASE <<z, x>> \in R
    BY <2>1, <2>3, <2>4 DEF Orders
  <2>5. CASE <<z, x>> \notin R
    BY <2>1, <2>3, <2>5
  <2> QED
    BY <2>4, <2>5
<1> HIDE DEF T
<1>3. Nat \subseteq T
  BY <1>1, <1>2, NaturalInduction
<1>4. Cardinality(S) \in Nat /\ Cardinality(S) # 0
  BY FS_CardinalityType, FS_EmptySet
<1>5. Cardinality(S) - 1 \in T
  BY <1>3, <1>4
<1>6. (Cardinality(S) - 1) + 1 = Cardinality(S) /\ S \in SUBSET S
  BY <1>4
<1> QED
  BY <1>5, <1>6 DEF T

\* A finite set can be sorted.
LEMMA RankingExists ==
  ASSUME NEW R, NEW S, IsFiniteSet(S), Orders(R, S)
  PROVE  \E s : Ranks(s, R, S)
<1> DEFINE T == {n \in Nat : \A Q \in SUBSET S :
                   IsFiniteSet(Q) /\ Cardinality(Q) = n => \E s : Ranks(s, R, Q)}
<1>1. 0 \in T
  <2> SUFFICES ASSUME NEW Q \in SUBSET S, IsFiniteSet(Q), Cardinality(Q) = 0 PROVE \E s : Ranks(s, R, Q)
    OBVIOUS
  <2>1. Ranks([i \in 1..0 |-> 0], R, Q)
    BY DEF Ranks, IsInjective
  <2> QED
    BY <2>1
<1>2. ASSUME NEW n \in Nat, n \in T PROVE n + 1 \in T
  <2> SUFFICES ASSUME NEW Q \in SUBSET S, IsFiniteSet(Q), Cardinality(Q) = n + 1
               PROVE  \E s : Ranks(s, R, Q)
    OBVIOUS
  <2>1. Q # {} /\ Orders(R, Q)
    <3>1. Cardinality({}) = 0
      BY FS_EmptySet
    <3> QED
      BY <3>1 DEF Orders
  <2>2. PICK x \in Q : \A y \in Q : <<y, x>> \notin R
    BY <2>1, FirstExists
  <2>3. IsFiniteSet(Q \ {x}) /\ Cardinality(Q \ {x}) = n
    <3>1. IsFiniteSet(Q \ {x}) /\ Cardinality(Q \ {x}) = Cardinality(Q) - 1
      BY <2>2, FS_RemoveElement
    <3> QED
      BY <3>1
  <2>4. PICK s : Ranks(s, R, Q \ {x})
    <3>1. Q \ {x} \in SUBSET S
      OBVIOUS
    <3> QED
      BY <1>2, <2>3, <3>1
  <2>5. /\ s \in [1..n -> Q \ {x}] /\ IsInjective(s)
        /\ \A i, j \in 1..n : i < j => <<s[j], s[i]>> \notin R
    BY <2>3, <2>4 DEF Ranks
  <2>6. \A i, j \in 1..n : s[i] = s[j] => i = j
    BY <2>5 DEF IsInjective
  <2> DEFINE t == [i \in 1..(n + 1) |-> IF i = 1 THEN x ELSE s[i - 1]]
  <2>7. /\ t[1] = x
        /\ \A i \in 1..(n + 1) : i # 1 => i - 1 \in 1..n /\ t[i] = s[i - 1] /\ t[i] \in Q \ {x}
    BY <2>5
  <2>8. t \in [1..(n + 1) -> Q]
    BY <2>2, <2>5
  <2> HIDE DEF t
  <2>9. ASSUME NEW i \in 1..(n + 1), NEW j \in 1..(n + 1), i < j
        PROVE  <<t[j], t[i]>> \notin R /\ t[j] # t[i]
    <3>1. j # 1 /\ j - 1 \in 1..n /\ t[j] = s[j - 1] /\ t[j] \in Q \ {x}
      BY <2>7, <2>9
    <3>2. CASE i = 1
      BY <2>2, <2>7, <3>1, <3>2
    <3>3. CASE i # 1
      <4>1. i - 1 \in 1..n /\ t[i] = s[i - 1] /\ i - 1 < j - 1 /\ i - 1 # j - 1
        BY <2>7, <2>9, <3>3
      <4> QED
        BY <2>5, <2>6, <3>1, <4>1
    <3> QED
      BY <3>2, <3>3
  <2>10. IsInjective(t)
    <3> SUFFICES ASSUME NEW i \in 1..(n + 1), NEW j \in 1..(n + 1), t[i] = t[j] PROVE i = j
      BY <2>8 DEF IsInjective
    <3>1. i < j \/ j < i \/ i = j
      OBVIOUS
    <3> QED
      BY <2>9, <3>1
  <2>11. Ranks(t, R, Q)
    BY <2>8, <2>9, <2>10 DEF Ranks
  <2> QED
    BY <2>11
<1> HIDE DEF T
<1>3. Nat \subseteq T
  BY <1>1, <1>2, NaturalInduction
<1>4. Cardinality(S) \in Nat /\ S \in SUBSET S
  BY FS_CardinalityType
<1> QED
  BY <1>3, <1>4 DEF T

\* and its enumeration is complete.
LEMMA RankingComplete ==
  ASSUME NEW S, IsFiniteSet(S), NEW s \in [1..Cardinality(S) -> S], IsInjective(s)
  PROVE  /\ Cardinality(S) \in Nat
         /\ s \in Seq(S) /\ Len(s) = Cardinality(S)
         /\ \A x \in S : \E i \in 1..Cardinality(S) : s[i] = x
<1> DEFINE n == Cardinality(S)
<1>1. n \in Nat
  BY FS_CardinalityType
<1>2. Cardinality(1..n) = n
  BY <1>1, FS_Interval
<1>3. s \in Injection(1..n, S)
  BY DEF Injection
<1> HIDE DEF n
<1>4. s \in Surjection(1..n, S)
  BY <1>2, <1>3, FS_Injection DEF n
<1>5. \A x \in S : \E i \in 1..n : s[i] = x
  BY <1>4 DEF Surjection
<1>6. s \in Seq(S) /\ Len(s) = n
  BY <1>1, TupleIsSequence DEF n
<1> QED
  BY <1>1, <1>5, <1>6 DEF n

-----------------------------------------------------------------------------
(* DeviceScan.                                                             *)

Queued == {waiting[i] : i \in 1..Len(waiting)}

Planned == Queued \union DOMAIN probing \union DOMAIN results

\* The ports of a call are always where they belong: in the queue, under probe,
\* or with a result; and a call that has ended has none in the first two.
DeviceInv ==
  /\ waiting \in Seq(Ports)
  /\ DOMAIN probing \subseteq Ports /\ Cardinality(DOMAIN probing) <= Slots
  /\ IF call.tool = "iot.control_port_probe" THEN Planned \subseteq Control
     ELSE Planned \intersect Control = {}
  /\ call = NoCall => Planned = {} /\ outcome = "none"
  /\ call # NoCall /\ outcome # "failed" => Planned = EffectivePorts(call.tool, call.asked)
  /\ outcome # "none" => Queued = {} /\ DOMAIN probing = {}
  /\ sent \intersect Control = {}

\* A port is queued once, and is then under probe, or has a result, and not both: so
\* no result is replaced, and that of a port that was connected to tells of it.
OpenedInv ==
  /\ \A i, j \in 1..Len(waiting) : waiting[i] = waiting[j] => i = j
  /\ Queued \intersect (DOMAIN probing \union DOMAIN results) = {}
  /\ DOMAIN probing \intersect DOMAIN results = {}
  /\ outcome # "failed" =>
       \A p \in opened : \/ p \in DOMAIN probing /\ probing[p] = "connected"
                         \/ p \in DOMAIN results /\ results[p] # "closed"
  /\ \A p \in DOMAIN probing : probing[p] = "connected" => p \in opened
  /\ \A p \in DOMAIN results : results[p] \notin {"closed", "raised"} => p \in opened

\* A finite set of naturals has an ascending enumeration.
LEMMA Enumerated ==
  ASSUME NEW P, P \subseteq Nat, IsFiniteSet(P)
  PROVE  \E s \in [1..Cardinality(P) -> P] : \A i, j \in 1..Cardinality(P) : i < j => s[i] < s[j]
<1> DEFINE R == {p \in P \X P : p[1] < p[2]}
<1>1. \A x, y \in P : <<x, y>> \in R <=> x < y
  OBVIOUS
<1>2. Orders(R, P)
  <2>1. \A x, y, z \in P : x < y /\ y < z => x < z
    OBVIOUS
  <2>2. \A x \in P : ~(x < x)
    OBVIOUS
  <2> HIDE DEF R
  <2> QED
    BY <1>1, <2>1, <2>2 DEF Orders
<1> HIDE DEF R
<1>3. PICK s : Ranks(s, R, P)
  BY <1>2, RankingExists
<1>4. /\ s \in [1..Cardinality(P) -> P] /\ \A i, j \in 1..Cardinality(P) : s[i] = s[j] => i = j
      /\ \A i, j \in 1..Cardinality(P) : i < j => <<s[j], s[i]>> \notin R
  BY <1>3 DEF Ranks, IsInjective
<1>5. Cardinality(P) \in Nat
  BY FS_CardinalityType
<1>6. ASSUME NEW i \in 1..Cardinality(P), NEW j \in 1..Cardinality(P), i < j PROVE s[i] < s[j]
  <2>1. s[i] \in P /\ s[j] \in P /\ ~(s[j] < s[i])
    BY <1>1, <1>4, <1>6
  <2>2. s[i] # s[j]
    BY <1>4, <1>5, <1>6
  <2>3. s[i] \in Nat /\ s[j] \in Nat
    BY <2>1
  <2> QED
    BY <2>1, <2>2, <2>3
<1> QED
  BY <1>4, <1>6

\* sorted() of a set has its elements.
LEMMA SortedHasAll ==
  ASSUME NEW P, P \subseteq Nat, IsFiniteSet(P)
  PROVE  /\ Sorted(P) \in Seq(P) /\ {Sorted(P)[i] : i \in 1..Len(Sorted(P))} = P
         /\ \A i, j \in 1..Len(Sorted(P)) : Sorted(P)[i] = Sorted(P)[j] => i = j
<1> DEFINE n == Cardinality(P)
           s == Sorted(P)
<1>1. n \in Nat
  BY FS_CardinalityType
<1>2. PICK q \in [1..n -> P] : \A i, j \in 1..n : i < j => q[i] < q[j]
  BY Enumerated
<1>3. \A f \in [1..n -> P] : DOMAIN f = 1..n
  OBVIOUS
<1>4. s \in [1..n -> P] /\ \A i, j \in 1..n : i < j => s[i] < s[j]
  BY <1>2, <1>3 DEF Sorted
<1> HIDE DEF s
<1>5. ASSUME NEW i \in 1..n, NEW j \in 1..n, s[i] = s[j] PROVE i = j
  <2>1. s[i] \in Nat /\ s[j] \in Nat
    BY <1>4
  <2>2. i < j \/ j < i \/ i = j
    BY <1>1
  <2> QED
    BY <1>4, <1>5, <2>1, <2>2
<1>6. IsInjective(s)
  BY <1>4, <1>5 DEF IsInjective
<1>7. s \in Seq(P) /\ Len(s) = n /\ \A x \in P : \E i \in 1..n : s[i] = x
  BY <1>4, <1>6, RankingComplete
<1>8. \A i, j \in 1..Len(s) : s[i] = s[j] => i = j
  BY <1>5, <1>7
<1> HIDE DEF n
<1>9. s \in Seq(P) /\ {s[i] : i \in 1..Len(s)} = P
  BY <1>4, <1>7
<1> QED
  BY <1>8, <1>9 DEF s

\* A queue is its first element and the rest.
LEMMA QueueSplits ==
  ASSUME NEW S, NEW s \in Seq(S), s # <<>>
  PROVE  /\ Head(s) \in S /\ Tail(s) \in Seq(S)
         /\ {s[i] : i \in 1..Len(s)} = {Head(s)} \union {Tail(s)[i] : i \in 1..Len(Tail(s))}
<1>1. /\ Len(s) \in Nat \ {0} /\ Head(s) = s[1] /\ Head(s) \in S
      /\ Tail(s) \in Seq(S) /\ Len(Tail(s)) = Len(s) - 1
      /\ \A i \in 1..Len(Tail(s)) : Tail(s)[i] = s[i + 1]
  OBVIOUS
<1>2. ASSUME NEW i \in 1..Len(s), i # 1
      PROVE  i - 1 \in 1..Len(Tail(s)) /\ Tail(s)[i - 1] = s[i]
  BY <1>1, <1>2
<1>3. \A i \in 1..Len(Tail(s)) : i + 1 \in 1..Len(s) /\ Tail(s)[i] = s[i + 1]
  BY <1>1
<1> DEFINE t == Tail(s)
           n == Len(s)
           m == Len(t)
<1>4. 1 \in 1..n /\ s[1] = Head(s)
  BY <1>1
<1> HIDE DEF t, n, m
<1>5. /\ \A i \in 1..n : i # 1 => i - 1 \in 1..m /\ t[i - 1] = s[i]
      /\ \A i \in 1..m : i + 1 \in 1..n /\ t[i] = s[i + 1]
  BY <1>2, <1>3 DEF t, n, m
<1>6. {s[i] : i \in 1..n} = {Head(s)} \union {t[i] : i \in 1..m}
  BY <1>4, <1>5
<1> QED
  BY <1>1, <1>6 DEF t, n, m

\* A call plans only what its tool may touch: control ports, or others.
LEMMA PlanAllowed ==
  ASSUME NEW tool \in LiveTools, NEW asked \in SUBSET (Ports \union {BadPort}),
         BadPort \notin asked, tool = "iot.control_port_probe" => asked \subseteq Control
  PROVE  /\ EffectivePorts(tool, asked) \subseteq Ports
         /\ IF tool = "iot.control_port_probe" THEN EffectivePorts(tool, asked) \subseteq Control
            ELSE EffectivePorts(tool, asked) \intersect Control = {}
BY DeviceAssumption DEF EffectivePorts, DeviceAssumption

LEMMA DeviceInitially == ScanIdle => DeviceInv
<1> SUFFICES ASSUME ScanIdle PROVE DeviceInv
  OBVIOUS
<1>1. waiting \in Seq(Ports) /\ Queued = {} /\ DOMAIN probing = {} /\ DOMAIN results = {}
  BY DEF ScanIdle, Queued
<1>2. Cardinality({}) = 0
  BY FS_EmptySet
<1> QED
  BY <1>1, <1>2, DeviceAssumption DEF DeviceInv, ScanIdle, Planned, NoCall, DeviceAssumption

LEMMA DeviceStep == DeviceInv /\ [ScanHostNext]_scanVariables => DeviceInv'
<1> SUFFICES ASSUME DeviceInv, [ScanHostNext]_scanVariables PROVE DeviceInv'
  OBVIOUS
<1>f. IsFiniteSet(DOMAIN probing)
  BY DeviceAssumption, FS_Subset DEF DeviceInv, DeviceAssumption
<1>1. CASE UNCHANGED scanVariables
  BY <1>1 DEF DeviceInv, scanVariables, Planned, Queued
<1>2. CASE Call
  <2>1. PICK tool \in LiveTools, asked \in SUBSET (Ports \union {BadPort}) :
          /\ call' = [tool |-> tool, asked |-> asked]
          /\ IF \/ BadPort \in asked \/ Cardinality(asked) > MaxPorts
                \/ tool = "iot.control_port_probe" /\ ~(asked \subseteq Control)
             THEN outcome' = "failed" /\ UNCHANGED waiting
             ELSE /\ waiting' = Sorted(EffectivePorts(tool, asked))
                  /\ UNCHANGED outcome
    BY <1>2 DEF Call
  <2>2. /\ Queued = {} /\ DOMAIN probing = {} /\ DOMAIN results = {}
        /\ UNCHANGED <<probing, sent, opened, results>>
    BY <1>2 DEF Call, DeviceInv, Planned
  <2>3. CASE outcome' = "failed" /\ UNCHANGED waiting
    <3>1. Queued' = {} /\ Planned' = {} /\ call' # NoCall
      BY <2>1, <2>2, <2>3 DEF Queued, Planned, NoCall, LiveTools
    <3> QED
      BY <2>2, <2>3, <3>1 DEF DeviceInv
  <2>4. CASE /\ BadPort \notin asked /\ (tool = "iot.control_port_probe" => asked \subseteq Control)
             /\ waiting' = Sorted(EffectivePorts(tool, asked)) /\ UNCHANGED outcome
    <3> DEFINE P == EffectivePorts(tool, asked)
    <3>1. /\ P \subseteq Ports
          /\ IF tool = "iot.control_port_probe" THEN P \subseteq Control ELSE P \intersect Control = {}
      BY <2>4, PlanAllowed
    <3>2. IsFiniteSet(P) /\ P \subseteq Nat
      BY <3>1, DeviceAssumption, FS_Subset DEF DeviceAssumption
    <3> HIDE DEF P
    <3>3. waiting' \in Seq(P) /\ Queued' = P
      BY <2>4, <3>2, SortedHasAll DEF Queued, P
    <3>4. waiting' \in Seq(Ports)
      BY <3>1, <3>3
    <3>5. Planned' = P /\ DOMAIN probing' = {}
      BY <2>2, <3>3 DEF Planned
    <3>6. call'.tool = tool /\ call'.asked = asked /\ call' # NoCall
      BY <2>1 DEF NoCall, LiveTools
    <3>7. outcome' = "none"
      BY <1>2, <2>4 DEF Call, DeviceInv
    <3> QED
      BY <2>2, <2>4, <3>1, <3>4, <3>5, <3>6, <3>7 DEF DeviceInv, P
  <2> QED
    BY <2>1, <2>3, <2>4
<1>3. CASE Begin
  <2>1. waiting # <<>> /\ Cardinality(DOMAIN probing) < Slots
        /\ UNCHANGED <<call, sent, opened, results, outcome>> /\ waiting' = Tail(waiting)
        /\ DOMAIN probing' = DOMAIN probing \union {Head(waiting)}
    BY <1>3 DEF Begin
  <2>2. Head(waiting) \in Ports /\ waiting' \in Seq(Ports) /\ Queued = {Head(waiting)} \union Queued'
    <3>1. waiting \in Seq(Ports)
      BY DEF DeviceInv
    <3>2. /\ Head(waiting) \in Ports /\ Tail(waiting) \in Seq(Ports)
          /\ {waiting[i] : i \in 1..Len(waiting)}
               = {Head(waiting)} \union {Tail(waiting)[i] : i \in 1..Len(Tail(waiting))}
      BY <2>1, <3>1, QueueSplits
    <3> QED
      BY <2>1, <3>2 DEF Queued
  <2>3. Planned' = Planned
    BY <2>1, <2>2 DEF Planned
  <2>4. Cardinality(DOMAIN probing') <= Slots
    <3>1. Cardinality(DOMAIN probing) \in Nat
      BY <1>f, FS_CardinalityType
    <3>2. Cardinality(DOMAIN probing') \in {Cardinality(DOMAIN probing), Cardinality(DOMAIN probing) + 1}
      BY <1>f, <2>1, FS_AddElement
    <3> QED
      BY <2>1, <3>1, <3>2, DeviceAssumption DEF DeviceAssumption
  <2>5. outcome = "none"
    BY <2>2 DEF DeviceInv
  <2> QED
    BY <2>1, <2>2, <2>3, <2>4, <2>5 DEF DeviceInv
<1>4. CASE Assemble
  <2>1. /\ outcome' = "device" /\ UNCHANGED <<call, waiting, probing, sent, opened, results>>
        /\ Queued = {} /\ DOMAIN probing = {} /\ outcome = "none" /\ call # NoCall
    BY <1>4 DEF Assemble, Queued
  <2> QED
    BY <2>1 DEF DeviceInv, Planned, Queued
<1>5. CASE Cancel
  <2>1. /\ outcome' = "failed" /\ UNCHANGED <<call, sent, opened, results>> /\ call # NoCall
        /\ waiting' = <<>> /\ Queued' = {} /\ DOMAIN probing' = {}
    BY <1>5 DEF Cancel, Queued
  <2>2. Planned' = DOMAIN results /\ DOMAIN results \subseteq Planned
    BY <2>1 DEF Planned
  <2>3. Cardinality({}) = 0 /\ waiting' \in Seq(Ports)
    BY <2>1, FS_EmptySet
  <2> QED
    BY <2>1, <2>2, <2>3, DeviceAssumption DEF DeviceInv, DeviceAssumption
<1>6. ASSUME NEW p \in Ports, Connected(p) PROVE DeviceInv'
  <2>1. /\ UNCHANGED <<call, waiting, results, outcome>> /\ DOMAIN probing' = DOMAIN probing
        /\ sent' = sent \union Payload(p)
    BY <1>6 DEF Connected
  <2>2. Payload(p) \intersect Control = {}
    BY DEF Payload
  <2> QED
    BY <2>1, <2>2 DEF DeviceInv, Planned, Queued
<1>7. ASSUME NEW p \in Ports, NotConnected(p) \/ Spoke(p) \/ Raises(p) PROVE DeviceInv'
  <2>1. /\ p \in DOMAIN probing /\ UNCHANGED <<call, waiting, sent, opened, outcome>>
        /\ DOMAIN probing' = DOMAIN probing \ {p} /\ DOMAIN results' = DOMAIN results \union {p}
    BY <1>7 DEF NotConnected, Spoke, Raises, Reports
  <2>2. Planned' = Planned
    BY <2>1 DEF Planned, Queued
  <2>3. Cardinality(DOMAIN probing') <= Slots
    <3>1. Cardinality(DOMAIN probing) \in Nat
      BY <1>f, FS_CardinalityType
    <3>2. Cardinality(DOMAIN probing') = Cardinality(DOMAIN probing) - 1
      BY <1>f, <2>1, FS_RemoveElement
    <3> QED
      BY <3>1, <3>2, DeviceAssumption DEF DeviceAssumption, DeviceInv
  <2>4. outcome = "none"
    BY <2>1 DEF DeviceInv
  <2> QED
    BY <2>1, <2>2, <2>3, <2>4 DEF DeviceInv, Queued
<1> QED
  BY <1>1, <1>2, <1>3, <1>4, <1>5, <1>6, <1>7 DEF ScanHostNext

\* What the head of a queue without repetitions is followed by does not hold it.
LEMMA TailOnce ==
  ASSUME NEW S, NEW s \in Seq(S), s # <<>>, \A i, j \in 1..Len(s) : s[i] = s[j] => i = j
  PROVE  /\ \A i, j \in 1..Len(Tail(s)) : Tail(s)[i] = Tail(s)[j] => i = j
         /\ Head(s) \notin {Tail(s)[i] : i \in 1..Len(Tail(s))}
<1>1. /\ Len(s) \in Nat \ {0} /\ Head(s) = s[1] /\ Len(Tail(s)) = Len(s) - 1
      /\ \A i \in 1..Len(Tail(s)) : Tail(s)[i] = s[i + 1]
  OBVIOUS
<1>2. \A i \in 1..Len(Tail(s)) : i + 1 \in 1..Len(s) /\ Tail(s)[i] = s[i + 1]
  BY <1>1
<1>3. ASSUME NEW i \in 1..Len(Tail(s)), NEW j \in 1..Len(Tail(s)), Tail(s)[i] = Tail(s)[j]
      PROVE  i = j
  <2>1. s[i + 1] = s[j + 1] /\ i + 1 \in 1..Len(s) /\ j + 1 \in 1..Len(s)
    BY <1>2, <1>3
  <2>2. i + 1 = j + 1
    BY <2>1
  <2> QED
    BY <2>2
<1>4. ASSUME NEW i \in 1..Len(Tail(s)), Tail(s)[i] = Head(s) PROVE FALSE
  <2>1. s[i + 1] = s[1] /\ i + 1 \in 1..Len(s) /\ 1 \in 1..Len(s)
    BY <1>1, <1>2, <1>4
  <2>2. i + 1 = 1
    BY <2>1
  <2> QED
    BY <2>2
<1> QED
  BY <1>3, <1>4

LEMMA OpenedStep ==
  ASSUME DeviceInv, OpenedInv, [ScanHostNext]_scanVariables
  PROVE  OpenedInv'
<1>1. CASE UNCHANGED scanVariables
  BY <1>1 DEF OpenedInv, scanVariables, Queued
<1>2. CASE Call
  <2>1. PICK tool \in LiveTools, asked \in SUBSET (Ports \union {BadPort}) :
          IF \/ BadPort \in asked \/ Cardinality(asked) > MaxPorts
             \/ tool = "iot.control_port_probe" /\ ~(asked \subseteq Control)
          THEN UNCHANGED waiting
          ELSE waiting' = Sorted(EffectivePorts(tool, asked))
    BY <1>2 DEF Call
  <2>2. /\ DOMAIN probing = {} /\ DOMAIN results = {} /\ UNCHANGED <<probing, opened, results>>
        /\ opened = {}
    <3>1. /\ DOMAIN probing = {} /\ DOMAIN results = {} /\ outcome = "none"
          /\ UNCHANGED <<probing, opened, results>>
      BY <1>2 DEF Call, DeviceInv, Planned
    <3> QED
      BY <3>1 DEF OpenedInv
  <2>3. CASE UNCHANGED waiting
    BY <2>2, <2>3 DEF OpenedInv, Queued
  <2>4. CASE /\ BadPort \notin asked /\ (tool = "iot.control_port_probe" => asked \subseteq Control)
             /\ waiting' = Sorted(EffectivePorts(tool, asked))
    <3> DEFINE P == EffectivePorts(tool, asked)
    <3>1. P \subseteq Ports
      BY <2>4, PlanAllowed
    <3>2. IsFiniteSet(P) /\ P \subseteq Nat
      BY <3>1, DeviceAssumption, FS_Subset DEF DeviceAssumption
    <3> HIDE DEF P
    <3>3. \A i, j \in 1..Len(Sorted(P)) : Sorted(P)[i] = Sorted(P)[j] => i = j
      BY <3>2, SortedHasAll
    <3>4. waiting' = Sorted(P)
      BY <2>4 DEF P
    <3>5. \A i, j \in 1..Len(waiting') : waiting'[i] = waiting'[j] => i = j
      BY <3>3, <3>4
    <3>6. /\ DOMAIN probing' = {} /\ DOMAIN results' = {} /\ opened' = {}
      BY <2>2
    <3> QED
      BY <3>5, <3>6 DEF OpenedInv
  <2> QED
    BY <2>1, <2>3, <2>4
<1>3. CASE Begin
  <2>1. /\ waiting # <<>> /\ waiting \in Seq(Ports) /\ waiting' = Tail(waiting)
        /\ UNCHANGED <<opened, results, outcome>>
        /\ probing' = [p \in DOMAIN probing \union {Head(waiting)} |->
                         IF p \in DOMAIN probing THEN probing[p] ELSE "connecting"]
    BY <1>3 DEF Begin, DeviceInv
  <2>2. Queued = {Head(waiting)} \union Queued'
    <3>1. {waiting[i] : i \in 1..Len(waiting)}
            = {Head(waiting)} \union {Tail(waiting)[i] : i \in 1..Len(Tail(waiting))}
      BY <2>1, QueueSplits
    <3> QED
      BY <2>1, <3>1 DEF Queued
  <2>3. /\ \A i, j \in 1..Len(waiting') : waiting'[i] = waiting'[j] => i = j
        /\ Head(waiting) \notin Queued'
    <3>1. \A i, j \in 1..Len(waiting) : waiting[i] = waiting[j] => i = j
      BY DEF OpenedInv
    <3>2. /\ \A i, j \in 1..Len(Tail(waiting)) : Tail(waiting)[i] = Tail(waiting)[j] => i = j
          /\ Head(waiting) \notin {Tail(waiting)[i] : i \in 1..Len(Tail(waiting))}
      BY <2>1, <3>1, TailOnce
    <3> QED
      BY <2>1, <3>2 DEF Queued
  <2>4. /\ DOMAIN probing' = DOMAIN probing \union {Head(waiting)}
        /\ Head(waiting) \notin DOMAIN probing /\ probing'[Head(waiting)] = "connecting"
        /\ \A p \in DOMAIN probing : probing'[p] = probing[p]
    BY <2>1, <2>2 DEF OpenedInv
  <2> HIDE DEF Queued
  <2> QED
    BY <2>1, <2>2, <2>3, <2>4 DEF OpenedInv
<1>4. CASE Assemble
  <2>1. UNCHANGED <<waiting, probing, opened, results>> /\ outcome = "none"
    BY <1>4 DEF Assemble
  <2> QED
    BY <2>1 DEF OpenedInv, Queued
<1>5. CASE Cancel
  <2>1. /\ waiting' = <<>> /\ probing' = <<>> /\ UNCHANGED <<opened, results>>
        /\ outcome' = "failed"
    BY <1>5 DEF Cancel
  <2>2. Queued' = {} /\ DOMAIN probing' = {} /\ Len(waiting') = 0
    BY <2>1 DEF Queued
  <2> QED
    BY <2>1, <2>2 DEF OpenedInv
<1>6. ASSUME NEW p \in Ports, Connected(p) PROVE OpenedInv'
  <2>1. /\ UNCHANGED <<waiting, results, outcome>> /\ opened' = opened \union {p}
        /\ p \in DOMAIN probing /\ probing' = [probing EXCEPT ![p] = "connected"]
    BY <1>6 DEF Connected
  <2>2. /\ DOMAIN probing' = DOMAIN probing /\ Queued' = Queued
        /\ \A q \in DOMAIN probing : probing'[q] = IF q = p THEN "connected" ELSE probing[q]
    BY <2>1 DEF Queued
  <2> HIDE DEF Queued
  <2> QED
    BY <2>1, <2>2 DEF OpenedInv
<1>7. ASSUME NEW p \in Ports, NotConnected(p) \/ Spoke(p) \/ Raises(p) PROVE OpenedInv'
  <2>1. PICK result : /\ Reports(p, result) /\ p \in DOMAIN probing
                      /\ result = "closed" => probing[p] = "connecting"
                      /\ result \notin {"closed", "raised"} => probing[p] = "connected"
    BY <1>7 DEF NotConnected, Spoke, Raises
  <2>2. /\ UNCHANGED <<waiting, opened, outcome>> /\ probing' = [q \in DOMAIN probing \ {p} |-> probing[q]]
        /\ results' = [q \in DOMAIN results \union {p} |-> IF q = p THEN result ELSE results[q]]
    BY <2>1 DEF Reports
  <2>3. /\ DOMAIN probing' = DOMAIN probing \ {p} /\ DOMAIN results' = DOMAIN results \union {p}
        /\ \A q \in DOMAIN probing' : probing'[q] = probing[q]
        /\ results'[p] = result /\ p \notin DOMAIN results
        /\ \A q \in DOMAIN results : results'[q] = results[q]
    BY <2>1, <2>2 DEF OpenedInv
  <2>4. Queued' = Queued /\ UNCHANGED <<waiting, opened, outcome>>
    BY <2>2 DEF Queued
  <2> HIDE DEF Queued
  <2>5. ASSUME outcome # "failed", NEW q \in opened
        PROVE  \/ q \in DOMAIN probing' /\ probing'[q] = "connected"
               \/ q \in DOMAIN results' /\ results'[q] # "closed"
    BY <2>1, <2>3, <2>5 DEF OpenedInv
  <2>6. \A q \in DOMAIN results' : results'[q] \notin {"closed", "raised"} => q \in opened
    BY <2>1, <2>3 DEF OpenedInv
  <2>7. /\ \A q \in DOMAIN probing' : probing'[q] = "connected" => q \in opened
        /\ DOMAIN probing' \intersect DOMAIN results' = {}
        /\ Queued' \intersect (DOMAIN probing' \union DOMAIN results') = {}
        /\ \A i, j \in 1..Len(waiting') : waiting'[i] = waiting'[j] => i = j
    BY <2>1, <2>3, <2>4 DEF OpenedInv
  <2> QED
    BY <2>4, <2>5, <2>6, <2>7 DEF OpenedInv
<1> QED
  BY <1>1, <1>2, <1>3, <1>4, <1>5, <1>6, <1>7 DEF ScanHostNext

Once(services) == \A s, t \in services : Identity(s) = Identity(t) => s = t

Covers(folded, services) ==
  /\ folded \subseteq services /\ Once(folded)
  /\ \A s \in services : \E t \in folded :
       t.port = s.port /\ (t.transport = s.transport \/ s.port \in Conventional)

\* Folding makes up no service, and lists none twice; and of each there is one with its
\* port, with its transport too unless the port has a convention.
LEMMA FoldKeeps ==
  ASSUME NEW earlier, NEW later, Once(earlier), Once(later)
  PROVE  Covers(Fold(earlier, later), earlier \union later)
<1>1. /\ Fold(earlier, later) \subseteq earlier \union later
      /\ Once(Fold(earlier, later))
      /\ \A s \in earlier \union later : \E t \in Fold(earlier, later) : Identity(t) = Identity(s)
  BY DEF Fold, Once
<1>2. ASSUME NEW s, NEW t, Identity(t) = Identity(s)
      PROVE  t.port = s.port /\ (t.transport = s.transport \/ s.port \in Conventional)
  BY <1>2 DEF Identity
<1> QED
  BY <1>1, <1>2 DEF Covers

\* However probes fail, raise and overlap, and whatever is asked for: the limit holds,
\* control ports are touched by the one tool that may and are sent nothing; a scan that
\* is not cancelled has a result for every port of its plan, and claims a service for
\* those it connected to, but for those whose probe raised; and folding it with a record
\* of the index invents no service, doubles none, and loses none but one of a TCP and a
\* UDP service on a port with a convention.  For every set of ports and every limit.
THEOREM DevicesAreContained == DeviceSpec => []ScanContained
<1> DEFINE Inv == DeviceInv /\ OpenedInv
<1>1. ScanIdle => Inv
  <2> SUFFICES ASSUME ScanIdle PROVE OpenedInv
    BY DeviceInitially
  <2> QED
    BY DEF OpenedInv, ScanIdle, Queued
<1>2. Inv /\ [ScanHostNext]_scanVariables => Inv'
  BY DeviceStep, OpenedStep
<1>3. ASSUME DeviceInv, OpenedInv PROVE ScanContained
  <2>1. /\ Cardinality(DOMAIN probing) <= Slots /\ sent \intersect Control = {}
        /\ IF call.tool = "iot.control_port_probe"
           THEN (DOMAIN probing \union DOMAIN results) \subseteq Control
           ELSE (DOMAIN probing \union DOMAIN results) \intersect Control = {}
    BY <1>3 DEF DeviceInv, Planned
  <2>2. outcome = "device" => /\ DOMAIN results = EffectivePorts(call.tool, call.asked)
                              /\ DOMAIN probing = {}
    BY <1>3 DEF DeviceInv, Planned
  <2> DEFINE claimed == {q \in DOMAIN results : results[q] \notin {"closed", "raised"}}
             Claim(p) == [port |-> p, transport |-> "tcp", exposure |-> Exposure(results[p])]
  <2>3. Services = {Claim(p) : p \in claimed} /\ \A p : Claim(p).port = p
    BY DEF Services
  <2> HIDE DEF Claim
  <2>4. {s.port : s \in Services} = claimed
    BY <2>3
  <2>5. outcome = "device" => claimed = opened \ {p \in DOMAIN results : results[p] = "raised"}
    BY <1>3, <2>2 DEF OpenedInv
  <2>6. Once(Services)
    <3>1. \A s, t \in Services : s.port = t.port => s = t
      BY <2>3
    <3>2. \A s, t : Identity(s) = Identity(t) => s.port = t.port
      BY DEF Identity
    <3> QED
      BY <3>1, <3>2 DEF Once
  <2>7. ASSUME NEW record \in IndexRecords,
               NEW folded \in {Fold(Services, {record}), Fold({record}, Services)}
        PROVE  Covers(folded, Services \union {record})
    <3>1. Once({record}) /\ {record} \union Services = Services \union {record}
      BY DEF Once
    <3>3. CASE folded = Fold(Services, {record})
      BY <2>6, <3>1, <3>3, FoldKeeps
    <3>4. CASE folded = Fold({record}, Services)
      BY <2>6, <3>1, <3>4, FoldKeeps
    <3> QED
      BY <3>3, <3>4
  <2>8. ASSUME NEW record \in IndexRecords,
               NEW folded \in {Fold(Services, {record}), Fold({record}, Services)}
        PROVE  /\ folded \subseteq Services \union {record}
               /\ \A s, t \in folded : Identity(s) = Identity(t) => s = t
               /\ \A s \in Services \union {record} : \E t \in folded :
                    t.port = s.port /\ (t.transport = s.transport \/ s.port \in Conventional)
    BY <2>7, Zenon DEF Covers, Once
  <2> QED
    BY <2>1, <2>2, <2>4, <2>5, <2>8 DEF ScanContained
<1> QED
  BY <1>1, <1>2, <1>3, PTL DEF DeviceSpec

-----------------------------------------------------------------------------
(* Memory.                                                                 *)

MemoryInv ==
  /\ DOMAIN store \subseteq Ids
  /\ \A id \in DOMAIN store : store[id].text \in Texts
  /\ operation.op \in {"remember", "recall"} => operation.text \in Texts
  /\ operation.op = "recall" => operation.floor \in Nat
  /\ operation.op = "remember" => operation.ids \in Seq(Ids) /\ operation.ids # <<>>

\* What a filter keeps of the first i elements, as a function of i.
Keeps(s, P, g) ==
  /\ g[0] = <<>>
  /\ \A i \in 1..Len(s) : g[i] = IF s[i] \in P THEN Append(g[i - 1], s[i]) ELSE g[i - 1]

LEMMA KeepsExists ==
  ASSUME NEW S, NEW s \in Seq(S), NEW P
  PROVE  \E g \in [0..Len(s) -> Seq(S)] : Keeps(s, P, g)
<1> DEFINE V == Seq(S)
           Goes(n, g) == /\ g \in [0..n -> V] /\ g[0] = <<>>
                         /\ \A i \in 1..n : g[i] = IF s[i] \in P THEN Append(g[i - 1], s[i]) ELSE g[i - 1]
           T == {n \in Nat : n <= Len(s) => \E g : Goes(n, g)}
<1>1. 0 \in T
  <2>1. Goes(0, [i \in 0..0 |-> <<>>])
    OBVIOUS
  <2> QED
    BY <2>1
<1>2. ASSUME NEW n \in Nat, n \in T PROVE n + 1 \in T
  <2> HIDE DEF Goes
  <2> SUFFICES ASSUME n + 1 <= Len(s) PROVE \E g : Goes(n + 1, g)
    OBVIOUS
  <2> USE DEF Goes
  <2>1. PICK g : Goes(n, g)
    BY <1>2
  <2> DEFINE e == s[n + 1]
             last == IF e \in P THEN Append(g[n], e) ELSE g[n]
             h == [i \in 0..(n + 1) |-> IF i = n + 1 THEN last ELSE g[i]]
  <2>2. e \in S /\ g[n] \in V /\ g[0] = <<>>
    BY <2>1
  <2>3. last \in V
    BY <2>2
  <2> HIDE DEF V
  <2>4. h \in [0..(n + 1) -> V] /\ h[0] = <<>> /\ h[n + 1] = last
    BY <2>1, <2>2, <2>3
  <2>5. ASSUME NEW i \in 1..(n + 1)
        PROVE  h[i] = IF s[i] \in P THEN Append(h[i - 1], s[i]) ELSE h[i - 1]
    <3>1. i = n + 1 \/ i \in 1..n
      OBVIOUS
    <3>2. CASE i = n + 1
      <4>1. h[i - 1] = g[n] /\ h[i] = last /\ s[i] = e
        BY <2>4, <3>2
      <4> QED
        BY <4>1
    <3>3. CASE i \in 1..n
      <4>1. h[i - 1] = g[i - 1] /\ h[i] = g[i]
        BY <3>3
      <4>2. g[i] = IF s[i] \in P THEN Append(g[i - 1], s[i]) ELSE g[i - 1]
        BY <2>1, <3>3
      <4> QED
        BY <4>1, <4>2
    <3> QED
      BY <3>1, <3>2, <3>3
  <2>6. Goes(n + 1, h)
    BY <2>4, <2>5
  <2> QED
    BY <2>6
<1> HIDE DEF T
<1>3. Nat \subseteq T
  BY <1>1, <1>2, NaturalInduction
<1>4. Len(s) \in T
  BY <1>3
<1>5. PICK g : Goes(Len(s), g)
  BY <1>4 DEF T
<1> QED
  BY <1>5 DEF Keeps

LEMMA Kept ==
  ASSUME NEW S, NEW s \in Seq(S), NEW P, NEW g, Keeps(s, P, g)
  PROVE  /\ g[Len(s)] \in Seq(S) /\ Len(g[Len(s)]) <= Len(s)
         /\ ToSet(g[Len(s)]) = {s[k] : k \in 1..Len(s)} \intersect P
         /\ (\A k \in 1..Len(s) : s[k] \in P) => Len(g[Len(s)]) = Len(s)
<1> DEFINE n == Len(s)
           Fine(i) == /\ g[i] \in Seq(S) /\ Len(g[i]) <= i
                      /\ ToSet(g[i]) = {s[k] : k \in 1..i} \intersect P
                      /\ (\A k \in 1..i : s[k] \in P) => Len(g[i]) = i
           T == {i \in Nat : i <= n => Fine(i)}
<1>1. 0 \in T
  <2>1. g[0] = <<>>
    BY DEF Keeps
  <2>2. Fine(0)
    BY <2>1 DEF ToSet
  <2> QED
    BY <2>2
<1>2. ASSUME NEW i \in Nat, i \in T PROVE i + 1 \in T
  <2> SUFFICES ASSUME i + 1 <= n PROVE Fine(i + 1)
    OBVIOUS
  <2>1. /\ i + 1 \in 1..n /\ (i + 1) - 1 = i /\ s[i + 1] \in S
        /\ 1..(i + 1) = 1..i \union {i + 1}
    OBVIOUS
  <2>2. g[i + 1] = IF s[i + 1] \in P THEN Append(g[i], s[i + 1]) ELSE g[i]
    BY <2>1 DEF Keeps
  <2>3. Fine(i)
    BY <1>2, <2>1
  <2> DEFINE e == s[i + 1]
             f == g[i]
             h == g[i + 1]
             D == {s[k] : k \in 1..i}
  <2>4. {s[k] : k \in 1..(i + 1)} = D \union {e}
    BY <2>1
  <2>5. /\ Append(f, e) \in Seq(S) /\ Len(Append(f, e)) = Len(f) + 1 /\ Len(f) \in Nat
        /\ ToSet(Append(f, e)) = ToSet(f) \union {e}
    <3>1. /\ f \in Seq(S) /\ e \in S
      BY <2>1, <2>3
    <3> HIDE DEF f, e
    <3>2. /\ Append(f, e) \in Seq(S) /\ Len(Append(f, e)) = Len(f) + 1 /\ Len(f) \in Nat
          /\ DOMAIN Append(f, e) = DOMAIN f \union {Len(f) + 1}
          /\ \A k \in DOMAIN f : Append(f, e)[k] = f[k]
          /\ Append(f, e)[Len(f) + 1] = e
      BY <3>1
    <3> QED
      BY <3>2 DEF ToSet
  <2>6. f \in Seq(S) /\ Len(f) <= i /\ ToSet(f) = D \intersect P
        /\ ((\A k \in 1..i : s[k] \in P) => Len(f) = i)
    BY <2>3
  <2>7. h = IF e \in P THEN Append(f, e) ELSE f
    BY <2>2
  <2>8. (\A k \in 1..(i + 1) : s[k] \in P) => e \in P /\ (\A k \in 1..i : s[k] \in P)
    BY <2>1
  <2> HIDE DEF e, f, h, D
  <2>9. /\ h \in Seq(S) /\ Len(h) <= i + 1
        /\ ToSet(h) = (D \union {e}) \intersect P
        /\ (\A k \in 1..(i + 1) : s[k] \in P) => Len(h) = i + 1
    <3>1. CASE e \in P
      BY <2>5, <2>6, <2>7, <2>8, <3>1
    <3>2. CASE e \notin P
      BY <2>5, <2>6, <2>7, <2>8, <3>2
    <3> QED
      BY <3>1, <3>2
  <2> QED
    BY <2>4, <2>9 DEF h
<1> HIDE DEF T
<1>3. Nat \subseteq T
  BY <1>1, <1>2, NaturalInduction
<1>4. n \in Nat /\ n <= n
  OBVIOUS
<1> HIDE DEF n, Fine
<1>5. n \in T
  BY <1>3, <1>4
<1>6. Fine(n)
  BY <1>4, <1>5 DEF T
<1> QED
  BY <1>6 DEF n, Fine

\* The hits above the floor: no more than there were, all of them if all are.
LEMMA AboveFloorKeeps ==
  ASSUME NEW S, NEW hits \in Seq(S)
  PROVE  LET found == AboveFloor(hits)
             near(h) == Reaches(operation.text, h.text, operation.floor) IN
         /\ found \in Seq(S) /\ Len(found) <= Len(hits)
         /\ ToSet(found) = {h \in {hits[k] : k \in 1..Len(hits)} : near(h)}
         /\ (\A k \in 1..Len(hits) : near(hits[k])) => Len(found) = Len(hits)
<1> DEFINE P == {h \in S : Reaches(operation.text, h.text, operation.floor)}
           Unfolds(g) == g = [k \in 0..Len(hits) |->
                                IF k = 0 THEN <<>>
                                ELSE IF Reaches(operation.text, hits[k].text, operation.floor)
                                     THEN Append(g[k - 1], hits[k])
                                ELSE g[k - 1]]
           kept == CHOOSE g : Unfolds(g)
<1>1. AboveFloor(hits) = kept[Len(hits)]
  BY DEF AboveFloor
<1>2. Len(hits) \in Nat /\ \A k \in 1..Len(hits) : hits[k] \in S
  OBVIOUS
<1>3. \A k \in 1..Len(hits) : hits[k] \in P <=> Reaches(operation.text, hits[k].text, operation.floor)
  BY <1>2
<1> HIDE DEF P
<1>4. \E g : Unfolds(g)
  <2>1. PICK g \in [0..Len(hits) -> Seq(S)] : Keeps(hits, P, g)
    BY KeepsExists
  <2>2. ASSUME NEW k \in 0..Len(hits)
        PROVE  g[k] = IF k = 0 THEN <<>>
                      ELSE IF Reaches(operation.text, hits[k].text, operation.floor)
                           THEN Append(g[k - 1], hits[k])
                      ELSE g[k - 1]
    <3>1. CASE k = 0
      BY <2>1, <3>1 DEF Keeps
    <3>2. CASE k # 0
      <4>1. k \in 1..Len(hits)
        BY <1>2, <3>2
      <4>2. g[k] = IF hits[k] \in P THEN Append(g[k - 1], hits[k]) ELSE g[k - 1]
        BY <2>1, <4>1 DEF Keeps
      <4> QED
        BY <1>3, <3>2, <4>1, <4>2
    <3> QED
      BY <3>1, <3>2
  <2>3. Unfolds(g)
    BY <2>1, <2>2, Zenon
  <2> QED
    BY <2>3
<1>5. Unfolds(kept)
  BY <1>4, Zenon
<1> HIDE DEF kept
<1>6. Keeps(hits, P, kept)
  <2>1. \A k \in 0..Len(hits) : kept[k] = IF k = 0 THEN <<>>
                                ELSE IF Reaches(operation.text, hits[k].text, operation.floor)
                                     THEN Append(kept[k - 1], hits[k])
                                ELSE kept[k - 1]
    BY <1>5, Zenon
  <2>2. kept[0] = <<>>
    BY <1>2, <2>1
  <2>3. ASSUME NEW k \in 1..Len(hits)
        PROVE  kept[k] = IF hits[k] \in P THEN Append(kept[k - 1], hits[k]) ELSE kept[k - 1]
    <3>1. k \in 0..Len(hits) /\ k # 0
      BY <1>2
    <3> QED
      BY <1>3, <2>1, <3>1
  <2> QED
    BY <2>2, <2>3 DEF Keeps
<1> DEFINE found == kept[Len(hits)]
<1>7. /\ found \in Seq(S) /\ Len(found) <= Len(hits)
      /\ ToSet(found) = {hits[k] : k \in 1..Len(hits)} \intersect P
      /\ (\A k \in 1..Len(hits) : hits[k] \in P) => Len(found) = Len(hits)
  BY <1>6, Kept
<1> HIDE DEF found
<1>8. ToSet(found) = {h \in {hits[k] : k \in 1..Len(hits)} :
                          Reaches(operation.text, h.text, operation.floor)}
  BY <1>2, <1>7 DEF P
<1> QED
  BY <1>1, <1>3, <1>7, <1>8 DEF found

\* Similarities, compared without division.
LEMMA ProductOrder ==
  ASSUME NEW x \in Nat, NEW y \in Nat, NEW z \in Nat, z > 0
  PROVE  x * z \in Nat /\ y * z \in Nat /\ (x > y <=> x * z > y * z)
<1>1. ASSUME NEW u \in Nat, NEW v \in Nat, u > v PROVE u * z > v * z
  <2> DEFINE d == u - v
  <2>1. d \in Nat /\ d > 0 /\ u = v + d
    BY <1>1
  <2> HIDE DEF d
  <2>2. u * z = v * z + d * z
    BY <2>1
  <2>3. d * z > 0
    BY <2>1
  <2>4. u * z \in Nat /\ v * z \in Nat /\ d * z \in Nat
    BY <2>1
  <2> QED
    BY <2>2, <2>3, <2>4
<1>2. x * z \in Nat /\ y * z \in Nat
  OBVIOUS
<1>3. x > y => x * z > y * z
  BY <1>1
<1>4. y > x => y * z > x * z
  BY <1>1
<1>5. x = y => x * z = y * z
  OBVIOUS
<1>6. x > y \/ y > x \/ x = y
  OBVIOUS
<1> QED
  BY <1>2, <1>3, <1>4, <1>5, <1>6

LEMMA FractionOrder ==
  ASSUME NEW p \in Nat, NEW q \in Nat, NEW r \in Nat,
         NEW a \in Nat, NEW b \in Nat, NEW c \in Nat, a > 0, b > 0, c > 0,
         p * b > q * a, q * c > r * b
  PROVE  p * c > r * a
<1>1. /\ p * b \in Nat /\ q * a \in Nat /\ q * c \in Nat /\ r * b \in Nat
      /\ p * c \in Nat /\ r * a \in Nat
  OBVIOUS
<1>2. (p * b) * c > (q * a) * c /\ (q * c) * a > (r * b) * a
  BY <1>1, ProductOrder
<1>3. /\ (p * b) * c = (p * c) * b /\ (q * a) * c = (q * c) * a
      /\ (r * b) * a = (r * a) * b
  OBVIOUS
<1>4. /\ (p * c) * b \in Nat /\ (q * c) * a \in Nat /\ (r * a) * b \in Nat
  BY <1>1
<1>5. (p * c) * b > (r * a) * b
  <2> DEFINE u == (p * c) * b
             v == (q * c) * a
             w == (r * a) * b
  <2>1. u \in Nat /\ v \in Nat /\ w \in Nat /\ u > v /\ v > w
    BY <1>2, <1>3, <1>4
  <2> HIDE DEF u, v, w
  <2>2. u > w
    BY <2>1
  <2> QED
    BY <2>2 DEF u, w
<1> QED
  BY <1>1, <1>5, ProductOrder

LEMMA FractionAbove ==
  ASSUME NEW p \in Nat, NEW q \in Nat, NEW r \in Nat,
         NEW a \in Nat, NEW b \in Nat, NEW c \in Nat, a > 0, b > 0, c > 0,
         p * b > q * a, ~(r * b > q * c)
  PROVE  p * c > r * a
<1>1. /\ p * b \in Nat /\ q * a \in Nat /\ q * c \in Nat /\ r * b \in Nat
      /\ p * c \in Nat /\ r * a \in Nat
  OBVIOUS
<1>2. (p * b) * c > (q * a) * c /\ ~((r * b) * a > (q * c) * a)
  BY <1>1, ProductOrder
<1>3. /\ (p * b) * c = (p * c) * b /\ (q * a) * c = (q * c) * a
      /\ (r * b) * a = (r * a) * b
  OBVIOUS
<1>4. /\ (p * c) * b \in Nat /\ (q * c) * a \in Nat /\ (r * a) * b \in Nat
  BY <1>1
<1>5. (p * c) * b > (r * a) * b
  <2> DEFINE u == (p * c) * b
             v == (q * c) * a
             w == (r * a) * b
  <2>1. u \in Nat /\ v \in Nat /\ w \in Nat /\ u > v /\ ~(w > v)
    BY <1>2, <1>3, <1>4
  <2> HIDE DEF u, v, w
  <2>2. u > w
    BY <2>1
  <2> QED
    BY <2>2 DEF u, w
<1> QED
  BY <1>1, <1>5, ProductOrder

LEMMA TextSizes ==
  ASSUME NEW q \in SUBSET Tokens, NEW a \in Texts
  PROVE  /\ Cardinality(a) \in Nat /\ Cardinality(a) > 0 /\ Cardinality(q \intersect a) \in Nat
         /\ Cardinality(q \intersect a) * Cardinality(q \intersect a) \in Nat
         /\ Cardinality(q \intersect a) = 0 <=> q \intersect a = {}
<1>1. IsFiniteSet(a) /\ IsFiniteSet(q \intersect a)
  <2>1. a \subseteq Tokens /\ q \intersect a \subseteq Tokens
    BY DEF Texts
  <2> QED
    BY <2>1, MemoryAssumption, FS_Subset
<1>2. /\ Cardinality(a) \in Nat /\ Cardinality(q \intersect a) \in Nat
      /\ Cardinality(a) = 0 <=> a = {}
      /\ Cardinality(q \intersect a) = 0 <=> q \intersect a = {}
  BY <1>1, FS_CardinalityType, FS_EmptySet
<1>3. a # {}
  BY DEF Texts
<1> DEFINE m == Cardinality(q \intersect a)
<1>4. ASSUME NEW k \in Nat PROVE k * k \in Nat
  OBVIOUS
<1> QED
  BY <1>2, <1>3, <1>4

LEMMA CloserOrders ==
  ASSUME NEW q \in Texts, NEW floor \in Nat
  PROVE  /\ \A a \in Texts : ~Closer(q, a, a)
         /\ \A a, b, c \in Texts : Closer(q, a, b) /\ Closer(q, b, c) => Closer(q, a, c)
         /\ \A a, b \in Texts : Reaches(q, a, floor) /\ ~Closer(q, a, b) => Reaches(q, b, floor)
<1> DEFINE sq(a) == Common(q, a) * Common(q, a)
           sz(a) == Cardinality(a)
           ff == floor * floor * Cardinality(q)
<1>1. \A a, b \in Texts : Closer(q, a, b) <=> sq(a) * sz(b) > sq(b) * sz(a)
  BY DEF Closer
<1>2. \A a \in Texts : sq(a) \in Nat /\ sz(a) \in Nat /\ sz(a) > 0
  <2>1. q \in SUBSET Tokens
    BY DEF Texts
  <2> QED
    BY <2>1, TextSizes DEF Common
<1>3. \A a \in Texts : Reaches(q, a, floor) <=> ~(ff * sz(a) > sq(a) * 10000)
  BY DEF Reaches
<1>7. ff \in Nat
  <2>1. Cardinality(q) \in Nat /\ \A x, y \in Nat : x * y \in Nat
    BY <1>2
  <2>2. floor * floor \in Nat
    BY <2>1
  <2> QED
    BY <2>1, <2>2
<1> HIDE DEF sq, sz, ff
<1>4. ASSUME NEW a \in Texts PROVE ~Closer(q, a, a)
  <2>1. sq(a) * sz(a) \in Nat
    BY <1>2
  <2> QED
    BY <1>1, <2>1
<1>5. ASSUME NEW a \in Texts, NEW b \in Texts, NEW c \in Texts, Closer(q, a, b), Closer(q, b, c)
      PROVE  Closer(q, a, c)
  <2>1. sq(a) * sz(b) > sq(b) * sz(a) /\ sq(b) * sz(c) > sq(c) * sz(b)
    BY <1>1, <1>5
  <2>2. sq(a) * sz(c) > sq(c) * sz(a)
    BY <1>2, <2>1, FractionOrder
  <2> QED
    BY <1>1, <2>2
<1>6. ASSUME NEW a \in Texts, NEW b \in Texts, Reaches(q, a, floor), ~Closer(q, a, b)
      PROVE  Reaches(q, b, floor)
  <2> SUFFICES ASSUME ~Reaches(q, b, floor) PROVE FALSE
    OBVIOUS
  <2>1. ff * sz(b) > sq(b) * 10000 /\ ~(sq(a) * sz(b) > sq(b) * sz(a))
    BY <1>1, <1>3, <1>6
  <2>2. /\ ff \in Nat /\ sq(b) \in Nat /\ sq(a) \in Nat /\ 10000 \in Nat /\ 10000 > 0
        /\ sz(b) \in Nat /\ sz(a) \in Nat /\ sz(b) > 0 /\ sz(a) > 0
    BY <1>2, <1>7
  <2>3. ff * sz(a) > sq(a) * 10000
    BY <2>1, <2>2, FractionAbove
  <2> QED
    BY <1>3, <1>6, <2>3
<1> QED
  BY <1>4, <1>5, <1>6

LEMMA RankedSorts ==
  ASSUME MemoryInv, operation.op = "recall", NEW ids \in SUBSET DOMAIN store
  PROVE  LET s == Ranked(ids) IN
         /\ IsFiniteSet(ids)
         /\ s \in [1..Cardinality(ids) -> ids] /\ IsInjective(s)
         /\ \A i, j \in 1..Cardinality(ids) :
              i < j => ~Closer(operation.text, store[s[j]].text, store[s[i]].text)
<1> DEFINE q == operation.text
           R == {p \in ids \X ids : Closer(q, store[p[1]].text, store[p[2]].text)}
           Sorted1(s) == /\ s \in [1..Cardinality(ids) -> ids] /\ IsInjective(s)
                         /\ \A i, j \in DOMAIN s : i < j => ~Closer(q, store[s[j]].text, store[s[i]].text)
<1>1. IsFiniteSet(ids)
  BY MemoryAssumption, FS_Subset DEF MemoryInv
<1>2. q \in Texts /\ \A id \in ids : store[id].text \in Texts
  BY DEF MemoryInv
<1>3. \A x, y \in ids : <<x, y>> \in R <=> Closer(q, store[x].text, store[y].text)
  OBVIOUS
<1> HIDE DEF q, R
<1>4. Orders(R, ids)
  <2>1. \A x \in ids : <<x, x>> \notin R
    BY <1>2, <1>3, CloserOrders, 0 \in Nat
  <2>2. ASSUME NEW x \in ids, NEW y \in ids, NEW z \in ids, <<x, y>> \in R, <<y, z>> \in R
        PROVE  <<x, z>> \in R
    <3>1. Closer(q, store[x].text, store[y].text) /\ Closer(q, store[y].text, store[z].text)
      BY <1>3, <2>2
    <3>2. Closer(q, store[x].text, store[z].text)
      BY <1>2, <3>1, CloserOrders, 0 \in Nat
    <3> QED
      BY <1>3, <3>2
  <2> QED
    BY <2>1, <2>2 DEF Orders
<1>5. PICK t : Ranks(t, R, ids)
  BY <1>1, <1>4, RankingExists
<1>6. Sorted1(t)
  <2>1. t \in [1..Cardinality(ids) -> ids] /\ IsInjective(t)
    BY <1>5 DEF Ranks
  <2>2. \A i, j \in 1..Cardinality(ids) : i < j => <<t[j], t[i]>> \notin R
    BY <1>5 DEF Ranks
  <2>3. \A i, j \in DOMAIN t : i < j => ~Closer(q, store[t[j]].text, store[t[i]].text)
    BY <1>3, <2>1, <2>2
  <2> QED
    BY <2>1, <2>3
<1>7. Ranked(ids) = CHOOSE s \in [1..Cardinality(ids) -> ids] :
        /\ IsInjective(s)
        /\ \A i, j \in DOMAIN s : i < j => ~Closer(q, store[s[j]].text, store[s[i]].text)
  BY Zenon DEF Ranked, q
<1>8. Sorted1(Ranked(ids))
  BY <1>6, <1>7, Zenon
<1> QED
  BY <1>1, <1>8 DEF q

LEMMA RecallFromRanking ==
  ASSUME MemoryInv, operation.op = "recall", NEW limit \in Nat
  PROVE  LET found == Found(limit)
             wanted(r) == Eligible(r) /\ Reaches(operation.text, r.text, operation.floor) IN
         /\ Len(found) <= limit
         /\ \A r \in ToSet(found) : wanted(r)
         /\ \A id \in DOMAIN store : LET r == store[id] IN
              wanted(r) /\ r.width = operation.width
                => \/ r \in ToSet(found)
                   \/ /\ Len(found) = limit
                      /\ \A hit \in ToSet(found) : ~Closer(operation.text, r.text, hit.text)
<1> DEFINE q == operation.text
           mine == {id \in DOMAIN store :
                      Eligible(store[id]) /\ store[id].width = operation.width}
           s == Ranked(mine)
           n == Cardinality(mine)
           m == IF Len(s) < limit THEN Len(s) ELSE limit
           best == SubSeq(s, 1, m)
           hits == [k \in DOMAIN best |-> store[best[k]]]
           records == {store[id] : id \in mine}
           near(h) == Reaches(q, h.text, operation.floor)
           found == AboveFloor(hits)
<1>1. mine \in SUBSET DOMAIN store /\ \A id \in mine : store[id].text \in Texts /\ Eligible(store[id])
  BY DEF MemoryInv
<1>2. q \in Texts /\ operation.floor \in Nat
  BY DEF MemoryInv
<1>3. Found(limit) = found
  BY DEF Found
<1> HIDE DEF mine
<1>4. /\ IsFiniteSet(mine) /\ s \in [1..n -> mine] /\ IsInjective(s)
      /\ \A i, j \in 1..n : i < j => ~Closer(q, store[s[j]].text, store[s[i]].text)
  BY <1>1, RankedSorts
<1> HIDE DEF s
<1>5. n \in Nat /\ s \in Seq(mine) /\ Len(s) = n /\ \A x \in mine : \E i \in 1..n : s[i] = x
  BY <1>4, RankingComplete
<1> HIDE DEF n
<1>6. m \in Nat /\ m <= n /\ m <= limit /\ (m = n \/ m = limit)
  BY <1>5
<1> HIDE DEF m
<1>7. Len(best) = m /\ DOMAIN best = 1..m /\ \A k \in 1..m : best[k] = s[k]
  BY <1>5, <1>6
<1> HIDE DEF best
<1>8. ASSUME NEW k \in 1..m PROVE k \in 1..n /\ s[k] \in mine /\ hits[k] = store[s[k]]
  BY <1>4, <1>5, <1>6, <1>7
<1>9. hits \in [1..m -> records]
  BY <1>7, <1>8
<1> HIDE DEF hits
<1>10. hits \in Seq(records) /\ Len(hits) = m
  BY <1>6, <1>9
<1>11. /\ found \in Seq(records) /\ Len(found) <= m
       /\ ToSet(found) = {h \in {hits[k] : k \in 1..m} : near(h)}
       /\ (\A k \in 1..m : near(hits[k])) => Len(found) = m
  BY <1>10, AboveFloorKeeps
<1> HIDE DEF found
<1>12. Len(found) \in Nat /\ Len(found) <= limit
  <2>1. Len(found) \in Nat
    BY <1>11
  <2> QED
    BY <1>6, <1>11, <2>1
<1>13. \A r \in ToSet(found) : Eligible(r) /\ near(r)
  BY <1>1, <1>8, <1>11
<1>14. ASSUME NEW id \in DOMAIN store,
              Eligible(store[id]), store[id].width = operation.width,
              near(store[id]), store[id] \notin ToSet(found)
       PROVE  /\ Len(found) = limit
              /\ \A hit \in ToSet(found) : ~Closer(q, store[id].text, hit.text)
  <2>1. id \in mine
    BY <1>14 DEF mine
  <2>2. PICK i \in 1..n : s[i] = id
    BY <1>5, <2>1
  <2>3. i \notin 1..m
    <3> SUFFICES ASSUME i \in 1..m PROVE FALSE
      OBVIOUS
    <3>1. hits[i] = store[id]
      BY <1>8, <2>2
    <3> QED
      BY <1>11, <1>14, <3>1
  <2>4. m = limit /\ \A k \in 1..m : k < i
    BY <1>5, <1>6, <2>2, <2>3
  <2>5. ASSUME NEW k \in 1..m PROVE ~Closer(q, store[id].text, hits[k].text) /\ near(hits[k])
    <3>1. ~Closer(q, store[id].text, hits[k].text)
      BY <1>4, <1>8, <2>2, <2>4
    <3>2. store[id].text \in Texts /\ hits[k].text \in Texts
      BY <1>1, <1>8, <2>1
    <3>3. near(hits[k])
      BY <1>2, <1>14, <3>1, <3>2, CloserOrders
    <3> QED
      BY <3>1, <3>3
  <2>6. Len(found) = limit
    BY <1>11, <2>4, <2>5
  <2>7. \A hit \in ToSet(found) : ~Closer(q, store[id].text, hit.text)
    BY <1>11, <2>5
  <2> QED
    BY <2>6, <2>7
<1> HIDE DEF q
<1> QED
  BY <1>3, <1>12, <1>13, <1>14 DEF q

LEMMA MemoryStarts == MemoryInit => MemoryInv
  BY DEF MemoryInit, MemoryInv, NoOp

LEMMA MemoryGoesOn == MemoryInv /\ [MemoryNext]_memoryVars => MemoryInv'
<1> SUFFICES ASSUME MemoryInv, [MemoryNext]_memoryVars PROVE MemoryInv'
  OBVIOUS
<1>1. NoOp.op = "none"
  BY DEF NoOp
<1>2. CASE Embed
  <2>1. UNCHANGED store
    BY <1>2 DEF Embed
  <2>2. PICK ns \in Namespaces, text \in Texts, width \in Widths :
          \/ \E tag \in Tags, id \in Ids :
               operation' = [op |-> "remember", ns |-> ns, text |-> text, width |-> width,
                             tag |-> tag, ids |-> <<id>>]
          \/ \E where \in SUBSET Tags, floor \in Floors :
               operation' = [op |-> "recall", ns |-> ns, text |-> text, width |-> width,
                             where |-> where, floor |-> floor]
    BY <1>2 DEF Embed
  <2>3. CASE \E tag \in Tags, id \in Ids :
               operation' = [op |-> "remember", ns |-> ns, text |-> text, width |-> width,
                             tag |-> tag, ids |-> <<id>>]
    <3>1. PICK id \in Ids : /\ operation'.op = "remember" /\ operation'.text = text
                            /\ operation'.ids = <<id>>
      BY <2>3
    <3>2. <<id>> \in Seq(Ids) /\ <<id>> # <<>>
      OBVIOUS
    <3> QED
      BY <2>1, <3>1, <3>2 DEF MemoryInv
  <2>4. CASE \E where \in SUBSET Tags, floor \in Floors :
               operation' = [op |-> "recall", ns |-> ns, text |-> text, width |-> width,
                             where |-> where, floor |-> floor]
    <3>1. PICK floor \in Floors : /\ operation'.op = "recall" /\ operation'.text = text
                                  /\ operation'.floor = floor
      BY <2>4
    <3>2. floor \in Nat
      BY MemoryAssumption
    <3> QED
      BY <2>1, <3>1, <3>2 DEF MemoryInv
  <2> QED
    BY <2>2, <2>3, <2>4
<1>3. CASE EmbedMany
  <2>1. UNCHANGED store
    BY <1>3 DEF EmbedMany
  <2>2. PICK ns \in Namespaces, text \in Texts, width \in Widths \union {0},
             tag \in Tags, id \in Ids \ DOMAIN store, other \in Ids \ DOMAIN store :
          operation' = [op |-> "remember", ns |-> ns, text |-> text, width |-> width,
                        tag |-> tag, ids |-> <<id, other>>]
    BY <1>3 DEF EmbedMany
  <2>3. <<id, other>> \in Seq(Ids) /\ <<id, other>> # <<>>
    OBVIOUS
  <2>4. /\ operation'.text = text /\ operation'.ids = <<id, other>>
        /\ operation'.op = "remember"
    BY <2>2
  <2> QED
    BY <2>1, <2>3, <2>4 DEF MemoryInv
<1>4. CASE Fails
  BY <1>1, <1>4 DEF Fails, MemoryInv
<1>5. CASE Add
  <2> DEFINE first == Head(operation.ids)
             rest == IF operation.width = 0 THEN {} ELSE ToSet(Tail(operation.ids))
             width == IF operation.width = 0 THEN CHOOSE w \in Widths : TRUE ELSE operation.width
  <2>1. /\ operation.op = "remember" /\ operation' = NoOp
        /\ store' = [id \in DOMAIN store \union {first} \union rest |->
                       IF id = first \/ id \in rest THEN Record(width) ELSE store[id]]
    BY <1>5 DEF Add
  <2>2. operation.ids \in Seq(Ids) /\ operation.ids # <<>> /\ operation.text \in Texts
    BY <2>1 DEF MemoryInv
  <2>3. first \in Ids /\ Tail(operation.ids) \in Seq(Ids)
    BY <2>2
  <2>4. ToSet(Tail(operation.ids)) \subseteq Ids
    BY <2>3 DEF ToSet
  <2>5. rest \subseteq Ids
    BY <2>4
  <2>6. Record(width).text \in Texts
    BY <2>2 DEF Record
  <2> HIDE DEF first, rest, width
  <2> QED
    BY <1>1, <2>1, <2>3, <2>5, <2>6 DEF MemoryInv
<1>6. CASE Recall
  BY <1>1, <1>6 DEF Recall, MemoryInv
<1>7. CASE Forget
  <2>1. UNCHANGED operation
    BY <1>7 DEF Forget
  <2>2. DOMAIN store' \subseteq DOMAIN store /\ \A id \in DOMAIN store' : store'[id] = store[id]
    <3>1. CASE \E id \in DOMAIN store : store' = [other \in DOMAIN store \ {id} |-> store[other]]
      BY <3>1
    <3>2. CASE \E ns \in Namespaces :
                 store' = [id \in {i \in DOMAIN store : store[i].ns # ns} |-> store[id]]
      BY <3>2
    <3>3. CASE store' = <<>>
      BY <3>3
    <3> QED
      BY <1>7, <3>1, <3>2, <3>3 DEF Forget
  <2> QED
    BY <2>1, <2>2 DEF MemoryInv
<1>8. CASE UNCHANGED memoryVars
  BY <1>8 DEF memoryVars, MemoryInv
<1> QED
  BY <1>2, <1>3, <1>4, <1>5, <1>6, <1>7, <1>8 DEF MemoryNext

\* A recall takes the best of its engagement's records that have the metadata it
\* asks for and reach its floor, and leaves such a record out only for a limit that is
\* reached with records at least as close: whatever other operations did to the store
\* while the query was embedded.
THEOREM RecallsAreHonest == MemorySpec => []RecallHonest
<1>1. MemoryInv => RecallHonest
  <2>1. \A limit \in 0..2 : limit \in Nat
    OBVIOUS
  <2> QED
    BY <2>1, RecallFromRanking DEF RecallHonest
<1>2. MemoryInit => MemoryInv
  BY MemoryStarts
<1>3. MemoryInv /\ [MemoryNext]_memoryVars => MemoryInv'
  BY MemoryGoesOn
<1> QED
  BY <1>1, <1>2, <1>3, PTL DEF MemorySpec

-----------------------------------------------------------------------------
(* Canonical.                                                              *)

LEMMA DomainKey ==
  ASSUME NEW t \in DomainTexts
  PROVE  /\ t.name = "" => Domain(t) = Refused
         /\ t.name # "" => /\ Domain(t) = [name |-> t.name, upper |-> FALSE, dot |-> FALSE]
                           /\ Domain(t) # Refused /\ Domain(t) \in DomainTexts
                           /\ Domain(Domain(t)) = Domain(t)
BY DEF Domain, Refused, DomainTexts

\* An address is no name, and a host is stable.
LEMMA HostKey ==
  ASSUME NEW t \in HostTexts, Host(t) # Refused
  PROVE  Host(t) \in HostTexts /\ Host(Host(t)) = Host(t)
<1>1. CASE t \in DomainTexts
  <2>1. DOMAIN t = {"name", "upper", "dot"}
    BY <1>1 DEF DomainTexts
  <2>2. Host(t) = Domain(t)
    BY <2>1 DEF Host
  <2>3. Domain(t) \in DomainTexts /\ Domain(Domain(t)) = Domain(t)
    BY <1>1, <2>2, DomainKey
  <2>4. DOMAIN Domain(t) = {"name", "upper", "dot"}
    BY <2>3 DEF DomainTexts
  <2> QED
    BY <2>2, <2>3, <2>4 DEF Host, HostTexts
<1>2. CASE t \in AddressTexts
  <2>1. "address" \in DOMAIN t /\ t.address \in {"4", "6"}
    BY <1>2 DEF AddressTexts
  <2>2. Host(t) = [address |-> t.address, long |-> FALSE, bracket |-> t.address = "6"]
    BY <2>1 DEF Host
  <2>3. Host(t) \in AddressTexts
    BY <2>1, <2>2 DEF AddressTexts
  <2>4. "address" \in DOMAIN Host(t)
    BY <2>2
  <2>5. Host(Host(t)) = [address |-> Host(t).address, long |-> FALSE, bracket |-> Host(t).address = "6"]
    BY <2>4 DEF Host
  <2> QED
    BY <2>2, <2>3, <2>5 DEF HostTexts
<1> QED
  BY <1>1, <1>2 DEF HostTexts

LEMMA EmailKey ==
  ASSUME NEW t \in EmailTexts, Email(t) # Refused
  PROVE  Email(Email(t)) = Email(t)
<1>1. /\ t.at /\ t.local # "" /\ Domain(t.domain) # Refused
      /\ Email(t) = [t EXCEPT !.upper = FALSE, !.domain = Domain(@)]
      /\ t.domain \in DomainTexts
  BY DEF Email, EmailTexts
<1>2. Domain(Domain(t.domain)) = Domain(t.domain)
  BY <1>1, DomainKey
<1>3. /\ Email(t).at = t.at /\ Email(t).local = t.local /\ Email(t).domain = Domain(t.domain)
      /\ Email(t).upper = FALSE
  BY <1>1 DEF EmailTexts
<1> QED
  BY <1>1, <1>2, <1>3 DEF Email, EmailTexts

LEMMA HandleKey ==
  ASSUME NEW t \in HandleTexts, Handle(t) # Refused, t.name # "", ~(t.form = "url" /\ t.at)
  PROVE  Handle(Handle(t)) = Handle(t)
<1>1. CASE t.form = "url"
  <2>1. Handle(t) = [t EXCEPT !.form = "path"]
    BY <1>1 DEF Handle
  <2> QED
    BY <1>1, <2>1 DEF Handle, HandleTexts
<1>2. CASE t.form = "path"
  <2>1. Handle(t) = [t EXCEPT !.at = FALSE]
    BY <1>2 DEF Handle
  <2> QED
    BY <1>2, <2>1 DEF Handle, HandleTexts
<1>3. CASE t.form = "plain"
  <2>1. Handle(t) = PlainHandle(t.name)
    BY <1>3 DEF Handle
  <2> QED
    BY <1>3, <2>1 DEF Handle, PlainHandle
<1> QED
  BY <1>1, <1>2, <1>3 DEF HandleTexts

LEMMA DigestKey ==
  ASSUME NEW t \in DigestTexts, Digest(t) # Refused
  PROVE  Digest(Digest(t)) = Digest(t)
BY DEF Digest, DigestTexts

\* In front of a port, two hosts have one key exactly if they are one host.
LEMMA OneHost ==
  ASSUME NEW t \in HostPorts, NEW other \in HostPorts, Host(t) # Refused, Host(other) # Refused
  PROVE  Host(other) = Host(t) <=> HostOf(other) = HostOf(t)
<1>1. ASSUME NEW h \in HostPorts, Host(h) # Refused
      PROVE  \/ /\ Host(h) = [name |-> h.name, upper |-> FALSE, dot |-> FALSE]
                /\ HostOf(h) = [name |-> h.name]
             \/ /\ Host(h) = [address |-> h.address, long |-> FALSE, bracket |-> h.address = "6"]
                /\ HostOf(h) = [address |-> h.address]
  <2>1. CASE h \in DomainTexts
    <3>1. DOMAIN h = {"name", "upper", "dot"}
      BY <2>1 DEF DomainTexts
    <3>2. Host(h) = Domain(h) /\ HostOf(h) = [name |-> h.name]
      BY <3>1 DEF Host, HostOf
    <3> QED
      BY <1>1, <2>1, <3>2, DomainKey
  <2>2. CASE h \in AddressTexts
    <3>1. "address" \in DOMAIN h
      BY <2>2 DEF AddressTexts
    <3> QED
      BY <3>1 DEF Host, HostOf
  <2> QED
    BY <2>1, <2>2 DEF HostPorts, HostTexts
<1>2. \A a, b : [name |-> a] # [address |-> b]
  <2> TAKE a, b
  <2>1. DOMAIN [name |-> a] = {"name"} /\ DOMAIN [address |-> b] = {"address"}
    OBVIOUS
  <2> QED
    BY <2>1
<1>3. \A a, b : [name |-> a, upper |-> FALSE, dot |-> FALSE]
                  # [address |-> b, long |-> FALSE, bracket |-> b = "6"]
  <2> TAKE a, b
  <2>1. /\ "address" \notin DOMAIN [name |-> a, upper |-> FALSE, dot |-> FALSE]
        /\ "address" \in DOMAIN [address |-> b, long |-> FALSE, bracket |-> b = "6"]
    OBVIOUS
  <2> QED
    BY <2>1
<1>4. \A a, b : [name |-> a] = [name |-> b] <=> a = b
  OBVIOUS
<1>5. \A a, b : [address |-> a] = [address |-> b] <=> a = b
  OBVIOUS
<1>6. \A a, b : [name |-> a, upper |-> FALSE, dot |-> FALSE]
                  = [name |-> b, upper |-> FALSE, dot |-> FALSE] <=> a = b
  OBVIOUS
<1>7. \A a, b : [address |-> a, long |-> FALSE, bracket |-> a = "6"]
                  = [address |-> b, long |-> FALSE, bracket |-> b = "6"] <=> a = b
  OBVIOUS
<1> QED
  BY <1>1, <1>2, <1>3, <1>4, <1>5, <1>6, <1>7

LEMMA ServiceKey ==
  ASSUME NEW t \in ServiceTexts, Service(t) # Refused
  PROVE  /\ Service(Service(t)) = Service(t)
         /\ \A other \in ServiceTexts : Service(other) # Refused =>
              (Service(other) = Service(t)
                 <=> Thing("network_service", other) = Thing("network_service", t))
<1> DEFINE Protocol(s) == IF s.protocol = "" THEN "tcp" ELSE s.protocol
<1>1. ASSUME NEW s \in ServiceTexts, Service(s) # Refused
      PROVE  /\ Service(s) = [host |-> Host(s.host), port |-> "80", protocol |-> Protocol(s)]
             /\ s.host \in HostPorts /\ s.host \in HostTexts /\ Host(s.host) # Refused
             /\ Protocol(s) \in {"tcp", "udp"}
             /\ Thing("network_service", s) = <<HostOf(s.host), Protocol(s)>>
  BY <1>1 DEF Service, ServiceTexts, Thing, HostPorts
<1>2. Service(Service(t)) = Service(t)
  <2>1. Host(Host(t.host)) = Host(t.host)
    BY <1>1, HostKey
  <2>2. /\ Service(t) = [host |-> Host(t.host), port |-> "80", protocol |-> Protocol(t)]
        /\ Protocol(t) \in {"tcp", "udp"} /\ Host(t.host) # Refused
    BY <1>1
  <2> DEFINE key == Service(t)
  <2> HIDE DEF Protocol, key
  <2>3. key = [host |-> Host(t.host), port |-> "80", protocol |-> Protocol(t)]
    BY <2>2 DEF key
  <2>4. key.host = Host(t.host) /\ key.port = "80" /\ key.protocol = Protocol(t)
    BY <2>3
  <2>5. Service(key) = key
    BY <2>1, <2>2, <2>3, <2>4 DEF Service
  <2> QED
    BY <2>5 DEF key
<1>3. ASSUME NEW other \in ServiceTexts, Service(other) # Refused
      PROVE  Service(other) = Service(t)
               <=> Thing("network_service", other) = Thing("network_service", t)
  <2>1. Host(other.host) = Host(t.host) <=> HostOf(other.host) = HostOf(t.host)
    BY <1>1, <1>3, OneHost
  <2> HIDE DEF Protocol
  <2> QED
    BY <1>1, <1>3, <2>1
<1> QED
  BY <1>2, <1>3

\* How a name is written in an URL.
InUrl(name) == [name |-> name, upper |-> FALSE, dot |-> name = ""]

\* The host of an URL is stable, and one host is written in one way, unless it is an
\* address.
LEMMA OneUrlHost ==
  ASSUME NEW t \in HostPorts, t \notin NoHost
  PROVE  /\ UrlHost(t) \in HostPorts /\ UrlHost(t) \notin NoHost
         /\ UrlHost(UrlHost(t)) = UrlHost(t)
         /\ \A other \in HostPorts \ NoHost :
              /\ UrlHost(other) = UrlHost(t) => HostOf(other) = HostOf(t)
              /\ HostOf(other) = HostOf(t) =>
                   UrlHost(other) = UrlHost(t) \/ (t \in AddressTexts /\ other # t)
<1>1. ASSUME NEW h \in HostPorts, h \notin NoHost
      PROVE  \/ /\ h \in AddressTexts /\ "address" \in DOMAIN h
                /\ UrlHost(h) = h /\ HostOf(h) = [address |-> h.address]
             \/ /\ h \in DomainTexts /\ "address" \notin DOMAIN h
                /\ UrlHost(h) = InUrl(h.name)
                /\ HostOf(h) = [name |-> h.name] /\ (h.name = "" => h.dot)
  <2>1. CASE h \in DomainTexts
    <3>1. /\ DOMAIN h = {"name", "upper", "dot"} /\ h.upper \in BOOLEAN /\ h.dot \in BOOLEAN
          /\ h = [name |-> h.name, upper |-> h.upper, dot |-> h.dot]
      BY <2>1 DEF DomainTexts
    <3>2. h.name = "" => h.dot = TRUE
      <4> SUFFICES ASSUME h.name = "", h.dot # TRUE PROVE FALSE
        OBVIOUS
      <4>1. h.dot \in {FALSE} /\ h.name \in {""}
        BY <3>1
      <4>2. h \in NoHost
        BY <3>1, <4>1 DEF NoHost
      <4> QED
        BY <1>1, <4>2
    <3>3. UrlHost(h) = IF Domain(h) = Refused THEN [name |-> "", upper |-> FALSE, dot |-> TRUE] ELSE Domain(h)
      BY <3>1 DEF UrlHost
    <3>4. CASE h.name = ""
      <4>1. Domain(h) = Refused
        BY <2>1, <3>4, DomainKey
      <4>2. h.dot = TRUE
        BY <3>1, <3>2, <3>4
      <4>4. UrlHost(h) = InUrl(h.name)
        BY <3>3, <3>4, <4>1 DEF InUrl
      <4>5. HostOf(h) = [name |-> h.name]
        BY <3>1 DEF HostOf
      <4> QED
        BY <2>1, <3>1, <3>2, <4>4, <4>5
    <3>5. CASE h.name # ""
      <4>1. UrlHost(h) = InUrl(h.name)
        <5>1. Domain(h) # Refused /\ Domain(h) = [name |-> h.name, upper |-> FALSE, dot |-> FALSE]
          BY <2>1, <3>5, DomainKey
        <5>2. (h.name = "") = FALSE
          BY <3>5
        <5> QED
          BY <3>3, <5>1, <5>2 DEF InUrl
      <4>2. HostOf(h) = [name |-> h.name]
        BY <3>1 DEF HostOf
      <4> QED
        BY <2>1, <3>1, <3>2, <4>1, <4>2
    <3> QED
      BY <3>4, <3>5
  <2>2. CASE h \in AddressTexts
    <3>1. "address" \in DOMAIN h
      BY <2>2 DEF AddressTexts
    <3> QED
      BY <2>2, <3>1 DEF UrlHost, HostOf
  <2> QED
    BY <2>1, <2>2 DEF HostPorts, HostTexts
<1>2. \A a, b : [name |-> a] # [address |-> b]
  <2> TAKE a, b
  <2>1. DOMAIN [name |-> a] = {"name"} /\ DOMAIN [address |-> b] = {"address"}
    OBVIOUS
  <2> QED
    BY <2>1
<1>3. \A a, b : [name |-> a] = [name |-> b] <=> a = b
  OBVIOUS
<1>6. ASSUME NEW a, NEW b
      PROVE  InUrl(a) = InUrl(b) <=> a = b
  <2>1. InUrl(a).name = a /\ InUrl(b).name = b
    BY DEF InUrl
  <2>2. InUrl(a) = InUrl(b) => a = b
    BY <2>1
  <2> QED
    BY <2>2
<1>7. \A a : DOMAIN InUrl(a) = {"name", "upper", "dot"}
  BY DEF InUrl
<1>4. CASE t \in AddressTexts /\ "address" \in DOMAIN t
  <2>1. UrlHost(t) = t /\ HostOf(t) = [address |-> t.address]
    BY <1>4 DEF UrlHost, HostOf
  <2>2. ASSUME NEW other \in HostPorts \ NoHost
        PROVE  UrlHost(other) = UrlHost(t) => HostOf(other) = HostOf(t)
    <3> SUFFICES ASSUME UrlHost(other) = t PROVE HostOf(other) = HostOf(t)
      BY <2>1
    <3>1. "address" \in DOMAIN other
      <4> SUFFICES ASSUME "address" \notin DOMAIN other PROVE FALSE
        OBVIOUS
      <4>1. t = InUrl(other.name)
        BY <1>1
      <4>2. "address" \notin DOMAIN InUrl(other.name)
        BY <1>7
      <4> QED
        BY <1>4, <4>1, <4>2
    <3>2. UrlHost(other) = other
      BY <3>1 DEF UrlHost
    <3>3. other = t
      BY <3>2
    <3> QED
      BY <3>3
  <2>3. ASSUME NEW other \in HostPorts \ NoHost
        PROVE  UrlHost(other) = UrlHost(t) \/ (t \in AddressTexts /\ other # t)
    BY <1>4
  <2>4. /\ UrlHost(t) \in HostPorts /\ UrlHost(t) \notin NoHost
        /\ UrlHost(UrlHost(t)) = UrlHost(t)
    <3>1. t \in HostPorts /\ t \notin NoHost
      OBVIOUS
    <3> QED
      BY <2>1, <3>1
  <2> QED
    BY <2>2, <2>3, <2>4
<1>5. CASE t \in DomainTexts /\ "address" \notin DOMAIN t
  <2> DEFINE key == InUrl(t.name)
  <2>1. UrlHost(t) = key /\ HostOf(t) = [name |-> t.name]
    BY <1>1, <1>5
  <2>2. /\ key.name = t.name /\ DOMAIN key = {"name", "upper", "dot"} /\ key \in DomainTexts
        /\ (t.name = "" => key.dot) /\ "address" \notin DOMAIN key
    BY <1>5 DEF DomainTexts, InUrl
  <2> HIDE DEF key
  <2>3. key \in HostPorts /\ key \notin NoHost
    <3>1. key \in HostPorts
      BY <2>2 DEF HostPorts, HostTexts
    <3>2. key \notin NoHost
      BY <2>2 DEF NoHost
    <3> QED
      BY <3>1, <3>2
  <2>4. UrlHost(key) = key
    <3>1. UrlHost(key) = InUrl(key.name)
      BY <1>1, <2>2, <2>3
    <3> QED
      BY <2>2, <3>1 DEF key
  <2>5. ASSUME NEW other \in HostPorts \ NoHost
        PROVE  UrlHost(other) = UrlHost(t) <=> HostOf(other) = HostOf(t)
    <3>1. CASE "address" \in DOMAIN other
      <4>1. UrlHost(other) = other /\ HostOf(other) = [address |-> other.address]
        BY <3>1 DEF UrlHost, HostOf
      <4> QED
        BY <1>2, <2>1, <2>2, <3>1, <4>1
    <3>2. CASE "address" \notin DOMAIN other
      <4>1. UrlHost(other) = InUrl(other.name) /\ HostOf(other) = [name |-> other.name]
        BY <1>1, <3>2
      <4>2. UrlHost(other) = key <=> other.name = t.name
        BY <1>6, <4>1 DEF key
      <4>3. HostOf(other) = HostOf(t) <=> other.name = t.name
        BY <1>3, <2>1, <4>1
      <4> QED
        BY <2>1, <4>2, <4>3
    <3> QED
      BY <3>1, <3>2
  <2>6. /\ UrlHost(t) \in HostPorts /\ UrlHost(t) \notin NoHost
        /\ UrlHost(UrlHost(t)) = UrlHost(t)
    BY <2>1, <2>3, <2>4
  <2> QED
    BY <2>5, <2>6
<1> QED
  BY <1>1, <1>4, <1>5

LEMMA UrlKey ==
  ASSUME NEW t \in UrlTexts, Url(t) # Refused
  PROVE  /\ Url(Url(t)) = Url(t)
         /\ \A other \in UrlTexts : Url(other) # Refused =>
              /\ Url(other) = Url(t) => Thing("url", other) = Thing("url", t)
              /\ Thing("url", other) = Thing("url", t) =>
                   Url(other) = Url(t) \/ (t.host \in AddressTexts /\ other.host # t.host)
<1> DEFINE Port(u) == IF u.port = DefaultPort[u.scheme] THEN "" ELSE u.port
           Password(u) == IF u.user = "" THEN "" ELSE u.password
           Path(u) == IF u.path = "" THEN "/" ELSE u.path
<1>1. ASSUME NEW u \in UrlTexts, Url(u) # Refused
      PROVE  /\ Url(u) = [scheme |-> u.scheme, user |-> u.user, password |-> Password(u),
                          host |-> UrlHost(u.host), port |-> Port(u), path |-> Path(u),
                          fragment |-> ""]
             /\ u.scheme \in {"http", "https"} /\ DefaultPort[u.scheme] \in {"80", "443"}
             /\ u.port \in {"", "80", "443"}
             /\ u.host \in HostPorts /\ u.host \notin NoHost
             /\ Thing("url", u) = <<u.scheme, u.user, Password(u), HostOf(u.host),
                                    IF u.port = "" THEN DefaultPort[u.scheme] ELSE u.port, Path(u)>>
  <2>1. u \in UrlTexts /\ u.scheme # "" /\ u.host \notin NoHost
    BY <1>1 DEF Url
  <2>2. /\ u.scheme \in {"http", "https"} /\ u.port \in {"", "80", "443"}
        /\ u.host \in HostPorts /\ u = [scheme |-> u.scheme, user |-> u.user,
             password |-> u.password, host |-> u.host, port |-> u.port, path |-> u.path,
             fragment |-> u.fragment]
    BY <2>1 DEF UrlTexts, HostPorts
  <2>3. DefaultPort[u.scheme] \in {"80", "443"}
    <3>1. DefaultPort["http"] = "80" /\ DefaultPort["https"] = "443"
      BY DEF DefaultPort
    <3> QED
      BY <2>2, <3>1
  <2>4. Url(u) = [u EXCEPT !.host = UrlHost(@), !.fragment = "",
                           !.port = IF @ = DefaultPort[u.scheme] THEN "" ELSE @,
                           !.password = IF u.user = "" THEN "" ELSE @,
                           !.path = IF @ = "" THEN "/" ELSE @]
    BY <2>1 DEF Url
  <2>5. Thing("url", u) = <<u.scheme, u.user, Password(u), HostOf(u.host),
                            IF u.port = "" THEN DefaultPort[u.scheme] ELSE u.port, Path(u)>>
    BY DEF Thing
  <2>6. Url(u) = [scheme |-> u.scheme, user |-> u.user, password |-> Password(u),
                  host |-> UrlHost(u.host), port |-> Port(u), path |-> Path(u), fragment |-> ""]
    BY <2>2, <2>4
  <2> QED
    BY <2>1, <2>2, <2>3, <2>5, <2>6
<1>2. Url(Url(t)) = Url(t)
  <2>1. UrlHost(UrlHost(t.host)) = UrlHost(t.host) /\ UrlHost(t.host) \notin NoHost
    BY <1>1, OneUrlHost
  <2>2. /\ Port(t) # DefaultPort[t.scheme] /\ Path(t) # ""
        /\ t.user = "" => Password(t) = ""
    BY <1>1
  <2> DEFINE key == Url(t)
  <2> HIDE DEF Port, Password, Path
  <2>3. key = [scheme |-> t.scheme, user |-> t.user, password |-> Password(t),
               host |-> UrlHost(t.host), port |-> Port(t), path |-> Path(t), fragment |-> ""]
    BY <1>1
  <2> HIDE DEF key
  <2>4. Url(key) = [key EXCEPT !.host = UrlHost(@), !.fragment = "",
                               !.port = IF @ = DefaultPort[key.scheme] THEN "" ELSE @,
                               !.password = IF key.user = "" THEN "" ELSE @,
                               !.path = IF @ = "" THEN "/" ELSE @]
    BY <1>1, <2>1, <2>3 DEF Url
  <2>5. Url(key) = key
    BY <2>1, <2>2, <2>3, <2>4
  <2> QED
    BY <2>5 DEF key
<1>3. ASSUME NEW other \in UrlTexts, Url(other) # Refused
      PROVE  /\ Url(other) = Url(t) => Thing("url", other) = Thing("url", t)
             /\ Thing("url", other) = Thing("url", t) =>
                  Url(other) = Url(t) \/ (t.host \in AddressTexts /\ other.host # t.host)
  <2>1. /\ UrlHost(other.host) = UrlHost(t.host) => HostOf(other.host) = HostOf(t.host)
        /\ HostOf(other.host) = HostOf(t.host) =>
             UrlHost(other.host) = UrlHost(t.host) \/ (t.host \in AddressTexts /\ other.host # t.host)
    BY <1>1, <1>3, OneUrlHost
  <2> DEFINE Real(u) == IF u.port = "" THEN DefaultPort[u.scheme] ELSE u.port
  <2>2. other.scheme = t.scheme => (Port(other) = Port(t) <=> Real(other) = Real(t))
    BY <1>1, <1>3
  <2>3. /\ Thing("url", t) = <<t.scheme, t.user, Password(t), HostOf(t.host), Real(t), Path(t)>>
        /\ Thing("url", other) = <<other.scheme, other.user, Password(other), HostOf(other.host),
                                   Real(other), Path(other)>>
    BY <1>1, <1>3
  <2>4. Url(t) = [scheme |-> t.scheme, user |-> t.user, password |-> Password(t),
                  host |-> UrlHost(t.host), port |-> Port(t), path |-> Path(t), fragment |-> ""]
    BY <1>1
  <2>5. Url(other) = [scheme |-> other.scheme, user |-> other.user, password |-> Password(other),
                      host |-> UrlHost(other.host), port |-> Port(other), path |-> Path(other),
                      fragment |-> ""]
    BY <1>1, <1>3
  <2> HIDE DEF Port, Password, Path, Real
  <2> DEFINE Same == /\ other.scheme = t.scheme /\ other.user = t.user
                     /\ Password(other) = Password(t) /\ UrlHost(other.host) = UrlHost(t.host)
                     /\ Port(other) = Port(t) /\ Path(other) = Path(t)
             key == Url(t)
             otherKey == Url(other)
  <2>6. otherKey = key <=> Same
    <3> HIDE DEF key, otherKey
    <3>1. /\ key.scheme = t.scheme /\ key.user = t.user /\ key.password = Password(t)
          /\ key.host = UrlHost(t.host) /\ key.port = Port(t) /\ key.path = Path(t)
      <4>1. key = [scheme |-> t.scheme, user |-> t.user, password |-> Password(t),
                   host |-> UrlHost(t.host), port |-> Port(t), path |-> Path(t), fragment |-> ""]
        BY <2>4 DEF key
      <4> QED
        BY <4>1
    <3>2. /\ otherKey.scheme = other.scheme /\ otherKey.user = other.user
          /\ otherKey.password = Password(other) /\ otherKey.host = UrlHost(other.host)
          /\ otherKey.port = Port(other) /\ otherKey.path = Path(other)
      <4>1. otherKey = [scheme |-> other.scheme, user |-> other.user,
                        password |-> Password(other), host |-> UrlHost(other.host),
                        port |-> Port(other), path |-> Path(other), fragment |-> ""]
        BY <2>5 DEF otherKey
      <4> QED
        BY <4>1
    <3>3. ASSUME Same PROVE otherKey = key
      BY <2>4, <2>5, <3>3 DEF key, otherKey
    <3> QED
      BY <3>1, <3>2, <3>3
  <2>7. Thing("url", other) = Thing("url", t)
          <=> /\ other.scheme = t.scheme /\ other.user = t.user /\ Password(other) = Password(t)
              /\ HostOf(other.host) = HostOf(t.host) /\ Real(other) = Real(t) /\ Path(other) = Path(t)
    BY <2>3
  <2> QED
    BY <2>1, <2>2, <2>6, <2>7
<1> QED
  BY <1>2, <1>3

\* Of a sequence that starts with what the filter drops and goes on with what it
\* keeps, the rest is kept as it is.
LEMMA KeptRest ==
  ASSUME NEW S, NEW s \in Seq(S), NEW P, NEW g, Keeps(s, P, g), NEW m \in 0..Len(s),
         \A k \in 1..m : s[k] \notin P, \A k \in (m + 1)..Len(s) : s[k] \in P
  PROVE  g[Len(s)] = SubSeq(s, m + 1, Len(s))
<1> DEFINE n == Len(s)
           Rest(i) == SubSeq(s, m + 1, i)
           T == {i \in Nat : i <= n => g[i] = Rest(i)}
<1>0. n \in Nat /\ m \in Nat /\ m <= n /\ s \in [1..n -> S]
  OBVIOUS
<1>1. 0 \in T
  <2>1. g[0] = <<>>
    BY DEF Keeps
  <2>2. Rest(0) = <<>>
    BY <1>0
  <2> QED
    BY <2>1, <2>2
<1>2. ASSUME NEW i \in Nat, i \in T PROVE i + 1 \in T
  <2> SUFFICES ASSUME i + 1 <= n PROVE g[i + 1] = Rest(i + 1)
    OBVIOUS
  <2>1. /\ i + 1 \in 1..n /\ (i + 1) - 1 = i /\ g[i] = Rest(i)
    BY <1>0, <1>2
  <2>2. g[i + 1] = IF s[i + 1] \in P THEN Append(g[i], s[i + 1]) ELSE g[i]
    BY <2>1 DEF Keeps
  <2>3. CASE i + 1 <= m
    <3>1. s[i + 1] \notin P
      BY <2>1, <2>3
    <3>2. Rest(i) = <<>> /\ Rest(i + 1) = <<>>
      BY <1>0, <2>1, <2>3
    <3> QED
      BY <2>1, <2>2, <3>1, <3>2
  <2>4. CASE i + 1 > m
    <3>1. s[i + 1] \in P
      BY <1>0, <2>1, <2>4
    <3>2. Append(Rest(i), s[i + 1]) = Rest(i + 1)
      <4>1. /\ Rest(i) = [k \in 1..(i - m) |-> s[k + m]]
            /\ Rest(i + 1) = [k \in 1..(i + 1 - m) |-> s[k + m]]
            /\ i - m \in Nat
        BY <1>0, <2>1, <2>4
      <4>2. Rest(i) \in Seq(S) /\ Len(Rest(i)) = i - m
        BY <1>0, <2>1, <2>4
      <4> HIDE DEF Rest
      <4>3. Append(Rest(i), s[i + 1])
              = [k \in 1..(i - m + 1) |-> IF k = i - m + 1 THEN s[i + 1] ELSE Rest(i)[k]]
        BY <4>2
      <4> QED
        BY <1>0, <2>1, <4>1, <4>3
    <3> QED
      BY <2>1, <2>2, <3>1, <3>2
  <2> QED
    BY <1>0, <2>3, <2>4
<1> HIDE DEF T, n
<1>3. n \in T
  BY <1>0, <1>1, <1>2, NaturalInduction
<1> QED
  BY <1>0, <1>3 DEF T, n

LEMMA StrippedKeeps ==
  ASSUME NEW S, NEW s \in Seq(S), NEW c
  PROVE  \E g : Keeps(s, S \ {c}, g) /\ Stripped(c, s) = g[Len(s)]
<1> DEFINE n == Len(s)
           Unfolds(g) == g = [k \in 0..Len(s) |->
                                IF k = 0 THEN <<>>
                                ELSE IF s[k] # c THEN Append(g[k - 1], s[k]) ELSE g[k - 1]]
           kept == CHOOSE g : Unfolds(g)
           P == S \ {c}
<1>1. Stripped(c, s) = kept[Len(s)]
  BY DEF Stripped
<1>2. Len(s) \in Nat /\ \A k \in 1..Len(s) : s[k] \in P <=> s[k] # c
  OBVIOUS
<1> HIDE DEF P
<1>3. \E g : Unfolds(g)
  <2>1. PICK g \in [0..Len(s) -> Seq(S)] : Keeps(s, P, g)
    BY KeepsExists
  <2>2. ASSUME NEW k \in 0..Len(s)
        PROVE  g[k] = IF k = 0 THEN <<>>
                      ELSE IF s[k] # c THEN Append(g[k - 1], s[k]) ELSE g[k - 1]
    <3>1. CASE k = 0
      BY <2>1, <3>1 DEF Keeps
    <3>2. CASE k # 0
      <4>1. k \in 1..Len(s)
        BY <1>2, <3>2
      <4>2. g[k] = IF s[k] \in P THEN Append(g[k - 1], s[k]) ELSE g[k - 1]
        BY <2>1, <4>1 DEF Keeps
      <4> QED
        BY <1>2, <3>2, <4>1, <4>2
    <3> QED
      BY <3>1, <3>2
  <2>3. Unfolds(g)
    BY <2>1, <2>2, Zenon
  <2> QED
    BY <2>3
<1>4. Unfolds(kept)
  BY <1>3, Zenon
<1> HIDE DEF kept
<1>5. Keeps(s, P, kept)
  <2>1. \A k \in 0..Len(s) : kept[k] = IF k = 0 THEN <<>>
                                ELSE IF s[k] # c THEN Append(kept[k - 1], s[k]) ELSE kept[k - 1]
    BY <1>4, Zenon
  <2>2. kept[0] = <<>>
    BY <1>2, <2>1
  <2>3. ASSUME NEW k \in 1..Len(s)
        PROVE  kept[k] = IF s[k] \in P THEN Append(kept[k - 1], s[k]) ELSE kept[k - 1]
    <3>1. k \in 0..Len(s) /\ k # 0
      BY <1>2
    <3> QED
      BY <1>2, <2>1, <3>1
  <2> QED
    BY <2>2, <2>3 DEF Keeps
<1> QED
  BY <1>1, <1>5 DEF P

\* What is left is without the character, and a text that starts with it and has
\* it nowhere else loses its head only.
LEMMA StrippedRest ==
  ASSUME NEW S, NEW s \in Seq(S), NEW c
  PROVE  /\ Stripped(c, s) \in Seq(S)
         /\ \A k \in 1..Len(Stripped(c, s)) :
              Stripped(c, s)[k] # c /\ \E i \in 1..Len(s) : s[i] = Stripped(c, s)[k]
         /\ \A m \in 0..Len(s) :
              (\A k \in 1..Len(s) : k <= m <=> s[k] = c)
                => Stripped(c, s) = SubSeq(s, m + 1, Len(s))
<1>1. PICK g : Keeps(s, S \ {c}, g) /\ Stripped(c, s) = g[Len(s)]
  BY StrippedKeeps
<1>2. /\ g[Len(s)] \in Seq(S) /\ ToSet(g[Len(s)]) = {s[k] : k \in 1..Len(s)} \intersect (S \ {c})
  BY <1>1, Kept
<1>3. \A k \in 1..Len(g[Len(s)]) : g[Len(s)][k] \in ToSet(g[Len(s)])
  BY <1>2 DEF ToSet
<1>4. \A k \in 1..Len(s) : s[k] \in S
  OBVIOUS
<1>5. ASSUME NEW m \in 0..Len(s), \A k \in 1..Len(s) : k <= m <=> s[k] = c
      PROVE  g[Len(s)] = SubSeq(s, m + 1, Len(s))
  <2>1. Len(s) \in Nat
    OBVIOUS
  <2>2. /\ \A k \in 1..m : s[k] \notin S \ {c}
        /\ \A k \in (m + 1)..Len(s) : s[k] \in S \ {c}
    BY <1>4, <1>5, <2>1
  <2> QED
    BY <1>1, <2>2, KeptRest
<1> QED
  BY <1>1, <1>2, <1>3, <1>5

LEMMA PhoneKey ==
  ASSUME NEW S, NEW t, t = [chars |-> t.chars], t.chars \in Seq(S), Phone(t) # Refused
  PROVE  Phone(Phone(t)) = Phone(t)
<1> DEFINE cleaned == Stripped("-", t.chars)
           digits == Stripped("+", cleaned)
           chars == IF Head(cleaned) = "+" THEN <<"+">> \o digits ELSE digits
<1>1. digits # <<>> /\ Phone(t) = [chars |-> chars]
  BY DEF Phone
<1>2. cleaned \in Seq(S) /\ \A k \in 1..Len(cleaned) : cleaned[k] # "-"
  BY StrippedRest
<1> HIDE DEF cleaned
<1>3. /\ digits \in Seq(S)
      /\ \A k \in 1..Len(digits) : digits[k] # "+" /\ digits[k] # "-"
  BY <1>2, StrippedRest
<1> HIDE DEF digits
<1>4. Len(digits) \in Nat \ {0}
  BY <1>1, <1>3
<1> DEFINE U == S \union {"+"}
<1>5. /\ chars \in Seq(U) /\ chars # <<>>
      /\ \A k \in 1..Len(chars) : chars[k] # "-"
      /\ \/ Head(chars) = "+" /\ chars = <<"+">> \o digits
         \/ Head(chars) # "+" /\ chars = digits
  <2>1. CASE Head(cleaned) = "+"
    <3>1. chars = <<"+">> \o digits
      BY <2>1
    <3>2. /\ <<"+">> \o digits \in Seq(U) /\ Head(<<"+">> \o digits) = "+"
          /\ <<"+">> \o digits # <<>>
          /\ \A k \in 1..Len(<<"+">> \o digits) : (<<"+">> \o digits)[k] # "-"
      <4> DEFINE joined == <<"+">> \o digits
      <4>1. /\ joined \in Seq(U) /\ Len(joined) = Len(digits) + 1 /\ joined[1] = "+"
            /\ \A k \in 2..Len(joined) : joined[k] = digits[k - 1]
        BY <1>3, <1>4
      <4> HIDE DEF joined
      <4>2. Head(joined) = "+" /\ joined # <<>>
        BY <1>4, <4>1
      <4>3. ASSUME NEW k \in 1..Len(joined) PROVE joined[k] # "-"
        <5>1. CASE k = 1
          BY <4>1, <5>1
        <5>2. CASE k # 1
          <6>1. k \in 2..Len(joined) /\ k - 1 \in 1..Len(digits)
            BY <1>4, <4>1, <5>2
          <6> QED
            BY <1>3, <4>1, <6>1
        <5> QED
          BY <5>1, <5>2
      <4> QED
        BY <4>1, <4>2, <4>3 DEF joined
    <3> QED
      BY <3>1, <3>2
  <2>2. CASE Head(cleaned) # "+"
    <3>1. chars = digits
      BY <2>2
    <3>2. /\ digits \in Seq(U) /\ Head(digits) # "+" /\ digits # <<>>
      BY <1>3, <1>4
    <3> QED
      BY <1>3, <3>1, <3>2
  <2> QED
    BY <2>1, <2>2
<1> HIDE DEF chars, U
<1>6. Stripped("-", chars) = chars
  <2>1. 0 \in 0..Len(chars) /\ \A k \in 1..Len(chars) : k <= 0 <=> chars[k] = "-"
    BY <1>5
  <2>2. Stripped("-", chars) = SubSeq(chars, 0 + 1, Len(chars))
    BY <1>5, <2>1, StrippedRest
  <2> QED
    BY <1>5, <2>2
<1>7. Stripped("+", chars) = digits
  <2>1. CASE Head(chars) = "+" /\ chars = <<"+">> \o digits
    <3>1. /\ Len(chars) = Len(digits) + 1 /\ chars[1] = "+"
          /\ \A k \in 2..Len(chars) : chars[k] = digits[k - 1]
      BY <1>3, <1>4, <2>1
    <3>2. 1 \in 0..Len(chars) /\ \A k \in 1..Len(chars) : k <= 1 <=> chars[k] = "+"
      <4>1. 1 \in 0..Len(chars)
        BY <1>4, <3>1
      <4>2. ASSUME NEW k \in 1..Len(chars), k # 1 PROVE chars[k] # "+" /\ ~(k <= 1)
        <5>1. k \in 2..Len(chars) /\ k - 1 \in 1..Len(digits)
          BY <1>4, <3>1, <4>2
        <5> QED
          BY <1>3, <3>1, <5>1
      <4> QED
        BY <3>1, <4>1, <4>2
    <3>3. Stripped("+", chars) = SubSeq(chars, 1 + 1, Len(chars))
      BY <1>5, <3>2, StrippedRest
    <3>4. SubSeq(chars, 1 + 1, Len(chars)) = digits
      BY <1>3, <1>4, <1>5, <3>1
    <3> QED
      BY <3>3, <3>4
  <2>2. CASE Head(chars) # "+" /\ chars = digits
    <3>1. 0 \in 0..Len(chars) /\ \A k \in 1..Len(chars) : k <= 0 <=> chars[k] = "+"
      BY <1>3, <1>4, <2>2
    <3>2. Stripped("+", chars) = SubSeq(chars, 0 + 1, Len(chars))
      BY <1>5, <3>1, StrippedRest
    <3> QED
      BY <1>5, <2>2, <3>2
  <2> QED
    BY <1>5, <2>1, <2>2
<1>8. Phone([chars |-> chars]) = [chars |-> chars]
  <2>1. Phone([chars |-> chars])
          = IF digits = <<>> THEN Refused
            ELSE [chars |-> IF Head(chars) = "+" THEN <<"+">> \o digits ELSE digits]
    BY <1>6, <1>7 DEF Phone
  <2> QED
    BY <1>1, <1>5, <2>1
<1> QED
  BY <1>1, <1>8

\* The last of the first n words that is no legal form, 0 if there is none.
LastName(words, m, n) ==
  /\ m \in 0..n /\ (m # 0 => words[m] \notin LegalForms)
  /\ \A i \in (m + 1)..n : words[i] \in LegalForms

LEMMA OneLastName ==
  ASSUME NEW words, NEW n \in Nat
  PROVE  /\ \E m : LastName(words, m, n)
         /\ \A m, k : LastName(words, m, n) /\ LastName(words, k, n) => m = k
<1> DEFINE T == {i \in Nat : \E m : LastName(words, m, i)}
<1>1. 0 \in T
  <2>1. LastName(words, 0, 0)
    BY DEF LastName
  <2> QED
    BY <2>1
<1>2. ASSUME NEW i \in Nat, i \in T PROVE i + 1 \in T
  <2>1. PICK m : LastName(words, m, i)
    BY <1>2
  <2>2. CASE words[i + 1] \in LegalForms
    <3>1. LastName(words, m, i + 1)
      BY <2>1, <2>2 DEF LastName
    <3> QED
      BY <3>1
  <2>3. CASE words[i + 1] \notin LegalForms
    <3>1. LastName(words, i + 1, i + 1)
      BY <2>3 DEF LastName
    <3> QED
      BY <3>1
  <2> QED
    BY <2>2, <2>3
<1> HIDE DEF T
<1>3. n \in T
  BY <1>1, <1>2, NaturalInduction
<1>4. ASSUME NEW m, NEW k, LastName(words, m, n), LastName(words, k, n) PROVE m = k
  BY <1>4 DEF LastName
<1> QED
  BY <1>3, <1>4 DEF T

LEMMA OrganizationName ==
  ASSUME NEW S, NEW t, t.words \in Seq(S), Organization(t) # Refused
  PROVE  \E m : /\ LastName(t.words, m, Len(t.words))
                /\ Organization(t) = [words |-> IF m = 0 THEN t.words ELSE SubSeq(t.words, 1, m),
                                      more |-> FALSE]
<1> DEFINE Unfolds(g) == g = [n \in 0..Len(t.words) |->
                                IF n > 0 /\ t.words[n] \in LegalForms THEN g[n - 1] ELSE n]
           Rest == CHOOSE g : Unfolds(g)
<1>0. Len(t.words) \in Nat
  OBVIOUS
<1>1. PICK h : /\ h = [n \in 0..Len(t.words) |-> h[n]]
               /\ \A n \in 0..Len(t.words) : LastName(t.words, h[n], n)
  <2> DEFINE last == [n \in 0..Len(t.words) |-> CHOOSE m : LastName(t.words, m, n)]
  <2>1. \A n \in 0..Len(t.words) : LastName(t.words, last[n], n)
    <3> TAKE n \in 0..Len(t.words)
    <3>1. \E m : LastName(t.words, m, n)
      BY <1>0, OneLastName
    <3>2. LastName(t.words, CHOOSE m : LastName(t.words, m, n), n)
      BY <3>1, Zenon
    <3> QED
      BY <3>2
  <2>2. last = [n \in 0..Len(t.words) |-> last[n]]
    OBVIOUS
  <2> HIDE DEF last
  <2> QED
    BY <2>1, <2>2
<1>2. \E g : Unfolds(g)
  <2>1. ASSUME NEW n \in 0..Len(t.words)
        PROVE  h[n] = IF n > 0 /\ t.words[n] \in LegalForms THEN h[n - 1] ELSE n
    <3>1. LastName(t.words, h[n], n) /\ n \in Nat
      BY <1>0, <1>1
    <3>2. CASE n > 0 /\ t.words[n] \in LegalForms
      <4>1. n - 1 \in 0..Len(t.words)
        BY <1>0, <3>2
      <4>2. LastName(t.words, h[n - 1], n - 1)
        BY <1>1, <4>1
      <4>3. LastName(t.words, h[n - 1], n)
        BY <3>1, <3>2, <4>2 DEF LastName
      <4> QED
        BY <3>1, <3>2, <4>3, OneLastName
    <3>3. CASE ~(n > 0 /\ t.words[n] \in LegalForms)
      <4>1. LastName(t.words, n, n)
        BY <3>1, <3>3 DEF LastName
      <4> QED
        BY <3>1, <3>3, <4>1, OneLastName
    <3> QED
      BY <3>2, <3>3
  <2>2. Unfolds(h)
    BY <1>1, <2>1, Zenon
  <2> QED
    BY <2>2
<1>3. Unfolds(Rest)
  BY <1>2, Zenon
<1> HIDE DEF Rest
<1>4. \A n \in 0..Len(t.words) :
        Rest[n] = IF n > 0 /\ t.words[n] \in LegalForms THEN Rest[n - 1] ELSE n
  BY <1>3, Zenon
<1> DEFINE T == {n \in Nat : n <= Len(t.words) => LastName(t.words, Rest[n], n)}
<1>5. 0 \in T
  <2>1. Rest[0] = 0
    BY <1>0, <1>4
  <2> QED
    BY <2>1 DEF LastName
<1>6. ASSUME NEW n \in Nat, n \in T PROVE n + 1 \in T
  <2> SUFFICES ASSUME n + 1 <= Len(t.words) PROVE LastName(t.words, Rest[n + 1], n + 1)
    OBVIOUS
  <2>1. Rest[n + 1] = IF t.words[n + 1] \in LegalForms THEN Rest[n] ELSE n + 1
    BY <1>0, <1>4
  <2>2. LastName(t.words, Rest[n], n)
    BY <1>0, <1>6
  <2> QED
    BY <2>1, <2>2 DEF LastName
<1> HIDE DEF T
<1>7. Len(t.words) \in T
  BY <1>0, <1>5, <1>6, NaturalInduction
<1>8. LastName(t.words, Rest[Len(t.words)], Len(t.words))
  BY <1>0, <1>7 DEF T
<1>9. Organization(t) = [words |-> IF Rest[Len(t.words)] = 0 THEN t.words
                                   ELSE SubSeq(t.words, 1, Rest[Len(t.words)]),
                         more |-> FALSE]
  BY DEF Organization, Rest
<1> QED
  BY <1>8, <1>9

\* An organization's key is its name up to the last word that is no legal form.
LEMMA OrganizationKey ==
  ASSUME NEW S, NEW t, t.words \in Seq(S), Organization(t) # Refused
  PROVE  /\ Organization(t) = [words |-> Thing("organization", t), more |-> FALSE]
         /\ t.words # <<>> => Organization(Organization(t)) = Organization(t)
<1> DEFINE names == {i \in DOMAIN t.words : t.words[i] \notin LegalForms}
<1>1. PICK m : /\ LastName(t.words, m, Len(t.words))
               /\ Organization(t) = [words |-> IF m = 0 THEN t.words ELSE SubSeq(t.words, 1, m),
                                     more |-> FALSE]
  BY OrganizationName
<1>2. Len(t.words) \in Nat /\ DOMAIN t.words = 1..Len(t.words) /\ m \in 0..Len(t.words)
  BY <1>1 DEF LastName
<1>3. Thing("organization", t)
        = SubSeq(t.words, 1, IF names = {} THEN Len(t.words) ELSE Max(names))
  BY DEF Thing
<1> DEFINE kept == IF m = 0 THEN t.words ELSE SubSeq(t.words, 1, m)
           key == [words |-> kept, more |-> FALSE]
           k == Len(kept)
<1>4. Thing("organization", t) = kept /\ LastName(kept, m, k) /\ kept \in Seq(S)
      /\ (m # 0 => k = m)
  <2>1. CASE m = 0
    <3>1. names = {}
      BY <1>1, <1>2, <2>1 DEF LastName
    <3>2. SubSeq(t.words, 1, Len(t.words)) = t.words
      OBVIOUS
    <3> QED
      BY <1>1, <1>3, <2>1, <3>1, <3>2
  <2>2. CASE m # 0
    <3>1. m \in names /\ \A i \in names : i <= m
      BY <1>1, <1>2, <2>2 DEF LastName
    <3>2. Max(names) = m
      <4>1. \A x \in names : (\A y \in names : x >= y) <=> x = m
        BY <1>2, <3>1
      <4> HIDE DEF names
      <4> QED
        BY <3>1, <4>1 DEF Max
    <3>3. kept \in Seq(S) /\ Len(kept) = m /\ kept[m] = t.words[m]
      BY <1>2, <2>2
    <3>4. LastName(kept, m, m)
      BY <1>1, <1>2, <2>2, <3>3 DEF LastName
    <3>5. Thing("organization", t) = kept
      BY <1>3, <2>2, <3>1, <3>2
    <3> QED
      BY <3>3, <3>4, <3>5
  <2> QED
    BY <2>1, <2>2
<1>5. Organization(t) = key
  BY <1>1
<1>6. ASSUME t.words # <<>> PROVE Organization(key) = key
  <2>1. kept # <<>>
    <3>1. CASE m = 0
      BY <1>6, <3>1
    <3>2. CASE m # 0
      <4>1. k = m
        BY <1>4, <3>2
      <4> QED
        BY <3>2, <4>1
    <3> QED
      BY <3>1, <3>2
  <2> HIDE DEF kept
  <2>2. key.words = kept
    OBVIOUS
  <2>3. Organization(key) # Refused
    <3>1. ~(key.words = <<>> /\ ~key.more)
      BY <2>1, <2>2
    <3> QED
      BY <3>1 DEF Organization, Refused
  <2> HIDE DEF key
  <2>7. key.words \in Seq(S)
    BY <1>4, <2>2
  <2>8. PICK n : /\ LastName(key.words, n, Len(key.words))
                 /\ Organization(key)
                      = [words |-> IF n = 0 THEN key.words ELSE SubSeq(key.words, 1, n),
                         more |-> FALSE]
    BY <2>3, <2>7, OrganizationName
  <2>4. /\ LastName(kept, n, Len(kept))
        /\ Organization(key) = [words |-> IF n = 0 THEN kept ELSE SubSeq(kept, 1, n),
                                more |-> FALSE]
    BY <2>2, <2>8
  <2>5. n = m
    BY <1>4, <2>4, OneLastName
  <2>6. m # 0 => SubSeq(kept, 1, m) = kept
    <3>1. m # 0 => Len(kept) = m
      BY <1>4
    <3> QED
      BY <1>4, <3>1
  <2> QED
    BY <2>4, <2>5, <2>6 DEF key
<1> QED
  BY <1>4, <1>5, <1>6

LEMMA BoundedSequence ==
  ASSUME NEW S, NEW n \in Nat, NEW s \in SeqOf(S, n)
  PROVE  s \in Seq(S)
<1>1. PICK m \in 0..n : s \in [1..m -> S]
  BY DEF SeqOf
<1> QED
  BY <1>1

\* For any hostnames, legal forms and words: a canonical value is its own
\* canonical value, and spellings of one service, URL or organization share their
\* key with nothing else, and share it, but for the exceptions StableKey names.
THEOREM KeysAreStable ==
  ASSUME NEW type \in Types, NEW t \in TextsOf(type)
  PROVE  StableKey(type, t)
<1> SUFFICES ASSUME Canonicalize(type, t) # Refused
             PROVE  /\ /\ type = "social_handle" => t.name # "" /\ ~(t.form = "url" /\ t.at)
                       /\ type = "organization" => t.words # <<>>
                       => Canonicalize(type, Canonicalize(type, t)) = Canonicalize(type, t)
                    /\ type \in {"url", "network_service", "organization"} =>
                         \A other \in TextsOf(type) : Canonicalize(type, other) # Refused =>
                           /\ Canonicalize(type, other) = Canonicalize(type, t)
                                => Thing(type, other) = Thing(type, t)
                           /\ Thing(type, other) = Thing(type, t) =>
                                \/ Canonicalize(type, other) = Canonicalize(type, t)
                                \/ type = "url" /\ t.host \in AddressTexts /\ other.host # t.host
  BY DEF StableKey
<1>1. CASE type = "domain"
  <2>1. t \in DomainTexts /\ \A x : Canonicalize(type, x) = Domain(x)
    BY <1>1 DEF TextsOf, Canonicalize
  <2> QED
    BY <1>1, <2>1, DomainKey
<1>2. CASE type = "host"
  <2>1. t \in HostTexts /\ \A x : Canonicalize(type, x) = Host(x)
    BY <1>2 DEF TextsOf, Canonicalize
  <2> QED
    BY <1>2, <2>1, HostKey
<1>3. CASE type = "email"
  <2>1. t \in EmailTexts /\ \A x : Canonicalize(type, x) = Email(x)
    BY <1>3 DEF TextsOf, Canonicalize
  <2> QED
    BY <1>3, <2>1, EmailKey
<1>4. CASE type = "phone"
  <2>1. t \in PhoneTexts /\ \A x : Canonicalize(type, x) = Phone(x)
    BY <1>4 DEF TextsOf, Canonicalize
  <2>2. t = [chars |-> t.chars] /\ t.chars \in Seq({"+", "1", "2", "-"})
    <3>1. t = [chars |-> t.chars] /\ t.chars \in SeqOf({"+", "1", "2", "-"}, 4)
      BY <2>1 DEF PhoneTexts
    <3> QED
      BY <3>1, BoundedSequence
  <2> QED
    BY <1>4, <2>1, <2>2, PhoneKey
<1>5. CASE type = "social_handle"
  <2>1. t \in HandleTexts /\ \A x : Canonicalize(type, x) = Handle(x)
    BY <1>5 DEF TextsOf, Canonicalize
  <2> QED
    BY <1>5, <2>1, HandleKey
<1>6. CASE type = "organization"
  <2>1. \A x : Canonicalize(type, x) = Organization(x)
    BY <1>6 DEF Canonicalize
  <2>2. ASSUME NEW x \in TextsOf(type)
        PROVE  x.words \in Seq(LegalForms \union Words)
    <3>1. x \in OrgTexts
      BY <1>6, <2>2 DEF TextsOf
    <3>2. x.words \in SeqOf(LegalForms \union Words, 3)
      BY <3>1 DEF OrgTexts
    <3> QED
      BY <3>2, BoundedSequence
  <2>3. ASSUME NEW x \in TextsOf(type), Organization(x) # Refused
        PROVE  /\ Organization(x) = [words |-> Thing(type, x), more |-> FALSE]
               /\ x.words # <<>> => Organization(Organization(x)) = Organization(x)
    BY <1>6, <2>2, <2>3, OrganizationKey
  <2>4. ASSUME NEW other \in TextsOf(type), Organization(other) # Refused
        PROVE  Organization(other) = Organization(t) <=> Thing(type, other) = Thing(type, t)
    <3>1. \A a, b : [words |-> a, more |-> FALSE] = [words |-> b, more |-> FALSE] <=> a = b
      OBVIOUS
    <3> QED
      BY <2>1, <2>3, <2>4, <3>1
  <2> QED
    BY <1>6, <2>1, <2>3, <2>4
<1>7. CASE type = "network_service"
  <2>1. TextsOf(type) = ServiceTexts /\ \A x : Canonicalize(type, x) = Service(x)
    BY <1>7 DEF TextsOf, Canonicalize
  <2> QED
    BY <1>7, <2>1, ServiceKey
<1>8. CASE type = "url"
  <2>1. TextsOf(type) = UrlTexts /\ \A x : Canonicalize(type, x) = Url(x)
    BY <1>8 DEF TextsOf, Canonicalize
  <2> QED
    BY <1>8, <2>1, UrlKey
<1>9. CASE type = "file_hash"
  <2>1. t \in DigestTexts /\ \A x : Canonicalize(type, x) = Digest(x)
    BY <1>9 DEF TextsOf, Canonicalize
  <2> QED
    BY <1>9, <2>1, DigestKey
<1> QED
  BY <1>1, <1>2, <1>3, <1>4, <1>5, <1>6, <1>7, <1>8, <1>9 DEF Types

\* Whatever text of whatever type is made canonical.
THEOREM KeysNeverMove == CanonicalSpec => []KeysStable
<1>1. sample \in Samples => KeysStable
  <2> SUFFICES ASSUME sample \in Samples PROVE KeysStable
    OBVIOUS
  <2>1. PICK type \in Types : sample \in [type : {type}, text : TextsOf(type)]
    BY DEF Samples
  <2>2. sample.type = type /\ sample.text \in TextsOf(type)
    BY <2>1
  <2> QED
    BY <2>2, KeysAreStable DEF KeysStable
<1>2. ASSUME sample \in Samples, [UNCHANGED sample]_sample PROVE (sample \in Samples)'
  <2>1. Samples' = Samples
    BY DEF Samples, TextsOf
  <2>2. sample' = sample
    BY <1>2
  <2> QED
    BY <1>2, <2>1, <2>2
<1> QED
  BY <1>1, <1>2, PTL DEF CanonicalSpec
=============================================================================
