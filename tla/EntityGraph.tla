------------------------------- MODULE EntityGraph -------------------------------
(***************************************************************************)
(* osint/graph.py, EntityGraph, and the merging of entities and            *)
(* relationships of osint/models.py: a multigraph that keeps two adjacency *)
(* indexes beside its edges.  A key is an entity's type and canonical      *)
(* value; an edge is <<source, type, target>>, its identity in the code.   *)
(* Confidences and times are left out, and so are attributes but aliases.  *)
(***************************************************************************)
EXTENDS Naturals

CONSTANTS
  Keys, KindOf,          \* the entities there can be, and their EntityType
  EdgeTypes, Observations,
  PossibleEdges,         \* bound: the edges collectors report
  EditedKeys             \* bound: the entities single operations are called with

ASSUME GraphAssumption ==
  /\ EditedKeys \subseteq Keys
  /\ PossibleEdges \subseteq Keys \X EdgeTypes \X Keys

VARIABLES
  nodes,    \* _entities
  known,    \* key -> its observations, without repeats
  aliases,  \* key -> the entities whose spelling its "aliases" keeps
  edges,    \* _relationships
  outEdges, inEdges  \* _out and _in: key -> the edges they list

graphState == <<nodes, known, aliases, edges, outEdges, inEdges>>

Edge(from, type, to) == <<from, type, to>>

GraphInit ==
  /\ nodes = {} /\ edges = {}
  /\ known = [k \in Keys |-> {}] /\ aliases = known
  /\ outEdges = known /\ inEdges = known

-----------------------------------------------------------------------------
\* add_entity(): a new node, or Entity.merge into the resident one.
AddEntity(k, seen) ==
  /\ nodes' = nodes \union {k}
  /\ known' = [known EXCEPT ![k] = @ \union seen]
  /\ UNCHANGED <<aliases, edges, outEdges, inEdges>>

\* The stores after a set of edges was added, one by one.
Added(es) ==
  /\ edges' = edges \union es
  /\ outEdges' = [k \in Keys |-> outEdges[k] \union {e \in es : e[1] = k}]
  /\ inEdges' = [k \in Keys |-> inEdges[k] \union {e \in es : e[3] = k}]

\* add_relationship(): both endpoints must be there.  (create() refuses loops.)
AddRelationship(e) ==
  /\ e[1] \in nodes /\ e[3] \in nodes /\ e[1] # e[3]
  /\ Added({e})
  /\ UNCHANGED <<nodes, known, aliases>>

\* connect(): both endpoints and the edge.
Connect(e, seen) ==
  /\ e[1] # e[3]
  /\ nodes' = nodes \union {e[1], e[3]}
  /\ known' = [known EXCEPT ![e[1]] = @ \union seen, ![e[3]] = @ \union seen]
  /\ Added({e})
  /\ UNCHANGED aliases

\* Mutated form: an entity is removed with the edges that leave it only.
TouchingOut(k) == outEdges[k]

\* The edges remove_entity() drops: what the two indexes list for the key.
Touching(k) == outEdges[k] \union inEdges[k]

\* An index without some edges; _drop_relationship looks at both ends.
Without(index, dropped) == [k \in Keys |-> index[k] \ dropped]

RemoveEntity(k) ==
  /\ k \in nodes
  /\ nodes' = nodes \ {k}
  /\ known' = [known EXCEPT ![k] = {}] /\ aliases' = [aliases EXCEPT ![k] = {}]
  /\ edges' = edges \ Touching(k)
  /\ outEdges' = [Without(outEdges, Touching(k)) EXCEPT ![k] = {}]
  /\ inEdges' = [Without(inEdges, Touching(k)) EXCEPT ![k] = {}]

-----------------------------------------------------------------------------
(* merge_entities(primary, duplicate).                                     *)

\* Mutated form: only the edges that leave the duplicate are rewritten.
RewiredOut(primary, duplicate) ==
  {Edge(primary, e[2], e[3]) : e \in {x \in outEdges[duplicate] : x[3] # primary}}

\* The duplicate's edges, rewritten onto the primary; loops are dropped.
Rewired(primary, duplicate) ==
  {Edge(primary, e[2], e[3]) : e \in {x \in outEdges[duplicate] : x[3] # primary}}
    \union {Edge(e[1], e[2], primary) : e \in {x \in inEdges[duplicate] : x[1] # primary}}

Mergeable(primary, duplicate) ==
  /\ primary # duplicate /\ primary \in nodes /\ duplicate \in nodes
  /\ KindOf[primary] = KindOf[duplicate]

\* The duplicate's value becomes an alias and its observations are taken over;
\* its edges are rewritten, it is removed, and the new edges are added.
MergeEntities(primary, duplicate) ==
  LET new == Rewired(primary, duplicate)
      kept == edges \ Touching(duplicate) IN
  /\ Mergeable(primary, duplicate)
  /\ nodes' = nodes \ {duplicate}
  /\ known' = [known EXCEPT ![primary] = @ \union known[duplicate], ![duplicate] = {}]
  /\ aliases' = [aliases EXCEPT ![primary] = @ \union {duplicate}, ![duplicate] = {}]
  /\ edges' = kept \union new
  /\ outEdges' = [k \in Keys |->
       ((IF k = duplicate THEN {} ELSE outEdges[k] \ Touching(duplicate))
          \union {e \in new : e[1] = k})]
  /\ inEdges' = [k \in Keys |->
       ((IF k = duplicate THEN {} ELSE inEdges[k] \ Touching(duplicate))
          \union {e \in new : e[3] = k})]

-----------------------------------------------------------------------------
\* One call of an operation, by a collector's caller or the dashboard.
GraphNext ==
  \/ \E k \in EditedKeys : RemoveEntity(k) \/ \E o \in Observations : AddEntity(k, {o})
  \/ \E e \in PossibleEdges :
       /\ e[1] \in EditedKeys /\ e[3] \in EditedKeys
       /\ AddRelationship(e) \/ \E o \in Observations : Connect(e, {o})
  \/ \E p, d \in EditedKeys : MergeEntities(p, d)

GraphSpec == GraphInit /\ [][GraphNext]_graphState

-----------------------------------------------------------------------------
\* The two indexes list exactly the edges of their entity, and no edge dangles,
\* through merges that rewrite edges while both indexes are being changed.
IndexesExact ==
  /\ \A e \in edges : e[1] \in nodes /\ e[3] \in nodes /\ e[1] # e[3]
  /\ \A k \in Keys : /\ outEdges[k] = {e \in edges : e[1] = k}
                     /\ inEdges[k] = {e \in edges : e[3] = k}

LG == INSTANCE LinkGraph WITH links <- edges

\* The graph keeps what it promises: a merge hands over every observation, every link
\* to a third entity, and the duplicate's own name, to an entity that keeps all it
\* had; nothing but remove_entity() loses an entity otherwise, and then its own
\* observations, links and names only.  The aliases the duplicate had from merges
\* before are lost, which LinkGraph says.
ImplementsLinkGraph ==
  /\ LG!GInit
  /\ [][LG!Keep \/ \E k \in Keys : RemoveEntity(k) /\ LG!Forget(k)]_graphState
=============================================================================
