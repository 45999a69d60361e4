-------------------------------- MODULE LinkGraph --------------------------------
(***************************************************************************)
(* What the OSINT graph promises (osint/graph.py): a set of entities, what *)
(* was observed of each, the entities whose names it goes by too, and      *)
(* typed links between different ones.  It grows as observations come in;  *)
(* an entity is only ever lost with its links when it is removed, or into  *)
(* another one that takes over its name, its observations and its links.   *)
(***************************************************************************)
CONSTANTS Keys

VARIABLES nodes, known, aliases, links

graphVars == <<nodes, known, aliases, links>>

GInit ==
  /\ nodes = {} /\ links = {}
  /\ known = [k \in Keys |-> {}] /\ aliases = [k \in Keys |-> {}]

\* Entities, observations and links between known entities are added.
Grow ==
  /\ nodes \subseteq nodes' /\ nodes' \subseteq Keys
  /\ links \subseteq links' /\ UNCHANGED aliases
  /\ \A k \in Keys : known[k] \subseteq known'[k] /\ (known'[k] # {} => k \in nodes')
  /\ \A l \in links' : l[1] \in nodes' /\ l[3] \in nodes' /\ l[1] # l[3]

Forget(k) ==
  /\ nodes' = nodes \ {k}
  /\ known' = [known EXCEPT ![k] = {}] /\ aliases' = [aliases EXCEPT ![k] = {}]
  /\ links' = {l \in links : l[1] # k /\ l[3] # k}

Renamed(k, old, new) == IF k = old THEN new ELSE k

\* One entity becomes another, with its name, all its observations, and its links but
\* those between the two.  The names it goes by too are not taken over (in a chain of
\* merges the first name is lost, although graph.py's comment on the alias says "so
\* the original observation is not lost").
Collapse(k, into) ==
  /\ into \in nodes /\ k \in nodes /\ into # k
  /\ nodes' = nodes \ {k}
  /\ known' = [known EXCEPT ![into] = @ \union known[k], ![k] = {}]
  /\ aliases' = [aliases EXCEPT ![into] = @ \union {k}, ![k] = {}]
  /\ links' = {l \in {<<Renamed(e[1], k, into), e[2], Renamed(e[3], k, into)>> : e \in links} :
                 l[1] # l[3]}

\* What loses no entity but into another one.
Keep == Grow \/ \E k, into \in Keys : Collapse(k, into)

GNext == Keep \/ \E k \in Keys : Forget(k)

GSpec == GInit /\ [][GNext]_graphVars
=============================================================================
