---------------------------------- MODULE Memory ----------------------------------
(***************************************************************************)
(* Long-term memory: core/memory.py.  Views of one store, each with the    *)
(* namespace of an engagement, remember, recall and forget; every          *)
(* operation embeds its text first and then enters the store, so that      *)
(* other operations come in between.                                       *)
(*                                                                         *)
(* A text is a set of tokens and so is its embedding: the similarity of    *)
(* two is the cosine of their vectors, one axis for each token (how often  *)
(* a token occurs, and tokens that hash to one axis, are left out).  The   *)
(* width of an embedding is that of the provider that made it, 0 for one   *)
(* that is missing.                                                        *)
(***************************************************************************)
EXTENDS Naturals, FiniteSets, Sequences, SequencesExt

CONSTANTS
  Namespaces,  \* of the engagements; a view with none of its own reads "default"
  Ids,         \* record ids: given by the caller, or new
  Tokens,      \* what texts are made of
  Widths,      \* of the embedding providers in use
  Tags,        \* values of the metadata that a `where` asks about
  Floors       \* similarities below which nothing is recalled, in hundredths

ASSUME MemoryAssumption == IsFiniteSet(Ids) /\ IsFiniteSet(Tokens) /\ Floors \subseteq Nat

VARIABLES
  store,       \* id -> record, of the ids in the store
  operation    \* an operation whose text is being embedded, or NoOp

memoryVars == <<store, operation>>

NoOp == [op |-> "none"]

MemoryInit == store = <<>> /\ operation = NoOp

Texts == (SUBSET Tokens) \ {{}}

\* remember, remember_many and recall up to their call of the embedder: nothing
\* empty is remembered or asked for.  The ids of a batch are new, the one of a
\* single entry may be the caller's.  A recall has a floor, the view's or one of its
\* own, and may ask for some values of the metadata; without a `where` all will do.
Embed ==
  /\ operation = NoOp
  /\ \E ns \in Namespaces, text \in Texts, width \in Widths :
       \/ \E tag \in Tags, id \in Ids :
            operation' = [op |-> "remember", ns |-> ns, text |-> text, width |-> width,
                          tag |-> tag, ids |-> <<id>>]
       \/ \E where \in SUBSET Tags, floor \in Floors :
            operation' = [op |-> "recall", ns |-> ns, text |-> text, width |-> width,
                          where |-> where, floor |-> floor]
  /\ UNCHANGED store

\* A batch of two new records of one namespace; a provider may have left one of
\* them without an embedding, or fail altogether (see Fails).
EmbedMany ==
  /\ operation = NoOp
  /\ \E ns \in Namespaces, text \in Texts, width \in Widths \union {0}, tag \in Tags :
       \E id, other \in Ids \ DOMAIN store :
         /\ id # other
         /\ operation' = [op |-> "remember", ns |-> ns, text |-> text, width |-> width,
                          tag |-> tag, ids |-> <<id, other>>]
  /\ UNCHANGED store

Fails ==
  /\ operation # NoOp
  /\ operation' = NoOp
  /\ UNCHANGED store

Record(width) ==
  [ns |-> operation.ns, text |-> operation.text, tag |-> operation.tag, width |-> width]

\* InMemoryVectorStore.add: one after the other, up to one without an embedding.
Add ==
  /\ operation.op = "remember"
  /\ LET first == Head(operation.ids)
         rest  == IF operation.width = 0 THEN {} ELSE ToSet(Tail(operation.ids))
         width == IF operation.width = 0 THEN CHOOSE w \in Widths : TRUE ELSE operation.width IN
     store' = [id \in DOMAIN store \union {first} \union rest |->
                 IF id = first \/ id \in rest THEN Record(width) ELSE store[id]]
  /\ operation' = NoOp

Common(query, text) == Cardinality(query \intersect text)

\* One similarity is above the other, Common / sqrt(size of the query * size of the
\* text), without roots and fractions.
Closer(query, a, b) ==
  Common(query, a) * Common(query, a) * Cardinality(b)
    > Common(query, b) * Common(query, b) * Cardinality(a)

\* The similarity is not below so many hundredths.
Reaches(query, text, floor) ==
  ~(floor * floor * Cardinality(query) * Cardinality(text)
      > Common(query, text) * Common(query, text) * 10000)

\* Records of the engagement that asks, with metadata it asks for.
Eligible(r) == r.ns = operation.ns /\ r.tag \in operation.where

\* Mutated form: the best of the whole store are taken, and then the
\* engagement's own among them.
FoundLate(limit) ==
  LET comparable == {id \in DOMAIN store : store[id].width = operation.width}
      best == SetToSeq({id \in comparable : Cardinality({other \in comparable :
                 Closer(operation.text, store[other].text, store[id].text)}) < limit}) IN
  SelectSeq([k \in DOMAIN best |-> store[best[k]]],
            LAMBDA r : Eligible(r) /\ Reaches(operation.text, r.text, operation.floor))

\* The closest first.
Ranked(ids) ==
  CHOOSE s \in [1..Cardinality(ids) -> ids] :
    /\ IsInjective(s)
    /\ \A i, j \in DOMAIN s : i < j => ~Closer(operation.text, store[s[j]].text, store[s[i]].text)

\* The hits that are not below the floor.
AboveFloor(hits) ==
  LET kept[k \in 0..Len(hits)] ==
        IF k = 0 THEN <<>>
        ELSE IF Reaches(operation.text, hits[k].text, operation.floor)
             THEN Append(kept[k - 1], hits[k])
        ELSE kept[k - 1]
  IN  kept[Len(hits)]

\* query() and recall(): of the records that match and compare, the closest first,
\* cut off at the limit, and without those below the floor.
Found(limit) ==
  LET ranked == Ranked({id \in DOMAIN store :
                          Eligible(store[id]) /\ store[id].width = operation.width})
      best == SubSeq(ranked, 1, IF Len(ranked) < limit THEN Len(ranked) ELSE limit) IN
  AboveFloor([k \in DOMAIN best |-> store[best[k]]])

\* It returns copies of Found(limit); what is stored stays.
Recall ==
  /\ operation.op = "recall"
  /\ operation' = NoOp
  /\ UNCHANGED store

\* delete() asks for no namespace, clear() for one or none.
Forget ==
  /\ \/ \E id \in DOMAIN store : store' = [other \in DOMAIN store \ {id} |-> store[other]]
     \/ \E ns \in Namespaces :
          store' = [id \in {i \in DOMAIN store : store[i].ns # ns} |-> store[id]]
     \/ store' = <<>>
  /\ UNCHANGED operation

MemoryNext == Embed \/ EmbedMany \/ Fails \/ Add \/ Recall \/ Forget

MemorySpec == MemoryInit /\ [][MemoryNext]_memoryVars

-----------------------------------------------------------------------------
\* What a recall returns belongs to the engagement that asks, has the metadata it
\* asks for and reaches the floor, and is the best there is, whatever was overwritten,
\* dropped or half stored by others while its text was embedded: a record of the
\* engagement that has all that too, and an embedding of the query's width, is left out
\* only if the limit is reached and nothing that was returned is less close ("so one
\* client's intelligence never leaks into another's recall"; "Results below the
\* similarity floor are dropped").
RecallHonest ==
  operation.op = "recall" => \A limit \in 0..2 :
    LET found == Found(limit)
        wanted(r) == Eligible(r) /\ Reaches(operation.text, r.text, operation.floor) IN
    /\ Len(found) <= limit
    /\ \A r \in ToSet(found) : wanted(r)
    /\ \A id \in DOMAIN store : LET r == store[id] IN
         wanted(r) /\ r.width = operation.width
           => \/ r \in ToSet(found)
              \/ /\ Len(found) = limit
                 /\ \A hit \in ToSet(found) : ~Closer(operation.text, r.text, hit.text)
=============================================================================
