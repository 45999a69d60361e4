-------------------------------- MODULE Collection --------------------------------
(***************************************************************************)
(* What the collectors put into a graph: the entities and relationships of *)
(* osint/collectors (DNS, WHOIS, TLS, social profiles), of iot/models.py   *)
(* and of threat/models.py, and build_graph_from_payloads, which makes one *)
(* graph of the payloads of tools that know nothing of each other.         *)
(*                                                                         *)
(* An entity is <<type, canonical value>> (module Canonical); Unusable is  *)
(* a value its normalizer refuses, for which Entity.create raises.         *)
(***************************************************************************)
EXTENDS Naturals, FiniteSets, Sequences

CONSTANTS
  Unusable,
  HostAddresses,               \* addresses that are targets or answers; the others are domains
  ServedFrom,                  \* URL -> the domain or address that serves it
  Obtained,                    \* what is collected: [tool, target, found], see PayloadOf
  MaxPayloads                  \* bounds the payloads of one graph

\* Each tool answers with finitely many values, a DNS address record with addresses,
\* and nothing else that is asked for a name with an address.
Names(values) ==
  IsFiniteSet(values) /\ values \intersect (HostAddresses \union DOMAIN ServedFrom) = {}

Shape(tool, target, found) ==
  \/ /\ tool = "osint.dns" /\ Names({target})
     /\ found.A \subseteq HostAddresses \union {Unusable} /\ IsFiniteSet(found.A)
     /\ \A type \in {"MX", "NS", "CNAME", "TXT"} : Names(found[type])
  \/ /\ tool = "osint.whois" /\ Names({target}) /\ Names(found.nameservers)
     /\ \A answer \in {"registrant", "registrar", "emails"} : IsFiniteSet(found[answer])
  \/ /\ tool = "osint.tls" /\ Names({target}) /\ Names(found.sans) /\ IsFiniteSet(found.issuer)
  \/ tool = "osint.social" /\ Names({target}) /\ IsFiniteSet(DOMAIN found)
  \/ /\ tool = "iot"
     /\ Names(found.hostnames) /\ IsFiniteSet(found.vendor) /\ IsFiniteSet(found.services)
  \/ /\ tool = "threat.url_score" /\ target \in DOMAIN ServedFrom
     /\ found.chain \in Seq(DOMAIN ServedFrom \union {Unusable})
     /\ Names(found.contacted) /\ IsFiniteSet(found.files)
  \/ tool = "threat.lookup"

ASSUME CollectionAssumption ==
  /\ \A f \in Obtained : Shape(f.tool, f.target, f.found)
  /\ HostAddresses \intersect DOMAIN ServedFrom = {}
  /\ \A u \in DOMAIN ServedFrom : ServedFrom[u] \notin DOMAIN ServedFrom

VARIABLE gathered   \* the payloads of the tools that succeeded

NodeOf(place) == IF place \in HostAddresses THEN <<"ip_address", place>> ELSE <<"domain", place>>

\* Entity.create for each of a collector's answers.
Created(type, values) == {<<type, v>> : v \in values \ {Unusable}}

Linked(edge, entities) == {<<edge, e>> : e \in entities}

\* The collectors' link(): the entity is appended, and an edge to it from the
\* subject, unless that is itself (Relationship.create raises).
Star(subject, links) ==
  [subject |-> subject, entities |-> {subject} \union {l[2] : l \in links},
   edges |-> {<<subject, l[1], l[2]>> : l \in {k \in links : k[2] # subject}}]

\* dns_collector.py: answers by record type, and the types that failed; one of
\* those must not lose the others.
Answers(found, type) == IF type \in found.failed THEN {} ELSE found[type]

DnsFails(found) ==
  /\ found.failed # {}
  /\ \A type \in {"A", "MX", "NS", "CNAME", "TXT"} : Answers(found, type) = {}

DnsPayload(domain, found) ==
  Star(<<"domain", domain>>,
       Linked("resolves_to", Created("ip_address", Answers(found, "A")))
       \union Linked("mail_handled_by", Created("domain", Answers(found, "MX")))
       \union Linked("nameserver_for", Created("domain", Answers(found, "NS")))
       \union Linked("alias_of", Created("domain", Answers(found, "CNAME")))
       \union Linked("registrant_contact", Created("email", Answers(found, "TXT"))))

\* whois_collector.py: placeholders of a privacy service are not read as values;
\* the registrar is linked if it is not the registrant.
WhoisPayload(domain, found) ==
  Star(<<"domain", domain>>,
       Linked("registered_by", Created("organization", found.registrant \union found.registrar))
       \union Linked("registrant_contact", Created("email", found.emails))
       \union Linked("nameserver_for", Created("domain", found.nameservers)))

\* tls_collector.py: a certificate that is not verified comes empty from the TLS
\* library; the subject's own name is skipped.
TlsPayload(domain, found) ==
  Star(<<"domain", domain>>,
       IF ~found.verified THEN {}
       ELSE Linked("secures", Created("domain", found.sans) \ {<<"domain", domain>>})
            \union Linked("issued_by", Created("organization", found.issuer)))

\* social_collector.py: a platform's status tells that the profile exists or not,
\* or neither; without platforms nothing is collected, not even the subject.
SocialPayload(domain, found) ==
  LET star == Star(<<"domain", domain>>,
                   Linked("has_handle", Created("social_handle",
                                                {p \in DOMAIN found : found[p] = "exists"}))) IN
  IF found = <<>> THEN [star EXCEPT !.entities = {}] ELSE star

\* Mutated form: the address is an attribute of the device.
DevicePayloadAlone(host, found) ==
  LET services == {<<"network_service", <<host, s>>>> : s \in found.services} IN
  Star(<<"iot_device", host>>,
       Linked("manufactured_by", Created("organization", found.vendor))
       \union Linked("exposes_service", services))

\* assets_to_graph_elements of iot/models.py: what a device is linked to, and,
\* if it is known by an address, what else is linked to that.
DevicePayload(host, found) ==
  LET device   == <<"iot_device", host>>
      address  == {<<"ip_address", h>> : h \in {host} \intersect HostAddresses}
      names    == Created("domain", found.hostnames)
      services == {<<"network_service", <<host, s>>>> : s \in found.services}
      star     == Star(device, Linked("runs_on", address)
                               \union Linked("manufactured_by", Created("organization", found.vendor))
                               \union Linked("exposes_service", services)) IN
  [star EXCEPT !.entities = @ \union names,
     !.edges = @ \union {<<n, "resolves_to", a>> : n \in names, a \in address}
                 \union {<<s, "service_on", a>> : s \in services, a \in address}]

\* `previous` after so many hops of a chain of redirects: the last that is a URL.
Previous(url, chain) ==
  LET last[i \in 0..Len(chain)] ==
        IF i = 0 THEN url ELSE IF chain[i] = Unusable THEN last[i - 1] ELSE chain[i] IN
  last

\* assessment_to_graph_elements of threat/models.py: the URL and its host; the
\* hops of its redirects, each from the last if that is another one, with theirs;
\* what the page contacted and what files it is made of.
UrlPayload(url, found) ==
  LET last  == Previous(url, found.chain)
      moves == {i \in 1..Len(found.chain) : last[i] # last[i - 1]}
      hops  == {last[i] : i \in moves}
      star  == Star(<<"url", url>>,
                    Linked("served_by", {NodeOf(ServedFrom[url])})
                    \union Linked("contacts", Created("domain", found.contacted))
                    \union Linked("references_file", Created("file_hash", found.files))) IN
  [star EXCEPT
     !.entities = @ \union UNION {{<<"url", u>>, NodeOf(ServedFrom[u])} : u \in hops},
     !.edges = @ \union {<<<<"url", last[i - 1]>>, "redirects_to", <<"url", last[i]>>>> :
                          i \in moves}
                 \union {<<<<"url", u>>, "served_by", NodeOf(ServedFrom[u])>> : u \in hops}]

\* The node of an indicator, which is an address, a domain or a URL (the digest of a
\* file, the fourth kind, is no place at which anything else meets).
EntityOf(indicator) ==
  IF indicator \in DOMAIN ServedFrom THEN <<"url", indicator>> ELSE NodeOf(indicator)

\* verdicts_to_graph_elements: a verdict is an attribute of its indicator.
VerdictPayload(indicator) == Star(EntityOf(indicator), {})

PayloadOf(finding) ==
  LET target == finding.target  found == finding.found IN
  CASE finding.tool = "osint.dns" -> DnsPayload(target, found)
    [] finding.tool = "osint.whois" -> WhoisPayload(target, found)
    [] finding.tool = "osint.tls" -> TlsPayload(target, found)
    [] finding.tool = "osint.social" -> SocialPayload(target, found)
    [] finding.tool = "iot" -> DevicePayload(target, found)
    [] finding.tool = "threat.url_score" -> UrlPayload(target, found)
    [] finding.tool = "threat.lookup" -> VerdictPayload(target)

-----------------------------------------------------------------------------
CollectionInit == gathered = {}

\* A tool succeeds, in any order; one that fails adds no payload.
Collect(finding) ==
  /\ Cardinality(gathered) < MaxPayloads
  /\ ~(finding.tool = "osint.dns" /\ DnsFails(finding.found))
  /\ gathered' = gathered \union {finding}

CollectionNext == \E finding \in Obtained : Collect(finding)

CollectionSpec == CollectionInit /\ [][CollectionNext]_gathered

\* build_graph_from_payloads: all entities first, and then the edges whose ends
\* are there.
Graph ==
  LET payloads == {PayloadOf(f) : f \in gathered}
      nodes == UNION {p.entities : p \in payloads} IN
  [nodes |-> nodes,
   edges |-> {e \in UNION {p.edges : p \in payloads} : e[1] \in nodes /\ e[3] \in nodes}]

\* The entities with an edge, either way, to one of these.
Beside(edges, entities) ==
  {e[3] : e \in {d \in edges : d[1] \in entities}}
  \union {e[1] : e \in {d \in edges : d[3] \in entities}}

\* What is reached from an entity along edges: no path needs more steps than there
\* are entities.
Reached(graph, from) ==
  LET Within[n \in 0..Cardinality(graph.nodes)] ==
        IF n = 0 THEN {from} ELSE Within[n - 1] \union Beside(graph.edges, Within[n - 1]) IN
  Within[Cardinality(graph.nodes)]

Hops(found) == {found.chain[i] : i \in DOMAIN found.chain}

\* The places a finding speaks of: its target, and the addresses, domains and URLs
\* that were found.  A lookup of social profiles with no platforms says nothing.
Mentions(finding) ==
  LET found == finding.found  target == finding.target IN
  CASE finding.tool = "osint.dns" ->
         {target} \union UNION {Answers(found, type) : type \in {"A", "MX", "NS", "CNAME"}}
    [] finding.tool = "osint.whois" -> {target} \union found.nameservers
    [] finding.tool = "osint.tls" -> {target} \union (IF found.verified THEN found.sans ELSE {})
    [] finding.tool = "osint.social" -> IF found = <<>> THEN {} ELSE {target}
    [] finding.tool = "iot" -> {target} \union found.hostnames
    [] finding.tool = "threat.url_score" ->
         LET urls == ({target} \union Hops(found)) \ {Unusable} IN
         urls \union {ServedFrom[u] : u \in urls} \union found.contacted
    [] finding.tool = "threat.lookup" -> {target}

\* A device known by a name only: _address_entity says that osint.dns supplies the
\* address to join it on, but nothing links a device to a domain of its name.
NamedDevice(finding) == finding.tool = "iot" /\ finding.target \notin HostAddresses

\* Tools that know nothing of each other meet where they speak of the same place:
\* if two findings mention one address, domain or URL, what each of them was asked
\* about is connected in the one graph ("the two subgraphs connect without any
\* explicit cross-module wiring"), whichever answers are missing, unusable or the
\* subject itself, unless one is about a device that is known by a name.  No payload
\* has an edge that is dropped for want of an end, or from an entity to itself; and
\* all it brings hangs together, but for the hostnames of a device known by a name.
PayloadsJoin ==
  /\ \A f \in gathered :
       LET p == PayloadOf(f) IN
       /\ \A e \in p.edges : {e[1], e[3]} \subseteq p.entities /\ e[1] # e[3]
       /\ \/ p.entities = {}
          \/ NamedDevice(f)
          \/ p.entities \subseteq Reached([nodes |-> p.entities, edges |-> p.edges], p.subject)
  /\ \A f, g \in {h \in gathered : ~NamedDevice(h)} :
       (Mentions(f) \intersect Mentions(g)) \ {Unusable} # {}
         => PayloadOf(g).subject \in Reached(Graph, PayloadOf(f).subject)
=============================================================================
