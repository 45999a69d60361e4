------------------------------ MODULE MCCorrelator ------------------------------
(***************************************************************************)
(* acme.com (1) with its mail (2) and www (3) names, a contact (4), two    *)
(* addresses (5, 6), three spellings of one organization (7 to 9) of which *)
(* the first and the last are less alike than the threshold asks, and a    *)
(* handle (10) that is the contact's address.                              *)
(***************************************************************************)
EXTENDS Correlator, TLC

MCKeys == 1..10
MCOrgs == 7..9
MCKindOf == (1 :> "domain") @@ (2 :> "domain") @@ (3 :> "domain") @@ (4 :> "email")
            @@ (5 :> "ip_address") @@ (6 :> "ip_address") @@ [k \in MCOrgs |-> "organization"]
            @@ (10 :> "social_handle")
MCEdgeTypes ==
  {"resolves_to", "registered_by", "alias_of", "subdomain_of", "associated_with", "uses_email"}
MCPossibleEdges ==
  {<<1, "resolves_to", 5>>, <<3, "resolves_to", 5>>, <<3, "resolves_to", 6>>,
   <<1, "registered_by", 7>>, <<3, "registered_by", 9>>, <<1, "alias_of", 3>>}
MCEdited == {1, 3, 5}
MCSimilarity == ({7, 8} :> 90) @@ ({8, 9} :> 95) @@ ({7, 9} :> 84)
MCBare == 3 :> 1
MCAncestors == (2 :> <<1>>) @@ (3 :> <<1>>)
MCMailDomain == 4 :> 1
MCHandleMail == 10 :> 4

\* The first is always found, the third by either source, the others or not.
MCCollected ==
  {[k \in MCKeys |->
      CASE k \in MCOrgs -> org[k]
        [] k \in 1..3 -> IF k \in domains THEN {"dns"} ELSE {}
        [] OTHER -> {"whois"}] :
   org \in [MCOrgs -> {{}, {"whois"}, {"whois", "dns"}}], domains \in SUBSET (1..3)}
=============================================================================
