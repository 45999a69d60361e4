------------------------------- MODULE MCUrlScan --------------------------------
\* Pages by what each source of evidence has to say of them.
EXTENDS UrlScan

MCPages ==
  {[analyze |-> a, inspect |-> i, virustotal |-> v, urlscan |-> u, carrying |-> n,
    canonical |-> n < 2] :
     a \in {{}, {"typosquat", "is_brand"}, {"typosquat", "phishing_keyword_host"},
            {"malformed_url", "cert_expired"}, {"ip_literal_host", "uncommon_port"}},
     i \in {{}, {"static_inspection_only"},
            {"cross_domain_redirect", "credential_form", "static_inspection_only"}},
     v \in {{}, {"vt_critical"}, {"vt_medium"}}, u \in {{}, {"us_medium"}}, n \in {0, 2}}
=============================================================================
