-------------------------------- MODULE Canonical --------------------------------
(***************************************************************************)
(* The canonical values of osint/models.py, under which what different     *)
(* collectors say of one thing meets in one node.  A text is a record of   *)
(* what its normalizer looks at; a canonical value is such a text again.   *)
(***************************************************************************)
EXTENDS Naturals, SequencesExt

CONSTANTS
  Hostnames,   \* domain names, lower-case, without the dot at the end
  LegalForms,  \* _ORG_SUFFIXES
  Words        \* other words of an organization's name

VARIABLE sample  \* a text of some type, to be made canonical, or NoSample

NoSample == [type |-> "none"]

Refused == [refused |-> TRUE]

\* A domain in capitals, with the root's dot; "" is what may be missing.
DomainTexts == [name : Hostnames \union {""}, upper : BOOLEAN, dot : BOOLEAN]

Domain(t) == IF t.name = "" THEN Refused ELSE [name |-> t.name, upper |-> FALSE, dot |-> FALSE]

\* normalize_host: an address too, an IPv6 one perhaps not compressed, in brackets
\* (a key keeps the brackets of an IPv6 address within a service or an URL).
AddressTexts ==
  [address : {"4"}, long : {FALSE}, bracket : BOOLEAN]
  \union [address : {"6"}, long : BOOLEAN, bracket : BOOLEAN]

HostTexts == DomainTexts \union AddressTexts

Host(t) ==
  IF "address" \in DOMAIN t
  THEN [address |-> t.address, long |-> FALSE, bracket |-> t.address = "6"]
  ELSE Domain(t)

\* Those in front of a port, or in an URL.
HostPorts ==
  {t \in HostTexts : "address" \in DOMAIN t => t.bracket = (t.address = "6")}

EmailTexts == [local : {"", "ann", "bob"}, upper : BOOLEAN, at : BOOLEAN, domain : DomainTexts]

Email(t) ==
  IF ~t.at \/ t.local = "" \/ Domain(t.domain) = Refused THEN Refused
  ELSE [t EXCEPT !.upper = FALSE, !.domain = Domain(@)]

\* Characters of a number: plus, digits, and formatting.
PhoneTexts == [chars : SeqOf({"+", "1", "2", "-"}, 4)]

\* What is left of chars without the character c.
Stripped(c, chars) ==
  LET kept[k \in 0..Len(chars)] ==
        IF k = 0 THEN <<>> ELSE IF chars[k] # c THEN Append(kept[k - 1], chars[k]) ELSE kept[k - 1]
  IN  kept[Len(chars)]

Phone(t) ==
  LET cleaned == Stripped("-", t.chars)
      digits  == Stripped("+", cleaned) IN
  IF digits = <<>> THEN Refused
  ELSE [chars |-> IF Head(cleaned) = "+" THEN <<"+">> \o digits ELSE digits]

\* "@name", "platform/@name", or the URL of a profile, whose "@" is kept.
HandleTexts ==
  [form : {"plain", "path", "url"}, platform : {"", "x"}, name : {"", "ann", "bob"}, at : BOOLEAN]

PlainHandle(name) == [form |-> "plain", platform |-> "", name |-> name, at |-> FALSE]

Handle(t) ==
  CASE t.form = "url" -> IF t.name = "" THEN PlainHandle(t.platform) ELSE [t EXCEPT !.form = "path"]
    [] t.form = "path" -> [t EXCEPT !.at = FALSE]
    [] t.form = "plain" -> IF t.name = "" /\ ~t.at THEN Refused ELSE PlainHandle(t.name)

\* The words of a name, without case and accents, and whether there is anything
\* else in it, punctuation that is.
OrgTexts == [words : SeqOf(LegalForms \union Words, 3), more : BOOLEAN]

\* Mutated form: one legal form is taken off.
OrganizationOnce(t) ==
  IF t.words = <<>> /\ ~t.more THEN Refused
  ELSE [words |-> IF Len(t.words) > 1 /\ Last(t.words) \in LegalForms THEN Front(t.words) ELSE t.words,
        more |-> FALSE]

\* Legal forms are popped as long as one is last; a name of nothing else is kept.  A
\* name of punctuation only is left empty, although an empty one is refused.
Organization(t) ==
  LET Rest[n \in 0..Len(t.words)] ==
        IF n > 0 /\ t.words[n] \in LegalForms THEN Rest[n - 1] ELSE n
      kept == Rest[Len(t.words)] IN
  IF t.words = <<>> /\ ~t.more THEN Refused
  ELSE [words |-> IF kept = 0 THEN t.words ELSE SubSeq(t.words, 1, kept), more |-> FALSE]

\* host:port/protocol, the protocol left out or not.
ServiceTexts == [host : HostPorts, port : {"", "80", "99999"}, protocol : {"", "tcp", "udp"}]

Service(t) ==
  IF Host(t.host) = Refused \/ t.port # "80" THEN Refused
  ELSE [host |-> Host(t.host), port |-> t.port,
        protocol |-> IF t.protocol = "" THEN "tcp" ELSE t.protocol]

UrlTexts ==
  [scheme : {"", "http", "https"}, user : {"", "u"}, password : {"", "p"}, host : HostPorts,
   port : {"", "80", "443"}, path : {"", "/", "/a"}, fragment : {"", "f"}]

DefaultPort == [http |-> "80", https |-> "443"]

\* The host of an URL is made canonical as a domain is: an address stays as it is
\* spelled, and so does what is no domain, a dot alone.
UrlHost(h) ==
  IF "address" \in DOMAIN h THEN h
  ELSE IF Domain(h) = Refused THEN [name |-> "", upper |-> FALSE, dot |-> TRUE] ELSE Domain(h)

NoHost == [name : {""}, upper : BOOLEAN, dot : {FALSE}]

Url(t) ==
  IF t.scheme = "" \/ t.host \in NoHost THEN Refused
  ELSE [t EXCEPT !.host = UrlHost(@), !.fragment = "",
                 !.port = IF @ = DefaultPort[t.scheme] THEN "" ELSE @,
                 !.password = IF t.user = "" THEN "" ELSE @,
                 !.path = IF @ = "" THEN "/" ELSE @]

\* The length of a digest names its algorithm.
DigestTexts == [length : {0, 32, 40, 63, 64}, hex : BOOLEAN, upper : BOOLEAN]

Digest(t) == IF t.length \notin {32, 40, 64} \/ ~t.hex THEN Refused ELSE [t EXCEPT !.upper = FALSE]

Types == {"domain", "host", "email", "phone", "social_handle", "organization", "network_service",
          "url", "file_hash"}

TextsOf(type) ==
  CASE type = "domain" -> DomainTexts [] type = "host" -> HostTexts [] type = "email" -> EmailTexts
    [] type = "phone" -> PhoneTexts [] type = "social_handle" -> HandleTexts
    [] type = "organization" -> OrgTexts [] type = "network_service" -> ServiceTexts
    [] type = "url" -> UrlTexts [] type = "file_hash" -> DigestTexts

Canonicalize(type, t) ==
  CASE type = "domain" -> Domain(t) [] type = "host" -> Host(t) [] type = "email" -> Email(t)
    [] type = "phone" -> Phone(t) [] type = "social_handle" -> Handle(t)
    [] type = "organization" -> Organization(t) [] type = "network_service" -> Service(t)
    [] type = "url" -> Url(t) [] type = "file_hash" -> Digest(t)

-----------------------------------------------------------------------------
\* What a text is about, for the types with spellings that must meet: the
\* request of an URL, the endpoint of a service, the name of an organization up
\* to its last word that is no legal form.
HostOf(t) == IF "address" \in DOMAIN t THEN [address |-> t.address] ELSE [name |-> t.name]

Thing(type, t) ==
  CASE type = "url" -> <<t.scheme, t.user, IF t.user = "" THEN "" ELSE t.password, HostOf(t.host),
                         IF t.port = "" THEN DefaultPort[t.scheme] ELSE t.port,
                         IF t.path = "" THEN "/" ELSE t.path>>
    [] type = "network_service" -> <<HostOf(t.host), IF t.protocol = "udp" THEN "udp" ELSE "tcp">>
    [] type = "organization" ->
         LET names == {i \in DOMAIN t.words : t.words[i] \notin LegalForms}
             last  == IF names = {} THEN Len(t.words) ELSE Max(names) IN
         SubSeq(t.words, 1, last)

\* A canonical value is its own canonical value ("so the canonical form re-parses to
\* itself"): not so a handle that is nothing but an "@" or that has one in the URL of
\* its profile, and an organization of punctuation only, whose key is refused.  Two
\* texts of a service, an URL or an organization have one key only if they are about
\* the same thing, and if they are they have, but for URLs in which one IPv6 address is
\* spelled in two ways.
StableKey(type, t) ==
  LET key == Canonicalize(type, t) IN
  key # Refused =>
    /\ /\ type = "social_handle" => t.name # "" /\ ~(t.form = "url" /\ t.at)
       /\ type = "organization" => t.words # <<>>
       => Canonicalize(type, key) = key
    /\ type \in {"url", "network_service", "organization"} =>
         \A other \in TextsOf(type) :
           LET otherKey == Canonicalize(type, other)
               same == Thing(type, other) = Thing(type, t) IN
           otherKey # Refused =>
             /\ otherKey = key => same
             /\ same => \/ otherKey = key
                        \/ type = "url" /\ t.host \in AddressTexts /\ other.host # t.host

Samples == UNION {[type : {type}, text : TextsOf(type)] : type \in Types}

CanonicalSpec == sample \in Samples /\ [][UNCHANGED sample]_sample

\* Whatever text is canonicalized: see StableKey.
KeysStable == sample.type \in Types => StableKey(sample.type, sample.text)
=============================================================================
