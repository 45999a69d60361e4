---------------------------------- MODULE Scopes ----------------------------------
(***************************************************************************)
(* AuthorizationScope of core/authorization.py: how a target is read, what *)
(* a rule matches, and the order in which evaluate() decides.  (That every *)
(* call is asked for is module Dispatcher's.)                              *)
(*                                                                         *)
(* A host is its labels, the top-level one first; addresses are numbers; a *)
(* network is a set of addresses, a power of two of them, aligned.         *)
(***************************************************************************)
EXTENDS Naturals, SequencesExt

CONSTANTS
  Hosts,      \* the hosts of the sample, sequences of labels
  Addresses,  \* 0..2^n - 1
  Private,    \* the addresses that are private, loopback, reserved...
  Engagements \* the scopes that operators configure

VARIABLE scope  \* the scope of the engagement, or NoScope

Networks == {net \in {lo..hi : lo, hi \in Addresses} :
               \E n \in 0..4, k \in Addresses : net = (k * 2^n)..(k * 2^n + 2^n - 1)}

Named(host) == [kind |-> "hostname", host |-> host]
Single(a) == [kind |-> "ip_address", net |-> {a}]
Block(net) == [kind |-> "ip_network", net |-> net]
Nothing == [kind |-> "unknown"]

Assets == {Named(h) : h \in Hosts} \union {Single(a) : a \in Addresses}
            \union {Block(net) : net \in Networks}

\* What an operator or a tool writes for an asset: as an URL, with a port, with
\* a dot behind the name.
Written == [asset : Assets, url : BOOLEAN, port : BOOLEAN, dot : BOOLEAN]

Plain(asset) == [asset |-> asset, url |-> FALSE, port |-> FALSE, dot |-> FALSE]

First(net) == CHOOSE a \in net : \A b \in net : a <= b

\* normalize_target: of an URL the parser finds the host, which of a range is its
\* first address; otherwise a dot at the end is cut off, and then a port, which
\* leaves the dot before it; a range is kept as it is.
Normalize(t) ==
  LET isRange == t.asset.kind = "ip_network" IN
  CASE t.url -> Plain(IF isRange THEN Single(First(t.asset.net)) ELSE t.asset)
    [] ~t.url /\ ~t.port -> [t EXCEPT !.dot = FALSE]
    [] ~t.url /\ t.port -> IF isRange THEN t ELSE [t EXCEPT !.port = FALSE]

\* Mutated form: the target is taken to be normalized already.
ReadOnce(t) ==
  LET n == Normalize(t) IN IF n.port \/ n.dot THEN Nothing ELSE n.asset

\* classify_target, which normalizes what evaluate() has normalized before.
Read(t) ==
  LET n == Normalize(Normalize(t)) IN IF n.port \/ n.dot THEN Nothing ELSE n.asset

-----------------------------------------------------------------------------
(* Rules: [net], or [host, wildcard, beneath]: "*." in front of it, and      *)
(* include_subdomains                                                        *)

IsBeneath(host, parent) == Len(host) > Len(parent) /\ IsPrefix(parent, host)

\* ScopeRule.matches
Matches(rule, target) ==
  IF "net" \in DOMAIN rule
  THEN "net" \in DOMAIN target /\ target.net \subseteq rule.net
  ELSE /\ target.kind = "hostname"
       /\ IF target.host = rule.host THEN ~rule.wildcard
          ELSE (rule.beneath \/ rule.wildcard) /\ IsBeneath(target.host, rule.host)

Rules == [net : Networks] \union [host : Hosts, wildcard : BOOLEAN, beneath : BOOLEAN]

ScopesAssumption ==
  /\ Hosts \subseteq Seq(STRING)
  /\ \A lo, hi \in Addresses : lo..hi \subseteq Addresses
  /\ Engagements \subseteq [allow : SUBSET Rules, deny : SUBSET Rules, private : BOOLEAN,
                           expired : BOOLEAN, maxRisk : Nat]
ASSUME ScopesAssumption

\* A network is private if its first and its last address are.
NonPublic(net) ==
  /\ First(net) \in Private
  /\ \E a \in net \intersect Private : \A b \in net : a >= b

\* evaluate(), in its order.
Evaluate(t, risk) ==
  LET target == Read(t) IN
  IF scope.expired THEN "expired"
  ELSE IF risk > scope.maxRisk THEN "risk"
  ELSE IF scope.allow = {} THEN "empty"
  ELSE IF target = Nothing THEN "unknown"
  ELSE IF ~scope.private /\ target.kind # "hostname" /\ NonPublic(target.net) THEN "private"
  ELSE IF \E r \in scope.deny : Matches(r, target) THEN "denied"
  ELSE IF \E r \in scope.allow : Matches(r, target) THEN "allowed"
  ELSE "no rule"

NoScope == [allow |-> {}]

\* from_config: once for an engagement; nothing changes a scope.
Configure == scope = NoScope /\ scope' \in Engagements

ScopeSpec == scope = NoScope /\ [][Configure]_scope

-----------------------------------------------------------------------------
\* Whatever an engagement's rules allow and deny: who writes the same host or
\* address another way gets the same verdict; what is denied, is denied with
\* everything a covering rule holds, however an allow rule names it; and an
\* allowed range is allowed address by address, but for those that are denied
\* or private by themselves.
DeniesWin ==
  LET verdict(asset) == Evaluate(Plain(asset), 1) IN
  scope # NoScope =>
  /\ \A t \in Written : t.asset.kind # "ip_network" => Evaluate(t, 1) = verdict(t.asset)
  /\ \A net \in Networks : \A a \in net :
       /\ verdict(Block(net)) = "allowed" => verdict(Single(a)) \in {"allowed", "denied", "private"}
       /\ verdict(Block(net)) = "denied" => verdict(Single(a)) \in {"denied", "private"}
  /\ \A h, sub \in Hosts :
       verdict(Named(h)) = "denied" /\ IsBeneath(sub, h) /\ verdict(Named(sub)) # "denied"
         => \A r \in scope.deny : Matches(r, Named(h)) => ~r.beneath /\ ~r.wildcard
  /\ \A asset \in Assets : verdict(asset) = "allowed" =>
       ~\E r \in scope.deny : Matches(r, asset)
=============================================================================
