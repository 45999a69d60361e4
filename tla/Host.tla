----------------------------------- MODULE Host -----------------------------------
(***************************************************************************)
(* What the assistant does to the host and says of it: the command runners *)
(* of network/commands.py with the grants of network/privileges.py, the    *)
(* tunnel backends and VpnManager of network/vpn.py, LeakValidator of      *)
(* network/leaks.py and HealthMonitor of daemon/health.py.  An operation   *)
(* is a list of steps, one for each command or measurement it awaits; the  *)
(* host goes its own way in between.                                       *)
(***************************************************************************)
EXTENDS Sequences

VARIABLES
  setup,   \* the deployment: see Setups
  link,    \* the tunnel, as the backend's commands would show it
  todo,    \* the steps the operation has still to take
  seen,    \* what its measurements have told so far
  answer   \* what it ended with, "none" before

hostVars == <<setup, link, todo, seen, answer>>

\* wg show: the age of the handshake; systemctl and ip link: the unit, the interface;
\* OpenVPN's management state, which no command here asks for.
Present == {"connected", "not connected"}

Links(backend) ==
  IF backend = "wireguard" THEN {"absent", "no_peer", "garbled", "no_handshake", "fresh", "stale"}
  ELSE {"inactive", "starting"} \union Present

Gone(backend) == IF backend = "wireguard" THEN "absent" ELSE "inactive"

Steps(op, backend) ==
  CASE op = "status" -> <<"look">>
    [] op = "connect" -> <<"look", "up", "look">>
    [] op = "disconnect" -> <<"down">>
    [] op = "reconnect" -> <<"down", "up", "look">>
    [] op = "leaks" -> <<"public_ip", "default_route", "dns">>
    [] op = "firewall" -> <<"iptables", "ip6tables">>
    [] op = "health" -> <<"resources", "latency">>

\* executes: SubprocessRunner or DryRunRunner; escalation: detect_escalation();
\* rules: whether the administrator installed what plan_for() printed.
Setups ==
  [op : {"status", "connect", "disconnect", "reconnect", "leaks", "firewall", "health"},
   backend : {"wireguard", "openvpn"}, executes : BOOLEAN,
   escalation : {"none", "sudo", "pkexec"}, rules : BOOLEAN,
   baseline : BOOLEAN, expectedDns : BOOLEAN]

HostInit ==
  /\ setup \in Setups
  /\ link \in Links(setup.backend)
  /\ todo = Steps(setup.op, setup.backend)
  /\ seen = {} /\ answer = "none"

-----------------------------------------------------------------------------
(* Commands: a binary and what it is to do *)

Allowed == {"wg", "wg-quick", "openvpn", "nmcli", "ip", "iptables", "ip6tables", "nft",
            "resolvectl", "systemctl", "launchctl", "ping", "dig", "host"}

\* plan_for() with its kill-switch, whose two grants cover any argument.
Grants ==
  (IF setup.backend = "wireguard"
   THEN {<<"wg", "show">>, <<"wg-quick", "up">>, <<"wg-quick", "down">>}
   ELSE {<<"systemctl", "start">>, <<"systemctl", "stop">>, <<"systemctl", "is-active">>})
  \union {<<"iptables", "-A">>, <<"ip6tables", "-A">>}

\* CommandRunner.run: "planned" by the dry runner; "refused" by sudo, which
\* would have to ask for a password (PrivilegeError); "error", the other
\* CommandErrors: not installed, not started, timed out and killed.
Outcomes(command, privileged) ==
  IF command[1] \notin Allowed THEN {"error"}
  ELSE IF ~setup.executes THEN {"planned"}
  ELSE IF privileged /\ setup.escalation = "sudo" /\ ~(setup.rules /\ command \in Grants)
       THEN {"refused", "error"}
       ELSE {"ok", "failed", "error"}

Step(name) == todo # <<>> /\ Head(todo) = name

Ends(with) == answer' = with /\ todo' = <<>>

Raised(outcome) == Ends(IF outcome = "refused" THEN "PrivilegeError" ELSE "CommandError")

-----------------------------------------------------------------------------
(* The tunnel *)

HostChanges ==
  /\ todo # <<>>
  /\ link' \in Links(setup.backend) \ {link}
  /\ UNCHANGED <<setup, todo, seen, answer>>

\* parse_wg_dump
Dump ==
  CASE link \in {"absent", "no_peer"} -> "down" [] link = "garbled" -> "unknown"
    [] link = "no_handshake" -> "connecting" [] link = "fresh" -> "up" [] link = "stale" -> "degraded"

\* connect() is content with a tunnel that is up already.
Reported(state) ==
  /\ seen' = {link}
  /\ IF Len(todo) = 1 \/ state = "up" THEN Ends(state) ELSE todo' = Tail(todo) /\ UNCHANGED answer

LookAtWireGuard ==
  /\ Step("look") /\ setup.backend = "wireguard"
  /\ \E outcome \in Outcomes(<<"wg", "show">>, TRUE) :
       Reported(CASE outcome = "ok" -> Dump [] outcome = "failed" -> "down" [] OTHER -> "unknown")
  /\ UNCHANGED <<setup, link>>

\* Mutated form: an active unit is taken for a tunnel.
LookAtUnitOnly ==
  /\ Step("look") /\ setup.backend = "openvpn"
  /\ \E outcome \in Outcomes(<<"systemctl", "is-active">>, FALSE) :
       Reported(IF outcome \in {"error", "planned"} THEN "unknown"
                ELSE IF outcome = "failed" \/ link = "inactive" THEN "down" ELSE "up")
  /\ UNCHANGED <<setup, link>>

\* OpenVpnBackend.status: is the unit active, and then, is the interface there?
LookAtUnit ==
  /\ Step("look") /\ setup.backend = "openvpn"
  /\ \E outcome \in Outcomes(<<"systemctl", "is-active">>, FALSE) :
       IF outcome = "ok" /\ link # "inactive"
       THEN todo' = <<"interface">> \o Tail(todo) /\ UNCHANGED <<seen, answer>>
       ELSE Reported(IF outcome \in {"error", "planned"} THEN "unknown" ELSE "down")
  /\ UNCHANGED <<setup, link>>

LookAtInterface ==
  /\ Step("interface")
  /\ \E outcome \in Outcomes(<<"ip", "link">>, FALSE) :
       IF outcome = "error" THEN Raised(outcome) /\ UNCHANGED seen
       ELSE Reported(IF outcome = "failed" \/ link \notin Present THEN "connecting" ELSE "up")
  /\ UNCHANGED <<setup, link>>

\* wg-quick or systemctl; a failure is a VpnError, out of which reconnect()
\* makes a tunnel that is down, and which it forgives the first of its steps.
Bring(up, command) ==
  \E outcome \in Outcomes(command, TRUE) :
    /\ link' \in (IF outcome # "ok" THEN {link}
                  ELSE IF up THEN Links(setup.backend) \ {Gone(setup.backend)}
                  ELSE {Gone(setup.backend)})
    /\ IF outcome \in {"error", "refused"} THEN Raised(outcome)
       ELSE IF outcome = "failed" /\ (up \/ Len(todo) = 1)
            THEN Ends(IF setup.op = "reconnect" THEN "down" ELSE "VpnError")
       ELSE IF Len(todo) = 1 THEN Ends("down")
       ELSE todo' = Tail(todo) /\ UNCHANGED answer
    /\ UNCHANGED <<setup, seen>>

Up == Step("up") /\ Bring(TRUE, IF setup.backend = "wireguard" THEN <<"wg-quick", "up">>
                                ELSE <<"systemctl", "start">>)
Down == Step("down") /\ Bring(FALSE, IF setup.backend = "wireguard" THEN <<"wg-quick", "down">>
                                     ELSE <<"systemctl", "stop">>)

\* The kill-switch runs its rules one by one, checked (module KillSwitch).
Rule ==
  /\ Step("iptables") \/ Step("ip6tables")
  /\ \E outcome \in Outcomes(<<Head(todo), "-A">>, TRUE) :
       IF outcome \notin {"ok", "planned"} THEN Raised(outcome)
       ELSE IF Len(todo) = 1 THEN Ends("applied")
       ELSE todo' = Tail(todo) /\ UNCHANGED answer
  /\ UNCHANGED <<setup, link, seen>>

-----------------------------------------------------------------------------
(* Leaks: every check ends ok, as a leak, or unknown *)

Verdict(checks) ==
  IF \E c \in checks : c[2] = "leak" THEN "leaking"
  ELSE IF \E c \in checks : c[2] = "unknown" THEN "inconclusive" ELSE "protected"

Checked(status) ==
  LET checks == seen \union {<<Head(todo), status>>} IN
  /\ seen' = checks
  /\ IF Len(todo) = 1 THEN Ends(Verdict(checks)) ELSE todo' = Tail(todo) /\ UNCHANGED answer
  /\ UNCHANGED <<setup, link>>

\* The probe fails or says nothing; the address is the one of before, or not.
CheckPublicIp ==
  /\ Step("public_ip")
  /\ \E observed \in {"nothing", "same", "other"} :
       Checked(IF observed = "nothing" \/ ~setup.baseline THEN "unknown"
               ELSE IF observed = "same" THEN "leak" ELSE "ok")

\* The default routes there are; one through the tunnel is enough.
CheckDefaultRoute ==
  /\ Step("default_route")
  /\ \E outcome \in Outcomes(<<"ip", "route">>, FALSE), routes \in SUBSET {"tunnel", "other"} :
       Checked(IF outcome # "ok" \/ routes = {} THEN "unknown"
               ELSE IF "tunnel" \in routes THEN "ok" ELSE "leak")

\* The resolvers: the tunnel's own, others that are public, others expected.
CheckDns ==
  /\ Step("dns")
  /\ \E outcome \in Outcomes(<<"resolvectl", "status">>, FALSE),
        servers \in SUBSET {"own", "public", "expected"} :
       Checked(IF outcome # "ok" \/ servers = {} THEN "unknown"
               ELSE IF setup.expectedDns THEN (IF "public" \in servers THEN "leak" ELSE "ok")
               ELSE IF "own" \in servers THEN "ok"
               ELSE IF "public" \in servers THEN "leak" ELSE "unknown")

-----------------------------------------------------------------------------
(* Health: grades of what could be measured, the worst of them overall *)

Grades == {"ok", "warn", "critical", "unknown"}

Overall(grades) ==
  IF "critical" \in grades THEN "critical" ELSE IF "warn" \in grades THEN "warn"
  ELSE IF grades = {"unknown"} THEN "unknown" ELSE "ok"

\* cpu (unknown at the first look without psutil), memory, disk; the workers'
\* saturation warns, and the daemon grades a given-up worker critical.
ReadResources ==
  /\ Step("resources")
  /\ \E cpu, memory, workers \in Grades : seen' = {cpu, memory, workers}
  /\ todo' = Tail(todo)
  /\ UNCHANGED <<setup, link, answer>>

ProbeLatency ==
  /\ Step("latency")
  /\ \E latency \in Grades : seen' = seen \union {latency} /\ Ends(Overall(seen \union {latency}))
  /\ UNCHANGED <<setup, link>>

HostNext ==
  \/ HostChanges \/ LookAtWireGuard \/ LookAtUnit \/ LookAtInterface \/ Up \/ Down \/ Rule
  \/ CheckPublicIp \/ CheckDefaultRoute \/ CheckDns \/ ReadResources \/ ProbeLatency

HostSpec == HostInit /\ [][HostNext]_hostVars

-----------------------------------------------------------------------------
\* Whatever the host does between two commands, what could not be seen is not
\* reported as fine: a tunnel is up only if the last look found a fresh handshake,
\* or, with OpenVPN, the interface of an active unit, traffic is protected only if
\* every check passed, health is fine only if nothing measured was bad, and a dry
\* run reports none of these of the tunnel or of leaks.  That is less than the
\* backend's "UP here rests on the service being active plus the management state
\* reading CONNECTED": the state is not read, and a tunnel that is not connected
\* may be reported up.  And the rules that plan_for() prints are enough: with them
\* sudo refuses nothing.
AnswersTrue ==
  /\ answer = "up" => setup.executes /\ seen \subseteq {"fresh"} \union Present
  /\ answer = "protected" =>
       setup.executes /\ seen = {"public_ip", "default_route", "dns"} \X {"ok"}
  /\ setup.op = "health" /\ answer = "ok" => seen \intersect {"warn", "critical"} = {}
  /\ answer = "PrivilegeError" => ~setup.rules
=============================================================================
