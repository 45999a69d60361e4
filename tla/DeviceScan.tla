-------------------------------- MODULE DeviceScan --------------------------------
(***************************************************************************)
(* Discovery of devices: the tools of iot/tools.py, the connect scan of    *)
(* iot/stream_discovery.py with what iot/fingerprints.py makes of a port   *)
(* and its banner, and the folding of records in iot/models.py, for which  *)
(* iot/shodan_client.py supplies those of the index.                       *)
(***************************************************************************)
EXTENDS Naturals, FiniteSets, Sequences

CONSTANTS
  Ports,      \* the ports of the sample; one that is out of range is BadPort
  Control,    \* INDUSTRIAL_PORTS
  Requested,  \* ports of protocols that are sent a request: HTTP, HTTPS, RTSP
  Slots,      \* max_concurrency
  MaxPorts    \* _MAX_PORTS_PER_SCAN

VARIABLES
  call,      \* the tool and the ports its call asks for, or NoCall
  waiting,   \* the ports whose probes wait for the semaphore, in its order
  probing,   \* port -> "connecting" or "connected", of the probes that hold it
  sent,      \* the ports that were sent anything
  opened,    \* history: the ports that were connected to
  results,   \* port -> its ProbeResult
  outcome    \* "none" before the end, "device", or "failed"

DeviceAssumption ==
  /\ IsFiniteSet(Ports) /\ Ports \subseteq Nat /\ Control \subseteq Ports /\ Requested \subseteq Ports
  /\ Slots \in Nat
ASSUME DeviceAssumption

scanVariables == <<call, waiting, probing, sent, opened, results, outcome>>

BadPort == 0
NoCall == [tool |-> "none", asked |-> {}]
LiveTools == {"iot.scan", "iot.stream_probe", "iot.control_port_probe"}

ScanIdle ==
  /\ call = NoCall /\ waiting = <<>> /\ probing = <<>> /\ sent = {} /\ opened = {}
  /\ results = <<>> /\ outcome = "none"

\* Mutated form: the ports a caller names are scanned as they are.
EffectivePortsAsAsked(tool, asked) == asked

\* The tool's own ports if none are asked for, and effective_ports(): only the
\* intrusive tool includes the industrial ones.
EffectivePorts(tool, asked) ==
  LET ports == IF asked # {} THEN asked
               ELSE IF tool = "iot.control_port_probe" THEN Control
               ELSE IF tool = "iot.stream_probe" THEN Requested ELSE Ports \ Control IN
  IF tool = "iot.control_port_probe" THEN ports ELSE ports \ Control

\* sorted() of a set.
Sorted(ports) ==
  CHOOSE s \in [1..Cardinality(ports) -> ports] : \A i, j \in DOMAIN s : i < j => s[i] < s[j]

Call ==
  /\ call = NoCall
  /\ \E tool \in LiveTools, asked \in SUBSET (Ports \union {BadPort}) :
       /\ call' = [tool |-> tool, asked |-> asked]
       /\ IF \/ BadPort \in asked \/ Cardinality(asked) > MaxPorts
             \/ tool = "iot.control_port_probe" /\ ~(asked \subseteq Control)
          THEN outcome' = "failed" /\ UNCHANGED waiting
          ELSE /\ waiting' = Sorted(EffectivePorts(tool, asked))
               /\ UNCHANGED outcome
  /\ UNCHANGED <<probing, sent, opened, results>>

\* build_probe_payload: a HEAD, an OPTIONS, or nothing; never to a control port.
Payload(p) == IF p \notin Control /\ p \in Requested THEN {p} ELSE {}

Begin ==
  /\ waiting # <<>> /\ Cardinality(DOMAIN probing) < Slots
  /\ probing' = [p \in DOMAIN probing \union {Head(waiting)} |->
                   IF p \in DOMAIN probing THEN probing[p] ELSE "connecting"]
  /\ waiting' = Tail(waiting)
  /\ UNCHANGED <<call, sent, opened, results, outcome>>

Connected(p) ==
  /\ p \in DOMAIN probing /\ probing[p] = "connecting"
  /\ probing' = [probing EXCEPT ![p] = "connected"]
  /\ opened' = opened \union {p} /\ sent' = sent \union Payload(p)
  /\ UNCHANGED <<call, waiting, results, outcome>>

Reports(p, result) ==
  /\ probing' = [q \in DOMAIN probing \ {p} |-> probing[q]]
  /\ results' = [q \in DOMAIN results \union {p} |-> IF q = p THEN result ELSE results[q]]
  /\ UNCHANGED <<call, waiting, sent, opened, outcome>>

\* A timeout or an OSError of the connect.
NotConnected(p) ==
  /\ p \in DOMAIN probing /\ probing[p] = "connecting"
  /\ Reports(p, "closed")

\* A banner with a status or without, or none: nobody spoke in time, or the
\* connection broke.
Spoke(p) ==
  /\ p \in DOMAIN probing /\ probing[p] = "connected"
  /\ \E banner \in {"", "200", "401", "403", "other"} : Reports(p, banner)

\* Anything else a probe raises: "one port must not sink the scan", and is reported as
\* not open, with the error, even if it was connected to.
Raises(p) ==
  /\ p \in DOMAIN probing
  /\ Reports(p, "raised")

\* _exposure_from and fingerprint_service: what a banner settles.
Exposure(banner) ==
  CASE banner \in {"401", "403"} -> "authenticated" [] banner = "200" -> "unauthenticated"
    [] OTHER -> "unknown"

\* The services of the device.
Services ==
  {[port |-> p, transport |-> "tcp", exposure |-> Exposure(results[p])] :
     p \in {q \in DOMAIN results : results[q] \notin {"closed", "raised"}}}

\* The gather has its results.
Assemble ==
  /\ call # NoCall /\ outcome = "none" /\ waiting = <<>> /\ probing = <<>>
  /\ outcome' = "device"
  /\ UNCHANGED <<call, waiting, probing, sent, opened, results>>

\* The dispatcher's timeout or a cancellation: every probe closes its socket.
Cancel ==
  /\ call # NoCall /\ outcome = "none"
  /\ outcome' = "failed" /\ waiting' = <<>> /\ probing' = <<>>
  /\ UNCHANGED <<call, sent, opened, results>>

ScanHostNext ==
  \/ Call \/ Begin \/ Assemble \/ Cancel
  \/ \E p \in Ports : Connected(p) \/ NotConnected(p) \/ Spoke(p) \/ Raises(p)

DeviceSpec == ScanIdle /\ [][ScanHostNext]_scanVariables

-----------------------------------------------------------------------------
(* Records of one address, from the index and from scans: merge_devices      *)

\* The ports with an entry in _PORT_PROTOCOLS.
Conventional == Requested \union Control

\* The identity of a service is its port and its protocol, which for a port with a
\* convention is that one, whatever the transport (protocol_for_port): a TCP and a
\* UDP service of such a port are one.
Identity(s) == <<s.port, IF s.port \in Conventional THEN "by port" ELSE s.transport>>

\* Services of the later record are added if the earlier ones have none like it.
Fold(earlier, later) ==
  earlier \union {s \in later : \A e \in earlier : Identity(e) # Identity(s)}

\* parse_shodan_host and parse_shodan_search: what the index says of a port.
IndexRecords ==
  [port : Ports, transport : {"tcp", "udp"},
   exposure : {"unknown", "authenticated", "unauthenticated"}]

-----------------------------------------------------------------------------
\* However probes fail, raise and overlap, and whatever ports a caller asks for:
\* not more are under way than the limit; only the intrusive tool touches control
\* ports, it touches no others, and nothing is ever sent to one; a scan that is not
\* cancelled has a result for every port of its plan, and claims a service for
\* exactly the ports that were connected to, but for those whose probe raised.
\* Folding an index record with it, in either order, makes up no service, lists none
\* twice, and loses no endpoint of either, but for one of a TCP and a UDP service on
\* a port with a convention, which share an identity (normalize_service says that
\* they do not collide; Identity is what the code does).
ScanContained ==
  LET touched == DOMAIN probing \union DOMAIN results IN
  /\ Cardinality(DOMAIN probing) <= Slots
  /\ IF call.tool = "iot.control_port_probe" THEN touched \subseteq Control
     ELSE touched \intersect Control = {}
  /\ sent \intersect Control = {}
  /\ outcome = "device" =>
       /\ DOMAIN results = EffectivePorts(call.tool, call.asked)
       /\ {s.port : s \in Services} = opened \ {p \in DOMAIN results : results[p] = "raised"}
       /\ \A record \in IndexRecords :
            \A folded \in {Fold(Services, {record}), Fold({record}, Services)} :
              /\ folded \subseteq Services \union {record}
              /\ \A s, t \in folded : Identity(s) = Identity(t) => s = t
              /\ \A s \in Services \union {record} : \E t \in folded :
                   t.port = s.port /\ (t.transport = s.transport \/ s.port \in Conventional)
=============================================================================
