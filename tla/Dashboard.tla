------------------------------- MODULE Dashboard -------------------------------
(***************************************************************************)
(* web/app.py and web/state.py: the dashboard's handlers around one kill   *)
(* switch, the projection they keep of it and of the tunnel, and the       *)
(* telemetry sockets it is broadcast to through bounded queues.  The same  *)
(* switch used by a command-line session has no dashboard (served).        *)
(***************************************************************************)
EXTENDS KillSwitch

CONSTANTS Clients, QueueSize

ASSUME DashboardAssumption == QueueSize \in Nat \ {0}

VARIABLES
  served,   \* the switch belongs to a dashboard
  shown,    \* DashboardState: the switch engaged?  the tunnel's endpoint known?
  socket,   \* client -> "off", "on", or "gone": left, and not noticed yet
  inbox,    \* client -> the frames in its queue
  view,     \* client -> what it last rendered
  lost      \* the clients a frame was dropped for since they subscribed

web      == <<shown, socket, inbox, view, lost>>
dashVars == <<vars, served, web>>

DashInit ==
  /\ Init /\ served \in BOOLEAN
  /\ shown = [killswitch |-> FALSE, tunnel |-> FALSE]
  /\ socket = [c \in Clients |-> "off"] /\ inbox = [c \in Clients |-> <<>>]
  /\ view = [c \in Clients |-> shown] /\ lost = {}

-----------------------------------------------------------------------------
(* Broadcaster and DashboardState.                                         *)

Subscribed == {c \in Clients : socket[c] # "off"}
Full(c) == Len(inbox[c]) = QueueSize

\* An update of the projection, published: a full queue drops the new frame.
Show(kind, value) ==
  /\ shown' = [shown EXCEPT ![kind] = value]
  /\ inbox' = [c \in Clients |->
                 IF c \in Subscribed /\ ~Full(c) THEN Append(inbox[c], <<kind, value>>)
                                                 ELSE inbox[c]]
  /\ lost' = lost \union {c \in Subscribed : Full(c)}
  /\ UNCHANGED <<socket, view>>

\* Mutated form: the snapshot is taken before the wait, the queue made after it.
AttachLate(c) ==
  \/ /\ socket[c] = "off"
     /\ socket' = [socket EXCEPT ![c] = "gone"] /\ view' = [view EXCEPT ![c] = shown]
     /\ lost' = lost \ {c}
     /\ UNCHANGED <<shown, inbox>>
  \/ /\ socket[c] = "gone"
     /\ socket' = [socket EXCEPT ![c] = "on"] /\ inbox' = [inbox EXCEPT ![c] = <<>>]
     /\ UNCHANGED <<shown, view, lost>>

\* The accepted socket subscribes and is sent a snapshot taken in the same turn.
Attach(c) ==
  /\ socket[c] = "off"
  /\ socket' = [socket EXCEPT ![c] = "on"]
  /\ inbox' = [inbox EXCEPT ![c] = <<>>]
  /\ view' = [view EXCEPT ![c] = shown]
  /\ lost' = lost \ {c}
  /\ UNCHANGED shown

Rendered(picture, frame) == [picture EXCEPT ![frame[1]] = frame[2]]

Deliver(c) ==
  /\ socket[c] = "on" /\ inbox[c] # <<>>
  /\ view' = [view EXCEPT ![c] = Rendered(@, Head(inbox[c]))]
  /\ inbox' = [inbox EXCEPT ![c] = Tail(@)]
  /\ UNCHANGED <<shown, socket, lost>>

\* A client leaves; the handler notices at its next frame or ping.
Leave(c) ==
  /\ socket[c] = "on"
  /\ socket' = [socket EXCEPT ![c] = "gone"]
  /\ UNCHANGED <<shown, inbox, view, lost>>

Unsubscribe(c) ==
  /\ socket[c] = "gone"
  /\ socket' = [socket EXCEPT ![c] = "off"] /\ inbox' = [inbox EXCEPT ![c] = <<>>]
  /\ lost' = lost \ {c}
  /\ UNCHANGED <<shown, view>>

-----------------------------------------------------------------------------
(* The handlers of the switch: apply() without the timer, and release().   *)

\* The endpoint is the request's, or the one of the tunnel as it was last shown.
Engagement(o) ==
  /\ \E given, admin \in BOOLEAN : Apply(o, BuildPlan(given \/ shown.tunnel, admin), FALSE)
  /\ UNCHANGED web

\* Mutated form: a refused engagement is shown as if it had been applied.
ReportedAnyway(o) ==
  IF doing'[o] = "idle"
    THEN Show("killswitch", doing[o] # "releasing")
    ELSE UNCHANGED web

\* A handler whose call returned shows what it returned; one whose plan failed
\* answers with an error and shows nothing.
Reported(o) ==
  IF doing'[o] = "idle" /\ doing[o] # "undoing"
    THEN Show("killswitch", engaged')
    ELSE UNCHANGED web

HandlerStep(o) == CallStep(o) /\ Reported(o)

ReleaseRequest(o) == Release(o) /\ Reported(o)

\* vpn_status, vpn_action or the telemetry pump has sampled the tunnel.
TunnelSampled == \E known \in BOOLEAN : Show("tunnel", known) /\ UNCHANGED vars

DashNext ==
  \/ ~served /\ Next /\ UNCHANGED <<served, web>>
  \/ /\ served /\ UNCHANGED served
     /\ \/ \E o \in Operators :
             \/ Engagement(o) \/ HandlerStep(o) \/ ReleaseRequest(o)
             \/ CancelCall(o) /\ UNCHANGED web
        \/ TunnelSampled
        \/ \E c \in Clients :
             (Attach(c) \/ Deliver(c) \/ Leave(c) \/ Unsubscribe(c)) /\ UNCHANGED vars

\* Commands have a time limit, and the event loop runs the timer task.
DashSpec ==
  /\ DashInit /\ [][DashNext]_dashVars
  /\ \A o \in Operators : /\ WF_dashVars(~served /\ CallStep(o) /\ UNCHANGED <<served, web>>)
                          /\ WF_dashVars(~served /\ TimerTask(o) /\ UNCHANGED <<served, web>>)
                          /\ WF_dashVars(served /\ HandlerStep(o) /\ UNCHANGED served)

-----------------------------------------------------------------------------
\* What a client shows when it has rendered the frames as well.
Seen(picture, frames) ==
  LET after[i \in 0..Len(frames)] ==
        IF i = 0 THEN picture ELSE Rendered(after[i - 1], frames[i])
  IN  after[Len(frames)]

\* From the firewall through the switch, the projection and the queues to the
\* browsers.  What a client has rendered and what is left in its queue come to
\* what the dashboard shows, unless a frame was dropped: no update falls between
\* the snapshot and the subscription, and none is applied out of order.  And
\* under the premises of StateTellsTruth (one operator at a time, a policy that
\* can be restored, nothing cut short where the policy is set), a server started
\* with execution enabled shows an engaged switch exactly when the policy drops.
BrowserTellsTruth ==
  \A c \in Clients : socket[c] = "on" /\ c \notin lost =>
    LET seen == Seen(view[c], inbox[c]) IN
    /\ seen = shown
    /\ OneAtATime /\ AtRest /\ ~cut => (seen.killswitch /\ live <=> policy = "drop")
=============================================================================
