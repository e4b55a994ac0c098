------------------------------- MODULE WebApp -------------------------------
(***************************************************************************)
(* The page of the web application: the connect screen and the toolbar     *)
(* (apps/web/src/App.svelte), connect() (lib/connection.ts) and the Web    *)
(* Serial transport under it.  The page shows one connection or the        *)
(* connect screen, but the ports behind the connections open and close in  *)
(* their own time.                                                         *)
(***************************************************************************)
EXTENDS Naturals, FiniteSets

CONSTANTS
  Connections,   \* bound: calls of connect()
  NoConnection   \* `connection === undefined`

ASSUME ConnectionsAssumption == NoConnection \notin Connections

VARIABLES
  link,        \* link[c]: "none", or how far the transport of c is
  protocol,    \* protocol[c]: the kind of c
  shown,       \* the `connection` of App.svelte
  active,      \* config.active, which is kept in the browser's storage
  modes,       \* modes[c]: the twins of c are in active mode
  lost,        \* connections whose device has been unplugged
  hurried      \* history: connections disconnected again while closing

web == <<link, protocol, shown, active, modes, lost, hurried>>

WebTypeOK ==
  /\ link \in [Connections -> {"none", "opening", "open", "closing", "closed"}]
  /\ protocol \in [Connections -> {"ikbus", "dbus"}]
  /\ shown \in Connections \cup {NoConnection}
  /\ active \in BOOLEAN
  /\ modes \in [Connections -> BOOLEAN]
  /\ lost \cup hurried \subseteq Connections
  /\ \A c \in Connections : shown = c => link[c] \in {"open", "closing"}

WebInit ==
  /\ link = [c \in Connections |-> "none"]
  /\ protocol = [c \in Connections |-> "ikbus"]
  /\ shown = NoConnection
  /\ active \in BOOLEAN
  /\ modes = [c \in Connections |-> FALSE]
  /\ lost = {}
  /\ hurried = {}

-----------------------------------------------------------------------------
\* The connect screen is there when nothing is shown; its button is disabled
\* while a port opens.
Connect(c, p) ==
  /\ shown = NoConnection
  /\ link[c] = "none"
  /\ \A d \in Connections : link[d] # "opening"
  /\ link' = [link EXCEPT ![c] = "opening"]
  /\ protocol' = [protocol EXCEPT ![c] = p]
  /\ UNCHANGED <<shown, active, modes, lost, hurried>>

\* A bug: the twins keep the mode they are created with.
Unarmed(c) == FALSE

ModeAtStart(c) == active /\ protocol[c] = "ikbus"

\* A bug: the page does not keep what connect() returns.
Discarded(c) == shown

Kept(c) == c

Opened(c) ==
  /\ link[c] = "opening"
  /\ link' = [link EXCEPT ![c] = "open"]
  /\ shown' = Kept(c)
  /\ modes' = [modes EXCEPT ![c] = ModeAtStart(c)]
  /\ UNCHANGED <<protocol, active, lost, hurried>>

OpenFailed(c) ==
  /\ link[c] = "opening"
  /\ link' = [link EXCEPT ![c] = "closed"]
  /\ UNCHANGED <<protocol, shown, active, modes, lost, hurried>>

\* The read loop ends with an 'error', which is logged; the transport stays
\* `opened` and emits no 'close'.
Unplugged(c) ==
  /\ link[c] = "open"
  /\ c \notin lost
  /\ lost' = lost \cup {c}
  /\ UNCHANGED <<link, protocol, shown, active, modes, hurried>>

\* handleDisconnect() up to its await.
Disconnect ==
  /\ shown # NoConnection
  /\ link[shown] = "open"
  /\ link' = [link EXCEPT ![shown] = "closing"]
  /\ UNCHANGED <<protocol, shown, active, modes, lost, hurried>>

\* Pressed again, close() returns at once: the transport is not `opened`.
DisconnectAgain ==
  /\ shown # NoConnection
  /\ link[shown] = "closing"
  /\ shown' = NoConnection
  /\ hurried' = hurried \cup {shown}
  /\ UNCHANGED <<link, protocol, active, modes, lost>>

\* A bug: the 'close' event is not listened to, nor the end of close().
StillShown(c) == shown

ShownAfterClose(c) == NoConnection

\* The 'close' event and the end of handleDisconnect(): neither looks at which
\* connection is shown by now.
Closed(c) ==
  /\ link[c] = "closing"
  /\ link' = [link EXCEPT ![c] = "closed"]
  /\ shown' = ShownAfterClose(c)
  /\ UNCHANGED <<protocol, active, modes, lost, hurried>>

\* The twins of a D-bus connection have no mode.
ModesAfterToggle(on) ==
  [modes EXCEPT ![shown] = on /\ protocol[shown] = "ikbus"]

ToggleActive ==
  /\ shown # NoConnection
  /\ active' = ~active
  /\ modes' = ModesAfterToggle(~active)
  /\ UNCHANGED <<link, protocol, shown, lost, hurried>>

\* The browser closes the ports of a page that is reloaded.
Reload ==
  /\ \E c \in Connections : link[c] \in {"opening", "open", "closing"}
  /\ link' = [c \in Connections |->
               IF link[c] = "none" THEN "none" ELSE "closed"]
  /\ shown' = NoConnection
  /\ UNCHANGED <<protocol, active, modes, lost, hurried>>

WebNext ==
  \/ \E c \in Connections :
       \/ \E p \in {"ikbus", "dbus"} : Connect(c, p)
       \/ Opened(c) \/ OpenFailed(c) \/ Unplugged(c) \/ Closed(c)
  \/ Disconnect \/ DisconnectAgain
  \/ ToggleActive
  \/ Reload

\* The browser settles what it was asked for.
WebFairness ==
  \A c \in Connections : WF_web(Opened(c) \/ OpenFailed(c)) /\ WF_web(Closed(c))

WebFairSpec == WebInit /\ [][WebNext]_web /\ WebFairness

-----------------------------------------------------------------------------
(***************************************************************************)
(* Properties.                                                             *)
(***************************************************************************)

\* An open port has its toolbar, and so a way to close it: only a connection
\* that was disconnected twice can take the page from another one, by the late
\* 'close' event of its transport (App.svelte:53-61).
NoOrphanPort ==
  \A c \in Connections : link[c] = "open" => shown = c \/ hurried # {}

\* The switch and the twins agree: nothing is sent as another module while the
\* page says passive (App.svelte:66-68, 87-92), whichever connection the switch
\* was set in and whatever reload came between.
PassiveMeansPassive ==
  \A c \in Connections :
    (link[c] = "open" /\ protocol[c] = "ikbus") =>
      modes[c] = active \/ (shown # c /\ hurried # {})

\* Disconnect ends on the connect screen, or on another connection.
DisconnectEnds == \A c \in Connections : link[c] = "closing" ~> shown # c

\* "Called on transport close (USB unplug, manual close, etc.)" (lib/
\* connection.ts:45): a connection whose device is gone is not shown for ever.
UnplugIsNoticed == \A c \in Connections : c \in lost ~> shown # c

=============================================================================
