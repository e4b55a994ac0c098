-------------------------------- MODULE Cli ---------------------------------
(***************************************************************************)
(* The commands of the CLI that open a port (apps/cli/src): `monitor`,     *)
(* `invoke` and the terminal UI, each with one bus on the serial port      *)
(* (packages/transport-serial).  A process opens its bus, uses it, and is  *)
(* expected to stop it before it ends.  start() and stop() are those of    *)
(* module BusLifecycle, seen from the caller.                              *)
(***************************************************************************)
EXTENDS Naturals

VARIABLES
  command,    \* the command of this process
  stage,      \* what the process is doing
  port,       \* the serial port
  started,    \* the bus's flag
  stopper,    \* who awaits the port to close: the command itself or TuiRoot
  mounted,    \* tui: the UI is on the screen
  session,    \* tui: `openedSession` is set
  outcome,    \* invoke: did the control succeed
  error,      \* the error the process ends with
  urgent,     \* history: monitor got a signal while the port was opening, or
              \* one more while it was closing
  rejected    \* history: the close that a stop() awaited has failed

cli == <<command, stage, port, started, stopper, mounted, session, outcome,
         error, urgent, rejected>>

Stages == {"picker", "starting", "running", "invoking", "stopping", "failed",
           "exited"}

CliTypeOK ==
  /\ command \in {"monitor", "invoke", "tui"}
  /\ stage \in Stages
  /\ port \in {"closed", "opening", "open", "closing"}
  /\ started \in BOOLEAN /\ mounted \in BOOLEAN /\ session \in BOOLEAN
  /\ stopper \in {"nobody", "command", "TuiRoot"}
  /\ outcome \in {"none", "ok", "failed"}
  /\ error \in {"none", "start", "control", "stop"}
  /\ urgent \in BOOLEAN /\ rejected \in BOOLEAN
  /\ mounted => command = "tui" /\ stage \notin {"stopping", "exited"}

CliInit ==
  /\ command \in {"monitor", "invoke", "tui"}
  /\ IF command = "tui" THEN stage \in {"picker", "starting"} ELSE stage = "starting"
  /\ port = IF stage = "starting" THEN "opening" ELSE "closed"
  /\ mounted = (command = "tui")
  /\ started = FALSE /\ stopper = "nobody"
  /\ session = FALSE /\ outcome = "none" /\ error = "none"
  /\ urgent = FALSE /\ rejected = FALSE

Alive == stage # "exited"

-----------------------------------------------------------------------------
\* The user picks a port in the terminal UI.
PickPort ==
  /\ mounted /\ stage = "picker"
  /\ stage' = "starting"
  /\ port' = "opening"
  /\ UNCHANGED <<command, started, stopper, mounted, session, outcome, error,
                 urgent, rejected>>

\* stop() with the port open: it awaits the close.
AwaitClose(who) ==
  /\ port' = "closing"
  /\ stopper' = who

\* A bug: the process does not wait for the port to close.
NotAwaited == "exited"

AfterStopCall == "stopping"

\* transport.open() is done.  A terminal UI that has been left meanwhile stopper
\* the session as soon as it has it.
PortOpens ==
  /\ Alive /\ port = "opening"
  /\ started' = TRUE
  /\ session' = (command = "tui")
  /\ \/ /\ command = "tui" /\ ~mounted
        /\ AwaitClose("TuiRoot")
        /\ UNCHANGED stage
     \/ /\ command # "tui" \/ mounted
        /\ stage' = IF command = "invoke" THEN "invoking" ELSE "running"
        /\ port' = "open"
        /\ UNCHANGED stopper
  /\ UNCHANGED <<command, mounted, outcome, error, urgent, rejected>>

\* invoke and monitor end with an error; the terminal UI shows it.
PortFails ==
  /\ Alive /\ port = "opening"
  /\ port' = "closed"
  /\ IF command = "tui"
     THEN /\ stage' = IF mounted THEN "failed" ELSE stage
          /\ UNCHANGED error
     ELSE stage' = "exited" /\ error' = "start"
  /\ UNCHANGED <<command, started, stopper, mounted, session, outcome, urgent, rejected>>

\* The adapter is unplugged: 'close' resets the transport's flag, nobody else
\* listens.
Unplug ==
  /\ Alive /\ port = "open"
  /\ port' = "closed"
  /\ UNCHANGED <<command, stage, started, stopper, mounted, session, outcome,
                 error, urgent, rejected>>

-----------------------------------------------------------------------------
(***************************************************************************)
(* monitor: every signal calls stop(), and exits when it returns or throws.*)
(***************************************************************************)
SignalMonitor ==
  /\ Alive /\ command = "monitor"
  /\ \/ /\ port = "open" /\ started
        /\ AwaitClose("command")
        /\ stage' = AfterStopCall
        /\ UNCHANGED urgent
     \/ /\ port # "open"
        /\ stage' = "exited"
        /\ urgent' = (urgent \/ port # "closed")
        /\ UNCHANGED <<port, stopper>>
  /\ UNCHANGED <<command, started, mounted, session, outcome, error, rejected>>

-----------------------------------------------------------------------------
(***************************************************************************)
(* invoke: start(), the control, stop() in a finally block.                *)
(***************************************************************************)

ErrorOf(result) == IF result = "failed" THEN "control" ELSE error

\* stop() finds the port open, or closed by the unplugging.
InvokeEnds(result) ==
  /\ stage = "invoking"
  /\ port = "closed" => result = "failed"
  /\ outcome' = result
  /\ error' = ErrorOf(result)
  /\ \/ port = "open" /\ AwaitClose("command") /\ stage' = AfterStopCall
     \/ port = "closed" /\ UNCHANGED <<port, stopper>> /\ stage' = "exited"
  /\ UNCHANGED <<command, started, mounted, session, urgent, rejected>>

-----------------------------------------------------------------------------
(***************************************************************************)
(* The terminal UI.                                                        *)
(***************************************************************************)

\* A bug: the session is not stopped after the UI has been left.
NoStop == UNCHANGED <<port, stopper>>

StopSession ==
  IF session /\ port = "open"
  THEN AwaitClose("command")
  ELSE UNCHANGED <<port, stopper>>

\* `q`, Ctrl+C, or the end of the three seconds the error is shown.  launchTui()
\* stops the session it has by then.
Leave ==
  /\ mounted
  /\ mounted' = FALSE
  /\ stage' = "stopping"
  /\ StopSession
  /\ UNCHANGED <<command, started, session, outcome, error, urgent, rejected>>

\* The process ends when nothing is open or awaited.
TuiEnds ==
  /\ command = "tui" /\ stage = "stopping" /\ port = "closed"
  /\ stage' = "exited"
  /\ UNCHANGED <<command, port, started, stopper, mounted, session, outcome,
                 error, urgent, rejected>>

-----------------------------------------------------------------------------
\* The awaited close is done.
PortCloses ==
  /\ Alive /\ port = "closing"
  /\ port' = "closed"
  /\ stopper' = "nobody"
  /\ started' = FALSE
  /\ stage' = IF command = "tui" THEN stage ELSE "exited"
  /\ UNCHANGED <<command, mounted, session, outcome, error, urgent, rejected>>

\* A bug: nobody learns that stop() has failed.
StopHidden == error

\* The error of a command whose own stop() failed: a monitor exits with 0 all
\* the same.
EndsWithStop == IF command = "monitor" THEN error ELSE "stop"

\* The awaited close fails: the transport and the bus stay as they are.  The
\* error takes the place of the command's own and ends the process, but TuiRoot
\* drops it, and its process stays.
CloseFails ==
  /\ Alive /\ port = "closing"
  /\ port' = "open"
  /\ stopper' = "nobody"
  /\ rejected' = TRUE
  /\ \/ /\ stopper = "command"
        /\ error' = EndsWithStop
        /\ stage' = "exited"
     \/ stopper = "TuiRoot" /\ UNCHANGED <<error, stage>>
  /\ UNCHANGED <<command, started, mounted, session, outcome, urgent>>

CliNext ==
  \/ PickPort
  \/ PortOpens \/ PortFails \/ Unplug
  \/ SignalMonitor
  \/ \E result \in {"ok", "failed"} : InvokeEnds(result)
  \/ Leave \/ TuiEnds
  \/ PortCloses \/ CloseFails

\* The operating system opens and closes ports, the methods a control calls
\* return or throw, an error disappears after three seconds.
CliFairness ==
  /\ WF_cli(PortOpens \/ PortFails)
  /\ WF_cli(PortCloses \/ CloseFails)
  /\ WF_cli(\E result \in {"ok", "failed"} : InvokeEnds(result))
  /\ WF_cli(stage = "failed" /\ Leave)
  /\ WF_cli(TuiEnds)

CliFairSpec == CliInit /\ [][CliNext]_cli /\ CliFairness

-----------------------------------------------------------------------------
(***************************************************************************)
(* Properties.                                                             *)
(***************************************************************************)

\* An invoke that ends with 0 has done what it was asked, and one that has done
\* it ends with an error if and only if its port did not close; the terminal UI
\* ends with an error for that reason only, and a monitor never for it.
ErrorTellsOutcome ==
  /\ command = "invoke" =>
       /\ error = "stop" <=> rejected
       /\ ~rejected =>
            /\ error = "none" <=> outcome = "ok"
            /\ error = "control" <=> outcome = "failed"
  /\ command = "tui" => error = "none" \/ (error = "stop" /\ rejected)
  /\ command = "monitor" => error \in {"none", "start"}

\* A process ends with its port closed, also if the user leaves the terminal UI
\* while the port opens (TuiRoot.tsx:37-41, launch.ts:85-89): except where the
\* close itself has failed, and a monitor that is signalled while it opens or
\* closes the port (monitor.ts:100-108).  The error it ends with, and so its
\* exit code (ibusx.ts:49-53), is that of start() or of the control, or the one
\* of a stop() that failed, which hides any other (invoke.ts:97-108).
EndsClosed ==
  stage = "exited" =>
    /\ port = "closed" \/ rejected \/ (command = "monitor" /\ urgent)
    /\ ErrorTellsOutcome

\* TuiRoot has dropped the error of its stop() (TuiRoot.tsx:37-44): the port is
\* open until it is unplugged, and with it the process.
StopDropped == command = "tui" /\ stage = "stopping" /\ rejected

\* Nobody is left waiting: invoke ends in any case, and a process that has been
\* told to end does, whatever the port was doing then; except where the stop()
\* of a terminal UI that was left while the port opened has failed.
LeavingEnds ==
  /\ command = "invoke" ~> stage = "exited"
  /\ stage \in {"stopping", "failed"} ~> stage = "exited" \/ StopDropped

=============================================================================
