------------------------------- MODULE Panels -------------------------------
(***************************************************************************)
(* What the user works with: the command bar of the web application        *)
(* (CommandBar.svelte, hex.ts), the log that both shells show (App.svelte, *)
(* tui/bus.ts, log.ts) and the selection of the terminal UI (App.tsx).     *)
(***************************************************************************)
EXTENDS Integers, Sequences

CONSTANTS
  Texts,         \* bound: what is typed, a sequence of tokens
  IsByte,        \* IsByte[t]: token t is one or two hexadecimal digits
  MaxSends,      \* bound: frames sent
  LogCapacity,   \* LOG_CAPACITY: 300 and 200
  MaxEntries,    \* bound: log entries
  Controls       \* the controls of each device, in order: the ones with
                 \* parameters, the ones gated and the free ones

ASSUME LogCapacityAssumption == LogCapacity \in Nat \ {0, 1}
ASSUME MaxEntriesAssumption == MaxEntries \in Nat
ASSUME TextsAssumption ==
  <<>> \in Texts /\ \A t \in Texts : t \in Seq(DOMAIN IsByte)
ASSUME ControlsAssumption ==
  Controls # <<>> /\ Controls \in Seq(Seq({"params", "gated", "free"}))

VARIABLES
  text,        \* the input of each mode of the bar
  sends,       \* sends whose write is awaited: their mode and text
  frames,      \* history: the frames written, as modes and byte counts
  typed,       \* history: modes typed in while a send was awaited
  log,         \* the entries shown, named by their numbers
  entries,     \* history: entries appended
  device, control, focus,   \* the selection
  armed,       \* the switch of the terminal UI
  twinModes,   \* are the twins in active mode
  invoked      \* history: the control invoked last, and was the UI armed

panels == <<text, sends, frames, typed, log, entries, device, control, focus,
            armed, twinModes, invoked>>

Modes == {"raw", "build"}
NothingInvoked == [kind |-> "none", armed |-> FALSE]

PanelsTypeOK ==
  /\ text \in [Modes -> Texts]
  /\ typed \subseteq Modes
  /\ entries \in 0..MaxEntries
  /\ device \in DOMAIN Controls
  /\ focus \in {"devices", "controls"}
  /\ armed \in BOOLEAN /\ twinModes \in BOOLEAN
  /\ invoked \in [kind : {"none", "params", "gated", "free"}, armed : BOOLEAN]

PanelsInit ==
  /\ text = [m \in Modes |-> <<>>]
  /\ sends = <<>> /\ frames = <<>> /\ typed = {}
  /\ log = <<>> /\ entries = 0
  /\ device = 1 /\ control = 1 /\ focus = "devices"
  /\ armed = FALSE /\ twinModes = FALSE
  /\ invoked = NothingInvoked

bar       == <<text, sends, frames, typed>>
logged    == <<log, entries>>
selection == <<device, control, focus, armed, twinModes, invoked>>

-----------------------------------------------------------------------------
(***************************************************************************)
(* The log.                                                                *)
(***************************************************************************)

\* appendLog().
AppendLog(s, n) ==
  Append(IF Len(s) >= LogCapacity THEN SubSeq(s, Len(s) - LogCapacity + 2, Len(s))
         ELSE s, n)

Note ==
  /\ entries < MaxEntries
  /\ entries' = entries + 1
  /\ log' = AppendLog(log, entries')

-----------------------------------------------------------------------------
(***************************************************************************)
(* The command bar.                                                        *)
(***************************************************************************)

\* parseHex(): some tokens, each a byte.
Parses(t) == t # <<>> /\ \A i \in DOMAIN t : IsByte[t[i]]

LongEnough(m, t) == m = "raw" => Len(t) >= 3

Payload(m, t) == IF m = "raw" THEN Len(t) - 2 ELSE Len(t)

Type(m, t) ==
  /\ t # text[m]
  /\ text' = [text EXCEPT ![m] = t]
  /\ typed' = IF \E i \in DOMAIN sends : sends[i].mode = m
              THEN typed \cup {m} ELSE typed
  /\ UNCHANGED <<sends, frames, logged, selection>>

\* sendRaw() and sendBuild() up to the await.
Press(m) ==
  /\ \/ /\ Parses(text[m]) /\ LongEnough(m, text[m])
        /\ Len(frames) < MaxSends
        /\ sends' = Append(sends, [mode |-> m, text |-> text[m]])
        /\ frames' = Append(frames, Payload(m, text[m]))
        /\ UNCHANGED logged
     \/ /\ ~(Parses(text[m]) /\ LongEnough(m, text[m]))
        /\ Note
        /\ UNCHANGED <<sends, frames>>
  /\ UNCHANGED <<text, typed, selection>>

\* A bug: both inputs are emptied.
EmptyBoth(m) == [n \in Modes |-> <<>>]

Emptied(m) == [text EXCEPT ![m] = <<>>]

\* The write is done: the input is emptied, whatever it holds by now.
SendDone ==
  /\ sends # <<>>
  /\ text' = Emptied(Head(sends).mode)
  /\ sends' = Tail(sends)
  /\ typed' = typed \ {Head(sends).mode}
  /\ UNCHANGED <<frames, logged, selection>>

SendFailed ==
  /\ sends # <<>>
  /\ sends' = Tail(sends)
  /\ Note
  /\ UNCHANGED <<text, frames, typed, selection>>

-----------------------------------------------------------------------------
(***************************************************************************)
(* The selection; indices start at 1 here.                                 *)
(***************************************************************************)
Least(a, b) == IF a < b THEN a ELSE b
Most(a, b)  == IF a > b THEN a ELSE b

Tab ==
  /\ focus' = IF focus = "devices" THEN "controls" ELSE "devices"
  /\ UNCHANGED <<bar, logged, device, control, armed, twinModes, invoked>>

\* A bug: the other device's control stays selected.
SameControl == UNCHANGED control

FirstControl == control' = 1

SelectDevice ==
  /\ focus = "devices"
  /\ device' \in {Most(1, device - 1), Least(Len(Controls), device + 1)}
  /\ FirstControl
  /\ UNCHANGED <<bar, logged, focus, armed, twinModes, invoked>>

\* On a device without controls "down" leaves the list: index -1 in the code.
SelectControl ==
  /\ focus = "controls"
  /\ control' \in {Most(1, control - 1), Least(Len(Controls[device]), control + 1)}
  /\ UNCHANGED <<bar, logged, device, focus, armed, twinModes, invoked>>

Arm ==
  /\ armed' = ~armed
  /\ twinModes' = ~armed
  /\ UNCHANGED <<bar, logged, device, control, focus, invoked>>

Allowed(kind) == kind = "free" \/ (kind = "gated" /\ armed)

\* invokeSelectedControl().
Invoke ==
  /\ focus = "controls"
  /\ control \in DOMAIN Controls[device]
  /\ Allowed(Controls[device][control])
  /\ invoked' = [kind |-> Controls[device][control], armed |-> twinModes]
  /\ UNCHANGED <<bar, logged, device, control, focus, armed, twinModes>>

BarNext ==
  \/ \E m \in Modes : Press(m) \/ \E t \in Texts : Type(m, t)
  \/ SendDone \/ SendFailed

SelectionNext == Tab \/ SelectDevice \/ SelectControl \/ Arm \/ Invoke

PanelsNext == BarNext \/ SelectionNext

PanelsSpec == PanelsInit /\ [][PanelsNext]_panels

-----------------------------------------------------------------------------
(***************************************************************************)
(* Properties.                                                             *)
(***************************************************************************)

\* "need at least SRC DST PAYLOAD" (CommandBar.svelte:35-38, 56-59): no frame
\* leaves without a command byte, in either mode.
FramesHaveCommands == \A i \in DOMAIN frames : frames[i] >= 1

\* The input is emptied only of what was sent: what is in it was sent, unless it
\* was typed in while the send was awaited (CommandBar.svelte:43-44, 61-67).
OnlySentIsErased ==
  [][ \A m \in Modes :
        (text'[m] # text[m] /\ sends # <<>> /\ sends' = Tail(sends))
          => Head(sends).mode = m /\ (text[m] = Head(sends).text \/ m \in typed)
    ]_panels

\* The log is the newest entries, in order (tui/bus.ts:93-98).
LogIsNewest ==
  /\ Len(log) = Least(entries, LogCapacity)
  /\ \A i \in DOMAIN log : log[i] = entries - Len(log) + i

\* What Enter invokes is a control the user sees selected, of the device that
\* is selected: the index is in its list unless the list is empty.
SelectionInRange ==
  Controls[device] # <<>> => control \in DOMAIN Controls[device]

\* What needs the switch ran with the twins in active mode, and what needs
\* arguments was not run (App.tsx:88-95).
GateSeesModes ==
  invoked.kind # "params" /\ (invoked.kind = "gated" => invoked.armed)

\* The panels hold what they claim to show and to do.
PanelsHold ==
  FramesHaveCommands /\ LogIsNewest /\ SelectionInRange /\ GateSeesModes

=============================================================================
