------------------------------ MODULE EcuTwin -------------------------------
(***************************************************************************)
(* The ECU twins (packages/dbus-devices/src/ecu.ts, dme.ts, egs.ts) on the *)
(* D-bus orchestrator, and the ECUs behind them.  A method of a twin is    *)
(* one request; when its promise is resolved the twin classifies the reply *)
(* and puts what it carries into its state.  It takes the frame it is      *)
(* given: neither the orchestrator nor the twin compares it with the       *)
(* request.                                                                *)
(*                                                                         *)
(* An ECU executes a request at any time after its bytes were sent, or     *)
(* never, and says so by a reply, positive or not.  What a reply carries   *)
(* is abstracted to the request it is the reply to.                        *)
(***************************************************************************)
EXTENDS DBus

CONSTANTS
  Ecus,        \* the addresses of the twins
  Plans        \* bound: plans, the ECU and the method of each request

\* The field of the state each method writes; clearing empties the field.
FieldOf ==
  [ readIdentification    |-> "identification",
    readFaultMemory       |-> "faultMemory",
    readFaultShadowMemory |-> "faultShadowMemory",
    clearFaultMemory      |-> "faultMemory",
    readCoding            |-> "coding",
    resetControlUnit      |-> "lastResetAt",
    terminateDiagnostic   |-> "diagnosticTerminated" ]

ASSUME PlansAssumption ==
  Plans \subseteq [Requests -> [ecu : Ecus, job : DOMAIN FieldOf]]

VARIABLES
  plan,        \* which method of which twin a request is
  done,        \* requests whose method has seen its reply
  field,       \* field[<<e, f>>]: the request whose reply is in field f of e's
               \* twin; no such pair: the field is `undefined` (or FALSE)
  executed     \* the requests the ECUs executed, oldest first, with the verdict

ecuVars == <<vars, plan, done, field, executed>>

Executed == {executed[i].for : i \in DOMAIN executed}
Reply(r) == CHOOSE x \in {executed[i] : i \in DOMAIN executed} : x.for = r

EcuTypeOK ==
  /\ TypeOK
  /\ plan \in Plans
  /\ done \in SUBSET Requests
  /\ \A p \in DOMAIN field : field[p] \in Executed
  /\ \A i, j \in DOMAIN executed : executed[i].for = executed[j].for => i = j

EcuInit ==
  /\ Init
  /\ plan \in Plans
  /\ done = {}
  /\ field = << >>
  /\ executed = <<>>

-----------------------------------------------------------------------------
(***************************************************************************)
(* The ECUs.                                                               *)
(***************************************************************************)
Execute(r) ==
  /\ r \in Sent \ Executed
  /\ \E ok \in BOOLEAN : executed' = Append(executed, [for |-> r, ok |-> ok])
  /\ UNCHANGED <<vars, plan, done, field>>

-----------------------------------------------------------------------------
(***************************************************************************)
(* The twins.                                                              *)
(***************************************************************************)

\* parseResponse(): an echo is not a positive acknowledgement.  (The first
\* form is a bug: the code is not looked at.)
AnyReply(f) == f.to = "tester"
Positive(f) == f.to = "tester" /\ Reply(f.for).ok

\* A bug: the shadow memory is kept where the fault memory is.
SharedField(r) == IF plan[r].job = "readFaultShadowMemory" THEN "faultMemory"
                  ELSE FieldOf[plan[r].job]

Field(r) == FieldOf[plan[r].job]

\* A bug: clearing leaves the list in place.
KeepList(p, r) == field

Cleared(p, r) == [q \in DOMAIN field \ {p} |-> field[q]]

\* The method goes on after its await: a negative reply throws.
Finish(r) ==
  LET p == <<plan[r].ecu, Field(r)>> IN
    /\ promise[r] = "resolved"
    /\ r \notin done
    /\ done' = done \cup {r}
    /\ field' = IF ~Positive(answer[r]) THEN field
                ELSE IF plan[r].job = "clearFaultMemory" THEN Cleared(p, r)
                ELSE [q \in DOMAIN field \cup {p} |->
                        IF q = p THEN answer[r].for ELSE field[q]]
    /\ UNCHANGED <<vars, plan, executed>>

\* Methods go on before anything else but other promise reactions runs.
Due == \E r \in Requests : promise[r] = "resolved" /\ r \notin done

BusStep ==
  /\ \/ \E r \in Requests : DrainContinue(r) \/ WriteRefused(r)
     \/ /\ ~Due
        /\ \/ \E r \in Requests :
                \/ Request(r) \/ RequestNotStarted(r)
                \/ TimerFire(r) \/ WriteDone(r) \/ WriteFail(r)
           \/ \E chunk \in Chunks :
                /\ \A i \in DOMAIN chunk :
                     chunk[i].to = "tester" => chunk[i].for \in Executed
                /\ Data(chunk)
           \/ Stop
           \/ LifecycleStep
  /\ UNCHANGED <<plan, done, field, executed>>

EcuNext ==
  \/ \E r \in Requests : Execute(r) \/ Finish(r)
  \/ BusStep

EcuSpec == EcuInit /\ [][EcuNext]_ecuVars

-----------------------------------------------------------------------------
(***************************************************************************)
(* Properties.                                                             *)
(***************************************************************************)

\* A late reply may have resolved another request.
Mixed == \E r \in Requests : Abandoned(r)

\* "Most recent successful 0x04 read-fault-memory reply" and so on (ecu.ts
\* :27-40): a field holds the reply to a request of its own kind, to its own
\* ECU and positive, unless an answer may have gone astray.
FieldsHoldTheirReplies ==
  Mixed \/ \A p \in DOMAIN field :
             /\ plan[field[p]].ecu = p[1]
             /\ FieldOf[plan[field[p]].job] = p[2]
             /\ plan[field[p]].job # "clearFaultMemory"
             /\ Reply(field[p]).ok

ExecutedAt(r) == CHOOSE i \in DOMAIN executed : executed[i].for = r

\* The fault list a twin shows is not older than a clearing it knows of
\* (ecu.ts:155): the ECU executed no clearing that has returned after the read.
ListSurvivesNoClearing ==
  Mixed \/ \A e \in Ecus : <<e, "faultMemory">> \in DOMAIN field =>
             \A c \in done :
               ( plan[c] = [ecu |-> e, job |-> "clearFaultMemory"]
                 /\ promise[c] = "resolved" /\ Positive(answer[c]) )
                 => ExecutedAt(c) < ExecutedAt(field[<<e, "faultMemory">>])

\* The twin forgets faults only if the ECU did: a list that disappears was
\* cleared by a request the ECU executed.
ForgetsWhatIsCleared ==
  [][ \A e \in Ecus :
        ( <<e, "faultMemory">> \in DOMAIN field \ DOMAIN field' /\ ~Mixed )
          => \E i \in DOMAIN executed :
               executed[i].ok /\ plan[executed[i].for]
                                   = [ecu |-> e, job |-> "clearFaultMemory"]
    ]_ecuVars

=============================================================================
