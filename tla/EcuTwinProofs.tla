---------------------------- MODULE EcuTwinProofs ----------------------------
(***************************************************************************)
(* Theorems about EcuTwin for every set of requests and ECUs, every plan,  *)
(* either kind of transport and chunks of any length.  A step of the twins *)
(* is a step of the orchestrator or none, so that what DBusProofs shows    *)
(* invariant holds here too.                                               *)
(***************************************************************************)
EXTENDS EcuTwin, DBusProofs

\* What the theorems about the orchestrator rest on.
BusInv == RInv /\ AnswerInv /\ MatchInv

Resolved == {r \in Requests : promise[r] = "resolved"}

\* A reply is to a request that was executed, once and after its bytes were
\* sent; a method that has seen its reply was resolved; a field holds a reply.
EcuInv ==
  /\ executed \in Seq([for : Requests, ok : BOOLEAN])
  /\ \A i, j \in DOMAIN executed : executed[i].for = executed[j].for => i = j
  /\ Executed \subseteq Sent
  /\ replied \subseteq Executed
  /\ plan \in Plans
  /\ done \subseteq Resolved
  /\ \A p \in DOMAIN field : field[p] \in Executed

\* As long as nobody was given up: requests are resolved in the order the ECUs
\* execute them, and a method has seen its reply before the next request is
\* resolved.
OrderInv ==
  \/ Mixed
  \/ /\ \A r \in Executed \ Resolved, s \in Resolved :
          ExecutedAt(s) < ExecutedAt(r)
     /\ \A r \in Resolved \ done, s \in done : ExecutedAt(s) < ExecutedAt(r)
     /\ \A r, s \in Resolved \ done : r = s

TwinInv == BusInv /\ EcuInv /\ OrderInv

-----------------------------------------------------------------------------
(***************************************************************************)
(* The orchestrator's part.                                                *)
(***************************************************************************)

\* The twins and the ECUs leave the orchestrator alone.
LEMMA BusSteps ==
  ASSUME [EcuNext]_ecuVars
  PROVE  [Next]_vars
<1>1. CASE \E r \in Requests : Execute(r) \/ Finish(r)
  BY <1>1 DEF Execute, Finish
<1>2. CASE BusStep
  BY <1>2 DEF BusStep, Next
<1>3. CASE UNCHANGED ecuVars
  BY <1>3 DEF ecuVars
<1> QED
  BY <1>1, <1>2, <1>3 DEF EcuNext

\* The orchestrator's invariants hold at first and are kept.
LEMMA BusInitInv == Init => BusInv
BY InitInv, InitWritten DEF BusInv, RInv, Init, AnswerInv, MatchInv, Sent

LEMMA BusStepInv ==
  ASSUME BusInv, [Next]_vars
  PROVE  BusInv'
BY NextInv, WrittenStep, AnswerStep, MatchStep DEF BusInv, RInv

\* Bytes that went out stay out.
LEMMA SentForGood ==
  ASSUME BusInv, [Next]_vars
  PROVE  Sent \subseteq Sent'
<1> SUFFICES ASSUME NEW x \in Sent, x \notin Sent' PROVE FALSE
  OBVIOUS
<1>1. SentServed
  BY StepServes DEF BusInv, RInv
<1>2. /\ promise[x] \notin Outcomes /\ x \in Requests
      /\ \/ awaited = {}
         \/ \E r \in awaited : awaited = {r} /\ promise[r] \in Outcomes
  BY <1>1 DEF SentServed, SendsOnly, Sent
<1>3. x \notin awaited
  BY <1>2
<1>4. promise[x] = "unsettled" /\ write[x] # "unsent"
  BY <1>2 DEF BusInv, RInv, IInv, TypeOK, NewIsUnwritten, Sent
<1> QED
  BY <1>2, <1>3, <1>4 DEF BusInv, RInv, WrittenIsServed

\* Once an answer may have gone astray, one may have.
LEMMA MixedForGood ==
  ASSUME BusInv, [Next]_vars, Mixed
  PROVE  Mixed'
BY AbandonedForGood DEF BusInv, RInv, Mixed

\* A resolved request stays resolved, with its answer.
LEMMA ResolvedForGood ==
  ASSUME BusInv, [Next]_vars
  PROVE  Resolved \subseteq Resolved'
BY StepKeepsPromises DEF BusInv, RInv, PromisesKept, Resolved, Outcomes

LEMMA AnsweredForGood ==
  ASSUME BusInv, [Next]_vars, NEW r \in Resolved
  PROVE  answer'[r] = answer[r]
<1>1. CASE ~(\E chunk \in Chunks : Data(chunk))
  BY <1>1, OnlyDataAnswers DEF NoNewAnswer, BusInv, RInv
<1>2. ASSUME NEW chunk \in Chunks, Data(chunk) PROVE answer'[r] = answer[r]
  <2>1. pending # r
    BY Constants DEF Resolved, BusInv, RInv, IInv, PendingIsServed
  <2> QED
    <3>1. \/ answer' = answer
          \/ \E f \in Frames : answer' = [answer EXCEPT ![pending] = f]
      BY <1>2, DataAnswers DEF BusInv, RInv
    <3> QED
      BY <2>1, <3>1 DEF BusInv, RInv, IInv, TypeOK, Resolved
<1> QED
  BY <1>1, <1>2

\* Unless an answer may have gone astray, it is the reply to the request, and
\* a request whose bytes are out is resolved or the one awaited.
LEMMA OwnAnswers ==
  ASSUME BusInv, ~Mixed
  PROVE  \A r \in Requests :
           /\ r \in Resolved => answer[r].for = r /\ answer[r].to = "tester"
           /\ r \in Sent => r \in Resolved \/ r \in awaited
BY DEF BusInv, MatchInv, AnswerInv, Mixed, Resolved

-----------------------------------------------------------------------------
(***************************************************************************)
(* What the ECUs executed.                                                 *)
(***************************************************************************)

\* In a list that names no request twice, an entry and its place are what
\* CHOOSE finds for its request.
LEMMA Named ==
  ASSUME NEW e, NEW i \in DOMAIN e,
         \A j, k \in DOMAIN e : e[j].for = e[k].for => j = k
  PROVE  /\ (CHOOSE x \in {e[j] : j \in DOMAIN e} : x.for = e[i].for) = e[i]
         /\ (CHOOSE j \in DOMAIN e : e[j].for = e[i].for) = i
<1>1. \A j \in DOMAIN e : e[j].for = e[i].for <=> j = i
  OBVIOUS
<1>2. \A x \in {e[j] : j \in DOMAIN e} : x.for = e[i].for <=> x = e[i]
  BY <1>1
<1>3. e[i] \in {e[j] : j \in DOMAIN e}
  OBVIOUS
<1> QED
  BY <1>1, <1>2, <1>3

\* The reply to an executed request, and the place of the request.
LEMMA Entry ==
  ASSUME EcuInv, NEW i \in DOMAIN executed
  PROVE  Reply(executed[i].for) = executed[i] /\ ExecutedAt(executed[i].for) = i
BY Named DEF EcuInv, Reply, ExecutedAt

LEMMA EntryNext ==
  ASSUME EcuInv', NEW i \in DOMAIN executed', NEW r, executed'[i].for = r
  PROVE  Reply(r)' = executed'[i] /\ ExecutedAt(r)' = i
<1>1. /\ Reply(r)' = CHOOSE x \in {executed'[j] : j \in DOMAIN executed'} :
                        x.for = executed'[i].for
      /\ ExecutedAt(r)' = CHOOSE j \in DOMAIN executed' :
                            executed'[j].for = executed'[i].for
  BY DEF Reply, ExecutedAt
<1>2. \A j, k \in DOMAIN executed' : executed'[j].for = executed'[k].for => j = k
  BY DEF EcuInv
<1> QED
  BY <1>1, <1>2, Named

LEMMA Places ==
  ASSUME EcuInv, NEW r \in Executed
  PROVE  ExecutedAt(r) \in 1..Len(executed)
<1>1. PICK i \in DOMAIN executed : executed[i].for = r
  BY DEF Executed
<1> QED
  BY <1>1, Entry DEF EcuInv

\* A step of the ECUs adds the request at the end of what was executed.
LEMMA ExecuteAdds ==
  ASSUME EcuInv, NEW r \in Requests, Execute(r)
  PROVE  /\ executed' \in Seq([for : Requests, ok : BOOLEAN])
         /\ Len(executed') = Len(executed) + 1
         /\ executed'[Len(executed')].for = r
         /\ \A i \in 1..Len(executed) : executed'[i] = executed[i]
<1>1. PICK ok \in BOOLEAN : executed' = Append(executed, [for |-> r, ok |-> ok])
  BY DEF Execute
<1> DEFINE entry == [for |-> r, ok |-> ok]
<1>2. entry \in [for : Requests, ok : BOOLEAN] /\ entry.for = r
  OBVIOUS
<1>3. executed' = Append(executed, entry) /\ executed \in Seq([for : Requests, ok : BOOLEAN])
  BY <1>1 DEF EcuInv
<1> HIDE DEF entry
<1> QED
  BY <1>2, <1>3

\* What was executed keeps its reply and its place.
KeepsReplies ==
  /\ Executed \subseteq Executed'
  /\ \A r \in Executed : Reply(r)' = Reply(r) /\ ExecutedAt(r)' = ExecutedAt(r)

LEMMA RepliesKept ==
  ASSUME EcuInv, EcuInv', [EcuNext]_ecuVars
  PROVE  KeepsReplies
<1>1. \/ executed' = executed
      \/ \A i \in DOMAIN executed : i \in DOMAIN executed' /\ executed'[i] = executed[i]
  <2>1. ASSUME NEW r \in Requests, Execute(r)
        PROVE  \A i \in DOMAIN executed : i \in DOMAIN executed' /\ executed'[i] = executed[i]
    BY <2>1, ExecuteAdds DEF EcuInv
  <2> QED
    BY <2>1 DEF EcuNext, Finish, BusStep, ecuVars
<1>2. ASSUME NEW r \in Executed
      PROVE  r \in Executed' /\ Reply(r)' = Reply(r) /\ ExecutedAt(r)' = ExecutedAt(r)
  <2>1. PICK i \in DOMAIN executed : executed[i].for = r
    BY DEF Executed
  <2>2. i \in DOMAIN executed' /\ executed'[i] = executed[i]
    BY <1>1
  <2>3. r \in Executed'
    BY <2>1, <2>2 DEF Executed
  <2> QED
    BY <2>1, <2>2, <2>3, Entry, EntryNext
<1> QED
  BY <1>2 DEF KeepsReplies

-----------------------------------------------------------------------------
(***************************************************************************)
(* The invariants of the twins.                                            *)
(***************************************************************************)

\* The chunk of a step of the bus carries replies of executed requests only.
LEMMA BusReplies ==
  ASSUME EcuInv, BusInv, BusStep
  PROVE  replied' \subseteq Executed
<1>1. CASE ~(\E chunk \in Chunks : Data(chunk))
  BY <1>1, BusSteps, OnlyDataAnswers
     DEF BusInv, RInv, NoNewAnswer, EcuInv, EcuNext
<1>2. CASE \E chunk \in Chunks :
             /\ \A i \in DOMAIN chunk :
                  chunk[i].to = "tester" => chunk[i].for \in Executed
             /\ Data(chunk)
  BY <1>2 DEF Data, EcuInv
<1>3. CASE UNCHANGED replied
  BY <1>3 DEF EcuInv
<1> QED
  BY <1>1, <1>2, <1>3
     DEF BusStep, Request, RequestNotStarted, DrainContinue, TimerFire, WriteDone,
         WriteRefused, WriteFail, Stop, LifecycleStep, requestVars

\* Every step keeps what is known of replies and fields.
LEMMA EcuStep ==
  ASSUME EcuInv, BusInv, [EcuNext]_ecuVars
  PROVE  EcuInv'
<1>1. [Next]_vars /\ Sent \subseteq Sent' /\ Resolved \subseteq Resolved'
  BY BusSteps, SentForGood, ResolvedForGood
<1>2. ASSUME NEW r \in Requests, Execute(r) PROVE EcuInv'
  <2>1. /\ executed' \in Seq([for : Requests, ok : BOOLEAN])
        /\ Len(executed') = Len(executed) + 1
        /\ executed'[Len(executed')].for = r
        /\ \A i \in 1..Len(executed) : executed'[i] = executed[i]
        /\ executed \in Seq([for : Requests, ok : BOOLEAN])
    BY <1>2, ExecuteAdds DEF EcuInv
  <2>2. /\ r \in Sent \ Executed
        /\ UNCHANGED <<replied, plan, done, field>>
        /\ Sent' = Sent /\ Resolved' = Resolved
    BY <1>2 DEF Execute, vars, requestVars, Sent, Resolved
  <2>3. DOMAIN executed' = DOMAIN executed \cup {Len(executed')}
    BY <2>1
  <2>4. Executed' = Executed \cup {r}
    BY <2>1, <2>3 DEF Executed
  <2>5. ASSUME NEW i \in DOMAIN executed', NEW j \in DOMAIN executed',
               executed'[i].for = executed'[j].for
        PROVE  i = j
    BY <2>1, <2>2, <2>3, <2>5 DEF EcuInv, Executed
  <2> QED
    BY <2>1, <2>2, <2>4, <2>5 DEF EcuInv
<1>3. ASSUME NEW r \in Requests, Finish(r) PROVE EcuInv'
  <2>1. /\ UNCHANGED <<replied, plan, executed>> /\ Sent' = Sent
        /\ Resolved' = Resolved /\ Executed' = Executed
        /\ done' = done \cup {r} /\ r \in Resolved
    BY <1>3 DEF Finish, vars, requestVars, Sent, Resolved, Executed
  <2>2. answer[r].for \in Executed
    BY <2>1 DEF BusInv, AnswerInv, EcuInv, Resolved
  <2>3. \A p \in DOMAIN field' : field'[p] \in Executed
    BY <1>3, <2>2 DEF Finish, Cleared, EcuInv
  <2> QED
    BY <2>1, <2>3 DEF EcuInv
<1>4. CASE BusStep
  <2>1. UNCHANGED <<plan, done, field, executed>> /\ Executed' = Executed
    BY <1>4 DEF BusStep, Executed
  <2>2. replied' \subseteq Executed
    BY <1>4, BusReplies
  <2> QED
    BY <1>1, <2>1, <2>2 DEF EcuInv
<1>5. CASE UNCHANGED ecuVars
  BY <1>5 DEF ecuVars, vars, requestVars, EcuInv, Executed, Resolved, Sent
<1> QED
  BY <1>2, <1>3, <1>4, <1>5 DEF EcuNext

\* Whoever is resolved was executed, unless an answer may have gone astray.
LEMMA ResolvedWasExecuted ==
  ASSUME EcuInv, BusInv, ~Mixed
  PROVE  Resolved \subseteq Executed
BY OwnAnswers DEF BusInv, AnswerInv, EcuInv, Resolved

\* The request of which a chunk brings the reply is the one in the slot, and
\* no other request is executed and not resolved.
LEMMA DataResolves ==
  ASSUME EcuInv, EcuInv', BusInv, BusInv', BusStep, ~Mixed, ~Mixed',
         Resolved' # Resolved
  PROVE  /\ Resolved \subseteq done
         /\ \E r \in Executed \ Resolved :
              Resolved' = Resolved \cup {r} /\ Executed \subseteq Resolved'
<1>1. [Next]_vars /\ Resolved \subseteq Resolved' /\ Executed' = Executed
  BY BusSteps, ResolvedForGood DEF EcuNext, BusStep, Executed
<1>2. \E chunk \in Chunks : Data(chunk)
  BY <1>1, OnlyDataAnswers DEF NoNewAnswer, BusInv, RInv, Resolved
<1>3. PICK chunk \in Chunks : Data(chunk)
  BY <1>2
<1>4. promise' # promise
  BY DEF Resolved
<1>5. /\ pending \in Requests
      /\ promise' = [promise EXCEPT ![pending] = "resolved"]
  BY <1>3, <1>4, DataAnswers DEF BusInv, RInv
<1>6. pending \in awaited /\ promise[pending] = "unsettled"
  BY <1>5, Constants DEF BusInv, RInv, IInv, PendingIsServed
<1>7. Resolved' = Resolved \cup {pending} /\ pending \notin Resolved
  BY <1>5, <1>6 DEF Resolved, BusInv, RInv, IInv, TypeOK
<1>8. pending \in Executed
  <2>1. promise'[pending] = "resolved"
    BY <1>7 DEF Resolved
  <2>2. answer'[pending].for = pending
    BY <1>5, <2>1 DEF BusInv, MatchInv, Mixed
  <2>3. answer'[pending].for \in replied'
    BY <1>5, <2>1 DEF BusInv, AnswerInv
  <2> QED
    BY <1>1, <2>2, <2>3 DEF EcuInv
<1>9. ASSUME NEW x \in Executed \ Resolved PROVE x = pending
  <2>1. x \in Sent /\ x \in Requests
    BY DEF EcuInv, Sent
  <2>2. x \in awaited
    BY <2>1, OwnAnswers
  <2> QED
    BY <1>6, <2>2 DEF BusInv, RInv, IInv, OneAwaited
<1>10. ~Due
  <2>1. ASSUME NEW r \in Requests, DrainContinue(r) \/ WriteRefused(r)
        PROVE  Resolved' = Resolved
    BY <2>1 DEF DrainContinue, WriteRefused, FailWrite, SlotEmpty, Settle,
                Resolved, BusInv, RInv, IInv, TypeOK
  <2> QED
    BY <2>1 DEF BusStep
<1>11. Resolved \subseteq done
  BY <1>10 DEF Due, Resolved
<1> QED
  BY <1>7, <1>8, <1>9, <1>11

\* Every step keeps requests resolved in the order they are executed.
LEMMA OrderStep ==
  ASSUME EcuInv, EcuInv', BusInv, BusInv', OrderInv, [EcuNext]_ecuVars
  PROVE  OrderInv'
<1>1. CASE Mixed'
  BY <1>1 DEF OrderInv
<1>2. CASE ~Mixed'
  <2>1. ~Mixed
    BY <1>2, BusSteps, MixedForGood
  <2>2. /\ \A r \in Executed \ Resolved, s \in Resolved :
             ExecutedAt(s) < ExecutedAt(r)
        /\ \A r \in Resolved \ done, s \in done : ExecutedAt(s) < ExecutedAt(r)
        /\ \A r, s \in Resolved \ done : r = s
        /\ Resolved \subseteq Executed /\ done \subseteq Resolved
    BY <2>1, ResolvedWasExecuted DEF OrderInv, EcuInv
  <2>3. KeepsReplies
    BY RepliesKept
  <2>4. ASSUME NEW r \in Requests, Execute(r) PROVE OrderInv'
    <3>1. Resolved' = Resolved /\ done' = done
      BY <2>4 DEF Execute, vars, requestVars, Resolved
    <3>2. /\ Len(executed') = Len(executed) + 1
          /\ executed'[Len(executed')].for = r
          /\ executed \in Seq([for : Requests, ok : BOOLEAN])
          /\ executed' \in Seq([for : Requests, ok : BOOLEAN])
          /\ \A i \in 1..Len(executed) : executed'[i] = executed[i]
      BY <2>4, ExecuteAdds DEF EcuInv
    <3>3. Executed' = Executed \cup {r}
      BY <3>2, SMTT(30) DEF Executed
    <3>4. ExecutedAt(r)' = Len(executed) + 1
      BY <3>2, EntryNext
    <3>5. \A s \in Executed : ExecutedAt(s)' = ExecutedAt(s) /\ ExecutedAt(s) \in 1..Len(executed)
      BY <2>3, Places DEF KeepsReplies
    <3>6. \A x \in Executed' \ Resolved', s \in Resolved' :
             ExecutedAt(s)' < ExecutedAt(x)'
      BY <2>2, <3>1, <3>2, <3>3, <3>4, <3>5
    <3>7. /\ \A x \in Resolved' \ done', s \in done' : ExecutedAt(s)' < ExecutedAt(x)'
          /\ \A x, s \in Resolved' \ done' : x = s
      BY <2>2, <3>1, <3>5
    <3> QED
      BY <3>6, <3>7 DEF OrderInv
  <2>5. ASSUME NEW r \in Requests, Finish(r) PROVE OrderInv'
    <3>1. /\ Resolved' = Resolved /\ Executed' = Executed
          /\ done' = done \cup {r} /\ r \in Resolved \ done
      BY <2>5 DEF Finish, vars, requestVars, Resolved, Executed
    <3>2. \A s \in Executed : ExecutedAt(s)' = ExecutedAt(s)
      BY <2>3 DEF KeepsReplies
    <3>3. Resolved' \ done' = {}
      BY <2>2, <3>1
    <3>4. \A x \in Executed' \ Resolved', s \in Resolved' :
             ExecutedAt(s)' < ExecutedAt(x)'
      BY <2>2, <3>1, <3>2
    <3> QED
      BY <3>3, <3>4 DEF OrderInv
  <2>6. CASE BusStep
    <3>1. done' = done /\ Executed' = Executed
      BY <2>6 DEF BusStep, Executed
    <3>2. \A s \in Executed : ExecutedAt(s)' = ExecutedAt(s)
      BY <2>3 DEF KeepsReplies
    <3>3. CASE Resolved' = Resolved
      BY <2>2, <3>1, <3>2, <3>3 DEF OrderInv
    <3>4. CASE Resolved' # Resolved
      <4>1. Resolved \subseteq done
        BY <1>2, <2>1, <2>6, <3>4, DataResolves
      <4>2. PICK r \in Executed \ Resolved :
               Resolved' = Resolved \cup {r} /\ Executed \subseteq Resolved'
        BY <1>2, <2>1, <2>6, <3>4, DataResolves
      <4>3. Executed' \ Resolved' = {} /\ Resolved' \ done' = {r}
        BY <2>2, <3>1, <4>1, <4>2
      <4>4. \A s \in done' : ExecutedAt(s)' < ExecutedAt(r)'
        BY <2>2, <3>1, <3>2, <4>2
      <4> QED
        BY <4>3, <4>4 DEF OrderInv
    <3> QED
      BY <3>3, <3>4
  <2>7. CASE UNCHANGED ecuVars
    BY <2>2, <2>7 DEF OrderInv, ecuVars, vars, requestVars, Executed, Resolved, ExecutedAt
  <2> QED
    BY <2>4, <2>5, <2>6, <2>7 DEF EcuNext
<1> QED
  BY <1>1, <1>2

-----------------------------------------------------------------------------
(***************************************************************************)
(* What the twins show.                                                    *)
(***************************************************************************)

\* What a method does to the fields with its own reply, which may be
\* negative.
Shows(r) ==
  LET p == <<plan[r].ecu, FieldOf[plan[r].job]>> IN
    IF ~Reply(r).ok THEN field' = field
    ELSE IF plan[r].job = "clearFaultMemory"
         THEN /\ DOMAIN field' = DOMAIN field \ {p}
              /\ \A q \in DOMAIN field' : field'[q] = field[q]
         ELSE /\ DOMAIN field' = DOMAIN field \cup {p}
              /\ field'[p] = r
              /\ \A q \in DOMAIN field \ {p} : field'[q] = field[q]

LEMMA FinishShows ==
  ASSUME BusInv, ~Mixed, NEW r \in Requests, Finish(r)
  PROVE  Shows(r) /\ (Positive(answer[r]) <=> Reply(r).ok)
<1>1. answer[r].for = r /\ answer[r].to = "tester"
  BY OwnAnswers DEF Finish, Resolved
<1>2. Positive(answer[r]) <=> Reply(r).ok
  BY <1>1 DEF Positive
<1> QED
  BY <1>1, <1>2 DEF Finish, Shows, Cleared, Field

\* The other steps leave every field, every plan and every reply alone.
LEMMA OthersShowNothing ==
  ASSUME EcuInv, EcuInv', [EcuNext]_ecuVars, ~(\E r \in Requests : Finish(r))
  PROVE  /\ UNCHANGED <<plan, done, field>>
         /\ KeepsReplies
<1>1. UNCHANGED <<plan, done, field>>
  BY DEF EcuNext, Execute, BusStep, ecuVars
<1> QED
  BY <1>1, RepliesKept

\* A method changes its own twin's field, with its own reply.
LEMMA FieldsStep ==
  ASSUME EcuInv, EcuInv', BusInv, FieldsHoldTheirReplies, [EcuNext]_ecuVars
  PROVE  FieldsHoldTheirReplies'
<1>1. CASE Mixed'
  BY <1>1 DEF FieldsHoldTheirReplies
<1>2. CASE ~Mixed'
  <2>1. ~Mixed
    BY <1>2, BusSteps, MixedForGood
  <2>2. \A p \in DOMAIN field :
          /\ plan[field[p]].ecu = p[1]
          /\ FieldOf[plan[field[p]].job] = p[2]
          /\ plan[field[p]].job # "clearFaultMemory"
          /\ Reply(field[p]).ok
    BY <2>1 DEF FieldsHoldTheirReplies
  <2>3. /\ \A x \in Executed : Reply(x)' = Reply(x)
        /\ \A p \in DOMAIN field : field[p] \in Executed
    BY RepliesKept DEF KeepsReplies, EcuInv
  <2>4. ASSUME NEW r \in Requests, Finish(r) PROVE FieldsHoldTheirReplies'
    <3>1. Shows(r) /\ plan' = plan
      BY <2>1, <2>4, FinishShows DEF Finish
    <3>2. r \in Executed
      BY <2>1, <2>4, ResolvedWasExecuted DEF Finish, Resolved
    <3>3. Reply(r)' = Reply(r)
      BY <3>2, RepliesKept DEF KeepsReplies
    <3>4. CASE \A q \in DOMAIN field' : q \in DOMAIN field /\ field'[q] = field[q]
      BY <2>2, <2>3, <3>1, <3>4 DEF FieldsHoldTheirReplies
    <3> DEFINE p == <<plan[r].ecu, FieldOf[plan[r].job]>>
    <3>5. CASE /\ Reply(r).ok /\ plan[r].job # "clearFaultMemory"
               /\ DOMAIN field' = DOMAIN field \cup {p}
               /\ field'[p] = r
               /\ \A q \in DOMAIN field \ {p} : field'[q] = field[q]
      <4>1. ASSUME NEW q \in DOMAIN field'
            PROVE  /\ plan'[field'[q]].ecu = q[1]
                   /\ FieldOf[plan'[field'[q]].job] = q[2]
                   /\ plan'[field'[q]].job # "clearFaultMemory"
                   /\ Reply(field[q])'.ok
        <5>1. CASE q = p
          BY <3>1, <3>3, <3>5, <5>1
        <5>2. CASE q # p
          BY <2>2, <2>3, <3>1, <3>5, <5>2
        <5> QED
          BY <5>1, <5>2
      <4> QED
        BY <4>1 DEF FieldsHoldTheirReplies
    <3> QED
      BY <3>1, <3>4, <3>5 DEF Shows
  <2>5. CASE ~(\E r \in Requests : Finish(r))
    BY <2>2, <2>3, <2>5, OthersShowNothing DEF FieldsHoldTheirReplies
  <2> QED
    BY <2>4, <2>5
<1> QED
  BY <1>1, <1>2

\* A clearing that has returned was executed before every request that is
\* resolved after it, so that a list read since then is younger.
LEMMA ListStep ==
  ASSUME EcuInv, EcuInv', BusInv, BusInv', OrderInv, ListSurvivesNoClearing,
         [EcuNext]_ecuVars
  PROVE  ListSurvivesNoClearing'
<1>1. CASE Mixed'
  BY <1>1 DEF ListSurvivesNoClearing
<1> DEFINE List(e) == <<e, "faultMemory">>
           Clears(c, e) == /\ plan[c] = [ecu |-> e, job |-> "clearFaultMemory"]
                           /\ Reply(c).ok
<1>2. CASE ~Mixed'
  <2>1. ~Mixed
    BY <1>2, BusSteps, MixedForGood
  <2>2. Resolved \subseteq Executed /\ done \subseteq Resolved
    BY <2>1, ResolvedWasExecuted DEF EcuInv
  <2>3. /\ \A c \in done : promise[c] = "resolved"
        /\ \A c \in Resolved : Positive(answer[c]) <=> Reply(c).ok
    BY <2>1, <2>2, OwnAnswers DEF Positive, Resolved
  <2>4. \A e \in Ecus : List(e) \in DOMAIN field =>
          \A c \in done : Clears(c, e) => ExecutedAt(c) < ExecutedAt(field[List(e)])
    BY <2>1, <2>3, <2>2 DEF ListSurvivesNoClearing
  <2>5. \A r \in Executed : /\ Reply(r)' = Reply(r)
                            /\ ExecutedAt(r)' = ExecutedAt(r)
    BY RepliesKept DEF KeepsReplies
  <2>6. plan' = plan
    BY DEF EcuNext, Execute, Finish, BusStep, ecuVars
  <2> SUFFICES ASSUME NEW e \in Ecus, List(e) \in DOMAIN field',
                      NEW c \in done', Clears(c, e)'
               PROVE  ExecutedAt(c)' < ExecutedAt(field[List(e)])'
    <3>1. \A c \in done' : c \in Resolved'
      BY DEF EcuInv
    <3>2. \A c \in Resolved' : answer'[c].for = c
      BY <1>2 DEF BusInv, MatchInv, Mixed, Resolved
    <3> QED
      BY <3>1, <3>2 DEF ListSurvivesNoClearing, Positive
  <2>7. ASSUME NEW r \in Requests, Finish(r)
        PROVE  ExecutedAt(c)' < ExecutedAt(field[List(e)])'
    <3>1. Shows(r) /\ done' = done \cup {r} /\ r \in Resolved \ done
      BY <2>1, <2>7, FinishShows DEF Finish, Resolved
    <3>2. c \in Executed /\ Clears(c, e)
      BY <2>2, <2>5, <2>6, <3>1
    <3>3. CASE List(e) \in DOMAIN field /\ field'[List(e)] = field[List(e)] /\ c # r
      <4>1. field[List(e)] \in Executed
        BY <3>3 DEF EcuInv
      <4> QED
        BY <2>4, <2>5, <3>1, <3>2, <3>3, <4>1
    <3>4. CASE field'[List(e)] = r /\ c # r
      <4>1. ExecutedAt(c) < ExecutedAt(r)
        BY <2>1, <3>1, <3>4 DEF OrderInv
      <4> QED
        BY <2>2, <2>5, <3>1, <3>2, <3>4, <4>1
    <3>5. c # r
      <4> SUFFICES ASSUME c = r PROVE FALSE
        OBVIOUS
      <4>1. plan[r].ecu = e /\ plan[r].job = "clearFaultMemory" /\ Reply(r).ok
        BY <3>2
      <4>2. FieldOf["clearFaultMemory"] = "faultMemory"
        BY DEF FieldOf
      <4> QED
        BY <3>1, <4>1, <4>2 DEF Shows
    <3> QED
      BY <3>1, <3>3, <3>4, <3>5 DEF Shows
  <2>8. CASE ~(\E r \in Requests : Finish(r))
    <3>1. done' = done /\ field' = field
      BY <2>8, OthersShowNothing
    <3>2. c \in Executed /\ field[List(e)] \in Executed
      BY <2>2, <3>1 DEF EcuInv
    <3>3. Clears(c, e)
      BY <2>5, <2>6, <3>2
    <3> QED
      BY <2>4, <2>5, <3>1, <3>2, <3>3
  <2> QED
    BY <2>7, <2>8
<1> QED
  BY <1>1, <1>2

\* A list disappears only when a clearing has returned with its own reply.
LEMMA ForgetStep ==
  ASSUME EcuInv, BusInv, [EcuNext]_ecuVars, ~Mixed, NEW e \in Ecus,
         <<e, "faultMemory">> \in DOMAIN field \ DOMAIN field'
  PROVE  \E i \in DOMAIN executed :
           /\ executed[i].ok
           /\ plan[executed[i].for] = [ecu |-> e, job |-> "clearFaultMemory"]
<1>1. PICK r \in Requests : Finish(r)
  BY DEF EcuNext, Execute, BusStep, ecuVars
<1>2. Shows(r)
  BY <1>1, FinishShows
<1>3. /\ Reply(r).ok /\ plan[r].job = "clearFaultMemory"
      /\ <<e, "faultMemory">> = <<plan[r].ecu, FieldOf[plan[r].job]>>
  BY <1>2 DEF Shows
<1>4. plan[r] \in [ecu : Ecus, job : DOMAIN FieldOf]
  BY PlansAssumption DEF EcuInv
<1>5. plan[r] = [ecu |-> e, job |-> "clearFaultMemory"]
  BY <1>3, <1>4
<1>6. r \in Executed
  BY <1>1, ResolvedWasExecuted DEF Finish, Resolved
<1>7. PICK i \in DOMAIN executed : executed[i].for = r
  BY <1>6 DEF Executed
<1> QED
  BY <1>3, <1>5, <1>7, Entry

-----------------------------------------------------------------------------
\* The invariants hold at first.
LEMMA EcuInitInv == EcuInit => TwinInv
<1> SUFFICES ASSUME EcuInit PROVE TwinInv
  OBVIOUS
<1>1. Executed = {} /\ Resolved = {}
  BY DEF EcuInit, Init, Executed, Resolved
<1>2. EcuInv
  BY <1>1 DEF EcuInit, Init, EcuInv
<1>3. OrderInv
  BY <1>1 DEF OrderInv
<1> QED
  BY <1>2, <1>3, BusInitInv DEF EcuInit, TwinInv

\* Every step keeps them.
LEMMA TwinStep == TwinInv /\ [EcuNext]_ecuVars => TwinInv'
<1> SUFFICES ASSUME TwinInv, [EcuNext]_ecuVars PROVE TwinInv'
  OBVIOUS
<1>1. BusInv'
  BY BusSteps, BusStepInv DEF TwinInv
<1>2. EcuInv'
  BY EcuStep DEF TwinInv
<1> QED
  BY <1>1, <1>2, OrderStep DEF TwinInv

\* The orchestrator under the twins, the fields and the list of what was
\* executed satisfy the inductive invariant.
THEOREM TwinInvariance == EcuSpec => []TwinInv
BY EcuInitInv, TwinStep, PTL DEF EcuSpec

\* The twins' variables have their types in every behaviour.
THEOREM EcuTypeCorrect == EcuSpec => []EcuTypeOK
<1>1. TwinInv => EcuTypeOK
  BY DEF TwinInv, BusInv, RInv, IInv, EcuInv, EcuTypeOK, Resolved
<1> QED
  BY <1>1, TwinInvariance, PTL

\* A field holds a positive reply to a request of its own kind to its own ECU
\* (ecu.ts:27-40), whatever is called, fails, is stopped or is unplugged,
\* unless an answer may have gone astray.
THEOREM FieldsHold == EcuSpec => []FieldsHoldTheirReplies
<1>1. EcuInit => FieldsHoldTheirReplies
  BY DEF EcuInit, FieldsHoldTheirReplies
<1>2. TwinInv /\ TwinInv' /\ FieldsHoldTheirReplies /\ [EcuNext]_ecuVars
        => FieldsHoldTheirReplies'
  BY FieldsStep DEF TwinInv
<1> QED
  BY <1>1, <1>2, TwinInvariance, PTL DEF EcuSpec

\* The fault list of a twin is younger than every clearing that has returned
\* (ecu.ts:155), however late the methods go on after their replies.
THEOREM ListsAreYounger == EcuSpec => []ListSurvivesNoClearing
<1>1. EcuInit => ListSurvivesNoClearing
  BY DEF EcuInit, ListSurvivesNoClearing
<1>2. TwinInv /\ TwinInv' /\ ListSurvivesNoClearing /\ [EcuNext]_ecuVars
        => ListSurvivesNoClearing'
  BY ListStep DEF TwinInv
<1> QED
  BY <1>1, <1>2, TwinInvariance, PTL DEF EcuSpec

\* No step makes a twin forget its fault list unless the ECU cleared its own
\* (ecu.ts:155).
THEOREM OnlyClearingForgets == EcuSpec => ForgetsWhatIsCleared
<1>1. TwinInv /\ [EcuNext]_ecuVars =>
        [ \A e \in Ecus :
            ( <<e, "faultMemory">> \in DOMAIN field \ DOMAIN field' /\ ~Mixed )
              => \E i \in DOMAIN executed :
                   executed[i].ok /\ plan[executed[i].for]
                                       = [ecu |-> e, job |-> "clearFaultMemory"]
        ]_ecuVars
  BY ForgetStep DEF TwinInv
<1> QED
  BY <1>1, TwinInvariance, PTL DEF EcuSpec, ForgetsWhatIsCleared

\* The ECU twins use the orchestrator as it is: hiding the twins and the ECUs
\* leaves a behaviour of DBus, so that every request of a twin goes through the
\* abstract queue (ecu.ts:139-199, dbus.ts:95-131).
THEOREM TwinsUseTheQueue == EcuSpec => Spec /\ ImplementsRequestQueue
<1>1. EcuInit => Init
  BY DEF EcuInit
<1> QED
  BY <1>1, BusSteps, Refinement, PTL DEF EcuSpec, Spec

=============================================================================
