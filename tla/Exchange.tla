------------------------------- MODULE Exchange -------------------------------
(***************************************************************************)
(* One model call of a worker as a protocol: gateway/complete.ts (the bounded  *)
(* re-ask) and gateway/client.ts (the HTTP exchange, its timer and its abort   *)
(* relay).  What a reply reads as and which values a schema admits are          *)
(* parameters here, and SchemaCheck's in Completion.  The gateway and the        *)
(* network are external: they may answer, refuse, cut a body short, or never     *)
(* answer.                                                                    *)
(***************************************************************************)
EXTENDS Naturals, Sequences, FiniteSets

CONSTANTS
  Schemas,      \* output schemas of the workflows
  Texts,        \* replies a model may give
  Usages,       \* token counts the gateway may report for one answer
  MaxReasks,    \* how often a worker asks again
  Parsed(_),    \* the object a reply holds, <<>> for none
  Admitted(_, _)  \* the schema has no problem with the object

ASSUME ReaskAssumption == MaxReasks \in Nat

VARIABLES
  schema,     \* the output schema of this call
  phase,      \* "waiting" for headers, "reading" a body, "over"
  attempts,   \* model calls made
  messages,   \* roles of the conversation so far
  usage,      \* tokens added up over the answers read
  signal,     \* the worker's controller has aborted
  relayed,    \* abortedByCaller of the exchange
  tripped,    \* the exchange's own controller has aborted
  timer,      \* the exchange's timeout is armed
  answer,     \* what the gateway is sending (only while reading)
  result,     \* what runCompletion returned or threw
  given       \* history: the tokens of every answer sent in full

vars == <<schema, phase, attempts, messages, usage, signal, relayed, tripped,
          timer, answer, result, given>>

-----------------------------------------------------------------------------
\* One exchange with the gateway.

\* A missing or unreadable `usage` counts as zero.
ReadUsage(a) == IF a.usage = <<>> THEN 0 ELSE a.usage[1]
LatestUsage(a, b) == b      \* as if each round replaced the total
AddUsage(a, b) == a + b

\* As if the signal were not asked before the socket is opened.
AskUnasked ==
  /\ phase' = "waiting"
  /\ relayed' = FALSE /\ tripped' = FALSE /\ timer' = TRUE
  /\ UNCHANGED result

\* As if the timeout covered only the first exchange.
AskUntimed ==
  IF signal
  THEN /\ result' = [is |-> "aborted"]
       /\ phase' = "over"
       /\ UNCHANGED <<relayed, tripped, timer>>
  ELSE /\ phase' = "waiting"
       /\ relayed' = FALSE /\ tripped' = FALSE /\ timer' = FALSE
       /\ UNCHANGED result

\* chatCompletion up to its fetch: an aborted signal opens no socket.
Ask ==
  IF signal
  THEN /\ result' = [is |-> "aborted"]
       /\ phase' = "over"
       /\ UNCHANGED <<relayed, tripped, timer>>
  ELSE /\ phase' = "waiting"
       /\ relayed' = FALSE /\ tripped' = FALSE /\ timer' = TRUE
       /\ UNCHANGED result

\* A call begins, its signal aborted already or not: the first beat is heard
\* before it.
Init ==
  /\ schema \in Schemas
  /\ signal \in BOOLEAN
  /\ phase = IF signal THEN "over" ELSE "waiting"
  /\ result = [is |-> IF signal THEN "aborted" ELSE "none"]
  /\ attempts = 1
  /\ messages = <<"system", "user">>
  /\ usage = 0
  /\ relayed = FALSE /\ tripped = FALSE
  /\ timer = ~signal
  /\ answer = <<>>
  /\ given = 0

\* A beat brings bad news: the worker's controller aborts, and the relay trips
\* the exchange only while it listens, that is until the headers are in.
Cancel ==
  /\ phase # "over" /\ ~signal
  /\ signal' = TRUE
  /\ relayed' = (relayed \/ phase = "waiting")
  /\ tripped' = (tripped \/ phase = "waiting")
  /\ UNCHANGED <<schema, phase, attempts, messages, usage, timer, answer, result, given>>

TimerFires ==
  /\ phase = "waiting" /\ timer
  /\ timer' = FALSE
  /\ tripped' = TRUE
  /\ UNCHANGED <<schema, phase, attempts, messages, usage, signal, relayed, answer,
                 result, given>>

\* Which wire fired decides what the caller sees.
FetchError ==
  IF relayed THEN "aborted" ELSE IF tripped THEN "timeout" ELSE "gateway error"

\* As if the timer were left to fire after the call.
EndWithTimerLeft(r) ==
  /\ phase' = "over"
  /\ result' = r
  /\ answer' = <<>>
  /\ UNCHANGED timer

EndWith(r) ==
  /\ phase' = "over"
  /\ result' = r
  /\ timer' = FALSE
  /\ answer' = <<>>

FetchThrows(cause) ==
  /\ phase = "waiting"
  /\ cause = "network" \/ tripped
  /\ EndWith([is |-> FetchError])
  /\ UNCHANGED <<schema, attempts, messages, usage, signal, relayed, tripped, given>>

Rejected == FetchThrows("abort")
Unreachable == FetchThrows("network")

\* The headers of an answer: timer and relay are taken away whatever the status.
Headers ==
  /\ phase = "waiting" /\ ~tripped
  /\ \E a \in [status : {"ok", "error"}, body : {"chat", "other"},
               text : Texts, usage : {<<>>} \cup {<<u>> : u \in Usages}] :
       /\ a.status = "error" => a.body = "other"
       /\ a.body = "other" => /\ a.usage = <<>>
                              /\ a.text = CHOOSE t \in Texts : TRUE
       /\ answer' = <<a>>
  /\ phase' = "reading"
  /\ timer' = FALSE
  /\ UNCHANGED <<schema, attempts, messages, usage, signal, relayed, tripped, result,
                 given>>

\* The body breaks off: response.text() throws what fetch throws, unwrapped.
BodyBreaks ==
  /\ phase = "reading"
  /\ EndWith([is |-> "not a GatewayError"])
  /\ UNCHANGED <<schema, attempts, messages, usage, signal, relayed, tripped, given>>

Outcome(is, a, value) ==
  [is |-> is, text |-> a.text, value |-> value, attempts |-> attempts,
   usage |-> AddUsage(usage, ReadUsage(a))]

\* A chat completion read in full: parsed, checked, and returned or asked again
\* in the same turn, the conversation two messages longer.
Read(a) ==
  LET parsed == Parsed(a.text)
      good == parsed # <<>> /\ Admitted(schema, parsed[1])
      last == attempts = MaxReasks + 1
  IN /\ usage' = AddUsage(usage, ReadUsage(a))
     /\ given' = given + ReadUsage(a)
     /\ answer' = <<>>
     /\ IF good \/ last
        THEN /\ phase' = "over"
             /\ result' = Outcome(IF good THEN "ok"
                                  ELSE IF parsed = <<>> THEN "unparseable"
                                  ELSE "schema-invalid", a, parsed)
             /\ UNCHANGED <<attempts, messages, relayed, tripped, timer>>
        ELSE /\ attempts' = attempts + 1
             /\ messages' = messages \o <<"assistant", "user">>
             /\ Ask
     /\ UNCHANGED <<schema, signal>>

\* The body is in: an error status and a body that is no chat completion throw.
Body ==
  /\ phase = "reading"
  /\ LET a == answer[1]
     IN \/ /\ a.body = "chat"
           /\ Read(a)
        \/ /\ a.body = "other"
           /\ EndWith([is |-> IF a.status = "error" THEN "http error"
                              ELSE "protocol error"])
           /\ UNCHANGED <<schema, attempts, messages, usage, signal, relayed, tripped,
                          given>>

Next ==
  \/ Cancel
  \/ TimerFires
  \/ Rejected
  \/ Unreachable
  \/ Headers
  \/ BodyBreaks
  \/ Body

\* The timer fires and an aborted fetch rejects: that is the event loop.  That a
\* body once begun ends, or breaks off, is asked of the gateway: nothing here
\* bounds it.
Fairness ==
  /\ WF_vars(TimerFires)
  /\ WF_vars(Rejected)
  /\ WF_vars(Body \/ BodyBreaks)

Spec == Init /\ [][Next]_vars /\ Fairness

-----------------------------------------------------------------------------
(* Properties.                                                              *)

\* Types, and the shape of the conversation: it is never rebuilt, every attempt
\* after the first adds the reply and what was wrong with it (complete.ts 180-214).
TypeOK ==
  /\ schema \in Schemas
  /\ phase \in {"waiting", "reading", "over"}
  /\ attempts \in 1..(MaxReasks + 1)
  /\ messages = [i \in 1..(2 * attempts) |->
                   IF i = 1 THEN "system" ELSE IF i % 2 = 0 THEN "user" ELSE "assistant"]
  /\ signal \in BOOLEAN /\ relayed \in BOOLEAN /\ tripped \in BOOLEAN /\ timer \in BOOLEAN
  /\ (answer = <<>>) <=> (phase # "reading")
  /\ (result.is = "none") <=> (phase # "over")
  /\ timer => phase = "waiting"

\* The tokens a call returns for the bill are those of every answer of every
\* round (complete.ts 156); a call that throws returns none of them.
ReturnedUsageIsSpent ==
  result.is \in {"ok", "schema-invalid", "unparseable"} => result.usage = given

\* Once the worker has aborted, the call asks the gateway nothing more, even when
\* the abort fell while a body was read and nobody listened; and an exchange the
\* abort interrupted ends as aborted, never as a timeout that would cost the job
\* an attempt (client.ts 248-281).
AbortStopsTheCall ==
  [][signal => /\ phase' = phase \/ phase' = "over"
               /\ phase = "waiting" /\ relayed /\ phase' = "over" => result'.is = "aborted"]_vars

\* A call whose body comes to an end ends: the timer bounds the wait for headers
\* and the re-ask is bounded (client.ts 252, complete.ts 144).
CallEnds == <>(phase = "over")
=============================================================================
