---------------------------- MODULE CompletionProofs ----------------------------
(***************************************************************************)
(* Proofs about a model call, for any schemas, replies, token counts and number  *)
(* of re-asks.  The exchange comes first, and holds whatever the reader of       *)
(* replies and the schema check say (Parsed and Admitted are not looked into);    *)
(* then what they do say, by induction over the nesting of the values; and last    *)
(* the two together.                                                            *)
(***************************************************************************)
EXTENDS Completion, Recursions, SequenceTheorems, TLAPS

-----------------------------------------------------------------------------
(* The exchange.                                                            *)

\* While nobody has answered, an abort has been relayed and the exchange tripped.
AbortIsHeard ==
  /\ phase = "waiting" /\ signal => relayed
  /\ relayed => signal
  /\ phase = "waiting" /\ relayed => tripped

\* What is returned is the check's verdict on what the reader read in the last reply,
\* and a call is given up only when every attempt is spent.
VerdictStands ==
  /\ result.is = "ok" =>
       /\ result.value = Parsed(result.text) /\ result.value # <<>>
       /\ Admitted(schema, result.value[1])
  /\ result.is = "schema-invalid" =>
       /\ result.value = Parsed(result.text) /\ result.value # <<>>
       /\ ~Admitted(schema, result.value[1])
  /\ result.is = "unparseable" => Parsed(result.text) = <<>>
  /\ result.is \in {"schema-invalid", "unparseable"} => attempts = MaxReasks + 1

Returned == {"ok", "schema-invalid", "unparseable"}

\* What is read, and what is returned, is a reply the model may give.
RepliesAreTexts ==
  /\ phase = "reading" => answer[1].text \in Texts
  /\ result.is \in Returned => result.text \in Texts

CallInv ==
  /\ TypeOK /\ AbortIsHeard /\ VerdictStands /\ RepliesAreTexts
  /\ usage = given /\ ReturnedUsageIsSpent

\* The roles of a conversation after n attempts.
Roles(n) == [i \in 1..(2 * n) |->
               IF i = 1 THEN "system" ELSE IF i % 2 = 0 THEN "user" ELSE "assistant"]

\* A re-ask adds the reply and what was wrong with it.
LEMMA RolesGrow ==
  ASSUME NEW n \in Nat \ {0}
  PROVE  Roles(n) \o <<"assistant", "user">> = Roles(n + 1)
<1> DEFINE R == {"system", "user", "assistant"}
           p == Roles(n)
           q == <<"assistant", "user">>
           r == p \o q
           s == Roles(n + 1)
<1>1. p \in Seq(R) /\ Len(p) = 2 * n /\ DOMAIN p = 1..(2 * n)
  <2>1. 2 * n \in Nat /\ p \in [1..(2 * n) -> R]
    BY DEF Roles
  <2> QED
    BY <2>1
<1>2. q \in Seq(R) /\ Len(q) = 2 /\ q[1] = "assistant" /\ q[2] = "user"
  OBVIOUS
<1>3. Len(r) = 2 * n + 2 /\ DOMAIN r = 1..(2 * n + 2)
      /\ \A i \in 1..(2 * n + 2) : r[i] = IF i <= 2 * n THEN p[i] ELSE q[i - 2 * n]
  <2>1. 2 * n \in Nat
    OBVIOUS
  <2> HIDE DEF p, q
  <2>2. /\ r \in Seq(R) /\ Len(r) = 2 * n + 2
        /\ \A i \in 1..(2 * n + 2) : r[i] = IF i <= 2 * n THEN p[i] ELSE q[i - 2 * n]
    <3>1. /\ r \in Seq(R) /\ Len(r) = Len(p) + Len(q)
          /\ \A i \in 1..(Len(p) + Len(q)) : r[i] = IF i <= Len(p) THEN p[i] ELSE q[i - Len(p)]
      <4> HIDE DEF R
      <4> QED
        BY <1>1, <1>2, ConcatProperties
    <3>2. Len(p) = 2 * n /\ Len(q) = 2
      BY <1>1, <1>2
    <3> HIDE DEF r
    <3> QED
      BY <3>1, <3>2
  <2> QED
    BY <2>1, <2>2, LenProperties
<1>4. 2 * (n + 1) = 2 * n + 2 /\ 2 * n \in Nat
  OBVIOUS
<1>5. s = [i \in 1..(2 * n + 2) |->
             IF i = 1 THEN "system" ELSE IF i % 2 = 0 THEN "user" ELSE "assistant"]
  BY <1>4 DEF Roles
<1>6. ASSUME NEW i \in 1..(2 * n + 2) PROVE r[i] = s[i]
  <2>1. CASE i <= 2 * n
    <3>1. i \in 1..(2 * n)
      BY <1>4, <2>1
    <3>2. p[i] = IF i = 1 THEN "system" ELSE IF i % 2 = 0 THEN "user" ELSE "assistant"
      BY <3>1 DEF Roles
    <3>3. r[i] = p[i]
      BY <1>3, <2>1
    <3> HIDE DEF p, q, r
    <3> QED
      BY <1>5, <3>2, <3>3
  <2>2. CASE i = 2 * n + 1
    <3>1. i - 2 * n = 1 /\ ~(i <= 2 * n) /\ i # 1 /\ i % 2 = 1
      BY <1>4, <2>2
    <3>2. r[i] = q[1]
      BY <1>3, <3>1
    <3> HIDE DEF p, q, r
    <3> QED
      BY <1>2, <1>5, <3>1, <3>2
  <2>3. CASE i = 2 * n + 2
    <3>1. i - 2 * n = 2 /\ ~(i <= 2 * n) /\ i # 1 /\ i % 2 = 0
      BY <1>4, <2>3
    <3>2. r[i] = q[2]
      BY <1>3, <3>1
    <3> HIDE DEF p, q, r
    <3> QED
      BY <1>2, <1>5, <3>1, <3>2
  <2>4. i <= 2 * n \/ i = 2 * n + 1 \/ i = 2 * n + 2
    BY <1>4
  <2> HIDE DEF r, s
  <2> QED
    BY <2>1, <2>2, <2>3, <2>4
<1>7. r = [i \in DOMAIN r |-> r[i]]
  <2>1. r \in Seq(R)
    <3> HIDE DEF p, q
    <3> QED
      BY <1>1, <1>2
  <2> HIDE DEF p, q, r
  <2> QED
    BY <2>1
<1> HIDE DEF p, q, r, s
<1>8. s = [i \in 1..(2 * n + 2) |-> s[i]]
  BY <1>5
<1>9. r = s
  BY <1>3, <1>6, <1>7, <1>8
<1> QED
  BY <1>9 DEF p, q, r, s

\* A call begins so.
LEMMA CallInit == Init => CallInv
<1> SUFFICES ASSUME Init PROVE CallInv
  OBVIOUS
<1>1. messages = Roles(1)
  <2>1. 2 * 1 = 2 /\ 1..2 = {1, 2}
    OBVIOUS
  <2>2. 1 % 2 = 1 /\ 2 % 2 = 0
    OBVIOUS
  <2> QED
    BY <2>1, <2>2 DEF Init, Roles
<1>2. attempts = 1 /\ 1 \in 1..(MaxReasks + 1)
  BY ReaskAssumption DEF Init
<1>3. result.is = IF signal THEN "aborted" ELSE "none"
  BY DEF Init
<1>4. TypeOK
  BY <1>1, <1>2, <1>3 DEF Init, TypeOK, Roles
<1> QED
  BY <1>3, <1>4 DEF Init, CallInv, AbortIsHeard, VerdictStands, RepliesAreTexts, Returned,
                    ReturnedUsageIsSpent

\* A call that throws returns nothing.
LEMMA Ending ==
  ASSUME CallInv, NEW r, phase # "over", EndWith(r), r.is \notin Returned \cup {"none"},
         UNCHANGED <<schema, attempts, messages, usage, signal, relayed, tripped, given>>
  PROVE  CallInv'
<1>1. phase' = "over" /\ result' = r /\ timer' = FALSE /\ answer' = <<>>
  BY DEF EndWith
<1>2. TypeOK'
  BY <1>1 DEF CallInv, TypeOK, Returned
<1>3. AbortIsHeard' /\ usage' = given'
  BY <1>1 DEF CallInv, AbortIsHeard
<1>4. result'.is \notin {"ok", "schema-invalid", "unparseable"}
  BY <1>1 DEF Returned
<1> QED
  BY <1>1, <1>2, <1>3, <1>4 DEF CallInv, VerdictStands, RepliesAreTexts, Returned,
                                ReturnedUsageIsSpent

\* A reply is returned with its verdict and the tokens so far, or the call asks again.
LEMMA ReadStep ==
  ASSUME CallInv, NEW a, phase = "reading", Read(a), a.text \in Texts
  PROVE  CallInv'
<1> DEFINE parsed == Parsed(a.text)
           good == parsed # <<>> /\ Admitted(schema, parsed[1])
           u == AddUsage(usage, ReadUsage(a))
           is == IF good THEN "ok" ELSE IF parsed = <<>> THEN "unparseable"
                 ELSE "schema-invalid"
<1>1. usage' = u /\ given' = given + ReadUsage(a) /\ answer' = <<>>
      /\ UNCHANGED <<schema, signal>>
  BY DEF Read
<1>2. usage' = given'
  BY <1>1 DEF AddUsage, CallInv
<1>3. /\ attempts \in 1..(MaxReasks + 1) /\ attempts \in Nat /\ MaxReasks \in Nat
      /\ messages = Roles(attempts) /\ timer = FALSE /\ result.is = "none"
      /\ signal \in BOOLEAN /\ relayed \in BOOLEAN /\ tripped \in BOOLEAN
      /\ (relayed => signal) /\ schema \in Schemas
  BY ReaskAssumption DEF CallInv, TypeOK, AbortIsHeard, Roles
<1>4. CASE good \/ attempts = MaxReasks + 1
  <2>1. phase' = "over" /\ result' = Outcome(is, a, parsed)
        /\ UNCHANGED <<attempts, messages, relayed, tripped, timer>>
    BY <1>4 DEF Read
  <2>2. result'.is = is /\ result'.text = a.text /\ result'.value = parsed /\ result'.usage = u
    BY <2>1 DEF Outcome
  <2>3. is \in Returned
    BY DEF Returned
  <2>4. TypeOK'
    BY <1>1, <1>3, <2>1, <2>2, <2>3 DEF TypeOK, Roles, Returned
  <2>5. VerdictStands'
    <3>1. is = "ok" <=> good
      OBVIOUS
    <3>2. is = "unparseable" => parsed = <<>>
      OBVIOUS
    <3>3. is = "schema-invalid" => parsed # <<>> /\ ~Admitted(schema, parsed[1])
      OBVIOUS
    <3>4. is # "ok" => attempts' = MaxReasks + 1
      BY <1>4, <2>1, <3>1
    <3>5. schema' = schema
      BY <1>1
    <3>6. good => parsed # <<>> /\ Admitted(schema, parsed[1])
      OBVIOUS
    <3>7. parsed = Parsed(result'.text)
      BY <2>2
    <3> HIDE DEF is, good, parsed
    <3> QED
      BY <2>2, <3>1, <3>2, <3>3, <3>4, <3>5, <3>6, <3>7 DEF VerdictStands
  <2>6. AbortIsHeard' /\ ReturnedUsageIsSpent' /\ RepliesAreTexts'
    BY <1>1, <1>2, <1>3, <2>1, <2>2 DEF AbortIsHeard, ReturnedUsageIsSpent, RepliesAreTexts
  <2> QED
    BY <1>2, <2>4, <2>5, <2>6 DEF CallInv
<1>5. CASE ~(good \/ attempts = MaxReasks + 1)
  <2>1. /\ attempts' = attempts + 1 /\ messages' = messages \o <<"assistant", "user">>
        /\ Ask
    BY <1>5 DEF Read
  <2>2. messages' = Roles(attempts') /\ attempts' \in 1..(MaxReasks + 1)
    <3>1. attempts \in Nat \ {0}
      BY <1>3
    <3>2. Roles(attempts) \o <<"assistant", "user">> = Roles(attempts + 1)
      BY <3>1, RolesGrow
    <3>3. attempts # MaxReasks + 1
      BY <1>5
    <3> HIDE DEF good
    <3>4. attempts' \in 1..(MaxReasks + 1)
      BY <1>3, <2>1, <3>3
    <3> QED
      BY <1>3, <2>1, <3>2, <3>4
  <2>3. CASE signal
    <3>1. result' = [is |-> "aborted"] /\ phase' = "over" /\ UNCHANGED <<relayed, tripped, timer>>
      BY <2>1, <2>3 DEF Ask
    <3>2. result'.is = "aborted"
      BY <3>1
    <3>3. TypeOK'
      BY <1>1, <1>3, <2>2, <3>1, <3>2 DEF TypeOK, Roles
    <3> QED
      BY <1>1, <1>2, <1>3, <3>1, <3>2, <3>3
         DEF CallInv, AbortIsHeard, VerdictStands, RepliesAreTexts, Returned,
             ReturnedUsageIsSpent
  <2>4. CASE ~signal
    <3>1. phase' = "waiting" /\ relayed' = FALSE /\ tripped' = FALSE /\ timer' = TRUE
          /\ UNCHANGED result
      BY <2>1, <2>4 DEF Ask
    <3>2. TypeOK'
      BY <1>1, <1>3, <2>2, <3>1 DEF TypeOK, Roles
    <3> QED
      BY <1>1, <1>2, <1>3, <2>4, <3>1, <3>2
         DEF CallInv, AbortIsHeard, VerdictStands, RepliesAreTexts, Returned,
             ReturnedUsageIsSpent
  <2> QED
    BY <2>3, <2>4
<1> QED
  BY <1>4, <1>5

\* Every step keeps the invariant.
LEMMA CallNext == CallInv /\ [Next]_vars => CallInv'
<1> SUFFICES ASSUME CallInv, [Next]_vars PROVE CallInv'
  OBVIOUS
<1>1. CASE Cancel
  <2>1. TypeOK'
    BY <1>1 DEF Cancel, CallInv, TypeOK
  <2>2. AbortIsHeard'
    BY <1>1 DEF Cancel, CallInv, AbortIsHeard
  <2> QED
    BY <1>1, <2>1, <2>2 DEF Cancel, CallInv, VerdictStands, RepliesAreTexts, ReturnedUsageIsSpent
<1>2. CASE TimerFires
  <2>1. TypeOK' /\ AbortIsHeard'
    BY <1>2 DEF TimerFires, CallInv, TypeOK, AbortIsHeard
  <2> QED
    BY <1>2, <2>1 DEF TimerFires, CallInv, VerdictStands, RepliesAreTexts, ReturnedUsageIsSpent
<1>3. ASSUME NEW cause, FetchThrows(cause) PROVE CallInv'
  <2> DEFINE r == [is |-> FetchError]
  <2>1. FetchError \notin Returned \cup {"none"} /\ r.is = FetchError
    BY DEF FetchError, Returned
  <2>2. phase = "waiting" /\ EndWith(r)
        /\ UNCHANGED <<schema, attempts, messages, usage, signal, relayed, tripped, given>>
    BY <1>3 DEF FetchThrows
  <2> HIDE DEF r
  <2> QED
    BY <2>1, <2>2, Ending
<1>4. CASE Headers
  <2>1. phase = "waiting" /\ phase' = "reading" /\ timer' = FALSE /\ answer' # <<>>
        /\ answer'[1].text \in Texts
        /\ UNCHANGED <<schema, attempts, messages, usage, signal, relayed, tripped, result, given>>
    <3>1. PICK a : answer' = <<a>> /\ a.text \in Texts
      BY <1>4 DEF Headers
    <3> QED
      BY <1>4, <3>1 DEF Headers
  <2>2. TypeOK' /\ AbortIsHeard'
    BY <2>1 DEF CallInv, TypeOK, AbortIsHeard
  <2> QED
    BY <2>1, <2>2 DEF CallInv, VerdictStands, RepliesAreTexts, ReturnedUsageIsSpent
<1>5. CASE BodyBreaks
  <2> DEFINE r == [is |-> "not a GatewayError"]
  <2>1. r.is \notin Returned \cup {"none"}
    BY DEF Returned
  <2>2. phase = "reading" /\ EndWith(r)
        /\ UNCHANGED <<schema, attempts, messages, usage, signal, relayed, tripped, given>>
    BY <1>5 DEF BodyBreaks
  <2> HIDE DEF r
  <2> QED
    BY <2>1, <2>2, Ending
<1>6. CASE Body
  <2> DEFINE a == answer[1]
             r == [is |-> IF a.status = "error" THEN "http error" ELSE "protocol error"]
  <2>1. CASE a.body = "chat" /\ Read(a)
    <3>1. phase = "reading" /\ a.text \in Texts
      BY <1>6 DEF Body, CallInv, RepliesAreTexts
    <3> QED
      BY <2>1, <3>1, ReadStep
  <2>2. CASE EndWith(r)
             /\ UNCHANGED <<schema, attempts, messages, usage, signal, relayed, tripped, given>>
    <3>1. r.is \notin Returned \cup {"none"}
      BY DEF Returned
    <3>2. phase = "reading"
      BY <1>6 DEF Body
    <3> HIDE DEF r
    <3> QED
      BY <2>2, <3>1, <3>2, Ending
  <2> QED
    BY <1>6, <2>1, <2>2 DEF Body
<1>7. CASE UNCHANGED vars
  BY <1>7 DEF vars, CallInv, TypeOK, AbortIsHeard, VerdictStands, RepliesAreTexts,
              ReturnedUsageIsSpent
<1> QED
  BY <1>1, <1>2, <1>3, <1>4, <1>5, <1>6, <1>7 DEF Next, Rejected, Unreachable

\* Every reachable state of a call: its conversation, what an abort has tripped, and what
\* a returned result says (complete.ts 130-221, client.ts 232-316).
THEOREM CallInvariant == Spec => []CallInv
<1>1. Init => CallInv
  BY CallInit
<1>2. CallInv /\ [Next]_vars => CallInv'
  BY CallNext
<1> QED
  BY <1>1, <1>2, PTL DEF Spec

\* Types, and a conversation that is never rebuilt (complete.ts 180-214).
THEOREM CallTyped == Spec => []TypeOK
<1>1. CallInv => TypeOK
  BY DEF CallInv
<1> QED
  BY <1>1, CallInvariant, PTL

\* The tokens a call returns are those of every answer of every round (complete.ts 156).
THEOREM UsageIsSpent == Spec => []ReturnedUsageIsSpent
<1>1. CallInv => ReturnedUsageIsSpent
  BY DEF CallInv
<1> QED
  BY <1>1, CallInvariant, PTL

\* What a call returns is the schema check's verdict on the last reply's object, as it was
\* read, under the schema it was asked for, and none is given up while an attempt is left
\* (complete.ts 144-214).
THEOREM VerdictsAreOfTheLastReply == Spec => []VerdictStands
<1>1. CallInv => VerdictStands
  BY DEF CallInv
<1> QED
  BY <1>1, CallInvariant, PTL

\* Once the worker has aborted, the gateway is asked nothing more, and an exchange the
\* abort interrupted ends as aborted (client.ts 248-281).
THEOREM AbortsStopCalls == Spec => AbortStopsTheCall
<1> DEFINE Stops == signal => /\ phase' = phase \/ phase' = "over"
                              /\ phase = "waiting" /\ relayed /\ phase' = "over"
                                   => result'.is = "aborted"
<1>1. CallInv /\ [Next]_vars => [Stops]_vars
  <2> SUFFICES ASSUME CallInv, Next, signal
               PROVE  /\ phase' = phase \/ phase' = "over"
                      /\ phase = "waiting" /\ relayed /\ phase' = "over" => result'.is = "aborted"
    OBVIOUS
  <2>1. CASE Cancel \/ TimerFires
    BY <2>1 DEF Cancel, TimerFires
  <2>2. ASSUME NEW cause, FetchThrows(cause)
        PROVE  phase' = "over" /\ (relayed => result'.is = "aborted")
    BY <2>2 DEF FetchThrows, EndWith, FetchError
  <2>3. ~Headers
    BY DEF Headers, CallInv, AbortIsHeard
  <2>4. CASE BodyBreaks \/ Body
    BY <2>4 DEF BodyBreaks, Body, EndWith, Read, Ask
  <2> QED
    BY <2>1, <2>2, <2>3, <2>4 DEF Next, Rejected, Unreachable
<1> QED
  BY <1>1, CallInvariant, PTL DEF Spec, AbortStopsTheCall

-----------------------------------------------------------------------------
(* The reader and the check.                                                *)

Pairs == Subschemas \X Documents
Below == [p \in Pairs |-> Under(p[1], p[2])]
Rank == [p \in Pairs |-> Depth[p[2]]]
Kinds == {"type", "enum", "missing", "unexpected"}

\* check() goes from a value only to values inside it.
LEMMA PairsDescend == Descends(Pairs, Rank, Below)
<1>1. ASSUME NEW p \in Pairs, NEW q \in Under(p[1], p[2])
      PROVE  q \in Pairs /\ Depth[q[2]] < Depth[p[2]]
  <2>1. p[1] \in Subschemas /\ p[2] \in Documents
    BY DEF Pairs
  <2>2. CASE \E k \in DOMAIN p[1].properties \cap KeysOf(p[2]) :
               q = <<p[1].properties[k], p[2].of[k]>>
    BY <2>1, <2>2, DocumentsAssumption, SubschemasAssumption DEF Pairs
  <2>3. CASE q \in Range(p[1].items) \X ItemsOf(p[2])
    BY <2>1, <2>3, DocumentsAssumption, SubschemasAssumption DEF Pairs
  <2> QED
    BY <1>1, <2>2, <2>3 DEF Under
<1>2. \A p \in Pairs : Depth[p[2]] \in Nat
  BY DocumentsAssumption DEF Pairs
<1> QED
  BY <1>1, <1>2 DEF Below, Rank, Descends

\* The problems of one value are of the kinds there are.
LEMMA HereKinds == \A s, v : ProblemsHere(s, v) \in SUBSET Kinds
  BY DEF ProblemsHere, Kinds

\* The check of a pair is what its definition says of the checks below it.
LEMMA CheckUnfolds ==
  \A p \in Pairs :
    Check[p] = IF Misshapen(p[1], p[2]) THEN {"type"}
               ELSE ProblemsHere(p[1], p[2]) \cup UNION {Check[q] : q \in Below[p]}
<1> DEFINE R == SUBSET Kinds
           E(f, p) == IF Misshapen(p[1], p[2]) THEN {"type"}
                      ELSE ProblemsHere(p[1], p[2]) \cup UNION {f[q] : q \in Under(p[1], p[2])}
           F == [p \in Pairs |-> [h \in [Below[p] -> R] |-> E(h, p)]]
<1>1. ASSUME NEW p \in Pairs, NEW h \in [Below[p] -> R] PROVE E(h, p) \in R
  <2>1. {"type"} \in R
    BY DEF Kinds
  <2>2. ProblemsHere(p[1], p[2]) \in R
    BY HereKinds
  <2>3. UNION {h[q] : q \in Under(p[1], p[2])} \in R
    BY DEF Below
  <2> QED
    BY <2>1, <2>2, <2>3
<1>2. Computes(F, Pairs, Below, R)
  BY <1>1 DEF Computes
<1>3. PICK f \in [Pairs -> R] : Solves(f, F, Pairs, Below)
  <2> HIDE DEF R, F
  <2> QED
    BY <1>2, PairsDescend, Recursion
<1>4. ASSUME NEW p \in Pairs PROVE f[p] = E(f, p)
  <2> DEFINE h == [q \in Below[p] |-> f[q]]
  <2>1. h \in [Below[p] -> R]
    BY <1>3, PairsDescend DEF Descends
  <2>2. E(h, p) = E(f, p)
    <3>1. {h[q] : q \in Under(p[1], p[2])} = {f[q] : q \in Under(p[1], p[2])}
      BY DEF Below
    <3> HIDE DEF h
    <3> QED
      BY <3>1
  <2>3. F[p][h] = E(h, p)
    <3> HIDE DEF E, h
    <3> QED
      BY <2>1
  <2> QED
    BY <1>3, <2>2, <2>3 DEF Solves
<1>5. f = [p \in Pairs |-> E(f, p)]
  <2> HIDE DEF E
  <2> QED
    BY <1>3, <1>4
<1>6. Check = [p \in Pairs |-> E(Check, p)]
  <2>1. Check = CHOOSE g : g = [p \in Pairs |-> E(g, p)]
    BY DEF Check, Pairs
  <2> HIDE DEF E
  <2> QED
    BY <1>5, <2>1
<1>7. \A p \in Pairs : Check[p] = E(Check, p)
  <2> HIDE DEF E
  <2> QED
    BY <1>6
<1> QED
  BY <1>7 DEF Below

\* The places of a pair are itself and those of the pairs below it.
LEMMA PlacesUnfold ==
  \A p \in Pairs : Places[p] = {p} \cup UNION {Places[q] : q \in Below[p]}
<1> DEFINE R == SUBSET Pairs
           E(f, p) == {p} \cup UNION {f[q] : q \in Under(p[1], p[2])}
           F == [p \in Pairs |-> [h \in [Below[p] -> R] |-> E(h, p)]]
<1>1. ASSUME NEW p \in Pairs, NEW h \in [Below[p] -> R] PROVE E(h, p) \in R
  BY DEF Below
<1>2. Computes(F, Pairs, Below, R)
  BY <1>1 DEF Computes
<1>3. PICK f \in [Pairs -> R] : Solves(f, F, Pairs, Below)
  <2> HIDE DEF R, F
  <2> QED
    BY <1>2, PairsDescend, Recursion
<1>4. ASSUME NEW p \in Pairs PROVE f[p] = E(f, p)
  <2> DEFINE h == [q \in Below[p] |-> f[q]]
  <2>1. h \in [Below[p] -> R]
    BY <1>3, PairsDescend DEF Descends
  <2>2. E(h, p) = E(f, p)
    <3>1. {h[q] : q \in Under(p[1], p[2])} = {f[q] : q \in Under(p[1], p[2])}
      BY DEF Below
    <3> HIDE DEF h
    <3> QED
      BY <3>1
  <2>3. F[p][h] = E(h, p)
    <3> HIDE DEF E, h
    <3> QED
      BY <2>1
  <2> QED
    BY <1>3, <2>2, <2>3 DEF Solves
<1>5. f = [p \in Pairs |-> E(f, p)]
  <2> HIDE DEF E
  <2> QED
    BY <1>3, <1>4
<1>6. Places = [p \in Pairs |-> E(Places, p)]
  <2>1. Places = CHOOSE g : g = [p \in Pairs |-> E(g, p)]
    BY DEF Places, Pairs
  <2> HIDE DEF E
  <2> QED
    BY <1>5, <2>1
<1>7. \A p \in Pairs : Places[p] = E(Places, p)
  <2> HIDE DEF E
  <2> QED
    BY <1>6
<1> QED
  BY <1>7 DEF Below

\* The reference holds of one value exactly when the check finds nothing wrong with it.
LEMMA HoldsHere ==
  \A s, v : Holds(s, v) <=> ~Misshapen(s, v) /\ ProblemsHere(s, v) = {}
<1> TAKE s, v
<1>1. KeysOf(v) \subseteq DOMAIN s.properties <=> KeysOf(v) \ DOMAIN s.properties = {}
  OBVIOUS
<1>2. v.t = "object" => (s.required \subseteq DOMAIN v.of <=> s.required \ KeysOf(v) = {})
  BY DEF KeysOf
<1> QED
  BY <1>1, <1>2 DEF Holds, Misshapen, ProblemsHere

\* The check finds no problem exactly where every place holds.
LEMMA CheckAgrees ==
  \A p \in Pairs : Check[p] = {} <=> \A q \in Places[p] : Holds(q[1], q[2])
<1> DEFINE Right(p) == Check[p] = {} <=> \A q \in Places[p] : Holds(q[1], q[2])
           T == {p \in Pairs : ~Right(p)}
<1> SUFFICES ASSUME T # {} PROVE FALSE
  OBVIOUS
<1>1. PICK p \in T : \A q \in T : Rank[p] <= Rank[q]
  <2>1. T \in SUBSET Pairs
    OBVIOUS
  <2> HIDE DEF T
  <2> QED
    BY <2>1, PairsDescend, Lowest DEF Descends
<1>2. p \in Pairs /\ Rank[p] \in Nat
  BY PairsDescend DEF Descends
<1>3. ASSUME NEW q \in Below[p] PROVE q \in Pairs /\ Right(q)
  <2>1. q \in Pairs /\ Rank[q] \in Nat /\ Rank[q] < Rank[p]
    BY <1>2, PairsDescend DEF Descends
  <2>2. q \notin T
    <3> HIDE DEF T
    <3> QED
      BY <1>1, <1>2, <2>1
  <2> HIDE DEF Right
  <2> QED
    BY <2>1, <2>2
<1>4. Places[p] = {p} \cup UNION {Places[q] : q \in Below[p]}
  BY <1>2, PlacesUnfold
<1>5. (\A q \in Places[p] : Holds(q[1], q[2]))
        <=> Holds(p[1], p[2]) /\ \A q \in Below[p] : \A r \in Places[q] : Holds(r[1], r[2])
  BY <1>4
<1>6. Check[p] = {} <=> Holds(p[1], p[2]) /\ \A q \in Below[p] : Check[q] = {}
  <2>1. CASE Misshapen(p[1], p[2])
    BY <1>2, <2>1, CheckUnfolds, HoldsHere
  <2>2. CASE ~Misshapen(p[1], p[2])
    <3>1. Check[p] = ProblemsHere(p[1], p[2]) \cup UNION {Check[q] : q \in Below[p]}
      BY <1>2, <2>2, CheckUnfolds
    <3> QED
      BY <2>2, <3>1, HoldsHere
  <2> QED
    BY <2>1, <2>2
<1> HIDE DEF T
<1>7. Right(p)
  BY <1>3, <1>5, <1>6
<1> QED
  BY <1>7 DEF T

\* validateAgainstSchema finds a value valid exactly when the reference admits it.
LEMMA VerdictsAgree ==
  ASSUME NEW s \in Subschemas, NEW v \in Documents
  PROVE  Valid(s, v) <=> Admits(s, v)
<1>1. <<s, v>> \in Pairs
  BY DEF Pairs
<1> QED
  BY <1>1, CheckAgrees DEF Valid, Admits

\* What is read out of a reply is what its braces span, which is an object; and nothing
\* is read only where the reply reads as something else, or its span as nothing.
LEMMA ReaderIsRight ==
  ASSUME NEW text, Readable(text)
  PROVE  /\ ParseJsonObject(text) # <<>> =>
              /\ ParseJsonObject(text) = text.span /\ text.span # <<>>
              /\ text.span[1] \in Documents
         /\ ParseJsonObject(text) = <<>> =>
              IF text.unfenced = <<>> THEN text.span = <<>>
              ELSE text.unfenced[1].t # "object"
<1> DEFINE c == Candidates(text)
           Right(r) == r = <<>> \/ \E v \in Documents : r = <<v>>
<1>1. Right(text.whole) /\ Right(text.unfenced) /\ Right(text.span)
  BY DEF Readable
<1>2. ASSUME NEW r, Right(r), NEW q, Right(q)
      PROVE  /\ <<>> \o r = r /\ r \o <<>> = r
             /\ r # <<>> => Len(r) = 1 /\ r = <<r[1]>> /\ r[1] \in Documents
  <2>1. CASE r = <<>>
    BY <2>1
  <2>2. CASE \E v \in Documents : r = <<v>>
    BY <2>2
  <2> QED
    BY <1>2, <2>1, <2>2
<1>3. CASE text.unfenced = <<>>
  <2>1. text.whole = <<>> /\ c = text.span
    <3>1. text.whole = <<>>
      BY <1>3 DEF Readable
    <3> QED
      BY <1>1, <1>2, <1>3, <3>1 DEF Candidates
  <2>2. text.span # <<>> => text.span[1].t = "object"
    BY DEF Readable
  <2> HIDE DEF c
  <2> QED
    BY <1>1, <1>2, <1>3, <2>1, <2>2 DEF ParseJsonObject, c
<1>4. CASE text.unfenced # <<>>
  <2>1. PICK v \in Documents : text.unfenced = <<v>>
    BY <1>1, <1>4
  <2>2. c # <<>> /\ c[1] = v
    <3>1. text.whole = <<>> \/ text.whole = <<v>>
      BY <2>1 DEF Readable
    <3>2. text.span = <<>> \/ \E w \in Documents : text.span = <<w>>
      BY <1>1
    <3>3. ASSUME NEW r, r = <<>> \/ \E w \in Documents : r = <<w>>
          PROVE  (<<v>> \o r # <<>> /\ (<<v>> \o r)[1] = v)
                 /\ ((<<v>> \o <<v>>) \o r # <<>> /\ ((<<v>> \o <<v>>) \o r)[1] = v)
      <4>1. CASE r = <<>>
        BY <4>1
      <4>2. CASE \E w \in Documents : r = <<w>>
        BY <4>2
      <4> QED
        BY <3>3, <4>1, <4>2
    <3>4. <<>> \o <<v>> = <<v>>
      OBVIOUS
    <3> QED
      BY <2>1, <3>1, <3>2, <3>3, <3>4 DEF Candidates
  <2>3. v.t = "object" => text.span = <<v>>
    BY <2>1 DEF Readable
  <2> HIDE DEF c
  <2> QED
    BY <1>4, <2>1, <2>2, <2>3 DEF ParseJsonObject, c
<1> QED
  BY <1>3, <1>4

-----------------------------------------------------------------------------
(* The call and its verdict.                                                *)

\* What a call returns is right whatever the schema, however deep the reply nests and
\* whatever its prose and its strings hold: it is the object its braces span, an ok
\* result meets every keyword of the schema at every place and a schema-invalid one does
\* not, and no reply that is an object is given up as unparseable (complete.ts 144-214,
\* schema.ts 89-219).
THEOREM VerdictsAreRight == Spec => []VerdictIsRight
<1>1. CallInv => VerdictIsRight
  <2> SUFFICES ASSUME CallInv PROVE VerdictIsRight
    OBVIOUS
  <2>1. schema \in Schemas /\ schema \in Subschemas
    BY SchemasAssumption DEF CallInv, TypeOK
  <2> DEFINE text == result.text
  <2>2. ASSUME result.is \in Returned
        PROVE  text \in Texts /\ Readable(text) /\ Parsed(text) = ParseJsonObject(text)
    BY <2>2, SchemasAssumption, ReaderAssumption DEF CallInv, RepliesAreTexts
  <2>3. ASSUME result.is \in {"ok", "schema-invalid"}
        PROVE  /\ text.span # <<>> /\ result.value = text.span
               /\ result.is = "ok" <=> Admits(schema, result.value[1])
    <3> DEFINE v == result.value[1]
    <3>1. /\ Readable(text) /\ result.value = ParseJsonObject(text) /\ result.value # <<>>
          /\ result.is = "ok" <=> Admitted(schema, v)
      BY <2>2, <2>3 DEF CallInv, VerdictStands, Returned
    <3>2. text.span # <<>> /\ result.value = text.span /\ v \in Documents
      BY <3>1, ReaderIsRight
    <3>3. Admitted(schema, v) = Valid(schema, v)
      BY <2>1, <3>2, ReaderAssumption
    <3>4. Valid(schema, v) <=> Admits(schema, v)
      BY <2>1, <3>2, VerdictsAgree
    <3> QED
      BY <3>1, <3>2, <3>3, <3>4
  <2>4. ASSUME result.is = "unparseable"
        PROVE  IF text.unfenced = <<>> THEN text.span = <<>> ELSE text.unfenced[1].t # "object"
    BY <2>2, <2>4, ReaderIsRight DEF CallInv, VerdictStands, Returned
  <2> QED
    BY <2>3, <2>4 DEF CallInv, VerdictStands, VerdictIsRight
<1> QED
  BY <1>1, CallInvariant, PTL
=============================================================================
