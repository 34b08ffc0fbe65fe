------------------------------ MODULE SchemaCheck -----------------------------
(***************************************************************************)
(* gateway/schema.ts: reading a JSON object out of a reply and checking it    *)
(* against a workflow's output schema.                                       *)
(*                                                                         *)
(* A JSON value is [t |-> type, is |-> atom], [t |-> "array", of |-> a       *)
(* sequence] or [t |-> "object", of |-> a function of the keys].  A schema   *)
(* carries the keywords the validator reads; an optional keyword is a        *)
(* sequence of length 0 or 1.  The code's recursions are recursive functions    *)
(* here, over the values and schemas there are.                              *)
(*                                                                         *)
(* JSON.parse is external.  A reply is what it makes of the three texts that    *)
(* are cut out of the reply: the whole of it, what its fence encloses (the      *)
(* whole where there is no fence), and what reaches from the first `{` to the   *)
(* last `}` of that.  Each is <<v>>, or <<>> for a text that does not parse or   *)
(* is not there.                                                             *)
(***************************************************************************)
EXTENDS Naturals, Sequences, Functions

CONSTANTS
  Documents,    \* JSON values, with the values inside them
  Depth,        \* how deep each of them nests
  Subschemas    \* schemas, with the schemas inside them

KeysOf(v) == IF v.t = "object" THEN DOMAIN v.of ELSE {}
ItemsOf(v) == IF v.t = "array" THEN Range(v.of) ELSE {}

\* JSON text is finite, and so is what it nests.
ASSUME DocumentsAssumption ==
  /\ Depth \in [Documents -> Nat]
  /\ \A v \in Documents : \A e \in ItemsOf(v) \cup {v.of[k] : k \in KeysOf(v)} :
       e \in Documents /\ Depth[e] < Depth[v]
ASSUME SubschemasAssumption ==
  \A s \in Subschemas : {s.properties[k] : k \in DOMAIN s.properties} \cup Range(s.items)
                           \subseteq Subschemas

-----------------------------------------------------------------------------
\* The schema check.

TypeNames == {"object", "array", "string", "number", "integer", "boolean", "null"}

\* An integer is a number; 1e999 parses to Infinity, which is of neither kind.
MatchesType(expected, v) ==
  IF expected = "number" THEN v.t \in {"number", "integer"} /\ v.is # "Infinity"
  ELSE v.t = expected

\* Equal as JSON text, in which 1e999 reads `null`; the options of an enum are
\* scalars here.
SameJson(a, b) ==
  LET text(v) == IF v.is = "Infinity" THEN <<"null", "null">> ELSE <<v.t, v.is>>
  IN "is" \in DOMAIN a /\ "is" \in DOMAIN b /\ text(a) = text(b)

OneOf(v, options) == \E o \in options : SameJson(o, v)

Misshapen(s, v) ==
  LET known == s.type \cap TypeNames
  IN known # {} /\ \A t \in known : ~MatchesType(t, v)

\* What is wrong with a value itself, by kind, once its shape is right.
ProblemsHere(s, v) ==
  {"enum" : e \in {e \in Range(s.enum) : ~OneOf(v, e)}}
    \cup (IF v.t = "object" THEN {"missing" : k \in s.required \ KeysOf(v)} ELSE {})
    \cup (IF s.closed THEN {"unexpected" : k \in KeysOf(v) \ DOMAIN s.properties} ELSE {})

\* The values check() goes on to, each with its schema: declared keys and items.
Under(s, v) ==
  {<<s.properties[k], v.of[k]>> : k \in DOMAIN s.properties \cap KeysOf(v)}
    \cup (Range(s.items) \X ItemsOf(v))

\* The problems check() lists; a value of the wrong shape is one problem and is
\* not looked into.
Check[p \in Subschemas \X Documents] ==
  IF Misshapen(p[1], p[2]) THEN {"type"}
  ELSE ProblemsHere(p[1], p[2]) \cup UNION {Check[q] : q \in Under(p[1], p[2])}

\* As if nothing below the top of the value were looked at.
ValidAtTheTop(s, v) == ~Misshapen(s, v) /\ ProblemsHere(s, v) = {}

Valid(s, v) == Check[<<s, v>>] = {}

-----------------------------------------------------------------------------
\* Reading an object out of a reply.

\* What JSON's grammar says of the three texts: no JSON text begins with a fence;
\* one that begins with a brace is an object's, and an object's text reaches from
\* its first brace to its last.  Braces in prose or in a string may be the first or
\* the last, and then the span is of nothing, or of an object that nobody sent.
Readable(text) ==
  /\ \A read \in {text.whole, text.unfenced, text.span} :
       read = <<>> \/ \E v \in Documents : read = <<v>>
  /\ text.whole # <<>> => text.unfenced = text.whole
  /\ text.span # <<>> => text.span[1].t = "object"
  /\ text.unfenced # <<>> /\ text.unfenced[1].t = "object" => text.span = text.unfenced

\* The candidates that parse, in the order they are tried.
Candidates(text) == text.whole \o text.unfenced \o text.span

\* The first candidate that parses decides; <<>> stands for JsonParseError.
ParseJsonObject(text) ==
  LET parsed == Candidates(text)
  IN IF parsed # <<>> /\ parsed[1].t = "object" THEN <<parsed[1]>> ELSE <<>>

-----------------------------------------------------------------------------
\* The reference the check is compared with: a value is admitted when each keyword
\* of each schema holds at each place of the value it governs.

Places[p \in Subschemas \X Documents] ==
  {p} \cup UNION {Places[q] : q \in Under(p[1], p[2])}

Holds(s, v) ==
  /\ s.type \cap TypeNames # {} => \E t \in s.type \cap TypeNames : MatchesType(t, v)
  /\ \A e \in Range(s.enum) : OneOf(v, e)
  /\ v.t = "object" => s.required \subseteq DOMAIN v.of
  /\ s.closed => KeysOf(v) \subseteq DOMAIN s.properties

Admits(s, v) == \A p \in Places[<<s, v>>] : Holds(p[1], p[2])
=============================================================================
