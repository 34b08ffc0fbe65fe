------------------------------ MODULE Completion ------------------------------
(***************************************************************************)
(* A model call as the worker makes it: the exchange and its re-asks           *)
(* (Exchange) over the replies and schemas of SchemaCheck.  A configuration     *)
(* gives Exchange's Parsed and Admitted the values ParseJsonObject and Valid.    *)
(***************************************************************************)
EXTENDS Exchange, SchemaCheck

\* assertValidDefinition admits no other schema at the top: the parser reads objects.
Definable(s) == s.type = {"object"}

ASSUME SchemasAssumption ==
  /\ \A s \in Schemas : s \in Subschemas /\ Definable(s)
  /\ \A text \in Texts : Readable(text)
\* What Exchange leaves open is what the worker calls.
ASSUME ReaderAssumption ==
  /\ \A text \in Texts : Parsed(text) = ParseJsonObject(text)
  /\ \A s \in Schemas, v \in Documents : Admitted(s, v) = Valid(s, v)

-----------------------------------------------------------------------------
(* Properties.                                                              *)

\* What a call returns as ok, or as schema-invalid, is the object between the first
\* brace and the last of its reply, wrapped however it is, and the reference says
\* which of the two it is.  Only a reply that reads as no object is given up as
\* unparseable: one that reads as something else, or holds no span that parses.  And
\* no call is given up before every attempt is spent (complete.ts 144-214, schema.ts
\* 89-219).
VerdictIsRight ==
  /\ result.is \in {"ok", "schema-invalid"} =>
       /\ result.text.span # <<>> /\ result.value = result.text.span
       /\ result.is = "ok" <=> Admits(schema, result.value[1])
  /\ result.is = "unparseable" =>
       IF result.text.unfenced = <<>> THEN result.text.span = <<>>
       ELSE result.text.unfenced[1].t # "object"
  /\ result.is \in {"schema-invalid", "unparseable"} => attempts = MaxReasks + 1
=============================================================================
