----------------------------- MODULE MCCompletion -----------------------------
(* Two levels of schema and of value: enough for a nested key, an array item,  *)
(* an unexpected key at each level, a list of types and an unknown type name.  *)
EXTENDS Completion, FiniteSetsExt

Atom(t, x) == [t |-> t, is |-> x]
Object(f) == [t |-> "object", of |-> f]
Array(s) == [t |-> "array", of |-> s]

None == [x \in {} |-> {}]
Anything == [type |-> {}, enum |-> <<>>, required |-> {}, properties |-> None,
             closed |-> FALSE, items |-> <<>>]
Typed(T) == [Anything EXCEPT !.type = T]

Low == Atom("string", "low")
High == Atom("string", "high")
One == Atom("integer", "1")
Half == Atom("number", "0.5")
Huge == Atom("number", "Infinity")

Level == [Typed({"string", "null"}) EXCEPT !.enum = <<{Low, Atom("null", "null")}>>]
Verdict == [Typed({"object"}) EXCEPT !.required = {"level"},
                                     !.properties = [level |-> Level, score |-> Typed({"number"})],
                                     !.closed = TRUE]
Rows == [Typed({"object"}) EXCEPT !.properties = [rows |->
             [Typed({"array"}) EXCEPT !.items = <<Typed({"integer", "boolean", "int64"})>>]]]
Nested == [Typed({"object"}) EXCEPT !.required = {"rows"},
                                    !.properties = [rows |-> [Anything EXCEPT !.items = <<Verdict>>]]]

Loose == [Typed({"object"}) EXCEPT !.properties = [level |-> Typed({"int64"})]]

MCSchemas == {Verdict, Rows, Nested, Loose}

MCObjects ==
  {Object([level |-> Low]), Object([level |-> High, score |-> One]),
   Object([level |-> Low, score |-> Half]), Object([level |-> Low, score |-> Huge]),
   Object([score |-> One]), Object([level |-> Low, extra |-> One]),
   Object([rows |-> Array(<<One, Half>>)]), Object([rows |-> Array(<<One>>)]),
   Object([rows |-> Array(<<Object([level |-> Low]), Object([level |-> Half])>>)]),
   Object([rows |-> Array(<<Object([level |-> Low])>>)]), Object([rows |-> Low])}

Empty == Object(None)
LowOnly == Object([level |-> Low])
Sent == Atom("string", "{}")

\* The text of a value, as the whole reply or in a fence, with what its braces span.
Bare(v, spanned) == [whole |-> <<v>>, unfenced |-> <<v>>, span |-> spanned]
Fenced(v, spanned) == [whole |-> <<>>, unfenced |-> <<v>>, span |-> spanned]
\* Text that is no JSON, with what its braces span.
Prose(spanned) == [whole |-> <<>>, unfenced |-> <<>>, span |-> spanned]

MCTexts ==
  {Bare(o, <<o>>) : o \in MCObjects}
    \cup {Fenced(LowOnly, <<LowOnly>>), Prose(<<LowOnly>>)}
    \* no braces at all: 1
    \cup {Bare(One, <<>>), Fenced(One, <<>>)}
    \* `[{"level":"low"}]`, and two of the object, whose span is torn
    \cup {Bare(Array(<<LowOnly>>), <<LowOnly>>), Fenced(Array(<<LowOnly>>), <<LowOnly>>),
          Bare(Array(<<LowOnly, LowOnly>>), <<>>)}
    \* braces in strings: `"{}"`, `["{}"]`, and `["{", ":1}"]`, whose span is no JSON
    \cup {Bare(Sent, <<Empty>>), Bare(Array(<<Sent>>), <<Empty>>),
          Bare(Array(<<Atom("string", "{"), Atom("string", ":1}")>>), <<>>)}
    \* braces in prose: `Result: ["{}"]` reads as the empty object;
    \* `Using {level}: {"level":"low"}` as nothing, and so does prose without braces
    \cup {Prose(<<Empty>>), Prose(<<>>)}

RECURSIVE Inside(_), DepthOf(_), SchemasIn(_)
Inner(v) == ItemsOf(v) \cup {v.of[k] : k \in KeysOf(v)}
Inside(v) == {v} \cup UNION {Inside(e) : e \in Inner(v)}
DepthOf(v) == IF Inner(v) = {} THEN 0 ELSE 1 + Max({DepthOf(e) : e \in Inner(v)})
SchemasIn(s) ==
  {s} \cup UNION {SchemasIn(q) : q \in {s.properties[k] : k \in DOMAIN s.properties}
                                         \cup Range(s.items)}

MCDocuments ==
  UNION {Inside(v) : v \in UNION {Range(t.whole) \cup Range(t.unfenced) \cup Range(t.span)
                                    : t \in MCTexts}}
MCDepth == [v \in MCDocuments |-> DepthOf(v)]
MCSubschemas == UNION {SchemasIn(s) : s \in MCSchemas}
=============================================================================
