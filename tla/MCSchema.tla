------------------------------ MODULE MCSchema ------------------------------
(* The instance of SchemaValidation that TLC checks: patterns in every      *)
(* composite and beside it, the same node over several values, several      *)
(* nodes over one value, leaves, malformed and refused schemas.             *)
EXTENDS SchemaValidation, TLC
Str(s, len) == [t |-> "string", s |-> s, len |-> len]
Num(n) == [t |-> "number", n |-> n]
Arr(items) == [t |-> "array", items |-> items]
Obj(props) == [t |-> "object", props |-> props]
Answers == <<Str("a", 1), Str("b", 1), Str("aa", 2), Str("aaaa", 4), Num(2), Num(3), [t |-> "null"],
  Arr(<<Str("a", 1), Str("b", 1)>>), Arr(<<Str("a", 1), Str("a", 1)>>), Arr(<<Num(2), Str("aa", 2)>>),
  Obj([x |-> Str("a", 1)]), Obj([x |-> Str("b", 1), y |-> Str("a", 1)]), Obj([y |-> Arr(<<Num(4)>>)])>>
MCMatches == ("^a" :> {"a", "aa", "aaaa"}) @@ ("^a$" :> {"a"}) @@ ("^b$" :> {"b"})

(* isMultipleOf is exact for the divisor 1 (two halves); 5 stands for one   *)
(* so large that its quotient passes for 0, as that of 1 by 1e15 does.      *)
MCMultiples == {<<n, 2>> : n \in {2, 4}} \cup {<<2, 5>>}

True == [t |-> "true"]
False == [t |-> "false"]
Junk == [t |-> "junk"]
Node(id, k) == [t |-> "node", id |-> id, k |-> k, bad |-> {}]
Bad(id, k, bad) == [t |-> "node", id |-> id, k |-> k, bad |-> bad]
Pat(id, p) == Node(id, "pattern" :> p)
A(id) == Pat(id, "^a")
Property(name, schema) == [name |-> name, schema |-> schema]
Long == Node(1, "minLength" :> 2)
Sent == <<
  True, False, Junk, A(1),
  Node(1, "not" :> Pat(2, "^a$") @@ "pattern" :> "^b$"),
  Node(1, "not" :> A(2)), Node(1, "not" :> Node(2, "not" :> A(3))),
  Node(1, "allOf" :> <<A(2), Pat(3, "^a$")>>),
  Node(1, "allOf" :> <<Pat(2, "^b$"), Node(3, "anyOf" :> <<A(4), Long>>)>>),
  Node(1, "anyOf" :> <<Pat(2, "^b$"), Node(3, "type" :> {"integer", "null"})>>),
  Node(1, "anyOf" :> << >> @@ "type" :> {"string"}),
  Node(1, "oneOf" :> <<A(2), Pat(3, "^a$")>>),
  Node(1, "oneOf" :> <<A(2), Pat(3, "^b$")>> @@ "pattern" :> "^a$"),
  Node(1, "type" :> {"array"} @@ "items" :> A(2)),
  Node(1, "items" :> Node(2, "oneOf" :> <<A(3), Pat(4, "^b$")>>) @@ "uniqueItems" :> TRUE),
  Node(1, "minItems" :> 2 @@ "maxItems" :> 2 @@ "items" :> Node(2, "not" :> Pat(3, "^b$"))),
  Node(1, "properties" :> <<Property("x", A(2)), Property("y", Pat(3, "^a$"))>>
          @@ "required" :> {"x"}),
  Node(1, "properties" :> <<Property("x", True)>> @@ "additionalProperties" :> A(2)
          @@ "minProperties" :> 1),
  Node(1, "properties" :> <<Property("y", Node(2, "items" :> Node(3, "minimum" :> 2)))>>
          @@ "additionalProperties" :> False),
  Node(1, "minimum" :> 2 @@ "exclusiveMinimum" :> [flag |-> TRUE] @@ "multipleOf" :> 2), Node(1, "multipleOf" :> 5),
  Node(1, "exclusiveMaximum" :> [flag |-> FALSE, n |-> 3]),
  Node(1, "maximum" :> 2 @@ "type" :> {"number", "string"} @@ "maxLength" :> 1),
  Node(1, "const" :> Str("a", 1)), Node(1, "enum" :> <<Num(2), Str("b", 1)>>),
  Node(1, "anyOf" :> <<Pat(2, "(a+)+"), A(3)>>), Node(1, "not" :> Node(2, "format" :> "email")),
  Node(1, "items" :> [t |-> "tuple"]), Node(1, "oneOf" :> <<A(2), Pat(3, "[")>>),
  Node(1, "budget" :> 1 @@ "pattern" :> "^a"), Bad(1, "budget" :> 1, {"budget"}),
  Bad(1, "anyOf" :> << >> @@ "type" :> {"string"}, {"anyOf"}),
  Node(1, "not" :> Bad(2, "minLength" :> 0, {"minLength"})),
  Node(1, "not" :> Node(2, "not" :> Node(3, "not" :> Node(4, "not" :> A(5)))))>>
(* They, and what is nested in them or left of them without the knobs.      *)
Below(x) == IF x.t \in {"true", "false", "junk", "tuple"} THEN {}
            ELSE IF x.t = "node" THEN Inside(x) ELSE Parts(x)
RECURSIVE Nested(_), PartsOf(_), Tall(_)
Nested(s) == {s} \cup (IF s.t = "node" THEN UNION {Nested(c) : c \in Inside(s)} ELSE {})
PartsOf(v) == {v} \cup UNION {PartsOf(p) : p \in Parts(v)}
Tall(below) == IF below = {} THEN 0 ELSE 1 + Max({Tall(Below(x)) : x \in below})
MCSchemas == UNION {Nested(s) \cup {RecoverExtractSchemaKnobs(s)} : s \in ToSet(Sent)}
MCValues == UNION {PartsOf(v) : v \in ToSet(Answers)}
MCHeight == [x \in MCSchemas \cup MCValues |-> Tall(Below(x))]
MCSupported == {"additionalProperties", "allOf", "anyOf", "const", "enum", "exclusiveMaximum",
  "exclusiveMinimum", "items", "maxItems", "maxLength", "maxProperties", "maximum", "minItems",
  "minLength", "minProperties", "minimum", "multipleOf", "not", "oneOf", "pattern", "properties",
  "required", "type", "uniqueItems"}
=============================================================================
