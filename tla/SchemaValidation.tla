-------------------------- MODULE SchemaValidation --------------------------
(* The schema of an extract call: the walk that admits it before anything   *)
(* is fetched, and the validation of the model's answer against it - a walk *)
(* that collects the pattern tests, one worker that runs them all under one *)
(* deadline, and a second walk that decides with their results.             *)
(*                                                                          *)
(* A JSON value is [t, ...]; a schema is [t |-> "true" / "false" / "junk" / *)
(* "tuple"] or a node [t |-> "node", id, k, bad]: its keywords and those of *)
(* them whose value has not the form the keyword wants.  Every walk is a    *)
(* recursive function on the schemas.                                       *)
EXTENDS Integers, Sequences, FiniteSets, FiniteSetsExt, SequencesExt

CONSTANTS
  Schemas, Values,    \* what may be sent, with all that is nested in it
  Height, Tallest,    \* how deep each of them nests, at most Tallest
  Matches,            \* pattern -> the strings it matches
  Refused, Broken,    \* patterns toRegExp refuses, patterns that do not compile
  Multiples,          \* <<n, m>>: isMultipleOf takes n for a multiple of m
  SUPPORTED_SCHEMA_KEYS, EXTRACT_SCHEMA_KNOB_KEYS,
  MAX_SCHEMA_DEPTH, MAX_PATTERN_VALUE_LENGTH

VARIABLES
  given,     \* the schema as the caller sent it
  value,     \* the model's answer
  at,        \* "input", "collect", "worker", "check", "done"
  tests,     \* the collected pattern tests
  byNode,    \* their results
  verdict
schemaVars == <<given, value, at, tests, byNode, verdict>>

Has(s, key) == key \in DOMAIN s.k
Get(s, key, default) == IF Has(s, key) THEN s.k[key] ELSE default
Wrong(s, keys) == s.bad \cap keys # {}

(* schemaList and objectMap: nothing, if the form is wrong.                 *)
Listing(s, key) == IF key \in s.bad THEN << >> ELSE Get(s, key, << >>)
Listed(s) == Listing(s, "properties")

-----------------------------------------------------------------------------
(* What the keywords of one node ask of a value, nested schemas and the     *)
(* pattern apart.  Numbers are in halves, so that 2 is the integer 1.       *)
MatchesType(v, type) ==
  CASE type = "integer" -> v.t = "number" /\ v.n % 2 = 0 [] OTHER -> v.t = type
ConstHolds(v, s) == Has(s, "const") => v = s.k["const"]
EnumHolds(v, s) == Has(s, "enum") => \E i \in DOMAIN s.k["enum"] : s.k["enum"][i] = v
TypeHolds(v, s) == Has(s, "type") => \E type \in s.k["type"] : MatchesType(v, type)
LengthHolds(v, s) ==
  /\ Has(s, "minLength") => v.len >= s.k["minLength"]
  /\ Has(s, "maxLength") => v.len <= s.k["maxLength"]
(* An exclusive bound is a number, or the flag of the older drafts that     *)
(* makes the plain bound strict.                                            *)
BoundsHold(v, s) ==
  LET strict(key) == Has(s, key) /\ s.k[key].flag IN
  /\ Has(s, "minimum") => IF strict("exclusiveMinimum") THEN v.n > s.k["minimum"]
                          ELSE v.n >= s.k["minimum"]
  /\ Has(s, "maximum") => IF strict("exclusiveMaximum") THEN v.n < s.k["maximum"]
                          ELSE v.n <= s.k["maximum"]
  /\ Has(s, "exclusiveMinimum") => strict("exclusiveMinimum") \/ v.n > s.k["exclusiveMinimum"].n
  /\ Has(s, "exclusiveMaximum") => strict("exclusiveMaximum") \/ v.n < s.k["exclusiveMaximum"].n

(* isMultipleOf rounds: what it accepts is not what is divisible.           *)
Divides(v, s) ==
  Has(s, "multipleOf") => s.k["multipleOf"] > 0 /\ <<v.n, s.k["multipleOf"]>> \in Multiples
NumberHolds(v, s) == BoundsHold(v, s) /\ Divides(v, s)
Names(v) == DOMAIN v.props
CountHolds(n, s, min, max) ==
  /\ Has(s, min) => n >= s.k[min]
  /\ Has(s, max) => n <= s.k[max]
RequiredHolds(v, s) == Get(s, "required", {}) \subseteq Names(v)
UniqueHolds(v, s) == Get(s, "uniqueItems", FALSE) => Len(v.items) = Cardinality(ToSet(v.items))

-----------------------------------------------------------------------------
(* A result [r, asked]: "ok", "invalid" or "unsupported", and the pattern   *)
(* tests that were met on the way.                                          *)
Result(r) == [r |-> r, asked |-> {}]
Need(holds) == Result(IF holds THEN "ok" ELSE "invalid")

(* One step after another, to the first that fails.                         *)
Then(first, second) ==
  IF first.r # "ok" THEN first ELSE [second EXCEPT !.asked = @ \cup first.asked]
UpTo(results, stops) ==
  LET bad == {i \in DOMAIN results : results[i].r \in stops}
      reached == {i \in DOMAIN results : \A j \in bad : i <= j}
  IN [r |-> IF bad = {} THEN "ok" ELSE results[Min(bad)].r,
      asked |-> UNION {results[i].asked : i \in reached}]
InOrder(results) == UpTo(results, {"invalid", "unsupported"})

(* Mutant: the composites of the collecting walk stop like the others. *)
Suppressed_Nowhere(result, pass) == result

Suppressed(result, pass) == IF pass.collecting THEN [result EXCEPT !.r = "ok"] ELSE result

(* validateString: in the first walk a pattern is noted, once for each node *)
(* and value, in the second its result is looked up.                        *)
Key(v, s) == <<s, v.s>>
Pattern(v, s, pass) ==
  IF s.k["pattern"] \in Refused THEN Result("unsupported")
  ELSE IF s.k["pattern"] \in Broken \/ v.len > MAX_PATTERN_VALUE_LENGTH THEN Result("invalid")
  ELSE [Need(pass.collecting \/ (Key(v, s) \in DOMAIN pass.byNode /\ pass.byNode[Key(v, s)]))
          EXCEPT !.asked = {Key(v, s)}]
ValidateString(v, s, pass) ==
  IF Wrong(s, {"minLength", "maxLength", "pattern"}) THEN Result("invalid")
  ELSE IF v.t # "string" THEN Result("ok")
  ELSE Then(Need(LengthHolds(v, s)),
            IF Has(s, "pattern") THEN Pattern(v, s, pass) ELSE Result("ok"))
ValidateNumber(v, s) ==
  IF Wrong(s, {"minimum", "maximum", "multipleOf", "exclusiveMinimum", "exclusiveMaximum"})
  THEN Result("invalid") ELSE Need(v.t = "number" => NumberHolds(v, s))
ValidateEnum(v, s) == Need(~Wrong(s, {"enum"}) /\ ConstHolds(v, s) /\ EnumHolds(v, s))
ValidateType(v, s) == Need(~Wrong(s, {"type"}) /\ TypeHolds(v, s))

(* walk[s][v] is the result for a nested schema.                            *)
Each(v, list, walk) == [i \in DOMAIN list |-> walk[list[i]][v]]
Conjunction(v, s, walk, pass) ==
  IF Wrong(s, {"allOf"}) THEN Result("invalid")
  ELSE UpTo(Each(v, Listing(s, "allOf"), walk),
            IF pass.collecting THEN {} ELSE {"invalid", "unsupported"})
Disjunction(v, s, key, walk, pass) ==
  LET results == Each(v, Listing(s, key), walk)
      walked == UpTo(results, {"unsupported"})
      matches == Cardinality({i \in DOMAIN results : results[i].r = "ok"})
      fits == IF key = "oneOf" THEN matches = 1 ELSE matches > 0
  IN IF Wrong(s, {key}) THEN Result("invalid")
     ELSE Suppressed(IF Listing(s, key) = << >> \/ walked.r = "unsupported" \/ fits THEN walked
                     ELSE [walked EXCEPT !.r = "invalid"], pass)
Negation(v, s, walk, pass) ==
  IF ~Has(s, "not") THEN Result("ok")
  ELSE [walk[s.k["not"]][v] EXCEPT !.r = IF @ = "unsupported" THEN @
                                        ELSE IF @ = "invalid" \/ pass.collecting THEN "ok"
                                        ELSE "invalid"]
ValidateComposites(v, s, walk, pass) ==
  Then(Conjunction(v, s, walk, pass),
  Then(Disjunction(v, s, "anyOf", walk, pass),
  Then(Disjunction(v, s, "oneOf", walk, pass), Negation(v, s, walk, pass))))

(* Properties in the order of the schema, then the names it does not list.  *)
Properties(v, s, walk) ==
  InOrder([i \in DOMAIN Listed(s) |->
    IF Listed(s)[i].name \in Names(v) THEN walk[Listed(s)[i].schema][v.props[Listed(s)[i].name]]
    ELSE Result("ok")])
Others(v, s) == SetToSeq(Names(v) \ {Listed(s)[i].name : i \in DOMAIN Listed(s)})
AdditionalProperties(v, s, walk) ==
  IF Wrong(s, {"additionalProperties"}) THEN Result("invalid")
  ELSE IF ~Has(s, "additionalProperties") THEN Result("ok")
  ELSE InOrder([i \in DOMAIN Others(v, s) |->
         walk[s.k["additionalProperties"]][v.props[Others(v, s)[i]]]])
ValidateObject(v, s, walk) ==
  IF v.t # "object" THEN Result("ok")
  ELSE Then(Need(/\ ~Wrong(s, {"minProperties", "maxProperties"})
                 /\ CountHolds(Cardinality(Names(v)), s, "minProperties", "maxProperties")),
       Then(Need(~Wrong(s, {"required"}) /\ RequiredHolds(v, s)),
       Then(Need(~Wrong(s, {"properties"})),
       Then(Properties(v, s, walk), AdditionalProperties(v, s, walk)))))
ValidateArray(v, s, walk) ==
  IF v.t # "array" THEN Result("ok")
  ELSE Then(Need(/\ ~Wrong(s, {"minItems", "maxItems"})
                 /\ CountHolds(Len(v.items), s, "minItems", "maxItems")),
       Then(Need(~Wrong(s, {"uniqueItems"}) /\ UniqueHolds(v, s)),
            IF ~Has(s, "items") THEN Result("ok")
            ELSE IF s.k["items"].t = "tuple" THEN Result("invalid")
            ELSE InOrder([i \in DOMAIN v.items |-> walk[s.k["items"]][v.items[i]]])))

Validated(v, s, walk, pass) ==
  IF s.t = "true" THEN Result("ok")
  ELSE IF s.t # "node" THEN Result("invalid")
  ELSE IF ~(DOMAIN s.k \subseteq SUPPORTED_SCHEMA_KEYS) THEN Result("unsupported")
  ELSE Then(ValidateComposites(v, s, walk, pass),
       Then(ValidateEnum(v, s),
       Then(ValidateType(v, s),
       Then(ValidateString(v, s, pass),
       Then(ValidateNumber(v, s),
       Then(ValidateObject(v, s, walk), ValidateArray(v, s, walk)))))))
ValidateAt(pass) ==
  LET walk[s \in Schemas] == [v \in Values |-> Validated(v, s, walk, pass)] IN walk

-----------------------------------------------------------------------------
(* The boundary.  A knob of the tool that a client merged into the schema   *)
(* is taken out of it, if its value is one the tool accepts.                *)
RecoverExtractSchemaKnobs(s) ==
  IF s.t # "node" THEN s
  ELSE LET gone == (EXTRACT_SCHEMA_KNOB_KEYS \ s.bad) \cap DOMAIN s.k IN
       [s EXCEPT !.k = [key \in DOMAIN s.k \ gone |-> s.k[key]]]

(* Mutant: the composites are not looked into. *)
Children_PlainOnly(s) ==
  {Listed(s)[i].schema : i \in DOMAIN Listed(s)}
    \cup {s.k[key] : key \in {"items", "additionalProperties"} \cap DOMAIN s.k}

Children(s) ==
  {Listed(s)[i].schema : i \in DOMAIN Listed(s)}
    \cup {s.k[key] : key \in {"items", "additionalProperties", "not"} \cap DOMAIN s.k}
    \cup UNION {ToSet(Listing(s, key)) : key \in {"allOf", "anyOf", "oneOf"}}
Acceptable[s \in Schemas] == [depth \in Nat |->
  s.t = "node" =>
    /\ depth <= MAX_SCHEMA_DEPTH
    /\ DOMAIN s.k \subseteq SUPPORTED_SCHEMA_KEYS
    /\ ~Wrong(s, {"pattern"}) /\ (Has(s, "pattern") => s.k["pattern"] \notin Refused \cup Broken)
    /\ Has(s, "items") => s.k["items"].t # "tuple"
    /\ \A child \in Children(s) : Acceptable[child][depth + 1]]

(* What JSON.parse gives: finite, nested without cycles.                    *)
Inside(s) ==
  {property.schema : property \in ToSet(Listed(s))}
    \cup {s.k[key] : key \in {"items", "additionalProperties", "not"} \cap DOMAIN s.k}
    \cup UNION {ToSet(Listing(s, key)) : key \in {"allOf", "anyOf", "oneOf"}}
Parts(v) == CASE v.t = "array" -> ToSet(v.items)
              [] v.t = "object" -> {v.props[name] : name \in Names(v)}
              [] OTHER -> {}
ASSUME SchemaAssumption ==
  /\ Tallest \in Nat /\ Height \in [Schemas \cup Values -> 0..Tallest]
  /\ \A s \in Schemas :
       /\ s.t \in {"true", "false", "junk", "tuple", "node"}
       /\ RecoverExtractSchemaKnobs(s) \in Schemas
       /\ s.t = "node" =>
            /\ \A key \in {"allOf", "anyOf", "oneOf"} : Listing(s, key) \in Seq(Schemas)
            /\ Listed(s) \in Seq([name : STRING, schema : Schemas])
            /\ \A child \in Inside(s) : child \in Schemas /\ Height[child] < Height[s]
  /\ \A v \in Values :
       /\ v.t = "number" => v.n \in Int    \* none is infinite, as 1e999 would be
       /\ v.t = "array" => v.items \in Seq(Values)
       /\ v.t = "object" => IsFiniteSet(Names(v))
       /\ \A part \in Parts(v) : part \in Values /\ Height[part] < Height[v]

-----------------------------------------------------------------------------
Schema == RecoverExtractSchemaKnobs(given)
SchemaInit ==
  /\ given \in Schemas /\ value \in Values
  /\ at = "input" /\ tests = {} /\ byNode = << >> /\ verdict = "none"

(* assertExtractSchemaSupported; everything else of the call is between     *)
(* this and the answer.                                                     *)
Submit ==
  /\ at = "input"
  /\ IF Acceptable[Schema][0] THEN at' = "collect" /\ UNCHANGED verdict
     ELSE at' = "done" /\ verdict' = "refused"
  /\ UNCHANGED <<given, value, tests, byNode>>

(* Each pair of a node and a value is tested once.                          *)
Collect ==
  /\ at = "collect"
  /\ tests' = ValidateAt([collecting |-> TRUE])[Schema][value].asked
  /\ at' = IF tests' = {} THEN "check" ELSE "worker"
  /\ UNCHANGED <<given, value, byNode, verdict>>

Tested(t) == t[2] \in Matches[t[1].k["pattern"]]
WorkerAnswers ==
  /\ at = "worker"
  /\ byNode' = [t \in tests |-> Tested(t)]
  /\ at' = "check"
  /\ UNCHANGED <<given, value, tests, verdict>>
(* It cannot be started, breaks, exits or is still at it when the budget of *)
(* the whole batch is spent: nothing is verified.                           *)
Unverified ==
  /\ at = "worker"
  /\ at' = "done" /\ verdict' = "invalid"
  /\ UNCHANGED <<given, value, tests, byNode>>

Check ==
  /\ at = "check"
  /\ verdict' = ValidateAt([collecting |-> FALSE, byNode |-> byNode])[Schema][value].r
  /\ at' = "done"
  /\ UNCHANGED <<given, value, tests, byNode>>

SchemaNext == Submit \/ Collect \/ Check \/ WorkerAnswers \/ Unverified
SchemaSpec == SchemaInit /\ [][SchemaNext]_schemaVars
-----------------------------------------------------------------------------
(* What JSON Schema says of a value, over what the patterns really match.   *)
Fitting(v, list, conforms) == Cardinality({i \in DOMAIN list : conforms[list[i]][v]})
ObjectConforms(v, s, conforms) ==
  /\ CountHolds(Cardinality(Names(v)), s, "minProperties", "maxProperties")
  /\ RequiredHolds(v, s)
  /\ \A i \in DOMAIN Listed(s) : Listed(s)[i].name \in Names(v) =>
       conforms[Listed(s)[i].schema][v.props[Listed(s)[i].name]]
  /\ Has(s, "additionalProperties") =>
       \A name \in Names(v) \ {Listed(s)[i].name : i \in DOMAIN Listed(s)} :
         conforms[s.k["additionalProperties"]][v.props[name]]
ArrayConforms(v, s, conforms) ==
  /\ CountHolds(Len(v.items), s, "minItems", "maxItems")
  /\ UniqueHolds(v, s)
  /\ Has(s, "items") => \A i \in DOMAIN v.items : conforms[s.k["items"]][v.items[i]]
CompositesConform(v, s, conforms) ==
  /\ \A i \in DOMAIN Listing(s, "allOf") : conforms[Listing(s, "allOf")[i]][v]
  /\ Listing(s, "anyOf") # << >> => Fitting(v, Listing(s, "anyOf"), conforms) > 0
  /\ Listing(s, "oneOf") # << >> => Fitting(v, Listing(s, "oneOf"), conforms) = 1
  /\ Has(s, "not") => ~conforms[s.k["not"]][v]
NodeConforms(v, s, conforms) ==
  /\ CompositesConform(v, s, conforms)
  /\ ConstHolds(v, s) /\ EnumHolds(v, s) /\ TypeHolds(v, s)
  /\ v.t = "number" => BoundsHold(v, s) /\ (Has(s, "multipleOf") => v.n % s.k["multipleOf"] = 0)
  /\ v.t = "string" => /\ LengthHolds(v, s)
                       /\ Has(s, "pattern") => v.s \in Matches[s.k["pattern"]]
  /\ v.t = "array" => ArrayConforms(v, s, conforms)
  /\ v.t = "object" => ObjectConforms(v, s, conforms)
Conforms[s \in Schemas] ==
  [v \in Values |-> s.t # "false" /\ (s.t = "node" => NodeConforms(v, s, Conforms))]

(* A schema is well formed if it can be read at all and its divisors are    *)
(* positive and, for the numbers there are, not mistaken by the rounding.   *)
Exact(s) ==
  Has(s, "multipleOf") =>
    /\ s.k["multipleOf"] > 0
    /\ \A v \in Values : v.t = "number" =>
         (<<v.n, s.k["multipleOf"]>> \in Multiples <=> v.n % s.k["multipleOf"] = 0)
WellFormed[s \in Schemas] ==
  /\ s.t \notin {"junk", "tuple"}
  /\ s.t = "node" => s.bad = {} /\ Exact(s) /\ \A child \in Inside(s) : WellFormed[child]
TooLong[v \in Values] ==
  \/ v.t = "string" /\ v.len > MAX_PATTERN_VALUE_LENGTH
  \/ \E part \in Parts(v) : TooLong[part]

(* Of a well-formed schema, one whose divisors isMultipleOf is exact for,   *)
(* the verdict is the truth: an answer of finite numbers is told as         *)
(* conforming if and only if it conforms, whatever patterns the composites  *)
(* hold and however often a node meets a value; the one other way to        *)
(* "invalid" is a batch of tests that nobody finished.                      *)
VerdictSound ==
  at = "done" /\ verdict # "refused" /\ WellFormed[Schema] /\ ~TooLong[value] =>
    /\ verdict = "ok" => Conforms[Schema][value]
    /\ verdict = "invalid" => ~Conforms[Schema][value] \/ (tests # {} /\ byNode = << >>)

(* The boundary and the validator agree: a schema that was let in, and paid *)
(* for, is never found to hold something that cannot be verified.           *)
BoundaryAgrees == verdict # "unsupported"
=============================================================================
