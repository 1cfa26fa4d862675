---------------------------- MODULE SchemaSubset ----------------------------
(***************************************************************************)
(* The JSON Schema validator of the contracts (internal/jsonschema): which *)
(* documents validate accepts, and which schemas audit finds nothing wrong *)
(* with, beside what draft 2020-12 says of the same keywords.              *)
(*                                                                         *)
(* A schema is a record with a field for each keyword it has; annotations  *)
(* (title, format, ...) are left out.  A document is a record whose field  *)
(* is tells its kind.  Numbers are counted in halves.  A pattern is one    *)
(* that regexp.Compile takes ("re2") or not ("other": a lookahead, say).   *)
(***************************************************************************)
EXTENDS Naturals, Sequences

Has(s, keyword) == keyword \in DOMAIN s

\* In the place of a schema: another form (true, a list of schemas).
OtherForm   == [form |-> "other"]
IsSchema(s) == ~Has(s, "form")

-----------------------------------------------------------------------------
(* audit.go *)

\* Slip: a keyword is listed that validate does not implement.
SupportedAndMore ==
    {"type", "properties", "required", "additionalProperties", "enum", "const",
     "pattern", "minLength", "maxLength", "minimum", "maximum", "items"}

supportedKeywords ==
    {"type", "properties", "required", "additionalProperties", "enum", "const",
     "pattern", "minLength", "minimum", "maximum", "items"}

supportedTypes == {"object", "array", "string", "integer", "number", "boolean"}

RECURSIVE Clean(_)

\* audit: no finding for s.
Clean(s) ==
    /\ DOMAIN s \subseteq supportedKeywords
    /\ Has(s, "type") => s.type \in supportedTypes
    /\ Has(s, "additionalProperties") => s.additionalProperties \in {"true", "false"}
    /\ Has(s, "properties") =>
         \A p \in DOMAIN s.properties : IsSchema(s.properties[p]) /\ Clean(s.properties[p])
    /\ Has(s, "items") => IsSchema(s.items) /\ Clean(s.items)

-----------------------------------------------------------------------------
(* jsonschema.go *)

IsInteger(v) == v.n % 2 = 0

InRange(s, v) ==
    /\ Has(s, "minimum") => v.n >= s.minimum
    /\ Has(s, "maximum") => v.n <= s.maximum

\* The length of a string is that of its bytes; a pattern that regexp.Compile
\* does not take is passed over.
StringFits(s, v) ==
    /\ Has(s, "minLength") => v.bytes >= s.minLength
    /\ Has(s, "pattern") /\ s.pattern = "re2" => v.matches

\* Slip: only properties with a schema are looked for.
RequiredIfKnown(s, v) ==
    Has(s, "required") /\ Has(s, "properties") =>
        s.required \cap DOMAIN s.properties \subseteq DOMAIN v.o

RequiredPresent(s, v) == Has(s, "required") => s.required \subseteq DOMAIN v.o

Known(s, key) ==
    Has(s, "properties") /\ key \in DOMAIN s.properties /\ IsSchema(s.properties[key])

RECURSIVE Accepts(_, _)

\* validate: no violation of s by v.  A const decides alone; without a type no
\* keyword but enum is looked at.
Accepts(s, v) ==
    IF Has(s, "const") THEN v = s.const
    ELSE /\ Has(s, "enum") => v \in s.enum
         /\ Has(s, "type") =>
              CASE s.type = "object" ->
                     /\ v.is = "object"
                     /\ RequiredPresent(s, v)
                     /\ \A key \in DOMAIN v.o :
                          IF Known(s, key)
                          THEN Accepts(s.properties[key], v.o[key])
                          ELSE Has(s, "additionalProperties") => s.additionalProperties # "false"
                [] s.type = "array" ->
                     /\ v.is = "array"
                     /\ Has(s, "items") /\ IsSchema(s.items) =>
                          \A i \in DOMAIN v.a : Accepts(s.items, v.a[i])
                [] s.type = "string"  -> v.is = "string" /\ StringFits(s, v)
                [] s.type = "integer" -> v.is = "number" /\ IsInteger(v) /\ InRange(s, v)
                [] s.type = "number"  -> v.is = "number" /\ InRange(s, v)
                [] s.type = "boolean" -> v.is = "boolean"
                [] OTHER -> TRUE

-----------------------------------------------------------------------------
(* draft 2020-12: every keyword speaks for itself, about one kind of value *)

HasType(type, v) ==
    CASE type = "integer" -> v.is = "number" /\ IsInteger(v)
      [] type = "list"    -> v.is \in {"string", "null"}    \* ["string", "null"]
      [] OTHER            -> v.is = type

RECURSIVE Satisfies(_, _)

Satisfies(s, v) ==
    /\ Has(s, "const") => v = s.const
    /\ Has(s, "enum") => v \in s.enum
    /\ Has(s, "type") => HasType(s.type, v)
    /\ v.is = "number" => InRange(s, v)
    /\ v.is = "string" =>
         /\ Has(s, "minLength") => v.chars >= s.minLength
         /\ Has(s, "maxLength") => v.chars <= s.maxLength
         /\ Has(s, "pattern") => v.matches
    /\ v.is = "array" /\ Has(s, "items") =>
         \A i \in DOMAIN v.a : IsSchema(s.items) => Satisfies(s.items, v.a[i])
    /\ v.is = "object" =>
         /\ Has(s, "required") => s.required \subseteq DOMAIN v.o
         /\ Has(s, "properties") =>
              \A key \in DOMAIN v.o \cap DOMAIN s.properties :
                  IsSchema(s.properties[key]) => Satisfies(s.properties[key], v.o[key])
         /\ Has(s, "additionalProperties") =>
              \/ s.additionalProperties = "true"
              \/ /\ s.additionalProperties = "false"
                 /\ DOMAIN v.o \subseteq IF Has(s, "properties") THEN DOMAIN s.properties ELSE {}

-----------------------------------------------------------------------------
(* what audit's silence is worth *)

\* The types a keyword has something to say about.
AppliesTo ==
    [minLength |-> {"string"}, pattern |-> {"string"},
     minimum |-> {"integer", "number"}, maximum |-> {"integer", "number"},
     items |-> {"array"}, properties |-> {"object"}, required |-> {"object"},
     additionalProperties |-> {"object"}]

\* A keyword of s that validate acts on: const before all others, then enum and
\* type, and the rest only beside the type they apply to.
Looked(s, k) ==
    IF Has(s, "const") THEN k = "const"
    ELSE \/ k \in {"enum", "type"}
         \/ /\ Has(s, "type") /\ s.type \in AppliesTo[k]
            /\ k = "pattern" => s.pattern = "re2"

RECURSIVE Enforced(_)

\* The part of an audited schema that stands whatever the document: the keywords
\* validate acts on, with a minLength no byte count can mistake.
Enforced(s) ==
    [k \in {k \in DOMAIN s : Looked(s, k)} |->
        CASE k = "minLength"  -> IF s.minLength > 1 THEN 1 ELSE s.minLength
          [] k = "items"      -> Enforced(s.items)
          [] k = "properties" -> [p \in DOMAIN s.properties |-> Enforced(s.properties[p])]
          [] OTHER            -> s[k]]
=============================================================================
