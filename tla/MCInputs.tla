------------------------------ MODULE MCInputs ------------------------------
(***************************************************************************)
(* The rules the worker applies to what it is given, each a function of one *)
(* input: the environment (WorkerConfig), the text of a path (PathInputs), a *)
(* contract and a document (SchemaSubset).  The inputs are independent, so  *)
(* a behaviour moves one of them and leaves the others at a sample value.   *)
(***************************************************************************)
EXTENDS WorkerConfig, PathInputs, Functions

S == INSTANCE SchemaSubset

VARIABLES schema, document

\* Half = 128 and four units a millisecond: a timeout of 32 and more
\* milliseconds overflows.
Counts   == {NaN(Unset), Number(0), Number(64), Number(65)}
Renders  == {NaN(Unset), NaN(Bad), Number(0), Number(3), Number(40)}
Uploads  == {NaN(Unset), Number(1)}
Keeps    == {NaN(Unset), Number(-1), Number(0)}
Limits   == {NaN(Unset), Number(0)}

SampleEnv ==
    [environment |-> "staging", queue |-> "redis", redisURL |-> "set", origin |-> "site",
     storage |-> "s3", others |-> "set", assetURL |-> Unset, concurrency |-> NaN(Unset),
     render |-> NaN(Unset), upload |-> NaN(Unset), retention |-> NaN(Unset),
     bytes |-> NaN(Unset), dryRun |-> Unset]

Null      == [is |-> "null"]
Bool      == [is |-> "boolean"]
Num(n)    == [is |-> "number", n |-> n]
\* The empty string, one letter of one byte, one letter of two bytes.
Str(c, b) == [is |-> "string", chars |-> c, bytes |-> b, matches |-> c = b]

Leaves == {Null, Bool, Num(0), Num(1), Num(2), Str(0, 0), Str(1, 1), Str(1, 2)}

Objects == UNION {[D -> {Null, Num(1), Num(2), Str(1, 2)}] : D \in SUBSET {"a", "b"}}

Documents ==
    Leaves \cup {[is |-> "array", a |-> a] : a \in {<<>>} \cup {<<v, w>> : v, w \in Leaves}}
           \cup {[is |-> "object", o |-> o] : o \in Objects}

\* The schemas with some of the keywords of a full one.
Parts(full) == {Restrict(full, D) : D \in SUBSET DOMAIN full}

LeafSchemas ==
    UNION {Parts([type |-> t, minLength |-> n, pattern |-> r, minimum |-> 1])
             : t \in S!supportedTypes \cup {"list"}, n \in {1, 2}, r \in {"re2", "other"}}
      \cup Parts([type |-> "string", const |-> Num(2), maxLength |-> 0])
      \cup Parts([type |-> "integer", enum |-> {Num(1), Num(2), Null}, maximum |-> 1])

SomeLeaves ==
    {S!OtherForm} \cup Parts([type |-> "integer", minimum |-> 1])
                \cup {[type |-> "string", minLength |-> 1], [type |-> "string", minLength |-> 2],
                       [const |-> Num(2)]}

Schemas ==
    LeafSchemas
      \cup UNION {Parts([type |-> t, items |-> s]) : t \in {"array", "object"}, s \in SomeLeaves}
      \cup UNION {Parts([type |-> "object", required |-> {"a", "b"}, additionalProperties |-> f,
                         properties |-> [a |-> s]]) : f \in {"true", "false", "schema"}, s \in SomeLeaves}

-----------------------------------------------------------------------------

AnySchema == [type |-> "object"]

InputInit == Init /\ PathInit /\ schema = AnySchema /\ document = Null

\* Load runs in every environment.
Boot ==
    /\ raw = <<>> /\ schema = AnySchema /\ document = Null
    /\ Next
    /\ UNCHANGED <<raw, schema, document>>

\* Every text of at most MaxLength characters.
Text ==
    /\ env = SampleEnv /\ phase = "loading" /\ schema = AnySchema /\ document = Null
    /\ Grow
    /\ UNCHANGED <<vars, schema, document>>

\* Every schema of a small grammar, two levels deep, with every document.
Validate ==
    /\ env = SampleEnv /\ phase = "loading" /\ raw = <<>>
    /\ schema = AnySchema /\ document = Null
    /\ schema' \in Schemas
    /\ document' \in Documents
    /\ UNCHANGED <<vars, raw>>

InputSpec == InputInit /\ [][Boot \/ Text \/ Validate]_<<vars, raw, schema, document>>

-----------------------------------------------------------------------------

\* What audit's silence about a contract guarantees: validate never refuses a
\* document the draft's rules allow, and one it accepts satisfies every keyword
\* that is in force (audit.go, validate).
AuditedIsEnforced ==
    S!Clean(schema) =>
        /\ S!Satisfies(schema, document) => S!Accepts(schema, document)
        /\ S!Accepts(schema, document) => S!Satisfies(S!Enforced(schema), document)

\* What Audit's comment says of it ("empty = the schema is fully enforceable"):
\* refuted by SchemaVacuous.cfg, by a keyword without its type or beside a const,
\* a minLength counted in bytes, and a pattern regexp.Compile does not take.
FullyEnforceable ==
    S!Clean(schema) => (S!Accepts(schema, document) <=> S!Satisfies(schema, document))
=============================================================================
