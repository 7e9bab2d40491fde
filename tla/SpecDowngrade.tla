---- MODULE SpecDowngrade ----
(***************************************************************************)
(* The build tool that rewrites Garage's OpenAPI 3.1 document for a 3.0    *)
(* code generator (tools/cmd/spec-downgrade): the walk over the tree, with *)
(* the rewritings of module SchemaRewrites at every node.  Walk and        *)
(* meaning are recursive over a tree of any depth; they enter as constants *)
(* with the equations that define them as assumptions.                     *)
(***************************************************************************)
EXTENDS SchemaRewrites

CONSTANTS
    Schemas,        \* the schemas that a document may hold
    Values,         \* the JSON values to test them with
    walk(_),        \* the walk over a node
    Accepts(_, _),  \* whether a schema accepts a value
    parts(_),       \* a schema with all those in it
    rank(_)         \* how deep a schema is

----
(* Documents *)

IsName(x) == IsStr(x) /\ x = Str(x.str) /\ x.str \in STRING
IsBool(x) == x \in {Bool(TRUE), Bool(FALSE)}

\* x is the array of a sequence.
IsList(x) == IsArr(x) /\ x = Arr(x.elems) /\ x.elems \in Seq({x.elems[i] : i \in DOMAIN x.elems})

\* f is a function.
IsMap(f) == f = [k \in DOMAIN f |-> f[k]]

\* What a keyword may hold.  Of the keywords that are not named here the tool
\* looks at none, nor do their values have a meaning here.
IsKeyword(k, x) ==
    /\ k = "type" => IsName(x) \/ (IsList(x) /\ \A i \in DOMAIN x.elems : IsName(x.elems[i]))
    /\ k \in {"oneOf", "allOf", "prefixItems"} => IsList(x)
    /\ k = "items" => IsObj(x) \/ IsBool(x)
    /\ k = "properties" =>
        IsObj(x) /\ x = Obj(x.fields) /\ IsMap(x.fields) /\ DOMAIN x.fields \in SUBSET STRING
    /\ k = "nullable" => IsBool(x)

\* The schemas that a keyword holds, and those that a schema does.
Under(k, x) ==
    IF k \in {"oneOf", "allOf", "prefixItems"} THEN {x.elems[i] : i \in DOMAIN x.elems}
    ELSE IF k = "properties" THEN {x.fields[p] : p \in DOMAIN x.fields}
    ELSE IF k = "items" /\ IsObj(x) THEN {x}
    ELSE {}

Subschemas(n) == UNION {Under(k, n.fields[k]) : k \in DOMAIN n.fields}

Document(version, n) == [openapi |-> Str(version), schema |-> n]

\* The nodes below a node.
Children(node) ==
    IF IsObj(node) THEN {node.fields[k] : k \in DOMAIN node.fields}
    ELSE IF IsArr(node) THEN {node.elems[i] : i \in DOMAIN node.elems}
    ELSE {}

\* What the walk meets on its way through a document to a schema, and from
\* that, rewritten, to the schemas below it.
Met(n) ==
    LET rewritten == Obj(rewrite(n.fields))
        document == Obj(Document("3.0.3", n))
    IN  {n, document} \cup Children(document)
        \cup Children(rewritten) \cup UNION {Children(x) : x \in Children(rewritten)}

\* Schemas are JSON trees of finite depth.
ASSUME SchemasAssumption ==
    \A n \in Schemas :
        /\ IsObj(n) /\ n = Obj(n.fields) /\ IsMap(n.fields)
        /\ \A k \in DOMAIN n.fields : IsKeyword(k, n.fields[k])
        /\ rank(n) \in Nat
        /\ \A m \in Subschemas(n) : rank(m) < rank(n)

\* The schemas in one are among them, and what the tool makes of it, since the
\* tool may be given to read what it has written.
ASSUME ClosedAssumption ==
    UNION {Subschemas(n) \cup {walk(n)} : n \in Schemas} \subseteq Schemas

\* There is one null, and what a value holds is a value.
ASSUME ValuesAssumption ==
    /\ [kind |-> "null"] \in Values
    /\ \A v \in Values :
        /\ v.kind = "null" => v = [kind |-> "null"]
        /\ v.kind = "array" => \A i \in DOMAIN v.elems : v.elems[i] \in Values
        /\ v.kind = "object" => \A p \in DOMAIN v.props : v.props[p] \in Values

\* walk handles a node, then calls itself for what is below.
ASSUME WalkAssumption == \A n \in Schemas : \A x \in Met(n) : walk(x) = WalkNode(x, walk)

\* A schema accepts a value when its keywords do, by what the schemas below
\* accept.
ASSUME AcceptsAssumption ==
    \A n \in Schemas, v \in Values : Accepts(n, v) <=> Means(n.fields, v, Accepts)

\* A schema is in itself, as is what is in the schemas below.
ASSUME PartsAssumption ==
    \A n \in Schemas : parts(n) = {n} \cup UNION {parts(m) : m \in Subschemas(n)}

----
VARIABLES
    schema,  \* the schema in the document that was read
    doc      \* the document

vars == <<schema, doc>>

Init ==
    /\ schema \in Schemas
    /\ doc = Document("3.1.0", schema)

\* The document is parsed, rewritten and written out, or the program ends
\* before it writes anything.  Nothing keeps its output from being fed to it
\* again.
main ==
    /\ doc' = walk(Obj([doc EXCEPT !["openapi"] = Str("3.0.3")])).fields
    /\ UNCHANGED schema

Spec == Init /\ [][main]_vars

----
(* What a document means *)

\* A schema keeps to the 3.1 idioms, here and below.
Plain31(n) == \A m \in parts(n) : Idiomatic(m.fields, Accepts)

\* Its alternatives do.
PlainChoices(obj) ==
    IsChoice(obj) => \A i \in DOMAIN obj["oneOf"].elems : Plain31(obj["oneOf"].elems[i])

Rewritten == doc["openapi"] = Str("3.0.3")

----
(* Properties *)

\* No value that Garage's own document allows is refused by the rewritten
\* one, wherever in it the rewritings meet and whatever they throw away.
\* Tuples of unlike elements are excepted: the tool turns them into arrays of
\* the first element's kind.  So are choices among schemas that are rewritten
\* loosely: a value that one branch took may now be taken by two.
StillAccepted ==
    Rewritten /\ (\A m \in parts(schema) : Uniform(m.fields) /\ PlainChoices(m.fields)) =>
        \A v \in Values : Accepts(schema, v) => Accepts(doc["schema"], v)

\* Nor does a document that keeps to the 3.1 idioms come to allow more.
NothingMoreAccepted ==
    Rewritten /\ Plain31(schema) =>
        \A v \in Values : Accepts(doc["schema"], v) => Accepts(schema, v)

NullUnionLeft ==
    \E m \in parts(doc["schema"]) :
        HasArr(m.fields, "type") /\ IsNullUnion(m.fields["type"].elems)

\* No union with null is left anywhere in a document that the 3.0 generator
\* is to read.
NoNullUnionLeft == Rewritten => ~NullUnionLeft

\* None is, after one run, when the document kept to the 3.1 idioms: no merge
\* brings a union in after the place where it would have been rewritten.
IdiomsRewritten == Rewritten /\ Plain31(schema) => ~NullUnionLeft
====
