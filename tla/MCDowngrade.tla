---- MODULE MCDowngrade ----
(* Values for the TLC runs of SpecDowngrade. *)
EXTENDS SpecDowngrade, TLC, FiniteSetsExt

Type(t) == [type |-> t]
Union(a, b) == Arr(<<Str(a), Str(b)>>)

NullSchema == Obj(Type(Str("null")))
Text == Obj(Type(Str("string")))
Number == Obj(Type(Str("integer")))
Ref == Obj("$ref" :> Str("R"))

Leaves == {
    NullSchema, Text, Number, Ref,
    Obj(Type(Union("string", "null"))),
    Obj(Type(Union("null", "integer"))),
    Obj(Type(Union("string", "integer")))}

Branches == {<<a>> : a \in Leaves} \cup (Leaves \X Leaves) \cup {<<NullSchema>> \o p : p \in Leaves \X Leaves}

\* What may stand beside a oneOf.
Siblings == {
    <<>>, "description" :> Str("d"), Type(Str("string")), Type(Union("string", "null")),
    "allOf" :> Arr(<<Ref>>), "properties" :> Obj("p" :> Text)}

OneOfs == {Obj(("oneOf" :> Arr(b)) @@ s) : b \in Branches, s \in Siblings}

Tuples == {Obj(("prefixItems" :> Arr(<<a, b>>)) @@ i) :
    a \in Leaves, b \in Leaves,
    i \in {<<>>, "items" :> Bool(FALSE), "items" :> Text}}

\* A schema inside a schema.
Inside(n) == {
    Obj("properties" :> Obj("p" :> n)),
    Obj("oneOf" :> Arr(<<NullSchema, n>>)),
    Obj("oneOf" :> Arr(<<NullSchema, Obj("properties" :> Obj("p" :> n))>>)),
    Obj(("oneOf" :> Arr(<<n, NullSchema>>)) @@ ("properties" :> Obj("p" :> Number)))}

\* Tuples with a fixed length and lists, and the choice between two of them.
Lists ==
    {Obj("items" :> Text)} \cup
    {Obj(("prefixItems" :> Arr(e)) @@ ("items" :> Bool(FALSE))) :
        e \in {<<Text>>, <<Text, Text>>, <<Number>>}}

Alternatives == {Obj("oneOf" :> Arr(<<a, b>>)) :
    a \in Lists \cup {NullSchema}, b \in Lists \cup {Obj(Type(Union("string", "null")))}}

\* A type union beside a reference or what must hold as well.
Beside == {Obj(Type(Union("string", "null")) @@ s) :
    s \in {"$ref" :> Str("R"), "allOf" :> Arr(<<Text>>),
           "allOf" :> Arr(<<Obj(Type(Union("null", "string")))>>)}}

Nested == UNION {Inside(n) : n \in OneOfs \cup Tuples \cup Lists \cup Beside \cup Leaves}

SomeSchemas == Leaves \cup OneOfs \cup Tuples \cup Lists \cup Alternatives \cup Beside \cup Nested

Scalars == {[kind |-> k] : k \in {"null", "string", "integer"}}

SomeValues ==
    Scalars
    \cup {[kind |-> "object", props |-> p] : p \in {<<>>} \cup {"p" :> v : v \in Scalars}}
    \cup {[kind |-> "array", elems |-> e] : e \in {<<>>} \cup (Scalars \X Scalars)}

\* The walk, the meaning of a schema, the schemas in one and its depth.
RECURSIVE Walk(_)
Walk(node) == WalkNode(node, Walk)

RECURSIVE Meaning(_, _)
Meaning(n, v) == Means(n.fields, v, Meaning)

RECURSIVE Parts(_)
Parts(n) == {n} \cup UNION {Parts(m) : m \in Subschemas(n)}

RECURSIVE Depth(_)
Depth(n) == Max({0} \cup {Depth(m) + 1 : m \in Subschemas(n)})

\* With the schemas in them, and what the tool makes of them when it is run
\* again and again.
RECURSIVE Closure(_, _)
Closure(done, new) ==
    IF new = {} THEN done
    ELSE Closure(done \cup new, UNION {{Walk(n)} \cup Subschemas(n) : n \in new} \ (done \cup new))

AllSchemas == Closure({}, SomeSchemas)
====
