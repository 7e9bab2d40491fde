---- MODULE SchemaRewrites ----
(***************************************************************************)
(* The rewritings of spec-downgrade (tools/cmd/spec-downgrade), which turn *)
(* Garage's OpenAPI 3.1 document into one for a 3.0 code generator: what   *)
(* each does to one node of the JSON tree, and what a schema means.  A     *)
(* node is a record with one field that says what it is: a string, a       *)
(* Boolean, an array or an object, which is a function from its keys.      *)
(***************************************************************************)
EXTENDS Integers, Sequences

Str(s) == [str |-> s]
Bool(b) == [bool |-> b]
Arr(e) == [elems |-> e]
Obj(f) == [fields |-> f]

IsStr(n) == "str" \in DOMAIN n
IsArr(n) == "elems" \in DOMAIN n
IsObj(n) == "fields" \in DOMAIN n

Has(obj, key) == key \in DOMAIN obj
HasArr(obj, key) == Has(obj, key) /\ IsArr(obj[key])
Without(obj, key) == [k \in DOMAIN obj \ {key} |-> obj[k]]
Set(obj, key, n) == [k \in DOMAIN obj \cup {key} |-> IF k = key THEN n ELSE obj[k]]

Nullable(obj) == Set(obj, "nullable", Bool(TRUE))

----
(* The rewritings *)

\* A type union that is rewritten: two names, one of them "null".
IsNullUnion(t) ==
    /\ Len(t) = 2
    /\ \A i \in 1..2 : IsStr(t[i])
    /\ \E i \in 1..2 : t[i] = Str("null") /\ t[3 - i] \notin {Str("null"), Str("")}

Primary(t) == IF t[1] = Str("null") THEN t[2] ELSE t[1]

\* A mutant: the type alone, without nullable.
dropNull(obj) ==
    IF HasArr(obj, "type") /\ IsNullUnion(obj["type"].elems)
    THEN Set(obj, "type", Primary(obj["type"].elems))
    ELSE obj

\* A mutant: nullable beside the union.
keepUnion(obj) ==
    IF HasArr(obj, "type") /\ IsNullUnion(obj["type"].elems) THEN Nullable(obj) ELSE obj

downgradeTypeUnion(obj) ==
    IF HasArr(obj, "type") /\ IsNullUnion(obj["type"].elems)
    THEN Nullable(Set(obj, "type", Primary(obj["type"].elems)))
    ELSE obj

\* A tuple that is rewritten: a first element that is a schema, and no items
\* or items: false.
IsTuple(obj) ==
    /\ HasArr(obj, "prefixItems")
    /\ obj["prefixItems"].elems # <<>>
    /\ Has(obj, "items") => obj["items"] = Bool(FALSE)
    /\ IsObj(obj["prefixItems"].elems[1])

downgradeTupleItems(obj) ==
    IF IsTuple(obj)
    THEN Set(Without(obj, "prefixItems"), "items", obj["prefixItems"].elems[1])
    ELSE obj

IsNullBranch(n) == n = Obj([type |-> Str("null")])

\* The branches without the null ones: the loop over the first i of them.
keptOf(branches) ==
    LET upTo[i \in 0..Len(branches)] ==
            IF i = 0 THEN <<>>
            ELSE IF IsNullBranch(branches[i]) THEN upTo[i - 1]
            ELSE Append(upTo[i - 1], branches[i])
    IN  upTo

kept(branches) == keptOf(branches)[Len(branches)]

sawNull(branches) == \E i \in DOMAIN branches : IsNullBranch(branches[i])

\* The keys of a branch that the parent lacks go into the parent.
Merge(obj, branch) ==
    [k \in DOMAIN obj \cup DOMAIN branch |-> IF k \in DOMAIN obj THEN obj[k] ELSE branch[k]]

\* What becomes of the parent when one branch is left: a reference is wrapped
\* in allOf, a schema is merged.
Absorb(obj, only) ==
    IF ~IsObj(only) THEN Set(obj, "oneOf", Arr(<<only>>))
    ELSE IF Has(only.fields, "$ref") THEN Set(obj, "allOf", Arr(<<only>>))
    ELSE Merge(obj, only.fields)

\* A parent that loses its null branches.
StripNull(obj, rest) ==
    IF Len(rest) > 1 THEN Set(Nullable(obj), "oneOf", Arr(rest))
    ELSE IF rest = <<>> THEN Without(Nullable(obj), "oneOf")
    ELSE Absorb(Without(Nullable(obj), "oneOf"), rest[1])

\* A mutant: nullable whether or not there is a null branch.
nullableAlways(obj) ==
    IF HasArr(obj, "oneOf") THEN StripNull(obj, kept(obj["oneOf"].elems)) ELSE obj

downgradeNullableOneOf(obj) ==
    IF HasArr(obj, "oneOf") /\ sawNull(obj["oneOf"].elems)
    THEN StripNull(obj, kept(obj["oneOf"].elems))
    ELSE obj

rewrite(obj) == downgradeNullableOneOf(downgradeTupleItems(downgradeTypeUnion(obj)))

\* walk, given what it does with the nodes below: a node first, with the
\* three rewritings in their order, then what it holds.
WalkNode(node, W(_)) ==
    IF IsObj(node) THEN Obj([k \in DOMAIN rewrite(node.fields) |-> W(rewrite(node.fields)[k])])
    ELSE IF IsArr(node) THEN Arr([i \in DOMAIN node.elems |-> W(node.elems[i])])
    ELSE node

----
(* What a schema means, given what the schemas below it accept *)

\* The names of a type.
TypeNames(t) == IF IsArr(t) THEN {t.elems[i].str : i \in DOMAIN t.elems} ELSE {t.str}

\* Exactly one of the branches accepts the value.
One(branches, v, A(_, _)) ==
    \E i \in DOMAIN branches : \A j \in DOMAIN branches : A(branches[j], v) <=> i = j

\* prefixItems is for the first elements, items for the others.
Elements(s, e, A(_, _)) ==
    \A i \in DOMAIN e :
        IF Has(s, "prefixItems") /\ i \in DOMAIN s["prefixItems"].elems
        THEN A(s["prefixItems"].elems[i], e[i])
        ELSE Has(s, "items") =>
                IF IsObj(s["items"]) THEN A(s["items"], e[i]) ELSE s["items"].bool

\* Every keyword accepts the value.  Every reference is to an object.
Keywords(s, v, A(_, _)) ==
    /\ Has(s, "type") => v.kind \in TypeNames(s["type"])
    /\ Has(s, "$ref") => v.kind = "object"
    /\ Has(s, "allOf") => \A i \in DOMAIN s["allOf"].elems : A(s["allOf"].elems[i], v)
    /\ Has(s, "oneOf") => One(s["oneOf"].elems, v, A)
    /\ v.kind = "array" => Elements(s, v.elems, A)
    /\ Has(s, "properties") /\ v.kind = "object" =>
        \A p \in DOMAIN v.props \cap DOMAIN s["properties"].fields :
            A(s["properties"].fields[p], v.props[p])

TakesNull(s) == Has(s, "nullable") /\ s["nullable"] = Bool(TRUE)

\* The 3.1 reading, to which nullable adds null as in 3.0.
Means(s, v, A(_, _)) == (TakesNull(s) /\ v.kind = "null") \/ Keywords(s, v, A)

----
(* What the rewritings rely on *)

\* A tuple of one kind of element, which says what may follow.
Uniform(obj) ==
    Has(obj, "prefixItems") =>
        /\ Has(obj, "items")
        /\ \A i \in DOMAIN obj["prefixItems"].elems :
            obj["prefixItems"].elems[i] = obj["prefixItems"].elems[1]

\* A nullable schema as the 3.1 idioms write it: nothing beside a type union
\* that null would have to pass, nothing beside a oneOf that a merge could
\* meet, and null in one branch only.
Idiomatic(obj, A(_, _)) ==
    /\ ~Has(obj, "prefixItems")
    /\ HasArr(obj, "type") /\ IsNullUnion(obj["type"].elems) =>
        DOMAIN obj \cap {"$ref", "allOf"} = {}
    /\ Has(obj, "oneOf") =>
        /\ DOMAIN obj \subseteq {"oneOf", "description"}
        /\ \A i \in DOMAIN obj["oneOf"].elems :
            LET b == obj["oneOf"].elems[i]
            IN  A(b, [kind |-> "null"]) => IsNullBranch(b)
        /\ \A i, j \in DOMAIN obj["oneOf"].elems :
            obj["oneOf"].elems[i] = obj["oneOf"].elems[j] => i = j
        /\ \E i \in DOMAIN obj["oneOf"].elems : ~IsNullBranch(obj["oneOf"].elems[i])

\* A choice among several schemas, which must be told apart as before: a
\* branch that comes to allow more can overlap with another.
IsChoice(obj) ==
    Has(obj, "oneOf") /\
        \E i, j \in DOMAIN obj["oneOf"].elems :
            /\ i # j
            /\ ~IsNullBranch(obj["oneOf"].elems[i])
            /\ ~IsNullBranch(obj["oneOf"].elems[j])
====
