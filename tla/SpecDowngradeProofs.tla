---- MODULE SpecDowngradeProofs ----
(***************************************************************************)
(* What spec-downgrade does to the meaning of a document, for every        *)
(* document, every value and every number of times that the tool is run on *)
(* its own output.  Schemas hold schemas, to any depth: the proofs go by   *)
(* induction on how deep a schema is.  One schema is treated first: what   *)
(* the rewritings do to its keywords, given what the schemas below it      *)
(* mean.  A set T of schemas with every schema in them is then walked as a *)
(* whole, and what the walk makes of T is again such a set.                *)
(***************************************************************************)
EXTENDS SpecDowngrade, TLAPS, WellFoundedInduction

----
(* The setting *)

\* The strings and the Booleans of a document.
Strings == {Str(s) : s \in STRING}
Booleans == {Bool(b) : b \in BOOLEAN}

\* A type is a name or several.
IsType(x) == x \in Strings \/ \E e \in Seq(Strings) : x = Arr(e)

\* What a keyword holds, where B are schemas.
KeywordOK(k, x, B) ==
    /\ k = "type" => IsType(x)
    /\ k \in {"oneOf", "allOf", "prefixItems"} => \E e \in Seq(B) : x = Arr(e)
    /\ k = "items" => x \in B \/ x \in Booleans
    /\ k = "properties" =>
        \E D \in SUBSET STRING : \E p \in [D -> B] : x = Obj(p)
    /\ k = "nullable" => x \in Booleans

\* A schema, where B are the schemas it may hold.
WellFormed(f, B) ==
    /\ IsMap(f)
    /\ \A k \in DOMAIN f : KeywordOK(k, f[k], B)

\* The schemas of T that are less deep than n: those it may hold are.
Below(T, n) == {m \in T : rank(m) < rank(n)}

\* T are schemas, with every schema that one of them holds.
Tree(T) == \A n \in T : rank(n) \in Nat /\ n = Obj(n.fields) /\ WellFormed(n.fields, Below(T, n))

\* What the walk meets in T.
Seen(T) == UNION {Met(n) : n \in T}

\* walk is the walk of the program.
IsWalk(T) == \A x \in Seen(T) : walk(x) = WalkNode(x, walk)

\* Accepts is what a schema means, before the walk and after.
IsMeaning(T) ==
    \A n \in T, v \in Values :
        /\ Accepts(n, v) <=> Means(n.fields, v, Accepts)
        /\ Accepts(walk(n), v) <=> Means(walk(n).fields, v, Accepts)

\* There is one null, and what a value holds is a value.
ValuesClosed ==
    \A v \in Values :
        /\ v.kind = "null" => v = [kind |-> "null"]
        /\ v.kind = "array" => \A i \in DOMAIN v.elems : v.elems[i] \in Values
        /\ v.kind = "object" => \A p \in DOMAIN v.props : v.props[p] \in Values

Setting(T) == Tree(T) /\ IsWalk(T) /\ IsMeaning(T) /\ ValuesClosed

----
\* A set of numbers has a least one.
LEMMA Least ==
    ASSUME NEW T \in SUBSET Nat, T # {}
    PROVE  \E n \in T : \A m \in T : n <= m
<1> DEFINE R == OpToRel(<, Nat)
<1>1. IsWellFoundedOn(R, Nat)
  BY NatLessThanWellFounded
<1>2. \A x, y \in Nat : y < x => <<y, x>> \in R
  BY DEF OpToRel
<1> HIDE DEF R
<1>3. PICK x \in T : \A y \in T : ~ (<<y, x>> \in R)
  BY <1>1, WFMin
<1>4. \A y \in T : x \in Nat /\ y \in Nat /\ ~(y < x)
  BY <1>2, <1>3
<1>5. \A y \in T : x <= y
  BY <1>4
<1> QED
  BY <1>5

\* Induction, over a set.
LEMMA Induct ==
    ASSUME NEW T \in SUBSET Nat, 0 \in T, \A n \in T : n + 1 \in T
    PROVE  \A n \in Nat : n \in T
<1> SUFFICES ASSUME NEW k \in Nat, k \notin T PROVE FALSE
  OBVIOUS
<1>1. PICK n \in Nat \ T : \A m \in Nat \ T : n <= m
  BY Least
<1>2. n # 0 /\ n - 1 \in Nat /\ n - 1 \notin Nat \ T
  BY <1>1
<1> QED
  BY <1>1, <1>2

\* One step of the loop in kept.
KeptStep(e, g, i) ==
    IF i = 0 THEN <<>>
    ELSE IF IsNullBranch(e[i]) THEN g[i - 1]
    ELSE Append(g[i - 1], e[i])

\* The loop has values for the first n branches.
KeptTo(e, n) ==
    \E g : /\ DOMAIN g = 0..n /\ g = [i \in 0..n |-> g[i]]
           /\ \A i \in 0..n : g[i] = KeptStep(e, g, i)

\* The function over prefixes that gives kept has the values that its equation
\* says: a function with those values exists on every prefix.
LEMMA KeptRecursion ==
    ASSUME NEW S, NEW e \in Seq(S)
    PROVE  \A i \in 0..Len(e) : keptOf(e)[i] = KeptStep(e, keptOf(e), i)
<1> DEFINE T == {n \in Nat : KeptTo(e, n)}
<1>1. 0 \in T
  <2> DEFINE g == [i \in 0..0 |-> <<>>]
  <2>1. DOMAIN g = 0..0 /\ g = [i \in 0..0 |-> g[i]] /\ \A i \in 0..0 : g[i] = KeptStep(e, g, i)
    BY DEF KeptStep
  <2> HIDE DEF g
  <2>2. KeptTo(e, 0)
    BY <2>1 DEF KeptTo
  <2> QED
    BY <2>2
<1>2. ASSUME NEW n \in T PROVE n + 1 \in T
  <2>1. PICK g : /\ DOMAIN g = 0..n /\ g = [i \in 0..n |-> g[i]]
                 /\ \A i \in 0..n : g[i] = KeptStep(e, g, i)
    BY DEF KeptTo
  <2> DEFINE h == [i \in 0..(n + 1) |-> IF i <= n THEN g[i] ELSE KeptStep(e, g, i)]
  <2>2. \A i \in 0..(n + 1) : h[i] = KeptStep(e, h, i)
    <3> TAKE i \in 0..(n + 1)
    <3>1. i # 0 => i - 1 \in 0..n /\ h[i - 1] = g[i - 1]
      OBVIOUS
    <3>2. KeptStep(e, h, i) = KeptStep(e, g, i)
      BY <3>1 DEF KeptStep
    <3>3. i <= n => g[i] = KeptStep(e, g, i)
      BY <2>1
    <3> QED
      BY <3>2, <3>3
  <2>3. DOMAIN h = 0..(n + 1) /\ h = [i \in 0..(n + 1) |-> h[i]]
    OBVIOUS
  <2> HIDE DEF h
  <2>4. KeptTo(e, n + 1)
    BY <2>2, <2>3 DEF KeptTo
  <2> QED
    BY <2>4
<1>3. Len(e) \in T
  <2> HIDE DEF T
  <2>1. T \in SUBSET Nat
    BY DEF T
  <2> QED
    BY <1>1, <1>2, <2>1, Induct
<1>4. PICK g : /\ DOMAIN g = 0..Len(e) /\ g = [i \in 0..Len(e) |-> g[i]]
               /\ \A i \in 0..Len(e) : g[i] = KeptStep(e, g, i)
  BY <1>3 DEF KeptTo
<1> DEFINE F(f) == [i \in 0..Len(e) |-> IF i = 0 THEN <<>>
                  ELSE IF IsNullBranch(e[i]) THEN f[i - 1]
                  ELSE Append(f[i - 1], e[i])]
<1>5. g = F(g)
  BY <1>4 DEF KeptStep
<1>6. keptOf(e) = CHOOSE f : f = F(f)
  BY DEF keptOf
<1>7. keptOf(e) = F(keptOf(e))
  BY <1>5, <1>6
<1> HIDE DEF F
<1>8. \A i \in 0..Len(e) : F(keptOf(e))[i] = KeptStep(e, keptOf(e), i)
  BY DEF F, KeptStep
<1> QED
  BY <1>7, <1>8

\* k is the first n of e without the null branches, in their places m.
Kept(e, n, k, m) ==
    /\ m \in [1..Len(k) -> 1..n]
    /\ \A j \in 1..Len(k) : k[j] = e[m[j]] /\ ~IsNullBranch(e[m[j]])
    /\ \A i, j \in 1..Len(k) : m[i] = m[j] => i = j
    /\ \A i \in 1..n : ~IsNullBranch(e[i]) => \E j \in 1..Len(k) : m[j] = i

\* kept is a list of what it was given, without the null branches and with
\* all the others, each once.
LEMMA KeptFacts ==
    ASSUME NEW S, NEW e \in Seq(S)
    PROVE  kept(e) \in Seq(S) /\ \E m : Kept(e, Len(e), kept(e), m)
<1> DEFINE k(n) == keptOf(e)[n]
           Good(n) == k(n) \in Seq(S) /\ \E m : Kept(e, n, k(n), m)
           T == {n \in Nat : n <= Len(e) => Good(n)}
<1>1. \A n \in 0..Len(e) : k(n) = KeptStep(e, keptOf(e), n)
  BY KeptRecursion
<1> HIDE DEF k
<1>2. 0 \in T
  <2>1. k(0) = <<>>
    BY <1>1 DEF KeptStep
  <2> DEFINE m == [j \in 1..0 |-> 1]
  <2>2. Kept(e, 0, <<>>, m)
    BY DEF Kept
  <2> HIDE DEF m
  <2>3. Kept(e, 0, k(0), m) /\ k(0) \in Seq(S)
    <3>1. <<>> \in Seq(S)
      OBVIOUS
    <3> QED
      BY <2>1, <2>2, <3>1
  <2>4. Good(0)
    BY <2>3
  <2> QED
    BY <2>4
<1>3. ASSUME NEW n \in T PROVE n + 1 \in T
  <2> SUFFICES ASSUME n + 1 <= Len(e) PROVE Good(n + 1)
    OBVIOUS
  <2>1. PICK m : k(n) \in Seq(S) /\ Kept(e, n, k(n), m)
    OBVIOUS
  <2>2. e[n + 1] \in S
    OBVIOUS
  <2>3. k(n + 1) = IF IsNullBranch(e[n + 1]) THEN k(n) ELSE Append(k(n), e[n + 1])
    BY <1>1 DEF KeptStep, k
  <2>4. CASE IsNullBranch(e[n + 1])
    <3>1. Kept(e, n + 1, k(n + 1), m)
      BY <2>1, <2>3, <2>4 DEF Kept
    <3> QED
      BY <2>1, <2>3, <2>4, <3>1
  <2>5. CASE ~IsNullBranch(e[n + 1])
    <3> DEFINE l == Len(k(n))
               p == [j \in 1..(l + 1) |-> IF j <= l THEN m[j] ELSE n + 1]
    <3>1. /\ l \in Nat /\ Len(k(n + 1)) = l + 1 /\ k(n + 1) \in Seq(S)
          /\ \A j \in 1..l : k(n + 1)[j] = k(n)[j]
          /\ k(n + 1)[l + 1] = e[n + 1]
      BY <2>1, <2>2, <2>3, <2>5
    <3>2. \A j \in 1..l : p[j] = m[j] /\ m[j] \in 1..n
      <4>1. \A j \in 1..l : m[j] \in 1..n
        BY <2>1 DEF Kept
      <4> QED
        BY <3>1, <4>1
    <3>a. n \in Nat
      OBVIOUS
    <3> HIDE DEF l, T
    <3>4. \A j \in 1..(l + 1) : j \in 1..l \/ j = l + 1
      BY <3>1
    <3>3. p[l + 1] = n + 1 /\ p \in [1..(l + 1) -> 1..(n + 1)]
      <4>1. p[l + 1] = n + 1
        BY <3>1
      <4>2. ASSUME NEW j \in 1..(l + 1) PROVE p[j] \in 1..(n + 1)
        <5> HIDE DEF p
        <5>1. 1..n \subseteq 1..(n + 1) /\ n + 1 \in 1..(n + 1)
          BY <3>a
        <5> QED
          BY <3>2, <3>4, <4>1, <5>1
      <4> QED
        BY <4>1, <4>2
    <3> HIDE DEF p
    <3>5. \A j \in 1..(l + 1) : k(n + 1)[j] = e[p[j]] /\ ~IsNullBranch(e[p[j]])
      BY <2>1, <2>5, <3>a, <3>1, <3>2, <3>3, <3>4 DEF Kept, l
    <3>6. \A i, j \in 1..(l + 1) : p[i] = p[j] => i = j
      BY <2>1, <3>a, <3>1, <3>2, <3>3, <3>4 DEF Kept, l
    <3>7. ASSUME NEW i \in 1..(n + 1), ~IsNullBranch(e[i]) PROVE \E j \in 1..(l + 1) : p[j] = i
      BY <2>1, <3>a, <3>1, <3>2, <3>3, <3>7 DEF Kept, l
    <3>8. Kept(e, n + 1, k(n + 1), p)
      BY <3>1, <3>3, <3>5, <3>6, <3>7 DEF Kept
    <3> QED
      BY <3>1, <3>8
  <2> QED
    BY <2>4, <2>5
<1>4. Len(e) \in T
  <2> HIDE DEF T
  <2>1. T \in SUBSET Nat
    BY DEF T
  <2> QED
    BY <1>2, <1>3, <2>1, Induct
<1> QED
  BY <1>4 DEF kept, k
----
(* The kinds of nodes *)

\* A string is no array and no object.
LEMMA StrFacts ==
    ASSUME NEW s
    PROVE  IsStr(Str(s)) /\ ~IsArr(Str(s)) /\ ~IsObj(Str(s)) /\ Str(s).str = s
BY DEF Str, IsStr, IsArr, IsObj

\* Neither is a Boolean.
LEMMA BoolFacts ==
    ASSUME NEW b
    PROVE  ~IsStr(Bool(b)) /\ ~IsArr(Bool(b)) /\ ~IsObj(Bool(b)) /\ Bool(b).bool = b
BY DEF Bool, IsStr, IsArr, IsObj

\* An array is an array only.
LEMMA ArrFacts ==
    ASSUME NEW e
    PROVE  ~IsStr(Arr(e)) /\ IsArr(Arr(e)) /\ ~IsObj(Arr(e)) /\ Arr(e).elems = e
BY DEF Arr, IsStr, IsArr, IsObj

\* An object is an object only.
LEMMA ObjFacts ==
    ASSUME NEW f
    PROVE  ~IsStr(Obj(f)) /\ ~IsArr(Obj(f)) /\ IsObj(Obj(f)) /\ Obj(f).fields = f
BY DEF Obj, IsStr, IsArr, IsObj

\* Set adds the key, if it was not there.
LEMMA SetDomain ==
    ASSUME NEW f, NEW k, NEW x
    PROVE  DOMAIN Set(f, k, x) = DOMAIN f \cup {k}
BY DEF Set

\* What Set returns is a function.
LEMMA SetIsMap ==
    ASSUME NEW f, NEW k, NEW x
    PROVE  IsMap(Set(f, k, x))
BY DEF Set, IsMap

\* The key that is set has the value.
LEMMA SetNew ==
    ASSUME NEW f, NEW k, NEW x
    PROVE  Set(f, k, x)[k] = x
BY DEF Set

\* The other keys keep theirs.
LEMMA SetOld ==
    ASSUME NEW f, NEW k, NEW x, NEW j \in DOMAIN f, j # k
    PROVE  Set(f, k, x)[j] = f[j]
BY DEF Set

\* Nullable adds nullable, if it was not there.
LEMMA NullableDomain ==
    ASSUME NEW f
    PROVE  DOMAIN Nullable(f) = DOMAIN f \cup {"nullable"} /\ IsMap(Nullable(f))
BY DEF Nullable, Set, IsMap

\* A nullable schema takes null.
LEMMA NullableNew ==
    ASSUME NEW f
    PROVE  TakesNull(Nullable(f)) /\ Nullable(f)["nullable"] \in Booleans
BY DEF Nullable, Set, TakesNull, Has, Booleans

\* Nullable changes no other key.
LEMMA NullableOld ==
    ASSUME NEW f, NEW j \in DOMAIN f, j # "nullable"
    PROVE  Nullable(f)[j] = f[j]
BY DEF Nullable, Set

\* Without removes one key.
LEMMA WithoutDomain ==
    ASSUME NEW f, NEW k
    PROVE  DOMAIN Without(f, k) = DOMAIN f \ {k} /\ IsMap(Without(f, k))
BY DEF Without, IsMap

\* The other keys stay as they were.
LEMMA WithoutOld ==
    ASSUME NEW f, NEW k, NEW j \in DOMAIN f, j # k
    PROVE  Without(f, k)[j] = f[j]
BY DEF Without

\* A merge has the keys of both.
LEMMA MergeDomain ==
    ASSUME NEW f, NEW g
    PROVE  DOMAIN Merge(f, g) = DOMAIN f \cup DOMAIN g /\ IsMap(Merge(f, g))
BY DEF Merge, IsMap

\* The keys of the parent win.
LEMMA MergeParent ==
    ASSUME NEW f, NEW g, NEW k \in DOMAIN f
    PROVE  Merge(f, g)[k] = f[k]
BY DEF Merge

\* The keys that the parent lacks come from the branch.
LEMMA MergeBranch ==
    ASSUME NEW f, NEW g, NEW k \in DOMAIN g, k \notin DOMAIN f
    PROVE  Merge(f, g)[k] = g[k]
BY DEF Merge

----
(* What the walk does to the parts of a schema *)

\* A map from names to schemas is no schema: nothing in it is rewritten.
LEMMA MapsUntouched ==
    ASSUME NEW T, Tree(T), NEW p, \A q \in DOMAIN p : p[q] \in T
    PROVE  rewrite(p) = p
<1>1. \A q \in DOMAIN p : ~IsArr(p[q])
  BY ObjFacts DEF Tree
<1>2. \A k : ~HasArr(p, k)
  BY <1>1 DEF HasArr, Has
<1> QED
  BY <1>2 DEF rewrite, downgradeTypeUnion, downgradeTupleItems, IsTuple, downgradeNullableOneOf

\* A rewritten schema's keywords are met, and what is in them.
LEMMA SeenFacts ==
    ASSUME NEW T, NEW n \in T, NEW r, r = rewrite(n.fields), NEW k \in DOMAIN r
    PROVE  /\ n \in Seen(T)
           /\ r[k] \in Seen(T)
           /\ IsArr(r[k]) /\ ~IsObj(r[k]) => \A i \in DOMAIN r[k].elems : r[k].elems[i] \in Seen(T)
<1>1. Met(n) \subseteq Seen(T)
  BY DEF Seen
<1>2. n \in Met(n)
  BY DEF Met
<1>3. PICK x : x = Obj(r)
  OBVIOUS
<1>4. IsObj(x) /\ x.fields = r
  BY <1>3, ObjFacts
<1>5. r[k] \in Children(x)
  BY <1>4 DEF Children
<1>6. Children(x) \subseteq Met(n) /\ Children(r[k]) \subseteq Met(n)
  <2>1. Children(x) \subseteq Met(n) /\ UNION {Children(y) : y \in Children(x)} \subseteq Met(n)
    BY <1>3 DEF Met
  <2> QED
    BY <1>5, <2>1
<1>7. IsArr(r[k]) /\ ~IsObj(r[k]) => \A i \in DOMAIN r[k].elems : r[k].elems[i] \in Children(r[k])
  BY DEF Children
<1> QED
  BY <1>1, <1>2, <1>5, <1>6, <1>7

\* A string or a Boolean is left as it is.
LEMMA WalkLeaf ==
    ASSUME NEW T, IsWalk(T), NEW x \in Seen(T), ~IsObj(x), ~IsArr(x)
    PROVE  walk(x) = x
<1>1. walk(x) = WalkNode(x, walk)
  BY DEF IsWalk
<1> QED
  BY <1>1 DEF WalkNode

\* An array is walked element by element.
LEMMA WalkArr ==
    ASSUME NEW T, IsWalk(T), NEW e, Arr(e) \in Seen(T)
    PROVE  walk(Arr(e)) = Arr([i \in DOMAIN e |-> walk(e[i])])
<1>1. ~IsObj(Arr(e)) /\ IsArr(Arr(e)) /\ Arr(e).elems = e
  BY ArrFacts
<1>2. walk(Arr(e)) = WalkNode(Arr(e), walk)
  BY DEF IsWalk
<1> QED
  BY <1>1, <1>2 DEF WalkNode

\* A type, one name or several, is left as it is.
LEMMA WalkType ==
    ASSUME NEW T, IsWalk(T), NEW x \in Seen(T), IsType(x),
           IsArr(x) /\ ~IsObj(x) => \A i \in DOMAIN x.elems : x.elems[i] \in Seen(T)
    PROVE  walk(x) = x
<1>1. CASE x \in Strings
  BY <1>1, WalkLeaf, StrFacts DEF Strings
<1>2. ASSUME NEW e \in Seq(Strings), x = Arr(e) PROVE walk(x) = x
  <2>1. \A i \in DOMAIN e : e[i] \in Strings /\ e[i] \in Seen(T)
    BY <1>2, ArrFacts
  <2>2. \A i \in DOMAIN e : walk(e[i]) = e[i]
    BY <2>1, WalkLeaf, StrFacts DEF Strings
  <2>3. e = [i \in DOMAIN e |-> e[i]]
    OBVIOUS
  <2>4. [i \in DOMAIN e |-> walk(e[i])] = e
    BY <2>2, <2>3
  <2> QED
    BY <1>2, <2>4, WalkArr
<1> QED
  BY <1>1, <1>2 DEF IsType

\* A schema is rewritten, and what it then holds is walked.
LEMMA WalkSchema ==
    ASSUME NEW T, Tree(T), IsWalk(T), NEW n \in T
    PROVE  walk(n) = Obj([k \in DOMAIN rewrite(n.fields) |-> walk(rewrite(n.fields)[k])])
<1>1. IsObj(n)
  BY ObjFacts DEF Tree
<1>2. n \in Seen(T)
  BY DEF Seen, Met
<1>3. walk(n) = WalkNode(n, walk)
  BY <1>2 DEF IsWalk
<1> QED
  BY <1>1, <1>3 DEF WalkNode

\* The schemas in a map are walked, and its names stay.
LEMMA WalkMap ==
    ASSUME NEW T, Tree(T), IsWalk(T), NEW D \in SUBSET STRING, NEW p \in [D -> T],
           Obj(p) \in Seen(T)
    PROVE  walk(Obj(p)) = Obj([q \in D |-> walk(p[q])])
<1>1. IsObj(Obj(p)) /\ Obj(p).fields = p
  BY ObjFacts
<1>2. walk(Obj(p)) = WalkNode(Obj(p), walk)
  BY DEF IsWalk
<1>3. rewrite(p) = p
  BY MapsUntouched
<1> QED
  BY <1>1, <1>2, <1>3 DEF WalkNode

\* A null branch is left as it is, and null is all it accepts.
LEMMA NullBranchFacts ==
    ASSUME NEW T, Setting(T), NEW n \in T, IsNullBranch(n)
    PROVE  /\ walk(n) = n
           /\ \A v \in Values : Accepts(n, v) <=> v.kind = "null"
<1> DEFINE f == [type |-> Str("null")]
<1>1. n.fields = f /\ n = Obj(f)
  BY ObjFacts DEF IsNullBranch
<1>2. rewrite(f) = f
  <2>1. ~HasArr(f, "type") /\ ~HasArr(f, "prefixItems") /\ ~HasArr(f, "oneOf")
    BY StrFacts DEF HasArr, Has
  <2> QED
    BY <2>1 DEF rewrite, downgradeTypeUnion, downgradeTupleItems, IsTuple, downgradeNullableOneOf
<1>3. walk(Str("null")) = Str("null")
  <2>1. rewrite(n.fields) = f
    BY <1>1, <1>2
  <2>2. "type" \in DOMAIN f /\ f["type"] = Str("null")
    OBVIOUS
  <2> HIDE DEF f
  <2>3. Str("null") \in Seen(T)
    BY <2>1, <2>2, SeenFacts
  <2> QED
    BY <2>3, WalkLeaf, StrFacts DEF Setting
<1>4. [k \in DOMAIN f |-> walk(f[k])] = f
  BY <1>3
<1>5. walk(n) = n
  BY <1>1, <1>2, <1>4, WalkSchema DEF Setting
<1>6. ASSUME NEW v \in Values PROVE Accepts(n, v) <=> v.kind = "null"
  <2>1. TypeNames(f["type"]) = {"null"}
    BY StrFacts DEF TypeNames
  <2>2. DOMAIN f = {"type"}
    OBVIOUS
  <2> HIDE DEF f
  <2>3. Means(f, v, Accepts) <=> v.kind = "null"
    BY <2>1, <2>2 DEF Means, Keywords, Elements, TakesNull, Has
  <2> QED
    BY <1>1, <2>3 DEF Setting, IsMeaning
<1> QED
  BY <1>5, <1>6

----
(* The keywords, one by one *)

\* The parts of a meaning.
Chooses(b, v) == One(b, v, Accepts)
Fits(s, e) == Elements(s, e, Accepts)
Meets(s, v) == Keywords(s, v, Accepts)

\* Exactly one branch accepts.
LEMMA ChoosesDef ==
    ASSUME NEW b, NEW v
    PROVE  Chooses(b, v) <=> \E i \in DOMAIN b : \A j \in DOMAIN b : Accepts(b[j], v) <=> i = j
BY DEF Chooses, One

\* Every element is accepted by the schema for its place.
LEMMA FitsDef ==
    ASSUME NEW s, NEW e
    PROVE  Fits(s, e) <=>
            \A i \in DOMAIN e :
                IF Has(s, "prefixItems") /\ i \in DOMAIN s["prefixItems"].elems
                THEN Accepts(s["prefixItems"].elems[i], e[i])
                ELSE Has(s, "items") =>
                        IF IsObj(s["items"]) THEN Accepts(s["items"], e[i]) ELSE s["items"].bool
BY DEF Fits, Elements

\* The value meets one keyword.
MeetsType(s, v) == Has(s, "type") => v.kind \in TypeNames(s["type"])
MeetsRef(s, v) == Has(s, "$ref") => v.kind = "object"
MeetsAllOf(s, v) ==
    Has(s, "allOf") => \A i \in DOMAIN s["allOf"].elems : Accepts(s["allOf"].elems[i], v)
MeetsOneOf(s, v) == Has(s, "oneOf") => Chooses(s["oneOf"].elems, v)
MeetsItems(s, v) == v.kind = "array" => Fits(s, v.elems)
MeetsProperties(s, v) ==
    Has(s, "properties") /\ v.kind = "object" =>
        \A p \in DOMAIN v.props \cap DOMAIN s["properties"].fields :
            Accepts(s["properties"].fields[p], v.props[p])

\* A value meets a schema when it meets every keyword.
LEMMA MeetsDef ==
    ASSUME NEW s, NEW v
    PROVE  Meets(s, v) <=>
            /\ MeetsType(s, v)
            /\ MeetsRef(s, v)
            /\ MeetsAllOf(s, v)
            /\ MeetsOneOf(s, v)
            /\ MeetsItems(s, v)
            /\ MeetsProperties(s, v)
BY DEF Meets, Keywords, MeetsType, MeetsRef, MeetsAllOf, MeetsOneOf, MeetsItems, MeetsProperties,
       Chooses, Fits

\* A schema accepts null when it is nullable, and what meets its keywords;
\* so does the schema after the walk.
LEMMA AcceptsDef ==
    ASSUME NEW T, IsMeaning(T), NEW n \in T, NEW v \in Values
    PROVE  /\ Accepts(n, v) <=> (TakesNull(n.fields) /\ v.kind = "null") \/ Meets(n.fields, v)
           /\ Accepts(walk(n), v) <=>
                (TakesNull(walk(n).fields) /\ v.kind = "null") \/ Meets(walk(n).fields, v)
BY DEF IsMeaning, Means, Meets

\* s and t have the same at key k.
Agree(s, t, k) == (Has(s, k) <=> Has(t, k)) /\ (Has(s, k) => s[k] = t[k])

\* A keyword says the same of two schemas that agree on it.
LEMMA AgreeFacts ==
    ASSUME NEW s, NEW t, NEW v
    PROVE  /\ Agree(s, t, "type") => (MeetsType(s, v) <=> MeetsType(t, v))
           /\ Agree(s, t, "$ref") => (MeetsRef(s, v) <=> MeetsRef(t, v))
           /\ Agree(s, t, "allOf") => (MeetsAllOf(s, v) <=> MeetsAllOf(t, v))
           /\ Agree(s, t, "oneOf") => (MeetsOneOf(s, v) <=> MeetsOneOf(t, v))
           /\ Agree(s, t, "prefixItems") /\ Agree(s, t, "items") =>
                (MeetsItems(s, v) <=> MeetsItems(t, v))
           /\ Agree(s, t, "properties") => (MeetsProperties(s, v) <=> MeetsProperties(t, v))
<1>1. Agree(s, t, "type") => (MeetsType(s, v) <=> MeetsType(t, v))
  BY DEF Agree, MeetsType
<1>2. Agree(s, t, "$ref") => (MeetsRef(s, v) <=> MeetsRef(t, v))
  BY DEF Agree, MeetsRef
<1>3. Agree(s, t, "allOf") => (MeetsAllOf(s, v) <=> MeetsAllOf(t, v))
  BY DEF Agree, MeetsAllOf
<1>4. Agree(s, t, "oneOf") => (MeetsOneOf(s, v) <=> MeetsOneOf(t, v))
  BY DEF Agree, MeetsOneOf
<1>5. Agree(s, t, "prefixItems") /\ Agree(s, t, "items") => (MeetsItems(s, v) <=> MeetsItems(t, v))
  <2> SUFFICES ASSUME Agree(s, t, "prefixItems"), Agree(s, t, "items") PROVE Fits(s, v.elems) <=> Fits(t, v.elems)
    BY DEF MeetsItems
  <2> QED
    BY FitsDef DEF Agree
<1>6. Agree(s, t, "properties") => (MeetsProperties(s, v) <=> MeetsProperties(t, v))
  BY DEF Agree, MeetsProperties
<1> QED
  BY <1>1, <1>2, <1>3, <1>4, <1>5, <1>6

----
(* The rewritings *)

\* The primary type is what a union with null names beside null.
LEMMA TypeUnionFacts ==
    ASSUME NEW B, NEW f, WellFormed(f, B), HasArr(f, "type"), IsNullUnion(f["type"].elems)
    PROVE  /\ Primary(f["type"].elems) \in Strings
           /\ "null" \in TypeNames(f["type"])
           /\ \A t : t # "null" =>
                (t \in TypeNames(f["type"]) <=> t \in TypeNames(Primary(f["type"].elems)))
<1>1. PICK e \in Seq(Strings) : f["type"] = Arr(e)
  BY StrFacts DEF WellFormed, KeywordOK, IsType, HasArr, Has, Strings
<1>2. f["type"].elems = e /\ IsArr(f["type"])
  BY <1>1, ArrFacts
<1>3. DOMAIN e = 1..2 /\ e[1] \in Strings /\ e[2] \in Strings
  <2>1. Len(e) = 2
    BY <1>2 DEF IsNullUnion
  <2> QED
    BY <2>1
<1>4. PICK a \in STRING, b \in STRING : e[1] = Str(a) /\ e[2] = Str(b)
  BY <1>3 DEF Strings
<1>5. e[1].str = a /\ e[2].str = b /\ Str("null").str = "null"
  BY <1>4, StrFacts
<1>6. TypeNames(f["type"]) = {a, b}
  <2>1. TypeNames(f["type"]) = {e[i].str : i \in DOMAIN e}
    BY <1>2 DEF TypeNames
  <2> QED
    BY <1>3, <1>5, <2>1
<1>7. (e[1] = Str("null") /\ e[2] # Str("null")) \/ (e[2] = Str("null") /\ e[1] # Str("null"))
  <2>1. PICK i \in 1..2 : e[i] = Str("null") /\ e[3 - i] # Str("null")
    BY <1>2 DEF IsNullUnion
  <2>2. i = 1 \/ i = 2
    BY <2>1
  <2> QED
    BY <2>1, <2>2
<1>8. Primary(e) \in Strings /\ Primary(e).str # "null" /\ {a, b} = {Primary(e).str, "null"}
  BY <1>3, <1>4, <1>5, <1>7 DEF Primary
<1>9. TypeNames(Primary(e)) = {Primary(e).str}
  BY <1>8, StrFacts DEF TypeNames, Strings
<1> QED
  BY <1>2, <1>6, <1>8, <1>9

\* A type union loses null and becomes nullable: nothing changes but for null.
LEMMA UnionStep ==
    ASSUME NEW B, NEW f, WellFormed(f, B), NEW g, g = downgradeTypeUnion(f)
    PROVE  /\ WellFormed(g, B)
           /\ \A k : k \notin {"type", "nullable"} => Agree(f, g, k)
           /\ g = f \/ (TakesNull(g) /\ HasArr(f, "type") /\ IsNullUnion(f["type"].elems)
                        /\ "null" \in TypeNames(f["type"]))
           /\ \A v : v.kind # "null" => (MeetsType(f, v) <=> MeetsType(g, v))
<1>1. CASE ~(HasArr(f, "type") /\ IsNullUnion(f["type"].elems))
  BY <1>1 DEF downgradeTypeUnion, Agree
<1>2. CASE HasArr(f, "type") /\ IsNullUnion(f["type"].elems)
  <2> DEFINE t == Primary(f["type"].elems)
  <2>1. PICK h : h = Set(f, "type", t) /\ g = Nullable(h)
    BY <1>2 DEF downgradeTypeUnion
  <2>2. /\ t \in Strings
        /\ "null" \in TypeNames(f["type"])
        /\ \A x : x # "null" => (x \in TypeNames(f["type"]) <=> x \in TypeNames(t))
    BY <1>2, TypeUnionFacts
  <2> HIDE DEF t
  <2>3. /\ DOMAIN g = DOMAIN f \cup {"type", "nullable"}
        /\ g["type"] = t
        /\ g["nullable"] \in Booleans
        /\ \A k \in DOMAIN f : k \notin {"type", "nullable"} => g[k] = f[k]
        /\ IsMap(g)
    <3>1. DOMAIN h = DOMAIN f \cup {"type"}
      BY <2>1, SetDomain
    <3>2. h["type"] = t
      BY <2>1, SetNew
    <3>3. \A k \in DOMAIN f : k # "type" => h[k] = f[k]
      BY <2>1, SetOld
    <3>4. DOMAIN g = DOMAIN h \cup {"nullable"} /\ IsMap(g) /\ g["nullable"] \in Booleans
      BY <2>1, NullableDomain, NullableNew
    <3>5. \A k \in DOMAIN h : k # "nullable" => g[k] = h[k]
      BY <2>1, NullableOld
    <3> QED
      BY <3>1, <3>2, <3>3, <3>4, <3>5
  <2>4. WellFormed(g, B)
    <3>1. ASSUME NEW k \in DOMAIN g PROVE KeywordOK(k, g[k], B)
      <4>1. CASE k = "type"
        BY <2>2, <2>3, <4>1 DEF KeywordOK, IsType
      <4>2. CASE k = "nullable"
        BY <2>3, <4>2 DEF KeywordOK
      <4>3. CASE k \notin {"type", "nullable"}
        BY <2>3, <4>3 DEF WellFormed
      <4> QED
        BY <4>1, <4>2, <4>3
    <3> QED
      BY <2>3, <3>1 DEF WellFormed
  <2>5. TakesNull(g)
    BY <2>1, NullableNew
  <2>6. \A k : k \notin {"type", "nullable"} => Agree(f, g, k)
    BY <2>3 DEF Agree, Has
  <2>7. \A v : v.kind # "null" => (MeetsType(f, v) <=> MeetsType(g, v))
    BY <1>2, <2>2, <2>3 DEF MeetsType, Has, HasArr
  <2> QED
    BY <1>2, <2>2, <2>4, <2>5, <2>6, <2>7
<1> QED
  BY <1>1, <1>2

\* A tuple becomes an array of its first element's kind, which takes what a
\* tuple of like elements took.
LEMMA TupleStep ==
    ASSUME NEW B, NEW f, WellFormed(f, B), NEW g, g = downgradeTupleItems(f)
    PROVE  /\ WellFormed(g, B)
           /\ ~Has(f, "prefixItems") => g = f
           /\ \A k : k \notin {"prefixItems", "items"} => Agree(f, g, k)
           /\ Uniform(f) => (Has(g, "prefixItems") => Has(g, "items"))
           /\ Uniform(f) => \A v : MeetsItems(f, v) => MeetsItems(g, v)
<1>1. CASE ~IsTuple(f)
  <2>1. g = f
    BY <1>1 DEF downgradeTupleItems
  <2> QED
    BY <2>1 DEF Agree, Uniform
<1>2. CASE IsTuple(f)
  <2>1. PICK h, x : h = Without(f, "prefixItems") /\ x = f["prefixItems"].elems[1] /\ g = Set(h, "items", x)
    BY <1>2 DEF downgradeTupleItems
  <2>2. Has(f, "prefixItems") /\ IsObj(x)
    BY <1>2, <2>1 DEF IsTuple, HasArr
  <2>3. PICK e \in Seq(B) : f["prefixItems"] = Arr(e)
    BY <2>2 DEF WellFormed, KeywordOK, Has
  <2>4. f["prefixItems"].elems = e /\ x = e[1] /\ e # <<>>
    BY <1>2, <2>1, <2>3, ArrFacts DEF IsTuple
  <2>5. x \in B
    BY <2>4
  <2>6. /\ DOMAIN g = (DOMAIN f \ {"prefixItems"}) \cup {"items"}
        /\ g["items"] = x
        /\ \A k \in DOMAIN f : k \notin {"prefixItems", "items"} => g[k] = f[k]
        /\ IsMap(g)
    <3>1. DOMAIN h = DOMAIN f \ {"prefixItems"}
      BY <2>1, WithoutDomain
    <3>2. \A k \in DOMAIN f : k # "prefixItems" => h[k] = f[k]
      BY <2>1, WithoutOld
    <3>3. DOMAIN g = DOMAIN h \cup {"items"} /\ IsMap(g)
      <4>1. DOMAIN g = DOMAIN h \cup {"items"}
        BY <2>1 DEF Set
      <4>2. IsMap(g)
        BY <2>1, SetIsMap
      <4> QED
        BY <4>1, <4>2
    <3>4. g["items"] = x
      BY <2>1, SetNew
    <3>5. \A k \in DOMAIN h : k # "items" => g[k] = h[k]
      BY <2>1, SetOld
    <3> QED
      BY <3>1, <3>2, <3>3, <3>4, <3>5
  <2>7. WellFormed(g, B)
    <3>1. ASSUME NEW k \in DOMAIN g PROVE KeywordOK(k, g[k], B)
      <4>1. CASE k = "items"
        BY <2>5, <2>6, <4>1 DEF KeywordOK
      <4>2. CASE k # "items"
        BY <2>6, <4>2 DEF WellFormed
      <4> QED
        BY <4>1, <4>2
    <3> QED
      BY <2>6, <3>1 DEF WellFormed
  <2>8. \A k : k \notin {"prefixItems", "items"} => Agree(f, g, k)
    BY <2>6 DEF Agree, Has
  <2>9. ASSUME Uniform(f), NEW v, MeetsItems(f, v) PROVE MeetsItems(g, v)
    <3> SUFFICES ASSUME v.kind = "array", NEW i \in DOMAIN v.elems PROVE Accepts(x, v.elems[i])
      BY <2>2, <2>6, FitsDef DEF MeetsItems, Has
    <3>1. Fits(f, v.elems)
      BY <2>9 DEF MeetsItems
    <3>2. \A j \in DOMAIN e : e[j] = x
      BY <2>2, <2>4, <2>9 DEF Uniform
    <3>3. Has(f, "items") /\ ~IsObj(f["items"]) /\ ~f["items"].bool
      BY <1>2, <2>2, <2>9, BoolFacts DEF Uniform, IsTuple
    <3>4. i \in DOMAIN e => Accepts(e[i], v.elems[i])
      BY <2>2, <2>4, <3>1, FitsDef
    <3>5. i \in DOMAIN e
      BY <2>2, <2>4, <3>1, <3>3, FitsDef
    <3> QED
      BY <3>2, <3>4, <3>5
  <2> QED
    BY <2>2, <2>6, <2>7, <2>8, <2>9 DEF Has
<1> QED
  BY <1>1, <1>2

\* Without its null branches a choice is the same, for values but null.
LEMMA ChoosesKept ==
    ASSUME NEW S, NEW e \in Seq(S), NEW k \in Seq(S), NEW m, Kept(e, Len(e), k, m),
           NEW v, \A i \in DOMAIN e : IsNullBranch(e[i]) => ~Accepts(e[i], v)
    PROVE  Chooses(e, v) <=> Chooses(k, v)
<1>1. DOMAIN e = 1..Len(e) /\ DOMAIN k = 1..Len(k)
  OBVIOUS
<1>2. \A j \in DOMAIN k : m[j] \in DOMAIN e /\ k[j] = e[m[j]] /\ ~IsNullBranch(e[m[j]])
  BY <1>1 DEF Kept
<1>3. \A i, j \in DOMAIN k : m[i] = m[j] => i = j
  BY <1>1 DEF Kept
<1>4. \A i \in DOMAIN e : ~IsNullBranch(e[i]) => \E j \in DOMAIN k : m[j] = i
  BY <1>1 DEF Kept
<1>5. ASSUME Chooses(e, v) PROVE Chooses(k, v)
  <2>1. PICK i \in DOMAIN e : \A j \in DOMAIN e : Accepts(e[j], v) <=> i = j
    BY <1>5, ChoosesDef
  <2>2. PICK j \in DOMAIN k : m[j] = i
    BY <1>4, <2>1
  <2>3. \A l \in DOMAIN k : Accepts(k[l], v) <=> j = l
    BY <1>2, <1>3, <2>1, <2>2
  <2> QED
    BY <2>3, ChoosesDef
<1>6. ASSUME Chooses(k, v) PROVE Chooses(e, v)
  <2>1. PICK j \in DOMAIN k : \A l \in DOMAIN k : Accepts(k[l], v) <=> j = l
    BY <1>6, ChoosesDef
  <2>2. ASSUME NEW i \in DOMAIN e PROVE Accepts(e[i], v) <=> m[j] = i
    <3>1. CASE IsNullBranch(e[i])
      BY <1>2, <3>1
    <3>2. CASE ~IsNullBranch(e[i])
      BY <1>2, <1>3, <1>4, <2>1, <3>2
    <3> QED
      BY <3>1, <3>2
  <2> QED
    BY <1>2, <2>2, ChoosesDef
<1> QED
  BY <1>5, <1>6

\* One branch alone is chosen when it accepts.
LEMMA ChoosesOne ==
    ASSUME NEW k, DOMAIN k = {1}, NEW v
    PROVE  Chooses(k, v) <=> Accepts(k[1], v)
BY ChoosesDef

\* A parent without its branches.
LEMMA StripNone ==
    ASSUME NEW g, NEW r, r = Without(Nullable(g), "oneOf")
    PROVE  /\ DOMAIN r = (DOMAIN g \cup {"nullable"}) \ {"oneOf"} /\ IsMap(r)
           /\ TakesNull(r) /\ r["nullable"] \in Booleans
           /\ \A j \in DOMAIN g : j \notin {"nullable", "oneOf"} => r[j] = g[j]
<1>1. PICK n : n = Nullable(g) /\ r = Without(n, "oneOf")
  OBVIOUS
<1>2. DOMAIN n = DOMAIN g \cup {"nullable"} /\ TakesNull(n) /\ n["nullable"] \in Booleans
  BY <1>1, NullableDomain, NullableNew
<1>3. \A j \in DOMAIN g : j # "nullable" => n[j] = g[j]
  BY <1>1, NullableOld
<1>4. DOMAIN r = DOMAIN n \ {"oneOf"} /\ IsMap(r)
  BY <1>1, WithoutDomain
<1>5. \A j \in DOMAIN n : j # "oneOf" => r[j] = n[j]
  BY <1>1, WithoutOld
<1>6. r["nullable"] = n["nullable"]
  BY <1>2, <1>5
<1>7. TakesNull(r)
  BY <1>2, <1>4, <1>6 DEF TakesNull, Has
<1> QED
  BY <1>2, <1>3, <1>4, <1>5, <1>6, <1>7

\* Schemas whose parts are among them.
Closed(B) == \A b \in B : b = Obj(b.fields) /\ WellFormed(b.fields, B)

\* What becomes of parent g when branches k are left of its oneOf: several stay
\* its choice.
LeftMany(g, k, r) ==
    /\ Has(r, "oneOf") /\ r["oneOf"] = Arr(k)
    /\ \A j : j \notin {"nullable", "oneOf"} => Agree(g, r, j)

\* None is left: the choice goes.
LeftNone(g, k, r) ==
    /\ k = <<>>
    /\ ~Has(r, "oneOf")
    /\ \A j : j \notin {"nullable", "oneOf"} => Agree(g, r, j)

\* A reference is left: it must hold as well.
LeftReference(g, k, r) ==
    /\ DOMAIN k = {1}
    /\ ~Has(r, "oneOf")
    /\ Has(r, "allOf") /\ r["allOf"] = Arr(k)
    /\ \A j : j \notin {"nullable", "oneOf", "allOf"} => Agree(g, r, j)

\* A schema is left: it is merged into the parent.
LeftSchema(g, k, r) ==
    /\ DOMAIN k = {1}
    /\ Agree(k[1].fields, r, "oneOf")
    /\ \A j : j \notin {"nullable", "oneOf"} =>
        IF Has(g, j) THEN Agree(g, r, j) ELSE Agree(k[1].fields, r, j)

\* The parent that StripNull returns is well-formed and nullable, and one of
\* the four.
LEMMA Stripped ==
    ASSUME NEW B, Closed(B), NEW g, WellFormed(g, B), NEW k \in Seq(B), NEW r, r = StripNull(g, k)
    PROVE  /\ WellFormed(r, B)
           /\ TakesNull(r)
           /\ \/ Len(k) > 1 /\ LeftMany(g, k, r)
              \/ LeftNone(g, k, r)
              \/ LeftReference(g, k, r)
              \/ LeftSchema(g, k, r)
<1>1. CASE Len(k) > 1
  <2>1. r = Set(Nullable(g), "oneOf", Arr(k))
    BY <1>1 DEF StripNull
  <2>2. /\ DOMAIN r = DOMAIN g \cup {"nullable", "oneOf"} /\ IsMap(r)
        /\ TakesNull(r) /\ r["nullable"] \in Booleans /\ r["oneOf"] = Arr(k)
        /\ \A j \in DOMAIN g : j \notin {"nullable", "oneOf"} => r[j] = g[j]
    <3>1. PICK n : n = Nullable(g) /\ r = Set(n, "oneOf", Arr(k))
      BY <2>1
    <3>2. DOMAIN n = DOMAIN g \cup {"nullable"} /\ TakesNull(n) /\ n["nullable"] \in Booleans
      BY <3>1, NullableDomain, NullableNew
    <3>3. \A j \in DOMAIN g : j # "nullable" => n[j] = g[j]
      BY <3>1, NullableOld
    <3>4. DOMAIN r = DOMAIN n \cup {"oneOf"} /\ IsMap(r)
      <4>1. DOMAIN r = DOMAIN n \cup {"oneOf"}
        BY <3>1 DEF Set
      <4>2. IsMap(r)
        BY <3>1, SetIsMap
      <4> QED
        BY <4>1, <4>2
    <3>5. r["oneOf"] = Arr(k)
      BY <3>1, SetNew
    <3>6. \A j \in DOMAIN n : j # "oneOf" => r[j] = n[j]
      BY <3>1, SetOld
    <3>7. r["nullable"] = n["nullable"]
      BY <3>2, <3>6
    <3>8. TakesNull(r)
      BY <3>2, <3>4, <3>7 DEF TakesNull, Has
    <3> QED
      BY <3>2, <3>3, <3>4, <3>5, <3>6, <3>7, <3>8
  <2>3. ASSUME NEW j \in DOMAIN r PROVE KeywordOK(j, r[j], B)
    <3>1. CASE j = "nullable"
      BY <2>2, <3>1 DEF KeywordOK
    <3>2. CASE j = "oneOf"
      BY <2>2, <3>2 DEF KeywordOK
    <3>3. CASE j \notin {"nullable", "oneOf"}
      BY <2>2, <3>3 DEF WellFormed
    <3> QED
      BY <3>1, <3>2, <3>3
  <2>4. WellFormed(r, B)
    BY <2>2, <2>3 DEF WellFormed
  <2>5. LeftMany(g, k, r)
    BY <2>2 DEF LeftMany, Agree, Has
  <2> QED
    BY <1>1, <2>2, <2>4, <2>5
<1>2. ASSUME NEW b, b = Without(Nullable(g), "oneOf")
      PROVE  /\ WellFormed(b, B)
             /\ TakesNull(b) /\ Has(b, "nullable")
             /\ ~Has(b, "oneOf")
             /\ \A j : j \notin {"nullable", "oneOf"} => Agree(g, b, j)
  <2>1. /\ DOMAIN b = (DOMAIN g \cup {"nullable"}) \ {"oneOf"} /\ IsMap(b)
        /\ TakesNull(b) /\ b["nullable"] \in Booleans
        /\ \A j \in DOMAIN g : j \notin {"nullable", "oneOf"} => b[j] = g[j]
    BY <1>2, StripNone
  <2>2. ASSUME NEW j \in DOMAIN b PROVE KeywordOK(j, b[j], B)
    <3>1. CASE j = "nullable"
      BY <2>1, <3>1 DEF KeywordOK
    <3>2. CASE j # "nullable"
      BY <2>1, <3>2 DEF WellFormed
    <3> QED
      BY <3>1, <3>2
  <2>3. WellFormed(b, B)
    BY <2>1, <2>2 DEF WellFormed
  <2> QED
    BY <2>1, <2>3 DEF Agree, Has
<1>3. CASE k = <<>>
  <2>1. PICK b : b = Without(Nullable(g), "oneOf")
    OBVIOUS
  <2>2. r = b
    BY <1>3, <2>1 DEF StripNull
  <2> QED
    BY <1>2, <1>3, <2>1, <2>2 DEF LeftNone
<1>4. CASE Len(k) = 1
  <2>1. PICK b : b = Without(Nullable(g), "oneOf")
    OBVIOUS
  <2>2. PICK only : only = k[1]
    OBVIOUS
  <2>3. DOMAIN k = {1} /\ only \in B /\ k # <<>> /\ ~(Len(k) > 1)
    BY <1>4, <2>2
  <2>4. r = Absorb(b, only)
    BY <2>1, <2>2, <2>3 DEF StripNull
  <2>5. IsObj(only) /\ WellFormed(only.fields, B)
    BY <2>3, ObjFacts DEF Closed
  <2>6. /\ WellFormed(b, B)
        /\ TakesNull(b) /\ Has(b, "nullable")
        /\ ~Has(b, "oneOf")
        /\ \A j : j \notin {"nullable", "oneOf"} => Agree(g, b, j)
    BY <1>2, <2>1
  <2>7. CASE Has(only.fields, "$ref")
    <3>1. r = Set(b, "allOf", Arr(<<only>>))
      BY <2>4, <2>5, <2>7 DEF Absorb
    <3>2. k = <<only>>
      BY <1>4, <2>2
    <3>3. DOMAIN r = DOMAIN b \cup {"allOf"}
      BY <3>1 DEF Set
    <3>4. IsMap(r)
      BY <3>1, SetIsMap
    <3>5. r["allOf"] = Arr(k)
      BY <3>1, <3>2, SetNew
    <3>6. \A j \in DOMAIN b : j # "allOf" => r[j] = b[j]
      BY <3>1, SetOld
    <3>7. ASSUME NEW j \in DOMAIN r PROVE KeywordOK(j, r[j], B)
      <4>1. CASE j = "allOf"
        BY <3>5, <4>1 DEF KeywordOK
      <4>2. CASE j # "allOf"
        BY <2>6, <3>3, <3>6, <4>2 DEF WellFormed
      <4> QED
        BY <4>1, <4>2
    <3>8. WellFormed(r, B)
      BY <3>4, <3>7 DEF WellFormed
    <3>9. TakesNull(r)
      BY <2>6, <3>3, <3>6 DEF TakesNull, Has
    <3>10. LeftReference(g, k, r)
      BY <2>3, <2>6, <3>3, <3>5, <3>6 DEF LeftReference, Agree, Has
    <3> QED
      BY <3>8, <3>9, <3>10
  <2>8. CASE ~Has(only.fields, "$ref")
    <3>1. PICK o : o = only.fields /\ r = Merge(b, o)
      BY <2>4, <2>5, <2>8 DEF Absorb
    <3>2. DOMAIN r = DOMAIN b \cup DOMAIN o
      BY <3>1 DEF Merge
    <3>3. IsMap(r)
      BY <3>1, MergeDomain
    <3>4. \A j \in DOMAIN b : r[j] = b[j]
      BY <3>1, MergeParent
    <3>5. \A j \in DOMAIN o : j \notin DOMAIN b => r[j] = o[j]
      BY <3>1, MergeBranch
    <3>6. ASSUME NEW j \in DOMAIN r PROVE KeywordOK(j, r[j], B)
      <4>1. CASE j \in DOMAIN b
        BY <2>6, <3>4, <4>1 DEF WellFormed
      <4>2. CASE j \notin DOMAIN b
        BY <2>5, <3>1, <3>2, <3>5, <4>2 DEF WellFormed
      <4> QED
        BY <4>1, <4>2
    <3>7. WellFormed(r, B)
      BY <3>3, <3>6 DEF WellFormed
    <3>8. TakesNull(r)
      BY <2>6, <3>2, <3>4 DEF TakesNull, Has
    <3>9. Agree(o, r, "oneOf")
      BY <2>6, <3>2, <3>5 DEF Agree, Has
    <3>10. ASSUME NEW j, j \notin {"nullable", "oneOf"}
           PROVE  IF Has(g, j) THEN Agree(g, r, j) ELSE Agree(o, r, j)
      BY <2>6, <3>2, <3>4, <3>5, <3>10 DEF Agree, Has
    <3>11. LeftSchema(g, k, r)
      BY <2>2, <2>3, <3>1, <3>9, <3>10 DEF LeftSchema
    <3> QED
      BY <3>7, <3>8, <3>11
  <2> QED
    BY <2>7, <2>8
<1> QED
  BY <1>1, <1>3, <1>4

\* What is left when the null branches go.
LEMMA OneOfStep ==
    ASSUME NEW B, Closed(B), NEW g, WellFormed(g, B), NEW r, r = downgradeNullableOneOf(g)
    PROVE  \/ /\ r = g
              /\ Has(g, "oneOf") => ~sawNull(g["oneOf"].elems)
           \/ \E e, k \in Seq(B) : \E m :
                /\ Has(g, "oneOf") /\ g["oneOf"] = Arr(e) /\ sawNull(e)
                /\ Kept(e, Len(e), k, m)
                /\ r = StripNull(g, k)
<1>1. CASE ~Has(g, "oneOf")
  BY <1>1 DEF downgradeNullableOneOf, HasArr
<1>2. CASE Has(g, "oneOf")
  <2>1. PICK e \in Seq(B) : g["oneOf"] = Arr(e)
    BY <1>2 DEF WellFormed, KeywordOK, Has
  <2>2. HasArr(g, "oneOf") /\ g["oneOf"].elems = e
    BY <1>2, <2>1, ArrFacts DEF HasArr
  <2>3. kept(e) \in Seq(B) /\ \E m : Kept(e, Len(e), kept(e), m)
    BY KeptFacts
  <2>4. CASE sawNull(e)
    <3>1. r = StripNull(g, kept(e))
      BY <2>2, <2>4 DEF downgradeNullableOneOf
    <3> QED
      BY <1>2, <2>1, <2>3, <2>4, <3>1
  <2>5. CASE ~sawNull(e)
    BY <2>2, <2>5 DEF downgradeNullableOneOf
  <2> QED
    BY <2>4, <2>5
<1> QED
  BY <1>1, <1>2

----
(* One node: no rewriting refuses a value *)

\* What Means says.
Means30(s, v) == (TakesNull(s) /\ v.kind = "null") \/ Meets(s, v)

\* The keys of a branch on top of a parent that accept the same value: the
\* elements of an array meet the parent's items, if it has any, and the
\* branch's prefixItems.
LEMMA MergedItems ==
    ASSUME NEW g, NEW o, NEW r, NEW v,
           Has(g, "prefixItems") => Has(g, "items"),
           \A j \in {"prefixItems", "items"} : IF Has(g, j) THEN Agree(g, r, j) ELSE Agree(o, r, j),
           MeetsItems(g, v), MeetsItems(o, v)
    PROVE  MeetsItems(r, v)
<1>1. CASE Has(g, "prefixItems") /\ Has(g, "items")
  BY <1>1, AgreeFacts
<1>2. CASE ~Has(g, "prefixItems") /\ ~Has(g, "items")
  BY <1>2, AgreeFacts
<1>3. CASE ~Has(g, "prefixItems") /\ Has(g, "items")
  <2> SUFFICES ASSUME v.kind = "array" PROVE Fits(r, v.elems)
    BY DEF MeetsItems
  <2>1. Fits(g, v.elems) /\ Fits(o, v.elems)
    BY DEF MeetsItems
  <2>2. Agree(o, r, "prefixItems") /\ Agree(g, r, "items")
    BY <1>3
  <2>3. ASSUME NEW i \in DOMAIN v.elems
        PROVE  IF Has(r, "prefixItems") /\ i \in DOMAIN r["prefixItems"].elems
               THEN Accepts(r["prefixItems"].elems[i], v.elems[i])
               ELSE Has(r, "items") =>
                    IF IsObj(r["items"]) THEN Accepts(r["items"], v.elems[i]) ELSE r["items"].bool
    <3>1. Has(o, "prefixItems") /\ i \in DOMAIN o["prefixItems"].elems =>
            Accepts(o["prefixItems"].elems[i], v.elems[i])
      BY <2>1, FitsDef
    <3>2. IF IsObj(g["items"]) THEN Accepts(g["items"], v.elems[i]) ELSE g["items"].bool
      BY <1>3, <2>1, FitsDef
    <3> QED
      BY <2>2, <3>1, <3>2 DEF Agree
  <2> QED
    BY <2>3, FitsDef
<1> QED
  BY <1>1, <1>2, <1>3

\* A value other than null gets through when the null branches go.
LEMMA StripKeeps ==
    ASSUME NEW T, Setting(T), NEW B \in SUBSET T, Closed(B),
           NEW g, WellFormed(g, B), Has(g, "prefixItems") => Has(g, "items"),
           NEW e \in Seq(B), NEW k \in Seq(B), NEW m,
           Has(g, "oneOf"), g["oneOf"] = Arr(e), Kept(e, Len(e), k, m),
           NEW r, r = StripNull(g, k),
           NEW v \in Values, v.kind # "null", Meets(g, v)
    PROVE  Meets(r, v)
<1>1. \A i \in DOMAIN e : e[i] \in T
  OBVIOUS
<1>2. \A i \in DOMAIN e : IsNullBranch(e[i]) => ~Accepts(e[i], v)
  BY <1>1, NullBranchFacts
<1>3. g["oneOf"].elems = e
  BY ArrFacts
<1>4. Chooses(e, v)
  BY <1>3, MeetsDef DEF MeetsOneOf
<1>5. Chooses(k, v)
  BY <1>2, <1>4, ChoosesKept
<1>6. /\ MeetsType(g, v) /\ MeetsRef(g, v) /\ MeetsAllOf(g, v)
      /\ MeetsItems(g, v) /\ MeetsProperties(g, v)
  BY MeetsDef
<1>7. CASE LeftMany(g, k, r)
  <2>1. MeetsOneOf(r, v)
    BY <1>5, <1>7, ArrFacts DEF LeftMany, MeetsOneOf
  <2>2. \A j \in {"type", "$ref", "allOf", "prefixItems", "items", "properties"} : Agree(g, r, j)
    BY <1>7 DEF LeftMany
  <2> QED
    BY <1>6, <2>1, <2>2, AgreeFacts, MeetsDef
<1>8. CASE LeftNone(g, k, r)
  <2>1. MeetsOneOf(r, v)
    BY <1>8 DEF LeftNone, MeetsOneOf
  <2>2. \A j \in {"type", "$ref", "allOf", "prefixItems", "items", "properties"} : Agree(g, r, j)
    BY <1>8 DEF LeftNone
  <2> QED
    BY <1>6, <2>1, <2>2, AgreeFacts, MeetsDef
<1>9. CASE LeftReference(g, k, r)
  <2>1. MeetsOneOf(r, v)
    BY <1>9 DEF LeftReference, MeetsOneOf
  <2>2. Accepts(k[1], v)
    BY <1>5, <1>9, ChoosesOne DEF LeftReference
  <2>3. MeetsAllOf(r, v)
    BY <1>9, <2>2, ArrFacts DEF LeftReference, MeetsAllOf
  <2>4. \A j \in {"type", "$ref", "prefixItems", "items", "properties"} : Agree(g, r, j)
    BY <1>9 DEF LeftReference
  <2> QED
    BY <1>6, <2>1, <2>3, <2>4, AgreeFacts, MeetsDef
<1>10. CASE LeftSchema(g, k, r)
  <2>1. PICK o : o = k[1].fields
    OBVIOUS
  <2>2. k[1] \in T /\ Accepts(k[1], v)
    BY <1>5, <1>10, ChoosesOne DEF LeftSchema
  <2>3. Meets(o, v)
    BY <2>1, <2>2, AcceptsDef DEF Setting
  <2>4. /\ MeetsType(o, v) /\ MeetsRef(o, v) /\ MeetsAllOf(o, v)
        /\ MeetsOneOf(o, v) /\ MeetsItems(o, v) /\ MeetsProperties(o, v)
    BY <2>3, MeetsDef
  <2>5. MeetsOneOf(r, v)
    BY <1>10, <2>1, <2>4, AgreeFacts DEF LeftSchema
  <2>6. \A j \in {"type", "$ref", "allOf", "prefixItems", "items", "properties"} :
            IF Has(g, j) THEN Agree(g, r, j) ELSE Agree(o, r, j)
    BY <1>10, <2>1 DEF LeftSchema
  <2>7. MeetsType(r, v) /\ MeetsRef(r, v) /\ MeetsAllOf(r, v) /\ MeetsProperties(r, v)
    BY <1>6, <2>4, <2>6, AgreeFacts
  <2>8. MeetsItems(r, v)
    BY <1>6, <2>4, <2>6, MergedItems
  <2> QED
    BY <2>5, <2>7, <2>8, MeetsDef
<1> QED
  BY <1>7, <1>8, <1>9, <1>10, Stripped

\* A schema with its rewritings accepts what it did, before the walk goes on.
LEMMA RewriteKeeps ==
    ASSUME NEW T, Setting(T), NEW B \in SUBSET T, Closed(B),
           NEW f, WellFormed(f, B), Uniform(f), NEW r, r = rewrite(f),
           NEW v \in Values, Means30(f, v)
    PROVE  Means30(r, v)
<1>1. PICK g, h : g = downgradeTypeUnion(f) /\ h = downgradeTupleItems(g) /\ r = downgradeNullableOneOf(h)
  BY DEF rewrite
<1>2. /\ WellFormed(g, B)
      /\ \A k : k \notin {"type", "nullable"} => Agree(f, g, k)
      /\ g = f \/ TakesNull(g)
      /\ v.kind # "null" => (MeetsType(f, v) <=> MeetsType(g, v))
  BY <1>1, UnionStep
<1>3. Uniform(g)
  BY <1>2 DEF Uniform, Agree
<1>4. Means30(g, v)
  <2>1. CASE g = f
    BY <2>1
  <2>2. CASE TakesNull(g) /\ v.kind # "null"
    <3>1. Meets(f, v)
      BY <2>2 DEF Means30
    <3>2. \A k \in {"$ref", "allOf", "oneOf", "prefixItems", "items", "properties"} : Agree(f, g, k)
      BY <1>2
    <3> QED
      BY <1>2, <2>2, <3>1, <3>2, AgreeFacts, MeetsDef DEF Means30
  <2> QED
    BY <1>2, <2>1, <2>2 DEF Means30
<1>5. /\ WellFormed(h, B)
      /\ \A k : k \notin {"prefixItems", "items"} => Agree(g, h, k)
      /\ Has(h, "prefixItems") => Has(h, "items")
      /\ MeetsItems(g, v) => MeetsItems(h, v)
  BY <1>1, <1>2, <1>3, TupleStep
<1>6. Means30(h, v)
  <2>1. TakesNull(g) => TakesNull(h)
    BY <1>5 DEF TakesNull, Agree
  <2>2. \A k \in {"type", "$ref", "allOf", "oneOf", "properties"} : Agree(g, h, k)
    BY <1>5
  <2>3. Meets(g, v) => Meets(h, v)
    BY <1>5, <2>2, AgreeFacts, MeetsDef
  <2> QED
    BY <1>4, <2>1, <2>3 DEF Means30
<1>7. CASE r = h
  BY <1>6, <1>7
<1>8. ASSUME NEW e \in Seq(B), NEW k \in Seq(B), NEW m,
             Has(h, "oneOf"), h["oneOf"] = Arr(e), Kept(e, Len(e), k, m), r = StripNull(h, k)
      PROVE  Means30(r, v)
  <2>1. TakesNull(r)
    BY <1>5, <1>8, Stripped
  <2>2. v.kind # "null" => Meets(r, v)
    BY <1>5, <1>6, <1>8, StripKeeps DEF Means30
  <2> QED
    BY <2>1, <2>2 DEF Means30
<1> QED
  BY <1>1, <1>5, <1>7, <1>8, OneOfStep

----
(* One node: in the 3.1 idioms the rewritings change nothing *)

\* The schema keeps to the 3.1 idioms.
Plain(f) == Idiomatic(f, Accepts)

\* The idioms, one by one.
LEMMA PlainDef ==
    ASSUME NEW f, Plain(f)
    PROVE  /\ ~Has(f, "prefixItems")
           /\ HasArr(f, "type") /\ IsNullUnion(f["type"].elems) => ~Has(f, "$ref") /\ ~Has(f, "allOf")
           /\ Has(f, "oneOf") =>
                /\ \A k \in DOMAIN f : k = "oneOf" \/ k = "description"
                /\ \A i \in DOMAIN f["oneOf"].elems :
                    Accepts(f["oneOf"].elems[i], [kind |-> "null"]) => IsNullBranch(f["oneOf"].elems[i])
                /\ \A i, j \in DOMAIN f["oneOf"].elems :
                    f["oneOf"].elems[i] = f["oneOf"].elems[j] => i = j
                /\ \E i \in DOMAIN f["oneOf"].elems : ~IsNullBranch(f["oneOf"].elems[i])
BY DEF Plain, Idiomatic, Has

\* A schema that is a choice and nothing else.
LEMMA OnlyOneOf ==
    ASSUME NEW f, Has(f, "oneOf"), \A k \in DOMAIN f : k = "oneOf" \/ k = "description", NEW v
    PROVE  /\ Meets(f, v) <=> Chooses(f["oneOf"].elems, v)
           /\ ~TakesNull(f)
           /\ \A j \in {"type", "$ref", "allOf", "prefixItems", "items", "properties"} : ~Has(f, j)
<1>1. \A j \in {"type", "$ref", "allOf", "prefixItems", "items", "properties", "nullable"} : ~Has(f, j)
  BY DEF Has
<1>2. MeetsType(f, v) /\ MeetsRef(f, v) /\ MeetsAllOf(f, v) /\ MeetsProperties(f, v)
  BY <1>1 DEF MeetsType, MeetsRef, MeetsAllOf, MeetsProperties
<1>3. MeetsItems(f, v)
  BY <1>1, FitsDef DEF MeetsItems
<1>4. Meets(f, v) <=> Chooses(f["oneOf"].elems, v)
  BY <1>2, <1>3, MeetsDef DEF MeetsOneOf
<1> QED
  BY <1>1, <1>4 DEF TakesNull

\* The null branch is the only one that takes null.
LEMMA NullIsChosen ==
    ASSUME NEW T, Setting(T), NEW e \in Seq(T), sawNull(e), NEW v \in Values, v.kind = "null",
           \A i \in DOMAIN e : Accepts(e[i], [kind |-> "null"]) => IsNullBranch(e[i]),
           \A i, j \in DOMAIN e : e[i] = e[j] => i = j
    PROVE  Chooses(e, v)
<1>1. PICK i \in DOMAIN e : IsNullBranch(e[i])
  BY DEF sawNull
<1>2. v = [kind |-> "null"]
  BY DEF Setting, ValuesClosed
<1>3. ASSUME NEW j \in DOMAIN e PROVE Accepts(e[j], v) <=> i = j
  <2>1. e[i] \in T /\ e[j] \in T
    OBVIOUS
  <2>2. Accepts(e[j], v) => IsNullBranch(e[j])
    BY <1>2
  <2>3. IsNullBranch(e[j]) => e[i] = e[j]
    BY <1>1 DEF IsNullBranch
  <2>4. Accepts(e[i], v)
    BY <1>1, <2>1, NullBranchFacts
  <2> QED
    BY <2>2, <2>3, <2>4
<1> QED
  BY <1>3, ChoosesDef

\* A null branch beside others, in the idiom: nothing changes.
LEMMA StripExact ==
    ASSUME NEW T, Setting(T), NEW B \in SUBSET T, Closed(B),
           NEW g, WellFormed(g, B), Plain(g),
           NEW e \in Seq(B), NEW k \in Seq(B), NEW m,
           Has(g, "oneOf"), g["oneOf"] = Arr(e), sawNull(e), Kept(e, Len(e), k, m),
           NEW r, r = StripNull(g, k),
           NEW v \in Values
    PROVE  Means30(r, v) <=> Means30(g, v)
<1>1. g["oneOf"].elems = e
  BY ArrFacts
<1>2. /\ \A i \in DOMAIN e : Accepts(e[i], [kind |-> "null"]) => IsNullBranch(e[i])
      /\ \A i, j \in DOMAIN e : e[i] = e[j] => i = j
      /\ \E i \in DOMAIN e : ~IsNullBranch(e[i])
      /\ \A j \in DOMAIN g : j = "oneOf" \/ j = "description"
      /\ ~Has(g, "prefixItems")
  BY <1>1, PlainDef
<1>3. /\ Meets(g, v) <=> Chooses(e, v)
      /\ ~TakesNull(g)
      /\ \A j \in {"type", "$ref", "allOf", "prefixItems", "items", "properties"} : ~Has(g, j)
  BY <1>1, <1>2, OnlyOneOf
<1>4. TakesNull(r)
  BY Stripped
<1>5. \A i \in DOMAIN e : e[i] \in T
  OBVIOUS
<1>6. CASE v.kind = "null"
  <2>1. e \in Seq(T)
    OBVIOUS
  <2>2. Chooses(e, v)
    BY <1>2, <1>6, <2>1, NullIsChosen
  <2> QED
    BY <1>3, <1>4, <1>6, <2>2 DEF Means30
<1>7. CASE v.kind # "null"
  <2>1. Meets(g, v) => Meets(r, v)
    BY <1>2, <1>7, StripKeeps
  <2>2. ASSUME Meets(r, v) PROVE Chooses(k, v)
    <3>1. MeetsAllOf(r, v) /\ MeetsOneOf(r, v)
      BY <2>2, MeetsDef
    <3>2. CASE LeftMany(g, k, r)
      BY <3>1, <3>2, ArrFacts DEF LeftMany, MeetsOneOf
    <3>3. ~LeftNone(g, k, r)
      <4>1. DOMAIN e = 1..Len(e) /\ DOMAIN k = 1..Len(k)
        OBVIOUS
      <4>2. \E j \in 1..Len(k) : TRUE
        BY <1>2, <4>1 DEF Kept
      <4> QED
        BY <4>2 DEF LeftNone
    <3>4. CASE LeftReference(g, k, r)
      <4>1. DOMAIN k = {1} /\ Has(r, "allOf") /\ r["allOf"].elems = k
        BY <3>4, ArrFacts DEF LeftReference
      <4>2. Accepts(k[1], v)
        BY <3>1, <4>1 DEF MeetsAllOf
      <4> QED
        BY <4>1, <4>2, ChoosesOne
    <3>5. CASE LeftSchema(g, k, r)
      <4>1. PICK o : o = k[1].fields
        OBVIOUS
      <4>2. DOMAIN k = {1} /\ k[1] \in T
        BY <3>5 DEF LeftSchema
      <4>3. \A j \in {"type", "$ref", "allOf", "oneOf", "prefixItems", "items", "properties"} : Agree(o, r, j)
        BY <1>3, <3>5, <4>1 DEF LeftSchema
      <4>4. Meets(o, v)
        BY <2>2, <4>3, AgreeFacts, MeetsDef
      <4>5. Accepts(k[1], v)
        BY <4>1, <4>2, <4>4, AcceptsDef DEF Setting
      <4> QED
        BY <4>2, <4>5, ChoosesOne
    <3> QED
      BY <3>2, <3>3, <3>4, <3>5, Stripped
  <2>3. \A i \in DOMAIN e : IsNullBranch(e[i]) => ~Accepts(e[i], v)
    BY <1>5, <1>7, NullBranchFacts
  <2>4. Meets(r, v) => Meets(g, v)
    BY <1>3, <2>2, <2>3, ChoosesKept
  <2> QED
    BY <1>7, <2>1, <2>4 DEF Means30
<1> QED
  BY <1>6, <1>7

\* A schema in the 3.1 idioms means the same when it is rewritten, before the
\* walk goes on.
LEMMA RewriteExact ==
    ASSUME NEW T, Setting(T), NEW B \in SUBSET T, Closed(B),
           NEW f, WellFormed(f, B), Plain(f), NEW r, r = rewrite(f),
           NEW v \in Values
    PROVE  Means30(r, v) <=> Means30(f, v)
<1>1. PICK g, h : g = downgradeTypeUnion(f) /\ h = downgradeTupleItems(g) /\ r = downgradeNullableOneOf(h)
  BY DEF rewrite
<1>2. /\ WellFormed(g, B)
      /\ \A k : k \notin {"type", "nullable"} => Agree(f, g, k)
      /\ g = f \/ (TakesNull(g) /\ HasArr(f, "type") /\ IsNullUnion(f["type"].elems)
                     /\ "null" \in TypeNames(f["type"]))
      /\ v.kind # "null" => (MeetsType(f, v) <=> MeetsType(g, v))
  BY <1>1, UnionStep
<1>3. ~Has(f, "prefixItems") /\ ~Has(g, "prefixItems")
  BY <1>2, PlainDef DEF Agree
<1>4. h = g
  BY <1>1, <1>2, <1>3, TupleStep
<1>5. CASE g # f
  <2>1. ~Has(f, "$ref") /\ ~Has(f, "allOf")
    BY <1>2, <1>5, PlainDef
  <2>2. ~Has(f, "oneOf")
    BY <1>2, <1>5, PlainDef DEF HasArr, Has
  <2>3. ~Has(g, "oneOf")
    BY <1>2, <2>2 DEF Agree
  <2>4. r = g
    BY <1>1, <1>4, <2>3 DEF downgradeNullableOneOf, HasArr
  <2>5. CASE v.kind = "null"
    <3>1. MeetsType(f, v)
      BY <1>2, <1>5, <2>5 DEF MeetsType
    <3>2. MeetsRef(f, v) /\ MeetsAllOf(f, v) /\ MeetsOneOf(f, v) /\ MeetsItems(f, v) /\ MeetsProperties(f, v)
      BY <2>1, <2>2, <2>5 DEF MeetsRef, MeetsAllOf, MeetsOneOf, MeetsItems, MeetsProperties
    <3> QED
      BY <1>2, <1>5, <2>4, <2>5, <3>1, <3>2, MeetsDef DEF Means30
  <2>6. CASE v.kind # "null"
    <3>1. \A k \in {"$ref", "allOf", "oneOf", "prefixItems", "items", "properties"} : Agree(f, g, k)
      BY <1>2
    <3>2. Meets(f, v) <=> Meets(g, v)
      BY <1>2, <2>6, <3>1, AgreeFacts, MeetsDef
    <3> QED
      BY <2>4, <2>6, <3>2 DEF Means30
  <2> QED
    BY <2>5, <2>6
<1>6. CASE g = f
  <2>1. r = f \/ \E e, k \in Seq(B) : \E m :
            /\ Has(f, "oneOf") /\ f["oneOf"] = Arr(e) /\ sawNull(e)
            /\ Kept(e, Len(e), k, m)
            /\ r = StripNull(f, k)
    BY <1>1, <1>2, <1>4, <1>6, OneOfStep
  <2> QED
    BY <2>1, StripExact
<1> QED
  BY <1>5, <1>6

----
(* What is below a node *)

\* y accepts what x accepts.
Allows(x, y) == \A v \in Values : Accepts(x, v) => Accepts(y, v)

\* x and y are lists or maps of schemas: y allows what x does, place by place.
AllowsEach(x, y) == DOMAIN x = DOMAIN y /\ \A i \in DOMAIN x : Allows(x[i], y[i])

\* t has the keys of s, and below them what allows as much.
Corresponds(s, t) ==
    /\ \A k : Has(s, k) <=> Has(t, k)
    /\ Has(s, "type") => s["type"] = t["type"]
    /\ Has(s, "allOf") => AllowsEach(s["allOf"].elems, t["allOf"].elems)
    /\ Has(s, "prefixItems") => AllowsEach(s["prefixItems"].elems, t["prefixItems"].elems)
    /\ Has(s, "items") =>
        \/ IsObj(s["items"]) /\ IsObj(t["items"]) /\ Allows(s["items"], t["items"])
        \/ ~IsObj(s["items"]) /\ t["items"] = s["items"]
    /\ Has(s, "properties") => AllowsEach(s["properties"].fields, t["properties"].fields)

\* What meets a schema meets one that corresponds to it, its choice apart.
LEMMA CorrespondingMeets ==
    ASSUME NEW s, NEW t, Corresponds(s, t), NEW v \in Values, ValuesClosed,
           MeetsOneOf(s, v) => MeetsOneOf(t, v), Meets(s, v)
    PROVE  Meets(t, v)
<1>1. /\ MeetsType(s, v) /\ MeetsRef(s, v) /\ MeetsAllOf(s, v)
      /\ MeetsOneOf(s, v) /\ MeetsItems(s, v) /\ MeetsProperties(s, v)
  BY MeetsDef
<1>2. MeetsType(t, v) /\ MeetsRef(t, v)
  BY <1>1 DEF Corresponds, MeetsType, MeetsRef
<1>3. MeetsAllOf(t, v)
  BY <1>1 DEF Corresponds, AllowsEach, MeetsAllOf, Allows
<1>4. MeetsProperties(t, v)
  BY <1>1 DEF Corresponds, AllowsEach, MeetsProperties, Allows, ValuesClosed
<1>5. MeetsItems(t, v)
  <2> SUFFICES ASSUME v.kind = "array" PROVE Fits(t, v.elems)
    BY DEF MeetsItems
  <2>1. Fits(s, v.elems)
    BY <1>1 DEF MeetsItems
  <2>2. ASSUME NEW i \in DOMAIN v.elems
        PROVE  IF Has(t, "prefixItems") /\ i \in DOMAIN t["prefixItems"].elems
               THEN Accepts(t["prefixItems"].elems[i], v.elems[i])
               ELSE Has(t, "items") =>
                    IF IsObj(t["items"]) THEN Accepts(t["items"], v.elems[i]) ELSE t["items"].bool
    <3>1. v.elems[i] \in Values
      BY DEF ValuesClosed
    <3>2. IF Has(s, "prefixItems") /\ i \in DOMAIN s["prefixItems"].elems
          THEN Accepts(s["prefixItems"].elems[i], v.elems[i])
          ELSE Has(s, "items") =>
                    IF IsObj(s["items"]) THEN Accepts(s["items"], v.elems[i]) ELSE s["items"].bool
      BY <2>1, FitsDef
    <3>3. /\ Has(s, "prefixItems") <=> Has(t, "prefixItems")
          /\ Has(s, "items") <=> Has(t, "items")
          /\ Has(s, "prefixItems") => AllowsEach(s["prefixItems"].elems, t["prefixItems"].elems)
          /\ Has(s, "items") =>
                \/ IsObj(s["items"]) /\ IsObj(t["items"]) /\ Allows(s["items"], t["items"])
                \/ ~IsObj(s["items"]) /\ t["items"] = s["items"]
      BY DEF Corresponds
    <3> QED
      BY <3>1, <3>2, <3>3 DEF AllowsEach, Allows
  <2> QED
    BY <2>2, FitsDef
<1> QED
  BY <1>1, <1>2, <1>3, <1>4, <1>5, MeetsDef

\* y is the list or map x of schemas after the walk.
Walked(x, y, B) ==
    /\ DOMAIN x = DOMAIN y /\ IsMap(y)
    /\ \A i \in DOMAIN x : x[i] \in B /\ y[i] = walk(x[i])

\* w is the rewritten schema r after the walk over what it holds.
WalkedOn(r, w, B) ==
    /\ \A k : Has(r, k) <=> Has(w, k)
    /\ Has(r, "type") => w["type"] = r["type"]
    /\ TakesNull(w) <=> TakesNull(r)
    /\ Has(r, "allOf") => Walked(r["allOf"].elems, w["allOf"].elems, B)
    /\ Has(r, "oneOf") => Walked(r["oneOf"].elems, w["oneOf"].elems, B)
    /\ Has(r, "prefixItems") => Walked(r["prefixItems"].elems, w["prefixItems"].elems, B)
    /\ Has(r, "items") =>
        \/ r["items"] \in B /\ IsObj(r["items"]) /\ IsObj(w["items"]) /\ w["items"] = walk(r["items"])
        \/ ~IsObj(r["items"]) /\ w["items"] = r["items"]
    /\ Has(r, "properties") => Walked(r["properties"].fields, w["properties"].fields, B)

\* The walk goes to the schemas below and leaves the rest.
LEMMA WalkGoesOn ==
    ASSUME NEW T, Setting(T), NEW n \in T, NEW B \in SUBSET T,
           NEW r, r = rewrite(n.fields), WellFormed(r, B),
           NEW w, w = [k \in DOMAIN r |-> walk(r[k])]
    PROVE  WalkedOn(r, w, B)
<1>a. \A k \in DOMAIN r :
        /\ r[k] \in Seen(T)
        /\ IsArr(r[k]) /\ ~IsObj(r[k]) => \A i \in DOMAIN r[k].elems : r[k].elems[i] \in Seen(T)
  BY SeenFacts
<1>1. DOMAIN w = DOMAIN r /\ \A k \in DOMAIN r : w[k] = walk(r[k])
  OBVIOUS
<1>2. \A k \in DOMAIN r : KeywordOK(k, r[k], B)
  BY DEF WellFormed
<1>3. IsWalk(T) /\ Tree(T)
  BY DEF Setting
<1>4. Has(r, "type") => w["type"] = r["type"]
  BY <1>a, <1>1, <1>2, <1>3, WalkType DEF Has, KeywordOK
<1>5. Has(r, "nullable") => w["nullable"] = r["nullable"]
  BY <1>a, <1>1, <1>2, <1>3, WalkLeaf, BoolFacts DEF Has, KeywordOK, Booleans
<1>6. TakesNull(w) <=> TakesNull(r)
  <2>1. Has(w, "nullable") <=> Has(r, "nullable")
    BY <1>1 DEF Has
  <2> QED
    BY <1>5, <2>1 DEF TakesNull
<1>7. ASSUME NEW k \in {"allOf", "oneOf", "prefixItems"}, Has(r, k)
      PROVE  Walked(r[k].elems, w[k].elems, B)
  <2>1. PICK e \in Seq(B) : r[k] = Arr(e)
    BY <1>2, <1>7 DEF Has, KeywordOK
  <2>2. Arr(e) \in Seen(T)
    BY <1>a, <1>7, <2>1 DEF Has
  <2>3. w[k] = Arr([i \in DOMAIN e |-> walk(e[i])])
    BY <1>1, <1>3, <1>7, <2>1, <2>2, WalkArr DEF Has
  <2>4. r[k].elems = e
    BY <2>1, ArrFacts
  <2>5. w[k].elems = [i \in DOMAIN e |-> walk(e[i])]
    BY <2>3 DEF Arr
  <2>6. \A i \in DOMAIN e : e[i] \in B
    OBVIOUS
  <2> QED
    BY <2>4, <2>5, <2>6 DEF Walked, IsMap
<1>8. ASSUME Has(r, "items")
      PROVE  \/ r["items"] \in B /\ IsObj(r["items"]) /\ IsObj(w["items"]) /\ w["items"] = walk(r["items"])
             \/ ~IsObj(r["items"]) /\ w["items"] = r["items"]
  <2>1. w["items"] = walk(r["items"])
    BY <1>1, <1>8 DEF Has
  <2>2. r["items"] \in B \/ r["items"] \in Booleans
    BY <1>2, <1>8 DEF Has, KeywordOK
  <2>3. CASE r["items"] \in B
    <3>1. IsObj(r["items"])
      BY <1>3, <2>3, ObjFacts DEF Tree
    <3>2. IsObj(walk(r["items"]))
      <4>1. \E x : walk(r["items"]) = Obj(x)
        BY <1>3, <2>3, WalkSchema
      <4> QED
        BY <4>1, ObjFacts
    <3> QED
      BY <2>1, <2>3, <3>1, <3>2
  <2>4. CASE r["items"] \in Booleans
    <3>1. r["items"] \in Seen(T)
      BY <1>a, <1>8 DEF Has
    <3> QED
      BY <1>3, <2>1, <2>4, <3>1, WalkLeaf, BoolFacts DEF Booleans
  <2> QED
    BY <2>2, <2>3, <2>4
<1>9. ASSUME Has(r, "properties")
      PROVE  Walked(r["properties"].fields, w["properties"].fields, B)
  <2>1. PICK D \in SUBSET STRING : \E p \in [D -> B] : r["properties"] = Obj(p)
    BY <1>2, <1>9 DEF Has, KeywordOK
  <2>2. PICK p \in [D -> B] : r["properties"] = Obj(p)
    BY <2>1
  <2>3. p \in [D -> T] /\ Obj(p) \in Seen(T)
    BY <1>a, <1>9, <2>2 DEF Has
  <2>4. w["properties"] = Obj([q \in D |-> walk(p[q])])
    BY <1>1, <1>3, <1>9, <2>2, <2>3, WalkMap DEF Has
  <2>5. r["properties"].fields = p
    BY <2>2, ObjFacts
  <2>6. w["properties"].fields = [q \in D |-> walk(p[q])]
    BY <2>4 DEF Obj
  <2> QED
    BY <2>5, <2>6 DEF Walked, IsMap
<1>10. \A k : Has(r, k) <=> Has(w, k)
  BY <1>1 DEF Has
<1> QED
  BY <1>4, <1>6, <1>7, <1>8, <1>9, <1>10 DEF WalkedOn

\* When the walk keeps what the schemas below allow, it keeps the rest too,
\* but for a choice; and so the other way about.
LEMMA WalkCorresponds ==
    ASSUME NEW B, NEW r, NEW w, WalkedOn(r, w, B)
    PROVE  /\ (\A b \in B : Allows(b, walk(b))) => Corresponds(r, w)
           /\ (\A b \in B : Allows(walk(b), b)) => Corresponds(w, r)
<1>1. ASSUME NEW x, NEW y, Walked(x, y, B)
      PROVE  /\ (\A b \in B : Allows(b, walk(b))) => AllowsEach(x, y)
             /\ (\A b \in B : Allows(walk(b), b)) => AllowsEach(y, x)
  BY <1>1 DEF Walked, AllowsEach
<1>2. /\ \A k : Has(r, k) <=> Has(w, k)
      /\ Has(r, "type") => w["type"] = r["type"]
      /\ Has(r, "allOf") => Walked(r["allOf"].elems, w["allOf"].elems, B)
      /\ Has(r, "prefixItems") => Walked(r["prefixItems"].elems, w["prefixItems"].elems, B)
      /\ Has(r, "items") =>
            \/ r["items"] \in B /\ IsObj(r["items"]) /\ IsObj(w["items"]) /\ w["items"] = walk(r["items"])
            \/ ~IsObj(r["items"]) /\ w["items"] = r["items"]
      /\ Has(r, "properties") => Walked(r["properties"].fields, w["properties"].fields, B)
  BY DEF WalkedOn
<1>3. ASSUME \A b \in B : Allows(b, walk(b)) PROVE Corresponds(r, w)
  BY <1>1, <1>2, <1>3 DEF Corresponds
<1>4. ASSUME \A b \in B : Allows(walk(b), b) PROVE Corresponds(w, r)
  BY <1>1, <1>2, <1>4 DEF Corresponds
<1> QED
  BY <1>3, <1>4

----
(* Choices *)

\* Where schema f leaves a choice among several, its branches are in P.
Choices(f, P) == IsChoice(f) => \A i \in DOMAIN f["oneOf"].elems : f["oneOf"].elems[i] \in P

\* A choice has two branches that are not null.
LEMMA IsChoiceDef ==
    ASSUME NEW f, Has(f, "oneOf"), NEW d, d = f["oneOf"].elems
    PROVE  IsChoice(f) <=> \E i, j \in DOMAIN d : i # j /\ ~IsNullBranch(d[i]) /\ ~IsNullBranch(d[j])
BY DEF IsChoice

\* The choices of a rewritten schema are among branches in P, or between one
\* schema and nothing, or null that nullable takes.
LEMMA RewriteChoices ==
    ASSUME NEW B, Closed(B), NEW P, NEW f, WellFormed(f, B), Choices(f, P),
           \A b \in B : Choices(b.fields, P),
           NEW r, r = rewrite(f), Has(r, "oneOf"), NEW d, d = r["oneOf"].elems
    PROVE  \/ \A i \in DOMAIN d : d[i] \in P
           \/ /\ ~IsChoice(r)
              /\ TakesNull(r) \/ \A i \in DOMAIN d : ~IsNullBranch(d[i])
<1>1. PICK g, h : g = downgradeTypeUnion(f) /\ h = downgradeTupleItems(g) /\ r = downgradeNullableOneOf(h)
  BY DEF rewrite
<1>2. WellFormed(g, B) /\ Agree(f, g, "oneOf")
  BY <1>1, UnionStep
<1>3. WellFormed(h, B) /\ Agree(g, h, "oneOf")
  BY <1>1, <1>2, TupleStep
<1>4. Agree(f, h, "oneOf")
  BY <1>2, <1>3 DEF Agree
<1>5. CASE r = h /\ (Has(h, "oneOf") => ~sawNull(h["oneOf"].elems))
  <2>1. Has(f, "oneOf") /\ f["oneOf"].elems = d
    BY <1>4, <1>5 DEF Agree
  <2>2. \A i \in DOMAIN d : ~IsNullBranch(d[i])
    BY <1>5 DEF sawNull
  <2>3. IsChoice(r) <=> IsChoice(f)
    BY <2>1, IsChoiceDef
  <2> QED
    BY <2>1, <2>2, <2>3 DEF Choices
<1>6. ASSUME NEW e \in Seq(B), NEW k \in Seq(B), NEW m,
             Has(h, "oneOf"), h["oneOf"] = Arr(e), Kept(e, Len(e), k, m), r = StripNull(h, k)
      PROVE  \/ \A i \in DOMAIN d : d[i] \in P
             \/ ~IsChoice(r) /\ TakesNull(r)
  <2>1. /\ TakesNull(r)
        /\ \/ Len(k) > 1 /\ LeftMany(h, k, r)
           \/ LeftNone(h, k, r)
           \/ LeftReference(h, k, r)
           \/ LeftSchema(h, k, r)
    BY <1>3, <1>6, Stripped
  <2>2. Has(f, "oneOf") /\ f["oneOf"].elems = e
    BY <1>4, <1>6, ArrFacts DEF Agree
  <2>3. CASE Len(k) > 1 /\ LeftMany(h, k, r)
    <3>1. d = k
      BY <2>3, ArrFacts DEF LeftMany
    <3>2. DOMAIN e = 1..Len(e) /\ DOMAIN k = 1..Len(k) /\ 1 \in 1..Len(k) /\ 2 \in 1..Len(k)
      BY <2>3
    <3>3. \A j \in DOMAIN k : m[j] \in DOMAIN e /\ k[j] = e[m[j]] /\ ~IsNullBranch(e[m[j]])
      BY <1>6, <3>2 DEF Kept
    <3>4. m[1] # m[2]
      BY <1>6, <3>2 DEF Kept
    <3>5. IsChoice(f)
      BY <2>2, <3>2, <3>3, <3>4, IsChoiceDef
    <3>6. \A i \in DOMAIN e : e[i] \in P
      BY <2>2, <3>5 DEF Choices
    <3> QED
      BY <3>1, <3>3, <3>6
  <2>4. ~LeftNone(h, k, r) /\ ~LeftReference(h, k, r)
    BY DEF LeftNone, LeftReference
  <2>5. CASE LeftSchema(h, k, r)
    <3>1. PICK b : b = k[1]
      OBVIOUS
    <3>2. b \in B /\ Has(b.fields, "oneOf") /\ b.fields["oneOf"].elems = d
      BY <2>5, <3>1 DEF LeftSchema, Agree
    <3>3. IsChoice(b.fields) <=> IsChoice(r)
      BY <3>2, IsChoiceDef
    <3>4. Choices(b.fields, P)
      BY <3>2
    <3> QED
      BY <2>1, <3>2, <3>3, <3>4 DEF Choices
  <2> QED
    BY <2>1, <2>3, <2>4, <2>5
<1> QED
  BY <1>1, <1>3, <1>5, <1>6, OneOfStep

\* What was chosen is chosen after the walk: among branches that mean what
\* they meant, or between one schema and null.
LEMMA WalkedChoice ==
    ASSUME NEW T, Setting(T), NEW B \in SUBSET T, NEW P,
           \A b \in B : Allows(b, walk(b)),
           \A b \in B \cap P : Allows(walk(b), b),
           NEW d, NEW w, Walked(d, w, B), NEW v \in Values, Chooses(d, v),
           \/ \A i \in DOMAIN d : d[i] \in P
           \/ /\ \A i, j \in DOMAIN d : ~IsNullBranch(d[i]) /\ ~IsNullBranch(d[j]) => i = j
              /\ v.kind # "null" \/ \A i \in DOMAIN d : ~IsNullBranch(d[i])
    PROVE  Chooses(w, v)
<1>1. DOMAIN w = DOMAIN d /\ \A i \in DOMAIN d : d[i] \in B /\ w[i] = walk(d[i])
  BY DEF Walked
<1>2. PICK i \in DOMAIN d : \A j \in DOMAIN d : Accepts(d[j], v) <=> i = j
  BY ChoosesDef
<1>3. Accepts(w[i], v)
  BY <1>1, <1>2 DEF Allows
<1>4. ASSUME NEW j \in DOMAIN d, Accepts(w[j], v) PROVE i = j
  <2>1. CASE d[j] \in P
    BY <1>1, <1>2, <1>4, <2>1 DEF Allows
  <2>2. CASE d[j] \notin P
    <3>1. d[i] \in T /\ d[j] \in T
      BY <1>1
    <3>2. IsNullBranch(d[i]) => v.kind = "null"
      BY <1>2, <3>1, NullBranchFacts
    <3>3. IsNullBranch(d[j]) => v.kind = "null"
      BY <1>1, <1>4, <3>1, NullBranchFacts
    <3> QED
      BY <2>2, <3>2, <3>3
  <2> QED
    BY <2>1, <2>2
<1> QED
  BY <1>1, <1>3, <1>4, ChoosesDef

----
(* A schema, after the schemas below it *)

\* What is below a schema below n is below n.
LEMMA BelowClosed ==
    ASSUME NEW T, Tree(T), NEW n \in T
    PROVE  Closed(Below(T, n))
<1> SUFFICES ASSUME NEW b \in Below(T, n)
             PROVE  b = Obj(b.fields) /\ WellFormed(b.fields, Below(T, n))
  BY DEF Closed
<1>1. b \in T /\ rank(b) < rank(n)
  BY DEF Below
<1>2. Below(T, b) \in SUBSET Below(T, n)
  <2> SUFFICES ASSUME NEW m \in Below(T, b) PROVE m \in Below(T, n)
    OBVIOUS
  <2>1. m \in T /\ rank(m) < rank(b)
    BY DEF Below
  <2>2. rank(m) \in Nat /\ rank(b) \in Nat /\ rank(n) \in Nat
    BY <1>1, <2>1 DEF Tree
  <2> QED
    BY <1>1, <2>1, <2>2 DEF Below
<1>3. b = Obj(b.fields) /\ WellFormed(b.fields, Below(T, b))
  BY <1>1 DEF Tree
<1>4. ASSUME NEW k \in DOMAIN b.fields PROVE KeywordOK(k, b.fields[k], Below(T, n))
  <2>1. PICK x : x = b.fields[k]
    OBVIOUS
  <2>2. PICK A, C : A = Below(T, b) /\ C = Below(T, n) /\ A \in SUBSET C
    BY <1>2
  <2>3. KeywordOK(k, x, A)
    BY <1>3, <2>1, <2>2 DEF WellFormed
  <2>4. ASSUME NEW e \in Seq(A) PROVE e \in Seq(C)
    BY <2>2
  <2>5. ASSUME NEW D \in SUBSET STRING, NEW p \in [D -> A] PROVE p \in [D -> C]
    BY <2>2
  <2>6. k \in {"oneOf", "allOf", "prefixItems"} => \E e \in Seq(C) : x = Arr(e)
    BY <2>3, <2>4 DEF KeywordOK
  <2>7. k = "properties" => \E D \in SUBSET STRING : \E p \in [D -> C] : x = Obj(p)
    BY <2>3, <2>5 DEF KeywordOK
  <2>8. KeywordOK(k, x, C)
    BY <2>2, <2>3, <2>6, <2>7 DEF KeywordOK
  <2> QED
    BY <2>1, <2>2, <2>8
<1> QED
  BY <1>3, <1>4 DEF WellFormed

\* What the walk makes of schema n.
LEMMA WalkedSchema ==
    ASSUME NEW T, Setting(T), NEW n \in T, NEW B, B = Below(T, n)
    PROVE  /\ B \in SUBSET T /\ Closed(B) /\ WellFormed(n.fields, B)
           /\ WellFormed(rewrite(n.fields), B)
           /\ WalkedOn(rewrite(n.fields), walk(n).fields, B)
<1>1. B \in SUBSET T /\ Closed(B) /\ WellFormed(n.fields, B)
  BY BelowClosed DEF Setting, Tree, Below
<1>2. PICK f, g, h, r : /\ f = n.fields
                        /\ g = downgradeTypeUnion(f)
                        /\ h = downgradeTupleItems(g)
                        /\ r = downgradeNullableOneOf(h)
  OBVIOUS
<1>3. r = rewrite(n.fields)
  BY <1>2 DEF rewrite
<1>4. WellFormed(h, B)
  <2>1. WellFormed(g, B)
    BY <1>1, <1>2, UnionStep
  <2> QED
    BY <1>2, <2>1, TupleStep
<1>5. WellFormed(r, B)
  <2>1. r = h \/ \E k \in Seq(B) : r = StripNull(h, k)
    BY <1>1, <1>2, <1>4, OneOfStep
  <2> QED
    BY <1>1, <1>4, <2>1, Stripped
<1>6. PICK w : w = [k \in DOMAIN r |-> walk(r[k])]
  OBVIOUS
<1>7. walk(n) = Obj(w)
  BY <1>3, <1>6, WalkSchema DEF Setting
<1>8. walk(n).fields = w
  BY <1>7, ObjFacts
<1>9. WalkedOn(r, w, B)
  BY <1>1, <1>3, <1>5, <1>6, WalkGoesOn
<1> QED
  BY <1>1, <1>3, <1>5, <1>8, <1>9

\* A schema is not refused a value when those below it are not.
LEMMA SchemaKeeps ==
    ASSUME NEW T, Setting(T), NEW P, NEW n \in T, Uniform(n.fields), Choices(n.fields, P),
           NEW B, B = Below(T, n),
           \A b \in B : Choices(b.fields, P) /\ Allows(b, walk(b)),
           \A b \in B \cap P : Allows(walk(b), b)
    PROVE  Allows(n, walk(n))
<1> SUFFICES ASSUME NEW v \in Values, Accepts(n, v) PROVE Accepts(walk(n), v)
  BY DEF Allows
<1>1. PICK f, r, w : f = n.fields /\ r = rewrite(f) /\ w = walk(n).fields
  OBVIOUS
<1>2. /\ B \in SUBSET T /\ Closed(B) /\ WellFormed(f, B)
      /\ WellFormed(r, B) /\ WalkedOn(r, w, B)
  BY <1>1, WalkedSchema
<1>3. Means30(f, v)
  BY <1>1, AcceptsDef DEF Setting, Means30
<1>4. Means30(r, v)
  BY <1>1, <1>2, <1>3, RewriteKeeps
<1>5. Means30(w, v)
  <2>1. TakesNull(w) <=> TakesNull(r)
    BY <1>2 DEF WalkedOn
  <2>2. CASE TakesNull(r) /\ v.kind = "null"
    BY <2>1, <2>2 DEF Means30
  <2>3. CASE ~(TakesNull(r) /\ v.kind = "null")
    <3>1. Meets(r, v)
      BY <1>4, <2>3 DEF Means30
    <3>2. Corresponds(r, w)
      BY <1>2, WalkCorresponds
    <3>3. MeetsOneOf(r, v) => MeetsOneOf(w, v)
      <4> SUFFICES ASSUME Has(r, "oneOf"), MeetsOneOf(r, v) PROVE Chooses(w["oneOf"].elems, v)
        BY <1>2 DEF MeetsOneOf, WalkedOn
      <4>1. PICK d, x : d = r["oneOf"].elems /\ x = w["oneOf"].elems
        OBVIOUS
      <4>2. Walked(d, x, B)
        BY <1>2, <4>1 DEF WalkedOn
      <4>3. Chooses(d, v)
        BY <4>1 DEF MeetsOneOf
      <4>4. \/ \A i \in DOMAIN d : d[i] \in P
            \/ /\ ~IsChoice(r)
               /\ TakesNull(r) \/ \A i \in DOMAIN d : ~IsNullBranch(d[i])
        BY <1>1, <1>2, <4>1, RewriteChoices
      <4>5. ~IsChoice(r) =>
                \A i, j \in DOMAIN d : ~IsNullBranch(d[i]) /\ ~IsNullBranch(d[j]) => i = j
        BY <4>1, IsChoiceDef
      <4>6. \/ \A i \in DOMAIN d : d[i] \in P
            \/ /\ \A i, j \in DOMAIN d : ~IsNullBranch(d[i]) /\ ~IsNullBranch(d[j]) => i = j
               /\ v.kind # "null" \/ \A i \in DOMAIN d : ~IsNullBranch(d[i])
        BY <2>3, <4>4, <4>5
      <4>7. Chooses(x, v)
        BY <1>2, <4>2, <4>3, <4>6, WalkedChoice
      <4> QED
        BY <4>1, <4>7
    <3>4. Meets(w, v)
      BY <3>1, <3>2, <3>3, CorrespondingMeets DEF Setting
    <3> QED
      BY <3>4 DEF Means30
  <2> QED
    BY <2>2, <2>3
<1> QED
  BY <1>1, <1>5, AcceptsDef DEF Setting, Means30

\* When the schemas below mean what they meant, so does the rewritten schema.
LEMMA WalkedExact ==
    ASSUME NEW T, Setting(T), NEW n \in T, NEW B, B = Below(T, n),
           \A b \in B : Allows(b, walk(b)) /\ Allows(walk(b), b),
           NEW v \in Values
    PROVE  Accepts(walk(n), v) <=> Means30(rewrite(n.fields), v)
<1>1. PICK r, w : r = rewrite(n.fields) /\ w = walk(n).fields
  OBVIOUS
<1>2. WalkedOn(r, w, B)
  BY <1>1, WalkedSchema
<1>3. TakesNull(w) <=> TakesNull(r)
  BY <1>2 DEF WalkedOn
<1>4. Corresponds(r, w) /\ Corresponds(w, r)
  BY <1>2, WalkCorresponds
<1>5. MeetsOneOf(r, v) <=> MeetsOneOf(w, v)
  <2> SUFFICES ASSUME Has(r, "oneOf"), Has(w, "oneOf")
               PROVE  Chooses(r["oneOf"].elems, v) <=> Chooses(w["oneOf"].elems, v)
    BY <1>2 DEF MeetsOneOf, WalkedOn
  <2>1. PICK d, x : d = r["oneOf"].elems /\ x = w["oneOf"].elems
    OBVIOUS
  <2>2. Walked(d, x, B)
    BY <1>2, <2>1 DEF WalkedOn
  <2>3. DOMAIN x = DOMAIN d /\ \A i \in DOMAIN d : Accepts(x[i], v) <=> Accepts(d[i], v)
    BY <2>2 DEF Walked, Allows
  <2>4. Chooses(d, v) <=> Chooses(x, v)
    BY <2>3, ChoosesDef
  <2> QED
    BY <2>1, <2>4
<1>6. Meets(r, v) <=> Meets(w, v)
  BY <1>4, <1>5, CorrespondingMeets DEF Setting
<1> QED
  BY <1>1, <1>3, <1>6, AcceptsDef DEF Setting, Means30

\* A schema in the idiom means what it meant when those below it do.
LEMMA SchemaExact ==
    ASSUME NEW T, Setting(T), NEW n \in T, Plain(n.fields), NEW B, B = Below(T, n),
           \A b \in B : Allows(b, walk(b)) /\ Allows(walk(b), b)
    PROVE  Allows(n, walk(n)) /\ Allows(walk(n), n)
<1> SUFFICES ASSUME NEW v \in Values PROVE Accepts(n, v) <=> Accepts(walk(n), v)
  BY DEF Allows
<1>1. B \in SUBSET T /\ Closed(B) /\ WellFormed(n.fields, B)
  BY WalkedSchema
<1>2. Means30(rewrite(n.fields), v) <=> Means30(n.fields, v)
  BY <1>1, RewriteExact
<1>3. Accepts(walk(n), v) <=> Means30(rewrite(n.fields), v)
  BY WalkedExact
<1> QED
  BY <1>2, <1>3, AcceptsDef DEF Setting, Means30

----
(* Every schema *)

\* Induction over schemas: what holds of a schema when it holds of those below
\* it holds of all.
LEMMA NoneWithout ==
    ASSUME NEW T, Tree(T), NEW S \in SUBSET T, \A n \in T : Below(T, n) \subseteq S => n \in S
    PROVE  S = T
<1> SUFFICES ASSUME NEW x \in T, x \notin S PROVE FALSE
  OBVIOUS
<1> DEFINE R == {rank(n) : n \in T \ S}
<1>1. R \in SUBSET Nat /\ R # {}
  BY DEF Tree
<1>2. PICK i \in R : \A j \in R : i <= j
  BY <1>1, Least
<1>3. PICK n \in T \ S : rank(n) = i
  OBVIOUS
<1>4. ASSUME NEW m \in Below(T, n), m \notin S PROVE FALSE
  <2>1. m \in T \ S /\ rank(m) < rank(n) /\ rank(m) \in Nat /\ rank(n) \in Nat
    BY <1>4 DEF Below, Tree
  <2>2. rank(n) <= rank(m)
    BY <1>2, <1>3, <2>1
  <2> QED
    BY <2>1, <2>2
<1> QED
  BY <1>3, <1>4

\* Where every schema keeps to the 3.1 idioms, here and below, one walk changes
\* nothing about what a schema means.
LEMMA WalkKeepsMeaning ==
    ASSUME NEW T, Setting(T), \A n \in T : Plain(n.fields)
    PROVE  \A n \in T : Allows(n, walk(n)) /\ Allows(walk(n), n)
<1> DEFINE S == {n \in T : Allows(n, walk(n)) /\ Allows(walk(n), n)}
<1>1. \A n \in T : Below(T, n) \subseteq S => n \in S
  BY SchemaExact
<1>2. S = T
  BY <1>1, NoneWithout DEF Setting
<1> QED
  BY <1>2

\* Where tuples are uniform and choices are among schemas P that come to allow
\* no more, one walk refuses no value that a schema accepts, whatever else is
\* in the document and wherever the rewritings meet.
LEMMA WalkRefusesNothing ==
    ASSUME NEW T, Setting(T), NEW P, \A b \in P : Allows(walk(b), b),
           \A n \in T : Uniform(n.fields) /\ Choices(n.fields, P)
    PROVE  \A n \in T : Allows(n, walk(n))
<1> DEFINE S == {n \in T : Allows(n, walk(n))}
<1>1. ASSUME NEW n \in T, Below(T, n) \subseteq S PROVE n \in S
  <2>1. PICK B : B = Below(T, n)
    OBVIOUS
  <2>2. \A b \in B : b \in T /\ Allows(b, walk(b))
    BY <1>1, <2>1
  <2> HIDE DEF S
  <2>3. Allows(n, walk(n))
    BY <2>1, <2>2, SchemaKeeps
  <2> QED
    BY <2>3 DEF S
<1>2. S = T
  BY <1>1, NoneWithout DEF Setting
<1> QED
  BY <1>2

----
(* The schemas of the program *)

\* T are schemas, with every schema that is in one of them.
Whole(T) == T \in SUBSET Schemas /\ \A n \in T : Subschemas(n) \subseteq T

\* What the walk makes of T.
Image(T) == {walk(n) : n \in T}

\* A list of elements of B is one.
LEMMA ListOf ==
    ASSUME NEW x, IsList(x), NEW B, \A i \in DOMAIN x.elems : x.elems[i] \in B
    PROVE  \E e \in Seq(B) : x = Arr(e)
<1>1. PICK e : e = x.elems
  OBVIOUS
<1>2. x = Arr(e) /\ e \in Seq({e[i] : i \in DOMAIN e})
  BY <1>1 DEF IsList
<1>3. {e[i] : i \in DOMAIN e} \subseteq B
  BY <1>1
<1>4. e \in Seq(B)
  BY <1>2, <1>3
<1> QED
  BY <1>2, <1>4

\* What a keyword holds, where B has the schemas in it.
LEMMA KeywordFacts ==
    ASSUME NEW k, NEW x, IsKeyword(k, x), NEW B, Under(k, x) \subseteq B
    PROVE  KeywordOK(k, x, B)
<1>1. ASSUME k = "type" PROVE IsType(x)
  <2>1. ASSUME NEW y, IsName(y) PROVE y \in Strings
    BY <2>1 DEF IsName, Strings
  <2>2. ASSUME IsList(x), \A i \in DOMAIN x.elems : IsName(x.elems[i]) PROVE IsType(x)
    <3>1. \E e \in Seq(Strings) : x = Arr(e)
      BY <2>1, <2>2, ListOf
    <3> QED
      BY <3>1 DEF IsType
  <2> QED
    BY <1>1, <2>1, <2>2 DEF IsKeyword, IsType
<1>2. ASSUME k \in {"oneOf", "allOf", "prefixItems"} PROVE \E e \in Seq(B) : x = Arr(e)
  <2>1. IsList(x)
    BY <1>2 DEF IsKeyword
  <2>2. \A i \in DOMAIN x.elems : x.elems[i] \in B
    BY <1>2 DEF Under
  <2> QED
    BY <2>1, <2>2, ListOf
<1>3. ASSUME k = "items" PROVE x \in B \/ x \in Booleans
  BY <1>3 DEF IsKeyword, Under, IsBool, Booleans
<1>4. ASSUME k = "properties" PROVE \E D \in SUBSET STRING : \E p \in [D -> B] : x = Obj(p)
  <2>1. PICK p : p = x.fields
    OBVIOUS
  <2>2. x = Obj(p) /\ p = [q \in DOMAIN p |-> p[q]] /\ DOMAIN p \in SUBSET STRING
    BY <1>4, <2>1 DEF IsKeyword, IsMap
  <2>3. \A q \in DOMAIN p : p[q] \in B
    BY <1>4, <2>1 DEF Under
  <2>4. p \in [DOMAIN p -> B]
    BY <2>2, <2>3
  <2> QED
    BY <2>2, <2>4
<1>5. k = "nullable" => x \in Booleans
  BY DEF IsKeyword, IsBool, Booleans
<1> QED
  BY <1>1, <1>2, <1>3, <1>4, <1>5 DEF KeywordOK

\* What the tool makes of schemas are schemas.
LEMMA ClosedFacts ==
    ASSUME NEW n \in Schemas
    PROVE  walk(n) \in Schemas /\ Subschemas(n) \subseteq Schemas
BY ClosedAssumption

\* Such a set is walked, and means what it means, as the proofs so far ask.
LEMMA WholeSetting ==
    ASSUME NEW T, Whole(T)
    PROVE  Setting(T)
<1>1. Tree(T)
  <2> SUFFICES ASSUME NEW n \in T
               PROVE  rank(n) \in Nat /\ n = Obj(n.fields) /\ WellFormed(n.fields, Below(T, n))
    BY DEF Tree
  <2>1. n \in Schemas /\ Subschemas(n) \subseteq T
    BY DEF Whole
  <2>2. /\ rank(n) \in Nat /\ n = Obj(n.fields) /\ IsMap(n.fields)
        /\ \A k \in DOMAIN n.fields : IsKeyword(k, n.fields[k])
        /\ \A m \in Subschemas(n) : rank(m) < rank(n)
    BY <2>1, SchemasAssumption
  <2>3. Subschemas(n) \subseteq Below(T, n)
    BY <2>1, <2>2 DEF Below
  <2>4. \A k \in DOMAIN n.fields : Under(k, n.fields[k]) \subseteq Below(T, n)
    BY <2>3 DEF Subschemas
  <2>5. \A k \in DOMAIN n.fields : KeywordOK(k, n.fields[k], Below(T, n))
    BY <2>2, <2>4, KeywordFacts
  <2> QED
    BY <2>2, <2>5 DEF WellFormed
<1>2. IsWalk(T)
  <2> SUFFICES ASSUME NEW n \in T, NEW x \in Met(n) PROVE walk(x) = WalkNode(x, walk)
    BY DEF IsWalk, Seen
  <2> QED
    BY WalkAssumption DEF Whole
<1>3. IsMeaning(T)
  <2> SUFFICES ASSUME NEW n \in T, NEW v \in Values
               PROVE  /\ Accepts(n, v) <=> Means(n.fields, v, Accepts)
                      /\ Accepts(walk(n), v) <=> Means(walk(n).fields, v, Accepts)
    BY DEF IsMeaning
  <2>1. n \in Schemas /\ walk(n) \in Schemas
    BY ClosedFacts DEF Whole
  <2> QED
    BY <2>1, AcceptsAssumption
<1>4. ValuesClosed
  BY ValuesAssumption DEF ValuesClosed
<1> QED
  BY <1>1, <1>2, <1>3, <1>4 DEF Setting

\* The schemas in a walked schema are those below it, walked.
LEMMA WalkWhole ==
    ASSUME NEW T, Whole(T)
    PROVE  Whole(Image(T))
<1> SUFFICES ASSUME NEW n \in T, NEW x \in Subschemas(walk(n)) PROVE x \in Image(T)
  BY ClosedFacts DEF Whole, Image
<1>1. PICK B, r, w : B = Below(T, n) /\ r = rewrite(n.fields) /\ w = walk(n).fields
  OBVIOUS
<1>2. B \in SUBSET T /\ WalkedOn(r, w, B)
  BY <1>1, WholeSetting, WalkedSchema
<1>3. PICK k \in DOMAIN w : x \in Under(k, w[k])
  BY <1>1 DEF Subschemas
<1>4. ASSUME NEW y, NEW z, Walked(y, z, B), NEW i \in DOMAIN z PROVE z[i] \in Image(T)
  BY <1>2, <1>4 DEF Walked, Image
<1>5. Has(r, k)
  BY <1>2, <1>3 DEF WalkedOn, Has
<1>6. CASE k \in {"oneOf", "allOf", "prefixItems"}
  <2>1. Walked(r[k].elems, w[k].elems, B)
    BY <1>2, <1>5, <1>6 DEF WalkedOn
  <2>2. PICK i \in DOMAIN w[k].elems : x = w[k].elems[i]
    BY <1>3, <1>6 DEF Under
  <2> QED
    BY <1>4, <2>1, <2>2
<1>7. CASE k = "properties"
  <2>1. Walked(r[k].fields, w[k].fields, B)
    BY <1>2, <1>5, <1>7 DEF WalkedOn
  <2>2. PICK i \in DOMAIN w[k].fields : x = w[k].fields[i]
    BY <1>3, <1>7 DEF Under
  <2> QED
    BY <1>4, <2>1, <2>2
<1>8. CASE k = "items"
  <2>1. x = w["items"] /\ IsObj(w["items"])
    BY <1>3, <1>8 DEF Under
  <2>2. w["items"] = walk(r["items"]) /\ r["items"] \in B
    BY <1>2, <1>5, <1>8, <2>1 DEF WalkedOn
  <2> QED
    BY <1>2, <2>1, <2>2 DEF Image
<1>9. k \in {"oneOf", "allOf", "prefixItems", "properties", "items"}
  BY <1>3 DEF Under
<1> QED
  BY <1>6, <1>7, <1>8, <1>9

----
(* Nothing left to rewrite *)

\* No rewriting applies to the schema.
Done(f) ==
    /\ ~(HasArr(f, "type") /\ IsNullUnion(f["type"].elems))
    /\ ~IsTuple(f)
    /\ ~(HasArr(f, "oneOf") /\ sawNull(f["oneOf"].elems))

\* Then nothing is rewritten.
LEMMA DoneRewrite ==
    ASSUME NEW f, Done(f)
    PROVE  rewrite(f) = f
<1>1. downgradeTypeUnion(f) = f
  BY DEF downgradeTypeUnion, Done
<1>2. downgradeTupleItems(f) = f
  BY DEF downgradeTupleItems, Done
<1>3. downgradeNullableOneOf(f) = f
  BY DEF downgradeNullableOneOf, Done
<1> QED
  BY <1>1, <1>2, <1>3 DEF rewrite

\* Only a null branch becomes one: each rewriting leaves a key behind.
LEMMA NullAfter ==
    ASSUME NEW T, Setting(T), NEW n \in T, IsNullBranch(walk(n))
    PROVE  IsNullBranch(n)
<1>1. PICK f, g, h, r, w : /\ f = n.fields
                           /\ g = downgradeTypeUnion(f)
                           /\ h = downgradeTupleItems(g)
                           /\ r = downgradeNullableOneOf(h)
                           /\ w = walk(n).fields
  OBVIOUS
<1>2. r = rewrite(f)
  BY <1>1 DEF rewrite
<1>3. PICK B : B = Below(T, n)
  OBVIOUS
<1>4. /\ B \in SUBSET T /\ Closed(B) /\ WellFormed(f, B)
      /\ WalkedOn(r, w, B)
  BY <1>1, <1>2, <1>3, WalkedSchema
<1>5. w = [type |-> Str("null")]
  BY <1>1, ObjFacts DEF IsNullBranch
<1>6. Has(r, "type") /\ r["type"] = Str("null") /\ \A k : Has(r, k) => k = "type"
  BY <1>4, <1>5 DEF WalkedOn, Has
<1>7. ~Has(r, "nullable") /\ ~Has(r, "items")
  BY <1>6
<1>8. WellFormed(g, B) /\ (g = f \/ TakesNull(g))
  BY <1>1, <1>4, UnionStep
<1>9. WellFormed(h, B) /\ \A k : k \notin {"prefixItems", "items"} => Agree(g, h, k)
  BY <1>1, <1>8, TupleStep
<1>10. r = h
  <2>1. r = h \/ \E k \in Seq(B) : r = StripNull(h, k)
    BY <1>1, <1>4, <1>9, OneOfStep
  <2>2. ASSUME NEW k \in Seq(B), r = StripNull(h, k) PROVE FALSE
    <3>1. TakesNull(r)
      BY <1>4, <1>9, <2>2, Stripped
    <3> QED
      BY <1>7, <3>1 DEF TakesNull
  <2> QED
    BY <2>1, <2>2
<1>11. h = g
  <2> SUFFICES ASSUME IsTuple(g) PROVE FALSE
    BY <1>1 DEF downgradeTupleItems
  <2>1. \E x, y : h = Set(x, "items", y)
    BY <1>1 DEF downgradeTupleItems
  <2>2. PICK x, y : h = Set(x, "items", y)
    BY <2>1
  <2>3. DOMAIN h = DOMAIN x \cup {"items"}
    BY <2>2 DEF Set
  <2>4. Has(h, "items")
    BY <2>3 DEF Has
  <2> QED
    BY <1>7, <1>10, <2>4
<1>12. g = f
  BY <1>7, <1>8, <1>10, <1>11 DEF TakesNull
<1>13. f = [type |-> Str("null")]
  <2>1. f = r /\ IsMap(f)
    BY <1>4, <1>10, <1>11, <1>12 DEF WellFormed
  <2>2. DOMAIN f = {"type"} /\ f["type"] = Str("null")
    BY <1>6, <2>1 DEF Has
  <2> QED
    BY <2>1, <2>2 DEF IsMap
<1>14. n = Obj(f)
  BY <1>1 DEF Setting, Tree
<1> QED
  BY <1>13, <1>14 DEF IsNullBranch

\* Where no rewriting applies, none does after the walk.
LEMMA WalkedDone ==
    ASSUME NEW T, Setting(T), NEW B \in SUBSET T, NEW r, WellFormed(r, B), Done(r),
           NEW w, WalkedOn(r, w, B)
    PROVE  Done(w)
<1>1. \A k : Has(r, k) <=> Has(w, k)
  BY DEF WalkedOn
<1>2. ~(HasArr(w, "type") /\ IsNullUnion(w["type"].elems))
  BY <1>1 DEF WalkedOn, Done, HasArr
<1>3. ASSUME NEW k \in {"oneOf", "prefixItems"}, Has(w, k)
      PROVE  \E e \in Seq(B) : /\ HasArr(r, k) /\ r[k].elems = e /\ Walked(e, w[k].elems, B)
  <2>1. Has(r, k)
    BY <1>1, <1>3
  <2>2. PICK e \in Seq(B) : r[k] = Arr(e)
    BY <1>3, <2>1 DEF WellFormed, KeywordOK, Has
  <2>3. IsArr(r[k]) /\ r[k].elems = e
    BY <2>2, ArrFacts
  <2>4. Walked(r[k].elems, w[k].elems, B)
    BY <1>3, <2>1 DEF WalkedOn
  <2> QED
    BY <2>1, <2>3, <2>4 DEF HasArr
<1>4. ASSUME IsTuple(w) PROVE FALSE
  <2>1. Has(w, "prefixItems") /\ w["prefixItems"].elems # <<>>
    BY <1>4 DEF IsTuple, HasArr
  <2>2. PICK e \in Seq(B) : /\ HasArr(r, "prefixItems") /\ r["prefixItems"].elems = e
                            /\ Walked(e, w["prefixItems"].elems, B)
    BY <1>3, <2>1
  <2>3. e # <<>>
    <3>1. PICK y : y = w["prefixItems"].elems
      OBVIOUS
    <3>2. DOMAIN y = DOMAIN e /\ y = [i \in DOMAIN y |-> y[i]]
      BY <2>2, <3>1 DEF Walked, IsMap
    <3>3. DOMAIN e = {} => y = <<>>
      BY <3>2
    <3> QED
      BY <2>1, <3>1, <3>3
  <2>4. IsObj(e[1])
    <3>1. e[1] \in T
      BY <2>3
    <3> QED
      BY <3>1, ObjFacts DEF Setting, Tree
  <2>5. ASSUME Has(r, "items") PROVE r["items"] = Bool(FALSE)
    <3>1. w["items"] = Bool(FALSE)
      BY <1>1, <1>4, <2>5 DEF IsTuple
    <3> QED
      BY <2>5, <3>1, BoolFacts DEF WalkedOn
  <2>6. IsTuple(r)
    BY <2>2, <2>3, <2>4, <2>5 DEF IsTuple
  <2> QED
    BY <2>6 DEF Done
<1>5. ASSUME HasArr(w, "oneOf"), sawNull(w["oneOf"].elems) PROVE FALSE
  <2>1. PICK e \in Seq(B) : /\ HasArr(r, "oneOf") /\ r["oneOf"].elems = e
                            /\ Walked(e, w["oneOf"].elems, B)
    BY <1>3, <1>5 DEF HasArr
  <2>2. PICK i \in DOMAIN e : IsNullBranch(walk(e[i]))
    BY <1>5, <2>1 DEF sawNull, Walked
  <2>3. e[i] \in T
    OBVIOUS
  <2>4. IsNullBranch(e[i])
    BY <2>2, <2>3, NullAfter
  <2> QED
    BY <2>1, <2>4 DEF Done, sawNull
<1> QED
  BY <1>2, <1>4, <1>5 DEF Done

\* In the idiom a schema with a null union or a null branch takes null.
LEMMA PlainNull ==
    ASSUME NEW T, Setting(T), NEW b \in T, NEW o, o = b.fields, Plain(o),
           \/ HasArr(o, "type") /\ IsNullUnion(o["type"].elems)
           \/ HasArr(o, "oneOf") /\ sawNull(o["oneOf"].elems)
    PROVE  Accepts(b, [kind |-> "null"])
<1>1. PICK v \in Values : v = [kind |-> "null"] /\ v.kind = "null"
  <2>1. [kind |-> "null"] \in Values
    BY ValuesAssumption
  <2> QED
    BY <2>1
<1>2. WellFormed(o, Below(T, b))
  BY DEF Setting, Tree
<1>3. CASE HasArr(o, "type") /\ IsNullUnion(o["type"].elems)
  <2>1. ~Has(o, "$ref") /\ ~Has(o, "allOf")
    BY <1>3, PlainDef
  <2>2. ~Has(o, "oneOf")
    BY <1>3, PlainDef DEF HasArr, Has
  <2>3. MeetsType(o, v)
    BY <1>1, <1>2, <1>3, TypeUnionFacts DEF MeetsType
  <2>4. /\ MeetsRef(o, v) /\ MeetsAllOf(o, v) /\ MeetsOneOf(o, v)
        /\ MeetsItems(o, v) /\ MeetsProperties(o, v)
    BY <1>1, <2>1, <2>2 DEF MeetsRef, MeetsAllOf, MeetsOneOf, MeetsItems, MeetsProperties
  <2>5. Meets(o, v)
    BY <2>3, <2>4, MeetsDef
  <2> QED
    BY <1>1, <2>5, AcceptsDef DEF Setting
<1>4. CASE HasArr(o, "oneOf") /\ sawNull(o["oneOf"].elems)
  <2>1. Has(o, "oneOf")
    BY <1>4 DEF HasArr
  <2>2. PICK e \in Seq(Below(T, b)) : o["oneOf"] = Arr(e)
    BY <1>2, <2>1 DEF WellFormed, KeywordOK, Has
  <2>3. o["oneOf"].elems = e /\ e \in Seq(T)
    <3>1. Below(T, b) \subseteq T
      BY DEF Below
    <3> QED
      BY <2>2, <3>1, ArrFacts
  <2>4. /\ \A k \in DOMAIN o : k = "oneOf" \/ k = "description"
        /\ \A i \in DOMAIN e : Accepts(e[i], [kind |-> "null"]) => IsNullBranch(e[i])
        /\ \A i, j \in DOMAIN e : e[i] = e[j] => i = j
    BY <2>1, <2>3, PlainDef
  <2>5. Chooses(e, v)
    BY <1>1, <1>4, <2>3, <2>4, NullIsChosen
  <2>6. Meets(o, v)
    BY <2>1, <2>3, <2>4, <2>5, OnlyOneOf
  <2> QED
    BY <1>1, <2>6, AcceptsDef DEF Setting
<1> QED
  BY <1>3, <1>4

\* One rewriting leaves nothing to rewrite of a schema in the idiom.
LEMMA PlainDone ==
    ASSUME NEW T, Setting(T), NEW n \in T, \A m \in T : Plain(m.fields)
    PROVE  Done(rewrite(n.fields))
<1>1. PICK f, g, h, r : /\ f = n.fields
                        /\ g = downgradeTypeUnion(f)
                        /\ h = downgradeTupleItems(g)
                        /\ r = downgradeNullableOneOf(h)
  OBVIOUS
<1>2. r = rewrite(f)
  BY <1>1 DEF rewrite
<1>3. PICK B : B = Below(T, n)
  OBVIOUS
<1>4. B \in SUBSET T /\ Closed(B) /\ WellFormed(f, B) /\ Plain(f)
  BY <1>1, <1>3, WalkedSchema
<1>5. /\ WellFormed(g, B)
      /\ \A k : k \notin {"type", "nullable"} => Agree(f, g, k)
      /\ g = f \/ (HasArr(f, "type") /\ IsNullUnion(f["type"].elems))
  BY <1>1, <1>4, UnionStep
<1>6. ~Has(f, "prefixItems") /\ ~Has(g, "prefixItems")
  BY <1>4, <1>5, PlainDef DEF Agree
<1>7. h = g
  BY <1>1, <1>5, <1>6, TupleStep
<1>8. CASE HasArr(f, "type") /\ IsNullUnion(f["type"].elems)
  <2>1. ~Has(f, "oneOf")
    BY <1>4, <1>8, PlainDef DEF HasArr, Has
  <2>2. ~Has(g, "oneOf")
    BY <1>5, <2>1 DEF Agree
  <2>3. r = g
    BY <1>1, <1>7, <2>2 DEF downgradeNullableOneOf, HasArr
  <2>4. ~HasArr(g, "type")
    <3>1. PICK t, x : t = Primary(f["type"].elems) /\ x = Set(f, "type", t) /\ g = Nullable(x)
      BY <1>1, <1>8 DEF downgradeTypeUnion
    <3>2. t \in Strings
      BY <1>4, <1>8, <3>1, TypeUnionFacts
    <3>3. g["type"] = t
      <4>1. "type" \in DOMAIN x
        BY <3>1 DEF Set
      <4>2. x["type"] = t
        BY <3>1, SetNew
      <4>3. g["type"] = x["type"]
        BY <3>1, <4>1, NullableOld
      <4> QED
        BY <4>2, <4>3
    <3> QED
      BY <3>2, <3>3, StrFacts DEF HasArr, Strings
  <2> QED
    BY <1>1, <1>2, <1>6, <2>2, <2>3, <2>4 DEF Done, HasArr, IsTuple
<1>9. CASE ~(HasArr(f, "type") /\ IsNullUnion(f["type"].elems))
  <2>1. g = f
    BY <1>5, <1>9
  <2>2. CASE r = h /\ (Has(h, "oneOf") => ~sawNull(h["oneOf"].elems))
    BY <1>1, <1>2, <1>6, <1>7, <1>9, <2>1, <2>2 DEF Done, HasArr, IsTuple
  <2>3. ASSUME NEW e \in Seq(B), NEW k \in Seq(B), NEW m,
               Has(h, "oneOf"), h["oneOf"] = Arr(e), Kept(e, Len(e), k, m), r = StripNull(h, k)
        PROVE  Done(r)
    <3>1. /\ \A i \in DOMAIN e : Accepts(e[i], [kind |-> "null"]) => IsNullBranch(e[i])
          /\ \A x \in DOMAIN f : x = "oneOf" \/ x = "description"
      BY <1>4, <1>7, <2>1, <2>3, PlainDef, ArrFacts
    <3>2. ~Has(f, "type") /\ ~Has(f, "prefixItems")
      BY <3>1 DEF Has
    <3>3. \A j \in DOMAIN k : ~IsNullBranch(k[j]) /\ k[j] \in T /\ ~Accepts(k[j], [kind |-> "null"])
      <4>1. DOMAIN e = 1..Len(e) /\ DOMAIN k = 1..Len(k)
        OBVIOUS
      <4>2. \A j \in DOMAIN k : m[j] \in DOMAIN e /\ k[j] = e[m[j]] /\ ~IsNullBranch(e[m[j]])
        BY <2>3, <4>1 DEF Kept
      <4>3. \A j \in DOMAIN k : k[j] \in T
        BY <1>4
      <4> QED
        BY <3>1, <4>2, <4>3
    <3>4. \/ Len(k) > 1 /\ LeftMany(h, k, r)
          \/ LeftNone(h, k, r)
          \/ LeftReference(h, k, r)
          \/ LeftSchema(h, k, r)
      BY <1>4, <1>5, <1>7, <2>3, Stripped
    <3>5. CASE LeftMany(h, k, r)
      <4>1. ~Has(r, "type") /\ ~Has(r, "prefixItems")
        BY <1>7, <2>1, <3>2, <3>5 DEF LeftMany, Agree
      <4>2. r["oneOf"].elems = k
        BY <3>5, ArrFacts DEF LeftMany
      <4> QED
        BY <3>3, <4>1, <4>2 DEF Done, HasArr, IsTuple, sawNull
    <3>6. CASE LeftNone(h, k, r) \/ LeftReference(h, k, r)
      <4>1. ~Has(r, "type") /\ ~Has(r, "prefixItems") /\ ~Has(r, "oneOf")
        BY <1>7, <2>1, <3>2, <3>6 DEF LeftNone, LeftReference, Agree
      <4> QED
        BY <4>1 DEF Done, HasArr, IsTuple
    <3>7. CASE LeftSchema(h, k, r)
      <4>1. PICK b, o : b = k[1] /\ o = b.fields
        OBVIOUS
      <4>2. b \in T /\ Plain(o) /\ ~Accepts(b, [kind |-> "null"])
        BY <3>3, <3>7, <4>1 DEF LeftSchema
      <4>3. Agree(o, r, "oneOf") /\ Agree(o, r, "type") /\ Agree(o, r, "prefixItems")
        BY <1>7, <2>1, <3>2, <3>7, <4>1 DEF LeftSchema
      <4>4. /\ ~Has(o, "prefixItems")
            /\ ~(HasArr(o, "type") /\ IsNullUnion(o["type"].elems))
            /\ ~(HasArr(o, "oneOf") /\ sawNull(o["oneOf"].elems))
        BY <4>1, <4>2, PlainNull, PlainDef
      <4> QED
        BY <4>3, <4>4 DEF Done, HasArr, IsTuple, Agree
    <3> QED
      BY <3>4, <3>5, <3>6, <3>7
  <2> QED
    <3>1. WellFormed(h, B)
      BY <1>5, <1>7
    <3>2. \/ r = h /\ (Has(h, "oneOf") => ~sawNull(h["oneOf"].elems))
          \/ \E e, k \in Seq(B) : \E m :
                /\ Has(h, "oneOf") /\ h["oneOf"] = Arr(e)
                /\ Kept(e, Len(e), k, m)
                /\ r = StripNull(h, k)
      BY <1>1, <1>4, <3>1, OneOfStep
    <3>3. CASE \E e, k \in Seq(B) : \E m :
                /\ Has(h, "oneOf") /\ h["oneOf"] = Arr(e)
                /\ Kept(e, Len(e), k, m)
                /\ r = StripNull(h, k)
      <4>1. Done(r)
        BY <2>3, <3>3
      <4> QED
        BY <1>1, <1>2, <4>1
    <3> QED
      BY <1>1, <1>2, <2>2, <3>2, <3>3
<1> QED
  BY <1>8, <1>9

----
(* Schemas that mean the same however often they are walked *)

\* Such schemas that no rewriting applies to.
Settled(T) == Whole(T) /\ \A n \in T : Done(n.fields)

\* The walk goes through them and nothing comes of it.
LEMMA SettledWalk ==
    ASSUME NEW T, Settled(T)
    PROVE  /\ Settled(Image(T))
           /\ \A n \in T : Allows(walk(n), n)
<1>1. Setting(T) /\ Whole(T)
  BY WholeSetting DEF Settled
<1>2. ASSUME NEW n \in T PROVE Done(walk(n).fields)
  <2>1. PICK B, r, w : B = Below(T, n) /\ r = rewrite(n.fields) /\ w = walk(n).fields
    OBVIOUS
  <2>2. B \in SUBSET T /\ WellFormed(r, B) /\ WalkedOn(r, w, B)
    BY <1>1, <2>1, WalkedSchema
  <2>3. Done(r)
    BY <2>1, DoneRewrite DEF Settled
  <2> QED
    BY <1>1, <2>1, <2>2, <2>3, WalkedDone
<1>3. Settled(Image(T))
  BY <1>1, <1>2, WalkWhole DEF Settled, Image
<1> DEFINE S == {n \in T : Allows(n, walk(n)) /\ Allows(walk(n), n)}
<1>4. ASSUME NEW n \in T, Below(T, n) \subseteq S PROVE n \in S
  <2>1. PICK B : B = Below(T, n)
    OBVIOUS
  <2>2. \A b \in B : Allows(b, walk(b)) /\ Allows(walk(b), b)
    BY <1>4, <2>1
  <2> HIDE DEF S
  <2>3. rewrite(n.fields) = n.fields
    BY DoneRewrite DEF Settled
  <2>4. \A v \in Values : Accepts(walk(n), v) <=> Means30(n.fields, v)
    BY <1>1, <2>1, <2>2, <2>3, WalkedExact
  <2>5. \A v \in Values : Accepts(n, v) <=> Means30(n.fields, v)
    BY <1>1, AcceptsDef DEF Setting, Means30
  <2>6. Allows(n, walk(n)) /\ Allows(walk(n), n)
    BY <2>4, <2>5 DEF Allows
  <2> QED
    BY <2>6 DEF S
<1>5. S = T
  <2> HIDE DEF S
  <2>1. Tree(T)
    BY <1>1 DEF Setting
  <2>2. S \in SUBSET T
    BY DEF S
  <2> QED
    BY <1>4, <2>1, <2>2, NoneWithout
<1> QED
  BY <1>3, <1>5

\* The schemas in a schema, at any depth.
LEMMA PartsFacts ==
    ASSUME NEW n \in Schemas
    PROVE  n \in parts(n) /\ Whole(parts(n)) /\ \A m \in parts(n) : parts(m) \subseteq parts(n)
<1> DEFINE S == {x \in Schemas : parts(x) \subseteq Schemas /\ \A m \in parts(x) : parts(m) \subseteq parts(x)}
<1>1. Whole(Schemas) /\ Tree(Schemas)
  BY ClosedFacts, WholeSetting DEF Whole, Setting
<1>2. ASSUME NEW x \in Schemas, Below(Schemas, x) \subseteq S PROVE x \in S
  <2>1. parts(x) = {x} \cup UNION {parts(m) : m \in Subschemas(x)}
    BY PartsAssumption
  <2>2. Subschemas(x) \subseteq Below(Schemas, x)
    BY ClosedFacts, SchemasAssumption DEF Below
  <2>3. Subschemas(x) \subseteq S
    BY <1>2, <2>2
  <2>4. parts(x) \subseteq Schemas
    BY <2>1, <2>3
  <2>5. ASSUME NEW m \in parts(x) PROVE parts(m) \subseteq parts(x)
    BY <2>1, <2>3
  <2> QED
    BY <2>4, <2>5
<1>3. S = Schemas
  <2> HIDE DEF S
  <2>1. S \in SUBSET Schemas
    BY DEF S
  <2> QED
    BY <1>1, <1>2, <2>1, NoneWithout
<1>4. parts(n) \subseteq Schemas /\ \A m \in parts(n) : parts(m) \subseteq parts(n)
  BY <1>3
<1>5. \A m \in Schemas : m \in parts(m) /\ \A x \in Subschemas(m) : parts(x) \subseteq parts(m)
  BY PartsAssumption
<1>6. ASSUME NEW m \in parts(n) PROVE Subschemas(m) \subseteq parts(n)
  <2>1. m \in Schemas /\ parts(m) \subseteq parts(n)
    BY <1>4
  <2>2. Subschemas(m) \subseteq parts(m)
    BY <1>5, <2>1, ClosedFacts
  <2> QED
    BY <2>1, <2>2
<1> QED
  BY <1>4, <1>5, <1>6 DEF Whole

\* What is in a schema of such a set is in the set.
LEMMA WholeParts ==
    ASSUME NEW T, Whole(T)
    PROVE  \A n \in T : parts(n) \subseteq T
<1> DEFINE S == {n \in T : parts(n) \subseteq T}
<1>1. ASSUME NEW n \in T, Below(T, n) \subseteq S PROVE n \in S
  <2>1. n \in Schemas /\ Subschemas(n) \subseteq T
    BY DEF Whole
  <2>2. Subschemas(n) \subseteq Below(T, n)
    BY <2>1, SchemasAssumption DEF Below
  <2>3. parts(n) = {n} \cup UNION {parts(m) : m \in Subschemas(n)}
    BY <2>1, PartsAssumption
  <2> QED
    BY <1>1, <2>2, <2>3
<1>2. S = T
  <2> HIDE DEF S
  <2>1. Tree(T) /\ S \in SUBSET T
    BY WholeSetting DEF Setting, S
  <2> QED
    BY <1>1, <2>1, NoneWithout
<1> QED
  BY <1>2

\* The schemas that keep to the 3.1 idioms, and those that are settled.
PlainSchemas == {n \in Schemas : Plain31(n)}
SettledSchemas == UNION {T \in SUBSET Schemas : Settled(T)}
Faithful == PlainSchemas \cup SettledSchemas

\* What is in a schema that keeps to the idioms keeps to them.
LEMMA PlainFacts == Whole(PlainSchemas) /\ \A n \in PlainSchemas : Plain(n.fields)
<1>1. ASSUME NEW n \in PlainSchemas PROVE Plain(n.fields) /\ Subschemas(n) \subseteq PlainSchemas
  <2>1. n \in Schemas /\ \A m \in parts(n) : Plain(m.fields)
    BY DEF PlainSchemas, Plain31, Plain
  <2>2. Plain(n.fields)
    BY <2>1, PartsFacts
  <2>3. ASSUME NEW x \in Subschemas(n) PROVE x \in PlainSchemas
    <3>1. x \in Schemas /\ parts(x) \subseteq parts(n)
      BY <2>1, ClosedFacts, PartsAssumption
    <3> QED
      BY <2>1, <3>1 DEF PlainSchemas, Plain31, Plain
  <2> QED
    BY <2>2, <2>3
<1> QED
  BY <1>1 DEF Whole, PlainSchemas

\* However often it is walked, a schema that keeps to the idioms comes to allow
\* no more; and it is settled when it has been walked.
LEMMA FaithfulWalk ==
    ASSUME NEW n \in Faithful
    PROVE  walk(n) \in SettledSchemas /\ walk(n) \in Faithful /\ Allows(walk(n), n)
<1>1. CASE n \in PlainSchemas
  <2>1. Setting(PlainSchemas) /\ Whole(Image(PlainSchemas))
    BY PlainFacts, WholeSetting, WalkWhole
  <2>2. ASSUME NEW m \in PlainSchemas PROVE Done(walk(m).fields)
    <3>1. PICK B, r, w : B = Below(PlainSchemas, m) /\ r = rewrite(m.fields) /\ w = walk(m).fields
      OBVIOUS
    <3>2. B \in SUBSET PlainSchemas /\ WellFormed(r, B) /\ WalkedOn(r, w, B)
      BY <2>1, <3>1, WalkedSchema
    <3>3. Done(r)
      BY <2>1, <3>1, PlainFacts, PlainDone
    <3> QED
      BY <2>1, <3>1, <3>2, <3>3, WalkedDone
  <2>3. Settled(Image(PlainSchemas))
    BY <2>1, <2>2 DEF Settled, Image
  <2>4. walk(n) \in SettledSchemas
    BY <1>1, <2>3 DEF SettledSchemas, Image, Settled, Whole
  <2> QED
    BY <1>1, <2>1, <2>4, PlainFacts, WalkKeepsMeaning DEF Faithful
<1>2. CASE n \in SettledSchemas
  <2>1. PICK T \in SUBSET Schemas : Settled(T) /\ n \in T
    BY <1>2 DEF SettledSchemas
  <2>2. Settled(Image(T)) /\ Allows(walk(n), n)
    BY <2>1, SettledWalk
  <2>3. walk(n) \in SettledSchemas
    BY <2>1, <2>2 DEF SettledSchemas, Image, Settled, Whole
  <2> QED
    BY <2>2, <2>3 DEF Faithful
<1> QED
  BY <1>1, <1>2 DEF Faithful

----
(* Schemas that are refused nothing however often they are walked *)

\* Tuples are uniform, here and below, and choices are among schemas that come
\* to allow no more.
Loose(T) == Whole(T) /\ \A n \in T : Uniform(n.fields) /\ Choices(n.fields, Faithful)

\* Uniformity says nothing of a schema without a tuple.
LEMMA UniformDef ==
    ASSUME NEW f
    PROVE  Uniform(f) <=>
            (Has(f, "prefixItems") =>
                /\ Has(f, "items")
                /\ \A i \in DOMAIN f["prefixItems"].elems :
                    f["prefixItems"].elems[i] = f["prefixItems"].elems[1])
BY DEF Uniform

\* A schema that the tool rewrites is left with no tuple but a uniform one.
LEMMA RewriteUniform ==
    ASSUME NEW B, Closed(B), NEW f, WellFormed(f, B), Uniform(f), \A b \in B : Uniform(b.fields)
    PROVE  Uniform(rewrite(f))
<1>1. PICK g, h, r : g = downgradeTypeUnion(f) /\ h = downgradeTupleItems(g) /\ r = downgradeNullableOneOf(h)
  OBVIOUS
<1>2. r = rewrite(f)
  BY <1>1 DEF rewrite
<1>3. WellFormed(g, B) /\ Agree(f, g, "prefixItems") /\ Agree(f, g, "items")
  BY <1>1, UnionStep
<1>4. Uniform(g)
  BY <1>3 DEF Agree, Uniform
<1>5. WellFormed(h, B)
  BY <1>1, <1>3, TupleStep
<1>6. Uniform(h)
  <2>1. CASE ~IsTuple(g)
    BY <1>1, <1>4, <2>1 DEF downgradeTupleItems
  <2>2. CASE IsTuple(g)
    <3>1. PICK x, y : x = Without(g, "prefixItems") /\ h = Set(x, "items", y)
      BY <1>1, <2>2 DEF downgradeTupleItems
    <3>2. DOMAIN x = DOMAIN g \ {"prefixItems"} /\ DOMAIN h = DOMAIN x \cup {"items"}
      BY <3>1 DEF Set, Without
    <3>3. ~Has(h, "prefixItems")
      BY <3>2 DEF Has
    <3> QED
      BY <3>3 DEF Uniform
  <2> QED
    BY <2>1, <2>2
<1>7. ASSUME NEW k \in Seq(B), r = StripNull(h, k) PROVE Uniform(r)
  <2>1. \/ LeftMany(h, k, r)
        \/ LeftNone(h, k, r)
        \/ LeftReference(h, k, r)
        \/ LeftSchema(h, k, r)
    BY <1>5, <1>7, Stripped
  <2>2. CASE LeftMany(h, k, r) \/ LeftNone(h, k, r) \/ LeftReference(h, k, r)
    <3>1. Agree(h, r, "prefixItems") /\ Agree(h, r, "items")
      BY <2>2 DEF LeftMany, LeftNone, LeftReference
    <3> QED
      BY <1>6, <3>1 DEF Agree, Uniform
  <2>3. CASE LeftSchema(h, k, r)
    <3>1. PICK o : o = k[1].fields
      OBVIOUS
    <3>2. /\ Uniform(o)
          /\ IF Has(h, "prefixItems") THEN Agree(h, r, "prefixItems") ELSE Agree(o, r, "prefixItems")
          /\ IF Has(h, "items") THEN Agree(h, r, "items") ELSE Agree(o, r, "items")
      BY <2>3, <3>1 DEF LeftSchema
    <3> QED
      BY <1>6, <3>2 DEF Agree, Uniform
  <2> QED
    BY <2>1, <2>2, <2>3
<1>8. r = h \/ \E k \in Seq(B) : r = StripNull(h, k)
  BY <1>1, <1>5, OneOfStep
<1> QED
  BY <1>2, <1>6, <1>7, <1>8

\* One walk refuses nothing, and leaves such schemas.
LEMMA LooseWalk ==
    ASSUME NEW T, Loose(T)
    PROVE  Loose(Image(T)) /\ \A n \in T : Allows(n, walk(n))
<1>1. Setting(T) /\ Whole(T)
  BY WholeSetting DEF Loose
<1>2. \A n \in T : Allows(n, walk(n))
  BY <1>1, FaithfulWalk, WalkRefusesNothing DEF Loose
<1>3. ASSUME NEW n \in T PROVE Uniform(walk(n).fields) /\ Choices(walk(n).fields, Faithful)
  <2>1. PICK B, f, r, w : B = Below(T, n) /\ f = n.fields /\ r = rewrite(f) /\ w = walk(n).fields
    OBVIOUS
  <2>2. /\ B \in SUBSET T /\ Closed(B) /\ WellFormed(f, B)
        /\ WellFormed(r, B) /\ WalkedOn(r, w, B)
    BY <1>1, <2>1, WalkedSchema
  <2>3. Uniform(f) /\ Choices(f, Faithful)
    BY <2>1 DEF Loose
  <2>4. \A b \in B : Uniform(b.fields) /\ Choices(b.fields, Faithful)
    BY <2>2 DEF Loose
  <2>5. Uniform(w)
    <3> SUFFICES ASSUME Has(w, "prefixItems")
                 PROVE  /\ Has(w, "items")
                        /\ \A i \in DOMAIN w["prefixItems"].elems :
                            w["prefixItems"].elems[i] = w["prefixItems"].elems[1]
      BY UniformDef
    <3>1. Has(r, "prefixItems") /\ Uniform(r)
      BY <2>1, <2>2, <2>3, <2>4, RewriteUniform DEF WalkedOn
    <3>2. Has(w, "items")
      BY <2>2, <3>1 DEF WalkedOn, Uniform
    <3>3. PICK d, x : d = r["prefixItems"].elems /\ x = w["prefixItems"].elems
      OBVIOUS
    <3>4. Walked(d, x, B) /\ \A i \in DOMAIN d : d[i] = d[1]
      BY <2>2, <3>1, <3>3 DEF WalkedOn, Uniform
    <3>5. \E e \in Seq(B) : d = e
      BY <2>2, <3>1, <3>3, ArrFacts DEF WellFormed, KeywordOK, Has
    <3>6. \A i \in DOMAIN d : 1 \in DOMAIN d
      BY <3>5
    <3>7. \A i \in DOMAIN x : x[i] = x[1]
      BY <3>4, <3>6 DEF Walked
    <3> QED
      BY <3>2, <3>3, <3>7
  <2>6. Choices(w, Faithful)
    <3> SUFFICES ASSUME IsChoice(w), NEW l \in DOMAIN w["oneOf"].elems
                 PROVE  w["oneOf"].elems[l] \in Faithful
      BY DEF Choices
    <3>1. PICK d, x : d = r["oneOf"].elems /\ x = w["oneOf"].elems
      OBVIOUS
    <3>2. Has(w, "oneOf") /\ Has(r, "oneOf") /\ Walked(d, x, B)
      BY <2>2, <3>1 DEF WalkedOn, IsChoice
    <3>3. PICK i \in DOMAIN x, j \in DOMAIN x : i # j /\ ~IsNullBranch(x[i]) /\ ~IsNullBranch(x[j])
      BY <3>1, <3>2, IsChoiceDef
    <3>4. \A y \in DOMAIN d : y \in DOMAIN x /\ d[y] \in T /\ x[y] = walk(d[y])
      BY <2>2, <3>2 DEF Walked
    <3>5. DOMAIN x = DOMAIN d
      BY <3>2 DEF Walked
    <3>6. ~IsNullBranch(d[i]) /\ ~IsNullBranch(d[j])
      BY <1>1, <3>3, <3>4, <3>5, NullBranchFacts
    <3>7. IsChoice(r)
      BY <3>1, <3>2, <3>3, <3>5, <3>6, IsChoiceDef
    <3>8. \A y \in DOMAIN d : d[y] \in Faithful
      BY <2>1, <2>2, <2>3, <2>4, <3>1, <3>2, <3>7, RewriteChoices
    <3> QED
      BY <3>1, <3>4, <3>5, <3>8, FaithfulWalk
  <2> QED
    BY <2>1, <2>5, <2>6
<1>4. Whole(Image(T))
  BY <1>1, WalkWhole
<1>5. Loose(Image(T))
  BY <1>3, <1>4 DEF Loose, Image
<1> QED
  BY <1>2, <1>5

----
(* The document, however often the tool is run on it *)

\* The tool sets the version and walks the schema.
LEMMA MainWalks ==
    ASSUME NEW n \in Schemas, NEW version,
           NEW d, d = [Document(version, n) EXCEPT !["openapi"] = Str("3.0.3")]
    PROVE  walk(Obj(d)).fields = Document("3.0.3", walk(n))
<1>1. d = Document("3.0.3", n) /\ DOMAIN d = {"openapi", "schema"}
  BY DEF Document
<1>2. Obj(d) \in Met(n) /\ Children(Obj(d)) \subseteq Met(n)
  BY <1>1 DEF Met
<1>3. IsObj(Obj(d)) /\ Obj(d).fields = d
  BY ObjFacts
<1>4. rewrite(d) = d
  <2>1. ~Has(d, "type") /\ ~Has(d, "prefixItems") /\ ~Has(d, "oneOf")
    BY <1>1 DEF Has
  <2>2. Done(d)
    BY <2>1 DEF Done, HasArr, IsTuple
  <2> QED
    BY <2>2, DoneRewrite
<1>5. walk(Obj(d)) = Obj([k \in DOMAIN d |-> walk(d[k])])
  <2>1. PICK x : x = Obj(d)
    OBVIOUS
  <2>2. walk(x) = WalkNode(x, walk)
    BY <1>2, <2>1, WalkAssumption
  <2>3. IsObj(x) /\ rewrite(x.fields) = d
    BY <1>3, <1>4, <2>1
  <2> QED
    BY <2>1, <2>2, <2>3 DEF WalkNode
<1>6. walk(d["openapi"]) = Str("3.0.3")
  <2>1. d["openapi"] = Str("3.0.3") /\ "openapi" \in DOMAIN d
    BY <1>1 DEF Document
  <2>2. Str("3.0.3") \in Met(n)
    BY <1>2, <1>3, <2>1 DEF Children
  <2> QED
    BY <2>1, <2>2, StrFacts, WalkAssumption DEF WalkNode
<1>7. d["schema"] = n
  BY <1>1 DEF Document
<1>8. walk(Obj(d)).fields = [k \in DOMAIN d |-> walk(d[k])]
  BY <1>5, ObjFacts
<1>9. [k \in DOMAIN d |-> walk(d[k])] = Document("3.0.3", walk(n))
  <2>1. PICK x : x = [k \in DOMAIN d |-> walk(d[k])]
    OBVIOUS
  <2>2. x = [k \in {"openapi", "schema"} |-> x[k]]
    BY <1>1, <2>1
  <2>3. x["openapi"] = Str("3.0.3") /\ x["schema"] = walk(n)
    BY <1>1, <1>6, <1>7, <2>1
  <2>4. x = [openapi |-> Str("3.0.3"), schema |-> walk(n)]
    BY <2>2, <2>3
  <2> QED
    BY <2>1, <2>4 DEF Document
<1> QED
  BY <1>8, <1>9

\* The document holds a schema that comes of the one that was read, and allows
\* no less or no more than that where it should: with the sets of schemas that
\* the next walk asks for.
DocumentHolds ==
    /\ schema \in Schemas /\ doc["schema"] \in Schemas
    /\ \E version : doc = Document(version, doc["schema"])

RefusesNothing ==
    Loose(parts(schema)) =>
        \E T \in SUBSET Schemas :
            Loose(T) /\ doc["schema"] \in T /\ Allows(schema, doc["schema"])

AllowsNoMore ==
    schema \in PlainSchemas => doc["schema"] \in Faithful /\ Allows(doc["schema"], schema)

Settles == Rewritten /\ schema \in PlainSchemas => doc["schema"] \in SettledSchemas

MeaningInv == DocumentHolds /\ RefusesNothing /\ AllowsNoMore /\ Settles

\* It does when the document is read.
LEMMA MeaningInit == Init => MeaningInv
<1> SUFFICES ASSUME Init PROVE MeaningInv
  OBVIOUS
<1>1. schema \in Schemas /\ doc = Document("3.1.0", schema)
  BY DEF Init
<1>2. doc["schema"] = schema
  BY <1>1 DEF Document
<1>3. DocumentHolds
  BY <1>1, <1>2 DEF DocumentHolds
<1>4. RefusesNothing
  BY <1>1, <1>2, PartsFacts DEF RefusesNothing, Allows, Whole
<1>5. AllowsNoMore
  BY <1>2 DEF AllowsNoMore, Faithful, Allows
<1>6. Settles
  <2>1. doc["openapi"] = Str("3.1.0")
    BY <1>1 DEF Document
  <2>2. Str("3.1.0") # Str("3.0.3")
    BY StrFacts
  <2> QED
    BY <2>1, <2>2 DEF Settles, Rewritten
<1> QED
  BY <1>3, <1>4, <1>5, <1>6 DEF MeaningInv

\* And whenever the tool is run on it.
LEMMA MeaningNext == MeaningInv /\ [main]_vars => MeaningInv'
<1> SUFFICES ASSUME MeaningInv, [main]_vars PROVE MeaningInv'
  OBVIOUS
<1>1. CASE UNCHANGED vars
  BY <1>1 DEF MeaningInv, DocumentHolds, RefusesNothing, AllowsNoMore, Settles, Rewritten, vars
<1>2. CASE main
  <2>1. PICK n, version : n = doc["schema"] /\ n \in Schemas /\ doc = Document(version, n)
    BY DEF MeaningInv, DocumentHolds
  <2>2. doc' = Document("3.0.3", walk(n)) /\ schema' = schema
    BY <1>2, <2>1, MainWalks DEF main
  <2>3. doc'["schema"] = walk(n) /\ walk(n) \in Schemas
    BY <2>1, <2>2, ClosedFacts DEF Document
  <2>4. DocumentHolds'
    BY <2>2, <2>3 DEF MeaningInv, DocumentHolds
  <2>5. RefusesNothing'
    <3> SUFFICES ASSUME Loose(parts(schema))
                 PROVE  \E T \in SUBSET Schemas :
                            Loose(T) /\ walk(n) \in T /\ Allows(schema, walk(n))
      BY <2>2, <2>3 DEF RefusesNothing
    <3>1. PICK T \in SUBSET Schemas : Loose(T) /\ n \in T /\ Allows(schema, n)
      BY <2>1 DEF MeaningInv, RefusesNothing
    <3>2. Loose(Image(T)) /\ Allows(n, walk(n))
      BY <3>1, LooseWalk
    <3>3. walk(n) \in Image(T) /\ Image(T) \in SUBSET Schemas
      BY <3>1, <3>2 DEF Image, Loose, Whole
    <3>4. Allows(schema, walk(n))
      BY <3>1, <3>2 DEF Allows
    <3> QED
      BY <3>2, <3>3, <3>4
  <2>6. AllowsNoMore'
    <3> SUFFICES ASSUME schema \in PlainSchemas
                 PROVE  walk(n) \in Faithful /\ Allows(walk(n), schema)
      BY <2>2, <2>3 DEF AllowsNoMore
    <3>1. n \in Faithful /\ Allows(n, schema)
      BY <2>1 DEF MeaningInv, AllowsNoMore
    <3>2. walk(n) \in Faithful /\ Allows(walk(n), n)
      BY <3>1, FaithfulWalk
    <3> QED
      BY <3>1, <3>2 DEF Allows
  <2>7. Settles'
    <3> SUFFICES ASSUME schema \in PlainSchemas PROVE walk(n) \in SettledSchemas
      BY <2>2, <2>3 DEF Settles
    <3> QED
      BY <2>1, FaithfulWalk DEF MeaningInv, AllowsNoMore
  <2> QED
    BY <2>4, <2>5, <2>6, <2>7 DEF MeaningInv
<1> QED
  BY <1>1, <1>2

\* A schema with uniform tuples and choices in the idioms is loose.
LEMMA LooseParts ==
    ASSUME NEW n \in Schemas, \A m \in parts(n) : Uniform(m.fields) /\ PlainChoices(m.fields)
    PROVE  Loose(parts(n))
<1>1. Whole(parts(n))
  BY PartsFacts
<1>2. ASSUME NEW m \in parts(n) PROVE Choices(m.fields, Faithful)
  <2> SUFFICES ASSUME IsChoice(m.fields), NEW i \in DOMAIN m.fields["oneOf"].elems
               PROVE  m.fields["oneOf"].elems[i] \in Faithful
    BY DEF Choices
  <2>1. PICK b : b = m.fields["oneOf"].elems[i]
    OBVIOUS
  <2>2. Plain31(b)
    BY <2>1 DEF PlainChoices
  <2>3. b \in Under("oneOf", m.fields["oneOf"]) /\ "oneOf" \in DOMAIN m.fields
    BY <2>1 DEF Under, IsChoice, Has
  <2>4. b \in Schemas
    BY <1>1, <2>3 DEF Subschemas, Whole
  <2> QED
    BY <2>1, <2>2, <2>4 DEF Faithful, PlainSchemas
<1> QED
  BY <1>1, <1>2 DEF Loose

\* The invariant says what the three properties do.
LEMMA MeaningSays == MeaningInv => StillAccepted /\ NothingMoreAccepted /\ IdiomsRewritten
<1> SUFFICES ASSUME MeaningInv PROVE StillAccepted /\ NothingMoreAccepted /\ IdiomsRewritten
  OBVIOUS
<1>1. StillAccepted
  BY LooseParts DEF MeaningInv, DocumentHolds, RefusesNothing, StillAccepted, Allows
<1>2. NothingMoreAccepted
  BY DEF MeaningInv, DocumentHolds, AllowsNoMore, PlainSchemas, NothingMoreAccepted, Allows
<1>3. IdiomsRewritten
  <2> SUFFICES ASSUME Rewritten, Plain31(schema) PROVE ~NullUnionLeft
    BY DEF IdiomsRewritten
  <2>1. doc["schema"] \in SettledSchemas
    BY DEF MeaningInv, DocumentHolds, Settles, PlainSchemas
  <2>2. PICK T : Settled(T) /\ doc["schema"] \in T
    BY <2>1 DEF SettledSchemas
  <2>3. parts(doc["schema"]) \subseteq T
    BY <2>2, WholeParts DEF Settled
  <2> QED
    BY <2>2, <2>3 DEF Settled, Done, NullUnionLeft
<1> QED
  BY <1>1, <1>2, <1>3

\* MeaningInv is an invariant.
LEMMA MeaningHolds == Spec => []MeaningInv
<1>1. Init => MeaningInv
  BY MeaningInit
<1>2. MeaningInv /\ [main]_vars => MeaningInv'
  BY MeaningNext
<1> QED
  BY <1>1, <1>2, PTL DEF Spec

\* No value that Garage's own document allows is refused by the rewritten one,
\* however deep its schemas are and however often spec-downgrade is run on what
\* it has written.
THEOREM NothingRefused == Spec => []StillAccepted
<1>1. MeaningInv => StillAccepted
  BY MeaningSays
<1> QED
  BY <1>1, MeaningHolds, PTL

\* Nor does a document that keeps to the 3.1 idioms come to allow a value that
\* it did not.
THEOREM NothingAdded == Spec => []NothingMoreAccepted
<1>1. MeaningInv => NothingMoreAccepted
  BY MeaningSays
<1> QED
  BY <1>1, MeaningHolds, PTL

\* And no union with null is left in it for the 3.0 generator to stumble over,
\* after one run or more.
THEOREM UnionsRewritten == Spec => []IdiomsRewritten
<1>1. MeaningInv => IdiomsRewritten
  BY MeaningSays
<1> QED
  BY <1>1, MeaningHolds, PTL
====
