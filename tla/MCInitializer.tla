---------------------------- MODULE MCInitializer ----------------------------
EXTENDS Initializer
\* Nested types and items, and the trees they are.
Scalar == [kind |-> "scalar", parts |-> <<>>]
Array(n, t) == [kind |-> "array", len |-> n,
                parts |-> [i \in 1 .. IF n = Unsized THEN MaxElems ELSE n |-> t]]
Struct(comps) == [kind |-> "struct", parts |-> comps]
Union(comps) == [kind |-> "union", parts |-> comps]
Value(kind) == [kind |-> kind, parts |-> <<>>]
Braced(items) == [kind |-> "list", parts |-> items]

Seen(x) == IF x.kind = "union" /\ x.parts # <<>> THEN {1} ELSE DOMAIN x.parts
RECURSIVE Places(_), At(_, _)
Places(x) == {<<>>} \cup UNION {{<<i>> \o p : p \in Places(x.parts[i])} : i \in Seen(x)}
At(x, p) == IF p = <<>> THEN x ELSE At(x.parts[Head(p)], Tail(p))
Node(x) == [kind |-> x.kind, len |-> IF "len" \in DOMAIN x THEN x.len ELSE Len(x.parts)]
Tree(x) == [p \in Places(x) |-> Node(At(x, p))]

Leaves == {Value(v) : v \in {"constant", "var"}}
Inner == Leaves \cup {Braced(s) : s \in UNION {[1 .. n -> Leaves] : n \in 0 .. 2}}
           \cup {Braced(<<Braced(<<>>)>>), Braced(<<Braced(<<Value("var")>>)>>)}
\* Values of struct type among others, in braces of their own and around them.
Struct1 == Value("aggregate")
Mixed == Leaves \cup {Struct1}
Beside == {Value("constant"), Braced(<<>>), Braced(<<Value("var")>>), Braced(<<Struct1>>),
           Braced(<<Value("constant"), Struct1>>), Braced(<<Struct1, Value("constant")>>)}
StructValued == {Struct1} \cup {Braced(s) : s \in UNION {[1 .. n -> Mixed] : n \in 1 .. 3}}
                    \cup {Braced(s) : s \in UNION {[1 .. n -> Beside] : n \in 1 .. 3}}
MCLists == {Tree(Braced(<<l>>)) : l \in
               Leaves \cup {Braced(s) : s \in UNION {[1 .. n -> Inner] : n \in 0 .. 3}}
                 \cup {Braced(s) : s \in [1 .. 4 -> Leaves]}
                 \cup {Braced([k \in 1 .. 5 |-> Value("constant")])}
                 \cup StructValued}
Empty == Struct(<<>>)
Pair == Struct(<<Scalar, Scalar>>)
MCTypes == {Tree(Array(1, t)) : t \in {
    Scalar, Array(2, Scalar), Array(Unsized, Scalar), Array(2, Array(2, Scalar)),
    Array(Unsized, Array(2, Scalar)), Array(Unsized, Empty), Array(Unsized, Pair),
    Pair, Struct(<<Array(2, Scalar), Scalar>>), Struct(<<Empty, Scalar>>),
    Struct(<<Scalar, Union(<<Pair, Scalar>>)>>), Union(<<>>), Array(2, Struct(<<Scalar, Empty>>))}}
=============================================================================
