---------------------------- MODULE Initializer ----------------------------
(***************************************************************************)
(* Initializer lists, node/initializer.cc.  make_constant_object and       *)
(* make_local_object walk the type and the list together; aggregates       *)
(* without braces of their own share the list and its cursor.  A variable  *)
(* of static storage has the constant walk only, a local one has both: its *)
(* constants are copied first, the other values are stored one by one.     *)
(* The recursion is a stack of the aggregates being filled.                *)
(*                                                                         *)
(* A type and an initializer are trees.  A tree is a function on places:   *)
(* <<>> is its root, Append(p, i) the i-th part of p.  The root stands for *)
(* the one-element list `fake' that the walks begin with, <<1>> for the    *)
(* variable and its initializer.                                           *)
(***************************************************************************)
EXTENDS Integers, Sequences, FiniteSets

CONSTANTS
    Types,      \* the types of the variables
    Lists,      \* the initializers
    Unsized,    \* the length of int a[] before its initializer is seen
    MaxElems    \* bound: the elements of an unsized array are counted to here

VARIABLES
    declared,   \* the type of the declaration
    type,       \* the variable's type
    init,       \* its initializer
    static,     \* whether it has static storage
    pass,       \* "begin", "constant", "local", "done" or "halted"
    stack,      \* the aggregates being filled, the innermost last
    curr,       \* the cursor of each list that was entered
    array_len,  \* the elements counted in an unsized array
    obj,        \* what was stored: the scalar and the place of its item
    warned,     \* the lists with "excess elements", by pass
    objects     \* the object C gives each item; no action reads it

vars == <<declared, type, init, static, pass, stack, curr, array_len, obj, warned, objects>>

Last(s) == s[Len(s)]
Front(s) == SubSeq(s, 1, Len(s) - 1)

\* A scalar or a value has no parts; make_constant_union knows the first
\* member only.
Parts(node) == CASE node.len = Unsized -> MaxElems
                 [] node.kind = "union" -> IF node.len = 0 THEN 0 ELSE 1
                 [] OTHER -> node.len

IsTree(t, Kinds, Lens) ==
    /\ t \in [DOMAIN t -> [kind : Kinds, len : Lens]]
    /\ IsFiniteSet(DOMAIN t)
    /\ <<>> \in DOMAIN t /\ t[<<>>].len = 1 /\ Parts(t[<<>>]) = 1
    /\ \A p \in DOMAIN t :
          /\ p \in Seq(Nat)
          /\ p # <<>> => Front(p) \in DOMAIN t /\ Last(p) \in 1 .. Parts(t[Front(p)])
          /\ \A i \in 1 .. Parts(t[p]) : Append(p, i) \in DOMAIN t

ASSUME BoundAssumption == MaxElems \in Nat /\ Unsized \notin Nat
ASSUME TypesAssumption ==
    \A t \in Types :
        /\ IsTree(t, {"scalar", "array", "struct", "union"}, Nat \cup {Unsized})
        /\ \A p \in DOMAIN t : /\ t[p].kind = "scalar" => t[p].len = 0
                               /\ t[p].len = Unsized => p = <<1>> /\ t[p].kind = "array"
        /\ t[<<>>].kind = "array"
ASSUME ListsAssumption ==
    \A l \in Lists :
        /\ IsTree(l, {"list", "constant", "var", "aggregate"}, Nat)
        /\ \A p \in DOMAIN l : l[p].kind # "list" => l[p].len = 0
        /\ l[<<>>].kind = "list"

\* q is p or a part of it.
Within(p, q) == Len(p) <= Len(q) /\ SubSeq(q, 1, Len(p)) = p

IsList(place) == init[place].kind = "list"
\* A scalar's value that is known at run time only, or a whole struct or union,
\* which never is an LLVM constant.
NotConstant == {"var", "aggregate"}
Size(list) == init[list].len

\* [fault] traverse() does not descend into the items it was given.
ShallowConstant(list) ==
    \A p \in DOMAIN init :
        Within(list, p) /\ Len(p) <= Len(list) + 1 => init[p].kind \notin NotConstant

\* traverse with is_all_constant.
is_all_constant(list) ==
    \A p \in DOMAIN init : Within(list, p) => init[p].kind \notin NotConstant

NoItem == <<>>
\* The value inside the braces around a scalar: the first item of the first.
Unbraced(place) ==
    LET firsts == {p \in DOMAIN init : /\ Within(place, p)
                                       /\ \A k \in Len(place) + 1 .. Len(p) : p[k] = 1}
        inner == CHOOSE p \in firsts : Size(p) = 0
    IN  IF IsList(inner) THEN NoItem ELSE inner
-----------------------------------------------------------------------------
Frame(at, list, braced) == [at |-> at, list |-> list, i |-> 1, braced |-> braced]

Running == pass \in {"constant", "local"} /\ stack # <<>>
top == Last(stack)
HasItem == curr[top.list] < Size(top.list)
\* for ( i < len ), while ( curr < init.size() ), for ( comp : sel_comps )
More == IF type[top.at].len = Unsized THEN HasItem ELSE top.i <= Parts(type[top.at])
\* The next component; an unsized array is filled up to its bound.
Visits == Running /\ More /\ top.i <= Parts(type[top.at])
item == Append(top.list, curr[top.list] + 1)
elem == Append(top.at, top.i)
\* make_local_object returns at once from a list of constants.
Returns == pass = "local" /\ is_all_constant(top.list)

NextComponent == [stack EXCEPT ![Len(stack)].i = @ + 1]

Unchanging == UNCHANGED <<declared, init, static, objects>>

\* A component without item is zero in the constant walk.
PassOver ==
    /\ Visits
    /\ ~HasItem \/ Returns
    /\ stack' = NextComponent
    /\ Unchanging /\ UNCHANGED <<type, pass, curr, array_len, obj, warned>>

Enter(braced) ==
    /\ Visits /\ HasItem /\ ~Returns
    /\ type[elem].kind # "scalar"
    /\ IsList(item) = braced
    /\ stack' = Append(NextComponent, Frame(elem, IF braced THEN item ELSE top.list, braced))
    /\ curr' = IF braced THEN [list \in DOMAIN curr \cup {item} |->
                                  IF list = item THEN 0 ELSE curr[list]]
               ELSE curr
    /\ Unchanging /\ UNCHANGED <<type, pass, array_len, obj, warned>>

EnterBraced == Enter(TRUE)
EnterShared == Enter(FALSE)

\* The constant walk writes the constants, the local one the other values.
Written(place) == (init[place].kind = "constant") = (pass = "constant")

\* store casts to the scalar's type: a struct or union has no such cast.
NoCast(value) == Written(value) /\ init[value].kind = "aggregate"

InitializeScalar(step) ==
    /\ Visits /\ HasItem /\ ~Returns
    /\ type[elem].kind = "scalar"
    /\ LET value == Unbraced(item)
       IN  IF value = NoItem \/ NoCast(value)
           THEN pass' = "halted" /\ UNCHANGED <<stack, curr, obj, warned>>
           ELSE /\ obj' = IF Written(value) THEN obj \cup {<<elem, value>>} ELSE obj
                /\ curr' = [curr EXCEPT ![top.list] = @ + step]
                /\ warned' = IF IsList(item) /\ Size(item) > 1
                             THEN warned \cup {<<pass, item>>} ELSE warned
                /\ stack' = NextComponent
                /\ UNCHANGED pass
    /\ Unchanging /\ UNCHANGED <<type, array_len>>

\* [fault] The scalar's item is not consumed.
InitializeInPlace == InitializeScalar(0)

\* [fault] The cursor moves in the braces and behind them.
InitializeTwice == InitializeScalar(2)

InitializeObject == InitializeScalar(1)

\* [fault] The length is where the cursor stopped.
ElementsByCursor(frame) == curr[frame.list]

\* elems.size().
Elements(frame) == frame.i - 1

\* The end of an aggregate; behind its braces the list around it goes on.
Leave(step, excess) ==
    /\ Running /\ ~More
    /\ stack' = Front(stack)
    /\ array_len' = IF type[top.at].len = Unsized THEN Elements(top) ELSE array_len
    /\ IF top.braced
       THEN /\ curr' = [curr EXCEPT ![Front(top.list)] = @ + step]
            /\ warned' = IF excess THEN warned \cup {<<pass, top.list>>} ELSE warned
       ELSE UNCHANGED <<curr, warned>>
    /\ Unchanging /\ UNCHANGED <<type, pass, obj>>

\* [fault] The braced item is not consumed.
ReturnInPlace == Leave(0, Size(top.list) > curr[top.list])

\* [fault] A full list already counts as excess.
ReturnFull == Leave(1, Size(top.list) >= curr[top.list] /\ Size(top.list) > 0)

Return == Leave(1, Size(top.list) > curr[top.list])
-----------------------------------------------------------------------------
(***************************************************************************)
(* C99 6.7.8: the items of a list initialize the subobjects of the list's  *)
(* object in their order: a list in braces takes the next subobject, a     *)
(* value the next scalar.  There is no recursion over aggregates without   *)
(* braces and no cursor: what is next is said by the order of places.      *)
(* One rule is left out, 6.7.8p13: a struct or union may also take a value *)
(* of its own type as a whole.  Such a value, "aggregate", gets the next   *)
(* scalar here as any other, and the properties say what comes of it.      *)
(***************************************************************************)
End == <<2>>    \* no object: behind the variable

\* p and its parts come before q.
Before(p, q) == \E k \in DOMAIN p \cap DOMAIN q :
                    p[k] < q[k] /\ SubSeq(p, 1, k - 1) = SubSeq(q, 1, k - 1)
FirstOf(S) == IF S = {} THEN End
              ELSE CHOOSE p \in S : \A q \in S : Within(p, q) \/ Before(p, q)

Scalars(t) == {p \in DOMAIN t : t[p].kind = "scalar"}
Subobjects(t, P) == {p \in DOMAIN t : p # P /\ Within(P, p)}
Previous(place) == [place EXCEPT ![Len(place)] = @ - 1]

\* The object of an item, given those of its list and of the items before it.
ObjectOf(t, l, object, place) ==
    LET P == object[Front(place)]
        last == object[Previous(place)]
        left == IF Last(place) = 1 THEN Subobjects(t, P)
                ELSE {p \in Subobjects(t, P) : Before(last, p)}
    IN  IF place = <<>> THEN <<>>
        ELSE IF P \in Scalars(t) THEN IF Last(place) = 1 THEN P ELSE End
        ELSE IF l[place].kind = "list" THEN FirstOf(left) ELSE FirstOf(left \cap Scalars(t))
Objects(t, l) ==
    LET object[place \in DOMAIN l] == ObjectOf(t, l, object, place)
    IN  [place \in DOMAIN l |-> object[place]]

-----------------------------------------------------------------------------
Root == <<Frame(<<>>, <<>>, FALSE)>>
Cursors == [list \in {<<>>} |-> 0]

\* make_constant_init refuses a value that is not constant.
Begin ==
    /\ pass = "begin"
    /\ IF static /\ ~is_all_constant(<<>>)
       THEN pass' = "halted" /\ UNCHANGED <<stack, curr>>
       ELSE pass' = "constant" /\ stack' = Root /\ curr' = Cursors
    /\ Unchanging /\ UNCHANGED <<type, array_len, obj, warned>>

\* make_type_len completes the type of an unsized array.
EndPass ==
    /\ pass \in {"constant", "local"} /\ stack = <<>>
    /\ type' = IF type[<<1>>].len = Unsized THEN [type EXCEPT ![<<1>>].len = array_len] ELSE type
    /\ IF pass = "constant" /\ ~static
       THEN pass' = "local" /\ stack' = Root /\ curr' = Cursors
       ELSE pass' = "done" /\ UNCHANGED <<stack, curr>>
    /\ Unchanging /\ UNCHANGED <<array_len, obj, warned>>

Init ==
    /\ declared \in Types /\ type = declared
    /\ init \in Lists
    /\ IsList(<<1>>) \/ declared[<<1>>].kind = "scalar"
    /\ objects = Objects(declared, init)
    /\ static \in BOOLEAN
    /\ pass = "begin" /\ stack = <<>> /\ curr = <<>>
    /\ array_len = 0 /\ obj = {} /\ warned = {}

Next ==
    \/ Begin \/ PassOver \/ EnterBraced \/ EnterShared \/ InitializeObject \/ Return \/ EndPass

\* The walk is a sequential program: nothing keeps it from its next step.
Spec == Init /\ [][Next]_vars /\ WF_vars(Next)

Stopped == pass \in {"done", "halted"}
-----------------------------------------------------------------------------
CObjects == {<<objects[p], p>> : p \in {q \in DOMAIN init : ~IsList(q) /\ objects[q] # End}}
IsScalar(place) == declared[place].kind = "scalar"

\* No cursor leaves its list, no frame its aggregate, and only scalars hold values.
TypeOK ==
    /\ pass \in {"begin", "constant", "local", "done", "halted"}
    /\ \A k \in DOMAIN stack :
          /\ stack[k].i \in 1 .. Parts(type[stack[k].at]) + 1
          /\ stack[k].list \in DOMAIN curr
          /\ k > 1 => stack[k].at = Append(stack[k - 1].at, stack[k - 1].i - 1)
    /\ \A list \in DOMAIN curr : curr[list] \in 0 .. Size(list)
    /\ \A o \in obj : IsScalar(o[1]) /\ ~IsList(o[2])

(***************************************************************************)
(* When the walks are done every scalar holds the value C gives it, the    *)
(* constants from the first walk and the others from the second, and every *)
(* other scalar is zero: the shared cursors of both walks agree with C,    *)
(* through any nesting of braces left out, added or empty.  No scalar was  *)
(* stored twice.                                                           *)
(***************************************************************************)
ObjectsAreC ==
    /\ pass = "done" => obj = CObjects
    /\ \A o, u \in obj : o[1] = u[1] => o = u

\* A value of struct or union type for which the lists have a place.
StructValue(p) == init[p].kind = "aggregate" /\ objects[p] # End
NoStructValue == ~\E p \in DOMAIN init : StructValue(p)

(***************************************************************************)
(* int a[] = {...} gets as many elements as C counts, a union of braces,   *)
(* shared lists and partly filled elements; with struct values, which the  *)
(* walk is going to refuse, C may count otherwise.                         *)
(***************************************************************************)
LengthIsC ==
    pass \in {"local", "done"} /\ declared[<<1>>].len = Unsized /\ NoStructValue =>
        LET used == {objects[p][2] : p \in {q \in DOMAIN init : Len(objects[q]) > 1}}
        IN  type[<<1>>].len = IF used = {} THEN 0
                              ELSE CHOOSE n \in used : \A m \in used : m <= n

(***************************************************************************)
(* The constant walk warns of excess elements in exactly the lists that    *)
(* have items for which there is no object, except within the second and   *)
(* further braces around a scalar, for which there is another warning.     *)
(* The local walk repeats the warning for such lists, and warns without    *)
(* need of lists of constants only: it returns from each of them without   *)
(* moving the cursor.  Struct values are left out as in LengthIsC.         *)
(***************************************************************************)
TooManyBraces(list) == list # <<>> /\ objects[Front(list)] \in Scalars(declared)
ExcessLists == {Front(p) : p \in {q \in DOMAIN init : /\ q # <<>> /\ objects[q] = End
                                                      /\ objects[Front(q)] # End}}
WarningsAreC ==
    NoStructValue =>
    /\ pass \in {"local", "done"} =>
        {w[2] : w \in {v \in warned : v[1] = "constant"}}
            = {list \in ExcessLists : ~TooManyBraces(list)}
    /\ \A w \in warned :
          w[1] = "local" => w[2] \in ExcessLists \/ is_all_constant(w[2])

(***************************************************************************)
(* The walk gives up on a scalar's empty braces, at whatever depth, on a   *)
(* static variable's value that is not constant, and on every value of     *)
(* struct or union type that a list has a place for, and on nothing else.  *)
(* C refuses the first two.  Of the third it allows those that initialize  *)
(* a whole component of their type (6.7.8p13), as in                       *)
(*     struct P a[1] = { p };                                              *)
(* the walk enters the component and stores the value into its first       *)
(* scalar, for which there is no cast.                                     *)
(***************************************************************************)
EmptyScalar(p) == IsList(p) /\ Size(p) = 0 /\ objects[p] \in Scalars(declared)
RefusedInitializers ==
    Stopped => (pass = "halted" <=> \/ \E p \in DOMAIN init : EmptyScalar(p) \/ StructValue(p)
                                    \/ static /\ \E p \in DOMAIN init : init[p].kind \in NotConstant)

\* The element of the unsized array takes no item: struct E { } a[] = { 1 };
Insatiable ==
    /\ declared[<<1>>].len = Unsized
    /\ Subobjects(declared, <<1>>) \cap Scalars(declared) = {}
    /\ \E k \in 1 .. Size(<<1>>) : ~IsList(<<1, k>>)

(***************************************************************************)
(* Every initializer list comes to an end, unless the element of an        *)
(* unsized array takes no item.                                            *)
(***************************************************************************)
Terminates == (pass = "begin" /\ ~Insatiable) ~> Stopped
=============================================================================
