----------------------------- MODULE TagScopes -----------------------------
(***************************************************************************)
(* struct, union and enum tags: handle_decl and struct_or_union_specifier  *)
(* of node/declaration.cc, enum_specifier of node/enumerate.cc, and        *)
(* forward_decl of node/predef.h, over the scopes of symTable.             *)
(*                                                                         *)
(* A specifier finds or creates a type object; a body completes it.  The   *)
(* type a declarator is built from is a clone of the object: a struct's    *)
(* clones share its LLVM type and members, an enum's copy its id.          *)
(*                                                                         *)
(* A parameter list is read in the scope around it; in C it has a scope of *)
(* its own, which becomes the function's when a body follows.              *)
(*                                                                         *)
(* cscopes, protos, ccomplete and cerrors follow the same specifiers by    *)
(* C99 6.2.1 and 6.7.2 (an enum may be mentioned before its body, as       *)
(* compilers let it): in it an object has the number it would get here     *)
(* when it is created.                                                     *)
(***************************************************************************)
EXTENDS Integers, Sequences, FiniteSets

CONSTANTS
    Structs,    \* tags of structs and unions, "struct.A" and "union.A" apart
    Unions,     \* those of unions
    Enums,      \* tags of enums
    MaxObjects, \* bound: type objects of the unit
    MaxScopes,  \* bound: depth of symTable
    MaxBodies,  \* bound: struct bodies open at once
    MaxLists    \* bound: parameter lists open at once

ASSUME TagScopesAssumption ==
    /\ Structs \cap Enums = {} /\ Unions \subseteq Structs
    /\ {MaxObjects, MaxScopes, MaxBodies, MaxLists} \subseteq Nat

VARIABLES
    scopes,     \* symTable: the object of each tag, innermost scope last
    next,       \* the number of the next object
    complete,   \* the objects that have a body, or an id
    bodies,     \* the struct bodies being read, innermost last
    types,      \* the types declarators were built from
    halted,     \* HALT() ended the walk
    strayed,    \* a tag went to another scope than in C
    cscopes, ccomplete, cerrors,
    protos      \* the scopes C gives the parameter lists being read

vars == <<scopes, next, complete, bodies, types, halted, strayed,
          cscopes, ccomplete, cerrors, protos>>

Tags == Structs \cup Enums
None == 0
Incomplete == -1    \* the id of an enum without body
NoTags == [tag \in Tags |-> None]

\* ScopedMap::find_in_scope, find and insert.
find_in_scope(sc, tag) == sc[Len(sc)][tag]
find(sc, tag) ==
    IF \E i \in DOMAIN sc : sc[i][tag] # None
    THEN sc[CHOOSE i \in DOMAIN sc : /\ sc[i][tag] # None
                                     /\ \A j \in DOMAIN sc : i < j => sc[j][tag] = None][tag]
    ELSE None
insert(sc, tag, o) == [sc EXCEPT ![Len(sc)][tag] = o]

\* [fault] A lone specifier finds the tag of an outer scope too.
LookupEverywhere(tag, curr_scope) == IF find(scopes, tag) = None THEN next ELSE find(scopes, tag)

\* forward_decl: the object of the tag, a new one where there is none.
forward_decl(tag, curr_scope) ==
    LET sym == IF curr_scope THEN find_in_scope(scopes, tag) ELSE find(scopes, tag)
    IN  IF sym = None THEN next ELSE sym
\* C99 6.7.2.3: a body, and a lone specifier without storage, declare their
\* tag in the current scope; any other specifier means the visible one.
Denoted(tag, declares) ==
    LET all == cscopes \o protos
        seen == IF declares THEN find_in_scope(all, tag) ELSE find(all, tag)
    IN  IF seen = None THEN next ELSE seen
\* A new object is entered into the current scope.
Entered(sc, tag, o) == IF o = next THEN insert(sc, tag, o) ELSE sc
EnteredByC(tag, c) ==
    IF protos = <<>> THEN cscopes' = Entered(cscopes, tag, c) /\ UNCHANGED protos
                     ELSE protos' = Entered(protos, tag, c) /\ UNCHANGED cscopes
NextAfter(used) == IF next \in used THEN next + 1 ELSE next

\* [fault] The clone of an incomplete struct gets a body of its own.
CloneDeep(tag, o, c) ==
    [tag |-> tag, of |-> IF o \in complete' THEN o ELSE Incomplete, c |-> c]

\* QualifiedTypeBuilder clones the type it builds on.
Clone(tag, o, c) ==
    [tag |-> tag, of |-> IF tag \in Enums /\ o \notin complete' THEN Incomplete ELSE o, c |-> c]
\* Union does not override Qualified::is_complete.
is_complete(t) == t.tag \in Unions \/ t.of \in complete
\* [fault] Types are compared by their names.
is_same_name(t, u) == t.tag = u.tag
\* impl_is_same_without_cv: one LLVM type, or equal ids.
is_same(t, u) == (t.tag \in Enums) = (u.tag \in Enums) /\ t.of = u.of

\* handle_decl: only a lone specifier without storage looks in its own scope.
CurrScope(storage, has_def) == ~storage /\ ~has_def
\* Members and parameters are declared with has_def.
Allowed(storage, has_def) ==
    ~halted /\ (bodies # <<>> \/ protos # <<>> => has_def /\ ~storage)
top == bodies[Len(bodies)]
\* Every list opened in the innermost body is closed.
InBody == bodies # <<>> /\ top.lists = Len(protos)

Declared(has_def, tag, o, c) ==
    types' = IF has_def THEN types \cup {Clone(tag, o, c)} ELSE types

\* struct A, union A or enum A without a body.
Mention(tag, storage, has_def) ==
    /\ Allowed(storage, has_def)
    /\ LET curr_scope == CurrScope(storage, has_def)
           o == forward_decl(tag, curr_scope)
           c == Denoted(tag, ~storage /\ ~has_def)
       IN  /\ scopes' = Entered(scopes, tag, o)
           /\ EnteredByC(tag, c)
           /\ next' = NextAfter({o, c})
           /\ strayed' = (strayed \/ (protos # <<>> /\ c = next))
           /\ UNCHANGED <<complete, bodies, halted, ccomplete, cerrors>>
           /\ Declared(has_def, tag, o, c)

\* A member of the type itself, not a pointer to it, must be complete.
Checked(f, tag, o, c) ==
    [f EXCEPT !.errs = f.errs \/ (tag \notin Unions /\ o \notin complete),
              !.cerrs = f.cerrs \cup (IF c \in ccomplete THEN {}
                                     ELSE IF tag \in Unions THEN {"union_member"} ELSE {"member"})]

Member(tag) ==
    /\ ~halted /\ InBody
    /\ LET o == find(scopes, tag)
           c == find(cscopes \o protos, tag)
       IN  /\ o # None /\ c # None
           /\ bodies' = [bodies EXCEPT ![Len(bodies)] = Checked(top, tag, o, c)]
    /\ UNCHANGED <<scopes, next, complete, types, halted, strayed,
                   cscopes, ccomplete, cerrors, protos>>

\* struct A {
BeginBody(tag, storage, has_def) ==
    /\ Allowed(storage, has_def) /\ tag \in Structs
    /\ LET o == forward_decl(tag, CurrScope(storage, has_def))
           c == Denoted(tag, TRUE)
       IN  /\ bodies' = Append(bodies, [tag |-> tag, o |-> o, c |-> c, has_def |-> has_def,
                                        lists |-> Len(protos), errs |-> FALSE, cerrs |-> {}])
           /\ scopes' = Entered(scopes, tag, o)
           /\ EnteredByC(tag, c)
           /\ next' = NextAfter({o, c})
           /\ strayed' = (strayed \/ protos # <<>> \/ o # forward_decl(tag, TRUE))
    /\ UNCHANGED <<complete, types, halted, ccomplete, cerrors>>

\* [fault] set_body does not look whether the struct has one.
Unrefused(f) == f.errs
\* get_structural_decl and set_body.
Refused(f) == f.errs \/ f.o \in complete

\* } : set_body, fix_forward_decl.
EndBody ==
    /\ ~halted /\ InBody
    /\ bodies' = SubSeq(bodies, 1, Len(bodies) - 1)
    /\ IF Refused(top)
       THEN halted' = TRUE /\ UNCHANGED <<complete, scopes>>
       ELSE /\ complete' = complete \cup {top.o}
            /\ scopes' = insert(scopes, top.tag, top.o)
            /\ UNCHANGED halted
    /\ ccomplete' = ccomplete \cup {top.c}
    /\ cerrors' = cerrors \cup top.cerrs \cup (IF top.c \in ccomplete THEN {"body"} ELSE {})
    /\ IF halted' THEN UNCHANGED types ELSE Declared(top.has_def, top.tag, top.o, top.c)
    /\ UNCHANGED <<next, strayed, cscopes, protos>>

\* [fault] The new object does not take the entry of a tag the scope knows.
EnumBodyUnfixed(tag, storage, has_def) ==
    /\ Allowed(storage, has_def) /\ tag \in Enums
    /\ LET c == Denoted(tag, TRUE)
       IN  /\ scopes' = IF find_in_scope(scopes, tag) = None THEN insert(scopes, tag, next) ELSE scopes
           /\ complete' = complete \cup {next}
           /\ EnteredByC(tag, c)
           /\ ccomplete' = ccomplete \cup {c}
           /\ cerrors' = IF c \in ccomplete THEN cerrors \cup {"enum_body"} ELSE cerrors
           /\ Declared(has_def, tag, next, c)
    /\ next' = next + 1 /\ strayed' = (strayed \/ protos # <<>>)
    /\ UNCHANGED <<bodies, halted>>

\* enum A { ... }: always a new object, which takes the tag's entry.
EnumBody(tag, storage, has_def) ==
    /\ Allowed(storage, has_def) /\ tag \in Enums
    /\ LET c == Denoted(tag, TRUE)
       IN  /\ scopes' = insert(scopes, tag, next)
           /\ complete' = complete \cup {next}
           /\ EnteredByC(tag, c)
           /\ ccomplete' = ccomplete \cup {c}
           /\ cerrors' = IF c \in ccomplete THEN cerrors \cup {"enum_body"} ELSE cerrors
           /\ Declared(has_def, tag, next, c)
    /\ next' = next + 1 /\ strayed' = (strayed \/ protos # <<>>)
    /\ UNCHANGED <<bodies, halted>>

\* ( of a function declarator: handle_function_array pushes no scope.
BeginParameters ==
    /\ ~halted /\ Len(protos) < MaxLists
    /\ protos' = Append(protos, NoTags)
    /\ UNCHANGED <<scopes, next, complete, bodies, types, halted, strayed,
                   cscopes, ccomplete, cerrors>>

\* ) , once the bodies opened in the list are closed.
EndParameters ==
    /\ ~halted /\ protos # <<>> /\ (bodies # <<>> => top.lists < Len(protos))
    /\ protos' = SubSeq(protos, 1, Len(protos) - 1)
    /\ UNCHANGED <<scopes, next, complete, bodies, types, halted, strayed,
                   cscopes, ccomplete, cerrors>>

\* ) { of a function definition.
EnterFunction ==
    /\ ~halted /\ bodies = <<>> /\ Len(scopes) = 1 /\ Len(protos) = 1
    /\ scopes' = Append(scopes, NoTags)
    /\ cscopes' = Append(cscopes, protos[1]) /\ protos' = <<>>
    /\ UNCHANGED <<next, complete, bodies, types, halted, strayed, ccomplete, cerrors>>

\* compound_statement, with symTable.push and pop.
EnterBlock ==
    /\ ~halted /\ bodies = <<>> /\ protos = <<>> /\ Len(scopes) \in 2 .. MaxScopes - 1
    /\ scopes' = Append(scopes, NoTags) /\ cscopes' = Append(cscopes, NoTags)
    /\ UNCHANGED <<next, complete, bodies, types, halted, strayed, ccomplete, cerrors, protos>>

\* } of a compound_statement or of a function.
LeaveBlock ==
    /\ ~halted /\ bodies = <<>> /\ protos = <<>> /\ Len(scopes) > 1
    /\ scopes' = SubSeq(scopes, 1, Len(scopes) - 1)
    /\ cscopes' = SubSeq(cscopes, 1, Len(cscopes) - 1)
    /\ UNCHANGED <<next, complete, bodies, types, halted, strayed, ccomplete, cerrors, protos>>

Init ==
    /\ scopes = <<NoTags>> /\ cscopes = <<NoTags>> /\ protos = <<>> /\ next = 1
    /\ complete = {} /\ ccomplete = {} /\ bodies = <<>> /\ types = {}
    /\ halted = FALSE /\ strayed = FALSE /\ cerrors = {}

Specifier(tag, storage, has_def) ==
    /\ next <= MaxObjects
    /\ \/ Mention(tag, storage, has_def)
       \/ Len(bodies) < MaxBodies /\ BeginBody(tag, storage, has_def)
       \/ EnumBody(tag, storage, has_def)

Next ==
    \/ \E tag \in Tags, storage, has_def \in BOOLEAN : Specifier(tag, storage, has_def)
    \/ \E tag \in Tags : Member(tag)
    \/ EndBody \/ BeginParameters \/ EndParameters
    \/ EnterFunction \/ EnterBlock \/ LeaveBlock

Spec == Init /\ [][Next]_vars
-----------------------------------------------------------------------------
Objects == 1 .. next - 1

Errors == {"body", "enum_body", "member", "union_member"}

\* Every tag, open body and declared type refers to an object that exists.
TypeOK ==
    /\ next \in Nat \ {0}
    /\ scopes \in Seq([Tags -> Objects \cup {None}]) /\ Len(scopes) > 0
    /\ cscopes \in Seq([Tags -> Objects \cup {None}]) /\ Len(cscopes) = Len(scopes)
    /\ protos \in Seq([Tags -> Objects \cup {None}])
    /\ complete \subseteq Objects /\ ccomplete \subseteq Objects
    /\ bodies \in Seq([tag : Structs, o : Objects, c : Objects, has_def : BOOLEAN, lists : Nat,
                       errs : BOOLEAN, cerrs : SUBSET Errors])
    /\ types \subseteq [tag : Tags, of : Objects \cup {Incomplete}, c : Objects]
    /\ halted \in BOOLEAN /\ strayed \in BOOLEAN /\ cerrors \subseteq Errors

\* Every tag went to the scope it has in C, and C finds no error.
Regular == ~strayed /\ cerrors = {}

(***************************************************************************)
(* As long as no body is given to a tag of an outer scope, and a parameter *)
(* list declares no tag of its own, a struct or union tag names the object *)
(* it names in C at every point of the unit, within lists too.             *)
(***************************************************************************)
TagsResolveAsC ==
    ~strayed /\ ~halted =>
        /\ \A i \in DOMAIN scopes, tag \in Structs : scopes[i][tag] = cscopes[i][tag]
        /\ \A tag \in Structs : find(scopes, tag) = find(cscopes \o protos, tag)

(***************************************************************************)
(* An enum's body makes a new object, yet every scope knows the enum tags  *)
(* it knows in C, and each is as complete as there, with the exceptions    *)
(* above.                                                                  *)
(***************************************************************************)
EnumTagsAreAsComplete ==
    ~strayed /\ ~halted =>
        \A i \in DOMAIN scopes, tag \in Enums :
            /\ scopes[i][tag] = None <=> cscopes[i][tag] = None
            /\ scopes[i][tag] \in complete <=> cscopes[i][tag] \in ccomplete

(***************************************************************************)
(* Two types the declarators of a unit were built from compare as the same *)
(* exactly if they are C's same type, however long before its body either  *)
(* was cloned; only enums that were cloned without body are all the same.  *)
(***************************************************************************)
SameTypesAreC ==
    Regular => \A t, u \in types : Incomplete \notin {t.of, u.of} => (is_same(t, u) <=> t.c = u.c)

(***************************************************************************)
(* A struct's clone made before the body is complete after it: a variable  *)
(* of a typedef is accepted exactly if C's type is complete.  A union's is *)
(* always complete.                                                        *)
(***************************************************************************)
ClonesSeeTheBody ==
    Regular => \A t \in types : t.tag \in Structs =>
                   (is_complete(t) <=> t.tag \in Unions \/ t.c \in ccomplete)

(***************************************************************************)
(* The walk halts on these of C's errors: a second struct or union body,   *)
(* and a member of incomplete struct or enum type.  It misses the second   *)
(* body of an enum, and a member of incomplete union type.                 *)
(***************************************************************************)
HaltsAreErrors == ~strayed => (halted <=> cerrors \cap {"body", "member"} # {})
=============================================================================
