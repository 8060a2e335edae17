# maybe-cc: models and proofs

maybe-cc is a C compiler in two halves. A Rust driver (`src/src`) runs the
external preprocessor, parses C with a table-driven LR parser and serialises
the syntax tree as JSON; a C++ library (`src/ir-gen`) walks the tree and builds
an LLVM module through `llvm::IRBuilder`. This directory holds TLA+ modules of
the parts of the program that keep state, TLC configurations that check them
on small instances, and proofs that the TLA+ proof system checks for every
instance.

Run a model with `tlc -config CFJumps.cfg MCControlFlow.tla`, the proofs with
`tlapm ControlFlowProofs.tla`, and likewise for each other `MC...` and
`...Proofs` module.

## Inventory

| component | state it keeps | operations | interacts with |
|---|---|---|---|
| Driver (`src/src/lib.rs`, `ir.rs`, `msg.rs`, `prep.rs`) | the file list and its cursor, the compile mode, a pointer to the C++ message list | preprocess, parse, generate, emit, per file; link; stop at the first error | calls ir-gen through `extern "C"`; reads `MsgList` after each pass |
| Message list (`ir-gen/src/msglist.h`) | array with `len` and `cap` | add (doubling), clear | written by ir-gen, read by the driver |
| Translation unit (`ir-gen/src/irgen.cc` 257-361) | the module, the generator's globals | open scope, reset, walk, close scope, verify | catches the exceptions the handlers throw |
| Functions (`irgen.cc` 6-210) | `currentFunction`, label tables, the insert point | signature, parameters, body, pending labels, final return, verify | symbol table, statements |
| Statements (`node/statement.cc`) | `breakJump`, `continueJump`, `caseList`, `defaultList`, `switchBits`, `labelJump`, `gotoJump` | one handler per statement | each other through `codegen`; the builder |
| Branching operators (`node/expression.cc` 927-1075) | blocks held across the operands | `&&`, `||`, `?:` | statements' conditions, file-scope constants |
| Scoped symbol table (`scopedMap.h`) | a deque of maps, one per scope | push, pop, find, find_in_scope, insert, insert_if | every handler that declares or names something |
| Global symbols and linkage (`node/initializer.cc` 562-876, `global.h`) | `globObjects`, the module's globals | declare, redeclare, define at file and block scope | symbol table, functions |
| Tags and declarators (`node/declaration.cc`, `predef.h`, `enumerate.cc`) | struct, union and enum tags and whether they are complete | declare, complete, refer | symbol table, types |
| Declaration specifiers (`type/declarationSpecifier.h`) | a bit set of specifiers, a partial type | add one specifier, finish | declarations |
| Types (`type/*`) | trees of shared components | clone, compare, complete | everything |
| Conversions (`value/value.cc`) | none (pure) | casts, the usual arithmetic conversions | expressions, initializers |
| Initializers (`initializer.cc` 20-560) | a cursor into the initializer tree, shared between levels | constant pass, local pass, string and flexible arrays | conversions |
| Literals (`expression.cc` 641-760) | the buffer decoded in place | escapes | expressions |
| Lexer feedback (`lang.rs` 8-120 and its reductions) | a stack of sets of type names, the flag `IS_TYPEDEF` | enter, leave, typedef | parser actions; must agree with the generator's table |
| Grammar and parser generator | none here | | external crate `myrpg`, without sources in the repository |

### What is hard

* The walk is a deep recursion in which every handler keeps its own blocks and
  pushes and pops five global stacks by hand; the builder's insert point is one
  more global that each handler must leave where its caller continues.
* Forward `goto`s, `case` labels and `switch` targets are completed after other
  statements have been generated, through pointers kept across them.
* Errors are exceptions: `HALT()` throws an `int`, `INTERNAL_ERROR` throws a
  `std::exception`; a handler that is left that way pops nothing, and only the
  second is caught around the unit.
* The generator's state is global and outlives a translation unit. What the
  unit's start does not reset is stale in the next one.
* What a name means is kept in three places that are updated by different
  handlers: `symTable` (scoped), `globObjects` (one entry per name and unit) and
  the module's own symbol table, which renames instead of refusing.
* What is a type name is decided twice, by the lexer from sets that the parser's
  reductions fill and by the generator from `symTable`; both must agree with C.
* Types are shared and copied: a tag completed later must be complete in every
  copy made before, and a copy must compare as the same type.
* Initializer lists are walked twice, with a cursor that aggregates without
  braces share with the aggregate around them.
* Specifiers come in any order and number, and an error among them does not stop
  the declaration.
* Nothing is concurrent and nothing is persisted, so interleaving, message loss
  and crash recovery do not arise.

## Modules

| module | models | state |
|---|---|---|
| `ControlFlow` | statements, branching operators, function definitions and the life of a translation unit | written, checked |
| `MCControlFlow` | its instances for TLC | written |
| `ControlFlowProofs` | its type correctness and stack discipline, and the graph it builds: terminators, gotos, phis, what LLVM accepts, for programs of any size | proved |
| `GlobalSymbols` | declarations of typedefs, functions and variables, function headers, scopes, over one unit | written, checked |
| `MCGlobalSymbols` | its instances for TLC | written |
| `GlobalSymbolsProofs` | what `globObjects` guarantees of variables and functions, for units of any length | proved |
| `Compilation` | what a command promises: inputs compiled in order, stop at the first failure | abstract specification |
| `Driver` | `main_rs`, the message list, the exceptions and the output files | written, checked |
| `MCDriver` | its instance for TLC | written |
| `DriverProofs` | messages, scopes, written files, what success means, and that `Driver` implements `Compilation`, for any command | proved |
| `TypeNames` | the lexer's type names, the generator's table and C's scopes, over a sequence of units | written, checked |
| `TypeNamesProofs` | that what is accepted was read as in C and that lexer and generator agree, for any names and nesting | proved |
| `TagScopes` | tags, bodies, clones and comparison of struct, union and enum types | written, checked |
| `TagScopesProofs` | what tags mean, which types are the same and when the walk halts, for any number of tags, scopes and objects | proved |
| `DeclSpec` | the specifiers of one declaration, to the type they build | written, checked |
| `DeclSpecProofs` | what is accepted, order, storage class and recovered types, for any number of words | proved |
| `Initializer` | the walks over initializer lists, against C's placement of items | written, checked |
| `InitializerProofs` | stored values, array lengths, warnings and errors against C's, for any types and any nesting | proved |
| `Conversions` | operators, casts, stores, pointer offsets and literals on all values of small types | written, checked |
| `ConversionsProofs` | what they compute against C's arithmetic, for any widths of the types | proved |
| `MCTypeNames`, `MCTagScopes`, `MCDeclSpec`, `MCInitializer`, `MCConversions` | their instances for TLC | written |

### How ControlFlow corresponds to the code

`codegen()` is a recursion over the syntax tree. The model has the recursion's
activation records in `frames` (`h`: the handler, `at`: the child being
generated, and the blocks the C++ handler holds in local variables) and the
direction of the walk in `pc`: a statement or expression is about to be
visited, a child has `returned`, the walk stands between declarations (`file`),
no unit is open (`idle`), or it has ended in `HALT()` (`halted`), in
`INTERNAL_ERROR` (`internal_error`) or in undefined behaviour that loses the
process (`crashed`).

The tree is not an input: each action that visits a node chooses it, so a run
covers every tree of at most `MaxNodes` interior nodes over `Constructs`. A
handler with children is one action up to its first child and one more after
each child; no state changes in between, because the code is sequential.

| variable | code |
|---|---|
| `blocks`, `insertAt` | the basic blocks of the current function, `Builder.GetInsertBlock()` |
| `breakJump`, `continueJump` | the stacks of `statement.cc` |
| `caseList`, `defaultList`, `switchBits` | the stacks of an open `switch`; a default of `None` is the null pointer |
| `labelJump`, `gotoJump` | the label tables; `gotoJump[l]` is the set of blocks waiting for `l` |
| `currentFunction` | the global of the same name, by its result type; reset between units, never after a function |
| `symScopes` | the depth of `symTable` |
| `gotoSites`, `corrupted` | history, read by properties and by the module verifier only |

Of an instruction the model keeps what decides the graph's shape: the
terminator and its targets, a phi and its incoming blocks, or `plain` for
anything else (consecutive plain instructions are one). `Verified` states the
part of LLVM's verifier that depends on this: one terminator per block and at
its end, phis first and matching the predecessors, an entry block nothing
branches to. It is external, as are `Emit` and the instruction constructors.

Undefined behaviour is a choice. `bb->back()` on an empty block (line 427) may
answer either way: `StaleBack`. `caseList.top()` outside a switch (line 400) and
the null `currentFunction` of `&&` at file scope before any function
(`expression.cc:939`) end in `crashed`.

The operators under a `[fault]` comment are plausible mistakes in the code
(a pop forgotten, a pending list patched once only, a block remembered before
its operand was generated). They are used nowhere: each is what a definition
next to it is replaced by to see that a property notices.

### How GlobalSymbols corresponds to the code

| variable | code |
|---|---|
| `objects` | the module's functions and global variables in creation order: kind, linkage, initializer, number of bodies, and whether LLVM had to rename the symbol |
| `globObjects` | the map of the same name: object, type, `is_internal`, `is_allocated` |
| `symTable` | the stack of scopes; a `Symbol` is a type or a value |
| `errors` | a `MSG_TYPE_ERROR` was added without `HALT()` |
| `pc` | the unit is being walked, finished, halted, or lost to undefined behaviour |
| `declarations` | declarators and definitions visited so far |
| `denotes` | history: which object each declaration of a global was bound to, with its C entity; never read by an action |

The `declaration` handler has one action per way through it for a declarator:
`TypedefName`, `Unallocable`, `DeclareFunction`, `RedeclareFunction`,
`RejectFunction`, `DeclareVariable`, `RedeclareVariable`, `DeclareLocal`,
`RejectVariable`, and `InitializeFunction` where the code casts a `Function` to
a `GlobalVariable` and writes its initializer. `FunctionDefinition` and
`RejectDefinition` are the header of `function_definition`; `OpenScope` and
`CloseScope` the compound statements and the function's end. `DeclareGlobal` is
`declare_global` as a set: the entry that is kept, or nothing when it halts.

A type is one of a few values that are never the same; array types are `array`
(with a length) and `open_array`, because a missing length is completed from
the initializer. The C entity of a declaration is the name, except for a static
local, which is an entity of its own: this is C's rule, against which the
bindings are measured, and no action depends on it.

A parameter list is the set of its names: that two have one name is a choice
that reports an error. A unit that halts inside an expression or initializer is
`SemanticError`.

### How Driver corresponds to the code

One process and one thread: `pc` is the place in `main_rs`, or in the C++
function it has called.

| variable | code |
|---|---|
| `args` | what `clap` made of the command line: `in_files`, the target after `-c` and `-t` are combined, whether there is a `-o` |
| `cursor`, `status` | the loop's position; the exit status |
| `msgs`, `cap` | `infoList`: its messages, the room in its buffer |
| `issued`, `stderr` | how many messages were added; the messages printed (history) |
| `symTable` | the depth of the generator's table (`globObjects` has the same depth at the unit's ends) |
| `TheModule` | the global of that name, as the input it was built from |
| `irc_val` | the result of `irc_into_obj` |
| `files`, `objs` | file contents by kind and origin; the object paths collected for the linker |
| `steps` | the bound of a walk |

The walk of a unit is what `ControlFlow` and `GlobalSymbols` model in detail.
Here it is reduced to what the driver sees: a handler adds an error or a
warning and goes on (`Report`), a scope is opened or closed, and the unit ends
by its end (`Finish`, whose module verification may still throw after the pop),
by `HALT()` (`Halt`: an `int`, which passes the unit's handler and is swallowed
by `secure_exec`, so every scope stays pushed), or by a `std::exception`
(`Throw`: the unit's scope is popped, `secure_exec` adds a message). Every
`HALT()` of the generator follows an error message; the model takes this as one
step. `EmitFails` joins the four ways in which `irc_into_obj` can fail.

gcc as preprocessor and linker and LLVM's emission are external: each may
succeed or fail at any time. Assumed of them: a file is written as a whole or
with an error (`File::write` may also write less and succeed, `lib.rs:197,216`),
a linker that fails writes to stderr (`lib.rs:250` looks at nothing else), and no
other process uses `/tmp/0.o` at the same time.

`Compilation` knows nothing of passes, messages or paths: the results so far are
the inputs they were made from, and a command is running, has succeeded or has
failed. The refinement mapping reads the result of an input from the file that
was written for it, through the module it was generated from, or takes it as
given once a later input has overwritten that path.

### How TypeNames corresponds to the code

| variable | code |
|---|---|
| `TYPE_SET`, `IS_TYPEDEF` | the thread-locals of `lang.rs` |
| `symTable` | the generator's scopes, reduced to whether a name is a type or a value |
| `phase`, `decl`, `braces` | the parser's place: the declaration it reads, and the declarations around it whose struct, enum or initializer is open |
| `outcome` | what ended the unit: a syntax error, two type specifiers, a redefinition, or the generator's own complaints |
| `env` | C's scopes, in which a declarator counts as soon as it is written; no action but the recording of `strayed` reads it |
| `strayed` | history: whether a name, or a parameter's, was read otherwise than in C |

The input is chosen token class by token class: each action is a terminal or a
reduction that changes some of this state (`Typedef`, `TypeName`, `Specifiers`,
`Name`, `Comma`, `End`, `Brace`, ...). A name is an action of its own in each
place where the grammar distinguishes a type name from an identifier: the lexer
decides by `is_type`, and where the grammar has no such terminal the unit ends in
a syntax error, exactly as the generated parser does. The generator walks the
tree after the parser has finished; in the model both read each token, which tells
the same of every name because the two share no state.

Parameters are read between `OpenParameters` and `CloseParameters`, one action per
way in which a name may stand there: behind `int`, behind a name that may be a
type, alone, or behind qualifiers only. The last is what makes the type int, with a
warning (`declarationSpecifier.h:237`). A list of names alone is parsed but the
generator has no handler for it (`unimplemented`). C's scope of a parameter begins
behind it; `decl.params` holds these names until a body opens with them.

### How TagScopes corresponds to the code

A type object is a number. `scopes` is `symTable` for tags, `complete` the objects
that have a body (for an enum: an id), `types` the types that declarators built,
each remembering the object it shares its LLVM type with, or `Incomplete` for an
enum cloned without id. An action is one use of a tag in `handle_decl`: `Mention`,
`BeginBody` and `EndBody` with the members between them, `EnumBody`, and the
blocks. Each takes whether the declaration has a storage class and whether it has
declarators, because `handle_decl` chooses the scope of the lookup by them
(`declaration.cc:19`). A union counts as complete before its body: `Union` does not
override `Qualified::is_complete` (`predef.h:69`).

A parameter list (`BeginParameters`, `EndParameters`) pushes nothing onto `scopes`:
`handle_function_array` reads its declarations like any others, with declarators
(`declaration.cc:263`). In C it has a scope of its own, which `protos` holds, and which
becomes the function's block when a body follows (`EnterFunction`), where the code
pushes an empty one. `cscopes`, `protos`, `ccomplete` and `cerrors` follow the same
input by C99 6.2.1 and 6.7.2; they decide nothing. One extension is C's here too: that
an enum may be mentioned before its body.

### How DeclSpec corresponds to the code

`attrs`, `type` and `currScope` are the fields and the local of the same meaning;
`errors` the messages that are errors. `AddAttribute` is `add_attribute` for one
word, `CollectTypes` the step between the passes, `AddType` is `add_type` and
`IntoTypeBuilder` is `into_type_builder`. Duplicates that only warn change nothing
and are part of `AddAttribute`. `words`, `boxed` and `storage` are history.

### How Initializer corresponds to the code

The recursion of `make_constant_object` and `make_local_object` is `stack`; a frame
is an aggregate being filled, with the list it takes its items from and whether
that list is its own. The C++ cursors are references shared between levels:
`curr` has one per list, and a frame without braces uses its caller's. `PassOver`
is the component for which there is no item left (or for which the local walk
returns at once), `EnterBraced` and `EnterShared` the two ways into an aggregate,
`InitializeObject` a scalar, `Return` the end of an aggregate with its warning.
`pass` says which walk it is: a static variable has the constant one only.

Types and initializers are trees of any depth, and a tree is a function on places:
`<<>>` is the root, `<<1>>` the variable and its initializer, `<<1, 3, 2>>` the second
part of its third part. So an item is a place in `init` and an object a place in
`declared`, and what the C++ functions pass down as references are the fields `at`
and `list` of a frame. `IsTree` says what a tree is and is assumed of the constants
`Types` and `Lists`; `Parts` is the number of an aggregate's components, for an
unsized array the bound `MaxElems`.

`Objects` is the reference, C99 6.7.8 by the order of places: a list in braces
initializes the first subobject behind the item before it, a value the first
scalar. It is 6.7.8 without paragraph 13, by which an expression of struct or union
type may initialize a whole component: such items are in the lists (the kind
`aggregate`), and the walks give up on every one they have a place for, so that
nothing is left to compare but that they do (`RefusedInitializers`). It has no walk,
no stack and no shared cursor, so that it can disagree. Its value for the declaration
at hand is kept in `objects`, which no action reads.

### How Conversions corresponds to the code

A value is a type and a bit pattern; a float is a number of halves or NaN. The
functions are the code's own, the LLVM instructions external operators that map
patterns to patterns, with `Poison` where LLVM leaves the result open; `and`, `or`
and `xor` work on the set of a pattern's ones (`Bits`, `FromBits`). Each step
evaluates one expression on the left operand that the expression inside it left,
and `done` keeps operands and result for the properties, which compare with C99's
arithmetic on numbers, never on patterns.

### Runs

| run | instance | question |
|---|---|---|
| `cf_jumps` | loops, `if`, compound and empty `switch` statements, `break`, `continue`, `return`, `goto` and two labels; 4 nodes | Do jumps find the innermost target, and each `goto`, forward or backward, its label? Is a label of another function or unit ever seen? Is anything emitted behind a terminator? Is every scope popped? |
| `cf_switch` | 8- and 64-bit switches, `case`, `default`, `break`, one label, both answers of `back()`; `&&`, `||`, `?:`, other binary operators, `return`, file-scope constants; 4 nodes | Do the switch stacks stay in step? Which blocks can be defective? Does each phi match its predecessors, however operands nest? Is an instruction ever lost? |
| `cf_do_while` | violation | `do` tests its condition before the body. |
| `gs_variables` | one name, 5 declarations, 3 scopes, every type and storage class | Do declarations of one variable find one object with one type and one initializer? Does a body go to the declared function? |
| `gs_static_redeclared` | violation | A static declaration is accepted behind one without `static`. |
| `gs_static_local` | violation | A static local shares its object with another variable. |
| `driver_files` | up to 3 inputs, two of one file name, every target, with and without `-o`; units of at most 2 messages or scopes before their end | Which files, messages and exit status does a command leave, whatever fails? Does the driver implement `Compilation`? |
| `type_names` | 3 names, one of them built in; 4 scopes; 2 open braces; parameter lists | Is every name of an accepted unit read as in C? Does the generator agree with the lexer? |
| `tag_scopes` | a struct, a union and an enum tag, 3 objects, 4 scopes, 3 open bodies, 2 open parameter lists | What does a tag mean, is a clone as complete as its type, which types are the same, when does the walk halt? |
| `decl_specifiers` | up to 5 words in every order, up to 2 boxed types | Which specifiers are accepted, and which type do they build? |
| `initializer_lists` | 13 types, lists of up to 3 items with lists in them (5 flat ones), some with struct values, static and local | Which scalar gets which item? How long is an unsized array? When is there a warning, an error, an end? |
| `conversions` | integers of 1 to 5 bits, two float types with the halves from -3 to 3 and NaN | On which operands are conversions, operators, stores, casts, offsets and literals C's? |

Deadlock is checked for `ControlFlow`, `GlobalSymbols`, `Driver` and `Conversions`:
between declarations a new unit or function can always begin, a stopped walk or
an ended process stutters (`Stay`), and after an expression comes another. It is
not checked for the other modules, whose subject ends: a declaration's
specifiers, an initializer, or a unit after a `HALT()` or a syntax error.

Bounds. `MaxNodes` counts interior nodes of one function; leaves are free, and
functions and units repeat without bound, so stale state from an earlier
function or unit is covered. Four nodes hold two nested constructs around two
jumps, which is what it takes to mis-nest a pop, to patch a pending `goto` from
inside another construct, and to collect a constant in the wrong switch. One
case constant makes a repeated constant and an ordinary one happen; two widths
make nested switches differ; two labels (interchangeable, hence the symmetry)
make a `goto` that waits while another label is declared. The proofs remove the
bounds from all properties of these runs.

For `GlobalSymbols` one name and five declarations suffice for the pass run:
entries of different names never meet except through symbols that LLVM renames,
and a fault takes at most a definition, a tentative declaration that must not
replace its entry, a second definition, and two scopes around them. The run of
static locals has two names, so that a function can be defined to hold the
local. `GlobalSymbolsProofs` removes the bounds from all properties of the pass
run.

For `Driver` three inputs make two with one output path and one between or after
them; two steps before a unit's end make an error that is followed by a warning,
and with the end's own message three messages at once, which a buffer that
begins with room for one (`MSG_LIST_MIN_CAP`, 16 in the code) doubles twice for.

For `TypeNames` two ordinary names let one hide the other's declaration or be used
in its list, the built-in one is a type that the unit did not declare; two open
braces put a struct into a struct, an enum into a struct or an initializer into
a body, which is where a flag or a set could be left behind; four scopes are the
built-in one, the file's, a function's body and a block; parameter lists are of any
length, as only the set of their names is kept. For `TagScopes` a struct and a union
nest in each other's bodies, four scopes let a tag be declared inside, outside and be
found from further in, three objects give one tag two of them beside another's, and
parameter lists stand in bodies and in each other, have bodies in them or belong to the
function that they enter. The run does not go on once a unit has strayed (`NotStrayed`):
the properties say nothing of it from there on.

For `DeclSpec` five words are more than the longest type name of C (`unsigned long
long int`) with a storage class, a qualifier or a contradiction added. For `Initializer` the types have an array, a struct and a
union in each other, structs and unions without members, and unsized arrays of
each; three items of up to two items each fill, leave open and exceed all of them;
`MaxElems` is as large as the largest number of items. `InitializerProofs` removes the
bounds on types and items; it holds for every `MaxElems`, which is a bound on the
elements of an unsized array only. For `Conversions` four widths
that are different and one bit for `bool` are what the code distinguishes (it
compares widths and never names one); every pattern is tried, and
`ConversionsProofs` removes the bound on the widths.

Fairness. `ControlFlow`, `GlobalSymbols`, `TypeNames`, `TagScopes`, `DeclSpec` and
`Conversions` assume none and claim no liveness:
the walk's length is the input's size, so its termination says nothing of the
code. `Initializer` assumes weak fairness of `Next`, which is the next step of a
sequential program: with it `Terminates` says that no walk loops, which is a real
question for an unsized array, whose loop ends by the cursor alone. `Driver`
assumes weak fairness of `Work`: there is one thread, it never
waits for anything but a child process, and gcc and the parser end. With it
`ImplementsCompilation` includes that every command ends in success or failure.

### What the properties say

The type invariants of `GlobalSymbols`, `Driver`, `DeclSpec`, `TagScopes` and
`TypeNames` and the inductive invariants are proved and take no run of their own.

* `TypeOK`: every block that is remembered anywhere exists.
* `LabelsAreTheFunctions`: the label tables outlive functions and units, whose start
  does not clear them (`irgen.cc:266`); a `goto` or label sees only its own
  function's blocks all the same, because `function_definition` clears both.
* `JumpStacksFollowNesting`: `breakJump` and `continueJump` are, element by
  element, the targets of the enclosing loop and switch bodies.
* `SwitchStacksFollowNesting`: the four switch stacks have one entry per open
  switch and each case constant has its own switch's width.
* `ScopesFollowNesting`: `symTable` is one deeper than the open scopes, and
  empty between units.
* `GotosReachTheirLabel`: the block of a `goto` waits in `gotoJump` until its
  label appears and ends in the branch to it from then on.
* `OnlySwitchIsFollowed`: no branch and no return is ever followed by another
  instruction in its block.
* `PhisMatchPredecessors`: at every moment of the walk.
* `DefectsComeFromSwitches`: when a function fails verification, the defective
  blocks are those a `switch` was followed in or the empty ones whose `back()`
  was taken for a switch. Every other
  function verifies.
* `InstructionsStay`: an action property; the walk only appends, except where a
  closing switch completes its own `SwitchInst`.

Of `GlobalSymbols`:

* `TypeOK`: every binding names an object of the module, and file scope is never
  popped inside the unit.
* `LinkedVariablesAreOneObject`: however a variable with linkage is redeclared,
  also in nested blocks and under shadowing locals, it stays one object.
* `DeclaredTypesAgree`, `RedefinitionsAreReported`: two declarations of
  different types, or two initialized definitions, are never both accepted,
  however many declarations lie between them. Both except variables that some
  declaration makes static: there the code replaces the entry without comparing
  (`initializer.cc:793`), also for `int x; static int x;`, although
  `global.h:61` has a message for it (`StaticComesFirst` is violated).
* `BodyCompletesDeclarations`: the first body of a function is given to the
  object that all earlier declarations denote, in whichever scope they stood.
* `EntriesFollowDeclarations`: what `globObjects` says of a name sums up its
  declarations; the strengthening the proofs need.

Of `Driver`:

* `TypeOK`: with the buffer's bound, `Len(msgs) <= cap`.
* `WrittenUnitsAreClean`: an error in any pass, at any point among other
  messages, keeps the unit's text and code out of every file. `ir_gen` itself
  always answers `Ok`; the messages are the only witness. That a failure leaves one
  is an assumption of the model (`Halt` and `Throw` add it).
* `MessagesAreShownOnce`: the list is read twice per input and never copied, so a
  `clear` that is missing repeats messages and one that comes early loses some.
* `GeneratorStartsBalanced`: no scope survives into the next unit. It holds
  although `HALT()` pops nothing, because the driver stops after every error.
* `SuccessIsComplete`: after success no error was shown, and the results are the
  inputs' own, in order, but for paths that a later input was given as well.
* `ImplementsCompilation`: the refinement, with its liveness.

Of `TypeNames`:

* `TypeOK`: a set for each of C's scopes and each other open brace.
* `AcceptedUnitsAreReadAsC`: between declarations no name has been read otherwise
  than in C, and the lexer calls exactly C's types types. The sets never forget a
  hidden type name, and a typedef enters its names late; what saves it is that
  each declaration that depends on either is refused: hiding a type name is two
  type specifiers or a syntax error, a use within the list an error of the
  generator. So the compiler rejects programs that C accepts, and misreads one kind,
  which the property excepts: in `typedef char T, F(const T);` it takes `T` for the
  name of an int parameter, where C, which knows `T` already, reads its type.
* `ResolvedAsRead`: two of the generator's internal checks never fire; the third
  only for a name used within the typedef that declares it
  (`typedef int T, A[sizeof(T)];`).
* `UnitsStartAlike`: no set of one input survives into the next.

Of `TagScopes`:

* `TagsResolveAsC`: in every file, function and block scope a struct or union tag names
  C's object, and so it does when looked up from within a parameter list, with two
  exceptions, recorded as `strayed`: a body was given to an outer scope's tag, as
  `struct A { ... } x;` in a block does (`declaration.cc:19`), or a parameter list
  declared a tag of its own, which C would end with the list
  (`void f(struct A *p); struct A { ... };` gives `f` C's `struct A` of the file).
* `EnumTagsAreAsComplete`: with the same exceptions, although an enum's body makes a
  new object, every scope knows the enum tags it knows in C, each as complete.
* `SameTypesAreC`, `ClonesSeeTheBody`: types copied before or after a body, in
  whatever scope, compare as C compares them, and a struct's copy is complete
  when the struct is; a union's always is. Enums copied before their body are the
  exception, although `type.h:303` calls a clone safe: they are never the enum again.
* `HaltsAreErrors`: the walk halts on a second struct or union body and on a member
  of incomplete struct or enum type, and on nothing else; the second body of an enum
  and a member of incomplete union type go unnoticed, although C refuses both.

Of `DeclSpec`:

* `OrderIrrelevant`: without an error the bits are what the words say as a multiset.
* `AcceptedTypesAreC`: exactly C's combinations get through without an error, and
  with C's type.
* Proved only, without a run: `StorageIsTheFirst` (the storage class is the first
  one written, also after an error) and `RecoveredTypesAreKnown` (a type that is
  built after an error has a known size, except for the 4 bits of `short char`).

Of `Initializer`:

* `ObjectsAreC`: after both walks every scalar holds the item C gives it.
* `LengthIsC`: an unsized array has C's length.
* `WarningsAreC`: the constant walk warns of exactly the lists with excess items;
  the local walk also of lists of constants that are all used, and of no others.
* `RefusedInitializers`: the walk gives up on empty braces around a scalar, on a
  static variable's value that is not constant, and on a struct or union value that a
  list has a place for, and on nothing else. Of the last, C lets those of a
  component's own type initialize it whole (6.7.8p13): local `struct P a[1] = { p };`
  is legal and refused (`initializer.cc:391`, `value.cc:351`). The length of an unsized
  array and the warnings are compared with C's for initializers without such values.
* `Terminates`: every walk ends, unless an unsized array has elements that take no
  item (`struct E {} a[] = { 1 };`), for which the loop of
  `make_constant_array` never does.

Of `Conversions`, each with the exact set of operands on which the code departs
from C:

* `ConversionsAreC`: a narrower left operand of the other sign is extended wrongly
  when its top bit is set (`value.cc:154`), and two operands narrower than int lose
  a sign; all others have C's numbers. Casts have them always, but for NaN to bool.
* `OperatorsAreC`: on operands converted rightly each operator gives C's result,
  if that fits the type, which is not promoted; on floats always, but for `!=`
  on NaN, where the code's answer is an exception and not C's; `!` of NaN is left open.
* `CompoundAssignmentsAreC`: `x op= y` is right for `+ - * & | ^` on all integer operands,
  although the balancing is not: its errors lie above the bits that are stored.
* `OffsetsAreC`: unsigned indices from half their range on count as negative.
* `LiteralsAreC`: a literal keeps its number exactly if the signed type its letters
  name holds it; it has the type of C99 6.4.4.1 exactly if it moreover has no `u`
  (the unsigned getters return the signed type, `type.cc:53`): no literal becomes
  long by its size.

### Disagreements found

Three runs show the code departing from what the repository's samples, messages and
comments say of it; the quotations are in `PROJECT.json`. `do` enters its condition first
(`statement.cc:72`); `globObjects` knows no scopes, so that static locals share
an object with other variables of their name (`initializer.cc:763`); and a
static redeclaration escapes the check that `global.h:61` makes of all others
(`initializer.cc:793`).

Others follow from the actions themselves and have no run: a `for` without
increment leaves the loop after one iteration (`ForEnd`, `statement.cc:127`); a
switch body that does not start with a label fails the generator's own
verification (`statement.cc:346`; `DefectsComeFromSwitches` says that no other
statement does); `currentFunction`, never reset, lets a file-scope `?:` write into
the previous function (`FileScopeExpression`, `expression.cc:1014`); functions are
entered by their definitions in `symTable` only, so that a later declaration
creates another one (`DeclareFunction`, `initializer.cc:685`) and a second
definition adds its body to the first (`FunctionDefinition`, `irgen.cc:84`). The
properties of the last five modules name theirs in the lists above.

## Proofs

`ControlFlowProofs` proves for all values of the constants:

| theorem | property |
|---|---|
| `Invariance` | `IInv` |
| `TypeCorrect` | `TypeOK` |
| `JumpTargets` | `JumpStacksFollowNesting` |
| `SwitchCases` | `SwitchStacksFollowNesting` |
| `Scopes` | `ScopesFollowNesting` |

The only assumption is `ControlFlowAssumption`: widths are LLVM integer widths,
result kinds are `void` and `value`, the bound is a natural number.

`IInv` is the conjunction of these properties and `WalkOK`. None of the stack
properties is inductive alone. A pop is right only when the frame it belongs to
is on top, which `Matches` says by relating each stack, element by element, to
the frames in loop or switch bodies; a push keeps the type only when the blocks
in the frame exist, which `TypeOK` says; and a block in a frame is a real one,
not `None`, only after the handler has reached a certain child, which
`FrameOK` in `WalkOK` says. `WalkOK` also says that the function's frame is the
outermost one, which is why popping it leaves all stacks empty.

The argument has four layers:

1. Facts on sequences and on counting (`FrontFacts`, `RankFacts`, `MatchesPush`,
   `MatchesPop`): `Matches` survives adding the greatest position together with
   a push and removing it together with a pop.
2. What one more or one fewer frame does to the open loops, switches and scopes
   (`OpensOfAppend`, `MirrorEnter`, `MirrorLeave`, `CasesPush`, `CasesPop`).
3. A rule for each way a handler moves the walk: `CallStep`, `ProceedStep`,
   `ReturnStep`, `InPlaceStep`, and their short forms for steps that leave the
   stacks alone.
4. One lemma per action (`WhileKeepsInv`, ...), `NextKeepsInv`, and the temporal
   theorem.

The second half of the module goes on from `IInv` to the graph itself:

| theorem | property |
|---|---|
| `BlockOwnership` | `Graph` |
| `Terminated` | `OnlySwitchIsFollowed` |
| `Gotos` | `GotosReachTheirLabel` |
| `LabelTables` | `LabelsAreTheFunctions` |
| `Phis` | `PhisMatchPredecessors` |
| `Defects` | `DefectsComeFromSwitches` |
| `Appending` | `InstructionsStay` |

None of the first four properties is inductive: nothing in them keeps a handler
from moving the insert point to a block that is already full, or a jump from going
to a block whose phi is already written. `Graph` says that it cannot, by ownership.
Of the blocks that exist, each that still needs instructions belongs to exactly
one of: the insert point, a handler in progress that will continue there (`Ahead`,
and `Behind` for the block in which the second operand of `?:` ended), or the
gotos that wait for a label (`Waits`). Two owners never share a block (`Apart`,
`Distinct`). An owned block has no terminator; every other block ends in one; only
a `SwitchInst` stands in the middle of a block, and an open `switch` still finds
its own at the place it remembers (`SwitchAt`). `Linked` says that the phis
are first and name their predecessors, and that a block with a phi, and the
entry block, is in none of the places from which a later branch may take its
target (`Aims`: the jump stacks, the case and default lists, the labels, the
fields of open frames); a branching operator in progress has the block of its phi
outside them as well (`Joined`). `Patched` relates the gotos seen to the two label tables; `LabelTables` adds the
converse, that nothing else waits in them (`Sited`).

A step hands blocks from owner to owner and appends instructions to some
(`Handed`, `Wrote`); `GraphStep` derives `Graph'` from these two facts for any
step, and rules for steps of one shape (`CloseAndPush`, `CloseAndSwap`,
`CloseAndPop`, ...) reduce most handlers to which blocks they hold before and
after. Then there is one lemma per action (`WhileGraph`, ...) and
`NextKeepsGraph`. That a refused function has a defect of a `switch`, and that only
the closing `switch` alters an instruction, follow from `Graph` and the actions.

`GlobalSymbolsProofs` proves for all names, types, initializers, unit lengths and
nesting depths:

| theorem | property |
|---|---|
| `Invariance` | `IInv` |
| `TypeCorrect` | `TypeOK` |
| `OneObject` | `LinkedVariablesAreOneObject` |
| `TypesAgree` | `DeclaredTypesAgree` |
| `OneDefinition` | `RedefinitionsAreReported` |
| `BodiesComplete` | `BodyCompletesDeclarations` |

The assumption is `GlobalSymbolsAssumption`: object types, function types and
the two array types are different things, the markers are no program values,
the bounds are natural numbers.

None of the three properties of declarations is inductive: each compares two
past declarations, while a step compares the new one with the entry in
`globObjects` alone. `EntriesFollowDeclarations` closes the gap. It says that the
entry has the object, the type and, once there was one, the definition of every
declaration so far; `RedeclareVariable` keeps an initialized entry, so it stays
true when a tentative declaration follows a definition. `BindVariable`,
`BindFunction` and `BindBody` prove what one more element of `denotes` does,
`Quiet` that a step without one keeps everything, and `GlobalStepTypes` the
common typing argument; then there is one lemma per action.

`BodiesComplete` needs an invariant of its own, `Bodies`: `FunctionDefinition`
finds its object in the module's symbol table by name, the declarations are
recorded in `globObjects`, and `EntriesHoldSymbols` says that until the first body
the two agree: one object has the name, and the entry and every declaration
denote it. `Dated` puts the declarations in order, so that before the first
body is a matter of `declarations` alone.

`DriverProofs` proves for any set of files, any number of inputs and messages:

| theorem | property |
|---|---|
| `Invariance` | `IInv` |
| `TypeCorrect` | `TypeOK` |
| `Shown` | `MessagesAreShownOnce` |
| `Balanced` | `GeneratorStartsBalanced` |
| `Clean` | `WrittenUnitsAreClean` |
| `Refinement` | `Spec => Promise!Safety` |
| `CompleteSuccess` | `SuccessIsComplete` |

The assumption is `DriverAssumption`: every input has a stem, the buffer begins
with room, the bounds are natural numbers. `IInv` adds to `TypeOK` what each pass
leaves to the next: where the cursor and `TheModule` stand (`Position`), that an
unbalanced table means a waiting error (`Balance`), that printed and waiting
messages together are all there are (`Reported`), and whose result each file
behind the cursor holds (`Results`). `Clean` needs `Reported` and `Results`
together: errors are about the input under the cursor, finished files about the
ones before it. For `Refinement`, `EachFromItsInput` shows from `Results` that
the mapped sequence is a prefix of the inputs, and `StepsMap` that a step moves
the cursor, ends the command or is hidden. `CompleteSuccess` follows files further
than `Results`, past later inputs of the same path: `ResultsStand` says of each
finished input that its file holds its result or that of the last one which wrote
there, `LinkStands` that the executable has all objects from the link on.

`DeclSpecProofs` proves for any number of words and boxed types:

| theorem | property |
|---|---|
| `Invariance` | `IInv` |
| `TypeCorrect` | `TypeOK` |
| `OrderDoesNotMatter` | `OrderIrrelevant` |
| `FirstStorage` | `StorageIsTheFirst` |
| `KnownTypes` | `RecoveredTypesAreKnown` |
| `AcceptsC` | `AcceptedTypesAreC` |

The assumptions are `BoxedAssumption` (the marker is no type) and
`BoundsAssumption`. `OrderIrrelevant` is inductive only with `OneSpecifier` and
`ModifiersAgree`: a word that is accepted silently must contradict none of the
bits, and a bit that was cleared must have left an error. For `AcceptsC`, `Fit`
says what may stand together by C's rules, on the words as a multiset, and `Judged`
that in every phase there is no error exactly while the words are `Fit`; what is
left is `into_type_builder`'s table against C's, which is finite.

`TagScopesProofs` proves for any tags and any number of scopes, bodies and objects:

| theorem | property |
|---|---|
| `TypeCorrect` | `TypeOK` |
| `StructTags` | `TagsResolveAsC` |
| `EnumTags` | `EnumTagsAreAsComplete` |
| `CompleteClones` | `ClonesSeeTheBody` |
| `Halts` | `HaltsAreErrors` |
| `SameTypes` | `SameTypesAreC` |

The assumption is `TagScopesAssumption`: struct and enum tags differ, unions are among
the former, the bounds are numbers; parameter lists may nest as deep as the bound
says, in bodies and around them. The inductive invariant adds that an open body
completes the object its tag still names (`BodiesResolveAsC`), that the scopes C gives
the open lists are empty until the unit strays (`ListsDeclareNothing`), so that a
lookup through them is one through the scopes alone, that a tag is entered in the code
only where it is in C (`EntriesAreC`), that no object of C has two tags
(`ObjectsAreEnteredOnce`), that the objects of structs and enums are apart
(`StructsApart`: only so an enum's body, which makes a new object, completes no
struct), and that structs are as complete as C's (`StructsCompleteAsC`).
`SameTypes` adds `Paired`: complete enums and C's, wherever a scope's tag or a clone
mentions them, correspond one to one, although an enum's body made a new
object (`EnumsPaired`), and an enum's clone is never confused with a struct
(`EnumClones`).

`TypeNamesProofs` proves for any names, nesting and number of units:

| theorem | property |
|---|---|
| `TypeCorrect` | `TypeOK` |
| `ReadAsC` | `AcceptedUnitsAreReadAsC` |
| `StartAlike` | `UnitsStartAlike` |
| `Resolved` | `ResolvedAsRead` |

The assumption is `TypeNamesAssumption`. Between declarations the
property is easy; it is a declaration's middle that needs strengthening, where C
already knows a typedef's names and the lexer does not (`Pending`). `SetsHoldTypes`
says that the sets are C's types scope by scope but for those, and that no value
hides a type; `NamesAreNoTypes` that the declarator being read is an identifier;
`DeclarationsInPlace` that `IS_TYPEDEF` is the flag of the declaration whose
declarators are read, although the specifiers of members, parameters and inner
declarations overwrite it; `StrayedIsRefused` that once a name was read otherwise
than in C, but for the parameter that `AcceptedUnitsAreReadAsC` excepts, the
declaration already has two type specifiers. `ParameterRead` says what a step
within a list must keep, `ParameterKeeps` that each way to name a parameter does. `Resolved` compares
the generator's table with C's scopes, which have one level more at the
bottom (`GeneratorHoldsTypes`): level by level both hold the same types, and no
value of an inner scope of the table hides a type of an outer one, so that what
the lexer reads as a type is found as one.

`ConversionsProofs` proves for any widths of the types, in particular for 8, 16, 32
and 64 bits:

| theorem | property |
|---|---|
| `Invariance` | `Inv` |
| `ConvertedNumbers` | `ConversionsAreC` |
| `OperatorResults` | `OperatorsAreC` |
| `StoredNumbers` | `CompoundAssignmentsAreC` |
| `PointerOffsets` | `OffsetsAreC` |
| `LiteralNumbers` | `LiteralsAreC` |

The assumptions are `WidthsAssumption` (the widths are different and ordered, above
the one bit of `bool`) and `MarksAssumption` (the two marks are no numbers). `Inv`
says that the left operand is a value of its type and that `done` holds operands
and the result the code computes of them; what is left is arithmetic. A pattern
stands for a class of numbers modulo 2^bits and a type has exactly one number of
each class (`FitsUnique`), so the code's number is C's if both are of one class and
C's fits. `+ - * & | ^` of a class are determined by the classes of the operands
(`CongAdd`, `CongMul`, `BitOpLow`), which is why a compound assignment survives a
wrong extension (`LowOperatorAsC`); comparisons, division and shifts are not, and
need the operands converted as in C. `BalanceFacts` and `IntsConverted` say when
they are. The powers of two are not known to the provers: `2^n` is the number of
subsets of n elements (`FS_SUBSET`), from which `PowStep` follows, and induction over
widths is the least element of a set of naturals (`Least`, `Induction`), which
instantiates no operator.

`InitializerProofs` proves for any types and initializers, nested to any depth:

| theorem | property |
|---|---|
| `Invariance` | `IInv` |
| `TypeCorrect` | `TypeOK` |
| `InitializedObjects` | `ObjectsAreC` |
| `ArrayLength` | `LengthIsC` |
| `Warnings` | `WarningsAreC` |
| `Refusals` | `RefusedInitializers` |

The assumptions are `BoundAssumption` (the mark of an unsized array is no number),
`TypesAssumption` and `ListsAssumption` (types and initializers are finite trees,
only the variable itself is of unknown length, scalars and values have no parts).
None of the properties is inductive, because none says where in C's order the
walk is. `Tracked` does: `Rest` is what the innermost frame, and those around it in
the same list, have still to fill of the list's object, `Left` what C leaves of
it behind the items that the cursor has passed, and both are the same as long as
the list has items. Therefore the next component is the first place that is left,
and it is the object of the next item (`NextItem`). There is one exception: an
aggregate entered without braces is in `Left`, but not in `Rest` any more; the next
item is then a value, which takes a scalar, and on scalars both still agree.
`StackOK` says how frames, lists and cursors lie on each other, `UnsizedOK` that the
frame of an unsized array has counted what C counts, and `Settled` what the walks
leave behind them: the items behind the cursors of the stack are `Consumed`; what
was stored and warned of is C's for those, and there are no errors among them.

The argument has four layers. The first is the order of places (`WithinTrans`,
`BeforeTrans`, `PlacesCompare`, `FirstIn`): every finite set of places has one first
place. The second is C's side alone: `Objects` is a recursive function, of which
`ObjectsIs` proves that its equations have a solution, so that it obeys them;
then objects of an item lie in its list's object (`ObjectDescend`), in the order of
the items (`ObjectOrder`), no two values have the same one (`ObjectInjective`), and
what braces around a scalar hold is found by their first items (`Innermost`). The
third is what each step does to `Rest` (`RestNext`, `RestFirst`, `RestEnd`), to the
stack (`StackNext`, `StackPush`, `StackPop`), to the length and to what is consumed,
and the last is one lemma per action (`PassOverKeeps`, ...). An item that is skipped
at the end of a braced list has no object (`ListDone`), and then none of the items
behind it and in it has (`ReturnGain`): that is why the warnings are exact.

Only model-checked is the liveness: `Terminates` of `Initializer` and the liveness
part of `ImplementsCompilation`. Liveness under fairness is out of the prover's
reach and stays with TLC. All other properties of passing runs are proved.

## Plan

What is left is to model more: casts between pointers, and of structs, in
`Conversions`; char arrays with string literals in `Initializer`.

## Not modelled

* The grammar and the parser: data for a generator whose sources are absent.
* LLVM and jsoncpp: third-party; modelled externally where used.
* Calls, `sizeof`, member access and string literals: they choose instructions by
  types and keep no state; in `ControlFlow` such an expression is one `plain`
  instruction.
* The decoding of escape sequences and the driver's path slices: questions about
  characters, which the abstraction of names to model values leaves out.
* Chains of pointer and function types, array lengths in declarators, and
  qualifiers in comparisons of types. Of a declarator with several parameter lists
  (a function that returns a pointer to one) C makes the scope of one the body's:
  `TagScopes` has one list open when a body begins. A member of incomplete union type
  is seen as not refused; what LLVM makes of its size is external.
* Within a declarator's parameter list, in `TypeNames`: pointers, nested lists and
  braces; and functions without declaration specifiers.
* K&R parameter declarations, and tags, labels and members with the name of a
  type: the lexer makes syntax errors of the latter; the former are read by
  reductions that `TypeNames` leaves out. That two variables of one scope are
  reported is `GlobalSymbols`' subject, not `TypeNames`'.
* Whether an `alloca` dominates its uses: blocks are kept without their plain
  instructions.
* Two compilers at once: they share `/tmp/0.o`, which needs no search to see.
* Messages, printing and pretty-printing of types and trees.
