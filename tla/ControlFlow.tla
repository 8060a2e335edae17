---------------------------- MODULE ControlFlow ----------------------------
(***************************************************************************)
(* The control-flow part of the code generator (ir-gen/src/irgen.cc,       *)
(* node/statement.cc and the branching operators of node/expression.cc).   *)
(*                                                                         *)
(* codegen() walks one function's syntax tree and appends instructions to  *)
(* basic blocks at the builder's insert point.  The walk is modelled with  *)
(* an explicit stack of the handlers in progress: `pc` says whether a      *)
(* statement or an expression node is about to be visited or whether a     *)
(* child has just returned to the handler on top of `frames`.  The tree    *)
(* itself is chosen as it is visited, so the runs range over every program *)
(* of at most MaxNodes interior nodes.                                     *)
(*                                                                         *)
(* Only what decides the shape of the graph is kept of an instruction: its *)
(* kind and the blocks it names.  Everything else an expression emits is   *)
(* one "plain" instruction.                                                *)
(***************************************************************************)
EXTENDS Integers, Sequences, FiniteSets

CONSTANTS
    Labels,        \* names of goto labels
    CaseValues,    \* values of case constants
    SwitchWidths,  \* bit widths of the switch operands a program may use
    ResultKinds,   \* result types of the functions a program may define
    StaleBack,     \* what `dyn_cast<SwitchInst>(&bb->back())` may answer when
                   \* bb is empty: back() is then undefined behaviour
    OperandEmits,  \* whether a leaf expression emits instructions
    Constructs,    \* bound: the constructs the programs are built from
    MaxNodes       \* bound: interior nodes of one function's syntax tree

ASSUME ControlFlowAssumption ==
    /\ SwitchWidths \subseteq {1, 8, 16, 32, 64}
    /\ ResultKinds \subseteq {"void", "value"}
    /\ StaleBack \subseteq BOOLEAN
    /\ OperandEmits \subseteq BOOLEAN
    /\ Constructs \subseteq {"while", "do", "for", "continue", "break", "return",
                            "goto", "label", "case", "if", "switch",
                            "compound", "binary", "and", "or", "conditional",
                            "filescope"}
    /\ MaxNodes \in Nat

VARIABLES
    blocks,           \* the function's basic blocks, in creation order
    insertAt,         \* Builder.GetInsertBlock(), 0 before there is one
    frames,           \* handlers in progress, innermost last
    pc,               \* what the walk does next, or how it stopped
    breakJump, continueJump,
    caseList, defaultList, switchBits,
    gotoJump,         \* label -> blocks whose `goto label` waits for a target
    labelJump,        \* label -> its block, None while undeclared
    gotoSites,        \* history: <<block, label>> of each goto statement
    currentFunction,  \* "none" or the result kind of the last definition
    corrupted,        \* history: an earlier function stopped being valid
    symScopes,        \* depth of symTable
    nodes             \* interior nodes visited since the function began

fnVars == <<blocks, insertAt>>
walk == <<frames, pc>>
jumps == <<breakJump, continueJump>>
switches == <<caseList, defaultList, switchBits>>
labels == <<gotoJump, labelJump, gotoSites>>
unit == <<currentFunction, corrupted, symScopes>>
vars == <<fnVars, walk, jumps, switches, labels, unit, nodes>>

----------------------------------------------------------------------------
(* Instructions and blocks *)

None == 0
Terminators == {"br", "condbr", "switch", "ret"}
Instr == [op : Terminators \cup {"plain", "phi"}, to : SUBSET Nat]

Br(b) == [op |-> "br", to |-> {b}]
CondBr(b, c) == [op |-> "condbr", to |-> {b, c}]
Ret == [op |-> "ret", to |-> {}]
Plain == [op |-> "plain", to |-> {}]
SwitchInst(targets) == [op |-> "switch", to |-> targets]
Phi(b, c) == [op |-> "phi", to |-> {b, c}]

\* BasicBlock::Create, n times.
Grow(bs, n) == bs \o [i \in 1..n |-> <<>>]

\* The builder appends instruction i to block b; runs of plain instructions
\* are one.
Emit(bs, b, i) ==
    IF /\ i = Plain
       /\ b \in DOMAIN bs
       /\ bs[b] # <<>>
       /\ bs[b][Len(bs[b])] = Plain
    THEN bs
    ELSE [bs EXCEPT ![b] = Append(@, i)]

EndsInSwitch(bs, b) == bs[b] # <<>> /\ bs[b][Len(bs[b])].op = "switch"

Predecessors(bs, b) ==
    {p \in DOMAIN bs : \E k \in DOMAIN bs[p] :
        bs[p][k].op \in Terminators /\ b \in bs[p][k].to}

\* LLVM's verifier on one block: one terminator, at the end; a phi first and
\* with one incoming block per predecessor.
WellFormedBlock(bs, b) ==
    /\ bs[b] # <<>>
    /\ \A k \in DOMAIN bs[b] :
        /\ (bs[b][k].op \in Terminators) <=> (k = Len(bs[b]))
        /\ bs[b][k].op = "phi" => k = 1 /\ bs[b][k].to = Predecessors(bs, b)

\* verifyFunction: every block is well formed and the entry is not a target.
Verified(bs) ==
    /\ \A b \in DOMAIN bs : WellFormedBlock(bs, b)
    /\ Predecessors(bs, 1) = {}

----------------------------------------------------------------------------
(* The walk *)

Loops == {"while", "do", "for"}
Handlers == Loops \cup {"function", "compound", "if", "switch", "return",
                        "and", "or", "conditional", "binary"}
Phases == {"list", "init", "cond", "nocond", "inc", "noinc", "body", "then",
           "else", "value", "lhs", "rhs", "fst", "secd",
           "constfst", "constsecd"}
BlockId == 0..Len(blocks)
Frame == [h : Handlers, at : Phases, from : BlockId, body : BlockId,
          alt : BlockId, end : BlockId, bits : Nat, pos : Nat]
Stopped == {"halted", "internal_error", "crashed"}
PCs == {"idle", "file", "statement", "expression", "returned"} \cup Stopped

\* A handler's activation: the child it is generating (`at`) and the blocks it
\* still needs.  from: where to come back to (loop condition, the switch's
\* block, the short-circuiting block); alt: for.inc, if.else or ques.secd;
\* bits and pos: the operand's width and the SwitchInst's place in `from`.
NewFrame(h, at, from, body, alt, end) ==
    [h |-> h, at |-> at, from |-> from, body |-> body, alt |-> alt,
     end |-> end, bits |-> 0, pos |-> 0]

top == frames[Len(frames)]
Last(s) == s[Len(s)]
Front(s) == SubSeq(s, 1, Len(s) - 1)
InFunction == frames # <<>> /\ frames[1].h = "function"

\* The top handler's child `at` has just been generated.
Returned(h, at) ==
    pc = "returned" /\ frames # <<>> /\ top.h = h /\ top.at = at

\* codegen of the first child, of the next one, and return to the caller.
Call(what, f) == frames' = Append(frames, f) /\ pc' = what
Proceed(what, f) ==
    frames' = [frames EXCEPT ![Len(frames)] = f] /\ pc' = what
Return == frames' = Front(frames) /\ pc' = "returned"

Stop(how) == pc' = how /\ UNCHANGED <<fnVars, frames, jumps, switches, labels,
                                      unit, nodes>>

\* Bounds on the programs walked: the constructs they use and their size.
Visit(what, construct) ==
    /\ pc = what
    /\ construct \in Constructs
    /\ nodes < MaxNodes
    /\ nodes' = nodes + 1

n1 == Len(blocks) + 1
n2 == Len(blocks) + 2
n3 == Len(blocks) + 3
n4 == Len(blocks) + 4

Push(s, x) == Append(s, x)
Pop(s) == Front(s)

----------------------------------------------------------------------------
(* iteration_statement *)

\* breakJump and continueJump around a loop's body.
EnterLoop(end, continue) ==
    /\ breakJump' = Push(breakJump, end)
    /\ continueJump' = Push(continueJump, continue)
\* [fault] continueJump.pop() forgotten.
LeaveLoopOnce == breakJump' = Pop(breakJump) /\ UNCHANGED continueJump
LeaveLoop ==
    /\ continueJump' = Pop(continueJump)
    /\ breakJump' = Pop(breakJump)

While ==
    /\ Visit("statement", "while")
    /\ Call("expression", NewFrame("while", "cond", n3, n2, None, n1))
    /\ blocks' = Emit(Grow(blocks, 3), insertAt, Br(n3))
    /\ insertAt' = n3
    /\ UNCHANGED <<jumps, switches, labels, unit>>

WhileCond ==
    /\ Returned("while", "cond")
    /\ blocks' = Emit(blocks, insertAt, CondBr(top.body, top.end))
    /\ EnterLoop(top.end, top.from)
    /\ insertAt' = top.body
    /\ Proceed("statement", [top EXCEPT !.at = "body"])
    /\ UNCHANGED <<switches, labels, unit, nodes>>

WhileEnd ==
    /\ Returned("while", "body")
    /\ blocks' = Emit(blocks, insertAt, Br(top.from))
    /\ LeaveLoop
    /\ insertAt' = top.end
    /\ Return
    /\ UNCHANGED <<switches, labels, unit, nodes>>

\* The block before the loop branches to the condition, not to the body.
Do ==
    /\ Visit("statement", "do")
    /\ Call("statement", NewFrame("do", "body", n3, n2, None, n1))
    /\ blocks' = Emit(Grow(blocks, 3), insertAt, Br(n3))
    /\ EnterLoop(n1, n3)
    /\ insertAt' = n2
    /\ UNCHANGED <<switches, labels, unit>>

DoBody ==
    /\ Returned("do", "body")
    /\ blocks' = Emit(blocks, insertAt, Br(top.from))
    /\ LeaveLoop
    /\ insertAt' = top.from
    /\ Proceed("expression", [top EXCEPT !.at = "cond"])
    /\ UNCHANGED <<switches, labels, unit, nodes>>

DoEnd ==
    /\ Returned("do", "cond")
    /\ blocks' = Emit(blocks, insertAt, CondBr(top.body, top.end))
    /\ insertAt' = top.end
    /\ Return
    /\ UNCHANGED <<jumps, switches, labels, unit, nodes>>

\* The initialisation may be an empty expression statement.
For ==
    /\ Visit("statement", "for")
    /\ \E what \in {"expression", "returned"} :
          Call(what, NewFrame("for", "init", n4, n3, n2, n1))
    /\ blocks' = Grow(blocks, 4)
    /\ UNCHANGED <<insertAt, jumps, switches, labels, unit>>

ForInit ==
    /\ Returned("for", "init")
    /\ blocks' = Emit(blocks, insertAt, Br(top.from))
    /\ insertAt' = top.from
    /\ \/ Proceed("expression", [top EXCEPT !.at = "cond"])
       \/ Proceed("returned", [top EXCEPT !.at = "nocond"])
    /\ UNCHANGED <<jumps, switches, labels, unit, nodes>>

ForCond ==
    /\ \/ /\ Returned("for", "cond")
          /\ blocks' = Emit(blocks, insertAt, CondBr(top.body, top.end))
       \/ /\ Returned("for", "nocond")
          /\ blocks' = Emit(blocks, insertAt, Br(top.body))
    /\ insertAt' = top.alt
    /\ \/ Proceed("expression", [top EXCEPT !.at = "inc"])
       \/ Proceed("returned", [top EXCEPT !.at = "noinc"])
    /\ UNCHANGED <<jumps, switches, labels, unit, nodes>>

\* Without an increment expression for.inc leaves the loop.
ForInc ==
    /\ \/ /\ Returned("for", "inc")
          /\ blocks' = Emit(blocks, insertAt, Br(top.from))
       \/ /\ Returned("for", "noinc")
          /\ blocks' = Emit(blocks, insertAt, Br(top.end))
    /\ EnterLoop(top.end, top.alt)
    /\ insertAt' = top.body
    /\ Proceed("statement", [top EXCEPT !.at = "body"])
    /\ UNCHANGED <<switches, labels, unit, nodes>>

ForEnd ==
    /\ Returned("for", "body")
    /\ blocks' = Emit(blocks, insertAt, Br(top.alt))
    /\ LeaveLoop
    /\ insertAt' = top.end
    /\ Return
    /\ UNCHANGED <<switches, labels, unit, nodes>>

----------------------------------------------------------------------------
(* jump_statement *)

\* [fault] the temp block is created but not made the insert block.
OpenTempBlockUnused(bs) == blocks' = Grow(bs, 1) /\ UNCHANGED insertAt
\* [fault] the insert point is cleared and no temp block created.
OpenTempBlockMissing(bs) == blocks' = bs /\ insertAt' = Len(bs) + 1
\* What follows a jump goes to a fresh "temp" block nothing branches to.
OpenTempBlock(bs) == blocks' = Grow(bs, 1) /\ insertAt' = Len(bs) + 1

Continue ==
    /\ Visit("statement", "continue")
    /\ continueJump # <<>>
    /\ OpenTempBlock(Emit(blocks, insertAt, Br(Last(continueJump))))
    /\ pc' = "returned"
    /\ UNCHANGED <<frames, jumps, switches, labels, unit>>

Break ==
    /\ Visit("statement", "break")
    /\ breakJump # <<>>
    /\ OpenTempBlock(Emit(blocks, insertAt, Br(Last(breakJump))))
    /\ pc' = "returned"
    /\ UNCHANGED <<frames, jumps, switches, labels, unit>>

\* "`continue` statement not in loop statement" and its like: HALT().
StrayJump ==
    /\ pc = "statement"
    /\ continueJump = <<>> \/ breakJump = <<>>
    /\ Stop("halted")
    /\ UNCHANGED unit

ReturnValue ==
    /\ currentFunction = "value"
    /\ Visit("statement", "return")
    /\ Call("expression", NewFrame("return", "value", None, None, None, None))
    /\ UNCHANGED <<fnVars, jumps, switches, labels, unit>>

ReturnValueEnd ==
    /\ Returned("return", "value")
    /\ OpenTempBlock(Emit(blocks, insertAt, Ret))
    /\ Return
    /\ UNCHANGED <<jumps, switches, labels, unit, nodes>>

ReturnVoid ==
    /\ currentFunction = "void"
    /\ Visit("statement", "return")
    /\ OpenTempBlock(Emit(blocks, insertAt, Ret))
    /\ pc' = "returned"
    /\ UNCHANGED <<frames, jumps, switches, labels, unit>>

\* A return that does not fit the function's result type, an expression or a
\* declaration with an error: HALT() throws through every handler and nothing
\* is popped.
SemanticError ==
    /\ pc \in {"file", "statement", "expression"}
    /\ Stop("halted")
    /\ UNCHANGED unit

\* A backward goto branches; a forward one leaves its block open until the
\* label turns up.
Goto(l) ==
    /\ Visit("statement", "goto")
    /\ \/ /\ labelJump[l] # None
          /\ OpenTempBlock(Emit(blocks, insertAt, Br(labelJump[l])))
          /\ UNCHANGED gotoJump
       \/ /\ labelJump[l] = None
          /\ OpenTempBlock(blocks)
          /\ gotoJump' = [gotoJump EXCEPT ![l] = @ \cup {insertAt}]
    /\ gotoSites' = gotoSites \cup {<<insertAt, l>>}
    /\ pc' = "returned"
    /\ UNCHANGED <<frames, labelJump, jumps, switches, unit>>

----------------------------------------------------------------------------
(* labeled_statement: the labelled statement is a tail call *)

\* [fault] only one of the gotos that wait is patched.
PatchGotosOnce(bs, waiting, target) ==
    [b \in DOMAIN bs |->
        IF b \in waiting /\ \A w \in waiting : b <= w
        THEN Append(bs[b], Br(target)) ELSE bs[b]]
\* Every goto that waits for this label gets its branch.
PatchGotos(bs, waiting, target) ==
    [b \in DOMAIN bs |->
        IF b \in waiting THEN Append(bs[b], Br(target)) ELSE bs[b]]

Label(l) ==
    /\ labelJump[l] = None
    /\ Visit("statement", "label")
    /\ blocks' = PatchGotos(Emit(Grow(blocks, 1), insertAt, Br(n1)),
                            gotoJump[l], n1)
    /\ labelJump' = [labelJump EXCEPT ![l] = n1]
    /\ gotoJump' = [gotoJump EXCEPT ![l] = {}]
    /\ insertAt' = n1
    /\ UNCHANGED <<walk, gotoSites, jumps, switches, unit>>

\* "redefinition of label"
DuplicateLabel(l) ==
    /\ pc = "statement"
    /\ labelJump[l] # None
    /\ Stop("halted")
    /\ UNCHANGED unit

\* A case or default block is entered by falling through unless the last
\* instruction before it is the switch; `stale` answers for an empty block.
FallThrough(stale, target) ==
    blocks' = IF IF blocks[insertAt] = <<>> THEN stale
                 ELSE EndsInSwitch(blocks, insertAt)
              THEN Grow(blocks, 1)
              ELSE Emit(Grow(blocks, 1), insertAt, Br(target))

\* std::map::insert keeps the first block of a repeated constant.
InsertCase(cases, c, w, target) ==
    IF \E old \in cases : old.value = c /\ old.width = w
    THEN cases
    ELSE cases \cup {[value |-> c, width |-> w, block |-> target]}

\* [fault] the outermost switch's width is taken for the innermost one's.
CaseWidthOutermost == IF switchBits[1] = 64 THEN 64 ELSE 32
CaseWidth == IF Last(switchBits) = 64 THEN 64 ELSE 32

Case(c, stale) ==
    /\ switchBits # <<>>
    /\ Visit("statement", "case")
    /\ caseList' = [caseList EXCEPT ![Len(caseList)] =
                        InsertCase(@, c, CaseWidth, n1)]
    /\ FallThrough(stale, n1)
    /\ insertAt' = n1
    /\ UNCHANGED <<walk, jumps, defaultList, switchBits, labels, unit>>

\* The last default of a switch wins.
Default(stale) ==
    /\ defaultList # <<>>
    /\ Visit("statement", "case")
    /\ defaultList' = [defaultList EXCEPT ![Len(defaultList)] = n1]
    /\ FallThrough(stale, n1)
    /\ insertAt' = n1
    /\ UNCHANGED <<walk, jumps, caseList, switchBits, labels, unit>>

\* top() of an empty stack is undefined behaviour: nothing is said of the
\* process after it.
CaseOutsideSwitch ==
    /\ pc = "statement"
    /\ switchBits = <<>>
    /\ Stop("crashed")
    /\ UNCHANGED unit

----------------------------------------------------------------------------
(* selection_statement *)

If ==
    /\ Visit("statement", "if")
    /\ \/ /\ Call("expression", NewFrame("if", "cond", None, n3, n2, n1))
          /\ blocks' = Grow(blocks, 3)
       \/ /\ Call("expression", NewFrame("if", "cond", None, n2, None, n1))
          /\ blocks' = Grow(blocks, 2)
    /\ UNCHANGED <<insertAt, jumps, switches, labels, unit>>

IfCond ==
    /\ Returned("if", "cond")
    /\ blocks' = Emit(blocks, insertAt,
                      CondBr(top.body, IF top.alt = None THEN top.end
                                                         ELSE top.alt))
    /\ insertAt' = top.body
    /\ Proceed("statement", [top EXCEPT !.at = "then"])
    /\ UNCHANGED <<jumps, switches, labels, unit, nodes>>

IfThen ==
    /\ Returned("if", "then")
    /\ blocks' = Emit(blocks, insertAt, Br(top.end))
    /\ \/ /\ top.alt = None
          /\ insertAt' = top.end
          /\ Return
       \/ /\ top.alt # None
          /\ insertAt' = top.alt
          /\ Proceed("statement", [top EXCEPT !.at = "else"])
    /\ UNCHANGED <<jumps, switches, labels, unit, nodes>>

\* [fault] no branch from the else part to if.end.
IfElseOpen ==
    /\ Returned("if", "else")
    /\ insertAt' = top.end
    /\ Return
    /\ UNCHANGED <<blocks, jumps, switches, labels, unit, nodes>>
IfElse ==
    /\ Returned("if", "else")
    /\ blocks' = Emit(blocks, insertAt, Br(top.end))
    /\ insertAt' = top.end
    /\ Return
    /\ UNCHANGED <<jumps, switches, labels, unit, nodes>>

Switch ==
    /\ Visit("statement", "switch")
    /\ Call("expression", NewFrame("switch", "value", None, None, None, None))
    /\ UNCHANGED <<fnVars, jumps, switches, labels, unit>>

\* The SwitchInst ends the block, and the insert point stays in that block.
SwitchValue(bits) ==
    /\ Returned("switch", "value")
    /\ blocks' = Emit(Grow(blocks, 1), insertAt, SwitchInst({n1}))
    /\ switchBits' = Push(switchBits, bits)
    /\ caseList' = Push(caseList, {})
    /\ defaultList' = Push(defaultList, None)
    /\ breakJump' = Push(breakJump, n1)
    /\ Proceed("statement",
               [NewFrame("switch", "body", insertAt, None, None, n1)
                    EXCEPT !.bits = bits, !.pos = Len(blocks[insertAt]) + 1])
    /\ UNCHANGED <<insertAt, continueJump, labels, unit, nodes>>

\* [fault] the switch is looked for at the start of its block.
CompleteSwitchFirst(bs, f, cases, default) ==
    [bs EXCEPT ![f.from][1] =
        SwitchInst({cs.block : cs \in cases} \cup
                   {IF default = None THEN f.end ELSE default})]
\* setDefaultDest and addCase complete the SwitchInst the frame remembers.
CompleteSwitch(bs, f, cases, default) ==
    [bs EXCEPT ![f.from][f.pos] =
        SwitchInst({cs.block : cs \in cases} \cup
                   {IF default = None THEN f.end ELSE default})]

\* [fault] switchBits.pop() forgotten.
LeaveSwitchKeepsBits ==
    /\ caseList' = Pop(caseList)
    /\ defaultList' = Pop(defaultList)
    /\ breakJump' = Pop(breakJump)
    /\ UNCHANGED switchBits
LeaveSwitch ==
    /\ caseList' = Pop(caseList)
    /\ defaultList' = Pop(defaultList)
    /\ breakJump' = Pop(breakJump)
    /\ switchBits' = Pop(switchBits)

SwitchEnd ==
    /\ Returned("switch", "body")
    /\ blocks' = Emit(CompleteSwitch(blocks, top, Last(caseList),
                                     Last(defaultList)),
                      insertAt, Br(top.end))
    /\ LeaveSwitch
    /\ insertAt' = top.end
    /\ Return
    /\ UNCHANGED <<continueJump, labels, unit, nodes>>

----------------------------------------------------------------------------
(* compound_statement and expression_statement *)

Compound ==
    /\ Visit("statement", "compound")
    /\ Call("returned", NewFrame("compound", "list", None, None, None, None))
    /\ symScopes' = symScopes + 1
    /\ UNCHANGED <<fnVars, jumps, switches, labels, currentFunction, corrupted>>

\* The next statement of a compound statement or of the function's body.
NextStatement ==
    /\ Returned("compound", "list") \/ Returned("function", "list")
    /\ pc' = "statement"
    /\ UNCHANGED <<fnVars, frames, jumps, switches, labels, unit, nodes>>

\* [fault] an early exit forgets symTable.pop().
CompoundEndLeaks ==
    /\ Returned("compound", "list")
    /\ Return
    /\ UNCHANGED <<fnVars, jumps, switches, labels, unit, nodes>>
CompoundEnd ==
    /\ Returned("compound", "list")
    /\ symScopes' = symScopes - 1
    /\ Return
    /\ UNCHANGED <<fnVars, jumps, switches, labels, currentFunction, corrupted,
                   nodes>>

\* `expr ;` or a lone `;`
ExpressionStatement ==
    /\ pc = "statement"
    /\ pc' \in {"expression", "returned"}
    /\ UNCHANGED <<fnVars, frames, jumps, switches, labels, unit, nodes>>

----------------------------------------------------------------------------
(* Expressions that decide the shape of the graph *)

\* An operand: at file scope a constant, inside a function maybe instructions.
Operand ==
    /\ pc = "expression"
    /\ pc' = "returned"
    /\ \E emits \in OperandEmits :
          blocks' = IF emits /\ InFunction THEN Emit(blocks, insertAt, Plain)
                                         ELSE blocks
    /\ UNCHANGED <<insertAt, frames, jumps, switches, labels, unit, nodes>>

\* Any operator that does not branch: both operands, then its instructions.
Binary ==
    /\ Visit("expression", "binary")
    /\ Call("expression", NewFrame("binary", "lhs", None, None, None, None))
    /\ UNCHANGED <<fnVars, jumps, switches, labels, unit>>

BinaryLhs ==
    /\ Returned("binary", "lhs")
    /\ Proceed("expression", [top EXCEPT !.at = "rhs"])
    /\ UNCHANGED <<fnVars, jumps, switches, labels, unit, nodes>>

BinaryEnd ==
    /\ Returned("binary", "rhs")
    /\ blocks' = IF InFunction THEN Emit(blocks, insertAt, Plain) ELSE blocks
    /\ Return
    /\ UNCHANGED <<insertAt, jumps, switches, labels, unit, nodes>>

\* `&&` and `||`
Logical(op) ==
    /\ Visit("expression", op)
    /\ Call("expression", NewFrame(op, "lhs", None, None, None, None))
    /\ UNCHANGED <<fnVars, jumps, switches, labels, unit>>

LogicalLhs(op) ==
    /\ Returned(op, "lhs")
    /\ currentFunction # "none"
    /\ blocks' = Emit(Grow(blocks, 2), insertAt, CondBr(n2, n1))
    /\ insertAt' = n2
    /\ Proceed("expression", NewFrame(op, "rhs", insertAt, n2, None, n1))
    /\ UNCHANGED <<jumps, switches, labels, unit, nodes>>

\* Before any function definition currentFunction->get() dereferences null.
LogicalWithoutFunction(op) ==
    /\ Returned(op, "lhs")
    /\ currentFunction = "none"
    /\ Stop("crashed")
    /\ UNCHANGED unit

\* [fault] the phi names the block the right operand began in.
LogicalEndStale(op) ==
    /\ Returned(op, "rhs")
    /\ blocks' = Emit(Emit(blocks, insertAt, Br(top.end)),
                      top.end, Phi(top.from, top.body))
    /\ insertAt' = top.end
    /\ Return
    /\ UNCHANGED <<jumps, switches, labels, unit, nodes>>
\* The phi names the block that short-circuited and the one the right operand
\* ended in.
LogicalEnd(op) ==
    /\ Returned(op, "rhs")
    /\ blocks' = Emit(Emit(blocks, insertAt, Br(top.end)),
                      top.end, Phi(top.from, insertAt))
    /\ insertAt' = top.end
    /\ Return
    /\ UNCHANGED <<jumps, switches, labels, unit, nodes>>

Conditional ==
    /\ Visit("expression", "conditional")
    /\ Call("expression",
            NewFrame("conditional", "cond", None, None, None, None))
    /\ UNCHANGED <<fnVars, jumps, switches, labels, unit>>

ConditionalCond ==
    /\ Returned("conditional", "cond")
    /\ currentFunction # "none"
    /\ blocks' = Emit(Grow(blocks, 3), insertAt, CondBr(n3, n2))
    /\ insertAt' = n3
    /\ Proceed("expression", NewFrame("conditional", "fst", None, n3, n2, n1))
    /\ UNCHANGED <<jumps, switches, labels, unit, nodes>>

ConditionalFst ==
    /\ Returned("conditional", "fst")
    /\ insertAt' = top.alt
    /\ Proceed("expression", [top EXCEPT !.at = "secd", !.from = insertAt])
    /\ UNCHANGED <<blocks, jumps, switches, labels, unit, nodes>>

ConditionalEnd ==
    /\ Returned("conditional", "secd")
    /\ blocks' = Emit(Emit(Emit(blocks, top.from, Br(top.end)),
                           insertAt, Br(top.end)),
                      top.end, Phi(top.from, insertAt))
    /\ insertAt' = top.end
    /\ Return
    /\ UNCHANGED <<jumps, switches, labels, unit, nodes>>

\* At file scope, while no function has been defined, the operands are
\* constants and no block is made.
ConditionalConstant ==
    /\ \/ /\ Returned("conditional", "cond")
          /\ currentFunction = "none"
          /\ Proceed("expression", [top EXCEPT !.at = "constfst"])
       \/ /\ Returned("conditional", "constfst")
          /\ Proceed("expression", [top EXCEPT !.at = "constsecd"])
       \/ Returned("conditional", "constsecd") /\ Return
    /\ UNCHANGED <<fnVars, jumps, switches, labels, unit, nodes>>

----------------------------------------------------------------------------
(* function_definition and the translation unit *)

\* [fault] gotoJump.clear() alone.
ClearGotos ==
    gotoJump' = [l \in Labels |-> {}] /\ gotoSites' = {} /\ UNCHANGED labelJump
ClearLabels ==
    /\ gotoJump' = [l \in Labels |-> {}]
    /\ labelJump' = [l \in Labels |-> None]
    /\ gotoSites' = {}

FunctionDefinition(kind) ==
    /\ pc = "file"
    /\ corrupted' = (corrupted \/ /\ currentFunction # "none"
                                  /\ ~Verified(blocks))
    /\ ClearLabels
    /\ currentFunction' = kind
    /\ blocks' = << <<>> >>
    /\ insertAt' = 1
    /\ symScopes' = symScopes + 1
    /\ Call("returned", NewFrame("function", "list", None, None, None, None))
    /\ nodes' = 0
    /\ UNCHANGED <<jumps, switches>>

\* "use of undeclared label"
UndeclaredLabel ==
    /\ Returned("function", "list")
    /\ \E l \in Labels : gotoJump[l] # {}
    /\ Stop("halted")
    /\ UNCHANGED unit

\* The final return is appended, the function verified, the scope popped; a
\* function that does not verify is an INTERNAL_ERROR and pops nothing.
FunctionEnd ==
    /\ Returned("function", "list")
    /\ \A l \in Labels : gotoJump[l] = {}
    /\ blocks' = Emit(blocks, insertAt, Ret)
    /\ \/ /\ Verified(blocks')
          /\ symScopes' = symScopes - 1
          /\ frames' = <<>>
          /\ pc' = "file"
       \/ /\ ~Verified(blocks')
          /\ pc' = "internal_error"
          /\ UNCHANGED <<symScopes, frames>>
    /\ UNCHANGED <<insertAt, jumps, switches, labels, currentFunction,
                   corrupted, nodes>>

\* gen_llvm_ir_cxx: a new module; of the stacks only two are emptied.
UnitStart ==
    /\ pc = "idle"
    /\ pc' = "file"
    /\ blocks' = <<>>
    /\ insertAt' = None
    /\ currentFunction' = "none"
    /\ corrupted' = FALSE
    /\ breakJump' = <<>>
    /\ continueJump' = <<>>
    /\ symScopes' = symScopes + 1
    /\ nodes' = 0
    /\ UNCHANGED <<frames, switches, labels>>

\* A constant expression outside any function: an array bound, an enumerator,
\* an initializer.
FileScopeExpression ==
    /\ pc = "file"
    /\ "filescope" \in Constructs
    /\ nodes < MaxNodes
    /\ pc' = "expression"
    /\ UNCHANGED <<fnVars, frames, jumps, switches, labels, unit, nodes>>

FileScopeExpressionEnd ==
    /\ pc = "returned" /\ frames = <<>>
    /\ pc' = "file"
    /\ UNCHANGED <<fnVars, frames, jumps, switches, labels, unit, nodes>>

\* The scope is popped and every function of the module verified again.
UnitEnd ==
    /\ pc = "file"
    /\ symScopes' = symScopes - 1
    /\ pc' = IF corrupted \/ (currentFunction # "none" /\ ~Verified(blocks))
             THEN "internal_error" ELSE "idle"
    /\ UNCHANGED <<fnVars, frames, jumps, switches, labels, currentFunction,
                   corrupted, nodes>>

\* The exception left gen_llvm_ir, or the process died.
Stay == pc \in Stopped /\ UNCHANGED vars

----------------------------------------------------------------------------
Init ==
    /\ blocks = <<>> /\ insertAt = None
    /\ frames = <<>> /\ pc = "idle"
    /\ breakJump = <<>> /\ continueJump = <<>>
    /\ caseList = <<>> /\ defaultList = <<>> /\ switchBits = <<>>
    /\ gotoJump = [l \in Labels |-> {}]
    /\ labelJump = [l \in Labels |-> None]
    /\ gotoSites = {}
    /\ currentFunction = "none" /\ corrupted = FALSE /\ symScopes = 0
    /\ nodes = 0

Iteration == \/ While \/ WhileCond \/ WhileEnd
             \/ Do \/ DoBody \/ DoEnd
             \/ For \/ ForInit \/ ForCond \/ ForInc \/ ForEnd

Jump == \/ Continue \/ Break \/ StrayJump
        \/ ReturnValue \/ ReturnValueEnd \/ ReturnVoid
        \/ \E l \in Labels : Goto(l)

Labelled == \/ \E l \in Labels : Label(l) \/ DuplicateLabel(l)
            \/ \E c \in CaseValues, stale \in StaleBack : Case(c, stale)
            \/ \E stale \in StaleBack : Default(stale)
            \/ CaseOutsideSwitch

Selection == \/ If \/ IfCond \/ IfThen \/ IfElse
             \/ Switch \/ (\E w \in SwitchWidths : SwitchValue(w))
             \/ SwitchEnd

Grouping == \/ Compound \/ NextStatement \/ CompoundEnd
            \/ ExpressionStatement

Expression == \/ Operand \/ Binary \/ BinaryLhs \/ BinaryEnd
              \/ \E op \in {"and", "or"} :
                    \/ Logical(op) \/ LogicalLhs(op)
                    \/ LogicalWithoutFunction(op) \/ LogicalEnd(op)
              \/ Conditional \/ ConditionalCond \/ ConditionalFst
              \/ ConditionalEnd \/ ConditionalConstant

Unit == \/ \E kind \in ResultKinds : FunctionDefinition(kind)
        \/ UndeclaredLabel \/ FunctionEnd
        \/ UnitStart \/ UnitEnd
        \/ FileScopeExpression \/ FileScopeExpressionEnd
        \/ SemanticError

Next == \/ Iteration \/ Jump \/ Labelled \/ Selection \/ Grouping
        \/ Expression \/ Unit \/ Stay

Spec == Init /\ [][Next]_vars

----------------------------------------------------------------------------
(* Properties *)

CaseEntry == [value : CaseValues, width : {32, 64}, block : BlockId]

\* The walk itself: nothing is in progress between declarations; statement
\* handlers run inside a function, which is the outermost handler; and a
\* handler has made the blocks it will move the insert point to.
StatementHandlers == Loops \cup {"compound", "if", "switch", "return"}
FrameOK(f) ==
    /\ f.h \in Loops => f.from # None
    /\ f.h \in Loops \cup {"if"} => f.body # None /\ f.end # None
    /\ f.h = "for" => f.alt # None
    /\ f.h = "switch" /\ f.at = "body" => f.end # None
    /\ f.h \in {"and", "or"} /\ f.at = "rhs" => f.end # None
    /\ f.h = "conditional" /\ f.at \in {"fst", "secd"} =>
          f.alt # None /\ f.end # None
WalkOK ==
    /\ pc \in {"idle", "file"} => frames = <<>>
    /\ pc = "statement" => InFunction
    /\ InFunction => currentFunction # "none"
    /\ currentFunction # "none" => insertAt # None
    /\ \A i \in DOMAIN frames :
        /\ frames[i].h = "function" => i = 1
        /\ frames[i].h \in StatementHandlers => frames[1].h = "function"
        /\ FrameOK(frames[i])

\* Every part of the generator's state keeps its type: in particular every
\* block a handler, a jump stack or a label table remembers exists.  (The
\* label tables are cleared by the next function only: from the start of a
\* translation unit until then they name blocks of a module that is gone.)
TypeOK ==
    /\ blocks \in Seq(Seq(Instr))
    /\ insertAt \in BlockId
    /\ frames \in Seq(Frame)
    /\ pc \in PCs
    /\ breakJump \in Seq(BlockId) /\ continueJump \in Seq(BlockId)
    /\ caseList \in Seq(SUBSET CaseEntry)
    /\ defaultList \in Seq(BlockId)
    /\ switchBits \in Seq(SwitchWidths)
    /\ gotoJump \in [Labels -> SUBSET Nat]
    /\ labelJump \in [Labels -> Nat]
    /\ gotoSites \subseteq Nat \X Labels
    /\ currentFunction # "none" =>
          /\ gotoJump \in [Labels -> SUBSET BlockId]
          /\ labelJump \in [Labels -> BlockId]
    /\ currentFunction \in {"none", "void", "value"}
    /\ corrupted \in BOOLEAN
    /\ symScopes \in Int
    /\ nodes \in Nat

\* The positions of the frames that are inside a loop body, a switch body, a
\* scope of the symbol table.
OpenLoops(fs) == {i \in DOMAIN fs : fs[i].h \in Loops /\ fs[i].at = "body"}
OpenSwitches(fs) == {i \in DOMAIN fs : fs[i].h = "switch" /\ fs[i].at = "body"}
OpenScopes(fs) == {i \in DOMAIN fs : fs[i].h \in {"function", "compound"}}

Rank(S, i) == Cardinality({j \in S : j <= i})

\* `stack` holds, in order, one element for each position in S: target[i].
Matches(stack, S, target) ==
    /\ Len(stack) = Cardinality(S)
    /\ \A i \in S : stack[Rank(S, i)] = target[i]

BreakTargets(fs) == [i \in DOMAIN fs |-> fs[i].end]
ContinueTargets(fs) ==
    [i \in DOMAIN fs |-> IF fs[i].h = "for" THEN fs[i].alt ELSE fs[i].from]
Widths(fs) == [i \in DOMAIN fs |-> fs[i].bits]

\* `break` and `continue` always find the targets of the statements that are
\* open around them, innermost last, and no other (breakJump and continueJump
\* are pushed and popped by hand in five places).
JumpStacksFollowNesting ==
    /\ Matches(breakJump, OpenLoops(frames) \cup OpenSwitches(frames),
               BreakTargets(frames))
    /\ Matches(continueJump, OpenLoops(frames), ContinueTargets(frames))

ConstantWidth(bits) == IF bits = 64 THEN 64 ELSE 32

\* Each open switch has its own case list, and its case constants have the
\* width of its own operand, however switches of different widths are nested
\* (LLVM rejects a switch whose constants differ in type from its operand).
SwitchStacksFollowNesting ==
    /\ Matches(switchBits, OpenSwitches(frames), Widths(frames))
    /\ Len(caseList) = Len(switchBits)
    /\ Len(defaultList) = Len(switchBits)
    /\ \A r \in DOMAIN caseList : \A cs \in caseList[r] :
          cs.width = ConstantWidth(switchBits[r])

\* symTable has the unit's scope and one for each function body and compound
\* statement that is open, whichever way control leaves them.
ScopesFollowNesting ==
    /\ pc = "idle" => symScopes = 0
    /\ pc \notin {"idle", "internal_error"} =>
          symScopes = 1 + Cardinality(OpenScopes(frames))

\* Until its label is declared, the block of a goto waits open in gotoJump;
\* from then on it ends in the branch to the label, wherever the goto and the
\* label are nested.
GotosReachTheirLabel ==
    InFunction => \A site \in gotoSites :
        LET b == site[1]  l == site[2] IN
        IF labelJump[l] = None
        THEN b \in gotoJump[l] /\ b # insertAt
        ELSE /\ b \notin gotoJump[l]
             /\ blocks[b] # <<>> /\ Last(blocks[b]) = Br(labelJump[l])

\* The label tables outlive functions and modules, and the unit's start does
\* not clear them; a goto or a label still never sees a block of another
\* function: each label that has a block has one that is not the entry, and
\* what waits for a label is the open block of one of this function's gotos.
LabelsAreTheFunctions ==
    InFunction => \A l \in Labels :
        /\ labelJump[l] \in {None} \cup 2..Len(blocks)
        /\ \A b \in gotoJump[l] :
            /\ <<b, l>> \in gotoSites /\ b \in DOMAIN blocks
            /\ \A k \in DOMAIN blocks[b] : blocks[b][k].op \in {"plain", "phi", "switch"}

\* The inductive invariant of the proofs.
IInv == TypeOK /\ WalkOK /\ JumpStacksFollowNesting
               /\ SwitchStacksFollowNesting /\ ScopesFollowNesting

\* Nothing is ever added behind a branch or a return: of all terminators only
\* a switch is followed by instructions, because codegen leaves the insert
\* point behind it.
OnlySwitchIsFollowed ==
    InFunction =>
        \A b \in DOMAIN blocks : \A k \in 1..(Len(blocks[b]) - 1) :
            blocks[b][k].op \in {"plain", "phi", "switch"}

\* Every phi lists exactly the blocks that branch to its block, also when an
\* operand itself ended in another block than it began in.
PhisMatchPredecessors ==
    \A b \in DOMAIN blocks : \A k \in DOMAIN blocks[b] :
        blocks[b][k].op = "phi" =>
            k = 1 /\ blocks[b][k].to = Predecessors(blocks, b)

\* When a function does not verify, each defective block is one a switch was
\* followed in, or an empty one whose back() was taken for a switch.
DefectsComeFromSwitches ==
    (pc = "internal_error" /\ InFunction) =>
        /\ \E b \in DOMAIN blocks : ~WellFormedBlock(blocks, b)
        /\ \A b \in DOMAIN blocks :
            \/ WellFormedBlock(blocks, b)
            \/ \E k \in 1..(Len(blocks[b]) - 1) : blocks[b][k].op = "switch"
            \/ blocks[b] = <<>> /\ TRUE \in StaleBack

\* A step of a function's walk never takes back an instruction: it appends,
\* or completes the targets of the SwitchInst that is being closed.
InstructionsStay ==
    [][InFunction /\ InFunction' =>
        \A b \in DOMAIN blocks : \A k \in DOMAIN blocks[b] :
            \/ blocks'[b][k] = blocks[b][k]
            \/ /\ Returned("switch", "body")
               /\ b = top.from /\ k = top.pos
               /\ blocks[b][k].op = "switch" /\ blocks'[b][k].op = "switch"
      ]_vars

\* C: the body of a do statement runs before its condition is tested, so the
\* body is entered from the code before the loop.
DoEntersBodyFirst ==
    Returned("do", "cond") => Predecessors(blocks, top.body) # {}
=============================================================================
