------------------------------- MODULE Driver -------------------------------
(***************************************************************************)
(* A command line from main_rs (src/lib.rs) down to the generator's entry  *)
(* points: the passes over each input, the message list that the generator *)
(* fills and the driver reads between the passes, the exceptions that      *)
(* secure_exec turns into messages, and the files that are written.        *)
(*                                                                         *)
(* The walk of a unit is what the driver sees of it: messages, scopes      *)
(* opened and closed, and one of its ways to end.                          *)
(***************************************************************************)
EXTENDS Naturals, Sequences

CONSTANTS
    Inputs,        \* paths of source files
    Stems,
    StemOf,        \* [Inputs -> Stems]: file name without directory, extension
    MSG_LIST_MIN_CAP,
    MaxInputs,     \* bound: inputs of the command
    MaxSteps       \* bound: messages and scopes of one unit

ASSUME DriverAssumption ==
    /\ StemOf \in [Inputs -> Stems]
    /\ MSG_LIST_MIN_CAP \in Nat \ {0}
    /\ MaxInputs \in Nat /\ MaxSteps \in Nat

VARIABLES
    args,       \* the command line; never changes
    pc,
    cursor,     \* the input in work
    status,     \* exit status: "success" is 0, "failure" is 1
    msgs, cap,  \* infoList, and the messages its buffer has room for
    issued,     \* messages added so far
    symTable,   \* depth of the generator's symbol table
    steps,      \* of the walk, still possible
    TheModule,  \* the input whose unit the module holds
    irc_val,    \* result of irc_into_obj
    files,      \* contents of the file system
    objs,       \* paths of object files, for the linker
    stderr      \* messages printed

generator == <<issued, symTable, steps, TheModule>>
outputs == <<files, objs>>
vars == <<args, pc, cursor, status, msgs, cap, generator, irc_val, outputs,
          stderr>>

----------------------------------------------------------------------------
Targets == {"ast", "ir", "obj", "elf"}
\* `-c` selects object files whatever `-t` says; the default is an executable.
Target(compile, t) == CASE compile -> "obj"
                        [] ~compile /\ t = "none" -> "elf"
                        [] OTHER -> t


Paths == {<<"output">>, <<"a.out">>}
         \cup ({"source"} \X Stems) \cup ({"tmp"} \X (1..MaxInputs))
\* Where an input's result goes: to `-o`'s path, whichever input it is, or to a
\* file in the working directory.
OutFileOf(i) == IF args.output THEN <<"output">>
                ELSE <<"source", StemOf[args.in_files[i]]>>
OutFile == OutFileOf(cursor)
\* [fault] the name is cleared before it is extended (a line commented out).
NextNameCleared == 1
\* next_name: one more zero than the last object file.
NextName == Len(objs) + 1
ObjOut == IF args.target = "obj" THEN OutFile ELSE <<"tmp", NextName>>

File(kind, of) == [kind |-> kind, of |-> of]
Absent == File("absent", <<>>)

\* A message: its number, its type, the input it is about.
Message(type) == [n |-> issued + 1, type |-> type, of |-> cursor]
\* [fault] only the last message decides.
LastIsError(list) == list # <<>> /\ list[Len(list)].type = "error"
\* log: whether one of the messages is an error.
HasError(list) == \E i \in DOMAIN list : list[i].type = "error"

\* add_msg: a full buffer doubles first.
AddMsg(m) ==
    /\ msgs' = Append(msgs, m)
    /\ cap' = IF Len(msgs) < cap THEN cap ELSE 2 * cap
    /\ issued' = issued + 1

Quiet == UNCHANGED <<msgs, cap, issued>>

\* [fault] the list is emptied only before its buffer would grow.
ClearWhenFull == /\ msgs' = IF Len(msgs) < cap THEN msgs ELSE <<>>
                 /\ UNCHANGED <<cap, issued>>

\* clear_msg: the buffer is kept.
Clear == msgs' = <<>> /\ UNCHANGED <<cap, issued>>

Goto(from, to) == pc = from /\ pc' = to /\ UNCHANGED <<args, cursor, status>>
Exit(from, code) ==
    /\ pc = from /\ pc' = "exited" /\ status' = code
    /\ UNCHANGED <<args, cursor>>
\* The end of the loop's body.
NextInput(from) ==
    /\ pc = from
    /\ cursor' = cursor + 1
    /\ pc' = CASE cursor < Len(args.in_files) -> "preprocess"
               [] OTHER -> IF args.target = "elf" THEN "link" ELSE "deinit"
    /\ UNCHANGED <<args, status>>

----------------------------------------------------------------------------
(* the driver *)

NoInput ==
    /\ args.in_files = <<>>
    /\ Exit("args", "success")
    /\ UNCHANGED <<msgs, cap, generator, irc_val, outputs, stderr>>

\* init_be allocates the list.
InitBe ==
    /\ args.in_files # <<>>
    /\ Goto("args", "preprocess")
    /\ msgs' = <<>> /\ cap' = MSG_LIST_MIN_CAP
    /\ UNCHANGED <<generator, irc_val, outputs, stderr>>

\* gcc -E, the parser: each succeeds or ends the command.
Preprocess ==
    /\ Goto("preprocess", "parse")
    /\ UNCHANGED <<msgs, cap, generator, irc_val, outputs, stderr>>
Parse ==
    /\ Goto("parse", IF args.target = "ast" THEN "write" ELSE "generate")
    /\ UNCHANGED <<msgs, cap, generator, irc_val, outputs, stderr>>
FrontEndFails ==
    /\ Exit("preprocess", "failure") \/ Exit("parse", "failure")
    /\ UNCHANGED <<msgs, cap, generator, irc_val, outputs, stderr>>

\* The syntax tree or the module's text is written; or the file cannot be
\* created, or not written to.
WriteText ==
    /\ NextInput("write")
    /\ files' = [files EXCEPT ![OutFile] =
                   File(args.target, IF args.target = "ast" THEN <<cursor>>
                                     ELSE <<TheModule>>)]
    /\ UNCHANGED <<msgs, cap, generator, irc_val, objs, stderr>>
CannotWrite ==
    /\ Exit("write", "failure")
    /\ \/ files' = [files EXCEPT ![OutFile] = File("partial", <<cursor>>)]
       \/ UNCHANGED files
    /\ UNCHANGED <<msgs, cap, generator, irc_val, objs, stderr>>

\* The messages of the generator are printed; an error ends the command.
LogGenerated ==
    /\ ~HasError(msgs)
    /\ Goto("generated", IF args.target = "ir" THEN "write" ELSE "emit")
    /\ stderr' = stderr \o msgs
    /\ Clear
    /\ UNCHANGED <<symTable, steps, TheModule, irc_val, outputs>>
LogEmitted ==
    /\ ~HasError(msgs) /\ irc_val = 0
    /\ NextInput("emitted")
    /\ stderr' = stderr \o msgs
    /\ Clear
    /\ UNCHANGED <<symTable, steps, TheModule, irc_val, outputs>>
LogErrors ==
    /\ \/ HasError(msgs) /\ Exit("generated", "failure")
       \/ (HasError(msgs) \/ irc_val # 0) /\ Exit("emitted", "failure")
    /\ stderr' = stderr \o msgs
    /\ UNCHANGED <<msgs, cap, generator, irc_val, outputs>>

\* gcc links the objects; anything it says, a warning included, is an error.
Executable == IF args.output THEN <<"output">> ELSE <<"a.out">>
Linked == File("elf", [i \in DOMAIN objs |-> files[objs[i]].of[1]])
Link ==
    /\ Goto("link", "deinit")
    /\ files' = [files EXCEPT ![Executable] = Linked]
    /\ UNCHANGED <<msgs, cap, generator, irc_val, objs, stderr>>
LinkComplains ==
    /\ Exit("link", "failure")
    /\ \/ files' = [files EXCEPT ![Executable] = Linked]
       \/ UNCHANGED files
    /\ UNCHANGED <<msgs, cap, generator, irc_val, objs, stderr>>

DeinitBe ==
    /\ Exit("deinit", "success")
    /\ UNCHANGED <<msgs, cap, generator, irc_val, outputs, stderr>>

----------------------------------------------------------------------------
(* the generator: gen_llvm_ir inside secure_exec *)

\* [fault] the module of an earlier unit is kept.
GenerateInto ==
    /\ Goto("generate", "walk")
    /\ TheModule' = IF TheModule = 0 THEN cursor ELSE TheModule
    /\ symTable' = symTable + 1
    /\ steps' = MaxSteps
    /\ UNCHANGED <<msgs, cap, issued, irc_val, outputs, stderr>>
\* A new module; the unit's scope is pushed.
Generate ==
    /\ Goto("generate", "walk")
    /\ TheModule' = cursor
    /\ symTable' = symTable + 1
    /\ steps' = MaxSteps
    /\ UNCHANGED <<msgs, cap, issued, irc_val, outputs, stderr>>

Step == pc = "walk" /\ steps > 0 /\ steps' = steps - 1

\* A handler reports and goes on.
Report(type) ==
    /\ Step
    /\ AddMsg(Message(type))
    /\ UNCHANGED <<args, pc, cursor, status, symTable, TheModule, irc_val,
                   outputs, stderr>>

OpenScope ==
    /\ Step
    /\ symTable' = symTable + 1
    /\ UNCHANGED <<args, pc, cursor, status, msgs, cap, issued, TheModule,
                   irc_val, outputs, stderr>>
CloseScope ==
    /\ pc = "walk"
    /\ symTable > 1
    /\ symTable' = symTable - 1
    /\ UNCHANGED <<args, pc, cursor, status, msgs, cap, issued, steps,
                   TheModule, irc_val, outputs, stderr>>

\* HALT: each one follows its error message.  The int it throws is not what the
\* unit's handler catches, so no scope is popped.
Halt ==
    /\ Goto("walk", "generated")
    /\ AddMsg(Message("error"))
    /\ UNCHANGED <<symTable, steps, TheModule, irc_val, outputs, stderr>>

\* A std::exception: the unit's scope is popped, those above it stay, and
\* secure_exec reports it.
Throw ==
    /\ Goto("walk", "generated")
    /\ symTable' = symTable - 1
    /\ AddMsg(Message("error"))
    /\ UNCHANGED <<steps, TheModule, irc_val, outputs, stderr>>

\* The end of a unit whose scopes are closed.  [fault] without the pop.
FinishUnpopped ==
    /\ Goto("walk", "generated")
    /\ symTable = 1
    /\ Quiet \/ AddMsg(Message("error"))
    /\ UNCHANGED <<symTable, steps, TheModule, irc_val, outputs, stderr>>
\* Its verification may throw after the pop.
Finish ==
    /\ Goto("walk", "generated")
    /\ symTable = 1 /\ symTable' = 0
    /\ Quiet \/ AddMsg(Message("error"))
    /\ UNCHANGED <<steps, TheModule, irc_val, outputs, stderr>>

----------------------------------------------------------------------------
(* irc_into_obj *)

\* The object file is opened, then written.  Its path is listed in any case.
Emit ==
    /\ Goto("emit", "emitted")
    /\ irc_val' = 0
    /\ files' = [files EXCEPT ![ObjOut] = File("obj", <<TheModule>>)]
    /\ objs' = Append(objs, ObjOut)
    /\ UNCHANGED <<msgs, cap, generator, stderr>>
\* No target, a file that cannot be opened, a target that cannot emit, an
\* exception: each with a message.
EmitFails ==
    /\ Goto("emit", "emitted")
    /\ irc_val' = 1
    /\ \/ files' = [files EXCEPT ![ObjOut] = File("partial", <<TheModule>>)]
       \/ UNCHANGED files
    /\ objs' = Append(objs, ObjOut)
    /\ AddMsg(Message("error"))
    /\ UNCHANGED <<symTable, steps, TheModule, stderr>>

Stay == pc = "exited" /\ UNCHANGED vars

----------------------------------------------------------------------------
Commands ==
    [in_files : UNION {[1..n -> Inputs] : n \in 0..MaxInputs},
     target : {Target(compile, t) :
                 compile \in BOOLEAN, t \in Targets \cup {"none"}},
     output : BOOLEAN]

Init ==
    /\ args \in Commands
    /\ pc = "args" /\ cursor = 1 /\ status = "running"
    /\ msgs = <<>> /\ cap = 0 /\ issued = 0
    /\ symTable = 0 /\ steps = 0 /\ TheModule = 0
    /\ irc_val = 0
    /\ files = [p \in Paths |-> Absent]
    /\ objs = <<>> /\ stderr = <<>>

Work == \/ NoInput \/ InitBe
        \/ Preprocess \/ Parse \/ FrontEndFails
        \/ WriteText \/ CannotWrite
        \/ LogGenerated \/ LogEmitted \/ LogErrors
        \/ Link \/ LinkComplains \/ DeinitBe
        \/ Generate
        \/ \E type \in {"error", "warning"} : Report(type)
        \/ OpenScope \/ CloseScope \/ Halt \/ Throw \/ Finish
        \/ Emit \/ EmitFails

Next == Work \/ Stay

\* One thread, which no pass suspends: external programs and the parser end,
\* and a unit's walk is as long as its tree.
Spec == Init /\ [][Next]_vars /\ WF_vars(Work)

----------------------------------------------------------------------------
(* Properties *)

Kinds == {"absent", "partial", "ast", "ir", "obj", "elf"}
Messages == [n : Nat, type : {"error", "warning"}, of : Nat]

\* The driver's buffer, paths and cursor stay in range.
TypeOK ==
    /\ args \in Commands
    /\ pc \in {"args", "preprocess", "parse", "write", "generate", "walk",
               "generated", "emit", "emitted", "link", "deinit", "exited"}
    /\ status \in {"running", "success", "failure"}
    /\ cursor \in 1..(Len(args.in_files) + 1)
    /\ msgs \in Seq(Messages) /\ stderr \in Seq(Messages)
    /\ cap \in Nat /\ Len(msgs) <= cap
    /\ issued \in Nat /\ symTable \in Nat /\ steps \in 0..MaxSteps
    /\ TheModule \in 0..Len(args.in_files)
    /\ irc_val \in {0, 1}
    /\ files \in [Paths -> [kind : Kinds, of : Seq(Nat)]]
    /\ objs \in Seq(Paths)

\* The text or object code of a unit that reported an error, in the middle of
\* its walk or at its end, is never in a file, whatever it reported after it.
WrittenUnitsAreClean ==
    \A p \in Paths : \A i \in DOMAIN stderr :
        files[p].kind \in {"ir", "obj"} /\ stderr[i].type = "error"
            => files[p].of # <<stderr[i].of>>

\* The user sees every message of the generator once and in order: those of a
\* pass neither again with the next one's nor, when the command ends, not at all.
MessagesAreShownOnce ==
    /\ \A i \in DOMAIN stderr : stderr[i].n = i
    /\ pc = "exited" => Len(stderr) = issued

\* A unit is generated with no scope of an earlier one on the symbol table,
\* though halts and exceptions leave theirs.
GeneratorStartsBalanced == pc = "generate" => symTable = 0

\* The result of input i is in its file, unless one of the first n that comes
\* later has the same path: then the last of those is.
Stands(i, n) ==
    \E j \in i..n :
        /\ OutFileOf(j) = OutFileOf(i)
        /\ files[OutFileOf(i)] = File(args.target, <<j>>)
        /\ \A k \in (j+1)..n : OutFileOf(k) # OutFileOf(i)
AllLinked == files[Executable] = File("elf", [i \in 1..Len(args.in_files) |-> i])

\* After success: no error was shown, an executable has the code of every input
\* in order, and every other result is in its file unless a later input's path
\* is the same.
SuccessIsComplete ==
    status = "success" /\ args.in_files # <<>> =>
        /\ ~HasError(stderr)
        /\ IF args.target = "elf" THEN AllLinked
           ELSE \A i \in DOMAIN args.in_files : Stands(i, Len(args.in_files))

\* The strengthening of the proofs: where the passes stand ...
Walking == {"walk", "generated"}
Emitting == {"emit", "emitted"}
Position ==
    /\ pc = "args" => cursor = 1 /\ cap = 0
    /\ pc \notin {"args", "exited"} => cap > 0
    /\ pc = "exited" <=> status # "running"
    /\ pc \in {"preprocess", "parse", "write", "generate"} \cup Walking
              \cup Emitting => cursor <= Len(args.in_files)
    /\ pc \in {"link", "deinit"} => cursor = Len(args.in_files) + 1
    /\ status = "success" => cursor = Len(args.in_files) + 1
    /\ pc = "link" => args.target = "elf"
    /\ pc = "write" => args.target \in {"ast", "ir"}
    /\ pc \in {"generate"} \cup Walking => args.target # "ast"
    /\ pc \in Emitting => args.target \in {"obj", "elf"}
    /\ \/ pc \in Walking \cup Emitting
       \/ pc = "write" /\ args.target = "ir"
       => TheModule = cursor

\* ... how deep the symbol table is ...
Balance ==
    /\ pc = "walk" => symTable > 0
    /\ pc = "generated" => HasError(msgs) \/ symTable = 0
    /\ pc \notin Walking \cup {"exited"} => symTable = 0

\* ... which messages are printed and which wait ...
Reported ==
    /\ \A i \in DOMAIN stderr : stderr[i].n = i
    /\ pc \notin Walking \cup {"emitted", "exited"} => msgs = <<>>
    /\ pc # "exited" =>
          /\ issued = Len(stderr) + Len(msgs)
          /\ \A i \in DOMAIN msgs :
                msgs[i].n = Len(stderr) + i /\ msgs[i].of = cursor
          /\ ~HasError(stderr)
    /\ pc = "exited" =>
          /\ Len(stderr) = issued
          /\ \A i \in DOMAIN stderr :
                stderr[i].type = "error" => stderr[i].of = cursor

\* ... and what the files of the inputs behind the cursor hold.
Emitted == pc = "emitted" /\ irc_val = 0
Results ==
    /\ pc = "emitted" => IF irc_val = 0 THEN msgs = <<>> ELSE HasError(msgs)
    /\ \A p \in Paths : files[p].kind \in {"ir", "obj"} =>
          \E k \in 1..cursor :
              files[p].of = <<k>> /\ (k = cursor => Emitted)
    /\ args.target = "elf" =>
          /\ \A i \in DOMAIN objs : objs[i] = <<"tmp", i>>
          /\ Len(objs) >= cursor - 1
          /\ pc \notin {"emitted", "exited"} => Len(objs) = cursor - 1
          /\ pc = "emitted" => Len(objs) = cursor
          /\ \A i \in 1..(cursor - 1) :
                files[<<"tmp", i>>] = File("obj", <<i>>)
          /\ Emitted => files[<<"tmp", cursor>>] = File("obj", <<cursor>>)
    /\ args.target # "elf" =>
          /\ \A i \in 1..(cursor - 1) :
                \E k \in i..Len(args.in_files) : files[OutFileOf(i)].of = <<k>>
          /\ Emitted => files[OutFile].of = <<cursor>>

IInv == TypeOK /\ Position /\ Balance /\ Reported /\ Results

\* What success rests on: while the command goes on, the results of the inputs it
\* has finished stand, and so does the executable once it is linked.
Finished == IF Emitted THEN cursor ELSE cursor - 1
ResultsStand ==
    args.target # "elf" /\ pc # "exited" /\ (pc = "emitted" => irc_val = 0) =>
        \A i \in 1..Finished : Stands(i, Finished)
LinkStands == args.target = "elf" /\ pc = "deinit" => AllLinked
Complete == ResultsStand /\ LinkStands /\ SuccessIsComplete

\* The driver implements Compilation.  An input is compiled when the loop leaves
\* it; the result is what its file holds, or held before a later input's.
ResultOf(i) ==
    LET at == IF args.target = "elf" THEN objs[i] ELSE OutFileOf(i)
        of == files[at].of[1]
    IN IF args.target # "elf" /\ of > i THEN i ELSE of
Promise == INSTANCE Compilation WITH
    inputs <- args.in_files,
    compiled <- [i \in 1..(cursor - 1) |-> args.in_files[ResultOf(i)]],
    outcome <- CASE status = "running" -> "running"
                 [] status = "success" -> "succeeded"
                 [] OTHER -> "failed"
ImplementsCompilation == Promise!Spec
=============================================================================
