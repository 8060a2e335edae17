---------------------------- MODULE DriverProofs ----------------------------
(***************************************************************************)
(* The driver implements Compilation, for command lines of any length.     *)
(***************************************************************************)
EXTENDS Driver, SequenceTheorems, TLAPS

LEMMA ArgsFacts ==
    ASSUME args \in Commands
    PROVE  /\ args.in_files \in Seq(Inputs)
           /\ Len(args.in_files) \in 0..MaxInputs
           /\ args.target \in Targets /\ args.output \in BOOLEAN
  <1> DEFINE f == args.in_files
  <1>1. /\ f \in UNION {[1..n -> Inputs] : n \in 0..MaxInputs}
        /\ args.output \in BOOLEAN
        /\ args.target \in {Target(compile, t) :
                 compile \in BOOLEAN, t \in Targets \cup {"none"}}
    BY DEF Commands
  <1>2. PICK n \in 0..MaxInputs : f \in [1..n -> Inputs]  BY <1>1
  <1>3. f \in Seq(Inputs) /\ Len(f) = n
    BY <1>2, DriverAssumption
  <1>4. args.target \in Targets
    BY <1>1 DEF Target, Targets
  <1> QED  BY <1>1, <1>2, <1>3, <1>4

LEMMA PathFacts ==
    ASSUME args \in Commands
    PROVE  /\ Executable \in Paths
           /\ \A k \in 1..MaxInputs :
                 <<"tmp", k>> \in Paths /\ <<"tmp", k>> # Executable
           /\ \A i \in 1..Len(args.in_files) :
                 /\ OutFileOf(i) \in Paths
                 /\ \A k \in 1..MaxInputs : OutFileOf(i) # <<"tmp", k>>
  <1>1. \A i \in 1..Len(args.in_files) : StemOf[args.in_files[i]] \in Stems
    BY ArgsFacts, DriverAssumption
  <1> QED  BY <1>1 DEF Paths, Executable, OutFileOf

LEMMA InitInv == Init => IInv
  <1> SUFFICES ASSUME Init PROVE IInv  OBVIOUS
  <1>1. Len(args.in_files) \in Nat /\ MaxSteps \in Nat
    BY ArgsFacts, DriverAssumption DEF Init
  <1>2. TypeOK
    BY <1>1 DEF Init, TypeOK, Messages, File, Absent, Kinds
  <1>3. Position  BY DEF Init, Position, Walking, Emitting
  <1>4. Balance /\ Reported  BY DEF Init, Balance, Reported, HasError, Walking
  <1>5. Results
    BY DEF Init, Results, Emitted, File, Absent
  <1> QED  BY <1>2, <1>3, <1>4, <1>5 DEF IInv

\* Files, objects and cursor stay, and no emission is involved.
LEMMA ResultsStay ==
    ASSUME Results, UNCHANGED <<args, cursor, files, objs>>,
           pc # "emitted", pc' # "emitted", pc # "exited"
    PROVE  Results'
  <1>1. ~Emitted /\ ~Emitted'  BY DEF Emitted
  <1>2. \A i : OutFileOf(i)' = OutFileOf(i)  BY DEF OutFileOf
  <1>3. \A p \in Paths : files[p].kind \in {"ir", "obj"} =>
          \E k \in 1..cursor : files[p].of = <<k>> /\ ~(k = cursor)
    BY <1>1 DEF Results
  <1>4. args.target = "elf" =>
          /\ \A i \in DOMAIN objs : objs[i] = <<"tmp", i>>
          /\ Len(objs) = cursor - 1
          /\ \A i \in 1..(cursor - 1) :
                files[<<"tmp", i>>] = File("obj", <<i>>)
    BY DEF Results
  <1>5. args.target # "elf" =>
          \A i \in 1..(cursor - 1) :
             \E k \in i..Len(args.in_files) : files[OutFileOf(i)].of = <<k>>
    BY DEF Results
  <1>6. args.target = "elf" => (Len(objs) >= cursor - 1)'
    BY <1>4 DEF Results
  <1> QED  BY <1>1, <1>2, <1>3, <1>4, <1>5, <1>6 DEF Results, File

\* Steps of the driver that touch neither messages nor files.
LEMMA PassKeepsInv ==
    ASSUME IInv, NoInput \/ Preprocess \/ Parse \/ FrontEndFails
                 \/ DeinitBe
    PROVE  IInv'
  <1>1. Len(args.in_files) \in Nat  BY ArgsFacts DEF IInv, TypeOK
  <1> USE DEF NoInput, Preprocess, Parse, FrontEndFails, DeinitBe,
              Goto, Exit, generator, outputs, IInv
  <1>2. TypeOK'  BY <1>1 DEF TypeOK
  <1>3. Position'
    <2>1. args.target \in Targets /\ (args.in_files = <<>> => Len(args.in_files) = 0)
      BY ArgsFacts DEF TypeOK
    <2>2. CASE NoInput
      BY <1>1, <2>1, <2>2 DEF Position, Walking, Emitting
    <2>3. CASE Preprocess \/ Parse
      BY <1>1, <2>1, <2>3 DEF Position, TypeOK, Walking, Emitting, Targets
    <2>4. CASE FrontEndFails \/ DeinitBe
      BY <1>1, <2>4 DEF Position, Walking, Emitting
    <2> QED  BY <2>2, <2>3, <2>4
  <1>4. Balance'  BY DEF Position, Balance, Walking, HasError
  <1>5. Reported'
    <2>1. /\ UNCHANGED <<cursor, msgs, issued, stderr>>
          /\ pc \notin Walking \cup {"emitted", "exited"}
      BY DEF Walking, Position
    <2> HIDE DEF NoInput, Preprocess, Parse, FrontEndFails, DeinitBe
    <2> QED  BY <2>1 DEF Reported, Walking, HasError, TypeOK
  <1>6. Results'
    <2>1. /\ UNCHANGED <<args, cursor, files, objs>>
          /\ pc # "emitted" /\ pc' # "emitted" /\ pc # "exited"
      OBVIOUS
    <2> QED  BY <2>1, ResultsStay
  <1> QED  BY <1>2, <1>3, <1>4, <1>5, <1>6

LEMMA InitBeKeepsInv == IInv /\ InitBe => IInv'
  <1> SUFFICES ASSUME IInv, InitBe PROVE IInv'  OBVIOUS
  <1>1. Len(args.in_files) \in Nat  BY ArgsFacts DEF IInv, TypeOK
  <1> USE DEF InitBe, Goto, generator, outputs, IInv
  <1>2. TypeOK'
    BY <1>1, DriverAssumption DEF TypeOK
  <1>3. Position'
    <2>1. args.in_files # <<>> => Len(args.in_files) > 0
      BY ArgsFacts DEF TypeOK
    <2> QED  BY <1>1, <2>1, DriverAssumption
         DEF Position, TypeOK, Walking, Emitting
  <1>4. Balance' /\ Reported'
    BY DEF Position, Balance, Reported, Walking, HasError, TypeOK
  <1>5. Results'  BY ResultsStay
  <1> QED  BY <1>2, <1>3, <1>4, <1>5

\* A message is added while the unit is walked or emitted.
LEMMA AddingAMessage ==
    ASSUME IInv, NEW type \in {"error", "warning"}, AddMsg(Message(type)),
           pc \in {"walk", "emit"},
           pc' \in {"walk", "generated", "emitted"},
           UNCHANGED <<cursor, stderr>>
    PROVE  /\ msgs' \in Seq(Messages) /\ cap' \in Nat /\ cap' > 0
           /\ Len(msgs') <= cap' /\ issued' \in Nat
           /\ Reported'
           /\ type = "error" => HasError(msgs)'
  <1> DEFINE m == Message(type)
  <1>1. /\ msgs \in Seq(Messages) /\ cap \in Nat /\ cap > 0
        /\ Len(msgs) <= cap /\ issued \in Nat /\ cursor \in Nat
    BY DEF IInv, TypeOK, Position
  <1>2. m \in Messages /\ m.n = issued + 1 /\ m.of = cursor /\ m.type = type
    BY <1>1 DEF Message, Messages
  <1>3. msgs' = Append(msgs, m) /\ issued' = issued + 1
    BY DEF AddMsg
  <1> HIDE DEF m
  <1>4. /\ msgs' \in Seq(Messages) /\ Len(msgs') = Len(msgs) + 1
        /\ \A i \in 1..Len(msgs) : msgs'[i] = msgs[i]
        /\ msgs'[Len(msgs) + 1] = m
    BY <1>1, <1>2, <1>3
  <1>5. cap' \in Nat /\ cap' > 0 /\ Len(msgs') <= cap'
    <2>1. Len(msgs) \in Nat  BY <1>1
    <2>2. cap' = IF Len(msgs) < cap THEN cap ELSE 2 * cap  BY DEF AddMsg
    <2> QED  BY <1>1, <1>4, <2>1, <2>2
  <1>6. Reported'
    <2>1. /\ issued = Len(stderr) + Len(msgs)
          /\ \A i \in DOMAIN msgs :
                msgs[i].n = Len(stderr) + i /\ msgs[i].of = cursor
          /\ ~HasError(stderr) /\ \A i \in DOMAIN stderr : stderr[i].n = i
      BY DEF IInv, Reported
    <2>2. stderr \in Seq(Messages)  BY DEF IInv, TypeOK
    <2>3. issued' = Len(stderr') + Len(msgs')
      BY <1>1, <1>3, <1>4, <2>1, <2>2
    <2>4. \A i \in DOMAIN msgs' :
                msgs'[i].n = Len(stderr') + i /\ msgs'[i].of = cursor'
      <3> TAKE i \in DOMAIN msgs'
      <3>1. i \in 1..Len(msgs) \/ i = Len(msgs) + 1
        BY <1>1, <1>4
      <3>2. CASE i \in 1..Len(msgs)
        BY <1>1, <1>4, <2>1, <3>2
      <3>3. CASE i = Len(msgs) + 1
        BY <1>1, <1>2, <1>4, <2>1, <2>2, <3>3
      <3> QED  BY <3>1, <3>2, <3>3
    <2>5. ~HasError(stderr)'  BY <2>1 DEF HasError
    <2> QED  BY <2>1, <2>3, <2>4, <2>5 DEF Reported, Walking
  <1>7. type = "error" => HasError(msgs)'
    BY <1>1, <1>2, <1>4 DEF HasError
  <1> QED  BY <1>1, <1>3, <1>4, <1>5, <1>6, <1>7

LEMMA GenerateKeepsInv == IInv /\ Generate => IInv'
  <1> SUFFICES ASSUME IInv, Generate PROVE IInv'  OBVIOUS
  <1>1. Len(args.in_files) \in Nat  BY ArgsFacts DEF IInv, TypeOK
  <1> USE DEF Generate, Goto, outputs, IInv
  <1>2. TypeOK'
    <2>1. cursor \in 1..Len(args.in_files)
      BY <1>1 DEF TypeOK, Position
    <2> QED  BY <1>1, <2>1, DriverAssumption DEF TypeOK
  <1>3. Position'  BY DEF Position, TypeOK, Walking, Emitting
  <1>4. Balance' /\ Reported'
    BY DEF Position, Balance, Reported, Walking, HasError, TypeOK
  <1>5. Results'  BY ResultsStay
  <1> QED  BY <1>2, <1>3, <1>4, <1>5

LEMMA ReportKeepsInv ==
    ASSUME IInv, NEW type \in {"error", "warning"}, Report(type)
    PROVE  IInv'
  <1>1. Len(args.in_files) \in Nat  BY ArgsFacts DEF IInv, TypeOK
  <1> USE DEF Report, Step, outputs, IInv
  <1>2. /\ msgs' \in Seq(Messages) /\ cap' \in Nat /\ cap' > 0
        /\ Len(msgs') <= cap' /\ issued' \in Nat /\ Reported'
    BY AddingAMessage
  <1>3. TypeOK'  BY <1>1, <1>2, DriverAssumption DEF TypeOK
  <1>4. Position'  BY <1>2 DEF Position, Walking, Emitting
  <1>5. Balance'  BY DEF Balance, Walking, HasError
  <1>6. Results'  BY ResultsStay
  <1> QED  BY <1>2, <1>3, <1>4, <1>5, <1>6

LEMMA ScopeKeepsInv == IInv /\ (OpenScope \/ CloseScope) => IInv'
  <1> SUFFICES ASSUME IInv, OpenScope \/ CloseScope PROVE IInv'  OBVIOUS
  <1>1. Len(args.in_files) \in Nat  BY ArgsFacts DEF IInv, TypeOK
  <1> USE DEF OpenScope, CloseScope, Step, outputs, IInv
  <1>2. TypeOK'  BY SMTT(60), <1>1, DriverAssumption DEF TypeOK
  <1>3. Position'  BY DEF Position, Walking, Emitting
  <1>4. symTable' > 0 /\ pc' = "walk"  BY DEF TypeOK
  <1>5. Balance'  BY <1>4 DEF Balance, Walking
  <1>6. Reported'  BY DEF Reported, Walking, HasError
  <1>7. Results'  BY ResultsStay
  <1> QED  BY <1>2, <1>3, <1>5, <1>6, <1>7

\* The ways a walk ends: with an error added, or with the table popped.
LEMMA EndKeepsInv == IInv /\ (Halt \/ Throw \/ Finish) => IInv'
  <1> SUFFICES ASSUME IInv, Halt \/ Throw \/ Finish PROVE IInv'  OBVIOUS
  <1>1. Len(args.in_files) \in Nat  BY ArgsFacts DEF IInv, TypeOK
  <1> USE DEF Halt, Throw, Finish, Goto, outputs, IInv
  <1>2. /\ msgs' \in Seq(Messages) /\ cap' \in Nat /\ cap' > 0
        /\ Len(msgs') <= cap' /\ issued' \in Nat /\ Reported'
        /\ HasError(msgs)' \/ symTable' = 0
    <2>1. CASE AddMsg(Message("error"))  BY <2>1, AddingAMessage
    <2>2. CASE Quiet /\ Finish
      <3>1. UNCHANGED <<msgs, cap, issued, stderr, cursor>>  BY <2>2 DEF Quiet
      <3>2. Reported'
        BY <3>1 DEF Reported, Walking, HasError
      <3> QED  BY <2>2, <3>1, <3>2 DEF TypeOK, Position
    <2> QED  BY <2>1, <2>2
  <1>3. symTable' \in Nat
    BY DEF TypeOK, Balance
  <1>4. TypeOK'  BY <1>1, <1>2, <1>3 DEF TypeOK
  <1>5. Position'  BY <1>2 DEF Position, Walking, Emitting
  <1>6. Balance'  BY <1>2 DEF Balance, Walking
  <1>7. Results'  BY ResultsStay
  <1> QED  BY <1>2, <1>4, <1>5, <1>6, <1>7

\* The waiting messages are printed.
LEMMA Printing ==
    ASSUME IInv, pc \in {"generated", "emitted"}, stderr' = stderr \o msgs
    PROVE  /\ stderr' \in Seq(Messages) /\ Len(stderr') = issued
           /\ \A i \in DOMAIN stderr' :
                 /\ stderr'[i].n = i
                 /\ stderr'[i].type = "error" =>
                       HasError(msgs) /\ stderr'[i].of = cursor
  <1>1. /\ stderr \in Seq(Messages) /\ msgs \in Seq(Messages)
        /\ issued = Len(stderr) + Len(msgs)
        /\ \A i \in DOMAIN msgs :
              msgs[i].n = Len(stderr) + i /\ msgs[i].of = cursor
        /\ ~HasError(stderr) /\ \A i \in DOMAIN stderr : stderr[i].n = i
    BY DEF IInv, TypeOK, Reported
  <1>2. /\ stderr' \in Seq(Messages) /\ Len(stderr') = Len(stderr) + Len(msgs)
        /\ \A i \in 1..Len(stderr) : stderr'[i] = stderr[i]
        /\ \A i \in (Len(stderr) + 1)..(Len(stderr) + Len(msgs)) :
              stderr'[i] = msgs[i - Len(stderr)]
    BY <1>1
  <1>3. ASSUME NEW i \in DOMAIN stderr'
        PROVE  /\ stderr'[i].n = i
               /\ stderr'[i].type = "error" =>
                     HasError(msgs) /\ stderr'[i].of = cursor
    <2>1. Len(stderr) \in Nat /\ Len(msgs) \in Nat /\ i \in 1..Len(stderr')
      BY <1>1, <1>2
    <2>2. CASE i <= Len(stderr)
      <3>1. i \in 1..Len(stderr) /\ stderr'[i] = stderr[i]  BY <1>2, <2>1, <2>2
      <3> QED  BY <1>1, <3>1 DEF HasError
    <2>3. CASE i > Len(stderr)
      <3> DEFINE j == i - Len(stderr)
      <3>1. j \in 1..Len(msgs) /\ i = Len(stderr) + j /\ stderr'[i] = msgs[j]
        BY <1>2, <2>1, <2>3
      <3> HIDE DEF j
      <3> QED  BY <1>1, <3>1 DEF HasError
    <2> QED  BY <2>1, <2>2, <2>3
  <1> QED  BY <1>1, <1>2, <1>3

LEMMA LogGeneratedKeepsInv == IInv /\ LogGenerated => IInv'
  <1> SUFFICES ASSUME IInv, LogGenerated PROVE IInv'  OBVIOUS
  <1>1. Len(args.in_files) \in Nat /\ args.target \in Targets
    BY ArgsFacts DEF IInv, TypeOK
  <1> USE DEF LogGenerated, Goto, Clear, outputs, IInv
  <1>2. /\ stderr' \in Seq(Messages) /\ Len(stderr') = issued
        /\ \A i \in DOMAIN stderr' : stderr'[i].n = i
        /\ ~HasError(stderr)'
    BY Printing DEF HasError
  <1>3. TypeOK'  BY <1>1, <1>2 DEF TypeOK
  <1>4. Position'  BY <1>1 DEF Position, Walking, Emitting, Targets
  <1>5. Balance'  BY DEF Balance, Walking
  <1>6. Reported'  BY <1>2 DEF Reported, Walking, TypeOK
  <1>7. Results'  BY ResultsStay
  <1> QED  BY <1>3, <1>4, <1>5, <1>6, <1>7

LEMMA LogErrorsKeepsInv == IInv /\ LogErrors => IInv'
  <1> SUFFICES ASSUME IInv, LogErrors PROVE IInv'  OBVIOUS
  <1>1. Len(args.in_files) \in Nat  BY ArgsFacts DEF IInv, TypeOK
  <1> USE DEF LogErrors, Exit, generator, outputs, IInv
  <1>2. /\ pc \in {"generated", "emitted"} /\ pc' = "exited"
        /\ stderr' = stderr \o msgs
        /\ pc = "emitted" => HasError(msgs) \/ irc_val # 0
        /\ UNCHANGED <<args, cursor, files, objs, irc_val, issued, msgs>>
    OBVIOUS
  <1>3. /\ stderr' \in Seq(Messages) /\ Len(stderr') = issued
        /\ \A i \in DOMAIN stderr' : stderr'[i].n = i /\
              (stderr'[i].type = "error" => stderr'[i].of = cursor)
    BY <1>2, Printing
  <1>4. TypeOK'  BY <1>1, <1>3 DEF TypeOK
  <1>5. Position'  BY <1>1 DEF Position, Walking, Emitting
  <1>6. Balance'  BY DEF Balance, Walking
  <1>7. Reported'  BY <1>2, <1>3 DEF Reported, Walking
  <1>8. Results'
    <2>1. CASE pc = "generated"
      <3>1. UNCHANGED <<args, cursor, files, objs>>  BY <1>2
      <3> QED  BY <1>2, <2>1, <3>1, ResultsStay
    <2>2. CASE pc = "emitted"
      <3>1. ~Emitted /\ ~Emitted'
        <4>1. CASE irc_val # 0  BY <1>2, <4>1 DEF Emitted
        <4>2. CASE irc_val = 0
          <5>1. msgs = <<>> /\ HasError(msgs)  BY <1>2, <2>2, <4>2 DEF Results
          <5> QED  BY <5>1 DEF HasError
        <4> QED  BY <4>1, <4>2
      <3>2. \A i : OutFileOf(i)' = OutFileOf(i)  BY <1>2 DEF OutFileOf
      <3>3. args.target = "elf" => Len(objs) = cursor
        BY <2>2 DEF Results
      <3>4. args.target = "elf" => (Len(objs) >= cursor - 1)'
        BY <1>1, <1>2, <3>3 DEF TypeOK
      <3>5. \A p \in Paths : files[p].kind \in {"ir", "obj"} =>
          \E k \in 1..cursor : files[p].of = <<k>> /\ ~(k = cursor)
        BY <3>1 DEF Results
      <3>6. args.target = "elf" =>
              /\ \A i \in DOMAIN objs : objs[i] = <<"tmp", i>>
              /\ \A i \in 1..(cursor - 1) :
                    files[<<"tmp", i>>] = File("obj", <<i>>)
        BY DEF Results
      <3>7. args.target # "elf" =>
              \A i \in 1..(cursor - 1) :
                 \E k \in i..Len(args.in_files) : files[OutFileOf(i)].of = <<k>>
        BY DEF Results
      <3> QED
        BY <1>2, <3>1, <3>2, <3>4, <3>5, <3>6, <3>7 DEF Results, File
    <2> QED  BY <1>2, <2>1, <2>2
  <1> QED  BY <1>4, <1>5, <1>6, <1>7, <1>8

LEMMA LogEmittedKeepsInv == IInv /\ LogEmitted => IInv'
  <1> SUFFICES ASSUME IInv, LogEmitted PROVE IInv'  OBVIOUS
  <1>1. Len(args.in_files) \in 0..MaxInputs  BY ArgsFacts DEF IInv, TypeOK
  <1> USE DEF LogEmitted, NextInput, Clear, outputs, IInv
  <1>2. /\ stderr' \in Seq(Messages) /\ Len(stderr') = issued
        /\ \A i \in DOMAIN stderr' : stderr'[i].n = i
        /\ ~HasError(stderr)'
    BY Printing DEF HasError
  <1>3. /\ pc = "emitted" /\ pc' \in {"preprocess", "link", "deinit"}
        /\ cursor' = cursor + 1 /\ cursor \in 1..Len(args.in_files)
        /\ Emitted /\ ~Emitted'
        /\ UNCHANGED <<args, files, objs>> /\ msgs' = <<>>
    BY <1>1 DEF Emitted, Position, TypeOK, Emitting
  <1>4. TypeOK'  BY <1>1, <1>2, <1>3 DEF TypeOK
  <1>5. Position'
    <2>1. pc' = "preprocess" => cursor < Len(args.in_files)
      OBVIOUS
    <2>2. pc' # "preprocess" => cursor = Len(args.in_files)
      BY <1>1, <1>3
    <2> QED  BY <1>1, <1>3, <2>1, <2>2 DEF Position, Walking, Emitting
  <1>6. Balance'  BY <1>3 DEF Balance, Walking, Emitting
  <1>7. Reported'  BY <1>2, <1>3 DEF Reported, Walking, TypeOK
  <1>8. Results'
    <2>1. \A i : OutFileOf(i)' = OutFileOf(i)  BY <1>3 DEF OutFileOf
    <2>2. ASSUME NEW p \in Paths, files[p].kind \in {"ir", "obj"}
          PROVE  \E k \in 1..cursor' : files[p].of = <<k>> /\ ~(k = cursor')
      <3>1. PICK k \in 1..cursor : files[p].of = <<k>>  BY <2>2 DEF Results
      <3>2. k \in 1..cursor' /\ k # cursor'  BY <1>3, <3>1
      <3> QED  BY <3>1, <3>2
    <2>3. ASSUME args.target = "elf"
          PROVE  /\ \A i \in DOMAIN objs : objs[i] = <<"tmp", i>>
                 /\ Len(objs) = cursor' - 1 /\ Len(objs) >= cursor' - 1
                 /\ \A i \in 1..(cursor' - 1) :
                       files[<<"tmp", i>>] = File("obj", <<i>>)
      <3>1. Len(objs) = cursor' - 1  BY <1>3, <2>3 DEF Results
      <3>2. 1..(cursor' - 1) = (1..(cursor - 1)) \cup {cursor}  BY <1>3
      <3>3. Len(objs) >= cursor' - 1  BY <1>3, <3>1
      <3>4. \A i \in DOMAIN objs : objs[i] = <<"tmp", i>>
        BY <2>3 DEF Results
      <3>5. ASSUME NEW i \in 1..(cursor' - 1)
            PROVE  files[<<"tmp", i>>] = File("obj", <<i>>)
        BY <1>3, <2>3, <3>2 DEF Results
      <3> QED  BY <3>1, <3>3, <3>4, <3>5
    <2>4. ASSUME args.target # "elf", NEW i \in 1..(cursor' - 1)
          PROVE  \E k \in i..Len(args.in_files) : files[OutFileOf(i)].of = <<k>>
      <3>1. i \in 1..(cursor - 1) \/ i = cursor  BY <1>3
      <3>2. CASE i \in 1..(cursor - 1)  BY <2>4, <3>2 DEF Results
      <3>3. CASE i = cursor
        <4>1. files[OutFileOf(i)].of = <<cursor>>
          BY <1>3, <2>4, <3>3 DEF Results, OutFile
        <4> QED  BY <1>3, <3>3, <4>1
      <3> QED  BY <3>1, <3>2, <3>3
    <2> QED
      BY <1>3, <2>1, <2>2, <2>3, <2>4 DEF Results, File
  <1> QED  BY <1>4, <1>5, <1>6, <1>7, <1>8

LEMMA WriteTextKeepsInv == IInv /\ WriteText => IInv'
  <1> SUFFICES ASSUME IInv, WriteText PROVE IInv'  OBVIOUS
  <1> USE DEF WriteText, NextInput, generator, IInv
  <1> DEFINE text == File(args.target, IF args.target = "ast" THEN <<cursor>>
                                       ELSE <<TheModule>>)
  <1>1. /\ Len(args.in_files) \in 0..MaxInputs /\ args.target \in Targets
        /\ OutFile \in Paths
    BY ArgsFacts, PathFacts DEF TypeOK, OutFile, Position
  <1>2. /\ pc = "write" /\ pc' \in {"preprocess", "deinit"}
        /\ args.target \in {"ast", "ir"}
        /\ cursor' = cursor + 1 /\ cursor \in 1..Len(args.in_files)
        /\ ~Emitted /\ ~Emitted' /\ msgs = <<>>
        /\ text = File(args.target, <<cursor>>)
        /\ UNCHANGED <<args, objs, msgs, issued, stderr>>
    BY <1>1 DEF Emitted, Position, TypeOK, Reported, Walking
  <1>3. files' = [files EXCEPT ![OutFile] = text]  OBVIOUS
  <1> HIDE DEF text
  <1>4. TypeOK'
    <2>1. text \in [kind : Kinds, of : Seq(Nat)]
      BY <1>2 DEF File, Kinds
    <2>2. files' \in [Paths -> [kind : Kinds, of : Seq(Nat)]]
      BY <1>3, <2>1 DEF TypeOK
    <2> QED  BY <1>1, <1>2, <2>2 DEF TypeOK
  <1>5. Position'
    <2>1. pc' = "preprocess" => cursor < Len(args.in_files)
      BY <1>2
    <2>2. pc' # "preprocess" => cursor = Len(args.in_files)
      BY <1>1, <1>2
    <2> QED  BY <1>1, <1>2, <2>1, <2>2 DEF Position, Walking, Emitting
  <1>6. Balance'  BY <1>2 DEF Balance, Walking
  <1>7. Reported'  BY <1>2 DEF Reported, Walking, HasError, TypeOK
  <1>8. Results'
    <2>1. \A i : OutFileOf(i)' = OutFileOf(i)  BY <1>2 DEF OutFileOf
    <2>2. ASSUME NEW p \in Paths, files'[p].kind \in {"ir", "obj"}
          PROVE  \E k \in 1..cursor' : files'[p].of = <<k>> /\ ~(k = cursor')
      <3>1. CASE p = OutFile
        <4>1. files'[p].of = <<cursor>>
          BY <1>1, <1>2, <1>3, <3>1 DEF TypeOK, File
        <4> QED  BY <1>2, <4>1
      <3>2. CASE p # OutFile
        <4>1. files'[p] = files[p]  BY <1>3, <3>2 DEF TypeOK
        <4>2. PICK k \in 1..cursor : files[p].of = <<k>>
          BY <2>2, <4>1 DEF Results
        <4>3. k \in 1..cursor' /\ k # cursor'  BY <1>2, <4>2
        <4> QED  BY <4>1, <4>2, <4>3
      <3> QED  BY <3>1, <3>2
    <2>3. ASSUME NEW i \in 1..(cursor' - 1)
          PROVE  \E k \in i..Len(args.in_files) :
                    files'[OutFileOf(i)].of = <<k>>
      <3>1. i \in 1..Len(args.in_files) /\ OutFileOf(i) \in Paths
        BY <1>1, <1>2, PathFacts DEF TypeOK
      <3>2. CASE OutFileOf(i) = OutFile
        <4>1. files'[OutFileOf(i)].of = <<cursor>>
          BY <1>1, <1>2, <1>3, <3>2 DEF TypeOK, File
        <4> QED  BY <1>2, <3>1, <4>1
      <3>3. CASE OutFileOf(i) # OutFile
        <4>1. i \in 1..(cursor - 1)  BY <1>2, <3>3 DEF OutFile
        <4>2. files'[OutFileOf(i)] = files[OutFileOf(i)]
          BY <1>3, <3>1, <3>3 DEF TypeOK
        <4> QED  BY <1>2, <4>1, <4>2 DEF Results
      <3> QED  BY <3>2, <3>3
    <2> QED  BY <1>2, <2>1, <2>2, <2>3 DEF Results
  <1> QED  BY <1>4, <1>5, <1>6, <1>7, <1>8

LEMMA CannotWriteKeepsInv == IInv /\ CannotWrite => IInv'
  <1> SUFFICES ASSUME IInv, CannotWrite PROVE IInv'  OBVIOUS
  <1> USE DEF CannotWrite, Exit, generator, IInv
  <1> DEFINE rest == File("partial", <<cursor>>)
  <1>1. /\ Len(args.in_files) \in 0..MaxInputs
        /\ cursor \in 1..Len(args.in_files) /\ OutFile \in Paths
    BY ArgsFacts, PathFacts DEF TypeOK, OutFile, Position
  <1>2. /\ pc = "write" /\ pc' = "exited" /\ args.target \in {"ast", "ir"}
        /\ ~Emitted /\ ~Emitted' /\ msgs = <<>>
        /\ UNCHANGED <<args, cursor, objs, msgs, issued, stderr>>
        /\ files' = files \/ files' = [files EXCEPT ![OutFile] = rest]
    BY DEF Emitted, Position, Reported, Walking
  <1>3. rest \in [kind : Kinds, of : Seq(Nat)] /\ rest.kind = "partial"
        /\ rest.of = <<cursor>>
    BY <1>1 DEF File, Kinds
  <1> HIDE DEF rest
  <1>4. TypeOK'
    <2>1. files' \in [Paths -> [kind : Kinds, of : Seq(Nat)]]
      BY <1>2, <1>3 DEF TypeOK
    <2> QED  BY <1>1, <1>2, <2>1 DEF TypeOK
  <1>5. Position'  BY <1>1, <1>2 DEF Position, Walking, Emitting
  <1>6. Balance'  BY <1>2 DEF Balance, Walking
  <1>7. Reported'  BY <1>2 DEF Reported, Walking, HasError, TypeOK
  <1>8. Results'
    <2>1. \A i : OutFileOf(i)' = OutFileOf(i)  BY <1>2 DEF OutFileOf
    <2>2. ASSUME NEW p \in Paths
          PROVE  files'[p] = files[p] \/ files'[p] = rest
      BY <1>1, <1>2 DEF TypeOK
    <2>3. ASSUME NEW p \in Paths, files'[p].kind \in {"ir", "obj"}
          PROVE  \E k \in 1..cursor : files'[p].of = <<k>> /\ ~(k = cursor)
      <3>1. files'[p] = files[p]  BY <1>3, <2>2, <2>3
      <3> QED  BY <1>2, <2>3, <3>1 DEF Results
    <2>4. ASSUME NEW i \in 1..(cursor - 1)
          PROVE  \E k \in i..Len(args.in_files) :
                    files'[OutFileOf(i)].of = <<k>>
      <3>1. OutFileOf(i) \in Paths /\ cursor \in i..Len(args.in_files)
        BY <1>1, PathFacts DEF TypeOK
      <3>2. CASE files'[OutFileOf(i)] = files[OutFileOf(i)]
        BY <1>2, <3>2 DEF Results
      <3>3. CASE files'[OutFileOf(i)] = rest  BY <1>3, <3>1, <3>3
      <3> QED  BY <2>2, <3>1, <3>2, <3>3
    <2> QED  BY <1>2, <2>1, <2>3, <2>4 DEF Results
  <1> QED  BY <1>4, <1>5, <1>6, <1>7, <1>8

LEMMA LinkKeepsInv == IInv /\ (Link \/ LinkComplains) => IInv'
  <1> SUFFICES ASSUME IInv, Link \/ LinkComplains PROVE IInv'  OBVIOUS
  <1> USE DEF Link, LinkComplains, Goto, Exit, generator, IInv
  <1>1. /\ Len(args.in_files) \in 0..MaxInputs /\ Executable \in Paths
        /\ \A k \in 1..MaxInputs : <<"tmp", k>> # Executable
    BY ArgsFacts, PathFacts DEF TypeOK
  <1>2. /\ pc = "link" /\ pc' \in {"deinit", "exited"}
        /\ cursor = Len(args.in_files) + 1 /\ args.target = "elf"
        /\ ~Emitted /\ ~Emitted' /\ msgs = <<>>
        /\ UNCHANGED <<args, cursor, objs, msgs, issued, stderr>>
        /\ files' = files \/ files' = [files EXCEPT ![Executable] = Linked]
    BY DEF Emitted, Position, Reported, Walking
  <1>3. /\ Len(objs) = cursor - 1 /\ Linked.kind = "elf"
        /\ \A i \in DOMAIN objs : files[objs[i]].of[1] = i
    <2>1. /\ Len(objs) = cursor - 1
          /\ \A i \in DOMAIN objs : objs[i] = <<"tmp", i>>
          /\ \A i \in 1..(cursor - 1) :
                files[<<"tmp", i>>] = File("obj", <<i>>)
      BY <1>2 DEF Results
    <2>2. DOMAIN objs = 1..(cursor - 1)  BY <2>1 DEF TypeOK
    <2>3. Linked.kind = "elf"  BY DEF Linked, File
    <2>4. \A i \in DOMAIN objs : files[objs[i]].of[1] = i
      <3> TAKE i \in DOMAIN objs
      <3>1. objs[i] = <<"tmp", i>> /\ files[<<"tmp", i>>] = File("obj", <<i>>)
        BY <2>1, <2>2
      <3>2. files[objs[i]].of = <<i>>  BY <3>1 DEF File
      <3> QED  BY <3>2
    <2> QED  BY <2>1, <2>3, <2>4
  <1>4. Linked \in [kind : Kinds, of : Seq(Nat)]
    <2>1. Linked.of = [i \in DOMAIN objs |-> i]
      BY <1>3 DEF Linked, File
    <2>2. objs \in Seq(Paths)  BY DEF TypeOK
    <2>3. [i \in DOMAIN objs |-> i] \in Seq(Nat)
      BY <2>2
    <2>4. Linked = [kind |-> "elf", of |-> [i \in DOMAIN objs |-> i]]
      BY <2>1 DEF Linked, File
    <2> QED  BY <2>3, <2>4 DEF Kinds
  <1>5. TypeOK'
    <2>1. files' \in [Paths -> [kind : Kinds, of : Seq(Nat)]]
      BY <1>2, <1>4 DEF TypeOK
    <2> QED  BY <1>1, <1>2, <2>1, DriverAssumption DEF TypeOK
  <1>6. Position'  BY <1>1, <1>2 DEF Position, Walking, Emitting
  <1>7. Balance'  BY <1>2 DEF Balance, Walking
  <1>8. Reported'  BY <1>2 DEF Reported, Walking, HasError, TypeOK
  <1>9. Results'
    <2>1. ASSUME NEW p \in Paths, files'[p].kind \in {"ir", "obj"}
          PROVE  \E k \in 1..cursor : files[p].of = <<k>> /\ ~(k = cursor)
                                      /\ files'[p] = files[p]
      <3>1. files'[p] = files[p]
        BY <1>1, <1>2, <1>3, <2>1 DEF TypeOK
      <3> QED  BY <1>2, <2>1, <3>1 DEF Results
    <2>2. \A i \in 1..(cursor - 1) : files'[<<"tmp", i>>] = files[<<"tmp", i>>]
      <3> TAKE i \in 1..(cursor - 1)
      <3>1. i \in 1..MaxInputs  BY <1>1, <1>2, DriverAssumption
      <3>2. <<"tmp", i>> \in Paths /\ <<"tmp", i>> # Executable
        BY <3>1, PathFacts DEF TypeOK
      <3> QED  BY <1>2, <3>2 DEF TypeOK
    <2>3. Len(objs) >= cursor - 1  BY <1>1, <1>2, <1>3
    <2> QED  BY <1>2, <1>3, <2>1, <2>2, <2>3 DEF Results, File
  <1> QED  BY <1>5, <1>6, <1>7, <1>8, <1>9

\* What an emission, successful or not, leaves of the object file.
LEMMA EmissionKeepsInv ==
    ASSUME IInv, Emit \/ EmitFails
    PROVE  IInv'
  <1> USE DEF Emit, EmitFails, Goto, IInv
  <1>1. /\ Len(args.in_files) \in 0..MaxInputs
        /\ cursor \in 1..Len(args.in_files)
    BY ArgsFacts DEF TypeOK, Position, Emitting
  <1>2. /\ pc = "emit" /\ pc' = "emitted" /\ args.target \in {"obj", "elf"}
        /\ ~Emitted /\ msgs = <<>> /\ TheModule = cursor /\ symTable = 0
        /\ UNCHANGED <<args, cursor, status, TheModule, symTable, steps, stderr>>
        /\ objs' = Append(objs, ObjOut)
        /\ irc_val' \in {0, 1}
    BY DEF Emitted, Position, Reported, Balance, Walking, Emitting, generator
  <1>3. /\ irc_val' = 0 =>
              /\ UNCHANGED <<msgs, cap, issued>>
              /\ files' = [files EXCEPT ![ObjOut] = File("obj", <<cursor>>)]
        /\ irc_val' # 0 =>
              /\ AddMsg(Message("error"))
              /\ \/ files' = files
                 \/ files' = [files EXCEPT ![ObjOut] = File("partial", <<cursor>>)]
    BY <1>2 DEF generator
  <1>4. /\ ObjOut \in Paths
        /\ args.target = "obj" => ObjOut = OutFile
        /\ args.target = "elf" =>
              ObjOut = <<"tmp", cursor>> /\ Len(objs) = cursor - 1
    <2>1. args.target = "elf" => Len(objs) = cursor - 1
      BY <1>2 DEF Results
    <2>2. cursor \in 1..MaxInputs  BY <1>1, DriverAssumption
    <2>3. <<"tmp", cursor>> \in Paths /\ OutFile \in Paths
      BY <1>1, <2>2, PathFacts DEF OutFile, TypeOK
    <2>4. args.target = "elf" => ObjOut = <<"tmp", cursor>>
      BY <2>1, <2>2 DEF ObjOut, NextName
    <2>5. args.target = "obj" => ObjOut = OutFile  BY DEF ObjOut
    <2> QED  BY <1>2, <2>1, <2>3, <2>4, <2>5
  <1>5. /\ msgs' \in Seq(Messages) /\ cap' \in Nat /\ cap' > 0
        /\ Len(msgs') <= cap' /\ issued' \in Nat /\ Reported'
        /\ IF irc_val' = 0 THEN msgs' = <<>> ELSE HasError(msgs)'
    <2>1. CASE irc_val' = 0
      <3>1. Reported'
        BY <1>2, <1>3, <2>1 DEF Reported, Walking, HasError
      <3> QED  BY <1>2, <1>3, <2>1, <3>1 DEF TypeOK, Position
    <2>2. CASE irc_val' # 0  BY <1>2, <1>3, <2>2, AddingAMessage
    <2> QED  BY <2>1, <2>2
  <1>6. TypeOK'
    <2>1. /\ File("obj", <<cursor>>) \in [kind : Kinds, of : Seq(Nat)]
          /\ File("partial", <<cursor>>) \in [kind : Kinds, of : Seq(Nat)]
      BY <1>1 DEF File, Kinds
    <2>2. files' \in [Paths -> [kind : Kinds, of : Seq(Nat)]]
      BY <1>3, <2>1 DEF TypeOK
    <2>3. objs' \in Seq(Paths)  BY <1>2, <1>4 DEF TypeOK
    <2> QED  BY <1>1, <1>2, <1>5, <2>2, <2>3 DEF TypeOK
  <1>7. Position'  BY <1>1, <1>2, <1>5 DEF Position, Walking, Emitting
  <1>8. Balance'  BY <1>2 DEF Balance, Walking
  <1>9. Results'
    <2>1. \A i : OutFileOf(i)' = OutFileOf(i)  BY <1>2 DEF OutFileOf
    <2>2. ASSUME NEW p \in Paths
          PROVE  \/ files'[p] = files[p]
                 \/ p = ObjOut /\ files'[p] = File("obj", <<cursor>>)
                       /\ irc_val' = 0
                 \/ p = ObjOut /\ files'[p] = File("partial", <<cursor>>)
      BY <1>3, <1>4 DEF TypeOK
    <2>3. Emitted' <=> irc_val' = 0  BY <1>2 DEF Emitted
    <2>4. Emitted' => files'[ObjOut] = File("obj", <<cursor>>)
      BY <1>3, <1>4, <2>3 DEF TypeOK
    <2>5. ASSUME NEW p \in Paths, files'[p].kind \in {"ir", "obj"}
          PROVE  \E k \in 1..cursor :
                    files'[p].of = <<k>> /\ (k = cursor => Emitted')
      <3>1. CASE files'[p] = files[p]
        BY <1>2, <2>5, <3>1 DEF Results
      <3>2. CASE files'[p] = File("obj", <<cursor>>) /\ irc_val' = 0
        BY <1>1, <2>3, <3>2 DEF File
      <3>3. CASE files'[p] = File("partial", <<cursor>>)
        BY <2>5, <3>3 DEF File
      <3> QED  BY <2>2, <3>1, <3>2, <3>3
    <2>6. ASSUME args.target = "elf"
          PROVE  /\ \A i \in DOMAIN objs' : objs'[i] = <<"tmp", i>>
                 /\ Len(objs') = cursor /\ Len(objs') >= cursor - 1
                 /\ \A i \in 1..(cursor - 1) :
                       files'[<<"tmp", i>>] = File("obj", <<i>>)
      <3>1. objs \in Seq(Paths)  BY DEF TypeOK
      <3>2. /\ Len(objs') = cursor
            /\ \A i \in 1..(cursor - 1) : objs'[i] = objs[i]
            /\ objs'[cursor] = <<"tmp", cursor>>
        BY <1>1, <1>2, <1>4, <2>6, <3>1
      <3>3. \A i \in 1..(cursor - 1) : objs[i] = <<"tmp", i>>
        <4>1. DOMAIN objs = 1..(cursor - 1)  BY <1>4, <2>6, <3>1
        <4> QED  BY <2>6, <4>1 DEF Results
      <3>4. \A i \in DOMAIN objs' : objs'[i] = <<"tmp", i>>
        <4>1. objs' \in Seq(Paths)  BY <1>6 DEF TypeOK
        <4>2. DOMAIN objs' = (1..(cursor - 1)) \cup {cursor}
          BY <1>1, <3>2, <4>1
        <4> QED  BY <3>2, <3>3, <4>2
      <3>5. ASSUME NEW i \in 1..(cursor - 1)
            PROVE  files'[<<"tmp", i>>] = File("obj", <<i>>)
        <4>1. i \in 1..MaxInputs /\ i # cursor  BY <1>1, DriverAssumption
        <4>2. <<"tmp", i>> \in Paths /\ <<"tmp", i>> # ObjOut
          BY <1>4, <2>6, <4>1, PathFacts DEF TypeOK
        <4>3. files'[<<"tmp", i>>] = files[<<"tmp", i>>]
          BY <2>2, <4>2
        <4> QED  BY <2>6, <4>3 DEF Results
      <3>6. Len(objs') >= cursor - 1  BY <1>1, <3>2
      <3> QED  BY <3>2, <3>4, <3>5, <3>6
    <2>7. ASSUME args.target # "elf", NEW i \in 1..(cursor - 1)
          PROVE  \E k \in i..Len(args.in_files) : files'[OutFileOf(i)].of = <<k>>
      <3>1. OutFileOf(i) \in Paths  BY <1>1, PathFacts DEF TypeOK
      <3>2. CASE files'[OutFileOf(i)] = files[OutFileOf(i)]
        BY <2>7, <3>2 DEF Results
      <3>3. CASE files'[OutFileOf(i)].of = <<cursor>>
        <4>1. cursor \in i..Len(args.in_files)  BY <1>1
        <4> QED  BY <3>3, <4>1
      <3> QED  BY <2>2, <3>1, <3>2, <3>3 DEF File
    <2>8. /\ args.target = "elf" => ObjOut = <<"tmp", cursor>>
          /\ args.target # "elf" => ObjOut = OutFile
      BY <1>2, <1>4
    <2>9. OutFile' = OutFile  BY <1>2, <2>1 DEF OutFile
    <2>10. Emitted' /\ args.target # "elf" => files'[OutFile].of = <<cursor>>
      BY <2>4, <2>8 DEF File
    <2>11. Emitted' /\ args.target = "elf" =>
              files'[<<"tmp", cursor>>] = File("obj", <<cursor>>)
      BY <2>4, <2>8
    <2> HIDE DEF Emit, EmitFails, Goto, IInv
    <2> QED
      BY <1>2, <1>5, <2>1, <2>5, <2>6, <2>7, <2>9, <2>10, <2>11
      DEF Results, File
  <1> QED  BY <1>5, <1>6, <1>7, <1>8, <1>9

LEMMA StutterKeepsInv == IInv /\ UNCHANGED vars => IInv'
  <1> SUFFICES ASSUME IInv, UNCHANGED vars PROVE IInv'  OBVIOUS
  <1> USE DEF vars, generator, outputs
  <1>1. TypeOK' /\ Position' /\ Balance'
    BY DEF IInv, TypeOK, Position, Balance, Walking, Emitting, HasError
  <1>2. Reported'  BY DEF IInv, Reported, Walking, HasError
  <1>3. Results'
    BY DEF IInv, Results, Emitted, HasError, OutFile, OutFileOf, File
  <1> QED  BY <1>1, <1>2, <1>3 DEF IInv

LEMMA NextKeepsInv == IInv /\ [Next]_vars => IInv'
  <1> SUFFICES ASSUME IInv, [Next]_vars PROVE IInv'  OBVIOUS
  <1>1. CASE Work
    <2>1. CASE \E type \in {"error", "warning"} : Report(type)
      BY <2>1, ReportKeepsInv
    <2> QED
      BY <1>1, <2>1, PassKeepsInv, InitBeKeepsInv, WriteTextKeepsInv,
         CannotWriteKeepsInv,
         LogGeneratedKeepsInv, LogEmittedKeepsInv, LogErrorsKeepsInv,
         LinkKeepsInv, GenerateKeepsInv, ScopeKeepsInv, EndKeepsInv,
         EmissionKeepsInv
      DEF Work
  <1>2. CASE Stay  BY <1>2, StutterKeepsInv DEF Stay
  <1>3. CASE UNCHANGED vars  BY <1>3, StutterKeepsInv
  <1> QED  BY <1>1, <1>2, <1>3 DEF Next

\* The strengthening holds in every reachable state of every command.
THEOREM Invariance == Spec => []IInv
  <1> QED  BY InitInv, NextKeepsInv, PTL DEF Spec

\* The state of the driver, the message list and the files is well typed; the
\* list never holds more than its buffer (msglist.h).
THEOREM TypeCorrect == Spec => []TypeOK
  <1>1. IInv => TypeOK  BY DEF IInv
  <1> QED  BY <1>1, Invariance, PTL

\* Every message of the generator is printed once, in the order of its number.
THEOREM Shown == Spec => []MessagesAreShownOnce
  <1>1. IInv => MessagesAreShownOnce
    BY DEF IInv, Reported, MessagesAreShownOnce
  <1> QED  BY <1>1, Invariance, PTL

\* A walk never starts on the scopes that a halted or failed one left.
THEOREM Balanced == Spec => []GeneratorStartsBalanced
  <1>1. IInv => GeneratorStartsBalanced
    BY DEF IInv, Balance, Walking, GeneratorStartsBalanced
  <1> QED  BY <1>1, Invariance, PTL

\* No file holds the text or the code of a unit that reported an error.
THEOREM Clean == Spec => []WrittenUnitsAreClean
  <1>1. ASSUME IInv PROVE WrittenUnitsAreClean
    <2> SUFFICES ASSUME NEW p \in Paths, NEW i \in DOMAIN stderr,
                        files[p].kind \in {"ir", "obj"},
                        stderr[i].type = "error"
                 PROVE  files[p].of # <<stderr[i].of>>
      BY DEF WrittenUnitsAreClean
    <2>1. pc = "exited" /\ stderr[i].of = cursor
      BY <1>1 DEF IInv, Reported, HasError
    <2>2. ~Emitted  BY <2>1 DEF Emitted
    <2>3. PICK k \in 1..cursor : files[p].of = <<k>> /\ k # cursor
      BY <1>1, <2>2 DEF IInv, Results
    <2> QED  BY <2>1, <2>3
  <1> QED  BY <1>1, Invariance, PTL

----------------------------------------------------------------------------
(* The refinement *)

Compiled == [i \in 1..(cursor - 1) |-> args.in_files[ResultOf(i)]]

\* What the file of an input behind the cursor holds is that input's, or was
\* overwritten by that of a later one.
Follows ==
    /\ Compiled \in Seq(Inputs) /\ Len(Compiled) = cursor - 1
    /\ \A i \in 1..(cursor - 1) : Compiled[i] = args.in_files[i]

LEMMA EachFromItsInput == IInv => Follows
  <1> SUFFICES ASSUME IInv PROVE Follows  OBVIOUS
  <1>1. /\ args.in_files \in Seq(Inputs) /\ cursor \in Nat /\ cursor > 0
        /\ cursor <= Len(args.in_files) + 1 /\ Len(args.in_files) \in Nat
    BY ArgsFacts DEF IInv, TypeOK
  <1>2. ASSUME NEW i \in 1..(cursor - 1) PROVE ResultOf(i) = i
    <2>1. CASE args.target = "elf"
      <3>1. Len(objs) >= cursor - 1 /\ objs \in Seq(Paths)
        BY <2>1 DEF IInv, Results, TypeOK
      <3>2. i \in DOMAIN objs  BY <1>1, <3>1
      <3>3. objs[i] = <<"tmp", i>> /\ files[<<"tmp", i>>] = File("obj", <<i>>)
        BY <2>1, <3>2 DEF IInv, Results
      <3>4. files[objs[i]].of[1] = i  BY <3>3 DEF File
      <3> QED  BY <2>1, <3>4 DEF ResultOf
    <2>2. CASE args.target # "elf"
      <3>1. PICK k \in i..Len(args.in_files) : files[OutFileOf(i)].of = <<k>>
        BY <2>2 DEF IInv, Results
      <3>2. files[OutFileOf(i)].of[1] = k  BY <3>1
      <3>3. k > i \/ k = i  BY <3>1
      <3> QED  BY <2>2, <3>2, <3>3 DEF ResultOf
    <2> QED  BY <2>1, <2>2
  <1>3. Compiled = [i \in 1..(cursor - 1) |-> args.in_files[i]]
    BY <1>2 DEF Compiled
  <1>4. \A i \in 1..(cursor - 1) : args.in_files[i] \in Inputs
    BY <1>1
  <1> QED  BY <1>1, <1>3, <1>4 DEF Follows

LEMMA EachFromItsInputNext == IInv' => Follows'
  <1> QED  BY EachFromItsInput, PTL

\* A step that moves the cursor compiles; one that ends the command succeeds or
\* fails; any other is hidden.
LEMMA StepsMap ==
    ASSUME IInv, IInv', [Next]_vars
    PROVE  [Promise!Next]_(Promise!vars)
  <1>1. /\ Compiled \in Seq(Inputs) /\ Len(Compiled) = cursor - 1
        /\ \A i \in 1..(cursor - 1) : Compiled[i] = args.in_files[i]
        /\ args.in_files \in Seq(Inputs) /\ cursor \in Nat /\ cursor > 0
        /\ pc = "exited" <=> status # "running"
    BY SMTT(60), EachFromItsInput, ArgsFacts DEF Follows, IInv, TypeOK, Position
  <1>2. args' = args => /\ Compiled' \in Seq(Inputs)
                        /\ Len(Compiled') = cursor' - 1
                        /\ \A i \in 1..(cursor' - 1) :
                              Compiled'[i] = args.in_files[i]
    BY EachFromItsInputNext DEF Follows
  <1>3. CASE UNCHANGED <<args, cursor, status>>
    <2>1. Compiled' = Compiled  BY <1>1, <1>2, <1>3
    <2>2. UNCHANGED Promise!vars
      BY <1>3, <2>1 DEF Promise!vars, Compiled
    <2> QED  BY <2>2
  <1>4. CASE UNCHANGED <<args, cursor>> /\ status = "running"
             /\ status' = "failure"
    <2>1. Compiled' = Compiled  BY <1>1, <1>2, <1>4
    <2>2. Promise!Fail
      BY <1>4, <2>1 DEF Promise!Fail, Compiled
    <2> QED  BY <2>2 DEF Promise!Next
  <1>5. CASE UNCHANGED <<args, cursor>> /\ status = "running"
             /\ status' = "success" /\ cursor = Len(args.in_files) + 1
    <2>1. Compiled' = Compiled  BY <1>1, <1>2, <1>5
    <2>2. Compiled = args.in_files  BY <1>1, <1>5
    <2>3. Promise!Succeed
      BY <1>5, <2>1, <2>2 DEF Promise!Succeed, Compiled
    <2> QED  BY <2>3 DEF Promise!Next
  <1>6. CASE UNCHANGED <<args, status>> /\ status = "running"
             /\ cursor' = cursor + 1 /\ cursor <= Len(args.in_files)
    <2>1. Compiled' = Append(Compiled, args.in_files[Len(Compiled) + 1])
      BY <1>1, <1>2, <1>6
    <2>2. Len(Compiled) < Len(args.in_files)  BY <1>1, <1>6
    <2>3. Promise!Compile
      BY <1>6, <2>1, <2>2 DEF Promise!Compile, Compiled
    <2> QED  BY <2>3 DEF Promise!Next
  <1>7. \/ UNCHANGED <<args, cursor, status>>
        \/ UNCHANGED <<args, cursor>> /\ status = "running"
             /\ status' = "failure"
        \/ UNCHANGED <<args, cursor>> /\ status = "running"
             /\ status' = "success" /\ cursor = Len(args.in_files) + 1
        \/ UNCHANGED <<args, status>> /\ status = "running"
             /\ cursor' = cursor + 1 /\ cursor <= Len(args.in_files)
    <2>1. CASE UNCHANGED vars  BY <2>1 DEF vars
    <2>2. CASE NoInput \/ DeinitBe
      <3>1. status' = "success" /\ status = "running"
            /\ UNCHANGED <<args, cursor>>
        BY <1>1, <2>2 DEF NoInput, DeinitBe, Exit
      <3>2. cursor = Len(args.in_files) + 1
        BY <3>1 DEF IInv, Position
      <3> QED  BY <3>1, <3>2
    <2>3. CASE FrontEndFails \/ CannotWrite \/ LogErrors \/ LinkComplains
      BY <1>1, <2>3 DEF FrontEndFails, CannotWrite, LogErrors, LinkComplains,
                        Exit
    <2>4. CASE WriteText \/ LogEmitted
      BY <1>1, <2>4 DEF WriteText, LogEmitted, NextInput, IInv, Position,
                        Emitting
    <2>5. CASE InitBe \/ Preprocess \/ Parse \/ LogGenerated \/ Link
               \/ Generate \/ Halt \/ Throw \/ Finish \/ Emit \/ EmitFails
      BY <2>5 DEF InitBe, Preprocess, Parse, LogGenerated, Link, Generate,
                  Halt, Throw, Finish, Emit, EmitFails, Goto
    <2>6. CASE (\E type \in {"error", "warning"} : Report(type))
               \/ OpenScope \/ CloseScope
      BY <2>6 DEF Report, OpenScope, CloseScope
    <2> QED  BY <2>1, <2>2, <2>3, <2>4, <2>5, <2>6 DEF Next, Work, Stay
  <1> QED  BY <1>3, <1>4, <1>5, <1>6, <1>7

\* The driver implements Compilation: inputs are compiled in order, each from
\* its own text, a failure ends the command and success means all of them.
THEOREM Refinement == Spec => Promise!Safety
  <1>1. Init => Promise!Init
    <2> SUFFICES ASSUME Init PROVE Promise!Init  OBVIOUS
    <2>1. Compiled = <<>>
      <3>1. Compiled \in Seq(Inputs) /\ Len(Compiled) = 0
        BY InitInv, EachFromItsInput DEF Init, Follows
      <3> QED  BY <3>1
    <2> QED  BY <2>1 DEF Init, Promise!Init, Compiled
  <1>2. IInv /\ IInv' /\ [Next]_vars => [Promise!Next]_(Promise!vars)
    BY StepsMap
  <1> QED  BY <1>1, <1>2, Invariance, PTL DEF Spec, Promise!Safety

----------------------------------------------------------------------------
(* Success is complete *)

\* The files a result stands in are not written: it stands.
LEMMA StandsStay ==
    ASSUME UNCHANGED <<args, files>>, NEW i, NEW n, Stands(i, n)
    PROVE  Stands(i, n)'
  <1>1. \A j : OutFileOf(j)' = OutFileOf(j)  BY DEF OutFileOf
  <1> QED  BY <1>1 DEF Stands, File

\* The result of the input under the cursor is written to its file: each result
\* before it stands, or shares that file and is overwritten.
LEMMA WrittenStands ==
    ASSUME IInv, cursor <= Len(args.in_files), UNCHANGED args, NEW n, n = cursor,
           files' = [files EXCEPT ![OutFile] = File(args.target, <<cursor>>)],
           \A i \in 1..(cursor - 1) : Stands(i, cursor - 1)
    PROVE  \A i \in 1..n : Stands(i, n)'
  <1>1. /\ cursor \in 1..Len(args.in_files) /\ Len(args.in_files) \in Nat
        /\ \A i \in 1..Len(args.in_files) : OutFileOf(i) \in Paths
        /\ \A i : OutFileOf(i)' = OutFileOf(i)
    BY ArgsFacts, PathFacts DEF IInv, TypeOK, OutFileOf
  <1> DEFINE result == File(args.target, <<cursor>>)
  <1>2. /\ files'[OutFileOf(cursor)] = result
        /\ \A p \in Paths : p # OutFileOf(cursor) => files'[p] = files[p]
    BY <1>1 DEF IInv, TypeOK, OutFile
  <1> SUFFICES ASSUME NEW i \in 1..n  PROVE Stands(i, n)'
    OBVIOUS
  <1>4. CASE OutFileOf(i) = OutFileOf(cursor)
    <2>1. /\ n \in i..n /\ OutFileOf(n)' = OutFileOf(i)'
          /\ files'[OutFileOf(i)'] = File(args'.target, <<n>>)
          /\ \A k \in (n + 1)..n : OutFileOf(k)' # OutFileOf(i)'
      BY <1>1, <1>2, <1>4
    <2> QED  BY <2>1 DEF Stands, File
  <1>5. CASE OutFileOf(i) # OutFileOf(cursor)
    <2>1. i \in 1..(cursor - 1)  BY <1>1, <1>5
    <2>2. PICK j \in i..(cursor - 1) :
             /\ OutFileOf(j) = OutFileOf(i)
             /\ files[OutFileOf(i)] = File(args.target, <<j>>)
             /\ \A k \in (j+1)..(cursor - 1) : OutFileOf(k) # OutFileOf(i)
      BY <2>1 DEF Stands
    <2>3. files'[OutFileOf(i)] = files[OutFileOf(i)]
      BY <1>1, <1>2, <1>5, <2>1
    <2>4. \A k \in (j+1)..n : OutFileOf(k) # OutFileOf(i)
      BY <1>1, <1>5, <2>2
    <2>5. j \in i..n  BY <1>1, <2>2
    <2> QED  BY <1>1, <2>2, <2>3, <2>4, <2>5 DEF Stands, File
  <1> QED  BY <1>4, <1>5

LEMMA InitComplete == Init => Complete
  <1> SUFFICES ASSUME Init PROVE Complete  OBVIOUS
  <1>1. ResultsStand
    <2>1. 1..Finished = {}  BY DEF Init, Finished, Emitted
    <2> QED  BY <2>1 DEF ResultsStand
  <1> QED  BY <1>1 DEF Init, Complete, LinkStands, SuccessIsComplete

\* Steps in the middle of the command that write no file and finish no input.
LEMMA PassKeepsComplete ==
    ASSUME IInv, Complete, UNCHANGED <<args, cursor, files, status>>,
           pc \notin {"emitted", "exited"}, pc' \notin {"emitted", "exited", "deinit"}
    PROVE  Complete'
  <1>1. status # "success"  BY DEF IInv, Position
  <1>2. ResultsStand'
    <2>1. Finished = cursor - 1 /\ Finished' = Finished
      BY DEF Finished, Emitted
    <2>2. args.target # "elf" => \A i \in 1..Finished : Stands(i, Finished)
      BY DEF Complete, ResultsStand
    <2> DEFINE n == cursor - 1
    <2>3. ASSUME args.target # "elf"
          PROVE  \A i \in 1..n : Stands(i, n)'
      BY <2>1, <2>2, <2>3, StandsStay
    <2> QED  BY <2>1, <2>3 DEF ResultsStand
  <1> QED  BY <1>1, <1>2 DEF Complete, LinkStands, SuccessIsComplete

\* A command that fails promises nothing; one without inputs has no results.
LEMMA EndKeepsComplete ==
    ASSUME pc' = "exited", status' # "success" \/ (args.in_files = <<>> /\ args' = args)
    PROVE  Complete'
  <1> QED  BY DEF Complete, ResultsStand, LinkStands, SuccessIsComplete

LEMMA WriteTextKeepsComplete ==
    ASSUME IInv, Complete, WriteText
    PROVE  Complete'
  <1>1. /\ Len(args.in_files) \in Nat /\ cursor \in 1..Len(args.in_files)
        /\ pc = "write" /\ args.target \in {"ast", "ir"} /\ status = "running"
        /\ pc' \notin {"emitted", "exited"}
        /\ args.target = "ir" => TheModule = cursor
    BY ArgsFacts DEF IInv, TypeOK, Position, WriteText, NextInput
  <1>2. /\ UNCHANGED <<args, status>> /\ cursor' = cursor + 1
        /\ files' = [files EXCEPT ![OutFile] = File(args.target, <<cursor>>)]
    BY <1>1 DEF WriteText, NextInput
  <1>3. Finished = cursor - 1 /\ Finished' = cursor
    BY <1>1, <1>2 DEF Finished, Emitted
  <1>4. \A i \in 1..(cursor - 1) : Stands(i, cursor - 1)
    BY <1>1, <1>3 DEF Complete, ResultsStand
  <1>5. PICK n : n = cursor  OBVIOUS
  <1>6. \A i \in 1..n : Stands(i, n)'  BY <1>1, <1>2, <1>4, <1>5, WrittenStands
  <1>7. ResultsStand'  BY <1>3, <1>5, <1>6 DEF ResultsStand
  <1> QED  BY <1>1, <1>2, <1>7 DEF Complete, LinkStands, SuccessIsComplete

LEMMA LogEmittedKeepsComplete ==
    ASSUME IInv, Complete, LogEmitted
    PROVE  Complete'
  <1>1. /\ pc = "emitted" /\ irc_val = 0 /\ status = "running"
        /\ UNCHANGED <<args, status, files>>
        /\ cursor' = cursor + 1 /\ cursor \in Nat
        /\ pc' \in {"preprocess", "link", "deinit"}
        /\ args.target = "elf" => pc' # "deinit"
    BY ArgsFacts DEF IInv, TypeOK, Position, LogEmitted, NextInput, outputs
  <1>2. Finished = cursor /\ Finished' = cursor
    BY <1>1 DEF Finished, Emitted
  <1>3. args.target # "elf" => \A i \in 1..cursor : Stands(i, cursor)
    BY <1>1, <1>2 DEF Complete, ResultsStand
  <1>4. PICK n : n = cursor  OBVIOUS
  <1>5. args.target # "elf" => \A i \in 1..n : Stands(i, n)'
    BY <1>1, <1>3, <1>4, StandsStay
  <1>6. ResultsStand'  BY <1>1, <1>2, <1>4, <1>5 DEF ResultsStand
  <1> QED  BY <1>1, <1>6 DEF Complete, LinkStands, SuccessIsComplete

\* A failed emission may spoil the file of an earlier input of the same path, but
\* it has left an error: no success can follow.
LEMMA EmissionKeepsComplete ==
    ASSUME IInv, Complete, Emit \/ EmitFails
    PROVE  Complete'
  <1>1. /\ Len(args.in_files) \in Nat /\ cursor \in 1..Len(args.in_files)
        /\ pc = "emit" /\ pc' = "emitted" /\ args.target \in {"obj", "elf"}
        /\ status = "running" /\ TheModule = cursor
        /\ UNCHANGED <<args, status, cursor>>
    BY ArgsFacts DEF IInv, TypeOK, Position, Emitting, Emit, EmitFails, Goto
  <1>2. CASE irc_val' # 0 \/ args.target = "elf"
    BY <1>1, <1>2 DEF Complete, ResultsStand, LinkStands, SuccessIsComplete
  <1>3. CASE irc_val' = 0 /\ args.target # "elf"
    <2>1. files' = [files EXCEPT ![OutFile] = File(args.target, <<cursor>>)]
      BY <1>1, <1>3 DEF Emit, EmitFails, ObjOut
    <2>2. Finished = cursor - 1 /\ Finished' = cursor
      BY <1>1, <1>3 DEF Finished, Emitted
    <2>3. \A i \in 1..(cursor - 1) : Stands(i, cursor - 1)
      BY <1>1, <1>3, <2>2 DEF Complete, ResultsStand
    <2>4. PICK n : n = cursor  OBVIOUS
    <2>5. \A i \in 1..n : Stands(i, n)'
      BY <1>1, <2>1, <2>3, <2>4, WrittenStands
    <2>6. ResultsStand'  BY <2>2, <2>4, <2>5 DEF ResultsStand
    <2> QED  BY <1>1, <2>6 DEF Complete, LinkStands, SuccessIsComplete
  <1> QED  BY <1>2, <1>3

LEMMA LinkKeepsComplete ==
    ASSUME IInv, Complete, Link
    PROVE  Complete'
  <1>1. /\ pc = "link" /\ pc' = "deinit" /\ args.target = "elf"
        /\ status = "running" /\ UNCHANGED <<args, status, cursor>>
        /\ cursor = Len(args.in_files) + 1 /\ Len(args.in_files) \in Nat
        /\ files' = [files EXCEPT ![Executable] = Linked]
        /\ Executable \in Paths /\ Executable' = Executable
    BY ArgsFacts, PathFacts DEF IInv, TypeOK, Position, Link, Goto, Executable
  <1>2. Linked = File("elf", [i \in 1..Len(args.in_files) |-> i])
    <2>1. /\ Len(objs) = cursor - 1 /\ objs \in Seq(Paths)
          /\ \A i \in DOMAIN objs : objs[i] = <<"tmp", i>>
          /\ \A i \in 1..(cursor - 1) :
                files[<<"tmp", i>>] = File("obj", <<i>>)
      BY <1>1 DEF IInv, TypeOK, Results
    <2>2. DOMAIN objs = 1..Len(args.in_files)  BY <1>1, <2>1
    <2>3. \A i \in DOMAIN objs : files[objs[i]].of[1] = i
      <3> TAKE i \in DOMAIN objs
      <3>1. objs[i] = <<"tmp", i>> /\ i \in 1..(cursor - 1)
        BY <1>1, <2>1, <2>2
      <3>2. files[objs[i]] = File("obj", <<i>>)  BY <2>1, <3>1
      <3> QED  BY <3>2 DEF File
    <2> QED  BY <2>2, <2>3 DEF Linked
  <1>3. LinkStands'
    BY <1>1, <1>2 DEF IInv, TypeOK, LinkStands, AllLinked, File
  <1> QED  BY <1>1, <1>3 DEF Complete, ResultsStand, SuccessIsComplete

LEMMA DeinitBeKeepsComplete ==
    ASSUME IInv, Complete, DeinitBe
    PROVE  Complete'
  <1>1. /\ pc = "deinit" /\ pc' = "exited"
        /\ UNCHANGED <<args, cursor, files, stderr>>
        /\ cursor = Len(args.in_files) + 1
        /\ args.in_files \in Seq(Inputs) /\ Len(args.in_files) \in Nat
        /\ ~HasError(stderr)
    BY ArgsFacts DEF IInv, TypeOK, Position, Reported, DeinitBe, Exit, outputs
  <1>2. args.target = "elf" => AllLinked'
    BY <1>1 DEF Complete, LinkStands, AllLinked, Executable, File
  <1>3. Finished = Len(args.in_files)  BY <1>1 DEF Finished, Emitted
  <1>4. ASSUME args.target # "elf"
        PROVE  \A i \in DOMAIN args.in_files : Stands(i, Len(args.in_files))'
    <2>1. PICK n : n = Len(args.in_files)  OBVIOUS
    <2>2. \A i \in 1..n : Stands(i, n)
      BY <1>1, <1>3, <1>4, <2>1 DEF Complete, ResultsStand
    <2>3. \A i \in 1..n : Stands(i, n)'  BY <1>1, <2>2, StandsStay
    <2> QED  BY <1>1, <2>1, <2>3
  <1>5. SuccessIsComplete'
    BY <1>1, <1>2, <1>4 DEF SuccessIsComplete, HasError
  <1> QED  BY <1>1, <1>5 DEF Complete, ResultsStand, LinkStands

LEMMA StutterKeepsComplete == Complete /\ UNCHANGED vars => Complete'
  <1> SUFFICES ASSUME Complete, UNCHANGED vars PROVE Complete'  OBVIOUS
  <1>1. UNCHANGED <<args, pc, cursor, status, irc_val, files, stderr>>
    BY DEF vars, outputs
  <1>2. Finished' = Finished  BY <1>1 DEF Finished, Emitted
  <1>3. AllLinked' = AllLinked  BY <1>1 DEF AllLinked, Executable, File
  <1>4. ASSUME NEW n, \A i \in 1..n : Stands(i, n)
        PROVE  \A i \in 1..n : Stands(i, n)'
    BY <1>1, <1>4, StandsStay
  <1>5. ResultsStand'
    <2>1. PICK n : n = Finished  OBVIOUS
    <2> QED  BY <1>1, <1>2, <1>4, <2>1 DEF Complete, ResultsStand
  <1>6. SuccessIsComplete'
    <2>1. PICK n : n = Len(args.in_files)  OBVIOUS
    <2>2. ASSUME NEW i \in DOMAIN args.in_files, Stands(i, n)
          PROVE  Stands(i, n)'
      BY <1>1, <2>2, StandsStay
    <2> QED
      BY <1>1, <1>3, <2>1, <2>2 DEF Complete, SuccessIsComplete, HasError
  <1> QED  BY <1>1, <1>3, <1>5, <1>6 DEF Complete, LinkStands

LEMMA NextKeepsComplete == IInv /\ Complete /\ [Next]_vars => Complete'
  <1> SUFFICES ASSUME IInv, Complete, [Next]_vars PROVE Complete'  OBVIOUS
  <1>1. CASE InitBe \/ Preprocess \/ Parse \/ LogGenerated \/ Generate
             \/ Halt \/ Throw \/ Finish
    <2>1. /\ UNCHANGED <<args, cursor, files, status>>
          /\ pc \notin {"emitted", "exited"}
          /\ pc' \notin {"emitted", "exited", "deinit"}
      BY <1>1 DEF InitBe, Preprocess, Parse, LogGenerated, Generate, Halt,
                  Throw, Finish, Goto, outputs
    <2> QED  BY <2>1, PassKeepsComplete
  <1>2. CASE (\E type \in {"error", "warning"} : Report(type))
             \/ OpenScope \/ CloseScope
    <2>1. /\ UNCHANGED <<args, cursor, files, status>>
          /\ pc = "walk" /\ pc' = "walk"
      BY <1>2 DEF Report, OpenScope, CloseScope, Step, outputs
    <2> QED  BY <2>1, PassKeepsComplete
  <1>3. CASE NoInput \/ FrontEndFails \/ CannotWrite \/ LogErrors \/ LinkComplains
    <2>1. pc' = "exited"
          /\ (status' # "success" \/ (args.in_files = <<>> /\ args' = args))
      BY <1>3 DEF NoInput, FrontEndFails, CannotWrite, LogErrors,
                  LinkComplains, Exit
    <2> QED  BY <2>1, EndKeepsComplete
  <1>4. CASE Stay \/ UNCHANGED vars  BY <1>4, StutterKeepsComplete DEF Stay
  <1> QED
    BY <1>1, <1>2, <1>3, <1>4, WriteTextKeepsComplete, LogEmittedKeepsComplete,
       EmissionKeepsComplete, LinkKeepsComplete, DeinitBeKeepsComplete
    DEF Next, Work

\* A command that exits with success has printed no error and has every result
\* in its file, or that of a later input of the same path (lib.rs).
THEOREM CompleteSuccess == Spec => []SuccessIsComplete
  <1>1. Complete => SuccessIsComplete  BY DEF Complete
  <1>2. Spec => []Complete
    BY InitComplete, NextKeepsComplete, Invariance, PTL DEF Spec
  <1> QED  BY <1>1, <1>2, PTL
=============================================================================
