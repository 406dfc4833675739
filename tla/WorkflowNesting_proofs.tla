------------------------- MODULE WorkflowNesting_proofs -------------------------
(***************************************************************************)
(* Proofs about WorkflowNesting, for any files, references among them,     *)
(* edits and bound on the depth.                                           *)
(*                                                                         *)
(* The invariant is about the stack of running files.  Every step either   *)
(* keeps a prefix of it, whose last frame may move on (Keeps), or pushes   *)
(* one frame that has passed the checks.                                   *)
(*                                                                         *)
(* What a run says of the nesting (VerdictSound) rests on a second         *)
(* invariant: while the files stay as they are, a frame is as many         *)
(* references away from those below it as there are frames between them,   *)
(* and what a completed step leads to, if it stands in no arm of a branch, *)
(* has no chain of certain references that the bound leaves no room for.   *)
(***************************************************************************)
EXTENDS WorkflowNesting, SequenceTheorems, SetInduction

Frames == [file : WorkflowFiles, dir : Dirs, doc : Docs, pc : Nat \ {0}]

\* The first frame is the caller's, every other runs in its file's directory.
FramesPlaced ==
  \A i \in 1..Len(stack) :
    /\ i = 1 => stack[i].file = Start /\ stack[i].dir = Base
    /\ i # 1 => stack[i].dir = DirOf[stack[i].file]

\* Every nested frame is of the file that its parent's step names.
FramesLinked ==
  \A i \in 2..Len(stack) :
    stack[i].file =
      File(stack[i - 1].dir, stack[i - 1].doc.steps[stack[i - 1].pc].path)

\* Until a file is changed, a running workflow is what its file holds, and
\* what it refers to was found sound.
FramesSound ==
  edits = 0 =>
    \A i \in 1..Len(stack) :
      /\ stack[i].doc = disk[stack[i].file]
      /\ Validates(stack[i].doc, stack[i].dir)

IInv ==
  /\ TypeOK
  /\ Reentry
  /\ FramesPlaced
  /\ FramesLinked
  /\ FramesSound
  /\ LookAhead

\* The first n frames stay, and only the last of them may move on.
Keeps(n) ==
  /\ stack' \in Seq(Frames)
  /\ Len(stack') = n
  /\ \A i \in 1..n :
       /\ stack'[i].file = stack[i].file
       /\ stack'[i].dir = stack[i].dir
       /\ stack'[i].doc = stack[i].doc
       /\ i < n => stack'[i].pc = stack[i].pc

-----------------------------------------------------------------------------
\* A run that is over keeps nothing.
LEMMA EmptyKeeps ==
  ASSUME stack' = <<>>
  PROVE  Keeps(0)
BY DEF Keeps

LEMMA AdvancedKeeps ==
  ASSUME TypeOK, stack # <<>>, stack' = Advanced
  PROVE  Keeps(Len(stack))
<1> DEFINE n == Len(stack)
<1>1. stack \in Seq(Frames) /\ n \in Nat /\ n # 0
  BY EmptySeq, LenProperties DEF TypeOK, Frames
<1>2. stack[n] \in Frames
  BY <1>1, ElementOfSeq
<1>3. [stack[n] EXCEPT !.pc = @ + 1] \in Frames
  BY <1>2 DEF Frames
<1>4. stack' = [stack EXCEPT ![n] = [stack[n] EXCEPT !.pc = @ + 1]]
  BY DEF Advanced
<1>5. stack' \in Seq(Frames) /\ Len(stack') = n
  BY <1>1, <1>3, <1>4, ExceptSeq
<1>6. \A i \in 1..n :
        stack'[i] = IF i = n THEN [stack[n] EXCEPT !.pc = @ + 1] ELSE stack[i]
  BY <1>1, <1>4
<1> QED
  BY <1>1, <1>2, <1>5, <1>6, SMTT(30) DEF Keeps, Frames

LEMMA ReturnedKeeps ==
  ASSUME TypeOK, Len(stack) > 1,
         stack' = [SubSeq(stack, 1, Len(stack) - 1)
                     EXCEPT ![Len(stack) - 1].pc = @ + 1]
  PROVE  Keeps(Len(stack) - 1)
<1> DEFINE n == Len(stack) - 1
           q == SubSeq(stack, 1, n)
<1>1. stack \in Seq(Frames) /\ n \in Nat /\ n # 0
  BY LenProperties DEF TypeOK, Frames
<1>2. q \in Seq(Frames) /\ Len(q) = n /\ \A i \in 1..n : q[i] = stack[i]
  BY <1>1, SubSeqProperties
<1>3. q[n] \in Frames
  BY <1>1, <1>2, ElementOfSeq
<1>4. [q[n] EXCEPT !.pc = @ + 1] \in Frames
  BY <1>3 DEF Frames
<1>5. stack' = [q EXCEPT ![n] = [q[n] EXCEPT !.pc = @ + 1]]
  OBVIOUS
<1> HIDE DEF q
<1>6. stack' \in Seq(Frames) /\ Len(stack') = n
  BY <1>1, <1>2, <1>4, <1>5, ExceptSeq, SMTT(30)
<1>7. \A i \in 1..n :
        stack'[i] = IF i = n THEN [q[n] EXCEPT !.pc = @ + 1] ELSE q[i]
  BY <1>1, <1>2, <1>5, SMTT(30)
<1>8. /\ stack'[n].file = stack[n].file
      /\ stack'[n].dir = stack[n].dir
      /\ stack'[n].doc = stack[n].doc
  BY <1>1, <1>2, <1>3, <1>7 DEF Frames
<1>9. \A i \in 1..n : i < n => stack'[i] = stack[i]
  BY <1>1, <1>2, <1>7
<1> QED
  BY <1>1, <1>6, <1>8, <1>9 DEF Keeps

\* Popping or moving on cannot break what the frames have in common.
LEMMA KeepsInvariant ==
  ASSUME IInv, NEW n \in 0..Len(stack), Keeps(n),
         disk' = disk, edits' = edits
  PROVE  Reentry' /\ FramesPlaced' /\ FramesLinked' /\ FramesSound'
<1>1. Len(stack) \in Nat
  BY LenProperties DEF IInv, TypeOK
<1>2. Reentry'
  BY <1>1, NestingAssumption DEF IInv, Reentry, Keeps
<1>3. FramesPlaced'
  BY <1>1 DEF IInv, FramesPlaced, Keeps
<1>4. FramesLinked'
  <2> SUFFICES ASSUME NEW i \in 2..n
               PROVE  stack'[i].file =
                        File(stack'[i - 1].dir,
                             stack'[i - 1].doc.steps[stack'[i - 1].pc].path)
    BY DEF FramesLinked, Keeps, File
  <2>1. i \in 2..Len(stack) /\ i - 1 \in 1..n /\ i - 1 < n /\ i \in 1..n
    BY <1>1
  <2> QED
    BY <2>1 DEF IInv, FramesLinked, Keeps
<1>5. FramesSound'
  <2> SUFFICES ASSUME edits = 0, NEW i \in 1..n
               PROVE  /\ stack'[i].doc = disk[stack'[i].file]
                      /\ Validates(stack'[i].doc, stack'[i].dir)
    BY DEF FramesSound, Keeps, Validates, File
  <2>1. i \in 1..Len(stack)
    BY <1>1
  <2> QED
    BY <2>1 DEF IInv, FramesSound, Keeps
<1> QED
  BY <1>2, <1>3, <1>4, <1>5

-----------------------------------------------------------------------------
LEMMA FileType ==
  ASSUME NEW d \in Dirs, NEW p \in Paths
  PROVE  File(d, p) \in WorkflowFiles
BY NestingAssumption, Zenon DEF File

\* The step in hand is a step of a file, and where it leads is a file.
LEMMA InHandType ==
  ASSUME TypeOK, AtStep
  PROVE  /\ Len(stack) \in Nat \ {0}
         /\ Top \in Frames
         /\ InHand.path \in Paths \cup {Leaf}
         /\ InHand.path # Leaf => Child(InHand) \in WorkflowFiles
<1>1. stack \in Seq(Frames)
  BY DEF TypeOK, Frames
<1>2. Len(stack) \in Nat \ {0}
  BY <1>1, EmptySeq DEF AtStep
<1>3. Top \in Frames
  BY <1>1, <1>2, ElementOfSeq DEF Top
<1>4. Top.doc.steps \in Seq([path : Paths \cup {Leaf}, gives : BOOLEAN, arm : BOOLEAN])
  BY <1>3, NestingAssumption DEF Frames
<1>5. Top.pc \in 1..Len(Top.doc.steps)
  BY <1>3, <1>4, LenProperties DEF AtStep, Frames
<1>6. InHand \in [path : Paths \cup {Leaf}, gives : BOOLEAN, arm : BOOLEAN]
  BY <1>4, <1>5, ElementOfSeq DEF InHand
<1>7. InHand.path \in Paths \cup {Leaf} /\ Top.dir \in Dirs
  BY <1>3, <1>6 DEF Frames
<1> QED
  BY <1>2, <1>3, <1>7, FileType DEF Child

LEMMA VerdictTypes ==
  /\ FirstVerdict # "enter" => FirstVerdict \in Errors
  /\ AtNested /\ Entry(InHand) # "enter" => Entry(InHand) \in Errors
<1>1. \A doc : Load(doc) \in {"notFound", "parseError", "loaded"}
  BY DEF Load
<1>2. FirstVerdict # "enter" => FirstVerdict \in Errors
  BY <1>1 DEF FirstVerdict, Errors
<1>3. \A step, file : Loaded(step, file) \in
        {"stepError", "stepFailed", "inputMissing", "enter"}
  BY DEF Loaded
<1>4. \A step : Entry(step) # "enter" => Entry(step) \in Errors
  BY <1>3 DEF Entry, Errors
<1> QED
  BY <1>2, <1>4

-----------------------------------------------------------------------------
\* The steps that only pop frames or move the last one on

LEMMA FailKeeps ==
  ASSUME IInv, NEW error \in Errors, Fail(error)
  PROVE  IInv'
<1>1. Keeps(0) /\ Len(stack) \in Nat
  BY EmptyKeeps, LenProperties DEF Fail, IInv, TypeOK
<1>2. Reentry' /\ FramesPlaced' /\ FramesLinked' /\ FramesSound'
  BY <1>1, KeepsInvariant DEF Fail
<1>3. TypeOK'
  BY <1>1 DEF Fail, IInv, TypeOK, Keeps, Frames
<1>4. LookAhead'
  BY DEF Fail, IInv, LookAhead
<1> QED
  BY <1>2, <1>3, <1>4 DEF IInv

LEMMA ReturnKeeps ==
  ASSUME IInv, Return
  PROVE  IInv'
<1>1. Len(stack) \in Nat \ {0}
  BY EmptySeq DEF Return, IInv, TypeOK
<1>2. PICK n \in 0..Len(stack) : Keeps(n)
  BY <1>1, EmptyKeeps, ReturnedKeeps DEF Return, IInv
<1>3. Reentry' /\ FramesPlaced' /\ FramesLinked' /\ FramesSound'
  BY <1>2, KeepsInvariant DEF Return
<1>4. TypeOK'
  BY <1>2 DEF Return, IInv, TypeOK, Keeps, Frames
<1>5. LookAhead'
  BY DEF Return, IInv, LookAhead
<1> QED
  BY <1>3, <1>4, <1>5 DEF IInv

\* Passing over a step of an arm has no effect.
LEMMA SkipKeeps ==
  ASSUME IInv, Skip
  PROVE  IInv'
<1>1. Keeps(Len(stack)) /\ Len(stack) \in Nat
  BY AdvancedKeeps, LenProperties DEF Skip, AtStep, IInv, TypeOK
<1>2. Reentry' /\ FramesPlaced' /\ FramesLinked' /\ FramesSound'
  BY <1>1, KeepsInvariant DEF Skip
<1>3. TypeOK'
  BY <1>1 DEF Skip, IInv, TypeOK, Keeps, Frames
<1>4. LookAhead'
  BY DEF Skip, IInv, LookAhead
<1> QED
  BY <1>2, <1>3, <1>4 DEF IInv

\* A leaf has an effect: what the running file refers to was looked at before.
LEMMA RunLeafKeeps ==
  ASSUME IInv, RunLeaf
  PROVE  IInv'
<1>1. Len(stack) \in Nat \ {0} /\ Top \in Frames
  BY InHandType DEF RunLeaf, IInv
<1>2. PICK n \in 0..Len(stack) : Keeps(n)
  BY <1>1, EmptyKeeps, AdvancedKeeps DEF RunLeaf, AtStep, IInv
<1>3. Reentry' /\ FramesPlaced' /\ FramesLinked' /\ FramesSound'
  BY <1>2, KeepsInvariant DEF RunLeaf
<1>4. TypeOK'
  <2>1. ran' \subseteq WorkflowFiles \X Dirs
    BY <1>1 DEF RunLeaf, IInv, TypeOK, Frames
  <2> QED
    BY <1>2, <2>1 DEF RunLeaf, IInv, TypeOK, Keeps, Frames, Errors
<1>5. LookAhead'
  <2> SUFFICES ASSUME edits = 0, NEW r \in ran', NEW p \in Refers(disk[r[1]])
               PROVE  SoundAlone(disk[File(r[2], p)])
    BY DEF LookAhead, RunLeaf
  <2>1. CASE r \in ran
    BY <2>1 DEF IInv, LookAhead
  <2>2. CASE r = <<Top.file, Top.dir>>
    <3>1. Top.doc = disk[Top.file] /\ Validates(Top.doc, Top.dir)
      BY <1>1 DEF IInv, FramesSound, Top
    <3> QED
      BY <2>2, <3>1 DEF Validates
  <2> QED
    BY <2>1, <2>2 DEF RunLeaf
<1> QED
  BY <1>3, <1>4, <1>5 DEF IInv

-----------------------------------------------------------------------------
\* The steps that push a frame

LEMMA FrameType ==
  ASSUME TypeOK, NEW f \in WorkflowFiles, NEW d \in Dirs
  PROVE  Frame(f, d) \in Frames
BY DEF TypeOK, Frame, Frames

LEMMA EnterKeeps ==
  ASSUME IInv, Enter
  PROVE  IInv'
<1> DEFINE n == Len(stack)
           file == Child(InHand)
           top == Frame(file, DirOf[file])
<1>1. /\ n \in Nat \ {0}
      /\ Top \in Frames
      /\ file \in WorkflowFiles
      /\ DirOf[file] \in Dirs
  BY InHandType, NestingAssumption DEF Enter, AtNested, IInv
<1>2. /\ file \notin Chain
      /\ n <= MaxDepth
      /\ Validates(disk[file], DirOf[file])
  BY <1>1, NestingAssumption DEF Enter, Entry, Loaded
<1>3. top \in Frames /\ stack \in Seq(Frames)
  BY <1>1, FrameType DEF IInv, TypeOK, Frames
<1>4. /\ stack' \in Seq(Frames)
      /\ Len(stack') = n + 1
      /\ \A i \in 1..n : stack'[i] = stack[i]
      /\ stack'[n + 1] = top
  BY <1>3, AppendProperties DEF Enter
<1>5. top.file = file /\ top.dir = DirOf[file] /\ top.doc = disk[file]
  BY DEF Frame
<1> HIDE DEF file, top
<1>6. TypeOK'
  BY <1>4 DEF Enter, IInv, TypeOK, Frames
<1>7. Reentry'
  <2>1. \A i \in 2..n : stack'[i].file # file
    BY <1>2, <1>4 DEF Chain
  <2>2. \A i \in 2..(n + 1) : i = n + 1 \/ (i \in 2..n /\ i \in 1..n)
    BY <1>1
  <2>3. \A i, j \in 2..n : stack'[i].file = stack'[j].file => i = j
    BY <1>1, <1>4 DEF IInv, Reentry
  <2> QED
    BY <1>1, <1>2, <1>4, <1>5, <2>1, <2>2, <2>3, NestingAssumption DEF Reentry
<1>8. FramesPlaced'
  BY <1>1, <1>4, <1>5 DEF IInv, FramesPlaced
<1>9. FramesLinked'
  <2> SUFFICES ASSUME NEW i \in 2..(n + 1)
               PROVE  stack'[i].file =
                        File(stack'[i - 1].dir,
                             stack'[i - 1].doc.steps[stack'[i - 1].pc].path)
    BY <1>4 DEF FramesLinked, File
  <2>1. CASE i \in 2..n
    BY <1>1, <1>4, <2>1 DEF IInv, FramesLinked
  <2>2. CASE i = n + 1
    <3>1. stack'[i - 1] = Top
      BY <1>1, <1>4, <2>2 DEF Top
    <3> QED
      BY <1>4, <1>5, <2>2, <3>1 DEF file, Child, InHand
  <2> QED
    BY <1>1, <2>1, <2>2
<1>10. FramesSound'
  <2> SUFFICES ASSUME edits = 0, NEW i \in 1..(n + 1)
               PROVE  /\ stack'[i].doc = disk[stack'[i].file]
                      /\ Validates(stack'[i].doc, stack'[i].dir)
    BY <1>4 DEF FramesSound, Validates, File, Enter
  <2>1. CASE i \in 1..n
    BY <1>4, <2>1 DEF IInv, FramesSound
  <2>2. CASE i = n + 1
    BY <1>2, <1>4, <1>5, <2>2
  <2> QED
    BY <1>1, <2>1, <2>2
<1>11. LookAhead'
  BY DEF Enter, IInv, LookAhead
<1> QED
  BY <1>6, <1>7, <1>8, <1>9, <1>10, <1>11 DEF IInv

LEMMA BeginKeeps ==
  ASSUME IInv, Begin
  PROVE  IInv'
<1>1. CASE FirstVerdict # "enter"
  BY <1>1, VerdictTypes, FailKeeps DEF Begin
<1>2. CASE FirstVerdict = "enter"
  <2> DEFINE top == Frame(Start, Base)
  <2>1. Validates(disk[Start], Base)
    BY <1>2 DEF FirstVerdict, Load
  <2>2. top \in Frames
    BY FrameType, NestingAssumption DEF IInv
  <2>3. top.file = Start /\ top.dir = Base /\ top.doc = disk[Start]
    BY DEF Frame
  <2> HIDE DEF top
  <2>4. stack' = <<top>> /\ UNCHANGED <<disk, edits, given, ran, result>>
    BY <1>2 DEF Begin, top
  <2>5. stack' \in Seq(Frames) /\ Len(stack') = 1 /\ stack'[1] = top
    BY <2>2, <2>4
  <2>6. TypeOK'
    BY <2>4, <2>5 DEF IInv, TypeOK, Frames
  <2>7. Reentry' /\ FramesPlaced' /\ FramesLinked'
    BY <2>3, <2>5, NestingAssumption DEF Reentry, FramesPlaced, FramesLinked
  <2>8. FramesSound'
    <3>1. \A i \in 1..Len(stack') :
            /\ stack'[i].doc = disk[stack'[i].file]
            /\ Validates(stack'[i].doc, stack'[i].dir)
      BY <2>1, <2>3, <2>5
    <3> QED
      BY <2>4, <3>1 DEF FramesSound, Validates
  <2>9. LookAhead'
    BY <2>4 DEF IInv, LookAhead
  <2> QED
    BY <2>6, <2>7, <2>8, <2>9 DEF IInv
<1> QED
  BY <1>1, <1>2

\* From the first edit on, the files promise nothing any more.
LEMMA EditKeeps ==
  ASSUME IInv, Edit
  PROVE  IInv'
<1>1. edits' # 0 /\ stack' = stack
  BY NestingAssumption DEF Edit, IInv, TypeOK
<1>2. TypeOK'
  BY NestingAssumption DEF Edit, IInv, TypeOK
<1>3. Reentry' /\ FramesPlaced' /\ FramesLinked'
  BY <1>1 DEF IInv, Reentry, FramesPlaced, FramesLinked
<1>4. FramesSound' /\ LookAhead'
  BY <1>1 DEF FramesSound, LookAhead
<1> QED
  BY <1>2, <1>3, <1>4 DEF IInv

LEMMA Inductive == Spec => []IInv
<1>1. Init => IInv
  <2> SUFFICES ASSUME Init PROVE IInv
    OBVIOUS
  <2>1. stack \in Seq(Frames) /\ Len(stack) = 0
    BY EmptySeq DEF Init
  <2>2. TypeOK
    BY <2>1, NestingAssumption DEF Init, TypeOK, Frames
  <2>3. Reentry /\ FramesPlaced /\ FramesLinked /\ FramesSound /\ LookAhead
    <3>1. \A i \in 1..Len(stack) : FALSE
      BY <2>1
    <3>2. \A i \in 2..Len(stack) : FALSE
      BY <2>1
    <3>3. FramesPlaced /\ FramesLinked /\ FramesSound
      BY <3>1, <3>2, Zenon DEF FramesPlaced, FramesLinked, FramesSound
    <3>4. Reentry /\ LookAhead
      BY <2>1, NestingAssumption DEF Init, Reentry, LookAhead
    <3> QED
      BY <3>3, <3>4
  <2> QED
    BY <2>2, <2>3 DEF IInv
<1>2. IInv /\ [Next]_vars => IInv'
  <2> SUFFICES ASSUME IInv, [Next]_vars PROVE IInv'
    OBVIOUS
  <2>1. CASE Reject
    BY <2>1, VerdictTypes, FailKeeps DEF Reject
  <2>2. CASE RenderFails
    BY <2>2, FailKeeps DEF RenderFails, Errors
  <2>3. CASE UNCHANGED vars
    <3>1. TypeOK' /\ Reentry' /\ LookAhead'
      BY <2>3 DEF vars, IInv, TypeOK, Reentry, LookAhead
    <3>2. FramesPlaced' /\ FramesLinked'
      BY <2>3 DEF vars, IInv, FramesPlaced, FramesLinked
    <3>3. FramesSound'
      BY <2>3 DEF vars, IInv, FramesSound, Validates
    <3> QED
      BY <3>1, <3>2, <3>3 DEF IInv
  <2> QED
    BY <2>1, <2>2, <2>3, BeginKeeps, SkipKeeps, RunLeafKeeps, EnterKeeps,
       ReturnKeeps, EditKeeps DEF Next, Run
<1> QED
  BY <1>1, <1>2, PTL DEF Spec

-----------------------------------------------------------------------------
\* The stack, the files and the result keep their types, whatever the files
\* hold and whoever changes them (engine.rs:173-192, 495-572).
THEOREM NestingTypeCorrect == Spec => []TypeOK
BY Inductive, PTL DEF IInv

\* No file below the first is running twice in one chain, and no chain is
\* longer than the bound, for any references and edits (engine.rs:508-521).
THEOREM NeverReentered == Spec => []Reentry
BY Inductive, PTL DEF IInv

\* With files that do not change, no step has an effect in a workflow of which
\* a direct sub-workflow is missing or invalid (validate.rs:509-541).
THEOREM EffectsAfterLook == Spec => []LookAhead
BY Inductive, PTL DEF IInv

\* A caller that runs a file in the file's own directory has every nested
\* workflow found where its author put it; only such a caller does, as the
\* server shows (types.rs:251, commands/workflow.rs:15, handlers.rs:239).
THEOREM FoundBesideParent ==
  ASSUME Base = DirOf[Start]
  PROVE  Spec => []RelativeToParent
<1>1. IInv => RelativeToParent
  <2> SUFFICES ASSUME IInv, NEW i \in 2..Len(stack)
               PROVE  stack[i].file =
                        File(DirOf[stack[i - 1].file],
                             stack[i - 1].doc.steps[stack[i - 1].pc].path)
    BY DEF RelativeToParent
  <2>1. i - 1 \in 1..Len(stack) /\ Len(stack) \in Nat
    BY LenProperties DEF IInv, TypeOK
  <2>2. stack[i - 1].dir = DirOf[stack[i - 1].file]
    BY <2>1 DEF IInv, FramesPlaced
  <2> QED
    BY <2>2 DEF IInv, FramesLinked
<1> QED
  BY <1>1, Inductive, PTL

-----------------------------------------------------------------------------
\* The files a file refers to, or refers to for certain, in the files d, as Away
\* has them.
Children(d, c, f) == {File(DirOf[f], p) : p \in Named(d[f], c)}

Follows(d, c, f, a) ==
  a = [n \in 0..(MaxDepth + 1) |->
         IF n = 0 THEN {f} ELSE UNION {Children(d, c, g) : g \in a[n - 1]}]

Reach(d, c, f) == CHOOSE a : Follows(d, c, f, a)

LEMMA AwayIsReach ==
  \A f, c : Away(f, c) = Reach(disk, c, f) /\ Away(f, c)' = Reach(disk', c, f)
BY DEF Away, Reach, Follows, Children

\* The children of a file are what its steps name.
LEMMA ChildrenNamed ==
  ASSUME NEW d \in [WorkflowFiles -> Docs], NEW c, NEW f \in WorkflowFiles
  PROVE  /\ Children(d, c, f) \subseteq WorkflowFiles
         /\ \A x : x \in Children(d, c, f) <=>
              \E k \in 1..Len(d[f].steps) :
                /\ d[f].steps[k].path # Leaf
                /\ c = "certain" => ~ d[f].steps[k].arm
                /\ x = File(DirOf[f], d[f].steps[k].path)
<1>1. d[f].steps \in Seq([path : Paths \cup {Leaf}, gives : BOOLEAN, arm : BOOLEAN])
  <2>1. d[f] \in Docs
    OBVIOUS
  <2> QED BY <2>1, NestingAssumption
<1>2. /\ DOMAIN d[f].steps = 1..Len(d[f].steps)
      /\ \A k \in 1..Len(d[f].steps) : d[f].steps[k].path \in Paths \cup {Leaf}
  <2>1. \A k \in 1..Len(d[f].steps) :
          d[f].steps[k] \in [path : Paths \cup {Leaf}, gives : BOOLEAN, arm : BOOLEAN]
    BY <1>1, ElementOfSeq
  <2> QED BY <1>1, <2>1, LenProperties
<1>3. \A p : p \in Named(d[f], c) <=>
        \E k \in 1..Len(d[f].steps) :
          /\ d[f].steps[k].path # Leaf
          /\ c = "certain" => ~ d[f].steps[k].arm
          /\ p = d[f].steps[k].path
  BY <1>2 DEF Named, Steps, Range
<1>4. DirOf[f] \in Dirs
  BY NestingAssumption
<1>5. \A p \in Named(d[f], c) : File(DirOf[f], p) \in WorkflowFiles
  BY <1>2, <1>3, <1>4, FileType
<1>6. Children(d, c, f) \subseteq WorkflowFiles
  BY <1>5 DEF Children
<1>7. \A x : x \in Children(d, c, f) <=>
        \E p \in Named(d[f], c) : x = File(DirOf[f], p)
  BY DEF Children
<1> QED BY <1>3, <1>6, <1>7

\* The recursion of Away has a solution, and this is what it says.
LEMMA ReachSteps ==
  ASSUME NEW d \in [WorkflowFiles -> Docs], NEW c, NEW f \in WorkflowFiles
  PROVE  /\ Reach(d, c, f)[0] = {f}
         /\ \A n \in 0..MaxDepth :
              Reach(d, c, f)[n + 1] = UNION {Children(d, c, g) : g \in Reach(d, c, f)[n]}
         /\ \A n \in 0..(MaxDepth + 1) : Reach(d, c, f)[n] \subseteq WorkflowFiles
<1> DEFINE N == MaxDepth + 1
           S == SUBSET WorkflowFiles
           none == {f}
           step == [p \in S \X (1..N) |-> UNION {Children(d, c, g) : g \in p[1]}]
<1>1. N \in Nat /\ none \in S
  BY NestingAssumption
<1>2. step \in [S \X (1..N) -> S]
  <2>1. ASSUME NEW p \in S \X (1..N)
        PROVE  UNION {Children(d, c, g) : g \in p[1]} \in S
    <3>1. \A g \in p[1] : g \in WorkflowFiles
      OBVIOUS
    <3> QED BY <3>1, ChildrenNamed
  <2> QED BY <2>1
<1>3. PICK a \in [0..N -> S] : Recurs(a, N, none, step)
  <2> HIDE DEF N, S, none, step
  <2> QED BY <1>1, <1>2, Recursion
<1>4. ASSUME NEW n \in 1..N
      PROVE  a[n] = UNION {Children(d, c, g) : g \in a[n - 1]}
  <2>1. n - 1 \in 0..N
    BY <1>1
  <2>2. a[n] = step[<<a[n - 1], n>>] /\ a[n - 1] \in S
    <3> HIDE DEF step, S
    <3> QED BY <1>3, <2>1 DEF Recurs
  <2>3. <<a[n - 1], n>> \in S \X (1..N)
    BY <2>2
  <2> QED BY <2>2, <2>3
<1>5. Follows(d, c, f, a)
  <2>1. a[0] = {f}
    BY <1>3 DEF Recurs
  <2>2. \A n \in 0..N : n = 0 \/ n \in 1..N
    BY <1>1
  <2> QED BY <1>3, <1>4, <2>1, <2>2 DEF Follows
<1> DEFINE r == Reach(d, c, f)
<1>6. Follows(d, c, f, r)
  BY <1>5 DEF Reach
<1> HIDE DEF r
<1>7. r[0] = {f}
  BY <1>1, <1>6 DEF Follows
<1>8. ASSUME NEW n \in 0..MaxDepth
      PROVE  r[n + 1] = UNION {Children(d, c, g) : g \in r[n]}
  <2>1. n + 1 \in 0..(MaxDepth + 1) /\ n + 1 # 0 /\ (n + 1) - 1 = n
    BY NestingAssumption
  <2> QED BY <1>6, <2>1 DEF Follows
<1> DEFINE T == {n \in Nat : n \in 0..N => r[n] \subseteq WorkflowFiles}
<1>9. 0 \in T
  BY <1>7
<1>10. ASSUME NEW n \in Nat, n \in T PROVE n + 1 \in T
  <2> SUFFICES ASSUME n + 1 \in 0..N PROVE r[n + 1] \subseteq WorkflowFiles
    OBVIOUS
  <2>1. n \in 0..MaxDepth /\ r[n] \subseteq WorkflowFiles
    BY <1>10, NestingAssumption
  <2> QED BY <1>8, <2>1, ChildrenNamed
<1> HIDE DEF T
<1>11. Nat \subseteq T
  BY <1>9, <1>10, Induction
<1>12. \A n \in 0..(MaxDepth + 1) : r[n] \subseteq WorkflowFiles
  BY <1>1, <1>11 DEF T
<1> QED BY <1>7, <1>8, <1>12 DEF r

\* What is away from a file is away from its children, one reference less.
LEMMA ReachThrough ==
  ASSUME NEW d \in [WorkflowFiles -> Docs], NEW c, NEW f \in WorkflowFiles
  PROVE  \A n \in 0..MaxDepth :
           Reach(d, c, f)[n + 1] = UNION {Reach(d, c, x)[n] : x \in Children(d, c, f)}
<1> DEFINE T == {n \in Nat : n \in 0..MaxDepth =>
                   Reach(d, c, f)[n + 1] = UNION {Reach(d, c, x)[n] : x \in Children(d, c, f)}}
<1>0. /\ MaxDepth \in Nat
      /\ Children(d, c, f) \subseteq WorkflowFiles
  BY NestingAssumption, ChildrenNamed
<1>1. 0 \in T
  <2>1. Reach(d, c, f)[0 + 1] = UNION {Children(d, c, g) : g \in Reach(d, c, f)[0]}
    BY <1>0, ReachSteps
  <2>2. Reach(d, c, f)[0] = {f} /\ \A x \in Children(d, c, f) : Reach(d, c, x)[0] = {x}
    BY <1>0, ReachSteps
  <2> QED BY <2>1, <2>2
<1>2. ASSUME NEW n \in Nat, n \in T PROVE n + 1 \in T
  <2> SUFFICES ASSUME n + 1 \in 0..MaxDepth
      PROVE  Reach(d, c, f)[(n + 1) + 1] =
               UNION {Reach(d, c, x)[n + 1] : x \in Children(d, c, f)}
    OBVIOUS
  <2>1. n \in 0..MaxDepth
    BY <1>0
  <2>2. Reach(d, c, f)[n + 1] = UNION {Reach(d, c, x)[n] : x \in Children(d, c, f)}
    BY <1>2, <2>1
  <2>3. Reach(d, c, f)[(n + 1) + 1] = UNION {Children(d, c, g) : g \in Reach(d, c, f)[n + 1]}
    BY ReachSteps
  <2>4. \A x \in Children(d, c, f) :
          Reach(d, c, x)[n + 1] = UNION {Children(d, c, g) : g \in Reach(d, c, x)[n]}
    BY <1>0, <2>1, ReachSteps
  <2> QED BY <2>2, <2>3, <2>4
<1> HIDE DEF T
<1>3. Nat \subseteq T
  BY <1>1, <1>2, Induction
<1> QED BY <1>0, <1>3 DEF T

-----------------------------------------------------------------------------
\* The files stay as they are, and the first one is run in its own directory.
Still == edits = 0 /\ Base = DirOf[Start]

\* A workflow that has another one above it stands at a step that names it.
ParentsWait ==
  \A i \in 1..(Len(stack) - 1) :
    /\ stack[i].pc <= Len(stack[i].doc.steps)
    /\ stack[i].doc.steps[stack[i].pc].path # Leaf

\* What a completed step has run for certain was no deeper than the bound allows
\* there.
Shallow(i, k) ==
  Still /\ stack[i].doc.steps[k].path # Leaf /\ ~ stack[i].doc.steps[k].arm =>
    Reach(disk, "certain", File(stack[i].dir, stack[i].doc.steps[k].path))[MaxDepth + 1 - i] = {}

CompletedShallow ==
  \A i \in 1..Len(stack) : \A k \in 1..Len(stack[i].doc.steps) :
    k < stack[i].pc => Shallow(i, k)

NInv == ParentsWait /\ CompletedShallow /\ VerdictSound

\* What IInv says of one running workflow.
LEMMA FrameFacts ==
  ASSUME IInv, NEW i \in 1..Len(stack)
  PROVE  /\ stack[i] \in Frames
         /\ Len(stack[i].doc.steps) \in Nat
         /\ Still => stack[i].dir = DirOf[stack[i].file]
         /\ Still => stack[i].doc = disk[stack[i].file]
<1>1. stack[i] \in Frames
  BY ElementOfSeq, SMTT(30), ZenonT(30) DEF IInv, TypeOK, Frames
<1>2. stack[i].doc.steps \in Seq([path : Paths \cup {Leaf}, gives : BOOLEAN, arm : BOOLEAN])
  BY <1>1, NestingAssumption DEF Frames
<1> QED BY <1>1, <1>2, LenProperties DEF IInv, FramesPlaced, FramesSound, Still

\* With files that stay as they are, the step of a frame leads to a child.
LEMMA StepsLeadToChildren ==
  ASSUME IInv, Still, NEW i \in 1..Len(stack),
         NEW k \in 1..Len(stack[i].doc.steps), stack[i].doc.steps[k].path # Leaf
  PROVE  File(stack[i].dir, stack[i].doc.steps[k].path)
           \in Children(disk, "all", stack[i].file)
<1>1. disk \in [WorkflowFiles -> Docs]
  BY DEF IInv, TypeOK
<1>2. stack[i].file \in WorkflowFiles
  BY FrameFacts DEF Frames
<1>3. stack[i].dir = DirOf[stack[i].file] /\ stack[i].doc = disk[stack[i].file]
  BY FrameFacts
<1> QED BY <1>1, <1>2, <1>3, ChildrenNamed

\* A running workflow is as many references away from those below it as there
\* are frames between them.
LEMMA FramesAway ==
  ASSUME IInv, NInv, Still, NEW i \in 1..Len(stack)
  PROVE  \A n \in Nat :
           i + n <= Len(stack) => stack[i + n].file \in Reach(disk, "all", stack[i].file)[n]
<1> DEFINE T == {n \in Nat : i + n <= Len(stack) =>
                   stack[i + n].file \in Reach(disk, "all", stack[i].file)[n]}
<1>0. /\ Len(stack) \in Nat /\ Len(stack) <= MaxDepth + 1 /\ MaxDepth \in Nat
      /\ disk \in [WorkflowFiles -> Docs]
      /\ stack[i].file \in WorkflowFiles
  BY FrameFacts, LenProperties, NestingAssumption DEF IInv, TypeOK, Reentry, Frames
<1>1. 0 \in T
  BY <1>0, ReachSteps
<1>2. ASSUME NEW n \in Nat, n \in T PROVE n + 1 \in T
  <2> SUFFICES ASSUME i + (n + 1) <= Len(stack)
      PROVE  stack[i + (n + 1)].file \in Reach(disk, "all", stack[i].file)[n + 1]
    OBVIOUS
  <2> DEFINE p == i + n
  <2>1. /\ p \in 1..Len(stack) /\ p \in 1..(Len(stack) - 1) /\ p + 1 \in 2..Len(stack)
        /\ p + 1 = i + (n + 1) /\ (p + 1) - 1 = p /\ n \in 0..MaxDepth
    BY <1>0
  <2>2. stack[p].file \in Reach(disk, "all", stack[i].file)[n]
    BY <1>2, <2>1
  <2> HIDE DEF p
  <2>3. /\ stack[p].pc \in 1..Len(stack[p].doc.steps)
        /\ stack[p].doc.steps[stack[p].pc].path # Leaf
    BY <2>1, FrameFacts DEF NInv, ParentsWait, Frames
  <2>4. stack[p + 1].file \in Children(disk, "all", stack[p].file)
    BY <2>1, <2>3, StepsLeadToChildren DEF IInv, FramesLinked
  <2>5. Reach(disk, "all", stack[i].file)[n + 1] =
          UNION {Children(disk, "all", g) : g \in Reach(disk, "all", stack[i].file)[n]}
    BY <1>0, <2>1, ReachSteps
  <2> QED BY <2>1, <2>2, <2>4, <2>5
<1> HIDE DEF T
<1>3. Nat \subseteq T
  BY <1>1, <1>2, Induction
<1> QED BY <1>3 DEF T

\* Where the step in hand leads from the frames below.
LEMMA ChildAway ==
  ASSUME IInv, NInv, Still, AtNested, NEW i \in 1..Len(stack)
  PROVE  Child(InHand) \in Reach(disk, "all", stack[i].file)[Len(stack) + 1 - i]
<1> DEFINE L == Len(stack)
<1>1. /\ L \in Nat /\ L <= MaxDepth + 1 /\ MaxDepth \in Nat
      /\ disk \in [WorkflowFiles -> Docs]
      /\ stack[i].file \in WorkflowFiles
  BY FrameFacts, LenProperties, NestingAssumption DEF IInv, TypeOK, Reentry, Frames
<1>2. L \in 1..L /\ L - i \in 0..MaxDepth /\ i + (L - i) = L /\ (L - i) + 1 = L + 1 - i
  BY <1>1
<1>3. stack[L].file \in Reach(disk, "all", stack[i].file)[L - i]
  BY <1>2, FramesAway
<1>4. stack[L].pc \in 1..Len(stack[L].doc.steps)
  BY <1>2, FrameFacts DEF AtNested, AtStep, Top, Frames
<1>5. Child(InHand) \in Children(disk, "all", stack[L].file)
  BY <1>2, <1>4, StepsLeadToChildren DEF AtNested, Child, InHand, Top
<1>6. Reach(disk, "all", stack[i].file)[(L - i) + 1] =
        UNION {Children(disk, "all", g) : g \in Reach(disk, "all", stack[i].file)[L - i]}
  BY <1>1, <1>2, ReachSteps
<1> QED BY <1>2, <1>3, <1>5, <1>6

\* A workflow whose steps are done was itself no deeper than the bound.
LEMMA DoneShallow ==
  ASSUME IInv, NInv, Still, stack # <<>>, ~AtStep
  PROVE  Reach(disk, "certain", Top.file)[MaxDepth + 2 - Len(stack)] = {}
<1> DEFINE L == Len(stack)
           f == stack[L].file
           steps == stack[L].doc.steps
<1>1. /\ L \in Nat \ {0} /\ L <= MaxDepth + 1 /\ MaxDepth \in Nat
      /\ disk \in [WorkflowFiles -> Docs]
  BY EmptySeq, LenProperties, NestingAssumption DEF IInv, TypeOK, Reentry
<1>2. /\ stack[L] \in Frames /\ Len(steps) \in Nat
      /\ stack[L].dir = DirOf[f] /\ stack[L].doc = disk[f]
  BY <1>1, FrameFacts
<1>3. stack[L].pc \in Nat /\ ~ (stack[L].pc <= Len(steps))
  BY <1>2 DEF AtStep, Top, Frames
<1>4. /\ f \in WorkflowFiles
      /\ MaxDepth + 1 - L \in 0..MaxDepth
      /\ MaxDepth + 2 - L = (MaxDepth + 1 - L) + 1
  BY <1>1, <1>2 DEF Frames
<1>5. ASSUME NEW c \in Children(disk, "certain", f)
      PROVE  Reach(disk, "certain", c)[MaxDepth + 1 - L] = {}
  <2>1. PICK k \in 1..Len(steps) :
          steps[k].path # Leaf /\ ~ steps[k].arm /\ c = File(stack[L].dir, steps[k].path)
    BY <1>1, <1>2, <1>4, ChildrenNamed
  <2>2. k < stack[L].pc /\ L \in 1..Len(stack)
    BY <1>1, <1>2, <1>3
  <2> QED BY <2>1, <2>2 DEF NInv, CompletedShallow, Shallow
<1>6. Reach(disk, "certain", f)[(MaxDepth + 1 - L) + 1] =
        UNION {Reach(disk, "certain", c)[MaxDepth + 1 - L] : c \in Children(disk, "certain", f)}
  BY <1>1, <1>4, ReachThrough
<1>7. Reach(disk, "certain", f)[(MaxDepth + 1 - L) + 1] = {}
  BY <1>5, <1>6
<1> QED BY <1>4, <1>7 DEF Top

-----------------------------------------------------------------------------
\* A step that keeps n frames keeps what is known of them, if the step that the
\* last of them completes, if any, is no deeper than the bound.
LEMMA KeepsShallow ==
  ASSUME IInv, NInv, NEW n \in 0..Len(stack), Keeps(n),
         disk' = disk, edits' = edits,
         n # 0 => \A k \in 1..Len(stack[n].doc.steps) :
                    k < stack'[n].pc => k < stack[n].pc \/ Shallow(n, k)
  PROVE  ParentsWait' /\ CompletedShallow'
<1>0. Len(stack) \in Nat /\ n \in Nat /\ Len(stack') = n
  BY LenProperties DEF IInv, TypeOK, Keeps
<1>1. ParentsWait'
  <2> SUFFICES ASSUME NEW i \in 1..(n - 1)
      PROVE  /\ stack'[i].pc <= Len(stack'[i].doc.steps)
             /\ stack'[i].doc.steps[stack'[i].pc].path # Leaf
    BY <1>0 DEF ParentsWait
  <2>1. i \in 1..(Len(stack) - 1) /\ i \in 1..n /\ i < n
    BY <1>0
  <2> QED BY <2>1 DEF NInv, ParentsWait, Keeps
<1>2. CompletedShallow'
  <2> SUFFICES ASSUME NEW i \in 1..n, NEW k \in 1..Len(stack'[i].doc.steps),
                      k < stack'[i].pc
      PROVE  Shallow(i, k)'
    BY <1>0 DEF CompletedShallow
  <2>1. i \in 1..Len(stack) /\ stack'[i].doc = stack[i].doc /\ stack'[i].dir = stack[i].dir
    BY <1>0 DEF Keeps
  <2>2. Shallow(i, k)
    <3>1. CASE i = n
      BY <1>0, <2>1, <3>1 DEF NInv, CompletedShallow
    <3>2. CASE i # n
      <4>1. i < n
        BY <3>2
      <4>2. stack'[i].pc = stack[i].pc
        BY <4>1 DEF Keeps
      <4> QED BY <2>1, <4>2 DEF NInv, CompletedShallow
    <3> QED BY <3>1, <3>2
  <2> QED BY <2>1, <2>2 DEF Shallow, Still
<1> QED BY <1>1, <1>2

LEMMA VerdictStays ==
  ASSUME VerdictSound, disk' = disk, edits' = edits, result' = result
  PROVE  VerdictSound'
<1>1. \A f, c : Away(f, c)' = Away(f, c)
  BY AwayIsReach
<1> QED BY <1>1 DEF VerdictSound

\* Only three ends say something of the references.
LEMMA OtherVerdicts ==
  ASSUME result' \notin {"ok", "depth", "cycle"}
  PROVE  VerdictSound'
BY DEF VerdictSound

LEMMA FailKeepsShallow ==
  ASSUME IInv, NInv, NEW error, Fail(error)
  PROVE  ParentsWait' /\ CompletedShallow'
<1>1. Keeps(0) /\ Len(stack) \in Nat
  BY EmptyKeeps, LenProperties DEF Fail, IInv, TypeOK
<1> QED BY <1>1, KeepsShallow DEF Fail

LEMMA RejectKeepsNested ==
  ASSUME IInv, NInv, Reject
  PROVE  NInv'
<1> DEFINE file == Child(InHand)
<1>1. ParentsWait' /\ CompletedShallow'
  BY FailKeepsShallow DEF Reject
<1>2. result' = Entry(InHand) /\ disk' = disk /\ edits' = edits /\ AtNested
  BY DEF Reject, Fail
<1>3. Entry(InHand) # "ok" /\ Entry(InHand) # "enter"
  BY <1>2, VerdictTypes DEF Reject, Entry, Load, Loaded
<1>4. /\ Len(stack) \in Nat \ {0} /\ Len(stack) <= MaxDepth + 1 /\ MaxDepth \in Nat
      /\ file \in WorkflowFiles
  BY <1>2, InHandType, NestingAssumption DEF IInv, Reentry, AtNested
<1>5. ASSUME Still, Entry(InHand) = "depth"
      PROVE  Reach(disk, "all", Start)[MaxDepth + 1] # {}
  <2>1. Len(stack) = MaxDepth + 1
    BY <1>4, <1>5 DEF Entry, Loaded, Load
  <2>2. 1 \in 1..Len(stack) /\ Len(stack) + 1 - 1 = MaxDepth + 1
    BY <1>4, <2>1
  <2>3. stack[1].file = Start
    BY <2>2 DEF IInv, FramesPlaced
  <2>4. file \in Reach(disk, "all", stack[1].file)[Len(stack) + 1 - 1]
    BY <1>2, <1>5, <2>2, ChildAway
  <2> QED BY <2>2, <2>3, <2>4
<1>6. ASSUME Still, Entry(InHand) = "cycle"
      PROVE  \E f \in WorkflowFiles : \E n \in 1..MaxDepth : f \in Reach(disk, "all", f)[n]
  <2>1. file \in Chain
    BY <1>6 DEF Entry, Loaded, Load
  <2>2. PICK i \in 2..Len(stack) : file = stack[i].file
    BY <2>1 DEF Chain
  <2>3. i \in 1..Len(stack) /\ Len(stack) + 1 - i \in 1..MaxDepth
    BY <1>4
  <2>4. file \in Reach(disk, "all", stack[i].file)[Len(stack) + 1 - i]
    BY <1>2, <1>6, <2>3, ChildAway
  <2> QED BY <1>4, <2>2, <2>3, <2>4
<1>7. VerdictSound'
  <2>1. \A f, c : Away(f, c)' = Reach(disk, c, f)
    BY <1>2, AwayIsReach
  <2> QED BY <1>2, <1>3, <1>5, <1>6, <2>1 DEF VerdictSound, Still
<1> QED BY <1>1, <1>7 DEF NInv

LEMMA SkipKeepsNested ==
  ASSUME IInv, NInv, Skip
  PROVE  NInv'
<1> DEFINE n == Len(stack)
<1>1. n \in Nat \ {0} /\ n \in 1..n /\ Top \in Frames /\ stack[n] = Top
  BY InHandType DEF Skip, IInv, Top
<1>2. Keeps(n)
  BY AdvancedKeeps DEF Skip, AtStep, IInv
<1>3. stack'[n].pc = stack[n].pc + 1
  <2>1. stack \in Seq(Frames)
    BY DEF IInv, TypeOK, Frames
  <2> QED BY <1>1, <2>1 DEF Skip, Advanced, Frames
<1>4. Shallow(n, stack[n].pc)
  BY <1>1 DEF Skip, InHand, Shallow
<1>5. \A k \in 1..Len(stack[n].doc.steps) :
        k < stack'[n].pc => k < stack[n].pc \/ Shallow(n, k)
  <2>1. stack[n].pc \in Nat
    BY <1>1 DEF Frames
  <2>2. \A k \in 1..Len(stack[n].doc.steps) :
          k < stack[n].pc + 1 => k < stack[n].pc \/ k = stack[n].pc
    BY <2>1
  <2> QED BY <1>3, <1>4, <2>2
<1>6. ParentsWait' /\ CompletedShallow'
  BY <1>1, <1>2, <1>5, KeepsShallow DEF Skip
<1> QED BY <1>6, VerdictStays DEF NInv, Skip

LEMMA RunLeafKeepsNested ==
  ASSUME IInv, NInv, RunLeaf
  PROVE  NInv'
<1> DEFINE n == Len(stack)
<1>1. n \in Nat \ {0} /\ n \in 1..n /\ Top \in Frames /\ stack[n] = Top
  BY InHandType DEF RunLeaf, IInv, Top
<1>2. CASE stack' = Advanced /\ UNCHANGED result
  <2>1. Keeps(n)
    BY <1>1, <1>2, AdvancedKeeps DEF RunLeaf, AtStep, IInv
  <2>2. stack'[n].pc = stack[n].pc + 1
    <3>1. stack \in Seq(Frames)
      BY DEF IInv, TypeOK, Frames
    <3> QED BY <1>1, <1>2, <3>1 DEF Advanced, Frames
  <2>3. Shallow(n, stack[n].pc)
    BY <1>1 DEF RunLeaf, InHand, Shallow
  <2>4. \A k \in 1..Len(stack[n].doc.steps) :
          k < stack'[n].pc => k < stack[n].pc \/ Shallow(n, k)
    <3>1. stack[n].pc \in Nat
      BY <1>1 DEF Frames
    <3>2. \A k \in 1..Len(stack[n].doc.steps) :
            k < stack[n].pc + 1 => k < stack[n].pc \/ k = stack[n].pc
      BY <3>1
    <3> QED BY <2>2, <2>3, <3>2
  <2>5. ParentsWait' /\ CompletedShallow'
    BY <1>1, <2>1, <2>4, KeepsShallow DEF RunLeaf
  <2> QED BY <1>2, <2>5, VerdictStays DEF NInv, RunLeaf
<1>3. CASE stack' = <<>> /\ result' = "leafFailed"
  <2>1. ParentsWait' /\ CompletedShallow'
    BY <1>1, <1>3, EmptyKeeps, KeepsShallow DEF RunLeaf
  <2> QED BY <1>3, <2>1, OtherVerdicts DEF NInv
<1> QED BY <1>2, <1>3 DEF RunLeaf

LEMMA EnterKeepsNested ==
  ASSUME IInv, NInv, Enter
  PROVE  NInv'
<1> DEFINE n == Len(stack)
           top == Frame(Child(InHand), DirOf[Child(InHand)])
<1>1. /\ n \in Nat \ {0} /\ Top = stack[n] /\ Top \in Frames
      /\ Top.pc <= Len(Top.doc.steps) /\ Top.doc.steps[Top.pc].path # Leaf
  BY InHandType DEF Enter, AtNested, AtStep, InHand, IInv, Top
<1>2. /\ Len(stack') = n + 1
      /\ \A i \in 1..n : stack'[i] = stack[i]
      /\ stack'[n + 1] = top
  <2>1. stack \in Seq(Frames) /\ top \in Frames
    BY InHandType, FrameType, NestingAssumption DEF Enter, AtNested, IInv, TypeOK, Frames
  <2> HIDE DEF top
  <2> QED BY <2>1, AppendProperties DEF Enter, top
<1>3. top.pc = 1
  BY DEF Frame
<1> HIDE DEF top
<1>4. ParentsWait'
  <2> SUFFICES ASSUME NEW i \in 1..n
      PROVE  /\ stack'[i].pc <= Len(stack'[i].doc.steps)
             /\ stack'[i].doc.steps[stack'[i].pc].path # Leaf
    BY <1>1, <1>2 DEF ParentsWait
  <2>1. i = n \/ i \in 1..(n - 1)
    BY <1>1
  <2> QED BY <1>1, <1>2, <2>1 DEF NInv, ParentsWait
<1>5. CompletedShallow'
  <2> SUFFICES ASSUME NEW i \in 1..(n + 1), NEW k \in 1..Len(stack'[i].doc.steps),
                      k < stack'[i].pc
      PROVE  Shallow(i, k)'
    BY <1>2 DEF CompletedShallow
  <2>1. i \in 1..n
    <3>1. i # n + 1
      BY <1>2, <1>3
    <3> QED BY <1>1, <3>1
  <2>2. stack'[i] = stack[i] /\ Shallow(i, k)
    BY <1>2, <2>1 DEF NInv, CompletedShallow
  <2> QED BY <2>2 DEF Shallow, Still, Enter
<1> QED BY <1>4, <1>5, VerdictStays DEF NInv, Enter

\* The step that the parent completes is the workflow that is done.
LEMMA ReturnKeepsNested ==
  ASSUME IInv, NInv, Return
  PROVE  NInv'
<1> DEFINE L == Len(stack)
<1>1. /\ L \in Nat \ {0} /\ stack \in Seq(Frames)
      /\ disk' = disk /\ edits' = edits
  BY EmptySeq DEF Return, IInv, TypeOK, Frames
<1>2. CASE L = 1 /\ stack' = <<>> /\ result' = "ok"
  <2>1. ParentsWait' /\ CompletedShallow'
    BY <1>1, <1>2, EmptyKeeps, KeepsShallow
  <2>2. Still => Reach(disk, "certain", Start)[MaxDepth + 1] = {}
    <3>1. Top.file = Start
      BY <1>2 DEF IInv, FramesPlaced, Top
    <3>2. MaxDepth + 2 - L = MaxDepth + 1
      BY <1>2, NestingAssumption
    <3> QED BY <3>1, <3>2, DoneShallow DEF Return
  <2>3. VerdictSound'
    <3>1. Away(Start, "certain")' = Reach(disk, "certain", Start)
      BY <1>1, AwayIsReach
    <3> QED BY <1>1, <1>2, <2>2, <3>1 DEF VerdictSound, Still
  <2> QED BY <2>1, <2>3 DEF NInv
<1>3. CASE /\ L > 1 /\ UNCHANGED result
           /\ stack' = [SubSeq(stack, 1, L - 1) EXCEPT ![L - 1].pc = @ + 1]
  <2> DEFINE n == L - 1
  <2>1. Keeps(n) /\ n \in 0..L /\ n \in 1..L /\ n + 1 = L /\ L \in 2..L
    BY <1>1, <1>3, ReturnedKeeps DEF IInv
  <2>2. stack'[n].pc = stack[n].pc + 1 /\ stack[n].pc \in Nat
    <3> DEFINE q == SubSeq(stack, 1, n)
    <3>1. q \in Seq(Frames) /\ Len(q) = n /\ \A i \in 1..n : q[i] = stack[i]
      BY <1>1, <2>1, SubSeqProperties
    <3>2. q[n] \in Frames /\ q[n] = stack[n]
      BY <2>1, <3>1, ElementOfSeq
    <3>3. stack' = [q EXCEPT ![n] = [q[n] EXCEPT !.pc = @ + 1]]
      BY <1>3
    <3> HIDE DEF q
    <3>4. stack'[n] = [q[n] EXCEPT !.pc = @ + 1]
      BY <2>1, <3>1, <3>3
    <3> QED BY <3>2, <3>4 DEF Frames
  <2>3. Shallow(n, stack[n].pc)
    <3>1. stack[L].file = File(stack[n].dir, stack[n].doc.steps[stack[n].pc].path)
      BY <2>1 DEF IInv, FramesLinked
    <3>2. MaxDepth + 2 - L = MaxDepth + 1 - n
      BY <1>1, NestingAssumption
    <3>3. Still => Reach(disk, "certain", stack[L].file)[MaxDepth + 2 - L] = {}
      BY DoneShallow DEF Return, Top
    <3> QED BY <3>1, <3>2, <3>3 DEF Shallow
  <2>4. \A k \in 1..Len(stack[n].doc.steps) :
          k < stack'[n].pc => k < stack[n].pc \/ Shallow(n, k)
    <3>1. \A k \in 1..Len(stack[n].doc.steps) :
            k < stack[n].pc + 1 => k < stack[n].pc \/ k = stack[n].pc
      BY <2>2
    <3> QED BY <2>2, <2>3, <3>1
  <2>5. ParentsWait' /\ CompletedShallow'
    BY <1>1, <2>1, <2>4, KeepsShallow
  <2> QED BY <1>1, <1>3, <2>5, VerdictStays DEF NInv
<1> QED BY <1>2, <1>3 DEF Return

LEMMA BeginKeepsNested ==
  ASSUME IInv, NInv, Begin
  PROVE  NInv'
<1>1. CASE FirstVerdict # "enter" /\ Fail(FirstVerdict)
  <2>1. ParentsWait' /\ CompletedShallow'
    BY <1>1, FailKeepsShallow
  <2>2. result' \notin {"ok", "depth", "cycle"}
    BY <1>1 DEF FirstVerdict, Fail, Load
  <2> QED BY <2>1, <2>2, OtherVerdicts DEF NInv
<1>2. CASE FirstVerdict = "enter" /\ stack' = <<Frame(Start, Base)>>
           /\ UNCHANGED <<disk, edits, given, ran, result>>
  <2>1. Len(stack') = 1 /\ stack'[1].pc = 1
    BY <1>2 DEF Frame
  <2>2. \A i \in 1..(Len(stack') - 1) : FALSE
    BY <2>1
  <2>3. \A i \in 1..Len(stack') : i = 1
    BY <2>1
  <2>4. \A k \in 1..Len(stack'[1].doc.steps) : ~ (k < stack'[1].pc)
    BY <2>1
  <2>5. ParentsWait' /\ CompletedShallow'
    BY <2>2, <2>3, <2>4 DEF ParentsWait, CompletedShallow
  <2> QED BY <1>2, <2>5, VerdictStays DEF NInv
<1> QED BY <1>1, <1>2 DEF Begin

LEMMA EditKeepsNested ==
  ASSUME IInv, NInv, Edit
  PROVE  NInv'
<1>1. edits' # 0 /\ stack' = stack
  BY NestingAssumption DEF Edit, IInv, TypeOK
<1> QED BY <1>1 DEF NInv, ParentsWait, CompletedShallow, Shallow, Still, VerdictSound

\* What a run says of the nesting is what the files' references say: it ends
\* well only if no chain of references that stand in no arm of a branch is longer
\* than the bound, it reports the depth only if some chain of references is, and
\* a cycle only if a file leads back to itself (engine.rs:382-405, 508-521).
THEOREM VerdictTold == Spec => []VerdictSound
<1>1. Init => NInv
  <2> SUFFICES ASSUME Init PROVE NInv
    OBVIOUS
  <2>1. Len(stack) = 0
    BY EmptySeq DEF Init
  <2>2. (\A i \in 1..Len(stack) : FALSE) /\ \A i \in 1..(Len(stack) - 1) : FALSE
    BY <2>1
  <2>3. ParentsWait /\ CompletedShallow
    BY <2>2, Zenon DEF ParentsWait, CompletedShallow
  <2>4. VerdictSound
    BY DEF Init, VerdictSound
  <2> QED BY <2>3, <2>4 DEF NInv
<1>2. IInv /\ NInv /\ [Next]_vars => NInv'
  <2> SUFFICES ASSUME IInv, NInv, [Next]_vars PROVE NInv'
    OBVIOUS
  <2>1. CASE RenderFails
    <3>1. result' = "template"
      BY <2>1 DEF RenderFails, Fail
    <3> QED BY <2>1, <3>1, FailKeepsShallow, OtherVerdicts DEF NInv, RenderFails
  <2>2. CASE UNCHANGED vars
    <3>1. ParentsWait' /\ CompletedShallow'
      BY <2>2 DEF vars, NInv, ParentsWait, CompletedShallow, Shallow, Still
    <3> QED BY <2>2, <3>1, VerdictStays DEF vars, NInv
  <2> QED
    BY <2>1, <2>2, BeginKeepsNested, SkipKeepsNested, RunLeafKeepsNested, RejectKeepsNested,
       EnterKeepsNested, ReturnKeepsNested, EditKeepsNested DEF Next, Run
<1>3. NInv => VerdictSound
  BY DEF NInv
<1> QED BY <1>1, <1>2, <1>3, Inductive, PTL DEF Spec
=============================================================================
