---------------------------- MODULE WorkflowNesting ----------------------------
(***************************************************************************)
(* Workflows that run other workflow files: the sub_workflow step of       *)
(* crates/mv-core/src/workflow/engine.rs with its stack of running files,  *)
(* the loader of parser.rs and the look-ahead of validate.rs into the      *)
(* files a workflow refers to.                                             *)
(*                                                                         *)
(* A file is what it holds: steps that are leaves or name another file by  *)
(* a path, which is resolved in the directory the workflow runs in.  The   *)
(* steps of a file stand in one list, those of a branch's arms too, and a  *)
(* run may pass over any step of an arm: what is never passed over is what *)
(* stands in no arm.  The body of a loop stands there once per iteration.  *)
(* Several paths may lead to one file, and files may be edited, broken or  *)
(* deleted while a workflow runs.  The children of a parallel step each    *)
(* carry a stack of their own, so one line of execution stands for any of  *)
(* them; what a leaf does is left to WorkflowEngine.                       *)
(*                                                                         *)
(* ValidatesShallow, FrameBeforeFirst, EntryUnseen, EntryTooShallow and    *)
(* ReturnAgain are slips the properties must catch; nothing in the         *)
(* specification uses them.                                                *)
(***************************************************************************)
EXTENDS Naturals, Sequences, Functions

CONSTANTS
  WorkflowFiles,  \* the files, by their canonical paths
  Paths,          \* the paths as workflows write them
  Dirs,           \* the directories the files are in
  DirOf,          \* the directory of each file
  Target,         \* the file a path leads to from a directory
  Leaf,           \* the path of a step that runs no file
  Docs,           \* what a file may hold
  Disks,          \* the files' first contents
  Written,        \* what an edit may leave in a file
  Start,          \* the file the caller runs
  Base,           \* the directory the caller has it run in
  MaxDepth,       \* MAX_WORKFLOW_DEPTH
  MaxEdits        \* bound on the changes of files during a run

ASSUME NestingAssumption ==
  /\ MaxDepth \in Nat
  /\ MaxEdits \in Nat
  /\ Start \in WorkflowFiles
  /\ Leaf \notin Paths
  /\ Base \in Dirs
  /\ DirOf \in [WorkflowFiles -> Dirs]
  /\ Target \in [Dirs \X Paths -> WorkflowFiles]
  /\ Docs \subseteq
       [state : {"ok", "unsound", "broken", "gone"},
        needs : BOOLEAN,
        steps : Seq([path : Paths \cup {Leaf}, gives : BOOLEAN, arm : BOOLEAN])]
  /\ Disks \subseteq [WorkflowFiles -> Docs]
  /\ Written \subseteq Docs

VARIABLES
  disk,    \* what each file holds
  edits,   \* changes so far
  given,   \* the caller supplies the inputs the first workflow requires
  stack,   \* the running workflows: file, directory, what was loaded, next step
  ran,     \* the files of which a leaf step has run, with their directories
  result   \* "none" while the run is under way

vars == <<disk, edits, given, stack, ran, result>>

Errors == {"notFound", "parseError", "invalid", "stepError", "stepFailed",
           "cycle", "depth", "template", "inputMissing", "leafFailed"}

Init ==
  /\ disk \in Disks
  /\ edits = 0
  /\ given \in BOOLEAN
  /\ stack = <<>>
  /\ ran = {}
  /\ result = "none"

-----------------------------------------------------------------------------
\* Loading and validating

\* The directory joined with the path, canonicalized.
File(dir, path) == Target[dir, path]

Steps(doc) == Range(doc.steps)
Refers(doc) == {s.path : s \in Steps(doc)} \ {Leaf}

\* load_from_file: the file may be missing, or hold no workflow.
Load(doc) ==
  CASE doc.state = "gone" -> "notFound"
    [] doc.state = "broken" -> "parseError"
    [] OTHER -> "loaded"

\* What validate says of a file by itself: anything but its sub-workflows.
SoundAlone(doc) == doc.state = "ok" /\ doc.steps # <<>>

ValidatesShallow(doc, dir) == SoundAlone(doc)

\* validate with a directory: the files the workflow refers to are loaded and
\* validated too, but not the files those refer to.
Validates(doc, dir) ==
  /\ SoundAlone(doc)
  /\ \A p \in Refers(doc) : SoundAlone(disk[File(dir, p)])

FrameBeforeFirst(file, dir) ==
  [file |-> file, dir |-> dir, doc |-> disk[file], pc |-> 0]

Frame(file, dir) == [file |-> file, dir |-> dir, doc |-> disk[file], pc |-> 1]

Top == stack[Len(stack)]
AtStep == stack # <<>> /\ Top.pc <= Len(Top.doc.steps)
InHand == Top.doc.steps[Top.pc]
Child(step) == File(Top.dir, step.path)

\* The files on the stack of the cycle check: the first workflow's is not.
Chain == {stack[i].file : i \in 2..Len(stack)}

Fail(error) ==
  /\ result' = error
  /\ stack' = <<>>
  /\ UNCHANGED <<disk, edits, given, ran>>

-----------------------------------------------------------------------------
\* The caller's workflow: loaded, validated, its inputs resolved.

FirstVerdict ==
  LET doc == disk[Start]
  IN IF Load(doc) # "loaded" THEN Load(doc)
     ELSE IF ~Validates(doc, Base) THEN "invalid"
     ELSE IF doc.needs /\ ~given THEN "inputMissing"
     ELSE "enter"

Begin ==
  /\ result = "none"
  /\ stack = <<>>
  /\ \/ FirstVerdict # "enter" /\ Fail(FirstVerdict)
     \/ /\ FirstVerdict = "enter"
        /\ stack' = <<Frame(Start, Base)>>
        /\ UNCHANGED <<disk, edits, given, ran, result>>

-----------------------------------------------------------------------------
\* The steps of the workflow on top of the stack

Advanced == [stack EXCEPT ![Len(stack)].pc = @ + 1]

\* The step is in the arm that the condition did not choose.
Skip ==
  /\ AtStep
  /\ InHand.arm
  /\ stack' = Advanced
  /\ UNCHANGED <<disk, edits, given, ran, result>>

RunLeaf ==
  /\ AtStep
  /\ InHand.path = Leaf
  /\ ran' = ran \cup {<<Top.file, Top.dir>>}
  /\ \/ stack' = Advanced /\ UNCHANGED result
     \/ stack' = <<>> /\ result' = "leafFailed"
  /\ UNCHANGED <<disk, edits, given>>

\* Why a file that is there is not run, apart from the stack's checks.
Loaded(step, file) ==
  LET doc == disk[file]
  IN IF Load(doc) # "loaded" THEN "stepError"
     ELSE IF ~Validates(doc, DirOf[file]) THEN "stepFailed"
     ELSE IF doc.needs /\ ~step.gives THEN "inputMissing"
     ELSE "enter"

EntryUnseen(step) ==
  LET file == Child(step)
  IN IF disk[file].state = "gone" THEN "notFound"
     ELSE IF Len(stack) > MaxDepth THEN "depth"
     ELSE Loaded(step, file)

EntryTooShallow(step) ==
  LET file == Child(step)
  IN IF disk[file].state = "gone" THEN "notFound"
     ELSE IF file \in Chain THEN "cycle"
     ELSE IF Len(stack) >= MaxDepth THEN "depth"
     ELSE Loaded(step, file)

\* The checks before a nested workflow runs, in their order.  The stack holds
\* one workflow more than the chain the code counts.
Entry(step) ==
  LET file == Child(step)
  IN IF disk[file].state = "gone" THEN "notFound"
     ELSE IF file \in Chain THEN "cycle"
     ELSE IF Len(stack) > MaxDepth THEN "depth"
     ELSE Loaded(step, file)

AtNested == AtStep /\ InHand.path # Leaf

Reject ==
  /\ AtNested
  /\ Entry(InHand) # "enter"
  /\ Fail(Entry(InHand))

\* The inputs are rendered after the checks, against the parent's outputs; the
\* condition of a branch is evaluated before either arm.
RenderFails ==
  /\ \/ AtNested /\ Entry(InHand) \in {"enter", "inputMissing"}
     \/ AtStep /\ InHand.arm
  /\ Fail("template")

Enter ==
  /\ AtNested
  /\ Entry(InHand) = "enter"
  /\ stack' = Append(stack, Frame(Child(InHand), DirOf[Child(InHand)]))
  /\ UNCHANGED <<disk, edits, given, ran, result>>

ReturnAgain ==
  /\ stack # <<>>
  /\ ~AtStep
  /\ stack' = SubSeq(stack, 1, Len(stack) - 1)
  /\ result' = IF Len(stack) = 1 THEN "ok" ELSE result
  /\ UNCHANGED <<disk, edits, given, ran>>

\* The last step is done: the outputs go to the parent, which moves on.
Return ==
  /\ stack # <<>>
  /\ ~AtStep
  /\ \/ /\ Len(stack) = 1
        /\ stack' = <<>>
        /\ result' = "ok"
     \/ /\ Len(stack) > 1
        /\ stack' = [SubSeq(stack, 1, Len(stack) - 1)
                       EXCEPT ![Len(stack) - 1].pc = @ + 1]
        /\ UNCHANGED result
  /\ UNCHANGED <<disk, edits, given, ran>>

\* Somebody else changes a file.
Edit ==
  /\ edits < MaxEdits
  /\ result = "none"
  /\ edits' = edits + 1
  /\ \E f \in WorkflowFiles : \E doc \in Written : disk' = [disk EXCEPT ![f] = doc]
  /\ UNCHANGED <<given, stack, ran, result>>

Run == Begin \/ Skip \/ RunLeaf \/ Reject \/ RenderFails \/ Enter \/ Return

Next == Run \/ Edit

Spec == Init /\ [][Next]_vars

\* A leaf comes back, with a value or an error.
FairSpec == Spec /\ WF_vars(Run)
-----------------------------------------------------------------------------
TypeOK ==
  /\ disk \in [WorkflowFiles -> Docs]
  /\ edits \in 0..MaxEdits
  /\ given \in BOOLEAN
  /\ stack \in Seq([file : WorkflowFiles, dir : Dirs, doc : Docs, pc : Nat \ {0}])
  /\ ran \subseteq WorkflowFiles \X Dirs
  /\ result \in Errors \cup {"none", "ok"}

\* However the files refer to each other and change meanwhile, no file that
\* runs is entered again, and the nesting is bounded.  The first workflow is
\* the exception: the chain begins below it, so it may be entered once more
\* (engine.rs:173-192, 508-521).
Reentry ==
  /\ \A i, j \in 2..Len(stack) : stack[i].file = stack[j].file => i = j
  /\ Len(stack) <= MaxDepth + 1

\* The files a workflow refers to were looked at before its first step had an
\* effect: with files that do not change, no step of a workflow runs when one
\* of its direct sub-workflows is missing, unreadable or invalid
\* (validate.rs:509-541, engine.rs:527-544).
LookAhead ==
  edits = 0 =>
    \A r \in ran : \A p \in Refers(disk[r[1]]) :
      SoundAlone(disk[File(r[2], p)])

\* What a file refers to at all, and what it refers to in no arm of a branch.
Named(doc, which) ==
  {step.path : step \in {t \in Steps(doc) : which = "certain" => ~ t.arm}} \ {Leaf}

\* The files n references away from a file, over all or the certain ones.
Away(file, which) ==
  LET away[n \in 0..(MaxDepth + 1)] ==
        IF n = 0 THEN {file}
        ELSE UNION {{File(DirOf[f], p) : p \in Named(disk[f], which)} :
                    f \in away[n - 1]}
  IN away

\* What the run says of the nesting is what the files' references say: it
\* succeeds only if no chain of references that a run cannot pass over is longer
\* than the bound, and so none is circular; it reports the depth only if some
\* chain is longer, and a cycle only if a file leads back to itself.  An arm that
\* is not taken may hold any chain (engine.rs:382-405, 508-521).  It is about a
\* caller that runs the file in the file's own directory.
VerdictSound ==
  edits = 0 /\ Base = DirOf[Start] =>
    /\ result = "ok" => Away(Start, "certain")[MaxDepth + 1] = {}
    /\ result = "depth" => Away(Start, "all")[MaxDepth + 1] # {}
    /\ result = "cycle" =>
         \E f \in WorkflowFiles : \E n \in 1..MaxDepth : f \in Away(f, "all")[n]

\* A nested workflow is the file that its step names, seen from the directory
\* of the workflow the step is in (types.rs:251, engine.rs:496-497).
RelativeToParent ==
  \A i \in 2..Len(stack) :
    LET parent == stack[i - 1]
    IN stack[i].file =
         File(DirOf[parent.file], parent.doc.steps[parent.pc].path)

\* A run comes to its end, whatever the files hold.
Terminates == <>(result # "none")
=============================================================================
