---------------------------- MODULE WorkflowValidate ----------------------------
(***************************************************************************)
(* The workflow step tree and the structural validator of mv-core          *)
(* (workflow/types.rs, workflow/validate.rs).                              *)
(*                                                                         *)
(* A workflow is a record w.  Its steps are numbered 1..w.size in document *)
(* order (a step before the steps nested in it, a list before what follows *)
(* it), and 0 stands for "no step" and, as a parent, for the top level.    *)
(* The nested lists of the code are kept as functions on step numbers:     *)
(*                                                                         *)
(*   kind             the variant of Step                                  *)
(*   parent, next     the enclosing control step; the next step of a list  *)
(*   then, thenEnd    first and last step of a `then` arm, of a loop body  *)
(*                    and (for 0) of the top-level list; 0 when empty      *)
(*   else, elseEnd    the same for an `else` arm                           *)
(*   kids             the children of a parallel step                      *)
(*   home             the parallel child (or 0) whose future runs the step *)
(*   up               the step itself and the control steps around it      *)
(*   out, refs        output name; the variables its templates or its      *)
(*                    condition mention                                    *)
(*   exit, max        has an exit_condition; max_iterations/max_attempts   *)
(*   onError          fail, skip or retry (tool steps)                     *)
(*   inputs, required, defaulted, enums   the declared inputs              *)
(*   outputs          declared output name |-> step it maps from           *)
(*   avail, here, def what validate_steps computes: `available` and        *)
(*                    `defined_here` before the step, and the names the    *)
(*                    step itself definitely defines                       *)
(*                                                                         *)
(* BranchDefinesEither and OutputsLeafOnly are slips the properties of the *)
(* engine must catch; nothing in the specification uses them.              *)
(***************************************************************************)
EXTENDS Naturals

CONSTANT Name            \* names of inputs and of step outputs

None == 0
LeafKinds == {"prompt", "tool", "transform", "workflow"}
Kinds     == LeafKinds \cup {"branch", "parallel", "loop"}

Steps(w)   == 1..w.size
IsLeaf(w, s) == w.kind[s] \in LeafKinds
Loops(w)   == {s \in Steps(w) : w.kind[s] = "loop"}
Children(w, s) == ({w.then[s], w.else[s]} \ {None}) \cup w.kids[s]

(***************************************************************************)
(* The shape of a parsed step tree.  `home` follows the futures: only a    *)
(* child of a parallel step is run by a future of its own.                 *)
(***************************************************************************)
WorkflowTyped(w) ==
  /\ w.size \in Nat
  /\ w.kind     \in [Steps(w) -> Kinds]
  /\ w.parent   \in [Steps(w) -> {None} \cup Steps(w)]
  /\ w.next     \in [Steps(w) -> {None} \cup Steps(w)]
  /\ w.then     \in [{None} \cup Steps(w) -> {None} \cup Steps(w)]
  /\ w.thenEnd  \in [{None} \cup Steps(w) -> {None} \cup Steps(w)]
  /\ w.else     \in [Steps(w) -> {None} \cup Steps(w)]
  /\ w.elseEnd  \in [Steps(w) -> {None} \cup Steps(w)]
  /\ w.kids     \in [Steps(w) -> SUBSET Steps(w)]
  /\ w.home     \in [Steps(w) -> {None} \cup Steps(w)]
  /\ w.up       \in [Steps(w) -> SUBSET Steps(w)]
  /\ w.out      \in [Steps(w) -> Name]
  /\ w.refs     \in [Steps(w) -> SUBSET Name]
  /\ w.exit     \in [Steps(w) -> BOOLEAN]
  /\ w.max      \in [Steps(w) -> Nat]
  /\ w.onError  \in [Steps(w) -> {"fail", "skip", "retry"}]
  /\ w.inputs \subseteq Name
  /\ w.required \subseteq w.inputs /\ w.defaulted \subseteq w.inputs
  /\ w.enums \subseteq w.inputs
  /\ w.outputs  \in UNION {[D -> Steps(w)] : D \in SUBSET Name}
  /\ w.avail    \in [Steps(w) -> SUBSET Name]
  /\ w.here     \in [Steps(w) -> SUBSET Name]
  /\ w.def      \in [Steps(w) -> SUBSET Name]

\* The steps that the given one follows in its list, and the steps that begin
\* one: the head of a list, or a child of a parallel step.
Before(w, s) == {r \in Steps(w) : w.next[r] = s}
Begins(w, s) ==
  s = w.then[None] \/ (w.parent[s] # None /\ s \in Children(w, w.parent[s]))

\* The numbering follows the document, and a step is in one place of it.
DocumentOrder(w) ==
  \A s \in Steps(w) :
    /\ w.parent[s] < s
    /\ w.next[s] # None => s < w.next[s]
    /\ Before(w, s) = {} <=> Begins(w, s)
    /\ \A q, r \in Before(w, s) : q = r

WorkflowTree(w) ==
  /\ DocumentOrder(w)
  /\ w.then[None] # None => w.parent[w.then[None]] = None
  /\ \A s \in Steps(w) :
       /\ s \in w.up[s] /\ \A a \in w.up[s] : w.up[a] \subseteq w.up[s]
       /\ w.parent[s] = None => w.home[s] = None
       /\ w.parent[s] # None /\ w.kind[w.parent[s]] # "parallel" =>
            w.home[s] = w.home[w.parent[s]]
       /\ w.home[s] # None => w.home[w.home[s]] = w.home[s]
       /\ w.home[s] = s => w.parent[s] # None /\ s \in w.kids[w.parent[s]]
       /\ w.parent[s] # None /\ w.kind[w.parent[s]] = "parallel" =>
            s \in w.kids[w.parent[s]]
       /\ w.parent[s] = None => w.up[s] = {s}
       /\ w.parent[s] # None => w.up[s] = {s} \cup w.up[w.parent[s]]
       /\ w.next[s] # None => w.parent[w.next[s]] = w.parent[s]
       /\ w.next[s] = None =>
            \/ w.parent[s] = None /\ s = w.thenEnd[None]
            \/ /\ w.parent[s] # None
               /\ \/ s \in w.kids[w.parent[s]]
                  \/ s = w.thenEnd[w.parent[s]]
                  \/ s = w.elseEnd[w.parent[s]]
       /\ \A c \in w.kids[s] :
            w.parent[c] = s /\ w.next[c] = None /\ w.home[c] = c
       /\ \A h \in {w.then[s], w.else[s]} \ {None} : w.parent[h] = s
       /\ w.kind[s] # "parallel" => w.kids[s] = {}
       /\ w.kind[s] # "branch" => w.else[s] = None /\ w.elseEnd[s] = None
       /\ w.kind[s] \notin {"branch", "loop"} =>
            w.then[s] = None /\ w.thenEnd[s] = None
       /\ w.then[s] = None <=> w.thenEnd[s] = None
       /\ w.else[s] = None <=> w.elseEnd[s] = None
       /\ w.parent[s] # None => w.kind[w.parent[s]] \notin LeafKinds

-----------------------------------------------------------------------------
(***************************************************************************)
(* validate_steps: which names each step and each list definitely define.  *)
(***************************************************************************)
ListDefines(w, last) ==
  IF last = None THEN {} ELSE w.here[last] \cup w.def[last]

BranchDefinesEither(thenDef, elseDef) == thenDef \cup elseDef
\* Only what both arms define is definitely defined after a branch.
BranchDefines(thenDef, elseDef) == thenDef \cap elseDef

Defines(w, s) ==
  CASE IsLeaf(w, s) -> {w.out[s]}
    [] w.kind[s] = "branch" ->
         BranchDefines(ListDefines(w, w.thenEnd[s]), ListDefines(w, w.elseEnd[s]))
    [] w.kind[s] = "parallel" -> UNION {w.def[c] : c \in w.kids[s]}
    [] w.kind[s] = "loop" -> ListDefines(w, w.thenEnd[s])

\* `available` and `defined_here` threaded through the lists: a nested list
\* starts from what is available at its control step, with nothing defined.
Scoped(w) ==
  /\ w.then[None] # None => w.avail[w.then[None]] = {} /\ w.here[w.then[None]] = {}
  /\ \A s \in Steps(w) :
       /\ w.def[s] = Defines(w, s)
       /\ w.next[s] # None =>
            /\ w.avail[w.next[s]] = w.avail[s] \cup w.def[s]
            /\ w.here[w.next[s]] = w.here[s] \cup w.def[s]
       /\ \A h \in Children(w, s) : w.avail[h] = w.avail[s] /\ w.here[h] = {}

-----------------------------------------------------------------------------
(***************************************************************************)
(* The errors.  Template and condition syntax, transform names, the        *)
(* template/template_file choice, empty `prefer` lists and duplicate step  *)
(* ids are not part of the model: a step number is its id.                 *)
(***************************************************************************)
\* check_template and the condition checks; a prompt naming its own output
\* is a CircularReference even when an input has that name.
ReferencesKnown(w, s) ==
  LET visible == w.avail[s] \cup w.inputs
  IN  CASE w.kind[s] = "prompt" ->
             w.refs[s] \subseteq visible \ ({w.out[s]} \ w.avail[s])
        [] w.kind[s] = "loop" ->
             w.refs[s] \subseteq visible \cup ListDefines(w, w.thenEnd[s])
        [] OTHER -> w.refs[s] \subseteq visible

\* register_output: no reuse in this scope, no shadowing of an outer scope.
OutputNew(w, s) == IsLeaf(w, s) => w.out[s] \notin w.here[s] \cup w.avail[s]

StructureOK(w, s) ==
  /\ w.kind[s] = "tool" => w.max[s] # 0
  /\ w.kind[s] = "branch" => w.then[s] # None
  /\ w.kind[s] = "parallel" =>
       /\ w.kids[s] # {}
       /\ \A c, d \in w.kids[s] : c # d => w.def[c] \cap w.def[d] = {}
  /\ w.kind[s] = "loop" => w.then[s] # None /\ w.max[s] # 0

OutputsLeafOnly(w) == \A o \in DOMAIN w.outputs : IsLeaf(w, w.outputs[o])
\* A declared output maps from a step with an output of its own, whose name
\* is definitely defined when the workflow ends.
OutputsDefined(w) ==
  \A o \in DOMAIN w.outputs :
    /\ IsLeaf(w, w.outputs[o])
    /\ w.out[w.outputs[o]] \in ListDefines(w, w.thenEnd[None])

\* validate(): no error is reported.
Accepted(w) ==
  /\ w.then[None] # None
  /\ Scoped(w)
  /\ \A s \in Steps(w) : ReferencesKnown(w, s) /\ OutputNew(w, s) /\ StructureOK(w, s)
  /\ OutputsDefined(w)
=============================================================================
