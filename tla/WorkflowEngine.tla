----------------------------- MODULE WorkflowEngine -----------------------------
(***************************************************************************)
(* The workflow interpreter of mv-core (workflow/engine.rs, retry.rs):     *)
(* one execution of a validated workflow.                                  *)
(*                                                                         *)
(* execute_steps recurses over the step tree inside one future; `parallel` *)
(* adds a future per child (join_all).  A task is such a future: Root, or  *)
(* the child step it runs.  at/phase are its control point, ctx its        *)
(* ExecutionContext outputs.  A value is the step that produced it and the *)
(* number of that step's external call it came from.                       *)
(*                                                                         *)
(* phase:  "idle"   the child is not forked          "start"  (Root only)  *)
(*         "enter"  about to execute the step        "call"   call pending *)
(*         "join"   waiting for the children         "check"  a loop body  *)
(*         "leave"  the step is complete                      just ended   *)
(*         "ok", "failed"  the future returned                             *)
(*                                                                         *)
(* RecordedOnce, RecordedOutside, CallOkShared, CapPassed, ForkDetached,   *)
(* MergedNothing, ReturnedOrFailed and AllSucceeded are slips that the     *)
(* properties must catch; nothing in the specification uses them.          *)
(***************************************************************************)
EXTENDS WorkflowValidate, FiniteSets

CONSTANTS
  Workflows,       \* the workflows that may be loaded
  CallerInputs     \* names the caller may pass, declared or not

ASSUME WorkflowsAssumption ==
  \A w \in Workflows : WorkflowTyped(w) /\ WorkflowTree(w)
ASSUME CallerInputsAssumption == CallerInputs \subseteq Name

VARIABLES
  wf,       \* the loaded workflow (never changes)
  inputs,   \* names of the resolved inputs
  at,       \* [task -> step]
  phase,    \* [task -> phase]
  ctx,      \* [task -> outputs recorded so far]
  iter,     \* [step -> iterations of the current activation of a loop]
  tries,    \* [step -> attempts of the current activation of a tool step]
  calls,    \* [step -> external calls made, over the whole execution]
  result    \* WorkflowResult.outputs

vars == <<wf, inputs, at, phase, ctx, iter, tries, calls, result>>

Root == None
Tasks == {Root} \cup {c \in Steps(wf) : wf.home[c] = c}
Owner(c) == LET p == wf.parent[c] IN wf.home[p]
Running == {"enter", "call", "join", "check", "leave"}
Ended == {"ok", "failed"}
NoOutputs == [x \in {} |-> None]

Put(f, x, v) == [y \in DOMAIN f \cup {x} |-> IF y = x THEN v ELSE f[y]]

\* to_template_context: the variables a template of task t can resolve.
Visible(t) == inputs \cup DOMAIN ctx[t]

-----------------------------------------------------------------------------
Init ==
  /\ wf \in {w \in Workflows : Accepted(w)}
  /\ inputs = {}
  /\ at = [t \in Tasks |-> None]
  /\ phase = [t \in Tasks |-> IF t = Root THEN "start" ELSE "idle"]
  /\ ctx = [t \in Tasks |-> NoOutputs]
  /\ iter = [s \in Steps(wf) |-> 0]
  /\ tries = [s \in Steps(wf) |-> 0]
  /\ calls = [s \in Steps(wf) |-> 0]
  /\ result = NoOutputs

Goto(t, s, ph) ==
  /\ at' = [at EXCEPT ![t] = s]
  /\ phase' = [phase EXCEPT ![t] = ph]

Become(t, ph) == phase' = [phase EXCEPT ![t] = ph] /\ UNCHANGED at

\* execute_steps on a nested list of step s: its head, or past an empty list.
Descend(t, s, head, empty) ==
  IF head = None THEN Goto(t, s, empty) ELSE Goto(t, head, "enter")

-----------------------------------------------------------------------------
(* validate_inputs: a missing required input or a bad enum value ends the  *)
(* execution before any step; `given` is what the caller provided.         *)
ResolveInputs ==
  /\ phase[Root] = "start"
  /\ \E given \in SUBSET CallerInputs : \E bad \in SUBSET (given \cap wf.enums) :
       IF bad # {} \/ ~ wf.required \subseteq given \cup wf.defaulted
       THEN Become(Root, "failed") /\ UNCHANGED inputs
       ELSE /\ inputs' = given \cup wf.defaulted
            /\ Goto(Root, wf.then[None], "enter")
  /\ UNCHANGED <<wf, ctx, iter, tries, calls, result>>

\* render_template is strict: every variable a leaf names must be defined.
Renders(t) == wf.refs[at[t]] \subseteq Visible(t)

(* A leaf step renders its templates (strict: an undefined variable is an  *)
(* error; a template file may be gone) and starts its external call.       *)
RenderFails(t) ==
  /\ phase[t] = "enter" /\ IsLeaf(wf, at[t])
  /\ Become(t, "failed")
  /\ UNCHANGED <<wf, inputs, ctx, iter, tries, calls, result>>

StartCall(t) ==
  LET s == at[t]
  IN  /\ phase[t] = "enter" /\ IsLeaf(wf, s)
      /\ Renders(t)
      /\ tries' = [tries EXCEPT ![s] = 1]
      /\ calls' = [calls EXCEPT ![s] = @ + 1]
      /\ Become(t, "call")
      /\ UNCHANGED <<wf, inputs, ctx, iter, result>>

RecordedOnce(c, s, n) ==
  IF wf.out[s] \in DOMAIN c THEN c ELSE Put(c, wf.out[s], [by |-> s, run |-> n])
RecordedOutside(c, s, n) == Put(c, wf.out[s], [by |-> wf.parent[s], run |-> n])
\* ctx.insert_output: replaces an earlier value of the name.
Recorded(c, s, n) == Put(c, wf.out[s], [by |-> s, run |-> n])

CallOkShared(t) ==
  LET s == at[t]
  IN  /\ phase[t] = "call"
      /\ ctx' = [u \in Tasks |-> IF phase[u] \in Running THEN Recorded(ctx[u], s, calls[s])
                                 ELSE ctx[u]]
      /\ Become(t, "leave")
      /\ UNCHANGED <<wf, inputs, iter, tries, calls, result>>
CallOk(t) ==
  LET s == at[t]
  IN  /\ phase[t] = "call"
      /\ ctx' = [ctx EXCEPT ![t] = Recorded(@, s, calls[s])]
      /\ Become(t, "leave")
      /\ UNCHANGED <<wf, inputs, iter, tries, calls, result>>

Skips(s) == wf.kind[s] = "tool" /\ wf.onError[s] = "skip"
\* Only a retryable error of a tool step that still has attempts is retried.
Retries(s, retryable) ==
  /\ wf.kind[s] = "tool" /\ wf.onError[s] = "retry"
  /\ retryable /\ tries[s] < wf.max[s]

(* The external call of the step fails.  `skip` records the empty string,  *)
(* `retry` sleeps and calls again, everything else ends the task.          *)
CallError(t) ==
  LET s == at[t]
  IN  /\ phase[t] = "call"
      /\ \E retryable \in BOOLEAN :
           \/ /\ Skips(s)
              /\ ctx' = [ctx EXCEPT ![t] = Recorded(@, s, calls[s])]
              /\ Become(t, "leave")
              /\ UNCHANGED <<tries, calls>>
           \/ /\ Retries(s, retryable)
              /\ tries' = [tries EXCEPT ![s] = @ + 1]
              /\ calls' = [calls EXCEPT ![s] = @ + 1]
              /\ UNCHANGED <<at, phase, ctx>>
           \/ /\ ~ Skips(s) /\ ~ Retries(s, retryable)
              /\ Become(t, "failed")
              /\ UNCHANGED <<ctx, tries, calls>>
      /\ UNCHANGED <<wf, inputs, iter, result>>

(* A condition is evaluated leniently: an undefined variable is falsy, an  *)
(* expression error fails the step.                                        *)
TakeBranch(t) ==
  LET s == at[t]
  IN  /\ phase[t] = "enter" /\ wf.kind[s] = "branch"
      /\ \/ Descend(t, s, wf.then[s], "leave")
         \/ Descend(t, s, wf.else[s], "leave")
         \/ Become(t, "failed")
      /\ UNCHANGED <<wf, inputs, ctx, iter, tries, calls, result>>

EnterLoop(t) ==
  LET s == at[t]
  IN  /\ phase[t] = "enter" /\ wf.kind[s] = "loop"
      /\ iter' = [iter EXCEPT ![s] = 1]
      /\ Descend(t, s, wf.then[s], "check")
      /\ UNCHANGED <<wf, inputs, ctx, tries, calls, result>>

CapPassed(s) == iter[s] > wf.max[s]
CapReached(s) == iter[s] >= wf.max[s]

(* The body of loop at[t] has ended: exit condition first, then the cap.   *)
CheckLoop(t) ==
  LET s == at[t]
  IN  /\ phase[t] = "check"
      /\ \/ /\ wf.exit[s] \/ CapReached(s)
            /\ Become(t, "leave") /\ UNCHANGED iter
         \/ /\ ~ CapReached(s)
            /\ iter' = [iter EXCEPT ![s] = @ + 1]
            /\ Descend(t, s, wf.then[s], "check")
         \/ /\ wf.exit[s]
            /\ Become(t, "failed") /\ UNCHANGED iter
      /\ UNCHANGED <<wf, inputs, ctx, tries, calls, result>>

-----------------------------------------------------------------------------
(* Fork: every child starts from a snapshot of the parent's context.       *)
ForkDetached(t) ==
  LET kids == wf.kids[at[t]]
  IN  /\ phase[t] = "enter" /\ wf.kind[at[t]] = "parallel"
      /\ at' = [u \in Tasks |-> IF u \in kids THEN u ELSE at[u]]
      /\ phase' = [u \in Tasks |-> IF u \in kids THEN "enter"
                                   ELSE IF u = t THEN "leave" ELSE phase[u]]
      /\ ctx' = [u \in Tasks |-> IF u \in kids THEN ctx[t] ELSE ctx[u]]
      /\ UNCHANGED <<wf, inputs, iter, tries, calls, result>>
Fork(t) ==
  LET s == at[t]
      kids == wf.kids[s]
  IN  /\ phase[t] = "enter" /\ wf.kind[s] = "parallel"
      /\ at' = [u \in Tasks |-> IF u \in kids THEN u ELSE at[u]]
      /\ phase' = [u \in Tasks |-> IF u \in kids THEN "enter"
                                   ELSE IF u = t THEN "join" ELSE phase[u]]
      /\ ctx' = [u \in Tasks |-> IF u \in kids THEN ctx[t] ELSE ctx[u]]
      /\ UNCHANGED <<wf, inputs, iter, tries, calls, result>>

\* outputs_added_since: names the child has and its snapshot had not.
Added(base, child) == DOMAIN child \ DOMAIN base

Adders(base, kids, x) == {c \in kids : x \in Added(base, ctx[c])}
LastAdder(base, kids, x) ==
  CHOOSE c \in Adders(base, kids, x) : \A d \in Adders(base, kids, x) : d <= c

MergedNothing(base, kids) == base
\* The children's new outputs merged into base in declaration order.
Merged(base, kids) ==
  [x \in DOMAIN base \cup UNION {Added(base, ctx[c]) : c \in kids} |->
     IF x \in DOMAIN base THEN base[x] ELSE ctx[LastAdder(base, kids, x)][x]]

ReturnedOrFailed(kids) ==
  \/ \A c \in kids : phase[c] \in Ended
  \/ \E c \in kids : phase[c] = "failed"
AllSucceeded(kids) == \A c \in kids : phase[c] = "ok"
AllReturned(kids) == \A c \in kids : phase[c] \in Ended

(* Join: after every child has returned, any failure fails the step.       *)
Join(t) ==
  LET s == at[t]
      kids == wf.kids[s]
      failed == \E c \in kids : phase[c] = "failed"
  IN  /\ phase[t] = "join"
      /\ AllReturned(kids)
      /\ ctx' = [u \in Tasks |-> IF u \in kids THEN NoOutputs
                                 ELSE IF u = t /\ ~ failed THEN Merged(ctx[t], kids)
                                 ELSE ctx[u]]
      /\ phase' = [u \in Tasks |-> IF u \in kids THEN "idle"
                                   ELSE IF u # t THEN phase[u]
                                   ELSE IF failed THEN "failed" ELSE "leave"]
      /\ UNCHANGED <<wf, inputs, at, iter, tries, calls, result>>

-----------------------------------------------------------------------------
\* The step whose output a result name takes: the declared map, or without
\* one the last step when it is a leaf.
ResultSource ==
  IF DOMAIN wf.outputs # {} \/ ~ IsLeaf(wf, wf.thenEnd[None])
  THEN wf.outputs
  ELSE [x \in {wf.out[wf.thenEnd[None]]} |-> wf.thenEnd[None]]

\* build_workflow_outputs: an output that is not in the context is left out.
BuildOutputs(c) ==
  LET src == ResultSource
      present == {o \in DOMAIN src : IsLeaf(wf, src[o]) /\ wf.out[src[o]] \in DOMAIN c}
  IN  [o \in present |-> c[wf.out[src[o]]]]

(* The step at[t] is complete: on to the next of its list, or out of it.   *)
Leave(t) ==
  LET s == at[t]
      p == wf.parent[s]
  IN  /\ phase[t] = "leave"
      /\ \/ /\ wf.next[s] # None
            /\ Goto(t, wf.next[s], "enter") /\ UNCHANGED result
         \/ /\ wf.next[s] = None /\ p # None /\ wf.kind[p] = "branch"
            /\ Goto(t, p, "leave") /\ UNCHANGED result
         \/ /\ wf.next[s] = None /\ p # None /\ wf.kind[p] = "loop"
            /\ Goto(t, p, "check") /\ UNCHANGED result
         \/ /\ wf.next[s] = None /\ p # None /\ wf.kind[p] = "parallel"
            /\ Become(t, "ok") /\ UNCHANGED result
         \/ /\ wf.next[s] = None /\ p = None
            /\ Become(t, "ok")
            /\ result' = BuildOutputs(ctx[t])
      /\ UNCHANGED <<wf, inputs, ctx, iter, tries, calls>>

Step(t) ==
  \/ RenderFails(t) \/ StartCall(t) \/ CallOk(t) \/ CallError(t)
  \/ TakeBranch(t) \/ EnterLoop(t) \/ CheckLoop(t)
  \/ Fork(t) \/ Join(t) \/ Leave(t)

Next == ResolveInputs \/ (\E t \in Tasks : Step(t))

Spec == Init /\ [][Next]_vars
\* The runtime polls every future and every external call returns.
FairSpec == Spec /\ WF_vars(Next)

-----------------------------------------------------------------------------
(* Properties.                                                             *)

Value == [by : Steps(wf), run : Nat]
IsContext(c) ==
  /\ c = [x \in DOMAIN c |-> c[x]]
  /\ DOMAIN c \subseteq Name /\ \A x \in DOMAIN c : c[x] \in Value

\* Type invariant of the interpreter state.
TypeOK ==
  /\ inputs \subseteq Name
  /\ at \in [Tasks -> {None} \cup Steps(wf)]
  /\ phase \in [Tasks -> Running \cup Ended \cup {"start", "idle"}]
  /\ ctx = [t \in Tasks |-> ctx[t]] /\ \A t \in Tasks : IsContext(ctx[t])
  /\ iter \in [Steps(wf) -> Nat]
  /\ tries \in [Steps(wf) -> Nat]
  /\ calls \in [Steps(wf) -> Nat]
  /\ IsContext(result)

\* Step at[t] is about to read the variables it mentions.
Reads(t) ==
  \/ phase[t] = "enter" /\ wf.kind[at[t]] \in LeafKinds \cup {"branch"}
  \/ phase[t] = "check"

OptionalInputs == wf.inputs \ (wf.required \cup wf.defaulted)

(* What validation promises the engine: a template or a condition of an    *)
(* accepted workflow never meets an undefined variable, in any arm,        *)
(* iteration or interleaving; only an optional input the caller left out   *)
(* can be missing (validate.rs check_template, maybe-defined analysis).    *)
ReferencesResolve ==
  \A t \in Tasks : Reads(t) => wf.refs[at[t]] \subseteq Visible(t) \cup OptionalInputs

(* build_workflow_outputs leaves an output out when its name is not in the *)
(* context: after an accepted workflow succeeds, none is left out.         *)
OutputsComplete == phase[Root] = "ok" => DOMAIN wf.outputs \subseteq DOMAIN result

(* join_all is structured: a child is under way exactly while its parallel *)
(* step waits for it, so a failing sibling never leaves it running behind  *)
(* the parent's back or cuts it short.                                     *)
NoOrphan ==
  \A c \in Tasks \ {Root} :
    phase[c] # "idle" <=> phase[Owner(c)] = "join" /\ at[Owner(c)] = wf.parent[c]

(* A parallel child sees only the fork snapshot and what it wrote itself,  *)
(* never an output of a sibling.                                           *)
SiblingIsolation ==
  \A c \in Tasks \ {Root} : phase[c] # "idle" =>
    \A x \in DOMAIN ctx[c] :
      \/ c \in wf.up[ctx[c][x].by]
      \/ x \in DOMAIN ctx[Owner(c)] /\ ctx[c][x] = ctx[Owner(c)][x]

\* The most attempts one activation of the step may make.
Attempts(s) == IF wf.kind[s] = "tool" /\ wf.onError[s] = "retry" THEN wf.max[s] ELSE 1
\* The caps of the given loops multiplied.
Product(loops) ==
  LET prod[i \in 0..wf.size] ==
        IF i = 0 THEN 1 ELSE prod[i - 1] * IF i \in loops THEN wf.max[i] ELSE 1
  IN  prod[wf.size]
\* The most activations of the step: the caps of the loops around it.
Activations(s) == Product(wf.up[s] \cap Loops(wf))
\* Every activation happens: no branch may skip it, no exit cut a loop short.
Unconditional(s) ==
  \A a \in wf.up[s] : wf.kind[a] # "branch" /\ (wf.kind[a] = "loop" => ~ wf.exit[a])

(* How often a side effect happens.  Never more than the retries and the   *)
(* loop caps around it allow; and a successful workflow ran every step it  *)
(* had to: do-while bodies to the cap, all children, no failure swallowed. *)
CallCounts ==
  \A s \in Steps(wf) : IsLeaf(wf, s) =>
    /\ calls[s] <= Attempts(s) * Activations(s)
    /\ phase[Root] = "ok" /\ Unconditional(s) => calls[s] >= Activations(s)

(* "No early abort": a child that is under way is never dropped because a  *)
(* sibling failed (engine.rs, the join).                                   *)
ChildrenRunToCompletion ==
  [][\A c \in Tasks \ {Root} : phase[c] \in Running => phase'[c] # "idle"]_vars

(* When a loop looks at its exit condition, and when the workflow ends,    *)
(* every value in the context is the latest one its step produced: "post-  *)
(* loop steps see the final iteration's outputs" (specs/012 spec.md).      *)
ContextFresh ==
  \A t \in Tasks : phase[t] = "check" \/ (t = Root /\ phase[t] = "ok") =>
    \A x \in DOMAIN ctx[t] : ctx[t][x].run = calls[ctx[t][x].by]

\* Some parallel step is inside a loop's body.
ForkInLoop ==
  \E p \in Steps(wf) : /\ wf.kind[p] = "parallel"
                       /\ \E l \in wf.up[p] : wf.kind[l] = "loop"

(* The same where it holds: a loop, however branches and retries nest in   *)
(* it, keeps the latest value of every step unless its body forks.         *)
FreshOutsideLoopForks == ~ ForkInLoop => ContextFresh

(* "Outputs are validated disjoint" (engine.rs, the join): two children of *)
(* a parallel step never bring the same new output name to the join.       *)
ChildrenDisjoint ==
  \A t \in Tasks : phase[t] = "join" /\ AllReturned(wf.kids[at[t]]) =>
    \A c, d \in wf.kids[at[t]] : c # d /\ phase[c] = "ok" /\ phase[d] = "ok" =>
      Added(ctx[t], ctx[c]) \cap Added(ctx[t], ctx[d]) = {}

-----------------------------------------------------------------------------
(* The inductive strengthening that carries the proofs.                    *)

ControlOK ==
  /\ phase[Root] # "idle"
  /\ \A t \in Tasks : phase[t] \in Running =>
       /\ at[t] \in Steps(wf) /\ wf.home[at[t]] = t
       /\ t # Root => t \in wf.up[at[t]]
       /\ phase[t] = "call" => IsLeaf(wf, at[t])
       /\ phase[t] = "join" => wf.kind[at[t]] = "parallel"
       /\ phase[t] = "check" => wf.kind[at[t]] = "loop"
  /\ \A c \in Tasks \ {Root} : phase[c] # "start"

\* The scopes the validator computed are in the context of the task, for the
\* step it is at and for every step around it.
ScopesHeld ==
  /\ \A t \in Tasks : phase[t] \in Running =>
       /\ wf.required \cup wf.defaulted \subseteq inputs
       /\ \A a \in wf.up[at[t]] : wf.avail[a] \cup wf.here[a] \subseteq DOMAIN ctx[t]
       /\ phase[t] = "leave" => wf.def[at[t]] \subseteq DOMAIN ctx[t]
       /\ phase[t] = "check" =>
            ListDefines(wf, wf.thenEnd[at[t]]) \subseteq DOMAIN ctx[t]
  /\ \A c \in Tasks \ {Root} : phase[c] = "ok" => wf.def[c] \subseteq DOMAIN ctx[c]

\* The workflow is a parsed, accepted one; it never changes.
Loaded == WorkflowTyped(wf) /\ WorkflowTree(wf) /\ Accepted(wf)
Carried == ControlOK /\ ScopesHeld

\* Holds in every reachable state, and is preserved by every step.
IInv ==
  Loaded /\ TypeOK /\ NoOrphan /\ Carried /\ SiblingIsolation /\ OutputsComplete

-----------------------------------------------------------------------------
\* Every execution ends: loops are capped, retries are bounded, joins return.
Terminates == <>(phase[Root] \in Ended)
=============================================================================
