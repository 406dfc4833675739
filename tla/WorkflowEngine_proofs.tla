-------------------------- MODULE WorkflowEngine_proofs --------------------------
(***************************************************************************)
(* What the validator promises the interpreter, proved for every set of    *)
(* workflows, every name set and every interleaving.  Three inductive      *)
(* invariants, one after the other: IInv (where control is, and which      *)
(* names a context must and may hold), CountInv (how often each step has   *)
(* run, given IInv) and Newest (whose values a context holds, given both). *)
(***************************************************************************)
EXTENDS WorkflowEngine, SetInduction

LEMMA Owners ==
  ASSUME Loaded
  PROVE  /\ Root \in Tasks /\ None \notin Steps(wf)
         /\ \A u \in Tasks \ {Root} :
              /\ u \in Steps(wf) /\ wf.parent[u] \in Steps(wf)
              /\ u \in wf.kids[wf.parent[u]]
              /\ Owner(u) = wf.home[wf.parent[u]] /\ Owner(u) \in Tasks
<1>1. Root \in Tasks /\ None \notin Steps(wf)
  BY DEF Tasks, Steps, None
<1> SUFFICES ASSUME NEW u \in Tasks \ {Root}
             PROVE  /\ u \in Steps(wf) /\ wf.parent[u] \in Steps(wf)
                    /\ u \in wf.kids[wf.parent[u]]
                    /\ Owner(u) = wf.home[wf.parent[u]] /\ Owner(u) \in Tasks
  BY <1>1
<1>2. u \in Steps(wf) /\ wf.home[u] = u
  BY DEF Tasks
<1>3. wf.parent[u] \in Steps(wf) /\ u \in wf.kids[wf.parent[u]]
  BY <1>2 DEF Loaded, WorkflowTree, WorkflowTyped
<1>4. wf.home[wf.parent[u]] \in {None} \cup Steps(wf)
  BY <1>3 DEF Loaded, WorkflowTyped
<1>5. wf.home[wf.parent[u]] \in Tasks
  BY <1>3, <1>4 DEF Loaded, WorkflowTree, Tasks, Root
<1> QED BY <1>2, <1>3, <1>5 DEF Owner

\* Phases in which a task moves without touching another task.
Local == {"start", "enter", "call", "check", "leave"}

(* A step of one task t that is neither a fork nor a join: control goes to *)
(* step s of the same task, or the task ends, and its context becomes c.   *)
LEMMA LocalMove ==
  ASSUME IInv, NEW t \in Tasks, NEW s \in {None} \cup Steps(wf), NEW ph, NEW c,
         phase[t] \in Local,
         wf' = wf,
         at' = [at EXCEPT ![t] = s],
         phase' = [phase EXCEPT ![t] = ph],
         ctx' = [ctx EXCEPT ![t] = c],
         inputs' \subseteq Name, IsContext(result'),
         inputs' = inputs \/ wf.required \cup wf.defaulted \subseteq inputs',
         iter' \in [Steps(wf) -> Nat], tries' \in [Steps(wf) -> Nat],
         calls' \in [Steps(wf) -> Nat],
         ph \in (Running \ {"join"}) \cup Ended,
         IsContext(c), DOMAIN ctx[t] \subseteq DOMAIN c,
         ph \in Running =>
           /\ s \in Steps(wf) /\ wf.home[s] = t
           /\ t # Root => t \in wf.up[s]
           /\ ph = "call" => IsLeaf(wf, s)
           /\ ph = "check" => wf.kind[s] = "loop"
           /\ wf.required \cup wf.defaulted \subseteq inputs'
           /\ \A a \in wf.up[s] : wf.avail[a] \cup wf.here[a] \subseteq DOMAIN c
           /\ ph = "leave" => wf.def[s] \subseteq DOMAIN c
           /\ ph = "check" => ListDefines(wf, wf.thenEnd[s]) \subseteq DOMAIN c,
         t # Root /\ ph = "ok" => wf.def[t] \subseteq DOMAIN c,
         t = Root /\ ph = "ok" => DOMAIN wf.outputs \subseteq DOMAIN result',
         (t = Root /\ ph = "ok") \/ result' = result,
         t # Root => \A x \in DOMAIN c :
           (x \in DOMAIN ctx[t] /\ c[x] = ctx[t][x]) \/ t \in wf.up[c[x].by]
  PROVE  IInv'
<1> USE DEF IInv, TypeOK, Carried
<1>1. Tasks' = Tasks /\ Root \in Tasks /\ Steps(wf)' = Steps(wf)
  BY DEF Tasks, Steps
<1>2. \A u \in Tasks : phase'[u] = IF u = t THEN ph ELSE phase[u]
  OBVIOUS
<1>3. \A u \in Tasks : at'[u] = IF u = t THEN s ELSE at[u]
  OBVIOUS
<1>4. ctx' = [u \in Tasks |-> ctx'[u]] /\ \A u \in Tasks : ctx'[u] = IF u = t THEN c ELSE ctx[u]
  OBVIOUS
<1>5. \A u \in Tasks \ {Root} : Owner(u)' = Owner(u) /\ Owner(u) \in Tasks
  BY <1>1, Owners DEF Owner
<1>6. phase[t] # "idle" /\ phase[t] # "join" /\ ph # "idle" /\ ph # "join" /\ ph # "start"
  BY DEF Local, Running, Ended
<1>7. NoOrphan'
  <2> SUFFICES ASSUME NEW u \in Tasks \ {Root}
               PROVE phase'[u] # "idle" <=>
                     phase'[Owner(u)] = "join" /\ at'[Owner(u)] = wf.parent[u]
    BY <1>1, <1>5 DEF NoOrphan
  <2> QED BY <1>2, <1>3, <1>5, <1>6 DEF NoOrphan
<1>8. ControlOK'
  BY <1>1, <1>2, <1>3, <1>6 DEF ControlOK, Running, IsLeaf, Steps
<1>9. ScopesHeld'
  BY <1>1, <1>2, <1>3, <1>4, <1>6, SMTT(30), ZenonT(30) DEF ScopesHeld, ListDefines, Running, Local, None
<1>10. SiblingIsolation'
  <2> SUFFICES ASSUME NEW u \in Tasks \ {Root}, phase'[u] # "idle",
                      NEW x \in DOMAIN ctx'[u]
               PROVE \/ u \in wf.up[ctx'[u][x].by]
                     \/ /\ x \in DOMAIN ctx'[Owner(u)]
                        /\ ctx'[u][x] = ctx'[Owner(u)][x]
    BY <1>1, <1>5 DEF SiblingIsolation
  <2>1. phase[u] # "idle" /\ phase[Owner(u)] = "join" /\ Owner(u) # t
    BY <1>2, <1>5, <1>6 DEF NoOrphan
  <2>2. ctx'[Owner(u)] = ctx[Owner(u)]
    BY <2>1, <1>4, <1>5
  <2>a. \A y \in DOMAIN ctx[u] :
          \/ u \in wf.up[ctx[u][y].by]
          \/ y \in DOMAIN ctx[Owner(u)] /\ ctx[u][y] = ctx[Owner(u)][y]
    BY <2>1 DEF SiblingIsolation
  <2> HIDE DEF IInv, TypeOK, Carried
  <2>3. CASE u = t
    <3>1. ctx'[u] = c /\ t # Root
      BY <2>3, <1>4
    <3>2. CASE t \in wf.up[c[x].by]
      BY <2>3, <3>1, <3>2
    <3>3. CASE x \in DOMAIN ctx[t] /\ c[x] = ctx[t][x]
      BY <2>3, <2>a, <2>2, <3>1, <3>3
    <3> QED BY <3>1, <3>2, <3>3
  <2>4. CASE u # t
    <3>1. ctx'[u] = ctx[u]
      BY <2>4, <1>4
    <3> QED BY <2>a, <2>2, <3>1
  <2> QED BY <2>3, <2>4
<1>11. TypeOK'
  <2>1. ph \in Running \cup Ended \cup {"start", "idle"}
    OBVIOUS
  <2>2. \A u \in Tasks : IsContext(ctx[u])' <=> IsContext(ctx'[u])
    BY <1>1 DEF IsContext, Value, Steps
  <2>3. \A u \in Tasks : IsContext(ctx'[u])
    BY <1>4
  <2>4. IsContext(result)'
    BY <1>1 DEF IsContext, Value, Steps
  <2>5. ctx' = [u \in Tasks' |-> ctx'[u]]
    BY <1>1, <1>4
  <2> QED BY <1>1, <2>1, <2>2, <2>3, <2>4, <2>5
<1>12. OutputsComplete'
  BY <1>1, <1>2 DEF OutputsComplete
<1>13. Loaded'
  BY DEF Loaded
<1> QED BY <1>7, <1>8, <1>9, <1>10, <1>11, <1>12, <1>13

-----------------------------------------------------------------------------
(* The three ways control moves inside a task.                             *)

\* What a step definitely defines, by its kind.
LEMMA DefinedBy ==
  ASSUME Loaded, NEW s \in Steps(wf)
  PROVE  /\ IsLeaf(wf, s) => wf.def[s] = {wf.out[s]}
         /\ wf.kind[s] = "branch" => wf.def[s] =
              ListDefines(wf, wf.thenEnd[s]) \cap ListDefines(wf, wf.elseEnd[s])
         /\ wf.kind[s] = "parallel" => wf.def[s] = UNION {wf.def[c] : c \in wf.kids[s]}
         /\ wf.kind[s] = "loop" => wf.def[s] = ListDefines(wf, wf.thenEnd[s])
<1>1. wf.def[s] = Defines(wf, s)
  BY DEF Loaded, Accepted, Scoped
<1>2. CASE IsLeaf(wf, s)
  BY <1>1, <1>2 DEF Defines, IsLeaf, LeafKinds
<1>3. CASE wf.kind[s] = "branch"
  BY <1>1, <1>3 DEF Defines, BranchDefines, IsLeaf, LeafKinds
<1>4. CASE wf.kind[s] = "parallel"
  BY <1>1, <1>4 DEF Defines, IsLeaf, LeafKinds
<1>5. CASE wf.kind[s] = "loop"
  BY <1>1, <1>5 DEF Defines, IsLeaf, LeafKinds
<1> QED BY <1>2, <1>3, <1>4, <1>5

\* Into a nested list: the head of the list has the scope of its parent.
LEMMA HeadScope ==
  ASSUME Loaded, NEW p \in Steps(wf), wf.kind[p] \in {"branch", "loop"},
         NEW h \in {wf.then[p], wf.else[p]} \ {None}
  PROVE  /\ h \in Steps(wf) /\ wf.home[h] = wf.home[p]
         /\ wf.up[h] = {h} \cup wf.up[p]
         /\ wf.avail[h] = wf.avail[p] /\ wf.here[h] = {}
<1>1. h \in Steps(wf) /\ wf.parent[h] = p
  BY DEF Loaded, WorkflowTyped, WorkflowTree
<1>2. p # None
  BY DEF Steps, None
<1>3. wf.home[h] = wf.home[p] /\ wf.up[h] = {h} \cup wf.up[p]
  BY <1>1, <1>2 DEF Loaded, WorkflowTree
<1>4. h \in Children(wf, p)
  BY DEF Children
<1> QED BY <1>1, <1>3, <1>4 DEF Loaded, Accepted, Scoped

\* On to the next step of a list: its scope adds what the step defines.
LEMMA NextScope ==
  ASSUME Loaded, NEW s \in Steps(wf), wf.next[s] # None
  PROVE  LET n == wf.next[s]
         IN  /\ n \in Steps(wf) /\ wf.home[n] = wf.home[s]
             /\ wf.up[n] \subseteq {n} \cup wf.up[s]
             /\ wf.home[s] # None => wf.home[s] # s
             /\ wf.up[s] \ {s} \subseteq wf.up[n]
             /\ wf.avail[n] \cup wf.here[n] =
                  wf.avail[s] \cup wf.here[s] \cup wf.def[s]
<1> DEFINE n == wf.next[s]
<1>1. n \in Steps(wf) /\ wf.parent[n] = wf.parent[s] /\ wf.parent[s] \in {None} \cup Steps(wf)
  BY DEF Loaded, WorkflowTyped, WorkflowTree
<1>2. wf.home[s] # s
  <2> SUFFICES ASSUME wf.home[s] = s PROVE FALSE
    OBVIOUS
  <2>1. wf.parent[s] \in Steps(wf) /\ s \in wf.kids[wf.parent[s]]
    BY <1>1 DEF Loaded, WorkflowTree
  <2> QED BY <2>1 DEF Loaded, WorkflowTree
<1>3. wf.avail[n] \cup wf.here[n] = wf.avail[s] \cup wf.here[s] \cup wf.def[s]
  BY DEF Loaded, Accepted, Scoped
<1>4. CASE wf.parent[s] = None
  BY <1>1, <1>2, <1>3, <1>4 DEF Loaded, WorkflowTree
<1>5. CASE wf.parent[s] # None
  <2>1. wf.up[s] = {s} \cup wf.up[wf.parent[s]] /\ wf.up[n] = {n} \cup wf.up[wf.parent[s]]
    BY <1>1, <1>5 DEF Loaded, WorkflowTree
  <2>2. wf.kind[wf.parent[s]] # "parallel"
    <3> SUFFICES ASSUME wf.kind[wf.parent[s]] = "parallel" PROVE FALSE
      OBVIOUS
    <3>1. wf.parent[s] \in Steps(wf) /\ s \in wf.kids[wf.parent[s]]
      BY <1>1, <1>5 DEF Loaded, WorkflowTree
    <3> QED BY <3>1 DEF Loaded, WorkflowTree
  <2>3. wf.home[n] = wf.home[s]
    BY <1>1, <1>5, <2>2 DEF Loaded, WorkflowTree
  <2> QED BY <1>1, <1>2, <1>3, <2>1, <2>3
<1> QED BY <1>4, <1>5

\* Out of the last step of an arm or a body: back to the control step.
LEMMA ListEnd ==
  ASSUME Loaded, NEW s \in Steps(wf), wf.next[s] = None,
         wf.parent[s] # None, wf.kind[wf.parent[s]] \in {"branch", "loop"}
  PROVE  LET p == wf.parent[s]
         IN  /\ p \in Steps(wf) /\ wf.home[p] = wf.home[s] /\ wf.home[s] # s
             /\ wf.up[s] = {s} \cup wf.up[p]
             /\ s = wf.thenEnd[p] \/ (s = wf.elseEnd[p] /\ wf.kind[p] = "branch")
             /\ wf.kind[p] = "branch" => wf.def[p] \subseteq wf.here[s] \cup wf.def[s]
             /\ wf.kind[p] = "loop" =>
                  ListDefines(wf, wf.thenEnd[p]) = wf.here[s] \cup wf.def[s]
<1> DEFINE p == wf.parent[s]
<1>1. p \in Steps(wf) /\ s # None
  <2>1. s # None
    BY DEF Steps, None
  <2>2. wf.parent[s] \in {None} \cup Steps(wf)
    BY DEF Loaded, WorkflowTyped
  <2> QED BY <2>1, <2>2
<1>2. wf.kids[p] = {}
  BY <1>1 DEF Loaded, WorkflowTree
<1>3. wf.home[p] = wf.home[s] /\ wf.up[s] = {s} \cup wf.up[p]
  BY <1>1 DEF Loaded, WorkflowTree
<1>4. wf.home[s] # s
  BY <1>2 DEF Loaded, WorkflowTree
<1>5. s = wf.thenEnd[p] \/ s = wf.elseEnd[p]
  BY <1>1, <1>2 DEF Loaded, WorkflowTree
<1>6. wf.kind[p] # "branch" => wf.elseEnd[p] = None
  BY <1>1 DEF Loaded, WorkflowTree
<1>7. ListDefines(wf, s) = wf.here[s] \cup wf.def[s]
  BY <1>1 DEF ListDefines
<1>8. wf.kind[p] = "branch" => wf.def[p] \subseteq wf.here[s] \cup wf.def[s]
  <2> SUFFICES ASSUME wf.kind[p] = "branch"
               PROVE wf.def[p] \subseteq wf.here[s] \cup wf.def[s]
    OBVIOUS
  <2>1. wf.def[p] = ListDefines(wf, wf.thenEnd[p]) \cap ListDefines(wf, wf.elseEnd[p])
    BY <1>1, DefinedBy
  <2> QED BY <1>5, <1>7, <2>1
<1> QED BY <1>1, <1>3, <1>4, <1>5, <1>6, <1>7, <1>8

-----------------------------------------------------------------------------
(* One lemma per action.                                                   *)

\* What the invariant says of a task that is about to move.
LEMMA Here ==
  ASSUME IInv, NEW t \in Tasks, phase[t] \in Local \ {"start"}
  PROVE  /\ phase[t] \in Running /\ at[t] \in Steps(wf) /\ wf.home[at[t]] = t
         /\ t # Root => t \in wf.up[at[t]]
         /\ wf.required \cup wf.defaulted \subseteq inputs
         /\ \A a \in wf.up[at[t]] : wf.avail[a] \cup wf.here[a] \subseteq DOMAIN ctx[t]
         /\ wf.avail[at[t]] \cup wf.here[at[t]] \subseteq DOMAIN ctx[t]
         /\ IsContext(ctx[t])
<1>1. phase[t] \in Running
  BY DEF Local, Running
<1>2. at[t] \in Steps(wf) /\ wf.home[at[t]] = t /\ (t # Root => t \in wf.up[at[t]])
  BY <1>1 DEF IInv, Carried, ControlOK
<1>3. at[t] \in wf.up[at[t]]
  BY <1>2 DEF IInv, Loaded, WorkflowTree
<1>4. IsContext(ctx[t])
  BY DEF IInv, TypeOK
<1> QED BY <1>1, <1>2, <1>3, <1>4 DEF IInv, Carried, ScopesHeld

\* at' = at and the like in the form LocalMove expects.
LEMMA Same ==
  ASSUME IInv, NEW t \in Tasks
  PROVE  /\ at = [at EXCEPT ![t] = at[t]] /\ phase = [phase EXCEPT ![t] = phase[t]]
         /\ ctx = [ctx EXCEPT ![t] = ctx[t]]
<1> USE DEF IInv, TypeOK
<1>1. at = [at EXCEPT ![t] = at[t]] /\ phase = [phase EXCEPT ![t] = phase[t]]
  OBVIOUS
<1>2. ctx = [u \in Tasks |-> ctx[u]]
  OBVIOUS
<1> QED BY <1>1, <1>2

\* The part of the type invariant that a step leaves alone.
LEMMA Typed ==
  ASSUME IInv
  PROVE  /\ inputs \subseteq Name /\ IsContext(result)
         /\ iter \in [Steps(wf) -> Nat] /\ tries \in [Steps(wf) -> Nat]
         /\ calls \in [Steps(wf) -> Nat]
         /\ \A t \in Tasks : IsContext(ctx[t])
BY DEF IInv, TypeOK

LEMMA RenderFailsKeeps ==
  ASSUME IInv, NEW t \in Tasks, RenderFails(t)
  PROVE  IInv'
<1>1. phase[t] \in Local \ {"start"}
  BY DEF RenderFails, Local
<1>2. at' = [at EXCEPT ![t] = at[t]] /\ ctx' = [ctx EXCEPT ![t] = ctx[t]]
  BY Same DEF RenderFails, Become
<1>3. phase' = [phase EXCEPT ![t] = "failed"] /\ wf' = wf /\ inputs' = inputs
      /\ iter' = iter /\ tries' = tries /\ calls' = calls /\ result' = result
  BY DEF RenderFails, Become
<1>4. "failed" \in Ended /\ "failed" \notin Running
  BY DEF Ended, Running
<1>5. IsContext(result')
  BY <1>3, Typed
<1> QED BY <1>1, <1>2, <1>3, <1>4, <1>5, Typed, Here, LocalMove

LEMMA StartCallKeeps ==
  ASSUME IInv, NEW t \in Tasks, StartCall(t)
  PROVE  IInv'
<1>1. phase[t] \in Local \ {"start"} /\ IsLeaf(wf, at[t])
  BY DEF StartCall, Local
<1>2. at' = [at EXCEPT ![t] = at[t]] /\ ctx' = [ctx EXCEPT ![t] = ctx[t]]
  BY Same DEF StartCall, Become
<1>3. phase' = [phase EXCEPT ![t] = "call"] /\ wf' = wf /\ inputs' = inputs
      /\ iter' = iter /\ result' = result
  BY DEF StartCall, Become
<1>4. "call" \in Running \ {"join"}
  BY DEF Running
<1>5. tries' \in [Steps(wf) -> Nat] /\ calls' \in [Steps(wf) -> Nat]
  BY <1>1, Typed, Here DEF StartCall
<1>6. IsContext(result')
  BY <1>3, Typed
<1> QED BY <1>1, <1>2, <1>3, <1>4, <1>5, <1>6, Typed, Here, LocalMove

\* Recording the output of a leaf step defines its name and nothing else.
LEMMA RecordedOutput ==
  ASSUME Loaded, NEW c, IsContext(c), NEW s \in Steps(wf), IsLeaf(wf, s), NEW n \in Nat
  PROVE  /\ IsContext(Recorded(c, s, n))
         /\ DOMAIN Recorded(c, s, n) = DOMAIN c \cup {wf.out[s]}
         /\ wf.def[s] = {wf.out[s]}
         /\ \A x \in DOMAIN Recorded(c, s, n) :
              (x \in DOMAIN c /\ Recorded(c, s, n)[x] = c[x]) \/ Recorded(c, s, n)[x].by = s
<1> DEFINE r == Recorded(c, s, n)
           v == [by |-> s, run |-> n]
<1>1. DOMAIN r = DOMAIN c \cup {wf.out[s]}
  BY DEF Recorded, Put
<1>2. r = [x \in DOMAIN r |-> r[x]]
  BY DEF Recorded, Put
<1>3. \A x \in DOMAIN r : r[x] = IF x = wf.out[s] THEN v ELSE c[x]
  BY DEF Recorded, Put
<1>4. v \in Value /\ v.by = s
  BY DEF Value
<1>5. wf.out[s] \in Name
  BY DEF Loaded, WorkflowTyped
<1>6. wf.def[s] = {wf.out[s]}
  BY DefinedBy
<1> HIDE DEF r, v
<1>7. IsContext(r)
  BY <1>1, <1>2, <1>3, <1>4, <1>5 DEF IsContext
<1>8. \A x \in DOMAIN r : (x \in DOMAIN c /\ r[x] = c[x]) \/ r[x].by = s
  BY <1>1, <1>3, <1>4
<1> QED BY <1>1, <1>6, <1>7, <1>8 DEF r

\* A call that ends with its output recorded (CallOk, and a skipped error).
LEMMA RecordKeeps ==
  ASSUME IInv, NEW t \in Tasks, phase[t] = "call",
         ctx' = [ctx EXCEPT ![t] = Recorded(ctx[t], at[t], calls[at[t]])],
         Become(t, "leave"),
         UNCHANGED <<wf, inputs, iter, tries, calls, result>>
  PROVE  IInv'
<1> DEFINE s == at[t]
           c == Recorded(ctx[t], s, calls[s])
<1>1. phase[t] \in Local \ {"start"}
  BY DEF Local
<1>2. s \in Steps(wf) /\ wf.home[s] = t /\ (t # Root => t \in wf.up[s])
  BY <1>1, Here
<1>3. IsLeaf(wf, s) /\ Loaded
  BY <1>1, Here DEF IInv, Carried, ControlOK
<1>4. calls[s] \in Nat /\ IsContext(ctx[t])
  BY <1>2, Typed
<1>5. /\ IsContext(c) /\ DOMAIN c = DOMAIN ctx[t] \cup {wf.out[s]}
      /\ wf.def[s] = {wf.out[s]}
      /\ \A x \in DOMAIN c : (x \in DOMAIN ctx[t] /\ c[x] = ctx[t][x]) \/ c[x].by = s
  BY <1>2, <1>3, <1>4, RecordedOutput, SMTT(30), ZenonT(30)
<1>6. at' = [at EXCEPT ![t] = s] /\ phase' = [phase EXCEPT ![t] = "leave"]
  BY Same DEF Become
<1>7. "leave" \in Running \ {"join"}
  BY DEF Running
<1>8. ctx' = [ctx EXCEPT ![t] = c] /\ wf' = wf /\ inputs' = inputs
      /\ iter' = iter /\ tries' = tries /\ calls' = calls /\ result' = result
  OBVIOUS
<1>9. IsContext(result')
  BY <1>8, Typed
<1> HIDE DEF c, s
<1>10. DOMAIN ctx[t] \subseteq DOMAIN c /\ wf.def[s] \subseteq DOMAIN c
  BY <1>5
<1>11. \A a \in wf.up[s] : wf.avail[a] \cup wf.here[a] \subseteq DOMAIN c
  BY <1>1, <1>10, Here DEF s
<1>12. t # Root => \A x \in DOMAIN c :
         (x \in DOMAIN ctx[t] /\ c[x] = ctx[t][x]) \/ t \in wf.up[c[x].by]
  BY <1>2, <1>5
<1>13. wf.required \cup wf.defaulted \subseteq inputs'
  BY <1>1, <1>8, Here
<1>14. s \in {None} \cup Steps(wf) /\ phase[t] \in Local
  BY <1>1, <1>2
<1> QED BY <1>2, <1>5, <1>6, <1>7, <1>8, <1>9, <1>10, <1>11, <1>12, <1>13, <1>14,
           Typed, LocalMove, SMTT(30), ZenonT(30)

LEMMA CallOkKeeps ==
  ASSUME IInv, NEW t \in Tasks, CallOk(t)
  PROVE  IInv'
<1>1. phase[t] = "call" /\ Become(t, "leave")
      /\ UNCHANGED <<wf, inputs, iter, tries, calls, result>>
  BY DEF CallOk
<1>2. ctx' = [ctx EXCEPT ![t] = Recorded(ctx[t], at[t], calls[at[t]])]
  BY DEF CallOk
<1> QED BY <1>1, <1>2, RecordKeeps

\* A move of control that records nothing.
LEMMA QuietMove ==
  ASSUME IInv, NEW t \in Tasks, NEW s \in Steps(wf), NEW ph,
         phase[t] \in Local \ {"start"}, Goto(t, s, ph),
         UNCHANGED <<wf, inputs, ctx, tries, calls>>, iter' \in [Steps(wf) -> Nat],
         ph \in {"enter", "check", "leave", "failed", "ok"},
         ph # "ok" => result' = result,
         ph = "ok" => (t # Root => result' = result) /\ IsContext(result'),
         t = Root /\ ph = "ok" => DOMAIN wf.outputs \subseteq DOMAIN result',
         t # Root /\ ph = "ok" => wf.def[t] \subseteq DOMAIN ctx[t],
         ph \notin {"failed", "ok"} =>
           /\ wf.home[s] = t /\ (t # Root => t \in wf.up[s])
           /\ \A a \in wf.up[s] : wf.avail[a] \cup wf.here[a] \subseteq DOMAIN ctx[t],
         ph = "check" => wf.kind[s] = "loop"
                         /\ ListDefines(wf, wf.thenEnd[s]) \subseteq DOMAIN ctx[t],
         ph = "leave" => wf.def[s] \subseteq DOMAIN ctx[t]
  PROVE  IInv'
<1>1. at' = [at EXCEPT ![t] = s] /\ phase' = [phase EXCEPT ![t] = ph]
  BY DEF Goto
<1>2. ctx' = [ctx EXCEPT ![t] = ctx[t]]
  BY Same
<1>3. wf' = wf /\ inputs' = inputs /\ tries' = tries /\ calls' = calls
  OBVIOUS
<1>4. ph \in (Running \ {"join"}) \cup Ended /\ (ph \in Running => ph \notin {"failed", "ok"})
  BY DEF Running, Ended
<1>5. IsContext(result')
  BY Typed
<1>6. wf.required \cup wf.defaulted \subseteq inputs'
  BY <1>3, Here
<1>7. phase[t] \in Local /\ s \in {None} \cup Steps(wf)
  OBVIOUS
<1>8. tries' \in [Steps(wf) -> Nat] /\ calls' \in [Steps(wf) -> Nat]
      /\ inputs' \subseteq Name /\ IsContext(ctx[t])
  BY <1>3, Typed
<1> QED BY <1>1, <1>2, <1>3, <1>4, <1>5, <1>6, <1>7, <1>8, LocalMove

LEMMA CallErrorKeeps ==
  ASSUME IInv, NEW t \in Tasks, CallError(t)
  PROVE  IInv'
<1>1. phase[t] = "call" /\ UNCHANGED <<wf, inputs, iter, result>>
  BY DEF CallError
<1>2. phase[t] \in Local \ {"start"}
  BY <1>1 DEF Local
<1>3. CASE /\ ctx' = [ctx EXCEPT ![t] = Recorded(ctx[t], at[t], calls[at[t]])]
           /\ Become(t, "leave") /\ UNCHANGED <<tries, calls>>
  BY <1>1, <1>3, RecordKeeps
<1>4. CASE /\ tries' = [tries EXCEPT ![at[t]] = @ + 1]
           /\ calls' = [calls EXCEPT ![at[t]] = @ + 1]
           /\ UNCHANGED <<at, phase, ctx>>
  <2>1. at' = [at EXCEPT ![t] = at[t]] /\ ctx' = [ctx EXCEPT ![t] = ctx[t]]
        /\ phase' = [phase EXCEPT ![t] = "call"]
    BY <1>1, <1>4, Same
  <2>2. tries' \in [Steps(wf) -> Nat] /\ calls' \in [Steps(wf) -> Nat]
    BY <1>2, <1>4, Typed, Here
  <2>3. wf' = wf /\ inputs' = inputs /\ iter' = iter /\ result' = result
    BY <1>1
  <2>4. IsContext(result') /\ "call" \in Running \ {"join"}
    BY <2>3, Typed DEF Running
  <2>5. IsLeaf(wf, at[t])
    BY <1>1, <1>2, Here DEF IInv, Carried, ControlOK
  <2> QED BY <1>2, <2>1, <2>2, <2>3, <2>4, <2>5, Typed, Here, LocalMove
<1>5. CASE Become(t, "failed") /\ UNCHANGED <<ctx, tries, calls>>
  <2>1. Goto(t, at[t], "failed")
    BY <1>5, Same DEF Become, Goto
  <2> QED BY <1>1, <1>2, <1>5, <2>1, Typed, Here, QuietMove
<1> QED BY <1>3, <1>4, <1>5 DEF CallError

\* Control enters a non-empty nested list of the branch or loop it is at.
LEMMA EnterListKeeps ==
  ASSUME IInv, NEW t \in Tasks, phase[t] \in {"enter", "check"},
         wf.kind[at[t]] \in {"branch", "loop"},
         NEW h \in {wf.then[at[t]], wf.else[at[t]]} \ {None}, Goto(t, h, "enter"),
         UNCHANGED <<wf, inputs, ctx, tries, calls, result>>, iter' \in [Steps(wf) -> Nat]
  PROVE  IInv'
<1>1. phase[t] \in Local \ {"start"}
  BY DEF Local
<1>2. at[t] \in Steps(wf) /\ wf.home[at[t]] = t /\ Loaded
  BY <1>1, Here DEF IInv
<1>3. h \in Steps(wf) /\ wf.home[h] = t /\ wf.up[h] = {h} \cup wf.up[at[t]]
      /\ wf.avail[h] = wf.avail[at[t]] /\ wf.here[h] = {}
  BY <1>2, HeadScope
<1>4. t # Root => t \in wf.up[h]
  BY <1>1, <1>3, Here
<1>5. \A a \in wf.up[h] : wf.avail[a] \cup wf.here[a] \subseteq DOMAIN ctx[t]
  BY <1>1, <1>3, Here
<1> QED BY <1>1, <1>3, <1>4, <1>5, QuietMove

LEMMA TakeBranchKeeps ==
  ASSUME IInv, NEW t \in Tasks, TakeBranch(t)
  PROVE  IInv'
<1> DEFINE s == at[t]
<1>1. phase[t] = "enter" /\ wf.kind[s] = "branch"
      /\ UNCHANGED <<wf, inputs, ctx, iter, tries, calls, result>>
  BY DEF TakeBranch
<1>2. phase[t] \in Local \ {"start"}
  BY <1>1 DEF Local
<1>3. s \in Steps(wf) /\ Loaded /\ iter' \in [Steps(wf) -> Nat]
  BY <1>1, <1>2, Here, Typed DEF IInv
<1>4. ASSUME NEW h \in {wf.then[s], wf.else[s]}, h # None, Goto(t, h, "enter")
      PROVE IInv'
  BY <1>1, <1>3, <1>4, EnterListKeeps
<1>5. CASE Descend(t, s, wf.then[s], "leave")
  <2>1. wf.then[s] # None
    BY <1>1, <1>3 DEF Loaded, Accepted, StructureOK
  <2> QED BY <1>4, <1>5, <2>1 DEF Descend
<1>6. CASE Descend(t, s, wf.else[s], "leave")
  <2>1. CASE wf.else[s] # None
    BY <1>4, <1>6, <2>1 DEF Descend
  <2>2. CASE wf.else[s] = None
    <3>1. wf.elseEnd[s] = None
      BY <1>3, <2>2 DEF Loaded, WorkflowTree
    <3>2. wf.def[s] = {}
      BY <1>1, <1>3, <3>1, DefinedBy DEF ListDefines
    <3>3. Goto(t, s, "leave")
      BY <1>6, <2>2 DEF Descend
    <3> QED BY <1>1, <1>2, <1>3, <3>2, <3>3, Here, QuietMove
  <2> QED BY <2>1, <2>2
<1>7. CASE Become(t, "failed")
  <2>1. Goto(t, s, "failed")
    BY <1>7, Same DEF Become, Goto
  <2> QED BY <1>1, <1>2, <1>3, <2>1, QuietMove
<1> QED BY <1>5, <1>6, <1>7 DEF TakeBranch

\* The body of an accepted loop is never empty.
LEMMA LoopBody ==
  ASSUME Loaded, NEW s \in Steps(wf), wf.kind[s] = "loop"
  PROVE  wf.then[s] # None
BY DEF Loaded, Accepted, StructureOK

LEMMA EnterLoopKeeps ==
  ASSUME IInv, NEW t \in Tasks, EnterLoop(t)
  PROVE  IInv'
<1> DEFINE s == at[t]
<1>1. phase[t] = "enter" /\ wf.kind[s] = "loop" /\ Descend(t, s, wf.then[s], "check")
      /\ UNCHANGED <<wf, inputs, ctx, tries, calls, result>>
  BY DEF EnterLoop
<1>2. s \in Steps(wf) /\ Loaded
  BY <1>1, Here DEF IInv, Local
<1>3. iter' \in [Steps(wf) -> Nat]
  BY <1>2, Typed DEF EnterLoop
<1>4. wf.then[s] # None /\ Goto(t, wf.then[s], "enter")
  BY <1>1, <1>2, LoopBody DEF Descend
<1> QED BY <1>1, <1>3, <1>4, EnterListKeeps

LEMMA CheckLoopKeeps ==
  ASSUME IInv, NEW t \in Tasks, CheckLoop(t)
  PROVE  IInv'
<1> DEFINE s == at[t]
<1>1. phase[t] = "check" /\ UNCHANGED <<wf, inputs, ctx, tries, calls, result>>
  BY DEF CheckLoop
<1>2. phase[t] \in Local \ {"start"}
  BY <1>1 DEF Local
<1>3. s \in Steps(wf) /\ Loaded /\ wf.kind[s] = "loop"
  BY <1>1, <1>2, Here DEF IInv, Carried, ControlOK
<1>4. ListDefines(wf, wf.thenEnd[s]) \subseteq DOMAIN ctx[t]
  BY <1>1, <1>2, Here DEF IInv, Carried, ScopesHeld
<1>5. CASE Become(t, "leave") /\ UNCHANGED iter
  <2>1. Goto(t, s, "leave")
    BY <1>5, Same DEF Become, Goto
  <2>2. wf.def[s] \subseteq DOMAIN ctx[t]
    BY <1>3, <1>4, DefinedBy
  <2> QED BY <1>1, <1>2, <1>3, <1>5, <2>1, <2>2, Here, Typed, QuietMove
<1>6. CASE iter' = [iter EXCEPT ![s] = @ + 1] /\ Descend(t, s, wf.then[s], "check")
  <2>1. iter' \in [Steps(wf) -> Nat]
    BY <1>3, <1>6, Typed
  <2>2. wf.then[s] # None /\ Goto(t, wf.then[s], "enter")
    BY <1>3, <1>6, LoopBody DEF Descend
  <2> QED BY <1>1, <1>3, <2>1, <2>2, EnterListKeeps
<1>7. CASE Become(t, "failed") /\ UNCHANGED iter
  <2>1. Goto(t, s, "failed")
    BY <1>7, Same DEF Become, Goto
  <2> QED BY <1>1, <1>2, <1>3, <1>7, <2>1, Here, Typed, QuietMove
<1> QED BY <1>5, <1>6, <1>7 DEF CheckLoop

\* The declared outputs are all found when the top-level list has ended.
LEMMA OutputsBuilt ==
  ASSUME Loaded, NEW c, IsContext(c), wf.thenEnd[None] \in Steps(wf),
         ListDefines(wf, wf.thenEnd[None]) \subseteq DOMAIN c
  PROVE  IsContext(BuildOutputs(c)) /\ DOMAIN wf.outputs \subseteq DOMAIN BuildOutputs(c)
<1> DEFINE src == ResultSource
           present == {o \in DOMAIN src : IsLeaf(wf, src[o]) /\ wf.out[src[o]] \in DOMAIN c}
<1>1. PICK D \in SUBSET Name : wf.outputs \in [D -> Steps(wf)]
  <2>1. wf.outputs \in UNION {[D -> Steps(wf)] : D \in SUBSET Name}
    BY DEF Loaded, WorkflowTyped
  <2> QED BY <2>1
<1>2. wf.out \in [Steps(wf) -> Name]
  BY DEF Loaded, WorkflowTyped
<1>3. DOMAIN src \subseteq Name
  BY <1>1, <1>2 DEF ResultSource
<1>4. BuildOutputs(c) = [o \in present |-> c[wf.out[src[o]]]]
  BY DEF BuildOutputs
<1>5. \A o \in present : c[wf.out[src[o]]] \in Value
  BY DEF IsContext
<1>6. IsContext(BuildOutputs(c))
  BY <1>3, <1>4, <1>5 DEF IsContext
<1>7. DOMAIN wf.outputs \subseteq present
  <2> SUFFICES ASSUME NEW o \in DOMAIN wf.outputs PROVE o \in present
    OBVIOUS
  <2>1. src = wf.outputs
    BY DEF ResultSource
  <2>2. IsLeaf(wf, wf.outputs[o])
        /\ wf.out[wf.outputs[o]] \in ListDefines(wf, wf.thenEnd[None])
    BY DEF Loaded, Accepted, OutputsDefined
  <2> QED BY <2>1, <2>2
<1> QED BY <1>4, <1>6, <1>7

LEMMA LeaveKeeps ==
  ASSUME IInv, NEW t \in Tasks, Leave(t)
  PROVE  IInv'
<1> DEFINE s == at[t]
           p == wf.parent[s]
<1>1. phase[t] = "leave" /\ UNCHANGED <<wf, inputs, ctx, iter, tries, calls>>
  BY DEF Leave
<1>2. phase[t] \in Local \ {"start"}
  BY <1>1 DEF Local
<1>3. s \in Steps(wf) /\ wf.home[s] = t /\ Loaded /\ iter' \in [Steps(wf) -> Nat]
  BY <1>1, <1>2, Here, Typed DEF IInv
<1>4. wf.avail[s] \cup wf.here[s] \cup wf.def[s] \subseteq DOMAIN ctx[t]
  BY <1>1, <1>2, Here DEF IInv, Carried, ScopesHeld
<1>5. CASE wf.next[s] # None /\ Goto(t, wf.next[s], "enter") /\ UNCHANGED result
  <2> DEFINE n == wf.next[s]
  <2>1. n \in Steps(wf) /\ wf.home[n] = t /\ wf.up[n] \subseteq {n} \cup wf.up[s]
        /\ wf.up[s] \ {s} \subseteq wf.up[n]
        /\ (t # None => t # s)
        /\ wf.avail[n] \cup wf.here[n] = wf.avail[s] \cup wf.here[s] \cup wf.def[s]
    BY <1>3, <1>5, NextScope
  <2>2. t # Root => t \in wf.up[n]
    BY <1>2, <2>1, Here DEF Root
  <2>3. \A a \in wf.up[n] : wf.avail[a] \cup wf.here[a] \subseteq DOMAIN ctx[t]
    BY <1>2, <1>4, <2>1, Here
  <2> QED BY <1>1, <1>2, <1>3, <1>5, <2>1, <2>2, <2>3, QuietMove
<1>6. CASE /\ wf.next[s] = None /\ p # None /\ UNCHANGED result
           /\ \/ wf.kind[p] = "branch" /\ Goto(t, p, "leave")
              \/ wf.kind[p] = "loop" /\ Goto(t, p, "check")
  <2>1. /\ p \in Steps(wf) /\ wf.home[p] = t /\ t # s /\ wf.up[s] = {s} \cup wf.up[p]
        /\ wf.kind[p] = "branch" => wf.def[p] \subseteq DOMAIN ctx[t]
        /\ wf.kind[p] = "loop" => ListDefines(wf, wf.thenEnd[p]) \subseteq DOMAIN ctx[t]
    BY <1>3, <1>4, <1>6, ListEnd, SMTT(30), ZenonT(30)
  <2>2. t # Root => t \in wf.up[p]
    BY <1>2, <2>1, Here
  <2>3. \A a \in wf.up[p] : wf.avail[a] \cup wf.here[a] \subseteq DOMAIN ctx[t]
    BY <1>2, <2>1, Here
  <2> QED BY <1>1, <1>2, <1>3, <1>6, <2>1, <2>2, <2>3, QuietMove
<1>7. CASE /\ wf.next[s] = None /\ p # None /\ wf.kind[p] = "parallel"
           /\ Become(t, "ok") /\ UNCHANGED result
  <2>1. s \in wf.kids[p] /\ p \in Steps(wf)
    BY <1>3, <1>7 DEF Loaded, WorkflowTyped, WorkflowTree
  <2>2. t = s /\ t # Root
    BY <1>3, <2>1, Owners, SMTT(30), ZenonT(30) DEF Loaded, WorkflowTree, Root
  <2>3. Goto(t, s, "ok")
    BY <1>7, Same DEF Become, Goto
  <2> QED BY <1>1, <1>2, <1>3, <1>4, <1>7, <2>2, <2>3, Typed, QuietMove
<1>8. CASE /\ wf.next[s] = None /\ p = None
           /\ Become(t, "ok") /\ result' = BuildOutputs(ctx[t])
  <2>1. s = wf.thenEnd[None] /\ t = Root
    BY <1>3, <1>8 DEF Loaded, WorkflowTree, Root
  <2>2. s # None
    BY <1>3, Owners
  <2>3. ListDefines(wf, wf.thenEnd[None]) \subseteq DOMAIN ctx[t]
    BY <1>4, <2>1, <2>2 DEF ListDefines
  <2>4. IsContext(result') /\ DOMAIN wf.outputs \subseteq DOMAIN result'
    BY <1>3, <1>8, <2>1, <2>3, OutputsBuilt, Typed
  <2>5. Goto(t, s, "ok")
    BY <1>8, Same DEF Become, Goto
  <2> QED BY <1>1, <1>2, <1>3, <2>1, <2>4, <2>5, QuietMove
<1> QED BY <1>5, <1>6, <1>7, <1>8 DEF Leave

LEMMA ResolveInputsKeeps ==
  ASSUME IInv, ResolveInputs
  PROVE  IInv'
<1> DEFINE h == wf.then[None]
<1>1. phase[Root] = "start" /\ phase[Root] \in Local /\ Root \in Tasks /\ Loaded
      /\ UNCHANGED <<wf, ctx, iter, tries, calls, result>>
  BY Owners DEF ResolveInputs, Local, IInv
<1>2. ctx' = [ctx EXCEPT ![Root] = ctx[Root]] /\ IsContext(result') /\ at[Root] \in {None} \cup Steps(wf)
  BY <1>1, Same, Typed DEF IInv, TypeOK
<1>3. CASE Become(Root, "failed") /\ UNCHANGED inputs
  <2>1. at' = [at EXCEPT ![Root] = at[Root]] /\ phase' = [phase EXCEPT ![Root] = "failed"]
    BY <1>1, <1>3, Same DEF Become
  <2>2. "failed" \in Ended /\ "failed" \notin Running
    BY DEF Ended, Running
  <2> QED BY <1>1, <1>2, <1>3, <2>1, <2>2, Typed, LocalMove
<1>4. ASSUME NEW given \in SUBSET CallerInputs, wf.required \subseteq given \cup wf.defaulted,
             inputs' = given \cup wf.defaulted, Goto(Root, h, "enter")
      PROVE  IInv'
  <2>1. h \in Steps(wf) /\ wf.parent[h] = None
    BY <1>1 DEF Loaded, WorkflowTyped, WorkflowTree, Accepted
  <2>2. wf.home[h] = Root /\ wf.up[h] = {h} /\ wf.avail[h] = {} /\ wf.here[h] = {}
    BY <1>1, <2>1 DEF Loaded, WorkflowTree, Accepted, Scoped, Root
  <2>3. inputs' \subseteq Name /\ wf.required \cup wf.defaulted \subseteq inputs'
    BY <1>1, <1>4, CallerInputsAssumption DEF Loaded, WorkflowTyped
  <2>4. at' = [at EXCEPT ![Root] = h] /\ phase' = [phase EXCEPT ![Root] = "enter"]
    BY <1>4 DEF Goto
  <2>5. "enter" \in Running \ {"join"}
    BY DEF Running
  <2> QED BY <1>1, <1>2, <2>1, <2>2, <2>3, <2>4, <2>5, Typed, LocalMove
<1> QED BY <1>3, <1>4 DEF ResolveInputs

-----------------------------------------------------------------------------
(* Fork and join.                                                          *)

\* The children of the parallel step a task is at are tasks it owns.
LEMMA KidsOf ==
  ASSUME Loaded, NEW t \in Tasks, at[t] \in Steps(wf), wf.home[at[t]] = t,
         NEW c \in wf.kids[at[t]]
  PROVE  /\ c \in Tasks \ {Root} /\ c \in Steps(wf) /\ Owner(c) = t
         /\ wf.parent[c] = at[t] /\ wf.up[c] = {c} \cup wf.up[at[t]] /\ wf.home[c] = c
         /\ wf.avail[c] = wf.avail[at[t]] /\ wf.here[c] = {}
<1>1. c \in Steps(wf) /\ wf.parent[c] = at[t] /\ wf.home[c] = c
  BY DEF Loaded, WorkflowTyped, WorkflowTree
<1>2. c \in Tasks \ {Root} /\ Owner(c) = t
  BY <1>1, Owners DEF Tasks, Root, Owner
<1>3. wf.up[c] = {c} \cup wf.up[at[t]]
  BY <1>1, Owners DEF Loaded, WorkflowTree
<1>4. c \in Children(wf, at[t])
  BY DEF Children
<1> QED BY <1>1, <1>2, <1>3, <1>4 DEF Loaded, Accepted, Scoped

LEMMA ForkKeeps ==
  ASSUME IInv, NEW t \in Tasks, Fork(t)
  PROVE  IInv'
<1> DEFINE s == at[t]
           kids == wf.kids[s]
<1>1. phase[t] = "enter" /\ wf.kind[s] = "parallel"
      /\ UNCHANGED <<wf, inputs, iter, tries, calls, result>>
  BY DEF Fork
<1>2. phase[t] \in Local \ {"start"}
  BY <1>1 DEF Local
<1>3. s \in Steps(wf) /\ wf.home[s] = t /\ Loaded
  BY <1>2, Here DEF IInv
<1>4. Tasks' = Tasks /\ Root \in Tasks /\ Steps(wf)' = Steps(wf)
  BY <1>1 DEF Tasks, Steps
<1>5. \A u \in Tasks \ {Root} :
        /\ Owner(u)' = Owner(u) /\ Owner(u) \in Tasks /\ u \in wf.kids[wf.parent[u]]
        /\ phase[u] # "idle" <=> phase[Owner(u)] = "join" /\ at[Owner(u)] = wf.parent[u]
  BY <1>1, <1>3, Owners DEF Owner, IInv, NoOrphan
<1>6. \A c \in kids :
        /\ c \in Tasks \ {Root} /\ c \in Steps(wf) /\ Owner(c) = t /\ c # t
        /\ wf.parent[c] = s /\ wf.up[c] = {c} \cup wf.up[s] /\ wf.home[c] = c
        /\ wf.avail[c] = wf.avail[s] /\ wf.here[c] = {} /\ phase[c] = "idle"
  BY <1>1, <1>3, <1>5, KidsOf
<1>7. \A u \in Tasks : at'[u] = IF u \in kids THEN u ELSE at[u]
  BY DEF Fork
<1>8. \A u \in Tasks : phase'[u] = IF u \in kids THEN "enter"
                                   ELSE IF u = t THEN "join" ELSE phase[u]
  BY DEF Fork
<1>9. \A u \in Tasks : ctx'[u] = IF u \in kids THEN ctx[t] ELSE ctx[u]
  BY DEF Fork
<1>10. \A u \in Tasks \ {Root} :
         phase[u] # "idle" => Owner(u) # t /\ Owner(u) \notin kids
  BY <1>1, <1>5, <1>6
<1>11. NoOrphan'
  <2> SUFFICES ASSUME NEW u \in Tasks \ {Root}
               PROVE phase'[u] # "idle" <=>
                     phase'[Owner(u)] = "join" /\ at'[Owner(u)] = wf.parent[u]
    BY <1>1, <1>4, <1>5 DEF NoOrphan
  <2>1. CASE u \in kids
    BY <2>1, <1>6, <1>7, <1>8
  <2>2. CASE u \notin kids
    <3>1. CASE Owner(u) \in kids \cup {t}
      <4>1. phase'[u] = "idle"
        BY <1>1, <1>8, <1>10, <2>2, <3>1
      <4>2. ~ (phase'[Owner(u)] = "join" /\ at'[Owner(u)] = wf.parent[u])
        BY <1>5, <1>6, <1>7, <1>8, <2>2, <3>1
      <4> QED BY <4>1, <4>2
    <3>2. CASE Owner(u) \notin kids \cup {t}
      BY <1>1, <1>5, <1>7, <1>8, <2>2, <3>2
    <3> QED BY <3>1, <3>2
  <2> QED BY <2>1, <2>2
<1>12. ControlOK'
  <2>1. \A u \in Tasks : phase'[u] \in Running =>
          /\ at'[u] \in Steps(wf) /\ wf.home[at'[u]] = u
          /\ u # Root => u \in wf.up[at'[u]]
          /\ phase'[u] = "call" => IsLeaf(wf, at'[u])
          /\ phase'[u] = "join" => wf.kind[at'[u]] = "parallel"
          /\ phase'[u] = "check" => wf.kind[at'[u]] = "loop"
    BY <1>1, <1>6, <1>7, <1>8, <1>2, Here DEF IInv, Carried, ControlOK, Running
  <2>2. phase'[Root] # "idle" /\ \A c \in Tasks \ {Root} : phase'[c] # "start"
    BY <1>4, <1>6, <1>8 DEF IInv, Carried, ControlOK
  <2> QED BY <1>1, <1>4, <2>1, <2>2 DEF ControlOK, IsLeaf
<1>13. ScopesHeld'
  <2> SUFFICES ASSUME NEW u \in Tasks
               PROVE  /\ phase'[u] \in Running =>
                           /\ wf.required \cup wf.defaulted \subseteq inputs
                           /\ \A a \in wf.up[at'[u]] :
                                wf.avail[a] \cup wf.here[a] \subseteq DOMAIN ctx'[u]
                           /\ phase'[u] = "leave" => wf.def[at'[u]] \subseteq DOMAIN ctx'[u]
                           /\ phase'[u] = "check" =>
                                ListDefines(wf, wf.thenEnd[at'[u]]) \subseteq DOMAIN ctx'[u]
                      /\ u # Root /\ phase'[u] = "ok" => wf.def[u] \subseteq DOMAIN ctx'[u]
    BY <1>1, <1>4 DEF ScopesHeld, ListDefines, None
  <2>1. CASE u \in kids
    BY <2>1, <1>2, <1>6, <1>7, <1>8, <1>9, Here
  <2>2. CASE u = t
    BY <2>2, <1>2, <1>6, <1>7, <1>8, <1>9, Here
  <2>3. CASE u \notin kids \cup {t}
    BY <2>3, <1>7, <1>8, <1>9 DEF IInv, Carried, ScopesHeld
  <2> QED BY <2>1, <2>2, <2>3
<1>14. SiblingIsolation'
  <2> SUFFICES ASSUME NEW u \in Tasks \ {Root}, phase'[u] # "idle",
                      NEW x \in DOMAIN ctx'[u]
               PROVE \/ u \in wf.up[ctx'[u][x].by]
                     \/ /\ x \in DOMAIN ctx'[Owner(u)]
                        /\ ctx'[u][x] = ctx'[Owner(u)][x]
    BY <1>1, <1>4, <1>5 DEF SiblingIsolation
  <2>1. CASE u \in kids
    BY <2>1, <1>6, <1>9
  <2>2. CASE u \notin kids
    <3>1. phase[u] # "idle"
      BY <1>1, <1>8, <2>2
    <3>2. ctx'[u] = ctx[u] /\ ctx'[Owner(u)] = ctx[Owner(u)]
      BY <1>5, <1>9, <1>10, <2>2, <3>1
    <3> QED BY <3>1, <3>2 DEF IInv, SiblingIsolation
  <2> QED BY <2>1, <2>2
<1>15. TypeOK'
  <2>1. at' \in [Tasks -> {None} \cup Steps(wf)]
    BY <1>6 DEF Fork, IInv, TypeOK
  <2>2. phase' \in [Tasks -> Running \cup Ended \cup {"start", "idle"}]
    BY DEF Fork, IInv, TypeOK, Running
  <2>3. ctx' = [u \in Tasks |-> ctx'[u]]
    BY DEF Fork
  <2>4. \A u \in Tasks : IsContext(ctx'[u])
    BY <1>9, Typed
  <2>5. \A u \in Tasks : IsContext(ctx[u])' <=> IsContext(ctx'[u])
    BY <1>1 DEF IsContext, Value, Steps
  <2>6. IsContext(result)'
    BY <1>1, <1>4, Typed DEF IsContext, Value, Steps
  <2>7. /\ inputs' \subseteq Name /\ iter' \in [Steps(wf) -> Nat]
        /\ tries' \in [Steps(wf) -> Nat] /\ calls' \in [Steps(wf) -> Nat]
    BY <1>1, Typed
  <2>8. ctx' = [u \in Tasks' |-> ctx'[u]]
    BY <1>4, <2>3
  <2> HIDE DEF IInv
  <2> QED BY <1>4, <2>1, <2>2, <2>4, <2>5, <2>6, <2>7, <2>8 DEF TypeOK
<1>16. OutputsComplete'
  BY <1>1, <1>4, <1>6, <1>8 DEF IInv, OutputsComplete
<1>17. Loaded'
  BY <1>1, <1>3 DEF Loaded
<1> QED BY <1>11, <1>12, <1>13, <1>14, <1>15, <1>16, <1>17 DEF IInv, Carried

\* A non-empty set of step numbers has a largest member.
LEMMA Largest ==
  ASSUME NEW n \in Nat, NEW S, S \subseteq 1..n, S # {}
  PROVE  \E c \in S : \A d \in S : d <= c
<1> DEFINE T == {k \in Nat : k <= n /\ n - k \in S}
<1>1. T \subseteq Nat
  OBVIOUS
<1>2. T # {}
  <2>1. PICK c \in S : TRUE
    OBVIOUS
  <2>2. c \in 1..n /\ n - c \in Nat /\ n - c <= n /\ n - (n - c) = c
    BY <2>1
  <2>3. n - c \in T
    BY <2>1, <2>2
  <2> QED BY <2>3
<1>3. PICK k \in T : \A m \in T : ~ (<<m, k>> \in OpToRel(<, Nat))
  <2> HIDE DEF T
  <2> QED BY <1>1, <1>2, NatLessThanWellFounded, WFMin
<1>4. \A m \in T : ~ (m < k)
  BY <1>1, <1>3 DEF OpToRel
<1>5. ASSUME NEW d \in S PROVE d <= n - k
  <2>1. d \in 1..n /\ n - d \in Nat /\ n - d <= n /\ n - (n - d) = d
    BY <1>5
  <2>2. n - d \in T
    BY <1>5, <2>1
  <2>3. ~ (n - d < k)
    BY <1>4, <2>2
  <2> QED BY <2>1, <2>3
<1>6. n - k \in S
  OBVIOUS
<1> QED BY <1>5, <1>6

(* outputs_added_since and the merge: nothing of the base is lost, every   *)
(* name a child defines is there, and a new value is a child's new value.  *)
LEMMA MergedOutputs ==
  ASSUME Loaded, NEW base, IsContext(base), NEW kids, kids \subseteq Tasks \ {Root},
         \A c \in kids : IsContext(ctx[c])
  PROVE  /\ IsContext(Merged(base, kids))
         /\ DOMAIN base \subseteq DOMAIN Merged(base, kids)
         /\ \A c \in kids : DOMAIN ctx[c] \subseteq DOMAIN Merged(base, kids)
         /\ \A x \in DOMAIN base : Merged(base, kids)[x] = base[x]
         /\ \A x \in DOMAIN Merged(base, kids) \ DOMAIN base :
              \E c \in kids : x \in DOMAIN ctx[c] /\ Merged(base, kids)[x] = ctx[c][x]
<1> DEFINE m == Merged(base, kids)
<1>1. DOMAIN m = DOMAIN base \cup UNION {Added(base, ctx[c]) : c \in kids}
      /\ m = [x \in DOMAIN m |-> m[x]]
      /\ \A x \in DOMAIN m : m[x] = IF x \in DOMAIN base THEN base[x]
                                    ELSE ctx[LastAdder(base, kids, x)][x]
  BY DEF Merged
<1> HIDE DEF m
<1>2. \A c \in kids : DOMAIN ctx[c] \subseteq DOMAIN m
  BY <1>1 DEF Added
<1>3. ASSUME NEW x \in DOMAIN m \ DOMAIN base
      PROVE  \E c \in kids : x \in DOMAIN ctx[c] /\ m[x] = ctx[c][x]
  <2> DEFINE A == Adders(base, kids, x)
  <2>1. A # {} /\ A \subseteq kids /\ \A c \in A : x \in DOMAIN ctx[c]
    BY <1>1, <1>3 DEF Adders, Added
  <2>2. A \subseteq 1..wf.size /\ wf.size \in Nat
    <3>1. A \subseteq Steps(wf)
      BY <2>1 DEF Tasks
    <3> QED BY <3>1 DEF Steps, Loaded, WorkflowTyped
  <2> HIDE DEF A
  <2>3. \E c \in A : \A d \in A : d <= c
    BY <2>1, <2>2, Largest
  <2>4. LastAdder(base, kids, x) \in A
    BY <2>3 DEF LastAdder, A
  <2>5. m[x] = ctx[LastAdder(base, kids, x)][x]
    BY <1>1, <1>3
  <2> QED BY <2>1, <2>4, <2>5
<1>4. IsContext(m)
  <2>1. DOMAIN m \subseteq Name
    BY <1>1, ZenonT(30) DEF IsContext, Added
  <2>2. ASSUME NEW x \in DOMAIN m PROVE m[x] \in Value
    <3>1. CASE x \in DOMAIN base
      BY <1>1, <3>1 DEF IsContext
    <3>2. CASE x \notin DOMAIN base
      BY <1>3, <3>2 DEF IsContext
    <3> QED BY <3>1, <3>2
  <2> QED BY <1>1, <2>1, <2>2 DEF IsContext
<1> QED BY <1>1, <1>2, <1>3, <1>4 DEF m

LEMMA JoinKeeps ==
  ASSUME IInv, NEW t \in Tasks, Join(t)
  PROVE  IInv'
<1> DEFINE s == at[t]
           kids == wf.kids[s]
           failed == \E c \in kids : phase[c] = "failed"
           m == Merged(ctx[t], kids)
<1>1. phase[t] = "join" /\ (\A c \in kids : phase[c] \in Ended)
      /\ UNCHANGED <<wf, inputs, at, iter, tries, calls, result>>
  BY DEF Join, AllReturned
<1>2. /\ s \in Steps(wf) /\ wf.home[s] = t /\ Loaded /\ wf.kind[s] = "parallel"
      /\ t # Root => t \in wf.up[s]
  BY <1>1 DEF IInv, Carried, ControlOK, Running
<1>3. Tasks' = Tasks /\ Root \in Tasks /\ Steps(wf)' = Steps(wf)
  BY <1>1 DEF Tasks, Steps
<1>4. \A u \in Tasks \ {Root} :
        /\ Owner(u)' = Owner(u) /\ Owner(u) \in Tasks /\ u \in wf.kids[wf.parent[u]]
        /\ phase[u] # "idle" <=> phase[Owner(u)] = "join" /\ at[Owner(u)] = wf.parent[u]
  BY <1>1, <1>2, Owners DEF Owner, IInv, NoOrphan
<1>5. \A c \in kids :
        /\ c \in Tasks \ {Root} /\ c \in Steps(wf) /\ Owner(c) = t /\ c # t
        /\ wf.parent[c] = s /\ wf.up[c] = {c} \cup wf.up[s]
        /\ phase[c] # "idle" /\ phase[c] # "join"
  BY <1>1, <1>2, KidsOf DEF Ended
<1>6. \A u \in Tasks : phase'[u] = IF u \in kids THEN "idle" ELSE IF u # t THEN phase[u]
                                   ELSE IF failed THEN "failed" ELSE "leave"
  BY DEF Join
<1>7. \A u \in Tasks : ctx'[u] = IF u \in kids THEN NoOutputs
                                 ELSE IF u = t /\ ~ failed THEN m ELSE ctx[u]
  BY DEF Join
<1>8. /\ IsContext(m) /\ DOMAIN ctx[t] \subseteq DOMAIN m
      /\ \A c \in kids : DOMAIN ctx[c] \subseteq DOMAIN m
      /\ \A x \in DOMAIN ctx[t] : m[x] = ctx[t][x]
      /\ \A x \in DOMAIN m \ DOMAIN ctx[t] :
           \E c \in kids : x \in DOMAIN ctx[c] /\ m[x] = ctx[c][x]
  BY <1>2, <1>5, Typed, MergedOutputs
<1> HIDE DEF m
\* Only the children of s were waited for by t, and nothing by them.
<1>9. \A u \in Tasks \ {Root} :
        phase'[u] # "idle" =>
          phase[u] # "idle" /\ u \notin kids /\ Owner(u) # t /\ Owner(u) \notin kids
  <2> SUFFICES ASSUME NEW u \in Tasks \ {Root}, phase'[u] # "idle"
               PROVE  phase[u] # "idle" /\ u \notin kids /\ Owner(u) # t /\ Owner(u) \notin kids
    OBVIOUS
  <2>1. phase[u] # "idle" /\ u \notin kids
    BY <1>1, <1>6
  <2>2. phase[Owner(u)] = "join" /\ at[Owner(u)] = wf.parent[u] /\ u \in wf.kids[wf.parent[u]]
    BY <1>4, <2>1
  <2> QED BY <1>5, <2>1, <2>2
<1>10. NoOrphan'
  <2> SUFFICES ASSUME NEW u \in Tasks \ {Root}
               PROVE phase'[u] # "idle" <=>
                     phase'[Owner(u)] = "join" /\ at[Owner(u)] = wf.parent[u]
    BY <1>1, <1>3, <1>4 DEF NoOrphan
  <2>1. CASE phase'[u] # "idle"
    BY <1>4, <1>6, <1>9, <2>1
  <2>2. CASE phase'[u] = "idle"
    <3> SUFFICES ASSUME phase'[Owner(u)] = "join", at[Owner(u)] = wf.parent[u]
                 PROVE FALSE
      BY <2>2
    <3>1. Owner(u) # t /\ Owner(u) \notin kids /\ phase[Owner(u)] = "join"
      BY <1>4, <1>6
    <3>2. phase[u] # "idle" /\ u \notin kids
      BY <1>4, <1>5, <3>1
    <3> QED BY <1>6, <2>2, <3>2
  <2> QED BY <2>1, <2>2
<1>11. ControlOK'
  <2>1. \A u \in Tasks : phase'[u] \in Running => phase[u] \in Running
          /\ (u = t => phase'[u] = "leave") /\ (u # t => phase'[u] = phase[u])
    BY <1>1, <1>6 DEF Running
  <2>2. phase'[Root] # "idle" /\ \A c \in Tasks \ {Root} : phase'[c] # "start"
    BY <1>3, <1>5, <1>6 DEF IInv, Carried, ControlOK
  <2> QED BY <1>1, <1>3, <2>1, <2>2 DEF IInv, Carried, ControlOK, IsLeaf
<1>12. ~ failed => wf.def[s] \subseteq DOMAIN m
  <2> SUFFICES ASSUME ~ failed PROVE wf.def[s] \subseteq DOMAIN m
    OBVIOUS
  <2>1. wf.def[s] = UNION {wf.def[c] : c \in kids}
    BY <1>2, DefinedBy
  <2>2. \A c \in kids : wf.def[c] \subseteq DOMAIN ctx[c]
    <3> SUFFICES ASSUME NEW c \in kids PROVE wf.def[c] \subseteq DOMAIN ctx[c]
      OBVIOUS
    <3>1. phase[c] = "ok" /\ c \in Tasks \ {Root}
      BY <1>1, <1>5 DEF Ended
    <3> QED BY <3>1 DEF IInv, Carried, ScopesHeld
  <2> QED BY <1>8, <2>1, <2>2
<1>13. ScopesHeld'
  <2> SUFFICES ASSUME NEW u \in Tasks
               PROVE  /\ phase'[u] \in Running =>
                           /\ wf.required \cup wf.defaulted \subseteq inputs
                           /\ \A a \in wf.up[at[u]] :
                                wf.avail[a] \cup wf.here[a] \subseteq DOMAIN ctx'[u]
                           /\ phase'[u] = "leave" => wf.def[at[u]] \subseteq DOMAIN ctx'[u]
                           /\ phase'[u] = "check" =>
                                ListDefines(wf, wf.thenEnd[at[u]]) \subseteq DOMAIN ctx'[u]
                      /\ u # Root /\ phase'[u] = "ok" => wf.def[u] \subseteq DOMAIN ctx'[u]
    BY <1>1, <1>3 DEF ScopesHeld, ListDefines, None
  <2>1. CASE u \in kids
    BY <2>1, <1>6 DEF Running
  <2>2. CASE u = t
    <3>1. /\ wf.required \cup wf.defaulted \subseteq inputs
          /\ \A a \in wf.up[s] : wf.avail[a] \cup wf.here[a] \subseteq DOMAIN ctx[t]
      BY <1>1 DEF IInv, Carried, ScopesHeld, Running
    <3>2. CASE failed
      BY <1>5, <1>6, <2>2, <3>2 DEF Running
    <3>3. CASE ~ failed
      <4>1. phase'[u] = "leave" /\ ctx'[u] = m
        BY <1>5, <1>6, <1>7, <2>2, <3>3
      <4> QED BY <1>8, <1>12, <2>2, <3>1, <3>3, <4>1
    <3> QED BY <3>2, <3>3
  <2>3. CASE u \notin kids \cup {t}
    <3>1. phase'[u] = phase[u] /\ ctx'[u] = ctx[u]
      BY <1>6, <1>7, <2>3
    <3> QED BY <3>1 DEF IInv, Carried, ScopesHeld
  <2> QED BY <2>1, <2>2, <2>3
<1>14. SiblingIsolation'
  <2> SUFFICES ASSUME NEW u \in Tasks \ {Root}, phase'[u] # "idle",
                      NEW x \in DOMAIN ctx'[u]
               PROVE \/ u \in wf.up[ctx'[u][x].by]
                     \/ /\ x \in DOMAIN ctx'[Owner(u)]
                        /\ ctx'[u][x] = ctx'[Owner(u)][x]
    BY <1>1, <1>3, <1>4 DEF SiblingIsolation
  <2>1. phase[u] # "idle" /\ u \notin kids /\ ctx'[Owner(u)] = ctx[Owner(u)]
    BY <1>4, <1>7, <1>9
  <2>2. \A y \in DOMAIN ctx[u] :
          \/ u \in wf.up[ctx[u][y].by]
          \/ y \in DOMAIN ctx[Owner(u)] /\ ctx[u][y] = ctx[Owner(u)][y]
    BY <2>1 DEF IInv, SiblingIsolation
  <2>3. CASE ctx'[u] = ctx[u]
    BY <2>1, <2>2, <2>3
  <2>4. CASE u = t /\ ctx'[u] = m
    <3>1. CASE x \in DOMAIN ctx[t]
      BY <1>8, <2>1, <2>2, <2>4, <3>1
    <3>2. CASE x \notin DOMAIN ctx[t]
      <4>1. PICK c \in kids : x \in DOMAIN ctx[c] /\ m[x] = ctx[c][x]
        BY <1>8, <2>4, <3>2
      <4>2. c \in Tasks \ {Root} /\ Owner(c) = t /\ phase[c] # "idle"
        BY <1>5
      <4>3. c \in wf.up[m[x].by]
        BY <3>2, <4>1, <4>2 DEF IInv, SiblingIsolation
      <4>4. m[x].by \in Steps(wf)
        BY <1>8, <2>4 DEF IsContext, Value
      <4>5. wf.up[c] \subseteq wf.up[m[x].by]
        BY <1>2, <4>3, <4>4 DEF Loaded, WorkflowTree
      <4>6. t \in wf.up[c]
        BY <1>2, <1>5, <2>4
      <4> QED BY <2>4, <4>5, <4>6
    <3> QED BY <3>1, <3>2
  <2> QED BY <1>7, <2>1, <2>3, <2>4
<1>15. TypeOK'
  <2>1. at' \in [Tasks -> {None} \cup Steps(wf)]
    BY <1>1 DEF IInv, TypeOK
  <2>2. phase' \in [Tasks -> Running \cup Ended \cup {"start", "idle"}]
    BY DEF Join, IInv, TypeOK, Running, Ended
  <2>3. ctx' = [u \in Tasks |-> ctx'[u]]
    BY DEF Join
  <2>4. IsContext(NoOutputs)
    BY DEF IsContext, NoOutputs
  <2>5. \A u \in Tasks : IsContext(ctx'[u])
    BY <1>7, <1>8, <2>4, Typed
  <2>6. \A u \in Tasks : IsContext(ctx[u])' <=> IsContext(ctx'[u])
    BY <1>1 DEF IsContext, Value, Steps
  <2>7. IsContext(result)'
    BY <1>1, <1>3, Typed DEF IsContext, Value, Steps
  <2>8. /\ inputs' \subseteq Name /\ iter' \in [Steps(wf) -> Nat]
        /\ tries' \in [Steps(wf) -> Nat] /\ calls' \in [Steps(wf) -> Nat]
    BY <1>1, Typed
  <2>9. ctx' = [u \in Tasks' |-> ctx'[u]]
    BY <1>3, <2>3
  <2> HIDE DEF IInv
  <2> QED BY <1>3, <2>1, <2>2, <2>5, <2>6, <2>7, <2>8, <2>9 DEF TypeOK
<1>16. OutputsComplete'
  BY <1>1, <1>3, <1>5, <1>6 DEF IInv, OutputsComplete
<1>17. Loaded'
  BY <1>1, <1>2 DEF Loaded
<1> QED BY <1>10, <1>11, <1>13, <1>14, <1>15, <1>16, <1>17 DEF IInv, Carried

-----------------------------------------------------------------------------
(* The invariant holds initially and is preserved by every step.           *)

LEMMA InitHolds == Init => IInv
<1> SUFFICES ASSUME Init PROVE IInv
  OBVIOUS
<1>1. wf \in Workflows /\ Accepted(wf)
  BY DEF Init
<1>2. Loaded
  BY <1>1, WorkflowsAssumption DEF Loaded
<1>3. /\ at = [t \in Tasks |-> None] /\ ctx = [t \in Tasks |-> NoOutputs]
      /\ phase = [t \in Tasks |-> IF t = Root THEN "start" ELSE "idle"]
      /\ iter = [s \in Steps(wf) |-> 0] /\ tries = [s \in Steps(wf) |-> 0]
      /\ calls = [s \in Steps(wf) |-> 0] /\ inputs = {} /\ result = NoOutputs
  BY DEF Init
<1>4. Root \in Tasks /\ \A u \in Tasks \ {Root} : Owner(u) \in Tasks
  BY <1>2, Owners
<1>5. IsContext(NoOutputs)
  BY DEF IsContext, NoOutputs
<1>6. TypeOK
  <2>1. \A t \in Tasks : ctx[t] = NoOutputs
    BY <1>3
  <2>2. ctx = [t \in Tasks |-> ctx[t]]
    BY <1>3
  <2>3. phase \in [Tasks -> Running \cup Ended \cup {"start", "idle"}]
    BY <1>3
  <2> HIDE DEF Running, Ended
  <2> QED BY <1>3, <1>5, <2>1, <2>2, <2>3 DEF TypeOK
<1>7. \A t \in Tasks : phase[t] \in {"start", "idle"} /\ phase[t] \notin Running \cup Ended
  BY <1>3 DEF Running, Ended
<1>8. NoOrphan
  BY <1>3, <1>4, <1>7 DEF NoOrphan
<1>9. Carried
  <2>1. ControlOK
    BY <1>3, <1>4, <1>7 DEF ControlOK
  <2>2. ScopesHeld
    BY <1>7 DEF ScopesHeld, Ended
  <2> QED BY <2>1, <2>2 DEF Carried
<1>10. SiblingIsolation
  BY <1>3 DEF SiblingIsolation
<1>11. OutputsComplete
  BY <1>3, <1>4 DEF OutputsComplete
<1> QED BY <1>2, <1>6, <1>8, <1>9, <1>10, <1>11 DEF IInv

LEMMA StepKeeps == IInv /\ [Next]_vars => IInv'
<1> SUFFICES ASSUME IInv, [Next]_vars PROVE IInv'
  OBVIOUS
<1>1. CASE ResolveInputs
  BY <1>1, ResolveInputsKeeps
<1>2. ASSUME NEW t \in Tasks, Step(t) PROVE IInv'
  BY <1>2, RenderFailsKeeps, StartCallKeeps, CallOkKeeps, CallErrorKeeps, TakeBranchKeeps,
     EnterLoopKeeps, CheckLoopKeeps, ForkKeeps, JoinKeeps, LeaveKeeps DEF Step
<1>3. CASE UNCHANGED vars
  <2>1. Loaded' <=> Loaded
    BY <1>3 DEF vars, Loaded
  <2>2. TypeOK' <=> TypeOK
    BY <1>3 DEF vars, TypeOK, Tasks, IsContext, Value, Steps
  <2>3. NoOrphan' <=> NoOrphan
    BY <1>3 DEF vars, NoOrphan, Tasks, Owner, Steps
  <2>4. ControlOK' <=> ControlOK
    BY <1>3 DEF vars, ControlOK, Tasks, IsLeaf, Steps
  <2>5. ScopesHeld' <=> ScopesHeld
    BY <1>3 DEF vars, ScopesHeld, Tasks, ListDefines, Steps
  <2>6. SiblingIsolation' <=> SiblingIsolation
    BY <1>3 DEF vars, SiblingIsolation, Tasks, Owner, Steps
  <2>7. OutputsComplete' <=> OutputsComplete
    BY <1>3 DEF vars, OutputsComplete
  <2> QED BY <2>1, <2>2, <2>3, <2>4, <2>5, <2>6, <2>7 DEF IInv, Carried
<1> QED BY <1>1, <1>2, <1>3 DEF Next

LEMMA Invariance == Spec => []IInv
<1>1. Init => IInv
  BY InitHolds
<1>2. IInv /\ [Next]_vars => IInv'
  BY StepKeeps
<1> QED BY <1>1, <1>2, PTL DEF Spec

-----------------------------------------------------------------------------
(* The theorems.                                                           *)

\* The interpreter's state keeps its types, whatever the workflow.
THEOREM TypeCorrect == Spec => []TypeOK
<1>1. IInv => TypeOK
  BY DEF IInv
<1> QED BY <1>1, Invariance, PTL

\* validate.rs is sound for the strict rendering of engine.rs: a reference
\* that passed validation resolves whenever the step runs.
THEOREM ReferencesAlwaysResolve == Spec => []ReferencesResolve
<1>1. IInv => ReferencesResolve
  <2> SUFFICES ASSUME IInv, NEW t \in Tasks, Reads(t)
               PROVE  wf.refs[at[t]] \subseteq Visible(t) \cup OptionalInputs
    BY DEF ReferencesResolve
  <2> DEFINE s == at[t]
  <2>1. phase[t] \in Local \ {"start"}
    BY DEF Reads, Local
  <2>2. s \in Steps(wf) /\ wf.avail[s] \subseteq DOMAIN ctx[t]
        /\ wf.required \cup wf.defaulted \subseteq inputs
    BY <2>1, Here
  <2>3. ReferencesKnown(wf, s)
    BY <2>2 DEF IInv, Loaded, Accepted
  <2>4. wf.avail[s] \cup wf.inputs \subseteq Visible(t) \cup OptionalInputs
    BY <2>2 DEF Visible, OptionalInputs
  <2>5. CASE phase[t] = "enter" /\ wf.kind[s] \in LeafKinds \cup {"branch"}
    <3>1. wf.refs[s] \subseteq wf.avail[s] \cup wf.inputs
      BY <2>3, <2>5 DEF ReferencesKnown, LeafKinds
    <3> QED BY <2>4, <3>1
  <2>6. CASE phase[t] = "check"
    <3>1. wf.kind[s] = "loop" /\ ListDefines(wf, wf.thenEnd[s]) \subseteq DOMAIN ctx[t]
      BY <2>1, <2>6, Here DEF IInv, Carried, ControlOK, ScopesHeld
    <3>2. wf.refs[s] \subseteq wf.avail[s] \cup wf.inputs \cup ListDefines(wf, wf.thenEnd[s])
      BY <2>3, <3>1 DEF ReferencesKnown
    <3> QED BY <2>4, <3>1, <3>2 DEF Visible
  <2> QED BY <2>5, <2>6 DEF Reads
<1> QED BY <1>1, Invariance, PTL

\* Every declared output of an accepted workflow is in the result of a
\* successful execution.
THEOREM OutputsAlwaysComplete == Spec => []OutputsComplete
<1>1. IInv => OutputsComplete
  BY DEF IInv
<1> QED BY <1>1, Invariance, PTL

\* Fork and join are properly nested: no child outlives or precedes its join.
THEOREM StructuredConcurrency == Spec => []NoOrphan
<1>1. IInv => NoOrphan
  BY DEF IInv
<1> QED BY <1>1, Invariance, PTL

\* No output leaks between the siblings of a parallel step.
THEOREM SiblingsIsolated == Spec => []SiblingIsolation
<1>1. IInv => SiblingIsolation
  BY DEF IInv
<1> QED BY <1>1, Invariance, PTL

\* A child that is under way is never cut short by its siblings.
THEOREM NoEarlyAbort == Spec => ChildrenRunToCompletion
<1>1. IInv /\ [Next]_vars =>
        [\A c \in Tasks \ {Root} : phase[c] \in Running => phase'[c] # "idle"]_vars
  <2> SUFFICES ASSUME IInv, Next, NEW c \in Tasks \ {Root}, phase[c] \in Running
               PROVE  phase'[c] # "idle"
    BY DEF Next
  <2>1. phase \in [Tasks -> Running \cup Ended \cup {"start", "idle"}] /\ Root \in Tasks
    BY Owners DEF IInv, TypeOK
  <2>2. phase[c] # "idle" /\ phase[c] \notin Ended
    BY DEF Running, Ended
  <2>3. CASE ResolveInputs
    BY <2>1, <2>2, <2>3 DEF ResolveInputs, Become, Goto
  <2>4. ASSUME NEW t \in Tasks, Step(t) PROVE phase'[c] # "idle"
    <3>1. CASE RenderFails(t) \/ StartCall(t) \/ CallOk(t) \/ CallError(t)
      BY <2>1, <2>2, <3>1 DEF RenderFails, StartCall, CallOk, CallError, Become
    <3>2. CASE TakeBranch(t) \/ EnterLoop(t) \/ CheckLoop(t)
      BY <2>1, <2>2, <3>2 DEF TakeBranch, EnterLoop, CheckLoop, Descend, Become, Goto
    <3>3. CASE Fork(t)
      BY <2>2, <3>3 DEF Fork
    <3>4. CASE Join(t)
      BY <2>2, <3>4 DEF Join, AllReturned
    <3>5. CASE Leave(t)
      BY <2>1, <2>2, <3>5 DEF Leave, Become, Goto
    <3> QED BY <2>4, <3>1, <3>2, <3>3, <3>4, <3>5 DEF Step
  <2> QED BY <2>3, <2>4 DEF Next
<1> QED BY <1>1, Invariance, PTL DEF Spec, ChildrenRunToCompletion

-----------------------------------------------------------------------------
(* How often each step runs.  n[s] counts the activations of step s that   *)
(* have begun; it is no variable of the interpreter, and the invariant     *)
(* says that a count exists which agrees with the state.                   *)

\* Where task t = home[x] stands with step x: outside it, at it (its phase),
\* or within it, at a step nested in x.
Position(w, x, s, ph) ==
  IF ph \notin Running \/ x \notin w.up[s] THEN "out"
  ELSE IF s = x THEN ph ELSE "within"
Pos(x) == LET t == wf.home[x] IN Position(wf, x, at[t], phase[t])

\* A count of activations beside the three counters of the interpreter.
Counters(w) == [n : [Steps(w) -> Nat], calls : [Steps(w) -> Nat],
                tries : [Steps(w) -> Nat], iter : [Steps(w) -> Nat]]

\* The most tries of one activation.
AttemptsOf(w, x) == IF w.kind[x] = "tool" /\ w.onError[x] = "retry" THEN w.max[x] ELSE 1

\* The most the counters of x, of its children and of its successor can be.
AtMost(w, x, pos, q) ==
  /\ pos # "out" => q.n[x] # 0
  /\ w.next[x] # None => /\ q.n[w.next[x]] <= q.n[x]
                         /\ pos # "out" => q.n[w.next[x]] < q.n[x]
  /\ w.kind[x] # "loop" => \A c \in Children(w, x) :
       q.n[c] <= q.n[x] /\ (pos = "enter" => q.n[c] < q.n[x])
  /\ w.kind[x] = "loop" =>
       /\ q.n[w.then[x]] <= q.n[x] * w.max[x]
       /\ pos = "enter" => q.n[w.then[x]] <= (q.n[x] - 1) * w.max[x]
       /\ pos \in {"within", "check", "leave"} =>
            /\ q.iter[x] <= w.max[x]
            /\ q.n[w.then[x]] <= (q.n[x] - 1) * w.max[x] + q.iter[x]
  /\ IsLeaf(w, x) =>
       /\ q.calls[x] <= AttemptsOf(w, x) * q.n[x]
       /\ pos = "enter" => q.calls[x] <= AttemptsOf(w, x) * (q.n[x] - 1)
       /\ pos = "call" => /\ q.tries[x] <= AttemptsOf(w, x)
                          /\ q.calls[x] <= AttemptsOf(w, x) * (q.n[x] - 1) + q.tries[x]

\* The least they can be while nothing has failed.
AtLeast(w, x, pos, q) ==
  /\ w.next[x] # None => q.n[w.next[x]] >= IF pos = "out" THEN q.n[x] ELSE q.n[x] - 1
  /\ w.kind[x] = "parallel" => \A c \in w.kids[x] :
       q.n[c] >= IF pos = "enter" THEN q.n[x] - 1 ELSE q.n[x]
  /\ w.kind[x] = "loop" /\ ~ w.exit[x] =>
       /\ pos \in {"out", "leave"} => q.n[w.then[x]] >= q.n[x] * w.max[x]
       /\ pos = "enter" => q.n[w.then[x]] >= (q.n[x] - 1) * w.max[x]
       /\ pos \in {"within", "check"} =>
            q.n[w.then[x]] >= (q.n[x] - 1) * w.max[x] + q.iter[x]
  /\ IsLeaf(w, x) => q.calls[x] >= IF pos = "enter" THEN q.n[x] - 1 ELSE q.n[x]

\* From position old and counters q to position new and counters r, x keeps
\* its two bounds.
Kept(w, x, old, new, q, r) ==
  /\ AtMost(w, x, old, q) => AtMost(w, x, new, r)
  /\ AtLeast(w, x, old, q) => AtLeast(w, x, new, r)

NoFailure == \A t \in Tasks : phase[t] # "failed"
With(n) == [n |-> n, calls |-> calls, tries |-> tries, iter |-> iter]
Counted(n) ==
  /\ n[wf.then[None]] <= 1 /\ (phase[Root] = "start" => n[wf.then[None]] = 0)
  /\ \A x \in Steps(wf) : AtMost(wf, x, Pos(x), With(n))
  /\ NoFailure =>
       /\ phase[Root] # "start" => n[wf.then[None]] = 1
       /\ \A x \in Steps(wf) : AtLeast(wf, x, Pos(x), With(n))
CountInv == \E n \in [Steps(wf) -> Nat] : Counted(n)

-----------------------------------------------------------------------------
(* The transitions of one step.                                            *)

\* The counts of r are those of q, and one more for each step of E.
Begun(w, q, r, E) ==
  /\ \A x \in Steps(w) : r.n[x] = IF x \in E THEN q.n[x] + 1 ELSE q.n[x]
\* The interpreter's own counters of x are the same.
Same3(q, r, x) == r.calls[x] = q.calls[x] /\ r.tries[x] = q.tries[x] /\ r.iter[x] = q.iter[x]

\* Neither the successor of x nor a child of it is in E.
Clear(w, x, E) == (w.next[x] # None => w.next[x] \notin E) /\ Children(w, x) \cap E = {}

\* The steps the bounds of x mention.
LEMMA Mentioned ==
  ASSUME Loaded, NEW x \in Steps(wf)
  PROVE  /\ wf.next[x] # None => wf.next[x] \in Steps(wf)
         /\ Children(wf, x) \subseteq Steps(wf)
         /\ wf.kids[x] \subseteq Children(wf, x)
         /\ wf.kind[x] = "loop" => wf.then[x] \in Children(wf, x)
         /\ wf.max[x] \in Nat /\ AttemptsOf(wf, x) \in Nat
         /\ None \notin Steps(wf)
<1>1. /\ wf.next[x] \in {None} \cup Steps(wf) /\ wf.then[x] \in {None} \cup Steps(wf)
      /\ wf.else[x] \in {None} \cup Steps(wf) /\ wf.kids[x] \subseteq Steps(wf)
      /\ wf.max[x] \in Nat
  BY DEF Loaded, WorkflowTyped
<1>2. wf.kind[x] = "loop" => wf.then[x] # None
  BY LoopBody
<1> QED BY <1>1, <1>2, Owners DEF Children, AttemptsOf

\* Step x stays where it is, and neither it, nor its successor, nor a child begins.
LEMMA Elsewhere ==
  ASSUME Loaded, NEW x \in Steps(wf), NEW q \in Counters(wf), NEW r \in Counters(wf),
         NEW E, Begun(wf, q, r, E), Same3(q, r, x), Clear(wf, x, E), x \notin E, NEW pos
  PROVE  Kept(wf, x, pos, pos, q, r)
<1>1. r.n[x] = q.n[x] /\ (wf.next[x] # None => r.n[wf.next[x]] = q.n[wf.next[x]])
      /\ \A c \in Children(wf, x) : r.n[c] = q.n[c]
  BY Mentioned DEF Begun, Clear
<1>2. wf.kids[x] \subseteq Children(wf, x) /\ (wf.kind[x] = "loop" => wf.then[x] \in Children(wf, x))
  BY Mentioned
<1>3. AtMost(wf, x, pos, q) => AtMost(wf, x, pos, r)
  BY <1>1, <1>2 DEF AtMost, Same3
<1>4. AtLeast(wf, x, pos, q) => AtLeast(wf, x, pos, r)
  BY <1>1, <1>2 DEF AtLeast, Same3
<1> QED BY <1>3, <1>4 DEF Kept

\* The counters that the bounds of a step compare are natural numbers.
LEMMA Numbers ==
  ASSUME Loaded, NEW x \in Steps(wf), NEW q \in Counters(wf)
  PROVE  /\ q.n[x] \in Nat /\ q.calls[x] \in Nat /\ q.tries[x] \in Nat /\ q.iter[x] \in Nat
         /\ wf.next[x] # None => q.n[wf.next[x]] \in Nat
         /\ \A c \in Children(wf, x) : q.n[c] \in Nat
         /\ wf.kind[x] = "loop" => q.n[wf.then[x]] \in Nat
BY Mentioned DEF Counters

\* Step x begins.
LEMMA Enters ==
  ASSUME Loaded, NEW x \in Steps(wf), NEW q \in Counters(wf), NEW r \in Counters(wf),
         NEW E, Begun(wf, q, r, E), Same3(q, r, x), Clear(wf, x, E), x \in E
  PROVE  Kept(wf, x, "out", "enter", q, r)
<1>1. r.n[x] = q.n[x] + 1 /\ (wf.next[x] # None => r.n[wf.next[x]] = q.n[wf.next[x]])
      /\ \A c \in Children(wf, x) : r.n[c] = q.n[c]
  BY Mentioned DEF Begun, Clear
<1>2. r.n[x] - 1 = q.n[x]
  BY <1>1, Numbers
<1>8. AtMost(wf, x, "out", q) => AtMost(wf, x, "enter", r)
  BY Mentioned, Numbers, <1>1, <1>2, SMTT(30), ZenonT(30) DEF AtMost, Same3
<1>9. AtLeast(wf, x, "out", q) => AtLeast(wf, x, "enter", r)
  BY Mentioned, Numbers, <1>1, <1>2 DEF AtLeast, Same3
<1> QED BY <1>8, <1>9 DEF Kept

\* Step x is left; its successor, if it has one, begins.
LEMMA GoesOn ==
  ASSUME Loaded, NEW x \in Steps(wf), NEW q \in Counters(wf), NEW r \in Counters(wf),
         NEW E, Begun(wf, q, r, E), Same3(q, r, x), x \notin E,
         Children(wf, x) \cap E = {}, wf.next[x] = None \/ wf.next[x] \in E
  PROVE  Kept(wf, x, "leave", "out", q, r)
<1>1. r.n[x] = q.n[x] /\ (wf.next[x] # None => r.n[wf.next[x]] = q.n[wf.next[x]] + 1)
      /\ \A c \in Children(wf, x) : r.n[c] = q.n[c]
  BY Mentioned DEF Begun
<1>8. AtMost(wf, x, "leave", q) => AtMost(wf, x, "out", r)
  BY Mentioned, Numbers, <1>1 DEF AtMost, Same3
<1>9. AtLeast(wf, x, "leave", q) => AtLeast(wf, x, "out", r)
  BY Mentioned, Numbers, <1>1 DEF AtLeast, Same3
<1> QED BY <1>8, <1>9 DEF Kept

\* An arm of branch x begins.
LEMMA EntersArm ==
  ASSUME Loaded, NEW x \in Steps(wf), NEW q \in Counters(wf), NEW r \in Counters(wf),
         NEW E, Begun(wf, q, r, E), Same3(q, r, x), x \notin E,
         wf.next[x] # None => wf.next[x] \notin E, wf.kind[x] = "branch"
  PROVE  Kept(wf, x, "enter", "within", q, r)
<1>1. r.n[x] = q.n[x] /\ (wf.next[x] # None => r.n[wf.next[x]] = q.n[wf.next[x]])
      /\ \A c \in Children(wf, x) : r.n[c] = q.n[c] \/ r.n[c] = q.n[c] + 1
  BY Mentioned DEF Begun
<1>8. AtMost(wf, x, "enter", q) => AtMost(wf, x, "within", r)
  BY Mentioned, Numbers, <1>1 DEF AtMost, Same3, IsLeaf, LeafKinds
<1>9. AtLeast(wf, x, "enter", q) => AtLeast(wf, x, "within", r)
  BY Mentioned, Numbers, <1>1 DEF AtLeast, Same3, IsLeaf, LeafKinds
<1> QED BY <1>8, <1>9 DEF Kept

\* The children of parallel step x begin.
LEMMA Forks ==
  ASSUME Loaded, NEW x \in Steps(wf), NEW q \in Counters(wf), NEW r \in Counters(wf),
         NEW E, Begun(wf, q, r, E), Same3(q, r, x), x \notin E,
         wf.next[x] # None => wf.next[x] \notin E, wf.kind[x] = "parallel", wf.kids[x] \subseteq E
  PROVE  Kept(wf, x, "enter", "join", q, r)
<1>1. r.n[x] = q.n[x] /\ (wf.next[x] # None => r.n[wf.next[x]] = q.n[wf.next[x]])
      /\ \A c \in Children(wf, x) : r.n[c] = q.n[c] \/ r.n[c] = q.n[c] + 1
  BY Mentioned DEF Begun
<1>2. \A c \in wf.kids[x] : r.n[c] = q.n[c] + 1
  BY Mentioned DEF Begun
<1>8. AtMost(wf, x, "enter", q) => AtMost(wf, x, "join", r)
  BY Mentioned, Numbers, <1>1, <1>2 DEF AtMost, Same3, IsLeaf, LeafKinds
<1>9. AtLeast(wf, x, "enter", q) => AtLeast(wf, x, "join", r)
  BY Mentioned, Numbers, <1>1, <1>2 DEF AtLeast, Same3, IsLeaf, LeafKinds
<1> QED BY <1>8, <1>9 DEF Kept

\* The first iteration of loop x begins.
LEMMA EntersBody ==
  ASSUME Loaded, NEW x \in Steps(wf), NEW q \in Counters(wf), NEW r \in Counters(wf),
         NEW E, Begun(wf, q, r, E), x \notin E, r.iter[x] = 1,
         wf.next[x] # None => wf.next[x] \notin E, wf.kind[x] = "loop", wf.then[x] \in E
  PROVE  Kept(wf, x, "enter", "within", q, r)
<1>1. r.n[x] = q.n[x] /\ (wf.next[x] # None => r.n[wf.next[x]] = q.n[wf.next[x]])
      /\ r.n[wf.then[x]] = q.n[wf.then[x]] + 1
  BY Mentioned DEF Begun
<1>2. wf.max[x] >= 1
  BY Mentioned DEF Loaded, Accepted, StructureOK
<1>3. q.n[x] >= 1 => q.n[x] * wf.max[x] = (q.n[x] - 1) * wf.max[x] + wf.max[x]
  BY Mentioned, Numbers
<1>4. q.n[x] >= 1 => (q.n[x] - 1) * wf.max[x] \in Nat
  <2> SUFFICES ASSUME q.n[x] >= 1 PROVE (q.n[x] - 1) * wf.max[x] \in Nat
    OBVIOUS
  <2>1. q.n[x] - 1 \in Nat
    BY Numbers
  <2> QED BY <2>1, Mentioned
<1>8. AtMost(wf, x, "enter", q) => AtMost(wf, x, "within", r)
  BY Mentioned, Numbers, <1>1, <1>2, <1>3, <1>4 DEF AtMost, Same3, IsLeaf, LeafKinds
<1>9. AtLeast(wf, x, "enter", q) => AtLeast(wf, x, "within", r)
  BY Mentioned, Numbers, <1>1, <1>2, <1>3, <1>4 DEF AtLeast, Same3, IsLeaf, LeafKinds
<1> QED BY <1>8, <1>9 DEF Kept

\* Loop x goes round again.
LEMMA Repeats ==
  ASSUME Loaded, NEW x \in Steps(wf), NEW q \in Counters(wf), NEW r \in Counters(wf),
         NEW E, Begun(wf, q, r, E), x \notin E, r.iter[x] = q.iter[x] + 1, q.iter[x] < wf.max[x],
         wf.next[x] # None => wf.next[x] \notin E, wf.kind[x] = "loop", wf.then[x] \in E
  PROVE  Kept(wf, x, "check", "within", q, r)
<1>1. r.n[x] = q.n[x] /\ (wf.next[x] # None => r.n[wf.next[x]] = q.n[wf.next[x]])
      /\ r.n[wf.then[x]] = q.n[wf.then[x]] + 1
  BY Mentioned DEF Begun
<1>3. q.n[x] >= 1 => q.n[x] * wf.max[x] = (q.n[x] - 1) * wf.max[x] + wf.max[x]
  BY Mentioned, Numbers
<1>4. q.n[x] >= 1 => (q.n[x] - 1) * wf.max[x] \in Nat
  <2> SUFFICES ASSUME q.n[x] >= 1 PROVE (q.n[x] - 1) * wf.max[x] \in Nat
    OBVIOUS
  <2>1. q.n[x] - 1 \in Nat
    BY Numbers
  <2> QED BY <2>1, Mentioned
<1>8. AtMost(wf, x, "check", q) => AtMost(wf, x, "within", r)
  BY Mentioned, Numbers, <1>1, <1>3, <1>4 DEF AtMost, Same3, IsLeaf, LeafKinds
<1>9. AtLeast(wf, x, "check", q) => AtLeast(wf, x, "within", r)
  BY Mentioned, Numbers, <1>1, <1>3, <1>4 DEF AtLeast, Same3, IsLeaf, LeafKinds
<1> QED BY <1>8, <1>9 DEF Kept

\* Step x goes on without another beginning.
LEMMA Continues ==
  ASSUME Loaded, NEW x \in Steps(wf), NEW q \in Counters(wf), NEW r \in Counters(wf),
         r.n = q.n, Same3(q, r, x), NEW pos, NEW new,
         \/ pos = "within" /\ new = "check" /\ wf.kind[x] = "loop"
         \/ pos = "within" /\ new = "leave" /\ wf.kind[x] = "branch"
         \/ pos = "enter" /\ new = "leave" /\ wf.kind[x] = "branch"
         \/ pos = "join" /\ new = "leave" /\ wf.kind[x] = "parallel"
         \/ pos = "call" /\ new = "leave" /\ IsLeaf(wf, x)
  PROVE  Kept(wf, x, pos, new, q, r)
<1>8. AtMost(wf, x, pos, q) => AtMost(wf, x, new, r)
  BY Mentioned, Numbers DEF AtMost, Same3, IsLeaf, LeafKinds
<1>9. AtLeast(wf, x, pos, q) => AtLeast(wf, x, new, r)
  BY Mentioned, Numbers DEF AtLeast, Same3, IsLeaf, LeafKinds
<1> QED BY <1>8, <1>9 DEF Kept

\* Loop x ends: its exit condition holds, or its cap is reached.
LEMMA Exits ==
  ASSUME Loaded, NEW x \in Steps(wf), NEW q \in Counters(wf), NEW r \in Counters(wf),
         r.n = q.n, Same3(q, r, x), wf.kind[x] = "loop",
         wf.exit[x] \/ q.iter[x] >= wf.max[x]
  PROVE  Kept(wf, x, "check", "leave", q, r)
<1>3. q.n[x] * wf.max[x] = (q.n[x] - 1) * wf.max[x] + wf.max[x]
  BY Mentioned, Numbers
<1>4. (q.n[x] - 1) * wf.max[x] \in Int
  <2>1. q.n[x] - 1 \in Int
    BY Numbers
  <2> QED BY <2>1, Mentioned
<1>8. AtMost(wf, x, "check", q) => AtMost(wf, x, "leave", r)
  BY Mentioned, Numbers, <1>3, <1>4 DEF AtMost, Same3, IsLeaf, LeafKinds
<1>9. AtLeast(wf, x, "check", q) => AtLeast(wf, x, "leave", r)
  BY Mentioned, Numbers, <1>3, <1>4 DEF AtLeast, Same3, IsLeaf, LeafKinds
<1> QED BY <1>8, <1>9 DEF Kept

\* The first attempt of leaf x.
LEMMA Calls ==
  ASSUME Loaded, NEW x \in Steps(wf), NEW q \in Counters(wf), NEW r \in Counters(wf),
         r.n = q.n, IsLeaf(wf, x), r.calls[x] = q.calls[x] + 1, r.tries[x] = 1
  PROVE  Kept(wf, x, "enter", "call", q, r)
<1>2. AttemptsOf(wf, x) >= 1
  BY Mentioned DEF Loaded, Accepted, StructureOK, AttemptsOf
<1>3. AttemptsOf(wf, x) * q.n[x] = AttemptsOf(wf, x) * (q.n[x] - 1) + AttemptsOf(wf, x)
  BY Mentioned, Numbers
<1>4. AttemptsOf(wf, x) * (q.n[x] - 1) \in Int
  <2>1. q.n[x] - 1 \in Int
    BY Numbers
  <2> QED BY <2>1, Mentioned
<1>8. AtMost(wf, x, "enter", q) => AtMost(wf, x, "call", r)
  BY Mentioned, Numbers, <1>2, <1>3, <1>4 DEF AtMost, Same3, IsLeaf, LeafKinds
<1>9. AtLeast(wf, x, "enter", q) => AtLeast(wf, x, "call", r)
  BY Mentioned, Numbers, <1>2, <1>3, <1>4 DEF AtLeast, Same3, IsLeaf, LeafKinds
<1> QED BY <1>8, <1>9 DEF Kept

\* One more attempt.
LEMMA CallsAgain ==
  ASSUME Loaded, NEW x \in Steps(wf), NEW q \in Counters(wf), NEW r \in Counters(wf),
         r.n = q.n, IsLeaf(wf, x), r.calls[x] = q.calls[x] + 1, r.tries[x] = q.tries[x] + 1,
         q.tries[x] < AttemptsOf(wf, x)
  PROVE  Kept(wf, x, "call", "call", q, r)
<1>3. AttemptsOf(wf, x) * q.n[x] = AttemptsOf(wf, x) * (q.n[x] - 1) + AttemptsOf(wf, x)
  BY Mentioned, Numbers
<1>4. AttemptsOf(wf, x) * (q.n[x] - 1) \in Int
  <2>1. q.n[x] - 1 \in Int
    BY Numbers
  <2> QED BY <2>1, Mentioned
<1>8. AtMost(wf, x, "call", q) => AtMost(wf, x, "call", r)
  BY Mentioned, Numbers, <1>3, <1>4 DEF AtMost, Same3, IsLeaf, LeafKinds
<1>9. AtLeast(wf, x, "call", q) => AtLeast(wf, x, "call", r)
  BY Mentioned, Numbers, <1>3, <1>4 DEF AtLeast, Same3, IsLeaf, LeafKinds
<1> QED BY <1>8, <1>9 DEF Kept

\* Whatever x was doing, its task has ended.
LEMMA Stops ==
  ASSUME Loaded, NEW x \in Steps(wf), NEW q \in Counters(wf), NEW r \in Counters(wf),
         r.n = q.n, Same3(q, r, x), NEW pos
  PROVE  AtMost(wf, x, pos, q) => AtMost(wf, x, "out", r)
<1> QED BY Mentioned, Numbers DEF AtMost, Same3

-----------------------------------------------------------------------------
(* The shape of the step tree.                                             *)

\* A child's parent, and where the lists begin.
LEMMA ChildOf ==
  ASSUME Loaded, NEW p \in Steps(wf), NEW c \in Children(wf, p)
  PROVE  c \in Steps(wf) /\ wf.parent[c] = p /\ p < c /\ wf.up[c] = {c} \cup wf.up[p]
<1>1. c \in Steps(wf)
  BY Mentioned
<1>2. wf.parent[c] = p
  BY DEF Loaded, WorkflowTree, Children
<1>3. p # None
  BY Owners
<1> QED BY <1>1, <1>2, <1>3 DEF Loaded, WorkflowTree, DocumentOrder

\* The children of a step follow nothing and are nobody else's.
LEMMA ClearOfChildren ==
  ASSUME Loaded, NEW p \in Steps(wf), NEW E, E \subseteq Children(wf, p), NEW x \in Steps(wf)
  PROVE  /\ wf.next[x] # None => wf.next[x] \notin E
         /\ x # p => Clear(wf, x, E)
<1>1. ASSUME wf.next[x] # None, wf.next[x] \in E PROVE FALSE
  <2> DEFINE h == wf.next[x]
  <2>1. h \in Steps(wf) /\ wf.parent[h] = p /\ p # None
    BY <1>1, ChildOf, Owners
  <2>2. Begins(wf, h) /\ x \in Before(wf, h)
    BY <1>1, <2>1 DEF Begins, Before
  <2> QED BY <2>1, <2>2 DEF Loaded, WorkflowTree, DocumentOrder
<1>2. ASSUME x # p PROVE Children(wf, x) \cap E = {}
  BY <1>2, ChildOf
<1> QED BY <1>1, <1>2 DEF Clear

\* The successor of a step is nobody's child and no other step's successor.
LEMMA ClearOfNext ==
  ASSUME Loaded, NEW s \in Steps(wf), wf.next[s] # None, NEW x \in Steps(wf)
  PROVE  LET h == wf.next[s]
         IN  /\ h \in Steps(wf) /\ s < h /\ Children(wf, x) \cap {h} = {}
             /\ x # s => Clear(wf, x, {h})
             /\ h # wf.then[None]
<1> DEFINE h == wf.next[s]
<1>1. h \in Steps(wf) /\ s < h
  BY Mentioned DEF Loaded, WorkflowTree, DocumentOrder
<1>2. s \in Before(wf, h)
  BY DEF Before
<1>3. ~ Begins(wf, h)
  BY <1>1, <1>2 DEF Loaded, WorkflowTree, DocumentOrder
<1>4. h \notin Children(wf, x)
  BY <1>1, <1>3, ChildOf, Owners DEF Begins
<1>5. x # s => wf.next[x] # h
  BY <1>1, <1>2 DEF Loaded, WorkflowTree, DocumentOrder, Before
<1> QED BY <1>1, <1>3, <1>4, <1>5 DEF Clear, Begins

\* The first step is nobody's child and nobody's successor.
LEMMA ClearOfFirst ==
  ASSUME Loaded
  PROVE  LET h == wf.then[None]
         IN  /\ h \in Steps(wf) /\ h # None /\ wf.parent[h] = None /\ wf.up[h] = {h}
             /\ wf.home[h] = None
             /\ \A x \in Steps(wf) : Clear(wf, x, {h}) /\ h \notin Children(wf, x)
<1> DEFINE h == wf.then[None]
<1>1. h # None /\ h \in Steps(wf)
  BY DEF Loaded, Accepted, WorkflowTyped
<1>2. wf.parent[h] = None /\ wf.up[h] = {h} /\ wf.home[h] = None
  BY <1>1 DEF Loaded, WorkflowTree
<1>3. Before(wf, h) = {}
  BY <1>1 DEF Loaded, WorkflowTree, DocumentOrder, Begins
<1>4. ASSUME NEW x \in Steps(wf) PROVE h \notin Children(wf, x) /\ wf.next[x] # h
  BY <1>2, <1>3, <1>4, ChildOf, Owners DEF Before
<1> QED BY <1>1, <1>2, <1>4 DEF Clear

\* The steps around a step come before it in the document.
LEMMA UpBelow ==
  ASSUME Loaded
  PROVE  \A s \in Steps(wf) : \A a \in wf.up[s] : a \in Steps(wf) /\ a <= s
<1> DEFINE T == {s \in Nat : s \in Steps(wf) => \A a \in wf.up[s] : a <= s}
<1>1. ASSUME NEW s \in Nat, \A m \in Nat : m < s => m \in T PROVE s \in T
  <2> SUFFICES ASSUME s \in Steps(wf), NEW a \in wf.up[s] PROVE a <= s
    OBVIOUS
  <2>1. wf.parent[s] \in {None} \cup Steps(wf) /\ wf.parent[s] < s
    BY DEF Loaded, WorkflowTree, WorkflowTyped, DocumentOrder
  <2>2. wf.size \in Nat /\ wf.up[s] \subseteq Steps(wf)
    BY DEF Loaded, WorkflowTyped
  <2>3. CASE wf.parent[s] = None
    <3>1. a = s
      BY <2>3 DEF Loaded, WorkflowTree
    <3> QED BY <3>1
  <2>4. CASE wf.parent[s] # None
    <3>1. a = s \/ a \in wf.up[wf.parent[s]]
      BY <2>4 DEF Loaded, WorkflowTree
    <3>2. wf.parent[s] \in Nat /\ wf.parent[s] \in Steps(wf)
      BY <2>1, <2>2, <2>4 DEF Steps
    <3>3. a \in wf.up[wf.parent[s]] => a <= wf.parent[s]
      BY <1>1, <2>1, <3>2
    <3>4. a \in Nat
      BY <2>2 DEF Steps
    <3> QED BY <2>1, <3>1, <3>2, <3>3, <3>4
  <2> QED BY <2>3, <2>4
<1>2. Nat \subseteq T
  <2> HIDE DEF T
  <2> QED BY <1>1, StrongInduction
<1>3. wf.size \in Nat /\ \A s \in Steps(wf) : s \in Nat /\ wf.up[s] \subseteq Steps(wf)
  BY DEF Loaded, WorkflowTyped, Steps
<1> QED BY <1>2, <1>3

\* A step is one of the steps around itself.
LEMMA UpSelf ==
  ASSUME Loaded, NEW s \in Steps(wf)
  PROVE  s \in wf.up[s]
BY DEF Loaded, WorkflowTree

\* A step is not around its successor, its parent or its parent's parents.
LEMMA NotAround ==
  ASSUME Loaded, NEW s \in Steps(wf)
  PROVE  /\ wf.parent[s] # None =>
              wf.parent[s] \in Steps(wf) /\ s \notin wf.up[wf.parent[s]]
         /\ wf.next[s] # None =>
              s \notin wf.up[wf.next[s]] /\ wf.next[s] \notin wf.up[s]
              /\ \A x \in Steps(wf) \ {s, wf.next[s]} : x \in wf.up[s] <=> x \in wf.up[wf.next[s]]
         /\ \A c \in Children(wf, s) :
              /\ c \notin wf.up[s]
              /\ \A x \in Steps(wf) \ {c} : x \in wf.up[s] <=> x \in wf.up[c]
<1>0. wf.size \in Nat /\ \A x \in Steps(wf) : x \in Nat
  BY DEF Loaded, WorkflowTyped, Steps
<1>1. wf.parent[s] # None => wf.parent[s] \in Steps(wf) /\ s \notin wf.up[wf.parent[s]]
  <2> SUFFICES ASSUME wf.parent[s] # None
               PROVE  wf.parent[s] \in Steps(wf) /\ s \notin wf.up[wf.parent[s]]
    OBVIOUS
  <2>1. wf.parent[s] \in Steps(wf) /\ wf.parent[s] < s
    BY DEF Loaded, WorkflowTree, WorkflowTyped, DocumentOrder
  <2> QED BY <1>0, <2>1, UpBelow
<1>2. ASSUME wf.next[s] # None
      PROVE  s \notin wf.up[wf.next[s]] /\ wf.next[s] \notin wf.up[s]
             /\ \A x \in Steps(wf) \ {s, wf.next[s]} : x \in wf.up[s] <=> x \in wf.up[wf.next[s]]
  <2> DEFINE h == wf.next[s]
  <2>1. h \in Steps(wf) /\ s < h /\ wf.parent[h] = wf.parent[s]
    BY <1>2, ClearOfNext DEF Loaded, WorkflowTree
  <2>2. h \notin wf.up[s]
    BY <1>0, <2>1, UpBelow
  <2>3. CASE wf.parent[s] = None
    <3>1. wf.up[s] = {s} /\ wf.up[h] = {h}
      BY <2>1, <2>3 DEF Loaded, WorkflowTree
    <3> QED BY <1>0, <2>1, <2>2, <3>1
  <2>4. CASE wf.parent[s] # None
    <3>1. wf.up[s] = {s} \cup wf.up[wf.parent[s]] /\ wf.up[h] = {h} \cup wf.up[wf.parent[s]]
      BY <2>1, <2>4 DEF Loaded, WorkflowTree
    <3> QED BY <1>0, <1>1, <2>1, <2>2, <2>4, <3>1
  <2> QED BY <2>3, <2>4
<1>3. ASSUME NEW c \in Children(wf, s)
      PROVE  /\ c \notin wf.up[s]
             /\ \A x \in Steps(wf) \ {c} : x \in wf.up[s] <=> x \in wf.up[c]
  BY <1>0, ChildOf, UpBelow
<1> QED BY <1>1, <1>2, <1>3

\* Every step is run by a task, which is Root or one of the steps around it.
LEMMA Homes ==
  ASSUME Loaded
  PROVE  \A s \in Steps(wf) : wf.home[s] \in Tasks /\ (wf.home[s] # Root => wf.home[s] \in wf.up[s])
<1> DEFINE T == {s \in Nat : s \in Steps(wf) /\ wf.home[s] # None => wf.home[s] \in wf.up[s]}
<1>0. wf.size \in Nat /\ \A x \in Steps(wf) : x \in Nat
  BY DEF Loaded, WorkflowTyped, Steps
<1>1. ASSUME NEW s \in Nat, \A m \in Nat : m < s => m \in T PROVE s \in T
  <2> SUFFICES ASSUME s \in Steps(wf), wf.home[s] # None PROVE wf.home[s] \in wf.up[s]
    OBVIOUS
  <2>1. wf.parent[s] # None
    BY DEF Loaded, WorkflowTree
  <2>2. wf.parent[s] \in Steps(wf) /\ wf.parent[s] < s /\ wf.up[s] = {s} \cup wf.up[wf.parent[s]]
    BY <2>1 DEF Loaded, WorkflowTree, WorkflowTyped, DocumentOrder
  <2>3. CASE wf.kind[wf.parent[s]] = "parallel"
    <3>1. wf.home[s] = s
      BY <2>1, <2>2, <2>3 DEF Loaded, WorkflowTree
    <3> QED BY <2>2, <3>1
  <2>4. CASE wf.kind[wf.parent[s]] # "parallel"
    <3>1. wf.home[s] = wf.home[wf.parent[s]]
      BY <2>1, <2>2, <2>4 DEF Loaded, WorkflowTree
    <3> QED BY <1>0, <1>1, <2>2, <3>1
  <2> QED BY <2>3, <2>4
<1>2. Nat \subseteq T
  <2> HIDE DEF T
  <2> QED BY <1>1, StrongInduction
<1>3. \A s \in Steps(wf) : wf.home[s] \in Tasks
  BY DEF Loaded, WorkflowTyped, WorkflowTree, Tasks, Root
<1> QED BY <1>0, <1>2, <1>3 DEF Root

-----------------------------------------------------------------------------
(* The steps of the interpreter keep the counts.                           *)

\* The counters of the state, with a count of activations, are counters.
LEMMA WithTyped ==
  ASSUME TypeOK, NEW n \in [Steps(wf) -> Nat]
  PROVE  With(n) \in Counters(wf)
BY DEF TypeOK, With, Counters

\* The counts agree with the next state when both bounds of every step do.
LEMMA Settled ==
  ASSUME IInv, wf' = wf, NEW n \in [Steps(wf) -> Nat], NEW m \in [Steps(wf) -> Nat],
         Counted(n), m[wf.then[None]] = n[wf.then[None]],
         phase'[Root] = "start" <=> phase[Root] = "start", NoFailure' => NoFailure,
         \A x \in Steps(wf) :
           /\ AtMost(wf, x, Pos(x), With(n)) => AtMost(wf, x, Pos(x)', With(m)')
           /\ NoFailure' /\ AtLeast(wf, x, Pos(x), With(n)) => AtLeast(wf, x, Pos(x)', With(m)')
  PROVE  CountInv'
<1>1. Counted(m)'
  BY DEF Counted
<1> QED BY <1>1 DEF CountInv

\* When one task moves, only the positions in its own steps change.
LEMMA Moves ==
  ASSUME IInv, wf' = wf, NEW t \in Tasks, NEW s, NEW ph, Goto(t, s, ph)
  PROVE  /\ \A x \in Steps(wf) :
              /\ wf.home[x] # t => Pos(x)' = Pos(x)
              /\ wf.home[x] = t => /\ Pos(x) = Position(wf, x, at[t], phase[t])
                                   /\ Pos(x)' = Position(wf, x, s, ph)
         /\ \A u \in Tasks \ {t} : phase'[u] = phase[u]
         /\ phase'[t] = ph /\ at'[t] = s /\ Tasks' = Tasks
<1>1. at' = [at EXCEPT ![t] = s] /\ phase' = [phase EXCEPT ![t] = ph]
  BY DEF Goto
<1>2. DOMAIN at = Tasks /\ DOMAIN phase = Tasks
  BY DEF IInv, TypeOK
<1>3. \A u \in Tasks \ {t} : phase'[u] = phase[u] /\ at'[u] = at[u]
  BY <1>1, <1>2
<1>4. phase'[t] = ph /\ at'[t] = s
  BY <1>1, <1>2
<1>5. \A x \in Steps(wf) : wf.home[x] \in Tasks
  BY Homes DEF IInv
<1> QED BY <1>3, <1>4, <1>5 DEF Pos, Tasks

\* A task goes from its step to step s of its own and the steps in E begin:
\* only what its bounds say of the two steps has to be looked at.
LEMMA Moved ==
  ASSUME IInv, IInv', wf' = wf, NEW n \in [Steps(wf) -> Nat], NEW m \in [Steps(wf) -> Nat],
         Counted(n), NEW t \in Tasks, phase[t] \in Running,
         NEW s \in Steps(wf), wf.home[s] = t, NEW ph \in Running \cup {"ok"}, Goto(t, s, ph),
         NEW E, Begun(wf, With(n), With(m)', E), wf.then[None] \notin E,
         \A x \in Steps(wf) \ {at[t], s} :
           /\ Same3(With(n), With(m)', x) /\ Clear(wf, x, E) /\ x \notin E
           /\ wf.home[x] = t => Position(wf, x, at[t], phase[t]) = Position(wf, x, s, ph),
         \A x \in {at[t], s} :
           Kept(wf, x, Position(wf, x, at[t], phase[t]), Position(wf, x, s, ph), With(n), With(m)')
  PROVE  CountInv'
<1>1. /\ \A x \in Steps(wf) :
           /\ wf.home[x] # t => Pos(x)' = Pos(x)
           /\ wf.home[x] = t => /\ Pos(x) = Position(wf, x, at[t], phase[t])
                                /\ Pos(x)' = Position(wf, x, s, ph)
      /\ \A u \in Tasks \ {t} : phase'[u] = phase[u]
      /\ phase'[t] = ph /\ Tasks' = Tasks
  BY Moves
<1>2. at[t] \in Steps(wf) /\ wf.home[at[t]] = t /\ Loaded /\ wf.then[None] \in Steps(wf)
  BY ClearOfFirst DEF IInv, Carried, ControlOK
<1>3. With(n) \in Counters(wf) /\ With(m)' \in Counters(wf)
  <2>1. With(n) \in Counters(wf)
    BY WithTyped DEF IInv
  <2>2. With(m)' \in Counters(wf)
    BY DEF IInv, TypeOK, With, Counters
  <2> QED BY <2>1, <2>2
<1>4. m[wf.then[None]] = n[wf.then[None]]
  BY <1>2 DEF Begun, With
<1>5. (phase'[Root] = "start" <=> phase[Root] = "start") /\ (NoFailure' => NoFailure)
  BY <1>1, Owners DEF NoFailure, Running, IInv
<1>6. ASSUME NEW x \in Steps(wf)
      PROVE  Kept(wf, x, Pos(x), Pos(x)', With(n), With(m)')
  <2>1. CASE x \in {at[t], s}
    BY <1>1, <1>2, <2>1
  <2>2. CASE x \notin {at[t], s}
    <3>1. Pos(x)' = Pos(x)
      BY <1>1, <2>2
    <3>2. Same3(With(n), With(m)', x) /\ Clear(wf, x, E) /\ x \notin E
      BY <2>2
    <3> HIDE DEF Pos
    <3> QED BY <1>2, <1>3, <3>1, <3>2, Elsewhere
  <2> QED BY <2>1, <2>2
<1> QED BY <1>4, <1>5, <1>6, Settled DEF Kept

\* The count when the steps in E begin once more.
Bump(w, n, E) == [x \in Steps(w) |-> IF x \in E THEN n[x] + 1 ELSE n[x]]

\* Adding one activation to the steps of E is what Begun says.
LEMMA Bumped ==
  ASSUME IInv, IInv', wf' = wf, NEW n \in [Steps(wf) -> Nat], NEW E, NEW m, m = Bump(wf, n, E)
  PROVE  /\ m \in [Steps(wf) -> Nat] /\ Begun(wf, With(n), With(m)', E)
         /\ With(n) \in Counters(wf) /\ With(m)' \in Counters(wf)
<1>1. m \in [Steps(wf) -> Nat] /\ \A x \in Steps(wf) : m[x] = IF x \in E THEN n[x] + 1 ELSE n[x]
  BY DEF Bump
<1>2. Begun(wf, With(n), With(m)', E)
  BY <1>1 DEF Begun, With
<1>3. With(n) \in Counters(wf)
  BY WithTyped DEF IInv
<1>4. With(m)' \in Counters(wf)
  BY <1>1 DEF IInv, TypeOK, With, Counters
<1> QED BY <1>1, <1>2, <1>3, <1>4

\* A task at its step, or moved on to another phase of it.
LEMMA AtStep ==
  ASSUME Loaded, NEW s \in Steps(wf), NEW p \in Running, NEW r \in Running
  PROVE  /\ Position(wf, s, s, p) = p
         /\ \A x \in Steps(wf) \ {s} : Position(wf, x, s, p) = Position(wf, x, s, r)
<1>1. s \in wf.up[s]
  BY DEF Loaded, WorkflowTree
<1> QED BY <1>1 DEF Position

\* The task stays at its step and no other begins.
LEMMA Stays ==
  ASSUME IInv, IInv', wf' = wf, NEW n \in [Steps(wf) -> Nat], Counted(n),
         NEW t \in Tasks, phase[t] \in Running, NEW ph \in Running, Goto(t, at[t], ph),
         \A x \in Steps(wf) \ {at[t]} : Same3(With(n), With(n)', x),
         Kept(wf, at[t], phase[t], ph, With(n), With(n)')
  PROVE  CountInv'
<1> DEFINE s == at[t]
<1>1. s \in Steps(wf) /\ wf.home[s] = t /\ Loaded
  BY DEF IInv, Carried, ControlOK
<1>2. Begun(wf, With(n), With(n)', {})
  BY DEF Begun, With
<1>3. \A x \in Steps(wf) : Clear(wf, x, {})
  BY DEF Clear
<1>4. /\ Position(wf, s, s, phase[t]) = phase[t] /\ Position(wf, s, s, ph) = ph
      /\ \A x \in Steps(wf) \ {s} : Position(wf, x, s, phase[t]) = Position(wf, x, s, ph)
  BY <1>1, AtStep
<1> HIDE DEF s
<1>5. Goto(t, s, ph) /\ s = at[t]
  BY DEF s
<1> QED BY <1>1, <1>2, <1>3, <1>4, <1>5, Moved

\* StartCall keeps the counts.
LEMMA StartCallCounts ==
  ASSUME IInv, IInv', NEW n \in [Steps(wf) -> Nat], Counted(n), NEW t \in Tasks, StartCall(t)
  PROVE  CountInv'
<1> DEFINE s == at[t]
<1>1. phase[t] = "enter" /\ IsLeaf(wf, s) /\ Become(t, "call") /\ wf' = wf /\ iter' = iter
      /\ tries' = [tries EXCEPT ![s] = 1] /\ calls' = [calls EXCEPT ![s] = calls[s] + 1]
  BY DEF StartCall
<1>2. phase[t] \in Running /\ "call" \in Running
  BY <1>1 DEF Running
<1>3. s \in Steps(wf) /\ Loaded
  BY <1>2 DEF IInv, Carried, ControlOK
<1>4. Goto(t, s, "call")
  BY <1>1, Same DEF Goto, Become
<1>5. With(n) \in Counters(wf) /\ With(n)' \in Counters(wf)
  BY <1>1, WithTyped DEF IInv, TypeOK, With, Counters
<1>6. /\ With(n)'.n = With(n).n
      /\ With(n)'.calls[s] = With(n).calls[s] + 1 /\ With(n)'.tries[s] = 1
      /\ \A x \in Steps(wf) \ {s} : Same3(With(n), With(n)', x)
  BY <1>1, <1>3, Typed DEF With, Same3
<1>7. Kept(wf, s, "enter", "call", With(n), With(n)')
  BY <1>1, <1>3, <1>5, <1>6, Calls
<1> QED BY <1>1, <1>2, <1>4, <1>6, <1>7, Stays

\* The call of a leaf is over, or its step is for another reason complete.
LEMMA CompletesCounts ==
  ASSUME IInv, IInv', NEW n \in [Steps(wf) -> Nat], Counted(n), NEW t \in Tasks,
         \/ phase[t] = "call"
         \/ phase[t] = "enter" /\ wf.kind[at[t]] = "branch",
         Become(t, "leave") \/ Goto(t, at[t], "leave"), UNCHANGED <<wf, iter, tries, calls>>
  PROVE  CountInv'
<1> DEFINE s == at[t]
<1>1. phase[t] \in Running /\ "leave" \in Running
  BY DEF Running
<1>2. s \in Steps(wf) /\ Loaded /\ (phase[t] = "call" => IsLeaf(wf, s))
  BY <1>1 DEF IInv, Carried, ControlOK
<1>3. Goto(t, s, "leave")
  BY Same DEF Goto, Become
<1>4. With(n) \in Counters(wf) /\ With(n)' = With(n)
  BY WithTyped DEF IInv, With
<1>5. \A x \in Steps(wf) : Same3(With(n), With(n)', x)
  BY <1>4 DEF Same3
<1>6. Kept(wf, s, phase[t], "leave", With(n), With(n)')
  BY <1>2, <1>4, <1>5, Continues
<1> QED BY <1>1, <1>3, <1>5, <1>6, Stays

\* A failing task leaves only the upper bounds to keep.
LEMMA FailsCounts ==
  ASSUME IInv, IInv', NEW n \in [Steps(wf) -> Nat], Counted(n), NEW t \in Tasks,
         Become(t, "failed"), UNCHANGED <<wf, iter, tries, calls>>, phase[t] # "start"
  PROVE  CountInv'
<1>1. Goto(t, at[t], "failed")
  BY Same DEF Goto, Become
<1>2. With(n) \in Counters(wf) /\ With(n)' = With(n) /\ Loaded
  BY WithTyped DEF IInv, With
<1>3. phase'[t] = "failed" /\ Tasks' = Tasks /\ \A u \in Tasks \ {t} : phase'[u] = phase[u]
  BY <1>1, Moves
<1>4. ~ NoFailure'
  BY <1>3 DEF NoFailure
<1>5. ASSUME NEW x \in Steps(wf)
      PROVE  AtMost(wf, x, Pos(x), With(n)) => AtMost(wf, x, Pos(x)', With(n)')
  <2>1. wf.home[x] # t => Pos(x)' = Pos(x)
    BY <1>1, Moves
  <2>2. wf.home[x] = t => Pos(x)' = Position(wf, x, at[t], "failed")
    BY <1>1, Moves
  <2>3. Position(wf, x, at[t], "failed") = "out"
    BY DEF Position, Running
  <2>4. Same3(With(n), With(n), x)
    BY DEF Same3
  <2>5. AtMost(wf, x, Pos(x), With(n)) => AtMost(wf, x, "out", With(n))
    <3> HIDE DEF Pos
    <3> QED BY <1>2, <2>4, Stops
  <2> HIDE DEF Pos
  <2> QED BY <1>2, <2>1, <2>2, <2>3, <2>5
<1>6. phase'[Root] = "start" <=> phase[Root] = "start"
  BY <1>2, <1>3, Owners
<1> QED BY <1>2, <1>4, <1>5, <1>6, Settled

\* CallError keeps the counts, its three policies alike.
LEMMA CallErrorCounts ==
  ASSUME IInv, IInv', NEW n \in [Steps(wf) -> Nat], Counted(n), NEW t \in Tasks, CallError(t)
  PROVE  CountInv'
<1> DEFINE s == at[t]
<1>1. phase[t] = "call" /\ UNCHANGED <<wf, iter>>
  BY DEF CallError
<1>2. CASE Become(t, "leave") /\ UNCHANGED <<tries, calls>>
  BY <1>1, <1>2, CompletesCounts
<1>3. CASE Become(t, "failed") /\ UNCHANGED <<tries, calls>>
  BY <1>1, <1>3, FailsCounts
<1>4. CASE /\ wf.kind[s] = "tool" /\ wf.onError[s] = "retry" /\ tries[s] < wf.max[s]
           /\ tries' = [tries EXCEPT ![s] = tries[s] + 1]
           /\ calls' = [calls EXCEPT ![s] = calls[s] + 1]
           /\ UNCHANGED <<at, phase>>
  <2>1. phase[t] \in Running
    BY <1>1 DEF Running
  <2>2. s \in Steps(wf) /\ Loaded /\ IsLeaf(wf, s)
    BY <1>1, <2>1 DEF IInv, Carried, ControlOK
  <2>3. Goto(t, s, "call")
    BY <1>1, <1>4, Same DEF Goto
  <2>4. With(n) \in Counters(wf) /\ With(n)' \in Counters(wf)
    BY <1>1, WithTyped DEF IInv, TypeOK, With, Counters
  <2>5. /\ With(n)'.n = With(n).n
        /\ With(n)'.calls[s] = With(n).calls[s] + 1 /\ With(n)'.tries[s] = With(n).tries[s] + 1
        /\ \A x \in Steps(wf) \ {s} : Same3(With(n), With(n)', x)
    BY <1>1, <1>4, <2>2, Typed DEF With, Same3
  <2>6. With(n).tries[s] < AttemptsOf(wf, s)
    BY <1>4 DEF With, AttemptsOf
  <2>7. Kept(wf, s, "call", "call", With(n), With(n)')
    BY <2>2, <2>4, <2>5, <2>6, CallsAgain
  <2> QED BY <1>1, <2>1, <2>3, <2>5, <2>7, Stays
<1>5. \/ Become(t, "leave") /\ UNCHANGED <<tries, calls>>
      \/ Become(t, "failed") /\ UNCHANGED <<tries, calls>>
      \/ /\ wf.kind[s] = "tool" /\ wf.onError[s] = "retry" /\ tries[s] < wf.max[s]
         /\ tries' = [tries EXCEPT ![s] = tries[s] + 1]
         /\ calls' = [calls EXCEPT ![s] = calls[s] + 1]
         /\ UNCHANGED <<at, phase>>
  BY DEF CallError, Retries
<1> QED BY <1>2, <1>3, <1>4, <1>5

\* The control step the task is at begins one of its nested lists.
LEMMA Descends ==
  ASSUME IInv, IInv', wf' = wf, NEW n \in [Steps(wf) -> Nat], Counted(n), NEW t \in Tasks,
         phase[t] \in {"enter", "check"}, wf.kind[at[t]] \in {"branch", "loop"},
         NEW h \in {wf.then[at[t]], wf.else[at[t]]} \ {None}, Goto(t, h, "enter"),
         NEW m, m = Bump(wf, n, {h}),
         \A x \in Steps(wf) \ {at[t]} : Same3(With(n), With(m)', x),
         Kept(wf, at[t], phase[t], "within", With(n), With(m)')
  PROVE  CountInv'
<1> DEFINE s == at[t]
<1>1. phase[t] \in Running /\ "enter" \in Running
  BY DEF Running
<1>2. s \in Steps(wf) /\ wf.home[s] = t /\ Loaded
  BY <1>1 DEF IInv, Carried, ControlOK
<1>3. h \in Children(wf, s) /\ h \in Steps(wf) /\ wf.home[h] = t /\ wf.up[h] = {h} \cup wf.up[s]
      /\ s < h
  BY <1>2, HeadScope, ChildOf DEF Children
<1>4. /\ m \in [Steps(wf) -> Nat] /\ Begun(wf, With(n), With(m)', {h})
      /\ With(n) \in Counters(wf) /\ With(m)' \in Counters(wf)
  BY Bumped
<1>5. \A x \in Steps(wf) \ {s} : Clear(wf, x, {h})
  BY <1>2, <1>3, ClearOfChildren
<1>6. wf.then[None] # h
  BY <1>2, <1>3, ClearOfFirst
<1>7. /\ h \notin wf.up[s] /\ s \in wf.up[s] /\ h # s
      /\ \A x \in Steps(wf) \ {h} : x \in wf.up[s] <=> x \in wf.up[h]
  BY <1>2, <1>3, NotAround, UpSelf
<1>8. /\ \A x \in Steps(wf) \ {s, h} : Position(wf, x, s, phase[t]) = Position(wf, x, h, "enter")
      /\ Position(wf, s, s, phase[t]) = phase[t] /\ Position(wf, s, h, "enter") = "within"
      /\ Position(wf, h, s, phase[t]) = "out" /\ Position(wf, h, h, "enter") = "enter"
  BY <1>1, <1>2, <1>3, <1>7 DEF Position
<1>9. Kept(wf, h, "out", "enter", With(n), With(m)')
  BY <1>2, <1>3, <1>4, <1>5, <1>7, Enters
<1>10. \A x \in Steps(wf) \ {s, h} :
         /\ Same3(With(n), With(m)', x) /\ Clear(wf, x, {h}) /\ x \notin {h}
         /\ wf.home[x] = t => Position(wf, x, s, phase[t]) = Position(wf, x, h, "enter")
  BY <1>5, <1>8
<1>11. \A x \in {s, h} :
         Kept(wf, x, Position(wf, x, s, phase[t]), Position(wf, x, h, "enter"), With(n), With(m)')
  BY <1>8, <1>9
<1>12. wf.then[None] \notin {h}
  BY <1>6
<1> HIDE DEF s
<1>13. s = at[t]
  BY DEF s
<1> DEFINE E == {h}
<1>14. \A x \in Steps(wf) \ {at[t], h} :
         /\ Same3(With(n), With(m)', x) /\ Clear(wf, x, E) /\ x \notin E
         /\ wf.home[x] = t => Position(wf, x, at[t], phase[t]) = Position(wf, x, h, "enter")
  BY <1>10, <1>13
<1>15. \A x \in {at[t], h} :
         Kept(wf, x, Position(wf, x, at[t], phase[t]), Position(wf, x, h, "enter"), With(n), With(m)')
  BY <1>11, <1>13
<1>16. h \in Steps(wf) /\ wf.home[h] = t /\ "enter" \in Running \cup {"ok"}
  BY <1>1, <1>3
<1>17. m \in [Steps(wf) -> Nat] /\ Begun(wf, With(n), With(m)', E) /\ wf.then[None] \notin E
  BY <1>4, <1>12
<1> HIDE DEF E
<1> QED BY <1>1, <1>14, <1>15, <1>16, <1>17, Moved, SMTT(30), ZenonT(30)

\* TakeBranch keeps the counts, whether a list is entered or skipped.
LEMMA TakeBranchCounts ==
  ASSUME IInv, IInv', NEW n \in [Steps(wf) -> Nat], Counted(n), NEW t \in Tasks, TakeBranch(t)
  PROVE  CountInv'
<1> DEFINE s == at[t]
<1>1. phase[t] = "enter" /\ wf.kind[s] = "branch" /\ UNCHANGED <<wf, iter, tries, calls>>
  BY DEF TakeBranch
<1>2. s \in Steps(wf) /\ Loaded
  BY <1>1 DEF IInv, Carried, ControlOK, Running
<1>3. ASSUME NEW h \in {wf.then[s], wf.else[s]} \ {None}, Goto(t, h, "enter") PROVE CountInv'
  <2>1. PICK m : m = Bump(wf, n, {h})
    OBVIOUS
  <2>2. /\ Begun(wf, With(n), With(m)', {h})
        /\ With(n) \in Counters(wf) /\ With(m)' \in Counters(wf)
    BY <1>1, <2>1, Bumped
  <2>3. \A x \in Steps(wf) : Same3(With(n), With(m)', x)
    BY <1>1 DEF Same3, With
  <2>4. h \in Children(wf, s) /\ s \notin {h} /\ (wf.next[s] # None => wf.next[s] \notin {h})
    <3>1. h \in Children(wf, s)
      BY DEF Children
    <3>2. s # h
      BY <1>1, <1>2, <3>1, ChildOf, NotAround, UpSelf
    <3>3. {h} \subseteq Children(wf, s)
      BY <3>1
    <3> QED BY <1>2, <3>1, <3>2, <3>3, ClearOfChildren
  <2>5. Kept(wf, s, "enter", "within", With(n), With(m)')
    BY <1>1, <1>2, <2>2, <2>3, <2>4, EntersArm
  <2> QED BY <1>1, <1>3, <2>1, <2>3, <2>5, Descends
<1>4. CASE Become(t, "failed")
  BY <1>1, <1>4, FailsCounts
<1>5. CASE Goto(t, s, "leave")
  BY <1>1, <1>5, CompletesCounts
<1> QED BY <1>3, <1>4, <1>5 DEF TakeBranch, Descend

\* A loop begins its body, for the first time or once more.
LEMMA BodyCounts ==
  ASSUME IInv, IInv', wf' = wf, NEW n \in [Steps(wf) -> Nat], Counted(n), NEW t \in Tasks,
         wf.kind[at[t]] = "loop", Goto(t, wf.then[at[t]], "enter"), UNCHANGED <<tries, calls>>,
         \/ phase[t] = "enter" /\ iter' = [iter EXCEPT ![at[t]] = 1]
         \/ /\ phase[t] = "check" /\ iter[at[t]] < wf.max[at[t]]
            /\ iter' = [iter EXCEPT ![at[t]] = iter[at[t]] + 1]
  PROVE  CountInv'
<1> DEFINE s == at[t]
           h == wf.then[s]
<1>1. s \in Steps(wf) /\ Loaded
  BY DEF IInv, Carried, ControlOK, Running
<1>2. h # None /\ h \in Children(wf, s)
  BY <1>1, LoopBody, Mentioned
<1>3. PICK m : m = Bump(wf, n, {h})
  OBVIOUS
<1>4. /\ Begun(wf, With(n), With(m)', {h})
      /\ With(n) \in Counters(wf) /\ With(m)' \in Counters(wf)
  BY <1>3, Bumped
<1>5. s \notin {h} /\ (wf.next[s] # None => wf.next[s] \notin {h})
  <2>1. s # h
    BY <1>1, <1>2, ChildOf, NotAround, UpSelf
  <2>2. {h} \subseteq Children(wf, s)
    BY <1>2
  <2> QED BY <1>1, <2>1, <2>2, ClearOfChildren
<1>6. /\ \A x \in Steps(wf) \ {s} : Same3(With(n), With(m)', x)
      /\ phase[t] = "enter" => With(m)'.iter[s] = 1
      /\ phase[t] = "check" => With(m)'.iter[s] = With(n).iter[s] + 1 /\ With(n).iter[s] < wf.max[s]
  BY <1>1, Typed DEF Same3, With
<1>7. Kept(wf, s, phase[t], "within", With(n), With(m)')
  <2>1. CASE phase[t] = "enter"
    BY <1>1, <1>4, <1>5, <1>6, <2>1, EntersBody
  <2>2. CASE phase[t] = "check"
    BY <1>1, <1>4, <1>5, <1>6, <2>2, Repeats
  <2> QED BY <2>1, <2>2
<1> HIDE DEF h, s
<1>8. s = at[t] /\ h \in {wf.then[s], wf.else[s]} \ {None} /\ Goto(t, h, "enter")
      /\ wf.kind[s] \in {"branch", "loop"} /\ phase[t] \in {"enter", "check"}
  BY <1>2 DEF h, s
<1> QED BY <1>3, <1>6, <1>7, <1>8, Descends

\* EnterLoop and CheckLoop keep the counts.
LEMMA LoopCounts ==
  ASSUME IInv, IInv', NEW n \in [Steps(wf) -> Nat], Counted(n), NEW t \in Tasks,
         EnterLoop(t) \/ CheckLoop(t)
  PROVE  CountInv'
<1> DEFINE s == at[t]
<1>1. phase[t] \in {"enter", "check"} /\ wf' = wf /\ UNCHANGED <<tries, calls>>
  BY DEF EnterLoop, CheckLoop
<1>2. s \in Steps(wf) /\ Loaded /\ wf.kind[s] = "loop" /\ phase[t] \in Running
  BY <1>1 DEF IInv, Carried, ControlOK, Running, EnterLoop, CheckLoop
<1>3. wf.then[s] # None
  BY <1>2, LoopBody
<1>4. CASE EnterLoop(t)
  <2>1. /\ phase[t] = "enter" /\ iter' = [iter EXCEPT ![s] = 1]
        /\ Goto(t, wf.then[s], "enter")
    BY <1>3, <1>4 DEF EnterLoop, Descend
  <2> QED BY <1>1, <1>2, <2>1, BodyCounts
<1>5. CASE /\ phase[t] = "check" /\ ~ CapReached(s) /\ iter' = [iter EXCEPT ![s] = iter[s] + 1]
           /\ Goto(t, wf.then[s], "enter")
  <2>1. iter[s] < wf.max[s]
    BY <1>2, <1>5, Typed, Mentioned DEF CapReached
  <2> QED BY <1>1, <1>2, <1>5, <2>1, BodyCounts
<1>6. CASE phase[t] = "check" /\ Become(t, "failed") /\ iter' = iter
  BY <1>1, <1>6, FailsCounts
<1>7. CASE /\ phase[t] = "check" /\ (wf.exit[s] \/ CapReached(s))
           /\ Become(t, "leave") /\ iter' = iter
  <2>1. Goto(t, s, "leave") /\ "leave" \in Running
    BY <1>7, Same DEF Goto, Become, Running
  <2>2. With(n) \in Counters(wf) /\ With(n)' = With(n)
    BY <1>1, <1>7, WithTyped DEF IInv, With
  <2>3. \A x \in Steps(wf) : Same3(With(n), With(n)', x)
    BY <2>2 DEF Same3
  <2>4. wf.exit[s] \/ With(n).iter[s] >= wf.max[s]
    BY <1>7 DEF CapReached, With
  <2>5. Kept(wf, s, "check", "leave", With(n), With(n)')
    BY <1>2, <2>2, <2>3, <2>4, Exits
  <2> QED BY <1>1, <1>2, <1>7, <2>1, <2>3, <2>5, Stays
<1> QED BY <1>3, <1>4, <1>5, <1>6, <1>7 DEF CheckLoop, Descend

\* A task that is a parallel child runs no step around that child.
LEMMA OwnSteps ==
  ASSUME Loaded, NEW c \in Tasks \ {Root}, NEW x \in Steps(wf), x \in wf.up[c], wf.home[x] = c
  PROVE  x = c
<1>1. c \in Steps(wf) /\ c \in wf.up[x]
  BY Homes, Owners
<1>2. x <= c /\ c <= x
  BY <1>1, UpBelow
<1>3. x \in Nat /\ c \in Nat
  BY <1>1 DEF Loaded, WorkflowTyped, Steps
<1> QED BY <1>2, <1>3

\* Leave keeps the counts.
LEMMA LeaveCounts ==
  ASSUME IInv, IInv', NEW n \in [Steps(wf) -> Nat], Counted(n), NEW t \in Tasks, Leave(t)
  PROVE  CountInv'
<1> DEFINE s == at[t]
           p == wf.parent[s]
<1>1. phase[t] = "leave" /\ UNCHANGED <<wf, iter, tries, calls>>
  BY DEF Leave
<1>2. s \in Steps(wf) /\ Loaded /\ wf.home[s] = t /\ phase[t] \in Running /\ s \in wf.up[s]
  <2>1. s \in Steps(wf) /\ Loaded /\ wf.home[s] = t /\ phase[t] \in Running
    BY <1>1 DEF IInv, Carried, ControlOK, Running
  <2> QED BY <2>1, UpSelf
<1>3. {"leave", "check", "enter"} \subseteq Running
  BY DEF Running
<1>4. With(n) \in Counters(wf) /\ With(n)' = With(n) /\ Begun(wf, With(n), With(n)', {})
      /\ wf.then[None] \notin {} /\ \A x \in Steps(wf) : Clear(wf, x, {}) /\ Same3(With(n), With(n)', x)
  BY <1>1, WithTyped DEF IInv, With, Begun, Clear, Same3
<1>5. wf.next[s] = None =>
        Kept(wf, s, "leave", "out", With(n), With(n)')
  BY <1>2, <1>4, GoesOn
<1>6. CASE wf.next[s] # None /\ Goto(t, wf.next[s], "enter")
  <2> DEFINE h == wf.next[s]
  <2>1. h \in Steps(wf) /\ wf.home[h] = t /\ h # s
    BY <1>2, <1>6, NextScope, NotAround
  <2>2. PICK m : m = Bump(wf, n, {h})
    OBVIOUS
  <2>3. /\ m \in [Steps(wf) -> Nat] /\ Begun(wf, With(n), With(m)', {h})
        /\ With(n) \in Counters(wf) /\ With(m)' \in Counters(wf)
    BY <1>1, <2>2, Bumped
  <2>4. /\ \A x \in Steps(wf) : Children(wf, x) \cap {h} = {} /\ (x # s => Clear(wf, x, {h}))
        /\ wf.then[None] \notin {h}
    BY <1>2, <1>6, ClearOfNext
  <2>5. \A x \in Steps(wf) : Same3(With(n), With(m)', x)
    BY <1>1 DEF Same3, With
  <2>6. /\ s \notin wf.up[h] /\ h \notin wf.up[s] /\ h \in wf.up[h]
        /\ \A x \in Steps(wf) \ {s, h} : x \in wf.up[s] <=> x \in wf.up[h]
    BY <1>2, <1>6, <2>1, NotAround, UpSelf
  <2>7. /\ \A x \in Steps(wf) \ {s, h} : Position(wf, x, s, phase[t]) = Position(wf, x, h, "enter")
        /\ Position(wf, s, s, phase[t]) = "leave" /\ Position(wf, s, h, "enter") = "out"
        /\ Position(wf, h, s, phase[t]) = "out" /\ Position(wf, h, h, "enter") = "enter"
    BY <1>1, <1>2, <1>3, <2>1, <2>6 DEF Position
  <2>8. Kept(wf, h, "out", "enter", With(n), With(m)')
    BY <1>2, <2>1, <2>3, <2>4, <2>5, Enters
  <2>9. Kept(wf, s, "leave", "out", With(n), With(m)')
    BY <1>2, <2>1, <2>3, <2>4, <2>5, GoesOn
  <2>10. \A x \in Steps(wf) \ {s, h} :
           /\ Same3(With(n), With(m)', x) /\ Clear(wf, x, {h}) /\ x \notin {h}
           /\ wf.home[x] = t => Position(wf, x, s, phase[t]) = Position(wf, x, h, "enter")
    BY <2>4, <2>5, <2>7
  <2>11. \A x \in {s, h} :
           Kept(wf, x, Position(wf, x, s, phase[t]), Position(wf, x, h, "enter"), With(n), With(m)')
    BY <2>7, <2>8, <2>9
  <2> HIDE DEF h, s
  <2>12. s = at[t] /\ Goto(t, h, "enter")
    BY <1>6 DEF h, s
  <2> DEFINE E == {h}
  <2>13. \A x \in Steps(wf) \ {at[t], h} :
           /\ Same3(With(n), With(m)', x) /\ Clear(wf, x, E) /\ x \notin E
           /\ wf.home[x] = t => Position(wf, x, at[t], phase[t]) = Position(wf, x, h, "enter")
    BY <2>10, <2>12
  <2>14. m \in [Steps(wf) -> Nat] /\ Begun(wf, With(n), With(m)', E) /\ wf.then[None] \notin E
    BY <2>3, <2>4
  <2>15. \A x \in {at[t], h} :
           Kept(wf, x, Position(wf, x, at[t], phase[t]), Position(wf, x, h, "enter"), With(n), With(m)')
    BY <2>11, <2>12
  <2> HIDE DEF E
  <2> QED BY <1>1, <1>2, <1>3, <2>1, <2>12, <2>13, <2>14, <2>15, Moved
<1>7. ASSUME NEW ph, Goto(t, p, ph), wf.next[s] = None, p # None,
             \/ ph = "leave" /\ wf.kind[p] = "branch"
             \/ ph = "check" /\ wf.kind[p] = "loop"
      PROVE  CountInv'
  <2>1. /\ p \in Steps(wf) /\ wf.home[p] = t /\ wf.up[s] = {s} \cup wf.up[p]
        /\ s \notin wf.up[p] /\ p \in wf.up[p]
    <3>1. p \in Steps(wf) /\ wf.home[p] = wf.home[s] /\ wf.up[s] = {s} \cup wf.up[p]
      BY <1>2, <1>7, ListEnd
    <3>2. s \notin wf.up[p]
      BY <1>2, <1>7, NotAround
    <3> QED BY <1>2, <3>1, <3>2, UpSelf
  <2>2. ph \in Running /\ p # s
    BY <1>2, <1>3, <1>7, <2>1
  <2>3. /\ \A x \in Steps(wf) \ {s, p} : Position(wf, x, s, phase[t]) = Position(wf, x, p, ph)
        /\ Position(wf, s, s, phase[t]) = "leave" /\ Position(wf, s, p, ph) = "out"
        /\ Position(wf, p, s, phase[t]) = "within" /\ Position(wf, p, p, ph) = ph
    BY <1>1, <1>2, <2>1, <2>2 DEF Position
  <2>4. Kept(wf, p, "within", ph, With(n), With(n)')
    BY <1>2, <1>4, <1>7, <2>1, Continues
  <2>5. \A x \in {s, p} :
           Kept(wf, x, Position(wf, x, s, phase[t]), Position(wf, x, p, ph), With(n), With(n)')
    BY <1>5, <1>7, <2>3, <2>4
  <2>6. \A x \in Steps(wf) \ {s, p} :
           /\ Same3(With(n), With(n)', x) /\ Clear(wf, x, {}) /\ x \notin {}
           /\ wf.home[x] = t => Position(wf, x, s, phase[t]) = Position(wf, x, p, ph)
    BY <1>4, <2>3
  <2> HIDE DEF p, s
  <2>7. s = at[t]
    BY DEF s
  <2> QED BY <1>1, <1>2, <1>4, <1>7, <2>1, <2>2, <2>5, <2>6, <2>7, Moved
<1>8. CASE /\ Become(t, "ok") /\ wf.next[s] = None
           /\ p = None \/ wf.kind[p] = "parallel"
  <2>1. Goto(t, s, "ok")
    BY <1>8, Same DEF Goto, Become
  <2>2. ASSUME NEW x \in Steps(wf) \ {s}, wf.home[x] = t PROVE x \notin wf.up[s]
    <3>1. CASE p = None
      BY <1>2, <3>1 DEF Loaded, WorkflowTree
    <3>2. CASE p # None /\ wf.kind[p] = "parallel"
      <4>1. p \in Steps(wf) /\ s \in wf.kids[p]
        BY <1>2, <3>2 DEF Loaded, WorkflowTree, WorkflowTyped
      <4>2. wf.home[s] = s
        BY <4>1, <1>2 DEF Loaded, WorkflowTree
      <4>3. s = t /\ t # Root
        BY <1>2, <4>2, Owners DEF Root
      <4>4. x \in wf.up[t] => x = t
        BY <1>2, <2>2, <4>3, OwnSteps
      <4> QED BY <2>2, <4>3, <4>4
    <3> QED BY <1>8, <3>1, <3>2
  <2>3. /\ \A x \in Steps(wf) : Position(wf, x, s, "ok") = "out"
        /\ Position(wf, s, s, phase[t]) = "leave"
        /\ \A x \in Steps(wf) \ {s} : wf.home[x] = t => Position(wf, x, s, phase[t]) = "out"
    BY <1>1, <1>2, <1>3, <2>2 DEF Position, Running
  <2>4. \A x \in {s} :
           Kept(wf, x, Position(wf, x, s, phase[t]), Position(wf, x, s, "ok"), With(n), With(n)')
    BY <1>2, <1>5, <1>8, <2>3
  <2>5. \A x \in Steps(wf) \ {s} :
           /\ Same3(With(n), With(n)', x) /\ Clear(wf, x, {}) /\ x \notin {}
           /\ wf.home[x] = t => Position(wf, x, s, phase[t]) = Position(wf, x, s, "ok")
    BY <1>4, <2>3
  <2> HIDE DEF p, s
  <2>6. s = at[t]
    BY DEF s
  <2> QED BY <1>1, <1>2, <1>4, <2>1, <2>4, <2>5, <2>6, Moved
<1> QED BY <1>6, <1>7, <1>8 DEF Leave

\* Fork keeps the counts: each child begins once.
LEMMA ForkCounts ==
  ASSUME IInv, IInv', NEW n \in [Steps(wf) -> Nat], Counted(n), NEW t \in Tasks, Fork(t)
  PROVE  CountInv'
<1> DEFINE s == at[t]
           kids == wf.kids[s]
<1>1. phase[t] = "enter" /\ wf.kind[s] = "parallel" /\ UNCHANGED <<wf, iter, tries, calls>>
  BY DEF Fork
<1>2. s \in Steps(wf) /\ wf.home[s] = t /\ Loaded /\ s \in wf.up[s]
  <2>1. s \in Steps(wf) /\ wf.home[s] = t /\ Loaded
    BY <1>1 DEF IInv, Carried, ControlOK, Running
  <2> QED BY <2>1, UpSelf
<1>3. /\ \A u \in Tasks : at'[u] = IF u \in kids THEN u ELSE at[u]
      /\ \A u \in Tasks : phase'[u] = IF u \in kids THEN "enter"
                                      ELSE IF u = t THEN "join" ELSE phase[u]
      /\ Tasks' = Tasks
  BY <1>1 DEF Fork, Tasks
<1>4. ASSUME NEW c \in kids
      PROVE  c \in Tasks \ {Root} /\ c \in Steps(wf) /\ wf.home[c] = c /\ phase[c] = "idle" /\ c # t
  <2>1. c \in Tasks \ {Root} /\ c \in Steps(wf) /\ Owner(c) = t /\ wf.home[c] = c
    BY <1>2, KidsOf
  <2>2. phase[c] = "idle"
    BY <1>1, <2>1 DEF IInv, NoOrphan
  <2> QED BY <1>1, <2>1, <2>2
<1>5. kids \subseteq Children(wf, s)
  BY <1>2, Mentioned
<1>6. PICK m : m = Bump(wf, n, kids)
  OBVIOUS
<1>7. /\ m \in [Steps(wf) -> Nat] /\ Begun(wf, With(n), With(m)', kids)
      /\ With(n) \in Counters(wf) /\ With(m)' \in Counters(wf)
  BY <1>1, <1>6, Bumped
<1>8. \A x \in Steps(wf) : Same3(With(n), With(m)', x)
  BY <1>1 DEF Same3, With
<1>9. /\ wf.next[s] # None => wf.next[s] \notin kids
      /\ \A x \in Steps(wf) \ {s} : Clear(wf, x, kids)
  BY <1>2, <1>5, ClearOfChildren
<1>10. ASSUME NEW x \in Steps(wf) PROVE Kept(wf, x, Pos(x), Pos(x)', With(n), With(m)')
  <2> DEFINE u == wf.home[x]
  <2>1. u \in Tasks /\ Pos(x) = Position(wf, x, at[u], phase[u])
        /\ Pos(x)' = Position(wf, x, at'[u], phase'[u])
    BY <1>1, <1>2, Homes DEF Pos
  <2>2. CASE u \in kids
    <3>1. Pos(x) = "out"
      BY <1>4, <2>1, <2>2 DEF Position, Running
    <3>2. Pos(x)' = Position(wf, x, u, "enter")
      BY <1>3, <2>1, <2>2
    <3>3. CASE x \in kids
      <4>1. u = x /\ x \in wf.up[x] /\ x # s
        BY <1>2, <1>4, <3>3 DEF Loaded, WorkflowTree
      <4>2. Pos(x)' = "enter"
        BY <3>2, <4>1 DEF Position, Running
      <4> HIDE DEF Pos
      <4> QED BY <1>2, <1>7, <1>8, <1>9, <3>1, <3>3, <4>1, <4>2, Enters
    <3>4. CASE x \notin kids
      <4>1. x \notin wf.up[u]
        BY <1>2, <1>4, <2>2, <3>4, OwnSteps
      <4>2. Pos(x)' = "out"
        BY <3>2, <4>1 DEF Position
      <4>3. x # s
        BY <1>2, <1>4, <2>2
      <4> HIDE DEF Pos
      <4> QED BY <1>2, <1>7, <1>8, <1>9, <3>1, <3>4, <4>2, <4>3, Elsewhere
    <3> QED BY <3>3, <3>4
  <2>3. CASE u \notin kids
    <3>1. x \notin kids
      BY <1>4, <2>3
    <3>2. CASE x = s
      <4>1. Pos(x) = "enter" /\ Pos(x)' = "join"
        BY <1>1, <1>2, <1>3, <2>1, <2>3, <3>2 DEF Position, Running
      <4> HIDE DEF Pos
      <4> QED BY <1>1, <1>2, <1>7, <1>8, <1>9, <3>1, <3>2, <4>1, Forks
    <3>3. CASE x # s
      <4>1. Pos(x) = Pos(x)'
        BY <1>1, <1>2, <1>3, <2>1, <2>3, <3>3 DEF Position, Running
      <4> HIDE DEF Pos
      <4> QED BY <1>2, <1>7, <1>8, <1>9, <3>1, <3>3, <4>1, Elsewhere
    <3> QED BY <3>2, <3>3
  <2> QED BY <2>2, <2>3
<1>11. m[wf.then[None]] = n[wf.then[None]]
  BY <1>2, <1>5, <1>7, ClearOfFirst DEF Begun, With
<1>12. phase'[Root] = "start" <=> phase[Root] = "start"
  BY <1>1, <1>2, <1>3, <1>4, Owners
<1>13. NoFailure' => NoFailure
  BY <1>1, <1>3, <1>4 DEF NoFailure
<1> HIDE DEF Pos
<1>14. \A x \in Steps(wf) :
         /\ AtMost(wf, x, Pos(x), With(n)) => AtMost(wf, x, Pos(x)', With(m)')
         /\ NoFailure' /\ AtLeast(wf, x, Pos(x), With(n)) => AtLeast(wf, x, Pos(x)', With(m)')
  BY <1>10 DEF Kept
<1> QED BY <1>1, <1>7, <1>11, <1>12, <1>13, <1>14, Settled

\* Join keeps the counts.
LEMMA JoinCounts ==
  ASSUME IInv, IInv', NEW n \in [Steps(wf) -> Nat], Counted(n), NEW t \in Tasks, Join(t)
  PROVE  CountInv'
<1> DEFINE s == at[t]
           kids == wf.kids[s]
<1>1. phase[t] = "join" /\ UNCHANGED <<wf, at, iter, tries, calls>> /\ \A c \in kids : phase[c] \in Ended
  BY DEF Join, AllReturned
<1>2. s \in Steps(wf) /\ wf.home[s] = t /\ Loaded /\ s \in wf.up[s] /\ wf.kind[s] = "parallel"
  <2>1. s \in Steps(wf) /\ wf.home[s] = t /\ Loaded /\ wf.kind[s] = "parallel"
    BY <1>1 DEF IInv, Carried, ControlOK, Running
  <2> QED BY <2>1, UpSelf
<1>3. /\ \A u \in Tasks \ {t} : phase'[u] = IF u \in kids THEN "idle" ELSE phase[u]
      /\ t \notin kids
      /\ \/ phase'[t] = "failed"
         \/ phase'[t] = "leave" /\ \A c \in kids : phase[c] # "failed"
      /\ Tasks' = Tasks
  <2>1. t \notin kids
    BY <1>1 DEF Ended
  <2> QED BY <1>1, <2>1 DEF Join, Tasks
<1>4. With(n) \in Counters(wf) /\ With(n)' = With(n)
  BY <1>1, WithTyped DEF IInv, With
<1>5. \A x \in Steps(wf) : Same3(With(n), With(n), x)
  BY DEF Same3
<1>6. ASSUME NEW x \in Steps(wf)
      PROVE  \/ Pos(x)' = Pos(x)
             \/ Pos(x)' = "out" /\ phase'[t] = "failed"
             \/ x = s /\ Pos(x) = "join" /\ Pos(x)' = "leave"
  <2> DEFINE u == wf.home[x]
  <2>1. u \in Tasks /\ Pos(x) = Position(wf, x, at[u], phase[u])
        /\ Pos(x)' = Position(wf, x, at[u], phase'[u])
    BY <1>1, <1>2, Homes DEF Pos
  <2>2. CASE u \in kids
    BY <1>1, <1>3, <2>1, <2>2 DEF Position, Running, Ended
  <2>3. CASE u = t
    BY <1>1, <1>2, <1>3, <2>1, <2>3 DEF Position, Running
  <2>4. CASE u \notin kids /\ u # t
    BY <1>3, <2>1, <2>4
  <2> QED BY <2>2, <2>3, <2>4
<1>7. ASSUME NEW x \in Steps(wf)
      PROVE  /\ AtMost(wf, x, Pos(x), With(n)) => AtMost(wf, x, Pos(x)', With(n)')
             /\ NoFailure' /\ AtLeast(wf, x, Pos(x), With(n)) => AtLeast(wf, x, Pos(x)', With(n)')
  <2>1. CASE Pos(x)' = Pos(x)
    BY <1>4, <2>1
  <2>2. CASE Pos(x)' = "out" /\ phase'[t] = "failed"
    <3>1. ~ NoFailure'
      BY <1>3, <2>2 DEF NoFailure
    <3> HIDE DEF Pos
    <3>2. AtMost(wf, x, Pos(x), With(n)) => AtMost(wf, x, "out", With(n))
      BY <1>2, <1>4, <1>5, Stops
    <3> QED BY <1>4, <2>2, <3>1, <3>2
  <2>3. CASE x = s /\ Pos(x) = "join" /\ Pos(x)' = "leave"
    <3>1. Kept(wf, x, "join", "leave", With(n), With(n))
      BY <1>2, <1>4, <1>5, <2>3, Continues
    <3> HIDE DEF Pos
    <3> QED BY <1>4, <2>3, <3>1 DEF Kept
  <2> QED BY <1>6, <2>1, <2>2, <2>3
<1>8. phase'[Root] = "start" <=> phase[Root] = "start"
  <2>1. Root \notin kids /\ Root \in Tasks
    BY <1>2, Owners, KidsOf
  <2> QED BY <1>1, <1>3, <2>1
<1>9. NoFailure' => NoFailure
  BY <1>1, <1>3 DEF NoFailure
<1> QED BY <1>1, <1>7, <1>8, <1>9, Settled

\* ResolveInputs keeps the counts: the first list begins.
LEMMA ResolveInputsCounts ==
  ASSUME IInv, IInv', NEW n \in [Steps(wf) -> Nat], Counted(n), ResolveInputs
  PROVE  CountInv'
<1> DEFINE h == wf.then[None]
<1>1. phase[Root] = "start" /\ UNCHANGED <<wf, iter, tries, calls>> /\ Loaded
      /\ Root \in Tasks
  BY Owners DEF ResolveInputs, IInv
<1>2. n[h] = 0 /\ \A x \in Steps(wf) : AtMost(wf, x, Pos(x), With(n))
  BY <1>1, ClearOfFirst DEF Counted
<1>3. With(n) \in Counters(wf)
  BY WithTyped DEF IInv
<1>4. \A x \in Steps(wf) : wf.home[x] = Root => Pos(x) = "out"
  BY <1>1 DEF Pos, Position, Running
<1>5. /\ h \in Steps(wf) /\ wf.home[h] = Root /\ wf.up[h] = {h}
      /\ \A x \in Steps(wf) : Clear(wf, x, {h})
  BY <1>1, ClearOfFirst DEF Root
<1>6. CASE Become(Root, "failed")
  <2>1. Goto(Root, at[Root], "failed")
    BY <1>1, <1>6, Same DEF Goto, Become
  <2>2. With(n)' = With(n)
    BY <1>1 DEF With
  <2>3. /\ \A x \in Steps(wf) : Pos(x)' = Pos(x)
        /\ phase'[Root] = "failed" /\ Tasks' = Tasks
    <3>1. \A x \in Steps(wf) : wf.home[x] = Root => Position(wf, x, at[Root], "failed") = "out"
      BY DEF Position, Running
    <3>2. /\ \A x \in Steps(wf) :
               /\ wf.home[x] # Root => Pos(x)' = Pos(x)
               /\ wf.home[x] = Root => Pos(x)' = Position(wf, x, at[Root], "failed")
          /\ phase'[Root] = "failed" /\ Tasks' = Tasks
      BY <1>1, <2>1, Moves
    <3> HIDE DEF Pos
    <3> QED BY <1>4, <3>1, <3>2
  <2>4. ~ NoFailure'
    BY <1>1, <2>3 DEF NoFailure
  <2>5. Counted(n)'
    <3>1. \A x \in Steps(wf') : AtMost(wf', x, Pos(x)', With(n)')
      BY <1>1, <1>2, <2>2, <2>3
    <3>2. phase'[Root] # "start" /\ n[wf'.then[None]] <= 1
      BY <1>1, <1>2, <2>3
    <3> QED BY <2>4, <3>1, <3>2 DEF Counted
  <2> QED BY <1>1, <2>5 DEF CountInv
<1>7. CASE Goto(Root, h, "enter")
  <2>1. PICK m : m = Bump(wf, n, {h})
    OBVIOUS
  <2>2. /\ m \in [Steps(wf) -> Nat] /\ Begun(wf, With(n), With(m)', {h})
        /\ With(n) \in Counters(wf) /\ With(m)' \in Counters(wf)
    BY <1>1, <2>1, Bumped
  <2>3. \A x \in Steps(wf) : Same3(With(n), With(m)', x)
    BY <1>1 DEF Same3, With
  <2>4. /\ \A x \in Steps(wf) :
             /\ wf.home[x] # Root => Pos(x)' = Pos(x)
             /\ wf.home[x] = Root => Pos(x)' = Position(wf, x, h, "enter")
        /\ \A u \in Tasks \ {Root} : phase'[u] = phase[u]
        /\ phase'[Root] = "enter" /\ Tasks' = Tasks
    BY <1>1, <1>7, Moves
  <2>5. ASSUME NEW x \in Steps(wf) PROVE Kept(wf, x, Pos(x), Pos(x)', With(n), With(m)')
    <3>1. CASE x = h
      <4>1. Pos(x) = "out" /\ Pos(x)' = "enter"
        BY <1>4, <1>5, <2>4, <3>1 DEF Position, Running
      <4> HIDE DEF Pos
      <4> QED BY <1>1, <1>5, <2>2, <2>3, <3>1, <4>1, Enters
    <3>2. CASE x # h
      <4>1. Pos(x)' = Pos(x)
        BY <1>4, <1>5, <2>4, <3>2 DEF Position, Running
      <4> HIDE DEF Pos
      <4> QED BY <1>1, <1>5, <2>2, <2>3, <3>2, <4>1, Elsewhere
    <3> QED BY <3>1, <3>2
  <2>6. NoFailure' => NoFailure
    BY <1>1, <2>4 DEF NoFailure
  <2>7. m[h] = 1
    BY <1>2, <1>5, <2>2 DEF Begun, With
  <2>8. Counted(m)'
    <3> HIDE DEF Pos
    <3>1. \A x \in Steps(wf') : AtMost(wf', x, Pos(x)', With(m)')
      BY <1>1, <1>2, <2>5 DEF Kept
    <3>2. phase'[Root] # "start" /\ m[wf'.then[None]] = 1
      BY <1>1, <2>4, <2>7
    <3>3. NoFailure' => \A x \in Steps(wf') : AtLeast(wf', x, Pos(x)', With(m)')
      BY <1>1, <2>5, <2>6 DEF Kept, Counted
    <3> QED BY <3>1, <3>2, <3>3 DEF Counted
  <2> QED BY <1>1, <2>2, <2>8 DEF CountInv
<1> QED BY <1>6, <1>7 DEF ResolveInputs

\* At the start nothing has begun.
LEMMA CountInit == IInv /\ Init => CountInv
<1> SUFFICES ASSUME IInv, Init PROVE CountInv
  OBVIOUS
<1> DEFINE n == [x \in Steps(wf) |-> 0]
<1>1. n \in [Steps(wf) -> Nat] /\ \A x \in Steps(wf) : n[x] = 0
  OBVIOUS
<1>2. Loaded /\ \A t \in Tasks : phase[t] \notin Running
  BY DEF Init, IInv, Running
<1>3. phase[Root] = "start"
  BY <1>2, Owners DEF Init
<1>4. calls = n /\ tries = n /\ iter = n
  BY DEF Init
<1> HIDE DEF n
<1>5. ASSUME NEW x \in Steps(wf)
      PROVE  AtMost(wf, x, "out", With(n)) /\ AtLeast(wf, x, "out", With(n))
  <2>1. /\ With(n).n[x] = 0 /\ With(n).calls[x] = 0 /\ With(n).tries[x] = 0 /\ With(n).iter[x] = 0
        /\ wf.next[x] # None => With(n).n[wf.next[x]] = 0
        /\ \A c \in Children(wf, x) : With(n).n[c] = 0
    BY <1>1, <1>2, <1>4, Mentioned DEF With
  <2> QED BY <1>2, <2>1, Mentioned DEF AtMost, AtLeast
<1>6. \A x \in Steps(wf) : Pos(x) = "out"
  BY <1>2, Homes DEF Pos, Position
<1>7. n[wf.then[None]] = 0
  BY <1>1, <1>2, ClearOfFirst
<1> HIDE DEF Pos
<1>8. Counted(n)
  BY <1>3, <1>5, <1>6, <1>7 DEF Counted
<1> QED BY <1>1, <1>8 DEF CountInv

\* Every step keeps the counts.
LEMMA CountStep == IInv /\ IInv' /\ CountInv /\ [Next]_vars => CountInv'
<1> SUFFICES ASSUME IInv, IInv', CountInv, [Next]_vars PROVE CountInv'
  OBVIOUS
<1>1. PICK n \in [Steps(wf) -> Nat] : Counted(n)
  BY DEF CountInv
<1>2. CASE ResolveInputs
  BY <1>1, <1>2, ResolveInputsCounts
<1>3. ASSUME NEW t \in Tasks, Step(t) PROVE CountInv'
  <2>1. CASE RenderFails(t)
    <3>1. Become(t, "failed") /\ phase[t] # "start" /\ UNCHANGED <<wf, iter, tries, calls>>
      BY <2>1 DEF RenderFails
    <3> QED BY <1>1, <3>1, FailsCounts
  <2>2. CASE CallOk(t)
    <3>1. phase[t] = "call" /\ Become(t, "leave") /\ UNCHANGED <<wf, iter, tries, calls>>
      BY <2>2 DEF CallOk
    <3> QED BY <1>1, <3>1, CompletesCounts
  <2>3. CASE StartCall(t) \/ CallError(t)
    BY <1>1, <2>3, StartCallCounts, CallErrorCounts
  <2>4. CASE TakeBranch(t)
    BY <1>1, <2>4, TakeBranchCounts
  <2>5. CASE EnterLoop(t) \/ CheckLoop(t)
    BY <1>1, <2>5, LoopCounts
  <2>6. CASE Fork(t) \/ Join(t)
    BY <1>1, <2>6, ForkCounts, JoinCounts
  <2>7. CASE Leave(t)
    BY <1>1, <2>7, LeaveCounts
  <2> QED BY <1>3, <2>1, <2>2, <2>3, <2>4, <2>5, <2>6, <2>7 DEF Step
<1>4. CASE UNCHANGED vars
  <2>1. Counted(n)'
    BY <1>1, <1>4 DEF Counted, vars, NoFailure, Tasks, Pos, With
  <2> QED BY <1>4, <2>1 DEF CountInv, vars
<1> QED BY <1>2, <1>3, <1>4 DEF Next

\* A count that agrees with the state always exists.
LEMMA Counting == Spec => []CountInv
<1>1. IInv /\ Init => CountInv
  BY CountInit
<1>2. IInv /\ IInv' /\ CountInv /\ [Next]_vars => CountInv'
  BY CountStep
<1>3. Init => IInv
  BY InitHolds
<1> QED BY <1>1, <1>2, <1>3, Invariance, PTL DEF Spec

-----------------------------------------------------------------------------
(* What the counts amount to.                                              *)

Factor(w, loops, i) == IF i \in loops THEN w.max[i] ELSE 1
Multiplies(w, loops, f) ==
  /\ f \in [0..w.size -> Nat] /\ f[0] = 1
  /\ \A i \in 1..w.size : f[i] = f[i - 1] * Factor(w, loops, i)

\* Product is the last value of the running product it is defined by.
LEMMA ProductFold ==
  ASSUME Loaded, NEW loops
  PROVE  \E f : Multiplies(wf, loops, f) /\ Product(loops) = f[wf.size]
<1> DEFINE N == wf.size
           step == [p \in Nat \X (1..N) |-> p[1] * Factor(wf, loops, p[2])]
           Good(f) == f = [i \in 0..N |->
                             IF i = 0 THEN 1 ELSE f[i - 1] * IF i \in loops THEN wf.max[i] ELSE 1]
<1>1. N \in Nat /\ \A i \in 1..N : Factor(wf, loops, i) \in Nat
  BY DEF Loaded, WorkflowTyped, Steps, Factor
<1>2. step \in [Nat \X (1..N) -> Nat]
  <2>1. ASSUME NEW p \in Nat \X (1..N) PROVE p[1] * Factor(wf, loops, p[2]) \in Nat
    <3>1. p[1] \in Nat /\ p[2] \in 1..N
      OBVIOUS
    <3>2. Factor(wf, loops, p[2]) \in Nat
      BY <1>1, <3>1
    <3> HIDE DEF N
    <3> QED BY <3>1, <3>2
  <2> QED BY <2>1
<1>3. PICK f \in [0..N -> Nat] : Recurs(f, N, 1, step)
  <2>1. 1 \in Nat
    OBVIOUS
  <2> HIDE DEF step, N
  <2> QED BY <1>1, <1>2, <2>1, Recursion
<1>4. \A i \in 1..N : f[i] = f[i - 1] * Factor(wf, loops, i)
  <2> SUFFICES ASSUME NEW i \in 1..N PROVE f[i] = f[i - 1] * Factor(wf, loops, i)
    OBVIOUS
  <2>1. i - 1 \in 0..N
    BY <1>1
  <2>2. f[i] = step[<<f[i - 1], i>>] /\ f[i - 1] \in Nat
    <3> HIDE DEF step
    <3> QED BY <1>3, <2>1 DEF Recurs
  <2>3. <<f[i - 1], i>> \in Nat \X (1..N)
    BY <2>2
  <2> QED BY <2>2, <2>3
<1>5. f[0] = 1
  BY <1>3 DEF Recurs
<1>6. Good(f)
  <2>1. \A i \in 0..N : f[i] = IF i = 0 THEN 1 ELSE f[i - 1] * IF i \in loops THEN wf.max[i] ELSE 1
    BY <1>1, <1>4, <1>5 DEF Factor
  <2> HIDE DEF N
  <2> QED BY <1>3, <2>1
<1> DEFINE g == CHOOSE x : Good(x)
<1>7. Good(g)
  <2> HIDE DEF Good
  <2> QED BY <1>6
<1>8. Product(loops) = g[N]
  BY DEF Product
<1> HIDE DEF g
<1>9. g[0] = 1 /\ \A i \in 1..N : g[i] = g[i - 1] * Factor(wf, loops, i)
  BY <1>1, <1>7 DEF Factor
<1> DEFINE T == {i \in 0..N : g[i] = f[i]}
<1>10. 0..N \subseteq T
  <2>1. 0 \in T
    BY <1>1, <1>5, <1>9
  <2>2. \A i \in 0..(N - 1) : i \in T => i + 1 \in T
    BY <1>1, <1>4, <1>9
  <2> HIDE DEF T, N
  <2> QED BY <1>1, <2>1, <2>2, BoundedInduction
<1>11. g[N] = f[N]
  BY <1>1, <1>10
<1>12. Multiplies(wf, loops, f)
  BY <1>3, <1>4, <1>5 DEF Multiplies
<1> QED BY <1>8, <1>11, <1>12

\* No loop multiplies nothing; one more loop multiplies by its cap.
LEMMA ProductEmpty ==
  ASSUME Loaded
  PROVE  Product({}) = 1
<1>1. PICK f : Multiplies(wf, {}, f) /\ Product({}) = f[wf.size]
  BY ProductFold
<1> DEFINE N == wf.size
           T == {i \in 0..N : f[i] = 1}
<1>2. N \in Nat
  BY DEF Loaded, WorkflowTyped
<1>3. 0 \in T
  BY <1>1, <1>2 DEF Multiplies
<1>4. \A i \in 0..(N - 1) : i \in T => i + 1 \in T
  BY <1>1, <1>2 DEF Multiplies, Factor
<1>5. 0..N \subseteq T
  <2> HIDE DEF T, N
  <2> QED BY <1>2, <1>3, <1>4, BoundedInduction
<1>6. f[N] = 1
  BY <1>2, <1>5
<1> QED BY <1>1, <1>6

\* A loop that is not among the others multiplies the product by its cap.
LEMMA ProductOneMore ==
  ASSUME Loaded, NEW loops, NEW p \in Steps(wf), p \notin loops
  PROVE  Product(loops \cup {p}) = Product(loops) * wf.max[p] /\ Product(loops) \in Nat
<1> DEFINE more == loops \cup {p}
           N == wf.size
<1>1. PICK f : Multiplies(wf, loops, f) /\ Product(loops) = f[N]
  BY ProductFold
<1>2. PICK g : Multiplies(wf, more, g) /\ Product(more) = g[N]
  BY ProductFold
<1>3. N \in Nat /\ wf.max[p] \in Nat /\ p \in 1..N
  BY DEF Loaded, WorkflowTyped, Steps
<1>4. \A i \in 1..N : Factor(wf, loops, i) \in Nat
  BY DEF Loaded, WorkflowTyped, Steps, Factor
<1>5. \A i \in 1..N \ {p} : Factor(wf, more, i) = Factor(wf, loops, i)
  BY DEF Factor
<1>6. Factor(wf, more, p) = wf.max[p] /\ Factor(wf, loops, p) = 1
  BY DEF Factor
<1> HIDE DEF more, N
<1> DEFINE T == {i \in 0..N : g[i] = IF i < p THEN f[i] ELSE f[i] * wf.max[p]}
<1>7. f \in [0..N -> Nat] /\ f[0] = 1 /\ g[0] = 1
      /\ \A i \in 1..N : f[i] = f[i - 1] * Factor(wf, loops, i) /\ g[i] = g[i - 1] * Factor(wf, more, i)
  BY <1>1, <1>2 DEF Multiplies, N
<1>8. 0 \in T
  BY <1>3, <1>7
<1>9. ASSUME NEW i \in 0..(N - 1), i \in T PROVE i + 1 \in T
  <2>0. i + 1 \in 1..N /\ i \in 0..N /\ i + 1 \in 0..N /\ (i + 1) - 1 = i /\ i \in Int
    BY <1>3
  <2>1. i + 1 \in 1..N /\ i \in 0..N /\ i + 1 \in 0..N /\ (i + 1) - 1 = i /\ f[i] \in Nat /\ i \in Int
    BY <1>7, <2>0
  <2>2. g[i + 1] = g[i] * Factor(wf, more, i + 1) /\ f[i + 1] = f[i] * Factor(wf, loops, i + 1)
    BY <1>7, <2>1
  <2>3. CASE i + 1 < p
    <3>1. g[i] = f[i] /\ i + 1 # p
      BY <1>3, <1>9, <2>1, <2>3
    <3> QED BY <1>5, <2>1, <2>2, <2>3, <3>1
  <2>4. CASE i + 1 = p
    <3>1. g[i] = f[i] /\ f[i + 1] = f[i]
      BY <1>3, <1>6, <1>9, <2>1, <2>2, <2>4
    <3>2. g[i + 1] = f[i + 1] * wf.max[p]
      BY <1>6, <2>2, <2>4, <3>1
    <3> QED BY <1>3, <2>1, <2>4, <3>2
  <2>5. CASE i + 1 > p
    <3>1. g[i] = f[i] * wf.max[p] /\ i + 1 # p /\ ~ (i + 1 < p)
      BY <1>3, <1>9, <2>1, <2>5
    <3>2. g[i + 1] = (f[i] * wf.max[p]) * Factor(wf, loops, i + 1)
      BY <1>5, <2>1, <2>2, <3>1
    <3>3. Factor(wf, loops, i + 1) \in Nat
      BY <1>4, <2>1
    <3>4. g[i + 1] = (f[i] * Factor(wf, loops, i + 1)) * wf.max[p]
      BY <1>3, <2>1, <3>2, <3>3
    <3> QED BY <2>1, <2>2, <3>1, <3>4
  <2> QED BY <1>3, <2>1, <2>3, <2>4, <2>5
<1>10. 0..N \subseteq T
  <2> HIDE DEF T
  <2> QED BY <1>3, <1>8, <1>9, BoundedInduction
<1>11. g[N] = f[N] * wf.max[p] /\ f[N] \in Nat
  <2>1. N \in 0..N /\ ~ (N < p)
    BY <1>3
  <2> QED BY <1>7, <1>10, <2>1
<1> QED BY <1>1, <1>2, <1>11 DEF more

\* The loops a step is nested in.
Around(w, s) == (w.up[s] \ {s}) \cap Loops(w)

\* How the loops around a step relate to those around its successor and its children.
LEMMA LoopsAround ==
  ASSUME Loaded, NEW s \in Steps(wf)
  PROVE  /\ wf.parent[s] = None => Around(wf, s) = {}
         /\ wf.next[s] # None => wf.up[wf.next[s]] \ {wf.next[s]} = wf.up[s] \ {s}
         /\ \A c \in Children(wf, s) :
              /\ wf.up[c] \ {c} = wf.up[s]
              /\ wf.kind[s] = "loop" => Around(wf, c) = Around(wf, s) \cup {s}
              /\ wf.kind[s] # "loop" => Around(wf, c) = Around(wf, s)
         /\ s \notin Around(wf, s)
         /\ IsLeaf(wf, s) => Around(wf, s) = wf.up[s] \cap Loops(wf)
<1>1. s \in wf.up[s]
  BY DEF Loaded, WorkflowTree
<1>2. wf.parent[s] = None => Around(wf, s) = {}
  BY DEF Loaded, WorkflowTree, Around
<1>3. wf.next[s] # None => wf.up[wf.next[s]] \ {wf.next[s]} = wf.up[s] \ {s}
  <2> SUFFICES ASSUME wf.next[s] # None
               PROVE  wf.up[wf.next[s]] \ {wf.next[s]} = wf.up[s] \ {s}
    OBVIOUS
  <2> DEFINE h == wf.next[s]
  <2>1. h \in Steps(wf) /\ h \notin wf.up[s] /\ s \notin wf.up[h]
        /\ \A x \in Steps(wf) \ {s, h} : x \in wf.up[s] <=> x \in wf.up[h]
    BY ClearOfNext, NotAround
  <2>2. wf.up[s] \subseteq Steps(wf) /\ wf.up[h] \subseteq Steps(wf)
    BY <2>1 DEF Loaded, WorkflowTyped
  <2> HIDE DEF h
  <2>3. \A x : x \in wf.up[h] \ {h} <=> x \in wf.up[s] \ {s}
    BY <2>1, <2>2
  <2>4. wf.up[h] \ {h} = wf.up[s] \ {s}
    BY <2>3
  <2> QED BY <2>4 DEF h
<1>4. ASSUME NEW c \in Children(wf, s)
      PROVE  /\ wf.up[c] \ {c} = wf.up[s]
             /\ wf.kind[s] = "loop" => Around(wf, c) = Around(wf, s) \cup {s}
             /\ wf.kind[s] # "loop" => Around(wf, c) = Around(wf, s)
  <2>1. wf.up[c] = {c} \cup wf.up[s] /\ c \notin wf.up[s]
    BY ChildOf, NotAround
  <2>2. wf.up[c] \ {c} = wf.up[s]
    BY <2>1
  <2> QED BY <1>1, <2>2 DEF Around, Loops
<1>5. IsLeaf(wf, s) => Around(wf, s) = wf.up[s] \cap Loops(wf)
  BY DEF Around, Loops, IsLeaf, LeafKinds
<1> QED BY <1>2, <1>3, <1>4, <1>5 DEF Around

\* A step is the first one, a successor or a child, of a step before it.
LEMMA Placed ==
  ASSUME Loaded, NEW s \in Steps(wf)
  PROVE  \/ s = wf.then[None]
         \/ \E r \in Steps(wf) : wf.next[r] = s /\ r < s
         \/ \E p \in Steps(wf) : s \in Children(wf, p) /\ p < s
<1>1. CASE Before(wf, s) = {}
  <2>1. Begins(wf, s)
    BY <1>1 DEF Loaded, WorkflowTree, DocumentOrder
  <2>2. wf.parent[s] # None => wf.parent[s] \in Steps(wf) /\ wf.parent[s] < s
    BY DEF Loaded, WorkflowTree, WorkflowTyped, DocumentOrder
  <2> QED BY <2>1, <2>2 DEF Begins
<1>2. CASE Before(wf, s) # {}
  <2>1. PICK r \in Steps(wf) : wf.next[r] = s
    BY <1>2 DEF Before
  <2>2. r < s
    BY <2>1, Owners DEF Loaded, WorkflowTree, DocumentOrder
  <2> QED BY <2>1, <2>2
<1> QED BY <1>1, <1>2

\* No step is begun more often than the caps of the loops around it allow.
LEMMA BegunAtMost ==
  ASSUME Loaded, NEW n \in [Steps(wf) -> Nat], Counted(n)
  PROVE  \A s \in Steps(wf) : n[s] <= Product(Around(wf, s))
<1> DEFINE T == {s \in Nat : s \in Steps(wf) => n[s] <= Product(Around(wf, s))}
<1>0. wf.size \in Nat /\ \A x \in Steps(wf) : x \in Nat
  BY DEF Loaded, WorkflowTyped, Steps
<1>1. \A x \in Steps(wf) :
        /\ wf.next[x] # None => n[wf.next[x]] <= n[x]
        /\ wf.kind[x] # "loop" => \A c \in Children(wf, x) : n[c] <= n[x]
        /\ wf.kind[x] = "loop" => n[wf.then[x]] <= n[x] * wf.max[x]
  BY DEF Counted, AtMost, With
<1>2. ASSUME NEW s \in Nat, \A m \in Nat : m < s => m \in T PROVE s \in T
  <2> SUFFICES ASSUME s \in Steps(wf) PROVE n[s] <= Product(Around(wf, s))
    OBVIOUS
  <2>1. CASE s = wf.then[None]
    <3>1. n[s] <= 1 /\ Around(wf, s) = {}
      BY <2>1, ClearOfFirst, LoopsAround DEF Counted
    <3> QED BY <3>1, ProductEmpty
  <2>2. ASSUME NEW r \in Steps(wf), wf.next[r] = s, r < s PROVE n[s] <= Product(Around(wf, s))
    <3>1. wf.next[r] # None
      BY <2>2, Owners
    <3>2. Around(wf, s) = Around(wf, r)
      BY <2>2, <3>1, LoopsAround DEF Around
    <3>3. n[s] <= n[r] /\ n[r] <= Product(Around(wf, r))
      BY <1>0, <1>1, <1>2, <2>2, <3>1
    <3>4. n[s] \in Nat /\ n[r] \in Nat /\ Product(Around(wf, r)) \in Nat
      BY LoopsAround, ProductOneMore
    <3> HIDE DEF T
    <3> QED BY <3>2, <3>3, <3>4
  <2>3. ASSUME NEW p \in Steps(wf), s \in Children(wf, p), p < s
        PROVE  n[s] <= Product(Around(wf, s))
    <3>1. n[p] <= Product(Around(wf, p))
      BY <1>0, <1>2, <2>3
    <3>2. n[s] \in Nat /\ n[p] \in Nat /\ Product(Around(wf, p)) \in Nat /\ wf.max[p] \in Nat
          /\ Product(Around(wf, p) \cup {p}) = Product(Around(wf, p)) * wf.max[p]
      BY LoopsAround, ProductOneMore, Mentioned
    <3>3. CASE wf.kind[p] # "loop"
      <4>1. n[s] <= n[p] /\ Around(wf, s) = Around(wf, p)
        BY <1>1, <2>3, <3>3, LoopsAround
      <4> HIDE DEF T
      <4> QED BY <3>1, <3>2, <4>1
    <3>4. CASE wf.kind[p] = "loop"
      <4>1. s = wf.then[p]
        BY <2>3, <3>4 DEF Children, Loaded, WorkflowTree
      <4>2. n[s] <= n[p] * wf.max[p] /\ Around(wf, s) = Around(wf, p) \cup {p}
        BY <1>1, <2>3, <3>4, <4>1, LoopsAround
      <4>3. n[p] * wf.max[p] <= Product(Around(wf, p)) * wf.max[p] /\ n[p] * wf.max[p] \in Nat
            /\ Product(Around(wf, p)) * wf.max[p] \in Nat
        <5> HIDE DEF T
        <5>1. \A i, j, k \in Nat : i <= j => i * k <= j * k /\ i * k \in Nat /\ j * k \in Nat
          OBVIOUS
        <5> QED BY <3>1, <3>2, <5>1
      <4> HIDE DEF T
      <4> QED BY <3>2, <4>2, <4>3
    <3> QED BY <3>3, <3>4
  <2> QED BY <2>1, <2>2, <2>3, Placed
<1>3. Nat \subseteq T
  <2> HIDE DEF T
  <2> QED BY <1>2, StrongInduction
<1> QED BY <1>0, <1>3

\* After a success every step that nothing could skip was begun that often.
LEMMA BegunAtLeast ==
  ASSUME Loaded, NEW n \in [Steps(wf) -> Nat], n[wf.then[None]] = 1,
         \A x \in Steps(wf) : AtLeast(wf, x, "out", With(n))
  PROVE  \A s \in Steps(wf) :
           (\A a \in wf.up[s] \ {s} : wf.kind[a] # "branch" /\ (wf.kind[a] = "loop" => ~ wf.exit[a]))
             => n[s] >= Product(Around(wf, s))
<1> DEFINE Bound(s) == \A a \in wf.up[s] \ {s} :
                         wf.kind[a] # "branch" /\ (wf.kind[a] = "loop" => ~ wf.exit[a])
           T == {s \in Nat : s \in Steps(wf) /\ Bound(s) => n[s] >= Product(Around(wf, s))}
<1>0. wf.size \in Nat /\ \A x \in Steps(wf) : x \in Nat
  BY DEF Loaded, WorkflowTyped, Steps
<1>1. \A x \in Steps(wf) :
        /\ wf.next[x] # None => n[wf.next[x]] >= n[x]
        /\ wf.kind[x] = "parallel" => \A c \in wf.kids[x] : n[c] >= n[x]
        /\ wf.kind[x] = "loop" /\ ~ wf.exit[x] => n[wf.then[x]] >= n[x] * wf.max[x]
  BY DEF AtLeast, With
<1>2. ASSUME NEW s \in Nat, \A m \in Nat : m < s => m \in T PROVE s \in T
  <2> SUFFICES ASSUME s \in Steps(wf), Bound(s) PROVE n[s] >= Product(Around(wf, s))
    OBVIOUS
  <2>1. CASE s = wf.then[None]
    <3>1. n[s] = 1 /\ Around(wf, s) = {}
      BY <2>1, ClearOfFirst, LoopsAround
    <3> QED BY <3>1, ProductEmpty
  <2>2. ASSUME NEW r \in Steps(wf), wf.next[r] = s, r < s PROVE n[s] >= Product(Around(wf, s))
    <3>1. wf.next[r] # None
      BY <2>2, Owners
    <3>2. Around(wf, s) = Around(wf, r) /\ Bound(r)
      BY <2>2, <3>1, LoopsAround DEF Around
    <3>3. n[s] >= n[r] /\ n[r] >= Product(Around(wf, r))
      BY <1>0, <1>1, <1>2, <2>2, <3>1, <3>2
    <3>4. n[s] \in Nat /\ n[r] \in Nat /\ Product(Around(wf, r)) \in Nat
      BY LoopsAround, ProductOneMore
    <3> HIDE DEF T, Bound
    <3> QED BY <3>2, <3>3, <3>4
  <2>3. ASSUME NEW p \in Steps(wf), s \in Children(wf, p), p < s
        PROVE  n[s] >= Product(Around(wf, s))
    <3>0. p \in wf.up[p] /\ wf.up[s] \ {s} = wf.up[p]
      BY <2>3, LoopsAround DEF Loaded, WorkflowTree
    <3>1. Bound(p) /\ wf.kind[p] # "branch" /\ (wf.kind[p] = "loop" => ~ wf.exit[p])
      BY <3>0
    <3>2. n[p] >= Product(Around(wf, p))
      BY <1>0, <1>2, <2>3, <3>1
    <3>3. n[s] \in Nat /\ n[p] \in Nat /\ Product(Around(wf, p)) \in Nat /\ wf.max[p] \in Nat
          /\ Product(Around(wf, p) \cup {p}) = Product(Around(wf, p)) * wf.max[p]
      BY LoopsAround, ProductOneMore, Mentioned
    <3>4. CASE wf.kind[p] # "loop"
      <4>1. s \in wf.kids[p]
        BY <2>3, <3>1, <3>4 DEF Children, Loaded, WorkflowTree
      <4>2. wf.kind[p] = "parallel"
        BY <4>1 DEF Loaded, WorkflowTree
      <4>3. n[s] >= n[p] /\ Around(wf, s) = Around(wf, p)
        BY <1>1, <2>3, <3>4, <4>1, <4>2, LoopsAround
      <4> HIDE DEF T, Bound
      <4> QED BY <3>2, <3>3, <4>3
    <3>5. CASE wf.kind[p] = "loop"
      <4>1. s = wf.then[p]
        BY <2>3, <3>5 DEF Children, Loaded, WorkflowTree
      <4>2. n[s] >= n[p] * wf.max[p] /\ Around(wf, s) = Around(wf, p) \cup {p}
        BY <1>1, <2>3, <3>1, <3>5, <4>1, LoopsAround
      <4>3. n[p] * wf.max[p] >= Product(Around(wf, p)) * wf.max[p] /\ n[p] * wf.max[p] \in Nat
            /\ Product(Around(wf, p)) * wf.max[p] \in Nat
        <5> HIDE DEF T, Bound
        <5>1. \A i, j, k \in Nat : i <= j => i * k <= j * k /\ i * k \in Nat /\ j * k \in Nat
          OBVIOUS
        <5> QED BY <3>2, <3>3, <5>1
      <4> HIDE DEF T, Bound
      <4> QED BY <3>3, <4>2, <4>3
    <3> QED BY <3>4, <3>5
  <2> QED BY <2>1, <2>2, <2>3, Placed
<1>3. Nat \subseteq T
  <2> HIDE DEF T
  <2> QED BY <1>2, StrongInduction
<1> QED BY <1>0, <1>3

\* When the workflow has ended, every child is gone.
LEMMA AllIdle ==
  ASSUME IInv, phase[Root] # "join"
  PROVE  \A c \in Tasks \ {Root} : phase[c] = "idle"
<1> DEFINE S == {c \in Tasks \ {Root} : phase[c] # "idle"}
<1> SUFFICES ASSUME S # {} PROVE FALSE
  OBVIOUS
<1>1. Loaded /\ \A c \in Tasks \ {Root} : c \in Nat /\ c \in Steps(wf)
  <2>1. Loaded
    BY DEF IInv
  <2>2. \A x \in Steps(wf) : x \in Nat
    BY <2>1 DEF Loaded, WorkflowTyped, Steps
  <2> QED BY <2>1, <2>2, Owners
<1>2. PICK c \in S : \A d \in S : c <= d
  <2>1. S \subseteq Nat
    BY <1>1
  <2> HIDE DEF S
  <2> QED BY <2>1, LeastMember
<1>3. c \in Tasks \ {Root} /\ phase[Owner(c)] = "join" /\ Owner(c) \in Tasks
      /\ Owner(c) = wf.home[wf.parent[c]] /\ wf.parent[c] \in Steps(wf)
  BY <1>1, Owners DEF IInv, NoOrphan
<1>4. Owner(c) \in S
  BY <1>3
<1>5. Owner(c) \in wf.up[wf.parent[c]]
  BY <1>1, <1>3, <1>4, Homes
<1>6. Owner(c) <= wf.parent[c] /\ wf.parent[c] < c /\ Owner(c) \in Nat /\ wf.parent[c] \in Nat
  <2>1. wf.parent[c] \in Nat
    BY <1>1, <1>3 DEF Loaded, WorkflowTyped, Steps
  <2>2. Owner(c) <= wf.parent[c] /\ Owner(c) \in Nat
    BY <1>1, <1>3, <1>4, <1>5, UpBelow
  <2>3. wf.parent[c] < c
    BY <1>1, <1>3 DEF Loaded, WorkflowTree, DocumentOrder
  <2> QED BY <2>1, <2>2, <2>3
<1> QED BY <1>1, <1>2, <1>3, <1>4, <1>6

\* No side effect happens more often than the retries and the loop caps
\* allow, and a successful workflow ran every step it had to.
THEOREM SideEffectsCounted == Spec => []CallCounts
<1>1. IInv /\ CountInv => CallCounts
  <2> SUFFICES ASSUME IInv, CountInv, NEW s \in Steps(wf), IsLeaf(wf, s)
               PROVE  /\ calls[s] <= Attempts(s) * Activations(s)
                      /\ phase[Root] = "ok" /\ Unconditional(s) => calls[s] >= Activations(s)
    BY DEF CallCounts
  <2>1. Loaded
    BY DEF IInv
  <2>2. PICK n \in [Steps(wf) -> Nat] : Counted(n)
    BY DEF CountInv
  <2>3. Activations(s) = Product(Around(wf, s)) /\ Product(Around(wf, s)) \in Nat
    BY <2>1, LoopsAround, ProductOneMore DEF Activations
  <2>4. Attempts(s) = AttemptsOf(wf, s) /\ Attempts(s) \in Nat
    BY <2>1, Mentioned DEF Attempts, AttemptsOf
  <2>5. n[s] \in Nat /\ calls[s] \in Nat
    BY Typed
  <2>6. calls[s] <= Attempts(s) * Activations(s)
    <3>1. calls[s] <= Attempts(s) * n[s]
      BY <2>2, <2>4 DEF Counted, AtMost, With
    <3>2. n[s] <= Activations(s)
      BY <2>1, <2>2, <2>3, BegunAtMost
    <3>3. Attempts(s) * n[s] <= Attempts(s) * Activations(s)
          /\ Attempts(s) * n[s] \in Nat /\ Attempts(s) * Activations(s) \in Nat
      <4>1. \A i, j, k \in Nat : i <= j => k * i <= k * j /\ k * i \in Nat /\ k * j \in Nat
        OBVIOUS
      <4> QED BY <2>3, <2>4, <2>5, <3>2, <4>1
    <3> QED BY <2>5, <3>1, <3>3
  <2>7. ASSUME phase[Root] = "ok", Unconditional(s) PROVE calls[s] >= Activations(s)
    <3>1. \A c \in Tasks \ {Root} : phase[c] = "idle"
      BY <2>7, AllIdle
    <3>2. NoFailure /\ phase[Root] # "start"
      BY <2>7, <3>1 DEF NoFailure
    <3>3. ASSUME NEW x \in Steps(wf) PROVE Pos(x) = "out"
      <4>1. phase[wf.home[x]] \notin Running
        BY <2>1, <2>7, <3>1, Homes DEF Running
      <4> QED BY <4>1 DEF Pos, Position
    <3>4. n[wf.then[None]] = 1 /\ \A x \in Steps(wf) : AtLeast(wf, x, "out", With(n))
      <4> HIDE DEF Pos
      <4> QED BY <2>2, <3>2, <3>3 DEF Counted
    <3>5. n[s] >= Product(Around(wf, s))
      BY <2>1, <2>7, <3>4, BegunAtLeast DEF Unconditional
    <3>6. calls[s] >= n[s]
      BY <3>4 DEF AtLeast, With
    <3> QED BY <2>3, <2>5, <3>5, <3>6
  <2> QED BY <2>6, <2>7
<1> QED BY <1>1, Invariance, Counting, PTL

-----------------------------------------------------------------------------
(* Whose values a context holds.                                           *)

\* The values task u holds are the latest ones of their steps, and those
\* steps belong to u, to a task around it, or to a child already joined.
NewestOf(u) ==
  /\ phase[u] = "start" => DOMAIN ctx[u] = {}
  /\ u # Root /\ phase[u] = "ok" => at[u] = u
  /\ phase[u] = "call" => calls[at[u]] # 0
  /\ \A x \in DOMAIN ctx[u] :
       LET b == ctx[u][x].by
       IN  /\ wf.out[b] = x /\ IsLeaf(wf, b) /\ calls[b] # 0
           /\ ctx[u][x].run = calls[b] \/ (phase[u] = "call" /\ at[u] = b)
           /\ \/ wf.home[b] = Root \/ wf.home[b] \in wf.up[at[u]]
              \/ phase[wf.home[b]] = "idle"
Newest == \A u \in Tasks : phase[u] \notin {"idle", "failed"} => NewestOf(u)

\* Of the tasks around a step, its own is the innermost.
LEMMA TasksAround ==
  ASSUME Loaded
  PROVE  \A s \in Steps(wf) : \A a \in wf.up[s] : wf.home[a] = a =>
           /\ wf.home[s] # None
           /\ a = wf.home[s] \/ a \in wf.up[wf.parent[wf.home[s]]]
<1> DEFINE T == {s \in Nat : s \in Steps(wf) => \A a \in wf.up[s] : wf.home[a] = a =>
                   wf.home[s] # None /\ (a = wf.home[s] \/ a \in wf.up[wf.parent[wf.home[s]]])}
<1>0. wf.size \in Nat /\ \A x \in Steps(wf) : x \in Nat
  BY DEF Loaded, WorkflowTyped, Steps
<1>1. ASSUME NEW s \in Nat, \A m \in Nat : m < s => m \in T PROVE s \in T
  <2> SUFFICES ASSUME s \in Steps(wf), NEW a \in wf.up[s], wf.home[a] = a
               PROVE  wf.home[s] # None /\ (a = wf.home[s] \/ a \in wf.up[wf.parent[wf.home[s]]])
    OBVIOUS
  <2> DEFINE p == wf.parent[s]
  <2>1. s # None /\ s \in wf.up[s]
    BY Owners DEF Loaded, WorkflowTree
  <2>2. CASE a = s
    BY <2>1, <2>2
  <2>3. CASE a # s
    <3>1. p # None
      BY <2>3 DEF Loaded, WorkflowTree
    <3>2. p \in Steps(wf) /\ p < s /\ a \in wf.up[p]
      BY <2>3, <3>1 DEF Loaded, WorkflowTree, WorkflowTyped, DocumentOrder
    <3>3. CASE wf.kind[p] = "parallel"
      <4>1. wf.home[s] = s
        BY <3>1, <3>2, <3>3 DEF Loaded, WorkflowTree
      <4> QED BY <2>1, <3>2, <4>1
    <3>4. CASE wf.kind[p] # "parallel"
      <4>1. wf.home[s] = wf.home[p]
        BY <3>1, <3>4 DEF Loaded, WorkflowTree
      <4> QED BY <1>0, <1>1, <3>2, <4>1
    <3> QED BY <3>3, <3>4
  <2> QED BY <2>2, <2>3
<1>2. Nat \subseteq T
  <2> HIDE DEF T
  <2> QED BY <1>1, StrongInduction
<1> QED BY <1>0, <1>2

\* A task around a step is around every step of the same task, the parallel
\* child itself included.
LEMMA SameTasks ==
  ASSUME Loaded, NEW s \in Steps(wf), NEW d \in Tasks \ {Root}, d \in wf.up[s]
  PROVE  /\ wf.home[s] \in Tasks \ {Root} /\ d \in wf.up[wf.home[s]]
         /\ \A r \in Steps(wf) : wf.home[r] = wf.home[s] => d \in wf.up[r]
         /\ d # wf.home[s] => d \in wf.up[wf.parent[wf.home[s]]]
<1> DEFINE t == wf.home[s]
<1>1. wf.home[d] = d /\ d \in Steps(wf)
  BY Owners DEF Tasks
<1>2. t # None /\ (d = t \/ d \in wf.up[wf.parent[t]])
  BY <1>1, TasksAround
<1>3. t \in Tasks \ {Root} /\ t \in Steps(wf) /\ wf.parent[t] # None
  BY <1>2, Homes, Owners DEF Root
<1>4. d \in wf.up[t]
  BY <1>2, <1>3 DEF Loaded, WorkflowTree
<1>5. ASSUME NEW r \in Steps(wf), wf.home[r] = t PROVE d \in wf.up[r]
  <2>1. t \in wf.up[r]
    BY <1>3, <1>5, Homes
  <2> QED BY <1>4, <2>1 DEF Loaded, WorkflowTree
<1> QED BY <1>2, <1>3, <1>4, <1>5

\* A task around one that is under way is waiting for it.
LEMMA AroundJoins ==
  ASSUME IInv
  PROVE  \A c \in Tasks \ {Root} : \A t \in Tasks \ {c} :
           phase[c] # "idle" /\ (t = Root \/ t \in wf.up[c]) => phase[t] = "join"
<1> DEFINE T == {c \in Nat : c \in Tasks \ {Root} /\ phase[c] # "idle" =>
                   \A t \in Tasks \ {c} : t = Root \/ t \in wf.up[c] => phase[t] = "join"}
<1>0. Loaded
  BY DEF IInv
<1>1. \A x \in Steps(wf) : x \in Nat
  BY <1>0 DEF Loaded, WorkflowTyped, Steps
<1>2. \A c \in Tasks \ {Root} : c \in Steps(wf) /\ c \in Nat
  BY <1>0, <1>1, Owners
<1>3. ASSUME NEW c \in Nat, \A m \in Nat : m < c => m \in T PROVE c \in T
  <2> SUFFICES ASSUME c \in Tasks \ {Root}, phase[c] # "idle", NEW t \in Tasks \ {c},
                      t = Root \/ t \in wf.up[c]
               PROVE  phase[t] = "join"
    OBVIOUS
  <2> DEFINE p == wf.parent[c]
             o == Owner(c)
  <2>1. phase[o] = "join" /\ o \in Tasks /\ o = wf.home[p] /\ p \in Steps(wf)
    BY <1>0, Owners DEF IInv, NoOrphan
  <2>2. SUFFICES ASSUME o # t PROVE phase[t] = "join"
    BY <2>1
  <2>3. p # None /\ p < c /\ wf.up[c] = {c} \cup wf.up[p]
    BY <1>0, <1>2, <2>1, Owners DEF Loaded, WorkflowTree, DocumentOrder
  <2>4. t # Root => t \in wf.up[p]
    BY <2>3
  <2>5. o # Root /\ (t # Root => t \in wf.up[o])
    <3>1. CASE t = Root
      BY <2>2, <3>1
    <3>2. CASE t # Root
      BY <1>0, <2>1, <2>4, <3>2, SameTasks
    <3> QED BY <3>1, <3>2
  <2>6. o < c /\ o \in Nat
    <3>1. o \in wf.up[p]
      BY <1>0, <2>1, <2>5, Homes
    <3>2. o <= p /\ p \in Nat /\ o \in Nat
      BY <1>0, <1>1, <1>2, <2>1, <2>5, <3>1, UpBelow
    <3> QED BY <2>3, <3>2
  <2>7. o \in T
    BY <1>3, <2>6
  <2> QED BY <2>1, <2>2, <2>5, <2>7
<1>4. Nat \subseteq T
  <2> HIDE DEF T
  <2> QED BY <1>3, StrongInduction
<1> QED BY <1>2, <1>4

\* What is nested in a step that has not begun has not begun either.
LEMMA NotBegun ==
  ASSUME Loaded, NEW n \in [Steps(wf) -> Nat], Counted(n), NEW c \in Steps(wf), n[c] = 0
  PROVE  \A b \in Steps(wf) : c \in wf.up[b] => n[b] = 0
<1> DEFINE T == {b \in Nat : b \in Steps(wf) /\ c \in wf.up[b] => n[b] = 0}
<1>0. wf.size \in Nat /\ \A x \in Steps(wf) : x \in Nat
  BY DEF Loaded, WorkflowTyped, Steps
<1>1. \A x \in Steps(wf) :
        /\ wf.next[x] # None => n[wf.next[x]] <= n[x]
        /\ wf.kind[x] # "loop" => \A d \in Children(wf, x) : n[d] <= n[x]
        /\ wf.kind[x] = "loop" => n[wf.then[x]] <= n[x] * wf.max[x]
  BY DEF Counted, AtMost, With
<1>2. ASSUME NEW b \in Nat, \A m \in Nat : m < b => m \in T PROVE b \in T
  <2> SUFFICES ASSUME b \in Steps(wf), c \in wf.up[b], b # c PROVE n[b] = 0
    OBVIOUS
  <2>1. b # wf.then[None]
    BY ClearOfFirst
  <2>2. ASSUME NEW r \in Steps(wf), wf.next[r] = b, r < b PROVE n[b] = 0
    <3>1. wf.next[r] # None
      BY <2>2, Owners
    <3>2. c \in wf.up[r]
      BY <2>2, <3>1, LoopsAround
    <3>3. n[r] = 0
      BY <1>0, <1>2, <2>2, <3>2
    <3> QED BY <1>1, <2>2, <3>1, <3>3
  <2>3. ASSUME NEW p \in Steps(wf), b \in Children(wf, p), p < b PROVE n[b] = 0
    <3>1. c \in wf.up[p]
      BY <2>3, LoopsAround
    <3>2. n[p] = 0
      BY <1>0, <1>2, <2>3, <3>1
    <3>3. CASE wf.kind[p] # "loop"
      BY <1>1, <2>3, <3>2, <3>3
    <3>4. CASE wf.kind[p] = "loop"
      <4>1. b = wf.then[p]
        BY <2>3, <3>4 DEF Children, Loaded, WorkflowTree
      <4>2. n[b] <= n[p] * wf.max[p] /\ wf.max[p] \in Nat
        BY <1>1, <3>4, <4>1, Mentioned
      <4> QED BY <3>2, <4>2
    <3> QED BY <3>3, <3>4
  <2> QED BY <2>1, <2>2, <2>3, Placed
<1>3. Nat \subseteq T
  <2> HIDE DEF T
  <2> QED BY <1>2, StrongInduction
<1> QED BY <1>0, <1>3

\* Outside loops a parallel step is reached once: nothing under it has run.
LEMMA ForksOnce ==
  ASSUME IInv, CountInv, ~ ForkInLoop, NEW t \in Tasks,
         phase[t] = "enter", wf.kind[at[t]] = "parallel",
         NEW c \in wf.kids[at[t]], NEW b \in Steps(wf), IsLeaf(wf, b), c \in wf.up[b]
  PROVE  calls[b] = 0
<1> DEFINE s == at[t]
<1>1. s \in Steps(wf) /\ Loaded /\ wf.home[s] = t
  BY DEF IInv, Carried, ControlOK, Running
<1>2. PICK n \in [Steps(wf) -> Nat] : Counted(n)
  BY DEF CountInv
<1>3. Pos(s) = "enter"
  BY <1>1 DEF Pos, Position, Running, Loaded, WorkflowTree
<1>4. Around(wf, s) = {}
  BY <1>1 DEF Around, Loops, ForkInLoop
<1>5. n[s] <= 1
  BY <1>1, <1>2, <1>4, BegunAtMost, ProductEmpty
<1>6. c \in Children(wf, s) /\ c \in Steps(wf)
  BY <1>1, Mentioned
<1>7. n[c] < n[s]
  <2>1. AtMost(wf, s, "enter", With(n))
    BY <1>1, <1>2, <1>3 DEF Counted
  <2> QED BY <1>1, <1>6, <2>1 DEF AtMost, With
<1>8. n[c] = 0
  BY <1>1, <1>5, <1>6, <1>7
<1>9. n[b] = 0
  BY <1>1, <1>2, <1>6, <1>8, NotBegun
<1>10. calls[b] <= AttemptsOf(wf, b) * n[b] /\ AttemptsOf(wf, b) \in Nat /\ calls[b] \in Nat
  BY <1>1, <1>2, Mentioned, Typed DEF Counted, AtMost, With
<1> QED BY <1>9, <1>10

\* The step a value comes from.
LEMMA ValueOf ==
  ASSUME IInv, NEW u \in Tasks, NEW x \in DOMAIN ctx[u]
  PROVE  LET b == ctx[u][x].by
         IN  b \in Steps(wf) /\ wf.home[b] \in Tasks /\ (wf.home[b] # Root => wf.home[b] \in wf.up[b])
<1>1. ctx[u][x] \in Value
  BY Typed DEF IsContext
<1>2. ctx[u][x].by \in Steps(wf)
  BY <1>1 DEF Value
<1> QED BY <1>2, Homes DEF IInv

\* A task moves, fails or returns, and records nothing.
LEMMA QuietFresh ==
  ASSUME IInv, Newest, wf' = wf, ctx' = ctx, calls' = calls,
         NEW t \in Tasks, phase[t] \in Running, NEW s, NEW ph, Goto(t, s, ph),
         \/ ph = "failed"
         \/ /\ s \in Steps(wf) /\ wf.home[s] = t /\ phase[t] # "call"
            /\ ph \in Running \ {"call"} \/ (ph = "ok" /\ (t # Root => s = t))
  PROVE  Newest'
<1>1. /\ \A u \in Tasks \ {t} : phase'[u] = phase[u] /\ at'[u] = at[u]
      /\ phase'[t] = ph /\ at'[t] = s /\ Tasks' = Tasks
  BY DEF Goto, IInv, TypeOK, Tasks
<1>2. phase[t] # "idle" /\ phase[t] # "failed" /\ at[t] \in Steps(wf) /\ wf.home[at[t]] = t /\ Loaded
  BY DEF IInv, Carried, ControlOK, Running
<1>3. ph # "idle" /\ ph # "start"
  BY DEF Running
<1>4. ASSUME NEW u \in Tasks, phase'[u] \notin {"idle", "failed"} PROVE NewestOf(u)'
  <2>1. phase[u] \notin {"idle", "failed"}
    BY <1>1, <1>2, <1>4
  <2>2. NewestOf(u)
    BY <2>1 DEF Newest
  <2>3. phase'[u] = "start" => DOMAIN ctx'[u] = {}
    BY <1>1, <1>3, <2>2 DEF NewestOf
  <2>4. u # Root /\ phase'[u] = "ok" => at'[u] = u
    BY <1>1, <1>4, <2>2 DEF NewestOf, Running
  <2>6. phase'[u] = "call" => calls'[at'[u]] # 0
    BY <1>1, <1>4, <2>2 DEF NewestOf, Running
  <2>5. ASSUME NEW x \in DOMAIN ctx[u]
        PROVE  LET b == ctx[u][x].by
               IN  /\ wf.out[b] = x /\ IsLeaf(wf, b) /\ calls[b] # 0
                   /\ ctx[u][x].run = calls[b] \/ (phase'[u] = "call" /\ at'[u] = b)
                   /\ \/ wf.home[b] = Root \/ wf.home[b] \in wf.up[at'[u]]
                      \/ phase'[wf.home[b]] = "idle"
    <3> DEFINE b == ctx[u][x].by
               d == wf.home[b]
    <3>1. b \in Steps(wf) /\ d \in Tasks
      BY ValueOf
    <3>2. /\ wf.out[b] = x /\ IsLeaf(wf, b) /\ calls[b] # 0
          /\ ctx[u][x].run = calls[b] \/ (phase[u] = "call" /\ at[u] = b)
          /\ d = Root \/ d \in wf.up[at[u]] \/ phase[d] = "idle"
      BY <2>2 DEF NewestOf
    <3>3. ctx[u][x].run = calls[b] \/ (phase'[u] = "call" /\ at'[u] = b)
      BY <1>1, <1>4, <3>2
    <3>4. d = Root \/ d \in wf.up[at'[u]] \/ phase'[d] = "idle"
      <4>1. CASE u # t
        BY <1>1, <1>2, <3>1, <3>2, <4>1
      <4>2. CASE u = t /\ d # Root /\ d \in wf.up[at[t]]
        <5>1. s \in Steps(wf) /\ wf.home[s] = t
          BY <1>1, <1>4, <4>2
        <5>2. d \in wf.up[s]
          BY <1>2, <3>1, <4>2, <5>1, SameTasks
        <5> QED BY <1>1, <4>2, <5>2
      <4>3. CASE u = t /\ phase[d] = "idle"
        BY <1>1, <1>2, <3>1, <4>3
      <4> QED BY <3>2, <4>1, <4>2, <4>3
    <3> QED BY <3>2, <3>3, <3>4
  <2> QED BY <2>3, <2>4, <2>5, <2>6 DEF NewestOf
<1> QED BY <1>1, <1>4 DEF Newest

\* A call of step b starts or is repeated: every task that holds an earlier
\* value of b is the one that makes the call.
LEMMA CallFresh ==
  ASSUME IInv, Newest, wf' = wf, ctx' = ctx, NEW t \in Tasks, phase[t] \in {"enter", "call"},
         Goto(t, at[t], "call"), calls' = [calls EXCEPT ![at[t]] = calls[at[t]] + 1]
  PROVE  Newest'
<1> DEFINE s == at[t]
<1>1. /\ \A u \in Tasks \ {t} : phase'[u] = phase[u] /\ at'[u] = at[u]
      /\ phase'[t] = "call" /\ at'[t] = s /\ Tasks' = Tasks
  BY DEF Goto, IInv, TypeOK, Tasks
<1>2. phase[t] # "idle" /\ phase[t] # "failed" /\ at[t] \in Steps(wf) /\ wf.home[s] = t /\ Loaded
      /\ phase[t] # "join"
  BY DEF IInv, Carried, ControlOK, Running
<1>3. /\ calls'[s] = calls[s] + 1
      /\ \A b \in Steps(wf) \ {s} : calls'[b] = calls[b]
      /\ \A b \in Steps(wf) : calls[b] \in Nat
  BY <1>2, Typed
<1>4. calls'[s] # 0
  <2>0. s \in Steps(wf)
    BY <1>2
  <2>1. calls[s] \in Nat
    BY <2>0, Typed
  <2>2. \A i \in Nat : i + 1 # 0
    OBVIOUS
  <2> HIDE DEF s
  <2> QED BY <1>3, <2>1, <2>2
<1>5. ASSUME NEW u \in Tasks \ {t}, phase[u] \notin {"idle", "failed"}, NEW x \in DOMAIN ctx[u],
             ctx[u][x].by = s
      PROVE  FALSE
  <2>1. NewestOf(u)
    BY <1>5 DEF Newest
  <2>2. t = Root \/ t \in wf.up[at[u]]
    BY <1>2, <1>5, <2>1 DEF NewestOf
  <2>3. phase[u] # "start"
    BY <1>5, <2>1 DEF NewestOf
  <2>4. CASE u = Root
    <3>1. t # Root
      BY <2>4
    <3>2. phase[Root] # "ok"
      <4>1. phase[Root] = "ok" => phase[t] = "idle"
        BY <3>1, AllIdle
      <4> QED BY <1>2, <4>1
    <3>3. phase[Root] \in Running
      BY <1>5, <2>3, <2>4, <3>2, Owners DEF IInv, TypeOK, Ended
    <3>4. at[Root] \in Steps(wf) /\ wf.home[at[Root]] = Root
      BY <2>4, <3>3 DEF IInv, Carried, ControlOK
    <3> QED BY <1>2, <2>2, <2>4, <3>1, <3>4, SameTasks
  <2>5. CASE u # Root
    <3>1. at[u] \in Steps(wf) /\ wf.home[at[u]] = u
      <4>1. CASE phase[u] = "ok"
        <5>1. at[u] = u
          BY <2>1, <2>5, <4>1 DEF NewestOf
        <5>2. u \in Steps(wf) /\ wf.home[u] = u
          BY <1>2, <2>5, Owners DEF Tasks
        <5> QED BY <5>1, <5>2
      <4>2. CASE phase[u] # "ok"
        <5>1. phase[u] \in Running
          BY <1>5, <2>3, <4>2 DEF IInv, TypeOK, Ended
        <5> QED BY <5>1 DEF IInv, Carried, ControlOK
      <4> QED BY <4>1, <4>2
    <3>2. t = Root \/ t \in wf.up[u]
      <4>1. CASE t # Root
        <5>1. t \in wf.up[at[u]]
          BY <2>2, <4>1
        <5> QED BY <1>2, <3>1, <4>1, <5>1, SameTasks
      <4> QED BY <4>1
    <3>3. phase[t] = "join"
      BY <1>5, <2>5, <3>2, AroundJoins
    <3> QED BY <1>2, <3>3
  <2> QED BY <2>4, <2>5
<1>6. ASSUME NEW u \in Tasks, phase'[u] \notin {"idle", "failed"} PROVE NewestOf(u)'
  <2>1. phase[u] \notin {"idle", "failed"}
    BY <1>1, <1>2, <1>6
  <2>2. NewestOf(u)
    BY <2>1 DEF Newest
  <2>3. phase'[u] = "start" => DOMAIN ctx'[u] = {}
    BY <1>1, <2>2 DEF NewestOf
  <2>4. u # Root /\ phase'[u] = "ok" => at'[u] = u
    BY <1>1, <1>6, <2>2 DEF NewestOf
  <2>6. phase'[u] = "call" => calls'[at'[u]] # 0
    <3>1. CASE at'[u] = s
      BY <1>4, <3>1
    <3>2. CASE at'[u] # s /\ phase'[u] = "call"
      <4>1. u # t /\ at[u] \in Steps(wf) /\ at'[u] = at[u] /\ phase[u] = "call"
        BY <1>1, <3>2 DEF IInv, Carried, ControlOK, Running
      <4> QED BY <1>3, <2>2, <3>2, <4>1 DEF NewestOf
    <3> QED BY <3>1, <3>2
  <2>5. ASSUME NEW x \in DOMAIN ctx[u]
        PROVE  LET b == ctx[u][x].by
               IN  /\ wf.out[b] = x /\ IsLeaf(wf, b) /\ calls'[b] # 0
                   /\ ctx[u][x].run = calls'[b] \/ (phase'[u] = "call" /\ at'[u] = b)
                   /\ \/ wf.home[b] = Root \/ wf.home[b] \in wf.up[at'[u]]
                      \/ phase'[wf.home[b]] = "idle"
    <3> DEFINE b == ctx[u][x].by
               d == wf.home[b]
    <3>1. b \in Steps(wf) /\ d \in Tasks
      BY ValueOf
    <3>2. /\ wf.out[b] = x /\ IsLeaf(wf, b) /\ calls[b] # 0
          /\ ctx[u][x].run = calls[b] \/ (phase[u] = "call" /\ at[u] = b)
          /\ d = Root \/ d \in wf.up[at[u]] \/ phase[d] = "idle"
      BY <2>2 DEF NewestOf
    <3>3. calls'[b] # 0
      <4>1. CASE b = s
        BY <1>4, <4>1
      <4>2. CASE b # s
        <5> HIDE DEF b
        <5> QED BY <1>3, <3>1, <3>2, <4>2
      <4> QED BY <4>1, <4>2
    <3>4. ctx[u][x].run = calls'[b] \/ (phase'[u] = "call" /\ at'[u] = b)
      <4>1. CASE b = s
        BY <1>1, <1>5, <2>1, <4>1
      <4>2. CASE b # s
        BY <1>1, <1>3, <3>1, <3>2, <4>2
      <4> QED BY <4>1, <4>2
    <3>5. d = Root \/ d \in wf.up[at'[u]] \/ phase'[d] = "idle"
      BY <1>1, <1>2, <3>1, <3>2
    <3> QED BY <3>2, <3>3, <3>4, <3>5
  <2> QED BY <2>3, <2>4, <2>5, <2>6 DEF NewestOf
<1> QED BY <1>1, <1>6 DEF Newest

\* The outcome of a call is recorded: the newest value of its step.
LEMMA RecordFresh ==
  ASSUME IInv, Newest, NEW t \in Tasks, phase[t] = "call",
         ctx' = [ctx EXCEPT ![t] = Recorded(ctx[t], at[t], calls[at[t]])],
         Become(t, "leave"), UNCHANGED <<wf, calls>>
  PROVE  Newest'
<1> DEFINE s == at[t]
           c == Recorded(ctx[t], s, calls[s])
<1>1. /\ \A u \in Tasks \ {t} : phase'[u] = phase[u] /\ ctx'[u] = ctx[u]
      /\ phase'[t] = "leave" /\ ctx'[t] = c /\ at' = at /\ Tasks' = Tasks
  BY DEF Become, IInv, TypeOK, Tasks
<1>2. s \in Steps(wf) /\ wf.home[s] = t /\ Loaded /\ IsLeaf(wf, s) /\ (t # Root => t \in wf.up[s])
  BY DEF IInv, Carried, ControlOK, Running
<1>3. NewestOf(t)
  BY DEF Newest
<1>4. /\ DOMAIN c = DOMAIN ctx[t] \cup {wf.out[s]}
      /\ \A x \in DOMAIN c :
           \/ x = wf.out[s] /\ c[x] = [by |-> s, run |-> calls[s]]
           \/ x # wf.out[s] /\ x \in DOMAIN ctx[t] /\ c[x] = ctx[t][x]
  BY DEF Recorded, Put
<1>5. calls[s] # 0
  BY <1>3 DEF NewestOf
<1> HIDE DEF c
<1>6. ASSUME NEW u \in Tasks \ {t}, phase'[u] \notin {"idle", "failed"} PROVE NewestOf(u)'
  <2>1. NewestOf(u)
    BY <1>1, <1>6 DEF Newest
  <2>2. \A x \in DOMAIN ctx[u] : phase'[wf.home[ctx[u][x].by]] = "idle"
                              \/ phase[wf.home[ctx[u][x].by]] # "idle"
    BY <1>1, ValueOf
  <2> QED BY <1>1, <2>1, <2>2 DEF NewestOf
<1>7. NewestOf(t)'
  <2> SUFFICES ASSUME NEW x \in DOMAIN c
               PROVE  LET b == c[x].by
                      IN  /\ wf.out[b] = x /\ IsLeaf(wf, b) /\ calls[b] # 0 /\ c[x].run = calls[b]
                          /\ \/ wf.home[b] = Root \/ wf.home[b] \in wf.up[s]
                             \/ phase'[wf.home[b]] = "idle"
    BY <1>1, SMTT(30), ZenonT(30) DEF NewestOf
  <2>1. CASE x = wf.out[s] /\ c[x] = [by |-> s, run |-> calls[s]]
    BY <1>2, <1>5, <2>1
  <2>2. CASE x # wf.out[s] /\ x \in DOMAIN ctx[t] /\ c[x] = ctx[t][x]
    <3> DEFINE b == ctx[t][x].by
               d == wf.home[b]
    <3>1. b \in Steps(wf) /\ d \in Tasks
      BY <2>2, ValueOf
    <3>2. /\ wf.out[b] = x /\ IsLeaf(wf, b) /\ calls[b] # 0
          /\ ctx[t][x].run = calls[b] \/ at[t] = b
          /\ d = Root \/ d \in wf.up[s] \/ phase[d] = "idle"
      BY <1>3, <2>2 DEF NewestOf
    <3>3. b # s
      BY <2>2, <3>2
    <3>4. phase[d] = "idle" => phase'[d] = "idle"
      BY <1>1, <3>1
    <3> QED BY <2>2, <3>2, <3>3, <3>4
  <2> QED BY <1>4, <2>1, <2>2
<1> QED BY <1>1, <1>6, <1>7 DEF Newest

\* A fork copies the context: what the children see is as new, and nothing
\* nested in them has been called before.
LEMMA ForkFresh ==
  ASSUME IInv, CountInv, ~ ForkInLoop, Newest, NEW t \in Tasks, Fork(t)
  PROVE  Newest'
<1> DEFINE s == at[t]
           kids == wf.kids[s]
<1>1. phase[t] = "enter" /\ wf.kind[s] = "parallel" /\ UNCHANGED <<wf, calls>>
  BY DEF Fork
<1>2. s \in Steps(wf) /\ wf.home[s] = t /\ Loaded
  BY <1>1 DEF IInv, Carried, ControlOK, Running
<1>3. /\ \A u \in Tasks : at'[u] = IF u \in kids THEN u ELSE at[u]
      /\ \A u \in Tasks : ctx'[u] = IF u \in kids THEN ctx[t] ELSE ctx[u]
      /\ \A u \in Tasks : phase'[u] = IF u \in kids THEN "enter"
                                      ELSE IF u = t THEN "join" ELSE phase[u]
      /\ Tasks' = Tasks
  BY <1>1 DEF Fork, Tasks
<1>4. \A c \in kids : c \in Tasks \ {Root} /\ c \in Steps(wf) /\ wf.up[c] = {c} \cup wf.up[s]
  BY <1>2, KidsOf
<1>5. ASSUME NEW u \in Tasks, NEW x \in DOMAIN ctx[u], NewestOf(u)
      PROVE  wf.home[ctx[u][x].by] \notin kids
  <2> DEFINE b == ctx[u][x].by
  <2>1. b \in Steps(wf) /\ (wf.home[b] # Root => wf.home[b] \in wf.up[b])
    BY ValueOf
  <2>2. IsLeaf(wf, b) /\ calls[b] # 0
    BY <1>5 DEF NewestOf
  <2>3. wf.home[b] \in kids => calls[b] = 0
    BY <1>1, <1>4, <2>1, <2>2, ForksOnce
  <2> QED BY <2>2, <2>3
<1>6. NewestOf(t)
  BY <1>1 DEF Newest
<1>7. ASSUME NEW u \in Tasks \ kids, phase'[u] \notin {"idle", "failed"} PROVE NewestOf(u)'
  <2>1. NewestOf(u)
    BY <1>1, <1>3, <1>7 DEF Newest
  <2>2. ASSUME NEW x \in DOMAIN ctx[u]
        PROVE  phase[wf.home[ctx[u][x].by]] = "idle" => phase'[wf.home[ctx[u][x].by]] = "idle"
    BY <1>1, <1>3, <1>5, <2>1, ValueOf
  <2>3. phase'[u] \in {"start", "call", "ok"} => phase'[u] = phase[u]
    BY <1>3, <1>7
  <2>4. phase[u] = "call" => phase'[u] = "call"
    BY <1>1, <1>3, <1>7
  <2> QED BY <1>1, <1>3, <1>7, <2>1, <2>2, <2>3, <2>4 DEF NewestOf
<1>8. ASSUME NEW u \in kids PROVE NewestOf(u)'
  <2>1. ASSUME NEW x \in DOMAIN ctx[t]
        PROVE  LET b == ctx[t][x].by
               IN  /\ wf.out[b] = x /\ IsLeaf(wf, b) /\ calls[b] # 0 /\ ctx[t][x].run = calls[b]
                   /\ \/ wf.home[b] = Root \/ wf.home[b] \in wf.up[u]
                      \/ phase'[wf.home[b]] = "idle"
    <3> DEFINE b == ctx[t][x].by
               d == wf.home[b]
    <3>1. d \in Tasks /\ d \notin kids
      BY <1>5, <1>6, ValueOf
    <3>2. /\ wf.out[b] = x /\ IsLeaf(wf, b) /\ calls[b] # 0 /\ ctx[t][x].run = calls[b]
          /\ d = Root \/ d \in wf.up[s] \/ phase[d] = "idle"
      BY <1>1, <1>6 DEF NewestOf
    <3>3. phase[d] = "idle" => phase'[d] = "idle"
      BY <1>1, <1>3, <3>1
    <3>4. d \in wf.up[s] => d \in wf.up[u]
      BY <1>4
    <3> QED BY <3>2, <3>3, <3>4
  <2>2. at'[u] = u /\ phase'[u] = "enter" /\ ctx'[u] = ctx[t]
    BY <1>3, <1>4
  <2> QED BY <1>1, <2>1, <2>2 DEF NewestOf
<1> QED BY <1>3, <1>7, <1>8 DEF Newest

\* A join takes the children's values over as they are.
LEMMA JoinFresh ==
  ASSUME IInv, Newest, NEW t \in Tasks, Join(t)
  PROVE  Newest'
<1> DEFINE s == at[t]
           kids == wf.kids[s]
           failed == \E c \in kids : phase[c] = "failed"
           m == Merged(ctx[t], kids)
<1>1. phase[t] = "join" /\ UNCHANGED <<wf, at, calls>> /\ \A c \in kids : phase[c] \in Ended
  BY DEF Join, AllReturned
<1>2. s \in Steps(wf) /\ wf.home[s] = t /\ Loaded
  BY <1>1 DEF IInv, Carried, ControlOK, Running
<1>3. /\ \A u \in Tasks \ {t} : phase'[u] = IF u \in kids THEN "idle" ELSE phase[u]
      /\ \A u \in Tasks \ {t} : u \notin kids => ctx'[u] = ctx[u]
      /\ ~ failed => phase'[t] = "leave" /\ ctx'[t] = m
      /\ failed => phase'[t] = "failed"
      /\ t \notin kids /\ Tasks' = Tasks
  <2>1. t \notin kids
    BY <1>1 DEF Ended
  <2> QED BY <1>1, <2>1 DEF Join, Tasks
<1>4. \A c \in kids : /\ c \in Tasks \ {Root} /\ c \in Steps(wf) /\ wf.up[c] = {c} \cup wf.up[s]
                       /\ wf.home[c] = c
  BY <1>2, KidsOf
<1>5. NewestOf(t)
  BY <1>1 DEF Newest
<1>6. \A d \in Tasks : phase[d] = "idle" => phase'[d] = "idle"
  BY <1>1, <1>3
<1>7. ASSUME NEW u \in Tasks \ {t}, phase'[u] \notin {"idle", "failed"} PROVE NewestOf(u)'
  <2>1. u \notin kids /\ phase'[u] = phase[u] /\ ctx'[u] = ctx[u] /\ at'[u] = at[u]
    BY <1>1, <1>3, <1>7
  <2>2. NewestOf(u)
    BY <1>7, <2>1 DEF Newest
  <2>3. \A x \in DOMAIN ctx[u] : wf.home[ctx[u][x].by] \in Tasks
    BY ValueOf
  <2> QED BY <1>1, <1>6, <2>1, <2>2, <2>3 DEF NewestOf
<1>8. ASSUME ~ failed PROVE NewestOf(t)'
  <2>1. /\ DOMAIN ctx[t] \subseteq DOMAIN m
        /\ \A x \in DOMAIN ctx[t] : m[x] = ctx[t][x]
        /\ \A x \in DOMAIN m \ DOMAIN ctx[t] : \E c \in kids : x \in DOMAIN ctx[c] /\ m[x] = ctx[c][x]
    <3>1. kids \subseteq Tasks \ {Root} /\ IsContext(ctx[t]) /\ \A c \in kids : IsContext(ctx[c])
      BY <1>4, Typed
    <3> HIDE DEF kids
    <3> QED BY <1>2, <3>1, MergedOutputs
  <2> HIDE DEF m
  <2>2. ASSUME NEW x \in DOMAIN m
        PROVE  LET b == m[x].by
               IN  /\ wf.out[b] = x /\ IsLeaf(wf, b) /\ calls[b] # 0 /\ m[x].run = calls[b]
                   /\ \/ wf.home[b] = Root \/ wf.home[b] \in wf.up[s]
                      \/ phase'[wf.home[b]] = "idle"
    <3>1. CASE x \in DOMAIN ctx[t]
      <4>1. wf.home[ctx[t][x].by] \in Tasks
        BY <3>1, ValueOf
      <4> QED BY <1>1, <1>5, <1>6, <2>1, <3>1, <4>1 DEF NewestOf
    <3>2. ASSUME NEW c \in kids, x \in DOMAIN ctx[c], m[x] = ctx[c][x]
          PROVE  LET b == m[x].by
                 IN  /\ wf.out[b] = x /\ IsLeaf(wf, b) /\ calls[b] # 0 /\ m[x].run = calls[b]
                     /\ \/ wf.home[b] = Root \/ wf.home[b] \in wf.up[s]
                        \/ phase'[wf.home[b]] = "idle"
      <4> DEFINE b == ctx[c][x].by
                 d == wf.home[b]
      <4>1. phase[c] = "ok" /\ c \in Tasks /\ c # Root
        BY <1>1, <1>4, <1>8 DEF Ended
      <4>2. NewestOf(c) /\ at[c] = c /\ d \in Tasks
        <5>1. NewestOf(c)
          BY <4>1 DEF Newest
        <5> QED BY <3>2, <4>1, <5>1, ValueOf DEF NewestOf
      <4>3. /\ wf.out[b] = x /\ IsLeaf(wf, b) /\ calls[b] # 0 /\ ctx[c][x].run = calls[b]
            /\ d = Root \/ d \in wf.up[c] \/ phase[d] = "idle"
        BY <3>2, <4>1, <4>2 DEF NewestOf
      <4>4. d \in wf.up[c] => d \in wf.up[s] \/ phase'[d] = "idle"
        BY <1>3, <1>4
      <4> QED BY <1>6, <3>2, <4>2, <4>3, <4>4
    <3> QED BY <2>1, <3>1, <3>2
  <2>3. phase'[t] = "leave" /\ ctx'[t] = m /\ at'[t] = s
    BY <1>1, <1>3, <1>8
  <2> QED BY <1>1, <2>2, <2>3 DEF NewestOf
<1>9. ASSUME NEW u \in Tasks, phase'[u] \notin {"idle", "failed"} PROVE NewestOf(u)'
  BY <1>3, <1>7, <1>8, <1>9
<1> QED BY <1>3, <1>9 DEF Newest

\* Once the inputs are resolved no context holds a value.
LEMMA ResolveInputsFresh ==
  ASSUME IInv, Newest, ResolveInputs
  PROVE  Newest'
<1>1. phase[Root] = "start" /\ UNCHANGED <<wf, ctx, calls>> /\ Loaded /\ Root \in Tasks
  BY Owners DEF ResolveInputs, IInv
<1>2. DOMAIN ctx[Root] = {}
  BY <1>1 DEF Newest, NewestOf
<1>3. /\ \A u \in Tasks \ {Root} : phase'[u] = phase[u] /\ at'[u] = at[u]
      /\ phase'[Root] \in {"enter", "failed"} /\ Tasks' = Tasks
  <2>1. phase \in [Tasks -> Running \cup Ended \cup {"start", "idle"}]
        /\ at \in [Tasks -> {None} \cup Steps(wf)]
    BY DEF IInv, TypeOK
  <2> QED BY <1>1, <2>1 DEF ResolveInputs, Goto, Become, Tasks
<1>4. ASSUME NEW u \in Tasks \ {Root}, phase'[u] \notin {"idle", "failed"} PROVE NewestOf(u)'
  <2>1. NewestOf(u)
    BY <1>3, <1>4 DEF Newest
  <2>2. \A x \in DOMAIN ctx[u] : wf.home[ctx[u][x].by] \in Tasks
    BY ValueOf
  <2>3. \A d \in Tasks : phase[d] = "idle" => phase'[d] = "idle"
    BY <1>1, <1>3
  <2> QED BY <1>1, <1>3, <2>1, <2>2, <2>3 DEF NewestOf
<1>5. NewestOf(Root)'
  BY <1>1, <1>2, <1>3 DEF NewestOf
<1> QED BY <1>3, <1>4, <1>5 DEF Newest

\* At the start no task has begun.
LEMMA FreshInit == IInv /\ Init => Newest
<1> SUFFICES ASSUME IInv, Init, NEW u \in Tasks, phase[u] \notin {"idle", "failed"}
             PROVE  NewestOf(u)
  BY DEF Newest
<1>1. phase[u] = IF u = Root THEN "start" ELSE "idle"
  BY DEF Init
<1>2. phase[u] = "start" /\ u = Root /\ ctx[u] = NoOutputs
  BY <1>1 DEF Init
<1>3. DOMAIN ctx[u] = {}
  BY <1>2 DEF NoOutputs
<1> QED BY <1>2, <1>3 DEF NewestOf

\* A step of a task other than its calls, its fork and its join.
LEMMA LocalFresh ==
  ASSUME IInv, IInv', Newest, NEW t \in Tasks,
         RenderFails(t) \/ TakeBranch(t) \/ EnterLoop(t) \/ CheckLoop(t) \/ Leave(t)
  PROVE  Newest'
<1> DEFINE s == at[t]
           p == wf.parent[s]
<1>1. phase[t] \in {"enter", "check", "leave"} /\ UNCHANGED <<wf, ctx, calls>>
  BY DEF RenderFails, TakeBranch, EnterLoop, CheckLoop, Leave
<1>2. s \in Steps(wf) /\ wf.home[s] = t /\ Loaded /\ phase[t] \in Running
  BY <1>1 DEF IInv, Carried, ControlOK, Running
<1>3. ASSUME NEW r, NEW ph, Goto(t, r, ph),
             \/ ph = "failed"
             \/ /\ r \in Steps(wf) /\ wf.home[r] = t
                /\ ph \in {"enter", "check", "leave"} \/ (ph = "ok" /\ (t # Root => r = t))
      PROVE  Newest'
  <2>1. phase[t] # "call"
    BY <1>1
  <2>2. {"enter", "check", "leave"} \subseteq Running \ {"call"}
    BY DEF Running
  <2> HIDE DEF s
  <2> QED BY <1>1, <1>2, <1>3, <2>1, <2>2, QuietFresh
<1>4. \A ph : Become(t, ph) => Goto(t, s, ph)
  BY Same DEF Goto, Become
<1>5. CASE Become(t, "failed")
  BY <1>3, <1>4, <1>5
<1>6. CASE Goto(t, s, "leave") \/ Goto(t, s, "check") \/ Become(t, "leave")
  BY <1>2, <1>3, <1>4, <1>6
<1>7. ASSUME wf.kind[s] \in {"branch", "loop"}, NEW h \in {wf.then[s], wf.else[s]} \ {None},
             Goto(t, h, "enter")
      PROVE  Newest'
  <2>1. h \in Steps(wf) /\ wf.home[h] = t
    BY <1>2, <1>7, HeadScope
  <2> QED BY <1>3, <1>7, <2>1
<1>8. CASE wf.next[s] # None /\ Goto(t, wf.next[s], "enter")
  <2>1. wf.next[s] \in Steps(wf) /\ wf.home[wf.next[s]] = t
    BY <1>2, <1>8, NextScope
  <2> QED BY <1>3, <1>8, <2>1
<1>9. ASSUME NEW ph \in {"leave", "check"}, wf.next[s] = None, p # None,
             wf.kind[p] \in {"branch", "loop"}, Goto(t, p, ph)
      PROVE  Newest'
  <2>1. p \in Steps(wf) /\ wf.home[p] = t
    BY <1>2, <1>9, ListEnd
  <2> QED BY <1>3, <1>9, <2>1
<1>10. CASE Become(t, "ok") /\ (p = None \/ wf.kind[p] = "parallel")
  <2>1. t # Root => s = t
    <3>1. CASE p = None
      BY <1>2, <3>1 DEF Loaded, WorkflowTree, Root
    <3>2. CASE p # None /\ wf.kind[p] = "parallel"
      <4>1. p \in Steps(wf) /\ s \in wf.kids[p]
        BY <1>2, <3>2 DEF Loaded, WorkflowTree, WorkflowTyped
      <4> QED BY <1>2, <4>1 DEF Loaded, WorkflowTree
    <3> QED BY <1>10, <3>1, <3>2
  <2>2. Goto(t, s, "ok")
    BY <1>4, <1>10
  <2> QED BY <1>2, <1>3, <2>1, <2>2
<1>11. CASE RenderFails(t)
  BY <1>5, <1>11 DEF RenderFails
<1>12. CASE TakeBranch(t)
  BY <1>5, <1>6, <1>7, <1>12 DEF TakeBranch, Descend
<1>13. CASE EnterLoop(t)
  BY <1>6, <1>7, <1>13 DEF EnterLoop, Descend
<1>14. CASE CheckLoop(t)
  <2>1. wf.kind[s] = "loop"
    BY <1>14 DEF CheckLoop, IInv, Carried, ControlOK, Running
  <2> QED BY <1>5, <1>6, <1>7, <1>14, <2>1 DEF CheckLoop, Descend
<1>15. CASE Leave(t)
  BY <1>8, <1>9, <1>10, <1>15 DEF Leave
<1> QED BY <1>11, <1>12, <1>13, <1>14, <1>15

\* Every step keeps the values a task holds the latest ones.
LEMMA FreshStep ==
  IInv /\ IInv' /\ CountInv /\ (ForkInLoop \/ Newest) /\ [Next]_vars => (ForkInLoop \/ Newest)'
<1> SUFFICES ASSUME IInv, IInv', CountInv, ForkInLoop \/ Newest, [Next]_vars
             PROVE  (ForkInLoop \/ Newest)'
  OBVIOUS
<1>1. wf' = wf
  BY DEF Next, Step, vars, ResolveInputs, RenderFails, StartCall, CallOk, CallError, TakeBranch,
         EnterLoop, CheckLoop, Fork, Join, Leave
<1>2. ForkInLoop' <=> ForkInLoop
  BY <1>1 DEF ForkInLoop
<1> SUFFICES ASSUME ~ ForkInLoop, Newest PROVE Newest'
  BY <1>2
<1>3. CASE ResolveInputs
  BY <1>3, ResolveInputsFresh
<1>4. ASSUME NEW t \in Tasks, Step(t) PROVE Newest'
  <2>1. CASE StartCall(t)
    <3>1. phase[t] = "enter" /\ Goto(t, at[t], "call") /\ ctx' = ctx
          /\ calls' = [calls EXCEPT ![at[t]] = calls[at[t]] + 1]
      BY <2>1, Same DEF StartCall, Goto, Become
    <3> QED BY <1>1, <3>1, CallFresh
  <2>2. CASE CallOk(t)
    <3>1. phase[t] = "call" /\ Become(t, "leave") /\ UNCHANGED <<wf, calls>>
          /\ ctx' = [ctx EXCEPT ![t] = Recorded(ctx[t], at[t], calls[at[t]])]
      BY <2>2 DEF CallOk
    <3> QED BY <3>1, RecordFresh
  <2>3. CASE CallError(t)
    <3>1. CASE /\ ctx' = [ctx EXCEPT ![t] = Recorded(ctx[t], at[t], calls[at[t]])]
               /\ Become(t, "leave") /\ UNCHANGED <<tries, calls>>
      <4>1. phase[t] = "call"
        BY <2>3 DEF CallError
      <4> QED BY <1>1, <3>1, <4>1, RecordFresh
    <3>2. CASE Become(t, "failed") /\ UNCHANGED <<ctx, tries, calls>>
      <4>1. phase[t] \in Running /\ Goto(t, at[t], "failed")
        BY <2>3, <3>2, Same DEF CallError, Goto, Become, Running
      <4> QED BY <1>1, <3>2, <4>1, QuietFresh
    <3>3. CASE /\ calls' = [calls EXCEPT ![at[t]] = calls[at[t]] + 1]
               /\ UNCHANGED <<at, phase, ctx>>
      <4>1. phase[t] = "call" /\ Goto(t, at[t], "call")
        BY <2>3, <3>3, Same DEF CallError, Goto
      <4> QED BY <1>1, <3>3, <4>1, CallFresh
    <3> QED BY <2>3, <3>1, <3>2, <3>3 DEF CallError
  <2>4. CASE Fork(t) \/ Join(t)
    BY <2>4, ForkFresh, JoinFresh
  <2> QED BY <1>4, <2>1, <2>2, <2>3, <2>4, LocalFresh DEF Step
<1>5. CASE UNCHANGED vars
  <2>1. phase' = phase /\ at' = at /\ ctx' = ctx /\ calls' = calls /\ Tasks' = Tasks
    BY <1>1, <1>5 DEF vars, Tasks
  <2>2. ASSUME NEW u \in Tasks PROVE NewestOf(u) => NewestOf(u)'
    BY <1>1, <2>1 DEF NewestOf
  <2> QED BY <2>1, <2>2 DEF Newest
<1> QED BY <1>3, <1>4, <1>5 DEF Next

\* Unless a parallel step is inside a loop, an exit condition and the end of
\* the workflow see the latest value of every step.
THEOREM LatestValuesSeen == Spec => []FreshOutsideLoopForks
<1>1. IInv /\ Init => ForkInLoop \/ Newest
  BY FreshInit
<1>2. IInv /\ IInv' /\ CountInv /\ (ForkInLoop \/ Newest) /\ [Next]_vars => (ForkInLoop \/ Newest)'
  BY FreshStep
<1>3. IInv /\ (ForkInLoop \/ Newest) => FreshOutsideLoopForks
  <2> SUFFICES ASSUME Newest, NEW t \in Tasks, phase[t] \in {"check", "ok"},
                      NEW x \in DOMAIN ctx[t]
               PROVE  ctx[t][x].run = calls[ctx[t][x].by]
    BY DEF FreshOutsideLoopForks, ContextFresh
  <2>1. NewestOf(t)
    BY DEF Newest
  <2> QED BY <2>1 DEF NewestOf
<1>4. Init => IInv
  BY InitHolds
<1> QED BY <1>1, <1>2, <1>3, <1>4, Invariance, Counting, PTL DEF Spec
=============================================================================
