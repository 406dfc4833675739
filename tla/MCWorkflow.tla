------------------------------- MODULE MCWorkflow -------------------------------
(***************************************************************************)
(* Families of small workflows for TLC.  A workflow is written as a term,  *)
(* a list of nested step records, and Flatten numbers its steps and        *)
(* computes what WorkflowValidate keeps in the record, the scopes          *)
(* `avail`, `here` and `def` included.                                     *)
(***************************************************************************)
EXTENDS WorkflowEngine, SequencesExt

\* size and defs of a term are kept in it, so that they are computed once.
Sizes(list) ==
  LET sum[i \in 0..Len(list)] == IF i = 0 THEN 0 ELSE sum[i - 1] + list[i].size
  IN  sum[Len(list)]
Defs(list) == UNION {list[i].defs : i \in DOMAIN list}
Term(k, out, refs, a, b, exit, max, err) ==
  [k |-> k, out |-> out, refs |-> refs, a |-> a, b |-> b,
   exit |-> exit, max |-> max, err |-> err,
   size |-> 1 + Sizes(a) + Sizes(b),
   defs |-> CASE k = "branch" -> BranchDefines(Defs(a), Defs(b))
              [] k \in {"parallel", "loop"} -> Defs(a)
              [] OTHER -> {out}]
Prompt(out, refs)        == Term("prompt", out, refs, <<>>, <<>>, FALSE, 1, "fail")
Tool(out, refs, err, n)  == Term("tool", out, refs, <<>>, <<>>, FALSE, n, err)
Branch(refs, a, b)       == Term("branch", "x", refs, a, b, FALSE, 1, "fail")
Par(kids)                == Term("parallel", "x", {}, kids, <<>>, FALSE, 1, "fail")
\* Without an exit condition a loop mentions no variables.
Loop(n, exit, refs, a)   ==
  Term("loop", "x", IF exit THEN refs ELSE {}, a, <<>>, exit, n, "fail")

\* Last step of a list whose first step is number first.
EndOf(list, first) ==
  IF list = <<>> THEN None ELSE first + Sizes(SubSeq(list, 1, Len(list) - 1))

\* The rows, in step order, of a list in scope sc: number of its first step,
\* enclosing step and future, available names; `par` for the children of a
\* parallel step, which are lists of one step each.  Sub makes the rows of the
\* nested lists: the depth is unrolled, since TLC caches no constant that
\* depends on a RECURSIVE operator.
RowsWith(Sub(_, _), list, sc) ==
  FlattenSeq([i \in DOMAIN list |->
    LET t == list[i]
        before == SubSeq(list, 1, i - 1)
        id == sc.id + Sizes(before)
        seq == t.k # "parallel"
        here == IF sc.par THEN {} ELSE Defs(before)
        row == [t |-> t, parent |-> sc.parent, home |-> IF sc.par THEN id ELSE sc.home,
                up |-> sc.up \cup {id}, here |-> here, avail |-> sc.avail \cup here,
                next |-> IF sc.par \/ i = Len(list) THEN None ELSE id + t.size,
                kids |-> IF seq THEN {}
                         ELSE {id + 1 + Sizes(SubSeq(t.a, 1, j - 1)) : j \in DOMAIN t.a},
                then |-> IF seq /\ t.a # <<>> THEN id + 1 ELSE None,
                thenEnd |-> IF seq THEN EndOf(t.a, id + 1) ELSE None,
                else |-> IF t.b = <<>> THEN None ELSE id + 1 + Sizes(t.a),
                elseEnd |-> EndOf(t.b, id + 1 + Sizes(t.a))]
        Inner(first, par) == [id |-> first, parent |-> id, home |-> row.home,
                              up |-> row.up, avail |-> row.avail, par |-> par]
    IN  <<row>> \o Sub(t.a, Inner(id + 1, ~seq))
                \o Sub(t.b, Inner(id + 1 + Sizes(t.a), FALSE))])
Rows0(list, sc) == <<>>
Rows1(list, sc) == RowsWith(Rows0, list, sc)
Rows2(list, sc) == RowsWith(Rows1, list, sc)
Rows3(list, sc) == RowsWith(Rows2, list, sc)
Rows4(list, sc) == RowsWith(Rows3, list, sc)

NoDeclared == [o \in {} |-> None]

Outermost == [id |-> 1, parent |-> None, home |-> None, up |-> {},
              avail |-> {}, par |-> FALSE]

\* The workflow of a list and its rows.
Flatten(list, row, decl) ==
  LET n == Len(row)
  IN  [size |-> n,
       kind     |-> [s \in 1..n |-> row[s].t.k],
       parent   |-> [s \in 1..n |-> row[s].parent],
       next     |-> [s \in 1..n |-> row[s].next],
       then     |-> [s \in 0..n |-> IF s = 0 THEN 1 ELSE row[s].then],
       thenEnd  |-> [s \in 0..n |-> IF s = 0 THEN EndOf(list, 1)
                                    ELSE row[s].thenEnd],
       else     |-> [s \in 1..n |-> row[s].else],
       elseEnd  |-> [s \in 1..n |-> row[s].elseEnd],
       kids     |-> [s \in 1..n |-> row[s].kids],
       home     |-> [s \in 1..n |-> row[s].home],
       up       |-> [s \in 1..n |-> row[s].up],
       out      |-> [s \in 1..n |-> row[s].t.out],
       refs     |-> [s \in 1..n |-> row[s].t.refs],
       exit     |-> [s \in 1..n |-> row[s].t.exit],
       max      |-> [s \in 1..n |-> row[s].t.max],
       onError  |-> [s \in 1..n |-> row[s].t.err],
       inputs   |-> decl.inputs, required |-> decl.required,
       defaulted |-> decl.defaulted, enums |-> decl.enums,
       outputs  |-> NoDeclared,
       avail    |-> [s \in 1..n |-> row[s].avail],
       here     |-> [s \in 1..n |-> row[s].here],
       def      |-> [s \in 1..n |-> row[s].t.defs]]

-----------------------------------------------------------------------------
\* Input declarations: one input "i", required, defaulted or optional.
Required == [inputs |-> {"i"}, required |-> {"i"}, defaulted |-> {}, enums |-> {"i"}]
Optional == [inputs |-> {"i"}, required |-> {}, defaulted |-> {}, enums |-> {}]
Default  == [inputs |-> {"i"}, required |-> {"i"}, defaulted |-> {"i"}, enums |-> {}]
NoInputs == [inputs |-> {}, required |-> {}, defaulted |-> {}, enums |-> {}]

From(s) == [o \in {"x"} |-> s]

Leaves == {Prompt(o, r) : o \in {"x", "y"}, r \in {{}, {"x"}, {"y"}}}
Tools  == {Tool("x", {}, e, 2) : e \in {"skip", "retry"}}
Arms   == {<<>>} \cup {<<l>> : l \in Leaves} \cup {<<t>> : t \in Tools}

\* Kept by the validator; the declared outputs are tried one by one.
Family(lists, decl, outs) ==
  {w \in {[Flatten(p[1], p[2], decl) EXCEPT !.outputs = o] :
            p \in {<<l, Rows4(l, Outermost)>> : l \in lists}, o \in outs} :
     Accepted(w)}
=============================================================================
