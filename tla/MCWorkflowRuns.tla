---------------------------- MODULE MCWorkflowRuns ---------------------------
(* The families the passing run executes: all that the validator accepts   *)
(* of a few shapes of nested steps.                                        *)
EXTENDS MCWorkflow

\* Sequences, branches and loops without parallel steps.  What the validator
\* accepts without declared outputs it accepts with that of the first leaf.
FewArms ==
  {<<>>} \cup {<<Prompt("x", r)>> : r \in {{}, {"y"}}} \cup {<<t>> : t \in Tools}
SeqWorkflows ==
  Family({<<l, Branch(r, a, b), m>> :
            l \in {Prompt("y", {}), Tool("y", {}, "retry", 2)}, r \in {{}, {"y"}},
            a \in FewArms \ {<<>>}, b \in FewArms,
            m \in {Prompt("x", {}), Prompt("z", {"x"}), Prompt("z", {})}},
         NoInputs, {From(1), From(3)})
  \cup
  Family({<<Loop(n, e, {"x"}, <<l, Branch({}, a, b)>>), Prompt("y", {"x"})>> :
            n \in {1, 2}, e \in BOOLEAN,
            l \in {Prompt("z", {}), Prompt("x", {"i"})},
            a \in Arms \ {<<>>}, b \in {<<>>, <<Prompt("x", {})>>}},
         Optional, {From(2), From(4)})
  \cup
  Family({<<Prompt("x", {"i"}), Tool("y", {"x"}, e, n)>> :
            e \in {"fail", "skip", "retry"}, n \in 1..3}, Required, {From(2)})
  \cup Family({<<Prompt("x", {"i"})>>}, Default, {From(1)})

\* Parallel steps: leaves, branches, loops and nested parallel steps as
\* children, siblings with disjoint and with maybe-overlapping outputs.  Which
\* of two children comes first does not matter.
Kids == <<Prompt("x", {}), Prompt("y", {"z"}), Tool("y", {}, "skip", 1),
          Branch({"z"}, <<Prompt("x", {}), Prompt("w", {"x"})>>, <<Prompt("x", {"z"})>>),
          Loop(2, FALSE, {}, <<Prompt("y", {})>>),
          Loop(2, TRUE, {"w"}, <<Tool("w", {}, "retry", 2)>>),
          Par(<<Prompt("x", {}), Prompt("w", {"z"})>>)>>
Pairs == {p \in (1..Len(Kids)) \X (1..Len(Kids)) : p[1] < p[2]}
ParWorkflows ==
  Family({<<Prompt("z", {}), Par(<<Kids[p[1]], Kids[p[2]]>>), m>> :
            p \in Pairs, m \in {Prompt("v", {"x", "y"}), Prompt("v", {"w"}), Prompt("v", {})}},
         NoInputs, {From(1), From(3), From(4), From(5)})
  \cup
  Family({<<Loop(2, e, {}, <<Par(<<Prompt("x", {}), Branch({}, <<Prompt("y", {})>>, <<>>)>>)>>)>> :
            e \in BOOLEAN}, NoInputs, {NoDeclared, From(3)})

AllWorkflows == SeqWorkflows \cup ParWorkflows
=============================================================================
