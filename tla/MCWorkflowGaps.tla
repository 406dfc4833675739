----------------------------- MODULE MCWorkflowGaps ----------------------------
(* Accepted workflows on which the engine departs from its documentation.  *)
EXTENDS MCWorkflow

\* Two children of which one may bring the other's output name to the join.
OverlapWorkflows ==
  Family({<<Par(<<Prompt("x", {}), k>>), Prompt("v", {"x"})>> :
            k \in {Branch({}, <<Prompt("x", {})>>, <<>>), Prompt("x", {})}},
         NoInputs, {From(2)})

\* A loop whose body forks.
LoopForkWorkflows ==
  Family({<<Loop(2, e, {"x"}, <<Par(<<Prompt("x", {}), Prompt("y", {})>>)>>), Prompt("v", {"x"})>> :
            e \in BOOLEAN}, NoInputs, {From(3)})
=============================================================================
