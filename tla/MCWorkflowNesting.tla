--------------------------- MODULE MCWorkflowNesting ---------------------------
(* Four files in two directories that refer to each other in every way,    *)
(* with a bound of two nested workflows.  The path "alias" leads to another *)
(* file from each directory, and an arm of a branch may hold a reference   *)
(* that is too deep or leads back.                                         *)
EXTENDS WorkflowNesting

MCFiles == {"main", "a", "b", "c"}
MCPaths == MCFiles \cup {"alias"}
MCDirs == {"root", "sub"}
MCDirOf == [f \in MCFiles |-> IF f = "b" THEN "sub" ELSE "root"]
MCTarget ==
  [d \in MCDirs, p \in MCPaths |->
     IF p # "alias" THEN p ELSE IF d = "root" THEN "a" ELSE "c"]

Do == [path |-> "leaf", gives |-> FALSE, arm |-> FALSE]
Sub(p) == [path |-> p, gives |-> p # "b", arm |-> FALSE]
SubB == [path |-> "b", gives |-> TRUE, arm |-> FALSE]
Arm(step) == [step EXCEPT !.arm = TRUE]
Subs == {Sub(p) : p \in MCPaths} \cup {SubB}

Doc(state, steps) == [state |-> state, needs |-> FALSE, steps |-> steps]
Needy(doc) == [doc EXCEPT !.needs = TRUE]

Plain ==
  {Doc("gone", <<>>), Doc("broken", <<>>), Doc("ok", <<>>),
   Doc("unsound", <<Do>>), Doc("ok", <<Do>>)}
Nested == {Doc("ok", <<Do, s>>) : s \in Subs}
Firsts == {Doc("ok", <<s, t>>) : s, t \in Subs}

Branched == {Doc("ok", <<Arm(s), Arm(Sub("main"))>>) : s \in {Do, Sub("a"), SubB}}

MCDocs == Plain \cup Nested \cup Branched \cup Firsts \cup {Needy(d) : d \in Plain \cup Nested}

MCDisks ==
  {[f \in MCFiles |-> CASE f = "main" -> m [] f = "a" -> a
                        [] f = "b" -> b [] f = "c" -> c] :
     m \in {Doc("ok", <<s, t>>) : s \in {Sub("a"), Sub("alias")}, t \in Subs}
           \cup {Doc("ok", <<Do, Sub("main")>>), Needy(Doc("ok", <<Do>>))} \cup Branched,
     a \in {Doc("ok", <<Do>>)} \cup Nested,
     b \in {Needy(Doc("ok", <<Do>>)), Doc("unsound", <<Do>>)}
           \cup {Doc("ok", <<Do, Sub(p)>>) : p \in {"alias", "c"}},
     c \in {Doc("gone", <<>>), Doc("ok", <<Do>>), Doc("ok", <<Do, Sub("main")>>),
            Doc("ok", <<Arm(Do), Arm(Sub("main"))>>)}}

MCWritten ==
  {Doc("gone", <<>>), Doc("broken", <<>>), Needy(Doc("ok", <<Do>>)),
   Doc("ok", <<Do, Sub("main")>>), Doc("ok", <<Do, Sub("a")>>)}
=============================================================================
