------------------------------ MODULE MCFrontEnds ------------------------------
(* Two invocations: every pair of a command and a request in worlds that   *)
(* have up to two things wrong, and pairs of prompts of a session whose    *)
(* earlier turns are few, many or long.                                    *)
EXTENDS FrontEnds

Good ==
  [prompt |-> 20, reply |-> 3000, models |-> "ok", model |-> "trtllm",
   mcp |-> "ok",
   backend |-> [tools |-> "ok", bare |-> "ok", memory |-> "ok"],
   place |-> "root", names |-> FALSE, load |-> "ok",
   valid |-> [own |-> "ok", root |-> "ok"], refs |-> TRUE,
   execution |-> [own |-> "ok", root |-> "ok"]]

Alike(code) == [own |-> code, root |-> code]
Always(code) == [tools |-> code, bare |-> code, memory |-> code]

Wrong(w) ==
  {[w EXCEPT !.prompt = 0], [w EXCEPT !.models = "CONFIG_NOT_FOUND"],
   [w EXCEPT !.model = "unknown"], [w EXCEPT !.model = "ollama"],
   [w EXCEPT !.mcp = "MCP_CONFIG_PARSE_ERROR"],
   [w EXCEPT !.backend = Always("ALL_MODELS_FAILED")],
   [w EXCEPT !.backend = Always("BACKEND_ERROR_RESPONSE")],
   [w EXCEPT !.backend.bare = "COMPLETION_FAILED",
             !.backend.memory = "MAX_TURNS_EXCEEDED"],
   [w EXCEPT !.place = "elsewhere"], [w EXCEPT !.place = "subdirectory"],
   [w EXCEPT !.load = "WORKFLOW_FILE_NOT_FOUND"],
   [w EXCEPT !.valid = Alike("WORKFLOW_VALIDATION_ERROR")],
   [w EXCEPT !.refs = FALSE],
   [w EXCEPT !.execution = Alike("WORKFLOW_STEP_ERROR")]}

\* A workflow in a subdirectory that finds the files it names only from there,
\* when it is validated or when it runs.
Misplaced(w) ==
  LET below == [w EXCEPT !.place = "subdirectory", !.names = TRUE]
  IN {[below EXCEPT !.valid.root = "WORKFLOW_VALIDATION_ERROR"],
      [below EXCEPT !.execution.root = "WORKFLOW_TEMPLATE_ERROR"]}

MCWorlds ==
  {Good} \cup Wrong(Good) \cup UNION {Wrong(w) : w \in Wrong(Good)} \cup Misplaced(Good)

Req(kind, json, stream, tools, session) ==
  [kind |-> kind, json |-> json, stream |-> stream, tools |-> tools,
   session |-> session]

PromptRuns ==
  {Req("prompt", j, s, t, n) :
     j \in BOOLEAN, s \in BOOLEAN, t \in BOOLEAN, n \in {"none", "s"}}
Others ==
  {Req(k, j, FALSE, TRUE, "none") : k \in {"run", "validate"}, j \in BOOLEAN}

Served(w) == w.models = "ok" /\ w.mcp = "ok"

Both(first, second) == [i \in {"i", "j"} |-> IF i = "i" THEN first ELSE second]

Case(w, first, second, stored) ==
  [world |-> w, req |-> Both(first, second), events |-> stored]

Beside(w, first) ==
  IF ~Served(w) THEN {Req("validate", FALSE, FALSE, TRUE, "none")}
  ELSE {Req(IF first.kind = "prompt" THEN "httpPrompt" ELSE "httpRun",
            FALSE, FALSE, TRUE, "none")}

Compared ==
  UNION {{Case(w, first, second, <<>>) : second \in Beside(w, first)} :
         w \in MCWorlds, first \in PromptRuns \cup Others}

Old(session, k, length) == [session |-> session, turn |-> k, length |-> length]

Earlier == <<"1", "2", "3", "4", "5">>
MCTurns == Range(Earlier) \cup {"i", "j"}

Shorts == [k \in 1..5 |-> Old(IF k = 2 THEN "t" ELSE "s", Earlier[k], 200)]
Longs == [k \in 1..3 |-> Old("s", Earlier[k], 4000)]

OfOneSession ==
  {Case(w, Req("prompt", FALSE, FALSE, TRUE, "s"),
        Req("prompt", j, FALSE, TRUE, n), stored) :
     w \in {Good, [Good EXCEPT !.prompt = 5000, !.reply = 6000],
            [Good EXCEPT !.backend = Always("ALL_MODELS_FAILED")]},
     j \in BOOLEAN, n \in {"s", "t"}, stored \in {<<>>, Shorts, Longs}}

MCCases == Compared \cup OfOneSession
=============================================================================
