------------------------------- MODULE FrontEnds -------------------------------
(***************************************************************************)
(* The two front ends of the runtime: the commands of mv-cli (crates/      *)
(* mv-cli/src) and the prompt and workflow handlers of mv-server (crates/  *)
(* mv-server/src/handlers.rs), with the error codes, exit codes and        *)
(* statuses they answer with.                                              *)
(*                                                                         *)
(* Every invocation asks for the same thing of the same world, in its own  *)
(* way: a command with its flags, or a request.  What the files, the       *)
(* registry and the models give does not change meanwhile, so that the     *)
(* answers can be compared.  A command looks up the files that a workflow  *)
(* names in the directory of the workflow, the server in its own root, and *)
(* what a model answers depends on what it is given.  klams may fail at    *)
(* any call, and a process may be killed, or a client go away, at any step.*)
(* The chain of models a prompt walks is ModelRouting, a workflow's        *)
(* execution WorkflowEngine, what it enters in which directory             *)
(* WorkflowNesting, and the sessions of mv-server are Sessions.            *)
(*                                                                         *)
(* CliRunVerdictUnresolved, CloseOnSuccess and RecordFailsSilently are     *)
(* slips the properties must catch; nothing in the specification uses      *)
(* them.                                                                   *)
(***************************************************************************)
EXTENDS KlamsMemory, FiniteSets

CONSTANTS
  Invocations,  \* the processes and requests of a behaviour
  Cases         \* what the world holds, what each asks, what klams stores

\* The directory makes no difference to a workflow that names no other file, or
\* that lies in the server's root.  Only the prompt command has --no-tools and
\* --stream.  The server is up only if its registry and its MCP configuration
\* loaded.
ASSUME CasesAssumption ==
  /\ Invocations \subseteq Turns
  /\ "none" \notin Conversations
  /\ \A c \in Cases :
       /\ c.world.prompt \in Nat /\ c.world.reply \in Nat
       /\ c.world.place \in {"root", "subdirectory", "elsewhere"}
       /\ c.world.place = "root" \/ ~c.world.names =>
            /\ c.world.valid.own = c.world.valid.root
            /\ c.world.execution.own = c.world.execution.root
       /\ \A i \in Invocations :
            /\ c.req[i].session \in Conversations \cup {"none"}
            /\ c.req[i].kind # "prompt" => c.req[i].tools /\ ~c.req[i].stream
       /\ c.events \in Seq(Events)
       /\ \A k \in DOMAIN c.events : c.events[k].turn \notin Invocations
       /\ (\E i \in Invocations : c.req[i].kind \in {"httpPrompt", "httpRun"}) =>
            c.world.models = "ok" /\ c.world.mcp = "ok"

VARIABLES
  world,    \* what every invocation meets
  req,      \* per invocation: its command and flags, or its request
  at,       \* per invocation: the stage it has reached
  mcp,      \* per invocation of mv-cli: its MCP connections
  mem,      \* invocations that registered with klams
  context,  \* per invocation: the turns put before its prompt, oldest first
  out,      \* per invocation: what went to its stdout, or to the response
  noted,    \* invocations that said on stderr that memory did not work
  outcome,  \* per invocation: "none", "ok" or an error code
  answer    \* per invocation: its exit code or status

vars == <<events, world, req, at, mcp, mem, context, out, noted, outcome, answer>>

Kinds == {"prompt", "run", "validate", "httpPrompt", "httpRun"}
Commands == {"prompt", "run", "validate"}
Stages == {"checking", "connecting", "registering", "recalling", "completing",
           "streaming", "recording", "closing", "exiting", "done", "killed"}

NotFound == {"MODEL_NOT_FOUND", "MODEL_NOT_IN_REGISTRY", "CONFIG_NOT_FOUND",
             "MCP_CONFIG_NOT_FOUND", "WORKFLOW_FILE_NOT_FOUND"}
BadInput == {"EMPTY_PROMPT", "STREAMING_NOT_SUPPORTED", "WORKFLOW_INPUT_MISSING",
             "WORKFLOW_INPUT_INVALID", "WORKFLOW_VALIDATION_ERROR",
             "WORKFLOW_PATH_OUTSIDE_ROOT"}
Unavailable == {"BACKEND_UNREACHABLE", "MODEL_NOT_LOADED", "ALL_MODELS_FAILED"}

Status(result) ==
  CASE result = "ok" -> 200
    [] result \in NotFound -> 404
    [] result \in BadInput -> 400
    [] result \in Unavailable -> 503
    [] result = "BACKEND_ERROR_RESPONSE" -> 502
    [] OTHER -> 500

\* MvError::code and the one code that mv-server adds.
Codes == NotFound \cup BadInput \cup Unavailable \cup
  {"MAX_TURNS_EXCEEDED", "TOOL_CALL_FAILED", "COMPLETION_FAILED",
   "CONFIG_PARSE_ERROR", "API_KEY_MISSING", "MCP_CONFIG_PARSE_ERROR",
   "MCP_SERVER_ERROR", "MCP_DUPLICATE_SERVER", "WORKFLOW_PARSE_ERROR",
   "WORKFLOW_STEP_FAILED", "WORKFLOW_STEP_ERROR", "WORKFLOW_TEMPLATE_ERROR",
   "WORKFLOW_PARALLEL_FAILED", "MEMORY_ERROR", "WORKFLOW_CYCLE",
   "WORKFLOW_DEPTH_EXCEEDED", "BACKEND_ERROR_RESPONSE"}

\* What is asked for, and how it can end.
ASSUME KnownAssumption ==
  \A c \in Cases :
    /\ \A i \in Invocations : c.req[i].kind \in Kinds
    /\ {c.world.models, c.world.mcp, c.world.load,
        c.world.valid.own, c.world.valid.root,
        c.world.execution.own, c.world.execution.root,
        c.world.backend.tools, c.world.backend.bare, c.world.backend.memory}
         \subseteq Codes \cup {"ok"}

\* How stream_trtllm fails: the preflight, the client, the stream, the terminal.
StreamErrors == {"BACKEND_UNREACHABLE", "MODEL_NOT_LOADED", "COMPLETION_FAILED"}

IsCommand(i) == req[i].kind \in Commands
IsPrompt(i) == req[i].kind \in {"prompt", "httpPrompt"}

Worlds == {c.world : c \in Cases}
Asks == {c.req : c \in Cases}

Init ==
  /\ \E c \in Cases : world = c.world /\ req = c.req /\ events = c.events
  /\ at = [i \in Invocations |-> "checking"]
  /\ mcp = [i \in Invocations |-> "none"]
  /\ mem = {}
  /\ context = [i \in Invocations |-> <<>>]
  /\ out = [i \in Invocations |-> {}]
  /\ noted = {}
  /\ outcome = [i \in Invocations |-> "none"]
  /\ answer = [i \in Invocations |-> 0]

Goto(i, stage) == at' = [at EXCEPT ![i] = stage]

-----------------------------------------------------------------------------
\* What an invocation refuses before it connects to anything, in the order of
\* each front end.

\* main: --json overrides --stream.
Streams(i) == req[i].stream /\ ~req[i].json

\* validate_prompt: nothing is left of the prompt when it is trimmed.
EmptyPrompt == world.prompt = 0

\* ModelRegistry::resolve: "ok", or why the registry did not load.
Registry == world.models

\* ModelRegistry::get, or the default when no model is named.
Known == world.model # "unknown"

\* run_prompt
CliPromptVerdict(i) ==
  IF EmptyPrompt THEN "EMPTY_PROMPT"
  ELSE IF Registry # "ok" THEN Registry
  ELSE IF ~Known THEN "MODEL_NOT_IN_REGISTRY"
  ELSE IF Streams(i) /\ world.model # "trtllm" THEN "STREAMING_NOT_SUPPORTED"
  ELSE "ok"

\* handlers::prompt; the registry was loaded when the server started.
HttpPromptVerdict ==
  IF EmptyPrompt THEN "EMPTY_PROMPT"
  ELSE IF ~Known THEN "MODEL_NOT_IN_REGISTRY"
  ELSE "ok"

\* load_from_file, then validate with a directory: the workflow's own for a
\* command, the server's root for a request.
FileVerdict(directory) ==
  IF world.load # "ok" THEN world.load ELSE world.valid[directory]

CliRunVerdictUnresolved ==
  IF FileVerdict("own") # "ok" THEN FileVerdict("own")
  ELSE Registry

\* run_workflow of mv-cli
CliRunVerdict ==
  IF FileVerdict("own") # "ok" THEN FileVerdict("own")
  ELSE IF Registry # "ok" THEN Registry
  ELSE IF ~world.refs THEN "MODEL_NOT_IN_REGISTRY"
  ELSE "ok"

\* handlers::run_workflow and run_workflow_at
HttpRunVerdict ==
  IF world.place = "elsewhere" THEN "WORKFLOW_PATH_OUTSIDE_ROOT"
  ELSE IF FileVerdict("root") # "ok" THEN FileVerdict("root")
  ELSE IF ~world.refs THEN "MODEL_NOT_IN_REGISTRY"
  ELSE "ok"

Verdict(i) ==
  CASE req[i].kind = "prompt" -> CliPromptVerdict(i)
    [] req[i].kind = "httpPrompt" -> HttpPromptVerdict
    [] req[i].kind = "run" -> CliRunVerdict
    [] req[i].kind = "httpRun" -> HttpRunVerdict
    [] req[i].kind = "validate" -> FileVerdict("own")

Refuse(i) ==
  /\ at[i] = "checking"
  /\ Verdict(i) # "ok" \/ req[i].kind = "validate"
  /\ outcome' = [outcome EXCEPT ![i] = Verdict(i)]
  /\ Goto(i, "exiting")
  /\ UNCHANGED <<events, world, req, mcp, mem, context, out, noted, answer>>

Accept(i) ==
  /\ at[i] = "checking"
  /\ Verdict(i) = "ok"
  /\ req[i].kind # "validate"
  /\ Goto(i, IF IsCommand(i) THEN "connecting" ELSE "completing")
  /\ UNCHANGED <<events, world, req, mcp, mem, context, out, noted, outcome,
                 answer>>

-----------------------------------------------------------------------------
\* MCP connections and memory, of a command

\* The path that writes tokens as they come: the proxy cannot stream tool calls.
StreamPath(i) == Streams(i) /\ world.model = "trtllm" /\ ~req[i].tools

Remembers(i) == IsPrompt(i) /\ req[i].session # "none"

\* --no-tools: no connections, and a session is ignored with a note.
SkipTools(i) ==
  /\ at[i] = "connecting"
  /\ ~req[i].tools
  /\ noted' = IF Remembers(i) THEN noted \cup {i} ELSE noted
  /\ Goto(i, IF StreamPath(i) THEN "streaming" ELSE "completing")
  /\ UNCHANGED <<events, world, req, mcp, mem, context, out, outcome, answer>>

\* A bad configuration ends the run; a server that cannot be reached does not.
Connect(i) ==
  /\ at[i] = "connecting"
  /\ req[i].tools
  /\ IF world.mcp = "ok"
     THEN /\ mcp' = [mcp EXCEPT ![i] = "open"]
          /\ Goto(i, IF Remembers(i) THEN "registering" ELSE "completing")
          /\ UNCHANGED outcome
     ELSE /\ outcome' = [outcome EXCEPT ![i] = world.mcp]
          /\ Goto(i, "exiting")
          /\ UNCHANGED mcp
  /\ UNCHANGED <<events, world, req, mem, context, out, noted, answer>>

\* SessionMemory::begin
Register(i) ==
  /\ at[i] = "registering"
  /\ \/ mem' = mem \cup {i} /\ Goto(i, "recalling") /\ UNCHANGED noted
     \/ noted' = noted \cup {i} /\ Goto(i, "completing") /\ UNCHANGED mem
  /\ UNCHANGED <<events, world, req, mcp, context, out, outcome, answer>>

\* klams answered the search for the session's turns.
RecallTurns(i) ==
  /\ at[i] = "recalling"
  /\ context' = [context EXCEPT ![i] = Recalled(req[i].session)]
  /\ Goto(i, "completing")
  /\ UNCHANGED <<events, world, req, mcp, mem, out, noted, outcome, answer>>

\* It did not: the prompt goes on without.
RecallFails(i) ==
  /\ at[i] = "recalling"
  /\ Goto(i, "completing")
  /\ UNCHANGED <<events, world, req, mcp, mem, context, out, noted, outcome,
                 answer>>

-----------------------------------------------------------------------------
\* The completion or the execution

\* What a prompt is put to the model with: its tools, none of them, or the
\* tools and the prefix that a session's memory puts before it.
GivenTo(i) ==
  IF ~req[i].tools THEN "bare"
  ELSE IF i \in mem THEN "memory"
  ELSE "tools"

Result(i) ==
  IF IsPrompt(i) THEN world.backend[GivenTo(i)]
  ELSE world.execution[IF IsCommand(i) THEN "own" ELSE "root"]

Complete(i) ==
  /\ at[i] = "completing"
  /\ outcome' = [outcome EXCEPT ![i] = Result(i)]
  /\ Goto(i, IF ~IsCommand(i) THEN "exiting"
             ELSE IF i \in mem /\ Result(i) = "ok" THEN "recording"
             ELSE "closing")
  /\ UNCHANGED <<events, world, req, mcp, mem, context, out, noted, answer>>

\* A chunk of the reply.
Token(i) ==
  /\ at[i] = "streaming"
  /\ out' = [out EXCEPT ![i] = @ \cup {"tokens"}]
  /\ UNCHANGED <<events, world, req, at, mcp, mem, context, noted, outcome,
                 answer>>

StreamEnds(i) ==
  /\ at[i] = "streaming"
  /\ out' = [out EXCEPT ![i] = @ \cup {"newline"}]
  /\ outcome' = [outcome EXCEPT ![i] = "ok"]
  /\ Goto(i, "closing")
  /\ UNCHANGED <<events, world, req, mcp, mem, context, noted, answer>>

\* What was written stays.
StreamFails(i) ==
  /\ at[i] = "streaming"
  /\ \E code \in StreamErrors : outcome' = [outcome EXCEPT ![i] = code]
  /\ Goto(i, "closing")
  /\ UNCHANGED <<events, world, req, mcp, mem, context, out, noted, answer>>

-----------------------------------------------------------------------------
\* The turn is recorded over the connections, which are then closed.

Record(i) ==
  /\ at[i] = "recording"
  /\ Stored(req[i].session, i, world.prompt, world.reply)
  /\ Goto(i, "closing")
  /\ UNCHANGED <<world, req, mcp, mem, context, out, noted, outcome, answer>>

RecordFailsSilently(i) ==
  /\ at[i] = "recording"
  /\ Goto(i, "closing")
  /\ UNCHANGED <<events, world, req, mcp, mem, context, out, noted, outcome,
                 answer>>

\* klams refuses, or its answer is lost when it has stored the turn.
RecordFails(i) ==
  /\ at[i] = "recording"
  /\ \/ UNCHANGED events
     \/ Stored(req[i].session, i, world.prompt, world.reply)
  /\ noted' = noted \cup {i}
  /\ Goto(i, "closing")
  /\ UNCHANGED <<world, req, mcp, mem, context, out, outcome, answer>>

CloseOnSuccess(i) ==
  /\ at[i] = "closing"
  /\ mcp' = IF outcome[i] = "ok" THEN [mcp EXCEPT ![i] = "closed"] ELSE mcp
  /\ Goto(i, "exiting")
  /\ UNCHANGED <<events, world, req, mem, context, out, noted, outcome, answer>>

\* Whatever the outcome.
Close(i) ==
  /\ at[i] = "closing"
  /\ mcp' = [mcp EXCEPT ![i] = IF @ = "open" THEN "closed" ELSE @]
  /\ Goto(i, "exiting")
  /\ UNCHANGED <<events, world, req, mem, context, out, noted, outcome, answer>>

-----------------------------------------------------------------------------
\* The answer

\* print_success, and what the workflow commands print; only prompt and run
\* look at --json.
Printed(i) ==
  IF req[i].json /\ req[i].kind # "validate" THEN "object" ELSE "text"

Exit(i) ==
  /\ at[i] = "exiting"
  /\ IsCommand(i)
  /\ out' = IF outcome[i] = "ok" THEN [out EXCEPT ![i] = @ \cup {Printed(i)}]
            ELSE out
  /\ answer' = [answer EXCEPT ![i] = IF outcome[i] = "ok" THEN 0 ELSE 1]
  /\ Goto(i, "done")
  /\ UNCHANGED <<events, world, req, mcp, mem, context, noted, outcome>>

Respond(i) ==
  /\ at[i] = "exiting"
  /\ ~IsCommand(i)
  /\ out' = [out EXCEPT ![i] = {"object"}]
  /\ answer' = [answer EXCEPT ![i] = Status(outcome[i])]
  /\ Goto(i, "done")
  /\ UNCHANGED <<events, world, req, mcp, mem, context, noted, outcome>>

\* The process is killed with its connections, or the client goes away and the
\* handler is dropped.
Killed(i) ==
  /\ at[i] \notin {"done", "killed"}
  /\ mcp' = [mcp EXCEPT ![i] = IF @ = "open" THEN "closed" ELSE @]
  /\ Goto(i, "killed")
  /\ UNCHANGED <<events, world, req, mem, context, out, noted, outcome, answer>>

Step(i) ==
  \/ Refuse(i)
  \/ Accept(i)
  \/ SkipTools(i)
  \/ Connect(i)
  \/ Register(i)
  \/ RecallTurns(i)
  \/ RecallFails(i)
  \/ Complete(i)
  \/ Token(i)
  \/ StreamEnds(i)
  \/ StreamFails(i)
  \/ Record(i)
  \/ RecordFails(i)
  \/ Close(i)
  \/ Exit(i)
  \/ Respond(i)

Next == \E i \in Invocations : Step(i) \/ Killed(i)

Spec == Init /\ [][Next]_vars
-----------------------------------------------------------------------------
TypeOK ==
  /\ world \in Worlds
  /\ req \in Asks
  /\ events \in Seq(Events)
  /\ at \in [Invocations -> Stages]
  /\ mcp \in [Invocations -> {"none", "open", "closed"}]
  /\ mem \subseteq Invocations
  /\ \A i \in Invocations : Len(context[i]) <= RecallEvents
  /\ out \in [Invocations -> SUBSET {"tokens", "newline", "text", "object"}]
  /\ noted \subseteq Invocations
  /\ outcome \in [Invocations -> Codes \cup {"none", "ok"}]
  /\ answer \in [Invocations -> {0, 1, 200, 400, 404, 500, 502, 503}]

RecordedBy(i) == {k \in DOMAIN events : events[k].turn = i}

\* What a command that ends by itself leaves behind: no connection is open,
\* whichever way it failed; with --json stdout holds the one object of a
\* success and nothing of an error; without it, an error leaves at most the
\* tokens that were already shown (main.rs:17-36, 88-112; prompt.rs:147-162;
\* commands/workflow.rs:74-77).
CleanExit ==
  \A i \in Invocations : at[i] = "done" /\ IsCommand(i) =>
    /\ mcp[i] # "open"
    /\ req[i].json /\ req[i].kind # "validate" =>
         out[i] = IF answer[i] = 0 THEN {"object"} ELSE {}
    /\ answer[i] = 1 => out[i] \subseteq {"tokens"}

\* A prompt of a session is in klams once and for all when its run has ended
\* well, or the run said so; what is there is the turn of a run whose
\* completion succeeded, once (prompt.rs:81-83, 111-115, 147-156).
NoSilentLoss ==
  \A i \in Invocations :
    /\ at[i] = "done" /\ answer[i] = 0 /\ req[i].kind = "prompt" /\ Remembers(i) =>
         RecordedBy(i) # {} \/ i \in noted
    /\ RecordedBy(i) # {} => outcome[i] = "ok" /\ Cardinality(RecordedBy(i)) = 1

\* Whatever other runs of the session record meanwhile, what a prompt gets to
\* see of it is a stretch of its turns without gap, in the order they were
\* recorded, and only turns that other runs recorded meanwhile come after it
\* (klams.rs:141-156, 198-210).
RecallInOrder ==
  \A i \in Invocations : context[i] # <<>> =>
    LET all == OfSession(req[i].session)
    IN \E n \in 1..Len(all) :
         /\ Len(context[i]) = IF n < RecallEvents THEN n ELSE RecallEvents
         /\ \A k \in DOMAIN context[i] :
              context[i][k] = all[n - Len(context[i]) + k].turn
         /\ \A k \in (n + 1)..Len(all) : all[k].turn \in Invocations

\* A command and a request for the same thing: a prompt that puts the same to
\* the model, or a workflow of the server's directory that names no other file
\* or lies where the server looks for them.
AskAlike(i, j) ==
  \/ /\ req[i].kind = "prompt" /\ req[j].kind = "httpPrompt"
     /\ ~Streams(i) /\ GivenTo(i) = "tools"
  \/ /\ req[i].kind = "run" /\ req[j].kind = "httpRun"
     /\ world.place = "root" \/ (world.place = "subdirectory" /\ ~world.names)

\* Both front ends answer what is asked alike with the same code: they check the
\* same things in the same order, whatever is wrong at once (lib.rs:7-10,
\* error.rs:11-13 of mv-server, handlers.rs:194-197).  The workflows that are
\* not asked alike are the subject of RelativeToParent of WorkflowNesting.
SameAnswer ==
  \A i, j \in Invocations :
    at[i] = "done" /\ at[j] = "done" /\ AskAlike(i, j) =>
      /\ outcome[i] = outcome[j]
      /\ answer[i] = 0 <=> answer[j] = 200

\* A run whose search klams answered is shown the last turn of its session
\* (klams.rs:12-13, memory/mod.rs:72-76, cli.rs:64-68).
RecallsLastTurn ==
  [][\A i \in Invocations :
       RecallTurns(i) /\ OfSession(req[i].session) # <<>> =>
         context'[i] # <<>>]_vars
=============================================================================
