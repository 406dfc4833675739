# Multae Viae in TLA+

Multae Viae is a local-first agentic controller in Rust: a library (`mv-core`)
with model routing, tools, MCP clients, memory and a workflow DSL; a command
line (`mv-cli`); and a daemon (`mv-server`) with sessions and a scheduler. This
directory holds TLA+ models of the parts whose correctness depends on order,
concurrency or failure, the TLC runs that check them, and TLAPS proofs.

    tlc -config MCSessions.cfg MCSessions      # any run of the table below
    tlapm WorkflowEngine_proofs.tla            # the proofs
    tlapm Daemon_proofs.tla
    tlapm Sessions_proofs.tla
    tlapm WorkflowNesting_proofs.tla
    tlapm ModelRouting_proofs.tla
    tlapm Server_proofs.tla
    tlapm FrontEnds_proofs.tla

`PROJECT.json` lists the components, the hazards at their lines, the runs, the
mutants, and for every definition the lines of code it stands for.

## The system

| part | state | operations | what is hard |
|---|---|---|---|
| workflow validator (`workflow/validate.rs`) | sets of names in scope | `validate` | which outputs exist on *every* path through branches, loops, forks and skipped steps |
| workflow engine (`workflow/engine.rs`, `retry.rs`) | `ExecutionContext` per task, loop counters, chain of running files | leaf steps, branch, loop, parallel, sub-workflow | children interleave over snapshots; errors, retries and skips change what later steps can refer to; files that refer to each other and change meanwhile |
| sessions (`session.rs`, `state.rs`) | map of names behind a lock, a lock and a history per session | create, list, delete, turn | two kinds of lock, long waits under them, clients that go away |
| memory (`memory/klams.rs`, `memory/mod.rs`) | none of its own; events in the klams server | register, recall, record | best-effort calls that may be lost or arrive late; answers cut by the cap on tool output |
| scheduler (`scheduler.rs`) | one flag per schedule | tick, run | ticks race the end of the previous run |
| daemon lifecycle (`main.rs`) | schedule handles, in-flight requests | bind, serve, drain, tear down | order of the teardown, work nobody waits for |
| model routing (`runtime.rs`, `preflight.rs`, `lib.rs`) | chain of candidates | `build_chain`, `complete_chain` | what may be retried elsewhere, stale preflights |
| MCP manager (`mcp/manager.rs`, `config.rs`, `registry.rs`, `client.rs`) | map of connections behind a lock, tools on two handles | configure, connect, read, reconnect sweep, shutdown | dialling under the lock, concurrent sweeps, tools of a new connection |
| command line (`mv-cli`) | one invocation's flags, connections, output | prompt, workflow run, workflow validate | order of the checks, what is on stdout and who closes what when a late step fails |
| server handlers (`handlers.rs`, `error.rs`) | none | health, prompt, workflow run | the same checks as the command line in code of their own, the status of each error |
| parser, templates, transforms, built-in tools, TRT-LLM helpers | none | pure functions, one-shot I/O | little that a unit test does not reach |

A request reaches `mv-server` over HTTP, a command through `mv-cli`. A prompt
goes through model routing; a workflow, whether requested, run by hand or by a
schedule's tick, is parsed, validated and executed by the engine, which calls
routing for prompt steps, the tool server for tool steps and itself for the
files a sub-workflow step names; a session turn calls the session's agent, with
klams recall before the first turn and a klams record after each, and a prompt
of a named session on the command line does both once. MCP connections are
shared by everything in a process and closed last.

## Modules

| module | models |
|---|---|
| `WorkflowValidate` | the tree of steps and `validate`: which names are defined, which references are accepted |
| `WorkflowEngine` | `execute_workflow` on an accepted workflow; EXTENDS `WorkflowValidate` |
| `WorkflowEngine_proofs` | theorems about both |
| `SessionStore` | what the session endpoints promise: an abstract specification without locks |
| `Sessions` | the endpoints as they are; shown to implement `SessionStore` |
| `Sessions_proofs` | theorems about `Sessions`, the implementation among them |
| `WorkflowNesting`, `WorkflowNesting_proofs` | sub-workflow files: loading, look-ahead, directories, cycles and depth, files that change; theorems |
| `Daemon`, `Daemon_proofs` | scheduler, in-flight requests and teardown; theorems |
| `McpManager` | the MCP connections of a process; no specification of its own |
| `Server`, `Server_proofs` | the daemon with its MCP manager: EXTENDS `Daemon` and `McpManager`, joins their steps, and is shown to implement `Daemon`; theorems |
| `ModelRouting`, `ModelRouting_proofs` | a buffered completion over a chain of models whose backends come and go; theorems |
| `KlamsMemory` | what klams holds of a session and what recall gets back |
| `FrontEnds`, `FrontEnds_proofs` | mv-cli's commands and the server's prompt and workflow requests beside each other; EXTENDS `KlamsMemory`; theorems |
| `SetInduction` | induction and recursion over the numbers, for the proof modules |
| `MCWorkflow` | terms for small workflows; `MCWorkflowRuns` and `MCWorkflowGaps` are its families |
| `MCWorkflowNesting`, `MCRouting`, `MCSessions`, `MCServer`, `MCFrontEnds` | instances for TLC |

### WorkflowValidate and WorkflowEngine

A workflow is a record of functions over step numbers: `kind`, the nested lists
of a branch or loop (`then`, `thenEnd`, `else`, `elseEnd`), the children of a
fork (`kids`), a step's place (`parent`, `next`, `up` for the steps around it,
`home` for the parallel child whose future runs it), its output name (`out`),
the names its templates refer to (`refs`), its `onError` action, the loop's cap
or the attempts (`max`). `avail`, `here` and `def` are what the validator
computes. Leaves are prompt, tool, transform and sub-workflow steps; what goes
on inside the last is `WorkflowNesting`. Template text, values, conditions and
wording are abstracted: a template is the set of names it refers to, a condition
may evaluate either way, an output's value is the occurrence that wrote it
(which call of which step), so that a stale value can be told from a fresh one.

`Accepted(wf)` is the validator: `Scoped` is its definitely-defined set at each
step, `ReferencesKnown`, `OutputNew`, `StructureOK` and `OutputsDefined` its
error checks. `WorkflowTyped` and `WorkflowTree` state what a parsed YAML file
always satisfies: its lists are nested, and its steps are numbered in the order
of the document (`DocumentOrder`). They restrict the `Workflows` constant, not
the code.

The engine runs tasks: the root, and one per child of a parallel step, since
`join_all` polls the children's futures in any interleaving. `at` and `phase`
are a task's program counter over the recursion of `execute_steps`; `ctx[t]` is
its own copy of the context. `StartCall`, `CallOk` and `CallError` are one
external call with its retries; `TakeBranch`, `EnterLoop`, `CheckLoop`, `Fork`,
`Join`, `Leave` are the control steps; `BuildOutputs` is the end. `inputs`,
`tries`, `calls`, `iter` and `result` are the caller's inputs, the attempts of
the step in hand, the calls made per step, the loop counters and the outcome.

What must be right: a reference of an accepted workflow never fails to resolve
(`ReferencesResolve`), a success returns every declared output
(`OutputsComplete`), a child sees its snapshot and itself only
(`SiblingIsolation`), children run exactly while their parent waits
(`NoOrphan`) and to their own end even if a sibling fails
(`ChildrenRunToCompletion`), calls are neither lost nor repeated beyond the
retry and loop bounds (`CallCounts`), a step never reads a value older than the
last one written, unless a fork is in a loop (`FreshOutsideLoopForks`), and
executions end (`Terminates`).

### WorkflowNesting

`stack` is the chain of running workflows, each with its file, the directory its
paths are resolved in, what was loaded of it and its next step; `disk` is what
the files hold, and `Edit` changes one at any moment. `Begin` is the caller:
load, `validate` with the look into the files of the first level, inputs.
The steps of a file stand in one list, those of a branch's arms among them
(`arm`): `Skip` passes over a step of an arm that the run does not take, which
may be any; the body of a loop stands there once per iteration.
`Entry` is the sequence of checks of a `sub_workflow` step in the order of
`execute_step`: the file is there, it is not in the chain, the chain is not too
long, it parses, it is valid, it has its inputs. `Enter` pushes it in its own
directory, `Return` pops it. `Base` is the directory the caller gives: the
file's own for `mv-cli`, always `workflows_dir` for the server and the
scheduler. The children of a parallel step carry a copy of the chain each, so
one line of execution stands for any.

What must be right: a running file is not entered again and the nesting is
bounded, even if the files change (`Reentry`); the first level of files was
looked at before anything had an effect (`LookAhead`); a cycle or a depth is
reported only where the files have one, and a success only where no chain of
references outside the arms of branches is too deep (`VerdictSound`; what an arm
holds is validated, and entered only if the arm is taken); a path means the file
beside the workflow it is written in (`RelativeToParent`); a run ends
(`Terminates`). The chain begins below the first file, so a workflow may enter
the file it started with once more; `VerdictSound` says that this costs a round,
not the verdict.

### SessionStore and Sessions

Each request is a task with a program counter `pc` that stands at an await
point of its handler. `mapq` is the mutex of the `SessionMap`, `lockq[s]` that
of session `s`: a tokio mutex is fair, so a mutex is the queue of those who
asked for it, and the head holds it. Actions are what a handler does between
two await points: `Arrive`/`Refuse`, `Begun`, `CreateEntry`, `ListStart`,
`ListLock`, `ListRead`, `ListDone`, `DeleteEntry`, `Lookup`, `WantLock`,
`Start`, `Recalled`, `Reply`, `ChatFails`, `RecordReturns`. `Cancel` is a client
that disconnects: the handler's future is dropped at its await point, with its
locks. `Restart` loses every task and session and keeps klams. A record call
is on its way in `writing` until klams stores it or fails (`Stored`), also when
its turn was cut short.

A session is identified by the request that created it and a turn by its
request, so `history`, `sent` and `events` are sequences of requests. The
messages themselves, models and endpoints are abstracted; `memory_search`
results, which are not tied to a session, are left out of `recalled`.

`SessionStore` has a binding of names to conversations and conversations that
grow one exchange at a time, each answered in the context of all the previous
ones. `StoreSpec` says that `Sessions` implements it: a create never replaces a
bound session, only delete and restart unbind, and the turns of a session are
serializable. The mapping takes the map for the binding, the histories for the
conversations, and the history a turn sent, once it was answered, for what the
turn saw.

### Daemon

One flag and one loop per schedule, runs counted as `executing` (the workflow
runs) and `returned` (it is over, the flag is still taken), requests in flight
as a number, and the phases of `main`. A loop is `awake` between the end of its
sleep and the next one: an `abort` in between takes effect only at the next
await, so a run may start even after the abort. `Exit` drops what is left.

### McpManager and Server

`link` is the map of connections: a server that dropped stays in it, `closed`,
until a sweep reaps it. `queue` is the map's tokio mutex (first come first
served) and `at` where each caller is. `Resolve` and `ResolveFails` read and
validate the configuration; main dials entry by entry (`Connected`,
`DialFails`) and registers the tools at the end (`Ready`). A sweep (`Reap`,
`PassOver`, dials, `EndSweep`) keeps the lock from its first step to its last.
`Read` is `live_servers`; `Drain` and `Cancelled` are the shutdown, whose
cancels are bounded by a timeout. `known` and `agent` are the tools on the
handle that connections bring theirs to, and on the one the model uses.

`Server` joins these with `Daemon`: nothing is bound before main has connected,
`GET /health` is a request that waits for the lock, and main asks for the lock
after the schedules' loops are aborted. `Monitors` are the callers of
`reconnect_dead`. `manager.rs:10-13` describes them as a tick of the daemon, but
`main` starts none and nothing else in the program calls it. Run `server` has two,
to check the code of the sweep as a library function; what it shows of sweeps
(`SingleInstance`, `ToolsRegistered` and `HealthAnswers` with monitors) is not
about the daemon as it is today. Run `server_dropped` has none.

What must be right: a server is never dialled while it has a connection in the
map or is being dialled by another caller (`SingleInstance`; a connection that
the shutdown is still closing has left the map), the agent has the tools of every connection but those
a built-in tool stands for (`ToolsRegistered`), connections last as long as
requests (`RequestsKeepConnections`), schedules go on firing (`KeepsFiring`),
health is answered (`HealthAnswers`), and the shutdown comes to its end once the
requests in flight are answered (`ShutdownCompletes`). That a dropped server is
dialled again (`Redialled`) is promised by the documents and not so.

### ModelRouting

`route` is a loaded registry (`provider`, `fallback`, and `keyed`: the models
whose API key variable is set) with the preferred models (`seeds`: one for the
command line, several for a `prefer:` list). `BuildChain` is `build_chain`.
`Select` is the head of `complete_chain`'s loop, `Health` and `Models` are the
two requests of a preflight, `Dispatch` is `complete`, `Agent` one request of
the agent that `call_ollama`, `call_openai` or `call_trtllm` built; a step ends
where the code awaits the network, so that a backend may change (`Change`)
between a probe and the request that trusts it. `routing` tells the walk's probe
from the second one that `call_trtllm` makes. `Refusals` is how
`classify_prompt_error` reads a backend's answer: a status by its body's words
and its number, and what is neither a status nor a turn limit by its text
(`Worded`), so that a working model's answer may count as any error. `Eligible` is
`is_fallback_eligible`. `was` remembers the states of each backend during the
walk; it guards nothing. Prompts, answers, tools and sampling are abstracted.

What must be right: the chain is the seeds and their own fallbacks, each once,
at its first place (`ChainOrder`); the attempts, the named model and the error
say what happened (`WalkRecorded`); a backend that is dead throughout gets no
prompt (`DeadSkipped`); a model that is usable throughout is not passed
over: it is given up only after it was asked, and the walk fails without asking
it only on another model's answer that counts as a fault of the request
(`SteadyAsked`); every completion ends (`WalkEnds`).`ChainOrder` is also where the code decides something a reader of
`docs/07-model-routing.md:64-67` might not expect: a seed's fallbacks come
before the next seed, so a later preferred model that is also an earlier one's
fallback is tried ahead of a model preferred over it.

### KlamsMemory and FrontEnds

Every invocation, a process of `mv-cli` or a request to the server, asks for
something of one `world`: what the files, the registry, the MCP configuration
and the models give, which does not change. What it gives depends on what is
asked: a workflow's verdict and its execution on the directory its files are
looked up in (`valid`, `execution`: `own` for a command, `root` for a request),
which makes no difference if it lies in the root or names no other file
(`place`, `names`); a prompt's completion on what the model is given (`GivenTo`:
with tools, without, or with the prefix of a session's memory). `Verdict` is what it refuses before
it connects to anything, for each front end in its own order; `SkipTools`,
`Connect`, `Register`, `RecallTurns`, `RecallFails` lead to the completion,
which is one step (`Complete`) or a stream of tokens; `Record` and `RecordFails`
store the turn; `Close` shuts the connections down; `Exit` and `Respond` are
the exit code and what is on stdout, or the status and the envelope. Klams may
fail at any call, and also after it has stored a turn; `Killed` is a process
that is killed or a client that goes away.

`KlamsMemory` keeps of a turn its session, who recorded it and how long it is
once its fields are cut to `FieldCap`. `Recalled` asks for the newest
`RecallEvents` of a session, and gets nothing when the answer is longer than
`ToolCap`, since the rest of a cut answer does not parse.

What must be right: a command that ends has closed its connections and left no
half of an answer on stdout (`CleanExit`); a turn is in klams once, or the user
was told (`NoSilentLoss`); what is recalled is a stretch of the conversation in
its order (`RecallInOrder`); both front ends answer with the same code what is asked
alike (`SameAnswer`, `AskAlike`): a prompt that puts the same to the model, and a
workflow whose directory makes no difference. Another workflow may pass in one
of them and fail in the other; that is `RelativeToParent` of `WorkflowNesting`.

## Runs

| run | instance | checks |
|---|---|---|
| `workflow` | families of workflows: arms of a branch, a branch in a loop, retries, skips, declared inputs and outputs; forks over leaves, branches, loops, nested forks, and in a loop | `TypeOK`, `ReferencesResolve`, `OutputsComplete`, `FreshOutsideLoopForks`, `NoOrphan`, `SiblingIsolation`, `CallCounts`, `ChildrenRunToCompletion`, `Terminates` |
| `workflow_overlap` | one fork whose children may write the same name | violates `ChildrenDisjoint` |
| `workflow_loop_fork` | a fork in a loop body | violates `ContextFresh` |
| `nesting` | 4 files in 2 directories, a path that means two of them, references in the arms of branches, depth 2, 1 edit | `TypeOK`, `Reentry`, `LookAhead`, `VerdictSound`, `Terminates` |
| `nesting_server` | the same, started in a subdirectory with the root as its directory | violates `RelativeToParent` |
| `sessions` | 3 requests, 2 names, 1 restart, fairness | `TypeOK`, `ContextCurrent`, `RecordsRemembered`, `StoreSpec`, `EveryRequestEnds`, `MapNeverWaits` |
| `sessions_list` | 4 requests, 1 name | violates `TurnsNeverBlockTheMap` |
| `routing` | 36 chains of one or two models over all providers, with and without keys, 8 overlapping preference lists, 6 chains of three providers; 1 change, 1 tool turn | `TypeOK`, `ChainOrder`, `WalkRecorded`, `DeadSkipped`, `SteadyAsked`, `WalkEnds` |
| `server` | 7 configuration files over 2 MCP servers, 1 schedule, 1 request or health check, 2 monitors | `ServerTypeOK`, `SingleRun`, `SingleInstance`, `ToolsRegistered`, `RequestsKeepConnections`, `KeepsFiring`, `ShutdownCompletes`, `HealthAnswers` |
| `server_dropped` | the same without monitors | violates `Redialled` |
| `frontends` | 2 invocations: every pair of a command and a request in worlds with up to two things wrong, workflows in a subdirectory among them; pairs of prompts of a session with few, many or long earlier turns | `TypeOK`, `CleanExit`, `NoSilentLoss`, `RecallInOrder`, `SameAnswer` |
| `memory_recall` | the same | violates `RecallsLastTurn` |

The violations are findings: each states what a document or a comment of the
repository says, and its trace is what the code does.

- A list request locks the map and then waits for each session, so one long
  turn blocks every session endpoint; the comment in `session_turn` says that
  cannot happen. Without list it cannot (`MapNeverWaits`).
- A parallel step in a loop drops what its children produce from the second
  iteration on; two children may write the same output when one of them does
  so in one arm of a branch only.
- No code outside the tests calls `reconnect_dead`: a server that drops stays
  dropped, although the documents say that the daemon reconnects it.
- The server runs every workflow with `workflows_dir` as its directory, so a
  workflow in a subdirectory enters other files than the ones beside it.
- Four recalled turns may be longer than the cap on tool output; klams' answer
  is then cut, no longer parses, and the session is recalled as nothing.

More follows from the code and is in the models as it is, with no property
against it:

- Deleting and recreating a session during a turn gives one name two
  conversations, and two turns, at once. A session recalls before its first turn
  only, and the command line on every prompt.
- A scheduled run is detached and may outlive the MCP connections; a schedule
  that comes due during the drain fires, where
  `specs/013-mv-server/spec.md:146-147` has the tick skipped (`main.rs:76-85`).
- A request that a working model turned down is tried on the next model when the
  refusal is worded like a missing model or a dead backend (`Worded`,
  `providers.rs:91-95`, 128-161), although the comments there and at
  `runtime.rs:68-70` have such an error fail fast; it may end in
  AllModelsFailed.
- The drain of the requests in flight has no bound (`main.rs:76-78`), where
  `specs/013-mv-server/spec.md:204-205` asks for one: a model that does not answer
  keeps the process alive. `ShutdownCompletes` has the answers as its premise.
- Connecting dials one server after the other without a timeout. A sweep, if
  anything called it, would keep the lock while it dials, so that `/health` and
  the shutdown wait for a dial that hangs, and one that asked for the lock behind
  the shutdown would dial again what the shutdown is closing.
- A session's turn whose client goes away while it is recorded is in the history
  and may be stored and recalled later; one that goes away while it waits for the
  model leaves no trace (`RecordsRemembered`).
- Only the files a workflow names itself are looked at before it runs. What
  those name is found missing or invalid in the middle of the run, when earlier
  steps have had their effects, and the server then answers as for a bad request
  (400 or 404, `engine.rs:557-566`, `error.rs:65-93`).
- The command line connects the MCP servers before it notices that an input of
  the workflow is missing, and `--json workflow validate` prints text.

### Bounds

- Workflows: the families are built from terms in `MCWorkflow`, with every
  choice of references, outputs and `on_error` that the shapes allow; lists of up
  to three steps, nested two deep, loop caps to 2, attempts to 3. A step is related to the
  steps before it, its siblings, its enclosing lists and the previous iteration;
  each of these pairings occurs. A counterexample of the validator needs two or
  three steps, of the fork two children.
- Nesting: `MaxDepth` is 2 (8 in the code), so that four files can exceed it,
  reach it and stay below it; files refer to each other in every way two steps
  allow. One edit is enough to make what was validated differ from what is run.
- Sessions: three requests allow a create and two turns, a turn and a list, a
  turn and a delete, or a create, a delete and a create. Interference is between
  two tasks on one lock, or a task on one lock and two on the other;
  `sessions_list` needs four. The safety properties and `StoreSpec` are proved
  for any number. Two names let a list walk two sessions. `RecallEvents` is 1 (4
  in the code): a stored turn is recalled or has been pushed out by a newer one
  in either case. `MaxRestarts` is 1: nothing survives a restart but klams, so a
  second is like the first.
- Server: schedules share nothing but the process, and the theorems cover any
  number; requests only count as some or none. Two MCP servers let one drop
  while the other is dialled, two monitors let sweeps compete for the lock with
  a reader and the shutdown. The files are one of each kind: none, sound, with
  an unset token, with a name twice, and three that do not validate.
- Routing: chains to length three have a first, a middle and a last model; a
  fourth is another middle one. Every backend starts in any of its five states
  and `MaxChanges` is 1: a verdict becomes stale by one change. `MaxTurns` is 1
  (10 in the code): with and without a tool turn before the error.
- Front ends: what is compared or interferes is two invocations. Two things
  wrong at a time are enough to see the order of any two checks. `RecallEvents`,
  `FieldCap`, `ToolCap` and `Notice` are the code's constants; turns are well
  below the caps, cut to the field's cap, or a few of them beyond the tool's.

### Fairness

- `WorkflowEngine`: weak fairness of `Next`. The runtime polls every future
  that can go on, and every external call comes back, since HTTP calls and
  tools fail when they do not answer. Nothing is assumed of which child goes
  first, nor of a condition's outcome; loops end by their cap.
- `Sessions`: weak fairness of each request's own steps and of registration
  (`HandlerFairness`). The model and klams need not answer: `EveryRequestEnds`
  has that as its premise (`BackendFairness`), `MapNeverWaits` does without and
  has "nobody lists" instead. No one has to arrive, cancel or restart. Weak
  fairness is enough for a lock because tokio's is first come first served.
- `WorkflowNesting`: weak fairness of `Run`: a leaf comes back. Nobody has to
  edit a file.
- `Server`: weak fairness of `main`, of timers, ticks and runs, of a health check
  that has the lock, and of monitors where there are any, all of which the
  runtime polls (`FairServer`); never of signals, arrivals, drops, dials or the
  answers of the other requests, which are up to the backends. A
  dial may hang: `HealthAnswers`, `Redialled` and `ShutdownCompletes` have as
  their premise that none does for ever (`DialsReturn`), and `ShutdownCompletes`
  that the requests the signal finds in flight are answered (`RequestsReturn`).
  The monitors' fairness is that of callers the program does not have; no claim
  about the daemon as it is rests on it.
- `FrontEnds` has safety properties only: each invocation is a sequence of steps
  that ends when its backend answers.
- `ModelRouting`: weak fairness of the router's steps. Probes have a timeout;
  the completion has none of its own, so `WalkEnds` assumes that a backend which
  accepted a request answers or drops it. Backends need not change.

Deadlock is not checked: a completion, a command or a workflow's execution ends,
requests arrive once, and the process stops.

## Proofs

The theorems hold for every value of the constants. Every invariant and every
action property of a passing run is one.

Several need induction over data: over the steps of a document, a folded list, a
log, a chain of references. `SetInduction` states it for sets: `T` is what has
the property, and `LeastMember`, from the well-foundedness of `<`, gives
induction (`Induction`, `StrongInduction`, `BoundedInduction`) and the existence
of functions defined by recursion (`Recursion`). It has no assumption.

`WorkflowEngine_proofs` — for every set of parsed workflows, inputs and names:
`TypeCorrect`, `ReferencesAlwaysResolve`, `OutputsAlwaysComplete`,
`StructuredConcurrency` (`NoOrphan`), `SiblingsIsolated`, `NoEarlyAbort`
(`ChildrenRunToCompletion`). That references resolve is not inductive: a step
may refer to what a list several levels up defined, in another task. The
invariant `IInv` adds that a workflow was accepted before it was loaded, that
every task's context holds the validator's scope at the place it has reached
(`Carried`: `ControlOK` for where it can be, `ScopesHeld` for what is defined
there), and `NoOrphan`, which is what makes a fork's snapshot still valid at
the join. `HeadScope`, `NextScope` and `ListEnd` follow the validator along a
list; `Owners` ties a place to the task that can be there; one `...Keeps`
lemma per action carries the invariant; `Largest` picks the child that wrote a
name last by well-founded induction; `MergedOutputs` says what a join leaves.

`SideEffectsCounted` (`CallCounts`) needs a number that the interpreter does not
keep: how many activations of each step have begun. `CountInv` says that there
is such a count which agrees with the state, and each action of the proof says
how it changes (`Bump`). `AtMost` and `AtLeast` bound the counters of one step
against those of its children and of its successor, by where its task stands
with it (`Pos`: outside it, at it in some phase, or within it); the lower bounds
hold while nothing has failed. `Settled` makes a step of the interpreter one
obligation per step of the workflow, of which only the steps that move differ
from `Elsewhere`. At the end `BegunAtMost` and `BegunAtLeast` follow the document
from its first step inwards, multiplying by a cap at each loop
(`ProductOneMore`), by `StrongInduction`: that is what `DocumentOrder` is for.

`LatestValuesSeen` (`FreshOutsideLoopForks`) has the invariant `Newest`: a value
in the context of a task that is under way comes from the latest call of its
step, and that step belongs to this task, to one around it, or to a child
already joined. It is not inductive without the counts: without a fork inside a
loop a parallel step begins only once (`ForksOnce`), so that a child is fresh
when it starts, and no other task can call a step whose value is held.

Both invariants were also checked by TLC on the family of `workflow`, the first
with the count as a history variable, before they were proved.
Assumptions: the workflow constants are parsed trees with finitely many steps,
and the caller's inputs are names.

`Daemon_proofs` — `DaemonTypeCorrect`, `NoOverlap`, `FlagTracksRun`,
`DrainComesFirst`, for any schedules and any bound on requests. That a schedule
has one run is inductive only with `FlagOwned`: a tick fires because the flag
is free, which must mean that no run is in flight.

`WorkflowNesting_proofs` — `NestingTypeCorrect`, `NeverReentered` (`Reentry`),
`EffectsAfterLook` (`LookAhead`) and `FoundBesideParent`: a caller that runs a
file in the file's own directory never sees `RelativeToParent` violated, for any
files, references, edits and depth. The invariant says where each frame of the
stack runs (`FramesPlaced`), that it is the file its parent's step in hand names
(`FramesLinked`), and that it was found sound as it is now, while nobody has
edited anything (`FramesSound`): a leaf may then have its effect. Every step
keeps a prefix of the stack (`Keeps`) and pushes at most one frame.
`VerdictTold` (`VerdictSound`) has an invariant of its own, `NInv`: a frame that
has a frame above it waits at the step that started it (`ParentsWait`), so that
the frames are a chain of references (`FramesAway`), and every step outside the arms that a
frame has completed left room under the bound for what it refers to
(`CompletedShallow`).
`ReachSteps` solves the recursion of `Away`; `ReachThrough` follows a reference.
Assumption: `NestingAssumption`, which says what the constants are.

`Server_proofs` — `ServerIsDaemon`: the composed system implements `Daemon`, so
that `ServerNoOverlap` (`SingleRun`) follows from `NoOverlap`; and
`ServerTypeCorrect`, `OneInstance` (`SingleInstance`), `AgentHasTools`
(`ToolsRegistered`), `ConnectionsOutliveRequests`, for any configurations,
servers, readers and monitors. Who may dial is the heart of the invariant: main
while it starts up, when nobody else is there (`Startup`), then only the monitor
at the head of the queue (`DialsLocked`); what main has still to dial has no
connection yet because names are distinct (`StillToDial`); and what is on the
handle is the agent's unless somebody has yet to register it (`ToolsKnown`).
Assumptions: a configuration is a sequence of entries (`FilesAssumption`), and
main, readers and monitors are different callers (`CallersAssumption`).

`FrontEnds_proofs` — `CommandsEndClean` (`CleanExit`), `TurnsNotLost`
(`NoSilentLoss`) and `FrontEndsAgree` (`SameAnswer`), for any number of
invocations in any world. An invocation changes only what is its own
(`OthersKept`), so the invariant is a predicate of one: what it has written and
holds open at each stage (`Clean`), what klams has of it (`Kept`), and that from
its completion on it has the one result its request has in this world with
the memory it got (`Decided`, `Final`); `FinalsAgree` compares the two front ends' checks once.
`RecallsInOrder` (`RecallInOrder`) is about two lists that grow at different
times: what a prompt was shown and what klams holds by now. `RecalledTurns` says
that a search gives the last turns of the session, in order (the filtering of a
log is a recursive function, `OfSession`, solved by `PickedExists`), and
`ShownKept` that turns added later leave them a stretch without gap, because
each turn is recorded once (`EventsGrow`). `FrontEndsTypeCorrect` (`TypeOK`) goes
by the parts of an invocation: its result, its stage, its answer.
Assumptions: `KlamsAssumption`; `CasesAssumption`: the directory makes no
difference to a workflow in the root or one that names no other file, only the
prompt command has `--no-tools` and `--stream`, and a server which answers has
loaded its registry and its MCP configuration; and
`KnownAssumption`: what a request does is of a kind the front ends have, and the
world answers with the codes of `MvError`.

`Sessions_proofs` — `SessionsTypeCorrect`, `TurnsSeeEverything`
(`ContextCurrent`), `RecordsAreExchanges` (`RecordsRemembered`) and
`EndpointsImplementStore` (`StoreSpec`), for any requests, names, recall depth
and number of restarts. A turn's context is current because it holds its
session's lock from `Start` on (`Owner`); a lock is a queue, so the lemmas
`WithoutHead` and `AppendHead` say that neither waiting, leaving nor being
dropped takes it from its holder. `Kept` ties every entry of a history to a turn
of that session that has got its reply, so that what an answered turn saw never
changes again (`SeenKept`), which the refinement mapping needs. `Gone`, `Onward`,
`Calm` and `Quiet` carry the conjuncts that most actions do not disturb. Each
action is then a step of the store or none: `CreateEntry` opens, `DeleteEntry`
closes, `Reply` is the exchange, everything else but `Restart` stutters.

`ModelRouting_proofs` — `RoutingTypeCorrect`, `WalkAccounts`, `DeadNeverAsked`,
`SteadyNeverPassedOver` (`SteadyAsked`) and `ChainInOrder` (`ChainOrder`), for any registry, seeds, turn
limit and any changes of the backends. The invariant adds that a backend's
history holds its present state (`Remembered`), that the model in hand has
passed the probe it has at each stage (`Probed`), and that a usable model
was asked before it was given up (`GivenUpAsked`): histories only grow, so a
change of a backend cannot undo either. `BuildChain` is a fold of `AddNew` over the
listed models: `FoldExists` solves its recursion, and `OrderedStep` keeps, from
one listed model to the next, that the chain so far has what was listed so far,
each once and by its first place (`FirstListed`). That a chain is a sequence of
models, which the other theorems rest on, is then a lemma (`ChainTyped`).
Assumption: `RoutingAssumptions`, which says what a loaded registry is.

Model-checked only: every liveness property (`Terminates`, `WalkEnds`,
`EveryRequestEnds`, `MapNeverWaits`, `KeepsFiring`, `ShutdownCompletes`,
`HealthAnswers`): the prover has no rules for fairness.

## Not modelled

The text of workflow files, templates and schedules (a file is missing, broken
or loaded; a template is the names it refers to), the transforms, the bodies of
the built-in tools, stop sequences and token counts of the TensorRT-LLM client,
listing models, telemetry and wording: none has state that outlives a call, and
unit tests reach them. The backoff between sweeps (`manager.rs:42-77`), which
nothing calls, and the search by meaning in klams (`memory_search`), which no
session is tied to. Panics, memory limits and the clock itself (only the order of
ticks matters) are left out. The klams server, MCP servers, hyper and tokio are
modelled from how the code uses them.

## Plan

1. `Server` with `Sessions` as its requests and the engine's executions as the
   scheduler's runs, so that a run's calls meet the connections that close.
2. `ModelRouting` as the engine's prompt executor: what the engine's retries do
   with a walk that failed.
3. Further proofs: abstract specifications for the engine and the routing, as
   `SessionStore` is for the sessions, and that the modules implement them.
