-------------------------------- MODULE Server --------------------------------
(***************************************************************************)
(* mv-server as a whole: the daemon's main task, scheduler and requests    *)
(* (Daemon) with the MCP manager they share (McpManager).                  *)
(*                                                                         *)
(* AppState::build connects the MCP servers before anything is spawned or  *)
(* bound; a GET /health is a request that waits for the map of             *)
(* connections; main shuts the manager down when the schedules' loops are  *)
(* aborted, and returns when it is done.  Monitors are the tasks that      *)
(* mcp/manager.rs:10-13 describes for the daemon; main starts none.        *)
(***************************************************************************)
EXTENDS Daemon, McpManager, FiniteSets

serverVars == <<vars, mcpVars>>

ServerInit == Init /\ McpInit

Up == startup = "ready"

-----------------------------------------------------------------------------
\* The MCP servers are connected, one after the other.
Connecting ==
  /\ phase = "binding"
  /\ Resolve \/ Ready
  /\ UNCHANGED vars

\* A configuration error ends the process before it has bound.
StartFails ==
  /\ phase = "binding"
  /\ ResolveFails
  /\ Exit

\* Dropped by the runtime with all its tasks and connections.
ExitAll ==
  /\ link' = [s \in McpServers |-> "none"]
  /\ queue' = <<>>
  /\ at' = [c \in Callers |-> "idle"]
  /\ fresh' = {}
  /\ closing' = {}
  /\ UNCHANGED <<config, startup, index, known, agent>>

Serving ==
  /\ Up
  /\ Bind \/ Drained \/ \E s \in Schedules : AbortLoop(s)
  /\ UNCHANGED mcpVars

BindFailure == Up /\ BindFails /\ ExitAll

Close == CloseMcp /\ Ask("main")

Closing ==
  /\ phase = "closing"
  /\ Drain \/ \E s \in McpServers : Cancelled(s)
  /\ UNCHANGED vars

Finish == Stop /\ ShutDown /\ ExitAll

MainTask ==
  \/ Connecting
  \/ StartFails
  \/ Serving
  \/ BindFailure
  \/ Close
  \/ Closing
  \/ Finish

Signalled == Up /\ Signal /\ UNCHANGED mcpVars

-----------------------------------------------------------------------------
\* Requests: GET /health reads the map, the others do not.

Waiting == {r \in Readers : at[r] # "idle"}

AcceptOther == Up /\ Accept /\ UNCHANGED mcpVars
RespondOther ==
  /\ Cardinality(Waiting) < requests
  /\ Respond
  /\ UNCHANGED mcpVars
AcceptHealth(r) == Up /\ Accept /\ Ask(r)
RespondHealth(r) == Respond /\ Read(r)

-----------------------------------------------------------------------------
\* The scheduler's tasks, the monitors and the network

Loop(s) == Up /\ (Wake(s) \/ Tick(s)) /\ UNCHANGED mcpVars
Run(s) == Up /\ (RunReturns(s) \/ RunEnds(s)) /\ UNCHANGED mcpVars

Monitor(m) ==
  /\ Up
  /\ phase # "stopped"
  /\ Ask(m) \/ CallerStep(m)
  /\ UNCHANGED vars

Network ==
  /\ \/ \E s \in McpServers : Drop(s)
     \/ \E c \in Callers : Dial(c)
  /\ UNCHANGED vars

ServerNext ==
  \/ MainTask
  \/ Signalled
  \/ AcceptOther
  \/ RespondOther
  \/ \E r \in Readers : AcceptHealth(r) \/ RespondHealth(r)
  \/ \E s \in Schedules : Loop(s) \/ Run(s)
  \/ \E m \in Monitors : Monitor(m)
  \/ Network

ServerSpec == ServerInit /\ [][ServerNext]_serverVars

\* The runtime polls every task that is ready, every timer fires, and a run
\* comes to its end.  A dial may hang, and so may the model that a request waits
\* for.
FairServer ==
  /\ ServerSpec
  /\ WF_serverVars(MainTask)
  /\ \A r \in Readers : WF_serverVars(RespondHealth(r))
  /\ \A s \in Schedules : WF_serverVars(Loop(s)) /\ WF_serverVars(Run(s))
  /\ \A m \in Monitors : WF_serverVars(Monitor(m))

-----------------------------------------------------------------------------
ServerTypeOK == TypeOK /\ McpTypeOK

\* No server is dialled by two callers at a time, or while it has a connection
\* in the map, which the new one would replace (config.rs:80-85,
\* manager.rs:117-123, 178-200).  Nothing is said of a connection that the
\* shutdown has taken from the map and is still closing.
SingleInstance ==
  \A s \in McpServers : \A c \in Callers :
    Dialling(c, s) =>
      /\ link[s] = "none"
      /\ \A d \in Callers : Dialling(d, s) => d = c

\* Whenever nobody dials, the agent has every tool of every server it is
\* connected to, those aside that a built-in tool stands for
\* (manager.rs:137, 203-206; registry.rs:97-134).
ToolsRegistered ==
  Up /\ (\A c \in Callers : at[c] # "dialling") =>
    \A s \in McpServers : link[s] # "none" => Offers[s] \ Hidden \subseteq agent

\* While a request is in flight, no connection is taken from under it: what is
\* open stays open unless the server itself ends it (main.rs:80-86).
RequestsKeepConnections ==
  [][requests > 0 => \A s \in McpServers :
       link[s] = "open" => link'[s] # "none"]_serverVars

\* No server leaves a handshake hanging for ever.
DialsReturn ==
  \A c \in Callers : \A s \in McpServers : []<>(~Dialling(c, s))

\* The backends let the requests that a signal finds in flight be answered.
RequestsReturn == phase = "draining" ~> requests = 0

\* A schedule of a daemon that came up goes on firing, and its runs go on
\* ending, until its task is gone (scheduler.rs:128-163).
KeepsFiring ==
  \A s \in Schedules :
    <>Up => <>(loop[s] = "gone") \/ ([]<>flag[s] /\ []<>(~flag[s]))

\* Once a signal arrived the process stops, however long the MCP servers take to
\* cancel, if the requests are answered, for the drain has no bound of its own,
\* and the monitors' dials return (main.rs:74-90, manager.rs:222-247).
ShutdownCompletes ==
  DialsReturn /\ RequestsReturn =>
    (phase = "draining" ~> phase = "stopped")

\* GET /health is answered, if no dial hangs (handlers.rs:34-41,
\* manager.rs:161-168).
HealthAnswers ==
  DialsReturn =>
    \A r \in Readers : at[r] = "waiting" ~> at[r] = "idle"

\* A server that dropped is dialled again while the daemon serves
\* (manager.rs:10-13, docs/04-mcp-integration.md:275-283), if no dial hangs.
Redialled ==
  DialsReturn =>
    \A s \in McpServers :
      link[s] = "closed" /\ phase = "serving" ~>
        phase # "serving" \/ \E c \in Callers : Dialling(c, s)
=============================================================================
