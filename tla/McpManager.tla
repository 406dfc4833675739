------------------------------ MODULE McpManager ------------------------------
(***************************************************************************)
(* The MCP connections of a process (crates/mv-core/src/mcp): the loading  *)
(* and validation of the configuration, the bulk connect at startup, the   *)
(* readers of the connection map (live_servers, behind GET /health), the   *)
(* sweep that reconnects dead servers, the registration of tools and the   *)
(* bounded shutdown.                                                       *)
(*                                                                         *)
(* The map is behind a tokio mutex, which is first come first served: the  *)
(* queue of the callers that asked for it, whose head holds it.  A dial is *)
(* under way while its caller stands at an entry of the configuration; it  *)
(* may succeed, fail, or hang.  The module has no specification of its     *)
(* own: Server composes it with the daemon that owns the manager.          *)
(*                                                                         *)
(* RegisteredAll, ReapUnlocked, EndSweepSilent and EndSweepRetries are     *)
(* slips the properties must catch; nothing in the specification uses      *)
(* them.                                                                   *)
(***************************************************************************)
EXTENDS Naturals, Sequences, Functions

CONSTANTS
  McpServers,  \* names of MCP servers
  Files,       \* mcp-servers.yaml: sequences of entries; <<>> stands for no file
  Offers,      \* the tools each server offers
  Hidden,      \* tool names kept for the built-in tools, or too close to them
  Readers,     \* callers of live_servers
  Monitors     \* callers of reconnect_dead

\* A configuration file that parses; the names in it need not be distinct.
ASSUME FilesAssumption ==
  Files \subseteq
    Seq([name : McpServers, transport : {"stdio", "http"}, command : BOOLEAN,
         url : BOOLEAN, token : {"none", "set", "unset"}])

ASSUME CallersAssumption ==
  /\ "main" \notin Readers \cup Monitors
  /\ Readers \cap Monitors = {}

VARIABLES
  config,   \* the file the process was started with
  startup,  \* how far McpManager::connect has come
  link,     \* per server: its entry in the map of connections
  queue,    \* the mutex of the map
  at,       \* per caller: where it is
  index,    \* per caller: the entry a connect or a sweep has reached
  fresh,    \* callers that connected a server since they began
  closing,  \* connections taken from the map by shutdown, not yet cancelled
  known,    \* tools on the handle the servers connect to
  agent     \* MCP tools on the agent's handle

mcpVars == <<config, startup, link, queue, at, index, fresh, closing, known,
             agent>>

\* The process's main task, which connects and shuts down.
Callers == Readers \cup Monitors \cup {"main"}

\* McpServersConfig::validate.
Valid(entries) ==
  /\ \A i, j \in DOMAIN entries :
       entries[i].name = entries[j].name => i = j
  /\ \A e \in Range(entries) :
       IF e.transport = "stdio"
       THEN e.command /\ e.token = "none"
       ELSE e.url

\* What connect_one needs of an entry before it reaches the server: the
\* environment variable of a bearer token must be set when it is dialled.
Dialable(e) ==
  IF e.transport = "stdio" THEN e.command ELSE e.url /\ e.token # "unset"

McpInit ==
  /\ config \in Files
  /\ startup = "resolving"
  /\ link = [s \in McpServers |-> "none"]
  /\ queue = <<>>
  /\ at = [c \in Callers |-> "idle"]
  /\ index = [c \in Callers |-> 1]
  /\ fresh = {}
  /\ closing = {}
  /\ known = {}
  /\ agent = {}

-----------------------------------------------------------------------------
\* The lock and the network

HasLock(c) == queue # <<>> /\ Head(queue) = c /\ at[c] = "waiting"

\* The queue once c drops the guard it holds.
Freed(c) == IF queue # <<>> /\ Head(queue) = c THEN Tail(queue) ELSE queue

Ask(c) ==
  /\ at[c] = "idle"
  /\ at' = [at EXCEPT ![c] = "waiting"]
  /\ queue' = Append(queue, c)
  /\ UNCHANGED <<config, startup, link, index, fresh, closing, known, agent>>

\* A stdio server exits, an HTTP server closes the stream.
Drop(s) ==
  /\ link[s] = "open"
  /\ link' = [link EXCEPT ![s] = "closed"]
  /\ UNCHANGED <<config, startup, queue, at, index, fresh, closing, known, agent>>

\* The server caller c is dialling: connect dials every entry, a sweep those
\* that have no connection in the map.
Dialling(c, s) ==
  /\ at[c] = "dialling"
  /\ index[c] <= Len(config)
  /\ config[index[c]].name = s
  /\ c = "main" \/ link[s] = "none"

-----------------------------------------------------------------------------
\* McpManager::connect

\* The file is read and validated; none at all is an empty configuration.
Resolve ==
  /\ startup = "resolving"
  /\ Valid(config)
  /\ startup' = "dialling"
  /\ at' = [at EXCEPT !["main"] = "dialling"]
  /\ UNCHANGED <<config, link, queue, index, fresh, closing, known, agent>>

\* A bad file, or one that was named and cannot be read or parsed.
ResolveFails ==
  /\ startup = "resolving"
  /\ config # <<>>
  /\ startup' = "failed"
  /\ UNCHANGED <<config, link, queue, at, index, fresh, closing, known, agent>>

\* A sweep passes over the servers that are still connected.
PassOver(c) ==
  /\ c \in Monitors
  /\ at[c] = "dialling"
  /\ index[c] <= Len(config)
  /\ link[config[index[c]].name] # "none"
  /\ index' = [index EXCEPT ![c] = @ + 1]
  /\ UNCHANGED <<config, startup, link, queue, at, fresh, closing, known, agent>>

\* The handshake succeeded: the server's tools are on the MCP handle.
Connected(c) == \E s \in McpServers :
  /\ Dialling(c, s)
  /\ Dialable(config[index[c]])
  /\ link' = [link EXCEPT ![s] = "open"]
  /\ known' = known \cup Offers[s]
  /\ fresh' = fresh \cup {c}
  /\ index' = [index EXCEPT ![c] = @ + 1]
  /\ UNCHANGED <<config, startup, queue, at, closing, agent>>

\* Failures are logged, and the next server is dialled.
DialFails(c) == \E s \in McpServers :
  /\ Dialling(c, s)
  /\ index' = [index EXCEPT ![c] = @ + 1]
  /\ UNCHANGED <<config, startup, link, queue, at, fresh, closing, known, agent>>

RegisteredAll == agent \cup known

\* register_mcp_tools: every tool of the MCP handle but those whose names
\* are kept.
Registered == agent \cup (known \ Hidden)

\* The end of connect_with.
Ready ==
  /\ startup = "dialling"
  /\ index["main"] > Len(config)
  /\ startup' = "ready"
  /\ agent' = Registered
  /\ at' = [at EXCEPT !["main"] = "idle"]
  /\ fresh' = fresh \ {"main"}
  /\ UNCHANGED <<config, link, queue, index, closing, known>>

-----------------------------------------------------------------------------
\* live_servers and reconnect_dead

Read(c) ==
  /\ c \in Readers
  /\ HasLock(c)
  /\ at' = [at EXCEPT ![c] = "idle"]
  /\ queue' = Tail(queue)
  /\ UNCHANGED <<config, startup, link, index, fresh, closing, known, agent>>

ReapUnlocked(c) ==
  /\ c \in Monitors
  /\ HasLock(c)
  /\ link' = [s \in McpServers |-> IF link[s] = "closed" THEN "none" ELSE link[s]]
  /\ at' = [at EXCEPT ![c] = "dialling"]
  /\ queue' = Tail(queue)
  /\ index' = [index EXCEPT ![c] = 1]
  /\ UNCHANGED <<config, startup, fresh, closing, known, agent>>

\* Closed connections are dropped from the map; the lock is kept.
Reap(c) ==
  /\ c \in Monitors
  /\ HasLock(c)
  /\ link' = [s \in McpServers |-> IF link[s] = "closed" THEN "none" ELSE link[s]]
  /\ at' = [at EXCEPT ![c] = "dialling"]
  /\ index' = [index EXCEPT ![c] = 1]
  /\ UNCHANGED <<config, startup, queue, fresh, closing, known, agent>>

EndSweepSilent(c) ==
  /\ c \in Monitors
  /\ at[c] = "dialling"
  /\ index[c] > Len(config)
  /\ at' = [at EXCEPT ![c] = "idle"]
  /\ queue' = Freed(c)
  /\ fresh' = fresh \ {c}
  /\ UNCHANGED <<config, startup, link, index, closing, known, agent>>

EndSweepRetries(c) ==
  /\ c \in Monitors
  /\ at[c] = "dialling"
  /\ index[c] > Len(config)
  /\ agent' = IF c \in fresh THEN Registered ELSE agent
  /\ IF c \in fresh
     THEN /\ at' = [at EXCEPT ![c] = "idle"]
          /\ queue' = Freed(c)
          /\ UNCHANGED index
     ELSE /\ index' = [index EXCEPT ![c] = 1]
          /\ UNCHANGED <<at, queue>>
  /\ fresh' = fresh \ {c}
  /\ UNCHANGED <<config, startup, link, closing, known>>

\* Every server was passed over or dialled: tools are registered if one was
\* connected, and the lock is released.
EndSweep(c) ==
  /\ c \in Monitors
  /\ at[c] = "dialling"
  /\ index[c] > Len(config)
  /\ agent' = IF c \in fresh THEN Registered ELSE agent
  /\ at' = [at EXCEPT ![c] = "idle"]
  /\ queue' = Freed(c)
  /\ fresh' = fresh \ {c}
  /\ UNCHANGED <<config, startup, link, index, closing, known>>

-----------------------------------------------------------------------------
\* shutdown

\* The map is emptied and the lock released; all cancels start together.
Drain ==
  /\ HasLock("main")
  /\ closing' = {s \in McpServers : link[s] # "none"}
  /\ link' = [s \in McpServers |-> "none"]
  /\ at' = [at EXCEPT !["main"] = "closing"]
  /\ queue' = Tail(queue)
  /\ UNCHANGED <<config, startup, index, fresh, known, agent>>

\* A cancel ends, or is abandoned after SHUTDOWN_TIMEOUT.
Cancelled(s) ==
  /\ s \in closing
  /\ closing' = closing \ {s}
  /\ UNCHANGED <<config, startup, link, queue, at, index, fresh, known, agent>>

ShutDown == at["main"] = "closing" /\ closing = {}

-----------------------------------------------------------------------------
\* The steps of a caller that holds the lock or is connecting; a dial is not
\* among them, since it may hang.
CallerStep(c) == Reap(c) \/ PassOver(c) \/ EndSweep(c)

Dial(c) == Connected(c) \/ DialFails(c)

McpTypeOK ==
  /\ config \in Files
  /\ startup \in {"resolving", "dialling", "ready", "failed"}
  /\ link \in [McpServers -> {"none", "open", "closed"}]
  /\ queue \in Seq(Callers)
  /\ at \in [Callers -> {"idle", "waiting", "dialling", "closing"}]
  /\ index \in [Callers -> Nat]
  /\ fresh \subseteq Callers
  /\ closing \subseteq McpServers
  /\ known \subseteq UNION {Offers[s] : s \in McpServers}
  /\ agent \subseteq known \ Hidden
=============================================================================
