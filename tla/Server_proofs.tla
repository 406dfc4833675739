----------------------------- MODULE Server_proofs -----------------------------
(***************************************************************************)
(* Proofs about Server, for any schedules, MCP servers, configurations,    *)
(* readers and monitors.                                                   *)
(*                                                                         *)
(* Server implements Daemon: what the MCP manager adds is a stutter of the *)
(* daemon, or is done within one of its steps.  Its own invariant is who   *)
(* may dial: main while it starts up, later only the monitor that holds    *)
(* the lock of the connections.                                            *)
(***************************************************************************)
EXTENDS Server, Daemon_proofs, SequenceTheorems

Entries ==
  [name : McpServers, transport : {"stdio", "http"}, command : BOOLEAN,
   url : BOOLEAN, token : {"none", "set", "unset"}]

\* Before the daemon is up, main is the only caller.
Startup ==
  /\ startup # "ready" => \A c \in Readers \cup Monitors : at[c] = "idle"
  /\ at["main"] = "dialling" <=> startup = "dialling"
  /\ startup = "resolving" => \A s \in McpServers : link[s] = "none"
  /\ index["main"] # 0

\* Nobody but main and monitors dials, and a monitor does so under the lock.
DialsLocked ==
  \A c \in Callers \ {"main"} :
    at[c] = "dialling" => c \in Monitors /\ queue # <<>> /\ Head(queue) = c

\* What main has still to connect has no connection yet.
StillToDial ==
  startup = "dialling" =>
    /\ Valid(config)
    /\ \A k \in 1..Len(config) :
         index["main"] <= k => link[config[k].name] = "none"

\* The tools of every connection are on the handle; they are the agent's too,
\* unless somebody has yet to register those of a connection just made.
ToolsKnown ==
  /\ \A s \in McpServers : link[s] # "none" => Offers[s] \subseteq known
  /\ \A c \in fresh : at[c] = "dialling"
  /\ fresh = {} /\ (\E s \in McpServers : link[s] # "none") =>
       known \ Hidden \subseteq agent

Inv == McpTypeOK /\ Startup /\ DialsLocked /\ StillToDial /\ ToolsKnown

-----------------------------------------------------------------------------
\* The daemon in the server

LEMMA InitRefines == ServerInit => Init
BY DEF ServerInit

LEMMA StepRefines == [ServerNext]_serverVars => [Next]_vars
<1> SUFFICES ASSUME ServerNext PROVE [Next]_vars
  BY DEF serverVars, vars
<1>1. CASE MainTask
  <2>1. CASE Connecting \/ Closing
    BY <2>1 DEF Connecting, Closing
  <2>2. CASE StartFails \/ BindFailure
    BY <2>2 DEF StartFails, BindFailure, BindFails, Next, Main
  <2>3. CASE Serving
    BY <2>3 DEF Serving, Next, Main
  <2>4. CASE Close \/ Finish
    BY <2>4 DEF Close, Finish, Next, Main
  <2> QED
    BY <1>1, <2>1, <2>2, <2>3, <2>4 DEF MainTask
<1>2. CASE Signalled \/ AcceptOther \/ RespondOther
  BY <1>2 DEF Signalled, AcceptOther, RespondOther, Next
<1>3. ASSUME NEW r \in Readers, AcceptHealth(r) \/ RespondHealth(r)
      PROVE  [Next]_vars
  BY <1>3 DEF AcceptHealth, RespondHealth, Next
<1>4. ASSUME NEW s \in Schedules, Loop(s) \/ Run(s)
      PROVE  [Next]_vars
  BY <1>4 DEF Loop, Run, Next
<1>5. ASSUME NEW m \in Monitors, Monitor(m)
      PROVE  [Next]_vars
  BY <1>5 DEF Monitor
<1>6. CASE Network
  BY <1>6 DEF Network
<1> QED
  BY <1>1, <1>2, <1>3, <1>4, <1>5, <1>6 DEF ServerNext

\* The server is a daemon: whatever its connections do, its scheduler, requests
\* and teardown behave as Daemon says (main.rs:44-90).
THEOREM ServerIsDaemon == ServerSpec => Spec
BY InitRefines, StepRefines, PTL DEF ServerSpec, Spec

\* Skip-on-overlap in the whole server (scheduler.rs:140-160).
THEOREM ServerNoOverlap == ServerSpec => []SingleRun
BY ServerIsDaemon, NoOverlap, PTL

-----------------------------------------------------------------------------
\* The manager's steps

LEMMA CallersDistinct ==
  /\ "main" \in Callers /\ "main" \notin Readers \cup Monitors
  /\ Monitors \subseteq Callers /\ Readers \subseteq Callers
  /\ \A c \in Callers : c # "main" => c \in Readers \cup Monitors
BY CallersAssumption DEF Callers

Places == {"idle", "waiting", "dialling", "closing"}

LEMMA AtMoves ==
  ASSUME McpTypeOK, NEW c \in Callers, NEW place \in Places,
         at' = [at EXCEPT ![c] = place]
  PROVE  /\ at' \in [Callers -> Places]
         /\ at'[c] = place
         /\ \A d \in Callers : d # c => at'[d] = at[d]
BY DEF McpTypeOK, Places

LEMMA ConfigType ==
  ASSUME McpTypeOK
  PROVE  /\ config \in Seq(Entries)
         /\ Len(config) \in Nat
         /\ \A k \in 1..Len(config) : config[k].name \in McpServers
<1>1. config \in Seq(Entries)
  BY FilesAssumption DEF McpTypeOK, Entries
<1>2. \A k \in 1..Len(config) : config[k] \in Entries
  BY <1>1, ElementOfSeq
<1> QED
  BY <1>1, <1>2, LenProperties DEF Entries

\* Whoever has the lock and does not dial keeps everybody from dialling.
LEMMA HolderAlone ==
  ASSUME Inv, NEW c, HasLock(c)
  PROVE  \A m \in Callers \ {"main"} : at[m] # "dialling"
<1> SUFFICES ASSUME NEW m \in Callers \ {"main"}, at[m] = "dialling"
             PROVE  FALSE
  OBVIOUS
<1>1. Head(queue) = m
  BY DEF Inv, DialsLocked
<1>2. Head(queue) = c /\ at[c] = "waiting"
  BY DEF HasLock
<1>3. at[m] = "waiting"
  BY <1>1, <1>2
<1> QED
  BY <1>3

LEMMA AskKeeps ==
  ASSUME Inv, NEW c \in Callers, Ask(c), startup = "ready" \/ c = "main"
  PROVE  Inv'
<1>1. McpTypeOK'
  BY AppendProperties DEF Ask, Inv, McpTypeOK
<1> "waiting" \in Places
  BY DEF Places
<1>0. at'[c] = "waiting" /\ at[c] = "idle" /\ \A d \in Callers : d # c => at'[d] = at[d]
  BY AtMoves DEF Ask, Inv
<1>2. Startup'
  <2>1. at'["main"] = "dialling" <=> at["main"] = "dialling"
    BY <1>0, CallersDistinct
  <2>2. startup # "ready" => \A d \in Readers \cup Monitors : at'[d] = at[d]
    BY <1>0, CallersDistinct
  <2> QED
    BY <2>1, <2>2 DEF Ask, Inv, Startup
<1>3. DialsLocked'
  <2>1. queue # <<>> => queue' # <<>> /\ Head(queue') = Head(queue)
    BY DEF Ask, Inv, McpTypeOK
  <2>2. \A m \in Callers \ {"main"} : at'[m] = "dialling" => at[m] = "dialling"
    BY <1>0, CallersDistinct
  <2> QED
    BY <2>1, <2>2 DEF Inv, DialsLocked
<1>4. StillToDial'
  BY DEF Ask, Inv, StillToDial
<1>5. ToolsKnown'
  <2>1. \A d \in fresh : at'[d] = "dialling"
    BY <1>0 DEF Inv, ToolsKnown, McpTypeOK
  <2> QED
    BY <2>1 DEF Ask, Inv, ToolsKnown
<1> QED
  BY <1>1, <1>2, <1>3, <1>4, <1>5 DEF Inv

LEMMA DropKeeps ==
  ASSUME Inv, NEW s \in McpServers, Drop(s)
  PROVE  Inv'
<1>1. McpTypeOK'
  BY DEF Drop, Inv, McpTypeOK
<1>2. \A t \in McpServers : link'[t] = "none" <=> link[t] = "none"
  BY DEF Drop, Inv, McpTypeOK
<1>3. Startup' /\ DialsLocked'
  BY <1>2 DEF Drop, Inv, Startup, DialsLocked
<1>4. StillToDial'
  BY <1>2, ConfigType DEF Drop, Inv, StillToDial
<1>5. ToolsKnown'
  BY <1>2 DEF Drop, Inv, ToolsKnown
<1> QED
  BY <1>1, <1>3, <1>4, <1>5 DEF Inv

LEMMA ResolveKeeps ==
  ASSUME Inv, Resolve \/ ResolveFails
  PROVE  Inv'
<1>1. CASE Resolve
  <2> "dialling" \in Places
    BY DEF Places
  <2>1. /\ at'["main"] = "dialling"
        /\ \A d \in Callers : d # "main" => at'[d] = at[d]
        /\ at' \in [Callers -> Places]
    BY <1>1, AtMoves, CallersDistinct DEF Resolve, Inv
  <2>2. McpTypeOK'
    <3>1. UNCHANGED <<config, link, queue, index, fresh, closing, known, agent>>
      BY <1>1 DEF Resolve
    <3>2. startup' = "dialling"
      BY <1>1 DEF Resolve
    <3> QED
      BY <2>1, <3>1, <3>2 DEF Inv, McpTypeOK, Places
  <2>3. \A d \in Readers \cup Monitors : at'[d] = at[d]
    BY <2>1, CallersDistinct
  <2>4. Startup' /\ DialsLocked'
    BY <1>1, <2>1, <2>3 DEF Resolve, Inv, Startup, DialsLocked
  <2>5. StillToDial'
    BY <1>1, ConfigType DEF Resolve, Inv, Startup, StillToDial
  <2>6. \A d \in fresh : at'[d] = "dialling"
    BY <2>1 DEF Inv, ToolsKnown, McpTypeOK
  <2>7. ToolsKnown'
    BY <1>1, <2>6 DEF Resolve, Inv, ToolsKnown
  <2> QED
    BY <2>2, <2>4, <2>5, <2>7 DEF Inv
<1>2. CASE ResolveFails
  <2>1. McpTypeOK'
    BY <1>2 DEF ResolveFails, Inv, McpTypeOK
  <2>2. Startup' /\ DialsLocked' /\ StillToDial' /\ ToolsKnown'
    BY <1>2 DEF ResolveFails, Inv, Startup, DialsLocked, StillToDial, ToolsKnown
  <2> QED
    BY <2>1, <2>2 DEF Inv
<1> QED
  BY <1>1, <1>2

\* Moving on in the file without a connection: a failed dial, a server passed.
LEMMA IndexMoves ==
  ASSUME Inv, NEW c \in Callers, index' = [index EXCEPT ![c] = @ + 1],
         UNCHANGED <<config, startup, link, queue, at, fresh, closing, known,
                     agent>>
  PROVE  Inv'
<1>1. index' \in [Callers -> Nat] /\ index'["main"] >= index["main"]
  BY CallersDistinct DEF Inv, McpTypeOK
<1>2. index["main"] \in Nat
  BY CallersDistinct DEF Inv, McpTypeOK
<1>3. McpTypeOK'
  BY <1>1 DEF Inv, McpTypeOK
<1>4. Startup'
  BY <1>1, <1>2 DEF Inv, Startup
<1>5. DialsLocked' /\ ToolsKnown'
  BY DEF Inv, DialsLocked, ToolsKnown
<1>6. StillToDial'
  <2> SUFFICES ASSUME startup = "dialling"
               PROVE  /\ Valid(config)
                      /\ \A k \in 1..Len(config) :
                           index'["main"] <= k => link[config[k].name] = "none"
    BY DEF StillToDial, Valid
  <2>1. Len(config) \in Nat
    BY ConfigType DEF Inv
  <2>2. \A k \in 1..Len(config) : index'["main"] <= k => index["main"] <= k
    BY <1>1, <1>2, <2>1, SMT
  <2> QED
    BY <2>2 DEF Inv, StillToDial
<1> QED
  BY <1>3, <1>4, <1>5, <1>6 DEF Inv

\* A connection is made: nobody else has one to the server, and main does not
\* come to it again.
LEMMA ConnectedKeeps ==
  ASSUME Inv, NEW c \in Callers, Connected(c)
  PROVE  Inv'
<1>1. PICK s \in McpServers :
        /\ Dialling(c, s)
        /\ link' = [link EXCEPT ![s] = "open"]
        /\ known' = known \cup Offers[s]
        /\ fresh' = fresh \cup {c}
        /\ index' = [index EXCEPT ![c] = @ + 1]
        /\ UNCHANGED <<config, startup, queue, at, closing, agent>>
  BY DEF Connected
<1>2. at[c] = "dialling" /\ index[c] <= Len(config) /\ config[index[c]].name = s
  BY <1>1 DEF Dialling
<1>3. /\ index' \in [Callers -> Nat]
      /\ index["main"] \in Nat /\ index'["main"] \in Nat
      /\ index'["main"] = IF c = "main" THEN index["main"] + 1 ELSE index["main"]
  BY <1>1, CallersDistinct DEF Inv, McpTypeOK
<1>4. link'[s] = "open" /\ \A t \in McpServers : t # s => link'[t] = link[t]
  BY <1>1 DEF Inv, McpTypeOK
<1>5. McpTypeOK'
  <2>1. link' \in [McpServers -> {"none", "open", "closed"}]
    BY <1>1 DEF Inv, McpTypeOK
  <2>2. known' \subseteq UNION {Offers[t] : t \in McpServers}
    BY <1>1, Zenon DEF Inv, McpTypeOK
  <2>3. agent \subseteq known' \ Hidden
    BY <1>1 DEF Inv, McpTypeOK
  <2> QED
    BY <1>1, <1>3, <2>1, <2>2, <2>3 DEF Inv, McpTypeOK
<1>6. startup # "resolving"
  BY <1>2, CallersDistinct DEF Inv, Startup
<1>7. Startup'
  BY <1>1, <1>3, <1>6 DEF Inv, Startup
<1>8. DialsLocked'
  BY <1>1 DEF Inv, DialsLocked
<1>9. StillToDial'
  <2> SUFFICES ASSUME startup = "dialling"
               PROVE  /\ Valid(config)
                      /\ \A k \in 1..Len(config) :
                           index'["main"] <= k => link'[config[k].name] = "none"
    BY <1>1 DEF StillToDial, Valid
  <2>1. c = "main"
    BY <1>2, CallersDistinct DEF Inv, Startup
  <2>2. Len(config) \in Nat /\ config \in Seq(Entries)
    BY ConfigType DEF Inv
  <2>3. index["main"] \in 1..Len(config) /\ DOMAIN config = 1..Len(config)
    BY <1>2, <1>3, <2>1, <2>2 DEF Inv, Startup
  <2>4. Valid(config)
    BY DEF Inv, StillToDial
  <2>5. \A k \in 1..Len(config) :
          index'["main"] <= k => k # index["main"] /\ index["main"] <= k
    BY <1>3, <2>1, <2>2
  <2>6. \A k \in 1..Len(config) : k # index["main"] => config[k].name # s
    BY <1>2, <2>1, <2>3, <2>4 DEF Valid
  <2>7. \A k \in 1..Len(config) : config[k].name \in McpServers
    BY ConfigType DEF Inv
  <2>8. \A k \in 1..Len(config) :
          index["main"] <= k => link[config[k].name] = "none"
    BY DEF Inv, StillToDial
  <2> QED
    BY <1>4, <2>4, <2>5, <2>6, <2>7, <2>8
<1>10. ToolsKnown'
  <2>1. \A t \in McpServers : link'[t] # "none" => Offers[t] \subseteq known'
    BY <1>1, <1>4 DEF Inv, ToolsKnown
  <2>2. (\A d \in fresh' : at'[d] = "dialling") /\ fresh' # {}
    BY <1>1, <1>2 DEF Inv, ToolsKnown
  <2> QED
    BY <2>1, <2>2 DEF ToolsKnown
<1> QED
  BY <1>5, <1>7, <1>8, <1>9, <1>10 DEF Inv

\* While main connects, nobody else dials: what it registers is all there is.
LEMMA ReadyKeeps ==
  ASSUME Inv, Ready
  PROVE  Inv'
<1> "idle" \in Places
  BY DEF Places
<1>1. /\ at'["main"] = "idle"
      /\ \A d \in Callers : d # "main" => at'[d] = at[d]
      /\ at' \in [Callers -> Places]
  BY AtMoves, CallersDistinct DEF Ready, Inv
<1>2. \A d \in Readers \cup Monitors : at'[d] = at[d] /\ at[d] = "idle"
  BY <1>1, CallersDistinct DEF Ready, Inv, Startup
<1>3. McpTypeOK'
  <2>1. /\ startup' = "ready"
        /\ fresh' = fresh \ {"main"}
        /\ agent' = agent \cup (known \ Hidden)
        /\ UNCHANGED <<config, link, queue, index, closing, known>>
    BY DEF Ready, Registered
  <2> QED
    BY <1>1, <2>1 DEF Inv, McpTypeOK, Places
<1>4. Startup' /\ DialsLocked' /\ StillToDial'
  BY <1>1, <1>2 DEF Ready, Inv, Startup, DialsLocked, StillToDial
<1>5. ToolsKnown'
  <2>1. fresh' = {}
    <3>1. \A d \in fresh : d \in Callers /\ at[d] = "dialling"
      BY DEF Inv, ToolsKnown, McpTypeOK
    <3>2. \A d \in fresh : d = "main"
      BY <1>2, <3>1, CallersDistinct
    <3> QED
      BY <3>2 DEF Ready
  <2>2. known' \ Hidden \subseteq agent'
    BY DEF Ready, Registered
  <2>3. link' = link /\ known' = known
    BY DEF Ready
  <2> QED
    BY <2>1, <2>2, <2>3 DEF Inv, ToolsKnown
<1> QED
  BY <1>3, <1>4, <1>5 DEF Inv

\* A caller that does not dial leaves the queue, or main gives its place up:
\* no monitor dials, before or after.
LEMMA LeaveKeeps ==
  ASSUME Inv, NEW c \in Callers, HasLock(c),
         NEW place \in {"idle", "closing"},
         at' = [at EXCEPT ![c] = place], queue' = Tail(queue),
         link' \in {link, [s \in McpServers |-> "none"]},
         closing' \subseteq McpServers,
         UNCHANGED <<config, startup, index, fresh, known, agent>>
  PROVE  Inv'
<1> place \in Places
  BY DEF Places
<1>1. /\ at'[c] = place
      /\ \A d \in Callers : d # c => at'[d] = at[d]
      /\ at' \in [Callers -> Places]
  BY AtMoves DEF Inv
<1>2. at[c] = "waiting" /\ queue # <<>>
  BY DEF HasLock
<1>3. \A s \in McpServers : link'[s] # "none" => link'[s] = link[s]
  OBVIOUS
<1>4. McpTypeOK'
  <2>1. link' \in [McpServers -> {"none", "open", "closed"}]
    BY DEF Inv, McpTypeOK
  <2>2. queue' \in Seq(Callers)
    BY <1>2, HeadTailProperties DEF Inv, McpTypeOK
  <2> QED
    BY <1>1, <2>1, <2>2 DEF Inv, McpTypeOK, Places
<1>5. Startup'
  <2>1. at'["main"] = "dialling" <=> at["main"] = "dialling"
    BY <1>1, <1>2, CallersDistinct
  <2>2. \A d \in Readers \cup Monitors : at[d] = "idle" => at'[d] = "idle"
    BY <1>1, <1>2, CallersDistinct
  <2>3. \A s \in McpServers : link[s] = "none" => link'[s] = "none"
    BY <1>3
  <2> QED
    BY <2>1, <2>2, <2>3 DEF Inv, Startup
<1>6. DialsLocked'
  <2>1. \A m \in Callers \ {"main"} : at'[m] # "dialling"
    BY <1>1, HolderAlone, CallersDistinct
  <2> QED
    BY <2>1 DEF DialsLocked
<1>7. StillToDial'
  <2>1. \A k \in 1..Len(config) :
          link[config[k].name] = "none" => link'[config[k].name] = "none"
    BY <1>3, ConfigType DEF Inv
  <2> QED
    BY <2>1 DEF Inv, StillToDial, Valid
<1>8. ToolsKnown'
  <2>1. \A s \in McpServers : link'[s] # "none" => link[s] # "none"
    BY <1>3
  <2>2. \A d \in fresh : at'[d] = "dialling"
    BY <1>1, <1>2 DEF Inv, ToolsKnown, McpTypeOK
  <2> QED
    BY <2>1, <2>2 DEF Inv, ToolsKnown
<1> QED
  BY <1>4, <1>5, <1>6, <1>7, <1>8 DEF Inv

LEMMA ReadKeeps ==
  ASSUME Inv, NEW c \in Callers, Read(c)
  PROVE  Inv'
BY LeaveKeeps DEF Read, Inv, McpTypeOK

LEMMA DrainKeeps ==
  ASSUME Inv, Drain
  PROVE  Inv'
BY LeaveKeeps, CallersDistinct DEF Drain

LEMMA CancelledKeeps ==
  ASSUME Inv, NEW s \in McpServers, Cancelled(s)
  PROVE  Inv'
<1>1. McpTypeOK'
  BY DEF Cancelled, Inv, McpTypeOK
<1> QED
  BY <1>1 DEF Cancelled, Inv, Startup, DialsLocked, StillToDial, ToolsKnown, Valid

\* The sweep begins with the lock.
LEMMA ReapKeeps ==
  ASSUME Inv, startup = "ready", NEW c \in Monitors, Reap(c)
  PROVE  Inv'
<1> "dialling" \in Places
  BY DEF Places
<1>1. /\ at'[c] = "dialling"
      /\ \A d \in Callers : d # c => at'[d] = at[d]
      /\ at' \in [Callers -> Places]
  BY AtMoves, CallersDistinct DEF Reap, Inv
<1>2. at[c] = "waiting" /\ queue # <<>> /\ Head(queue) = c
  BY DEF Reap, HasLock
<1>3. \A s \in McpServers :
        link'[s] = IF link[s] = "closed" THEN "none" ELSE link[s]
  BY DEF Reap
<1>4. McpTypeOK'
  <2>1. link' \in [McpServers -> {"none", "open", "closed"}]
    BY DEF Reap, Inv, McpTypeOK
  <2>2. index' \in [Callers -> Nat]
    BY DEF Reap, Inv, McpTypeOK
  <2>3. UNCHANGED <<config, startup, queue, fresh, closing, known, agent>>
    BY DEF Reap
  <2> QED
    BY <1>1, <2>1, <2>2, <2>3 DEF Inv, McpTypeOK, Places
<1>5. Startup'
  <2>1. at'["main"] = at["main"]
    BY <1>1, CallersDistinct
  <2>2. index'["main"] = index["main"]
    BY CallersDistinct DEF Reap, Inv, McpTypeOK
  <2> QED
    BY <2>1, <2>2 DEF Reap, Inv, Startup
<1>6. DialsLocked'
  <2>1. \A m \in Callers \ {"main"} : m # c => at'[m] # "dialling"
    BY <1>1, HolderAlone, CallersDistinct DEF Reap
  <2> QED
    BY <1>2, <2>1 DEF Reap, DialsLocked
<1>7. StillToDial'
  BY DEF Reap, StillToDial
<1>8. ToolsKnown'
  <2>1. \A s \in McpServers : link'[s] # "none" => link[s] # "none"
    BY <1>3
  <2>2. \A d \in fresh : at'[d] = "dialling"
    BY <1>1 DEF Inv, ToolsKnown, McpTypeOK
  <2> QED
    BY <2>1, <2>2 DEF Reap, Inv, ToolsKnown
<1> QED
  BY <1>4, <1>5, <1>6, <1>7, <1>8 DEF Inv

\* The sweep was the only one to dial: if it connected a server it registers
\* the tools, and if it did not there is none to register.
LEMMA EndSweepKeeps ==
  ASSUME Inv, startup = "ready", NEW c \in Monitors, EndSweep(c)
  PROVE  Inv'
<1> "idle" \in Places
  BY DEF Places
<1>1. /\ at'[c] = "idle"
      /\ \A d \in Callers : d # c => at'[d] = at[d]
      /\ at' \in [Callers -> Places]
  BY AtMoves, CallersDistinct DEF EndSweep, Inv
<1>2. at[c] = "dialling" /\ queue # <<>> /\ Head(queue) = c
  BY CallersDistinct DEF EndSweep, Inv, DialsLocked
<1>3. \A d \in Callers : at[d] = "dialling" => d = c
  <2> SUFFICES ASSUME NEW d \in Callers, at[d] = "dialling" PROVE d = c
    OBVIOUS
  <2>1. d # "main"
    BY DEF Inv, Startup
  <2> QED
    BY <1>2, <2>1 DEF Inv, DialsLocked
<1>4. McpTypeOK'
  <2>1. queue' \in Seq(Callers)
    BY <1>2, HeadTailProperties DEF EndSweep, Freed, Inv, McpTypeOK
  <2>2. agent' \subseteq known \ Hidden
    BY DEF EndSweep, Registered, Inv, McpTypeOK
  <2>3. fresh' \subseteq Callers
    BY DEF EndSweep, Inv, McpTypeOK
  <2>4. UNCHANGED <<config, startup, link, index, closing, known>>
    BY DEF EndSweep
  <2> QED
    BY <1>1, <2>1, <2>2, <2>3, <2>4 DEF Inv, McpTypeOK, Places
<1>5. Startup'
  <2>1. at'["main"] = at["main"]
    BY <1>1, CallersDistinct
  <2> QED
    BY <2>1 DEF EndSweep, Inv, Startup
<1>6. DialsLocked'
  <2>1. \A m \in Callers \ {"main"} : at'[m] # "dialling"
    BY <1>1, <1>3, CallersDistinct
  <2> QED
    BY <2>1 DEF DialsLocked
<1>7. StillToDial'
  BY DEF EndSweep, StillToDial
<1>8. ToolsKnown'
  <2>1. fresh \subseteq {c}
    BY <1>3 DEF Inv, ToolsKnown, McpTypeOK
  <2>2. fresh' = {}
    BY <2>1 DEF EndSweep
  <2>3. c \in fresh => known \ Hidden \subseteq agent'
    BY DEF EndSweep, Registered
  <2>4. c \notin fresh => fresh = {} /\ agent' = agent
    BY <2>1 DEF EndSweep
  <2>5. UNCHANGED <<link, known>>
    BY DEF EndSweep
  <2> QED
    BY <2>2, <2>3, <2>4, <2>5 DEF Inv, ToolsKnown
<1> QED
  BY <1>4, <1>5, <1>6, <1>7, <1>8 DEF Inv

\* The process is gone; it was up, or had not got as far as to dial.
LEMMA ExitAllKeeps ==
  ASSUME Inv, startup # "dialling", ExitAll
  PROVE  Inv'
<1>1. \A c \in Callers : at'[c] = "idle"
  BY DEF ExitAll
<1>2. \A s \in McpServers : link'[s] = "none"
  BY DEF ExitAll
<1>3. McpTypeOK'
  <2>1. at' \in [Callers -> Places] /\ queue' \in Seq(Callers)
    BY DEF ExitAll, Places
  <2>2. link' \in [McpServers -> {"none", "open", "closed"}]
    BY DEF ExitAll
  <2>3. fresh' = {} /\ closing' = {} /\ UNCHANGED <<config, startup, index, known, agent>>
    BY DEF ExitAll
  <2> QED
    BY <2>1, <2>2, <2>3 DEF Inv, McpTypeOK, Places
<1>4. Startup'
  <2>1. \A c \in Readers \cup Monitors : at'[c] = "idle"
    BY <1>1, CallersDistinct
  <2>2. at'["main"] # "dialling"
    BY <1>1, CallersDistinct
  <2> QED
    BY <1>2, <2>1, <2>2 DEF ExitAll, Inv, Startup
<1>5. DialsLocked'
  BY <1>1 DEF DialsLocked
<1>6. StillToDial'
  BY DEF ExitAll, StillToDial
<1>7. ToolsKnown'
  BY <1>2 DEF ExitAll, ToolsKnown
<1> QED
  BY <1>3, <1>4, <1>5, <1>6, <1>7 DEF Inv

-----------------------------------------------------------------------------
\* Every step of the server keeps the manager's invariant.

LEMMA DialKeeps ==
  ASSUME Inv, NEW c \in Callers, Dial(c)
  PROVE  Inv'
<1>1. CASE Connected(c)
  BY <1>1, ConnectedKeeps
<1>2. CASE DialFails(c)
  BY <1>2, IndexMoves DEF DialFails
<1> QED
  BY <1>1, <1>2 DEF Dial

LEMMA MonitorKeeps ==
  ASSUME Inv, NEW m \in Monitors, Monitor(m)
  PROVE  Inv'
<1>1. startup = "ready" /\ m \in Callers
  BY CallersDistinct DEF Monitor, Up
<1>2. CASE Ask(m)
  BY <1>1, <1>2, AskKeeps
<1>3. CASE Reap(m)
  BY <1>1, <1>3, ReapKeeps
<1>4. CASE PassOver(m)
  BY <1>1, <1>4, IndexMoves DEF PassOver
<1>5. CASE EndSweep(m)
  BY <1>1, <1>5, EndSweepKeeps
<1> QED
  BY <1>2, <1>3, <1>4, <1>5 DEF Monitor, CallerStep

LEMMA MainKeeps ==
  ASSUME Inv, MainTask
  PROVE  Inv'
<1>1. CASE Connecting
  BY <1>1, ResolveKeeps, ReadyKeeps DEF Connecting
<1>2. CASE StartFails
  BY <1>2, ResolveKeeps DEF StartFails
<1>3. CASE Serving
  BY <1>3 DEF Serving, mcpVars, Inv, McpTypeOK, Startup, DialsLocked,
              StillToDial, ToolsKnown, Valid
<1>4. CASE BindFailure
  BY <1>4, ExitAllKeeps DEF BindFailure, Up
<1>5. CASE Close
  BY <1>5, AskKeeps, CallersDistinct DEF Close
<1>6. CASE Closing
  BY <1>6, DrainKeeps, CancelledKeeps DEF Closing
<1>7. CASE Finish
  <2>1. startup # "dialling"
    BY <1>7 DEF Finish, ShutDown, Inv, Startup
  <2> QED
    BY <1>7, <2>1, ExitAllKeeps DEF Finish
<1> QED
  BY <1>1, <1>2, <1>3, <1>4, <1>5, <1>6, <1>7 DEF MainTask

LEMMA InvInductive == ServerSpec => []Inv
<1>1. ServerInit => Inv
  <2> SUFFICES ASSUME ServerInit PROVE Inv
    OBVIOUS
  <2>1. /\ \A c \in Callers : at[c] = "idle" /\ index[c] = 1
        /\ \A s \in McpServers : link[s] = "none"
    BY DEF ServerInit, McpInit
  <2>2. at["main"] = "idle" /\ index["main"] = 1
    BY <2>1, CallersDistinct
  <2>3. McpTypeOK
    BY EmptySeq DEF ServerInit, McpInit, McpTypeOK
  <2>4. Startup
    BY <2>1, <2>2, CallersDistinct DEF ServerInit, McpInit, Startup
  <2>5. DialsLocked
    BY <2>1 DEF DialsLocked
  <2>6. StillToDial
    BY DEF ServerInit, McpInit, StillToDial
  <2>7. ToolsKnown
    BY <2>1 DEF ServerInit, McpInit, ToolsKnown
  <2> QED
    BY <2>3, <2>4, <2>5, <2>6, <2>7 DEF Inv
<1>2. Inv /\ [ServerNext]_serverVars => Inv'
  <2> SUFFICES ASSUME Inv, [ServerNext]_serverVars PROVE Inv'
    OBVIOUS
  <2>1. CASE UNCHANGED mcpVars
    BY <2>1 DEF mcpVars, Inv, McpTypeOK, Startup, DialsLocked, StillToDial,
                ToolsKnown, Valid
  <2>2. CASE Signalled \/ AcceptOther \/ RespondOther
    BY <2>1, <2>2 DEF Signalled, AcceptOther, RespondOther
  <2>3. ASSUME NEW r \in Readers, AcceptHealth(r) \/ RespondHealth(r)
        PROVE  Inv'
    BY <2>3, AskKeeps, ReadKeeps, CallersDistinct
       DEF AcceptHealth, RespondHealth, Up
  <2>4. ASSUME NEW s \in Schedules, Loop(s) \/ Run(s)
        PROVE  Inv'
    BY <2>1, <2>4 DEF Loop, Run
  <2>5. CASE Network
    BY <2>5, DropKeeps, DialKeeps DEF Network
  <2> QED
    BY <2>1, <2>2, <2>3, <2>4, <2>5, MainKeeps, MonitorKeeps
       DEF ServerNext, serverVars
<1> QED
  BY <1>1, <1>2, PTL DEF ServerSpec

-----------------------------------------------------------------------------
\* The daemon's and the manager's state keep their types.
THEOREM ServerTypeCorrect == ServerSpec => []ServerTypeOK
<1>1. Inv => McpTypeOK
  BY DEF Inv
<1> QED
  BY <1>1, InvInductive, ServerIsDaemon, DaemonTypeCorrect, PTL DEF ServerTypeOK

\* A server is dialled by one caller at a time, and only while it has no
\* connection in the map, for any configuration and any number of monitors
\* (config.rs:80-85, manager.rs:117-123, 178-200).  A connection that the
\* shutdown is still closing is no longer in the map.
THEOREM OneInstance == ServerSpec => []SingleInstance
<1>1. Inv => SingleInstance
  <2> SUFFICES ASSUME Inv, NEW s \in McpServers, NEW c \in Callers,
                      Dialling(c, s)
               PROVE  /\ link[s] = "none"
                      /\ \A d \in Callers : Dialling(d, s) => d = c
    BY DEF SingleInstance
  <2>1. link[s] = "none"
    <3>1. CASE c = "main"
      <4>1. startup = "dialling" /\ index["main"] # 0
        BY <3>1 DEF Dialling, Inv, Startup
      <4>2. index["main"] \in 1..Len(config) /\ config[index["main"]].name = s
        BY <3>1, <4>1, ConfigType, CallersDistinct DEF Dialling, Inv, McpTypeOK
      <4>3. index["main"] <= index["main"]
        BY <4>2
      <4> QED
        BY <4>1, <4>2, <4>3 DEF Inv, StillToDial
    <3> QED
      BY <3>1 DEF Dialling
  <2>2. \A d \in Callers : Dialling(d, s) => d = c
    <3> SUFFICES ASSUME NEW d \in Callers, Dialling(d, s) PROVE d = c
      OBVIOUS
    <3>1. at[c] = "dialling" /\ at[d] = "dialling"
      BY DEF Dialling
    <3>2. c = "main" \/ d = "main" => c = d
      BY <3>1, CallersDistinct DEF Inv, Startup
    <3>3. c # "main" /\ d # "main" => Head(queue) = c /\ Head(queue) = d
      BY <3>1 DEF Inv, DialsLocked
    <3> QED
      BY <3>2, <3>3
  <2> QED
    BY <2>1, <2>2
<1> QED
  BY <1>1, InvInductive, PTL

\* The agent has the tools of every connected server whenever nobody dials
\* (manager.rs:137, 203-206; registry.rs:97-134).
THEOREM AgentHasTools == ServerSpec => []ToolsRegistered
<1>1. Inv => ToolsRegistered
  <2> SUFFICES ASSUME Inv, \A c \in Callers : at[c] # "dialling",
                      NEW s \in McpServers, link[s] # "none"
               PROVE  Offers[s] \ Hidden \subseteq agent
    BY DEF ToolsRegistered
  <2>1. fresh = {}
    BY DEF Inv, ToolsKnown, McpTypeOK
  <2> QED
    BY <2>1 DEF Inv, ToolsKnown
<1> QED
  BY <1>1, InvInductive, PTL

-----------------------------------------------------------------------------
\* Requests come while the daemon serves, and are answered before it goes on.
RequestsServed == requests > 0 => phase \in {"serving", "draining"}

LEMMA ServedInductive == Spec => []RequestsServed
<1>1. Init => RequestsServed
  BY DEF Init, RequestsServed
<1>2. TypeOK /\ RequestsServed /\ [Next]_vars => RequestsServed'
  <2> SUFFICES ASSUME TypeOK, RequestsServed, [Next]_vars PROVE RequestsServed'
    OBVIOUS
  <2>1. requests \in Nat
    BY MaxRequestsAssumption DEF TypeOK
  <2>2. CASE Main \/ Signal
    BY <2>1, <2>2 DEF Main, Signal, Bind, BindFails, Drained, AbortLoop, CloseMcp,
                      Stop, Exit, tasks, RequestsServed
  <2>3. CASE Accept \/ Respond
    BY <2>1, <2>3 DEF Accept, Respond, tasks, RequestsServed
  <2>4. ASSUME NEW s \in Schedules,
               Wake(s) \/ Tick(s) \/ RunReturns(s) \/ RunEnds(s)
        PROVE  RequestsServed'
    BY <2>4 DEF Wake, Tick, RunReturns, RunEnds, RequestsServed
  <2>5. CASE UNCHANGED vars
    BY <2>5 DEF vars, RequestsServed
  <2> QED
    BY <2>2, <2>3, <2>4, <2>5 DEF Next
<1> QED
  BY <1>1, <1>2, DaemonTypeCorrect, PTL DEF Spec

\* While a request is in flight no connection is taken from under it: main
\* closes them after the drain, and a sweep drops only what is closed
\* (main.rs:80-86, manager.rs:178-186).
THEOREM ConnectionsOutliveRequests == ServerSpec => RequestsKeepConnections
<1> DEFINE Keep == \A s \in McpServers : link[s] = "open" => link'[s] # "none"
<1>1. McpTypeOK /\ RequestsServed /\ [ServerNext]_serverVars
        => [requests > 0 => Keep]_serverVars
  <2> SUFFICES ASSUME McpTypeOK, RequestsServed, ServerNext, requests > 0
               PROVE  Keep
    OBVIOUS
  <2>1. phase \in {"serving", "draining"}
    BY DEF RequestsServed
  <2>2. CASE link' = link
    BY <2>2
  <2>3. CASE MainTask
    <3>1. CASE Connecting \/ StartFails \/ Serving \/ Close
      BY <2>2, <3>1 DEF Connecting, StartFails, Serving, Close, Ask, Resolve,
                        Ready, ResolveFails, mcpVars
    <3>2. ~BindFailure /\ ~Closing /\ ~Finish
      BY <2>1 DEF BindFailure, BindFails, Closing, Finish, Stop
    <3> QED
      BY <2>3, <3>1, <3>2 DEF MainTask
  <2>4. CASE Signalled \/ AcceptOther \/ RespondOther
    BY <2>2, <2>4 DEF Signalled, AcceptOther, RespondOther, mcpVars
  <2>5. ASSUME NEW r \in Readers, AcceptHealth(r) \/ RespondHealth(r)
        PROVE  Keep
    BY <2>2, <2>5 DEF AcceptHealth, RespondHealth, Ask, Read
  <2>6. ASSUME NEW s \in Schedules, Loop(s) \/ Run(s)
        PROVE  Keep
    BY <2>2, <2>6 DEF Loop, Run, mcpVars
  <2>7. ASSUME NEW m \in Monitors, Monitor(m)
        PROVE  Keep
    <3>1. CASE Reap(m)
      BY <3>1 DEF Reap
    <3>2. CASE Ask(m) \/ PassOver(m) \/ EndSweep(m)
      BY <2>2, <3>2 DEF Ask, PassOver, EndSweep
    <3> QED
      BY <2>7, <3>1, <3>2 DEF Monitor, CallerStep
  <2>8. CASE Network
    <3>1. ASSUME NEW s \in McpServers, Drop(s)
          PROVE  Keep
      BY <3>1 DEF Drop, McpTypeOK
    <3>2. ASSUME NEW c \in Callers, Connected(c)
          PROVE  Keep
      BY <3>2 DEF Connected, McpTypeOK
    <3>3. ASSUME NEW c \in Callers, DialFails(c)
          PROVE  Keep
      BY <2>2, <3>3 DEF DialFails
    <3> QED
      BY <2>8, <3>1, <3>2, <3>3 DEF Network, Dial
  <2> QED
    BY <2>3, <2>4, <2>5, <2>6, <2>7, <2>8 DEF ServerNext
<1>2. ServerSpec => [](McpTypeOK /\ RequestsServed)
  <2>1. Inv => McpTypeOK
    BY DEF Inv
  <2> QED
    BY <2>1, InvInductive, ServerIsDaemon, ServedInductive, PTL
<1> QED
  BY <1>1, <1>2, PTL DEF ServerSpec, RequestsKeepConnections
=============================================================================
