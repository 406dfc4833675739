------------------------------ MODULE Sessions ------------------------------
(***************************************************************************)
(* The session endpoints of mv-server (crates/mv-server/src/session.rs)    *)
(* over the shared SessionMap (state.rs:21-24): a map behind one mutex, and *)
(* a mutex per session.  Each request is a task; what it does between two  *)
(* await points is one step.  A tokio mutex is first come, first served:   *)
(* it is the queue of the requests that asked for it, whose head holds it. *)
(*                                                                         *)
(* A session is named by the request that created it, a turn by the        *)
(* request that asked for it.  Memory is the klams server: a record call   *)
(* under way is stored there or lost, even when its request was cut short. *)
(*                                                                         *)
(* CreateEntryBlind, StartUnlocked, ReplyRecordsOnly, ChatFailsHolding,    *)
(* ListDoneUnset and LookupHolding are slips the properties must catch;      *)
(* nothing in the specification uses them.                                 *)
(***************************************************************************)
EXTENDS Naturals, Sequences, SequencesExt

CONSTANTS
  Request,       \* the requests, each of which arrives at most once
  Name,          \* session names
  Ops,           \* the endpoints that are used
  RecallEvents,  \* how many stored turns a recall fetches
  MaxRestarts,   \* bound on the restarts of the server
  None

ASSUME SessionAssumptions ==
  /\ None \notin Request
  /\ Ops \subseteq {"create", "list", "delete", "turn"}
  /\ RecallEvents \in Nat \ {0}
  /\ MaxRestarts \in Nat

VARIABLES
  op, name,   \* per request: the endpoint and the session name it is for
  pc,         \* per request: the await point it has reached, or its outcome
  sess,       \* per request: the session it works on or waits for
  sent,       \* per turn: the history it sent to the model
  recalled,   \* per turn: the stored turns it put before its prompt
  sessions,   \* the map: the session bound to each name, or None
  mapq,       \* the map's mutex
  lockq,      \* per session: its mutex
  walk,       \* the sessions that list, which holds the map, has yet to visit
  history,    \* per session: the turns it keeps
  memory,     \* per session: it has an author registered with klams
  events,     \* klams: the turns stored for each session name
  writing,    \* the turns whose record call is under way
  restarts

server == <<sessions, mapq, lockq, walk, history, memory>>
klams == <<events, writing>>
task == <<op, name, sess, sent, recalled>>
vars == <<task, pc, server, klams, restarts>>

\* The await points of the handlers, and where a request has come to its end.
Awaits == {"begin", "wantMap", "wantLock", "recall", "chat", "record"}
Done == {"ok", "error", "cut"}

Holds(r, queue) == queue # <<>> /\ Head(queue) = r
Without(queue, r) ==
  IF \E i \in DOMAIN queue : queue[i] = r
    THEN RemoveAt(queue, CHOOSE i \in DOMAIN queue : queue[i] = r)
    ELSE queue

\* r goes on, or returns, without the locks it held or waited for.
Release(r, next) ==
  /\ pc' = [pc EXCEPT ![r] = next]
  /\ mapq' = Without(mapq, r)
  /\ lockq' = [s \in Request |-> Without(lockq[s], r)]

Init ==
  /\ op \in [Request -> Ops] /\ name \in [Request -> Name]
  /\ pc = [r \in Request |-> "idle"]
  /\ sess = [r \in Request |-> None]
  /\ sent = [r \in Request |-> <<>>]
  /\ recalled = [r \in Request |-> {}]
  /\ sessions = [n \in Name |-> None]
  /\ mapq = <<>>
  /\ lockq = [s \in Request |-> <<>>]
  /\ walk = {}
  /\ history = [s \in Request |-> <<>>]
  /\ memory = [s \in Request |-> FALSE]
  /\ events = [n \in Name |-> <<>>]
  /\ writing = {}
  /\ restarts = 0

-----------------------------------------------------------------------------
\* A request arrives.  One that fails its checks (an empty name or prompt, an
\* unknown model, an agent that cannot be built) is refused at once.

Refuse(r) ==
  /\ pc[r] = "idle"
  /\ pc' = [pc EXCEPT ![r] = "error"]
  /\ UNCHANGED <<task, server, klams, restarts>>

\* A create builds the session, and registers with klams, before it looks at
\* the map; every other request locks the map first.
Arrive(r) ==
  /\ pc[r] = "idle"
  /\ IF op[r] = "create"
       THEN pc' = [pc EXCEPT ![r] = "begin"] /\ UNCHANGED mapq
       ELSE pc' = [pc EXCEPT ![r] = "wantMap"] /\ mapq' = Append(mapq, r)
  /\ UNCHANGED <<task, sessions, lockq, walk, history, memory, klams, restarts>>

-----------------------------------------------------------------------------
\* POST /v1/sessions

\* SessionMemory::begin returns; a failure leaves the session memory-less.
Begun(r) ==
  /\ pc[r] = "begin"
  /\ \E registered \in BOOLEAN : memory' = [memory EXCEPT ![r] = registered]
  /\ pc' = [pc EXCEPT ![r] = "wantMap"]
  /\ mapq' = Append(mapq, r)
  /\ UNCHANGED <<task, sessions, lockq, walk, history, klams, restarts>>

HasMap(r, o) == pc[r] = "wantMap" /\ op[r] = o /\ Holds(r, mapq)

CreateEntryBlind(r) ==
  /\ HasMap(r, "create")
  /\ sessions' = [sessions EXCEPT ![name[r]] = r]
  /\ Release(r, "ok")
  /\ UNCHANGED <<task, walk, history, memory, klams, restarts>>

CreateEntry(r) ==
  /\ HasMap(r, "create")
  /\ IF sessions[name[r]] = None
       THEN /\ sessions' = [sessions EXCEPT ![name[r]] = r]
            /\ Release(r, "ok")
       ELSE Release(r, "error") /\ UNCHANGED sessions
  /\ UNCHANGED <<task, walk, history, memory, klams, restarts>>

-----------------------------------------------------------------------------
\* GET /v1/sessions: every session is locked in turn, in no particular order,
\* while the map stays locked.

ListStart(r) ==
  /\ HasMap(r, "list")
  /\ walk' = {sessions[n] : n \in Name} \ {None}
  /\ pc' = [pc EXCEPT ![r] = "walk"]
  /\ UNCHANGED <<task, sessions, mapq, lockq, history, memory, klams, restarts>>

ListLock(r) ==
  /\ pc[r] = "walk" /\ sess[r] = None
  /\ \E s \in walk :
       /\ sess' = [sess EXCEPT ![r] = s]
       /\ lockq' = [lockq EXCEPT ![s] = Append(@, r)]
  /\ UNCHANGED <<op, name, sent, recalled, pc, sessions, mapq, walk, history,
                 memory, klams, restarts>>

ListRead(r) ==
  /\ pc[r] = "walk" /\ sess[r] # None
  /\ Holds(r, lockq[sess[r]])
  /\ lockq' = [lockq EXCEPT ![sess[r]] = Without(@, r)]
  /\ walk' = walk \ {sess[r]}
  /\ sess' = [sess EXCEPT ![r] = None]
  /\ UNCHANGED <<op, name, sent, recalled, pc, sessions, mapq, history, memory,
                 klams, restarts>>

ListDoneUnset(r) ==
  /\ pc[r] = "walk" /\ sess[r] = None /\ walk = {}
  /\ Release(r, None)
  /\ UNCHANGED <<task, sessions, walk, history, memory, klams, restarts>>

ListDone(r) ==
  /\ pc[r] = "walk" /\ sess[r] = None /\ walk = {}
  /\ Release(r, "ok")
  /\ UNCHANGED <<task, sessions, walk, history, memory, klams, restarts>>

-----------------------------------------------------------------------------
\* DELETE /v1/sessions/{name}: a turn under way keeps the session it works on.
DeleteEntry(r) ==
  /\ HasMap(r, "delete")
  /\ sessions' = [sessions EXCEPT ![name[r]] = None]
  /\ Release(r, IF sessions[name[r]] = None THEN "error" ELSE "ok")
  /\ UNCHANGED <<task, walk, history, memory, klams, restarts>>

-----------------------------------------------------------------------------
\* POST /v1/sessions/{name}/turns

LookupHolding(r) ==
  /\ HasMap(r, "turn")
  /\ sess' = [sess EXCEPT ![r] = sessions[name[r]]]
  /\ IF sessions[name[r]] = None
       THEN Release(r, "error")
       ELSE pc' = [pc EXCEPT ![r] = "found"] /\ UNCHANGED <<mapq, lockq>>
  /\ UNCHANGED <<op, name, sent, recalled, sessions, walk, history, memory,
                 klams, restarts>>

\* The session is looked up and the map unlocked before the session is locked.
Lookup(r) ==
  /\ HasMap(r, "turn")
  /\ sess' = [sess EXCEPT ![r] = sessions[name[r]]]
  /\ Release(r, IF sessions[name[r]] = None THEN "error" ELSE "found")
  /\ UNCHANGED <<op, name, sent, recalled, sessions, walk, history, memory,
                 klams, restarts>>

WantLock(r) ==
  /\ pc[r] = "found"
  /\ pc' = [pc EXCEPT ![r] = "wantLock"]
  /\ lockq' = [lockq EXCEPT ![sess[r]] = Append(@, r)]
  /\ UNCHANGED <<task, sessions, mapq, walk, history, memory, klams, restarts>>

StartUnlocked(r) ==
  /\ pc[r] = "wantLock" /\ Holds(r, lockq[sess[r]])
  /\ sent' = [sent EXCEPT ![r] = history[sess[r]]]
  /\ Release(r, "chat")
  /\ UNCHANGED <<op, name, sess, recalled, sessions, walk, history, memory,
                 klams, restarts>>

\* Session::turn begins: the first turn of a session with memory recalls.
Start(r) ==
  /\ pc[r] = "wantLock" /\ Holds(r, lockq[sess[r]])
  /\ LET s == sess[r]
     IN  IF history[s] = <<>> /\ memory[s]
           THEN pc' = [pc EXCEPT ![r] = "recall"] /\ UNCHANGED sent
           ELSE /\ pc' = [pc EXCEPT ![r] = "chat"]
                /\ sent' = [sent EXCEPT ![r] = history[s]]
  /\ UNCHANGED <<op, name, sess, recalled, server, klams, restarts>>

\* The newest stored turns of the session's name, or nothing when klams fails.
Recalled(r) ==
  /\ pc[r] = "recall"
  /\ LET stored == events[name[r]]
         newest == {stored[i] : i \in {j \in 1..Len(stored) :
                                         j + RecallEvents > Len(stored)}}
     IN  \E block \in {{}, newest} :
           recalled' = [recalled EXCEPT ![r] = block]
  /\ pc' = [pc EXCEPT ![r] = "chat"]
  /\ sent' = [sent EXCEPT ![r] = history[sess[r]]]
  /\ UNCHANGED <<op, name, sess, server, klams, restarts>>

ReplyRecordsOnly(r) ==
  /\ pc[r] = "chat"
  /\ IF memory[sess[r]]
       THEN /\ pc' = [pc EXCEPT ![r] = "record"]
            /\ writing' = writing \cup {r}
            /\ UNCHANGED <<mapq, lockq, history>>
       ELSE /\ history' = [history EXCEPT ![sess[r]] = Append(@, r)]
            /\ Release(r, "ok") /\ UNCHANGED writing
  /\ UNCHANGED <<task, sessions, walk, memory, events, restarts>>

\* The model's reply: the exchange joins the history and, when the session has
\* memory, is sent to klams.
Reply(r) ==
  /\ pc[r] = "chat"
  /\ history' = [history EXCEPT ![sess[r]] = Append(@, r)]
  /\ IF memory[sess[r]]
       THEN /\ pc' = [pc EXCEPT ![r] = "record"]
            /\ writing' = writing \cup {r}
            /\ UNCHANGED <<mapq, lockq>>
       ELSE Release(r, "ok") /\ UNCHANGED writing
  /\ UNCHANGED <<task, sessions, walk, memory, events, restarts>>

ChatFailsHolding(r) ==
  /\ pc[r] = "chat"
  /\ pc' = [pc EXCEPT ![r] = "error"]
  /\ UNCHANGED <<task, server, klams, restarts>>

ChatFails(r) ==
  /\ pc[r] = "chat"
  /\ Release(r, "error")
  /\ UNCHANGED <<task, sessions, walk, history, memory, klams, restarts>>

\* A record that fails is only logged.
RecordReturns(r) ==
  /\ pc[r] = "record" /\ r \notin writing
  /\ Release(r, "ok")
  /\ UNCHANGED <<task, sessions, walk, history, memory, klams, restarts>>

-----------------------------------------------------------------------------
\* klams stores the turn of a record call, or fails to.
Stored(r) ==
  /\ r \in writing
  /\ writing' = writing \ {r}
  /\ events' \in {events, [events EXCEPT ![name[r]] = Append(@, r)]}
  /\ UNCHANGED <<task, pc, server, restarts>>

\* The client goes away: the task is dropped at its await point.
Cancel(r) ==
  /\ pc[r] \in Awaits \/ (pc[r] = "walk" /\ sess[r] # None)
  /\ Release(r, "cut")
  /\ walk' = IF pc[r] = "walk" THEN {} ELSE walk
  /\ UNCHANGED <<task, sessions, history, memory, klams, restarts>>

\* The process restarts: no task and no session survives; what klams stored
\* does, and so may a record call under way.
Restart ==
  /\ restarts < MaxRestarts
  /\ restarts' = restarts + 1
  /\ pc' = [r \in Request |-> IF pc[r] \in {"idle"} \cup Done THEN pc[r] ELSE "cut"]
  /\ sessions' = [n \in Name |-> None]
  /\ mapq' = <<>>
  /\ lockq' = [s \in Request |-> <<>>]
  /\ walk' = {}
  /\ UNCHANGED <<task, history, memory, klams>>

-----------------------------------------------------------------------------
\* What the handlers do by themselves, and what waits for the model or klams.
Handler(r) ==
  \/ CreateEntry(r)
  \/ ListStart(r) \/ ListLock(r) \/ ListRead(r) \/ ListDone(r)
  \/ DeleteEntry(r)
  \/ Lookup(r) \/ WantLock(r) \/ Start(r)
Registered(r) == Begun(r)
Backend(r) == Recalled(r) \/ Reply(r) \/ ChatFails(r) \/ RecordReturns(r) \/ Stored(r)

Next ==
  \/ \E r \in Request :
       \/ Arrive(r) \/ Refuse(r) \/ Cancel(r)
       \/ Handler(r) \/ Registered(r) \/ Backend(r)
  \/ Restart

Spec == Init /\ [][Next]_vars

\* The runtime polls every ready task, and registrations come back; the model
\* may think for as long as it likes.
HandlerFairness ==
  \A r \in Request : WF_vars(Handler(r)) /\ WF_vars(Registered(r))
FairSpec == Spec /\ HandlerFairness

\* Every call to the model or to klams comes back as well.
BackendFairness == \A r \in Request : WF_vars(Backend(r))

-----------------------------------------------------------------------------
TypeOK ==
  /\ op \in [Request -> Ops] /\ name \in [Request -> Name]
  /\ pc \in [Request -> {"idle", "walk", "found"} \cup Awaits \cup Done]
  /\ sess \in [Request -> Request \cup {None}]
  /\ sent \in [Request -> Seq(Request)]
  /\ recalled \in [Request -> SUBSET Request]
  /\ sessions \in [Name -> Request \cup {None}]
  /\ mapq \in Seq(Request) /\ lockq \in [Request -> Seq(Request)]
  /\ walk \subseteq Request
  /\ history \in [Request -> Seq(Request)]
  /\ memory \in [Request -> BOOLEAN]
  /\ events \in [Name -> Seq(Request)]
  /\ writing \subseteq Request
  /\ restarts \in 0..MaxRestarts

\* A turn waits for the model with the whole conversation it will be added to:
\* no other turn of the session gets in between, whatever is cancelled, deleted
\* or created meanwhile (docs/12-mv-server.md:96-98, session.rs:51-72).
ContextCurrent ==
  \A r \in Request : pc[r] = "chat" => sent[r] = history[sess[r]]

\* The sessions that were ever put into the map, and the turns in a history.
Opened == {r \in Request : op[r] = "create" /\ pc[r] = "ok"}
Exchanged(r) ==
  sess[r] # None /\ \E i \in DOMAIN history[sess[r]] : history[sess[r]][i] = r

\* What klams stores for a session, or is about to, is an exchange of the history
\* of a session of that name, and it is stored once at most: a turn whose prompt
\* failed, or that was cut short while it waited for the model, does not come back
\* in a later recall.  One that was cut short while it was recorded may: the
\* history has it by then, though its client never saw the reply
\* (session.rs:59-81).
RecordsRemembered ==
  /\ \A r \in writing :
       Exchanged(r) /\ \A i \in DOMAIN events[name[r]] : events[name[r]][i] # r
  /\ \A n \in Name : \A i \in DOMAIN events[n] :
       /\ Exchanged(events[n][i]) /\ name[events[n][i]] = n
       /\ \A j \in DOMAIN events[n] : events[n][i] = events[n][j] => i = j

\* The endpoints keep the promise of SessionStore: the map is its binding, the
\* histories are its conversations, and what a turn that was answered saw is
\* what it sent to the model.
Store == INSTANCE SessionStore WITH
  bound <- sessions, opened <- Opened, conv <- history,
  seen <- [r \in Request |-> IF Exchanged(r) THEN sent[r] ELSE <<>>]
StoreSpec == Store!Spec

\* Every request that arrived is answered or cut short, if the model and klams
\* answer: the two kinds of lock never block each other for good.
EveryRequestEnds ==
  BackendFairness =>
    \A r \in Request : pc[r] \notin {"idle"} \cup Done ~> pc[r] \in Done

\* Creating and deleting never wait for the model, and neither does the lookup
\* of a turn (session.rs:229-230), as long as nobody lists.
MapNeverWaits ==
  (\A r \in Request : op[r] # "list") =>
    \A r \in Request : pc[r] \in {"begin", "wantMap"} ~> pc[r] \notin {"begin", "wantMap"}

-----------------------------------------------------------------------------
\* What the code or its documents say and the code does not do.

\* session.rs:229-230: "a long turn in one session never blocks create/list/delete
\* or other sessions".
TurnsNeverBlockTheMap ==
  \A r, l, t \in Request :
    ~ /\ pc[r] = "wantMap" /\ pc[l] = "walk" /\ Holds(l, mapq)
      /\ pc[t] = "chat" /\ sess[l] = sess[t]
=============================================================================
