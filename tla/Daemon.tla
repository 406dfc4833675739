------------------------------- MODULE Daemon -------------------------------
(***************************************************************************)
(* The life of mv-server: one Tokio task per cron schedule                 *)
(* (crates/mv-server/src/scheduler.rs) beside the HTTP listener, and the   *)
(* ordered teardown of main (crates/mv-server/src/main.rs).                *)
(*                                                                         *)
(* A schedule's task sleeps until the next occurrence, then either claims  *)
(* the schedule's flag and spawns a run of the workflow, or skips the tick *)
(* because the flag is taken.  The run is a task of its own: it is counted *)
(* in executing while the workflow runs, in returned between the return of *)
(* run_workflow_at and the store that clears the flag.  What happens       *)
(* between two await points of a task is one step; the tasks interleave.   *)
(*                                                                         *)
(* SkipReleases, RunEndsOnSuccess, DrainedAtOnce and JoinLoop are slips    *)
(* the properties must catch; nothing in the specification uses them.      *)
(***************************************************************************)
EXTENDS Naturals

CONSTANTS
  Schedules,    \* the entries of the schedules file
  MaxRequests   \* bound on the requests in flight at one time

ASSUME MaxRequestsAssumption == MaxRequests \in Nat

VARIABLES
  phase,      \* how far main has come
  loop,       \* per schedule: "asleep", "awake" (past the sleep) or "gone"
  aborted,    \* per schedule: JoinHandle::abort was called on its task
  flag,       \* per schedule: the AtomicBool running
  executing,  \* per schedule: run tasks whose workflow runs
  returned,   \* per schedule: run tasks that have yet to clear the flag
  requests    \* HTTP requests in flight

tasks == <<loop, aborted, flag, executing, returned>>
vars == <<phase, loop, aborted, flag, executing, returned, requests>>

Phases ==
  {"binding", "serving", "draining", "aborting", "closing", "stopped"}

\* Where a task is once it has computed its next occurrence: asleep, or gone
\* when the cron expression has no further occurrence.
NextWait == {"asleep", "gone"}

Init ==
  /\ phase = "binding"
  /\ loop \in [Schedules -> NextWait]
  /\ aborted = [s \in Schedules |-> FALSE]
  /\ flag = [s \in Schedules |-> FALSE]
  /\ executing = [s \in Schedules |-> 0]
  /\ returned = [s \in Schedules |-> 0]
  /\ requests = 0

-----------------------------------------------------------------------------
\* The tasks of a schedule

Wake(s) ==
  /\ loop[s] = "asleep"
  /\ loop' = [loop EXCEPT ![s] = "awake"]
  /\ UNCHANGED <<phase, aborted, flag, executing, returned, requests>>

SkipReleases(s) ==
  /\ flag[s]
  /\ flag' = [flag EXCEPT ![s] = FALSE]
  /\ UNCHANGED executing

\* running.swap(true) found the flag taken: the tick is skipped.
Skip(s) ==
  /\ flag[s]
  /\ UNCHANGED <<flag, executing>>

\* running.swap(true) took the flag: a run is spawned.
Fire(s) ==
  /\ ~flag[s]
  /\ flag' = [flag EXCEPT ![s] = TRUE]
  /\ executing' = [executing EXCEPT ![s] = @ + 1]

\* One turn of the loop from the end of the sleep to the next one.  A task
\* aborted meanwhile gets this far, and is dropped at the next await.
Tick(s) ==
  /\ loop[s] = "awake"
  /\ Skip(s) \/ Fire(s)
  /\ \E next \in NextWait :
       loop' = [loop EXCEPT ![s] = IF aborted[s] THEN "gone" ELSE next]
  /\ UNCHANGED <<phase, aborted, returned, requests>>

\* run_workflow_at returns, with an outcome or an error that is only logged.
RunReturns(s) ==
  /\ executing[s] > 0
  /\ executing' = [executing EXCEPT ![s] = @ - 1]
  /\ returned' = [returned EXCEPT ![s] = @ + 1]
  /\ UNCHANGED <<phase, loop, aborted, flag, requests>>

RunEndsOnSuccess(s) ==
  /\ returned[s] > 0
  /\ returned' = [returned EXCEPT ![s] = @ - 1]
  /\ flag' \in {flag, [flag EXCEPT ![s] = FALSE]}
  /\ UNCHANGED <<phase, loop, aborted, executing, requests>>

RunEnds(s) ==
  /\ returned[s] > 0
  /\ returned' = [returned EXCEPT ![s] = @ - 1]
  /\ flag' = [flag EXCEPT ![s] = FALSE]
  /\ UNCHANGED <<phase, loop, aborted, executing, requests>>

-----------------------------------------------------------------------------
\* HTTP requests

Accept ==
  /\ phase = "serving"
  /\ requests < MaxRequests
  /\ requests' = requests + 1
  /\ UNCHANGED <<phase, tasks>>

Respond ==
  /\ requests > 0
  /\ requests' = requests - 1
  /\ UNCHANGED <<phase, tasks>>

-----------------------------------------------------------------------------
\* main

Bind ==
  /\ phase = "binding"
  /\ phase' = "serving"
  /\ UNCHANGED <<tasks, requests>>

\* The process ends and the runtime drops every task that is left.
Exit ==
  /\ phase' = "stopped"
  /\ loop' = [s \in Schedules |-> "gone"]
  /\ flag' = [s \in Schedules |-> FALSE]
  /\ executing' = [s \in Schedules |-> 0]
  /\ returned' = [s \in Schedules |-> 0]
  /\ requests' = 0
  /\ UNCHANGED aborted

BindFails ==
  /\ phase = "binding"
  /\ Exit

\* SIGINT or SIGTERM: the listener stops accepting.
Signal ==
  /\ phase = "serving"
  /\ phase' = "draining"
  /\ UNCHANGED <<tasks, requests>>

DrainedAtOnce ==
  /\ phase = "draining"
  /\ phase' = "aborting"
  /\ UNCHANGED <<tasks, requests>>

\* axum::serve returns once the requests in flight are answered.
Drained ==
  /\ phase = "draining"
  /\ requests = 0
  /\ phase' = "aborting"
  /\ UNCHANGED <<tasks, requests>>

JoinLoop(s) ==
  /\ phase = "aborting"
  /\ ~aborted[s]
  /\ loop[s] = "gone"
  /\ aborted' = [aborted EXCEPT ![s] = TRUE]
  /\ UNCHANGED <<phase, loop, flag, executing, returned, requests>>

\* handle.abort(): a task at its sleep is dropped there, a task in the middle
\* of a turn finishes the turn.
AbortLoop(s) ==
  /\ phase = "aborting"
  /\ ~aborted[s]
  /\ aborted' = [aborted EXCEPT ![s] = TRUE]
  /\ loop' = [loop EXCEPT ![s] = IF @ = "asleep" THEN "gone" ELSE @]
  /\ UNCHANGED <<phase, flag, executing, returned, requests>>

CloseMcp ==
  /\ phase = "aborting"
  /\ \A s \in Schedules : aborted[s]
  /\ phase' = "closing"
  /\ UNCHANGED <<tasks, requests>>

\* The manager's shutdown is bounded by a timeout per server; then the
\* telemetry is flushed and main returns.
Stop ==
  /\ phase = "closing"
  /\ Exit

Main ==
  \/ Bind
  \/ BindFails
  \/ Drained
  \/ \E s \in Schedules : AbortLoop(s)
  \/ CloseMcp
  \/ Stop

Next ==
  \/ Main
  \/ Signal
  \/ Accept
  \/ Respond
  \/ \E s \in Schedules :
       Wake(s) \/ Tick(s) \/ RunReturns(s) \/ RunEnds(s)

Spec == Init /\ [][Next]_vars

-----------------------------------------------------------------------------
TypeOK ==
  /\ phase \in Phases
  /\ loop \in [Schedules -> {"asleep", "awake", "gone"}]
  /\ aborted \in [Schedules -> BOOLEAN]
  /\ flag \in [Schedules -> BOOLEAN]
  /\ executing \in [Schedules -> Nat]
  /\ returned \in [Schedules -> Nat]
  /\ requests \in 0..MaxRequests

\* Skip-on-overlap: a schedule never has two runs in flight, however its ticks
\* and the end of a run interleave (scheduler.rs:14-16, 140-160).
SingleRun == \A s \in Schedules : executing[s] + returned[s] <= 1

\* The flag is taken exactly while a run that will clear it is in flight: no
\* tick is skipped for a run that is over, none fires into one that is not.
FlagOwned == \A s \in Schedules : flag[s] <=> executing[s] + returned[s] = 1

\* The scheduler is aborted and the MCP connections are shut down only after
\* every request in flight was answered (main.rs:80-87).
TeardownAfterDrain ==
  phase \in {"aborting", "closing", "stopped"} => requests = 0
=============================================================================
