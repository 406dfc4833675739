---------------------------- MODULE ModelRouting ----------------------------
(***************************************************************************)
(* Model routing of mv-core (runtime.rs, preflight.rs): one buffered       *)
(* completion walks a chain of models until one of them serves it, while   *)
(* the backends come and go.                                               *)
(*                                                                         *)
(* A backend is "up", "slow" (serves, but no probe returns in time),       *)
(* "failing" (answers with a 5xx status), "absent" (answers, but does not  *)
(* serve the model) or "down" (no answer).  What happens between two       *)
(* network calls is one step.                                              *)
(*                                                                         *)
(* AddAlways, EligibleKeyless, AdvanceUnrecorded, AdvanceTwice,            *)
(* SelectUnprobed and SelectAgain are slips that the properties must       *)
(* catch; nothing in the specification uses them.                          *)
(***************************************************************************)
EXTENDS Naturals, Sequences, SequencesExt

CONSTANTS
  Model,
  Routes,      \* [registry, seeds]: a loaded registry and the preferred models
  MaxTurns,    \* tool round-trips an agent may make (max_turns)
  MaxChanges   \* bound on the changes of the backends during the walk

Provider == {"ollama", "openai", "trtllm"}
Backend == {"up", "slow", "failing", "absent", "down"}

\* from_yaml: fallback lists name other models of the registry, each once.
Loadable(reg) ==
  /\ reg.provider \in [Model -> Provider]
  /\ reg.keyed \subseteq Model     \* the API key variable of the model is set
  /\ reg.fallback \in [Model -> Seq(Model)]
  /\ \A m \in Model : ~ Contains(reg.fallback[m], m) /\ IsInjective(reg.fallback[m])

ASSUME RoutingAssumptions ==
  /\ \A r \in Routes : Loadable(r.registry) /\ r.seeds \in Seq(Model) \ {<<>>}
  /\ MaxTurns \in Nat /\ MaxChanges \in Nat

VARIABLES
  route,     \* the registry and the seeds (never change)
  chain,     \* the candidates
  at,        \* position of the model in hand
  pc,        \* "select", "health", "models", "dispatch", "agent" or "done"
  routing,   \* the probe under way is the router's, not that of call_trtllm
  turn,      \* tool round-trips of the agent in hand
  attempts,  \* the models given up, with their errors
  asked,     \* the models that were sent the prompt
  outcome,   \* what the walk returned
  backend,   \* state of the backend of each model of the chain
  was,       \* the states it has been in during the walk
  changes

walk == <<chain, at, pc, routing, turn, attempts, asked, outcome>>
vars == <<route, walk, backend, was, changes>>

reg == route.registry
Here == chain[at]

-----------------------------------------------------------------------------
\* Every seed, followed by its own fallback list; not transitive.
Listed(r) ==
  FlattenSeq([i \in DOMAIN r.seeds |->
                <<r.seeds[i]>> \o r.registry.fallback[r.seeds[i]]])
AddAlways(seq, m) == Append(seq, m)
AddNew(seq, m) == IF Contains(seq, m) THEN seq ELSE Append(seq, m)
BuildChain(r) == FoldLeft(AddNew, <<>>, Listed(r))

Init ==
  /\ route \in Routes
  /\ chain = BuildChain(route)
  /\ at = 1 /\ pc = "select" /\ routing = FALSE /\ turn = 0
  /\ attempts = <<>> /\ asked = {}
  /\ outcome = [kind |-> "none"]
  /\ backend \in [ToSet(chain) -> Backend]
  /\ was = [m \in ToSet(chain) |-> {backend[m]}]
  /\ changes = 0

Goto(next) == pc' = next /\ UNCHANGED <<at, attempts, outcome>>
Return(result) == pc' = "done" /\ outcome' = result /\ UNCHANGED <<at, attempts>>

EligibleKeyless(error) == error \in {"unreachable", "status", "notLoaded", "notFound"}
\* is_fallback_eligible: the backend is to blame, not the request.
Eligible(error) == error \in {"unreachable", "status", "notLoaded", "notFound", "noKey"}

AdvanceUnrecorded(error) ==
  /\ at' = at + 1 /\ pc' = "select"
  /\ UNCHANGED <<attempts, outcome>>
AdvanceTwice(error) ==
  /\ at' = at + 2 /\ pc' = "select"
  /\ attempts' = Append(attempts, [model |-> Here, error |-> error])
  /\ UNCHANGED outcome
Advance(error) ==
  /\ at' = at + 1 /\ pc' = "select"
  /\ attempts' = Append(attempts, [model |-> Here, error |-> error])
  /\ UNCHANGED outcome

\* The model in hand failed: on to the next, or out with the real error.
Fail(error) ==
  IF Eligible(error) /\ Len(chain) > 1
    THEN Advance(error) ELSE Return([kind |-> "error", error |-> error])

-----------------------------------------------------------------------------
SelectUnprobed ==
  /\ pc = "select"
  /\ IF at > Len(chain) THEN Return([kind |-> "allFailed"]) ELSE Goto("dispatch")
  /\ UNCHANGED <<chain, turn, asked, routing>>
SelectAgain ==
  /\ pc = "select"
  /\ IF at > Len(chain)
       THEN at' = 1 /\ attempts' = <<>> /\ UNCHANGED <<pc, outcome>>
       ELSE IF Len(chain) > 1 /\ reg.provider[Here] # "openai"
              THEN Goto("health") ELSE Goto("dispatch")
  /\ routing' = TRUE
  /\ UNCHANGED <<chain, turn, asked>>

\* The head of the loop.  Only a chain of several models is probed; there is no
\* probe for openai.
Select ==
  /\ pc = "select"
  /\ IF at > Len(chain) THEN Return([kind |-> "allFailed"])
     ELSE IF Len(chain) > 1 /\ reg.provider[Here] # "openai"
            THEN Goto("health") ELSE Goto("dispatch")
  /\ routing' = TRUE
  /\ UNCHANGED <<chain, turn, asked>>

\* The first GET of a probe: any answer will do for ollama, 200 for trtllm.
ProbeFails(m) ==
  \/ backend[m] \in {"down", "slow"}
  \/ backend[m] = "failing" /\ reg.provider[m] = "trtllm"

\* A probe that found nothing wrong.
Alive == Goto(IF routing THEN "dispatch" ELSE "agent")

Health ==
  /\ pc = "health"
  /\ IF ProbeFails(Here) THEN Fail("unreachable")
     ELSE IF reg.provider[Here] = "trtllm" THEN Goto("models") ELSE Alive
  /\ UNCHANGED <<chain, routing, turn, asked>>

\* The second GET: only a list without the model counts against it.
Models ==
  /\ pc = "models"
  /\ IF backend[Here] = "absent" THEN Fail("notLoaded") ELSE Alive
  /\ UNCHANGED <<chain, routing, turn, asked>>

\* complete(): openai needs a key, trtllm probes (again) for itself.
Dispatch ==
  /\ pc = "dispatch"
  /\ CASE reg.provider[Here] = "trtllm" -> Goto("health")
       [] reg.provider[Here] = "openai" /\ Here \notin reg.keyed -> Fail("noKey")
       [] OTHER -> Goto("agent")
  /\ routing' = FALSE /\ turn' = 0
  /\ UNCHANGED <<chain, asked>>

Serves(m) == backend[m] \in {"up", "slow"}

\* What cannot be read as an answer, a status or a turn limit is classified by
\* the words of its text, which may be any; so is the body of a status that is no
\* 5xx, which is "notFound" if it says so and "rejected" otherwise.
Worded(m) ==
  {"unreachable", "status", "notFound", "maxTurns", "rejected"}
    \cup (IF reg.provider[m] = "trtllm" THEN {"notLoaded"} ELSE {})

\* How a request can fail, as classify_prompt_error reads the answer.  A 502
\* counts as "notLoaded" for trtllm, and a 5xx whose body says so as "notFound".
Refusals(m) ==
  CASE backend[m] = "down" -> {"unreachable"}
    [] backend[m] = "failing" ->
         {"status", "notFound"} \cup (IF reg.provider[m] = "trtllm" THEN {"notLoaded"} ELSE {})
    [] backend[m] = "absent" ->
         [ollama |-> {"notFound"}, openai |-> {"notFound", "rejected"},
          trtllm |-> {"notLoaded"}][reg.provider[m]]
    [] OTHER -> Worded(m)

\* One request of the agent to the model: an error, the answer, or a tool call
\* and another request.
Agent ==
  /\ pc = "agent"
  /\ asked' = asked \cup {Here}
  /\ \/ \E error \in Refusals(Here) : Fail(error) /\ UNCHANGED turn
     \/ Serves(Here) /\ Return([kind |-> "ok", model |-> Here]) /\ UNCHANGED turn
     \/ Serves(Here) /\ turn < MaxTurns /\ turn' = turn + 1 /\ Goto("agent")
  /\ UNCHANGED <<chain, routing>>

Router == (Select \/ Health \/ Models \/ Dispatch \/ Agent)
          /\ UNCHANGED <<route, backend, was, changes>>

\* A backend starts, stops, is overloaded, loads or unloads the model.
Change ==
  /\ changes < MaxChanges /\ pc # "done"
  /\ changes' = changes + 1
  /\ \E m \in ToSet(chain), b \in Backend :
       /\ backend' = [backend EXCEPT ![m] = b]
       /\ was' = [was EXCEPT ![m] = @ \cup {b}]
  /\ UNCHANGED <<route, walk>>

Next == Router \/ Change

Spec == Init /\ [][Next]_vars
\* Probes time out; the requests of the agent return.
FairSpec == Spec /\ WF_vars(Router)

-----------------------------------------------------------------------------
\* The errors that another model would not help with.
RequestFaults == {"maxTurns", "rejected"}
Errors == {"unreachable", "status", "notLoaded", "notFound", "noKey"} \cup RequestFaults

TypeOK ==
  /\ route \in Routes /\ chain \in Seq(Model)
  /\ at \in 1..Len(chain) + 1
  /\ pc \in {"select", "health", "models", "dispatch", "agent", "done"}
  /\ pc \notin {"select", "done"} => at <= Len(chain)
  /\ routing \in BOOLEAN /\ turn \in 0..MaxTurns
  /\ attempts \in Seq([model : Model, error : Errors])
  /\ asked \subseteq Model
  /\ outcome \in [kind : {"none", "allFailed"}] \cup [kind : {"ok"}, model : Model]
                   \cup [kind : {"error"}, error : Errors]
  /\ backend \in [ToSet(chain) -> Backend]
  /\ was \in [ToSet(chain) -> SUBSET Backend]
  /\ changes \in 0..MaxChanges

\* The chain is the seeds and their fallbacks, each once, in the order in which
\* they are first listed (runtime.rs:84-91, docs/07-model-routing.md:64-67).
ChainOrder ==
  LET listed == Listed(route)
      First(m) == CHOOSE i \in DOMAIN listed :
                    listed[i] = m /\ \A j \in 1..i - 1 : listed[j] # m
  IN  /\ ToSet(chain) = ToSet(listed)
      /\ \A i, j \in DOMAIN chain : i < j => First(chain[i]) < First(chain[j])

\* The walk gives account of itself: the attempts are the models before the one
\* in hand, each with an error that counts as its backend's; the model that is
\* named is the one that served; only an exhausted chain of several models ends in
\* AllModelsFailed, and only a single model returns an error of its backend
\* (specs/009-routing-composition/spec.md:27-32, 116-125).
WalkRecorded ==
  /\ [i \in DOMAIN attempts |-> attempts[i].model] = SubSeq(chain, 1, at - 1)
  /\ \A i \in DOMAIN attempts : attempts[i].error \notin RequestFaults
  /\ CASE outcome.kind = "ok"        -> outcome.model = Here
       [] outcome.kind = "error"     -> outcome.error \in RequestFaults \/ Len(chain) = 1
       [] outcome.kind = "allFailed" -> at > Len(chain) /\ Len(chain) # 1
       [] OTHER                      -> pc # "done"

\* A model whose backend is down all the time is not sent the prompt, if it has a
\* probe: openai has none, and a lone ollama model is not probed
\* (specs/009-routing-composition/spec.md:57-59).
DeadSkipped ==
  \A m \in asked :
    was[m] = {"down"} => \/ reg.provider[m] = "openai"
                         \/ reg.provider[m] = "ollama" /\ Len(chain) = 1

\* The backend of m can be used, and could be since the walk began.
Usable(m) == was[m] = {"up"} /\ (reg.provider[m] = "openai" => m \in reg.keyed)

\* A model that can be used all the time is never passed over: it is given up
\* only after it was sent the prompt, and the walk fails without having asked it
\* only on an error that says of an earlier model's answer that no other model
\* would help (runtime.rs:126-184, preflight.rs:34-100).  Having asked it, the walk
\* may go on: a refusal worded like a missing model is eligible
\* (providers.rs:91-95, 174-183).
SteadyAsked ==
  \A m \in ToSet(chain) \ asked : Usable(m) =>
    /\ \A i \in DOMAIN attempts : attempts[i].model # m
    /\ outcome.kind # "allFailed"
    /\ outcome.kind = "error" => outcome.error \in RequestFaults /\ asked # {}

\* Every completion comes to an end.
WalkEnds == <>(pc = "done")

=============================================================================
