---------------------------- MODULE FrontEnds_proofs ----------------------------
(***************************************************************************)
(* Proofs about FrontEnds for any number of invocations, in any world and  *)
(* whatever klams does: TypeOK, CleanExit, NoSilentLoss, SameAnswer and    *)
(* RecallInOrder.                                                          *)
(*                                                                         *)
(* An invocation only changes what is its own, so each invariant is a      *)
(* predicate of one invocation, kept by its own steps (StepKeeps...) and   *)
(* out of reach of the others' (OthersKept).  What is shown of a session   *)
(* (Shown) is the one part that the others' steps do touch: they append to *)
(* the events, and Of says what that adds to the session's.                *)
(***************************************************************************)
EXTENDS FrontEnds, SequenceTheorems, FiniteSetTheorems, SetInduction

\* The variables are functions of the invocations, and the world is a case's.
Shape ==
  /\ DOMAIN at = Invocations
  /\ DOMAIN mcp = Invocations
  /\ DOMAIN out = Invocations
  /\ DOMAIN outcome = Invocations
  /\ DOMAIN answer = Invocations
  /\ \E c \in Cases : world = c.world /\ req = c.req

Beginning == {"checking", "connecting"}
BeforeResult ==
  {"checking", "connecting", "registering", "recalling", "completing"}
Before == BeforeResult \cup {"streaming", "recording"}
Ending == {"closing", "exiting", "done"}

\* What a command has written and holds open, stage by stage.
Clean(i) ==
  IsCommand(i) =>
    /\ at[i] \in BeforeResult \cup {"recording"} => out[i] = {}
    /\ at[i] \in Beginning \cup {"exiting", "done"} => mcp[i] # "open"
    /\ at[i] = "streaming" => ~req[i].json /\ out[i] \subseteq {"tokens"}
    /\ at[i] \in {"closing", "exiting"} /\ req[i].json => out[i] = {}
    /\ at[i] \in Ending /\ outcome[i] # "ok" => out[i] \subseteq {"tokens"}
    /\ at[i] = "done" /\ req[i].json /\ req[i].kind # "validate" =>
         out[i] = IF outcome[i] = "ok" THEN {"object"} ELSE {}

\* What it answers once it is done.
Answers(i) ==
  at[i] = "done" =>
    answer[i] = IF ~IsCommand(i) THEN Status(outcome[i])
                ELSE IF outcome[i] = "ok" THEN 0 ELSE 1

\* What klams holds of an invocation, and whether it has said otherwise.
Kept(i) ==
  /\ at[i] \in Before => RecordedBy(i) = {}
  /\ RecordedBy(i) # {} =>
       outcome[i] = "ok" /\ \E k \in Nat : RecordedBy(i) = {k}
  /\ at[i] = "recording" => outcome[i] = "ok"
  /\ at[i] \in {"registering", "recalling", "recording"} \/ i \in mem =>
       req[i].kind \in {"prompt", "httpPrompt"} /\ req[i].session # "none"
  /\ at[i] \in {"recalling", "recording"} => i \in mem
  /\ req[i].kind = "prompt" /\ req[i].session # "none" =>
       /\ at[i] = "completing" => i \in mem \/ i \in noted
       /\ at[i] = "streaming" => i \in noted
       /\ at[i] \in Ending /\ outcome[i] = "ok" =>
            RecordedBy(i) # {} \/ i \in noted

\* The result that what i asks for has in this world, with the memory it has.
Final(i) ==
  IF Verdict(i) # "ok" \/ req[i].kind = "validate" THEN Verdict(i)
  ELSE IF IsCommand(i) /\ req[i].tools /\ world.mcp # "ok" THEN world.mcp
  ELSE Result(i)

\* Only a stream can end otherwise.
Decided(i) ==
  /\ at[i] \in Before \ {"checking", "recording"} =>
       Verdict(i) = "ok" /\ req[i].kind # "validate"
  /\ at[i] \in {"registering", "recalling", "completing"} =>
       ~IsCommand(i) \/ ~req[i].tools \/ world.mcp = "ok"
  /\ at[i] \in {"connecting", "registering"} \/ i \in mem => IsCommand(i)
  /\ at[i] = "streaming" => IsCommand(i) /\ Streams(i)
  /\ at[i] \in Ending \cup {"recording"} =>
       (IsCommand(i) /\ Streams(i)) \/ outcome[i] = Final(i)

IInv ==
  /\ Shape
  /\ events \in Seq(Events)
  /\ \A i \in Invocations : Clean(i) /\ Answers(i) /\ Kept(i) /\ Decided(i)

-----------------------------------------------------------------------------
\* A step of i, or its end.
Steps(i) == Step(i) \/ Killed(i)

\* What every step leaves as it is: the world, and what the others hold.
LEMMA OthersKept ==
  ASSUME Shape, NEW i \in Invocations, Steps(i)
  PROVE  /\ Shape'
         /\ world' = world /\ req' = req
         /\ \A j \in Invocations \ {i} :
              /\ at'[j] = at[j] /\ mcp'[j] = mcp[j] /\ out'[j] = out[j]
              /\ outcome'[j] = outcome[j] /\ answer'[j] = answer[j]
              /\ j \in mem' <=> j \in mem
              /\ j \in noted' <=> j \in noted
<1> USE DEF Shape, Goto
<1>1. CASE Refuse(i) BY <1>1 DEF Refuse
<1>2. CASE Accept(i) BY <1>2 DEF Accept
<1>3. CASE SkipTools(i) BY <1>3 DEF SkipTools
<1>4. CASE Connect(i) BY <1>4 DEF Connect
<1>5. CASE Register(i) BY <1>5 DEF Register
<1>6. CASE RecallTurns(i) BY <1>6 DEF RecallTurns
<1>7. CASE RecallFails(i) BY <1>7 DEF RecallFails
<1>8. CASE Complete(i) BY <1>8 DEF Complete
<1>9. CASE Token(i) BY <1>9 DEF Token
<1>10. CASE StreamEnds(i) BY <1>10 DEF StreamEnds
<1>11. CASE StreamFails(i) BY <1>11 DEF StreamFails
<1>12. CASE Record(i) BY <1>12 DEF Record
<1>13. CASE RecordFails(i) BY <1>13 DEF RecordFails
<1>14. CASE Close(i) BY <1>14 DEF Close
<1>15. CASE Exit(i) BY <1>15 DEF Exit
<1>16. CASE Respond(i) BY <1>16 DEF Respond
<1>17. CASE Killed(i) BY <1>17 DEF Killed
<1> QED BY <1>1, <1>2, <1>3, <1>4, <1>5, <1>6, <1>7, <1>8, <1>9, <1>10, <1>11,
           <1>12, <1>13, <1>14, <1>15, <1>16, <1>17 DEF Steps, Step

LEMMA StepKeepsClean ==
  ASSUME Shape, NEW i \in Invocations, Clean(i), Steps(i)
  PROVE  Clean(i)'
<1> USE DEF Shape, Goto, Clean, Beginning, BeforeResult, Ending, IsCommand
<1>1. CASE Refuse(i) BY <1>1 DEF Refuse
<1>2. CASE Accept(i) BY <1>2 DEF Accept
<1>3. CASE SkipTools(i) BY <1>3 DEF SkipTools, StreamPath, Streams
<1>4. CASE Connect(i) BY <1>4 DEF Connect
<1>5. CASE Register(i) BY <1>5 DEF Register
<1>6. CASE RecallTurns(i) BY <1>6 DEF RecallTurns
<1>7. CASE RecallFails(i) BY <1>7 DEF RecallFails
<1>8. CASE Complete(i) BY <1>8 DEF Complete
<1>9. CASE Token(i) BY <1>9 DEF Token
<1>10. CASE StreamEnds(i) BY <1>10 DEF StreamEnds
<1>11. CASE StreamFails(i) BY <1>11 DEF StreamFails
<1>12. CASE Record(i) BY <1>12 DEF Record
<1>13. CASE RecordFails(i) BY <1>13 DEF RecordFails
<1>14. CASE Close(i) BY <1>14 DEF Close
<1>15. CASE Exit(i) BY <1>15 DEF Exit, Printed
<1>16. CASE Respond(i) BY <1>16 DEF Respond
<1>17. CASE Killed(i) BY <1>17 DEF Killed
<1> QED BY <1>1, <1>2, <1>3, <1>4, <1>5, <1>6, <1>7, <1>8, <1>9, <1>10, <1>11,
           <1>12, <1>13, <1>14, <1>15, <1>16, <1>17 DEF Steps, Step

LEMMA StepKeepsAnswers ==
  ASSUME Shape, NEW i \in Invocations, Answers(i), Steps(i)
  PROVE  Answers(i)'
<1> USE DEF Shape, Goto, Answers, IsCommand
<1>1. CASE Exit(i) BY <1>1 DEF Exit
<1>2. CASE Respond(i) BY <1>2 DEF Respond
<1>3. CASE ~(Exit(i) \/ Respond(i))
  <2>1. at'[i] # "done"
    BY <1>3 DEF Steps, Step, Refuse, Accept, SkipTools, Connect, Register,
       RecallTurns, RecallFails, Complete, Token, StreamEnds, StreamFails,
       Record, RecordFails, Close, Killed
  <2> QED BY <2>1
<1> QED BY <1>1, <1>2, <1>3
-----------------------------------------------------------------------------
\* What a turn adds to the events is one event, of the invocation that records.
LEMMA EventInEvents ==
  ASSUME Shape, NEW i \in Invocations, req[i].session # "none"
  PROVE  Event(req[i].session, i, world.prompt, world.reply) \in Events
<1>1. PICK c \in Cases : world = c.world /\ req = c.req BY DEF Shape
<1>2. /\ world.prompt \in Nat /\ world.reply \in Nat
      /\ req[i].session \in Conversations /\ i \in Turns
  BY <1>1, CasesAssumption
<1>3. \A n \in Nat : Field(n) \in 0..(FieldCap + Notice)
  BY KlamsAssumption DEF Field
<1>4. /\ Field(world.prompt) \in 0..(FieldCap + Notice)
      /\ Field(world.reply) \in 0..(FieldCap + Notice)
  BY <1>2, <1>3
<1>5. Field(world.prompt) + Field(world.reply) \in 0..(2 * (FieldCap + Notice))
  BY <1>4, KlamsAssumption
<1> QED BY <1>2, <1>5 DEF Event, Events

LEMMA StoredAddsOne ==
  ASSUME Shape, events \in Seq(Events), NEW i \in Invocations,
         req[i].session # "none",
         Stored(req[i].session, i, world.prompt, world.reply)
  PROVE  /\ events' \in Seq(Events)
         /\ RecordedBy(i)' = RecordedBy(i) \cup {Len(events) + 1}
         /\ Len(events) + 1 \in Nat
         /\ \A j \in Invocations \ {i} : RecordedBy(j)' = RecordedBy(j)
<1> DEFINE e == Event(req[i].session, i, world.prompt, world.reply)
<1>1. e \in Events BY EventInEvents
<1>2. events' = Append(events, e) BY DEF Stored
<1>3. e.turn = i BY DEF Event
<1> HIDE DEF e
<1>4. /\ events' \in Seq(Events)
      /\ Len(events') = Len(events) + 1
      /\ \A k \in 1..Len(events) : events'[k] = events[k]
      /\ events'[Len(events) + 1] = e
  BY <1>1, <1>2, AppendProperties
<1>5. /\ DOMAIN events = 1..Len(events)
      /\ DOMAIN events' = 1..(Len(events) + 1)
      /\ Len(events) \in Nat
  BY <1>4, LenProperties
<1> QED BY <1>3, <1>4, <1>5 DEF RecordedBy

LEMMA StepKeepsKept ==
  ASSUME IInv, NEW i \in Invocations, Steps(i)
  PROVE  /\ Kept(i)'
         /\ events' \in Seq(Events)
         /\ \A j \in Invocations \ {i} : RecordedBy(j)' = RecordedBy(j)
<1> USE DEF Shape, Goto, Before, BeforeResult, Ending, IsPrompt, Remembers,
        IsCommand, Commands
<1>0. Shape /\ events \in Seq(Events) /\ Kept(i) BY DEF IInv
<1>a. ASSUME UNCHANGED events
      PROVE  events' \in Seq(Events) /\ \A j : RecordedBy(j)' = RecordedBy(j)
  BY <1>0, <1>a DEF RecordedBy
<1>1. CASE Refuse(i) BY <1>0, <1>1, <1>a DEF Refuse, Kept
<1>2. CASE Accept(i) BY <1>0, <1>2, <1>a DEF Accept, Kept
<1>3. CASE SkipTools(i) BY <1>0, <1>3, <1>a DEF SkipTools, Kept
<1>4. CASE Connect(i) BY <1>0, <1>4, <1>a DEF Connect, Kept
<1>5. CASE Register(i) BY <1>0, <1>5, <1>a DEF Register, Kept
<1>6. CASE RecallTurns(i) BY <1>0, <1>6, <1>a DEF RecallTurns, Kept
<1>7. CASE RecallFails(i) BY <1>0, <1>7, <1>a DEF RecallFails, Kept
<1>8. CASE Complete(i) BY <1>0, <1>8, <1>a DEF Complete, Kept
<1>9. CASE Token(i) BY <1>0, <1>9, <1>a DEF Token, Kept
<1>10. CASE StreamEnds(i) BY <1>0, <1>10, <1>a DEF StreamEnds, Kept
<1>11. CASE StreamFails(i) BY <1>0, <1>11, <1>a DEF StreamFails, Kept
<1>12. CASE Record(i) BY <1>0, <1>12, StoredAddsOne DEF Record, Kept
<1>13. CASE RecordFails(i)
  <2>1. CASE UNCHANGED events BY <1>0, <1>13, <1>a, <2>1 DEF RecordFails, Kept
  <2>2. CASE Stored(req[i].session, i, world.prompt, world.reply)
    BY <1>0, <1>13, <2>2, StoredAddsOne DEF RecordFails, Kept
  <2> QED BY <1>13, <2>1, <2>2 DEF RecordFails
<1>14. CASE Close(i) BY <1>0, <1>14, <1>a DEF Close, Kept
<1>15. CASE Exit(i) BY <1>0, <1>15, <1>a DEF Exit, Kept
<1>16. CASE Respond(i) BY <1>0, <1>16, <1>a DEF Respond, Kept
<1>17. CASE Killed(i) BY <1>0, <1>17, <1>a DEF Killed, Kept
<1> QED BY <1>1, <1>2, <1>3, <1>4, <1>5, <1>6, <1>7, <1>8, <1>9, <1>10, <1>11,
           <1>12, <1>13, <1>14, <1>15, <1>16, <1>17 DEF Steps, Step

-----------------------------------------------------------------------------
\* What an invocation is to answer depends on the world, on its request and on
\* whether it has a session's memory.
LEMMA FinalKept ==
  ASSUME world' = world, req' = req, NEW i
  PROVE  /\ Verdict(i)' = Verdict(i)
         /\ IsCommand(i)' = IsCommand(i) /\ Streams(i)' = Streams(i)
         /\ (i \in mem' <=> i \in mem) => Final(i)' = Final(i)
<1>1. /\ IsCommand(i)' = IsCommand(i) /\ Streams(i)' = Streams(i)
      /\ IsPrompt(i)' = IsPrompt(i)
  BY DEF IsCommand, Streams, IsPrompt
<1>2. FileVerdict("own")' = FileVerdict("own") /\ FileVerdict("root")' = FileVerdict("root")
  BY DEF FileVerdict
<1>3. Verdict(i)' = Verdict(i)
  BY <1>1, <1>2 DEF Verdict, CliPromptVerdict, HttpPromptVerdict, CliRunVerdict,
     HttpRunVerdict, EmptyPrompt, Registry, Known
<1>4. ASSUME i \in mem' <=> i \in mem PROVE Final(i)' = Final(i)
  <2>1. GivenTo(i)' = GivenTo(i) BY <1>1, <1>4 DEF GivenTo
  <2>2. Result(i)' = Result(i) BY <1>1, <2>1 DEF Result
  <2> QED BY <1>1, <1>3, <2>2 DEF Final
<1> QED BY <1>1, <1>3, <1>4

LEMMA StepKeepsDecided ==
  ASSUME Shape, NEW i \in Invocations, Decided(i), Steps(i)
  PROVE  Decided(i)'
<1>0. /\ Verdict(i)' = Verdict(i)
      /\ mem' = mem => Final(i)' = Final(i)
      /\ IsCommand(i)' = IsCommand(i) /\ Streams(i)' = Streams(i)
      /\ world' = world /\ req' = req
  BY OthersKept, FinalKept
<1> USE DEF Shape, Goto, Decided, Before, BeforeResult, Ending
<1>1. CASE Refuse(i) BY <1>0, <1>1 DEF Refuse, Final
<1>2. CASE Accept(i) BY <1>0, <1>2 DEF Accept
<1>3. CASE SkipTools(i) BY <1>0, <1>3 DEF SkipTools, StreamPath
<1>4. CASE Connect(i) BY <1>0, <1>4 DEF Connect, Final
<1>5. CASE Register(i) BY <1>0, <1>5 DEF Register
<1>6. CASE RecallTurns(i) BY <1>0, <1>6 DEF RecallTurns
<1>7. CASE RecallFails(i) BY <1>0, <1>7 DEF RecallFails
<1>8. CASE Complete(i) BY <1>0, <1>8 DEF Complete, Final
<1>9. CASE Token(i) BY <1>0, <1>9 DEF Token
<1>10. CASE StreamEnds(i) BY <1>0, <1>10 DEF StreamEnds
<1>11. CASE StreamFails(i) BY <1>0, <1>11 DEF StreamFails
<1>12. CASE Record(i) BY <1>0, <1>12 DEF Record
<1>13. CASE RecordFails(i) BY <1>0, <1>13 DEF RecordFails
<1>14. CASE Close(i) BY <1>0, <1>14 DEF Close
<1>15. CASE Exit(i) BY <1>0, <1>15 DEF Exit
<1>16. CASE Respond(i) BY <1>0, <1>16 DEF Respond
<1>17. CASE Killed(i) BY <1>0, <1>17 DEF Killed
<1> QED BY <1>1, <1>2, <1>3, <1>4, <1>5, <1>6, <1>7, <1>8, <1>9, <1>10, <1>11,
           <1>12, <1>13, <1>14, <1>15, <1>16, <1>17 DEF Steps, Step

-----------------------------------------------------------------------------
\* An invocation's part of the invariant is out of reach of the others.
LEMMA UntouchedKept ==
  ASSUME world' = world, req' = req, NEW j, Clean(j), Answers(j), Kept(j),
         Decided(j), RecordedBy(j)' = RecordedBy(j),
         at'[j] = at[j], mcp'[j] = mcp[j], out'[j] = out[j],
         outcome'[j] = outcome[j], answer'[j] = answer[j],
         j \in mem' <=> j \in mem, j \in noted' <=> j \in noted
  PROVE  Clean(j)' /\ Answers(j)' /\ Kept(j)' /\ Decided(j)'
<1>1. /\ Verdict(j)' = Verdict(j) /\ Final(j)' = Final(j)
      /\ IsCommand(j)' = IsCommand(j) /\ Streams(j)' = Streams(j)
  BY FinalKept
<1>2. Clean(j)' BY <1>1 DEF Clean
<1>3. Answers(j)' BY <1>1 DEF Answers, Status
<1>4. Kept(j)' BY DEF Kept
<1>5. Decided(j)' BY <1>1 DEF Decided
<1> QED BY <1>2, <1>3, <1>4, <1>5

LEMMA InitIInv == Init => IInv
<1> SUFFICES ASSUME Init PROVE IInv OBVIOUS
<1>1. PICK c \in Cases : world = c.world /\ req = c.req /\ events = c.events
  BY DEF Init
<1>2. Shape BY <1>1 DEF Init, Shape
<1>3. /\ events \in Seq(Events)
      /\ \A k \in DOMAIN events : events[k].turn \notin Invocations
  BY <1>1, CasesAssumption
<1>4. ASSUME NEW i \in Invocations
      PROVE  Clean(i) /\ Answers(i) /\ Kept(i) /\ Decided(i)
  <2>1. RecordedBy(i) = {} BY <1>3 DEF RecordedBy
  <2>2. at[i] = "checking" /\ mcp[i] = "none" /\ out[i] = {} /\ mem = {}
    BY DEF Init
  <2>3. Clean(i) BY <2>2 DEF Clean, BeforeResult, Ending
  <2>4. Answers(i) BY <2>2 DEF Answers
  <2>5. Kept(i) BY <2>1, <2>2 DEF Kept, Ending
  <2>6. Decided(i) BY <2>2 DEF Decided, Ending
  <2> QED BY <2>3, <2>4, <2>5, <2>6
<1> QED BY <1>2, <1>3, <1>4 DEF IInv

LEMMA NextIInv == IInv /\ [Next]_vars => IInv'
<1> SUFFICES ASSUME IInv, [Next]_vars PROVE IInv' OBVIOUS
<1>1. ASSUME NEW i \in Invocations, Steps(i) PROVE IInv'
  <2>0. /\ Shape /\ events \in Seq(Events)
        /\ \A j \in Invocations :
             Clean(j) /\ Answers(j) /\ Kept(j) /\ Decided(j)
    BY DEF IInv
  <2>1. Clean(i)' BY <1>1, <2>0, StepKeepsClean
  <2>2. Answers(i)' BY <1>1, <2>0, StepKeepsAnswers
  <2>3. /\ Kept(i)' /\ events' \in Seq(Events)
        /\ \A j \in Invocations \ {i} : RecordedBy(j)' = RecordedBy(j)
    BY <1>1, StepKeepsKept
  <2>4. Decided(i)' BY <1>1, <2>0, StepKeepsDecided
  <2>5. ASSUME NEW j \in Invocations \ {i}
        PROVE  Clean(j)' /\ Answers(j)' /\ Kept(j)' /\ Decided(j)'
    <3>1. /\ world' = world /\ req' = req
          /\ at'[j] = at[j] /\ mcp'[j] = mcp[j] /\ out'[j] = out[j]
          /\ outcome'[j] = outcome[j] /\ answer'[j] = answer[j]
          /\ j \in mem' <=> j \in mem
          /\ j \in noted' <=> j \in noted
      BY <1>1, <2>0, OthersKept
    <3> QED BY <2>0, <2>3, <3>1, UntouchedKept
  <2>6. Shape' BY <1>1, <2>0, OthersKept
  <2> QED BY <2>1, <2>2, <2>3, <2>4, <2>5, <2>6 DEF IInv
<1>2. CASE UNCHANGED vars
  <2>1. /\ world' = world /\ req' = req /\ events' = events /\ at' = at
        /\ mcp' = mcp /\ mem' = mem /\ out' = out /\ noted' = noted
        /\ outcome' = outcome /\ answer' = answer
    BY <1>2 DEF vars
  <2>2. ASSUME NEW j \in Invocations
        PROVE  Clean(j)' /\ Answers(j)' /\ Kept(j)' /\ Decided(j)'
    <3>1. RecordedBy(j)' = RecordedBy(j) BY <2>1 DEF RecordedBy
    <3> QED BY <2>1, <3>1, UntouchedKept DEF IInv
  <2>3. Shape' /\ events' \in Seq(Events) BY <2>1 DEF IInv, Shape
  <2> QED BY <2>2, <2>3 DEF IInv
<1> QED BY <1>1, <1>2 DEF Next, Steps

LEMMA Invariant == Spec => []IInv
BY InitIInv, NextIInv, PTL DEF Spec

-----------------------------------------------------------------------------
\* Only a success is answered with 200.
LEMMA StatusOfSuccess ==
  ASSUME NEW r
  PROVE  Status(r) = 200 <=> r = "ok"
BY DEF Status, NotFound, BadInput, Unavailable

\* A command that ends by itself closes its connections, prints the one object
\* of a success with --json and nothing of an error, and leaves at most the
\* tokens already shown of a stream that failed (main.rs:17-36, 88-112,
\* prompt.rs:147-162, commands/workflow.rs:74-77).
THEOREM CommandsEndClean == Spec => []CleanExit
<1>1. IInv => CleanExit
  <2> SUFFICES ASSUME IInv, NEW i \in Invocations, at[i] = "done", IsCommand(i)
               PROVE  /\ mcp[i] # "open"
                      /\ req[i].json /\ req[i].kind # "validate" =>
                           out[i] = IF answer[i] = 0 THEN {"object"} ELSE {}
                      /\ answer[i] = 1 => out[i] \subseteq {"tokens"}
    BY DEF CleanExit
  <2>1. Clean(i) /\ Answers(i) BY DEF IInv
  <2>2. answer[i] = IF outcome[i] = "ok" THEN 0 ELSE 1 BY <2>1 DEF Answers
  <2> QED BY <2>1, <2>2 DEF Clean, Ending
<1> QED BY <1>1, Invariant, PTL

\* A turn is recorded at most once, only after a completion that succeeded, and
\* it is not missing without a note (prompt.rs:81-83, 111-115, 147-156).
THEOREM TurnsNotLost == Spec => []NoSilentLoss
<1>1. IInv => NoSilentLoss
  <2> SUFFICES ASSUME IInv, NEW i \in Invocations
               PROVE
      /\ at[i] = "done" /\ answer[i] = 0 /\ req[i].kind = "prompt" /\ Remembers(i) =>
           RecordedBy(i) # {} \/ i \in noted
      /\ RecordedBy(i) # {} => outcome[i] = "ok" /\ Cardinality(RecordedBy(i)) = 1
    BY DEF NoSilentLoss
  <2>1. Kept(i) /\ Answers(i) BY DEF IInv
  <2>2. ASSUME at[i] = "done", answer[i] = 0, req[i].kind = "prompt"
        PROVE  outcome[i] = "ok"
    BY <2>1, <2>2 DEF Answers, IsCommand, Commands
  <2>3. RecordedBy(i) # {} => Cardinality(RecordedBy(i)) = 1
    BY <2>1, FS_Singleton DEF Kept
  <2> QED BY <2>1, <2>2, <2>3 DEF Kept, Ending, Remembers
<1> QED BY <1>1, Invariant, PTL

\* Both front ends refuse the same things in the same order: the final result
\* of a command that does not stream is that of the request.
LEMMA FinalsAgree ==
  ASSUME Shape, NEW i \in Invocations, NEW j \in Invocations,
         AskAlike(i, j), j \notin mem
  PROVE  Final(i) = Final(j)
<1>1. world.models = "ok" /\ world.mcp = "ok"
  BY CasesAssumption DEF Shape, AskAlike
<1>2. CASE req[i].kind = "prompt" /\ req[j].kind = "httpPrompt"
  <2>1. ~Streams(i) /\ GivenTo(i) = "tools" BY <1>2 DEF AskAlike
  <2>2. Verdict(i) = CliPromptVerdict(i) /\ Verdict(j) = HttpPromptVerdict
    BY <1>2 DEF Verdict
  <2>3. Verdict(i) = Verdict(j)
    BY <1>1, <2>1, <2>2 DEF CliPromptVerdict, HttpPromptVerdict, Registry
  <2>4. GivenTo(j) = "tools" BY <1>2, CasesAssumption DEF GivenTo, Shape
  <2> QED BY <1>1, <1>2, <2>1, <2>3, <2>4 DEF Final, Result, IsPrompt
<1>3. CASE req[i].kind = "run" /\ req[j].kind = "httpRun"
  <2>1. /\ world.place # "elsewhere"
        /\ world.valid.own = world.valid.root
        /\ world.execution.own = world.execution.root
    BY <1>3, CasesAssumption DEF AskAlike, Shape
  <2>2. Verdict(i) = CliRunVerdict /\ Verdict(j) = HttpRunVerdict
    BY <1>3 DEF Verdict
  <2>3. FileVerdict("own") = FileVerdict("root") BY <2>1 DEF FileVerdict
  <2>4. Verdict(i) = Verdict(j)
    BY <1>1, <2>1, <2>2, <2>3 DEF CliRunVerdict, HttpRunVerdict, Registry
  <2>5. Result(i) = Result(j)
    BY <1>3, <2>1 DEF Result, IsPrompt, IsCommand, Commands
  <2> QED BY <1>1, <1>3, <2>4, <2>5 DEF Final
<1> QED BY <1>2, <1>3 DEF AskAlike

\* A command and a request that put the same to the model, or run a workflow
\* that finds its files from either directory, are answered with the same code
\* by mv-cli and by mv-server (lib.rs:7-10, error.rs:11-13 of mv-server,
\* handlers.rs:194-197).
THEOREM FrontEndsAgree == Spec => []SameAnswer
<1>1. IInv => SameAnswer
  <2> SUFFICES ASSUME IInv, NEW i \in Invocations, NEW j \in Invocations,
                      at[i] = "done", at[j] = "done", AskAlike(i, j)
               PROVE  /\ outcome[i] = outcome[j]
                      /\ answer[i] = 0 <=> answer[j] = 200
    BY DEF SameAnswer
  <2>1. /\ Shape
        /\ Decided(i) /\ Answers(i)
        /\ Decided(j) /\ Answers(j)
    BY DEF IInv
  <2>2. IsCommand(i) /\ ~IsCommand(j) BY DEF AskAlike, IsCommand, Commands
  <2>3. j \notin mem BY <2>1, <2>2 DEF Decided
  <2>4. outcome[i] = Final(i)
    <3>1. CASE req[i].kind = "prompt"
      BY <2>1, <3>1 DEF Decided, Ending, AskAlike
    <3>2. CASE req[i].kind = "run"
      <4>1. ~Streams(i) BY <2>1, <3>2, CasesAssumption DEF Streams, Shape
      <4> QED BY <2>1, <4>1 DEF Decided, Ending
    <3> QED BY <3>1, <3>2 DEF AskAlike
  <2>5. outcome[j] = Final(j) BY <2>1, <2>2 DEF Decided, Ending
  <2>6. outcome[i] = outcome[j] BY <2>1, <2>3, <2>4, <2>5, FinalsAgree
  <2>7. answer[i] = 0 <=> outcome[i] = "ok" BY <2>1, <2>2 DEF Answers
  <2>8. answer[j] = 200 <=> outcome[j] = "ok"
    BY <2>1, <2>2, StatusOfSuccess DEF Answers
  <2> QED BY <2>6, <2>7, <2>8
<1> QED BY <1>1, Invariant, PTL
-----------------------------------------------------------------------------
\* The events of a session: what of OfSession becomes of one more event.
Picked(session, log, f) ==
  f = [n \in 0..Len(log) |->
         IF n = 0 THEN <<>>
         ELSE IF log[n].session = session THEN Append(f[n - 1], log[n])
         ELSE f[n - 1]]

\* The events of a session in a log.
Of(session, log) == (CHOOSE f : Picked(session, log, f))[Len(log)]

LEMMA PickedExists ==
  ASSUME NEW session, NEW log \in Seq(Events)
  PROVE  /\ Picked(session, log, CHOOSE f : Picked(session, log, f))
         /\ \A f : Picked(session, log, f) => f \in [0..Len(log) -> Seq(Events)]
<1> DEFINE N == Len(log)
           Q == Seq(Events)
           none == <<>>
           step == [p \in Q \X (1..N) |->
                      IF log[p[2]].session = session THEN Append(p[1], log[p[2]]) ELSE p[1]]
<1>1. N \in Nat /\ none \in Q /\ \A n \in 1..N : log[n] \in Events
  OBVIOUS
<1>2. step \in [Q \X (1..N) -> Q]
  <2>1. ASSUME NEW p \in Q \X (1..N)
        PROVE  (IF log[p[2]].session = session THEN Append(p[1], log[p[2]]) ELSE p[1]) \in Q
    <3>1. p[1] \in Seq(Events) /\ p[2] \in 1..N
      OBVIOUS
    <3>2. log[p[2]] \in Events
      BY <1>1, <3>1
    <3> QED BY <3>1, <3>2
  <2> QED BY <2>1
<1>3. PICK f \in [0..N -> Q] : Recurs(f, N, none, step)
  <2> HIDE DEF N, Q, none, step
  <2> QED BY <1>1, <1>2, Recursion
<1>4. ASSUME NEW n \in 1..N
      PROVE  f[n] = IF log[n].session = session THEN Append(f[n - 1], log[n]) ELSE f[n - 1]
  <2>1. n - 1 \in 0..N
    BY <1>1
  <2>2. f[n] = step[<<f[n - 1], n>>] /\ f[n - 1] \in Q
    <3> HIDE DEF step
    <3> QED BY <1>3, <2>1 DEF Recurs
  <2>3. <<f[n - 1], n>> \in Q \X (1..N)
    BY <2>2
  <2> QED BY <2>2, <2>3
<1>5. Picked(session, log, f)
  <2>1. f[0] = <<>>
    BY <1>3 DEF Recurs
  <2>2. \A n \in 0..N : n = 0 \/ n \in 1..N
    BY <1>1
  <2> QED BY <1>3, <1>4, <2>1, <2>2 DEF Picked
<1>6. ASSUME NEW g, Picked(session, log, g)
      PROVE  g \in [0..N -> Q]
  <2> DEFINE T == {n \in Nat : n \in 0..N => g[n] \in Q}
  <2>1. 0 \in T
    BY <1>6 DEF Picked
  <2>2. ASSUME NEW n \in Nat, n \in T PROVE n + 1 \in T
    <3> SUFFICES ASSUME n + 1 \in 0..N PROVE g[n + 1] \in Q
      OBVIOUS
    <3>1. /\ n \in 0..N /\ g[n] \in Seq(Events) /\ log[n + 1] \in Events
          /\ n + 1 \in 0..Len(log) /\ n + 1 # 0 /\ (n + 1) - 1 = n
      BY <1>1, <2>2
    <3>2. g[n + 1] = IF log[n + 1].session = session THEN Append(g[n], log[n + 1]) ELSE g[n]
      BY <1>6, <3>1 DEF Picked
    <3> QED BY <3>1, <3>2
  <2> HIDE DEF T
  <2>3. Nat \subseteq T
    BY <2>1, <2>2, Induction
  <2>4. \A n \in 0..N : g[n] \in Q
    BY <1>1, <2>3 DEF T
  <2>5. DOMAIN g = 0..N /\ g = [n \in 0..N |-> g[n]]
    BY <1>6 DEF Picked
  <2> HIDE DEF N, Q
  <2> QED BY <2>4, <2>5
<1> QED BY <1>5, <1>6

\* What one more event changes.
LEMMA OfAppended ==
  ASSUME NEW session, NEW log \in Seq(Events), NEW e \in Events
  PROVE  /\ Of(session, log) \in Seq(Events)
         /\ Of(session, Append(log, e)) =
              IF e.session = session THEN Append(Of(session, log), e) ELSE Of(session, log)
<1> DEFINE N == Len(log)
           more == Append(log, e)
           f == CHOOSE x : Picked(session, log, x)
           g == CHOOSE x : Picked(session, more, x)
<1>1. /\ N \in Nat /\ more \in Seq(Events) /\ Len(more) = N + 1 /\ more[N + 1] = e
      /\ \A n \in 1..N : more[n] = log[n]
  OBVIOUS
<1>2. Picked(session, log, f) /\ Picked(session, more, g) /\ f \in [0..N -> Seq(Events)]
  BY <1>1, PickedExists
<1>3. Of(session, log) = f[N] /\ Of(session, more) = g[N + 1]
  BY <1>1 DEF Of
<1> HIDE DEF f, g, more
<1> DEFINE T == {n \in Nat : n \in 0..N => f[n] = g[n]}
<1>4. 0 \in T
  BY <1>1, <1>2 DEF Picked
<1>5. ASSUME NEW n \in Nat, n \in T PROVE n + 1 \in T
  <2> SUFFICES ASSUME n + 1 \in 0..N PROVE f[n + 1] = g[n + 1]
    OBVIOUS
  <2>1. /\ n + 1 \in 1..N /\ n + 1 # 0 /\ (n + 1) - 1 = n /\ f[n] = g[n]
        /\ n + 1 \in 0..(N + 1) /\ more[n + 1] = log[n + 1]
    BY <1>1, <1>5
  <2>2. f[n + 1] = IF log[n + 1].session = session THEN Append(f[n], log[n + 1]) ELSE f[n]
    BY <1>2, <2>1, SMTT(30), ZenonT(30) DEF Picked
  <2>3. g[n + 1] = IF more[n + 1].session = session THEN Append(g[n], more[n + 1]) ELSE g[n]
    BY <1>1, <1>2, <2>1 DEF Picked
  <2> QED BY <2>1, <2>2, <2>3
<1> HIDE DEF T
<1>6. Nat \subseteq T
  BY <1>4, <1>5, Induction
<1>7. f[N] = g[N]
  BY <1>1, <1>6 DEF T
<1>8. g[N + 1] = IF e.session = session THEN Append(g[N], e) ELSE g[N]
  <2>1. N + 1 \in 0..(N + 1) /\ N + 1 # 0 /\ (N + 1) - 1 = N
    BY <1>1
  <2> QED BY <1>1, <1>2, <2>1 DEF Picked
<1>9. f[N] \in Seq(Events)
  BY <1>1, <1>2
<1> QED BY <1>3, <1>7, <1>8, <1>9 DEF more

LEMMA OfTyped ==
  ASSUME NEW session, NEW log \in Seq(Events)
  PROVE  Of(session, log) \in Seq(Events)
<1>1. Len(log) \in 0..Len(log)
  OBVIOUS
<1> DEFINE f == CHOOSE x : Picked(session, log, x)
<1>2. f \in [0..Len(log) -> Seq(Events)]
  BY PickedExists
<1> HIDE DEF f
<1>3. f[Len(log)] \in Seq(Events)
  BY <1>1, <1>2
<1> QED BY <1>3 DEF Of, f

LEMMA OfEvents == \A session : OfSession(session) = Of(session, events)
BY DEF OfSession, Of, Picked

\* What a search for a session's turns gives back: its last turns, in order.
LEMMA RecalledTurns ==
  ASSUME events \in Seq(Events), NEW session,
         NEW all, all = Of(session, events), Recalled(session) # <<>>
  PROVE  /\ Len(all) \in Nat \ {0}
         /\ Len(Recalled(session)) =
              IF Len(all) < RecallEvents THEN Len(all) ELSE RecallEvents
         /\ DOMAIN Recalled(session) = 1..Len(Recalled(session))
         /\ \A k \in DOMAIN Recalled(session) :
              Recalled(session)[k] = all[Len(all) - Len(Recalled(session)) + k].turn
<1> DEFINE N == Len(all)
           from == IF N < RecallEvents THEN 1 ELSE N - RecallEvents + 1
           M == IF N < RecallEvents THEN N ELSE RecallEvents
           part == SubSeq(all, from, N)
           found == Reverse(Newest(session))
           turns == [k \in DOMAIN found |-> found[k].turn]
<1>1. all \in Seq(Events) /\ N \in Nat /\ OfSession(session) = all
  <2>1. OfSession(session) = Of(session, events)
    BY OfEvents
  <2> QED BY <2>1, OfTyped
<1>2. Newest(session) = Reverse(part)
  BY <1>1 DEF Newest
<1>3. M \in Nat /\ N - from + 1 = M /\ from \in 1..(N + 1)
  BY <1>1, KlamsAssumption
<1>4. /\ Len(part) = M /\ DOMAIN part = 1..M
      /\ \A k \in 1..M : part[k] = all[N - M + k]
  <2>1. part = [k \in 1..M |-> all[from + k - 1]]
    BY <1>1, <1>3, SMTT(30)
  <2>2. Len(part) = M
    BY <1>1, <1>3
  <2>3. \A k \in 1..M : from + k - 1 = N - M + k
    BY <1>1, <1>3
  <2> HIDE DEF part, M, from, N
  <2> QED BY <2>1, <2>2, <2>3
<1> HIDE DEF part
<1>5. /\ Len(found) = M /\ DOMAIN found = 1..M
      /\ \A k \in 1..M : found[k] = part[k]
  <2> DEFINE back == Reverse(part)
  <2>1. /\ back = [k \in 1..M |-> part[M - k + 1]] /\ Len(back) = M
    BY <1>3, <1>4 DEF Reverse
  <2>2. found = [k \in 1..M |-> back[M - k + 1]]
    BY <1>2, <2>1 DEF Reverse
  <2>a. M \in Nat
    BY <1>3
  <2> HIDE DEF back, M
  <2>3. \A k \in 1..M : M - k + 1 \in 1..M /\ M - (M - k + 1) + 1 = k
    BY <2>a
  <2> HIDE DEF found
  <2>4. \A k \in 1..M : found[k] = part[k]
    BY <2>1, <2>2, <2>3
  <2> QED BY <1>3, <2>2, <2>4
<1>6. Recalled(session) = turns
  BY DEF Recalled
<1>7. /\ DOMAIN turns = 1..M /\ Len(turns) = M
      /\ \A k \in 1..M : turns[k] = all[N - M + k].turn
  <2> HIDE DEF found, M, N
  <2> QED BY <1>3, <1>4, <1>5
<1>8. N # 0
  <2> SUFFICES ASSUME N = 0 PROVE FALSE
    OBVIOUS
  <2>1. M = 0
    BY <1>3, KlamsAssumption
  <2>2. turns = <<>>
    <3> HIDE DEF turns, M
    <3> QED BY <1>7, <2>1
  <2> QED BY <1>6, <2>2
<1> HIDE DEF turns, found
<1> QED BY <1>1, <1>6, <1>7, <1>8

\* What an invocation was shown of its session, as RecallInOrder says.
Shown(i) ==
  context[i] # <<>> =>
    LET all == Of(req[i].session, events)
    IN \E n \in 1..Len(all) :
         /\ Len(context[i]) = IF n < RecallEvents THEN n ELSE RecallEvents
         /\ DOMAIN context[i] = 1..Len(context[i])
         /\ \A k \in DOMAIN context[i] :
              context[i][k] = all[n - Len(context[i]) + k].turn
         /\ \A k \in (n + 1)..Len(all) : all[k].turn \in Invocations

RInv == DOMAIN context = Invocations /\ \A i \in Invocations : Shown(i)

\* A step appends at most one event, of a run of this behaviour.
LEMMA EventsGrow ==
  ASSUME IInv, NEW i \in Invocations, Steps(i)
  PROVE  \/ events' = events
         \/ \E e \in Events : events' = Append(events, e) /\ e.turn \in Invocations
<1>1. ASSUME at[i] = "recording",
             Stored(req[i].session, i, world.prompt, world.reply)
      PROVE  \E e \in Events : events' = Append(events, e) /\ e.turn \in Invocations
  <2> DEFINE e == Event(req[i].session, i, world.prompt, world.reply)
  <2>1. Shape /\ req[i].session # "none"
    BY <1>1 DEF IInv, Kept
  <2>2. e \in Events /\ e.turn = i
    BY <2>1, EventInEvents DEF Event
  <2>3. events' = Append(events, e)
    BY <1>1 DEF Stored
  <2> HIDE DEF e
  <2> QED BY <2>2, <2>3
<1>2. CASE Record(i)
  BY <1>1, <1>2 DEF Record
<1>3. CASE RecordFails(i)
  BY <1>1, <1>3 DEF RecordFails
<1>4. CASE ~(Record(i) \/ RecordFails(i))
  BY <1>4 DEF Steps, Step, Refuse, Accept, SkipTools, Connect, Register,
     RecallTurns, RecallFails, Complete, Token, StreamEnds, StreamFails, Close,
     Exit, Respond, Killed
<1> QED BY <1>2, <1>3, <1>4

\* What was shown stays in order while turns are added after it.
LEMMA ShownKept ==
  ASSUME IInv, NEW i \in Invocations, Steps(i), NEW j \in Invocations, Shown(j),
         context'[j] = context[j], req' = req
  PROVE  Shown(j)'
<1> DEFINE s == req[j].session
           all == Of(s, events)
           more == Of(s, events')
           c == context[j]
<1>0. events \in Seq(Events)
  BY DEF IInv
<1>1. /\ all \in Seq(Events) /\ more \in Seq(Events)
      /\ \/ more = all
         \/ \E e \in Events : more = Append(all, e) /\ e.turn \in Invocations
  <2>1. CASE events' = events
    BY <1>0, <2>1, OfTyped
  <2>2. CASE \E e \in Events : events' = Append(events, e) /\ e.turn \in Invocations
    <3>1. PICK e \in Events : events' = Append(events, e) /\ e.turn \in Invocations
      BY <2>2
    <3>2. events' \in Seq(Events)
      BY <1>0, <3>1
    <3>3. more = IF e.session = s THEN Append(all, e) ELSE all
      BY <1>0, <3>1, OfAppended
    <3> HIDE DEF all, more, s
    <3>4. all \in Seq(Events) /\ more \in Seq(Events)
      BY <1>0, <3>2, OfTyped DEF all, more
    <3> QED BY <3>1, <3>3, <3>4
  <2> QED BY <2>1, <2>2, EventsGrow
<1>2. SUFFICES ASSUME c # <<>>
      PROVE  \E n \in 1..Len(more) :
         /\ Len(c) = IF n < RecallEvents THEN n ELSE RecallEvents
         /\ DOMAIN c = 1..Len(c)
         /\ \A k \in DOMAIN c : c[k] = more[n - Len(c) + k].turn
         /\ \A k \in (n + 1)..Len(more) : more[k].turn \in Invocations
  BY DEF Shown
<1>3. PICK n \in 1..Len(all) :
         /\ Len(c) = IF n < RecallEvents THEN n ELSE RecallEvents
         /\ DOMAIN c = 1..Len(c)
         /\ \A k \in DOMAIN c : c[k] = all[n - Len(c) + k].turn
         /\ \A k \in (n + 1)..Len(all) : all[k].turn \in Invocations
  BY <1>2 DEF Shown
<1> HIDE DEF all, more, c
<1>4. /\ n \in 1..Len(more) /\ Len(all) \in Nat
      /\ \A k \in 1..Len(all) : more[k] = all[k]
      /\ \A k \in 1..Len(more) : k \notin 1..Len(all) => more[k].turn \in Invocations
  BY <1>1
<1>5. \A k \in DOMAIN c : n - Len(c) + k \in 1..Len(all)
  BY <1>3, <1>4, KlamsAssumption
<1>6. \A k \in DOMAIN c : c[k] = more[n - Len(c) + k].turn
  BY <1>3, <1>4, <1>5
<1>7. \A k \in (n + 1)..Len(more) : more[k].turn \in Invocations
  <2> TAKE k \in (n + 1)..Len(more)
  <2>1. Len(more) \in Nat
    BY <1>1
  <2>2. k \in 1..Len(more) /\ (k \in 1..Len(all) => k \in (n + 1)..Len(all))
    BY <1>3, <1>4, <2>1
  <2> QED BY <1>3, <1>4, <2>2
<1> QED BY <1>3, <1>4, <1>6, <1>7

\* A step that recalls shows the end of what klams holds.
LEMMA RecallShows ==
  ASSUME IInv, RInv, NEW i \in Invocations, RecallTurns(i)
  PROVE  Shown(i)'
<1> DEFINE s == req[i].session
           all == Of(s, events)
           c == Recalled(s)
           n == Len(all)
<1>1. context'[i] = c /\ events' = events /\ req' = req
  BY DEF RecallTurns, RInv
<1>2. SUFFICES ASSUME c # <<>>
      PROVE  \E m \in 1..Len(all) :
         /\ Len(c) = IF m < RecallEvents THEN m ELSE RecallEvents
         /\ DOMAIN c = 1..Len(c)
         /\ \A k \in DOMAIN c : c[k] = all[m - Len(c) + k].turn
         /\ \A k \in (m + 1)..Len(all) : all[k].turn \in Invocations
  BY <1>1 DEF Shown
<1>3. /\ n \in Nat \ {0}
      /\ Len(c) = IF n < RecallEvents THEN n ELSE RecallEvents
      /\ DOMAIN c = 1..Len(c)
      /\ \A k \in DOMAIN c : c[k] = all[n - Len(c) + k].turn
  BY <1>2, RecalledTurns DEF IInv
<1> HIDE DEF c, all
<1> QED BY <1>3

LEMMA ContextKept ==
  ASSUME RInv, NEW i \in Invocations, Steps(i)
  PROVE  /\ DOMAIN context' = Invocations
         /\ \A j \in Invocations \ {i} : context'[j] = context[j]
         /\ RecallTurns(i) \/ context' = context
<1>1. CASE RecallTurns(i)
  BY <1>1 DEF RecallTurns, RInv
<1>2. CASE ~RecallTurns(i)
  <2>1. context' = context
    BY <1>2 DEF Steps, Step, Refuse, Accept, SkipTools, Connect, Register,
       RecallFails, Complete, Token, StreamEnds, StreamFails, Record,
       RecordFails, Close, Exit, Respond, Killed
  <2> QED BY <2>1 DEF RInv
<1> QED BY <1>1, <1>2

LEMMA RecallInvariant == Spec => []RInv
<1>1. Init => RInv
  <2> SUFFICES ASSUME Init PROVE RInv
    OBVIOUS
  <2> QED BY DEF Init, RInv, Shown
<1>2. IInv /\ RInv /\ [Next]_vars => RInv'
  <2> SUFFICES ASSUME IInv, RInv, [Next]_vars PROVE RInv'
    OBVIOUS
  <2>1. ASSUME NEW i \in Invocations, Steps(i) PROVE RInv'
    <3>1. /\ DOMAIN context' = Invocations /\ req' = req
          /\ \A j \in Invocations \ {i} : context'[j] = context[j]
          /\ RecallTurns(i) \/ context' = context
      BY <2>1, ContextKept, OthersKept DEF IInv
    <3>2. ASSUME NEW j \in Invocations, context'[j] = context[j] PROVE Shown(j)'
      BY <2>1, <3>1, <3>2, ShownKept DEF RInv
    <3>3. RecallTurns(i) => Shown(i)'
      BY RecallShows
    <3>4. \A j \in Invocations : Shown(j)'
      BY <3>1, <3>2, <3>3
    <3> QED BY <3>1, <3>4 DEF RInv
  <2>2. CASE UNCHANGED vars
    BY <2>2 DEF vars, RInv, Shown
  <2> QED BY <2>1, <2>2 DEF Next, Steps
<1> QED BY <1>1, <1>2, Invariant, PTL DEF Spec

\* However runs of a session record their turns meanwhile, a prompt is shown a
\* stretch of the session's turns without gap, in order (klams.rs:141-156,
\* 198-210).
THEOREM RecallsInOrder == Spec => []RecallInOrder
<1>1. RInv => RecallInOrder
  <2> SUFFICES ASSUME RInv, NEW i \in Invocations, context[i] # <<>>
      PROVE  \E n \in 1..Len(OfSession(req[i].session)) :
         /\ Len(context[i]) = IF n < RecallEvents THEN n ELSE RecallEvents
         /\ \A k \in DOMAIN context[i] :
              context[i][k] = OfSession(req[i].session)[n - Len(context[i]) + k].turn
         /\ \A k \in (n + 1)..Len(OfSession(req[i].session)) :
              OfSession(req[i].session)[k].turn \in Invocations
    BY DEF RecallInOrder
  <2>1. OfSession(req[i].session) = Of(req[i].session, events)
    BY OfEvents
  <2>2. Shown(i)
    BY DEF RInv
  <2> QED BY <2>1, <2>2 DEF Shown
<1> QED BY <1>1, RecallInvariant, PTL

-----------------------------------------------------------------------------
\* What is decided of an invocation is "ok" or one of the codes.
LEMMA ResultsTyped ==
  ASSUME Shape, NEW i \in Invocations
  PROVE  /\ Result(i) \in Codes \cup {"none", "ok"}
         /\ Verdict(i) \in Codes \cup {"none", "ok"}
         /\ world.mcp \in Codes \cup {"none", "ok"}
<1>1. {world.models, world.mcp, world.load,
       world.valid.own, world.valid.root,
       world.execution.own, world.execution.root,
       world.backend.tools, world.backend.bare, world.backend.memory}
        \subseteq Codes \cup {"ok"}
  BY KnownAssumption DEF Shape
<1>2. Result(i) \in Codes \cup {"none", "ok"}
  BY <1>1 DEF Result, GivenTo
<1>a. FileVerdict("own") \in Codes \cup {"ok"} /\ FileVerdict("root") \in Codes \cup {"ok"}
  BY <1>1 DEF FileVerdict
<1>3. /\ CliPromptVerdict(i) \in Codes \cup {"none", "ok"}
      /\ HttpPromptVerdict \in Codes \cup {"none", "ok"}
      /\ CliRunVerdict \in Codes \cup {"none", "ok"}
      /\ HttpRunVerdict \in Codes \cup {"none", "ok"}
  <2>1. {"EMPTY_PROMPT", "MODEL_NOT_IN_REGISTRY", "STREAMING_NOT_SUPPORTED",
         "WORKFLOW_PATH_OUTSIDE_ROOT"} \subseteq Codes
    BY DEF Codes, NotFound, BadInput
  <2> QED BY <1>1, <1>a, <2>1 DEF CliPromptVerdict, HttpPromptVerdict, CliRunVerdict,
             HttpRunVerdict, Registry
<1>4. Verdict(i) \in Codes \cup {"none", "ok"}
  <2>1. req[i].kind \in Kinds
    BY KnownAssumption DEF Shape
  <2> QED BY <1>a, <1>3, <2>1 DEF Verdict, Kinds
<1> QED BY <1>1, <1>2, <1>4

\* Where a step leads, and what is open, registered and noted after it.
LEMMA StagesTyped ==
  ASSUME TypeOK, NEW i \in Invocations, Steps(i)
  PROVE  /\ at' \in [Invocations -> Stages]
         /\ mcp' \in [Invocations -> {"none", "open", "closed"}]
         /\ mem' \subseteq Invocations
         /\ noted' \subseteq Invocations
<1> USE DEF TypeOK, Goto, Stages
<1>1. CASE Refuse(i) BY <1>1 DEF Refuse
<1>2. CASE Accept(i) BY <1>2 DEF Accept
<1>3. CASE SkipTools(i) BY <1>3 DEF SkipTools
<1>4. CASE Connect(i) BY <1>4, SMTT(30) DEF Connect
<1>5. CASE Register(i) BY <1>5 DEF Register
<1>6. CASE RecallTurns(i) BY <1>6 DEF RecallTurns
<1>7. CASE RecallFails(i) BY <1>7 DEF RecallFails
<1>8. CASE Complete(i) BY <1>8 DEF Complete
<1>9. CASE Token(i) BY <1>9 DEF Token
<1>10. CASE StreamEnds(i) BY <1>10 DEF StreamEnds
<1>11. CASE StreamFails(i) BY <1>11 DEF StreamFails
<1>12. CASE Record(i) BY <1>12 DEF Record
<1>13. CASE RecordFails(i) BY <1>13 DEF RecordFails
<1>14. CASE Close(i) BY <1>14 DEF Close
<1>15. CASE Exit(i) BY <1>15 DEF Exit
<1>16. CASE Respond(i) BY <1>16 DEF Respond
<1>17. CASE Killed(i) BY <1>17 DEF Killed
<1> QED BY <1>1, <1>2, <1>3, <1>4, <1>5, <1>6, <1>7, <1>8, <1>9, <1>10, <1>11,
           <1>12, <1>13, <1>14, <1>15, <1>16, <1>17 DEF Steps, Step

\* What it has written, and how it ends.
LEMMA AnswersTyped ==
  ASSUME TypeOK, Shape, NEW i \in Invocations, Steps(i)
  PROVE  /\ out' \in [Invocations -> SUBSET {"tokens", "newline", "text", "object"}]
         /\ outcome' \in [Invocations -> Codes \cup {"none", "ok"}]
         /\ answer' \in [Invocations -> {0, 1, 200, 400, 404, 500, 502, 503}]
<1> USE DEF TypeOK
<1>0. StreamErrors \subseteq Codes
  BY DEF StreamErrors, Codes, Unavailable
<1>a. Status(outcome[i]) \in {0, 1, 200, 400, 404, 500, 502, 503}
  BY DEF Status
<1>1. CASE Refuse(i) BY ResultsTyped, <1>1 DEF Refuse
<1>2. CASE Accept(i) BY <1>2 DEF Accept
<1>3. CASE SkipTools(i) BY <1>3 DEF SkipTools
<1>4. CASE Connect(i) BY ResultsTyped, <1>4, SMTT(30) DEF Connect
<1>5. CASE Register(i) BY <1>5 DEF Register
<1>6. CASE RecallTurns(i) BY <1>6 DEF RecallTurns
<1>7. CASE RecallFails(i) BY <1>7 DEF RecallFails
<1>8. CASE Complete(i) BY ResultsTyped, <1>8 DEF Complete
<1>9. CASE Token(i) BY <1>9 DEF Token
<1>10. CASE StreamEnds(i) BY <1>10 DEF StreamEnds
<1>11. CASE StreamFails(i) BY <1>0, <1>11 DEF StreamFails
<1>12. CASE Record(i) BY <1>12 DEF Record
<1>13. CASE RecordFails(i) BY <1>13 DEF RecordFails
<1>14. CASE Close(i) BY <1>14 DEF Close
<1>15. CASE Exit(i) BY <1>15 DEF Exit, Printed
<1>16. CASE Respond(i) BY <1>a, <1>16 DEF Respond
<1>17. CASE Killed(i) BY <1>17 DEF Killed
<1> QED BY <1>1, <1>2, <1>3, <1>4, <1>5, <1>6, <1>7, <1>8, <1>9, <1>10, <1>11,
           <1>12, <1>13, <1>14, <1>15, <1>16, <1>17 DEF Steps, Step

LEMMA TypesKept ==
  ASSUME IInv, RInv, TypeOK, NEW i \in Invocations, Steps(i)
  PROVE  TypeOK'
<1>1. Shape /\ Shape' /\ world' = world /\ req' = req /\ events' \in Seq(Events)
  BY OthersKept, StepKeepsKept DEF IInv
<1>2. ASSUME NEW j \in Invocations PROVE Len(context'[j]) <= RecallEvents
  <2>1. CASE context'[j] = context[j]
    BY <2>1 DEF TypeOK
  <2>2. CASE RecallTurns(i) /\ j = i
    <3> DEFINE c == Recalled(req[i].session)
    <3>1. context'[j] = c
      BY <2>2 DEF RecallTurns, RInv
    <3>2. c # <<>> =>
            /\ Len(Of(req[i].session, events)) \in Nat
            /\ Len(c) = IF Len(Of(req[i].session, events)) < RecallEvents
                        THEN Len(Of(req[i].session, events)) ELSE RecallEvents
      BY RecalledTurns DEF IInv
    <3>3. Len(c) <= RecallEvents
      <4> HIDE DEF c
      <4>1. Len(<<>>) = 0
        OBVIOUS
      <4> QED BY <3>2, <4>1, KlamsAssumption
    <3> QED BY <3>1, <3>3
  <2> QED BY <2>1, <2>2, ContextKept
<1>3. world' \in Worlds /\ req' \in Asks
  BY <1>1 DEF TypeOK
<1> QED BY <1>1, <1>2, <1>3, StagesTyped, AnswersTyped DEF TypeOK

\* Every variable keeps its type: the codes are those of MvError, the statuses
\* those of error.rs of mv-server, and no prompt is shown more turns than
\* RECALL_EVENTS (error.rs, klams.rs:198-210).
THEOREM FrontEndsTypeCorrect == Spec => []TypeOK
<1>1. Init => TypeOK
  <2> SUFFICES ASSUME Init PROVE TypeOK
    OBVIOUS
  <2>1. PICK c \in Cases : world = c.world /\ req = c.req /\ events = c.events
    BY DEF Init
  <2>2. world \in Worlds /\ req \in Asks /\ events \in Seq(Events)
    BY <2>1, CasesAssumption DEF Worlds, Asks
  <2>3. \A i \in Invocations : Len(context[i]) <= RecallEvents
    <3>1. Len(<<>>) = 0
      OBVIOUS
    <3> QED BY <3>1, KlamsAssumption DEF Init
  <2> QED BY <2>2, <2>3 DEF Init, TypeOK, Stages
<1>2. IInv /\ RInv /\ TypeOK /\ [Next]_vars => TypeOK'
  <2> SUFFICES ASSUME IInv, RInv, TypeOK, [Next]_vars PROVE TypeOK'
    OBVIOUS
  <2>1. CASE UNCHANGED vars
    BY <2>1 DEF vars, TypeOK
  <2> QED BY <2>1, TypesKept DEF Next, Steps
<1> QED BY <1>1, <1>2, Invariant, RecallInvariant, PTL DEF Spec
=============================================================================
