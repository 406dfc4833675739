------------------------------ MODULE KlamsMemory ------------------------------
(***************************************************************************)
(* Conversation memory as a command line run uses it                       *)
(* (crates/mv-core/src/memory): the turns of every session are events of   *)
(* one klams server, appended and searched through MCP tools, so that      *)
(* every answer passes the cap on tool output (mcp/registry.rs:55-65).     *)
(*                                                                         *)
(* Of a text only its length is kept: whether a field is cut before it is  *)
(* stored, and whether an answer still is JSON when it comes back.         *)
(*                                                                         *)
(* FieldUncut and RecalledNewestFirst are slips the properties must catch; *)
(* nothing in the specification uses them.                                 *)
(***************************************************************************)
EXTENDS Naturals, Sequences, SequencesExt

CONSTANTS
  Conversations, \* the sessions' names
  Turns,         \* the turns recorded before, and the runs that may record one
  RecallEvents,  \* RECALL_EVENTS
  FieldCap,      \* FIELD_CAP
  ToolCap,       \* MAX_TOOL_OUTPUT_CHARS
  Notice,        \* what truncate_output adds to a text it cuts
  Framing        \* what an event adds to its fields in an answer, at least

ASSUME KlamsAssumption ==
  RecallEvents \in Nat /\ FieldCap \in Nat /\ Notice \in Nat

VARIABLE events  \* the conversation events of all sessions, as appended

FieldUncut(length) == length

\* truncate_field: the length of a field as it is stored.
Field(length) == IF length <= FieldCap THEN length ELSE FieldCap + Notice

Events ==
  [session : Conversations, turn : Turns, length : 0..(2 * (FieldCap + Notice))]

Event(session, turn, prompt, reply) ==
  [session |-> session, turn |-> turn, length |-> Field(prompt) + Field(reply)]

\* memory_append_event has stored a turn.
Stored(session, turn, prompt, reply) ==
  events' = Append(events, Event(session, turn, prompt, reply))

\* The events of a session, in the order they were appended.
OfSession(session) ==
  LET of[n \in 0..Len(events)] ==
        IF n = 0 THEN <<>>
        ELSE IF events[n].session = session THEN Append(of[n - 1], events[n])
        ELSE of[n - 1]
  IN of[Len(events)]

\* event_search with order desc and a limit: the newest first.
Newest(session) ==
  LET all == OfSession(session)
      from == IF Len(all) < RecallEvents THEN 1 ELSE Len(all) - RecallEvents + 1
  IN Reverse(SubSeq(all, from, Len(all)))

AnswerLength(found) ==
  FoldSeq(LAMBDA e, sum : e.length + Framing + sum, 0, found)

\* An answer beyond the cap is cut, and what is left is no JSON.
Parses(found) == AnswerLength(found) <= ToolCap

RecalledNewestFirst(session) ==
  LET found == Newest(session)
  IN IF Parses(found) THEN [k \in DOMAIN found |-> found[k].turn] ELSE <<>>

\* recall_block's part from the session: oldest first, and nothing at all when
\* the answer does not parse.
Recalled(session) ==
  LET found == Reverse(Newest(session))
  IN IF Parses(found) THEN [k \in DOMAIN found |-> found[k].turn] ELSE <<>>
=============================================================================
