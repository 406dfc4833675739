---------------------------- MODULE SessionStore ----------------------------
(***************************************************************************)
(* What the session endpoints of mv-server promise their clients, without  *)
(* locks or tasks: a name is bound to at most one conversation, a bound    *)
(* name is never bound anew until it is deleted or the server restarts,    *)
(* and the turns of a conversation happen one after the other, each        *)
(* answered in the context of all the turns before it.                     *)
(*                                                                         *)
(* A conversation is named by the request that created it, a turn by the   *)
(* request that asked for it.                                              *)
(***************************************************************************)
EXTENDS Sequences

CONSTANTS Request, Name, None

VARIABLES
  bound,   \* the conversation a name is bound to, or None
  opened,  \* the conversations ever created
  conv,    \* the turns of each conversation, in order
  seen     \* the conversation so far, as each turn that was answered saw it

vars == <<bound, opened, conv, seen>>

Init ==
  /\ bound = [n \in Name |-> None]
  /\ opened = {}
  /\ conv = [c \in Request |-> <<>>]
  /\ seen = [r \in Request |-> <<>>]

Open(n, c) ==
  /\ bound[n] = None /\ c \notin opened
  /\ bound' = [bound EXCEPT ![n] = c]
  /\ opened' = opened \cup {c}
  /\ UNCHANGED <<conv, seen>>

Close(n) ==
  /\ bound[n] # None
  /\ bound' = [bound EXCEPT ![n] = None]
  /\ UNCHANGED <<opened, conv, seen>>

\* A turn may outlive the name of its conversation: it was looked up before.
Exchange(c, r) ==
  /\ c \in opened
  /\ conv' = [conv EXCEPT ![c] = Append(@, r)]
  /\ seen' = [seen EXCEPT ![r] = conv[c]]
  /\ UNCHANGED <<bound, opened>>

Restart ==
  /\ bound' = [n \in Name |-> None]
  /\ UNCHANGED <<opened, conv, seen>>

Next ==
  \/ \E n \in Name : Close(n) \/ \E c \in Request : Open(n, c)
  \/ \E c, r \in Request : Exchange(c, r)
  \/ Restart

Spec == Init /\ [][Next]_vars
=============================================================================
