--------------------------- MODULE Sessions_proofs ---------------------------
(***************************************************************************)
(* Proofs about Sessions, for any requests, names and endpoints.           *)
(***************************************************************************)
EXTENDS Sessions, SequenceTheorems, TLAPS

\* A turn at work, and a turn whose exchange is in the history.
Working == {"recall", "chat", "record"}
Past(r) == op[r] = "turn" /\ pc[r] \in {"record", "ok", "cut"}

\* Who does what, and on which sessions.
Roles ==
  \A r \in Request :
    /\ pc[r] = "walk" => op[r] = "list"
    /\ pc[r] \in {"found", "wantLock"} \cup Working =>
         op[r] = "turn" /\ sess[r] \in Opened

BoundOpened == \A n \in Name : sessions[n] \in Opened \cup {None}

\* A turn at work holds the lock of its session.
Owner == \A r \in Request : pc[r] \in Working => Holds(r, lockq[sess[r]])

\* Histories hold turns that were answered, of the session they belong to.
Kept ==
  \A s \in Request : \A i \in DOMAIN history[s] :
    Past(history[s][i]) /\ sess[history[s][i]] = s

Written ==
  /\ \A r \in writing : Past(r)
  /\ \A n \in Name : \A i \in DOMAIN events[n] : Past(events[n][i])

IInv ==
  /\ TypeOK /\ Roles /\ BoundOpened /\ Owner /\ ContextCurrent
  /\ Kept /\ Written /\ RecordsRemembered

-----------------------------------------------------------------------------
\* Leaving a queue keeps it a queue of requests.
LEMMA WithoutType ==
  ASSUME NEW queue \in Seq(Request), NEW r
  PROVE  Without(queue, r) \in Seq(Request)
<1>1. CASE \E i \in DOMAIN queue : queue[i] = r
  <2> DEFINE k == CHOOSE i \in DOMAIN queue : queue[i] = r
  <2>1. k \in 1..Len(queue)
    BY <1>1
  <2> HIDE DEF k
  <2>2. SubSeq(queue, 1, k - 1) \in Seq(Request)
    BY <2>1
  <2>3. SubSeq(queue, k + 1, Len(queue)) \in Seq(Request)
    BY <2>1
  <2>4. RemoveAt(queue, k) \in Seq(Request)
    BY <2>2, <2>3 DEF RemoveAt
  <2> QED
    BY <1>1, <2>4 DEF Without, k
<1> QED
  BY <1>1 DEF Without

\* A lock stays with its holder when another request leaves the queue.
LEMMA WithoutHead ==
  ASSUME NEW queue \in Seq(Request), NEW r, NEW h, Holds(h, queue), h # r
  PROVE  Holds(h, Without(queue, r))
<1>1. CASE \E i \in DOMAIN queue : queue[i] = r
  <2> DEFINE k == CHOOSE i \in DOMAIN queue : queue[i] = r
             front == SubSeq(queue, 1, k - 1)
             back == SubSeq(queue, k + 1, Len(queue))
  <2>1. k \in 1..Len(queue) /\ queue[k] = r
    BY <1>1
  <2>2. k > 1
    BY <2>1 DEF Holds
  <2> HIDE DEF k
  <2>3. front \in Seq(Request) /\ Len(front) = k - 1 /\ front[1] = h
    BY <2>1, <2>2 DEF Holds
  <2>4. back \in Seq(Request)
    BY <2>1
  <2> HIDE DEF front, back
  <2>5. front \o back # <<>> /\ Head(front \o back) = h
    <3>1. front \o back \in Seq(Request)
      BY <2>3, <2>4
    <3>2. Len(front \o back) = Len(front) + Len(back) /\ (front \o back)[1] = front[1]
      <4>1. /\ Len(front \o back) = Len(front) + Len(back)
            /\ \A i \in 1..Len(front) + Len(back) :
                 (front \o back)[i] = IF i <= Len(front) THEN front[i]
                                      ELSE back[i - Len(front)]
        BY <2>3, <2>4, ConcatProperties
      <4>2. Len(front) \in Nat /\ Len(front) >= 1 /\ Len(back) \in Nat
        BY <2>1, <2>2, <2>3, <2>4
      <4> QED
        BY <4>1, <4>2
    <3> QED
      BY <2>1, <2>2, <2>3, <2>4, <3>1, <3>2
  <2> QED
    BY <1>1, <2>5 DEF Without, Holds, RemoveAt, k, front, back
<1> QED
  BY <1>1 DEF Without

\* Giving back the locks of one request takes none from another.
LEMMA Released ==
  ASSUME TypeOK, NEW r \in Request, NEW next, Release(r, next)
  PROVE  /\ mapq' \in Seq(Request) /\ lockq' \in [Request -> Seq(Request)]
         /\ pc' = [pc EXCEPT ![r] = next]
         /\ \A h, s \in Request :
              h # r /\ Holds(h, lockq[s]) => Holds(h, lockq'[s])
<1>1. mapq' \in Seq(Request)
  BY WithoutType DEF Release, TypeOK
<1>2. lockq' \in [Request -> Seq(Request)]
  BY WithoutType DEF Release, TypeOK
<1>3. ASSUME NEW h \in Request, NEW s \in Request, h # r, Holds(h, lockq[s])
      PROVE  Holds(h, lockq'[s])
  BY <1>3, WithoutHead DEF Release, TypeOK
<1> QED
  BY <1>1, <1>2, <1>3 DEF Release

\* Asking for a lock takes it from nobody.
LEMMA AppendHead ==
  ASSUME NEW queue \in Seq(Request), NEW r \in Request
  PROVE  /\ Append(queue, r) \in Seq(Request)
         /\ \A h : Holds(h, queue) => Holds(h, Append(queue, r))
BY DEF Holds

\* What Append adds to the entries of a sequence.
LEMMA AppendEntries ==
  ASSUME NEW queue \in Seq(Request), NEW r \in Request
  PROVE  /\ Append(queue, r) \in Seq(Request)
         /\ \E i \in DOMAIN Append(queue, r) : Append(queue, r)[i] = r
         /\ \A i \in DOMAIN queue :
              i \in DOMAIN Append(queue, r) /\ Append(queue, r)[i] = queue[i]
         /\ \A i \in DOMAIN Append(queue, r) :
              \/ i \in DOMAIN queue /\ Append(queue, r)[i] = queue[i]
              \/ Append(queue, r)[i] = r /\ i = Len(queue) + 1
<1>1. Len(queue) + 1 \in DOMAIN Append(queue, r)
  OBVIOUS
<1>2. Append(queue, r)[Len(queue) + 1] = r
  OBVIOUS
<1> QED
  BY <1>1, <1>2

-----------------------------------------------------------------------------
\* A step that leaves the histories and klams alone, and the turns of the
\* histories where they are, keeps what is said of both.
LEMMA Calm ==
  ASSUME IInv, UNCHANGED <<op, name, history, klams>>,
         \A q \in Request : Past(q) => Past(q)' /\ sess'[q] = sess[q]
  PROVE  (Kept /\ Written /\ RecordsRemembered)'
<1> USE DEF IInv, TypeOK, klams
<1>1. Kept'
  <2> SUFFICES ASSUME NEW s \in Request, NEW i \in DOMAIN history[s]
               PROVE  Past(history[s][i])' /\ sess'[history[s][i]] = s
    BY DEF Kept
  <2>1. history[s][i] \in Request
    OBVIOUS
  <2>2. Past(history[s][i]) /\ sess[history[s][i]] = s
    BY DEF Kept
  <2> QED
    BY <2>1, <2>2
<1>2. Written'
  BY DEF Written
<1>3. \A q \in Request : Past(q) /\ Exchanged(q) => Exchanged(q)'
  BY DEF Exchanged
<1>4. RecordsRemembered'
  BY <1>3 DEF RecordsRemembered, Written
<1> QED
  BY <1>1, <1>2, <1>4

\* The same for who works on which session, when r alone goes on, keeps its
\* session, and no lock is taken from another.
LEMMA Onward ==
  ASSUME IInv, NEW r \in Request, NEW next,
         UNCHANGED <<op, name, sess, sent, history, klams>>,
         pc' = [pc EXCEPT ![r] = next], next \in Done \cup {"begin", "wantMap"},
         pc[r] \notin {"ok", "cut"},
         \A n \in Name : sessions'[n] \in {sessions[n], None} \cup Opened',
         \A h, s \in Request : h # r /\ Holds(h, lockq[s]) => Holds(h, lockq'[s])
  PROVE  (Roles /\ BoundOpened /\ Owner /\ ContextCurrent)'
<1> USE DEF IInv, TypeOK, Done, Working
<1>1. Opened \subseteq Opened'
  BY DEF Opened
<1>2. Roles'
  BY <1>1 DEF Roles
<1>3. BoundOpened'
  BY <1>1 DEF BoundOpened
<1>4. Owner'
  BY DEF Owner, Roles, Opened
<1>5. ContextCurrent'
  BY DEF ContextCurrent
<1> QED
  BY <1>2, <1>3, <1>4, <1>5

-----------------------------------------------------------------------------
\* A request that comes to its end without an exchange of its own to lose.
LEMMA Gone ==
  ASSUME IInv, NEW r \in Request, NEW next \in Done, Release(r, next),
         pc[r] \notin {"idle"} \cup Done, Past(r) => next # "error",
         UNCHANGED <<task, history, memory, klams, restarts>>,
         sessions' \in [Name -> Request \cup {None}], walk' \subseteq walk,
         \A n \in Name : sessions'[n] \in {sessions[n], None} \cup Opened'
  PROVE  IInv'
<1>1. /\ mapq' \in Seq(Request) /\ lockq' \in [Request -> Seq(Request)]
      /\ pc' = [pc EXCEPT ![r] = next]
      /\ \A h, s \in Request :
           h # r /\ Holds(h, lockq[s]) => Holds(h, lockq'[s])
  BY Released DEF IInv
<1>2. TypeOK'
  BY <1>1 DEF IInv, TypeOK, task, klams, Awaits, Done
<1>3. (Roles /\ BoundOpened /\ Owner /\ ContextCurrent)'
  BY <1>1, Onward DEF task, klams, Done
<1>4. (Kept /\ Written /\ RecordsRemembered)'
  <2>1. \A q \in Request : Past(q) => Past(q)' /\ sess'[q] = sess[q]
    BY <1>1 DEF IInv, TypeOK, Past, task, Done
  <2> QED
    BY <2>1, Calm DEF task, klams
<1> QED
  BY <1>2, <1>3, <1>4 DEF IInv

-----------------------------------------------------------------------------
LEMMA CreateKeeps ==
  ASSUME IInv, NEW r \in Request,
         Refuse(r) \/ Arrive(r) \/ Begun(r) \/ CreateEntry(r)
  PROVE  IInv'
<1> USE DEF TypeOK, Awaits, Done, task, server, klams
<1>1. CASE Refuse(r)
  <2>1. TypeOK'
    BY <1>1 DEF IInv, Refuse
  <2>2. (Roles /\ BoundOpened /\ Owner /\ ContextCurrent)'
    BY <1>1, Onward DEF IInv, Refuse
  <2>3. (Kept /\ Written /\ RecordsRemembered)'
    BY <1>1, Calm DEF IInv, Refuse, Past
  <2> QED
    BY <2>1, <2>2, <2>3 DEF IInv
<1>2. CASE Arrive(r)
  <2>1. TypeOK'
    BY <1>2, AppendHead, ZenonT(30) DEF IInv, Arrive
  <2>2. (Roles /\ BoundOpened /\ Owner /\ ContextCurrent)'
    BY <1>2, Onward DEF IInv, Arrive
  <2>3. (Kept /\ Written /\ RecordsRemembered)'
    BY <1>2, Calm DEF IInv, Arrive, Past
  <2> QED
    BY <2>1, <2>2, <2>3 DEF IInv
<1>3. CASE Begun(r)
  <2>1. TypeOK'
    BY <1>3, AppendHead DEF IInv, Begun
  <2>2. (Roles /\ BoundOpened /\ Owner /\ ContextCurrent)'
    BY <1>3, Onward DEF IInv, Begun
  <2>3. (Kept /\ Written /\ RecordsRemembered)'
    BY <1>3, Calm DEF IInv, Begun, Past
  <2> QED
    BY <2>1, <2>2, <2>3 DEF IInv
<1>4. CASE CreateEntry(r)
  <2>1. PICK next \in {"ok", "error"} :
          /\ Release(r, next)
          /\ sessions' = IF next = "ok" THEN [sessions EXCEPT ![name[r]] = r]
                                        ELSE sessions
    BY <1>4 DEF CreateEntry
  <2>2. \A n \in Name : sessions'[n] \in {sessions[n], None} \cup Opened'
    BY <1>4, <2>1 DEF IInv, CreateEntry, HasMap, Opened, Release
  <2>3. sessions' \in [Name -> Request \cup {None}]
    BY <2>1 DEF IInv
  <2> QED
    BY <1>4, <2>1, <2>2, <2>3, Gone DEF CreateEntry, HasMap, Past
<1> QED
  BY <1>1, <1>2, <1>3, <1>4

LEMMA ListKeeps ==
  ASSUME IInv, NEW r \in Request,
         ListStart(r) \/ ListLock(r) \/ ListRead(r) \/ ListDone(r)
  PROVE  IInv'
<1> USE DEF TypeOK, Awaits, Done, task, server, klams
<1>1. CASE ListStart(r)
  <2>1. TypeOK'
    BY <1>1 DEF IInv, ListStart, HasMap
  <2>2. Opened' = Opened
    BY <1>1 DEF IInv, ListStart, HasMap, Opened
  <2>3. (Roles /\ BoundOpened /\ Owner /\ ContextCurrent)'
    BY <1>1, <2>2
    DEF IInv, ListStart, HasMap, Roles, BoundOpened, Owner, ContextCurrent, Working
  <2>4. (Kept /\ Written /\ RecordsRemembered)'
    BY <1>1, Calm DEF IInv, ListStart, HasMap, Past
  <2> QED
    BY <2>1, <2>3, <2>4 DEF IInv
<1>2. CASE ListLock(r)
  <2>1. PICK s \in walk :
          /\ sess' = [sess EXCEPT ![r] = s]
          /\ lockq' = [lockq EXCEPT ![s] = Append(@, r)]
    BY <1>2 DEF ListLock
  <2>2. \A q \in Request : Append(lockq[s], r) \in Seq(Request)
                           /\ (Holds(q, lockq[s]) => Holds(q, Append(lockq[s], r)))
    BY <2>1, AppendHead DEF IInv
  <2>3. TypeOK'
    BY <1>2, <2>1, <2>2 DEF IInv, ListLock
  <2>4. Opened' = Opened
    BY <1>2 DEF IInv, ListLock, Opened
  <2>5. Roles' /\ BoundOpened' /\ ContextCurrent'
    <3>1. Roles'
      BY <1>2, <2>1, <2>4 DEF IInv, ListLock, Roles, Working
    <3>2. BoundOpened'
      BY <1>2, <2>4 DEF IInv, ListLock, BoundOpened
    <3>3. ContextCurrent'
      BY <1>2, <2>1 DEF IInv, ListLock, ContextCurrent, Working
    <3> QED
      BY <3>1, <3>2, <3>3
  <2>6. Owner'
    BY <1>2, <2>1, <2>2, ZenonT(30) DEF IInv, ListLock, Owner, Roles, Opened, Working
  <2>7. (Kept /\ Written /\ RecordsRemembered)'
    BY <1>2, <2>1, Calm DEF IInv, ListLock, Past
  <2> QED
    BY <2>3, <2>5, <2>6, <2>7 DEF IInv
<1>3. CASE ListRead(r)
  <2> DEFINE s == sess[r]
  <2>1. \A q \in Request : Without(lockq[s], r) \in Seq(Request)
             /\ (q # r /\ Holds(q, lockq[s]) => Holds(q, Without(lockq[s], r)))
    BY <1>3, WithoutType, WithoutHead DEF IInv, ListRead
  <2>2. TypeOK'
    BY <1>3, <2>1 DEF IInv, ListRead
  <2>3. Opened' = Opened
    BY <1>3 DEF IInv, ListRead, Opened
  <2>4. Roles' /\ BoundOpened' /\ ContextCurrent'
    BY <1>3, <2>3
    DEF IInv, ListRead, Roles, BoundOpened, ContextCurrent, Working
  <2>5. Owner'
    BY <1>3, <2>1 DEF IInv, ListRead, Owner, Roles, Opened, Working
  <2>6. (Kept /\ Written /\ RecordsRemembered)'
    BY <1>3, Calm DEF IInv, ListRead, Past
  <2> QED
    BY <2>2, <2>4, <2>5, <2>6 DEF IInv
<1>4. CASE ListDone(r)
  BY <1>4, Gone DEF IInv, ListDone, Past
<1> QED
  BY <1>1, <1>2, <1>3, <1>4

LEMMA EndKeeps ==
  ASSUME IInv, NEW r \in Request,
         DeleteEntry(r) \/ ChatFails(r) \/ RecordReturns(r) \/ Cancel(r)
  PROVE  IInv'
<1> USE DEF Awaits, Done, task, klams, Past
<1>1. CASE DeleteEntry(r)
  <2>1. sessions' \in [Name -> Request \cup {None}]
    BY <1>1 DEF DeleteEntry, IInv, TypeOK
  <2>2. \A n \in Name : sessions'[n] \in {sessions[n], None}
    BY <1>1 DEF DeleteEntry, IInv, TypeOK
  <2>3. PICK next \in {"ok", "error"} : Release(r, next)
    BY <1>1 DEF DeleteEntry
  <2> QED
    BY <1>1, <2>1, <2>2, <2>3, Gone DEF DeleteEntry, HasMap
<1>2. CASE ChatFails(r)
  BY <1>2, Gone DEF ChatFails, IInv, TypeOK
<1>3. CASE RecordReturns(r)
  BY <1>3, Gone DEF RecordReturns, IInv, TypeOK
<1>4. CASE Cancel(r)
  BY <1>4, Gone DEF Cancel, IInv, TypeOK
<1> QED
  BY <1>1, <1>2, <1>3, <1>4

LEMMA TurnStartKeeps ==
  ASSUME IInv, NEW r \in Request,
         Lookup(r) \/ WantLock(r) \/ Start(r) \/ Recalled(r)
  PROVE  IInv'
<1> USE DEF Awaits, Done, task, server, klams, Working
<1>1. CASE Lookup(r)
  <2>1. PICK next \in {"error", "found"} :
          /\ Release(r, next)
          /\ next = "found" => sessions[name[r]] # None
    BY <1>1 DEF Lookup
  <2>2. /\ mapq' \in Seq(Request) /\ lockq' \in [Request -> Seq(Request)]
        /\ pc' = [pc EXCEPT ![r] = next]
        /\ \A h, s \in Request :
             h # r /\ Holds(h, lockq[s]) => Holds(h, lockq'[s])
    BY <2>1, Released DEF IInv
  <2>3. TypeOK'
    BY <1>1, <2>2 DEF IInv, TypeOK, Lookup
  <2>4. Opened' = Opened
    BY <1>1, <2>2 DEF IInv, TypeOK, Lookup, HasMap, Opened
  <2>5. Roles' /\ BoundOpened' /\ ContextCurrent'
    BY <1>1, <2>1, <2>2, <2>4
    DEF IInv, TypeOK, Lookup, HasMap, Roles, BoundOpened, ContextCurrent
  <2>6. Owner'
    BY <1>1, <2>2 DEF IInv, TypeOK, Lookup, Owner, Roles, Opened
  <2>7. (Kept /\ Written /\ RecordsRemembered)'
    BY <1>1, <2>2, Calm DEF IInv, TypeOK, Lookup, HasMap, Past
  <2> QED
    BY <2>3, <2>5, <2>6, <2>7 DEF IInv
<1>2. CASE WantLock(r)
  <2>1. sess[r] \in Request
    BY <1>2 DEF IInv, WantLock, Roles, Opened
  <2>2. /\ Append(lockq[sess[r]], r) \in Seq(Request)
        /\ \A q \in Request : Holds(q, lockq[sess[r]])
                              => Holds(q, Append(lockq[sess[r]], r))
    BY <2>1, AppendHead DEF IInv, TypeOK
  <2>3. TypeOK'
    BY <1>2, <2>2 DEF IInv, TypeOK, WantLock
  <2>4. Opened' = Opened
    BY <1>2 DEF IInv, TypeOK, WantLock, Opened
  <2>5. Roles' /\ BoundOpened' /\ ContextCurrent'
    BY <1>2, <2>4
    DEF IInv, TypeOK, WantLock, Roles, BoundOpened, ContextCurrent
  <2>6. Owner'
    BY <1>2, <2>1, <2>2 DEF IInv, TypeOK, WantLock, Owner, Roles, Opened
  <2>7. (Kept /\ Written /\ RecordsRemembered)'
    BY <1>2, Calm DEF IInv, TypeOK, WantLock, Past
  <2> QED
    BY <2>3, <2>5, <2>6, <2>7 DEF IInv
<1>3. CASE Start(r)
  <2>1. sess[r] \in Request /\ history[sess[r]] \in Seq(Request)
    BY <1>3 DEF IInv, TypeOK, Start, Roles, Opened
  <2>2. TypeOK'
    BY <1>3, <2>1 DEF IInv, TypeOK, Start
  <2>3. Opened' = Opened
    BY <1>3 DEF IInv, TypeOK, Start, Opened
  <2>4. Roles' /\ BoundOpened' /\ Owner'
    <3>1. Roles'
      BY <1>3, <2>3 DEF IInv, TypeOK, Start, Roles
    <3>2. BoundOpened'
      BY <1>3, <2>3 DEF IInv, TypeOK, Start, BoundOpened
    <3>3. Owner'
      BY <1>3 DEF IInv, TypeOK, Start, Owner
    <3> QED
      BY <3>1, <3>2, <3>3
  <2>5. ContextCurrent'
    BY <1>3 DEF IInv, TypeOK, Start, ContextCurrent
  <2>6. (Kept /\ Written /\ RecordsRemembered)'
    BY <1>3, Calm DEF IInv, TypeOK, Start, Past
  <2> QED
    BY <2>2, <2>4, <2>5, <2>6 DEF IInv
<1>4. CASE Recalled(r)
  <2>1. sess[r] \in Request /\ history[sess[r]] \in Seq(Request)
    BY <1>4 DEF IInv, TypeOK, Recalled, Roles, Opened
  <2>2. PICK block \in SUBSET Request :
          recalled' = [recalled EXCEPT ![r] = block]
    <3> DEFINE stored == events[name[r]]
               newest == {stored[i] : i \in {j \in 1..Len(stored) :
                                               j + RecallEvents > Len(stored)}}
    <3>1. stored \in Seq(Request)
      BY DEF IInv, TypeOK
    <3>2. \A i \in 1..Len(stored) : stored[i] \in Request
      BY <3>1
    <3>3. newest \in SUBSET Request
      BY <3>2
    <3>4. \E block \in {{}, newest} : recalled' = [recalled EXCEPT ![r] = block]
      BY <1>4 DEF Recalled
    <3> QED
      BY <3>3, <3>4
  <2>3. TypeOK'
    BY <1>4, <2>1, <2>2 DEF IInv, TypeOK, Recalled
  <2>4. Opened' = Opened
    BY <1>4 DEF IInv, TypeOK, Recalled, Opened
  <2>5. Roles' /\ BoundOpened' /\ Owner'
    BY <1>4, <2>4 DEF IInv, TypeOK, Recalled, Roles, BoundOpened, Owner
  <2>6. ContextCurrent'
    BY <1>4 DEF IInv, TypeOK, Recalled, ContextCurrent
  <2>7. (Kept /\ Written /\ RecordsRemembered)'
    BY <1>4, Calm DEF IInv, TypeOK, Recalled, Past
  <2> QED
    BY <2>3, <2>5, <2>6, <2>7 DEF IInv
<1> QED
  BY <1>1, <1>2, <1>3, <1>4

\* The turn of r, and no other, is with the model on its session: it holds the
\* session's lock.
LEMMA ReplyKeeps ==
  ASSUME IInv, NEW r \in Request, Reply(r)
  PROVE  IInv'
<1> DEFINE s == sess[r]
<1> USE DEF Awaits, Done, task, Working
<1>1. /\ s \in Request /\ op[r] = "turn" /\ Holds(r, lockq[s])
      /\ history[s] \in Seq(Request) /\ pc[r] = "chat"
  BY DEF IInv, TypeOK, Roles, Opened, Owner, Reply
<1>2. \A q \in Request : pc[q] = "chat" /\ sess[q] = s => q = r
  BY <1>1 DEF IInv, Owner, Holds
<1>3. PICK next \in {"record", "ok"} :
        /\ pc' = [pc EXCEPT ![r] = next]
        /\ next = "record" => UNCHANGED <<mapq, lockq>>
        /\ next = "ok" => Release(r, next)
  <2>1. CASE memory[s]
    BY <2>1 DEF Reply
  <2>2. CASE ~ memory[s]
    BY <2>2 DEF Release, Reply
  <2> QED
    BY <2>1, <2>2
<1>4. /\ mapq' \in Seq(Request) /\ lockq' \in [Request -> Seq(Request)]
      /\ \A h, t \in Request :
           h # r /\ Holds(h, lockq[t]) => Holds(h, lockq'[t])
      /\ next = "record" => lockq' = lockq
  BY <1>3, Released DEF IInv, TypeOK
<1>5. /\ writing' \subseteq writing \cup {r}
      /\ history' = [history EXCEPT ![s] = Append(@, r)]
      /\ UNCHANGED <<op, name, sess, sent, recalled, sessions, walk, memory,
                     events, restarts>>
  BY DEF Reply
<1>6. /\ history' \in [Request -> Seq(Request)]
      /\ \A t \in Request \ {s} : history'[t] = history[t]
      /\ \E i \in DOMAIN history'[s] : history'[s][i] = r
      /\ \A i \in DOMAIN history[s] :
           i \in DOMAIN history'[s] /\ history'[s][i] = history[s][i]
      /\ \A i \in DOMAIN history'[s] :
           \/ i \in DOMAIN history[s] /\ history'[s][i] = history[s][i]
           \/ history'[s][i] = r
  <2> DEFINE longer == Append(history[s], r)
  <2>1. /\ longer \in Seq(Request)
        /\ \E i \in DOMAIN longer : longer[i] = r
        /\ \A i \in DOMAIN history[s] : i \in DOMAIN longer /\ longer[i] = history[s][i]
        /\ \A i \in DOMAIN longer :
             (i \in DOMAIN history[s] /\ longer[i] = history[s][i]) \/ longer[i] = r
    BY <1>1, AppendEntries
  <2>2. history' = [history EXCEPT ![s] = longer]
    BY <1>5
  <2> HIDE DEF longer
  <2>3. history'[s] = longer /\ \A t \in Request \ {s} : history'[t] = history[t]
    BY <1>1, <2>2 DEF IInv, TypeOK
  <2>4. history' \in [Request -> Seq(Request)]
    BY <2>1, <2>2 DEF IInv, TypeOK
  <2> QED
    BY <2>1, <2>3, <2>4
<1>7. TypeOK'
  BY <1>3, <1>4, <1>5, <1>6 DEF IInv, TypeOK
<1>8. Opened' = Opened
  BY <1>1, <1>3, <1>5 DEF IInv, TypeOK, Opened
<1>9. Roles' /\ BoundOpened'
  BY <1>1, <1>3, <1>5, <1>8 DEF IInv, TypeOK, Roles, BoundOpened
<1>10. Owner'
  <2> SUFFICES ASSUME NEW q \in Request, pc'[q] \in Working
               PROVE  Holds(q, lockq'[sess[q]])
    BY <1>5 DEF Owner
  <2>1. CASE q = r
    BY <2>1, <1>1, <1>3, <1>4 DEF IInv, TypeOK
  <2>2. CASE q # r
    BY <2>2, <1>3, <1>4 DEF IInv, TypeOK, Owner, Roles, Opened
  <2> QED
    BY <2>1, <2>2
<1>11. ContextCurrent'
  BY <1>2, <1>3, <1>5 DEF IInv, TypeOK, ContextCurrent, Roles, Opened
<1>12. \A q \in Request : Past(q) => Past(q)'
  BY <1>3, <1>5 DEF IInv, TypeOK, Past
<1>13. Past(r)'
  BY <1>1, <1>3, <1>5 DEF IInv, TypeOK, Past
<1>14. Kept'
  <2> SUFFICES ASSUME NEW t \in Request, NEW i \in DOMAIN history'[t]
               PROVE  Past(history[t][i])' /\ sess'[history'[t][i]] = t
    BY DEF Kept
  <2>1. CASE i \in DOMAIN history[t] /\ history'[t][i] = history[t][i]
    <3>1. history[t][i] \in Request
      BY <2>1 DEF IInv, TypeOK
    <3>2. Past(history[t][i]) /\ sess[history[t][i]] = t
      BY <2>1 DEF IInv, Kept
    <3>3. op[history[t][i]] = "turn" /\ pc'[history[t][i]] \in {"record", "ok", "cut"}
      BY <3>1, <3>2, <1>3, <1>5 DEF IInv, TypeOK, Past
    <3> QED
      BY <3>2, <3>3, <2>1, <1>5 DEF Past
  <2>2. CASE t = s /\ history'[t][i] = r
    BY <2>2, <1>1, <1>3, <1>5 DEF IInv, TypeOK, Past
  <2> QED
    BY <2>1, <2>2, <1>6
<1>15. Written'
  <2>1. \A q \in writing' : Past(q)'
    BY <1>5, <1>12, <1>13 DEF IInv, TypeOK, Written
  <2>2. ASSUME NEW n \in Name, NEW i \in DOMAIN events[n]
        PROVE  Past(events[n][i])'
    <3>1. events[n][i] \in Request /\ Past(events[n][i])
      BY DEF IInv, TypeOK, Written
    <3> QED
      BY <3>1, <1>3, <1>5 DEF IInv, TypeOK, Past
  <2> QED
    BY <2>1, <2>2, <1>5 DEF Written
<1>16. \A q \in Request : Exchanged(q) => Exchanged(q)'
  <2> SUFFICES ASSUME NEW q \in Request, Exchanged(q)
               PROVE  Exchanged(q)'
    OBVIOUS
  <2>1. PICK i \in DOMAIN history[sess[q]] :
          sess[q] # None /\ history[sess[q]][i] = q
    BY DEF Exchanged
  <2>2. sess[q] \in Request
    BY <2>1 DEF IInv, TypeOK
  <2>3. i \in DOMAIN history'[sess[q]] /\ history'[sess[q]][i] = q
    BY <2>1, <2>2, <1>6
  <2> QED
    BY <2>1, <2>3, <1>5 DEF Exchanged
<1>17. Exchanged(r)'
  <2>1. \E i \in DOMAIN history'[s] : history'[s][i] = r
    BY <1>6
  <2> QED
    BY <2>1, <1>1, <1>5, SessionAssumptions DEF Exchanged, SessionAssumptions
<1>18. RecordsRemembered'
  <2>1. \A q \in writing' : Exchanged(q)'
    BY <1>5, <1>16, <1>17 DEF IInv, TypeOK, RecordsRemembered
  <2>3. ASSUME NEW q \in writing', NEW i \in DOMAIN events[name[q]]
        PROVE  events[name[q]][i] # q
    <3>1. q \in writing \/ q = r
      BY <1>5
    <3>2. q = r => name[q] \in Name /\ ~ Past(q)
      BY <1>1 DEF IInv, TypeOK, Past
    <3>3. name[q] \in Name /\ ~ Past(q) => events[name[q]][i] # q
      BY DEF IInv, Written
    <3> QED
      BY <3>1, <3>2, <3>3 DEF IInv, RecordsRemembered
  <2>2. ASSUME NEW n \in Name, NEW i \in DOMAIN events[n]
        PROVE  Exchanged(events[n][i])' /\ name[events[n][i]] = n
    <3>1. events[n][i] \in Request
      BY DEF IInv, TypeOK
    <3>2. Exchanged(events[n][i]) /\ name[events[n][i]] = n
      BY DEF IInv, RecordsRemembered
    <3>3. PICK q \in Request : q = events[n][i]
      BY <3>1
    <3>4. Exchanged(q)'
      BY <3>2, <3>3, <1>16
    <3> QED
      BY <3>2, <3>3, <3>4, <1>5 DEF Exchanged
  <2> QED
    BY <2>1, <2>2, <2>3, <1>5 DEF IInv, RecordsRemembered
<1> QED
  BY <1>7, <1>9, <1>10, <1>11, <1>14, <1>15, <1>18 DEF IInv

LEMMA StoredKeeps ==
  ASSUME IInv, NEW r \in Request, Stored(r)
  PROVE  IInv'
<1> USE DEF Stored, task, server
<1>1. /\ Past(r) /\ Exchanged(r)
      /\ writing' = writing \ {r} /\ UNCHANGED <<task, pc, server, restarts>>
      /\ r \in writing
      /\ \/ events' = events
         \/ events' = [events EXCEPT ![name[r]] = Append(@, r)]
  BY DEF IInv, Written, RecordsRemembered
<1>2. events' \in [Name -> Seq(Request)]
  <2>1. name[r] \in Name /\ Append(events[name[r]], r) \in Seq(Request)
    BY DEF IInv, TypeOK
  <2> QED
    BY <1>1, <2>1 DEF IInv, TypeOK
<1>3. TypeOK'
  BY <1>1, <1>2 DEF IInv, TypeOK
<1>4. (Roles /\ BoundOpened /\ Owner /\ ContextCurrent /\ Kept)'
  BY <1>1 DEF IInv, Roles, BoundOpened, Owner, ContextCurrent, Kept, Opened, Past
<1>5. ASSUME NEW n \in Name, NEW i \in DOMAIN events'[n]
      PROVE  \/ i \in DOMAIN events[n] /\ events'[n][i] = events[n][i]
             \/ n = name[r] /\ events'[n][i] = r /\ i = Len(events[n]) + 1
  <2>1. events[n] \in Seq(Request)
    BY DEF IInv, TypeOK
  <2>2. \/ events'[n] = events[n]
        \/ n = name[r] /\ events'[n] = Append(events[n], r)
    <3>1. CASE events' = events
      BY <3>1
    <3>2. CASE events' = [events EXCEPT ![name[r]] = Append(@, r)]
      <4>1. events \in [Name -> Seq(Request)]
        BY DEF IInv, TypeOK
      <4> QED
        BY <3>2, <4>1
    <3> QED
      BY <1>1, <3>1, <3>2
  <2> QED
    BY <2>1, <2>2, AppendEntries
<1>6. Written'
  BY <1>1, <1>5 DEF IInv, Written, Past
<1>7. RecordsRemembered'
  <2>1. ASSUME NEW q \in writing'
        PROVE  /\ Exchanged(q)'
               /\ \A i \in DOMAIN events'[name[q]] : events'[name[q]][i] # q
    <3>1. q \in writing /\ q # r /\ name[q] \in Name
      BY <1>1 DEF IInv, TypeOK
    <3>2. /\ Exchanged(q)
          /\ \A i \in DOMAIN events[name[q]] : events[name[q]][i] # q
      BY <3>1 DEF IInv, RecordsRemembered
    <3>3. Exchanged(q)'
      BY <1>1, <3>2 DEF Exchanged
    <3> QED
      BY <1>5, <3>1, <3>2, <3>3
  <2>2. ASSUME NEW n \in Name, NEW i \in DOMAIN events'[n],
               NEW q, q = events'[n][i]
        PROVE  Exchanged(q)' /\ name[q] = n
    <3>2. Exchanged(q) /\ name[q] = n
      <4>1. CASE i \in DOMAIN events[n] /\ events'[n][i] = events[n][i]
        BY <2>2, <4>1 DEF IInv, RecordsRemembered
      <4>2. CASE n = name[r] /\ events'[n][i] = r
        BY <1>1, <2>2, <4>2
      <4> QED
        BY <1>5, <4>1, <4>2
    <3>3. Exchanged(q)'
      BY <1>1, <3>2 DEF Exchanged
    <3> QED
      BY <1>1, <3>2, <3>3
  <2>3. ASSUME NEW n \in Name, NEW i \in DOMAIN events'[n],
               NEW j \in DOMAIN events'[n], events'[n][i] = events'[n][j]
        PROVE  i = j
    <3>1. \A k \in DOMAIN events[n] : n = name[r] => events[n][k] # r
      BY <1>1 DEF IInv, RecordsRemembered
    <3>2. \A k, l \in DOMAIN events[n] : events[n][k] = events[n][l] => k = l
      BY DEF IInv, RecordsRemembered
    <3> DEFINE Old(k) == k \in DOMAIN events[n] /\ events'[n][k] = events[n][k]
               Fresh(k) == /\ n = name[r] /\ events'[n][k] = r
                           /\ k = Len(events[n]) + 1
    <3>3. (Old(i) \/ Fresh(i)) /\ (Old(j) \/ Fresh(j))
      BY <1>5
    <3>4. CASE Old(i) /\ Old(j)
      <4> HIDE DEF Stored, Fresh
      <4> QED BY <2>3, <3>2, <3>4
    <3>5. CASE Fresh(i) /\ Fresh(j)
      BY <3>5
    <3>6. CASE (Old(i) /\ Fresh(j)) \/ (Fresh(i) /\ Old(j))
      BY <2>3, <3>1, <3>6
    <3> HIDE DEF Old, Fresh
    <3> QED
      BY <3>3, <3>4, <3>5, <3>6, Zenon
  <2> QED
    BY <1>1, <2>1, <2>2, <2>3 DEF RecordsRemembered
<1> QED
  BY <1>3, <1>4, <1>6, <1>7 DEF IInv

LEMMA RestartKeeps ==
  ASSUME IInv, Restart
  PROVE  IInv'
<1> USE DEF Restart, task, klams, Awaits, Done, Working
<1>1. <<>> \in Seq(Request)
  OBVIOUS
<1>2. TypeOK'
  BY <1>1, SessionAssumptions DEF IInv, TypeOK, SessionAssumptions
<1>3. (Roles /\ BoundOpened /\ Owner /\ ContextCurrent)'
  BY DEF IInv, TypeOK, Roles, BoundOpened, Owner, ContextCurrent
<1>4. (Kept /\ Written /\ RecordsRemembered)'
  BY Calm DEF IInv, TypeOK, Past
<1> QED
  BY <1>2, <1>3, <1>4 DEF IInv

-----------------------------------------------------------------------------
LEMMA InitInv == Init => IInv
<1> SUFFICES ASSUME Init PROVE IInv
  OBVIOUS
<1>1. <<>> \in Seq(Request)
  OBVIOUS
<1>2. TypeOK
  BY <1>1, SessionAssumptions DEF Init, TypeOK, SessionAssumptions
<1>3. Roles /\ BoundOpened /\ Owner /\ ContextCurrent
  BY DEF Init, Roles, BoundOpened, Owner, ContextCurrent, Working
<1>4. Kept /\ Written /\ RecordsRemembered
  BY DEF Init, Kept, Written, RecordsRemembered
<1> QED
  BY <1>2, <1>3, <1>4 DEF IInv

LEMMA Inductive == IInv /\ [Next]_vars => IInv'
<1> SUFFICES ASSUME IInv, [Next]_vars PROVE IInv'
  OBVIOUS
<1>1. ASSUME NEW r \in Request, Arrive(r) \/ Refuse(r) \/ Cancel(r) PROVE IInv'
  BY <1>1, CreateKeeps, EndKeeps
<1>2. ASSUME NEW r \in Request, Handler(r) PROVE IInv'
  BY <1>2, CreateKeeps, ListKeeps, EndKeeps, TurnStartKeeps DEF Handler
<1>3. ASSUME NEW r \in Request, Registered(r) PROVE IInv'
  BY <1>3, CreateKeeps DEF Registered
<1>4. ASSUME NEW r \in Request, Backend(r) PROVE IInv'
  BY <1>4, TurnStartKeeps, ReplyKeeps, EndKeeps, StoredKeeps DEF Backend
<1>5. CASE UNCHANGED vars
  <2> USE <1>5 DEF vars, task, server, klams
  <2>1. (TypeOK /\ Roles /\ BoundOpened /\ Owner /\ ContextCurrent)'
    BY DEF IInv, TypeOK, Roles, BoundOpened, Owner, ContextCurrent, Opened
  <2>2. (Kept /\ Written /\ RecordsRemembered)'
    BY Calm DEF Past
  <2> QED
    BY <2>1, <2>2 DEF IInv
<1> QED
  BY <1>1, <1>2, <1>3, <1>4, <1>5, RestartKeeps DEF Next

LEMMA Invariance == Spec => []IInv
BY InitInv, Inductive, PTL DEF Spec

\* The state of the endpoints keeps its types.
THEOREM SessionsTypeCorrect == Spec => []TypeOK
<1>1. IInv => TypeOK
  BY DEF IInv
<1> QED
  BY <1>1, Invariance, PTL

\* A turn that waits for the model has sent it the whole conversation
\* (session.rs:51-72).
THEOREM TurnsSeeEverything == Spec => []ContextCurrent
<1>1. IInv => ContextCurrent
  BY DEF IInv
<1> QED
  BY <1>1, Invariance, PTL

\* klams stores for a session nothing but exchanges of the histories of that
\* name, and each of them once at most (session.rs:59-81).
THEOREM RecordsAreExchanges == Spec => []RecordsRemembered
<1>1. IInv => RecordsRemembered
  BY DEF IInv
<1> QED
  BY <1>1, Invariance, PTL

-----------------------------------------------------------------------------
\* What a turn that was answered saw is what it sent to the model.
Seen == [r \in Request |-> IF Exchanged(r) THEN sent[r] ELSE <<>>]

\* The turns of the histories stay where they are: what they saw does not change.
LEMMA SeenKept ==
  ASSUME IInv, TypeOK', history' = history,
         \A q \in Request : Past(q) => sess'[q] = sess[q] /\ sent'[q] = sent[q]
  PROVE  Seen' = Seen
<1>1. ASSUME NEW q \in Request, Exchanged(q)
      PROVE  Exchanged(q)' /\ sent'[q] = sent[q]
  <2>1. PICK i \in DOMAIN history[sess[q]] :
          sess[q] # None /\ history[sess[q]][i] = q
    BY <1>1 DEF Exchanged
  <2>2. Past(q)
    BY <2>1 DEF IInv, TypeOK, Kept
  <2> QED
    BY <2>1, <2>2 DEF Exchanged
<1>2. ASSUME NEW q \in Request, Exchanged(q)'
      PROVE  Exchanged(q)
  <2>1. PICK i \in DOMAIN history[sess'[q]] :
          sess'[q] \in Request /\ history[sess'[q]][i] = q
    BY <1>2 DEF Exchanged, TypeOK
  <2>2. sess[q] = sess'[q]
    BY <1>2, <2>1 DEF IInv, Kept
  <2> QED
    BY <1>2, <2>1, <2>2 DEF Exchanged
<1>3. \A q \in Request : (IF Exchanged(q) THEN sent[q] ELSE <<>>)'
                          = IF Exchanged(q) THEN sent[q] ELSE <<>>
  BY <1>1, <1>2
<1> QED
  BY <1>3 DEF Seen

\* A step that neither binds a name nor answers a turn is no step of the store.
LEMMA Quiet ==
  ASSUME IInv, TypeOK', NEW r \in Request, NEW next,
         UNCHANGED <<op, sessions, history>>, pc' = [pc EXCEPT ![r] = next],
         pc[r] \notin Done, next = "ok" => op[r] # "create",
         \A q \in Request : q # r \/ Past(r) =>
           sess'[q] = sess[q] /\ sent'[q] = sent[q]
  PROVE  UNCHANGED Store!vars
<1>1. Opened' = Opened
  BY DEF IInv, TypeOK, Opened, Done
<1>2. Seen' = Seen
  BY SeenKept
<1> QED
  BY <1>1, <1>2 DEF Store!vars, Seen

LEMMA StoreInit == Init => Store!Init
<1> SUFFICES ASSUME Init PROVE Store!Init
  OBVIOUS
<1>1. Opened = {}
  BY DEF Init, Opened
<1>2. \A r \in Request : ~ Exchanged(r)
  BY DEF Init, Exchanged
<1> QED
  BY <1>1, <1>2 DEF Init, Store!Init

LEMMA StoreCreate ==
  ASSUME IInv, TypeOK', NEW r \in Request, CreateEntry(r)
  PROVE  [Store!Next]_Store!vars
<1> USE DEF CreateEntry, HasMap, Release, task, Done
<1>1. CASE sessions[name[r]] = None
  <2>1. name[r] \in Name /\ r \notin Opened
    BY DEF IInv, TypeOK, Opened
  <2>2. Opened' = Opened \cup {r}
    BY <1>1 DEF IInv, TypeOK, Opened
  <2>3. Seen' = Seen
    BY SeenKept
  <2>4. Store!Open(name[r], r)
    BY <1>1, <2>1, <2>2, <2>3 DEF Store!Open, Seen
  <2> QED
    BY <2>1, <2>4 DEF Store!Next
<1>2. CASE sessions[name[r]] # None
  <2>1. UNCHANGED Store!vars
    BY <1>2, Quiet DEF Past
  <2> QED
    BY <2>1
<1> QED
  BY <1>1, <1>2

LEMMA StoreDelete ==
  ASSUME IInv, TypeOK', NEW r \in Request, DeleteEntry(r)
  PROVE  [Store!Next]_Store!vars
<1> USE DEF DeleteEntry, HasMap, Release, task, Done
<1>1. CASE sessions[name[r]] # None
  <2>1. name[r] \in Name
    BY DEF IInv, TypeOK
  <2>2. Opened' = Opened
    BY <1>1 DEF IInv, TypeOK, Opened
  <2>3. Seen' = Seen
    BY SeenKept
  <2>4. Store!Close(name[r])
    BY <1>1, <2>2, <2>3 DEF Store!Close, Seen
  <2> QED
    BY <2>1, <2>4 DEF Store!Next
<1>2. CASE sessions[name[r]] = None
  <2>1. sessions' = sessions
    BY <1>2 DEF IInv, TypeOK
  <2>2. UNCHANGED Store!vars
    BY <1>2, <2>1, Quiet DEF Past
  <2> QED
    BY <2>2
<1> QED
  BY <1>1, <1>2

LEMMA StoreExchange ==
  ASSUME IInv, IInv', NEW r \in Request, Reply(r)
  PROVE  [Store!Next]_Store!vars
<1> DEFINE s == sess[r]
<1>1. /\ s \in Opened /\ s \in Request /\ op[r] = "turn" /\ pc[r] = "chat"
      /\ history[s] \in Seq(Request) /\ sent[r] = history[s]
  BY DEF IInv, TypeOK, Roles, Working, Opened, ContextCurrent, Reply
<1>2. /\ history' = [history EXCEPT ![s] = Append(@, r)]
      /\ UNCHANGED <<op, name, sess, sent, sessions>>
  BY DEF Reply, task
<1>3. PICK next \in {"record", "ok"} : pc' = [pc EXCEPT ![r] = next]
  BY DEF Reply, Release
<1>4. Opened' = Opened
  BY <1>1, <1>2, <1>3 DEF IInv, TypeOK, Opened
<1> DEFINE longer == Append(history[s], r)
<1>5. /\ \E i \in DOMAIN longer : longer[i] = r
      /\ \A i \in DOMAIN history[s] : i \in DOMAIN longer /\ longer[i] = history[s][i]
      /\ \A i \in DOMAIN longer :
           (i \in DOMAIN history[s] /\ longer[i] = history[s][i]) \/ longer[i] = r
  BY <1>1, AppendEntries
<1>6. history' = [history EXCEPT ![s] = longer]
  BY <1>2
<1> HIDE DEF longer
<1>7. history'[s] = longer /\ \A t \in Request \ {s} : history'[t] = history[t]
  BY <1>1, <1>6 DEF IInv, TypeOK
<1>8. Exchanged(r)'
  BY <1>1, <1>2, <1>5, <1>7, SessionAssumptions DEF Exchanged, SessionAssumptions
<1>9. ASSUME NEW q \in Request, q # r
      PROVE  Exchanged(q)' <=> Exchanged(q)
  <2>1. CASE sess[q] = s
    <3>1. (\E i \in DOMAIN longer : longer[i] = q)
             <=> \E i \in DOMAIN history[s] : history[s][i] = q
      BY <1>5, <1>9
    <3>2. sess'[q] = s /\ history'[sess'[q]] = longer
      BY <1>2, <1>7, <2>1
    <3> QED
      BY <2>1, <3>1, <3>2 DEF Exchanged
  <2>2. CASE sess[q] # s
    BY <1>2, <1>7, <2>2 DEF Exchanged, IInv, TypeOK
  <2> QED
    BY <2>1, <2>2
<1>10. Seen' = [Seen EXCEPT ![r] = history[s]]
  <2>1. \A q \in Request : Seen'[q] = IF q = r THEN history[s] ELSE Seen[q]
    BY <1>1, <1>2, <1>8, <1>9 DEF Seen
  <2> QED
    BY <2>1 DEF Seen
<1>11. Store!Exchange(s, r)
  BY <1>1, <1>2, <1>4, <1>10 DEF Store!Exchange, Seen
<1> QED
  BY <1>1, <1>11 DEF Store!Next

LEMMA StoreRestart ==
  ASSUME IInv, TypeOK', Restart
  PROVE  [Store!Next]_Store!vars
<1>1. Opened' = Opened
  BY DEF Restart, IInv, TypeOK, Opened, task, Done
<1>2. Seen' = Seen
  BY SeenKept DEF Restart, task
<1>3. Store!Restart
  BY <1>1, <1>2 DEF Restart, Store!Restart, Seen
<1> QED
  BY <1>3 DEF Store!Next

LEMMA StoreStutter ==
  ASSUME IInv, TypeOK', NEW r \in Request,
         \/ Refuse(r) \/ Arrive(r) \/ Begun(r) \/ Cancel(r)
         \/ ListStart(r) \/ ListLock(r) \/ ListRead(r) \/ ListDone(r)
         \/ Lookup(r) \/ WantLock(r) \/ Start(r) \/ Recalled(r)
         \/ ChatFails(r) \/ RecordReturns(r) \/ Stored(r)
  PROVE  UNCHANGED Store!vars
<1> USE DEF task, server, klams, Done, Awaits, Past, Release
<1>1. CASE Refuse(r) \/ Arrive(r) \/ Begun(r)
  BY <1>1, Quiet DEF Refuse, Arrive, Begun
<1>2. CASE Cancel(r)
  BY <1>2, Quiet DEF Cancel
<1>3. CASE ListStart(r)
  BY <1>3, Quiet DEF ListStart, HasMap
<1>4. CASE ListLock(r) \/ ListRead(r)
  <2>1. UNCHANGED <<op, sessions, history, pc, sent>> /\ pc[r] = "walk"
        /\ \A q \in Request : q # r => sess'[q] = sess[q]
    BY <1>4 DEF ListLock, ListRead, IInv, TypeOK
  <2>2. pc' = [pc EXCEPT ![r] = "walk"]
    BY <2>1 DEF IInv, TypeOK
  <2> QED
    BY <2>1, <2>2, Quiet
<1>5. CASE ListDone(r)
  <2>1. op[r] = "list"
    BY <1>5 DEF ListDone, IInv, Roles
  <2> QED
    BY <1>5, <2>1, Quiet DEF ListDone
<1>6. CASE Lookup(r)
  <2>1. PICK next \in {"error", "found"} : Release(r, next)
    BY <1>6 DEF Lookup
  <2>2. \A q \in Request : q # r => sess'[q] = sess[q]
    BY <1>6 DEF Lookup, IInv, TypeOK
  <2> QED
    BY <1>6, <2>1, <2>2, Quiet, ZenonT(30) DEF Lookup, HasMap
<1>7. CASE WantLock(r)
  BY <1>7, Quiet DEF WantLock
<1>8. CASE Start(r) \/ Recalled(r)
  <2>1. PICK next \in {"recall", "chat"} : pc' = [pc EXCEPT ![r] = next]
    BY <1>8 DEF Start, Recalled
  <2>2. /\ UNCHANGED <<op, sess, sessions, history>> /\ pc[r] \in {"wantLock", "recall"}
        /\ \A q \in Request : q # r => sent'[q] = sent[q]
    BY <1>8 DEF Start, Recalled, IInv, TypeOK
  <2> QED
    BY <2>1, <2>2, Quiet
<1>9. CASE ChatFails(r)
  BY <1>9, Quiet DEF ChatFails
<1>10. CASE RecordReturns(r)
  <2>1. op[r] = "turn"
    BY <1>10 DEF RecordReturns, IInv, Roles, Working
  <2> QED
    BY <1>10, <2>1, Quiet DEF RecordReturns
<1>11. CASE Stored(r)
  <2>1. Opened' = Opened /\ Seen' = Seen
    BY <1>11, SeenKept DEF Stored, Opened
  <2> QED
    BY <1>11, <2>1 DEF Stored, Store!vars, Seen
<1> QED
  BY <1>1, <1>2, <1>3, <1>4, <1>5, <1>6, <1>7, <1>8, <1>9, <1>10, <1>11

\* Every step of the endpoints is a step of the store or none.
LEMMA StoreStep == IInv /\ IInv' /\ [Next]_vars => [Store!Next]_Store!vars
<1> SUFFICES ASSUME IInv, IInv', [Next]_vars PROVE [Store!Next]_Store!vars
  OBVIOUS
<1>1. TypeOK'
  BY DEF IInv
<1>2. ASSUME NEW r \in Request, Arrive(r) \/ Refuse(r) \/ Cancel(r)
      PROVE  [Store!Next]_Store!vars
  BY <1>1, <1>2, StoreStutter
<1>3. ASSUME NEW r \in Request, Handler(r) PROVE [Store!Next]_Store!vars
  BY <1>1, <1>3, StoreStutter, StoreCreate, StoreDelete DEF Handler
<1>4. ASSUME NEW r \in Request, Registered(r) PROVE [Store!Next]_Store!vars
  BY <1>1, <1>4, StoreStutter DEF Registered
<1>5. ASSUME NEW r \in Request, Backend(r) PROVE [Store!Next]_Store!vars
  BY <1>1, <1>5, StoreStutter, StoreExchange DEF Backend
<1>6. CASE UNCHANGED vars
  BY <1>6 DEF vars, task, server, klams, Store!vars, Opened, Exchanged
<1> QED
  BY <1>1, <1>2, <1>3, <1>4, <1>5, <1>6, StoreRestart DEF Next

\* The endpoints of session.rs, with their two kinds of lock, cancellation and
\* restarts, keep the promise of the store, for any requests and names.
THEOREM EndpointsImplementStore == Spec => StoreSpec
BY StoreInit, StoreStep, InitInv, Inductive, PTL DEF Spec, StoreSpec, Store!Spec
=============================================================================
