------------------------ MODULE ServerSessionProofs ------------------------
(***************************************************************************)
(* TLAPS proofs about ServerSession, for any number of clients, messages   *)
(* and tool calls and any SSE queue of at least three places: the event    *)
(* that ends the stream is never dropped, and the tool calls of all turns  *)
(* stay within the session's cap.                                          *)
(***************************************************************************)
EXTENDS ServerSession, SequenceTheorems, WellFoundedInduction, TLAPS

(* The first delta of a queue that holds one.                               *)
LEMMA FirstData ==
  ASSUME NEW q \in Seq(Event), Contains(q, "data")
  PROVE  /\ SelectInSeq(q, IsData) \in 1 .. Len(q)
         /\ q[SelectInSeq(q, IsData)] = "data"
<1> DEFINE I == {i \in 1 .. Len(q) : IsData(q[i])}
<1>1. I # {} /\ I \subseteq Nat
  BY LenProperties DEF Contains, IsData
<1>2. PICK m \in I : \A n \in I : m <= n
  <2>1. PICK m \in I : \A n \in I : ~ <<n, m>> \in OpToRel(<, Nat)
    BY <1>1, NatLessThanWellFounded, WFMin
  <2>2. \A n \in I : m \in Nat /\ n \in Nat /\ ~(n < m)
    BY <1>1, <2>1 DEF OpToRel
  <2> QED BY <2>2
<1>3. Min(I) \in I
  BY <1>1, <1>2 DEF Min
<1>4. SelectInSeq(q, IsData) = Min(I)
  BY <1>1 DEF SelectInSeq
<1> QED BY <1>3, <1>4 DEF IsData

(* What is left of a queue that gives up its i-th event.                    *)
LEMMA Removed ==
  ASSUME NEW q \in Seq(Event), NEW i \in 1 .. Len(q)
  PROVE  /\ RemoveAt(q, i) \in Seq(Event)
         /\ Len(RemoveAt(q, i)) = Len(q) - 1
         /\ \A j \in 1 .. Len(q) - 1 :
              RemoveAt(q, i)[j] = IF j < i THEN q[j] ELSE q[j + 1]
<1>1. Len(q) \in Nat /\ \A j \in 1 .. Len(q) : q[j] \in Event
  BY LenProperties, ElementOfSeq
<1> DEFINE a == SubSeq(q, 1, i - 1)
           b == SubSeq(q, i + 1, Len(q))
<1>2. /\ a \in Seq(Event) /\ Len(a) = i - 1
      /\ \A j \in 1 .. i - 1 : a[j] = q[j]
  BY <1>1, SubSeqProperties
<1>3. /\ b \in Seq(Event) /\ Len(b) = Len(q) - i
      /\ \A j \in 1 .. Len(q) - i : b[j] = q[i + j]
  BY <1>1, SubSeqProperties
<1>4. RemoveAt(q, i) = a \o b
  BY DEF RemoveAt
<1>5. /\ a \o b \in Seq(Event) /\ Len(a \o b) = Len(a) + Len(b)
      /\ \A j \in 1 .. Len(a) + Len(b) :
           (a \o b)[j] = IF j <= Len(a) THEN a[j] ELSE b[j - Len(a)]
  BY <1>2, <1>3, ConcatProperties
<1> HIDE DEF a, b
<1>6. Len(a) + Len(b) = Len(q) - 1
  BY <1>1, <1>2, <1>3
<1>7. ASSUME NEW j \in 1 .. Len(q) - 1
      PROVE  (a \o b)[j] = IF j < i THEN q[j] ELSE q[j + 1]
  <2>1. CASE j < i
    BY <2>1, <1>1, <1>2, <1>5, <1>6
  <2>2. CASE ~(j < i)
    <3>1. j - Len(a) \in 1 .. Len(q) - i /\ i + (j - Len(a)) = j + 1
      BY <2>2, <1>1, <1>2
    <3> QED BY <2>2, <3>1, <1>1, <1>2, <1>3, <1>5, <1>6
  <2> QED BY <2>1, <2>2
<1> QED BY <1>4, <1>5, <1>6, <1>7

(* The overflow policy keeps the queue in its type and its bound.           *)
LEMMA Enqueued ==
  ASSUME NEW q \in Seq(Event), Len(q) <= MaxQueue, NEW e \in Event
  PROVE  /\ Enqueue(q, e) \in Seq(Event)
         /\ Len(Enqueue(q, e)) <= MaxQueue
<1> USE ServerSessionAssumption
<1>1. Len(q) \in Nat
  BY LenProperties
<1>2. CASE Len(q) < MaxQueue
  BY <1>1, <1>2 DEF Enqueue
<1>3. CASE Len(q) = MaxQueue /\ e = "data"
  BY <1>3 DEF Enqueue
<1>4. CASE Len(q) = MaxQueue /\ e # "data" /\ Contains(q, "data")
  <2> DEFINE r == RemoveAt(q, SelectInSeq(q, IsData))
  <2>1. r \in Seq(Event) /\ Len(r) = Len(q) - 1
    BY <1>4, FirstData, Removed
  <2>2. Enqueue(q, e) = Append(r, e)
    BY <1>4 DEF Enqueue
  <2> HIDE DEF r
  <2> QED BY <1>1, <1>4, <2>1, <2>2
<1>5. CASE Len(q) = MaxQueue /\ e # "data" /\ ~Contains(q, "data")
  <2>1. q # <<>> /\ Tail(q) \in Seq(Event) /\ Len(Tail(q)) = Len(q) - 1
    BY <1>1, <1>5, HeadTailProperties
  <2>2. Enqueue(q, e) = Append(Tail(q), e)
    BY <1>5 DEF Enqueue
  <2> QED BY <1>1, <1>5, <2>1, <2>2
<1> QED BY <1>1, <1>2, <1>3, <1>4, <1>5

(* The i-th event of s is the done, with at most n notes behind it.         *)
DoneAt(s, i, n) ==
  /\ i \in 1 .. Len(s) /\ s[i] = "done"
  /\ \A j \in i + 1 .. Len(s) : s[j] = "note"
  /\ Len(s) - i <= n

(* A note never drives out a done with at most one note behind it: that     *)
(* takes a queue of at least three places.                                  *)
LEMMA NoteKeepsDone ==
  ASSUME NEW q \in Seq(Event), Len(q) <= MaxQueue,
         NEW i \in Nat, NEW n \in {0, 1}, DoneAt(q, i, n)
  PROVE  \E k \in Nat : DoneAt(Enqueue(q, "note"), k, n + 1)
<1> USE ServerSessionAssumption
<1>1. Len(q) \in Nat /\ i \in 1 .. Len(q) /\ "note" \in Event
  BY LenProperties DEF DoneAt, Event
<1>2. CASE Len(q) < MaxQueue
  <2>1. Enqueue(q, "note") = Append(q, "note")
    BY <1>2 DEF Enqueue
  <2>2. DoneAt(Append(q, "note"), i, n + 1)
    BY <1>1 DEF DoneAt
  <2> QED BY <2>1, <2>2
<1>3. CASE Len(q) = MaxQueue
  <2>1. i - 1 \in 1 .. Len(q) - 1
    BY <1>1, <1>3 DEF DoneAt
  <2>2. ASSUME NEW r \in Seq(Event), Len(r) = Len(q) - 1,
               \A j \in i - 1 .. Len(q) - 1 : r[j] = q[j + 1],
               Enqueue(q, "note") = Append(r, "note")
        PROVE  DoneAt(Enqueue(q, "note"), i - 1, n + 1)
    <3>1. Len(Append(r, "note")) = Len(q)
      BY <1>1, <2>2
    <3>2. Append(r, "note")[i - 1] = "done"
      BY <1>1, <2>1, <2>2 DEF DoneAt
    <3>3. ASSUME NEW j \in i .. Len(q) PROVE Append(r, "note")[j] = "note"
      BY <1>1, <2>1, <2>2, <3>3 DEF DoneAt
    <3>4. i - 1 \in 1 .. Len(Append(r, "note")) /\ Len(Append(r, "note")) - (i - 1) <= n + 1
      BY <1>1, <2>1, <3>1 DEF DoneAt
    <3>5. (i - 1) + 1 = i
      BY <1>1
    <3>6. DoneAt(Append(r, "note"), i - 1, n + 1)
      BY <3>1, <3>2, <3>3, <3>4, <3>5 DEF DoneAt
    <3> QED BY <2>2, <3>6
  <2>3. CASE Contains(q, "data")
    <3> DEFINE d == SelectInSeq(q, IsData)
               r == RemoveAt(q, d)
    <3>1. d \in 1 .. Len(q) /\ q[d] = "data"
      BY <2>3, FirstData
    <3>2. d < i
      BY <1>1, <3>1 DEF DoneAt
    <3>3. /\ r \in Seq(Event) /\ Len(r) = Len(q) - 1
          /\ \A j \in 1 .. Len(q) - 1 : r[j] = IF j < d THEN q[j] ELSE q[j + 1]
      BY <3>1, Removed
    <3>4. Enqueue(q, "note") = Append(r, "note")
      BY <1>3, <2>3 DEF Enqueue
    <3> HIDE DEF d, r
    <3>5. \A j \in i - 1 .. Len(q) - 1 : r[j] = q[j + 1]
      BY <1>1, <2>1, <3>1, <3>2, <3>3
    <3>6. DoneAt(Enqueue(q, "note"), i - 1, n + 1)
      BY <2>2, <3>3, <3>4, <3>5, Zenon
    <3> QED BY <2>1, <3>6
  <2>4. CASE ~Contains(q, "data")
    <3>1. q # <<>>
      BY <1>1
    <3>2. /\ Tail(q) \in Seq(Event) /\ Len(Tail(q)) = Len(q) - 1
          /\ \A j \in 1 .. Len(q) - 1 : Tail(q)[j] = q[j + 1]
      BY <3>1, HeadTailProperties
    <3>3. Enqueue(q, "note") = Append(Tail(q), "note")
      BY <1>3, <2>4 DEF Enqueue
    <3>4. \A j \in i - 1 .. Len(q) - 1 : Tail(q)[j] = q[j + 1]
      BY <1>1, <2>1, <3>2
    <3>5. DoneAt(Enqueue(q, "note"), i - 1, n + 1)
      BY <2>2, <3>2, <3>3, <3>4, Zenon
    <3> QED BY <2>1, <3>5
  <2> QED BY <2>3, <2>4
<1> QED BY <1>1, <1>2, <1>3

(* The done itself always finds a place, the last.                          *)
LEMMA DoneEnters ==
  ASSUME NEW q \in Seq(Event), Len(q) <= MaxQueue
  PROVE  \E k \in Nat : DoneAt(Enqueue(q, "done"), k, 0)
<1> USE ServerSessionAssumption
<1>1. Len(q) \in Nat
  BY LenProperties
<1>2. PICK r \in Seq(Event) : Enqueue(q, "done") = Append(r, "done")
  <2>1. CASE Len(q) < MaxQueue
    BY <2>1 DEF Enqueue
  <2>2. CASE Len(q) = MaxQueue /\ Contains(q, "data")
    <3>1. RemoveAt(q, SelectInSeq(q, IsData)) \in Seq(Event)
      BY <2>2, FirstData, Removed
    <3> QED BY <2>2, <3>1 DEF Enqueue
  <2>3. CASE Len(q) = MaxQueue /\ ~Contains(q, "data")
    <3>1. Tail(q) \in Seq(Event)
      BY <1>1, <2>3, HeadTailProperties
    <3> QED BY <2>3, <3>1 DEF Enqueue
  <2> QED BY <1>1, <2>1, <2>2, <2>3
<1>3. Len(r) \in Nat
  BY LenProperties
<1>4. DoneAt(Append(r, "done"), Len(r) + 1, 0)
  BY <1>3 DEF DoneAt
<1>5. DoneAt(Enqueue(q, "done"), Len(r) + 1, 0)
  BY <1>2, <1>4, Zenon
<1>6. Len(r) + 1 \in Nat
  BY <1>3
<1> QED BY <1>5, <1>6

(* A message is put only where SendCheck has seen room.                     *)
SendRoom == api = "checked" => inbox < MaxInbox

(* The counter of the session is the number of calls made.                  *)
Counted == calls = made /\ made <= Cap

(* The most notes a runner at this point has posted behind its done.        *)
Notes == IF pc = "bridging" THEN 0 ELSE IF pc = "closing" THEN 1 ELSE 2

(* Until it is read the done is on its way, or queued, and so little comes  *)
(* behind it that the queue never has to give it up.                        *)
OnItsWay == \E i \in Nat : DoneAt(posted, i, Notes)
Queued ==
  \E i \in Nat, n \in Nat :
    /\ DoneAt(queue, i, n)
    /\ \A j \in 1 .. Len(posted) : posted[j] = "note"
    /\ n + Len(posted) <= Notes
DoneInSight == Announced /\ ~delivered => OnItsWay \/ Queued

IInv == TypeOK /\ SendRoom /\ Counted /\ DoneInSight

(* Handing an event to the event loop keeps the callbacks typed.            *)
LEMMA PostType ==
  ASSUME NEW s \in Seq(Event), NEW e \in Event
  PROVE  Append(s, e) \in Seq(Event)
OBVIOUS

(* Every step keeps the types.                                              *)
LEMMA TypeStep == (TypeOK /\ SendRoom) /\ [Next]_vars => TypeOK'
<1> SUFFICES ASSUME (TypeOK /\ SendRoom), [Next]_vars PROVE TypeOK'
  OBVIOUS
<1> USE ServerSessionAssumption DEF TypeOK, SendRoom, Terminal, Event, runnerVars, loopVars
<1>1. CASE Emit
  <2>1. posted' \in Seq(Event)
    <3>1. posted' = Append(posted, "data")
      BY <1>1, Zenon DEF Emit, Post
    <3>2. Append(posted, "data") \in Seq(Event)
      BY PostType
    <3> QED BY <3>1, <3>2, Zenon
  <2> QED BY <1>1, <2>1 DEF Emit
<1>2. CASE Turn
  <2>1. calls' \in Nat /\ made' \in Nat
    <3>1. Cap \in Nat /\ calls \in Nat /\ made \in Nat
      OBVIOUS
    <3> QED BY <1>2, <3>1 DEF Turn
  <2>2. budget' \in BOOLEAN
    BY <1>2, Zenon DEF Turn
  <2>3. pc' \in {"told", "ending"}
    BY <1>2 DEF Turn
  <2>4. posted' \in Seq(Event)
    <3>1. posted' = Append(posted, "idle") \/ posted' = posted
      BY <1>2, Zenon DEF Turn, Post
    <3>2. Append(posted, "idle") \in Seq(Event)
      BY PostType
    <3> QED BY <3>1, <3>2, Zenon
  <2> QED BY <1>2, <2>1, <2>2, <2>3, <2>4 DEF Turn
<1>3. CASE SetIdle
  BY <1>3 DEF SetIdle
<1>4. CASE Check
  BY <1>4 DEF Check
<1>5. CASE Take
  BY <1>5 DEF Take
<1>6. CASE Empty
  BY <1>6 DEF Empty
<1>7. CASE Resume
  BY <1>7 DEF Resume
<1>8. CASE Pause
  <2>1. calls' \in Nat /\ made' \in Nat
    <3>1. Cap \in Nat /\ calls \in Nat /\ made \in Nat
      OBVIOUS
    <3> QED BY <1>8, <3>1 DEF Pause
  <2> QED BY <1>8, <2>1 DEF Pause
<1>9. CASE PersistPause
  BY <1>9 DEF PersistPause
<1>10. CASE Raise
  BY <1>10 DEF Raise
<1>11. CASE Settle
  BY <1>11 DEF Settle
<1>12. CASE Announce
  <2>1. posted' \in Seq(Event)
    <3>1. posted' = Append(posted, "done")
      BY <1>12, Zenon DEF Announce, Post
    <3>2. Append(posted, "done") \in Seq(Event)
      BY PostType
    <3> QED BY <3>1, <3>2, Zenon
  <2> QED BY <1>12, <2>1 DEF Announce
<1>13. CASE Bridge
  <2>1. posted' \in Seq(Event)
    <3>1. posted' = Append(posted, "note") \/ posted' = posted
      BY <1>13, Zenon DEF Bridge, Post
    <3>2. Append(posted, "note") \in Seq(Event)
      BY PostType
    <3> QED BY <3>1, <3>2, Zenon
  <2> QED BY <1>13, <2>1 DEF Bridge
<1>14. CASE CloseTracer
  <2>1. posted' \in Seq(Event)
    <3>1. posted' = Append(posted, "note")
      BY <1>14, Zenon DEF CloseTracer, Post
    <3>2. Append(posted, "note") \in Seq(Event)
      BY PostType
    <3> QED BY <3>1, <3>2, Zenon
  <2> QED BY <1>14, <2>1 DEF CloseTracer
<1>15. CASE Store
  BY <1>15 DEF Store
<1>16. CASE SendCheck
  BY <1>16 DEF SendCheck
<1>17. CASE SendPut
  BY <1>17 DEF SendPut
<1>18. CASE SendMark
  BY <1>18 DEF SendMark
<1>19. CASE Stop
  BY <1>19 DEF Stop
<1>20. CASE Callback
  <2>1. posted # <<>>
    BY <1>20 DEF Callback
  <2>2. Head(posted) \in Event /\ Tail(posted) \in Seq(Event)
    BY <2>1, HeadTailProperties
  <2>3. queue' \in Seq(Event) /\ Len(queue') <= MaxQueue
    BY <1>20, <2>2, Enqueued DEF Callback
  <2> QED BY <1>20, <2>2, <2>3 DEF Callback
<1>21. ASSUME NEW c \in Client, Connect(c) PROVE TypeOK'
  BY <1>21 DEF Connect
<1>22. ASSUME NEW c \in Client, Disconnect(c) PROVE TypeOK'
  BY <1>22 DEF Disconnect
<1>23. ASSUME NEW c \in Client, Read(c) PROVE TypeOK'
  <2>1. queue # <<>>
    BY <1>23 DEF Read
  <2>2. Tail(queue) \in Seq(Event) /\ Len(Tail(queue)) <= MaxQueue
    BY <2>1, HeadTailProperties, LenProperties
  <2>3. (Head(queue) = "done") \in BOOLEAN /\ (Head(queue) # "done") \in BOOLEAN
    OBVIOUS
  <2>4. client' \in [Client -> BOOLEAN] /\ delivered' \in BOOLEAN
    BY <1>23, <2>3 DEF Read
  <2> QED BY <1>23, <2>2, <2>4 DEF Read
<1>24. ASSUME NEW c \in Client, Quiet(c) PROVE TypeOK'
  BY <1>24 DEF Quiet
<1>25. CASE UNCHANGED vars
  BY <1>25 DEF vars, runnerVars, loopVars
<1> QED BY <1>1, <1>2, <1>3, <1>4, <1>5, <1>6, <1>7, <1>8, <1>9, <1>10, <1>11, <1>12, <1>13, <1>14, <1>15, <1>16, <1>17, <1>18, <1>19, <1>20, <1>21, <1>22, <1>23, <1>24, <1>25 DEF Next, Ending

(* Only the handler adds messages.                                         *)
LEMMA RoomStep == (TypeOK /\ SendRoom) /\ [Next]_vars => SendRoom'
<1> SUFFICES ASSUME (TypeOK /\ SendRoom), [Next]_vars PROVE SendRoom'
  OBVIOUS
<1> USE ServerSessionAssumption DEF TypeOK, SendRoom, runnerVars, loopVars
<1>1. CASE Emit
  BY <1>1 DEF Emit, Post
<1>2. CASE Turn
  BY <1>2 DEF Turn, Post
<1>3. CASE SetIdle
  BY <1>3 DEF SetIdle
<1>4. CASE Check
  BY <1>4 DEF Check
<1>5. CASE Take
  BY <1>5 DEF Take
<1>6. CASE Empty
  BY <1>6 DEF Empty
<1>7. CASE Resume
  BY <1>7 DEF Resume
<1>8. CASE Pause
  BY <1>8 DEF Pause
<1>9. CASE PersistPause
  BY <1>9 DEF PersistPause
<1>10. CASE Raise
  BY <1>10 DEF Raise
<1>11. CASE Settle
  BY <1>11 DEF Settle
<1>12. CASE Announce
  BY <1>12 DEF Announce, Post
<1>13. CASE Bridge
  BY <1>13 DEF Bridge, Post
<1>14. CASE CloseTracer
  BY <1>14 DEF CloseTracer, Post
<1>15. CASE Store
  BY <1>15 DEF Store
<1>16. CASE SendCheck
  BY <1>16 DEF SendCheck
<1>17. CASE SendPut
  BY <1>17 DEF SendPut
<1>18. CASE SendMark
  BY <1>18 DEF SendMark
<1>19. CASE Stop
  BY <1>19 DEF Stop
<1>20. CASE Callback
  BY <1>20 DEF Callback
<1>21. ASSUME NEW c \in Client, Connect(c) PROVE SendRoom'
  BY <1>21 DEF Connect
<1>22. ASSUME NEW c \in Client, Disconnect(c) PROVE SendRoom'
  BY <1>22 DEF Disconnect
<1>23. ASSUME NEW c \in Client, Read(c) PROVE SendRoom'
  BY <1>23 DEF Read
<1>24. ASSUME NEW c \in Client, Quiet(c) PROVE SendRoom'
  BY <1>24 DEF Quiet
<1>25. CASE UNCHANGED vars
  BY <1>25 DEF vars, runnerVars, loopVars
<1> QED BY <1>1, <1>2, <1>3, <1>4, <1>5, <1>6, <1>7, <1>8, <1>9, <1>10, <1>11, <1>12, <1>13, <1>14, <1>15, <1>16, <1>17, <1>18, <1>19, <1>20, <1>21, <1>22, <1>23, <1>24, <1>25 DEF Next, Ending

(* Every turn is given what the turns before it have left.                  *)
LEMMA CountStep == (TypeOK /\ Counted) /\ [Next]_vars => Counted'
<1> SUFFICES ASSUME (TypeOK /\ Counted), [Next]_vars PROVE Counted'
  OBVIOUS
<1> USE ServerSessionAssumption DEF TypeOK, Counted, runnerVars, loopVars
<1>1. CASE Emit
  BY <1>1 DEF Emit, Post
<1>2. CASE Turn
  BY <1>2 DEF Turn, Post
<1>3. CASE SetIdle
  BY <1>3 DEF SetIdle
<1>4. CASE Check
  BY <1>4 DEF Check
<1>5. CASE Take
  BY <1>5 DEF Take
<1>6. CASE Empty
  BY <1>6 DEF Empty
<1>7. CASE Resume
  BY <1>7 DEF Resume
<1>8. CASE Pause
  BY <1>8 DEF Pause
<1>9. CASE PersistPause
  BY <1>9 DEF PersistPause
<1>10. CASE Raise
  BY <1>10 DEF Raise
<1>11. CASE Settle
  BY <1>11 DEF Settle
<1>12. CASE Announce
  BY <1>12 DEF Announce, Post
<1>13. CASE Bridge
  BY <1>13 DEF Bridge, Post
<1>14. CASE CloseTracer
  BY <1>14 DEF CloseTracer, Post
<1>15. CASE Store
  BY <1>15 DEF Store
<1>16. CASE SendCheck
  BY <1>16 DEF SendCheck
<1>17. CASE SendPut
  BY <1>17 DEF SendPut
<1>18. CASE SendMark
  BY <1>18 DEF SendMark
<1>19. CASE Stop
  BY <1>19 DEF Stop
<1>20. CASE Callback
  BY <1>20 DEF Callback
<1>21. ASSUME NEW c \in Client, Connect(c) PROVE Counted'
  BY <1>21 DEF Connect
<1>22. ASSUME NEW c \in Client, Disconnect(c) PROVE Counted'
  BY <1>22 DEF Disconnect
<1>23. ASSUME NEW c \in Client, Read(c) PROVE Counted'
  BY <1>23 DEF Read
<1>24. ASSUME NEW c \in Client, Quiet(c) PROVE Counted'
  BY <1>24 DEF Quiet
<1>25. CASE UNCHANGED vars
  BY <1>25 DEF vars, runnerVars, loopVars
<1> QED BY <1>1, <1>2, <1>3, <1>4, <1>5, <1>6, <1>7, <1>8, <1>9, <1>10, <1>11, <1>12, <1>13, <1>14, <1>15, <1>16, <1>17, <1>18, <1>19, <1>20, <1>21, <1>22, <1>23, <1>24, <1>25 DEF Next, Ending

(* A note behind the done in one sequence.                                  *)
LEMMA NoteBehind ==
  ASSUME NEW s \in Seq(Event), NEW i \in Nat, NEW n \in Nat, DoneAt(s, i, n)
  PROVE  DoneAt(Append(s, "note"), i, n + 1)
<1>1. Len(s) \in Nat /\ "note" \in Event
  BY LenProperties DEF Event
<1> QED BY <1>1 DEF DoneAt

(* ... and the first event of a sequence gone.                              *)
LEMMA DoneAdvances ==
  ASSUME NEW s \in Seq(Event), NEW i \in Nat, NEW n \in Nat, DoneAt(s, i, n), i # 1
  PROVE  s # <<>> /\ i - 1 \in Nat /\ DoneAt(Tail(s), i - 1, n)
<1>1. Len(s) \in Nat /\ i \in 2 .. Len(s)
  BY LenProperties DEF DoneAt
<1>2. s # <<>>
  BY <1>1
<1>3. /\ Len(Tail(s)) = Len(s) - 1
      /\ \A j \in 1 .. Len(s) - 1 : Tail(s)[j] = s[j + 1]
  BY <1>2, HeadTailProperties
<1> QED BY <1>1, <1>2, <1>3 DEF DoneAt

(* Two notes follow the done, and a queue of three places keeps all three.  *)
LEMMA DoneStep == (TypeOK /\ DoneInSight) /\ [Next]_vars => DoneInSight'
<1> SUFFICES ASSUME TypeOK, DoneInSight, [Next]_vars, Announced', ~delivered'
             PROVE  OnItsWay' \/ Queued'
  BY DEF DoneInSight
<1>0. /\ posted \in Seq(Event) /\ queue \in Seq(Event)
      /\ Len(queue) <= MaxQueue /\ Len(posted) \in Nat /\ Len(queue) \in Nat
      /\ Notes \in Nat /\ "note" \in Event /\ "done" \in Event
  BY LenProperties DEF TypeOK, Notes, Event
<1>1. CASE Emit
  BY <1>1 DEF Emit, Announced
<1>2. CASE Turn
  BY <1>2 DEF Turn, Announced
<1>3. CASE SetIdle
  BY <1>3 DEF SetIdle, Announced
<1>4. CASE Check
  BY <1>4 DEF Check, Announced
<1>5. CASE Take
  BY <1>5 DEF Take, Announced
<1>6. CASE Empty
  BY <1>6 DEF Empty, Announced
<1>7. CASE Resume
  BY <1>7 DEF Resume, Announced
<1>8. CASE Pause
  BY <1>8 DEF Pause, Announced
<1>9. CASE PersistPause
  BY <1>9 DEF PersistPause, Announced
<1>10. CASE Raise
  BY <1>10 DEF Raise, Announced
<1>11. CASE Settle
  BY <1>11 DEF Settle, Announced
<1>12. CASE Announce
  <2>1. posted' = Append(posted, "done") /\ Notes' = 0
    BY <1>12 DEF Announce, Post, Notes
  <2>2. DoneAt(posted', Len(posted) + 1, 0)
    BY <1>0, <2>1 DEF DoneAt
  <2> QED BY <1>0, <2>1, <2>2 DEF OnItsWay
<1>13. CASE Bridge
  <2>1. Announced /\ ~delivered /\ Notes = 0 /\ Notes' = 1 /\ queue' = queue
    BY <1>13 DEF Bridge, Notes, Announced, loopVars
  <2>2. posted' = Append(posted, "note") \/ posted' = posted
    BY <1>13 DEF Bridge, Post
  <2>3. CASE OnItsWay
    <3>1. PICK i \in Nat : DoneAt(posted, i, 0)
      BY <2>1, <2>3 DEF OnItsWay
    <3>2. DoneAt(Append(posted, "note"), i, 1) /\ DoneAt(posted, i, 1)
      <4>1. 0 + 1 = 1 /\ 0 \in Nat
        OBVIOUS
      <4>2. DoneAt(Append(posted, "note"), i, 0 + 1)
        BY <1>0, <3>1, <4>1, NoteBehind
      <4> QED BY <1>0, <3>1, <4>1, <4>2 DEF DoneAt
    <3>3. DoneAt(posted', i, Notes')
      BY <2>1, <2>2, <3>2, Zenon
    <3> QED BY <3>3 DEF OnItsWay
  <2>4. CASE Queued
    <3>1. PICK i \in Nat, n \in Nat :
            /\ DoneAt(queue, i, n) /\ n + Len(posted) <= 0
            /\ \A j \in 1 .. Len(posted) : posted[j] = "note"
      BY <2>1, <2>4 DEF Queued
    <3>2. /\ Len(posted') <= Len(posted) + 1 /\ Len(posted') \in Nat
          /\ \A j \in 1 .. Len(posted') : posted'[j] = "note"
      BY <1>0, <2>2, <3>1
    <3>3. DoneAt(queue', i, n) /\ n + Len(posted') <= Notes'
      BY <1>0, <2>1, <3>1, <3>2
    <3> QED BY <3>2, <3>3 DEF Queued
  <2> QED BY <2>1, <2>3, <2>4 DEF DoneInSight
<1>14. CASE CloseTracer
  <2>1. Announced /\ ~delivered /\ Notes = 1 /\ Notes' = 2 /\ queue' = queue
    BY <1>14 DEF CloseTracer, Notes, Announced, loopVars
  <2>2. posted' = Append(posted, "note") \/ posted' = posted
    BY <1>14 DEF CloseTracer, Post
  <2>3. CASE OnItsWay
    <3>1. PICK i \in Nat : DoneAt(posted, i, 1)
      BY <2>1, <2>3 DEF OnItsWay
    <3>2. DoneAt(Append(posted, "note"), i, 2) /\ DoneAt(posted, i, 2)
      <4>1. 1 + 1 = 2 /\ 1 \in Nat
        OBVIOUS
      <4>2. DoneAt(Append(posted, "note"), i, 1 + 1)
        BY <1>0, <3>1, <4>1, NoteBehind
      <4> QED BY <1>0, <3>1, <4>1, <4>2 DEF DoneAt
    <3>3. DoneAt(posted', i, Notes')
      BY <2>1, <2>2, <3>2, Zenon
    <3> QED BY <3>3 DEF OnItsWay
  <2>4. CASE Queued
    <3>1. PICK i \in Nat, n \in Nat :
            /\ DoneAt(queue, i, n) /\ n + Len(posted) <= 1
            /\ \A j \in 1 .. Len(posted) : posted[j] = "note"
      BY <2>1, <2>4 DEF Queued
    <3>2. /\ Len(posted') <= Len(posted) + 1 /\ Len(posted') \in Nat
          /\ \A j \in 1 .. Len(posted') : posted'[j] = "note"
      BY <1>0, <2>2, <3>1
    <3>3. DoneAt(queue', i, n) /\ n + Len(posted') <= Notes'
      BY <1>0, <2>1, <3>1, <3>2
    <3> QED BY <3>2, <3>3 DEF Queued
  <2> QED BY <2>1, <2>3, <2>4 DEF DoneInSight
<1>15. CASE Store
  <2>1. Announced /\ ~delivered /\ Notes' = Notes /\ posted' = posted /\ queue' = queue
    BY <1>15 DEF Store, Announced, Notes, runnerVars, loopVars
  <2> QED BY <2>1 DEF DoneInSight, OnItsWay, Queued
<1>16. CASE SendCheck
  <2>1. Announced /\ ~delivered /\ Notes' = Notes /\ posted' = posted /\ queue' = queue
    BY <1>16 DEF SendCheck, Announced, Notes, runnerVars, loopVars
  <2> QED BY <2>1 DEF DoneInSight, OnItsWay, Queued
<1>17. CASE SendPut
  <2>1. Announced /\ ~delivered /\ Notes' = Notes /\ posted' = posted /\ queue' = queue
    BY <1>17 DEF SendPut, Announced, Notes, runnerVars, loopVars
  <2> QED BY <2>1 DEF DoneInSight, OnItsWay, Queued
<1>18. CASE SendMark
  <2>1. Announced /\ ~delivered /\ Notes' = Notes /\ posted' = posted /\ queue' = queue
    BY <1>18 DEF SendMark, Announced, Notes, runnerVars, loopVars
  <2> QED BY <2>1 DEF DoneInSight, OnItsWay, Queued
<1>19. CASE Stop
  <2>1. Announced /\ ~delivered /\ Notes' = Notes /\ posted' = posted /\ queue' = queue
    BY <1>19 DEF Stop, Announced, Notes, runnerVars, loopVars
  <2> QED BY <2>1 DEF DoneInSight, OnItsWay, Queued
<1>20. CASE Callback
  <2>1. /\ Announced /\ ~delivered /\ Notes' = Notes /\ posted # <<>>
        /\ queue' = Enqueue(queue, Head(posted)) /\ posted' = Tail(posted)
    BY <1>20 DEF Callback, Announced, Notes
  <2>2. /\ Tail(posted) \in Seq(Event) /\ Len(Tail(posted)) = Len(posted) - 1
        /\ \A j \in 1 .. Len(posted) - 1 : Tail(posted)[j] = posted[j + 1]
        /\ Head(posted) = posted[1] /\ Len(posted) >= 1
    BY <1>0, <2>1, HeadTailProperties
  <2>3. CASE OnItsWay
    <3>1. PICK i \in Nat : DoneAt(posted, i, Notes)
      BY <2>3 DEF OnItsWay
    <3>2. CASE i # 1
      <4>1. i - 1 \in Nat /\ DoneAt(Tail(posted), i - 1, Notes)
        BY <1>0, <3>1, <3>2, DoneAdvances
      <4>2. DoneAt(posted', i - 1, Notes')
        BY <2>1, <4>1, Zenon
      <4> QED BY <4>1, <4>2 DEF OnItsWay
    <3>3. CASE i = 1
      <4>1. Head(posted) = "done" /\ Len(posted) - 1 <= Notes
        BY <2>2, <3>1, <3>3 DEF DoneAt
      <4>2. PICK k \in Nat : DoneAt(Enqueue(queue, "done"), k, 0)
        BY <1>0, DoneEnters
      <4>3. DoneAt(queue', k, 0)
        BY <2>1, <4>1, <4>2, Zenon
      <4>4. \A j \in 2 .. Len(posted) : posted[j] = "note"
        BY <1>0, <3>1, <3>3 DEF DoneAt
      <4>5. \A j \in 1 .. Len(posted') : posted'[j] = "note"
        BY <1>0, <2>1, <2>2, <4>4
      <4>6. 0 + Len(posted') <= Notes'
        BY <1>0, <2>1, <2>2, <4>1
      <4> QED BY <4>3, <4>5, <4>6 DEF Queued
    <3> QED BY <3>2, <3>3
  <2>4. CASE Queued
    <3>1. PICK i \in Nat, n \in Nat :
            /\ DoneAt(queue, i, n) /\ n + Len(posted) <= Notes
            /\ \A j \in 1 .. Len(posted) : posted[j] = "note"
      BY <2>4 DEF Queued
    <3>2. Head(posted) = "note" /\ Notes <= 2 /\ n \in {0, 1}
      BY <1>0, <2>2, <3>1 DEF Notes
    <3>3. PICK k \in Nat : DoneAt(Enqueue(queue, "note"), k, n + 1)
      BY <1>0, <3>1, <3>2, NoteKeepsDone
    <3>4. DoneAt(queue', k, n + 1)
      BY <2>1, <3>2, <3>3, Zenon
    <3>5. \A j \in 1 .. Len(posted') : posted'[j] = "note"
      BY <1>0, <2>1, <2>2, <3>1
    <3>6. n + 1 \in Nat /\ (n + 1) + Len(posted') <= Notes'
      BY <1>0, <2>1, <2>2, <3>1
    <3> QED BY <3>4, <3>5, <3>6 DEF Queued
  <2> QED BY <2>1, <2>3, <2>4 DEF DoneInSight
<1>21. ASSUME NEW c \in Client, Connect(c) PROVE OnItsWay' \/ Queued'
  <2>1. Announced /\ ~delivered /\ Notes' = Notes /\ posted' = posted /\ queue' = queue
    BY <1>21 DEF Connect, Announced, Notes, runnerVars, loopVars
  <2> QED BY <2>1 DEF DoneInSight, OnItsWay, Queued
<1>22. ASSUME NEW c \in Client, Disconnect(c) PROVE OnItsWay' \/ Queued'
  <2>1. Announced /\ ~delivered /\ Notes' = Notes /\ posted' = posted /\ queue' = queue
    BY <1>22 DEF Disconnect, Announced, Notes, runnerVars, loopVars
  <2> QED BY <2>1 DEF DoneInSight, OnItsWay, Queued
<1>23. ASSUME NEW c \in Client, Read(c) PROVE OnItsWay' \/ Queued'
  <2>1. /\ Announced /\ ~delivered /\ Notes' = Notes /\ posted' = posted
        /\ queue # <<>> /\ queue' = Tail(queue) /\ Head(queue) # "done"
    BY <1>23 DEF Read, Announced, Notes, runnerVars
  <2>2. CASE OnItsWay
    BY <2>1, <2>2 DEF OnItsWay
  <2>3. CASE Queued
    <3>1. PICK i \in Nat, n \in Nat :
            /\ DoneAt(queue, i, n) /\ n + Len(posted) <= Notes
            /\ \A j \in 1 .. Len(posted) : posted[j] = "note"
      BY <2>3 DEF Queued
    <3>2. i # 1
      BY <2>1, <3>1 DEF DoneAt
    <3>3. i - 1 \in Nat /\ DoneAt(Tail(queue), i - 1, n)
      BY <1>0, <3>1, <3>2, DoneAdvances
    <3>4. DoneAt(queue', i - 1, n)
      BY <2>1, <3>3, Zenon
    <3> QED BY <2>1, <3>1, <3>3, <3>4 DEF Queued
  <2> QED BY <2>1, <2>2, <2>3 DEF DoneInSight
<1>24. ASSUME NEW c \in Client, Quiet(c) PROVE OnItsWay' \/ Queued'
  <2>1. Announced /\ ~delivered /\ Notes' = Notes /\ posted' = posted /\ queue' = queue
    BY <1>24 DEF Quiet, Announced, Notes, runnerVars, loopVars
  <2> QED BY <2>1 DEF DoneInSight, OnItsWay, Queued
<1>25. CASE UNCHANGED vars
  <2>1. Announced /\ ~delivered /\ Notes' = Notes /\ posted' = posted /\ queue' = queue
    BY <1>25 DEF vars, Announced, Notes, runnerVars, loopVars
  <2> QED BY <2>1 DEF DoneInSight, OnItsWay, Queued
<1> QED BY <1>1, <1>2, <1>3, <1>4, <1>5, <1>6, <1>7, <1>8, <1>9, <1>10, <1>11, <1>12, <1>13, <1>14, <1>15, <1>16, <1>17, <1>18, <1>19, <1>20, <1>21, <1>22, <1>23, <1>24, <1>25 DEF Next, Ending

THEOREM Inductive == Spec => []IInv
<1>1. Init => IInv
  <2> SUFFICES ASSUME Init PROVE IInv
    OBVIOUS
  <2>1. <<>> \in Seq(Event) /\ Len(<<>>) = 0
    BY EmptySeq
  <2>2. posted \in Seq(Event) /\ queue \in Seq(Event) /\ Len(queue) <= MaxQueue
    BY <2>1, ServerSessionAssumption DEF Init
  <2>3. interactive \in BOOLEAN /\ stop \in BOOLEAN /\ budget \in BOOLEAN /\ delivered \in BOOLEAN
    BY Zenon DEF Init
  <2>4. TypeOK
    BY <2>2, <2>3, ServerSessionAssumption DEF Init, TypeOK
  <2> QED BY <2>4, ServerSessionAssumption
          DEF Init, IInv, SendRoom, Counted, DoneInSight, Announced
<1>2. IInv /\ [Next]_vars => IInv'
  BY TypeStep, RoomStep, CountStep, DoneStep DEF IInv
<1> QED BY <1>1, <1>2, PTL DEF Spec

(* Every variable stays in its type, and the queue in its bound.            *)
THEOREM TypeCorrect == Spec => []TypeOK
<1>1. IInv => TypeOK
  BY DEF IInv
<1> QED BY <1>1, Inductive, PTL

(* enqueue_sse_event never drops the event that ends the stream.            *)
THEOREM DoneSurvives == Spec => []DoneNotLost
<1>1. IInv => DoneNotLost
  BY DEF IInv, DoneInSight, DoneNotLost, OnItsWay, Queued, DoneAt, Contains
<1> QED BY <1>1, Inductive, PTL

(* for_remaining_budget keeps all turns within the session's cap.           *)
THEOREM CapHolds == Spec => []SessionCap
<1>1. IInv => SessionCap
  BY DEF IInv, Counted, SessionCap
<1> QED BY <1>1, Inductive, PTL
(* What holds of a served session in every state, as one statement. *)
THEOREM SessionIsSound == Spec => []SessionSound
<1>1. TypeOK /\ DoneNotLost /\ SessionCap => SessionSound
  BY DEF SessionSound
<1> QED
  BY <1>1, TypeCorrect, DoneSurvives, CapHolds, PTL
=============================================================================
