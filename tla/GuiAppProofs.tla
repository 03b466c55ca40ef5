----------------------------- MODULE GuiAppProofs -----------------------------
(***************************************************************************)
(* The GUI, for every number of connections, events and sizes and for all  *)
(* frames of information, in however many chunks they come.                *)
(***************************************************************************)
EXTENDS GuiApp, WireFormatProofs

Symbols == {"text", "prefix", "json", "bel"}
Bytes == Seq(Symbols)
Statuses == {"connected", "closed", "failed", "reconnected"}
Kinds == Statuses \cup {"output"}
Events == [kind : Kinds, chunk : Bytes, rest : Bytes, of : 0..MaxAttempts]
Labels == [green : BOOLEAN, text : Statuses \cup {"down", "up"}, of : 0..MaxAttempts]

------------------------------------------------------------------------------
(* Types.  TypeOK does not say what is in the queue.                        *)

TypeInv ==
    /\ attempts \in 0..MaxAttempts
    /\ connection \in {0, attempts}
    /\ receiving \subseteq 1 .. attempts
    /\ connection # 0 => connection \in receiving
    /\ label \in Labels
    /\ events \in Seq(Events)
    /\ half \in [Attempts -> Bytes]
    /\ widget \in Sizes /\ terminalSize \in Sizes
    /\ timers \in 0..2 /\ afterId \in BOOLEAN
    /\ timers = 2 => afterId
    /\ asked \in Sizes \cup {0}

LEMMA Positive == MaxPayloadSize \in Nat /\ MaxPayloadSize >= 1
  BY WireAssumption DEF WireAssumption, MaxPayloadSize

LEMMA FrameBytes == Frames \subseteq Bytes /\ <<>> \notin Frames
<1>1. \A f \in Frames : f \in Seq({"prefix", "json", "bel"}) /\ Len(f) > 2
  BY GuiAssumption DEF GuiAssumption
<1>2. Seq({"prefix", "json", "bel"}) \subseteq Bytes
  BY DEF Bytes, Symbols
<1> QED
  BY <1>1, <1>2

(* The first chunk and the others: where the bytes are cut.                 *)
LEMMA Parts ==
    ASSUME NEW data \in Bytes, data # <<>>
    PROVE  \E k \in 1..Len(data) :
              /\ FirstChunk(data) = SubSeq(data, 1, k)
              /\ OtherChunks(data) = SubSeq(data, k + 1, Len(data))
<1> DEFINE size == MaxPayloadSize
           count == (Len(data) + size - 1) \div size
           k == IF size < Len(data) THEN size ELSE Len(data)
<1>1. Len(data) \in Nat /\ Len(data) >= 1
  BY EmptySeq, LenProperties DEF Bytes
<1>2. size \in Nat /\ size >= 1
  BY Positive
<1>3. count \in Nat /\ count >= 1
  <2> HIDE DEF size
  <2>1. ASSUME NEW a \in Nat, NEW b \in Nat, a >= b, b >= 1
        PROVE  (a \div b) \in Nat /\ (a \div b) >= 1
    BY <2>1, SMT
  <2> QED
    BY <1>1, <1>2, <2>1
<1>4. k \in 1..Len(data)
  BY <1>1, <1>2
<1>5. FirstChunk(data) = SubSeq(data, 1, k)
  <2> HIDE DEF count
  <2>1. ChunkBytes(data, size) = [i \in 1..count |->
            SubSeq(data, (i - 1) * size + 1, IF i * size < Len(data) THEN i * size ELSE Len(data))]
    BY DEF ChunkBytes, count
  <2> DEFINE all == ChunkBytes(data, size)
             T == {all[i] : i \in 1..count}
  <2>2. all \in Seq(T) /\ Len(all) = count
    <3>1. all \in [1..count -> T]
      BY <2>1
    <3>2. all \in Seq(T)
      BY <3>1, <1>3, SeqDef
    <3> QED
      BY <3>1, <3>2, <1>3, LenProperties
  <2>3. Head(all) = all[1]
    <3> HIDE DEF all, T
    <3> QED
      BY <2>2, <1>3, HeadTailProperties, EmptySeq
  <2>4. (1 - 1) * size + 1 = 1 /\ 1 * size = size
    <3> HIDE DEF size
    <3> QED
      BY <1>2
  <2>5. all[1] = SubSeq(data, (1 - 1) * size + 1, IF 1 * size < Len(data) THEN 1 * size ELSE Len(data))
    <3>1. 1 \in 1..count
      BY <1>3
    <3> HIDE DEF size
    <3> QED
      BY <2>1, <3>1
  <2>6. FirstChunk(data) = all[1]
    BY <2>3 DEF FirstChunk
  <2> HIDE DEF all, size
  <2>7. all[1] = SubSeq(data, 1, IF size < Len(data) THEN size ELSE Len(data))
    BY <2>4, <2>5
  <2> QED
    BY <2>6, <2>7 DEF size
<1>6. Len(SubSeq(data, 1, k)) = k
  BY <1>4, <1>1
<1> QED
  BY <1>4, <1>5, <1>6 DEF OtherChunks

LEMMA PartTypes ==
    ASSUME NEW data \in Bytes, data # <<>>
    PROVE  FirstChunk(data) \in Bytes /\ OtherChunks(data) \in Bytes
<1>1. PICK k \in 1..Len(data) :
              /\ FirstChunk(data) = SubSeq(data, 1, k)
              /\ OtherChunks(data) = SubSeq(data, k + 1, Len(data))
  BY Parts
<1> QED
  BY <1>1, SubSeqProperties, LenProperties DEF Bytes

LEMMA EventTypes ==
    /\ \A c, rest \in Bytes : Output(c, rest) \in Events
    /\ \A s \in Statuses, n \in 0..MaxAttempts : Status(s, n) \in Events
<1>1. <<>> \in Bytes /\ 0 \in 0..MaxAttempts
  BY GuiAssumption DEF Bytes, GuiAssumption
<1> QED
  BY <1>1 DEF Output, Status, Events, Kinds

LEMMA TypeInit == Init => TypeInv
<1> SUFFICES ASSUME Init PROVE TypeInv
  OBVIOUS
<1>1. <<>> \in Bytes /\ <<>> \in Seq(Events)
  BY DEF Bytes
<1>2. half \in [Attempts -> Bytes]
  BY <1>1 DEF Init
<1>3. label \in Labels
  BY GuiAssumption DEF Init, Labels, GuiAssumption
<1>4. asked \in Sizes \cup {0}
  BY DEF Init
<1>5. timers = 1 /\ afterId = FALSE
  BY DEF Init
<1>6. afterId \in BOOLEAN
  BY <1>5, Zenon
<1>7. timers \in 0..2 /\ timers # 2
  BY <1>5
<1> QED
  BY <1>1, <1>2, <1>3, <1>4, <1>6, <1>7, GuiAssumption DEF Init, TypeInv, GuiAssumption

LEMMA PutTypes ==
    ASSUME TypeInv, NEW e \in Events, Put(e)
    PROVE  events' \in Seq(Events)
  BY AppendProperties DEF TypeInv, Put

LEMMA TypeStep == TypeInv /\ [Next]_vars => TypeInv'
<1> SUFFICES ASSUME TypeInv, [Next]_vars PROVE TypeInv'
  OBVIOUS
<1> USE DEF linkVars, queueVars, filterVars, sizeVars
<1>1. ASSUME NEW byName \in BOOLEAN, NEW answered \in BOOLEAN, NEW id \in Ids, Connect(byName, id, answered)
      PROVE  TypeInv'
  <2>1. events' \in Seq(Events)
    <3>1. attempts' \in 0..MaxAttempts /\ 0 \in 0..MaxAttempts
      BY <1>1, GuiAssumption DEF Connect, TypeInv, GuiAssumption
    <3> QED
      BY <1>1, <3>1, PutTypes, EventTypes DEF Connect, Statuses
  <2>2. asked' \in Sizes \cup {0}
    BY <1>1 DEF Connect, TypeInv
  <2>3. /\ attempts' \in 0..MaxAttempts /\ connection' \in {0, attempts'}
        /\ receiving' \subseteq 1 .. attempts' /\ (connection' # 0 => connection' \in receiving')
        /\ label' \in Labels
    <3>1. attempts' = attempts + 1 /\ attempts' \in 0..MaxAttempts /\ connection = 0
          /\ receiving \subseteq 1 .. attempts'
      BY <1>1, GuiAssumption DEF Connect, TypeInv, GuiAssumption
    <3>2. CASE answered /\ AnswerCounts(byName, id)
      <4>1. connection' = attempts' /\ receiving' = receiving \cup {attempts'}
            /\ label' = [green |-> TRUE, text |-> "up", of |-> 0]
        BY <1>1, <3>2 DEF Connect
      <4>2. attempts' \in 1 .. attempts'
        BY <3>1, GuiAssumption DEF TypeInv, GuiAssumption
      <4>3. label' \in Labels
        BY <4>1, GuiAssumption DEF Labels, GuiAssumption
      <4> QED
        BY <3>1, <4>1, <4>2, <4>3
    <3>3. CASE ~ (answered /\ AnswerCounts(byName, id))
      <4>1. UNCHANGED <<connection, receiving, label>>
        BY <1>1, <3>3 DEF Connect
      <4> QED
        BY <3>1, <4>1 DEF TypeInv
    <3> QED
      BY <3>2, <3>3
  <2> QED
    BY <1>1, <2>1, <2>2, <2>3 DEF Connect, TypeInv
<1>2. CASE Disconnect
  <2>1. events' \in Seq(Events)
    BY <1>2, PutTypes, EventTypes, GuiAssumption DEF Disconnect, Statuses, GuiAssumption
  <2>2. asked' \in Sizes \cup {0}
    BY <1>2 DEF Disconnect
  <2>3. label' \in Labels
    BY <1>2, GuiAssumption DEF Disconnect, Labels, GuiAssumption
  <2> QED
    BY <1>2, <2>1, <2>2, <2>3 DEF Disconnect, TypeInv
<1>3. ASSUME NEW n \in Attempts, NEW c \in Bytes, NEW rest \in Bytes, Receive(n, c, rest),
             half' \in [Attempts -> Bytes]
      PROVE  TypeInv'
  <2>1. events' \in Seq(Events)
    BY <1>3, PutTypes, EventTypes DEF Receive
  <2>2. receiving' \subseteq 1 .. attempts /\ (connection # 0 => connection \in receiving')
    BY <1>3 DEF Receive, LoopTest, TypeInv
  <2> QED
    BY <1>3, <2>1, <2>2 DEF Receive, TypeInv
<1>4. ASSUME NEW n \in Attempts, ReceiveText(n)
      PROVE  TypeInv'
  <2>1. <<"text">> \in Bytes /\ <<"text", "bel">> \in Bytes /\ <<>> \in Bytes
    BY DEF Bytes, Symbols
  <2>2. half' \in [Attempts -> Bytes]
    BY <1>4 DEF ReceiveText, TypeInv
  <2> QED
    BY <1>3, <1>4, <2>1, <2>2 DEF ReceiveText
<1>5. ASSUME NEW n \in Attempts, NEW data \in Bytes, data # <<>>, ReceivePart(n, data)
      PROVE  TypeInv'
  <2>1. FirstChunk(data) \in Bytes /\ OtherChunks(data) \in Bytes
    BY <1>5, PartTypes
  <2>2. half' \in [Attempts -> Bytes]
    BY <1>5, <2>1 DEF ReceivePart, TypeInv
  <2> QED
    BY <1>3, <1>5, <2>1, <2>2 DEF ReceivePart
<1>6. ASSUME NEW n \in Attempts, ReceiveFrame(n)
      PROVE  TypeInv'
  BY <1>5, <1>6, FrameBytes DEF ReceiveFrame
<1>7. ASSUME NEW n \in Attempts, ReceiveRest(n)
      PROVE  TypeInv'
  BY <1>5, <1>7 DEF ReceiveRest, TypeInv
<1>8. ASSUME NEW n \in Attempts, LoseChunk(n)
      PROVE  TypeInv'
  <2>1. OtherChunks(half[n]) \in Bytes
    BY <1>8, PartTypes DEF LoseChunk, TypeInv
  <2>2. half' \in [Attempts -> Bytes]
    BY <1>8, <2>1 DEF LoseChunk, TypeInv
  <2> QED
    BY <1>8, <2>2 DEF LoseChunk, TypeInv
<1>9. ASSUME NEW n \in Attempts, ReceiveEnds(n)
      PROVE  TypeInv'
  BY <1>9 DEF ReceiveEnds, TypeInv
<1>10. ASSUME NEW s \in {"failed", "reconnected"}, Report(s)
       PROVE  TypeInv'
  <2>1. events' \in Seq(Events)
    BY <1>10, PutTypes, EventTypes, GuiAssumption DEF Report, Statuses, GuiAssumption
  <2> QED
    BY <1>10, <2>1 DEF Report, TypeInv
<1>11. ASSUME events # <<>>
       PROVE  Tail(events) \in Seq(Events) /\ Head(events) \in Events
  BY <1>11, HeadTailProperties DEF TypeInv
<1>12. CASE PumpOutput
  BY <1>11, <1>12 DEF PumpOutput, Note, TypeInv
<1>13. CASE PumpStatus
  <2>1. label' \in Labels
    BY <1>11, <1>13 DEF PumpStatus, StatusLabel, Events, Kinds, Labels
  <2> QED
    BY <1>11, <1>13, <2>1 DEF PumpStatus, TypeInv
<1>14. CASE PumpEnds
  BY <1>14 DEF PumpEnds, TypeInv
<1>15. ASSUME NEW size \in Sizes, ScheduleResize(size)
       PROVE  TypeInv'
  BY <1>15, GuiAssumption DEF ScheduleResize, TypeInv, GuiAssumption
<1>16. CASE SyncSize
  <2>1. asked' \in Sizes \cup {0}
    BY <1>16 DEF SyncSize, TypeInv
  <2>2. timers' = timers - 1 /\ timers > 0 /\ timers \in 0..2 /\ afterId' = FALSE
    BY <1>16 DEF SyncSize, TypeInv
  <2>3. timers' \in 0..2 /\ timers' # 2
    BY <2>2
  <2>4. afterId' \in BOOLEAN
    BY <2>2, Zenon
  <2>5. terminalSize' \in Sizes /\ widget' \in Sizes
    BY <1>16 DEF SyncSize, TypeInv
  <2> QED
    BY <1>16, <2>1, <2>3, <2>5, <2>4 DEF SyncSize, TypeInv
<1>17. CASE UNCHANGED vars
  BY <1>17 DEF vars, TypeInv
<1> QED
  BY <1>1, <1>2, <1>4, <1>6, <1>7, <1>8, <1>9, <1>10, <1>12, <1>13, <1>14, <1>15, <1>16, <1>17 DEF Next

------------------------------------------------------------------------------
(* The label.  What it will say when the queue is empty is the last status  *)
(* in the queue, or what it says already if there is none.                  *)

IsStatus(i) == i \in DOMAIN events /\ events[i].kind # "output"

(* What the label should not be left with.                                  *)
Contrary(text, n) ==
    \/ text \in (IF connection # 0 THEN {"down", "closed"} ELSE {"up", "connected"})
    \/ n \notin {0, connection}

LabelInv ==
    /\ label.green = (connection # 0)
    /\ \A i \in DOMAIN events :
          Contrary(events[i].kind, events[i].of) => \E j : j > i /\ IsStatus(j)
    /\ Contrary(label.text, label.of) => \E j : IsStatus(j)

LEMMA LabelInit == Init => LabelInv
<1> SUFFICES ASSUME Init PROVE LabelInv
  OBVIOUS
<1>1. label.green = FALSE /\ label.text = "down" /\ label.of = 0 /\ connection = 0
  BY DEF Init
<1>2. DOMAIN events = {}
  BY DEF Init
<1> QED
  BY <1>1, <1>2 DEF LabelInv, Contrary

(* Appending keeps the events; the head's place is taken by the next.       *)
LEMMA Appended ==
    ASSUME TypeInv, NEW e \in Events, Put(e)
    PROVE  /\ Len(events') = Len(events) + 1 /\ Len(events) \in Nat
           /\ DOMAIN events = 1 .. Len(events) /\ DOMAIN events' = 1 .. Len(events) + 1
           /\ \A i \in DOMAIN events : events'[i] = events[i]
           /\ events'[Len(events) + 1] = e
  BY AppendProperties, LenProperties DEF TypeInv, Put

LEMMA Removed ==
    ASSUME TypeInv, events # <<>>, events' = Tail(events)
    PROVE  /\ Len(events') = Len(events) - 1 /\ Len(events) \in Nat /\ Len(events) >= 1
           /\ DOMAIN events = 1 .. Len(events) /\ DOMAIN events' = 1 .. Len(events) - 1
           /\ \A i \in DOMAIN events' : i + 1 \in DOMAIN events /\ events'[i] = events[i + 1]
           /\ Head(events) = events[1]
<1>1. events \in Seq(Events)
  BY DEF TypeInv
<1>2. Len(events) \in Nat /\ Len(events) >= 1 /\ DOMAIN events = 1 .. Len(events)
  BY <1>1, EmptySeq, LenProperties
<1>3. Tail(events) \in Seq(Events) /\ Len(Tail(events)) = Len(events) - 1
  BY <1>1, HeadTailProperties
<1>4. DOMAIN events' = 1 .. Len(events) - 1
  BY <1>3, LenProperties
<1>5. \A i \in 1 .. Len(events) - 1 : Tail(events)[i] = events[i + 1]
  BY <1>1, <1>2
<1>6. Head(events) = events[1]
  BY <1>1, <1>2
<1> QED
  BY <1>2, <1>3, <1>4, <1>5, <1>6

(* An output or a status that fits the connection is put.                   *)
LEMMA LabelPut ==
    ASSUME TypeInv, LabelInv, NEW e \in Events, Put(e),
           e.kind = "output" => UNCHANGED connection,
           ~ Contrary(e.kind, e.of)',
           label'.green = (connection' # 0),
           ~ Contrary(label.text, label.of)' \/ e.kind # "output" \/ UNCHANGED <<label, connection>>
    PROVE  LabelInv'
<1>1. /\ Len(events') = Len(events) + 1 /\ Len(events) \in Nat
      /\ DOMAIN events = 1 .. Len(events) /\ DOMAIN events' = 1 .. Len(events) + 1
      /\ \A i \in DOMAIN events : events'[i] = events[i]
      /\ events'[Len(events) + 1] = e
  BY Appended
<1>2. \A j : IsStatus(j) => IsStatus(j)'
  BY <1>1 DEF IsStatus
<1>3. ASSUME e.kind # "output", NEW k, k = Len(events) + 1
      PROVE  IsStatus(k)'
  BY <1>1, <1>3 DEF IsStatus
<1>4. ASSUME NEW i \in DOMAIN events', Contrary(events[i].kind, events[i].of)'
      PROVE  \E j : j > i /\ IsStatus(j)'
  <2>1. i \in DOMAIN events
    BY <1>1, <1>4
  <2>2. CASE e.kind # "output"
    BY <1>1, <1>3, <2>1, <2>2
  <2>3. CASE e.kind = "output"
    <3>1. connection' = connection /\ events'[i] = events[i]
      BY <1>1, <2>1, <2>3
    <3>2. Contrary(events[i].kind, events[i].of)
      BY <1>4, <3>1 DEF Contrary
    <3> QED
      BY <1>2, <2>1, <3>2 DEF LabelInv
  <2> QED
    BY <2>2, <2>3
<1>5. ASSUME Contrary(label.text, label.of)'
      PROVE  \E j : IsStatus(j)'
  <2>1. CASE e.kind # "output"
    BY <1>3, <2>1
  <2>2. CASE e.kind = "output"
    <3>1. UNCHANGED <<label, connection>>
      BY <1>5, <2>2
    <3>2. Contrary(label.text, label.of)
      BY <1>5, <3>1 DEF Contrary
    <3> QED
      BY <1>2, <3>2 DEF LabelInv
  <2> QED
    BY <2>1, <2>2
<1> QED
  BY <1>4, <1>5 DEF LabelInv

(* An event is taken; a status becomes the text.                            *)
LEMMA LabelPump ==
    ASSUME TypeInv, LabelInv, events # <<>>, events' = Tail(events), UNCHANGED connection,
           IF Head(events).kind = "output" THEN UNCHANGED label
           ELSE label' = StatusLabel(Head(events))
    PROVE  LabelInv'
<1>1. /\ Len(events') = Len(events) - 1 /\ Len(events) \in Nat /\ Len(events) >= 1
      /\ DOMAIN events = 1 .. Len(events) /\ DOMAIN events' = 1 .. Len(events) - 1
      /\ \A i \in DOMAIN events' : i + 1 \in DOMAIN events /\ events'[i] = events[i + 1]
      /\ Head(events) = events[1]
  BY Removed
<1>2. \A text, n : Contrary(text, n)' <=> Contrary(text, n)
  BY DEF Contrary
<1>3. ASSUME NEW j, IsStatus(j), j > 1
      PROVE  IsStatus(j - 1)'
  BY <1>1, <1>3 DEF IsStatus
<1>4. ASSUME NEW i \in DOMAIN events', Contrary(events[i].kind, events[i].of)'
      PROVE  \E j : j > i /\ IsStatus(j)'
  <2>1. Contrary(events[i + 1].kind, events[i + 1].of) /\ i + 1 \in DOMAIN events
    BY <1>1, <1>4 DEF Contrary
  <2>2. PICK j : j > i + 1 /\ IsStatus(j)
    BY <2>1 DEF LabelInv
  <2>3. j \in 1 .. Len(events) /\ i \in 1 .. Len(events) - 1 /\ IsStatus(j)
    BY <1>1, <2>2 DEF IsStatus
  <2>4. IsStatus(j - 1)'
    BY <1>1, <1>3, <2>2, <2>3
  <2> QED
    BY <1>1, <2>2, <2>3, <2>4
<1>5. label'.green = (connection' # 0)
  BY DEF LabelInv, StatusLabel
<1>6. ASSUME Contrary(label.text, label.of)'
      PROVE  \E j : IsStatus(j)'
  <2>1. CASE Head(events).kind = "output"
    <3>1. PICK j : IsStatus(j)
      BY <1>6, <2>1 DEF LabelInv, Contrary
    <3>2. j > 1
      BY <1>1, <2>1, <3>1 DEF IsStatus
    <3> QED
      BY <1>3, <3>1, <3>2
  <2>2. CASE Head(events).kind # "output"
    <3>1. Contrary(events[1].kind, events[1].of)
      BY <1>1, <1>6, <2>2 DEF Contrary, StatusLabel
    <3>2. PICK j : j > 1 /\ IsStatus(j)
      BY <1>1, <3>1 DEF LabelInv
    <3> QED
      BY <1>3, <3>2
  <2> QED
    BY <2>1, <2>2
<1> QED
  BY <1>4, <1>5, <1>6 DEF LabelInv

LEMMA LabelStep == TypeInv /\ LabelInv /\ [Next]_vars => LabelInv'
<1> SUFFICES ASSUME TypeInv, LabelInv, [Next]_vars PROVE LabelInv'
  OBVIOUS
<1> USE DEF linkVars, queueVars, filterVars, sizeVars
<1>1. ASSUME UNCHANGED <<label, connection, events>>
      PROVE  LabelInv'
  BY <1>1 DEF LabelInv, Contrary, IsStatus
<1>2. ASSUME NEW byName \in BOOLEAN, NEW answered \in BOOLEAN, NEW id \in Ids, Connect(byName, id, answered)
      PROVE  LabelInv'
  <2>1. connection = 0
    BY <1>2 DEF Connect
  <2>2. CASE answered /\ AnswerCounts(byName, id)
    <3>1. connection' = attempts + 1 /\ label' = [green |-> TRUE, text |-> "up", of |-> 0]
          /\ Put(Status("connected", connection')) /\ connection' \in 0..MaxAttempts
      BY <1>2, <2>2, GuiAssumption DEF Connect, TypeInv, GuiAssumption
    <3>2. connection' # 0
      BY <3>1, GuiAssumption DEF TypeInv, GuiAssumption
    <3> QED
      BY <3>1, <3>2, EventTypes, LabelPut DEF Status, Contrary, Statuses
  <2>3. CASE ~ (answered /\ AnswerCounts(byName, id))
    <3>1. UNCHANGED <<connection, label>> /\ Put(Status("closed", 0))
      BY <1>2, <2>3 DEF Connect
    <3> QED
      BY <2>1, <3>1, EventTypes, LabelPut, GuiAssumption DEF Status, Contrary, Statuses, LabelInv, GuiAssumption
  <2> QED
    BY <2>2, <2>3
<1>3. CASE Disconnect
  <2>1. Put(Status("closed", 0)) /\ connection' = 0 /\ label' = [green |-> FALSE, text |-> "down", of |-> 0]
    BY <1>3 DEF Disconnect
  <2>2. Status("closed", 0) \in Events
    BY EventTypes, GuiAssumption DEF Statuses, GuiAssumption
  <2> QED
    BY <2>1, <2>2, LabelPut DEF Status, Contrary
<1>4. ASSUME NEW n \in Attempts, NEW c \in Bytes, NEW rest \in Bytes, Receive(n, c, rest)
      PROVE  LabelInv'
  <2>1. Put(Output(c, rest)) /\ UNCHANGED <<label, connection>>
    BY <1>4 DEF Receive
  <2> QED
    BY <2>1, EventTypes, LabelPut DEF Output, Contrary, LabelInv
<1>5. ASSUME NEW n \in Attempts, ReceiveText(n)
      PROVE  LabelInv'
  <2>1. <<"text">> \in Bytes /\ <<"text", "bel">> \in Bytes /\ <<>> \in Bytes
    BY DEF Bytes, Symbols
  <2> QED
    BY <1>4, <1>5, <2>1 DEF ReceiveText
<1>6. ASSUME NEW n \in Attempts, ReceiveFrame(n) \/ ReceiveRest(n)
      PROVE  LabelInv'
  <2>1. PICK data \in Bytes : data # <<>> /\ ReceivePart(n, data)
    BY <1>6, FrameBytes DEF ReceiveFrame, ReceiveRest, TypeInv
  <2> QED
    BY <1>4, <2>1, PartTypes DEF ReceivePart
<1>7. ASSUME NEW n \in Attempts, LoseChunk(n) \/ ReceiveEnds(n)
      PROVE  LabelInv'
  BY <1>1, <1>7 DEF LoseChunk, ReceiveEnds
<1>8. ASSUME NEW s \in {"failed", "reconnected"}, Report(s)
      PROVE  LabelInv'
  <2>1. Put(Status(s, 0)) /\ UNCHANGED <<label, connection>>
    BY <1>8 DEF Report
  <2> QED
    BY <2>1, EventTypes, LabelPut, GuiAssumption DEF Status, Contrary, Statuses, LabelInv, GuiAssumption
<1>9. CASE PumpOutput
  BY <1>9, LabelPump DEF PumpOutput
<1>10. CASE PumpStatus
  BY <1>10, LabelPump DEF PumpStatus
<1>11. CASE PumpEnds \/ SyncSize \/ (\E size \in Sizes : ScheduleResize(size)) \/ UNCHANGED vars
  BY <1>1, <1>11 DEF PumpEnds, SyncSize, ScheduleResize, vars
<1> QED
  BY <1>2, <1>3, <1>5, <1>6, <1>7, <1>8, <1>9, <1>10, <1>11 DEF Next

------------------------------------------------------------------------------
(* The size.                                                                *)

SizeInv ==
    /\ timers = 0 => terminalSize = widget
    /\ afterId => timers > 0
    /\ connection # 0 => asked = terminalSize

LEMMA SizeInit == Init => SizeInv
  BY DEF Init, SizeInv

LEMMA SizeStep == TypeInv /\ SizeInv /\ [Next]_vars => SizeInv'
<1> SUFFICES ASSUME TypeInv, SizeInv, [Next]_vars PROVE SizeInv'
  OBVIOUS
<1> USE DEF linkVars, queueVars, filterVars, sizeVars
<1>1. ASSUME UNCHANGED <<sizeVars, connection, asked>>
      PROVE  SizeInv'
  BY <1>1 DEF SizeInv
<1>2. ASSUME NEW byName \in BOOLEAN, NEW answered \in BOOLEAN, NEW id \in Ids, Connect(byName, id, answered)
      PROVE  SizeInv'
  <2>1. UNCHANGED sizeVars /\ connection = 0
    BY <1>2 DEF Connect
  <2>2. connection' = 0 \/ asked' = terminalSize
    BY <1>2 DEF Connect
  <2> QED
    BY <2>1, <2>2 DEF SizeInv
<1>3. CASE Disconnect
  BY <1>3 DEF Disconnect, SizeInv
<1>4. ASSUME NEW n \in Attempts,
             ReceiveText(n) \/ ReceiveFrame(n) \/ ReceiveRest(n) \/ LoseChunk(n) \/ ReceiveEnds(n)
      PROVE  SizeInv'
  BY <1>1, <1>4 DEF ReceiveText, ReceiveFrame, ReceiveRest, ReceivePart, Receive, LoseChunk, ReceiveEnds
<1>5. CASE (\E s \in {"failed", "reconnected"} : Report(s)) \/ PumpOutput \/ PumpStatus \/ PumpEnds
  BY <1>1, <1>5 DEF Report, PumpOutput, PumpStatus, PumpEnds
<1>6. ASSUME NEW size \in Sizes, ScheduleResize(size)
      PROVE  SizeInv'
  BY <1>6 DEF ScheduleResize, SizeInv, TypeInv
<1>7. CASE SyncSize
  <2>1. terminalSize' = widget /\ widget' = widget /\ ~ afterId' /\ connection' = connection
    BY <1>7 DEF SyncSize
  <2>2. connection # 0 => asked' = widget
    BY <1>7 DEF SyncSize, SizeInv
  <2> QED
    BY <2>1, <2>2 DEF SizeInv
<1>8. CASE UNCHANGED vars
  BY <1>1, <1>8 DEF vars
<1> QED
  BY <1>2, <1>3, <1>4, <1>5, <1>6, <1>7, <1>8 DEF Next

------------------------------------------------------------------------------
(* Where the first frame begins and ends                                    *)

LEMMA LeastOf ==
    ASSUME NEW T \in SUBSET Nat, T # {}
    PROVE  Min(T) \in T /\ \A y \in T : Min(T) <= y
<1>1. \E x \in T : \A y \in T : x <= y
  BY LeastNumber
<1> QED
  BY <1>1 DEF Min

LEMMA FrameBounds ==
    ASSUME NEW data \in Bytes
    PROVE  /\ FrameStart(data) \in 1 .. Len(data) + 1
           /\ FrameStart(data) <= Len(data) => data[FrameStart(data)] = "prefix"
           /\ \A i \in 1 .. Len(data) : data[i] = "prefix" => FrameStart(data) <= i
           /\ FrameEnd(data) \in 1 .. Len(data) + 1
           /\ FrameEnd(data) <= Len(data) => FrameStart(data) < FrameEnd(data) /\ data[FrameEnd(data)] = "bel"
           /\ \A i \in 1 .. Len(data) : FrameStart(data) < i /\ data[i] = "bel" => FrameEnd(data) <= i
<1>1. Len(data) \in Nat /\ DOMAIN data = 1 .. Len(data)
  BY LenProperties DEF Bytes
<1> DEFINE S == Starts(data) \cup {Len(data) + 1}
           E == {i \in DOMAIN data : i > FrameStart(data) /\ data[i] = "bel"} \cup {Len(data) + 1}
<1>2. Starts(data) = {i \in 1 .. Len(data) : data[i] = "prefix"}
  BY <1>1 DEF Starts
<1>3. FrameStart(data) \in S /\ \A y \in S : FrameStart(data) <= y
  <2>1. S \subseteq Nat /\ S # {}
    BY <1>1, <1>2
  <2> HIDE DEF S
  <2>2. Min(S) \in S /\ \A y \in S : Min(S) <= y
    BY <2>1, LeastOf
  <2> QED
    BY <2>2 DEF FrameStart, S
<1>4. FrameStart(data) \in 1 .. Len(data) + 1
  BY <1>1, <1>2, <1>3
<1>5. FrameEnd(data) \in E /\ \A y \in E : FrameEnd(data) <= y
  <2>1. E \subseteq Nat /\ E # {}
    BY <1>1
  <2> HIDE DEF E
  <2>2. Min(E) \in E /\ \A y \in E : Min(E) <= y
    BY <2>1, LeastOf
  <2> QED
    BY <2>2 DEF FrameEnd, E
<1>6. \A i \in 1 .. Len(data) : data[i] = "prefix" => FrameStart(data) <= i
  BY <1>2, <1>3
<1>7. FrameStart(data) <= Len(data) => data[FrameStart(data)] = "prefix"
  BY <1>1, <1>2, <1>3
<1> HIDE DEF S
<1>8. FrameEnd(data) \in 1 .. Len(data) + 1
  BY <1>1, <1>4, <1>5
<1>9. FrameEnd(data) <= Len(data) => FrameStart(data) < FrameEnd(data) /\ data[FrameEnd(data)] = "bel"
  BY <1>1, <1>4, <1>5
<1>10. \A i \in 1 .. Len(data) : FrameStart(data) < i /\ data[i] = "bel" => FrameEnd(data) <= i
  BY <1>1, <1>4, <1>5
<1> QED
  BY <1>4, <1>6, <1>7, <1>8, <1>9, <1>10

------------------------------------------------------------------------------
(* The turns of the loop                                                    *)

TurnsUpTo(f, s, m) ==
    f = [n \in 0..m |-> IF n = 0 THEN s ELSE FrameRemoved(f[n - 1])]

LEMMA SomeTurns == \A s : \A m \in Nat : \E f : TurnsUpTo(f, s, m)
<1> TAKE s
<1> DEFINE S == {m \in Nat : \E f : TurnsUpTo(f, s, m)}
<1>1. 0 \in S
  <2>1. TurnsUpTo([n \in 0..0 |-> s], s, 0)
    BY DEF TurnsUpTo
  <2> QED
    BY <2>1
<1>2. ASSUME NEW m \in S
      PROVE  m + 1 \in S
  <2>1. PICK f : TurnsUpTo(f, s, m)
    OBVIOUS
  <2> DEFINE g == [n \in 0 .. m + 1 |-> IF n = 0 THEN s ELSE FrameRemoved(f[n - 1])]
  <2>2. \A n \in 0..m : g[n] = f[n]
    BY <2>1 DEF TurnsUpTo
  <2>3. \A n \in 0 .. m + 1 : g[n] = IF n = 0 THEN s ELSE FrameRemoved(g[n - 1])
    BY <2>2
  <2>4. TurnsUpTo(g, s, m + 1)
    BY <2>3 DEF TurnsUpTo
  <2> QED
    BY <2>4
<1> HIDE DEF S
<1>3. S = Nat
  <2>1. S \in SUBSET Nat
    BY DEF S
  <2> QED
    BY <1>1, <1>2, <2>1, NumbersByInduction
<1> QED
  BY <1>3 DEF S

LEMMA TurnsEquation ==
    ASSUME NEW data \in Bytes
    PROVE  /\ Turns(data)[0] = [data |-> data, infos |-> 0]
           /\ \A n \in 1 .. Len(data) : Turns(data)[n] = FrameRemoved(Turns(data)[n - 1])
<1>1. Len(data) \in Nat
  BY LenProperties DEF Bytes
<1> DEFINE s == [data |-> data, infos |-> 0]
<1>2. Turns(data) = CHOOSE f : TurnsUpTo(f, s, Len(data))
  BY DEF Turns, TurnsUpTo
<1>3. TurnsUpTo(Turns(data), s, Len(data))
  <2> HIDE DEF s
  <2>1. \E f : TurnsUpTo(f, s, Len(data))
    BY <1>1, SomeTurns
  <2> QED
    BY <1>2, <2>1
<1>4. Turns(data) = [n \in 0 .. Len(data) |-> IF n = 0 THEN s ELSE FrameRemoved(Turns(data)[n - 1])]
  BY <1>3 DEF TurnsUpTo
<1> HIDE DEF s
<1>5. 0 \in 0 .. Len(data) /\ \A n \in 1 .. Len(data) : n \in 0 .. Len(data) /\ n # 0
  BY <1>1
<1>6. Turns(data)[0] = s
  BY <1>4, <1>5
<1>7. \A n \in 1 .. Len(data) : Turns(data)[n] = FrameRemoved(Turns(data)[n - 1])
  BY <1>4, <1>5
<1> QED
  BY <1>6, <1>7 DEF s

(* What holds of the first turn, and of each when it holds of the turn      *)
(* before, holds of the last.                                               *)
LEMMA TurnsByInduction ==
    ASSUME NEW m \in Nat, NEW S \in SUBSET Nat, 0 \in S,
           \A n \in 1..m : n - 1 \in S => n \in S
    PROVE  \A n \in 0..m : n \in S
<1> DEFINE T == {n \in Nat : n <= m => n \in S}
<1>1. 0 \in T
  OBVIOUS
<1>2. \A n \in T : n + 1 \in T
  <2> SUFFICES ASSUME NEW n \in T, n + 1 <= m
               PROVE  n + 1 \in S
    OBVIOUS
  <2>1. n + 1 \in 1..m /\ (n + 1) - 1 = n /\ n <= m
    OBVIOUS
  <2> QED
    BY <2>1
<1> HIDE DEF T
<1>3. T = Nat
  <2>1. T \in SUBSET Nat
    BY DEF T
  <2> QED
    BY <1>1, <1>2, <2>1, NumbersByInduction
<1> QED
  BY <1>3 DEF T

(* A frame is removed, or there is none.                                    *)
Finished(data) == FrameEnd(data) > Len(data)
Spliced(data) == Before(data) \o SubSeq(data, FrameEnd(data) + 1, Len(data))

LEMMA Removal ==
    ASSUME NEW data \in Bytes
    PROVE  /\ Spliced(data) \in Bytes
           /\ ~ Finished(data) => Len(Spliced(data)) < Len(data)
<1>1. /\ Len(data) \in Nat
      /\ FrameStart(data) \in 1 .. Len(data) + 1
      /\ FrameEnd(data) \in 1 .. Len(data) + 1
      /\ FrameEnd(data) <= Len(data) => FrameStart(data) < FrameEnd(data)
  BY FrameBounds, LenProperties DEF Bytes
<1> DEFINE u == SubSeq(data, 1, FrameStart(data) - 1)
           v == SubSeq(data, FrameEnd(data) + 1, Len(data))
<1>2. u \in Bytes /\ Len(u) = FrameStart(data) - 1
  BY <1>1, SubSeqProperties DEF Bytes
<1>3. v \in Bytes /\ (FrameEnd(data) <= Len(data) => Len(v) = Len(data) - FrameEnd(data))
  BY <1>1, SubSeqProperties DEF Bytes
<1>4. Spliced(data) = u \o v
  BY DEF Spliced, Before
<1> HIDE DEF u, v
<1>5. u \o v \in Bytes /\ Len(u \o v) = Len(u) + Len(v)
  BY <1>2, <1>3, ConcatProperties DEF Bytes
<1> QED
  BY <1>1, <1>2, <1>3, <1>4, <1>5 DEF Finished

LEMMA TurnTypes ==
    ASSUME NEW data \in Bytes
    PROVE  /\ \A n \in 0 .. Len(data) :
                 Turns(data)[n] \in [data : Bytes, infos : Nat]
           /\ Finished(Turns(data)[Len(data)].data)
<1>1. Len(data) \in Nat
  BY LenProperties DEF Bytes
<1> DEFINE Good(n) == /\ Turns(data)[n] \in [data : Bytes, infos : Nat]
                      /\ \/ Finished(Turns(data)[n].data)
                         \/ Len(Turns(data)[n].data) <= Len(data) - n
           S == {n \in Nat : Good(n)}
<1>2. 0 \in S
  <2>1. Turns(data)[0] = [data |-> data, infos |-> 0]
    BY TurnsEquation
  <2>2. Turns(data)[0].data = data /\ Turns(data)[0] \in [data : Bytes, infos : Nat]
    BY <2>1
  <2>3. Len(Turns(data)[0].data) <= Len(data) - 0
    BY <1>1, <2>2
  <2> QED
    BY <2>2, <2>3
<1>3. ASSUME NEW n \in 1 .. Len(data), n - 1 \in S
      PROVE  n \in S
  <2> DEFINE t == Turns(data)[n - 1]
  <2>1. Turns(data)[n] = FrameRemoved(t)
    BY TurnsEquation
  <2>2. t \in [data : Bytes, infos : Nat] /\ (Finished(t.data) \/ Len(t.data) <= Len(data) - (n - 1))
    BY <1>3
  <2> HIDE DEF t
  <2>3. CASE Finished(t.data)
    <3>1. FrameRemoved(t) = t
      BY <2>3 DEF FrameRemoved, Finished
    <3> QED
      BY <1>3, <2>1, <2>2, <2>3, <3>1
  <2>4. CASE ~ Finished(t.data)
    <3>1. PICK k \in Nat : FrameRemoved(t) = [data |-> Spliced(t.data), infos |-> t.infos + k]
      <4>1. FrameRemoved(t) = [data |-> Spliced(t.data),
                               infos |-> t.infos + (IF IsJson(Content(t.data)) THEN 1 ELSE 0)]
        BY <2>4 DEF FrameRemoved, Finished, Spliced
      <4> QED
        BY <4>1
    <3>2. Spliced(t.data) \in Bytes /\ Len(Spliced(t.data)) < Len(t.data) /\ Len(t.data) \in Nat
          /\ Len(Spliced(t.data)) \in Nat
      BY <2>2, <2>4, Removal, LenProperties DEF Bytes
    <3>3. Turns(data)[n] \in [data : Bytes, infos : Nat] /\ Turns(data)[n].data = Spliced(t.data)
      BY <2>1, <2>2, <3>1, <3>2
    <3>4. Len(Spliced(t.data)) <= Len(data) - n
      BY <1>1, <2>2, <2>4, <3>2
    <3> QED
      BY <3>3, <3>4
  <2> QED
    BY <2>3, <2>4
<1> HIDE DEF S
<1>4. \A n \in 0 .. Len(data) : n \in S
  <2>1. S \in SUBSET Nat
    BY DEF S
  <2> QED
    BY <1>1, <1>2, <1>3, <2>1, TurnsByInduction
<1>5. \A n \in 0 .. Len(data) : Good(n)
  BY <1>4 DEF S
<1>6. Finished(Turns(data)[Len(data)].data)
  <2> DEFINE last == Turns(data)[Len(data)].data
  <2>1. last \in Bytes /\ (Finished(last) \/ Len(last) <= Len(data) - Len(data))
    BY <1>1, <1>5
  <2> HIDE DEF last
  <2>2. Len(last) \in Nat
    BY <2>1, LenProperties DEF Bytes
  <2>3. ASSUME Len(last) = 0
        PROVE  Finished(last)
    BY <2>1, <2>3, FrameBounds DEF Finished
  <2> QED
    BY <1>1, <2>1, <2>2, <2>3 DEF last
<1> QED
  BY <1>5, <1>6

(* A turn after which no frame is left is the last.                         *)
LEMMA TurnsEnd ==
    ASSUME NEW data \in Bytes, NEW k \in 0 .. Len(data), Finished(Turns(data)[k].data)
    PROVE  Turns(data)[Len(data)] = Turns(data)[k]
<1>1. Len(data) \in Nat
  BY LenProperties DEF Bytes
<1> DEFINE S == {n \in Nat : n >= k => Turns(data)[n] = Turns(data)[k]}
<1>2. 0 \in S
  BY <1>1
<1>3. ASSUME NEW n \in 1 .. Len(data), n - 1 \in S
      PROVE  n \in S
  <2>1. Turns(data)[n] = FrameRemoved(Turns(data)[n - 1])
    BY TurnsEquation
  <2>2. CASE n - 1 >= k
    <3>1. Turns(data)[n - 1] = Turns(data)[k]
      BY <1>3, <2>2
    <3> QED
      BY <1>1, <1>3, <2>1, <3>1 DEF FrameRemoved, Finished
  <2>3. CASE ~ (n - 1 >= k)
    BY <1>1, <1>3, <2>3
  <2> QED
    BY <2>2, <2>3
<1> HIDE DEF S
<1>4. \A n \in 0 .. Len(data) : n \in S
  <2>1. S \in SUBSET Nat
    BY DEF S
  <2> QED
    BY <1>1, <1>2, <1>3, <2>1, TurnsByInduction
<1>5. Len(data) \in S
  BY <1>1, <1>4
<1> QED
  BY <1>1, <1>5 DEF S

------------------------------------------------------------------------------
(* What the loop makes of the data the threads hand it                      *)

LEMMA ConsumeTypes ==
    ASSUME NEW data \in Bytes
    PROVE  Consume(data) \in [text : Bytes, held : Bytes, infos : Nat]
<1> DEFINE last == Turns(data)[Len(data)]
<1>1. last \in [data : Bytes, infos : Nat]
  BY TurnTypes, LenProperties DEF Bytes
<1>2. Consume(data) = [text |-> Before(last.data), held |-> HeldFrom(last.data), infos |-> last.infos]
  BY DEF Consume
<1> HIDE DEF last
<1>3. Len(last.data) \in Nat /\ FrameStart(last.data) \in 1 .. Len(last.data) + 1
  BY <1>1, FrameBounds, LenProperties DEF Bytes
<1>4. Before(last.data) \in Bytes /\ HeldFrom(last.data) \in Bytes
  BY <1>1, <1>3, SubSeqProperties DEF Before, HeldFrom, Bytes
<1> QED
  BY <1>1, <1>2, <1>4

LEMMA ConsumeAtOnce ==
    ASSUME NEW data \in Bytes, Finished(data)
    PROVE  Consume(data) = [text |-> Before(data), held |-> HeldFrom(data), infos |-> 0]
<1>1. Turns(data)[0] = [data |-> data, infos |-> 0] /\ 0 \in 0 .. Len(data)
  BY TurnsEquation, LenProperties DEF Bytes
<1>2. Turns(data)[Len(data)] = [data |-> data, infos |-> 0]
  BY <1>1, TurnsEnd
<1> QED
  BY <1>2 DEF Consume

LEMMA Cuts ==
    ASSUME NEW data \in Bytes
    PROVE  /\ SubSeq(data, 1, Len(data)) = data
           /\ SubSeq(data, Len(data) + 1, Len(data)) = <<>>
           /\ SubSeq(data, 1, 0) = <<>>
<1>1. Len(data) \in Nat
  BY LenProperties DEF Bytes
<1> QED
  BY <1>1 DEF Bytes

LEMMA ConsumeText ==
    ASSUME NEW data \in Bytes, \A i \in 1 .. Len(data) : data[i] # "prefix"
    PROVE  Consume(data) = [text |-> data, held |-> <<>>, infos |-> 0]
<1>1. Len(data) \in Nat
  BY LenProperties DEF Bytes
<1>2. FrameStart(data) = Len(data) + 1 /\ FrameEnd(data) = Len(data) + 1
  BY <1>1, FrameBounds
<1>3. Before(data) = data /\ HeldFrom(data) = <<>>
  <2>1. FrameStart(data) - 1 = Len(data)
    BY <1>1, <1>2
  <2> QED
    BY <1>2, <2>1, Cuts DEF Before, HeldFrom
<1>4. Finished(data)
  BY <1>1, <1>2 DEF Finished
<1> QED
  BY <1>3, <1>4, ConsumeAtOnce

LEMMA ConsumeBeginning ==
    ASSUME NEW data \in Bytes, Len(data) >= 1, data[1] = "prefix",
           \A i \in 2 .. Len(data) : data[i] # "bel"
    PROVE  Consume(data) = [text |-> <<>>, held |-> data, infos |-> 0]
<1>1. Len(data) \in Nat
  BY LenProperties DEF Bytes
<1>2. FrameStart(data) = 1
  BY <1>1, FrameBounds
<1>3. Finished(data)
  BY <1>1, <1>2, FrameBounds DEF Finished
<1>4. Before(data) = <<>> /\ HeldFrom(data) = data
  <2>1. FrameStart(data) - 1 = 0
    BY <1>2
  <2> QED
    BY <1>2, <2>1, Cuts DEF Before, HeldFrom
<1> QED
  BY <1>3, <1>4, ConsumeAtOnce

LEMMA FrameShape ==
    ASSUME NEW f \in Frames
    PROVE  /\ f \in Bytes /\ Len(f) \in Nat /\ Len(f) > 2
           /\ f[1] = "prefix" /\ f[Len(f)] = "bel"
           /\ \A i \in 2 .. Len(f) - 1 : f[i] = "json"
  BY FrameBytes, GuiAssumption, LenProperties DEF GuiAssumption, Bytes

LEMMA ConsumeFrame ==
    ASSUME NEW f \in Frames
    PROVE  Consume(f) = [text |-> <<>>, held |-> <<>>, infos |-> 1]
<1>1. /\ f \in Bytes /\ Len(f) \in Nat /\ Len(f) > 2
      /\ f[1] = "prefix" /\ f[Len(f)] = "bel"
      /\ \A i \in 2 .. Len(f) - 1 : f[i] = "json"
  BY FrameShape
<1>2. FrameStart(f) = 1
  BY <1>1, FrameBounds
<1>3. FrameEnd(f) = Len(f)
  <2>1. FrameEnd(f) <= Len(f) /\ FrameEnd(f) \in 1 .. Len(f) + 1
    BY <1>1, <1>2, FrameBounds
  <2>2. f[FrameEnd(f)] = "bel" /\ 1 < FrameEnd(f)
    BY <1>1, <1>2, <2>1, FrameBounds
  <2> QED
    BY <1>1, <2>1, <2>2
<1>4. IsJson(Content(f))
  <2> DEFINE c == SubSeq(f, 2, Len(f) - 1)
  <2>1. Content(f) = c
    <3>1. FrameStart(f) + 1 = 2 /\ FrameEnd(f) - 1 = Len(f) - 1
      BY <1>2, <1>3
    <3> QED
      BY <3>1 DEF Content
  <2>2. c \in Bytes /\ Len(c) = Len(f) - 2 /\ \A i \in 1 .. Len(f) - 2 : c[i] = f[i + 1]
    <3>1. \A i \in 2 .. Len(f) - 1 : f[i] \in Symbols
      BY <1>1 DEF Bytes
    <3> QED
      BY <1>1, SubSeqProperties DEF Bytes
  <2> HIDE DEF c
  <2>3. DOMAIN c = 1 .. Len(f) - 2
    BY <2>2, LenProperties DEF Bytes
  <2>4. \A i \in DOMAIN c : c[i] = "json"
    <3>1. \A i \in 1 .. Len(f) - 2 : i + 1 \in 2 .. Len(f) - 1
      BY <1>1
    <3> QED
      BY <1>1, <2>2, <2>3, <3>1
  <2>5. 1 \in DOMAIN c
    BY <1>1, <2>3
  <2>6. ToSet(c) = {"json"}
    BY <2>4, <2>5 DEF ToSet
  <2>7. c # <<>>
    BY <1>1, <2>2
  <2> QED
    BY <2>1, <2>6, <2>7 DEF IsJson
<1>5. Before(f) \o SubSeq(f, FrameEnd(f) + 1, Len(f)) = <<>>
  <2>1. Before(f) = <<>>
    <3>1. FrameStart(f) - 1 = 0
      BY <1>2
    <3> QED
      BY <1>1, <3>1, Cuts DEF Before
  <2>2. SubSeq(f, FrameEnd(f) + 1, Len(f)) = <<>>
    BY <1>1, <1>3, Cuts
  <2> QED
    BY <2>1, <2>2
<1>6. FrameRemoved([data |-> f, infos |-> 0]) = [data |-> <<>>, infos |-> 1]
  <2> DEFINE t == [data |-> f, infos |-> 0]
  <2>1. t.data = f /\ t.infos = 0
    OBVIOUS
  <2> HIDE DEF t
  <2>2. ~ (FrameEnd(t.data) > Len(t.data))
    BY <1>1, <1>3, <2>1
  <2>3. FrameRemoved(t) = [data |-> Before(f) \o SubSeq(f, FrameEnd(f) + 1, Len(f)),
                           infos |-> 0 + (IF IsJson(Content(f)) THEN 1 ELSE 0)]
    BY <2>1, <2>2 DEF FrameRemoved
  <2>4. 0 + (IF IsJson(Content(f)) THEN 1 ELSE 0) = 1
    BY <1>4
  <2>5. FrameRemoved(t) = [data |-> <<>>, infos |-> 1]
    BY <1>5, <2>3, <2>4
  <2> QED
    BY <2>5 DEF t
<1>7. Turns(f)[1] = [data |-> <<>>, infos |-> 1]
  <2>1. 1 \in 1 .. Len(f) /\ 1 - 1 = 0
    BY <1>1
  <2>2. Turns(f)[1] = FrameRemoved(Turns(f)[1 - 1]) /\ Turns(f)[0] = [data |-> f, infos |-> 0]
    BY <1>1, <2>1, TurnsEquation
  <2> QED
    BY <1>6, <2>1, <2>2
<1>8. Finished(<<>>) /\ Before(<<>>) = <<>> /\ HeldFrom(<<>>) = <<>>
  <2>1. <<>> \in Bytes /\ Len(<<>>) = 0
    BY DEF Bytes
  <2>2. FrameStart(<<>>) = 1 /\ FrameEnd(<<>>) = 1
    BY <2>1, FrameBounds
  <2>3. SubSeq(<<>>, 1, 0) = <<>>
    BY <2>1, Cuts
  <2> QED
    BY <2>1, <2>2, <2>3 DEF Finished, Before, HeldFrom
<1>9. Turns(f)[Len(f)] = [data |-> <<>>, infos |-> 1]
  <2>1. 1 \in 0 .. Len(f) /\ Finished(Turns(f)[1].data)
    BY <1>1, <1>7, <1>8
  <2> QED
    BY <1>1, <1>7, <2>1, TurnsEnd
<1> QED
  BY <1>8, <1>9 DEF Consume

------------------------------------------------------------------------------
(* What is held back, if a BEL came                                         *)

LEMMA SuffixBy ==
    ASSUME NEW h \in Bytes, NEW c \in Bytes, Len(h) <= Len(c),
           \A i \in 1 .. Len(h) : h[i] = c[Len(c) - Len(h) + i]
    PROVE  IsSuffix(h, c)
<1>1. Len(h) \in Nat /\ Len(c) \in Nat
  BY LenProperties DEF Bytes
<1> DEFINE rh == Reverse(h)
           rc == Reverse(c)
<1>2. rh = [i \in 1 .. Len(h) |-> h[(Len(h) - i) + 1]] /\ rc = [i \in 1 .. Len(c) |-> c[(Len(c) - i) + 1]]
  BY DEF Reverse
<1>3. rh \in Bytes /\ Len(rh) = Len(h) /\ rc \in Bytes /\ Len(rc) = Len(c)
  <2>1. \A i \in 1 .. Len(h) : (Len(h) - i) + 1 \in 1 .. Len(h)
    BY <1>1
  <2>2. \A i \in 1 .. Len(c) : (Len(c) - i) + 1 \in 1 .. Len(c)
    BY <1>1
  <2>3. rh \in [1 .. Len(h) -> Symbols] /\ rc \in [1 .. Len(c) -> Symbols]
    <3>1. (\A i \in 1 .. Len(h) : h[i] \in Symbols) /\ \A i \in 1 .. Len(c) : c[i] \in Symbols
      BY ElementOfSeq DEF Bytes
    <3> HIDE DEF rh, rc
    <3> QED
      BY <1>2, <2>1, <2>2, <3>1
  <2> HIDE DEF rh, rc
  <2>4. rh \in Bytes /\ rc \in Bytes
    BY <1>1, <2>3, SeqDef DEF Bytes
  <2> QED
    BY <1>1, <2>3, <2>4, LenProperties DEF Bytes
<1> HIDE DEF rh, rc
<1>4. \A i \in 1 .. Len(h) : rh[i] = rc[i]
  <2> TAKE i \in 1 .. Len(h)
  <2>1. rh[i] = h[(Len(h) - i) + 1] /\ i \in 1 .. Len(c) /\ rc[i] = c[(Len(c) - i) + 1]
    BY <1>1, <1>2
  <2>2. (Len(h) - i) + 1 \in 1 .. Len(h)
    BY <1>1
  <2>3. Len(c) - Len(h) + ((Len(h) - i) + 1) = (Len(c) - i) + 1
    BY <1>1
  <2> QED
    BY <2>1, <2>2, <2>3
<1>5. SubSeq(rh, 1, Len(rh)) = SubSeq(rc, 1, Len(rh))
  <2> DEFINE a == SubSeq(rh, 1, Len(rh))
             b == SubSeq(rc, 1, Len(rh))
  <2>1. a \in Bytes /\ Len(a) = Len(h) /\ \A i \in 1 .. Len(h) : a[i] = rh[i]
    BY <1>1, <1>3, Cuts
  <2>2. b \in Bytes /\ Len(b) = Len(h) /\ \A i \in 1 .. Len(h) : b[i] = rc[i]
    BY <1>1, <1>3, SubSeqProperties DEF Bytes
  <2> HIDE DEF a, b
  <2> QED
    BY <1>4, <2>1, <2>2, SeqEqual DEF a, b, Bytes
<1> QED
  BY <1>3, <1>5 DEF IsSuffix, IsPrefix, rh, rc

(* What is left of the chunk at the end of the data; if not all of it, then *)
(* a frame was removed up to there and there is no prefix before.           *)
Remains(d, c, m) ==
    /\ m \in 0 .. Len(c) /\ m <= Len(d)
    /\ \A i \in 1..m : d[Len(d) - m + i] = c[Len(c) - m + i]
    /\ m = Len(c) \/ \A i \in 1 .. Len(d) - m : d[i] # "prefix"

LEMMA SplicedElements ==
    ASSUME NEW d \in Bytes, ~ Finished(d)
    PROVE  LET s == FrameStart(d)
               e == FrameEnd(d)
               r == Spliced(d)
           IN  /\ Len(d) \in Nat /\ s \in 1 .. Len(d) /\ e \in 1 .. Len(d) /\ s < e
               /\ r \in Bytes /\ Len(r) = (s - 1) + (Len(d) - e)
               /\ \A i \in 1 .. s - 1 : r[i] = d[i]
               /\ \A i \in 1 .. Len(d) - e : r[(s - 1) + i] = d[e + i]
<1> DEFINE s == FrameStart(d)
           e == FrameEnd(d)
           u == SubSeq(d, 1, s - 1)
           v == SubSeq(d, e + 1, Len(d))
<1>1. Len(d) \in Nat /\ s \in 1 .. Len(d) /\ e \in 1 .. Len(d) /\ s < e
  BY FrameBounds, LenProperties DEF Bytes, Finished
<1>2. Spliced(d) = u \o v
  BY DEF Spliced, Before
<1>3. \A i \in 1 .. Len(d) : d[i] \in Symbols
  BY ElementOfSeq DEF Bytes
<1> HIDE DEF s, e
<1>4. u \in Bytes /\ Len(u) = s - 1 /\ \A i \in 1 .. s - 1 : u[i] = d[i]
  BY <1>1, <1>3, SubSeqProperties DEF Bytes
<1>5. v \in Bytes /\ Len(v) = Len(d) - e /\ \A i \in 1 .. Len(d) - e : v[i] = d[e + i]
  BY <1>1, <1>3, SubSeqProperties DEF Bytes
<1> HIDE DEF u, v
<1>6. u \o v \in Bytes /\ Len(u \o v) = (s - 1) + (Len(d) - e)
  <2>1. u \o v \in Bytes /\ Len(u \o v) = Len(u) + Len(v)
    BY <1>4, <1>5, ConcatProperties DEF Bytes
  <2> QED
    BY <1>4, <1>5, <2>1
<1>7. \A i \in 1 .. s - 1 : (u \o v)[i] = d[i]
  BY <1>1, <1>4, <1>5, ConcatProperties DEF Bytes
<1>8. \A i \in 1 .. Len(d) - e : (u \o v)[(s - 1) + i] = d[e + i]
  BY <1>1, <1>4, <1>5, ConcatProperties DEF Bytes
<1> QED
  BY <1>1, <1>2, <1>6, <1>7, <1>8 DEF s, e

LEMMA RemainsStep ==
    ASSUME NEW d \in Bytes, NEW c \in Bytes, NEW m, Remains(d, c, m), ~ Finished(d)
    PROVE  \E k : Remains(Spliced(d), c, k)
<1> DEFINE s == FrameStart(d)
           e == FrameEnd(d)
           r == Spliced(d)
<1>1. /\ Len(d) \in Nat /\ s \in 1 .. Len(d) /\ e \in 1 .. Len(d) /\ s < e
      /\ r \in Bytes /\ Len(r) = (s - 1) + (Len(d) - e)
      /\ \A i \in 1 .. s - 1 : r[i] = d[i]
      /\ \A i \in 1 .. Len(d) - e : r[(s - 1) + i] = d[e + i]
  BY SplicedElements
<1>2. d[s] = "prefix" /\ \A i \in 1 .. s - 1 : d[i] # "prefix"
  <2>1. d[s] = "prefix" /\ \A i \in 1 .. Len(d) : d[i] = "prefix" => s <= i
    BY <1>1, FrameBounds
  <2> HIDE DEF s, e, r
  <2> QED
    BY <1>1, <2>1
<1>3. Len(c) \in Nat
  BY LenProperties DEF Bytes
<1> HIDE DEF s, e, r
<1>4. CASE e <= Len(d) - m
  <2>1. m = Len(c)
    BY <1>1, <1>2, <1>4 DEF Remains
  <2>2. \A i \in 1..m : r[Len(r) - m + i] = c[Len(c) - m + i]
    <3> TAKE i \in 1..m
    <3> DEFINE k == Len(d) - e - m + i
    <3>1. k \in 1 .. Len(d) - e /\ Len(r) - m + i = (s - 1) + k /\ e + k = Len(d) - m + i
      BY <1>1, <1>3, <1>4 DEF Remains
    <3>2. r[(s - 1) + k] = d[e + k]
      BY <1>1, <3>1
    <3>3. d[Len(d) - m + i] = c[Len(c) - m + i]
      BY DEF Remains
    <3> QED
      BY <3>1, <3>2, <3>3
  <2>3. m \in 0 .. Len(c) /\ m <= Len(r)
    BY <1>1, <1>3, <1>4 DEF Remains
  <2> QED
    BY <2>1, <2>2, <2>3 DEF Remains, r
<1>5. CASE ~ (e <= Len(d) - m)
  <2> DEFINE k == Len(d) - e
  <2>1. k \in Nat /\ k < m /\ k <= Len(r) /\ k \in 0 .. Len(c)
    BY <1>1, <1>3, <1>5 DEF Remains
  <2>2. \A i \in 1..k : r[Len(r) - k + i] = c[Len(c) - k + i]
    <3> TAKE i \in 1..k
    <3> DEFINE j == (m - k) + i
    <3>1. j \in 1..m /\ Len(d) - m + j = e + i /\ Len(c) - m + j = Len(c) - k + i /\ Len(r) - k + i = (s - 1) + i
      BY <1>1, <1>3, <2>1 DEF Remains
    <3>2. d[Len(d) - m + j] = c[Len(c) - m + j]
      BY <3>1 DEF Remains
    <3>3. r[(s - 1) + i] = d[e + i]
      BY <1>1
    <3> QED
      BY <3>1, <3>2, <3>3
  <2>3. \A i \in 1 .. Len(r) - k : r[i] # "prefix"
    <3>1. Len(r) - k = s - 1
      BY <1>1
    <3> QED
      BY <1>1, <1>2, <3>1
  <2> HIDE DEF k
  <2> QED
    BY <2>1, <2>2, <2>3 DEF Remains, r
<1> QED
  BY <1>4, <1>5

LEMMA RemainsAtEnd ==
    ASSUME NEW d \in Bytes, NEW c \in Bytes, NEW m, Remains(d, c, m), Finished(d),
           NEW b \in 1 .. Len(c), c[b] = "bel"
    PROVE  IsSuffix(HeldFrom(d), c)
<1> DEFINE s == FrameStart(d)
           h == HeldFrom(d)
<1>1. /\ Len(d) \in Nat /\ s \in 1 .. Len(d) + 1
      /\ \A i \in 1 .. Len(d) : s < i => d[i] # "bel"
      /\ s <= Len(d) => d[s] = "prefix"
  BY FrameBounds, LenProperties DEF Bytes, Finished
<1>2. Len(c) \in Nat /\ m \in 0 .. Len(c) /\ m <= Len(d)
  BY LenProperties DEF Bytes, Remains
<1>3. h = SubSeq(d, s, Len(d))
  BY DEF HeldFrom
<1>4. \A i \in 1 .. Len(d) : d[i] \in Symbols
  BY ElementOfSeq DEF Bytes
<1> HIDE DEF s, h
<1>5. h \in Bytes /\ Len(h) = Len(d) - s + 1 /\ \A i \in 1 .. Len(h) : h[i] = d[s + i - 1]
  <2>1. h \in Bytes
    BY <1>1, <1>3, <1>4, SubSeqProperties DEF Bytes
  <2>2. Len(h) = Len(d) - s + 1
    BY <1>1, <1>3, <1>4, SubSeqProperties DEF Bytes
  <2>3. \A i \in 1 .. Len(d) - s + 1 : h[i] = d[s + i - 1]
    BY <1>1, <1>3, <1>4, SubSeqProperties
  <2> QED
    BY <2>1, <2>2, <2>3
<1>6. s > Len(d) - m
  <2>1. CASE m = Len(c)
    <3>1. d[Len(d) - m + b] = "bel" /\ Len(d) - m + b \in 1 .. Len(d)
      <4>1. b \in 1..m /\ Len(c) - m + b = b
        BY <1>2, <2>1
      <4>2. d[Len(d) - m + b] = c[Len(c) - m + b]
        BY <4>1 DEF Remains
      <4> QED
        BY <1>1, <1>2, <2>1, <4>1, <4>2
    <3> QED
      BY <1>1, <1>2, <3>1
  <2>2. CASE m # Len(c)
    <3>1. \A i \in 1 .. Len(d) - m : d[i] # "prefix"
      BY <2>2 DEF Remains
    <3> QED
      BY <1>1, <1>2, <3>1
  <2> QED
    BY <2>1, <2>2
<1>7. Len(h) <= Len(c)
  BY <1>1, <1>2, <1>5, <1>6
<1>8. \A i \in 1 .. Len(h) : h[i] = c[Len(c) - Len(h) + i]
  <2> TAKE i \in 1 .. Len(h)
  <2> DEFINE j == m - Len(h) + i
  <2>1. j \in 1..m /\ Len(d) - m + j = s + i - 1 /\ Len(c) - m + j = Len(c) - Len(h) + i
    BY <1>1, <1>2, <1>5, <1>6
  <2>2. d[Len(d) - m + j] = c[Len(c) - m + j]
    BY <2>1 DEF Remains
  <2> QED
    BY <1>5, <2>1, <2>2
<1>9. IsSuffix(h, c)
  BY <1>5, <1>7, <1>8, SuffixBy
<1> QED
  BY <1>9 DEF h

LEMMA HeldAfterBell ==
    ASSUME NEW meta \in Bytes, NEW c \in Bytes, NEW b \in 1 .. Len(c), c[b] = "bel"
    PROVE  IsSuffix(Consume(meta \o c).held, c)
<1> DEFINE data == meta \o c
           S == {n \in Nat : \E m : Remains(Turns(data)[n].data, c, m)}
<1>1. /\ data \in Bytes /\ Len(data) = Len(meta) + Len(c) /\ Len(meta) \in Nat /\ Len(c) \in Nat
      /\ \A i \in 1 .. Len(c) : data[Len(meta) + i] = c[i]
  BY ConcatProperties, LenProperties DEF Bytes
<1> HIDE DEF data
<1>2. Len(data) \in Nat
  BY <1>1
<1>3. 0 \in S
  <2>1. Turns(data)[0] = [data |-> data, infos |-> 0]
    BY <1>1, TurnsEquation
  <2>2. Turns(data)[0].data = data
    BY <2>1
  <2>3. \A i \in 1 .. Len(c) : data[Len(data) - Len(c) + i] = c[Len(c) - Len(c) + i]
    <3> TAKE i \in 1 .. Len(c)
    <3>1. Len(data) - Len(c) + i = Len(meta) + i /\ Len(c) - Len(c) + i = i
      BY <1>1
    <3> QED
      BY <1>1, <3>1
  <2>4. Remains(data, c, Len(c))
    BY <1>1, <2>3 DEF Remains
  <2> QED
    BY <2>2, <2>4
<1>4. ASSUME NEW n \in 1 .. Len(data), n - 1 \in S
      PROVE  n \in S
  <2> DEFINE t == Turns(data)[n - 1]
  <2>1. Turns(data)[n] = FrameRemoved(t)
    BY <1>1, TurnsEquation
  <2>2. t.data \in Bytes
    BY <1>1, <1>2, TurnTypes
  <2>3. PICK m : Remains(t.data, c, m)
    BY <1>4
  <2> HIDE DEF t
  <2>4. CASE Finished(t.data)
    <3>1. Turns(data)[n].data = t.data
      BY <2>1, <2>4 DEF FrameRemoved, Finished
    <3> QED
      BY <1>4, <2>3, <3>1
  <2>5. CASE ~ Finished(t.data)
    <3>1. Turns(data)[n].data = Spliced(t.data)
      <4>1. FrameRemoved(t) = [data |-> Spliced(t.data),
                               infos |-> t.infos + (IF IsJson(Content(t.data)) THEN 1 ELSE 0)]
        BY <2>5 DEF FrameRemoved, Finished, Spliced
      <4> QED
        BY <2>1, <4>1
    <3>2. \E k : Remains(Spliced(t.data), c, k)
      BY <2>2, <2>3, <2>5, RemainsStep
    <3> QED
      BY <1>4, <3>1, <3>2
  <2> QED
    BY <2>4, <2>5
<1> HIDE DEF S
<1>5. Len(data) \in S
  <2>1. S \in SUBSET Nat
    BY DEF S
  <2>2. \A n \in 0 .. Len(data) : n \in S
    BY <1>2, <1>3, <1>4, <2>1, TurnsByInduction
  <2> QED
    BY <1>2, <2>2
<1> DEFINE last == Turns(data)[Len(data)]
<1>6. last.data \in Bytes /\ Finished(last.data)
  <2>1. last \in [data : Bytes, infos : Nat] /\ Finished(last.data)
    <3>1. Len(data) \in 0 .. Len(data)
      BY <1>2
    <3> QED
      BY <1>1, <3>1, TurnTypes
  <2> HIDE DEF last
  <2> QED
    BY <2>1
<1>7. PICK m : Remains(last.data, c, m)
  BY <1>5 DEF S
<1>8. Consume(data).held = HeldFrom(last.data)
  BY DEF Consume
<1> HIDE DEF last
<1>9. IsSuffix(HeldFrom(last.data), c)
  BY <1>6, <1>7, RemainsAtEnd
<1> QED
  BY <1>8, <1>9 DEF data

------------------------------------------------------------------------------
(* The queue.  A frame of which a chunk was pumped or waits in the queue is *)
(* due to go on with its rest: what is due after each of the events, and    *)
(* when other output comes in its place.                                    *)

IsRemainder(r) ==
    /\ r \in Bytes /\ r # <<>>
    /\ r[Len(r)] = "bel" /\ \A i \in 1 .. Len(r) - 1 : r[i] = "json"

Remainders == {r \in Bytes : r = <<>> \/ IsRemainder(r)}
Whole(e) == e.chunk \o e.rest

WellFormed(e) ==
    /\ e.rest \in Remainders
    /\ IF e.kind = "output"
       THEN \/ e.chunk \in {<<"text">>, <<"text", "bel">>} /\ e.rest = <<>>
            \/ e.chunk # <<>> /\ Whole(e) \in Frames
            \/ e.chunk # <<>> /\ IsRemainder(Whole(e))
       ELSE e.chunk = <<>>

IsDues(d) ==
    /\ d \in [0 .. Len(events) -> Remainders]
    /\ d[0] = pumped.due
    /\ \A i \in 1 .. Len(events) :
          d[i] = IF events[i].kind = "output" THEN events[i].rest ELSE d[i - 1]

Mismatch(d, i) == events[i].kind = "output" /\ d[i - 1] \notin {<<>>, Whole(events[i])}
BrokenBy(d, n) == pumped.broken \/ \E k \in 1..n : Mismatch(d, k)

(* What is due and what the connections still have to receive               *)
HalvesFit(due, h) ==
    /\ due = <<>> => \A n \in Attempts : h[n] = <<>>
    /\ \A m, n \in Attempts : h[m] # <<>> /\ h[n] # <<>> => m = n

Follows(d) ==
    /\ \A i \in 1 .. Len(events) :
          events[i].kind = "output" /\ IsRemainder(Whole(events[i]))
              => BrokenBy(d, i) \/ d[i - 1] = Whole(events[i])
    /\ BrokenBy(d, Len(events)) \/ HalvesFit(d[Len(events)], half)

QueueInv ==
    /\ half \in [Attempts -> Remainders]
    /\ \A i \in DOMAIN events : WellFormed(events[i])
    /\ \E d : IsDues(d) /\ Follows(d)

LEMMA QueueInit == Init => QueueInv
<1> SUFFICES ASSUME Init PROVE QueueInv
  OBVIOUS
<1>1. <<>> \in Remainders
  BY DEF Remainders, Bytes
<1>2. events = <<>> /\ Len(events) = 0 /\ DOMAIN events = {} /\ pumped.due = <<>>
  BY DEF Init
<1>3. half = [n \in Attempts |-> <<>>]
  BY DEF Init
<1> DEFINE d == [i \in 0..0 |-> <<>>]
<1>4. IsDues(d)
  BY <1>1, <1>2 DEF IsDues
<1>5. HalvesFit(d[0], half)
  BY <1>3 DEF HalvesFit
<1>6. Follows(d)
  BY <1>2, <1>5 DEF Follows
<1> QED
  BY <1>1, <1>2, <1>3, <1>4, <1>6 DEF QueueInv

(* The dues when an event is appended                                       *)
LEMMA DuesPut ==
    ASSUME TypeInv, NEW e \in Events, e.rest \in Remainders, Put(e), UNCHANGED pumped,
           NEW d, IsDues(d)
    PROVE \E g : /\ IsDues(g)'
                 /\ \A i \in 0 .. Len(events) : g[i] = d[i]
                 /\ g[Len(events) + 1] = IF e.kind = "output" THEN e.rest ELSE d[Len(events)]
                 /\ \A k \in 1 .. Len(events) : Mismatch(d, k) => Mismatch(g, k)'
                 /\ \A k : k = Len(events) + 1 /\ e.kind = "output" /\ d[Len(events)] \notin {<<>>, Whole(e)}
                             => Mismatch(g, k)'
<1>1. /\ Len(events') = Len(events) + 1 /\ Len(events) \in Nat
      /\ DOMAIN events = 1 .. Len(events) /\ DOMAIN events' = 1 .. Len(events) + 1
      /\ \A i \in DOMAIN events : events'[i] = events[i]
      /\ events'[Len(events) + 1] = e
  BY Appended
<1> DEFINE m == Len(events)
<1>2. PICK g : g = [i \in 0 .. m + 1 |-> IF i <= m THEN d[i] ELSE IF e.kind = "output" THEN e.rest ELSE d[m]]
  OBVIOUS
<1>3. \A i \in 0..m : g[i] = d[i]
  BY <1>1, <1>2
<1>4. g[m + 1] = IF e.kind = "output" THEN e.rest ELSE d[m]
  BY <1>1, <1>2
<1>5. d \in [0..m -> Remainders] /\ d[0] = pumped.due
      /\ \A i \in 1..m : d[i] = IF events[i].kind = "output" THEN events[i].rest ELSE d[i - 1]
  BY DEF IsDues
<1> HIDE DEF m
<1>6. m \in Nat /\ Len(events') = m + 1 /\ (\A i \in 1..m : events'[i] = events[i]) /\ events'[m + 1] = e
  BY <1>1 DEF m
<1>7. g \in [0 .. Len(events') -> Remainders]
  <2>1. \A i \in 0 .. m + 1 : g[i] \in Remainders
    BY <1>3, <1>4, <1>5, <1>6
  <2> QED
    BY <1>2, <1>6, <2>1
<1>8. \A i \in 1 .. Len(events') :
          g[i] = IF events'[i].kind = "output" THEN events'[i].rest ELSE g[i - 1]
  <2> TAKE i \in 1 .. Len(events')
  <2>1. CASE i \in 1..m
    <3>1. i - 1 \in 0..m /\ i \in 0..m
      BY <1>6, <2>1
    <3> QED
      BY <1>3, <1>5, <1>6, <2>1, <3>1
  <2>2. CASE i = m + 1
    <3>1. i - 1 = m /\ m \in 0..m
      BY <1>6, <2>2
    <3> QED
      BY <1>3, <1>4, <1>6, <2>2, <3>1
  <2> QED
    BY <1>6, <2>1, <2>2
<1>9. IsDues(g)'
  <2>1. g[0] = pumped'.due
    BY <1>3, <1>5, <1>6
  <2> QED
    BY <1>7, <1>8, <2>1 DEF IsDues
<1>10. \A k \in 1..m : Mismatch(d, k) => Mismatch(g, k)'
  <2> SUFFICES ASSUME NEW k \in 1..m, Mismatch(d, k)
               PROVE  Mismatch(g, k)'
    OBVIOUS
  <2>1. g[k - 1] = d[k - 1] /\ events'[k] = events[k]
    BY <1>3, <1>6
  <2> QED
    BY <2>1 DEF Mismatch, Whole
<1>11. \A k : k = m + 1 /\ e.kind = "output" /\ d[m] \notin {<<>>, Whole(e)} => Mismatch(g, k)'
  <2> SUFFICES ASSUME NEW k, k = m + 1, e.kind = "output", d[m] \notin {<<>>, Whole(e)}
               PROVE  Mismatch(g, k)'
    OBVIOUS
  <2>1. k - 1 = m /\ g[m] = d[m] /\ events'[k] = e
    BY <1>3, <1>6
  <2> QED
    BY <2>1 DEF Mismatch, Whole
<1> QED
  BY <1>3, <1>4, <1>9, <1>10, <1>11 DEF m

LEMMA QueuePut ==
    ASSUME TypeInv, QueueInv, NEW e \in Events, Put(e), WellFormed(e), UNCHANGED pumped,
           half' \in [Attempts -> Remainders],
           e.kind # "output" => UNCHANGED half,
           e.kind = "output" =>
              \A x \in Remainders :
                  HalvesFit(x, half) /\ x \in {<<>>, Whole(e)}
                      => (IsRemainder(Whole(e)) => x = Whole(e)) /\ HalvesFit(e.rest, half')
    PROVE  QueueInv'
<1>1. /\ Len(events') = Len(events) + 1 /\ Len(events) \in Nat
      /\ DOMAIN events = 1 .. Len(events) /\ DOMAIN events' = 1 .. Len(events) + 1
      /\ \A i \in DOMAIN events : events'[i] = events[i]
      /\ events'[Len(events) + 1] = e
  BY Appended
<1>2. PICK d : IsDues(d) /\ Follows(d)
  BY DEF QueueInv
<1> DEFINE m == Len(events)
<1>3. PICK g : /\ IsDues(g)'
               /\ \A i \in 0..m : g[i] = d[i]
               /\ g[m + 1] = IF e.kind = "output" THEN e.rest ELSE d[m]
               /\ \A k \in 1..m : Mismatch(d, k) => Mismatch(g, k)'
               /\ \A k : k = m + 1 /\ e.kind = "output" /\ d[m] \notin {<<>>, Whole(e)}
                           => Mismatch(g, k)'
  BY <1>2, DuesPut DEF WellFormed
<1>4. d[m] \in Remainders
  BY <1>1, <1>2 DEF IsDues
<1>5. BrokenBy(d, m) \/ HalvesFit(d[m], half)
  BY <1>2 DEF Follows
<1>6. \A i \in 1..m : events[i].kind = "output" /\ IsRemainder(Whole(events[i]))
                          => BrokenBy(d, i) \/ d[i - 1] = Whole(events[i])
  BY <1>2 DEF Follows
<1> HIDE DEF m
<1>7. m \in Nat /\ Len(events') = m + 1 /\ (\A i \in 1..m : events'[i] = events[i]) /\ events'[m + 1] = e
      /\ DOMAIN events' = 1 .. m + 1 /\ DOMAIN events = 1..m
  BY <1>1 DEF m
<1>8. ASSUME NEW i \in 0..m, NEW j, i <= j, BrokenBy(d, i), j \in Nat
      PROVE  BrokenBy(g, j)'
  <2>1. pumped'.broken \/ \E k \in 1..i : Mismatch(g, k)'
    BY <1>3, <1>7, <1>8 DEF BrokenBy
  <2>2. \A k \in 1..i : k \in 1..j
    BY <1>7, <1>8
  <2> QED
    BY <2>1, <2>2 DEF BrokenBy
<1>9. ASSUME NEW k, k = m + 1, e.kind = "output", d[m] \notin {<<>>, Whole(e)}
      PROVE  BrokenBy(g, k)'
  <2>1. Mismatch(g, k)'
    BY <1>3, <1>9
  <2>2. k \in 1..k
    BY <1>7, <1>9
  <2> QED
    BY <2>1, <2>2 DEF BrokenBy
<1>10. ASSUME NEW i \in 1 .. m + 1, events'[i].kind = "output", IsRemainder(Whole(events'[i]))
       PROVE  BrokenBy(g, i)' \/ g[i - 1] = Whole(events'[i])
  <2>1. CASE i \in 1..m
    <3>1. i - 1 \in 0..m /\ i \in 0..m /\ events'[i] = events[i]
      BY <1>7, <2>1
    <3>2. BrokenBy(d, i) \/ d[i - 1] = Whole(events'[i])
      BY <1>6, <1>10, <2>1, <3>1
    <3> QED
      BY <1>3, <1>8, <3>1, <3>2
  <2>2. CASE i = m + 1
    <3>1. i - 1 = m /\ events'[i] = e /\ g[m] = d[m] /\ m \in 0..m /\ m <= i /\ i \in Nat
      BY <1>3, <1>7, <2>2
    <3>2. CASE BrokenBy(d, m)
      BY <1>8, <3>1, <3>2
    <3>3. CASE d[m] \notin {<<>>, Whole(e)}
      BY <1>9, <1>10, <2>2, <3>1, <3>3
    <3>4. CASE ~ BrokenBy(d, m) /\ d[m] \in {<<>>, Whole(e)}
      BY <1>4, <1>5, <1>10, <3>1, <3>4
    <3> QED
      BY <3>2, <3>3, <3>4
  <2> QED
    BY <1>7, <2>1, <2>2
<1>11. ASSUME NEW k, k = m + 1
       PROVE  BrokenBy(g, k)' \/ HalvesFit(g[k], half')
  <2>1. CASE BrokenBy(d, m)
    BY <1>7, <1>8, <1>11, <2>1
  <2>2. CASE ~ BrokenBy(d, m) /\ e.kind # "output"
    BY <1>3, <1>5, <1>11, <2>2
  <2>3. CASE ~ BrokenBy(d, m) /\ e.kind = "output"
    <3>1. CASE d[m] \notin {<<>>, Whole(e)}
      BY <1>9, <1>11, <2>3, <3>1
    <3>2. CASE d[m] \in {<<>>, Whole(e)}
      BY <1>3, <1>4, <1>5, <1>11, <2>3, <3>2
    <3> QED
      BY <3>1, <3>2
  <2> QED
    BY <2>1, <2>2, <2>3
<1>12. Follows(g)'
  <2>1. \A i \in 1 .. Len(events') :
            events'[i].kind = "output" /\ IsRemainder(Whole(events'[i]))
                => BrokenBy(g, i)' \/ g[i - 1] = Whole(events'[i])
    BY <1>7, <1>10
  <2>2. BrokenBy(g, Len(events))' \/ HalvesFit(g[Len(events')], half')
    <3>1. PICK k : k = Len(events')
      OBVIOUS
    <3>2. BrokenBy(g, k)' \/ HalvesFit(g[k], half')
      BY <1>7, <1>11, <3>1
    <3> QED
      BY <3>1, <3>2 DEF BrokenBy
  <2> QED
    BY <2>1, <2>2 DEF Follows, Whole, HalvesFit, BrokenBy, IsRemainder
<1>13. \A i \in DOMAIN events' : WellFormed(events'[i])
  <2> TAKE i \in DOMAIN events'
  <2>1. i \in 1..m \/ i = m + 1
    BY <1>7
  <2>2. \A j \in 1..m : WellFormed(events[j])
    BY <1>7 DEF QueueInv
  <2> QED
    BY <1>7, <2>1, <2>2
<1> QED
  BY <1>3, <1>12, <1>13 DEF QueueInv, WellFormed, Whole, Remainders, IsRemainder

(* The dues when the head is taken                                          *)
LEMMA QueuePump ==
    ASSUME TypeInv, QueueInv, events # <<>>, events' = Tail(events), UNCHANGED half,
           IF Head(events).kind = "output"
           THEN /\ pumped'.due = Head(events).rest
                /\ pumped'.broken = (pumped.broken \/ pumped.due \notin {<<>>, Whole(Head(events))})
           ELSE UNCHANGED pumped
    PROVE  QueueInv'
<1>1. /\ Len(events') = Len(events) - 1 /\ Len(events) \in Nat /\ Len(events) >= 1
      /\ DOMAIN events = 1 .. Len(events) /\ DOMAIN events' = 1 .. Len(events) - 1
      /\ \A i \in DOMAIN events' : i + 1 \in DOMAIN events /\ events'[i] = events[i + 1]
      /\ Head(events) = events[1]
  BY Removed
<1>2. PICK d : IsDues(d) /\ Follows(d)
  BY DEF QueueInv
<1> DEFINE m == Len(events) - 1
<1>3. PICK g : g = [i \in 0..m |-> d[i + 1]]
  OBVIOUS
<1>4. /\ \A i \in 0 .. m + 1 : d[i] \in Remainders
      /\ d[0] = pumped.due
      /\ \A i \in 1 .. m + 1 : d[i] = IF events[i].kind = "output" THEN events[i].rest ELSE d[i - 1]
  BY <1>1, <1>2 DEF IsDues
<1>5. BrokenBy(d, m + 1) \/ HalvesFit(d[m + 1], half)
  BY <1>1, <1>2 DEF Follows
<1>6. \A i \in 1 .. m + 1 : events[i].kind = "output" /\ IsRemainder(Whole(events[i]))
                              => BrokenBy(d, i) \/ d[i - 1] = Whole(events[i])
  BY <1>1, <1>2 DEF Follows
<1>7. /\ m \in Nat /\ Len(events') = m /\ DOMAIN events' = 1..m /\ DOMAIN events = 1 .. m + 1
      /\ \A i \in 1..m : events'[i] = events[i + 1]
  BY <1>1
<1> HIDE DEF m
<1>8. \A i \in 0..m : g[i] = d[i + 1] /\ i + 1 \in 1 .. m + 1
  BY <1>3, <1>7
<1>9. IsDues(g)'
  <2>1. \A i \in 0..m : g[i] \in Remainders
    BY <1>4, <1>7, <1>8
  <2>2. g \in [0 .. Len(events') -> Remainders]
    BY <1>3, <1>7, <2>1
  <2>3. g[0] = pumped'.due
    <3>1. g[0] = d[1] /\ d[1] = (IF events[1].kind = "output" THEN events[1].rest ELSE d[0])
      <4>1. 0 \in 0..m /\ 0 + 1 = 1 /\ 1 \in 1 .. m + 1 /\ 1 - 1 = 0
        BY <1>7
      <4>2. g[0] = d[0 + 1] /\ d[1] = (IF events[1].kind = "output" THEN events[1].rest ELSE d[1 - 1])
        BY <1>4, <1>8, <4>1
      <4> QED
        BY <4>1, <4>2
    <3> QED
      BY <1>1, <1>4, <3>1
  <2>4. \A i \in 1..m : g[i] = IF events'[i].kind = "output" THEN events'[i].rest ELSE g[i - 1]
    <3> TAKE i \in 1..m
    <3>1. i \in 0..m /\ i - 1 \in 0..m /\ (i - 1) + 1 = i /\ (i + 1) - 1 = i /\ i + 1 \in 1 .. m + 1
      BY <1>7
    <3>2. g[i] = d[i + 1] /\ g[i - 1] = d[i]
      BY <1>8, <3>1
    <3>3. d[i + 1] = IF events[i + 1].kind = "output" THEN events[i + 1].rest ELSE d[i]
      BY <1>4, <3>1
    <3> QED
      BY <1>7, <3>2, <3>3
  <2> QED
    BY <1>7, <2>2, <2>3, <2>4 DEF IsDues
<1>10. ASSUME NEW k \in 1..m, Mismatch(d, k + 1)
       PROVE  Mismatch(g, k)'
  <2>1. k - 1 \in 0..m /\ (k - 1) + 1 = k /\ (k + 1) - 1 = k
    BY <1>7
  <2>2. g[k - 1] = d[(k + 1) - 1] /\ events'[k] = events[k + 1]
    BY <1>7, <1>8, <2>1
  <2> QED
    BY <1>10, <2>2 DEF Mismatch, Whole
<1>11. ASSUME NEW n \in 0..m, BrokenBy(d, n + 1)
       PROVE  BrokenBy(g, n)'
  <2>1. CASE pumped.broken
    <3>1. pumped'.broken
      BY <2>1
    <3> QED
      BY <3>1 DEF BrokenBy
  <2>2. CASE Mismatch(d, 1)
    <3>1. 1 - 1 = 0
      OBVIOUS
    <3>2. events[1].kind = "output" /\ pumped.due \notin {<<>>, Whole(events[1])}
      BY <1>4, <2>2, <3>1 DEF Mismatch
    <3>3. pumped'.broken
      BY <1>1, <3>2
    <3> QED
      BY <3>3 DEF BrokenBy
  <2>3. ASSUME NEW k \in 1 .. n + 1, Mismatch(d, k), k # 1
        PROVE  BrokenBy(g, n)'
    <3>1. k - 1 \in 1..m /\ k - 1 \in 1..n /\ (k - 1) + 1 = k
      BY <1>7, <2>3
    <3>2. PICK j : j = k - 1
      OBVIOUS
    <3>3. Mismatch(g, j)'
      BY <1>10, <2>3, <3>1, <3>2
    <3> QED
      BY <3>1, <3>2, <3>3 DEF BrokenBy
  <2> QED
    BY <1>11, <2>1, <2>2, <2>3 DEF BrokenBy
<1>12. \A i \in 1..m :
           events'[i].kind = "output" /\ IsRemainder(Whole(events'[i]))
               => BrokenBy(g, i)' \/ g[i - 1] = Whole(events'[i])
  <2> SUFFICES ASSUME NEW i \in 1..m, events'[i].kind = "output", IsRemainder(Whole(events'[i]))
               PROVE  BrokenBy(g, i)' \/ g[i - 1] = Whole(events'[i])
    OBVIOUS
  <2>1. i \in 0..m /\ i - 1 \in 0..m /\ (i - 1) + 1 = i /\ (i + 1) - 1 = i /\ i + 1 \in 1 .. m + 1
    BY <1>7
  <2>2. events'[i] = events[i + 1] /\ g[i - 1] = d[(i + 1) - 1]
    BY <1>7, <1>8, <2>1
  <2>3. BrokenBy(d, i + 1) \/ d[(i + 1) - 1] = Whole(events[i + 1])
    BY <1>6, <2>1, <2>2
  <2> QED
    BY <1>11, <2>1, <2>2, <2>3
<1>13. ASSUME NEW k, k = m
       PROVE  BrokenBy(g, k)' \/ HalvesFit(g[k], half')
  <2>1. k \in 0..m /\ g[k] = d[m + 1]
    BY <1>7, <1>8, <1>13
  <2> QED
    BY <1>5, <1>11, <1>13, <2>1
<1>14. Follows(g)'
  <2>1. PICK k : k = Len(events')
    OBVIOUS
  <2>2. BrokenBy(g, k)' \/ HalvesFit(g[k], half')
    BY <1>7, <1>13, <2>1
  <2>3. BrokenBy(g, Len(events))' \/ HalvesFit(g[Len(events')], half')
    BY <2>1, <2>2 DEF BrokenBy
  <2> QED
    BY <1>7, <1>12, <2>3 DEF Follows, Whole, HalvesFit, BrokenBy, IsRemainder
<1>15. \A i \in DOMAIN events' : WellFormed(events'[i])
  <2> TAKE i \in DOMAIN events'
  <2>1. i + 1 \in DOMAIN events /\ events'[i] = events[i + 1]
    BY <1>1
  <2> QED
    BY <2>1 DEF QueueInv
<1> QED
  BY <1>9, <1>14, <1>15 DEF QueueInv, WellFormed, Whole, Remainders, IsRemainder

------------------------------------------------------------------------------
(* The steps of the queue                                                   *)

LEMMA Distinct ==
    /\ \A f \in Frames : ~ IsRemainder(f)
    /\ \A f \in Frames : f \notin Remainders
    /\ \A c \in {<<"text">>, <<"text", "bel">>} : c \in Bytes /\ c # <<>> /\ c \notin Remainders /\ ~ IsRemainder(c)
<1>1. ASSUME NEW f \in Frames
      PROVE  ~ IsRemainder(f) /\ f # <<>>
  <2>1. Len(f) \in Nat /\ Len(f) > 2 /\ f[1] = "prefix" /\ f # <<>>
    BY FrameShape, FrameBytes
  <2>2. 1 \in 1 .. Len(f) - 1
    BY <2>1
  <2> QED
    BY <2>1, <2>2 DEF IsRemainder
<1>2. ASSUME NEW c \in {<<"text">>, <<"text", "bel">>}
      PROVE  c \in Bytes /\ c # <<>> /\ ~ IsRemainder(c)
  <2>1. CASE c = <<"text">>
    <3>1. Len(c) = 1 /\ c[1] = "text" /\ c \in Bytes
      BY <2>1 DEF Bytes, Symbols
    <3> QED
      BY <3>1 DEF IsRemainder
  <2>2. CASE c = <<"text", "bel">>
    <3>1. Len(c) = 2 /\ c[1] = "text" /\ c \in Bytes
      BY <2>2 DEF Bytes, Symbols
    <3>2. 1 \in 1 .. Len(c) - 1
      BY <3>1
    <3> QED
      BY <3>1, <3>2 DEF IsRemainder
  <2> QED
    BY <2>1, <2>2
<1> QED
  BY <1>1, <1>2 DEF Remainders

(* A frame, and what is left of one, is cut into a chunk and a remainder.   *)
LEMMA CutWhole ==
    ASSUME NEW data \in Bytes, data # <<>>
    PROVE  /\ FirstChunk(data) \in Bytes /\ FirstChunk(data) # <<>>
           /\ FirstChunk(data) \o OtherChunks(data) = data
<1>1. PICK k \in 1..Len(data) :
              /\ FirstChunk(data) = SubSeq(data, 1, k)
              /\ OtherChunks(data) = SubSeq(data, k + 1, Len(data))
  BY Parts
<1>2. Len(data) \in Nat
  BY LenProperties DEF Bytes
<1>3. \A i \in 1 .. Len(data) : data[i] \in Symbols
  BY ElementOfSeq DEF Bytes
<1> DEFINE u == SubSeq(data, 1, k)
           v == SubSeq(data, k + 1, Len(data))
<1>4. u \in Bytes /\ Len(u) = k /\ \A i \in 1..k : u[i] = data[i]
  BY <1>2, <1>3, SubSeqProperties DEF Bytes
<1>5. v \in Bytes /\ Len(v) = Len(data) - k /\ \A i \in 1 .. Len(data) - k : v[i] = data[k + i]
  BY <1>2, <1>3, SubSeqProperties DEF Bytes
<1> HIDE DEF u, v
<1>6. u \o v \in Bytes /\ Len(u \o v) = Len(u) + Len(v)
      /\ (\A i \in 1 .. Len(u) : (u \o v)[i] = u[i])
      /\ \A i \in 1 .. Len(v) : (u \o v)[Len(u) + i] = v[i]
  <2>1. u \o v \in Bytes /\ Len(u \o v) = Len(u) + Len(v)
        /\ \A i \in 1 .. Len(u) + Len(v) : (u \o v)[i] = IF i <= Len(u) THEN u[i] ELSE v[i - Len(u)]
    BY <1>4, <1>5, ConcatProperties DEF Bytes
  <2>2. Len(u) \in Nat /\ Len(v) \in Nat
    BY <1>2, <1>4, <1>5
  <2>3. \A i \in 1 .. Len(u) : i \in 1 .. Len(u) + Len(v) /\ i <= Len(u)
    BY <2>2
  <2>4. \A i \in 1 .. Len(v) : Len(u) + i \in 1 .. Len(u) + Len(v) /\ ~ (Len(u) + i <= Len(u))
                               /\ (Len(u) + i) - Len(u) = i
    BY <2>2
  <2>5. ASSUME NEW i \in 1 .. Len(v)
        PROVE  (u \o v)[Len(u) + i] = v[i]
    <3>1. (u \o v)[Len(u) + i] = v[(Len(u) + i) - Len(u)]
      BY <2>1, <2>4
    <3> QED
      BY <2>4, <3>1
  <2> QED
    BY <2>1, <2>3, <2>5
<1>7. Len(u \o v) = Len(data) /\ \A i \in 1 .. Len(data) : (u \o v)[i] = data[i]
  <2>1. Len(u \o v) = Len(data)
    BY <1>2, <1>4, <1>5, <1>6
  <2>2. ASSUME NEW i \in 1 .. Len(data)
        PROVE  (u \o v)[i] = data[i]
    <3>1. CASE i <= k
      BY <1>2, <1>4, <1>6, <3>1
    <3>2. CASE ~ (i <= k)
      <4>1. i - k \in 1 .. Len(v) /\ k + (i - k) = i
        BY <1>2, <1>5, <3>2
      <4>2. (u \o v)[k + (i - k)] = v[i - k] /\ v[i - k] = data[k + (i - k)]
        BY <1>4, <1>5, <1>6, <4>1
      <4> QED
        BY <4>1, <4>2
    <3> QED
      BY <3>1, <3>2
  <2> QED
    BY <2>1, <2>2
<1>8. u \o v = data
  BY <1>6, <1>7, SeqEqual DEF Bytes
<1>9. u # <<>>
  BY <1>4
<1> QED
  BY <1>1, <1>4, <1>8, <1>9 DEF u, v

LEMMA CutRemainder ==
    ASSUME NEW data, data \in Frames \/ (data \in Remainders /\ data # <<>>)
    PROVE  data \in Bytes /\ data # <<>> /\ OtherChunks(data) \in Remainders
<1>1. data \in Bytes /\ data # <<>>
  BY FrameBytes DEF Remainders
<1>2. /\ Len(data) \in Nat /\ data[Len(data)] = "bel"
      /\ \A i \in 2 .. Len(data) - 1 : data[i] = "json"
  <2>1. CASE data \in Frames
    BY <2>1, FrameShape
  <2>2. CASE data \in Remainders /\ data # <<>>
    BY <2>2, LenProperties DEF Remainders, IsRemainder, Bytes
  <2> QED
    BY <2>1, <2>2
<1>3. PICK k \in 1..Len(data) : OtherChunks(data) = SubSeq(data, k + 1, Len(data))
  BY <1>1, Parts
<1> DEFINE v == SubSeq(data, k + 1, Len(data))
<1>4. \A i \in 1 .. Len(data) : data[i] \in Symbols
  BY <1>1, ElementOfSeq DEF Bytes
<1>5. v \in Bytes /\ Len(v) = Len(data) - k /\ \A i \in 1 .. Len(data) - k : v[i] = data[k + i]
  BY <1>2, <1>4, SubSeqProperties DEF Bytes
<1> HIDE DEF v
<1>6. v # <<>> => v[Len(v)] = "bel" /\ \A i \in 1 .. Len(v) - 1 : v[i] = "json"
  <2> SUFFICES ASSUME v # <<>>
               PROVE  v[Len(v)] = "bel" /\ \A i \in 1 .. Len(v) - 1 : v[i] = "json"
    OBVIOUS
  <2>1. Len(v) >= 1
    BY <1>2, <1>5, EmptySeq DEF Bytes
  <2>2. v[Len(v)] = "bel"
    <3>1. Len(v) \in 1 .. Len(data) - k /\ k + Len(v) = Len(data)
      BY <1>2, <1>5, <2>1
    <3> QED
      BY <1>2, <1>5, <3>1
  <2>3. ASSUME NEW i \in 1 .. Len(v) - 1
        PROVE  v[i] = "json"
    <3>1. i \in 1 .. Len(data) - k /\ k + i \in 2 .. Len(data) - 1
      BY <1>2, <1>5
    <3> QED
      BY <1>2, <1>5, <3>1
  <2> QED
    BY <2>2, <2>3
<1>7. v \in Remainders
  BY <1>5, <1>6 DEF Remainders, IsRemainder
<1> QED
  BY <1>1, <1>3, <1>7 DEF v

LEMMA QueueStep == TypeInv /\ QueueInv /\ [Next]_vars => QueueInv'
<1> SUFFICES ASSUME TypeInv, QueueInv, [Next]_vars PROVE QueueInv'
  OBVIOUS
<1> USE DEF linkVars, queueVars, filterVars, sizeVars
<1>1. ASSUME UNCHANGED <<events, half, pumped>>
      PROVE  QueueInv'
  BY <1>1 DEF QueueInv, IsDues, Follows, BrokenBy, Mismatch
<1>2. <<>> \in Remainders /\ <<>> \in Bytes
  BY DEF Remainders, Bytes
<1>3. ASSUME NEW s \in Statuses, NEW n \in 0..MaxAttempts, Put(Status(s, n)), UNCHANGED <<half, pumped>>
      PROVE  QueueInv'
  <2>1. Status(s, n) \in Events /\ Status(s, n).kind # "output" /\ WellFormed(Status(s, n))
    BY <1>2, EventTypes DEF Status, WellFormed, Statuses
  <2>2. half' \in [Attempts -> Remainders]
    BY <1>3 DEF QueueInv
  <2> QED
    BY <1>3, <2>1, <2>2, QueuePut
<1>4. ASSUME NEW byName \in BOOLEAN, NEW answered \in BOOLEAN, NEW id \in Ids, Connect(byName, id, answered)
      PROVE  QueueInv'
  <2>1. (Put(Status("connected", attempts')) \/ Put(Status("closed", 0))) /\ UNCHANGED <<half, pumped>>
        /\ attempts' \in 0..MaxAttempts /\ 0 \in 0..MaxAttempts
    BY <1>4, GuiAssumption DEF Connect, TypeInv, GuiAssumption
  <2> QED
    BY <1>3, <2>1 DEF Statuses
<1>5. CASE Disconnect
  BY <1>3, <1>5, GuiAssumption DEF Disconnect, Statuses, GuiAssumption
<1>6. ASSUME NEW n \in Attempts, ReceiveText(n)
      PROVE  QueueInv'
  <2>1. PICK c \in {<<"text">>, <<"text", "bel">>} : Put(Output(c, <<>>))
    BY <1>6 DEF ReceiveText, Receive
  <2>2. UNCHANGED <<half, pumped>>
    BY <1>6 DEF ReceiveText, Receive
  <2> DEFINE e == Output(c, <<>>)
  <2>3. e.kind = "output" /\ e.chunk = c /\ e.rest = <<>>
    BY DEF Output
  <2>4. c \in Bytes /\ c \notin Remainders /\ ~ IsRemainder(c)
    BY Distinct
  <2>5. e \in Events
    BY <1>2, <2>4, EventTypes
  <2> HIDE DEF e
  <2>6. Whole(e) = c
    BY <2>3, <2>4, ConcatEmptySeq DEF Whole, Bytes
  <2>7. WellFormed(e)
    BY <1>2, <2>3 DEF WellFormed
  <2>8. half' \in [Attempts -> Remainders]
    BY <2>2 DEF QueueInv
  <2>9. \A x \in Remainders :
            HalvesFit(x, half) /\ x \in {<<>>, Whole(e)}
                => (IsRemainder(Whole(e)) => x = Whole(e)) /\ HalvesFit(e.rest, half')
    BY <2>2, <2>3, <2>4, <2>6
  <2> QED
    BY <2>1, <2>2, <2>3, <2>5, <2>7, <2>8, <2>9, QueuePut DEF e
<1>7. ASSUME NEW n \in Attempts, NEW data, ReceivePart(n, data),
             \/ data \in Frames /\ half[n] = <<>>
             \/ data \in Remainders /\ data # <<>> /\ data = half[n]
      PROVE  QueueInv'
  <2> DEFINE e == Output(FirstChunk(data), OtherChunks(data))
  <2>1. Put(e) /\ UNCHANGED pumped /\ half' = [half EXCEPT ![n] = OtherChunks(data)]
    BY <1>7 DEF ReceivePart, Receive
  <2>2. data \in Bytes /\ data # <<>> /\ OtherChunks(data) \in Remainders
    BY <1>7, CutRemainder
  <2>3. FirstChunk(data) \in Bytes /\ FirstChunk(data) # <<>> /\ FirstChunk(data) \o OtherChunks(data) = data
    BY <2>2, CutWhole
  <2>4. e.kind = "output" /\ e.chunk = FirstChunk(data) /\ e.rest = OtherChunks(data)
    BY DEF Output
  <2>5. e \in Events
    BY <2>2, <2>3, EventTypes DEF Remainders
  <2> HIDE DEF e
  <2>6. Whole(e) = data
    BY <2>3, <2>4 DEF Whole
  <2>7. WellFormed(e)
    BY <1>7, <2>2, <2>3, <2>4, <2>6 DEF WellFormed, Remainders
  <2>8. half \in [Attempts -> Remainders]
    BY DEF QueueInv
  <2>9. half' \in [Attempts -> Remainders]
    BY <2>1, <2>2, <2>8
  <2>10. half'[n] = OtherChunks(data) /\ \A m \in Attempts : m # n => half'[m] = half[m]
    BY <2>1, <2>8
  <2>11. ASSUME NEW x \in Remainders, HalvesFit(x, half), x \in {<<>>, data}
         PROVE  (IsRemainder(data) => x = data) /\ HalvesFit(OtherChunks(data), half')
    <3>1. ASSUME \A m \in Attempts : m # n => half[m] = <<>>
          PROVE  HalvesFit(OtherChunks(data), half')
      BY <2>10, <3>1 DEF HalvesFit
    <3>2. CASE data \in Frames /\ half[n] = <<>>
      <4>1. x = <<>> /\ ~ IsRemainder(data)
        BY <2>11, <3>2, Distinct
      <4>2. \A m \in Attempts : half[m] = <<>>
        BY <2>11, <4>1 DEF HalvesFit
      <4> QED
        BY <3>1, <4>1, <4>2
    <3>3. CASE data \in Remainders /\ data # <<>> /\ data = half[n]
      <4>1. x = data
        BY <2>11, <3>3 DEF HalvesFit
      <4>2. \A m \in Attempts : m # n => half[m] = <<>>
        BY <2>11, <3>3 DEF HalvesFit
      <4> QED
        BY <3>1, <4>1, <4>2
    <3> QED
      BY <1>7, <3>2, <3>3
  <2>12. \A x \in Remainders :
             HalvesFit(x, half) /\ x \in {<<>>, Whole(e)}
                 => (IsRemainder(Whole(e)) => x = Whole(e)) /\ HalvesFit(e.rest, half')
    BY <2>4, <2>6, <2>11
  <2> QED
    BY <2>1, <2>4, <2>5, <2>7, <2>9, <2>12, QueuePut
<1>8. ASSUME NEW n \in Attempts, ReceiveFrame(n) \/ ReceiveRest(n)
      PROVE  QueueInv'
  <2>1. half[n] \in Remainders
    BY DEF QueueInv
  <2> QED
    BY <1>7, <1>8, <2>1 DEF ReceiveFrame, ReceiveRest
<1>9. ASSUME NEW n \in Attempts, LoseChunk(n)
      PROVE  QueueInv'
  <2>1. UNCHANGED <<events, pumped>> /\ half' = [half EXCEPT ![n] = OtherChunks(half[n])] /\ half[n] # <<>>
    BY <1>9 DEF LoseChunk
  <2>2. half \in [Attempts -> Remainders]
    BY DEF QueueInv
  <2>3. OtherChunks(half[n]) \in Remainders
    BY <2>1, <2>2, CutRemainder
  <2>4. half' \in [Attempts -> Remainders] /\ \A m \in Attempts : m # n => half'[m] = half[m]
    BY <2>1, <2>2, <2>3
  <2>5. \A x : HalvesFit(x, half) => HalvesFit(x, half')
    BY <2>1, <2>4 DEF HalvesFit
  <2>6. PICK d : IsDues(d) /\ Follows(d)
    BY DEF QueueInv
  <2>7. IsDues(d)' /\ Follows(d)'
    BY <2>1, <2>5, <2>6 DEF IsDues, Follows, BrokenBy, Mismatch
  <2> QED
    BY <2>1, <2>4, <2>7 DEF QueueInv
<1>10. ASSUME NEW n \in Attempts, ReceiveEnds(n)
       PROVE  QueueInv'
  BY <1>1, <1>10 DEF ReceiveEnds
<1>11. CASE \E s \in {"failed", "reconnected"} : Report(s)
  BY <1>3, <1>11, GuiAssumption DEF Report, Statuses, GuiAssumption
<1>12. CASE PumpOutput
  <2>1. Note(Head(events).chunk, Head(events).rest) /\ Head(events).kind = "output" /\ events # <<>>
        /\ events' = Tail(events) /\ UNCHANGED half
    BY <1>12 DEF PumpOutput
  <2>2. pumped'.due = Head(events).rest
        /\ pumped'.broken = (pumped.broken \/ pumped.due \notin {<<>>, Whole(Head(events))})
    BY <2>1 DEF Note, Whole
  <2> QED
    BY <2>1, <2>2, QueuePump
<1>13. CASE PumpStatus
  <2>1. Head(events).kind # "output" /\ events # <<>> /\ events' = Tail(events) /\ UNCHANGED <<half, pumped>>
    BY <1>13 DEF PumpStatus
  <2> QED
    BY <2>1, QueuePump
<1>14. CASE PumpEnds \/ SyncSize \/ (\E size \in Sizes : ScheduleResize(size)) \/ UNCHANGED vars
  BY <1>1, <1>14 DEF PumpEnds, SyncSize, ScheduleResize, vars
<1> QED
  BY <1>4, <1>5, <1>6, <1>8, <1>9, <1>10, <1>11, <1>12, <1>13, <1>14 DEF Next

------------------------------------------------------------------------------
(* The buffer.  As long as nothing came between: it holds the beginning of  *)
(* the frame that is due to go on, and nothing otherwise.                   *)

BufferInv ==
    /\ shown \in Bytes /\ metaBuffer \in Bytes /\ infos \in Nat
    /\ ~ pumped.broken =>
          /\ shown = pumped.texts /\ infos = pumped.frames
          /\ IF pumped.due = <<>> THEN metaBuffer = <<>>
             ELSE metaBuffer # <<>> /\ metaBuffer \o pumped.due \in Frames

LEMMA BufferInit == Init => BufferInv
<1> SUFFICES ASSUME Init PROVE BufferInv
  OBVIOUS
<1>1. /\ shown = <<>> /\ metaBuffer = <<>> /\ infos = 0
      /\ pumped.texts = <<>> /\ pumped.frames = 0 /\ pumped.due = <<>>
  BY DEF Init
<1>2. <<>> \in Bytes
  BY DEF Bytes
<1> QED
  BY <1>1, <1>2 DEF BufferInv

LEMMA Together ==
    ASSUME NEW u \in Bytes, NEW v \in Bytes
    PROVE  /\ u \o v \in Bytes /\ Len(u) \in Nat /\ Len(v) \in Nat
           /\ Len(u \o v) = Len(u) + Len(v)
           /\ u # <<>> => Len(u) >= 1
           /\ \A i \in 1 .. Len(u) : (u \o v)[i] = u[i]
<1>1. u \o v \in Bytes /\ Len(u \o v) = Len(u) + Len(v)
      /\ \A i \in 1 .. Len(u) + Len(v) : (u \o v)[i] = IF i <= Len(u) THEN u[i] ELSE v[i - Len(u)]
  BY ConcatProperties DEF Bytes
<1>2. Len(u) \in Nat /\ Len(v) \in Nat
  BY LenProperties DEF Bytes
<1>3. u # <<>> => Len(u) >= 1
  BY <1>2, EmptySeq DEF Bytes
<1>4. \A i \in 1 .. Len(u) : i \in 1 .. Len(u) + Len(v) /\ i <= Len(u)
  BY <1>2
<1> QED
  BY <1>1, <1>2, <1>3, <1>4

LEMMA Grouping ==
    \A u, v, w \in Bytes : (u \o v) \o w = u \o (v \o w)
  BY ConcatAssociative DEF Bytes

(* The beginning of a frame is held back, all of it.                        *)
LEMMA BeginningIsHeld ==
    ASSUME NEW data \in Bytes, NEW rest \in Bytes, data # <<>>, rest # <<>>, data \o rest \in Frames
    PROVE  Consume(data) = [text |-> <<>>, held |-> data, infos |-> 0]
<1> DEFINE f == data \o rest
<1>1. /\ Len(f) \in Nat /\ Len(f) > 2
      /\ f[1] = "prefix" /\ f[Len(f)] = "bel"
      /\ \A i \in 2 .. Len(f) - 1 : f[i] = "json"
  BY FrameShape
<1>2. /\ Len(data) \in Nat /\ Len(data) >= 1 /\ Len(rest) \in Nat /\ Len(rest) >= 1
      /\ Len(f) = Len(data) + Len(rest) /\ \A i \in 1 .. Len(data) : f[i] = data[i]
  BY Together
<1> HIDE DEF f
<1>3. data[1] = "prefix"
  BY <1>1, <1>2
<1>4. ASSUME NEW i \in 2 .. Len(data)
      PROVE  data[i] = "json"
  <2>1. i \in 2 .. Len(f) - 1 /\ i \in 1 .. Len(data)
    BY <1>2
  <2> QED
    BY <1>1, <1>2, <2>1
<1> QED
  BY <1>2, <1>3, <1>4, ConsumeBeginning

(* A chunk of a frame does not look like output of a shell, and it is not a *)
(* frame itself if there is more to come.                                   *)
LEMMA ChunkOfFrame ==
    ASSUME NEW c \in Bytes, NEW rest \in Bytes, c # <<>>, c \o rest \in Frames \/ IsRemainder(c \o rest)
    PROVE  Head(c) # "text" /\ (rest # <<>> => c \notin Frames /\ c # c \o rest)
<1> DEFINE w == c \o rest
<1>1. /\ Len(c) \in Nat /\ Len(c) >= 1 /\ Len(rest) \in Nat /\ (rest # <<>> => Len(rest) >= 1)
      /\ w \in Bytes /\ Len(w) = Len(c) + Len(rest) /\ \A i \in 1 .. Len(c) : w[i] = c[i]
  BY Together
<1>6. w \in Frames \/ IsRemainder(w)
  OBVIOUS
<1> HIDE DEF w
<1>2. w[Len(w)] = "bel" /\ (w[1] \in {"prefix", "json", "bel"})
      /\ \A i \in 2 .. Len(w) - 1 : w[i] = "json"
  <2>1. CASE w \in Frames
    BY <2>1, FrameShape
  <2>2. CASE IsRemainder(w)
    <3>1. w[Len(w)] = "bel" /\ \A i \in 1 .. Len(w) - 1 : w[i] = "json"
      BY <2>2 DEF IsRemainder
    <3>2. Len(w) \in Nat /\ Len(w) >= 1
      BY <1>1
    <3>3. w[1] \in {"json", "bel"}
      <4>1. CASE Len(w) = 1
        BY <3>1, <4>1
      <4>2. CASE Len(w) # 1
        <5>1. \A n \in Nat : n >= 1 /\ n # 1 => 1 \in 1 .. n - 1
          OBVIOUS
        <5>2. 1 \in 1 .. Len(w) - 1
          BY <3>2, <4>2, <5>1, Zenon
        <5> QED
          BY <3>1, <5>2
      <4> QED
        BY <4>1, <4>2
    <3>4. \A i \in 2 .. Len(w) - 1 : i \in 1 .. Len(w) - 1
      BY <3>2
    <3> QED
      BY <3>1, <3>3, <3>4
  <2> QED
    BY <1>6, <2>1, <2>2
<1>3. Head(c) # "text"
  <2>1. Head(c) = c[1]
    BY HeadTailProperties DEF Bytes
  <2>2. c[1] = w[1]
    BY <1>1
  <2> QED
    BY <1>2, <2>1, <2>2
<1>4. rest # <<>> => Len(c) # Len(w)
  BY <1>1
<1>5. rest # <<>> => c \notin Frames
  <2> SUFFICES ASSUME rest # <<>>, c \in Frames PROVE FALSE
    OBVIOUS
  <2>1. Len(c) > 2 /\ c[Len(c)] = "bel"
    BY FrameShape
  <2>2. Len(c) \in 2 .. Len(w) - 1 /\ Len(c) \in 1 .. Len(c)
    BY <1>1, <2>1
  <2>3. w[Len(c)] = "json" /\ w[Len(c)] = c[Len(c)]
    BY <1>1, <1>2, <2>2
  <2> QED
    BY <2>1, <2>3
<1> QED
  BY <1>3, <1>4, <1>5 DEF w

(* What is due when a later chunk of a frame is the head                    *)
LEMMA HeadIsDue ==
    ASSUME TypeInv, QueueInv, events # <<>>, Head(events).kind = "output",
           ~ pumped.broken, pumped.due \in {<<>>, Whole(Head(events))}
    PROVE  /\ WellFormed(Head(events))
           /\ IsRemainder(Whole(Head(events))) => pumped.due = Whole(Head(events))
           /\ pumped.due \in Remainders
<1>1. Len(events) \in Nat /\ Len(events) >= 1 /\ DOMAIN events = 1 .. Len(events) /\ Head(events) = events[1]
  <2>1. events \in Seq(Events)
    BY DEF TypeInv
  <2>2. Len(events) \in Nat /\ Len(events) >= 1 /\ DOMAIN events = 1 .. Len(events)
    BY <2>1, EmptySeq, LenProperties
  <2> QED
    BY <2>1, <2>2
<1>2. PICK d : IsDues(d) /\ Follows(d)
  BY DEF QueueInv
<1>3. d[0] = pumped.due /\ d[0] \in Remainders
  <2>1. 0 \in 0 .. Len(events)
    BY <1>1
  <2> QED
    BY <1>2, <2>1 DEF IsDues
<1>4. 1 \in 1 .. Len(events) /\ 1 - 1 = 0
  BY <1>1
<1>5. ~ BrokenBy(d, 1)
  <2>1. ~ Mismatch(d, 1)
    BY <1>1, <1>3, <1>4 DEF Mismatch
  <2>2. \A k \in 1..1 : k = 1
    OBVIOUS
  <2> QED
    BY <2>1, <2>2 DEF BrokenBy
<1>6. IsRemainder(Whole(events[1])) => BrokenBy(d, 1) \/ d[1 - 1] = Whole(events[1])
  BY <1>1, <1>2, <1>4 DEF Follows
<1>7. WellFormed(events[1])
  BY <1>1, <1>4 DEF QueueInv
<1> QED
  BY <1>1, <1>3, <1>4, <1>5, <1>6, <1>7

LEMMA BufferPump == TypeInv /\ QueueInv /\ BufferInv /\ PumpOutput => BufferInv'
<1> SUFFICES ASSUME TypeInv, QueueInv, BufferInv, PumpOutput PROVE BufferInv'
  OBVIOUS
<1> DEFINE e == Head(events)
           found == Consume(metaBuffer \o e.chunk)
<1>1. /\ events # <<>> /\ e.kind = "output"
      /\ shown' = shown \o found.text /\ metaBuffer' = found.held /\ infos' = infos + found.infos
      /\ Note(e.chunk, e.rest)
  BY DEF PumpOutput
<1>2. e \in Events
  BY <1>1, HeadTailProperties DEF TypeInv
<1>3. e.chunk \in Bytes /\ e.rest \in Bytes
  BY <1>2 DEF Events
<1>4. shown \in Bytes /\ metaBuffer \in Bytes /\ infos \in Nat
  BY DEF BufferInv
<1>5. metaBuffer \o e.chunk \in Bytes
  BY <1>3, <1>4, Together
<1>6. found \in [text : Bytes, held : Bytes, infos : Nat]
  BY <1>5, ConsumeTypes
<1>7. pumped' = [texts |-> IF Head(e.chunk) = "text" THEN pumped.texts \o e.chunk ELSE pumped.texts,
                 frames |-> IF e.chunk \in Frames \/ e.chunk = pumped.due THEN pumped.frames + 1
                            ELSE pumped.frames,
                 due |-> e.rest,
                 broken |-> pumped.broken \/ pumped.due \notin {<<>>, Whole(e)}]
  BY <1>1 DEF Note, Whole
<1>8. /\ pumped'.texts = (IF Head(e.chunk) = "text" THEN pumped.texts \o e.chunk ELSE pumped.texts)
      /\ pumped'.frames = (IF e.chunk \in Frames \/ e.chunk = pumped.due THEN pumped.frames + 1
                           ELSE pumped.frames)
      /\ pumped'.due = e.rest
      /\ pumped'.broken = (pumped.broken \/ pumped.due \notin {<<>>, Whole(e)})
  BY <1>7
<1> HIDE DEF found
<1>9. shown' \in Bytes /\ metaBuffer' \in Bytes /\ infos' \in Nat
  <2>1. found.text \in Bytes /\ found.held \in Bytes /\ found.infos \in Nat
    BY <1>6
  <2>2. shown \o found.text \in Bytes
    BY <1>4, <2>1, Together
  <2>3. infos + found.infos \in Nat
    BY <1>4, <2>1
  <2> HIDE DEF e
  <2> QED
    BY <1>1, <2>1, <2>2, <2>3
<1>10. ASSUME ~ pumped'.broken
       PROVE  /\ shown' = pumped'.texts /\ infos' = pumped'.frames
              /\ IF pumped'.due = <<>> THEN metaBuffer' = <<>>
                 ELSE metaBuffer' # <<>> /\ metaBuffer' \o pumped'.due \in Frames
  <2>1. ~ pumped.broken /\ pumped.due \in {<<>>, Whole(e)}
    BY <1>8, <1>10
  <2>2. WellFormed(e) /\ (IsRemainder(Whole(e)) => pumped.due = Whole(e)) /\ pumped.due \in Remainders
    BY <1>1, <2>1, HeadIsDue
  <2>3. /\ shown = pumped.texts /\ infos = pumped.frames
        /\ pumped.due = <<>> => metaBuffer = <<>>
        /\ pumped.due # <<>> => metaBuffer # <<>> /\ metaBuffer \o pumped.due \in Frames
    BY <2>1 DEF BufferInv
  <2>4. shown \o <<>> = shown /\ infos + 0 = infos /\ <<>> \o e.chunk = e.chunk
    BY <1>3, <1>4, ConcatEmptySeq DEF Bytes
  <2> HIDE DEF e
  <2>5. CASE e.chunk \in {<<"text">>, <<"text", "bel">>} /\ e.rest = <<>>
    <3>1. e.chunk \in Bytes /\ e.chunk # <<>> /\ e.chunk \notin Remainders
      BY <2>5, Distinct
    <3>2. Whole(e) = e.chunk
      BY <2>5, <3>1, ConcatEmptySeq DEF Whole, Bytes
    <3>3. pumped.due = <<>> /\ metaBuffer = <<>>
      BY <2>1, <2>2, <2>3, <3>1, <3>2
    <3>4. found = [text |-> e.chunk, held |-> <<>>, infos |-> 0]
      <4>1. \A i \in 1 .. Len(e.chunk) : e.chunk[i] # "prefix"
        <5>1. CASE e.chunk = <<"text">>
          <6>1. Len(e.chunk) = 1 /\ e.chunk[1] = "text"
            BY <5>1
          <6> QED
            BY <6>1
        <5>2. CASE e.chunk = <<"text", "bel">>
          <6>1. Len(e.chunk) = 2 /\ e.chunk[1] = "text" /\ e.chunk[2] = "bel"
            BY <5>2
          <6>2. \A i \in 1..2 : i = 1 \/ i = 2
            OBVIOUS
          <6> QED
            BY <6>1, <6>2
        <5> QED
          BY <2>5, <5>1, <5>2
      <4> QED
        BY <2>4, <3>1, <3>3, <4>1, ConsumeText DEF found
    <3>5. Head(e.chunk) = "text" /\ e.chunk \notin Frames
      <4>1. Head(e.chunk) = "text" /\ e.chunk[1] = "text"
        BY <2>5
      <4>2. e.chunk \notin Frames
        BY <4>1, FrameShape
      <4> QED
        BY <4>1, <4>2
    <3> QED
      BY <1>1, <1>8, <2>3, <2>4, <2>5, <3>1, <3>3, <3>4, <3>5
  <2>6. CASE e.chunk # <<>> /\ (Whole(e) \in Frames \/ IsRemainder(Whole(e)))
    <3> DEFINE data == metaBuffer \o e.chunk
    <3>1. data \in Bytes /\ data # <<>> /\ data \o e.rest \in Frames
      <4>1. CASE Whole(e) \in Frames
        <5>1. pumped.due = <<>>
          BY <2>1, <2>2, <4>1, Distinct
        <5>2. data = e.chunk
          BY <2>3, <2>4, <5>1
        <5> QED
          BY <1>3, <2>6, <4>1, <5>2 DEF Whole
      <4>2. CASE IsRemainder(Whole(e))
        <5>1. pumped.due = Whole(e) /\ pumped.due # <<>>
          BY <2>2, <4>2 DEF IsRemainder
        <5>2. metaBuffer # <<>> /\ metaBuffer \o (e.chunk \o e.rest) \in Frames
          BY <2>3, <5>1 DEF Whole
        <5>3. data \o e.rest = metaBuffer \o (e.chunk \o e.rest)
          BY <1>3, <1>4, Grouping DEF data
        <5>4. data # <<>>
          <6>1. Len(metaBuffer) >= 1 /\ Len(data) = Len(metaBuffer) + Len(e.chunk)
                /\ Len(metaBuffer) \in Nat /\ Len(e.chunk) \in Nat
            BY <1>3, <1>4, <5>2, Together
          <6> HIDE DEF data
          <6>2. Len(data) >= 1
            BY <6>1
          <6> QED
            BY <6>2
        <5> QED
          BY <1>5, <5>2, <5>3, <5>4
      <4> QED
        BY <2>6, <4>1, <4>2
    <3> HIDE DEF data
    <3>2. Head(e.chunk) # "text" /\ (e.rest # <<>> => e.chunk \notin Frames /\ e.chunk # Whole(e))
      BY <1>3, <2>6, ChunkOfFrame DEF Whole
    <3>3. CASE e.rest = <<>>
      <4>1. data \o e.rest = data /\ Whole(e) = e.chunk
        BY <1>3, <3>1, <3>3, ConcatEmptySeq DEF Whole, Bytes
      <4>2. found = [text |-> <<>>, held |-> <<>>, infos |-> 1]
        BY <3>1, <4>1, ConsumeFrame DEF found, data
      <4>3. e.chunk \in Frames \/ e.chunk = pumped.due
        BY <2>2, <2>6, <4>1
      <4> QED
        BY <1>1, <1>8, <2>3, <2>4, <3>2, <3>3, <4>2, <4>3
    <3>4. CASE e.rest # <<>>
      <4>1. found = [text |-> <<>>, held |-> data, infos |-> 0]
        BY <1>3, <3>1, <3>4, BeginningIsHeld DEF found, data
      <4>2. ~ (e.chunk \in Frames \/ e.chunk = pumped.due)
        BY <2>1, <2>6, <3>2, <3>4
      <4> QED
        BY <1>1, <1>8, <2>3, <2>4, <3>1, <3>2, <3>4, <4>1, <4>2
    <3> QED
      BY <3>3, <3>4
  <2> QED
    BY <1>1, <2>2, <2>5, <2>6 DEF WellFormed
<1> QED
  BY <1>9, <1>10 DEF BufferInv

LEMMA BufferStep == TypeInv /\ QueueInv /\ BufferInv /\ [Next]_vars => BufferInv'
<1> SUFFICES ASSUME TypeInv, QueueInv, BufferInv, [Next]_vars PROVE BufferInv'
  OBVIOUS
<1> USE DEF linkVars, queueVars, filterVars, sizeVars
<1>1. ASSUME UNCHANGED <<metaBuffer, shown, infos, pumped>>
      PROVE  BufferInv'
  BY <1>1 DEF BufferInv
<1>2. ASSUME NEW byName \in BOOLEAN, NEW answered \in BOOLEAN, NEW id \in Ids, Connect(byName, id, answered)
      PROVE  BufferInv'
  BY <1>1, <1>2 DEF Connect
<1>3. ASSUME NEW n \in Attempts,
             ReceiveText(n) \/ ReceiveFrame(n) \/ ReceiveRest(n) \/ LoseChunk(n) \/ ReceiveEnds(n)
      PROVE  BufferInv'
  BY <1>1, <1>3 DEF ReceiveText, ReceiveFrame, ReceiveRest, ReceivePart, Receive, LoseChunk, ReceiveEnds
<1>4. CASE Disconnect \/ (\E s \in {"failed", "reconnected"} : Report(s))
           \/ PumpStatus \/ PumpEnds \/ SyncSize \/ UNCHANGED vars
  BY <1>1, <1>4 DEF Disconnect, Report, PumpStatus, PumpEnds, SyncSize, vars
<1>5. ASSUME NEW size \in Sizes, ScheduleResize(size)
      PROVE  BufferInv'
  BY <1>1, <1>5 DEF ScheduleResize
<1>6. CASE PumpOutput
  BY <1>6, BufferPump
<1> QED
  BY <1>2, <1>3, <1>4, <1>5, <1>6 DEF Next

------------------------------------------------------------------------------
(* The invariant, inductive for every value of the constants: what the      *)
(* label will say (app.py:470-483), which size was asked for                *)
(* (app.py:575-593), and what _consume_output_bytes (app.py:444-468) holds  *)
(* back while the rest of a frame is on its way through the queue.          *)
GuiInv == TypeInv /\ LabelInv /\ SizeInv /\ QueueInv /\ BufferInv

THEOREM GuiInvariant == Spec => []GuiInv
<1>1. Init => GuiInv
  BY TypeInit, LabelInit, SizeInit, QueueInit, BufferInit DEF GuiInv
<1>2. GuiInv /\ [Next]_vars => GuiInv'
  BY TypeStep, LabelStep, SizeStep, QueueStep, BufferStep DEF GuiInv
<1> QED
  BY <1>1, <1>2, PTL DEF Spec

(* The variables stay in their domains, and the receive loop of the present *)
(* connection runs (app.py:261-327, client.py:151-162).                     *)
THEOREM GuiTypes == Spec => []TypeOK
<1>1. GuiInv => TypeOK
  BY DEF GuiInv, TypeInv, TypeOK, Labels, Statuses
<1> QED
  BY <1>1, GuiInvariant, PTL

(* Whatever the threads of closed connections still report, the colour is   *)
(* that of self.connection, and no text of an earlier connect or close      *)
(* stays on the label (app.py:339-358, 470-483).                            *)
THEOREM LabelIsRight == Spec => []LabelTellsState
<1>1. GuiInv => LabelTellsState
  BY DEF GuiInv, LabelInv, LabelTellsState, IsStatus, Contrary
<1> QED
  BY <1>1, GuiInvariant, PTL

(* The size that stays is the one send_resize was last called with, however *)
(* connections, changes and synchronisations follow each other              *)
(* (app.py:313-317, 570-593).                                               *)
THEOREM SizeStaysAsked == Spec => []SizeIsAskedFor
<1>1. GuiInv => SizeIsAskedFor
  BY DEF GuiInv, SizeInv, SizeIsAskedFor
<1> QED
  BY <1>1, GuiInvariant, PTL

(* The filter of app.py:444-468 neither loses output of a shell nor shows a *)
(* frame, in however many chunks frames come and whatever threads put       *)
(* between them, as long as no frame was broken.                            *)
THEOREM ShellOutputIsShown == Spec => []TextIsShown
<1>1. GuiInv => TextIsShown
  BY DEF GuiInv, BufferInv, TextIsShown
<1> QED
  BY <1>1, GuiInvariant, PTL

(* Only the pump takes events from the queue.                               *)
LEMMA NotShorter ==
    ASSUME TypeInv, events # <<>>, events' = Tail(events)
    PROVE  events' # events /\ \A e \in Events : ~ Put(e)
<1>1. PICK m : m = Len(events)
  OBVIOUS
<1>2. PICK n : n = Len(events')
  OBVIOUS
<1>3. n = m - 1 /\ m \in Nat
  BY <1>1, <1>2, Removed
<1>4. n # m /\ n # m + 1
  BY <1>3
<1>5. events' # events
  BY <1>1, <1>2, <1>4, Zenon
<1>6. ASSUME NEW e \in Events, Put(e)
      PROVE  FALSE
  BY <1>1, <1>2, <1>4, <1>6, Appended
<1> QED
  BY <1>5, <1>6

(* And once one was broken, what app.py:456 holds back is given up at the   *)
(* next BEL, in whichever chunk, up to a beginning within that chunk.       *)
THEOREM BellEndsHolding == Spec => HeldEndsAtBell
<1> DEFINE HeldStep == events # <<>> /\ events' = Tail(events) /\ "bel" \in ToSet(Head(events).chunk)
                          => IsSuffix(metaBuffer', Head(events).chunk)
<1>1. GuiInv /\ [Next]_vars => [HeldStep]_vars
  <2> SUFFICES ASSUME GuiInv, [Next]_vars, events # <<>>, events' = Tail(events),
                      "bel" \in ToSet(Head(events).chunk)
               PROVE  IsSuffix(metaBuffer', Head(events).chunk)
    OBVIOUS
  <2> USE DEF linkVars, queueVars, filterVars, sizeVars
  <2>1. TypeInv /\ QueueInv /\ BufferInv
    BY DEF GuiInv
  <2>2. Len(events) \in Nat /\ Len(events') = Len(events) - 1 /\ Head(events) = events[1]
        /\ 1 \in DOMAIN events
    BY <2>1, Removed
  <2>3. ASSUME NEW e \in Events
        PROVE  ~ Put(e)
    BY <2>1, NotShorter
  <2>4. ~ UNCHANGED events
    BY <2>1, NotShorter
  <2>5. Head(events) \in Events /\ Head(events).chunk \in Bytes
    <3>1. Head(events) \in Events
      BY <2>1, HeadTailProperties DEF TypeInv
    <3> QED
      BY <3>1 DEF Events
  <2>6. CASE PumpOutput
    <3> DEFINE c == Head(events).chunk
    <3>1. metaBuffer' = Consume(metaBuffer \o c).held
      BY <2>6 DEF PumpOutput
    <3>2. PICK b \in DOMAIN c : c[b] = "bel"
      BY DEF ToSet
    <3>3. b \in 1 .. Len(c)
      BY <2>5, LenProperties DEF Bytes
    <3>4. metaBuffer \in Bytes
      BY <2>1 DEF BufferInv
    <3> QED
      BY <2>5, <3>1, <3>2, <3>3, <3>4, HeldAfterBell
  <2>7. CASE PumpStatus
    <3>1. WellFormed(events[1]) /\ Head(events).kind # "output"
      BY <2>1, <2>2, <2>7 DEF QueueInv, PumpStatus
    <3>2. Head(events).chunk = <<>>
      BY <2>2, <3>1 DEF WellFormed
    <3> QED
      BY <3>2 DEF ToSet
  <2>8. ASSUME NEW byName \in BOOLEAN, NEW answered \in BOOLEAN, NEW id \in Ids, Connect(byName, id, answered)
        PROVE  FALSE
    <3>1. Put(Status("connected", attempts')) \/ Put(Status("closed", 0))
      BY <2>8 DEF Connect
    <3>2. attempts' \in 0..MaxAttempts /\ 0 \in 0..MaxAttempts
      BY <2>1, <2>8, GuiAssumption DEF Connect, TypeInv, GuiAssumption
    <3> QED
      BY <2>3, <3>1, <3>2, EventTypes DEF Statuses
  <2>9. ASSUME Disconnect \/ (\E s \in {"failed", "reconnected"} : Report(s))
        PROVE  FALSE
    BY <2>3, <2>9, EventTypes, GuiAssumption DEF Disconnect, Report, Statuses, GuiAssumption
  <2>10. ASSUME NEW n \in Attempts, ReceiveText(n)
         PROVE  FALSE
    <3>1. PICK c \in {<<"text">>, <<"text", "bel">>} : Put(Output(c, <<>>))
      BY <2>10 DEF ReceiveText, Receive
    <3>2. c \in Bytes
      BY Distinct
    <3>3. <<>> \in Bytes
      BY DEF Bytes
    <3> QED
      BY <2>3, <3>1, <3>2, <3>3, EventTypes
  <2>11. ASSUME NEW n \in Attempts, ReceiveFrame(n) \/ ReceiveRest(n)
         PROVE  FALSE
    <3>1. PICK data \in Bytes : data # <<>> /\ ReceivePart(n, data)
      BY <2>1, <2>11, FrameBytes DEF ReceiveFrame, ReceiveRest, TypeInv
    <3>2. FirstChunk(data) \in Bytes /\ OtherChunks(data) \in Bytes
          /\ Put(Output(FirstChunk(data), OtherChunks(data)))
      BY <3>1, PartTypes DEF ReceivePart, Receive
    <3> QED
      BY <2>3, <3>2, EventTypes
  <2>12. ASSUME NEW n \in Attempts, LoseChunk(n) \/ ReceiveEnds(n)
         PROVE  FALSE
    BY <2>4, <2>12 DEF LoseChunk, ReceiveEnds
  <2>13. ASSUME PumpEnds \/ SyncSize \/ (\E size \in Sizes : ScheduleResize(size)) \/ UNCHANGED vars
         PROVE  FALSE
    BY <2>4, <2>13 DEF PumpEnds, SyncSize, ScheduleResize, vars
  <2> QED
    BY <2>6, <2>7, <2>8, <2>9, <2>10, <2>11, <2>12, <2>13 DEF Next
<1> QED
  BY <1>1, GuiInvariant, PTL DEF Spec, HeldEndsAtBell

==============================================================================
