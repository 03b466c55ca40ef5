------------------------------ MODULE OutputPath ------------------------------
(***************************************************************************)
(* How output leaves the server: the sessions' reader threads and the      *)
(* receive thread put chunks into bounded queues, one sender thread per    *)
(* runtime hands them to a channel (server.py, _forward_output and         *)
(* _output_sender_loop; session.py, _emit_output and the scrollback).      *)
(* Producers and senders find the runtime by the client id, each time they *)
(* need it, so this module follows the successive runtimes of one id.      *)
(*                                                                         *)
(* Output is counted in units, one per read of the reader thread (1024     *)
(* bytes at most, less than MAX_PAYLOAD_SIZE); a chunk is the units it     *)
(* carries and the session they come from.                                 *)
(***************************************************************************)
EXTENDS WireFormat, FiniteSets

CONSTANTS
    QueueSize,       \* maxsize of out_queue
    ScrollbackSize,  \* maxlen of _scrollback
    MaxRuntimes,     \* bound: runtimes created under the id
    MaxUnits,        \* bound: reads of the reader threads, the ends they find included
    MaxPackets       \* bound: roaming packets and INFO requests

ASSUME OutputAssumption ==
    {QueueSize, ScrollbackSize, MaxRuntimes, MaxUnits, MaxPackets} \subseteq Nat \ {0}

VARIABLES
    created,         \* how many runtimes have been created
    current,         \* _clients.get(client_id): a runtime, 0 if none
    recv,            \* the receive thread; it holds _lock in "create" and "replay"
    packets,         \* roaming packets and INFO requests so far
    removal,         \* how far _cleanup_client is with each runtime
    reader,          \* the reader thread of each session
    reads,           \* reads of the reader threads so far, the ends they found included
    emitted,         \* units each session has printed
    scrollback,      \* _scrollback of each session
    putting,         \* the call of _forward_output each producer is in
    queue,           \* out_queue of each runtime
    sender,          \* the sender thread of each runtime
    history          \* history: of the current runtime, see Fresh

serverVars == <<created, current, recv, packets, removal>>
sessionVars == <<reader, reads, emitted, scrollback>>
vars == <<serverVars, sessionVars, putting, queue, sender, history>>

Runtimes == 1..MaxRuntimes
Receiver == 0                     \* the receive thread, as a producer
Producers == {Receiver} \cup Runtimes

Chunk(r, k, us) == [session |-> r, kind |-> k, units |-> us]
NoCall == [to |-> 0, chunks |-> <<>>, step |-> "put"]
SenderAt(pc) == [pc |-> pc, chunk |-> Chunk(0, "none", <<>>)]

Fresh(n) ==
    [lost |-> FALSE,      \* a chunk for the runtime was dropped, or a send failed
     replayed |-> FALSE,  \* the scrollback was sent again
     missed |-> n,        \* units printed before the runtime was registered
     sent |-> <<>>,       \* own units on its channel, in order, the scrollback apart
     resent |-> {}]       \* own units its channel got as scrollback

Init ==
    /\ created = 0
    /\ current = 0
    /\ recv = "idle"
    /\ packets = 0
    /\ removal = [r \in Runtimes |-> "none"]
    /\ reader = [r \in Runtimes |-> "none"]
    /\ reads = 0
    /\ emitted = [r \in Runtimes |-> 0]
    /\ scrollback = [r \in Runtimes |-> <<>>]
    /\ putting = [p \in Producers |-> NoCall]
    /\ queue = [r \in Runtimes |-> <<>>]
    /\ sender = [r \in Runtimes |-> SenderAt("none")]
    /\ history = Fresh(0)

Locked == recv \in {"create", "replay"}
Stopped(r) == removal[r] = "done"     \* out_stop and the session's _stop_event are set
------------------------------------------------------------------------------
(* Faulty variants of definitions below, for the checks of the properties.  *)

PutFirst(q, c) == <<c>> \o q
AlwaysRoom(p) == TRUE
WaitForRoom(p) == FALSE
DropNewest(p) == [putting[p] EXCEPT !.chunks = Tail(@)]
------------------------------------------------------------------------------
(* _forward_output: the runtime is looked up once, then chunk after chunk   *)
(* is put into its queue without waiting.  A full queue loses its oldest    *)
(* chunk; others may put and get between the three calls on the queue.      *)

BeginPut(p, chunks) ==
    putting' = [putting EXCEPT ![p] =
                  IF current = 0 THEN NoCall ELSE [NoCall EXCEPT !.to = current, !.chunks = chunks]]

PutDone(p) == putting[p].chunks = <<>>
HasRoom(p) == Len(queue[putting[p].to]) < QueueSize
Enqueued(q, c) == Append(q, c)
MayDrop(p) == TRUE
ToDrop(p) == [putting[p] EXCEPT !.step = "drop"]
Lossy(h) == [Fresh(0) EXCEPT !.lost = TRUE, !.sent = h.sent]
Loses(r) == history' = IF r = current THEN Lossy(history) ELSE history
PutUnchanged == UNCHANGED <<serverVars, sessionVars, sender>>

PutNowait(p) ==
    /\ ~ PutDone(p)
    /\ putting[p].step # "drop"
    /\ HasRoom(p)
    /\ queue' = [queue EXCEPT ![putting[p].to] = Enqueued(@, Head(putting[p].chunks))]
    /\ putting' = [putting EXCEPT ![p].chunks = Tail(@), ![p].step = "put"]
    /\ PutUnchanged /\ UNCHANGED history

Full(p) ==
    /\ ~ PutDone(p)
    /\ putting[p].step = "put"
    /\ ~ HasRoom(p) /\ MayDrop(p)
    /\ putting' = [putting EXCEPT ![p] = ToDrop(p)]
    /\ PutUnchanged /\ UNCHANGED <<queue, history>>

DropOldest(p) ==
    /\ putting[p].step = "drop"
    /\ LET to == putting[p].to
       IN  /\ IF queue[to] = <<>>
              THEN putting' = [putting EXCEPT ![p] = NoCall] /\ UNCHANGED queue
              ELSE /\ putting' = [putting EXCEPT ![p].step = "retry"]
                   /\ queue' = [queue EXCEPT ![to] = Tail(@)]
           /\ Loses(to)
    /\ PutUnchanged

FullAgain(p) ==
    /\ putting[p].step = "retry"
    /\ ~ HasRoom(p)
    /\ putting' = [putting EXCEPT ![p] = NoCall]
    /\ Loses(putting[p].to)
    /\ PutUnchanged /\ UNCHANGED queue

PutStep(p) == PutNowait(p) \/ Full(p) \/ DropOldest(p) \/ FullAgain(p)
------------------------------------------------------------------------------
(* The reader thread of a session.  What it reads goes to the scrollback    *)
(* and then to _forward_output; when it ends it says so the same way.       *)

ReaderAt(r, pc) == reader' = [reader EXCEPT ![r] = pc]
Remembered(r, n) ==
    LET s == Append(scrollback[r], n)
    IN  IF Len(s) > ScrollbackSize THEN Tail(s) ELSE s

AboutToEmit(r) == IF reader[r] = "emit" THEN {emitted[r]} ELSE {}

Read(r) ==
    /\ reader[r] = "read"
    /\ reads < MaxUnits
    /\ reads' = reads + 1
    /\ emitted' = [emitted EXCEPT ![r] = @ + 1]
    /\ scrollback' = [scrollback EXCEPT ![r] = Remembered(r, emitted'[r])]
    /\ ReaderAt(r, "emit")
    /\ UNCHANGED <<serverVars, putting, queue, sender, history>>

Emit(r) ==
    /\ reader[r] = "emit"
    /\ BeginPut(r, <<Chunk(r, "live", <<emitted[r]>>)>>)
    /\ ReaderAt(r, "put")
    /\ UNCHANGED <<serverVars, reads, emitted, scrollback, queue, sender, history>>

(* The test of the loop; the end of file, or the error of a closed pty.     *)
ReaderGoesOn(r) ==
    /\ reader[r] = "put" /\ PutDone(r)
    /\ ~ Stopped(r)
    /\ ReaderAt(r, "read")
    /\ UNCHANGED <<serverVars, reads, emitted, scrollback, putting, queue, sender, history>>

ReaderEnds(r) ==
    /\ reader[r] = "read" \/ (reader[r] = "put" /\ PutDone(r) /\ Stopped(r))
    /\ reads < MaxUnits
    /\ reads' = reads + 1
    /\ BeginPut(r, <<Chunk(r, "status", <<>>)>>)
    /\ ReaderAt(r, "ended")
    /\ UNCHANGED <<serverVars, emitted, scrollback, queue, sender, history>>

ReaderStep(r) == Read(r) \/ Emit(r) \/ ReaderGoesOn(r) \/ ReaderEnds(r) \/ PutStep(r)
------------------------------------------------------------------------------
(* The sender thread of a runtime: it gets from its own queue and sends on  *)
(* the channel of the runtime the id stands for by then.  In "get" it has   *)
(* tested out_stop, or is about to; in "send" it looks for the channel and  *)
(* waits for the acknowledgement.                                           *)

SenderIs(r, new) == sender' = [sender EXCEPT ![r] = new]
LoopTest(r) == IF Stopped(r) THEN "ended" ELSE "get"

Get(r) ==
    /\ sender[r].pc = "get"
    /\ queue[r] # <<>>
    /\ queue' = [queue EXCEPT ![r] = Tail(@)]
    /\ SenderIs(r, [pc |-> "send", chunk |-> Head(queue[r])])
    /\ UNCHANGED <<serverVars, sessionVars, putting, history>>

SenderEnds(r) ==
    /\ sender[r].pc = "get"
    /\ Stopped(r)
    /\ SenderIs(r, SenderAt(LoopTest(r)))
    /\ UNCHANGED <<serverVars, sessionVars, putting, queue, history>>

(* The packet reaches the client, now or in a transmission that send_packet *)
(* does not learn of.                                                       *)
HandOver(c) ==
    [history EXCEPT
        !.sent = IF c.session = current /\ c.kind = "live" THEN @ \o c.units ELSE @,
        !.resent = IF c.session = current /\ c.kind = "replay" /\ ~ history.lost THEN @ \cup ToSet(c.units) ELSE @]

Send(r) ==
    /\ sender[r].pc = "send"
    /\ current # 0
    /\ history' = HandOver(sender[r].chunk)
    /\ SenderIs(r, SenderAt(LoopTest(r)))
    /\ UNCHANGED <<serverVars, sessionVars, putting, queue>>

SendFails(r) ==
    /\ sender[r].pc = "send"
    /\ current # 0
    /\ \E h \in {history, HandOver(sender[r].chunk)} : history' = Lossy(h)
    /\ SenderIs(r, SenderAt(LoopTest(r)))
    /\ UNCHANGED <<serverVars, sessionVars, putting, queue>>

NoChannel(r) ==
    /\ sender[r].pc = "send"
    /\ current = 0
    /\ SenderIs(r, SenderAt(LoopTest(r)))
    /\ UNCHANGED <<serverVars, sessionVars, putting, queue, history>>

SenderStep(r) == Get(r) \/ SenderEnds(r) \/ Send(r) \/ SendFails(r) \/ NoChannel(r)
------------------------------------------------------------------------------
(* The receive thread.  A packet of an unknown client creates a runtime,    *)
(* whose session prints before it is registered; one from another address   *)
(* sends the scrollback again; both happen under the lock.  An INFO request *)
(* puts one frame.  Other packets do not concern the output.                *)

TakePacket(pc) ==
    /\ recv = "idle"
    /\ current # 0
    /\ packets < MaxPackets
    /\ packets' = packets + 1
    /\ recv' = pc

CreateRuntime ==
    /\ recv = "idle"
    /\ current = 0
    /\ recv' = "create"
    /\ created < MaxRuntimes
    /\ created' = created + 1
    /\ reader' = [reader EXCEPT ![created'] = "read"]
    /\ UNCHANGED <<current, packets, removal, reads, emitted, scrollback, putting, queue, sender, history>>

Register ==
    /\ recv = "create"
    /\ current' = created
    /\ recv' = "idle"
    /\ SenderIs(created, SenderAt("get"))
    /\ history' = Fresh(emitted[created] - Cardinality(AboutToEmit(created)))
    /\ UNCHANGED <<created, packets, removal, sessionVars, putting, queue>>

Replay(r) ==
    LET pieces == ChunkBytes(scrollback[r], MaxPayloadSize)
    IN  [i \in DOMAIN pieces |-> Chunk(r, "replay", pieces[i])]

Roam ==
    /\ TakePacket("replay")
    /\ BeginPut(Receiver, Replay(current))
    /\ history' = [history EXCEPT !.replayed = ~ history.lost]
    /\ UNCHANGED <<created, current, removal, sessionVars, queue, sender>>

AnswerInfo ==
    /\ TakePacket("answer")
    /\ BeginPut(Receiver, <<Chunk(current, "meta", <<>>)>>)
    /\ UNCHANGED <<created, current, removal, sessionVars, queue, sender, history>>

Handled ==
    /\ recv \in {"replay", "answer"}
    /\ PutDone(Receiver)
    /\ recv' = "idle"
    /\ UNCHANGED <<created, current, packets, removal, sessionVars, putting, queue, sender, history>>

RecvStep == Register \/ Handled \/ PutStep(Receiver)

(* _cleanup_client, by the janitor or, after a DISCONNECT, by the receive   *)
(* thread: the runtime leaves the registry first, then out_stop and, at the *)
(* start of session.stop, the session's _stop_event are set.                *)
Pop ==
    /\ current # 0
    /\ ~ Locked
    /\ current' = 0
    /\ removal' = [removal EXCEPT ![current] = "popped"]
    /\ history' = Fresh(0)
    /\ UNCHANGED <<created, recv, packets, sessionVars, putting, queue, sender>>

SetStops(r) ==
    /\ removal[r] = "popped"
    /\ removal' = [removal EXCEPT ![r] = "done"]
    /\ UNCHANGED <<created, current, recv, packets, sessionVars, putting, queue, sender, history>>
------------------------------------------------------------------------------
Next ==
    \/ CreateRuntime \/ Roam \/ AnswerInfo
    \/ RecvStep
    \/ Pop
    \/ \E r \in Runtimes : SetStops(r) \/ ReaderStep(r) \/ SenderStep(r)

Spec == Init /\ [][Next]_vars

(* The receive thread is scheduled; a property that needs a sender thread   *)
(* says so.  Of the network nothing is assumed: a call of send_packet ends, *)
(* with or without success.                                                 *)
FairSpec == Spec /\ WF_vars(RecvStep)
------------------------------------------------------------------------------
TypeOK ==
    /\ created \in 0..MaxRuntimes /\ current \in 0..created
    /\ packets <= MaxPackets
    /\ \A r \in Runtimes :
          /\ emitted[r] <= MaxUnits
          /\ Len(scrollback[r]) <= ScrollbackSize
          /\ Len(queue[r]) <= QueueSize
    /\ \A p \in Producers : putting[p].to \in 0..created /\ putting[p].step \in {"put", "drop", "retry"}

(* Chunks of a runtime that have not been handed over.                      *)
UnderWay(r) ==
    ToSet(queue[r]) \cup {sender[r].chunk}
        \cup UNION {ToSet(putting[p].chunks) : p \in {q \in Producers : putting[q].to = r}}

UnitsUnderWay(r, kinds) ==
    UNION {ToSet(c.units) : c \in {d \in UnderWay(r) : d.session = r /\ d.kind \in kinds}}

Intact == current # 0 /\ ~ history.lost

(* Hazard of server.py:92.  The packets that the receive loop has handled   *)
(* did what the client meant with its input or nothing at all.              *)
InputWholeOrNotAtAll == packets > 0 => InputsArriveWhole

(* What a session prints reaches its channel in the order of printing and   *)
(* no more than once, the scrollback apart, although a second producer and  *)
(* the drop of the oldest chunk work on the same queue.                     *)
LiveOutputInOrder ==
    \A i, j \in DOMAIN history.sent : i < j => history.sent[i] < history.sent[j]

(* Output is lost at the limit of the queue and by a failed send only:      *)
(* without these, whatever a registered session printed is on its way,      *)
(* except what it printed before it was registered.                         *)
NoSilentLoss ==
    Intact =>
        history.missed + 1 .. emitted[current]
            \subseteq ToSet(history.sent) \cup UnitsUnderWay(current, {"live"}) \cup AboutToEmit(current)

(* Sending the scrollback again brings what was printed before the runtime  *)
(* was registered, and leaves no gap to the output that goes on meanwhile.  *)
ReplayClosesGap ==
    Intact /\ history.replayed =>
        ToSet(scrollback[current]) \subseteq
            ToSet(history.sent) \cup history.resent
                \cup UnitsUnderWay(current, {"live", "replay"}) \cup AboutToEmit(current)

(* "Output decoupling: server streams output via a dedicated queue/thread   *)
(* to avoid blocking the receive loop" (README_EN.md:65): the receive       *)
(* thread gets through any packet even if no sender thread ever runs.       *)
ReceiveLoopGoesOn == recv # "idle" ~> recv = "idle"
==============================================================================
