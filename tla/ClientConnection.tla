-------------------------- MODULE ClientConnection --------------------------
(***************************************************************************)
(* The threads of one ClientConnection (client.py): the GUI, which queues  *)
(* packets and closes the connection; the heartbeat, send and receive      *)
(* loops; and the workers _maybe_reconnect starts.  They share the queue,  *)
(* the socket under _socket_lock, and the channel, whose _send_lock is     *)
(* held by the send loop while it waits for the ACK of a packet.           *)
(*                                                                         *)
(* What send_packet does in between is ReliableChannel's subject; here it  *)
(* is a call that ends well only if the receive loop gets an ACK through.  *)
(***************************************************************************)
EXTENDS Naturals, Sequences

CONSTANTS
    Workers,       \* reconnect worker threads that may exist at a time
    None,          \* no worker; the holder of a lock that is free
    QueueSize,     \* capacity of _send_queue
    MaxSockets     \* bound: sockets created

ASSUME ClientAssumption ==
    /\ Workers # {}
    /\ None \notin Workers
    /\ QueueSize \in Nat \ {0}
    /\ MaxSockets \in Nat \ {0}

VARIABLES
    gui,           \* where the GUI thread is in the life of the connection
    stopEvent,     \* _stop_event
    sendQueue,     \* _send_queue
    sender,        \* _send_loop: where it is, the packet it has in hand
    failures,      \* _consecutive_send_failures, which counts no further than 3
    ackEvent,      \* the event of the packet being sent is set
    receiver,      \* _recv_loop: where it is, the socket it took
    socketLock,    \* _socket_lock: its holder, or None
    sock,          \* self.sock
    channelSock,   \* self.channel.sock
    openSocks,     \* sockets that are open
    sockets,       \* how many sockets have been created
    worker,        \* where each reconnect worker is
    reconnecting   \* _reconnect_in_progress

guiVars == <<gui, stopEvent>>
sendVars == <<sendQueue, sender, failures>>
sockVars == <<sock, channelSock, openSocks, sockets>>
workVars == <<worker, reconnecting>>
vars == <<guiVars, sendVars, ackEvent, receiver, socketLock, sockVars, workVars>>

(* What the threads tell apart: the DISCONNECT, a packet that encode        *)
(* refuses, and the rest.                                                   *)
Packets == {"packet", "oversize", "disconnect"}
Idle == [pc |-> "head", packet |-> "none"]

Init ==
    /\ gui = "new"
    /\ stopEvent = FALSE
    /\ sendQueue = <<>>
    /\ sender = [pc |-> "none", packet |-> "none"]
    /\ failures = 0
    /\ ackEvent = FALSE
    /\ receiver = [pc |-> "none", sock |-> 0]
    /\ socketLock = None
    /\ sock = 1
    /\ channelSock = 1
    /\ openSocks = {1}
    /\ sockets = 1
    /\ worker = [w \in Workers |-> "none"]
    /\ reconnecting = FALSE
------------------------------------------------------------------------------
(* Faulty variants of definitions below, for the checks of the properties.  *)

AlwaysReconnect == TRUE
KeepSocketLock == UNCHANGED socketLock
Tireless == "lock"
LeftOpen == {}
FlagKept == TRUE
UnboundedEnqueue(ps) == sendQueue' = IF stopEvent THEN sendQueue ELSE sendQueue \o ps
------------------------------------------------------------------------------
(* _send, for each of ps: never waits; what does not fit is dropped.        *)
Fitting(q) == IF Len(q) <= QueueSize THEN q ELSE SubSeq(q, 1, QueueSize)

Enqueue(ps) == sendQueue' = IF stopEvent THEN sendQueue ELSE Fitting(sendQueue \o ps)

Start ==
    /\ gui = "new"
    /\ gui' = "started"
    /\ sender' = Idle
    /\ receiver' = [pc |-> "head", sock |-> 0]
    /\ Enqueue(<<"packet">>)
    /\ UNCHANGED <<stopEvent, failures, ackEvent, socketLock, sockVars, workVars>>

(* send_bytes, send_resize, send_signal, send_info_request.                 *)
GuiSends(p) ==
    /\ gui = "started"
    /\ Enqueue(<<p>>)
    /\ UNCHANGED <<guiVars, sender, failures, ackEvent, receiver, socketLock, sockVars,
                   workVars>>

(* _heartbeat_loop: a heartbeat or the request for information after it.    *)
Beat ==
    /\ sender.pc # "none"
    /\ ~ stopEvent
    /\ Enqueue(<<"packet">>)
    /\ UNCHANGED <<guiVars, sender, failures, ackEvent, receiver, socketLock, sockVars,
                   workVars>>

(* close, of a connection that was started or of one whose probe failed.    *)
CloseBegins ==
    /\ gui \in {"new", "started"}
    /\ gui' = "queued"
    /\ Enqueue(<<"disconnect">>)
    /\ UNCHANGED <<stopEvent, sender, failures, ackEvent, receiver, socketLock,
                   sockVars, workVars>>

CloseStops ==
    /\ gui = "queued"
    /\ stopEvent' = TRUE
    /\ gui' = "pausing"
    /\ UNCHANGED <<sendVars, ackEvent, receiver, socketLock, sockVars, workVars>>

(* The pause of 0.1 s is long enough for whatever does not wait: it is over *)
(* when the send loop waits, for an ACK or for a packet, or has ended.      *)
PauseOver ==
    \/ sender.pc \in {"none", "waiting", "ended"}
    \/ sender.pc = "get" /\ sendQueue = <<>>

CloseEnds ==
    /\ gui = "pausing"
    /\ PauseOver
    /\ socketLock = None
    /\ openSocks' = openSocks \ {sock}
    /\ gui' = "closed"
    /\ UNCHANGED <<stopEvent, sendVars, ackEvent, receiver, socketLock, sock, channelSock,
                   sockets, workVars>>
------------------------------------------------------------------------------
(* _send_loop *)

SendLoopHead ==
    /\ sender.pc = "head"
    /\ sender' = [sender EXCEPT !.pc = IF stopEvent THEN "ended" ELSE "get"]
    /\ UNCHANGED <<guiVars, sendQueue, failures, ackEvent, receiver, socketLock,
                   sockVars, workVars>>

Dequeue ==
    /\ sender.pc = "get"
    /\ sendQueue # <<>>
    /\ sender' = [pc |-> "send", packet |-> Head(sendQueue)]
    /\ sendQueue' = Tail(sendQueue)
    /\ UNCHANGED <<guiVars, failures, ackEvent, receiver, socketLock, sockVars,
                   workVars>>

(* The timeout of get.                                                      *)
NothingQueued ==
    /\ sender.pc = "get"
    /\ sendQueue = <<>>
    /\ stopEvent
    /\ sender' = Idle
    /\ UNCHANGED <<guiVars, sendQueue, failures, ackEvent, receiver, socketLock,
                   sockVars, workVars>>

(* send_packet, up to the first wait for the ACK.                           *)
Transmit ==
    /\ sender.pc = "send"
    /\ sender.packet # "oversize"
    /\ channelSock \in openSocks
    /\ ackEvent' = FALSE
    /\ sender' = [sender EXCEPT !.pc = "waiting"]
    /\ UNCHANGED <<guiVars, sendQueue, failures, receiver, socketLock, sockVars, workVars>>

(* encode raises a ProtocolError, which the loop does not catch.            *)
SendLoopDies ==
    /\ sender.pc = "send"
    /\ sender.packet = "oversize"
    /\ sender' = [pc |-> "ended", packet |-> "none"]
    /\ UNCHANGED <<guiVars, sendQueue, failures, ackEvent, receiver, socketLock,
                   sockVars, workVars>>

Confirmed ==
    /\ sender.pc = "waiting"
    /\ ackEvent
    /\ failures' = 0
    /\ sender' = Idle
    /\ UNCHANGED <<guiVars, sendQueue, ackEvent, receiver, socketLock, sockVars, workVars>>

MayReconnect == ~ reconnecting

(* _maybe_reconnect: the flag is set before the worker starts.  Workers are *)
(* alike, so it does not matter which one it is.                            *)
NewWorker == CHOOSE w \in Workers : worker[w] = "none"

MaybeReconnect ==
    IF failures' = 3 /\ MayReconnect
    THEN /\ worker' = [worker EXCEPT ![NewWorker] = "head"]
         /\ reconnecting' = TRUE
    ELSE UNCHANGED workVars

(* The retransmissions are exhausted, or sendto raises: in both cases a     *)
(* TransportError, and the packet is lost.                                  *)
SendFails ==
    /\ \/ sender.pc = "waiting" /\ ~ ackEvent
       \/ sender.pc = "send" /\ sender.packet # "oversize"
    /\ failures' = IF failures = 3 THEN 3 ELSE failures + 1
    /\ MaybeReconnect
    /\ sender' = Idle
    /\ UNCHANGED <<guiVars, sendQueue, ackEvent, receiver, socketLock, sockVars>>

SendStep ==
    \/ SendLoopHead \/ Dequeue \/ NothingQueued \/ Transmit \/ SendLoopDies
    \/ Confirmed \/ SendFails
------------------------------------------------------------------------------
(* _recv_loop *)

RecvLoopHead ==
    /\ receiver.pc = "head"
    /\ receiver' = [receiver EXCEPT !.pc = IF stopEvent THEN "ended" ELSE "lock"]
    /\ UNCHANGED <<guiVars, sendVars, ackEvent, socketLock, sockVars, workVars>>

TakeSocket ==
    /\ receiver.pc = "lock"
    /\ socketLock = None
    /\ receiver' = [pc |-> "recvfrom", sock |-> sock]
    /\ UNCHANGED <<guiVars, sendVars, ackEvent, socketLock, sockVars, workVars>>

(* recvfrom times out, or fails on a socket closed meanwhile.               *)
NothingReceived ==
    /\ receiver.pc = "recvfrom"
    /\ receiver' = [pc |-> "head", sock |-> 0]
    /\ UNCHANGED <<guiVars, sendVars, ackEvent, socketLock, sockVars, workVars>>

(* The ACK of the packet in hand, on the socket it was sent from.           *)
GetAck ==
    /\ receiver.pc = "recvfrom"
    /\ receiver.sock \in openSocks
    /\ receiver.sock = channelSock
    /\ sender.pc = "waiting"
    /\ ackEvent' = TRUE
    /\ receiver' = [pc |-> "head", sock |-> 0]
    /\ UNCHANGED <<guiVars, sendVars, socketLock, sockVars, workVars>>

RecvStep == RecvLoopHead \/ TakeSocket \/ NothingReceived \/ GetAck
------------------------------------------------------------------------------
(* A reconnect worker *)

WorkerGoes(w, pc) == worker' = [worker EXCEPT ![w] = pc]

AfterLoopTest == IF stopEvent THEN "clear" ELSE "lock"
SocketToReplace == {sock}
ReleaseSocketLock == socketLock' = None
FlagOfNoWorker == FALSE

WorkerHead(w) ==
    /\ worker[w] = "head"
    /\ WorkerGoes(w, AfterLoopTest)
    /\ UNCHANGED <<guiVars, sendVars, ackEvent, receiver, socketLock, sockVars,
                   reconnecting>>

CloseOld(w) ==
    /\ worker[w] = "lock"
    /\ socketLock = None
    /\ socketLock' = w
    /\ openSocks' = openSocks \ SocketToReplace
    /\ WorkerGoes(w, "create")
    /\ UNCHANGED <<guiVars, sendVars, ackEvent, receiver, sock, channelSock, sockets,
                   reconnecting>>

CreateNew(w) ==
    /\ worker[w] = "create"
    /\ sockets < MaxSockets
    /\ sockets' = sockets + 1
    /\ sock' = sockets'
    /\ openSocks' = openSocks \cup {sockets'}
    /\ WorkerGoes(w, "rebind")
    /\ UNCHANGED <<guiVars, sendVars, ackEvent, receiver, socketLock, channelSock,
                   reconnecting>>

(* The system refuses a socket; the worker sleeps and tries again.          *)
CreateFails(w) ==
    /\ worker[w] = "create"
    /\ ReleaseSocketLock
    /\ WorkerGoes(w, "head")
    /\ UNCHANGED <<guiVars, sendVars, ackEvent, receiver, sockVars, reconnecting>>

(* rebind_socket waits for the send_packet in progress, with _socket_lock   *)
(* held.                                                                    *)
Rebind(w) ==
    /\ worker[w] = "rebind"
    /\ sender.pc # "waiting"
    /\ channelSock' = sock
    /\ ReleaseSocketLock
    /\ WorkerGoes(w, "report")
    /\ UNCHANGED <<guiVars, sendVars, ackEvent, receiver, sock, openSocks, sockets,
                   reconnecting>>

Report(w) ==
    /\ worker[w] = "report"
    /\ failures' = 0
    /\ Enqueue(<<"packet", "packet">>)
    /\ WorkerGoes(w, "clear")
    /\ UNCHANGED <<guiVars, sender, ackEvent, receiver, socketLock, sockVars,
                   reconnecting>>

ClearFlag(w) ==
    /\ worker[w] = "clear"
    /\ reconnecting' = FlagOfNoWorker
    /\ WorkerGoes(w, "none")
    /\ UNCHANGED <<guiVars, sendVars, ackEvent, receiver, socketLock, sockVars>>

WorkerStep(w) ==
    \/ WorkerHead(w) \/ CloseOld(w) \/ CreateNew(w) \/ CreateFails(w) \/ Rebind(w)
    \/ Report(w) \/ ClearFlag(w)
------------------------------------------------------------------------------
Next ==
    \/ Start
    \/ \E p \in {"packet", "oversize"} : GuiSends(p)
    \/ Beat
    \/ CloseBegins \/ CloseStops \/ CloseEnds
    \/ SendStep
    \/ RecvStep
    \/ \E w \in Workers : WorkerStep(w)

Spec == Init /\ [][Next]_vars

(* Threads are scheduled and get the locks they wait for, the heartbeat     *)
(* loop beats, and a close that has begun goes on.  No ACK need arrive, no  *)
(* socket need be granted, and the connection need not be closed.           *)
Fairness ==
    /\ WF_vars(CloseStops \/ CloseEnds)
    /\ WF_vars(Beat)
    /\ WF_vars(SendStep)
    /\ WF_vars(RecvStep)
    /\ \A w \in Workers : WF_vars(WorkerStep(w))

FairSpec == Spec /\ Fairness
------------------------------------------------------------------------------
TypeOK ==
    /\ gui \in {"new", "started", "queued", "pausing", "closed"}
    /\ stopEvent \in BOOLEAN
    /\ sendQueue \in Seq(Packets) /\ Len(sendQueue) <= QueueSize
    /\ sender \in [pc : {"none", "head", "get", "send", "waiting", "ended"},
                   packet : Packets \cup {"none"}]
    /\ failures \in 0..3
    /\ ackEvent \in BOOLEAN
    /\ receiver \in [pc : {"none", "head", "lock", "recvfrom", "ended"}, sock : 0..sockets]
    /\ socketLock \in Workers \cup {None}
    /\ sock \in 1..sockets
    /\ channelSock \in 1..sockets
    /\ openSocks \subseteq 1..sockets
    /\ sockets \in 1..MaxSockets
    /\ worker \in [Workers -> {"none", "head", "lock", "create", "rebind", "report", "clear"}]
    /\ reconnecting \in BOOLEAN

(* _reconnect_in_progress lets no second worker start while one is at work. *)
AtWork(w) == worker[w] # "none"

SingleWorker == \A v, w \in Workers : AtWork(v) /\ AtWork(w) => v = w

(* A connection has no socket open but the one in self.sock, and whoever    *)
(* can take _socket_lock finds the channel on that same socket.             *)
OneSocket ==
    /\ openSocks \subseteq {sock}
    /\ socketLock = None => channelSock = sock

(* After a third failure in a row there is a success, or a worker is at     *)
(* work, or the loop that counts them ends, whatever moment the last worker *)
(* chose to reset the counter and to clear its flag.                        *)
ReconnectIsTried ==
    failures = 3 ~> \/ failures < 3
                    \/ \E w \in Workers : AtWork(w)
                    \/ sender.pc = "ended"

(* close comes to its end, though it waits for _socket_lock, whose holder   *)
(* may wait for _send_lock, whose holder may wait for an ACK.               *)
CloseReturns == gui = "queued" ~> gui = "closed"

(* The inductive invariant behind SingleWorker and OneSocket: the flag is   *)
(* set as long as a worker is at work; _socket_lock is held by the worker   *)
(* that replaces the socket; until it has opened the new one, none is open. *)
Replacing(w) == worker[w] \in {"create", "rebind"}

WorkerInv ==
    /\ SingleWorker
    /\ \A w \in Workers : AtWork(w) => reconnecting
    /\ \A w \in Workers : Replacing(w) <=> socketLock = w

SocketInv ==
    /\ OneSocket
    /\ \A w \in Workers : worker[w] = "create" => openSocks = {} /\ channelSock = sock

ClientInv == TypeOK /\ WorkerInv /\ SocketInv

(* Once _stop_event is set every thread of the connection ends.             *)
ThreadsEnd ==
    stopEvent ~> /\ sender.pc \in {"none", "ended"}
                 /\ receiver.pc \in {"none", "ended"}
                 /\ \A w \in Workers : ~ AtWork(w)
==============================================================================
