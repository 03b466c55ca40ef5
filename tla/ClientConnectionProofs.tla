----------------------- MODULE ClientConnectionProofs -----------------------
(***************************************************************************)
(* ClientInv is inductive, hence a connection never has two reconnect      *)
(* workers and never two open sockets, for any number of workers that      *)
(* might exist, any capacity of the queue and any number of sockets.       *)
(***************************************************************************)
EXTENDS ClientConnection, TLAPS

(* What the queue keeps is packets, no more than it has room for.           *)
LEMMA FittingFits ==
    ASSUME NEW q \in Seq(Packets)
    PROVE  Fitting(q) \in Seq(Packets) /\ Len(Fitting(q)) <= QueueSize
<1>1. QueueSize \in Nat \ {0}
  BY ClientAssumption
<1>2. CASE Len(q) <= QueueSize
  BY <1>2 DEF Fitting
<1>3. CASE ~ (Len(q) <= QueueSize)
  <2>1. Fitting(q) = SubSeq(q, 1, QueueSize) /\ QueueSize \in 1..Len(q)
    BY <1>1, <1>3 DEF Fitting
  <2> QED
    BY <1>1, <2>1
<1> QED
  BY <1>2, <1>3

QueueOK == sendQueue \in Seq(Packets) /\ Len(sendQueue) <= QueueSize

LEMMA EnqueueStep ==
    ASSUME QueueOK, NEW ps \in Seq(Packets), Enqueue(ps)
    PROVE  QueueOK'
<1>1. sendQueue \o ps \in Seq(Packets)
  BY DEF QueueOK
<1> QED
  BY <1>1, FittingFits, ClientAssumption DEF Enqueue, QueueOK

LEMMA EnqueueOne ==
    ASSUME QueueOK, NEW p \in Packets, Enqueue(<<p>>)
    PROVE  QueueOK'
<1>1. <<p>> \in Seq(Packets)
  OBVIOUS
<1> QED
  BY <1>1, EnqueueStep

LEMMA EnqueueTwo ==
    ASSUME QueueOK, NEW p \in Packets, Enqueue(<<p, p>>)
    PROVE  QueueOK'
<1>1. <<p, p>> \in Seq(Packets)
  OBVIOUS
<1> QED
  BY <1>1, EnqueueStep

LEMMA DequeueStep ==
    ASSUME QueueOK, sendQueue # <<>>, sendQueue' = Tail(sendQueue)
    PROVE  QueueOK' /\ Head(sendQueue) \in Packets
<1>1. QueueSize \in Nat
  BY ClientAssumption
<1> QED
  BY <1>1 DEF QueueOK

------------------------------------------------------------------------------
(* Types *)

LEMMA TypeInit == Init => TypeOK
<1> SUFFICES ASSUME Init PROVE TypeOK
  OBVIOUS
<1>1. sendQueue \in Seq(Packets) /\ Len(sendQueue) <= QueueSize
  BY ClientAssumption DEF Init
<1>2. sockets \in 1..MaxSockets /\ sock \in 1..sockets /\ channelSock \in 1..sockets
      /\ openSocks \subseteq 1..sockets
  BY ClientAssumption DEF Init
<1>3. receiver \in [pc : {"none", "head", "lock", "recvfrom", "ended"}, sock : 0..sockets]
  BY DEF Init
<1>4. sender \in [pc : {"none", "head", "get", "send", "waiting", "ended"},
                 packet : Packets \cup {"none"}]
  BY DEF Init
<1>5. worker \in [Workers -> {"none", "head", "lock", "create", "rebind", "report", "clear"}]
  BY DEF Init
<1>6. /\ gui \in {"new", "started", "queued", "pausing", "closed"}
      /\ stopEvent \in BOOLEAN /\ ackEvent \in BOOLEAN /\ reconnecting \in BOOLEAN
  BY Zenon DEF Init
<1>7. /\ failures \in 0..3
      /\ socketLock \in Workers \cup {None}
  BY DEF Init
<1> QED
  BY <1>1, <1>2, <1>3, <1>4, <1>5, <1>6, <1>7 DEF TypeOK

LEMMA GuiTypes ==
    ASSUME TypeOK,
           \/ Start \/ (\E p \in {"packet", "oversize"} : GuiSends(p)) \/ Beat
           \/ CloseBegins \/ CloseStops \/ CloseEnds
    PROVE  TypeOK'
<1> USE DEF guiVars, sendVars, sockVars, workVars
<1>q. QueueOK
  BY DEF TypeOK, QueueOK
<1>1. CASE Start
  <2>1. QueueOK'
    BY <1>1, <1>q, EnqueueOne DEF Start, Packets
  <2> QED
    BY <1>1, <2>1 DEF Start, TypeOK, QueueOK, Idle
<1>2. CASE \E p \in {"packet", "oversize"} : GuiSends(p)
  <2>1. QueueOK'
    BY <1>2, <1>q, EnqueueOne DEF GuiSends, Packets
  <2> QED
    BY <1>2, <2>1 DEF GuiSends, TypeOK, QueueOK
<1>3. CASE Beat
  <2>1. QueueOK'
    BY <1>3, <1>q, EnqueueOne DEF Beat, Packets
  <2> QED
    BY <1>3, <2>1 DEF Beat, TypeOK, QueueOK
<1>4. CASE CloseBegins
  <2>1. QueueOK'
    BY <1>4, <1>q, EnqueueOne DEF CloseBegins, Packets
  <2> QED
    BY <1>4, <2>1 DEF CloseBegins, TypeOK, QueueOK
<1>5. CASE CloseStops \/ CloseEnds
  BY <1>5 DEF CloseStops, CloseEnds, TypeOK
<1> QED
  BY <1>1, <1>2, <1>3, <1>4, <1>5

LEMMA SendTypes ==
    ASSUME TypeOK, SendStep
    PROVE  TypeOK'
<1> USE DEF guiVars, sendVars, sockVars, workVars
<1>1. CASE SendLoopHead \/ Transmit
  BY <1>1 DEF SendLoopHead, Transmit, TypeOK
<1>1a. CASE NothingQueued \/ SendLoopDies
  <2>1. sender' \in [pc : {"none", "head", "get", "send", "waiting", "ended"},
                    packet : Packets \cup {"none"}]
    BY <1>1a DEF NothingQueued, SendLoopDies, Idle
  <2>2. UNCHANGED <<guiVars, sendQueue, failures, ackEvent, receiver, socketLock,
                    sockVars, workVars>>
    BY <1>1a DEF NothingQueued, SendLoopDies
  <2> QED
    BY <2>1, <2>2 DEF TypeOK
<1>1b. CASE Confirmed
  BY <1>1b DEF Confirmed, TypeOK, Idle
<1>2. CASE Dequeue
  <2>1. QueueOK' /\ Head(sendQueue) \in Packets
    BY <1>2, DequeueStep DEF Dequeue, TypeOK, QueueOK
  <2> QED
    BY <1>2, <2>1 DEF Dequeue, TypeOK, QueueOK
<1>3. CASE SendFails
  <2>1. failures' \in 0..3
    BY <1>3 DEF SendFails, TypeOK
  <2>2. worker' \in [Workers -> {"none", "head", "lock", "create", "rebind", "report", "clear"}]
        /\ reconnecting' \in BOOLEAN
    BY <1>3 DEF SendFails, MaybeReconnect, TypeOK
  <2> QED
    BY <1>3, <2>1, <2>2 DEF SendFails, TypeOK, Idle
<1> QED
  BY <1>1, <1>1a, <1>1b, <1>2, <1>3 DEF SendStep

LEMMA RecvTypes ==
    ASSUME TypeOK, RecvStep
    PROVE  TypeOK'
<1> USE DEF guiVars, sendVars, sockVars, workVars
<1> DEFINE Receivers == [pc : {"none", "head", "lock", "recvfrom", "ended"}, sock : 0..sockets]
<1>1. sock \in 0..sockets /\ 0 \in 0..sockets
  BY DEF TypeOK
<1>2. receiver' \in Receivers
  <2>1. receiver \in Receivers
    BY DEF TypeOK
  <2>2. CASE RecvLoopHead
    BY <2>1, <2>2 DEF RecvLoopHead
  <2>3. CASE TakeSocket
    BY <1>1, <2>3 DEF TakeSocket
  <2>4. CASE NothingReceived \/ GetAck
    BY <1>1, <2>4 DEF NothingReceived, GetAck
  <2> QED
    BY <2>2, <2>3, <2>4 DEF RecvStep
<1>3. ackEvent' \in BOOLEAN
  BY DEF RecvStep, RecvLoopHead, TakeSocket, NothingReceived, GetAck, TypeOK
<1>4. UNCHANGED <<guiVars, sendVars, socketLock, sockVars, workVars>>
  BY DEF RecvStep, RecvLoopHead, TakeSocket, NothingReceived, GetAck
<1> QED
  BY <1>2, <1>3, <1>4 DEF TypeOK

LEMMA WorkerTypes ==
    ASSUME TypeOK, NEW w \in Workers, WorkerStep(w)
    PROVE  TypeOK'
<1> USE DEF guiVars, sendVars, sockVars, workVars, WorkerGoes
<1>1. CASE WorkerHead(w)
  BY <1>1 DEF WorkerHead, AfterLoopTest, TypeOK
<1>2. CASE CloseOld(w)
  BY <1>2 DEF CloseOld, SocketToReplace, TypeOK
<1>3. CASE CreateNew(w)
  <2>1. sockets' = sockets + 1 /\ sockets' \in 1..MaxSockets /\ sock' = sockets'
    BY <1>3, ClientAssumption DEF CreateNew, TypeOK
  <2>2. \A i \in 1..sockets : i \in 1..sockets'
    BY <2>1 DEF TypeOK
  <2>3. \A i \in 0..sockets : i \in 0..sockets'
    BY <2>1 DEF TypeOK
  <2>4. channelSock' \in 1..sockets' /\ openSocks' \subseteq 1..sockets' /\ sock' \in 1..sockets'
    BY <1>3, <2>1, <2>2 DEF CreateNew, TypeOK
  <2>5. receiver' \in [pc : {"none", "head", "lock", "recvfrom", "ended"}, sock : 0..sockets']
    BY <1>3, <2>3 DEF CreateNew, TypeOK
  <2> QED
    BY <1>3, <2>1, <2>4, <2>5 DEF CreateNew, TypeOK
<1>4. CASE CreateFails(w)
  BY <1>4 DEF CreateFails, ReleaseSocketLock, TypeOK
<1>5. CASE Rebind(w)
  BY <1>5 DEF Rebind, ReleaseSocketLock, TypeOK
<1>6. CASE Report(w)
  <2>1. QueueOK'
    BY <1>6, EnqueueTwo DEF Report, Packets, TypeOK, QueueOK
  <2> QED
    BY <1>6, <2>1 DEF Report, TypeOK, QueueOK
<1>7. CASE ClearFlag(w)
  <2>1. reconnecting' \in BOOLEAN
    BY <1>7 DEF ClearFlag, FlagOfNoWorker
  <2>2. worker' \in [Workers -> {"none", "head", "lock", "create", "rebind", "report", "clear"}]
    BY <1>7 DEF ClearFlag, TypeOK
  <2> QED
    BY <1>7, <2>1, <2>2 DEF ClearFlag, TypeOK
<1> QED
  BY <1>1, <1>2, <1>3, <1>4, <1>5, <1>6, <1>7 DEF WorkerStep

LEMMA TypeStep == TypeOK /\ [Next]_vars => TypeOK'
<1> SUFFICES ASSUME TypeOK, [Next]_vars PROVE TypeOK'
  OBVIOUS
<1>1. CASE UNCHANGED vars
  BY <1>1 DEF vars, guiVars, sendVars, sockVars, workVars, TypeOK
<1> QED
  BY <1>1, GuiTypes, SendTypes, RecvTypes, WorkerTypes DEF Next

------------------------------------------------------------------------------
(* The reconnect workers *)

LEMMA WorkerInit == Init => WorkerInv
BY ClientAssumption DEF Init, WorkerInv, SingleWorker, AtWork, Replacing

(* A step of one worker that leaves the flag alone or ends the worker.      *)
LEMMA OneWorkerGoes ==
    ASSUME TypeOK, WorkerInv, NEW w \in Workers, AtWork(w), NEW s, WorkerGoes(w, s),
           s \in {"none", "head", "lock", "create", "rebind", "report", "clear"},
           s # "none" => UNCHANGED reconnecting,
           s \in {"create", "rebind"} => socketLock' = w,
           s \notin {"create", "rebind"} =>
              \/ Replacing(w) /\ socketLock' = None
              \/ ~ Replacing(w) /\ UNCHANGED socketLock
    PROVE  WorkerInv'
<1>1. /\ worker'[w] = s
      /\ \A v \in Workers : v # w => ~ AtWork(v) /\ worker'[v] = worker[v]
  BY DEF WorkerGoes, TypeOK, WorkerInv, SingleWorker
<1>2. SingleWorker'
  BY <1>1 DEF SingleWorker, AtWork
<1>3. \A v \in Workers : AtWork(v)' => reconnecting'
  BY <1>1 DEF AtWork, WorkerInv
<1>4. \A v \in Workers : Replacing(v)' <=> socketLock' = v
  BY <1>1, ClientAssumption DEF AtWork, WorkerInv, Replacing
<1> QED
  BY <1>2, <1>3, <1>4 DEF WorkerInv

LEMMA WorkerSteps ==
    ASSUME TypeOK, WorkerInv, NEW w \in Workers, WorkerStep(w)
    PROVE  WorkerInv'
<1> USE DEF AtWork, Replacing, workVars
<1>1. CASE WorkerHead(w)
  BY <1>1, OneWorkerGoes DEF WorkerHead, AfterLoopTest
<1>2. CASE CloseOld(w)
  BY <1>2, OneWorkerGoes DEF CloseOld
<1>3. CASE CreateNew(w)
  <2>1. socketLock = w
    BY <1>3 DEF CreateNew, WorkerInv
  <2> QED
    BY <1>3, <2>1, OneWorkerGoes DEF CreateNew
<1>4. CASE CreateFails(w)
  BY <1>4, OneWorkerGoes DEF CreateFails, ReleaseSocketLock
<1>5. CASE Rebind(w)
  BY <1>5, OneWorkerGoes DEF Rebind, ReleaseSocketLock
<1>6. CASE Report(w)
  BY <1>6, OneWorkerGoes DEF Report
<1>7. CASE ClearFlag(w)
  BY <1>7, OneWorkerGoes DEF ClearFlag
<1> QED
  BY <1>1, <1>2, <1>3, <1>4, <1>5, <1>6, <1>7 DEF WorkerStep

(* The step that starts a worker: the flag says there is none.              *)
LEMMA SendFailsStep ==
    ASSUME TypeOK, WorkerInv, SendFails
    PROVE  WorkerInv'
<1>1. UNCHANGED socketLock
  BY DEF SendFails
<1>2. CASE failures' = 3 /\ MayReconnect
  <2>1. \A w \in Workers : ~ AtWork(w)
    BY <1>2, Zenon DEF MayReconnect, WorkerInv
  <2>2. NewWorker \in Workers
    BY <2>1, ClientAssumption, Zenon DEF NewWorker, AtWork
  <2>3. worker' = [worker EXCEPT ![NewWorker] = "head"] /\ reconnecting'
    BY <1>2 DEF SendFails, MaybeReconnect
  <2>4. \A w \in Workers : AtWork(w)' => w = NewWorker /\ worker'[w] = "head"
    BY <2>1, <2>2, <2>3 DEF TypeOK, AtWork
  <2>5. \A w \in Workers : ~ Replacing(w)
    BY <2>1 DEF AtWork, Replacing
  <2>6. \A w \in Workers : ~ Replacing(w)'
    BY <2>4 DEF AtWork, Replacing
  <2> QED
    BY <1>1, <2>3, <2>4, <2>5, <2>6 DEF WorkerInv, SingleWorker
<1>3. CASE ~ (failures' = 3 /\ MayReconnect)
  <2>1. UNCHANGED workVars
    BY <1>3 DEF SendFails, MaybeReconnect
  <2> QED
    BY <1>1, <2>1 DEF workVars, WorkerInv, SingleWorker, AtWork, Replacing
<1> QED
  BY <1>2, <1>3

LEMMA WorkerInvStep == TypeOK /\ WorkerInv /\ [Next]_vars => WorkerInv'
<1> SUFFICES ASSUME TypeOK, WorkerInv, [Next]_vars PROVE WorkerInv'
  OBVIOUS
<1>1. CASE \E w \in Workers : WorkerStep(w)
  BY <1>1, WorkerSteps
<1>2. CASE SendFails
  BY <1>2, SendFailsStep
<1>3. CASE ~ (\E w \in Workers : WorkerStep(w)) /\ ~ SendFails
  <2>1. UNCHANGED <<workVars, socketLock>>
    BY <1>3 DEF Next, SendStep, RecvStep, Start, GuiSends, Beat, CloseBegins, CloseStops,
       CloseEnds, SendLoopHead, Dequeue, NothingQueued, Transmit, SendLoopDies, Confirmed,
       RecvLoopHead, TakeSocket, NothingReceived, GetAck, vars
  <2> QED
    BY <2>1 DEF workVars, WorkerInv, SingleWorker, AtWork, Replacing
<1> QED
  BY <1>1, <1>2, <1>3

------------------------------------------------------------------------------
(* The sockets *)

LEMMA SocketInit == Init => SocketInv
BY DEF Init, SocketInv, OneSocket

LEMMA SocketStep == TypeOK /\ WorkerInv /\ SocketInv /\ [Next]_vars => SocketInv'
<1> SUFFICES ASSUME TypeOK, WorkerInv, SocketInv, [Next]_vars PROVE SocketInv'
  OBVIOUS
<1> USE DEF SocketInv, OneSocket, sockVars, workVars, WorkerGoes
<1>1. ASSUME NEW w \in Workers, WorkerStep(w) PROVE SocketInv'
  <2>o. ASSUME NEW v \in Workers, v # w, AtWork(w) PROVE worker[v] # "create"
    BY <2>o DEF WorkerInv, SingleWorker, AtWork
  <2>1. CASE CloseOld(w)
    <3>1. socketLock' = w /\ openSocks' = {} /\ UNCHANGED <<sock, channelSock>>
      BY <2>1 DEF CloseOld, SocketToReplace
    <3>2. channelSock = sock
      BY <2>1 DEF CloseOld
    <3> QED
      BY <3>1, <3>2, ClientAssumption
  <2>2. CASE CreateNew(w)
    <3>1. openSocks' = {sock'} /\ socketLock' = w
      BY <2>2 DEF CreateNew, WorkerInv, Replacing
    <3>2. \A v \in Workers : worker'[v] # "create"
      BY <2>2, <2>o DEF CreateNew, AtWork, TypeOK
    <3> QED
      BY <3>1, <3>2, ClientAssumption
  <2>3. CASE CreateFails(w) \/ Rebind(w)
    <3>1. channelSock' = sock' /\ openSocks' \subseteq {sock'}
      BY <2>3 DEF CreateFails, Rebind
    <3>2. \A v \in Workers : worker'[v] # "create"
      BY <2>3, <2>o DEF CreateFails, Rebind, AtWork, TypeOK
    <3> QED
      BY <3>1, <3>2
  <2>4. CASE WorkerHead(w) \/ Report(w) \/ ClearFlag(w)
    <3>1. UNCHANGED <<socketLock, sock, channelSock, openSocks>>
      BY <2>4 DEF WorkerHead, Report, ClearFlag
    <3>2. \A v \in Workers : worker'[v] # "create"
      BY <2>4, <2>o DEF WorkerHead, Report, ClearFlag, AtWork, TypeOK, AfterLoopTest
    <3> QED
      BY <3>1, <3>2
  <2> QED
    BY <1>1, <2>1, <2>2, <2>3, <2>4 DEF WorkerStep
<1>2. CASE CloseEnds
  BY <1>2 DEF CloseEnds
<1>3. CASE SendFails
  <2>1. UNCHANGED <<socketLock, sock, channelSock, openSocks>>
    BY <1>3 DEF SendFails
  <2>2. \A w \in Workers : worker'[w] = "create" => worker[w] = "create"
    BY <1>3 DEF SendFails, MaybeReconnect, TypeOK
  <2> QED
    BY <2>1, <2>2
<1>4. CASE ~ (\E w \in Workers : WorkerStep(w)) /\ ~ CloseEnds /\ ~ SendFails
  <2>1. UNCHANGED <<socketLock, sock, channelSock, openSocks, worker>>
    BY <1>4 DEF Next, SendStep, RecvStep, Start, GuiSends, Beat, CloseBegins, CloseStops,
       SendLoopHead, Dequeue, NothingQueued, Transmit, SendLoopDies, Confirmed,
       RecvLoopHead, TakeSocket, NothingReceived, GetAck, vars
  <2> QED
    BY <2>1
<1> QED
  BY <1>1, <1>2, <1>3, <1>4

------------------------------------------------------------------------------
(* ClientInv holds in every reachable state: types, then the workers, then  *)
(* the sockets they replace under _socket_lock.                             *)
THEOREM ClientInvariant == Spec => []ClientInv
<1>1. Init => ClientInv
  BY TypeInit, WorkerInit, SocketInit DEF ClientInv
<1>2. ClientInv /\ [Next]_vars => ClientInv'
  BY TypeStep, WorkerInvStep, SocketStep DEF ClientInv
<1> QED
  BY <1>1, <1>2, PTL DEF Spec

(* The variables of the connection keep their types; the send queue never   *)
(* exceeds its capacity.                                                    *)
THEOREM ClientTypes == Spec => []TypeOK
<1>1. ClientInv => TypeOK
  BY DEF ClientInv
<1> QED
  BY <1>1, ClientInvariant, PTL

(* _reconnect_in_progress keeps _maybe_reconnect from starting a worker     *)
(* while there is one.                                                      *)
THEOREM OneWorkerAtATime == Spec => []SingleWorker
<1>1. ClientInv => SingleWorker
  BY DEF ClientInv, WorkerInv
<1> QED
  BY <1>1, ClientInvariant, PTL

(* close and the workers never leave a socket open but the one in           *)
(* self.sock, and the channel uses that one when _socket_lock is free.      *)
THEOREM OneOpenSocket == Spec => []OneSocket
<1>1. ClientInv => OneSocket
  BY DEF ClientInv, SocketInv
<1> QED
  BY <1>1, ClientInvariant, PTL
==============================================================================
