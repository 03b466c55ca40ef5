--------------------------- MODULE ReliableChannel ---------------------------
(***************************************************************************)
(* One direction of a connection as transport.py implements it: the        *)
(* stop-and-wait sender (send_packet, called by any number of threads,     *)
(* and rebind_socket), the ACK half of accept that runs on the sender's    *)
(* receive thread, and the data half of accept that runs on the peer's.    *)
(*                                                                         *)
(* The n-th call of send_packet carries message n.  A datagram is          *)
(* [seq, body]: the sequence number written in the header, which is cut    *)
(* to the width of the field, and the message it carries.  UDP is a set of *)
(* datagrams that only grows: one that is never received was lost, one     *)
(* received twice was duplicated, and any order of reception is possible.  *)
(***************************************************************************)
EXTENDS Naturals, Sequences

CONSTANTS
    Threads,       \* threads that send on this channel
    None,          \* holder of a lock that is free
    MaxRetries,    \* max_retries: transmissions of one packet
    MaxSequence,   \* bound: calls of send_packet considered
    SeqSpace       \* size of the header's sequence field, 2^32

ASSUME ChannelAssumption ==
    /\ None \notin Threads
    /\ MaxRetries \in Nat \ {0}
    /\ MaxSequence \in Nat
    /\ SeqSpace \in Nat \ {0}

VARIABLES
    pc,            \* where each thread is in send_packet
    sequence,      \* the local variable of that name in send_packet
    attempt,       \* the loop variable of that name in send_packet
    sendLock,      \* _send_lock: the thread that holds it, or None
    nextSequence,  \* _next_sequence
    pendingAck,    \* keys of _pending_ack
    eventSet,      \* messages whose threading.Event is set
    ackRef,        \* the event the receive thread looked up, 0 if none
    confirmed,     \* history: messages whose send_packet returned
    failed,        \* history: messages whose send_packet raised
    data, acks,    \* datagrams ever sent each way
    hand,          \* packet the peer acknowledged and has not yet filtered
    lastDelivered, \* _last_delivered_sequence of the peer
    delivered      \* history: messages accept returned, in order

senderVars == <<pc, sequence, attempt, sendLock, nextSequence, pendingAck,
                confirmed, failed>>
eventVars == <<eventSet, ackRef>>
peerVars == <<hand, lastDelivered, delivered>>
vars == <<senderVars, eventVars, data, acks, peerVars>>

Messages == 1..MaxSequence
NoPacket == [seq |-> 0, body |-> 0]
Packet(n) == [seq |-> n % SeqSpace, body |-> n]   \* Packet.encode masks the number

Init ==
    /\ pc = [t \in Threads |-> "idle"]
    /\ sequence = [t \in Threads |-> 0]
    /\ attempt = [t \in Threads |-> 0]
    /\ sendLock = None
    /\ nextSequence = 1
    /\ pendingAck = {}
    /\ eventSet = {}
    /\ ackRef = 0
    /\ confirmed = {}
    /\ failed = {}
    /\ data = {}
    /\ acks = {}
    /\ hand = NoPacket
    /\ lastDelivered = 0
    /\ delivered = <<>>

------------------------------------------------------------------------------
(* Faulty variants of the definitions below; the checks of this project use *)
(* them to show that each property can fail.                                *)

ForgetfulFilter(s) == s < lastDelivered
LaxRetryLimit(t) == attempt[t] > MaxRetries
AttemptNotCounted(t) == attempt[t]
IgnoredLock == TRUE
UnmatchedLookup(s) == IF pendingAck = {} THEN 0 ELSE CHOOSE n \in pendingAck : TRUE
FilterNeverRuns == FALSE
------------------------------------------------------------------------------
(* send_packet *)

SendLockFree == sendLock = None

(* A number is reserved and its event registered, under _send_lock.         *)
Reserve ==
    /\ SendLockFree
    /\ nextSequence \in Messages
    /\ nextSequence' = nextSequence + 1
    /\ pendingAck' = pendingAck \cup {nextSequence}

BeginSend(t) ==
    /\ pc[t] = "idle"
    /\ Reserve
    /\ sequence' = [sequence EXCEPT ![t] = nextSequence]
    /\ attempt' = [attempt EXCEPT ![t] = 1]
    /\ pc' = [pc EXCEPT ![t] = "send"]
    /\ sendLock' = t
    /\ UNCHANGED <<confirmed, failed, eventVars, data, acks, peerVars>>

(* The payload does not fit the length field: encode raises, which leaves   *)
(* the event registered.                                                    *)
EncodeError(t) ==
    /\ pc[t] = "idle"
    /\ Reserve
    /\ failed' = failed \cup {nextSequence}
    /\ UNCHANGED <<pc, sequence, attempt, sendLock, confirmed, eventVars, data,
                   acks, peerVars>>

(* The three ways out of send_packet: the event is unregistered and the     *)
(* lock released.                                                           *)
EndSend(t) ==
    /\ pendingAck' = pendingAck \ {sequence[t]}
    /\ pc' = [pc EXCEPT ![t] = "idle"]
    /\ sendLock' = None

Transmit(t) ==
    /\ pc[t] = "send"
    /\ data' = data \cup {Packet(sequence[t])}
    /\ pc' = [pc EXCEPT ![t] = "wait"]
    /\ UNCHANGED <<sequence, attempt, sendLock, nextSequence, pendingAck,
                   confirmed, failed, eventVars, acks, peerVars>>

SocketError(t) ==
    /\ pc[t] = "send"
    /\ EndSend(t)
    /\ failed' = failed \cup {sequence[t]}
    /\ UNCHANGED <<sequence, attempt, nextSequence, confirmed, eventVars,
                   data, acks, peerVars>>

AckArrived(t) ==
    /\ pc[t] = "wait"
    /\ sequence[t] \in eventSet
    /\ EndSend(t)
    /\ confirmed' = confirmed \cup {sequence[t]}
    /\ UNCHANGED <<sequence, attempt, nextSequence, failed, eventVars,
                   data, acks, peerVars>>

LastAttempt(t) == attempt[t] = MaxRetries
NextAttempt(t) == attempt[t] + 1

Timeout(t) ==
    /\ pc[t] = "wait"
    /\ sequence[t] \notin eventSet
    /\ \/ /\ ~ LastAttempt(t)
          /\ attempt' = [attempt EXCEPT ![t] = NextAttempt(t)]
          /\ pc' = [pc EXCEPT ![t] = "send"]
          /\ UNCHANGED <<sendLock, pendingAck, failed>>
       \/ /\ LastAttempt(t)
          /\ EndSend(t)
          /\ failed' = failed \cup {sequence[t]}
          /\ UNCHANGED attempt
    /\ UNCHANGED <<sequence, nextSequence, confirmed, eventVars, data, acks,
                   peerVars>>

(* rebind_socket: under both locks, so no call of send_packet is under way. *)
Rebind ==
    /\ SendLockFree
    /\ eventSet' = eventSet \cup pendingAck
    /\ pendingAck' = {}
    /\ UNCHANGED <<pc, sequence, attempt, sendLock, nextSequence, confirmed,
                   failed, ackRef, data, acks, peerVars>>
------------------------------------------------------------------------------
(* accept of an ACK, on the sender's receive thread: the event is looked up *)
(* under _state_lock and set after that lock is released.                   *)

PendingEvent(s) == IF s \in pendingAck THEN s ELSE 0

LookUpAck(s) ==
    /\ ackRef = 0
    /\ ackRef' = PendingEvent(s)
    /\ UNCHANGED <<senderVars, eventSet, data, acks, peerVars>>

SetEvent ==
    /\ ackRef # 0
    /\ eventSet' = eventSet \cup {ackRef}
    /\ ackRef' = 0
    /\ UNCHANGED <<senderVars, data, acks, peerVars>>

(* accept of a data packet, on the peer's receive thread: the ACK is sent   *)
(* first (a socket error is swallowed), the packet is filtered afterwards.  *)

AcceptAck(p) ==
    /\ hand = NoPacket
    /\ acks' \in {acks, acks \cup {p.seq}}
    /\ hand' = p
    /\ UNCHANGED <<senderVars, eventVars, data, lastDelivered, delivered>>

IsDuplicate(s) == s <= lastDelivered

FilterDue == hand # NoPacket

Filter ==
    /\ FilterDue
    /\ hand' = NoPacket
    /\ IF IsDuplicate(hand.seq)
       THEN UNCHANGED <<lastDelivered, delivered>>
       ELSE /\ lastDelivered' = hand.seq
            /\ delivered' = Append(delivered, hand.body)
    /\ UNCHANGED <<senderVars, eventVars, data, acks>>
------------------------------------------------------------------------------
SendStep(t) ==
    \/ BeginSend(t) \/ EncodeError(t)
    \/ Transmit(t) \/ SocketError(t)
    \/ AckArrived(t) \/ Timeout(t)

Next ==
    \/ \E t \in Threads : SendStep(t)
    \/ Rebind
    \/ \E s \in acks : LookUpAck(s)
    \/ SetEvent
    \/ \E p \in data : AcceptAck(p)
    \/ Filter

Spec == Init /\ [][Next]_vars

(* The threads are scheduled: a call in progress goes on, timers fire, and  *)
(* a receive thread that began to handle a packet finishes.  Nothing is     *)
(* assumed of the network, nor of a thread that waits for _send_lock.       *)
Fairness ==
    /\ \A t \in Threads : WF_vars(Transmit(t) \/ SocketError(t) \/ AckArrived(t) \/ Timeout(t))
    /\ WF_vars(SetEvent)
    /\ WF_vars(Filter)

FairSpec == Spec /\ Fairness
------------------------------------------------------------------------------
TypeOK ==
    /\ pc \in [Threads -> {"idle", "send", "wait"}]
    /\ sequence \in [Threads -> 0..MaxSequence]
    /\ attempt \in [Threads -> 0..MaxRetries]
    /\ sendLock \in Threads \cup {None}
    /\ nextSequence \in 1..(MaxSequence + 1)
    /\ pendingAck \subseteq Messages
    /\ eventSet \subseteq Messages
    /\ ackRef \in 0..MaxSequence
    /\ confirmed \subseteq Messages
    /\ failed \subseteq Messages
    /\ data \subseteq {Packet(n) : n \in Messages}
    /\ acks \subseteq Nat
    /\ hand \in data \cup {NoPacket}
    /\ lastDelivered \in Nat
    /\ delivered \in Seq(Messages)

InDelivered(n) == \E i \in 1..Len(delivered) : delivered[i] = n

(* Message n is in the application's hands, or accept has acknowledged it   *)
(* and is about to return it.                                               *)
Accepted(n) == InDelivered(n) \/ (hand.body = n /\ ~ IsDuplicate(hand.seq))

(* Messages reach the application in the order they were sent, none twice,  *)
(* whatever UDP loses, repeats or reorders and whichever sends gave up.     *)
InOrderAtMostOnce ==
    \A i, j \in 1..Len(delivered) : i < j => delivered[i] < delivered[j]

(* A call of send_packet that returns has had its message accepted by the   *)
(* peer: no late ACK, stale event or rebind makes it return for another.    *)
ConfirmedIsAccepted == \A n \in confirmed : Accepted(n)

(* Stop-and-wait: by the time a message is on the wire, the calls that sent *)
(* the messages before it are over, however many threads send.              *)
StopAndWait ==
    \A p, q \in data : p.body < q.body => p.body \in confirmed \cup failed

(* Every call of send_packet that took the lock comes to an end.            *)
SendEnds == \A t \in Threads : pc[t] # "idle" ~> pc[t] = "idle"

(* A message whose send was confirmed is in the application's hands in the  *)
(* end, though its ACK was sent before accept filtered it.                  *)
ConfirmedIsDelivered ==
    \A n \in Messages : n \in confirmed ~> InDelivered(n)

(***************************************************************************)
(* The inductive invariant, in three layers: what the calls of send_packet *)
(* keep among themselves, what is on the wire, and what the peer has.      *)
(***************************************************************************)

InCall(t) == pc[t] # "idle"
Decided == confirmed \cup failed

SenderInv ==
    /\ TypeOK
    /\ \A t \in Threads : InCall(t) <=> sendLock = t
    /\ \A t \in Threads : InCall(t) =>
          /\ attempt[t] \in 1..MaxRetries
          /\ sequence[t] = nextSequence - 1
          /\ sequence[t] \in Messages \ Decided
    /\ \A n \in pendingAck \ failed : \E t \in Threads : InCall(t) /\ sequence[t] = n
    /\ \A n \in 1..(nextSequence - 1) : n \notin Decided =>
          \E t \in Threads : InCall(t) /\ sequence[t] = n
    /\ \A n \in Decided : n < nextSequence

WireInv ==
    /\ \A p \in data : p.seq = p.body /\ p.body < nextSequence
    /\ \A s \in acks : \E p \in data : p.seq = s
    /\ StopAndWait

(* An ACK is also sent for a packet that a later one has overtaken; its     *)
(* call of send_packet is over by then, and did not return.                 *)
Explained(n) == Accepted(n) \/ n \in failed

PeerInv ==
    /\ InOrderAtMostOnce
    /\ \A i \in 1..Len(delivered) : delivered[i] <= lastDelivered
    /\ \A i \in 1..Len(delivered) : \E p \in data : p.body = delivered[i]
    /\ lastDelivered = 0 \/ InDelivered(lastDelivered)
    /\ \A n \in acks : Explained(n)
    /\ \A n \in eventSet : Explained(n)
    /\ ackRef = 0 \/ Explained(ackRef)
    /\ ConfirmedIsAccepted

ChannelInv == SenderInv /\ WireInv /\ PeerInv

(* The abstract channel.  A packet accept has acknowledged and will return  *)
(* counts as delivered already: the sender may learn of it first.           *)
Handed == IF FilterDue /\ ~ IsDuplicate(hand.seq)
          THEN Append(delivered, hand.body) ELSE delivered

Abstract == INSTANCE AtMostOnceChannel WITH
    submitted <- nextSequence - 1,
    log <- Handed

ImplementsAbstract == Abstract!ASpec
==============================================================================
