----------------------- MODULE ReliableChannelProofs -----------------------
(***************************************************************************)
(* ChannelInv is inductive, hence the safety properties of ReliableChannel *)
(* hold for any set of threads, any number of retries and of messages, as  *)
(* long as the sequence numbers have not used up their 32 bits (NoWrap).   *)
(* After that the masked number of a packet is no longer the key its event *)
(* is registered under, and nothing is claimed.                            *)
(***************************************************************************)
EXTENDS ReliableChannel, TLAPS

NoWrap == MaxSequence < SeqSpace

(* While the numbers fit the field, the header names the message.           *)
LEMMA PacketOfMessage ==
    ASSUME NoWrap, NEW n \in Messages
    PROVE  Packet(n) = [seq |-> n, body |-> n]
<1>1. n \in Nat /\ SeqSpace \in Nat /\ n < SeqSpace
  BY ChannelAssumption DEF NoWrap, Messages
<1>2. n % SeqSpace = n
  BY <1>1, SMT
<1> QED
  BY <1>2 DEF Packet

------------------------------------------------------------------------------
(* The sender *)

LEMMA SenderInit == Init => SenderInv
<1> SUFFICES ASSUME Init PROVE SenderInv
  OBVIOUS
<1>1. TypeOK
  BY ChannelAssumption DEF Init, TypeOK, Messages
<1>2. \A t \in Threads : pc[t] = "idle" /\ sendLock # t
  BY ChannelAssumption DEF Init
<1> QED
  BY <1>1, <1>2 DEF Init, SenderInv, InCall, Decided

(* A call in progress holds the lock, so it is the only one.                *)
LEMMA OneCall ==
    ASSUME SenderInv, NEW t \in Threads, NEW u \in Threads, InCall(t), InCall(u)
    PROVE  t = u
BY DEF SenderInv

(* Ending a call: the conjuncts of SenderInv all three ways out preserve,   *)
(* given that they decide the message of the call and no other.             *)
LEMMA EndSendStep ==
    ASSUME SenderInv, NEW t \in Threads, InCall(t), EndSend(t), TypeOK',
           Decided' = Decided \cup {sequence[t]}, failed \subseteq failed',
           UNCHANGED <<sequence, attempt, nextSequence>>
    PROVE  SenderInv'
<1>1. pc' = [pc EXCEPT ![t] = "idle"] /\ sendLock' = None
  BY DEF EndSend
<1>2. \A u \in Threads : ~ InCall(u)'
  BY <1>1, OneCall DEF InCall, SenderInv, TypeOK
<1>3. \A u \in Threads : InCall(u)' <=> sendLock' = u
  BY <1>1, <1>2, ChannelAssumption
<1>4. \A n \in pendingAck' \ failed' : FALSE
  BY OneCall DEF EndSend, SenderInv, InCall
<1>5. \A n \in (1..(nextSequence - 1))' : n \in Decided'
  BY OneCall DEF SenderInv
<1>6. \A n \in Decided' : n < nextSequence'
  BY DEF SenderInv, TypeOK, Messages
<1> QED
  BY <1>2, <1>3, <1>4, <1>5, <1>6 DEF SenderInv

LEMMA SenderStep == NoWrap /\ SenderInv /\ [Next]_vars => SenderInv'
<1> SUFFICES ASSUME NoWrap, SenderInv, [Next]_vars PROVE SenderInv'
  OBVIOUS
<1> USE ChannelAssumption
<1>t. TypeOK
  BY DEF SenderInv
<1>1. ASSUME NEW t \in Threads, BeginSend(t) PROVE SenderInv'
  <2>1. \A u \in Threads : ~ InCall(u)
    BY <1>1 DEF BeginSend, Reserve, SendLockFree, SenderInv
  <2>2. /\ nextSequence \in 1..MaxSequence
        /\ nextSequence' = nextSequence + 1
        /\ pendingAck' = pendingAck \cup {nextSequence}
        /\ sequence' = [sequence EXCEPT ![t] = nextSequence]
        /\ attempt' = [attempt EXCEPT ![t] = 1]
        /\ pc' = [pc EXCEPT ![t] = "send"]
        /\ sendLock' = t
        /\ UNCHANGED <<confirmed, failed, eventVars, data, acks, peerVars>>
    BY <1>1 DEF BeginSend, Reserve, Messages
  <2>3. /\ sequence' \in [Threads -> 0..MaxSequence]
        /\ attempt' \in [Threads -> 0..MaxRetries]
        /\ pc' \in [Threads -> {"idle", "send", "wait"}]
    BY <1>t, <2>2 DEF TypeOK
  <2>4. nextSequence' \in 1..(MaxSequence + 1) /\ pendingAck' \subseteq Messages
    BY <1>t, <2>2 DEF TypeOK, Messages
  <2>5. TypeOK'
    BY <1>t, <2>2, <2>3, <2>4 DEF TypeOK, eventVars, peerVars
  <2>6. \A u \in Threads : InCall(u)' <=> u = t
    BY <2>1, <2>2, <1>t DEF InCall, TypeOK
  <2>7. sequence'[t] = nextSequence /\ attempt'[t] = 1 /\ nextSequence \notin Decided
    BY <2>2, <1>t DEF SenderInv, TypeOK
  <2>8. /\ attempt'[t] \in 1..MaxRetries
        /\ sequence'[t] = nextSequence' - 1
        /\ sequence'[t] \in Messages \ Decided'
    BY <2>2, <2>7, <1>t, ChannelAssumption DEF TypeOK, Decided, Messages
  <2>9. \A n \in pendingAck' \ failed' : n = sequence'[t]
    BY <2>1, <2>2, <2>7 DEF SenderInv
  <2>10. \A n \in 1..(nextSequence' - 1) : n \notin Decided' => n = sequence'[t]
    BY <2>1, <2>2, <2>7, <1>t DEF SenderInv, TypeOK, Decided
  <2>11. \A n \in Decided' : n < nextSequence'
    BY <2>2, <1>t DEF SenderInv, TypeOK, Decided, Messages
  <2>12. \A u \in Threads : InCall(u)' <=> sendLock' = u
    BY <2>2, <2>6
  <2> QED
    BY <2>5, <2>6, <2>8, <2>9, <2>10, <2>11, <2>12 DEF SenderInv
<1>1a. ASSUME NEW t \in Threads, EncodeError(t) PROVE SenderInv'
  <2>1. \A u \in Threads : ~ InCall(u)
    BY <1>1a DEF EncodeError, Reserve, SendLockFree, SenderInv
  <2>2. /\ nextSequence \in 1..MaxSequence
        /\ nextSequence' = nextSequence + 1
        /\ pendingAck' = pendingAck \cup {nextSequence}
        /\ failed' = failed \cup {nextSequence}
        /\ UNCHANGED <<pc, sequence, attempt, sendLock, confirmed, eventVars,
                       data, acks, peerVars>>
    BY <1>1a DEF EncodeError, Reserve, Messages
  <2>3. nextSequence' \in 1..(MaxSequence + 1) /\ pendingAck' \subseteq Messages
        /\ failed' \subseteq Messages
    BY <1>t, <2>2 DEF TypeOK, Messages
  <2>4. TypeOK'
    BY <1>t, <2>2, <2>3 DEF TypeOK, eventVars, peerVars
  <2>5. \A u \in Threads : ~ InCall(u)'
    BY <2>1, <2>2 DEF InCall
  <2>6. \A n \in pendingAck' : n \in failed'
    BY <2>1, <2>2 DEF SenderInv
  <2>7. \A n \in 1..(nextSequence' - 1) : n \in Decided'
    BY <2>1, <2>2, <1>t DEF SenderInv, Decided, TypeOK
  <2>8. \A n \in Decided' : n < nextSequence'
    BY <2>2, <1>t DEF SenderInv, Decided, TypeOK, Messages
  <2>9. \A u \in Threads : InCall(u)' <=> sendLock' = u
    BY <2>2 DEF SenderInv, InCall
  <2> QED
    BY <2>4, <2>5, <2>6, <2>7, <2>8, <2>9 DEF SenderInv
<1>2. ASSUME NEW t \in Threads, Transmit(t) PROVE SenderInv'
  <2>1. TypeOK'
    BY <1>t, <1>2 DEF Transmit, TypeOK, SenderInv, InCall, eventVars, peerVars
  <2>2. \A u \in Threads : InCall(u)' <=> InCall(u)
    BY <1>t, <1>2 DEF Transmit, TypeOK, InCall
  <2> QED
    BY <1>2, <2>1, <2>2 DEF Transmit, SenderInv, Decided
<1>3. ASSUME NEW t \in Threads, SocketError(t) PROVE SenderInv'
  <2>1. InCall(t) /\ sequence[t] \in Messages
    BY <1>3 DEF SocketError, SenderInv, InCall
  <2>2. TypeOK'
    BY <1>t, <1>3, <2>1 DEF SocketError, EndSend, TypeOK, eventVars, peerVars
  <2> QED
    BY <1>3, <2>1, <2>2, EndSendStep DEF SocketError, Decided
<1>4. ASSUME NEW t \in Threads, AckArrived(t) PROVE SenderInv'
  <2>1. InCall(t) /\ sequence[t] \in Messages
    BY <1>4 DEF AckArrived, SenderInv, InCall
  <2>2. TypeOK'
    BY <1>t, <1>4, <2>1 DEF AckArrived, EndSend, TypeOK, eventVars, peerVars
  <2> QED
    BY <1>4, <2>1, <2>2, EndSendStep DEF AckArrived, Decided
<1>5. ASSUME NEW t \in Threads, Timeout(t) PROVE SenderInv'
  <2>1. InCall(t) /\ sequence[t] \in Messages /\ attempt[t] \in 1..MaxRetries
    BY <1>5 DEF Timeout, SenderInv, InCall
  <2>2. CASE LastAttempt(t)
    <3>1. TypeOK'
      BY <1>t, <1>5, <2>1, <2>2 DEF Timeout, EndSend, TypeOK, eventVars, peerVars
    <3> QED
      BY <1>5, <2>1, <2>2, <3>1, EndSendStep DEF Timeout, Decided
  <2>3. CASE ~ LastAttempt(t)
    <3>1. /\ attempt' = [attempt EXCEPT ![t] = @ + 1]
          /\ pc' = [pc EXCEPT ![t] = "send"]
          /\ UNCHANGED <<sequence, sendLock, nextSequence, pendingAck,
                         confirmed, failed, eventVars, data, acks, peerVars>>
      BY <1>5, <2>3 DEF Timeout, NextAttempt
    <3>2. attempt[t] + 1 \in 1..MaxRetries
      BY <2>1, <2>3 DEF LastAttempt
    <3>3. TypeOK'
      BY <1>t, <3>1, <3>2 DEF TypeOK, eventVars, peerVars
    <3>4. \A u \in Threads : InCall(u)' <=> InCall(u)
      BY <1>t, <2>1, <3>1 DEF TypeOK, InCall
    <3>5. \A u \in Threads : InCall(u) => attempt'[u] \in 1..MaxRetries
      BY <1>t, <3>1, <3>2 DEF TypeOK, SenderInv
    <3> QED
      BY <3>1, <3>3, <3>4, <3>5 DEF SenderInv, Decided
  <2> QED
    BY <2>2, <2>3
<1>6. ASSUME Rebind PROVE SenderInv'
  <2>1. TypeOK'
    BY <1>t, <1>6 DEF Rebind, TypeOK, peerVars
  <2> QED
    BY <1>6, <2>1 DEF Rebind, SenderInv, InCall, Decided
<1>7. ASSUME UNCHANGED senderVars, TypeOK' PROVE SenderInv'
  BY <1>7 DEF senderVars, SenderInv, InCall, Decided
<1>8. ASSUME NEW s \in acks, LookUpAck(s) PROVE SenderInv'
  <2>1. TypeOK'
    BY <1>t, <1>8 DEF LookUpAck, PendingEvent, TypeOK, Messages, senderVars, peerVars
  <2> QED
    BY <1>7, <1>8, <2>1 DEF LookUpAck
<1>9. ASSUME SetEvent PROVE SenderInv'
  <2>1. TypeOK'
    BY <1>t, <1>9 DEF SetEvent, TypeOK, Messages, senderVars, peerVars
  <2> QED
    BY <1>7, <1>9, <2>1 DEF SetEvent
<1>10. ASSUME NEW p \in data, AcceptAck(p) PROVE SenderInv'
  <2>1. p.seq \in Nat
    BY <1>t, PacketOfMessage DEF TypeOK, Messages
  <2>2. TypeOK'
    BY <1>t, <1>10, <2>1 DEF AcceptAck, TypeOK, senderVars, eventVars
  <2> QED
    BY <1>7, <1>10, <2>2 DEF AcceptAck
<1>11. ASSUME Filter PROVE SenderInv'
  <2>1. hand.seq \in Nat /\ hand.body \in Messages
    BY <1>t, <1>11, PacketOfMessage DEF Filter, FilterDue, TypeOK, Messages
  <2>2. lastDelivered' \in Nat /\ delivered' \in Seq(Messages)
    <3>1. CASE IsDuplicate(hand.seq)
      BY <1>t, <1>11, <3>1 DEF Filter, TypeOK
    <3>2. CASE ~ IsDuplicate(hand.seq)
      <4>1. lastDelivered' = hand.seq /\ delivered' = Append(delivered, hand.body)
        BY <1>11, <3>2 DEF Filter
      <4>2. delivered \in Seq(Messages)
        BY <1>t DEF TypeOK
      <4> QED
        BY <4>1, <4>2, <2>1
    <3> QED
      BY <3>1, <3>2
  <2>3. TypeOK'
    BY <1>t, <1>11, <2>2 DEF Filter, TypeOK, senderVars, eventVars
  <2> QED
    BY <1>7, <1>11, <2>3 DEF Filter
<1>12. ASSUME UNCHANGED vars PROVE SenderInv'
  <2>1. TypeOK'
    BY <1>t, <1>12 DEF vars, TypeOK, senderVars, eventVars, peerVars
  <2> QED
    BY <1>7, <1>12, <2>1 DEF vars
<1> QED
  BY <1>1, <1>1a, <1>2, <1>3, <1>4, <1>5, <1>6, <1>8, <1>9, <1>10, <1>11, <1>12
  DEF Next, SendStep
------------------------------------------------------------------------------
(* The wire *)

LEMMA WireInit == Init => WireInv
BY DEF Init, WireInv, StopAndWait

LEMMA WireStep == NoWrap /\ SenderInv /\ WireInv /\ [Next]_vars => WireInv'
<1> SUFFICES ASSUME NoWrap, SenderInv, WireInv, [Next]_vars PROVE WireInv'
  OBVIOUS
<1> USE ChannelAssumption
<1>t. TypeOK
  BY DEF SenderInv
<1>a. \A s \in acks : \E p \in data : p.seq = s
  BY DEF WireInv
<1>1. ASSUME data' = data, \A s \in acks' : \E p \in data : p.seq = s,
             nextSequence <= nextSequence', Decided \subseteq Decided'
      PROVE  WireInv'
  <2>1. \A p \in data : p.body \in Messages /\ p.seq = p.body
    BY <1>t, PacketOfMessage DEF TypeOK
  <2>2. nextSequence \in Nat /\ nextSequence' \in Nat
    BY <1>t, SenderStep DEF TypeOK, SenderInv
  <2>3. \A p \in data' : p.seq = p.body /\ p.body < nextSequence'
    BY <1>1, <2>1, <2>2 DEF WireInv, Messages
  <2>4. \A p, q \in data' : p.body < q.body => p.body \in Decided'
    BY <1>1 DEF WireInv, StopAndWait, Decided
  <2> QED
    BY <1>1, <2>3, <2>4 DEF WireInv, StopAndWait, Decided
<1>2. ASSUME NEW t \in Threads, BeginSend(t) \/ EncodeError(t) PROVE WireInv'
  <2>1. /\ UNCHANGED <<data, acks, confirmed>>
        /\ failed \subseteq failed'
        /\ nextSequence' = nextSequence + 1
    BY <1>2 DEF BeginSend, EncodeError, Reserve
  <2>2. nextSequence \in Nat
    BY <1>t DEF TypeOK
  <2>3. nextSequence <= nextSequence' /\ Decided \subseteq Decided'
    BY <2>1, <2>2 DEF Decided
  <2> QED
    BY <1>a, <1>1, <2>1, <2>3
<1>3. ASSUME NEW t \in Threads, Transmit(t) PROVE WireInv'
  <2>1. /\ InCall(t)
        /\ sequence[t] = nextSequence - 1
        /\ sequence[t] \in Messages
        /\ nextSequence \in Nat
    BY <1>t, <1>3 DEF Transmit, SenderInv, InCall, TypeOK
  <2>2. Packet(sequence[t]) = [seq |-> sequence[t], body |-> sequence[t]]
    BY <2>1, PacketOfMessage
  <2>3. data' = data \cup {Packet(sequence[t])}
        /\ UNCHANGED <<nextSequence, confirmed, failed, acks>>
    BY <1>3 DEF Transmit
  <2>4. \A p \in data : p.body \in Messages
    BY <1>t, PacketOfMessage DEF TypeOK
  (* Whatever was sent before the message of the one call in progress is    *)
  (* decided.                                                               *)
  <2>5. \A n \in 1..(nextSequence - 1) : n < sequence[t] => n \in Decided
    BY <2>1, OneCall DEF SenderInv
  <2>6. \A p \in data' : p.seq = p.body /\ p.body < nextSequence
    BY <2>1, <2>2, <2>3 DEF WireInv, Messages
  <2>7. ASSUME NEW p \in data', NEW q \in data', p.body < q.body
        PROVE  p.body \in Decided
    <3>1. CASE p \in data /\ q \in data
      BY <2>7, <3>1 DEF WireInv, StopAndWait, Decided
    <3>2. CASE q = Packet(sequence[t])
      BY <2>1, <2>2, <2>3, <2>4, <2>5, <2>7, <3>2 DEF Messages
    <3>3. CASE p = Packet(sequence[t])
      BY <2>1, <2>2, <2>3, <2>6, <2>7, <3>3, <2>4 DEF Messages
    <3> QED
      BY <2>3, <3>1, <3>2, <3>3
  <2>8. \A s \in acks' : \E p \in data' : p.seq = s
    BY <1>a, <2>3
  <2>9. StopAndWait'
    BY <2>3, <2>7 DEF StopAndWait, Decided
  <2> QED
    BY <2>3, <2>6, <2>8, <2>9 DEF WireInv
<1>4. ASSUME NEW t \in Threads, SocketError(t) \/ AckArrived(t) \/ Timeout(t)
      PROVE  WireInv'
  <2>1. /\ UNCHANGED <<data, acks, nextSequence>>
        /\ confirmed \subseteq confirmed'
        /\ failed \subseteq failed'
    BY <1>4 DEF SocketError, AckArrived, Timeout
  <2> QED
    BY <1>t, <1>a, <1>1, <2>1 DEF Decided, TypeOK
<1>5. ASSUME NEW q \in data, AcceptAck(q) PROVE WireInv'
  <2>1. /\ UNCHANGED <<data, nextSequence, confirmed, failed>>
        /\ acks' \subseteq acks \cup {q.seq}
    BY <1>5 DEF AcceptAck, senderVars
  <2> QED
    BY <1>t, <1>a, <1>1, <2>1 DEF Decided, TypeOK
<1>6. ASSUME Rebind \/ SetEvent \/ Filter \/ (\E s \in acks : LookUpAck(s))
             \/ UNCHANGED vars
      PROVE  WireInv'
  <2>1. UNCHANGED <<data, acks, nextSequence, confirmed, failed>>
    BY <1>6 DEF Rebind, SetEvent, Filter, LookUpAck, vars, senderVars
  <2> QED
    BY <1>t, <1>a, <1>1, <2>1 DEF Decided, TypeOK
<1> QED
  BY <1>2, <1>3, <1>4, <1>5, <1>6 DEF Next, SendStep
------------------------------------------------------------------------------
(* The peer *)

LEMMA PeerInit == Init => PeerInv
BY DEF Init, PeerInv, InOrderAtMostOnce, ConfirmedIsAccepted

(* What Filter leaves in delivered, and what it leaves of it.               *)
LEMMA FilterDelivers ==
    ASSUME TypeOK, NoWrap, Filter, ~ IsDuplicate(hand.seq)
    PROVE  /\ delivered' = Append(delivered, hand.body)
           /\ lastDelivered' = hand.body
           /\ hand \in data
           /\ hand.seq = hand.body
           /\ hand.body \in Messages
           /\ Len(delivered) \in Nat
           /\ Len(delivered') = Len(delivered) + 1
           /\ delivered'[Len(delivered) + 1] = hand.body
           /\ \A i \in 1..Len(delivered) : delivered'[i] = delivered[i]
<1>1. hand \in data /\ hand.seq = hand.body /\ hand.body \in Messages
  BY PacketOfMessage DEF Filter, FilterDue, TypeOK
<1>2. delivered' = Append(delivered, hand.body) /\ lastDelivered' = hand.seq
  BY DEF Filter
<1>3. delivered \in Seq(Messages)
  BY DEF TypeOK
<1> QED
  BY <1>1, <1>2, <1>3

(* What the peer accepted stays accepted.                                   *)
LEMMA AcceptedStable ==
    ASSUME TypeOK, NoWrap, [Next]_vars, NEW n \in Messages, Accepted(n)
    PROVE  Accepted(n)'
<1>1. CASE UNCHANGED peerVars
  BY <1>1 DEF peerVars, Accepted, InDelivered, IsDuplicate
<1>2. ASSUME NEW p \in data, AcceptAck(p) PROVE Accepted(n)'
  BY <1>2 DEF AcceptAck, Accepted, InDelivered, NoPacket, Messages
<1>3. CASE Filter
  <2>1. CASE IsDuplicate(hand.seq)
    BY <1>3, <2>1 DEF Filter, Accepted, InDelivered
  <2>2. CASE ~ IsDuplicate(hand.seq)
    BY <1>3, <2>2, FilterDelivers DEF Accepted, InDelivered
  <2> QED
    BY <2>1, <2>2
<1> QED
  BY <1>1, <1>2, <1>3
  DEF Next, SendStep, BeginSend, EncodeError, Transmit, SocketError, AckArrived,
      Timeout, Rebind, LookUpAck, SetEvent, vars

LEMMA ExplainedStable ==
    ASSUME TypeOK, NoWrap, [Next]_vars, NEW n \in Messages, Explained(n)
    PROVE  Explained(n)'
<1>1. failed \subseteq failed'
  BY DEF Next, SendStep, BeginSend, EncodeError, Transmit, SocketError, AckArrived,
         Timeout, Rebind, LookUpAck, SetEvent, AcceptAck, Filter, vars, senderVars
<1> QED
  BY <1>1, AcceptedStable DEF Explained

(* The ACK of a packet is explained: the packet is new, or was delivered,   *)
(* or was overtaken by a later one and its call had given up.               *)
LEMMA AckExplained ==
    ASSUME SenderInv, WireInv, PeerInv, NoWrap, NEW p \in data, AcceptAck(p)
    PROVE  Explained(p.seq)' /\ p.seq \in Messages
<1> USE ChannelAssumption
<1>1. TypeOK /\ p.seq = p.body /\ p.body \in Messages
  BY PacketOfMessage DEF SenderInv, TypeOK
<1>2. hand' = p /\ UNCHANGED <<failed, confirmed, lastDelivered, delivered>>
  BY DEF AcceptAck, senderVars
<1>3. CASE ~ IsDuplicate(p.seq)
  BY <1>1, <1>2, <1>3 DEF Explained, Accepted, IsDuplicate
<1>4. CASE IsDuplicate(p.seq) /\ p.body = lastDelivered
  <2>1. InDelivered(p.body)
    BY <1>1, <1>4 DEF PeerInv, Messages
  <2> QED
    BY <1>1, <1>2, <2>1 DEF Explained, Accepted, InDelivered
<1>5. CASE IsDuplicate(p.seq) /\ p.body # lastDelivered
  <2>1. p.body < lastDelivered /\ lastDelivered \in Nat /\ lastDelivered # 0
    BY <1>1, <1>5 DEF IsDuplicate, TypeOK, Messages
  <2>2. PICK i \in 1..Len(delivered) : delivered[i] = lastDelivered
    BY <2>1 DEF PeerInv, InDelivered
  <2>3. PICK q \in data : q.body = lastDelivered
    BY <2>2 DEF PeerInv
  <2>4. p.body \in confirmed \cup failed
    BY <2>1, <2>3 DEF WireInv, StopAndWait
  <2>5. Explained(p.body)
    BY <2>4 DEF PeerInv, ConfirmedIsAccepted, Explained
  <2>6. hand = NoPacket
    BY DEF AcceptAck
  <2>7. p.body \in failed \/ InDelivered(p.body)
    BY <1>1, <2>5, <2>6 DEF Explained, Accepted, NoPacket, Messages
  <2> QED
    BY <1>1, <1>2, <2>7 DEF Explained, Accepted, InDelivered
<1> QED
  BY <1>1, <1>3, <1>4, <1>5

(* accept returns messages in increasing order.                             *)
LEMMA DeliveredStep ==
    ASSUME SenderInv, WireInv, PeerInv, NoWrap, [Next]_vars
    PROVE  /\ InOrderAtMostOnce'
           /\ \A i \in (1..Len(delivered))' : delivered'[i] <= lastDelivered'
           /\ \A i \in (1..Len(delivered))' : \E p \in data' : p.body = delivered'[i]
           /\ lastDelivered' = 0 \/ InDelivered(lastDelivered)'
<1> USE ChannelAssumption
<1>t. TypeOK
  BY DEF SenderInv
<1>1. CASE UNCHANGED <<delivered, lastDelivered>>
  <2>1. data \subseteq data'
    BY DEF Next, SendStep, BeginSend, EncodeError, Transmit, SocketError, AckArrived,
           Timeout, Rebind, LookUpAck, SetEvent, AcceptAck, Filter, vars
  <2> QED
    BY <1>1, <2>1 DEF PeerInv, InOrderAtMostOnce, InDelivered
<1>2. CASE Filter /\ ~ IsDuplicate(hand.seq)
  <2>1. /\ lastDelivered' = hand.body
        /\ hand \in data
        /\ hand.body \in Messages
        /\ lastDelivered < hand.body
        /\ Len(delivered) \in Nat
        /\ Len(delivered') = Len(delivered) + 1
        /\ delivered'[Len(delivered) + 1] = hand.body
        /\ \A i \in 1..Len(delivered) : delivered'[i] = delivered[i]
        /\ data' = data
    BY <1>t, <1>2, FilterDelivers DEF IsDuplicate, TypeOK, Messages, Filter
  <2>2. \A i \in 1..Len(delivered) : delivered[i] <= lastDelivered /\ delivered[i] \in Nat
    BY <1>t DEF PeerInv, TypeOK, Messages
  <2>3. lastDelivered \in Nat
    BY <1>t DEF TypeOK
  <2>4. InOrderAtMostOnce'
    BY <2>1, <2>2, <2>3 DEF InOrderAtMostOnce, PeerInv, Messages
  <2>5. \A i \in (1..Len(delivered))' : delivered'[i] <= lastDelivered'
    BY <2>1, <2>2, <2>3 DEF Messages
  <2>6. \A i \in (1..Len(delivered))' : \E p \in data' : p.body = delivered'[i]
    BY <2>1 DEF PeerInv
  <2>7. InDelivered(lastDelivered)'
    BY <2>1 DEF InDelivered
  <2> QED
    BY <2>4, <2>5, <2>6, <2>7
<1> QED
  BY <1>1, <1>2
  DEF Next, SendStep, BeginSend, EncodeError, Transmit, SocketError, AckArrived,
      Timeout, Rebind, LookUpAck, SetEvent, AcceptAck, Filter, vars, peerVars

LEMMA PeerStep ==
    NoWrap /\ SenderInv /\ WireInv /\ PeerInv /\ [Next]_vars => PeerInv'
<1> SUFFICES ASSUME NoWrap, SenderInv, WireInv, PeerInv, [Next]_vars PROVE PeerInv'
  OBVIOUS
<1> USE ChannelAssumption
<1>t. TypeOK
  BY DEF SenderInv
<1>m. acks \cup eventSet \cup confirmed \cup failed \subseteq Messages
      /\ (ackRef # 0 => ackRef \in Messages)
  <2>1. \A p \in data : p.seq \in Messages
    BY <1>t, PacketOfMessage DEF TypeOK
  <2> QED
    BY <1>t, <2>1 DEF TypeOK, WireInv, Messages
<1>s. \A n \in Messages : Explained(n) => Explained(n)'
  BY <1>t, ExplainedStable
<1>1. \A n \in acks' : Explained(n)'
  <2>1. CASE acks' \subseteq acks
    BY <1>m, <1>s, <2>1 DEF PeerInv
  <2>2. ASSUME NEW p \in data, AcceptAck(p) PROVE \A n \in acks' : Explained(n)'
    <3>1. Explained(p.seq)'
      BY <2>2, AckExplained
    <3>2. acks' \subseteq acks \cup {p.seq}
      BY <2>2 DEF AcceptAck
    <3>3. \A n \in acks : Explained(n)'
      BY <1>m, <1>s DEF PeerInv
    <3> QED
      BY <3>1, <3>2, <3>3
  <2> QED
    BY <2>1, <2>2
    DEF Next, SendStep, BeginSend, EncodeError, Transmit, SocketError, AckArrived,
        Timeout, Rebind, LookUpAck, SetEvent, Filter, vars
<1>2. \A n \in eventSet' : Explained(n)'
  <2>1. \A n \in eventSet : Explained(n)'
    BY <1>m, <1>s DEF PeerInv
  (* No call is in progress under a rebind: the events left are those of    *)
  (* calls that failed to encode their packet.                              *)
  <2>2. CASE Rebind
    <3>1. \A n \in pendingAck : n \in failed
      BY <2>2 DEF Rebind, SendLockFree, SenderInv
    <3>2. \A n \in pendingAck : Explained(n)'
      BY <1>m, <1>s, <3>1 DEF Explained
    <3> QED
      BY <2>1, <2>2, <3>2 DEF Rebind
  <2>3. CASE SetEvent
    BY <1>m, <1>s, <2>1, <2>3 DEF SetEvent, PeerInv
  <2>4. CASE eventSet' = eventSet
    BY <2>1, <2>4
  <2> QED
    BY <2>2, <2>3, <2>4
    DEF Next, SendStep, BeginSend, EncodeError, Transmit, SocketError, AckArrived,
        Timeout, LookUpAck, AcceptAck, Filter, vars, eventVars
<1>3. ackRef' = 0 \/ Explained(ackRef)'
  <2>1. ASSUME NEW n \in acks, LookUpAck(n) PROVE ackRef' = 0 \/ Explained(ackRef)'
    BY <1>m, <1>s, <2>1 DEF LookUpAck, PendingEvent, PeerInv, Explained, Accepted,
       InDelivered, senderVars, peerVars
  <2>2. CASE ackRef' = ackRef
    BY <1>m, <1>s, <2>2 DEF PeerInv, Explained, Accepted, InDelivered
  <2> QED
    BY <2>1, <2>2
    DEF Next, SendStep, BeginSend, EncodeError, Transmit, SocketError, AckArrived,
        Timeout, Rebind, SetEvent, AcceptAck, Filter, vars, eventVars
<1>4. ConfirmedIsAccepted'
  <2>s. \A n \in Messages : Accepted(n) => Accepted(n)'
    BY <1>t, AcceptedStable
  <2>1. \A n \in confirmed : Accepted(n)'
    BY <1>m, <2>s DEF PeerInv, ConfirmedIsAccepted
  <2>2. ASSUME NEW t \in Threads, AckArrived(t) PROVE ConfirmedIsAccepted'
    <3>1. PICK m \in eventSet \ failed : m = sequence[t]
      BY <2>2 DEF AckArrived, SenderInv, InCall, Decided
    <3>2. Accepted(m)'
      BY <1>m, <2>s, <3>1 DEF PeerInv, Explained
    <3>3. confirmed' = confirmed \cup {m}
      BY <2>2, <3>1 DEF AckArrived
    <3> QED
      BY <2>1, <3>2, <3>3 DEF ConfirmedIsAccepted
  <2>3. CASE confirmed' = confirmed
    BY <2>1, <2>3 DEF ConfirmedIsAccepted, Accepted, InDelivered
  <2> QED
    BY <2>2, <2>3
    DEF Next, SendStep, BeginSend, EncodeError, Transmit, SocketError, Timeout, Rebind,
        LookUpAck, SetEvent, AcceptAck, Filter, vars, senderVars
<1>5. /\ InOrderAtMostOnce'
      /\ \A i \in (1..Len(delivered))' : delivered'[i] <= lastDelivered'
      /\ \A i \in (1..Len(delivered))' : \E p \in data' : p.body = delivered'[i]
      /\ lastDelivered' = 0 \/ InDelivered(lastDelivered)'
  BY DeliveredStep
<1> QED
  BY <1>1, <1>2, <1>3, <1>4, <1>5 DEF PeerInv

------------------------------------------------------------------------------
(* ChannelInv holds in every reachable state: the three layers, each        *)
(* preserved by a step because of the ones before it.                       *)
THEOREM ChannelInvariant == ASSUME NoWrap PROVE Spec => []ChannelInv
<1>1. Init => ChannelInv
  BY SenderInit, WireInit, PeerInit DEF ChannelInv
<1>2. ChannelInv /\ [Next]_vars => ChannelInv'
  BY SenderStep, WireStep, PeerStep DEF ChannelInv
<1> QED
  BY <1>1, <1>2, PTL DEF Spec

(* The variables of the channel keep their types: no packet is transmitted  *)
(* more than max_retries times, and no number is used that was not reserved. *)
THEOREM TypeCorrect == ASSUME NoWrap PROVE Spec => []TypeOK
<1>1. ChannelInv => TypeOK
  BY DEF ChannelInv, SenderInv
<1> QED
  BY <1>1, ChannelInvariant, PTL

(* Duplicate suppression of accept: in order, at most once, whatever UDP    *)
(* loses, repeats or reorders.                                              *)
THEOREM DeliveryOrder == ASSUME NoWrap PROVE Spec => []InOrderAtMostOnce
<1>1. ChannelInv => InOrderAtMostOnce
  BY DEF ChannelInv, PeerInv
<1> QED
  BY <1>1, ChannelInvariant, PTL

(* A send_packet that returns has had its own message accepted by the peer. *)
THEOREM ConfirmationMeansAcceptance == ASSUME NoWrap PROVE Spec => []ConfirmedIsAccepted
<1>1. ChannelInv => ConfirmedIsAccepted
  BY DEF ChannelInv, PeerInv
<1> QED
  BY <1>1, ChannelInvariant, PTL

(* _send_lock makes the channel stop-and-wait, whatever threads send.       *)
THEOREM OneMessageInFlight == ASSUME NoWrap PROVE Spec => []StopAndWait
<1>1. ChannelInv => StopAndWait
  BY DEF ChannelInv, WireInv
<1> QED
  BY <1>1, ChannelInvariant, PTL

------------------------------------------------------------------------------
(* Refinement *)

LEMMA HandedIsAccepted ==
    ASSUME TypeOK, NoWrap, NEW n \in Messages
    PROVE  (\E i \in 1..Len(Handed) : Handed[i] = n) <=> Accepted(n)
<1> USE ChannelAssumption
<1>1. delivered \in Seq(Messages)
  BY DEF TypeOK
<1>2. CASE FilterDue /\ ~ IsDuplicate(hand.seq)
  <2>1. Handed = Append(delivered, hand.body) /\ hand.body \in Messages
    BY <1>2, PacketOfMessage DEF Handed, FilterDue, TypeOK
  <2>2. /\ Len(Handed) = Len(delivered) + 1
        /\ Handed[Len(delivered) + 1] = hand.body
        /\ \A i \in 1..Len(delivered) : Handed[i] = delivered[i]
    BY <1>1, <2>1
  <2> QED
    BY <1>1, <1>2, <2>2 DEF Accepted, InDelivered
<1>3. CASE ~ (FilterDue /\ ~ IsDuplicate(hand.seq))
  <2>1. Handed = delivered
    BY <1>3 DEF Handed
  <2>2. hand.body = n => IsDuplicate(hand.seq)
    BY <1>3 DEF FilterDue, NoPacket, Messages
  <2> QED
    BY <2>1, <2>2 DEF Accepted, InDelivered
<1> QED
  BY <1>2, <1>3

(* A step adds at most one packet to what the peer was handed, and that     *)
(* packet comes after all the others.                                       *)
LEMMA HandedStep ==
    ASSUME ChannelInv, NoWrap, [Next]_vars
    PROVE  \/ UNCHANGED Handed
           \/ \E p \in data : /\ \A i \in 1..Len(Handed) : Handed[i] < p.body
                             /\ Handed' = Append(Handed, p.body)
<1> USE ChannelAssumption
<1>t. TypeOK /\ PeerInv
  BY DEF ChannelInv, SenderInv
<1>1. CASE UNCHANGED peerVars
  BY <1>1 DEF peerVars, Handed, FilterDue, IsDuplicate
<1>2. ASSUME NEW p \in data, AcceptAck(p), IsDuplicate(p.seq) PROVE UNCHANGED Handed
  BY <1>2 DEF AcceptAck, Handed, FilterDue, IsDuplicate
<1>3. ASSUME NEW p \in data, AcceptAck(p), ~ IsDuplicate(p.seq)
      PROVE  /\ \A i \in 1..Len(Handed) : Handed[i] < p.body
             /\ Handed' = Append(Handed, p.body)
  <2>1. p.seq = p.body /\ p.body \in Messages /\ p.body # 0
    BY <1>t, PacketOfMessage DEF TypeOK, Messages
  <2>2. Handed = delivered
    BY <1>3 DEF AcceptAck, Handed, FilterDue
  <2>3. Handed' = Append(delivered, p.body)
    BY <1>3, <2>1 DEF AcceptAck, Handed, FilterDue, IsDuplicate, NoPacket
  <2>4. \A i \in 1..Len(delivered) : delivered[i] <= lastDelivered /\ delivered[i] \in Nat
    BY <1>t DEF PeerInv, TypeOK, Messages
  <2>5. lastDelivered < p.body /\ lastDelivered \in Nat /\ p.body \in Nat
    BY <1>3, <1>t, <2>1 DEF IsDuplicate, TypeOK, Messages
  <2> QED
    BY <2>2, <2>3, <2>4, <2>5
<1>4. CASE Filter
  BY <1>4 DEF Filter, Handed, FilterDue
<1> QED
  BY <1>1, <1>2, <1>3, <1>4
  DEF Next, SendStep, BeginSend, EncodeError, Transmit, SocketError, AckArrived,
      Timeout, Rebind, LookUpAck, SetEvent, vars

(* transport.py implements the abstract channel: every step of its locks,   *)
(* timers and packets is one of Submit, Deliver, Confirm, Fail or none.     *)
THEOREM Refinement == ASSUME NoWrap PROVE Spec => ImplementsAbstract
<1> USE ChannelAssumption
<1>1. Init => Abstract!AInit
  BY DEF Init, Abstract!AInit, Handed, FilterDue
<1>2. ChannelInv /\ ChannelInv' /\ [Next]_vars => [Abstract!ANext]_(Abstract!avars)
  <2> SUFFICES ASSUME ChannelInv, ChannelInv', [Next]_vars
               PROVE  Abstract!ANext \/ UNCHANGED Abstract!avars
    OBVIOUS
  <2>t. TypeOK /\ SenderInv /\ PeerInv
    BY DEF ChannelInv, SenderInv
  <2>c. ASSUME NEW t \in Threads, InCall(t)
        PROVE  /\ sequence[t] \in 1..(nextSequence - 1)
               /\ sequence[t] \in Messages
               /\ sequence[t] \notin confirmed \cup failed
    BY <2>c, <2>t DEF SenderInv, TypeOK, Messages, Decided
  <2>1. ASSUME NEW t \in Threads, BeginSend(t) \/ EncodeError(t) PROVE Abstract!Submit
    <3>1. /\ UNCHANGED <<confirmed, peerVars>>
          /\ nextSequence' = nextSequence + 1
          /\ nextSequence \in 1..MaxSequence
          /\ failed' \in {failed, failed \cup {nextSequence}}
      BY <2>1 DEF BeginSend, EncodeError, Reserve, Messages
    <3>2. UNCHANGED Handed
      BY <3>1 DEF peerVars, Handed, FilterDue, IsDuplicate
    <3>3. nextSequence' - 1 = nextSequence
      BY <3>1
    <3> QED
      BY <3>1, <3>2, <3>3 DEF Abstract!Submit
  <2>2. ASSUME NEW t \in Threads, SocketError(t) \/ AckArrived(t) \/ Timeout(t)
        PROVE  Abstract!ANext \/ UNCHANGED Abstract!avars
    <3>1. InCall(t) /\ UNCHANGED <<nextSequence, peerVars>>
      BY <2>2 DEF SocketError, AckArrived, Timeout, InCall
    <3>2. UNCHANGED Handed
      BY <3>1 DEF peerVars, Handed, FilterDue, IsDuplicate
    <3>3. CASE UNCHANGED <<confirmed, failed>>
      BY <3>1, <3>2, <3>3 DEF Abstract!avars
    <3>4. CASE confirmed' = confirmed /\ failed' = failed \cup {sequence[t]}
      <4>1. Abstract!Fail(sequence[t])
        BY <3>1, <3>2, <3>4, <2>c DEF Abstract!Fail
      <4> QED
        BY <4>1, <3>1, <2>c DEF Abstract!ANext
    <3>5. CASE AckArrived(t)
      <4>1. confirmed' = confirmed \cup {sequence[t]} /\ failed' = failed
            /\ sequence[t] \in eventSet
        BY <3>5 DEF AckArrived
      <4>2. Accepted(sequence[t])
        BY <4>1, <3>1, <2>c, <2>t DEF PeerInv, Explained
      <4>3. \E i \in 1..Len(Handed) : Handed[i] = sequence[t]
        BY <4>2, <3>1, <2>c, <2>t, HandedIsAccepted
      <4>4. Abstract!Confirm(sequence[t])
        BY <4>1, <4>3, <3>1, <3>2, <2>c DEF Abstract!Confirm, Abstract!InLog
      <4> QED
        BY <4>4, <3>1, <2>c DEF Abstract!ANext
    <3> QED
      BY <2>2, <3>3, <3>4, <3>5 DEF SocketError, Timeout
  <2>3. CASE \E p \in data : AcceptAck(p)
    <3>0. UNCHANGED <<nextSequence, confirmed, failed>>
      BY <2>3 DEF AcceptAck, senderVars
    <3>1. CASE UNCHANGED Handed
      BY <3>0, <3>1 DEF Abstract!avars
    <3>2. CASE \E p \in data : /\ \A i \in 1..Len(Handed) : Handed[i] < p.body
                               /\ Handed' = Append(Handed, p.body)
      <4>1. PICK p \in data : /\ \A i \in 1..Len(Handed) : Handed[i] < p.body
                             /\ Handed' = Append(Handed, p.body)
        BY <3>2
      <4>2. Abstract!Deliver(p.body)
        BY <4>1, <3>0 DEF Abstract!Deliver
      <4>3. p.body \in 1..(nextSequence - 1)
        BY <2>t, PacketOfMessage DEF ChannelInv, WireInv, TypeOK, Messages
      <4> QED
        BY <4>2, <4>3 DEF Abstract!ANext
    <3>3. \/ UNCHANGED Handed
          \/ \E p \in data : /\ \A i \in 1..Len(Handed) : Handed[i] < p.body
                            /\ Handed' = Append(Handed, p.body)
      BY HandedStep
    <3> QED
      BY <3>1, <3>2, <3>3
  <2>4. CASE \/ \E t \in Threads : Transmit(t)
             \/ Rebind \/ SetEvent \/ (\E s \in acks : LookUpAck(s)) \/ Filter
             \/ UNCHANGED vars
    <3>1. UNCHANGED <<nextSequence, confirmed, failed>>
      BY <2>4 DEF Transmit, Rebind, SetEvent, LookUpAck, Filter, vars, senderVars
    <3>2. \/ UNCHANGED peerVars \/ Filter
      BY <2>4 DEF Transmit, Rebind, SetEvent, LookUpAck, vars
    <3>3. UNCHANGED Handed
      BY <3>2 DEF peerVars, Handed, FilterDue, IsDuplicate, Filter
    <3> QED
      BY <3>1, <3>3 DEF Abstract!avars
  <2> QED
    BY <2>1, <2>2, <2>3, <2>4 DEF Next, SendStep, Abstract!ANext
<1> QED
  BY <1>1, <1>2, ChannelInvariant, PTL DEF Spec, ImplementsAbstract, Abstract!ASpec
==============================================================================
