-------------------------- MODULE ConversationProofs --------------------------
(***************************************************************************)
(* What holds of the two ends of a client id however many connections,     *)
(* runtimes and packets there are.                                         *)
(***************************************************************************)
EXTENDS Conversation, TLAPS

Channel == [next : Nat \ {0}, pending : Nat, last : Nat]
Up == [from : Nat \ {0}, type : {"probe", "input", "disconnect", "ack"}, seq : Nat]
Down == [to : Nat, type : {"ack", "output"}, runtime : Nat, seq : Nat]

Connection == [id : Nat, up : BOOLEAN, chan : Channel]
RuntimeRecord == [remote : Nat, chan : Channel]

Hand == [at : {"recvfrom", "accept", "handle", "stop", "crashed"},
         packet : Up \cup {Probe(0)}, runtime : Nat]

TypeInv ==
    /\ client \in Connection /\ (client.up => client.id # 0)
    /\ server \in [Runtimes -> RuntimeRecord]
    /\ runtimes \in 0..MaxRuntimes /\ registered \in Nat
    /\ recv \in Hand /\ janitor \in Nat /\ gone \in SUBSET Nat
    /\ upstream \in SUBSET Up
    /\ downstream \in SUBSET Down
    /\ executed \in SUBSET (Nat \X Nat \X Nat)
    /\ lost \in SUBSET (Nat \X Nat \X Nat)
    /\ acked \in SUBSET (Nat \X Nat)
    /\ shown \in SUBSET (Nat \X Nat)
    /\ ackedOutput \in SUBSET (Nat \X Nat)

Packet(p) == p.type # "ack"
Busy == recv.at \in {"accept", "handle"}
Handled == recv.packet.seq

(* Only the newest runtime is in the registry or in the receive thread's    *)
(* hand, with a packet that was sent; what the thread is about to handle is *)
(* what the filter let through last.                                        *)
HandInv ==
    /\ registered \in {0, runtimes}
    /\ late \subseteq Runtimes /\ (\A r \in late : r <= runtimes)
    /\ Busy => recv.packet \in upstream /\ recv.runtime = runtimes /\ runtimes # 0
    /\ recv.at = "handle" => Handled = server[runtimes].chan.last

(* What a shell was given is numbered up to the filter's mark, and below    *)
(* what is about to be handled.                                             *)
ShellInv ==
    \A e \in executed :
        /\ e[1] \in Runtimes /\ e[1] <= runtimes
        /\ e[3] <= server[e[1]].chan.last
        /\ recv.at = "handle" /\ e[1] = runtimes => e[3] < Handled

(* Only the newest packet can still be confirmed; packets and confirmations *)
(* belong to connections there have been.                                   *)
ClientInv ==
    /\ client.id = 0 => client.chan = NewChannel
    /\ client.chan.pending # 0 => client.chan.pending + 1 = client.chan.next
    /\ \A p \in upstream : p.from <= client.id /\ (p.type = "input" => p.seq # 0)
    /\ \A m \in acked : m[1] <= client.id /\ (m[1] = client.id => m[2] < client.chan.next)

(* Some runtime has accepted packet n of the first connection, or the       *)
(* server has answered it.                                                  *)
Arrived(n) ==
    \/ \E r \in Runtimes : server[r].chan.last = n
    \/ \E d \in downstream : d.type = "ack" /\ d.seq = n

First(n) == <<1, n>>

(* While there has been no second connection, the filters' marks and the    *)
(* ACKs stay below the next number, and if the newest packet is an input    *)
(* that arrived, it reached a session.                                      *)
FirstClientInv ==
    client.id <= 1 =>
        /\ \A p \in upstream : Packet(p) => p.seq < client.chan.next
        /\ \A p, q \in upstream : Packet(p) /\ Packet(q) /\ p.seq = q.seq => p.type = q.type
        /\ \A d \in downstream : d.type = "ack" => d.seq < client.chan.next
        /\ \A r \in Runtimes : server[r].chan.last < client.chan.next
        /\ \A p \in upstream :
              p.type = "input" /\ p.seq + 1 = client.chan.next /\ Arrived(p.seq)
                  => Reached(First(p.seq))

(* FirstConnectionIsServed, packet by packet.                               *)
FirstServedInv ==
    \A p \in upstream :
        p.type = "input" /\ p.from = 1 /\ First(p.seq) \in acked => Reached(First(p.seq))

(* The same of output and the runtimes there have been.                     *)
ServerInv ==
    /\ \A d \in downstream :
          d.type = "output" => d.runtime # 0 /\ d.runtime <= runtimes /\ d.seq # 0
    /\ \A r \in Runtimes :
          /\ server[r].chan.pending # 0 => server[r].chan.pending + 1 = server[r].chan.next
          /\ r > runtimes => server[r].chan = NewChannel
    /\ runtimes = 0 => client.chan.last = 0 /\ \A p \in upstream : Packet(p)

(* A connection has seen chunk n of the first runtime, or answered it.      *)
Returned(n) ==
    \/ client.chan.last = n
    \/ \E p \in upstream : p.type = "ack" /\ p.seq = n

(* The same of the first runtime until there is a second.                   *)
FirstRuntimeInv ==
    runtimes = 1 =>
        /\ \A d \in downstream : d.type = "output" => d.seq < server[1].chan.next
        /\ \A p \in upstream : p.type = "ack" => p.seq < server[1].chan.next
        /\ client.chan.last < server[1].chan.next
        /\ \A n \in Nat \ {0} :
              n + 1 = server[1].chan.next /\ Returned(n) => <<1, n>> \in shown

ConversationInv ==
    /\ TypeInv /\ HandInv
    /\ ShellInv
    /\ ClientInv /\ FirstClientInv /\ FirstServedInv
    /\ ServerInv /\ FirstRuntimeInv /\ FirstRuntimeIsShown
------------------------------------------------------------------------------
LEMMA NewChannelType ==
    /\ NewChannel \in Channel
    /\ NewChannel.next = 1 /\ NewChannel.pending = 0 /\ NewChannel.last = 0
  BY DEF Channel, NewChannel

LEMMA ConversationInit == Init => ConversationInv
<1>. SUFFICES ASSUME Init PROVE ConversationInv
  OBVIOUS
<1>1. MaxRuntimes \in Nat /\ \A r \in Runtimes : server[r].chan = NewChannel /\ r > 0
  BY ConversationAssumption DEF Init, Runtimes
<1>. USE DEF Init
<1>2. TypeInv
  BY <1>1, NewChannelType DEF TypeInv, Connection, RuntimeRecord, Hand, Idle
<1>3. HandInv /\ ShellInv /\ ClientInv /\ FirstServedInv /\ FirstRuntimeIsShown
  BY DEF HandInv, ShellInv, ClientInv, FirstServedInv, FirstRuntimeIsShown, Busy, Idle, NewChannel
<1>4. FirstClientInv
  BY <1>1, NewChannelType DEF FirstClientInv
<1>5. ServerInv /\ FirstRuntimeInv
  BY <1>1, NewChannelType DEF ServerInv, FirstRuntimeInv
<1>. QED  BY <1>2, <1>3, <1>4, <1>5 DEF ConversationInv
------------------------------------------------------------------------------
(* What the steps do to the fields the invariant speaks of.                 *)

LEMMA SentChannel ==
    ASSUME NEW ch \in Channel
    PROVE  /\ Sent(ch) \in Channel
           /\ Sent(ch).next = ch.next + 1
           /\ Sent(ch).pending = ch.next
           /\ Sent(ch).last = ch.last
<1>1. /\ ch.next \in Nat \ {0} /\ ch.next + 1 \in Nat \ {0} /\ ch.next \in Nat
  BY DEF Channel
<1>2. Sent(ch) \in Channel
  BY <1>1 DEF Channel, Sent
<1>3. Sent(ch).next = ch.next + 1 /\ Sent(ch).pending = ch.next /\ Sent(ch).last = ch.last
  BY DEF Channel, Sent
<1>. QED  BY <1>2, <1>3

LEMMA FreeChannel ==
    ASSUME NEW ch \in Channel
    PROVE  /\ Free(ch) \in Channel
           /\ Free(ch).next = ch.next
           /\ Free(ch).pending = 0
           /\ Free(ch).last = ch.last
  BY DEF Channel, Free

LEMMA DeliveredChannel ==
    ASSUME NEW ch \in Channel, NEW n \in Nat
    PROVE  /\ Delivered(ch, n) \in Channel
           /\ Delivered(ch, n).next = ch.next
           /\ Delivered(ch, n).pending = ch.pending
           /\ Delivered(ch, n).last = n
  BY DEF Channel, Delivered

(* The numbers of a connection, or of a runtime, are naturals.              *)
LEMMA Numbers ==
    ASSUME TypeInv
    PROVE  /\ client.id \in Nat /\ client.chan \in Channel
           /\ client.chan.next \in Nat \ {0} /\ client.chan.pending \in Nat /\ client.chan.last \in Nat
           /\ \A r \in Runtimes :
                 /\ r \in Nat \ {0}
                 /\ server[r].chan \in Channel /\ server[r].remote \in Nat
                 /\ server[r].chan.next \in Nat \ {0}
                 /\ server[r].chan.pending \in Nat /\ server[r].chan.last \in Nat
           /\ runtimes \in Nat /\ (runtimes # 0 => runtimes \in Runtimes)
           /\ \A p \in upstream : p \in Up /\ p.from \in Nat \ {0} /\ p.seq \in Nat
           /\ \A d \in downstream : d \in Down /\ d.seq \in Nat /\ d.runtime \in Nat
<1>1. /\ client.id \in Nat /\ client.chan \in Channel
      /\ \A r \in Runtimes : server[r].chan \in Channel /\ server[r].remote \in Nat
  BY DEF TypeInv, Connection, RuntimeRecord
<1>2. ASSUME NEW ch \in Channel
      PROVE  ch.next \in Nat \ {0} /\ ch.pending \in Nat /\ ch.last \in Nat
  BY DEF Channel
<1>3. /\ client.chan.next \in Nat \ {0} /\ client.chan.pending \in Nat /\ client.chan.last \in Nat
      /\ \A r \in Runtimes : /\ server[r].chan.next \in Nat \ {0}
                             /\ server[r].chan.pending \in Nat /\ server[r].chan.last \in Nat
  BY <1>1, <1>2
<1>4. /\ runtimes \in Nat /\ (runtimes # 0 => runtimes \in Runtimes)
      /\ \A r \in Runtimes : r \in Nat \ {0}
  BY ConversationAssumption DEF TypeInv, Runtimes
<1>5. /\ \A p \in upstream : p \in Up /\ p.from \in Nat \ {0} /\ p.seq \in Nat
      /\ \A d \in downstream : d \in Down /\ d.seq \in Nat /\ d.runtime \in Nat
  BY DEF TypeInv, Up, Down
<1>. QED  BY <1>1, <1>3, <1>4, <1>5

LEMMA ConnectEffect ==
    ASSUME TypeInv, Connect
    PROVE  /\ client' \in Connection /\ client'.id = client.id + 1 /\ client'.chan = NewChannel
           /\ \E p \in Up : /\ p.from = client.id + 1 /\ p.type = "probe" /\ p.seq = 0
                            /\ upstream' = upstream \cup {p}
<1>1. client.id + 1 \in Nat \ {0}
  BY Numbers
<1>2. Probe(client.id + 1) \in Up /\ Probe(client.id + 1).from = client.id + 1
      /\ Probe(client.id + 1).type = "probe" /\ Probe(client.id + 1).seq = 0
  BY <1>1 DEF Up, Probe
<1>. QED  BY <1>1, <1>2, NewChannelType DEF Connect, Connection

LEMMA SendEffect ==
    ASSUME TypeInv, NEW type \in {"input", "disconnect"}, Send(type)
    PROVE  /\ client' \in Connection
           /\ client.id # 0 /\ client'.id = client.id
           /\ client'.chan.next = client.chan.next + 1
           /\ client'.chan.pending = client.chan.next
           /\ client'.chan.last = client.chan.last
           /\ \E p \in Up : /\ p.from = client.id /\ p.type = type /\ p.seq = client.chan.next
                            /\ upstream' = upstream \cup {p}
<1>1. client.id # 0 /\ client \in Connection
  BY DEF Send, TypeInv
<1>2. client' \in Connection /\ client'.id = client.id /\ client'.chan = Sent(client.chan)
  BY <1>1, Numbers, SentChannel DEF Send, Connection
<1>. QED  BY <1>1, <1>2, Numbers, SentChannel DEF Send, FromClient, Up

LEMMA FreeEffect ==
    ASSUME TypeInv, client' = [client EXCEPT !.chan = Free(client.chan)]
    PROVE  /\ client' \in Connection /\ client'.up = client.up /\ client'.id = client.id
           /\ client'.chan.next = client.chan.next
           /\ client'.chan.pending = 0
           /\ client'.chan.last = client.chan.last
  BY Numbers, FreeChannel DEF TypeInv, Connection

LEMMA LeaveEffect ==
    ASSUME TypeInv, Leave
    PROVE  /\ client' \in Connection /\ ~ client'.up
           /\ client'.id = client.id /\ client'.chan = client.chan
  BY DEF Leave, TypeInv, Connection

LEMMA ShownEffect ==
    ASSUME TypeInv, NEW d \in downstream, ClientGetsOutput(d)
    PROVE  /\ client' \in Connection /\ client.id # 0 /\ client'.id = client.id
           /\ client'.chan.next = client.chan.next /\ client'.chan.pending = client.chan.pending
           /\ \E p \in Up : /\ p.from = client.id /\ p.type = "ack" /\ p.seq = d.seq
                            /\ upstream' = upstream \cup {p}
           /\ \/ d.seq <= client.chan.last /\ client'.chan.last = client.chan.last /\ shown' = shown
              \/ /\ d.seq > client.chan.last
                 /\ client'.chan.last = d.seq
                 /\ shown' = shown \cup {<<d.runtime, d.seq>>}
<1>1. client.id # 0 /\ client \in Connection /\ d.seq \in Nat
  BY Numbers DEF ClientGetsOutput, TypeInv
<1>2. CASE IsDuplicate(client.chan, d.seq)
  BY <1>1, <1>2, Numbers DEF ClientGetsOutput, IsDuplicate, FromClient, Up
<1>3. CASE ~ IsDuplicate(client.chan, d.seq)
  <2>0. client' = [client EXCEPT !.chan = Delivered(client.chan, d.seq)]
    BY <1>3 DEF ClientGetsOutput
  <2>1. client' \in Connection /\ client'.id = client.id
        /\ client'.chan = Delivered(client.chan, d.seq)
    BY <1>1, <2>0, Numbers, DeliveredChannel DEF Connection
  <2>2. d.seq > client.chan.last /\ shown' = shown \cup {<<d.runtime, d.seq>>}
    BY <1>1, <1>3, Numbers DEF ClientGetsOutput, IsDuplicate
  <2>3. /\ FromClient("ack", d.seq) \in Up /\ FromClient("ack", d.seq).from = client.id
        /\ FromClient("ack", d.seq).type = "ack" /\ FromClient("ack", d.seq).seq = d.seq
    BY <1>1, Numbers DEF FromClient, Up
  <2>4. upstream' = upstream \cup {FromClient("ack", d.seq)}
    BY DEF ClientGetsOutput
  <2>5. /\ client'.chan.next = client.chan.next /\ client'.chan.pending = client.chan.pending
        /\ client'.chan.last = d.seq
    <3>1. client.chan \in Channel
      BY Numbers
    <3>2. /\ Delivered(client.chan, d.seq).next = client.chan.next
          /\ Delivered(client.chan, d.seq).pending = client.chan.pending
          /\ Delivered(client.chan, d.seq).last = d.seq
      BY <1>1, <3>1, DeliveredChannel
    <3>. QED  BY <2>1, <3>2
  <2>. QED  BY <1>1, <2>1, <2>2, <2>3, <2>4, <2>5
<1>. QED  BY <1>2, <1>3

(* One channel of the server changes.                                       *)
ChangesOnly(r, ch) ==
    /\ server' \in [Runtimes -> RuntimeRecord]
    /\ server'[r].chan = ch
    /\ \A q \in Runtimes : q # r => server'[q].chan = server[q].chan

SameChannels ==
    /\ server' \in [Runtimes -> RuntimeRecord]
    /\ \A q \in Runtimes : server'[q].chan = server[q].chan

LEMMA SetChannel ==
    ASSUME TypeInv, NEW r \in Runtimes, NEW ch \in Channel,
           server' = [server EXCEPT ![r].chan = ch]
    PROVE  ChangesOnly(r, ch)
  BY DEF TypeInv, ChangesOnly, RuntimeRecord

LEMMA FindEffect ==
    ASSUME TypeInv, HandInv, NEW p \in upstream, FindRuntime(p)
    PROVE  /\ SameChannels
           /\ runtimes' \in Runtimes /\ runtimes' \in {runtimes, runtimes + 1}
           /\ registered' = runtimes'
           /\ recv'.at = "accept" /\ recv'.packet = p /\ recv'.runtime = runtimes'
<1>1. runtimes' \in Runtimes /\ runtimes' \in {runtimes, runtimes + 1}
  <2>1. MaxRuntimes \in Nat /\ runtimes \in 0..MaxRuntimes
    BY ConversationAssumption DEF TypeInv
  <2>2. CASE registered = 0
    BY <2>1, <2>2 DEF FindRuntime, Runtimes
  <2>3. CASE registered # 0
    BY <2>1, <2>3 DEF FindRuntime, HandInv, Runtimes
  <2>. QED  BY <2>2, <2>3
<1>2. SameChannels
  BY <1>1, Numbers DEF FindRuntime, TypeInv, SameChannels, RuntimeRecord
<1>. QED  BY <1>1, <1>2 DEF FindRuntime

(* The packet and the runtime the receive thread goes on with.              *)
LEMMA InHandNow ==
    ASSUME TypeInv, HandInv, Busy
    PROVE  /\ recv.runtime = runtimes /\ runtimes \in Runtimes
           /\ recv.packet \in upstream /\ recv.packet \in Up
           /\ Handled \in Nat /\ recv.packet.from \in Nat \ {0}
  BY Numbers DEF HandInv, Handled

LEMMA AckEffect ==
    ASSUME TypeInv, HandInv, AcceptAck
    PROVE  /\ ~ Busy' /\ recv.packet.type = "ack"
           /\ \/ server' = server /\ ackedOutput' = ackedOutput
              \/ /\ server[runtimes].chan.pending # 0
                 /\ server[runtimes].chan.pending = Handled
                 /\ ChangesOnly(runtimes, Free(server[runtimes].chan))
                 /\ ackedOutput' = ackedOutput \cup {<<runtimes, Handled>>}
<1>1. Busy /\ recv.packet.type = "ack" /\ ~ Busy'
  BY DEF AcceptAck, Busy, GoOn, Idle
<1>2. recv.runtime = runtimes /\ runtimes \in Runtimes /\ server[runtimes].chan \in Channel
  BY <1>1, InHandNow, Numbers
<1>3. CASE ~ Answers(server[runtimes].chan, Handled)
  BY <1>1, <1>2, <1>3 DEF AcceptAck, Handled
<1>4. CASE Answers(server[runtimes].chan, Handled)
  <2>1. /\ server' = [server EXCEPT ![runtimes].chan = Free(server[runtimes].chan)]
        /\ ackedOutput' = ackedOutput \cup {<<runtimes, Handled>>}
    BY <1>2, <1>4 DEF AcceptAck, Handled
  <2>2. ChangesOnly(runtimes, Free(server[runtimes].chan))
    BY <1>2, <2>1, FreeChannel, SetChannel
  <2>. QED  BY <1>1, <1>4, <2>1, <2>2 DEF Answers
<1>. QED  BY <1>3, <1>4

LEMMA PacketEffect ==
    ASSUME TypeInv, HandInv, AcceptPacket
    PROVE  /\ recv.at = "accept" /\ Packet(recv.packet)
           /\ \E d \in Down : /\ d.type = "ack" /\ d.seq = Handled
                              /\ downstream' = downstream \cup {d}
           /\ \/ Handled <= server[runtimes].chan.last /\ server' = server /\ ~ Busy'
              \/ /\ Handled > server[runtimes].chan.last
                 /\ ChangesOnly(runtimes, Delivered(server[runtimes].chan, Handled))
                 /\ \/ recv.packet.type = "probe" /\ ~ Busy'
                    \/ /\ recv'.at = "handle"
                       /\ recv'.packet = recv.packet /\ recv'.runtime = recv.runtime
<1>1. recv.at = "accept" /\ Packet(recv.packet)
  BY DEF AcceptPacket, Packet
<1>2. /\ recv.runtime = runtimes /\ runtimes \in Runtimes /\ server[runtimes].chan \in Channel
      /\ server[runtimes].chan.last \in Nat /\ Handled \in Nat /\ server[runtimes].remote \in Nat
  BY <1>1, InHandNow, Numbers DEF Busy
<1>3. \E d \in Down : d.type = "ack" /\ d.seq = Handled /\ downstream' = downstream \cup {d}
  BY <1>2 DEF AcceptPacket, Down, Handled
<1>4. CASE IsDuplicate(server[runtimes].chan, Handled)
  <2>1. server' = server /\ ~ Busy'
    BY <1>2, <1>4 DEF AcceptPacket, Handled, GoOn, Idle, Busy
  <2>. QED  BY <1>1, <1>3, <1>4, <2>1 DEF IsDuplicate
<1>5. CASE ~ IsDuplicate(server[runtimes].chan, Handled)
  <2>1. /\ server' = [server EXCEPT ![runtimes].chan = Delivered(server[runtimes].chan, Handled)]
        /\ IF recv.packet.type = "probe" THEN GoOn ELSE recv' = [recv EXCEPT !.at = "handle"]
    BY <1>2, <1>5 DEF AcceptPacket, Handled
  <2>2. ChangesOnly(runtimes, Delivered(server[runtimes].chan, Handled))
    BY <1>2, <2>1, DeliveredChannel, SetChannel
  <2>3. \/ recv.packet.type = "probe" /\ ~ Busy'
        \/ recv'.at = "handle" /\ recv'.packet = recv.packet /\ recv'.runtime = recv.runtime
    <3>1. CASE recv.packet.type = "probe"
      BY <2>1, <3>1 DEF GoOn, Idle, Busy
    <3>2. CASE recv.packet.type # "probe"
      <4>1. recv' = [recv EXCEPT !.at = "handle"]
        BY <2>1, <3>2
      <4>. QED  BY <4>1 DEF TypeInv, Hand
    <3>. QED  BY <3>1, <3>2
  <2>4. Handled > server[runtimes].chan.last
    BY <1>2, <1>5 DEF IsDuplicate
  <2>. QED  BY <1>1, <1>3, <2>2, <2>3, <2>4
<1>. QED  BY <1>4, <1>5

LEMMA OutputEffect ==
    ASSUME TypeInv, HandInv, NEW r \in Runtimes, Output(r)
    PROVE  /\ r <= runtimes /\ runtimes # 0
           /\ ChangesOnly(r, Sent(server[r].chan))
           /\ \E d \in Down : /\ d.type = "output" /\ d.runtime = r
                              /\ d.seq = server[r].chan.next
                              /\ downstream' = downstream \cup {d}
<1>1. r # 0 /\ r \in Nat /\ server[r].chan \in Channel /\ server[r].chan.next \in Nat
      /\ server[r].remote \in Nat /\ runtimes \in Nat
  BY Numbers
<1>2. r <= runtimes /\ runtimes # 0
  BY <1>1 DEF Output, HandInv
<1>3. ChangesOnly(r, Sent(server[r].chan))
  BY <1>1, SentChannel, SetChannel DEF Output
<1>4. /\ Chunk(r, server[r].chan.next) \in Down
      /\ Chunk(r, server[r].chan.next).type = "output"
      /\ Chunk(r, server[r].chan.next).runtime = r
      /\ Chunk(r, server[r].chan.next).seq = server[r].chan.next
  BY <1>1 DEF Chunk, Down
<1>. QED  BY <1>2, <1>3, <1>4 DEF Output

LEMMA RetransmitEffect ==
    ASSUME TypeInv, NEW r \in Runtimes, Retransmit(r)
    PROVE  /\ server[r].chan.pending # 0
           /\ \E d \in Down : /\ d.type = "output" /\ d.runtime = r
                              /\ d.seq = server[r].chan.pending
                              /\ downstream' = downstream \cup {d}
<1>1. server[r].chan.pending \in Nat /\ server[r].remote \in Nat /\ r \in Nat
  BY Numbers
<1>2. /\ Chunk(r, server[r].chan.pending) \in Down
      /\ Chunk(r, server[r].chan.pending).type = "output"
      /\ Chunk(r, server[r].chan.pending).runtime = r
      /\ Chunk(r, server[r].chan.pending).seq = server[r].chan.pending
  BY <1>1 DEF Chunk, Down
<1>. QED  BY <1>2 DEF Retransmit

LEMMA OutputFailsEffect ==
    ASSUME TypeInv, NEW r \in Runtimes, OutputFails(r)
    PROVE  ChangesOnly(r, Free(server[r].chan))
  BY Numbers, FreeChannel, SetChannel DEF OutputFails

LEMMA WriteEffect ==
    ASSUME TypeInv, HandInv, Write
    PROVE  /\ ~ Busy' /\ recv.at = "handle" /\ recv.packet.type = "input"
           /\ LET given == <<runtimes, recv.packet.from, Handled>>
              IN  \/ executed' = executed \cup {given} /\ lost' = lost
                  \/ lost' = lost \cup {given} /\ executed' = executed
<1>1. recv.at = "handle" /\ recv.packet.type = "input" /\ recv.runtime = runtimes
  BY InHandNow DEF Write, Busy
<1>2. ~ Busy'
  BY DEF Write, GoOn, Idle, Busy
<1>. QED  BY <1>1, <1>2 DEF Write, Handled
------------------------------------------------------------------------------
(* Every step keeps the types.                                              *)

LEMMA TypeStep == TypeInv /\ HandInv /\ [Next]_vars => TypeInv'
<1>. SUFFICES ASSUME TypeInv, HandInv, [Next]_vars PROVE TypeInv'
  OBVIOUS
<1>. USE DEF TypeInv, registry, serverSide, threads, network, inputs, outputs
<1>0. Idle \in Hand /\ [Idle EXCEPT !.at = "crashed"] \in Hand
  BY DEF Idle, Hand
<1>1. CASE Connect
  BY <1>1, ConnectEffect, Numbers DEF Connect
<1>2. ASSUME NEW type \in {"input", "disconnect"}, Send(type) PROVE TypeInv'
  BY <1>2, SendEffect DEF Send
<1>3. CASE SendFails
  BY <1>3, FreeEffect DEF SendFails
<1>4. ASSUME NEW d \in downstream, ClientGetsAck(d) PROVE TypeInv'
  <2>1. <<client.id, d.seq>> \in Nat \X Nat
    BY Numbers
  <2>. QED  BY <1>4, <2>1, FreeEffect DEF ClientGetsAck
<1>5. ASSUME NEW d \in downstream, ClientGetsOutput(d) PROVE TypeInv'
  <2>1. <<d.runtime, d.seq>> \in Nat \X Nat
    BY Numbers
  <2>. QED  BY <1>5, <2>1, ShownEffect DEF ClientGetsOutput
<1>6. CASE Leave
  BY <1>6, LeaveEffect DEF Leave
<1>7. ASSUME NEW p \in upstream, FindRuntime(p) PROVE TypeInv'
  <2>1. runtimes' \in 0..MaxRuntimes /\ runtimes' \in Nat /\ server' \in [Runtimes -> RuntimeRecord]
    BY <1>7, FindEffect, ConversationAssumption DEF Runtimes, SameChannels
  <2>2. recv' \in Hand
    BY <1>7, <2>1 DEF FindRuntime, Hand
  <2>. QED  BY <1>7, <2>1, <2>2 DEF FindRuntime
<1>8. CASE AcceptAck
  <2>1. <<runtimes, Handled>> \in Nat \X Nat
    BY <1>8, InHandNow, Numbers DEF AcceptAck, Busy
  <2>. QED  BY <1>0, <1>8, <2>1, AckEffect DEF AcceptAck, GoOn, ChangesOnly
<1>9. CASE AcceptPacket
  <2>1. recv' \in Hand
    BY <1>0, <1>9 DEF AcceptPacket, GoOn, Hand
  <2>. QED  BY <1>9, <2>1, PacketEffect DEF AcceptPacket, ChangesOnly
<1>10. CASE Write
  <2>1. <<runtimes, recv.packet.from, Handled>> \in Nat \X Nat \X Nat
    BY <1>10, InHandNow, Numbers DEF Write, Busy
  <2>. QED  BY <1>0, <1>10, <2>1, WriteEffect DEF Write, GoOn
<1>11. CASE Disconnect
  <2>1. registered \in Nat => [Idle EXCEPT !.at = "stop", !.runtime = registered] \in Hand
    BY DEF Idle, Hand
  <2>. QED  BY <1>0, <1>11, <2>1 DEF Disconnect, Remove, GoOn
<1>12. CASE DisconnectStops
  <2>1. recv.runtime \in Nat
    BY DEF Hand
  <2>. QED  BY <1>0, <1>12, <2>1 DEF DisconnectStops, StopSession, GoOn
<1>13. CASE JanitorRemoves
  BY <1>13 DEF JanitorRemoves, Remove
<1>14. CASE JanitorStops
  BY <1>14 DEF JanitorStops, StopSession
<1>15. ASSUME NEW r \in Runtimes, Output(r) PROVE TypeInv'
  <2>1. /\ server' \in [Runtimes -> RuntimeRecord] /\ downstream' \in SUBSET Down
    BY <1>15, OutputEffect DEF ChangesOnly
  <2>2. UNCHANGED <<client, runtimes, registered, gone, threads, upstream, inputs, outputs>>
    BY <1>15 DEF Output
  <2>. QED  BY <2>1, <2>2
<1>16. ASSUME NEW r \in Runtimes, Retransmit(r) PROVE TypeInv'
  BY <1>16, RetransmitEffect DEF Retransmit
<1>17. ASSUME NEW r \in Runtimes, OutputFails(r) PROVE TypeInv'
  BY <1>17, OutputFailsEffect DEF OutputFails, ChangesOnly
<1>18. ASSUME NEW r \in Runtimes, ShellExits(r) PROVE TypeInv'
  BY <1>18, Numbers DEF ShellExits
<1>19. CASE UNCHANGED vars
  BY <1>19 DEF vars
<1>. QED
  BY <1>1, <1>2, <1>3, <1>4, <1>5, <1>6, <1>7, <1>8, <1>9, <1>10, <1>11, <1>12, <1>13, <1>14,
     <1>15, <1>16, <1>17, <1>18, <1>19 DEF Next
------------------------------------------------------------------------------
(* Steps that leave the server's channels or the histories alone.           *)

ClientActs ==
    \/ Connect
    \/ \E type \in {"input", "disconnect"} : Send(type)
    \/ SendFails
    \/ \E d \in downstream : ClientGetsAck(d) \/ ClientGetsOutput(d)
    \/ Leave

LEMMA ClientLeavesServer ==
    ASSUME ClientActs
    PROVE  /\ UNCHANGED <<registry, server, recv, executed, lost, ackedOutput, downstream>>
           /\ upstream \subseteq upstream'
  BY DEF ClientActs, Connect, Send, SendFails, ClientGetsAck, ClientGetsOutput, Leave,
         serverSide, threads, network, inputs, outputs

(* What the rest of the server does to the receive thread and the registry. *)
OthersAct ==
    \/ JanitorRemoves \/ JanitorStops
    \/ \E r \in Runtimes : Output(r) \/ Retransmit(r) \/ OutputFails(r) \/ ShellExits(r)

LEMMA OthersLeaveHand ==
    ASSUME OthersAct
    PROVE  UNCHANGED <<recv, runtimes, client, upstream, inputs, outputs>>
  BY DEF OthersAct, JanitorRemoves, JanitorStops, Remove, StopSession, Output, Retransmit,
         OutputFails, ShellExits, serverSide, registry, threads, network

(* The marks of the filters change only when a packet is accepted.          *)
SameMarks == \A r \in Runtimes : server'[r].chan.last = server[r].chan.last

LEMMA OthersLeaveMarks ==
    ASSUME TypeInv, HandInv, OthersAct
    PROVE  SameMarks
<1>1. ASSUME NEW r \in Runtimes, Output(r) PROVE SameMarks
  BY <1>1, OutputEffect, SentChannel, Numbers DEF ChangesOnly, SameMarks
<1>2. ASSUME NEW r \in Runtimes, OutputFails(r) PROVE SameMarks
  BY <1>2, OutputFailsEffect, FreeChannel, Numbers DEF ChangesOnly, SameMarks
<1>. QED
  BY <1>1, <1>2
  DEF OthersAct, JanitorRemoves, JanitorStops, Remove, StopSession, Retransmit, ShellExits,
      serverSide, registry, SameMarks

LEMMA AcceptEffect ==
    ASSUME TypeInv, HandInv, AcceptAck \/ AcceptPacket
    PROVE  /\ runtimes \in Runtimes
           /\ \A r \in Runtimes :
                 /\ server'[r].chan.next = server[r].chan.next
                 /\ server'[r].chan.pending \in {server[r].chan.pending, 0}
                 /\ server'[r].chan.last \in {server[r].chan.last, Handled}
                 /\ r # runtimes => server'[r].chan = server[r].chan
<1>1. runtimes \in Runtimes /\ Handled \in Nat /\ server[runtimes].chan \in Channel
  BY InHandNow, Numbers DEF AcceptAck, AcceptPacket, Busy
<1>2. CASE server' = server
  BY <1>1, <1>2
<1>3. CASE ChangesOnly(runtimes, Free(server[runtimes].chan))
  <2>1. /\ server'[runtimes].chan.next = server[runtimes].chan.next
        /\ server'[runtimes].chan.pending = 0
        /\ server'[runtimes].chan.last = server[runtimes].chan.last
    BY <1>1, <1>3, FreeChannel DEF ChangesOnly
  <2>. QED  BY <1>1, <1>3, <2>1 DEF ChangesOnly
<1>4. CASE ChangesOnly(runtimes, Delivered(server[runtimes].chan, Handled))
  <2>1. /\ server'[runtimes].chan.next = server[runtimes].chan.next
        /\ server'[runtimes].chan.pending = server[runtimes].chan.pending
        /\ server'[runtimes].chan.last = Handled
    BY <1>1, <1>4, DeliveredChannel DEF ChangesOnly
  <2>. QED  BY <1>1, <1>4, <2>1 DEF ChangesOnly
<1>. QED  BY <1>2, <1>3, <1>4, AckEffect, PacketEffect

LEMMA NextSplit ==
    [Next]_vars <=>
        \/ ClientActs
        \/ \E p \in upstream : FindRuntime(p)
        \/ AcceptAck \/ AcceptPacket \/ Write \/ Disconnect \/ DisconnectStops
        \/ OthersAct
        \/ UNCHANGED vars
  BY DEF Next, ClientActs, OthersAct

LEMMA StoppingIsNotBusy ==
    ASSUME \/ recv' = Idle
           \/ recv' = [Idle EXCEPT !.at = "stop", !.runtime = registered]
    PROVE  ~ Busy'
<1>1. Idle \in [at : {"recvfrom"}, packet : {Probe(0)}, runtime : {0}]
  BY DEF Idle
<1>2. recv'.at \in {"recvfrom", "stop"}
  BY <1>1
<1>. QED  BY <1>2 DEF Busy

LEMMA HandStep == TypeInv /\ HandInv /\ [Next]_vars => HandInv'
<1>. SUFFICES ASSUME TypeInv, HandInv, [Next]_vars PROVE HandInv'
  OBVIOUS
<1>1. CASE ClientActs
  BY <1>1, ClientLeavesServer DEF HandInv, Busy, Handled, registry
<1>2. ASSUME NEW p \in upstream, FindRuntime(p) PROVE HandInv'
  <2>1. late' = late /\ upstream' = upstream
    BY <1>2 DEF FindRuntime, network
  <2>2. \A r \in late : r <= runtimes'
    BY <1>2, FindEffect, Numbers DEF HandInv
  <2>. QED  BY <1>2, <2>1, <2>2, FindEffect, Numbers DEF HandInv, Busy
<1>3. CASE AcceptAck
  BY <1>3, AckEffect DEF AcceptAck, HandInv, Busy, registry, network
<1>4. CASE AcceptPacket
  <2>1. UNCHANGED <<registry, upstream>> /\ recv.at = "accept"
    BY <1>4 DEF AcceptPacket
  <2>2. Handled \in Nat /\ runtimes \in Runtimes /\ Busy /\ server[runtimes].chan \in Channel
    BY <2>1, InHandNow, Numbers DEF Busy
  <2>. QED
    BY <1>4, <2>1, <2>2, PacketEffect, DeliveredChannel
    DEF HandInv, Busy, Handled, registry, ChangesOnly
<1>5. CASE Write
  BY <1>5, WriteEffect DEF Write, HandInv, Busy, registry, network
<1>6. CASE Disconnect
  <2>1. ~ Busy' /\ UNCHANGED <<runtimes, upstream, server>>
    <3>1. recv' = Idle \/ recv' = [Idle EXCEPT !.at = "stop", !.runtime = registered]
      BY <1>6 DEF Disconnect, GoOn
    <3>2. ~ Busy'
      BY <3>1, StoppingIsNotBusy
    <3>. QED  BY <1>6, <3>2 DEF Disconnect, Remove, registry, network
  <2>2. registered' = 0 /\ late' \subseteq late \cup ({registered} \ {0})
    BY <1>6 DEF Disconnect, Remove, registry
  <2>. QED  BY <2>1, <2>2, Numbers DEF HandInv, Busy
<1>7. CASE DisconnectStops
  BY <1>7 DEF DisconnectStops, StopSession, GoOn, Idle, HandInv, Busy, registry, network
<1>8. CASE OthersAct
  <2>1. UNCHANGED <<recv, runtimes, upstream>>
    BY <1>8, OthersLeaveHand
  <2>2. registered' \in {0, registered} /\ late' \subseteq late \cup ({registered} \ {0})
    BY <1>8
    DEF OthersAct, JanitorRemoves, JanitorStops, Remove, StopSession, Output, Retransmit,
        OutputFails, ShellExits, serverSide, registry
  <2>3. SameMarks
    BY <1>8, OthersLeaveMarks
  <2>. QED  BY <2>1, <2>2, <2>3, Numbers, InHandNow DEF HandInv, Busy, Handled, SameMarks
<1>9. CASE UNCHANGED vars
  BY <1>9 DEF vars, HandInv, Busy, Handled, registry, threads, network
<1>. QED
  BY <1>1, <1>2, <1>3, <1>4, <1>5, <1>6, <1>7, <1>8, <1>9, NextSplit

LEMMA ShellStep == TypeInv /\ HandInv /\ ShellInv /\ [Next]_vars => ShellInv'
<1>. SUFFICES ASSUME TypeInv, HandInv, ShellInv, [Next]_vars PROVE ShellInv'
  OBVIOUS
<1>1. CASE UNCHANGED <<executed, runtimes>> /\ SameMarks /\ (recv' = recv \/ ~ Busy')
  BY <1>1, Numbers DEF ShellInv, SameMarks, Busy, Handled
<1>2. CASE ClientActs
  BY <1>1, <1>2, ClientLeavesServer DEF SameMarks, registry
<1>3. ASSUME NEW p \in upstream, FindRuntime(p) PROVE ShellInv'
  <2>1. executed' = executed /\ recv'.at # "handle"
    BY <1>3, FindEffect DEF FindRuntime, inputs
  <2>. QED  BY <1>3, <2>1, FindEffect, Numbers DEF ShellInv, SameChannels
<1>4. CASE AcceptAck
  <2>1. SameMarks
    BY <1>4, AckEffect, Numbers, FreeChannel, InHandNow DEF AcceptAck, Busy, SameMarks, ChangesOnly
  <2>. QED  BY <1>1, <1>4, <2>1, AckEffect DEF AcceptAck, inputs, registry
<1>5. CASE AcceptPacket
  <2>1. UNCHANGED <<runtimes, executed>> /\ Busy
    BY <1>5, PacketEffect DEF AcceptPacket, registry, inputs, Busy
  <2>2. Handled \in Nat /\ runtimes \in Runtimes /\ server[runtimes].chan \in Channel
        /\ server[runtimes].chan.last \in Nat
    BY <2>1, InHandNow, Numbers
  <2>3. CASE server' = server /\ ~ Busy'
    BY <1>1, <2>1, <2>3 DEF SameMarks
  <2>4. CASE /\ Handled > server[runtimes].chan.last
             /\ ChangesOnly(runtimes, Delivered(server[runtimes].chan, Handled))
             /\ ~ Busy' \/ recv'.packet = recv.packet
    <3>1. server'[runtimes].chan.last = Handled
      BY <2>2, <2>4, DeliveredChannel DEF ChangesOnly
    <3>2. \A e \in executed : e[3] \in Nat
      BY DEF TypeInv
    <3>3. \A r \in Runtimes : r # runtimes => server'[r].chan.last = server[r].chan.last
      BY <2>4 DEF ChangesOnly
    <3>4. ASSUME NEW e \in executed
          PROVE  /\ e[3] <= server'[e[1]].chan.last
                 /\ e[1] = runtimes => e[3] < Handled
      BY <2>2, <2>4, <3>1, <3>2, <3>3, Numbers DEF ShellInv
    <3>. QED  BY <2>1, <2>4, <3>4 DEF ShellInv, Busy, Handled
  <2>. QED  BY <1>5, <2>3, <2>4, PacketEffect
<1>6. CASE Write
  <2>1. UNCHANGED <<runtimes, server>> /\ ~ Busy' /\ Busy
    BY <1>6, WriteEffect DEF Write, registry, Busy
  <2>2. Handled \in Nat /\ runtimes \in Runtimes /\ Handled = server[runtimes].chan.last
    BY <1>6, <2>1, WriteEffect, InHandNow DEF HandInv
  <2>3. executed' \subseteq executed \cup {<<runtimes, recv.packet.from, Handled>>}
    BY <1>6, WriteEffect
  <2>. QED  BY <2>1, <2>2, <2>3, Numbers DEF ShellInv, Busy
<1>7. CASE Disconnect \/ DisconnectStops
  <2>1. recv' = Idle \/ recv' = [Idle EXCEPT !.at = "stop", !.runtime = registered]
    BY <1>7 DEF Disconnect, DisconnectStops, GoOn
  <2>2. ~ Busy'
    BY <2>1, StoppingIsNotBusy
  <2>3. UNCHANGED <<executed, runtimes, server>>
    BY <1>7 DEF Disconnect, DisconnectStops, Remove, StopSession, registry, inputs
  <2>. QED  BY <1>1, <2>2, <2>3 DEF SameMarks
<1>8. CASE OthersAct
  BY <1>1, <1>8, OthersLeaveHand, OthersLeaveMarks DEF inputs
<1>9. CASE UNCHANGED vars
  BY <1>1, <1>9 DEF vars, SameMarks, registry, threads, inputs
<1>. QED
  BY <1>2, <1>3, <1>4, <1>5, <1>6, <1>7, <1>8, <1>9, NextSplit

LEMMA ClientStep == TypeInv /\ ClientInv /\ [Next]_vars => ClientInv'
<1>. SUFFICES ASSUME TypeInv, ClientInv, [Next]_vars PROVE ClientInv'
  OBVIOUS
<1>. USE Numbers, NewChannelType
<1>1. CASE UNCHANGED <<client, upstream, acked>>
  BY <1>1 DEF ClientInv
<1>2. CASE Connect
  <2>1. acked' = acked
    BY <1>2 DEF Connect, inputs
  <2>. QED  BY <1>2, <2>1, ConnectEffect DEF ClientInv, TypeInv
<1>3. ASSUME NEW type \in {"input", "disconnect"}, Send(type) PROVE ClientInv'
  <2>1. acked' = acked
    BY <1>3 DEF Send, inputs
  <2>. QED  BY <1>3, <2>1, SendEffect DEF ClientInv, TypeInv
<1>4. CASE SendFails
  <2>1. client.id # 0 /\ UNCHANGED <<upstream, acked>>
    BY <1>4 DEF SendFails, TypeInv, network, inputs
  <2>. QED  BY <1>4, <2>1, FreeEffect DEF SendFails, ClientInv
<1>5. ASSUME NEW d \in downstream, ClientGetsAck(d) PROVE ClientInv'
  <2>1. client.id # 0 /\ client.chan.pending = d.seq /\ client.chan.pending # 0
        /\ upstream' = upstream /\ acked' = acked \cup {<<client.id, d.seq>>}
    BY <1>5 DEF ClientGetsAck, Answers, TypeInv, network
  <2>. QED  BY <1>5, <2>1, FreeEffect DEF ClientGetsAck, ClientInv
<1>6. ASSUME NEW d \in downstream, ClientGetsOutput(d) PROVE ClientInv'
  <2>1. acked' = acked
    BY <1>6 DEF ClientGetsOutput, inputs
  <2>. QED  BY <1>6, <2>1, ShownEffect DEF ClientInv, TypeInv
<1>7. CASE Leave
  <2>1. client.id # 0 /\ UNCHANGED <<upstream, acked>>
    BY <1>7 DEF Leave, TypeInv, network, inputs
  <2>. QED  BY <1>7, <2>1, LeaveEffect DEF ClientInv
<1>8. CASE \/ \E p \in upstream : FindRuntime(p)
           \/ AcceptAck \/ AcceptPacket \/ Write \/ Disconnect \/ DisconnectStops
  BY <1>1, <1>8
  DEF FindRuntime, AcceptAck, AcceptPacket, Write, Disconnect, DisconnectStops, Remove,
      StopSession, network, inputs
<1>9. CASE OthersAct
  BY <1>1, <1>9, OthersLeaveHand DEF inputs
<1>. QED
  BY <1>1, <1>2, <1>3, <1>4, <1>5, <1>6, <1>7, <1>8, <1>9, NextSplit
  DEF ClientActs, vars, network, inputs

(* An input that reached a session has reached it for good.                 *)
LEMMA ReachedStays ==
    ASSUME NEW n, Reached(First(n)), [Next]_vars, TypeInv, HandInv
    PROVE  Reached(First(n))'
<1>1. CASE executed \subseteq executed' /\ lost \subseteq lost' /\ recv' = recv
  BY <1>1 DEF Reached, InHand, First
<1>2. CASE executed \subseteq executed' /\ lost \subseteq lost' /\ ~ InHand(First(n))
  BY <1>2 DEF Reached
<1>3. CASE Write
  <2>1. CASE ~ InHand(First(n))
    BY <1>2, <1>3, <2>1, WriteEffect
  <2>2. CASE InHand(First(n))
    <3>. DEFINE given == <<runtimes, recv.packet.from, Handled>>
    <3>1. recv.packet.from = 1 /\ Handled = n
      BY <2>2 DEF InHand, First, Handled
    <3>2. given \in executed' \cup lost' /\ <<given[2], given[3]>> = First(n)
      BY <1>3, <3>1, WriteEffect DEF First
    <3>. QED  BY <3>2 DEF Reached, First
  <2>. QED  BY <2>1, <2>2
<1>4. CASE ClientActs
  BY <1>1, <1>4, ClientLeavesServer
<1>5. CASE OthersAct
  BY <1>1, <1>5, OthersLeaveHand DEF inputs
<1>6. CASE UNCHANGED vars
  BY <1>1, <1>6 DEF vars, threads, inputs
<1>7. CASE \/ \E p \in upstream : FindRuntime(p)
           \/ AcceptAck \/ AcceptPacket \/ Disconnect \/ DisconnectStops
  <2>1. executed' = executed /\ lost' = lost
    BY <1>7
    DEF FindRuntime, AcceptAck, AcceptPacket, Disconnect, DisconnectStops, Remove, StopSession,
        inputs
  <2>2. ~ InHand(First(n))
    <3>1. recv.at # "handle" \/ recv.packet.type = "disconnect"
      BY <1>7 DEF FindRuntime, AcceptAck, AcceptPacket, Disconnect, DisconnectStops
    <3>. QED  BY <3>1 DEF InHand
  <2>. QED  BY <1>2, <2>1, <2>2
<1>. QED  BY <1>3, <1>4, <1>5, <1>6, <1>7, NextSplit

LEMMA FirstServedStep ==
    TypeInv /\ HandInv /\ ClientInv /\ FirstClientInv /\ FirstServedInv /\ [Next]_vars
        => FirstServedInv'
<1>. SUFFICES ASSUME TypeInv, HandInv, ClientInv, FirstClientInv, FirstServedInv, [Next]_vars,
                     NEW p \in upstream', p.type = "input", p.from = 1, First(p.seq) \in acked'
              PROVE  Reached(First(p.seq))'
  BY DEF FirstServedInv, First
<1>. USE Numbers
<1>1. CASE p \in upstream /\ First(p.seq) \in acked
  BY <1>1, ReachedStays DEF FirstServedInv
<1>2. CASE First(p.seq) \notin acked
  <2>1. PICK d \in downstream : ClientGetsAck(d)
    BY <1>2, OthersLeaveHand, NextSplit
    DEF ClientActs, Connect, Send, SendFails, ClientGetsOutput, Leave, FindRuntime, AcceptAck,
        AcceptPacket, Write, Disconnect, DisconnectStops, Remove, StopSession, vars, inputs
  <2>2. /\ d.type = "ack" /\ client.chan.pending = d.seq /\ client.chan.pending # 0
        /\ acked' = acked \cup {<<client.id, d.seq>>} /\ upstream' = upstream
    BY <2>1 DEF ClientGetsAck, Answers, network
  <2>3. client.id = 1 /\ p.seq = d.seq
    BY <1>2, <2>2 DEF First
  <2>4. Arrived(p.seq) /\ p.seq + 1 = client.chan.next
    BY <2>2, <2>3 DEF Arrived, ClientInv
  <2>5. Reached(First(p.seq))
    BY <2>2, <2>3, <2>4 DEF FirstClientInv
  <2>. QED  BY <2>5, ReachedStays
<1>3. CASE p \notin upstream /\ First(p.seq) \in acked
  <2>1. CASE Connect
    BY <1>3, <2>1, ConnectEffect
  <2>2. ASSUME NEW type \in {"input", "disconnect"}, Send(type) PROVE FALSE
    <3>1. p.from = client.id /\ p.seq = client.chan.next
      BY <1>3, <2>2, SendEffect
    <3>. QED  BY <1>3, <3>1 DEF ClientInv, First
  <2>3. ASSUME NEW d \in downstream, ClientGetsOutput(d) PROVE FALSE
    BY <1>3, <2>3, ShownEffect
  <2>4. upstream' # upstream
    BY <1>3
  <2>. QED
    BY <2>1, <2>2, <2>3, <2>4, OthersLeaveHand, NextSplit
    DEF ClientActs, SendFails, ClientGetsAck, Leave, FindRuntime, AcceptAck, AcceptPacket, Write,
        Disconnect, DisconnectStops, Remove, StopSession, vars, network
<1>. QED  BY <1>1, <1>2, <1>3

LEMMA FirstClientStep ==
    TypeInv /\ HandInv /\ ClientInv /\ FirstClientInv /\ [Next]_vars => FirstClientInv'
<1>. SUFFICES ASSUME TypeInv, HandInv, ClientInv, FirstClientInv, [Next]_vars, client'.id <= 1
              PROVE  FirstClientInv'
  BY DEF FirstClientInv
<1>. USE Numbers, NewChannelType
<1>. DEFINE NoNews == /\ SameMarks
                      /\ \A d \in downstream' \ downstream : d.type # "ack"
<1>0. ASSUME NoNews PROVE \A n : Arrived(n)' => Arrived(n)
  BY <1>0 DEF Arrived, SameMarks
<1>. HIDE DEF NoNews
<1>1. CASE /\ client'.id = client.id /\ client'.chan.next = client.chan.next
           /\ upstream' = upstream
           /\ NoNews
  BY <1>0, <1>1, ReachedStays DEF FirstClientInv, NoNews, SameMarks
<1>2. CASE Connect
  <2>1. client.id = 0 /\ client.chan = NewChannel /\ upstream = {}
    BY <1>2, ConnectEffect DEF ClientInv
  <2>2. server' = server /\ downstream' = downstream
    BY <1>2 DEF Connect, serverSide
  <2>3. PICK p \in Up : p.type = "probe" /\ p.seq = 0 /\ upstream' = {p}
    BY <1>2, <2>1, ConnectEffect
  <2>4. client'.chan.next = client.chan.next
    BY <1>2, <2>1, ConnectEffect
  <2>5. \A r \in Runtimes : server'[r].chan.last < client'.chan.next
    BY <2>1, <2>2, <2>4 DEF FirstClientInv
  <2>6. \A d \in downstream' : d.type = "ack" => d.seq < client'.chan.next
    BY <2>1, <2>2, <2>4 DEF FirstClientInv
  <2>. QED  BY <2>1, <2>3, <2>4, <2>5, <2>6 DEF FirstClientInv
<1>3. ASSUME NEW type \in {"input", "disconnect"}, Send(type) PROVE FirstClientInv'
  <2>1. UNCHANGED <<server, downstream>> /\ client.id <= 1
    BY <1>3, SendEffect DEF Send, serverSide
  <2>2. PICK n \in Nat \ {0} : n = client.chan.next
    OBVIOUS
  <2>3. PICK new \in Up : new.type = type /\ new.seq = n /\ upstream' = upstream \cup {new}
    BY <1>3, <2>2, SendEffect
  <2>4. ~ Arrived(n)'
    BY <2>1, <2>2 DEF FirstClientInv, Arrived
  <2>5. client'.chan.next = n + 1
    BY <1>3, <2>2, SendEffect
  <2>6. \A p \in upstream : Packet(p) => p.seq < n
    BY <2>1, <2>2 DEF FirstClientInv
  <2>7. \A p, q \in upstream' : Packet(p) /\ Packet(q) /\ p.seq = q.seq => p.type = q.type
    BY <2>1, <2>3, <2>6 DEF FirstClientInv
  <2>8. \A p \in upstream' : ~ (p.type = "input" /\ p.seq + 1 = client'.chan.next /\ Arrived(p.seq)')
    <3>. SUFFICES ASSUME NEW p \in upstream', p.seq + 1 = client'.chan.next, Arrived(p.seq)'
                  PROVE  FALSE
      OBVIOUS
    <3>1. p.seq \in Nat
      BY <2>3 DEF Up
    <3>. QED  BY <2>4, <2>5, <3>1
  <2>9. /\ \A p \in upstream' : Packet(p) => p.seq < client'.chan.next
        /\ \A d \in downstream' : d.type = "ack" => d.seq < client'.chan.next
        /\ \A r \in Runtimes : server'[r].chan.last < client'.chan.next
    BY <2>1, <2>2, <2>3, <2>5, <2>6 DEF FirstClientInv
  <2>. QED  BY <2>7, <2>8, <2>9 DEF FirstClientInv
<1>4. ASSUME NEW d \in downstream, ClientGetsOutput(d) PROVE FirstClientInv'
  <2>1. server' = server /\ downstream' = downstream /\ NoNews
    BY <1>4 DEF ClientGetsOutput, serverSide, NoNews, SameMarks
  <2>2. PICK a \in Up : a.type = "ack" /\ upstream' = upstream \cup {a}
    BY <1>4, ShownEffect
  <2>3. client'.id = client.id /\ client'.chan.next = client.chan.next
    BY <1>4, ShownEffect
  <2>. QED  BY <1>0, <2>1, <2>2, <2>3, ReachedStays DEF FirstClientInv, Packet
<1>5. CASE AcceptPacket
  <2>1. client' = client /\ upstream' = upstream /\ client.id <= 1
    BY <1>5 DEF AcceptPacket
  <2>2. /\ Packet(recv.packet) /\ recv.packet \in upstream /\ Handled \in Nat
        /\ runtimes \in Runtimes /\ server[runtimes].chan \in Channel
    BY <1>5, PacketEffect, InHandNow DEF Busy
  <2>3. PICK a \in Down : a.type = "ack" /\ a.seq = Handled /\ downstream' = downstream \cup {a}
    BY <1>5, PacketEffect
  <2>4. Handled < client.chan.next
    BY <2>1, <2>2 DEF FirstClientInv, Handled
  <2>5. \A r \in Runtimes : server'[r].chan.last \in {server[r].chan.last, Handled}
    BY <1>5, AcceptEffect
  <2>6. ASSUME NEW q \in upstream, q.type = "input", q.seq + 1 = client.chan.next, Arrived(q.seq)'
        PROVE  Reached(First(q.seq))'
    <3>1. q.seq # 0 /\ q.from = 1
      BY <2>1, <2>6 DEF ClientInv
    <3>2. CASE Arrived(q.seq)
      BY <2>1, <2>6, <3>2, ReachedStays DEF FirstClientInv
    <3>3. CASE ~ Arrived(q.seq)
      <4>1. q.seq = Handled
        BY <2>3, <2>5, <2>6, <3>3 DEF Arrived
      <4>2. recv.packet.type = "input" /\ recv.packet.from = 1
        BY <2>1, <2>2, <2>6, <4>1 DEF FirstClientInv, ClientInv, Packet, Handled
      <4>3. ~ (Handled <= server[runtimes].chan.last)
        <5>1. Handled # server[runtimes].chan.last /\ server[runtimes].chan.last < client.chan.next
          BY <2>1, <2>2, <3>3, <4>1 DEF Arrived, FirstClientInv
        <5>. QED  BY <2>2, <2>6, <4>1, <5>1
      <4>4. recv'.at = "handle" /\ recv'.packet = recv.packet
        BY <1>5, <4>2, <4>3, PacketEffect
      <4>5. recv.packet = [from |-> 1, type |-> "input", seq |-> q.seq]
        BY <2>2, <4>1, <4>2 DEF Up, Handled
      <4>. QED  BY <4>4, <4>5 DEF Reached, InHand, First
    <3>. QED  BY <3>2, <3>3
  <2>7. \A r \in Runtimes : server'[r].chan.last < client.chan.next
    BY <2>1, <2>4, <2>5 DEF FirstClientInv
  <2>8. \A d \in downstream' : d.type = "ack" => d.seq < client.chan.next
    BY <2>1, <2>3, <2>4 DEF FirstClientInv
  <2>. QED  BY <2>1, <2>6, <2>7, <2>8 DEF FirstClientInv
<1>6. CASE ClientActs
  <2>1. CASE \/ SendFails
             \/ \E d \in downstream : ClientGetsAck(d)
             \/ Leave
    <3>1. client'.id = client.id /\ client'.chan.next = client.chan.next
      BY <2>1, FreeEffect, LeaveEffect DEF SendFails, ClientGetsAck
    <3>2. upstream' = upstream
      BY <2>1 DEF SendFails, ClientGetsAck, Leave, network
    <3>3. NoNews
      BY <1>6, ClientLeavesServer DEF NoNews, SameMarks
    <3>. QED  BY <1>1, <3>1, <3>2, <3>3
  <2>. QED  BY <1>2, <1>3, <1>4, <1>6, <2>1 DEF ClientActs
<1>7. CASE OthersAct
  <2>1. \A d \in downstream' \ downstream : d.type # "ack"
    BY <1>7, OutputEffect, RetransmitEffect
    DEF OthersAct, JanitorRemoves, JanitorStops, Remove, StopSession, OutputFails, ShellExits, network
  <2>. QED  BY <1>1, <1>7, <2>1, OthersLeaveHand, OthersLeaveMarks DEF NoNews
<1>8. ASSUME NEW p \in upstream, FindRuntime(p) PROVE FirstClientInv'
  <2>1. SameMarks
    BY <1>8, FindEffect DEF SameChannels, SameMarks
  <2>. QED  BY <1>1, <1>8, <2>1 DEF FindRuntime, network, NoNews
<1>9. CASE AcceptAck
  <2>1. SameMarks
    BY <1>9, AckEffect, FreeChannel, InHandNow DEF AcceptAck, Busy, SameMarks, ChangesOnly
  <2>. QED  BY <1>1, <1>9, <2>1 DEF AcceptAck, network, NoNews
<1>10. CASE Write \/ Disconnect \/ DisconnectStops
  BY <1>1, <1>10
  DEF Write, Disconnect, DisconnectStops, Remove, StopSession, network, NoNews, SameMarks
<1>11. CASE UNCHANGED vars
  BY <1>1, <1>11 DEF vars, network, NoNews, SameMarks
<1>. QED  BY <1>5, <1>6, <1>7, <1>8, <1>9, <1>10, <1>11, NextSplit

LEMMA ServerStep == TypeInv /\ HandInv /\ ServerInv /\ [Next]_vars => ServerInv'
<1>. SUFFICES ASSUME TypeInv, HandInv, ServerInv, [Next]_vars PROVE ServerInv'
  OBVIOUS
<1>. USE Numbers, NewChannelType
<1>1. CASE ClientActs
  <2>1. UNCHANGED <<server, runtimes, downstream>>
    BY <1>1, ClientLeavesServer DEF registry
  <2>2. CASE Connect
    BY <2>1, <2>2, ConnectEffect DEF ServerInv, Packet
  <2>3. ASSUME NEW type \in {"input", "disconnect"}, Send(type) PROVE ServerInv'
    BY <2>1, <2>3, SendEffect DEF ServerInv, Packet
  <2>4. CASE SendFails \/ (\E d \in downstream : ClientGetsAck(d)) \/ Leave
    <3>1. client'.chan.last = client.chan.last /\ upstream' = upstream
      BY <2>4, FreeEffect, LeaveEffect DEF SendFails, ClientGetsAck, Leave, network
    <3>. QED  BY <2>1, <3>1 DEF ServerInv
  <2>5. ASSUME NEW d \in downstream, ClientGetsOutput(d) PROVE ServerInv'
    <3>1. d.type = "output" /\ runtimes # 0
      BY <2>5 DEF ClientGetsOutput, ServerInv
    <3>. QED  BY <2>1, <3>1 DEF ServerInv
  <2>. QED  BY <1>1, <2>2, <2>3, <2>4, <2>5 DEF ClientActs
<1>2. ASSUME NEW p \in upstream, FindRuntime(p) PROVE ServerInv'
  <2>1. downstream' = downstream
    BY <1>2 DEF FindRuntime, network
  <2>. QED  BY <1>2, <2>1, FindEffect DEF ServerInv, SameChannels
<1>3. CASE AcceptAck \/ AcceptPacket
  <2>1. runtimes' = runtimes /\ runtimes \in Runtimes
    BY <1>3, InHandNow DEF AcceptAck, AcceptPacket, registry, Busy
  <2>3. \A r \in Runtimes :
            /\ server'[r].chan.pending # 0 => server'[r].chan.pending + 1 = server'[r].chan.next
            /\ r > runtimes => server'[r].chan = NewChannel
    BY <1>3, <2>1, AcceptEffect DEF ServerInv
  <2>4. \A d \in downstream' : d \in downstream \/ d.type = "ack"
    BY <1>3, PacketEffect DEF AcceptAck, network
  <2>. QED  BY <2>1, <2>3, <2>4 DEF ServerInv
<1>4. CASE Write \/ Disconnect \/ DisconnectStops
  BY <1>4 DEF Write, Disconnect, DisconnectStops, Remove, StopSession, ServerInv, registry, network
<1>5. CASE OthersAct
  <2>1. UNCHANGED <<client, runtimes, upstream>>
    BY <1>5, OthersLeaveHand
  <2>2. ASSUME NEW r \in Runtimes, Output(r) PROVE ServerInv'
    <3>1. \A q \in Runtimes :
              /\ server'[q].chan.pending # 0 => server'[q].chan.pending + 1 = server'[q].chan.next
              /\ q > runtimes => server'[q].chan = NewChannel
      BY <2>2, OutputEffect, SentChannel DEF ServerInv, ChangesOnly
    <3>. QED  BY <2>1, <2>2, <3>1, OutputEffect DEF ServerInv
  <2>3. ASSUME NEW r \in Runtimes, Retransmit(r) PROVE ServerInv'
    <3>1. r <= runtimes /\ server' = server
      BY <2>3, RetransmitEffect DEF Retransmit, ServerInv, serverSide
    <3>. QED  BY <2>1, <2>3, <3>1, RetransmitEffect DEF ServerInv
  <2>4. ASSUME NEW r \in Runtimes, OutputFails(r) PROVE ServerInv'
    <3>1. r <= runtimes /\ downstream' = downstream
      BY <2>4 DEF OutputFails, ServerInv, network
    <3>2. \A q \in Runtimes :
              /\ server'[q].chan.pending # 0 => server'[q].chan.pending + 1 = server'[q].chan.next
              /\ q > runtimes => server'[q].chan = NewChannel
      BY <2>4, <3>1, OutputFailsEffect, FreeChannel DEF ServerInv, ChangesOnly
    <3>. QED  BY <2>1, <3>1, <3>2 DEF ServerInv
  <2>5. CASE JanitorRemoves \/ JanitorStops \/ \E r \in Runtimes : ShellExits(r)
    BY <2>1, <2>5
    DEF JanitorRemoves, JanitorStops, Remove, StopSession, ShellExits, ServerInv, network
  <2>. QED  BY <1>5, <2>2, <2>3, <2>4, <2>5 DEF OthersAct
<1>6. CASE UNCHANGED vars
  BY <1>6 DEF vars, ServerInv, registry, network
<1>. QED  BY <1>1, <1>2, <1>3, <1>4, <1>5, <1>6, NextSplit

LEMMA FirstRuntimeStep ==
    TypeInv /\ HandInv /\ ServerInv /\ FirstRuntimeInv /\ [Next]_vars => FirstRuntimeInv'
<1>. SUFFICES ASSUME TypeInv, HandInv, ServerInv, FirstRuntimeInv, [Next]_vars, runtimes' = 1
              PROVE  FirstRuntimeInv'
  BY DEF FirstRuntimeInv
<1>. USE Numbers, NewChannelType
<1>1. CASE /\ runtimes = 1
           /\ server'[1].chan.next = server[1].chan.next
           /\ client'.chan.last \in {client.chan.last, 0}
           /\ \A p \in upstream' \ upstream : p.type # "ack"
           /\ \A d \in downstream' \ downstream : d.type # "output" \/ d.seq < server[1].chan.next
           /\ shown' = shown
  BY <1>1 DEF FirstRuntimeInv, Returned
<1>2. CASE ClientActs
  <2>1. UNCHANGED <<server, runtimes, downstream>> /\ runtimes = 1
    BY <1>2, ClientLeavesServer DEF registry
  <2>2. CASE Connect
    BY <1>1, <2>1, <2>2, ConnectEffect DEF Connect, outputs
  <2>3. ASSUME NEW type \in {"input", "disconnect"}, Send(type) PROVE FirstRuntimeInv'
    BY <1>1, <2>1, <2>3, SendEffect DEF Send, outputs
  <2>4. CASE SendFails \/ (\E d \in downstream : ClientGetsAck(d)) \/ Leave
    <3>1. client'.chan.last = client.chan.last
      BY <2>4, FreeEffect, LeaveEffect DEF SendFails, ClientGetsAck
    <3>. QED  BY <1>1, <2>1, <2>4, <3>1 DEF SendFails, ClientGetsAck, Leave, network, outputs
  <2>5. ASSUME NEW d \in downstream, ClientGetsOutput(d) PROVE FirstRuntimeInv'
    <3>1. d.runtime = 1 /\ d.seq # 0 /\ d.seq < server[1].chan.next /\ 1 \in Runtimes
      BY <2>1, <2>5 DEF ClientGetsOutput, ServerInv, FirstRuntimeInv
    <3>2. client'.chan.last < server[1].chan.next /\ shown \subseteq shown'
      BY <2>1, <2>5, <3>1, ShownEffect DEF FirstRuntimeInv
    <3>3. \A p \in upstream' \ upstream : p.seq = d.seq
      BY <2>5, ShownEffect
    <3>4. ASSUME NEW n \in Nat \ {0}, n + 1 = server[1].chan.next, Returned(n)'
          PROVE  <<1, n>> \in shown'
      <4>1. CASE Returned(n)
        BY <2>1, <3>2, <3>4, <4>1 DEF FirstRuntimeInv
      <4>2. CASE ~ Returned(n)
        <5>1. n = d.seq
          BY <2>5, <3>3, <3>4, <4>2, ShownEffect DEF Returned
        <5>2. ~ (n <= client.chan.last)
          BY <2>1, <3>4, <4>2 DEF Returned, FirstRuntimeInv
        <5>3. shown' = shown \cup {<<d.runtime, d.seq>>}
          BY <2>5, <5>1, <5>2, ShownEffect
        <5>. QED  BY <3>1, <5>1, <5>3
      <4>. QED  BY <4>1, <4>2
    <3>. QED  BY <2>1, <3>1, <3>2, <3>3, <3>4 DEF FirstRuntimeInv
  <2>. QED  BY <1>2, <2>2, <2>3, <2>4, <2>5 DEF ClientActs
<1>3. ASSUME NEW p \in upstream, FindRuntime(p) PROVE FirstRuntimeInv'
  <2>1. UNCHANGED <<client, upstream, downstream, shown>> /\ runtimes' \in Runtimes
    BY <1>3, FindEffect DEF FindRuntime, network, outputs
  <2>2. server'[1].chan = server[1].chan
    BY <1>3, <2>1, FindEffect DEF SameChannels
  <2>3. CASE runtimes = 1
    BY <1>1, <2>1, <2>2, <2>3
  <2>4. CASE runtimes # 1
    <3>1. runtimes = 0 /\ 1 \in Runtimes
      BY <1>3, <2>1, <2>4, FindEffect
    <3>2. server'[1].chan.next = 1
      BY <2>2, <3>1 DEF ServerInv
    <3>. QED  BY <2>1, <3>1, <3>2 DEF FirstRuntimeInv, ServerInv, Packet
  <2>. QED  BY <2>3, <2>4
<1>4. CASE AcceptAck \/ AcceptPacket
  <2>1. UNCHANGED <<client, upstream, shown, runtimes>> /\ 1 \in Runtimes /\ runtimes = 1
    BY <1>4, InHandNow DEF AcceptAck, AcceptPacket, registry, network, outputs, Busy
  <2>2. \A d \in downstream' \ downstream : d.type = "ack"
    BY <1>4, PacketEffect DEF AcceptAck, network
  <2>3. server'[1].chan.next = server[1].chan.next
    BY <1>4, <2>1, AcceptEffect
  <2>. QED  BY <1>1, <2>1, <2>2, <2>3
<1>5. CASE Write \/ Disconnect \/ DisconnectStops
  BY <1>1, <1>5
  DEF Write, Disconnect, DisconnectStops, Remove, StopSession, registry, network, outputs
<1>6. CASE OthersAct
  <2>1. UNCHANGED <<client, runtimes, upstream, shown>> /\ runtimes = 1 /\ 1 \in Runtimes
    BY <1>6, OthersLeaveHand DEF outputs
  <2>2. ASSUME NEW r \in Runtimes, Output(r) PROVE FirstRuntimeInv'
    <3>1. r = 1
      BY <2>1, <2>2, OutputEffect
    <3>2. server'[1].chan.next = server[1].chan.next + 1
      BY <2>2, <3>1, OutputEffect, SentChannel DEF ChangesOnly
    <3>3. \A n \in Nat \ {0} : n + 1 = server'[1].chan.next => ~ Returned(n)'
      BY <2>1, <3>2 DEF FirstRuntimeInv, Returned
    <3>. QED  BY <2>1, <2>2, <3>1, <3>2, <3>3, OutputEffect DEF FirstRuntimeInv
  <2>3. ASSUME NEW r \in Runtimes, Retransmit(r) PROVE FirstRuntimeInv'
    <3>1. r = 1 /\ server[1].chan.pending < server[1].chan.next /\ server' = server
      BY <2>1, <2>3, RetransmitEffect DEF Retransmit, ServerInv, serverSide
    <3>. QED  BY <1>1, <2>1, <2>3, <3>1, RetransmitEffect
  <2>4. ASSUME NEW r \in Runtimes, OutputFails(r) PROVE FirstRuntimeInv'
    <3>1. server'[1].chan.next = server[1].chan.next
      BY <2>1, <2>4, OutputFailsEffect, FreeChannel DEF ChangesOnly
    <3>. QED  BY <1>1, <2>1, <2>4, <3>1 DEF OutputFails, network
  <2>5. CASE JanitorRemoves \/ JanitorStops \/ \E r \in Runtimes : ShellExits(r)
    BY <1>1, <2>1, <2>5 DEF JanitorRemoves, JanitorStops, Remove, StopSession, ShellExits, network
  <2>. QED  BY <1>6, <2>2, <2>3, <2>4, <2>5 DEF OthersAct
<1>7. CASE UNCHANGED vars
  BY <1>1, <1>7 DEF vars, registry, network, outputs
<1>. QED  BY <1>2, <1>3, <1>4, <1>5, <1>6, <1>7, NextSplit

LEMMA FirstShownStep ==
    TypeInv /\ HandInv /\ ServerInv /\ FirstRuntimeInv /\ FirstRuntimeIsShown /\ [Next]_vars
        => FirstRuntimeIsShown'
<1>. SUFFICES ASSUME TypeInv, HandInv, ServerInv, FirstRuntimeInv, FirstRuntimeIsShown, [Next]_vars
              PROVE  FirstRuntimeIsShown'
  OBVIOUS
<1>1. CASE ackedOutput' = ackedOutput /\ shown \subseteq shown'
  BY <1>1 DEF FirstRuntimeIsShown
<1>2. CASE AcceptAck
  <2>1. shown' = shown /\ Busy /\ recv.packet.type = "ack"
    BY <1>2 DEF AcceptAck, Busy
  <2>2. CASE ackedOutput' = ackedOutput
    BY <1>1, <2>1, <2>2
  <2>3. CASE /\ server[runtimes].chan.pending # 0 /\ server[runtimes].chan.pending = Handled
             /\ ackedOutput' = ackedOutput \cup {<<runtimes, Handled>>}
    <3>1. recv.packet \in upstream /\ runtimes \in Runtimes /\ Handled \in Nat \ {0}
      BY <2>1, <2>3, InHandNow
    <3>2. Returned(Handled)
      BY <2>1, <3>1 DEF Returned, Handled
    <3>3. runtimes = 1 => <<1, Handled>> \in shown
      BY <2>3, <3>1, <3>2, Numbers DEF FirstRuntimeInv, ServerInv
    <3>. QED  BY <2>1, <2>3, <3>3 DEF FirstRuntimeIsShown
  <2>. QED  BY <1>2, <2>2, <2>3, AckEffect
<1>3. CASE ClientActs
  <2>1. shown \subseteq shown'
    BY <1>3
    DEF ClientActs, Connect, Send, SendFails, ClientGetsAck, ClientGetsOutput, Leave, outputs
  <2>. QED  BY <1>1, <1>3, <2>1, ClientLeavesServer
<1>4. CASE OthersAct
  BY <1>1, <1>4, OthersLeaveHand DEF outputs
<1>5. CASE \/ \E p \in upstream : FindRuntime(p)
           \/ AcceptPacket \/ Write \/ Disconnect \/ DisconnectStops \/ UNCHANGED vars
  BY <1>1, <1>5
  DEF FindRuntime, AcceptPacket, Write, Disconnect, DisconnectStops, Remove, StopSession, vars, outputs
<1>. QED  BY <1>2, <1>3, <1>4, <1>5, NextSplit
------------------------------------------------------------------------------
(* However many connections, runtimes and packets there are, the two ends   *)
(* of a client id stand to each other as ConversationInv says.              *)
THEOREM ConversationInvariant == Spec => []ConversationInv
<1>1. ConversationInv /\ [Next]_vars => ConversationInv'
  BY TypeStep, HandStep, ShellStep, ClientStep, FirstClientStep, FirstServedStep, ServerStep,
     FirstRuntimeStep, FirstShownStep
  DEF ConversationInv
<1>. QED  BY <1>1, ConversationInit, PTL DEF Spec

(* An input that send_packet reports as confirmed to the first connection   *)
(* of a client id was given to a session, or is about to be, whatever the   *)
(* janitor removes between the lookup, the ACK and the write of _recv_loop; *)
(* what a session does with it is another matter: its shell may be gone.    *)
THEOREM FirstConnectionServed == Spec => []FirstConnectionIsServed
<1>1. ConversationInv => FirstConnectionIsServed
  <2>. SUFFICES ASSUME ConversationInv, NEW m \in acked \cap Inputs, m[1] = 1
                PROVE  Reached(m)
    BY DEF FirstConnectionIsServed
  <2>1. PICK p \in upstream : p.type = "input" /\ m = <<p.from, p.seq>>
    BY DEF Inputs
  <2>2. m = First(p.seq) /\ p.from = 1
    BY <2>1 DEF First
  <2>. QED  BY <2>1, <2>2 DEF ConversationInv, FirstServedInv
<1>. QED  BY <1>1, ConversationInvariant, PTL

(* A chunk that send_packet reports as confirmed to the first runtime was   *)
(* given to on_output, however many connections came and went.              *)
THEOREM FirstRuntimeShown == Spec => []FirstRuntimeIsShown
<1>1. ConversationInv => FirstRuntimeIsShown
  BY DEF ConversationInv
<1>. QED  BY <1>1, ConversationInvariant, PTL

(* accept's filter gives one shell each number at most once and in order,   *)
(* whichever connections and old packets reach it.                          *)
THEOREM InputsOncePerShell == Spec => OncePerShell
<1>1. ASSUME TypeInv, HandInv, ShellInv, [Next]_vars,
             NEW e \in executed' \ executed, NEW d \in executed, d[1] = e[1]
      PROVE  d[3] < e[3]
  <2>1. executed' # executed
    OBVIOUS
  <2>2. Write
    BY <1>1, <2>1, ClientLeavesServer, OthersLeaveHand, NextSplit
    DEF vars, inputs, FindRuntime, AcceptAck, AcceptPacket, Disconnect, DisconnectStops, Remove,
        StopSession
  <2>3. e = <<runtimes, recv.packet.from, Handled>> /\ recv.at = "handle"
    BY <1>1, <2>2, WriteEffect
  <2>. QED  BY <1>1, <2>3 DEF ShellInv
<1>2. ConversationInv => TypeInv /\ HandInv /\ ShellInv
  BY DEF ConversationInv
<1>3. TypeInv /\ HandInv /\ ShellInv /\ [Next]_vars =>
          [\A e \in executed' \ executed, d \in executed : d[1] = e[1] => d[3] < e[3]]_vars
  BY <1>1
<1>. QED  BY <1>2, <1>3, ConversationInvariant, PTL DEF Spec, OncePerShell
==============================================================================
