---------------------------- MODULE Conversation ----------------------------
(***************************************************************************)
(* One client id, end to end: the connections a client makes under it, one *)
(* after the other, and the runtimes the server makes for it.  Both ends   *)
(* number their packets from 1 in every incarnation (transport.py's        *)
(* _next_sequence and _last_delivered_sequence), while the packets carry   *)
(* the client id and no incarnation, so what either end makes of a packet  *)
(* depends on which incarnations meet.                                     *)
(*                                                                         *)
(* The receive thread looks a runtime up, accepts the packet and gives it  *)
(* to the session in three steps, and the janitor, the sender thread of    *)
(* each runtime and the shells act between them.  The sessions are POSIX   *)
(* ones; UtermServer has their descriptors, WindowsSession the other kind. *)
(*                                                                         *)
(* Heartbeats and the like take numbers as inputs do and leave no trace;   *)
(* they have no action of their own.  A call of send_packet is one pending *)
(* number; each connection has an address of its own, the server answers   *)
(* the address it last heard from.  ReliableChannel looks inside the steps *)
(* that are atomic here.                                                   *)
(***************************************************************************)
EXTENDS Naturals, FiniteSets

CONSTANTS
    MaxConnections,  \* bound: connections made under the client id
    MaxRuntimes,     \* bound: runtimes made for it
    MaxPackets       \* bound: calls of send_packet at both ends together

ASSUME ConversationAssumption ==
    {MaxConnections, MaxRuntimes, MaxPackets} \subseteq Nat

VARIABLES
    client,      \* the connection: its number, whether it is up, its channel
    runtimes,    \* how many runtimes there have been
    registered,  \* the runtime in _clients, 0 if none
    server,      \* the channel of each runtime and the address it answers
    gone,        \* the runtimes whose shell has exited or was stopped
    late,        \* removed runtimes that their sender thread had looked up by then
    recv,        \* the receive thread: where it is, with which packet and runtime
    janitor,     \* the runtime whose session the janitor stops, 0 if none
    upstream,    \* datagrams sent to the server
    downstream,  \* datagrams sent to clients
    executed,    \* history: inputs a running shell was given, with its runtime
    lost,        \* history: inputs written when the shell was gone
    acked,       \* history: inputs whose send_packet returned
    shown,       \* history: chunks given to on_output
    ackedOutput  \* history: chunks whose send_packet returned

registry == <<runtimes, registered, late>>
threads == <<recv, janitor>>
network == <<upstream, downstream>>
inputs == <<executed, lost, acked>>
outputs == <<shown, ackedOutput>>
vars == <<client, registry, server, gone, threads, network, inputs, outputs>>

Runtimes == 1..MaxRuntimes
NewChannel == [next |-> 1, pending |-> 0, last |-> 0]
Probe(c) == [from |-> c, type |-> "probe", seq |-> 0]
Idle == [at |-> "recvfrom", packet |-> Probe(0), runtime |-> 0]

Init ==
    /\ client = [id |-> 0, up |-> FALSE, chan |-> NewChannel]
    /\ runtimes = 0
    /\ registered = 0
    /\ server = [r \in Runtimes |-> [remote |-> 0, chan |-> NewChannel]]
    /\ gone = {}
    /\ late = {}
    /\ recv = Idle
    /\ janitor = 0
    /\ upstream = {}
    /\ downstream = {}
    /\ executed = {}
    /\ lost = {}
    /\ acked = {}
    /\ shown = {}
    /\ ackedOutput = {}

MorePackets ==
    Cardinality({p \in upstream : p.type \in {"input", "disconnect"}})
        + Cardinality({<<d.runtime, d.seq>> : d \in {e \in downstream : e.type = "output"}})
    < MaxPackets

FromClient(type, n) == [from |-> client.id, type |-> type, seq |-> n]
Chunk(r, n) == [to |-> server[r].remote, type |-> "output", runtime |-> r, seq |-> n]
------------------------------------------------------------------------------
(* Faulty variants of definitions below, for the checks of the properties.  *)

ForgetfulFilter(ch, n) == FALSE
AnyAck(ch, n) == ch.pending # 0
------------------------------------------------------------------------------
(* A channel: the filter of accept, and the event an ACK sets.              *)

IsDuplicate(ch, n) == n <= ch.last
Answers(ch, n) == ch.pending # 0 /\ ch.pending = n

Sent(ch) == [ch EXCEPT !.pending = ch.next, !.next = @ + 1]
Free(ch) == [ch EXCEPT !.pending = 0]
Delivered(ch, n) == [ch EXCEPT !.last = n]
------------------------------------------------------------------------------
(* The client *)

serverSide == <<registry, server, gone, threads>>

(* probe_server sends a HEARTBEAT numbered 0 before the connection starts.  *)
Connect ==
    /\ ~ client.up
    /\ client.id < MaxConnections
    /\ client' = [id |-> client.id + 1, up |-> TRUE, chan |-> NewChannel]
    /\ upstream' = upstream \cup {Probe(client.id + 1)}
    /\ UNCHANGED <<serverSide, downstream, inputs, outputs>>

Send(type) ==
    /\ client.up
    /\ client.chan.pending = 0
    /\ MorePackets
    /\ upstream' = upstream \cup {FromClient(type, client.chan.next)}
    /\ client' = [client EXCEPT !.chan = Sent(@)]
    /\ UNCHANGED <<serverSide, downstream, inputs, outputs>>

(* Retransmissions exhausted.                                               *)
SendFails ==
    /\ client.up
    /\ client.chan.pending # 0
    /\ client' = [client EXCEPT !.chan = Free(@)]
    /\ UNCHANGED <<serverSide, network, inputs, outputs>>

ClientGetsAck(d) ==
    /\ client.up
    /\ d.to = client.id
    /\ d.type = "ack"
    /\ Answers(client.chan, d.seq)
    /\ acked' = acked \cup {<<client.id, d.seq>>}
    /\ client' = [client EXCEPT !.chan = Free(@)]
    /\ UNCHANGED <<serverSide, network, executed, lost, outputs>>

ClientGetsOutput(d) ==
    /\ client.up
    /\ d.to = client.id
    /\ d.type = "output"
    /\ upstream' = upstream \cup {FromClient("ack", d.seq)}
    /\ IF IsDuplicate(client.chan, d.seq)
       THEN UNCHANGED <<client, shown>>
       ELSE /\ client' = [client EXCEPT !.chan = Delivered(@, d.seq)]
            /\ shown' = shown \cup {<<d.runtime, d.seq>>}
    /\ UNCHANGED <<serverSide, downstream, inputs, ackedOutput>>

(* The connection is closed, or its process ends.                           *)
Leave ==
    /\ client.up
    /\ client' = [client EXCEPT !.up = FALSE]
    /\ UNCHANGED <<serverSide, network, inputs, outputs>>
------------------------------------------------------------------------------
(* The receive thread.  It looks up the runtime of a packet, or makes one,  *)
(* under the lock, and goes on with that runtime whatever happens to it.    *)

GoOn == recv' = Idle

FindRuntime(p) ==
    /\ recv.at = "recvfrom"
    /\ registered # 0 \/ runtimes < MaxRuntimes
    /\ runtimes' = IF registered # 0 THEN runtimes ELSE runtimes + 1
    /\ registered' = runtimes'
    /\ server' = [server EXCEPT ![runtimes'].remote = p.from]
    /\ recv' = [at |-> "accept", packet |-> p, runtime |-> runtimes']
    /\ UNCHANGED <<client, late, gone, janitor, network, inputs, outputs>>

AcceptAck ==
    /\ recv.at = "accept"
    /\ recv.packet.type = "ack"
    /\ LET r == recv.runtime
           n == recv.packet.seq
       IN  IF Answers(server[r].chan, n)
           THEN /\ server' = [server EXCEPT ![r].chan = Free(@)]
                /\ ackedOutput' = ackedOutput \cup {<<r, n>>}
           ELSE UNCHANGED <<server, ackedOutput>>
    /\ GoOn
    /\ UNCHANGED <<client, registry, gone, janitor, network, inputs, shown>>

(* The ACK goes out before the filter, and before anything is done with the *)
(* packet.                                                                  *)
AcceptPacket ==
    /\ recv.at = "accept"
    /\ recv.packet.type # "ack"
    /\ LET r == recv.runtime
           n == recv.packet.seq
       IN  /\ downstream' = downstream \cup
                  {[to |-> server[r].remote, type |-> "ack", runtime |-> 0, seq |-> n]}
           /\ IF IsDuplicate(server[r].chan, n)
              THEN GoOn /\ UNCHANGED server
              ELSE /\ server' = [server EXCEPT ![r].chan = Delivered(@, n)]
                   /\ IF recv.packet.type = "probe" THEN GoOn
                      ELSE recv' = [recv EXCEPT !.at = "handle"]
    /\ UNCHANGED <<client, registry, gone, janitor, upstream, inputs, outputs>>

(* session.write: a running shell gets the input.  With the shell gone the  *)
(* pty takes it for nobody, or the call raises and the thread ends; after   *)
(* session.stop nothing is called, or None is, if the test came before.     *)
Write ==
    /\ recv.at = "handle"
    /\ recv.packet.type = "input"
    /\ LET r == recv.runtime
           given == <<r, recv.packet.from, recv.packet.seq>>
       IN  \/ r \notin gone /\ executed' = executed \cup {given} /\ GoOn /\ UNCHANGED lost
           \/ /\ r \in gone
              /\ lost' = lost \cup {given}
              /\ GoOn \/ recv' = [Idle EXCEPT !.at = "crashed"]
              /\ UNCHANGED executed
    /\ UNCHANGED <<client, registry, server, gone, janitor, network, acked, outputs>>

(* _cleanup_client, by the receive thread or the janitor: the runtime is    *)
(* popped, and its session stopped after that.                              *)
Remove ==
    /\ registered' = 0
    /\ late' = late \cup {registered}
    /\ UNCHANGED <<client, runtimes, server, gone, network, inputs, outputs>>

StopSession(r) ==
    /\ gone' = gone \cup {r}
    /\ UNCHANGED <<client, registry, server, network, inputs, outputs>>

Disconnect ==
    /\ recv.at = "handle"
    /\ recv.packet.type = "disconnect"
    /\ \/ /\ registered # 0
          /\ Remove
          /\ recv' = [Idle EXCEPT !.at = "stop", !.runtime = registered]
       \/ /\ registered = 0
          /\ GoOn
          /\ UNCHANGED <<client, registry, server, gone, network, inputs, outputs>>
    /\ UNCHANGED janitor

DisconnectStops ==
    /\ recv.at = "stop"
    /\ StopSession(recv.runtime)
    /\ GoOn
    /\ UNCHANGED janitor

(* The janitor, after heartbeat_timeout.                                    *)
JanitorRemoves ==
    /\ janitor = 0
    /\ registered # 0
    /\ Remove
    /\ janitor' = registered
    /\ UNCHANGED recv

JanitorStops ==
    /\ janitor # 0
    /\ StopSession(janitor)
    /\ janitor' = 0
    /\ UNCHANGED recv
------------------------------------------------------------------------------
(* The sender thread of each runtime, which looks the runtime up before it  *)
(* sends and finishes what it is sending when the runtime is removed, and   *)
(* the shells.                                                              *)

Output(r) ==
    /\ r = registered \/ r \in late
    /\ server[r].chan.pending = 0
    /\ MorePackets
    /\ server' = [server EXCEPT ![r].chan = Sent(@)]
    /\ downstream' = downstream \cup {Chunk(r, server[r].chan.next)}
    /\ late' = late \ {r}
    /\ UNCHANGED <<client, runtimes, registered, gone, threads, upstream, inputs, outputs>>

(* A retransmission goes to the address last heard from.                    *)
Retransmit(r) ==
    /\ server[r].chan.pending # 0
    /\ downstream' = downstream \cup {Chunk(r, server[r].chan.pending)}
    /\ UNCHANGED <<client, serverSide, upstream, inputs, outputs>>

OutputFails(r) ==
    /\ server[r].chan.pending # 0
    /\ server' = [server EXCEPT ![r].chan = Free(@)]
    /\ UNCHANGED <<client, registry, gone, threads, network, inputs, outputs>>

ShellExits(r) ==
    /\ r <= runtimes
    /\ gone' = gone \cup {r}
    /\ UNCHANGED <<client, registry, server, threads, network, inputs, outputs>>
------------------------------------------------------------------------------
Next ==
    \/ Connect
    \/ \E type \in {"input", "disconnect"} : Send(type)
    \/ SendFails
    \/ \E d \in downstream : ClientGetsAck(d) \/ ClientGetsOutput(d)
    \/ Leave
    \/ \E p \in upstream : FindRuntime(p)
    \/ AcceptAck \/ AcceptPacket
    \/ Write \/ Disconnect \/ DisconnectStops
    \/ JanitorRemoves \/ JanitorStops
    \/ \E r \in Runtimes : Output(r) \/ Retransmit(r) \/ OutputFails(r) \/ ShellExits(r)

Spec == Init /\ [][Next]_vars
------------------------------------------------------------------------------
Inputs == {<<p.from, p.seq>> : p \in {q \in upstream : q.type = "input"}}

(* An input reached a session when its shell was given it, when the receive *)
(* thread is about to write it, or when the shell was gone by the time it   *)
(* was written: the ACK had left before, and does not tell.                 *)
InHand(m) ==
    recv.at = "handle" /\ recv.packet = [from |-> m[1], type |-> "input", seq |-> m[2]]
Reached(m) == InHand(m) \/ \E e \in executed \cup lost : <<e[2], e[3]>> = m

(* An input the client saw acknowledged reached a session, and was lost     *)
(* there only if the shell had ended, as long as no earlier connection used *)
(* the client id: runtimes may come and go, under the receive thread's feet *)
(* too, and old packets return.                                             *)
FirstConnectionIsServed ==
    \A m \in acked \cap Inputs : m[1] = 1 => Reached(m)

(* A chunk the server saw acknowledged was shown by some connection, as     *)
(* long as no earlier runtime served the client id.                         *)
FirstRuntimeIsShown ==
    \A m \in ackedOutput : m[1] = 1 => m \in shown

(* However many connections and old packets reach one runtime, a shell is   *)
(* given an input only when its number is above those it was given before.  *)
OncePerShell ==
    [][\A e \in executed' \ executed, d \in executed : d[1] = e[1] => d[3] < e[3]]_vars

(* "Reliable transmission [...] with timeout, retransmission, duplicate     *)
(* suppression, and ACK confirmation" (README_EN.md:20): an input that was  *)
(* confirmed to the client reached a session.                               *)
AckedInputIsWritten == \A m \in acked \cap Inputs : Reached(m)
==============================================================================
