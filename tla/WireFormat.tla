------------------------------ MODULE WireFormat ------------------------------
(***************************************************************************)
(* protocol.py: packets, their datagrams, and the payloads of input; and   *)
(* what the server makes of an input payload (server.py,                   *)
(* _handle_command_input).                                                 *)
(*                                                                         *)
(* A datagram is the fields of its header and the bytes that follow them;  *)
(* numbers inside a payload are written byte by byte, with ByteSpace       *)
(* values to a byte.  Where the code raises, the value is Error.            *)
(***************************************************************************)
EXTENDS Integers, Sequences, SequencesExt

CONSTANTS
    ByteSpace,       \* 256: values of a byte
    LengthSpace,     \* 2^16: values of the header's length field
    FieldSpace,      \* 2^32: values of its sequence and client id fields
    HeaderSize,      \* 13
    MaxDatagramSize, \* 1400
    RecvSize,        \* 2048: what recvfrom is asked for
    Payloads         \* byte strings that are sent

ASSUME WireAssumption ==
    /\ ByteSpace \in Nat /\ ByteSpace >= 2
    /\ {LengthSpace, FieldSpace, HeaderSize} \subseteq Nat \ {0}
    /\ MaxDatagramSize \in Nat /\ RecvSize \in Nat
    /\ HeaderSize < MaxDatagramSize /\ MaxDatagramSize <= RecvSize
    /\ RecvSize < LengthSpace
    /\ HeaderSize + 5 <= RecvSize
    /\ Payloads \subseteq Seq(Nat)

MaxPayloadSize == MaxDatagramSize - HeaderSize
MessageTypes == 1..5      \* COMMAND_INPUT, COMMAND_OUTPUT, ACK, HEARTBEAT, DISCONNECT
DATA == 1
RESIZE == 2
INFO == 3
HISTORY_APPEND == 4
SIGNAL == 5
InputKinds == 1..5
Error == [error |-> TRUE]
------------------------------------------------------------------------------
(* Faulty variants of definitions below, for the checks of the properties.  *)

AnyLength(d) == TRUE
DropsRest(data, size) == [i \in 1 .. (Len(data) - 1) \div size |->
                             SubSeq(data, (i - 1) * size + 1, i * size)]
------------------------------------------------------------------------------
(* Packet.encode, Packet.decode                                             *)

Fits(payload) == Len(payload) < LengthSpace

Encode(p) ==
    IF ~ Fits(p.payload) THEN Error
    ELSE [magic |-> TRUE, type |-> p.type, sequence |-> p.sequence % FieldSpace,
          length |-> Len(p.payload), client |-> p.client % FieldSpace, body |-> p.payload]

LengthMatches(d) == Len(d.body) = d.length

Decode(d) ==
    IF d = Error \/ ~ d.magic \/ ~ LengthMatches(d) \/ d.type \notin MessageTypes THEN Error
    ELSE [type |-> d.type, sequence |-> d.sequence, client |-> d.client, payload |-> d.body]

Size(d) == HeaderSize + Len(d.body)

(* recvfrom(RecvSize) as POSIX has it: what does not fit is cut off.  (On   *)
(* Windows it is an OSError, which ends the server's receive loop.)         *)
Received(d) ==
    IF d = Error \/ Size(d) <= RecvSize THEN d
    ELSE [d EXCEPT !.body = SubSeq(d.body, 1, RecvSize - HeaderSize)]

(* chunk_bytes                                                              *)
ChunkBytes(data, size) ==
    [i \in 1 .. (Len(data) + size - 1) \div size |->
        SubSeq(data, (i - 1) * size + 1, IF i * size < Len(data) THEN i * size ELSE Len(data))]
------------------------------------------------------------------------------
(* struct.pack and struct.unpack of two and of four bytes, big-endian       *)

Power[w \in Nat] == IF w = 0 THEN 1 ELSE ByteSpace * Power[w - 1]
Pack(n, w) == [i \in 1..w |-> (n \div Power[w - i]) % ByteSpace]
Unpack2(bytes) == bytes[1] * ByteSpace + bytes[2]
Unpack4(bytes) == Unpack2(bytes) * Power[2] + Unpack2(SubSeq(bytes, 3, 4))
Signed(n) == IF 2 * n >= Power[4] THEN n - Power[4] ELSE n

(* build_input_payload and the other builders: one operator, by the kind of *)
(* what is to be sent.  A terminal size below 1 is refused by the builder,  *)
(* one that two bytes cannot hold by struct.pack.                           *)
Buildable(x) == x.kind = RESIZE => {x.rows, x.columns} \subseteq 1 .. Power[2] - 1

BuildInput(x) ==
    CASE x.kind \in {DATA, HISTORY_APPEND} -> <<x.kind>> \o x.bytes
      [] x.kind = RESIZE -> <<RESIZE>> \o Pack(x.rows, 2) \o Pack(x.columns, 2)
      [] x.kind = SIGNAL -> <<SIGNAL>> \o Pack(x.signum, 4)
      [] x.kind = INFO -> <<INFO>>

(* parse_input_payload and what _handle_command_input does with the kind:   *)
(* the same record again, or Error where it logs and returns.               *)
HandleInput(payload) ==
    IF payload = <<>> \/ Head(payload) \notin InputKinds THEN Error
    ELSE LET kind == Head(payload)
             rest == Tail(payload)
         IN  CASE kind = DATA -> [kind |-> DATA, bytes |-> rest]
               [] kind = HISTORY_APPEND ->
                     IF rest = <<>> THEN Error ELSE [kind |-> HISTORY_APPEND, bytes |-> rest]
               [] kind = RESIZE ->
                     IF Len(rest) # 4 THEN Error
                     ELSE [kind |-> RESIZE, rows |-> Unpack2(rest), columns |-> Unpack2(SubSeq(rest, 3, 4))]
               [] kind = SIGNAL ->
                     IF Len(rest) # 4 THEN Error
                     ELSE [kind |-> SIGNAL, signum |-> Signed(Unpack4(rest))]
               [] kind = INFO -> [kind |-> INFO]
------------------------------------------------------------------------------
Inputs ==
    [kind : {DATA, HISTORY_APPEND}, bytes : Payloads]
        \cup [kind : {RESIZE}, rows : 0 .. Power[2], columns : 0 .. Power[2]]
        \cup [kind : {SIGNAL}, signum : -(Power[4] \div 2) .. Power[4] \div 2 - 1]
        \cup [kind : {INFO}]

(* However long a paste is, the server does with an input what the client   *)
(* meant or does nothing at all: a datagram that recvfrom cuts is refused,  *)
(* and one that is not too long arrives.                                    *)
InputsArriveWhole ==
    \A x \in {y \in Inputs : Buildable(y)} :
        LET p == [type |-> 1, sequence |-> 1, client |-> 1, payload |-> BuildInput(x)]
            read == Decode(Received(Encode(p)))
        IN  IF Fits(p.payload) /\ HeaderSize + Len(p.payload) <= RecvSize
            THEN x = HandleInput(read.payload) \/ (x.kind = HISTORY_APPEND /\ x.bytes = <<>>)
            ELSE read = Error
==============================================================================
