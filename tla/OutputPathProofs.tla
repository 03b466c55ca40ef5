--------------------------- MODULE OutputPathProofs ---------------------------
(***************************************************************************)
(* What holds of the output path whatever the sizes of the queues, of the  *)
(* scrollback and of a payload, and however many runtimes there are.       *)
(***************************************************************************)
EXTENDS OutputPath, WireFormatProofs, FiniteSetTheorems

Kinds == {"none", "live", "status", "meta", "replay"}

ChunkType ==
    {c \in [session : Nat, kind : Kinds, units : Seq(Nat)] :
        c.kind = "live" => \E n \in Nat : c.units = <<n>>}
Call == [to : Nat, chunks : Seq(ChunkType), step : {"put", "drop", "retry"}]
SenderType == [pc : {"none", "get", "send", "ended"}, chunk : ChunkType]
History == [lost : BOOLEAN, replayed : BOOLEAN, missed : Int, sent : Seq(Nat), resent : SUBSET Nat]

TypeInv ==
    /\ created \in 0..MaxRuntimes
    /\ current \in {0, created}
    /\ recv \in {"idle", "create", "replay", "answer"}
    /\ recv = "create" => created # 0 /\ current = 0
    /\ removal \in [Runtimes -> {"none", "popped", "done"}]
    /\ reader \in [Runtimes -> {"none", "read", "emit", "put", "ended"}]
    /\ emitted \in [Runtimes -> Nat]
    /\ scrollback \in [Runtimes -> Seq(Nat)]
    /\ putting \in [Producers -> Call]
    /\ queue \in [Runtimes -> Seq(ChunkType)]
    /\ sender \in [Runtimes -> SenderType]
    /\ history \in History
    /\ \A p \in Producers :
          /\ putting[p].to <= created
          /\ putting[p].step # "put" => putting[p].chunks # <<>>
          /\ putting[p].chunks # <<>> => putting[p].to # 0
------------------------------------------------------------------------------
(* Sequences, seen as the sets of what they hold.                           *)

LEMMA SequenceSets ==
    ASSUME NEW S, NEW s \in Seq(S)
    PROVE  /\ ToSet(s) \subseteq S
           /\ ToSet(<<>>) = {}
           /\ \A c \in S : /\ Append(s, c) \in Seq(S)
                           /\ Append(s, c) # <<>>
                           /\ ToSet(Append(s, c)) = ToSet(s) \cup {c}
           /\ s # <<>> => /\ Head(s) \in S
                          /\ Tail(s) \in Seq(S)
                          /\ ToSet(s) = {Head(s)} \cup ToSet(Tail(s))
<1>1. ToSet(s) = {s[i] : i \in 1..Len(s)} /\ Len(s) \in Nat /\ \A i \in 1..Len(s) : s[i] \in S
  BY LenProperties, ElementOfSeq DEF ToSet
<1>2. ToSet(<<>>) = {}
  BY DEF ToSet
<1>3. ASSUME NEW c \in S
      PROVE  /\ Append(s, c) \in Seq(S)
             /\ Append(s, c) # <<>>
             /\ ToSet(Append(s, c)) = ToSet(s) \cup {c}
  <2>1. /\ Append(s, c) \in Seq(S) /\ Append(s, c) # <<>>
        /\ DOMAIN Append(s, c) = 1..Len(s) + 1
        /\ \A i \in 1..Len(s) : Append(s, c)[i] = s[i]
        /\ Append(s, c)[Len(s) + 1] = c
    BY AppendProperties, LenProperties
  <2>2. 1..Len(s) + 1 = (1..Len(s)) \cup {Len(s) + 1}
    BY <1>1
  <2>. QED  BY <1>1, <2>1, <2>2 DEF ToSet
<1>4. ASSUME s # <<>>
      PROVE  /\ Head(s) \in S
             /\ Tail(s) \in Seq(S)
             /\ ToSet(s) = {Head(s)} \cup ToSet(Tail(s))
  <2>1. /\ Head(s) \in S /\ Tail(s) \in Seq(S)
        /\ Len(Tail(s)) = Len(s) - 1
        /\ \A i \in 1..Len(Tail(s)) : Tail(s)[i] = s[i + 1]
        /\ Len(s) # 0
    BY <1>4, HeadTailProperties, EmptySeq
  <2>2. ToSet(Tail(s)) = {s[i + 1] : i \in 1..(Len(s) - 1)}
    BY <2>1, LenProperties DEF ToSet
  <2>3. {s[i + 1] : i \in 1..(Len(s) - 1)} = {s[i] : i \in 2..Len(s)}
    <3>1. ASSUME NEW i \in 2..Len(s) PROVE s[i] \in {s[j + 1] : j \in 1..(Len(s) - 1)}
      <4>1. i - 1 \in 1..(Len(s) - 1) /\ (i - 1) + 1 = i
        BY <1>1
      <4>. QED  BY <4>1
    <3>. QED  BY <1>1, <3>1
  <2>4. Head(s) = s[1] /\ 1..Len(s) = {1} \cup (2..Len(s))
    BY <1>1, <1>4, <2>1
  <2>5. ToSet(s) = {s[1]} \cup {s[i] : i \in 2..Len(s)}
    BY <1>1, <2>4
  <2>6. ToSet(s) = {Head(s)} \cup ToSet(Tail(s))
    BY <2>2, <2>3, <2>4, <2>5
  <2>. QED  BY <2>1, <2>6
<1>. QED  BY <1>1, <1>2, <1>3, <1>4

(* chunk_bytes returns byte strings, and every byte is in one of them.      *)
LEMMA Pieces ==
    ASSUME NEW S, NEW data \in Seq(S), NEW size \in Nat \ {0}
    PROVE  /\ ChunkBytes(data, size) \in Seq(Seq(S))
           /\ \A x \in ToSet(data) : \E piece \in ToSet(ChunkBytes(data, size)) : x \in ToSet(piece)
<1>. DEFINE len == Len(data)
            n == (len + size - 1) \div size
            from(i) == (i - 1) * size + 1
            upTo(i) == IF i * size < len THEN i * size ELSE len
            piece(i) == SubSeq(data, from(i), upTo(i))
<1>1. len \in Nat /\ n \in Nat /\ \A k \in 1..len : data[k] \in S
  <2>1. len \in Nat /\ len + size - 1 \in Nat
    BY LenProperties
  <2>. QED  BY <2>1, ElementOfSeq
<1>2. ASSUME NEW i \in 1..n
      PROVE  /\ from(i) \in Nat \ {0} /\ upTo(i) \in Nat /\ upTo(i) <= len
             /\ piece(i) \in Seq(S)
             /\ \A k \in from(i)..upTo(i) : data[k] \in ToSet(piece(i))
  <2>1. i - 1 \in Nat /\ i \in Nat
    BY <1>1
  <2>2. (i - 1) * size \in Nat /\ i * size \in Nat
    BY <2>1
  <2>3. from(i) \in Nat \ {0} /\ upTo(i) \in Nat /\ upTo(i) <= len
    BY <1>1, <2>2
  <2>4. \A k \in from(i)..upTo(i) : data[k] \in S
    BY <1>1, <2>3
  <2>5. /\ piece(i) \in Seq(S)
        /\ Len(piece(i)) = IF from(i) <= upTo(i) THEN upTo(i) - from(i) + 1 ELSE 0
        /\ \A j \in 1..upTo(i) - from(i) + 1 : piece(i)[j] = data[from(i) + j - 1]
    BY <2>3, <2>4, SubSeqProperties
  <2>. HIDE DEF piece, from, upTo
  <2>6. ASSUME NEW k \in from(i)..upTo(i) PROVE data[k] \in ToSet(piece(i))
    <3>. DEFINE j == k - from(i) + 1
    <3>1. k \in Int /\ from(i) \in Int /\ upTo(i) \in Int /\ from(i) <= k /\ k <= upTo(i)
      BY <2>3
    <3>2. j \in 1..upTo(i) - from(i) + 1 /\ from(i) + j - 1 = k /\ from(i) <= upTo(i)
      BY <3>1
    <3>. HIDE DEF j
    <3>3. piece(i)[j] = data[k] /\ Len(piece(i)) = upTo(i) - from(i) + 1
      BY <2>5, <3>2
    <3>4. DOMAIN piece(i) = 1..Len(piece(i))
      BY <2>5, LenProperties
    <3>. QED  BY <3>2, <3>3, <3>4 DEF ToSet
  <2>. QED  BY <2>3, <2>5, <2>6
<1>3. ChunkBytes(data, size) = [i \in 1..n |-> piece(i)]
  BY DEF ChunkBytes
<1>4. ChunkBytes(data, size) \in Seq(Seq(S))
  <2>1. ChunkBytes(data, size) \in [1..n -> Seq(S)]
    BY <1>2, <1>3
  <2>2. \A T, f : f \in [1..n -> T] => f \in Seq(T)
    BY <1>1
  <2>. QED  BY <2>1, <2>2
<1>5. ASSUME NEW k \in 1..len
      PROVE  \E i \in 1..n : k \in from(i)..upTo(i)
  <2>. DEFINE q == (k - 1) \div size
  <2>1. /\ k - 1 \in Nat /\ q \in Nat
        /\ q * size <= k - 1 /\ k - 1 < (q + 1) * size
    OBVIOUS
  <2>2. q + 1 \in 1..n
    OBVIOUS
  <2>3. k \in from(q + 1)..upTo(q + 1)
    BY <1>1, <2>1
  <2>. QED  BY <2>2, <2>3
<1>6. ASSUME NEW x \in ToSet(data)
      PROVE  \E p \in ToSet(ChunkBytes(data, size)) : x \in ToSet(p)
  <2>1. PICK k \in 1..len : x = data[k]
    BY LenProperties DEF ToSet
  <2>2. PICK i \in 1..n : k \in from(i)..upTo(i)
    BY <1>5
  <2>3. piece(i) \in ToSet(ChunkBytes(data, size))
    BY <1>3, <2>2 DEF ToSet
  <2>. QED  BY <1>2, <2>1, <2>2, <2>3
<1>. QED  BY <1>4, <1>6
------------------------------------------------------------------------------
(* What the steps do to the fields the invariant speaks of.                 *)

LEMMA ChunkTypes ==
    ASSUME NEW r \in Nat
    PROVE  /\ \A n \in Nat : Chunk(r, "live", <<n>>) \in ChunkType
           /\ Chunk(0, "none", <<>>) \in ChunkType
           /\ \A k \in {"status", "meta"} : Chunk(r, k, <<>>) \in ChunkType
           /\ \A us \in Seq(Nat) : Chunk(r, "replay", us) \in ChunkType
  BY DEF Chunk, ChunkType, Kinds

LEMMA OneChunk ==
    ASSUME NEW c
    PROVE  <<c>> # <<>> /\ Len(<<c>>) = 1 /\ ToSet(<<c>>) = {c}
  BY DEF ToSet

LEMMA FreshTypes ==
    ASSUME NEW n \in Int
    PROVE  /\ Fresh(n) \in History
           /\ Fresh(n).lost = FALSE /\ Fresh(n).replayed = FALSE
           /\ Fresh(n).missed = n /\ Fresh(n).sent = <<>>
  BY DEF Fresh, History

LEMMA LossyTypes ==
    ASSUME NEW h \in History
    PROVE  Lossy(h) \in History /\ Lossy(h).lost = TRUE /\ Lossy(h).sent = h.sent
<1>1. Fresh(0) \in History
  BY 0 \in Int, FreshTypes
<1>2. h.sent \in Seq(Nat)
  BY DEF History
<1>. QED  BY <1>1, <1>2 DEF Lossy, History

LEMMA HandOverEffect ==
    ASSUME TypeInv, NEW c \in ChunkType
    PROVE  /\ HandOver(c) \in History
           /\ HandOver(c).lost = history.lost
           /\ HandOver(c).replayed = history.replayed
           /\ HandOver(c).missed = history.missed
           /\ HandOver(c).sent = IF c.session = current /\ c.kind = "live"
                                 THEN history.sent \o c.units ELSE history.sent
           /\ HandOver(c).resent = IF c.session = current /\ c.kind = "replay" /\ ~ history.lost
                                   THEN history.resent \cup ToSet(c.units) ELSE history.resent
<1>1. history \in History /\ history.sent \in Seq(Nat) /\ c.units \in Seq(Nat)
  BY DEF TypeInv, History, ChunkType
<1>2. history.sent \o c.units \in Seq(Nat) /\ ToSet(c.units) \subseteq Nat
  BY <1>1, ConcatProperties, SequenceSets
<1>. QED  BY <1>1, <1>2 DEF HandOver, History

LEMMA BeginPutEffect ==
    ASSUME TypeInv, NEW p \in Producers, NEW cs \in Seq(ChunkType), BeginPut(p, cs)
    PROVE  /\ putting' \in [Producers -> Call]
           /\ \A q \in Producers \ {p} : putting'[q] = putting[q]
           /\ putting'[p].step = "put"
           /\ current = 0 => putting'[p].to = 0 /\ putting'[p].chunks = <<>>
           /\ current # 0 => putting'[p].to = current /\ putting'[p].chunks = cs
<1>. DEFINE call == IF current = 0 THEN NoCall ELSE [NoCall EXCEPT !.to = current, !.chunks = cs]
<1>1. /\ call \in Call /\ call.step = "put"
      /\ current = 0 => call.to = 0 /\ call.chunks = <<>>
      /\ current # 0 => call.to = current /\ call.chunks = cs
  <2>1. current \in Nat /\ <<>> \in Seq(ChunkType)
    BY OutputAssumption, EmptySeq DEF TypeInv
  <2>. QED  BY <2>1 DEF NoCall, Call
<1>2. putting' = [putting EXCEPT ![p] = call]
  BY DEF BeginPut
<1>. HIDE DEF call
<1>. QED  BY <1>1, <1>2 DEF TypeInv

(* A runtime in whose queue a call puts chunks.                             *)
LEMMA PutTarget ==
    ASSUME TypeInv, NEW p \in Producers, putting[p].chunks # <<>>
    PROVE  /\ putting[p].to \in Runtimes
           /\ Head(putting[p].chunks) \in ChunkType
           /\ Tail(putting[p].chunks) \in Seq(ChunkType)
           /\ queue[putting[p].to] \in Seq(ChunkType)
<1>1. putting[p].to \in Nat /\ putting[p].chunks \in Seq(ChunkType)
  BY DEF TypeInv, Call
<1>2. putting[p].to \in Runtimes
  BY <1>1, OutputAssumption DEF TypeInv, Runtimes
<1>. QED  BY <1>1, <1>2, SequenceSets DEF TypeInv

PutResult(p, to, chunks, step) ==
    /\ putting' \in [Producers -> Call]
    /\ \A q \in Producers \ {p} : putting'[q] = putting[q]
    /\ putting'[p].to = to /\ putting'[p].chunks = chunks /\ putting'[p].step = step

LEMMA PutEffect ==
    ASSUME TypeInv, NEW p \in Producers, PutStep(p)
    PROVE  LET to == putting[p].to
               cs == putting[p].chunks
           IN  /\ PutUnchanged
               /\ cs # <<>>
               /\ \/ /\ PutResult(p, to, Tail(cs), "put")
                     /\ queue' = [queue EXCEPT ![to] = Append(@, Head(cs))]
                     /\ history' = history
                  \/ /\ PutResult(p, to, cs, "drop")
                     /\ queue' = queue
                     /\ history' = history
                  \/ /\ PutResult(p, to, cs, "retry")
                     /\ queue[to] # <<>>
                     /\ queue' = [queue EXCEPT ![to] = Tail(@)]
                     /\ Loses(to)
                  \/ /\ PutResult(p, 0, <<>>, "put")
                     /\ queue' = queue
                     /\ Loses(to)
<1>. DEFINE to == putting[p].to
            cs == putting[p].chunks
<1>1. putting \in [Producers -> Call] /\ putting[p] \in Call
  BY DEF TypeInv
<1>2. cs # <<>>
  BY DEF PutStep, PutNowait, Full, DropOldest, FullAgain, PutDone, TypeInv
<1>3. NoCall \in Call /\ NoCall.to = 0 /\ NoCall.chunks = <<>> /\ NoCall.step = "put"
  BY EmptySeq DEF NoCall, Call
<1>4. CASE PutNowait(p)
  <2>1. putting' = [putting EXCEPT ![p] = [[@ EXCEPT !.chunks = Tail(cs)] EXCEPT !.step = "put"]]
    BY <1>1, <1>4 DEF PutNowait, Call
  <2>. DEFINE call == [[putting[p] EXCEPT !.chunks = Tail(cs)] EXCEPT !.step = "put"]
  <2>2. call \in Call /\ call.to = to /\ call.chunks = Tail(cs) /\ call.step = "put"
    BY <1>1, <1>2, PutTarget DEF Call
  <2>3. putting' = [putting EXCEPT ![p] = call]
    BY <2>1
  <2>. HIDE DEF call
  <2>4. PutResult(p, to, Tail(cs), "put")
    BY <1>1, <2>2, <2>3 DEF PutResult
  <2>. QED  BY <1>2, <1>4, <2>4 DEF PutNowait, Enqueued
<1>5. CASE Full(p)
  <2>. DEFINE call == ToDrop(p)
  <2>1. call \in Call /\ call.to = to /\ call.chunks = cs /\ call.step = "drop"
    BY <1>1 DEF ToDrop, Call
  <2>2. putting' = [putting EXCEPT ![p] = call]
    BY <1>5 DEF Full
  <2>. HIDE DEF call
  <2>3. PutResult(p, to, cs, "drop")
    BY <1>1, <2>1, <2>2 DEF PutResult
  <2>. QED  BY <1>2, <1>5, <2>3 DEF Full
<1>6. CASE DropOldest(p) /\ queue[to] # <<>>
  <2>. DEFINE call == [putting[p] EXCEPT !.step = "retry"]
  <2>1. call \in Call /\ call.to = to /\ call.chunks = cs /\ call.step = "retry"
    BY <1>1 DEF Call
  <2>2. putting' = [putting EXCEPT ![p] = call]
    BY <1>6 DEF DropOldest
  <2>. HIDE DEF call
  <2>3. PutResult(p, to, cs, "retry")
    BY <1>1, <2>1, <2>2 DEF PutResult
  <2>. QED  BY <1>2, <1>6, <2>3 DEF DropOldest
<1>7. CASE (DropOldest(p) /\ queue[to] = <<>>) \/ FullAgain(p)
  <2>1. /\ putting' = [putting EXCEPT ![p] = NoCall]
        /\ queue' = queue /\ Loses(to) /\ PutUnchanged
    BY <1>7 DEF DropOldest, FullAgain
  <2>2. PutResult(p, 0, <<>>, "put")
    BY <1>1, <1>3, <2>1 DEF PutResult
  <2>. QED  BY <1>2, <2>1, <2>2
<1>. QED  BY <1>4, <1>5, <1>6, <1>7 DEF PutStep
------------------------------------------------------------------------------
LEMMA TypeInit == Init => TypeInv
<1>. SUFFICES ASSUME Init PROVE TypeInv
  OBVIOUS
<1>1. Chunk(0, "none", <<>>) \in ChunkType /\ <<>> \in Seq(ChunkType) /\ <<>> \in Seq(Nat)
  BY ChunkTypes, EmptySeq
<1>2. NoCall \in Call /\ NoCall.to = 0 /\ NoCall.chunks = <<>> /\ NoCall.step = "put"
      /\ SenderAt("none") \in SenderType /\ Fresh(0) \in History
  BY <1>1 DEF NoCall, Call, SenderAt, SenderType, Fresh, History
<1>3. MaxRuntimes \in Nat /\ 0 \in 0..MaxRuntimes
  BY OutputAssumption
<1>. QED  BY <1>1, <1>2, <1>3 DEF Init, TypeInv

LEMMA LosesTypes ==
    ASSUME TypeInv, NEW r, Loses(r)
    PROVE  history' \in History
  BY LossyTypes DEF Loses, TypeInv

LEMMA PutTypes ==
    ASSUME TypeInv, NEW p \in Producers, PutStep(p)
    PROVE  TypeInv'
<1>. DEFINE to == putting[p].to
            cs == putting[p].chunks
<1>1. /\ cs # <<>> /\ to \in Runtimes /\ to # 0
      /\ Head(cs) \in ChunkType
      /\ queue[to] \in Seq(ChunkType)
  BY PutEffect, PutTarget DEF TypeInv
<1>2. putting' \in [Producers -> Call]
  BY PutEffect DEF PutResult
<1>3. ASSUME NEW q \in Producers
      PROVE  /\ putting'[q].to <= created
             /\ putting'[q].step # "put" => putting'[q].chunks # <<>>
             /\ putting'[q].chunks # <<>> => putting'[q].to # 0
  <2>1. CASE q # p
    <3>1. putting'[q] = putting[q]
      BY <2>1, PutEffect DEF PutResult
    <3>. QED  BY <3>1 DEF TypeInv
  <2>2. CASE q = p
    <3>1. created \in Nat /\ to <= created
      BY OutputAssumption DEF TypeInv
    <3>2. \/ putting'[p].to = to /\ putting'[p].step = "put"
          \/ putting'[p].to = to /\ putting'[p].chunks = cs
          \/ putting'[p].to = 0 /\ putting'[p].step = "put" /\ putting'[p].chunks = <<>>
      BY PutEffect DEF PutResult
    <3>. QED  BY <1>1, <2>2, <3>1, <3>2
  <2>. QED  BY <2>1, <2>2
<1>4. history' \in History
  <2>1. CASE history' = history
    BY <2>1 DEF TypeInv
  <2>2. CASE Loses(to)
    BY <2>2, LosesTypes
  <2>. QED  BY <2>1, <2>2, PutEffect
<1>5. queue' \in [Runtimes -> Seq(ChunkType)]
  <2>1. Append(queue[to], Head(cs)) \in Seq(ChunkType)
    BY <1>1, SequenceSets
  <2>2. queue[to] # <<>> => Tail(queue[to]) \in Seq(ChunkType)
    BY <1>1, SequenceSets
  <2>3. CASE queue' = queue
    BY <2>3 DEF TypeInv
  <2>4. CASE queue' = [queue EXCEPT ![to] = Append(@, Head(cs))]
    BY <1>1, <2>1, <2>4 DEF TypeInv
  <2>5. CASE queue[to] # <<>> /\ queue' = [queue EXCEPT ![to] = Tail(@)]
    BY <1>1, <2>2, <2>5 DEF TypeInv
  <2>. QED  BY <2>3, <2>4, <2>5, PutEffect
<1>6. PutUnchanged
  BY PutEffect
<1>. QED
  BY <1>2, <1>3, <1>4, <1>5, <1>6 DEF PutUnchanged, serverVars, sessionVars, TypeInv

LEMMA BeginPutTypes ==
    ASSUME TypeInv, NEW p \in Producers, NEW cs \in Seq(ChunkType), BeginPut(p, cs)
    PROVE  /\ putting' \in [Producers -> Call]
           /\ \A q \in Producers :
                 /\ putting'[q].to <= created
                 /\ putting'[q].step # "put" => putting'[q].chunks # <<>>
                 /\ putting'[q].chunks # <<>> => putting'[q].to # 0
<1>1. created \in Nat /\ current <= created
  BY OutputAssumption DEF TypeInv
<1>2. /\ putting' \in [Producers -> Call]
      /\ \A q \in Producers \ {p} : putting'[q] = putting[q]
      /\ putting'[p].step = "put"
      /\ \/ putting'[p].to = 0 /\ putting'[p].chunks = <<>>
         \/ putting'[p].to = current /\ current # 0
  BY BeginPutEffect
<1>3. ASSUME NEW q \in Producers, q # p
      PROVE  /\ putting'[q].to <= created
             /\ putting'[q].step # "put" => putting'[q].chunks # <<>>
             /\ putting'[q].chunks # <<>> => putting'[q].to # 0
  BY <1>2, <1>3 DEF TypeInv
<1>. QED  BY <1>1, <1>2, <1>3

LEMMA ReplayTypes ==
    ASSUME TypeInv, NEW r \in Runtimes
    PROVE  /\ Replay(r) \in Seq(ChunkType)
           /\ \A c \in ToSet(Replay(r)) : c.session = r /\ c.kind = "replay"
           /\ \A n \in ToSet(scrollback[r]) : \E c \in ToSet(Replay(r)) : n \in ToSet(c.units)
<1>. DEFINE pieces == ChunkBytes(scrollback[r], MaxPayloadSize)
<1>1. MaxPayloadSize \in Nat \ {0} /\ scrollback[r] \in Seq(Nat) /\ r \in Nat
  BY WireAssumption DEF MaxPayloadSize, TypeInv, Runtimes
<1>2. pieces \in Seq(Seq(Nat))
  BY <1>1, Pieces
<1>3. /\ \A n \in ToSet(scrollback[r]) : \E piece \in ToSet(pieces) : n \in ToSet(piece)
      /\ Len(pieces) \in Nat /\ DOMAIN pieces = 1..Len(pieces)
      /\ \A i \in 1..Len(pieces) : pieces[i] \in Seq(Nat)
  BY <1>1, <1>2, Pieces, LenProperties, ElementOfSeq
<1>. HIDE DEF pieces
<1>4. Replay(r) = [i \in 1..Len(pieces) |-> Chunk(r, "replay", pieces[i])]
  BY <1>3 DEF Replay, pieces
<1>5. Replay(r) \in Seq(ChunkType)
  <2>1. Replay(r) \in [1..Len(pieces) -> ChunkType]
    BY <1>1, <1>3, <1>4, ChunkTypes
  <2>2. \A T, f : f \in [1..Len(pieces) -> T] => f \in Seq(T)
    BY <1>3
  <2>. QED  BY <2>1, <2>2
<1>6. ToSet(Replay(r)) = {Chunk(r, "replay", pieces[i]) : i \in 1..Len(pieces)}
  BY <1>4 DEF ToSet
<1>7. ToSet(pieces) = {pieces[i] : i \in 1..Len(pieces)}
  BY <1>3 DEF ToSet
<1>8. \A c \in ToSet(Replay(r)) : c.session = r /\ c.kind = "replay"
  BY <1>6 DEF Chunk
<1>9. ASSUME NEW n \in ToSet(scrollback[r])
      PROVE  \E c \in ToSet(Replay(r)) : n \in ToSet(c.units)
  <2>1. PICK i \in 1..Len(pieces) : n \in ToSet(pieces[i])
    BY <1>3, <1>7
  <2>2. Chunk(r, "replay", pieces[i]).units = pieces[i]
    BY DEF Chunk
  <2>. QED  BY <1>6, <2>1, <2>2
<1>. QED  BY <1>5, <1>8, <1>9

LEMMA TypeStep == TypeInv /\ [Next]_vars => TypeInv'
<1>. SUFFICES ASSUME TypeInv, [Next]_vars PROVE TypeInv'
  OBVIOUS
<1>a. Runtimes \subseteq Nat \cap Producers /\ Receiver \in Producers
  BY DEF Runtimes, Producers
<1>b. current # 0 => current \in Runtimes
  BY OutputAssumption DEF TypeInv, Runtimes
<1>0. /\ MaxRuntimes \in Nat /\ created \in Nat /\ Runtimes \subseteq Nat \cap Producers
      /\ Receiver \in Producers
      /\ \A r \in Runtimes : emitted[r] \in Nat
      /\ (current # 0 => current \in Runtimes)
  BY <1>a, <1>b, OutputAssumption DEF TypeInv
<1>1. CASE CreateRuntime
  <2>1. created' \in 0..MaxRuntimes /\ created' >= created /\ created' # 0 /\ current' = 0
    BY <1>0, <1>1 DEF CreateRuntime
  <2>2. reader' \in [Runtimes -> {"none", "read", "emit", "put", "ended"}]
    BY <1>1 DEF CreateRuntime, TypeInv
  <2>3. \A p \in Producers : putting[p].to \in Nat
    BY DEF TypeInv, Call
  <2>. QED  BY <1>0, <1>1, <2>1, <2>2, <2>3 DEF CreateRuntime, TypeInv
<1>2. CASE Roam
  <2>1. current \in Runtimes /\ recv' = "replay"
    BY <1>0, <1>2 DEF Roam, TakePacket
  <2>2. history' \in History
    BY <1>2 DEF Roam, TypeInv, History
  <2>3. BeginPut(Receiver, Replay(current)) /\ Replay(current) \in Seq(ChunkType)
    BY <1>2, <2>1, ReplayTypes DEF Roam
  <2>. QED
    BY <1>0, <1>2, <2>1, <2>2, <2>3, BeginPutTypes DEF Roam, sessionVars, TypeInv
<1>3. CASE AnswerInfo
  <2>1. current \in Runtimes /\ recv' = "answer"
    BY <1>0, <1>3 DEF AnswerInfo, TakePacket
  <2>2. <<Chunk(current, "meta", <<>>)>> \in Seq(ChunkType)
    BY <1>0, <2>1, ChunkTypes
  <2>3. BeginPut(Receiver, <<Chunk(current, "meta", <<>>)>>)
    BY <1>3 DEF AnswerInfo
  <2>. QED
    BY <1>0, <1>3, <2>1, <2>2, <2>3, BeginPutTypes DEF AnswerInfo, sessionVars, TypeInv
<1>4. CASE Register
  <2>1. Fresh(emitted[created] - Cardinality(AboutToEmit(created))) \in History
    <3>1. AboutToEmit(created) = {} \/ AboutToEmit(created) = {emitted[created]}
      BY DEF AboutToEmit
    <3>2. Cardinality({}) = 0 /\ Cardinality({emitted[created]}) = 1
      BY FS_EmptySet, FS_Singleton
    <3>3. created \in Runtimes
      BY <1>0, <1>4 DEF Register, TypeInv, Runtimes
    <3>4. emitted[created] - Cardinality(AboutToEmit(created)) \in Int
      BY <1>0, <3>1, <3>2, <3>3
    <3>. QED  BY <3>4, FreshTypes
  <2>2. sender' \in [Runtimes -> SenderType]
    <3>1. SenderAt("get") \in SenderType
      BY ChunkTypes DEF SenderAt, SenderType
    <3>. QED  BY <1>4, <3>1 DEF Register, SenderIs, TypeInv
  <2>. QED  BY <1>0, <1>4, <2>1, <2>2 DEF Register, sessionVars, TypeInv
<1>5. CASE Handled
  BY <1>5 DEF Handled, sessionVars, TypeInv
<1>6. CASE PutStep(Receiver)
  BY <1>0, <1>6, PutTypes
<1>7. CASE Pop
  <2>1. history' \in History
    BY 0 \in Int, <1>7, FreshTypes DEF Pop
  <2>2. removal' \in [Runtimes -> {"none", "popped", "done"}]
    BY <1>7 DEF Pop, TypeInv
  <2>. QED  BY <1>0, <1>7, <2>1, <2>2 DEF Pop, Locked, sessionVars, TypeInv
<1>8. ASSUME NEW r \in Runtimes, SetStops(r) PROVE TypeInv'
  BY <1>8 DEF SetStops, sessionVars, TypeInv
<1>9. ASSUME NEW r \in Runtimes, Read(r) PROVE TypeInv'
  <2>1. emitted' \in [Runtimes -> Nat] /\ emitted'[r] \in Nat
    BY <1>0, <1>9 DEF Read, TypeInv
  <2>2. Remembered(r, emitted'[r]) \in Seq(Nat)
    <3>1. scrollback[r] \in Seq(Nat)
      BY DEF TypeInv
    <3>2. Append(scrollback[r], emitted'[r]) \in Seq(Nat) /\ Append(scrollback[r], emitted'[r]) # <<>>
      BY <2>1, <3>1, SequenceSets
    <3>3. Tail(Append(scrollback[r], emitted'[r])) \in Seq(Nat)
      BY <3>2, SequenceSets
    <3>. QED  BY <3>2, <3>3 DEF Remembered
  <2>3. scrollback' \in [Runtimes -> Seq(Nat)]
    BY <1>9, <2>2 DEF Read, TypeInv
  <2>4. reader' \in [Runtimes -> {"none", "read", "emit", "put", "ended"}]
    BY <1>9 DEF Read, ReaderAt, TypeInv
  <2>. QED  BY <1>9, <2>1, <2>3, <2>4 DEF Read, serverVars, TypeInv
<1>10. ASSUME NEW r \in Runtimes, Emit(r) PROVE TypeInv'
  <2>1. <<Chunk(r, "live", <<emitted[r]>>)>> \in Seq(ChunkType)
    BY <1>0, ChunkTypes
  <2>2. reader' \in [Runtimes -> {"none", "read", "emit", "put", "ended"}]
    BY <1>10 DEF Emit, ReaderAt, TypeInv
  <2>3. BeginPut(r, <<Chunk(r, "live", <<emitted[r]>>)>>)
    BY <1>10 DEF Emit
  <2>. QED  BY <1>0, <1>10, <2>1, <2>2, <2>3, BeginPutTypes DEF Emit, serverVars, TypeInv
<1>11. ASSUME NEW r \in Runtimes, ReaderGoesOn(r) PROVE TypeInv'
  BY <1>11 DEF ReaderGoesOn, ReaderAt, serverVars, TypeInv
<1>12. ASSUME NEW r \in Runtimes, ReaderEnds(r) PROVE TypeInv'
  <2>1. <<Chunk(r, "status", <<>>)>> \in Seq(ChunkType)
    BY <1>0, ChunkTypes
  <2>2. reader' \in [Runtimes -> {"none", "read", "emit", "put", "ended"}]
    BY <1>12 DEF ReaderEnds, ReaderAt, TypeInv
  <2>3. BeginPut(r, <<Chunk(r, "status", <<>>)>>)
    BY <1>12 DEF ReaderEnds
  <2>. QED  BY <1>0, <1>12, <2>1, <2>2, <2>3, BeginPutTypes DEF ReaderEnds, serverVars, TypeInv
<1>13. ASSUME NEW r \in Runtimes, PutStep(r) PROVE TypeInv'
  BY <1>0, <1>13, PutTypes
<1>14. ASSUME NEW r \in Runtimes, Get(r) PROVE TypeInv'
  <2>1. queue[r] \in Seq(ChunkType) /\ Head(queue[r]) \in ChunkType /\ Tail(queue[r]) \in Seq(ChunkType)
    BY <1>14, SequenceSets DEF Get, TypeInv
  <2>2. queue' \in [Runtimes -> Seq(ChunkType)]
    BY <1>14, <2>1 DEF Get, TypeInv
  <2>3. sender' \in [Runtimes -> SenderType]
    BY <1>14, <2>1 DEF Get, SenderIs, SenderType, TypeInv
  <2>. QED  BY <1>14, <2>2, <2>3 DEF Get, serverVars, sessionVars, TypeInv
<1>15. ASSUME NEW r \in Runtimes, SenderEnds(r) \/ Send(r) \/ SendFails(r) \/ NoChannel(r)
       PROVE  TypeInv'
  <2>1. sender' \in [Runtimes -> SenderType]
    <3>1. SenderAt(LoopTest(r)) \in SenderType
      BY ChunkTypes DEF SenderAt, SenderType, LoopTest
    <3>. QED
      BY <1>15, <3>1 DEF SenderEnds, Send, SendFails, NoChannel, SenderIs, TypeInv
  <2>2. sender[r].chunk \in ChunkType
    BY DEF TypeInv, SenderType
  <2>3. HandOver(sender[r].chunk) \in History /\ history \in History
    BY <2>2, HandOverEffect DEF TypeInv
  <2>4. history' \in History
    BY <1>15, <2>3, LossyTypes DEF SenderEnds, Send, SendFails, NoChannel
  <2>. QED
    BY <1>15, <2>1, <2>4
    DEF SenderEnds, Send, SendFails, NoChannel, serverVars, sessionVars, TypeInv
<1>16. CASE UNCHANGED vars
  BY <1>16 DEF vars, serverVars, sessionVars, TypeInv
<1>. QED
  BY <1>1, <1>2, <1>3, <1>4, <1>5, <1>6, <1>7, <1>8, <1>9, <1>10, <1>11, <1>12, <1>13, <1>14,
     <1>15, <1>16
  DEF Next, RecvStep, ReaderStep, SenderStep
------------------------------------------------------------------------------
(* Who puts which chunks where.  A reader puts one chunk of its session at  *)
(* a time, the receive thread chunks of the runtime it has looked up.       *)
CallInv ==
    /\ \A r \in Runtimes :
          /\ reader[r] \in {"none", "read", "emit"} => putting[r].chunks = <<>>
          /\ putting[r].chunks # <<>> => Tail(putting[r].chunks) = <<>>
          /\ \A c \in ToSet(putting[r].chunks) : c.session = r /\ c.kind \in {"live", "status"}
          /\ sender[r].pc # "send" => sender[r].chunk.kind = "none"
    /\ \A c \in ToSet(putting[Receiver].chunks) :
          c.session = putting[Receiver].to /\ c.kind \in {"meta", "replay"}
    /\ recv \in {"idle", "create"} => putting[Receiver].chunks = <<>>

Unregistered(r) == r > created \/ (r = created /\ recv = "create")

(* The output of a session goes to its own runtime or to a later one, and   *)
(* to none that is not registered yet.                                      *)
OwnerInv ==
    /\ \A p \in Producers : \A c \in ToSet(putting[p].chunks) : c.session <= putting[p].to
    /\ \A r \in Runtimes :
          /\ reader[r] # "none" => r <= created
          /\ sender[r].chunk.session <= r
          /\ \A c \in ToSet(queue[r]) : c.session <= r
          /\ Unregistered(r) => /\ queue[r] = <<>>
                                /\ sender[r].chunk.kind = "none"
                                /\ \A p \in Producers : putting[p].to # r

StructureInv == TypeInv /\ CallInv /\ OwnerInv

LEMMA StructureInit == Init => StructureInv
<1>. SUFFICES ASSUME Init PROVE StructureInv
  OBVIOUS
<1>1. ToSet(<<>>) = {}
  BY DEF ToSet
<1>2. /\ NoCall.chunks = <<>> /\ NoCall.to = 0
      /\ SenderAt("none").chunk.kind = "none" /\ SenderAt("none").chunk.session = 0
  BY DEF NoCall, SenderAt, Chunk
<1>3. Runtimes \subseteq Producers /\ Receiver \in Producers /\ \A r \in Runtimes : r \in Nat \ {0}
  BY DEF Runtimes, Producers
<1>4. CallInv
  BY <1>1, <1>2, <1>3 DEF Init, CallInv
<1>5. OwnerInv
  BY <1>1, <1>2, <1>3 DEF Init, OwnerInv
<1>. QED  BY <1>4, <1>5, TypeInit DEF StructureInv

LEMMA Ranges ==
    ASSUME TypeInv
    PROVE  /\ MaxRuntimes \in Nat /\ created \in Nat /\ current \in Nat
           /\ current <= created
           /\ Receiver \in Producers
           /\ \A r \in Runtimes : r \in Producers /\ r \in Nat \ {0} /\ r # Receiver
           /\ \A p \in Producers : p = Receiver \/ p \in Runtimes
           /\ (current # 0 => current \in Runtimes /\ current = created /\ recv # "create")
           /\ \A p \in Producers : putting[p].to \in Nat /\ putting[p].chunks \in Seq(ChunkType)
           /\ \A r \in Runtimes : /\ queue[r] \in Seq(ChunkType)
                                  /\ sender[r].chunk \in ChunkType /\ sender[r].chunk.session \in Nat
<1>1. MaxRuntimes \in Nat /\ created \in Nat /\ current \in Nat /\ current <= created
  BY OutputAssumption DEF TypeInv
<1>2. /\ Receiver \in Producers
      /\ \A r \in Runtimes : r \in Producers /\ r \in Nat \ {0} /\ r # Receiver
      /\ \A p \in Producers : p = Receiver \/ p \in Runtimes
  BY DEF Runtimes, Producers, Receiver
<1>3. current # 0 => current \in Runtimes /\ current = created /\ recv # "create"
  BY <1>1 DEF TypeInv, Runtimes
<1>4. \A p \in Producers : putting[p].to \in Nat /\ putting[p].chunks \in Seq(ChunkType)
  BY DEF TypeInv, Call
<1>5. \A r \in Runtimes : /\ queue[r] \in Seq(ChunkType)
                          /\ sender[r].chunk \in ChunkType /\ sender[r].chunk.session \in Nat
  BY DEF TypeInv, SenderType, ChunkType
<1>. QED  BY <1>1, <1>2, <1>3, <1>4, <1>5

(* What a call of _forward_output still has to put, and where, after a step *)
(* of it; a queue only gets what was to be put.                             *)
LEMMA PutMoves ==
    ASSUME TypeInv, NEW p \in Producers, PutStep(p)
    PROVE  /\ \A q \in Producers :
                 /\ ToSet(putting'[q].chunks) \subseteq ToSet(putting[q].chunks)
                 /\ putting[q].chunks = <<>> => putting'[q].chunks = <<>>
                 /\ \/ putting'[q].chunks = putting[q].chunks
                    \/ putting'[q].chunks = <<>>
                    \/ putting[q].chunks # <<>> /\ putting'[q].chunks = Tail(putting[q].chunks)
                 /\ \/ putting'[q].to = putting[q].to
                    \/ putting'[q].to = 0 /\ putting'[q].chunks = <<>>
           /\ \A r \in Runtimes :
                 ToSet(queue'[r]) \subseteq
                     ToSet(queue[r]) \cup (IF r = putting[p].to THEN ToSet(putting[p].chunks) ELSE {})
           /\ \A r \in Runtimes : r # putting[p].to => queue'[r] = queue[r]
<1>. DEFINE to == putting[p].to
            cs == putting[p].chunks
<1>1. /\ cs # <<>> /\ to \in Runtimes /\ cs \in Seq(ChunkType)
      /\ Head(cs) \in ChunkType /\ queue[to] \in Seq(ChunkType)
      /\ ToSet(<<>>) = {} /\ ToSet(cs) = {Head(cs)} \cup ToSet(Tail(cs))
      /\ ToSet(Append(queue[to], Head(cs))) = ToSet(queue[to]) \cup {Head(cs)}
      /\ queue[to] # <<>> => ToSet(Tail(queue[to])) \subseteq ToSet(queue[to])
  <2>1. cs # <<>>
    BY PutEffect
  <2>2. to \in Runtimes /\ Head(cs) \in ChunkType /\ queue[to] \in Seq(ChunkType)
    BY <2>1, PutTarget
  <2>3. cs \in Seq(ChunkType)
    BY Ranges
  <2>4. ToSet(<<>>) = {} /\ ToSet(cs) = {Head(cs)} \cup ToSet(Tail(cs))
    BY <2>1, <2>3, SequenceSets
  <2>5. /\ ToSet(Append(queue[to], Head(cs))) = ToSet(queue[to]) \cup {Head(cs)}
        /\ queue[to] # <<>> => ToSet(Tail(queue[to])) \subseteq ToSet(queue[to])
    BY <2>2, SequenceSets
  <2>. QED  BY <2>1, <2>2, <2>3, <2>4, <2>5
<1>2. /\ \A q \in Producers \ {p} : putting'[q] = putting[q]
      /\ \/ putting'[p].to = to /\ putting'[p].chunks = Tail(cs)
         \/ putting'[p].to = to /\ putting'[p].chunks = cs
         \/ putting'[p].to = 0 /\ putting'[p].chunks = <<>>
  BY PutEffect DEF PutResult
<1>3. /\ \A r \in Runtimes \ {to} : queue'[r] = queue[r]
      /\ \/ queue'[to] = queue[to]
         \/ queue'[to] = Append(queue[to], Head(cs))
         \/ queue[to] # <<>> /\ queue'[to] = Tail(queue[to])
  <2>1. \/ queue' = queue
        \/ queue' = [queue EXCEPT ![to] = Append(@, Head(cs))]
        \/ queue[to] # <<>> /\ queue' = [queue EXCEPT ![to] = Tail(@)]
    BY PutEffect
  <2>2. DOMAIN queue = Runtimes /\ to \in Runtimes
    BY <1>1 DEF TypeInv
  <2>. QED  BY <2>1, <2>2
<1>4. ASSUME NEW q \in Producers
      PROVE  /\ ToSet(putting'[q].chunks) \subseteq ToSet(putting[q].chunks)
             /\ putting[q].chunks = <<>> => putting'[q].chunks = <<>>
             /\ \/ putting'[q].chunks = putting[q].chunks
                \/ putting'[q].chunks = <<>>
                \/ putting[q].chunks # <<>> /\ putting'[q].chunks = Tail(putting[q].chunks)
             /\ \/ putting'[q].to = putting[q].to
                \/ putting'[q].to = 0 /\ putting'[q].chunks = <<>>
  <2>1. CASE q = p
    BY <1>1, <1>2, <2>1
  <2>2. CASE q # p
    BY <1>2, <2>2
  <2>. QED  BY <2>1, <2>2
<1>5. ASSUME NEW r \in Runtimes
      PROVE  /\ ToSet(queue'[r]) \subseteq
                    ToSet(queue[r]) \cup (IF r = to THEN ToSet(cs) ELSE {})
             /\ r # to => queue'[r] = queue[r]
  <2>1. CASE r = to
    BY <1>1, <1>3, <2>1
  <2>2. CASE r # to
    BY <1>3, <2>2
  <2>. QED  BY <2>1, <2>2
<1>. QED  BY <1>4, <1>5

LEMMA PutStructure ==
    ASSUME StructureInv, NEW p \in Producers, PutStep(p)
    PROVE  CallInv' /\ OwnerInv'
<1>. USE DEF StructureInv
<1>1. /\ UNCHANGED <<created, current, recv, reader, sender>>
  BY PutEffect DEF PutUnchanged, serverVars, sessionVars
<1>2. ToSet(<<>>) = {}
  BY DEF ToSet
<1>3. CallInv'
  <2>1. ASSUME NEW r \in Runtimes
        PROVE  /\ putting[r].chunks = <<>> => putting'[r].chunks = <<>>
               /\ putting'[r].chunks # <<>> => Tail(putting'[r].chunks) = <<>>
               /\ \A c \in ToSet(putting'[r].chunks) : c.session = r /\ c.kind \in {"live", "status"}
    <3>1. r \in Producers
      BY Ranges
    <3>2. /\ ToSet(putting'[r].chunks) \subseteq ToSet(putting[r].chunks)
          /\ putting[r].chunks = <<>> => putting'[r].chunks = <<>>
          /\ \/ putting'[r].chunks = putting[r].chunks
             \/ putting'[r].chunks = <<>>
             \/ putting[r].chunks # <<>> /\ putting'[r].chunks = Tail(putting[r].chunks)
      BY <3>1, PutMoves
    <3>3. /\ putting[r].chunks # <<>> => Tail(putting[r].chunks) = <<>>
          /\ \A c \in ToSet(putting[r].chunks) : c.session = r /\ c.kind \in {"live", "status"}
      BY DEF CallInv
    <3>. QED  BY <3>2, <3>3
  <2>2. \A c \in ToSet(putting'[Receiver].chunks) :
            c.session = putting'[Receiver].to /\ c.kind \in {"meta", "replay"}
    <3>1. Receiver \in Producers
      BY Ranges
    <3>. QED  BY <1>2, <3>1, PutMoves DEF CallInv
  <2>3. putting[Receiver].chunks = <<>> => putting'[Receiver].chunks = <<>>
    BY PutMoves, Ranges
  <2>. QED  BY <1>1, <2>1, <2>2, <2>3 DEF CallInv
<1>4. OwnerInv'
  <2>1. \A q \in Producers : \A c \in ToSet(putting'[q].chunks) : c.session <= putting'[q].to
    BY <1>2, PutMoves DEF OwnerInv
  <2>2. ASSUME NEW r \in Runtimes
        PROVE  /\ \A c \in ToSet(queue'[r]) : c.session <= r
               /\ Unregistered(r) => queue'[r] = <<>> /\ \A q \in Producers : putting'[q].to # r
    <3>1. r # 0
      BY Ranges
    <3>. QED  BY <3>1, PutMoves DEF OwnerInv
  <2>. QED  BY <1>1, <2>1, <2>2 DEF OwnerInv, Unregistered
<1>. QED  BY <1>3, <1>4

LEMMA BeginPutStructure ==
    ASSUME StructureInv, NEW p \in Producers, NEW cs \in Seq(ChunkType), BeginPut(p, cs),
           UNCHANGED <<created, current, queue, sender>>,
           recv' = "create" <=> recv = "create",
           current # 0 => \A c \in ToSet(cs) : c.session <= current,
           \A r \in Runtimes : reader'[r] # "none" => reader[r] # "none"
    PROVE  OwnerInv'
<1>1. /\ \A q \in Producers \ {p} : putting'[q] = putting[q]
      /\ \/ current = 0 /\ putting'[p].to = 0 /\ putting'[p].chunks = <<>>
         \/ current # 0 /\ putting'[p].to = current /\ putting'[p].chunks = cs
  BY BeginPutEffect DEF StructureInv
<1>2. ASSUME NEW q \in Producers
      PROVE  \A c \in ToSet(putting'[q].chunks) : c.session <= putting'[q].to
  <2>1. ToSet(<<>>) = {}
    BY DEF ToSet
  <2>2. CASE q = p
    BY <1>1, <2>1, <2>2
  <2>3. CASE q # p
    BY <1>1, <2>3 DEF StructureInv, OwnerInv
  <2>. QED  BY <2>2, <2>3
<1>3. ASSUME NEW r \in Runtimes, Unregistered(r) PROVE r # current /\ r # 0
  BY <1>3, Ranges DEF StructureInv, Unregistered
<1>4. ASSUME NEW r \in Runtimes, Unregistered(r), NEW q \in Producers PROVE putting'[q].to # r
  BY <1>1, <1>3, <1>4 DEF StructureInv, OwnerInv
<1>5. \A r \in Runtimes : Unregistered(r)' <=> Unregistered(r)
  BY DEF Unregistered
<1>. QED  BY <1>2, <1>4, <1>5 DEF StructureInv, OwnerInv

LEMMA StructureStep == StructureInv /\ [Next]_vars => StructureInv'
<1>. SUFFICES ASSUME StructureInv, [Next]_vars PROVE CallInv' /\ OwnerInv'
  BY TypeStep DEF StructureInv
<1>. USE DEF StructureInv
<1>0. ToSet(<<>>) = {} /\ \A n \in {0} : n # 1
  BY DEF ToSet
<1>1. CASE CreateRuntime
  <2>1. /\ UNCHANGED <<current, putting, queue, sender>> /\ current = 0
        /\ created' = created + 1 /\ recv = "idle" /\ recv' = "create"
        /\ reader' = [reader EXCEPT ![created'] = "read"]
    BY <1>1 DEF CreateRuntime
  <2>2. \A r \in Runtimes : reader'[r] = reader[r] \/ r = created + 1
    BY <2>1 DEF TypeInv
  <2>3. Unregistered(created + 1)
    BY Ranges DEF Unregistered
  <2>4. ASSUME NEW r \in Runtimes, r = created + 1 PROVE putting[r].chunks = <<>>
    <3>1. r \in Producers /\ reader[r] = "none"
      BY <2>4, Ranges DEF OwnerInv
    <3>. QED  BY <3>1, <2>4 DEF CallInv, TypeInv
  <2>5. CallInv'
    BY <2>1, <2>2, <2>4, Ranges DEF CallInv
  <2>6. ASSUME NEW r \in Runtimes, Unregistered(r)' PROVE Unregistered(r)
    BY <2>1, <2>6, Ranges DEF Unregistered
  <2>7. \A r \in Runtimes : reader'[r] # "none" => r <= created'
    BY <2>1, <2>2, Ranges DEF OwnerInv
  <2>. QED  BY <2>1, <2>5, <2>6, <2>7 DEF OwnerInv
<1>2. CASE Roam
  <2>1. /\ UNCHANGED <<created, current, queue, sender, reader>> /\ current # 0
        /\ recv = "idle" /\ recv' = "replay" /\ BeginPut(Receiver, Replay(current))
    BY <1>2 DEF Roam, TakePacket, sessionVars
  <2>2. /\ Receiver \in Producers /\ Replay(current) \in Seq(ChunkType)
        /\ \A c \in ToSet(Replay(current)) : c.session = current /\ c.kind = "replay"
    BY <2>1, Ranges, ReplayTypes
  <2>3. OwnerInv'
    BY <2>1, <2>2, BeginPutStructure, Ranges DEF OwnerInv
  <2>. QED  BY <2>1, <2>2, <2>3, BeginPutEffect, Ranges DEF CallInv
<1>3. CASE AnswerInfo
  <2>. DEFINE cs == <<Chunk(current, "meta", <<>>)>>
  <2>1. /\ UNCHANGED <<created, current, queue, sender, reader>> /\ current # 0
        /\ recv = "idle" /\ recv' = "answer" /\ BeginPut(Receiver, cs)
    BY <1>3 DEF AnswerInfo, TakePacket, sessionVars
  <2>2. /\ Receiver \in Producers /\ cs \in Seq(ChunkType)
        /\ \A c \in ToSet(cs) : c.session = current /\ c.kind = "meta"
    <3>1. Chunk(current, "meta", <<>>) \in ChunkType
      BY Ranges, ChunkTypes
    <3>2. Chunk(current, "meta", <<>>).session = current /\ Chunk(current, "meta", <<>>).kind = "meta"
      BY DEF Chunk
    <3>. QED  BY <3>1, <3>2, Ranges, OneChunk
  <2>. HIDE DEF cs
  <2>3. OwnerInv'
    BY <2>1, <2>2, BeginPutStructure, Ranges DEF OwnerInv
  <2>4. /\ \A q \in Producers \ {Receiver} : putting'[q] = putting[q]
        /\ putting'[Receiver].to = current /\ putting'[Receiver].chunks = cs
    BY <2>1, <2>2, BeginPutEffect
  <2>5. recv' \notin {"idle", "create"} /\ \A r \in Runtimes : putting'[r] = putting[r]
    BY <2>1, <2>4, Ranges
  <2>. QED  BY <2>1, <2>2, <2>3, <2>4, <2>5 DEF CallInv
<1>4. CASE Register
  <2>1. /\ UNCHANGED <<created, reader, putting, queue>> /\ recv = "create" /\ recv' = "idle"
        /\ current' = created
        /\ sender' = [sender EXCEPT ![created] = SenderAt("get")]
    BY <1>4 DEF Register, sessionVars, SenderIs
  <2>2. \A r \in Runtimes :
            \/ sender'[r] = sender[r]
            \/ /\ r = created /\ sender'[r].chunk.kind = "none" /\ sender'[r].chunk.session = 0
    BY <2>1 DEF TypeInv, SenderAt, Chunk
  <2>3. ASSUME NEW r \in Runtimes, Unregistered(r)'
        PROVE  Unregistered(r) /\ r # created
    BY <2>1, <2>3, Ranges DEF Unregistered
  <2>4. CallInv'
    BY <2>1, <2>2 DEF CallInv
  <2>. QED  BY <2>1, <2>2, <2>3, <2>4, Ranges DEF OwnerInv
<1>5. CASE Handled
  <2>1. /\ UNCHANGED <<created, reader, putting, queue, sender>>
        /\ recv \in {"replay", "answer"} /\ recv' = "idle"
        /\ putting[Receiver].chunks = <<>>
    BY <1>5 DEF Handled, PutDone, sessionVars
  <2>2. CallInv'
    BY <2>1 DEF CallInv
  <2>. QED  BY <2>1, <2>2 DEF OwnerInv, Unregistered
<1>6. CASE PutStep(Receiver)
  BY <1>6, PutStructure, Ranges
<1>7. CASE Pop
  <2>1. UNCHANGED <<created, recv, reader, putting, queue, sender>>
    BY <1>7 DEF Pop, sessionVars
  <2>. QED  BY <2>1 DEF CallInv, OwnerInv, Unregistered
<1>8. ASSUME NEW r \in Runtimes, SetStops(r) \/ Read(r) \/ ReaderGoesOn(r)
      PROVE  CallInv' /\ OwnerInv'
  <2>1. /\ UNCHANGED <<created, recv, putting, queue, sender>>
        /\ \/ reader' = reader
           \/ \E pc \in {"emit", "read"} :
                 /\ reader' = [reader EXCEPT ![r] = pc]
                 /\ \/ reader[r] = "read"
                    \/ reader[r] = "put" /\ putting[r].chunks = <<>>
    BY <1>8 DEF SetStops, Read, ReaderGoesOn, ReaderAt, PutDone, sessionVars, serverVars
  <2>2. \A q \in Runtimes :
            \/ reader'[q] = reader[q]
            \/ reader[q] # "none" /\ putting[q].chunks = <<>>
    BY <2>1 DEF CallInv, TypeInv
  <2>3. CallInv'
    BY <2>1, <2>2 DEF CallInv
  <2>. QED  BY <2>1, <2>2, <2>3 DEF OwnerInv, Unregistered
<1>9. ASSUME NEW r \in Runtimes, Emit(r) \/ ReaderEnds(r)
      PROVE  CallInv' /\ OwnerInv'
  <2>1. PICK c : /\ c \in ChunkType /\ c.session = r /\ c.kind \in {"live", "status"}
                 /\ BeginPut(r, <<c>>)
    <3>1. r \in Nat /\ emitted[r] \in Nat
      BY Ranges DEF TypeInv
    <3>. QED  BY <1>9, <3>1, ChunkTypes DEF Emit, ReaderEnds, Chunk
  <2>2. /\ UNCHANGED <<created, current, recv, queue, sender>>
        /\ reader[r] \in {"emit", "read", "put"}
        /\ \E pc \in {"put", "ended"} : reader' = [reader EXCEPT ![r] = pc]
    BY <1>9 DEF Emit, ReaderEnds, ReaderAt, serverVars
  <2>3. /\ \A q \in Runtimes \ {r} : reader'[q] = reader[q]
        /\ reader'[r] \in {"put", "ended"}
    BY <2>2 DEF TypeInv
  <2>4. /\ <<c>> \in Seq(ChunkType) /\ Tail(<<c>>) = <<>>
        /\ \A d \in ToSet(<<c>>) : d = c
        /\ r \in Producers /\ r \in Nat /\ r # Receiver
    BY <2>1, OneChunk, Ranges
  <2>5. /\ \A q \in Producers \ {r} : putting'[q] = putting[q]
        /\ putting'[r].chunks = <<>> \/ putting'[r].chunks = <<c>>
    BY <2>1, <2>4, BeginPutEffect
  <2>6. CallInv'
    <3>1. ASSUME NEW q \in Runtimes, q # r
          PROVE  putting'[q] = putting[q] /\ reader'[q] = reader[q]
      BY <2>3, <2>5, <3>1, Ranges
    <3>2. putting'[Receiver] = putting[Receiver]
      BY <2>4, <2>5, Ranges
    <3>3. \A d \in ToSet(putting'[r].chunks) : d.session = r /\ d.kind \in {"live", "status"}
      BY <1>0, <2>1, <2>4, <2>5
    <3>4. putting'[r].chunks # <<>> => Tail(putting'[r].chunks) = <<>>
      BY <2>4, <2>5
    <3>. QED  BY <2>2, <2>3, <3>1, <3>2, <3>3, <3>4 DEF CallInv
  <2>7. r <= created
    BY <2>2 DEF OwnerInv
  <2>8. current # 0 => \A d \in ToSet(<<c>>) : d.session <= current
    BY <2>1, <2>4, <2>7, Ranges
  <2>9. \A q \in Runtimes : reader'[q] # "none" => reader[q] # "none"
    BY <2>2, <2>3
  <2>. QED  BY <2>1, <2>2, <2>4, <2>6, <2>8, <2>9, BeginPutStructure
<1>10. ASSUME NEW r \in Runtimes, PutStep(r) PROVE CallInv' /\ OwnerInv'
  BY <1>10, PutStructure, Ranges
<1>11. ASSUME NEW r \in Runtimes, Get(r) PROVE CallInv' /\ OwnerInv'
  <2>1. /\ UNCHANGED <<created, recv, reader, putting>> /\ queue[r] # <<>>
        /\ queue' = [queue EXCEPT ![r] = Tail(@)]
        /\ sender' = [sender EXCEPT ![r] = [pc |-> "send", chunk |-> Head(queue[r])]]
    BY <1>11 DEF Get, SenderIs, serverVars, sessionVars
  <2>2. ToSet(queue[r]) = {Head(queue[r])} \cup ToSet(Tail(queue[r]))
    BY <2>1, SequenceSets, Ranges
  <2>3. /\ \A q \in Runtimes \ {r} : queue'[q] = queue[q] /\ sender'[q] = sender[q]
        /\ queue'[r] = Tail(queue[r])
        /\ sender'[r].pc = "send" /\ sender'[r].chunk = Head(queue[r])
    BY <2>1 DEF TypeInv
  <2>4. ~ Unregistered(r)
    BY <2>1 DEF OwnerInv
  <2>5. CallInv'
    BY <2>1, <2>3 DEF CallInv
  <2>. QED  BY <2>1, <2>2, <2>3, <2>4, <2>5 DEF OwnerInv, Unregistered
<1>12. ASSUME NEW r \in Runtimes, SenderEnds(r) \/ Send(r) \/ SendFails(r) \/ NoChannel(r)
       PROVE  CallInv' /\ OwnerInv'
  <2>1. /\ UNCHANGED <<created, recv, reader, putting, queue>>
        /\ sender' = [sender EXCEPT ![r] = SenderAt(LoopTest(r))]
    BY <1>12 DEF SenderEnds, Send, SendFails, NoChannel, SenderIs, serverVars, sessionVars
  <2>2. /\ \A q \in Runtimes \ {r} : sender'[q] = sender[q]
        /\ sender'[r].chunk.kind = "none" /\ sender'[r].chunk.session = 0
    BY <2>1 DEF TypeInv, SenderAt, Chunk
  <2>3. CallInv'
    BY <2>1, <2>2 DEF CallInv
  <2>. QED  BY <2>1, <2>2, <2>3, Ranges DEF OwnerInv, Unregistered
<1>13. CASE UNCHANGED vars
  BY <1>13 DEF vars, serverVars, sessionVars, CallInv, OwnerInv, Unregistered
<1>. QED
  BY <1>1, <1>2, <1>3, <1>4, <1>5, <1>6, <1>7, <1>8, <1>9, <1>10, <1>11, <1>12, <1>13
  DEF Next, RecvStep, ReaderStep, SenderStep
------------------------------------------------------------------------------
(* The live output of the current runtime: units on its channel, in the     *)
(* hands of its sender thread, in its queue, and about to be put there.     *)
LiveUnit(C, c, n) == c.session = C /\ c.kind = "live" /\ n \in ToSet(c.units)

Held == {n \in Nat : LiveUnit(current, sender[current].chunk, n)}
Queued == {n \in Nat : \E c \in ToSet(queue[current]) : LiveUnit(current, c, n)}
Coming ==
    {n \in Nat : \E c \in ToSet(putting[current].chunks) : LiveUnit(current, c, n)}
        \cup AboutToEmit(current)

Ordered(C, q) ==
    \A i, j \in DOMAIN q : \A m, n \in Nat :
        i < j /\ LiveUnit(C, q[i], m) /\ LiveUnit(C, q[j], n) => m < n

QueueOrdered == Ordered(current, queue[current])

Below(A, B) == \A a \in A, b \in B : a < b

(* The steps of the live output while the runtime is registered.            *)
SameRecord ==
    history'.sent = history.sent /\ history'.lost = history.lost /\ history'.missed = history.missed

Stays ==
    /\ Held' = Held /\ Queued' = Queued /\ Coming' = Coming
    /\ emitted'[current] = emitted[current]
    /\ QueueOrdered => QueueOrdered'
    /\ SameRecord

Prints ==
    /\ Held' = Held /\ Queued' = Queued
    /\ Coming = {}
    /\ emitted'[current] = emitted[current] + 1
    /\ Coming' = {emitted[current] + 1}
    /\ QueueOrdered => QueueOrdered'
    /\ SameRecord

Enqueues ==
    /\ Held' = Held
    /\ Queued' = Queued \cup Coming
    /\ Coming' = {}
    /\ emitted'[current] = emitted[current]
    /\ QueueOrdered /\ Below(Queued, Coming) => QueueOrdered'
    /\ SameRecord

Takes ==
    /\ Held = {}
    /\ Queued = Held' \cup Queued'
    /\ Coming' = Coming
    /\ emitted'[current] = emitted[current]
    /\ QueueOrdered => QueueOrdered' /\ Below(Held', Queued')
    /\ SameRecord

Sends ==
    /\ Held' = {}
    /\ Queued' = Queued /\ Coming' = Coming
    /\ emitted'[current] = emitted[current]
    /\ QueueOrdered => QueueOrdered'
    /\ \/ Held = {} /\ history'.sent = history.sent
       \/ \E n \in Nat : Held = {n} /\ history'.sent = Append(history.sent, n)
       \/ history'.lost /\ history'.sent = history.sent
    /\ history'.lost \/ (history'.lost = history.lost /\ history'.missed = history.missed)

Drops ==
    /\ Held' = Held
    /\ Queued' \subseteq Queued /\ Coming' \subseteq Coming
    /\ emitted'[current] = emitted[current]
    /\ QueueOrdered => QueueOrdered'
    /\ history'.lost /\ history'.sent = history.sent

(* Other threads carry no live output of the current runtime.               *)
LEMMA NoOthers ==
    ASSUME StructureInv, current # 0
    PROVE  /\ \A r \in Runtimes \ {current} : \A n : ~ LiveUnit(current, sender[r].chunk, n)
           /\ \A p \in Producers \ {current} : \A c \in ToSet(putting[p].chunks) : \A n : ~ LiveUnit(current, c, n)
           /\ \A c \in ToSet(putting[current].chunks) : putting[current].to = current
<1>. USE DEF StructureInv
<1>1. ASSUME NEW r \in Runtimes \ {current}, NEW n, LiveUnit(current, sender[r].chunk, n)
      PROVE  FALSE
  <2>1. sender[r].chunk.session = current /\ sender[r].chunk.kind = "live" /\ current <= r
    BY <1>1 DEF LiveUnit, OwnerInv
  <2>2. Unregistered(r)
    BY <2>1, Ranges DEF Unregistered
  <2>. QED  BY <2>1, <2>2 DEF OwnerInv
<1>2. ASSUME NEW p \in Producers \ {current}, NEW c \in ToSet(putting[p].chunks), NEW n, LiveUnit(current, c, n)
      PROVE  FALSE
  <2>1. CASE p = Receiver
    BY <1>2, <2>1 DEF LiveUnit, CallInv
  <2>2. CASE p \in Runtimes
    BY <1>2, <2>2 DEF LiveUnit, CallInv
  <2>. QED  BY <2>1, <2>2, Ranges
<1>3. ASSUME NEW c \in ToSet(putting[current].chunks) PROVE putting[current].to = current
  <2>1. /\ current \in Producers /\ current \in Runtimes /\ current = created
        /\ current \in Nat /\ putting[current].to \in Nat
    BY Ranges
  <2>2. c.session = current /\ current <= putting[current].to /\ putting[current].to <= created
    <3>1. c.session = current
      BY <2>1 DEF CallInv
    <3>2. c.session <= putting[current].to
      BY <2>1 DEF OwnerInv
    <3>3. putting[current].to <= created
      BY <2>1 DEF TypeInv
    <3>. QED  BY <3>1, <3>2, <3>3
  <2>. QED  BY <2>1, <2>2
<1>. QED  BY <1>1, <1>2, <1>3

LEMMA OrderedSteps ==
    ASSUME NEW C, NEW q \in Seq(ChunkType)
    PROVE  /\ \A c \in ChunkType :
                 /\ Ordered(C, q)
                 /\ \A d \in ToSet(q) : \A m, n \in Nat :
                       LiveUnit(C, d, m) /\ LiveUnit(C, c, n) => m < n
                 => Ordered(C, Append(q, c))
           /\ q # <<>> /\ Ordered(C, q) =>
                 /\ Ordered(C, Tail(q))
                 /\ \A d \in ToSet(Tail(q)) : \A m, n \in Nat :
                       LiveUnit(C, Head(q), m) /\ LiveUnit(C, d, n) => m < n
<1>1. Len(q) \in Nat /\ DOMAIN q = 1..Len(q) /\ ToSet(q) = {q[i] : i \in 1..Len(q)}
  BY LenProperties DEF ToSet
<1>2. ASSUME NEW c \in ChunkType, Ordered(C, q),
             \A d \in ToSet(q) : \A m, n \in Nat :
                 LiveUnit(C, d, m) /\ LiveUnit(C, c, n) => m < n
      PROVE  Ordered(C, Append(q, c))
  <2>1. /\ DOMAIN Append(q, c) = 1..Len(q) + 1
        /\ \A i \in 1..Len(q) : Append(q, c)[i] = q[i]
        /\ Append(q, c)[Len(q) + 1] = c
    BY AppendProperties, LenProperties
  <2>2. ASSUME NEW i \in 1..Len(q) + 1, NEW j \in 1..Len(q) + 1, i < j,
               NEW m \in Nat, NEW n \in Nat,
               LiveUnit(C, Append(q, c)[i], m), LiveUnit(C, Append(q, c)[j], n)
        PROVE  m < n
    <3>1. i \in 1..Len(q) /\ Append(q, c)[i] = q[i] /\ q[i] \in ToSet(q)
      BY <1>1, <2>1, <2>2
    <3>2. CASE j = Len(q) + 1
      BY <1>2, <2>1, <2>2, <3>1, <3>2
    <3>3. CASE j # Len(q) + 1
      <4>1. j \in 1..Len(q) /\ Append(q, c)[j] = q[j]
        BY <1>1, <2>1, <3>3
      <4>. QED  BY <1>1, <1>2, <2>2, <3>1, <4>1 DEF Ordered
    <3>. QED  BY <3>2, <3>3
  <2>. QED  BY <2>1, <2>2 DEF Ordered
<1>3. ASSUME q # <<>>, Ordered(C, q)
      PROVE  /\ Ordered(C, Tail(q))
             /\ \A d \in ToSet(Tail(q)) : \A m, n \in Nat :
                   LiveUnit(C, Head(q), m) /\ LiveUnit(C, d, n) => m < n
  <2>1. /\ DOMAIN Tail(q) = 1..Len(q) - 1
        /\ \A i \in 1..Len(q) - 1 : Tail(q)[i] = q[i + 1]
        /\ Head(q) = q[1] /\ Len(q) # 0
    BY <1>1, <1>3, HeadTailProperties, LenProperties, EmptySeq
  <2>2. ToSet(Tail(q)) = {q[i + 1] : i \in 1..Len(q) - 1}
    BY <2>1 DEF ToSet
  <2>3. \A i \in 1..Len(q) - 1 : i + 1 \in 1..Len(q) /\ 1 < i + 1 /\ 1 \in 1..Len(q)
    BY <1>1
  <2>4. Ordered(C, Tail(q))
    <3>1. \A i, j \in 1..Len(q) - 1 : i < j => i + 1 < j + 1
      BY <1>1
    <3>. QED  BY <1>1, <1>3, <2>1, <2>3, <3>1 DEF Ordered
  <2>5. \A d \in ToSet(Tail(q)) : \A m, n \in Nat :
            LiveUnit(C, Head(q), m) /\ LiveUnit(C, d, n) => m < n
    BY <1>1, <1>3, <2>1, <2>2, <2>3 DEF Ordered
  <2>. QED  BY <2>4, <2>5
<1>. QED  BY <1>2, <1>3

LEMMA Frame ==
    ASSUME current' = current,
           sender'[current].chunk = sender[current].chunk,
           queue'[current] = queue[current],
           putting'[current].chunks = putting[current].chunks,
           AboutToEmit(current)' = AboutToEmit(current),
           emitted'[current] = emitted[current],
           SameRecord
    PROVE  Stays
  BY DEF Stays, Held, Queued, Coming, QueueOrdered, LiveUnit

LEMMA QueueFrame ==
    ASSUME current' = current, queue'[current] = queue[current]
    PROVE  Queued' = Queued /\ (QueueOrdered => QueueOrdered')
  BY DEF Queued, QueueOrdered

LEMMA PutStages ==
    ASSUME StructureInv, current # 0, NEW p \in Producers, PutStep(p)
    PROVE  Stays \/ Enqueues \/ Drops
<1>. USE DEF StructureInv
<1>. DEFINE C == current
            to == putting[p].to
            cs == putting[p].chunks
            q == queue[C]
<1>1. /\ UNCHANGED <<current, reader, emitted, sender>>
      /\ C \in Runtimes /\ C \in Producers /\ to \in Runtimes /\ cs # <<>>
      /\ q \in Seq(ChunkType) /\ Head(cs) \in ChunkType /\ cs \in Seq(ChunkType)
  BY PutEffect, PutTarget, Ranges DEF PutUnchanged, serverVars, sessionVars
<1>2. AboutToEmit(C)' = AboutToEmit(C) /\ Held' = Held
  BY <1>1 DEF AboutToEmit, Held, LiveUnit
<1>3. ASSUME ToSet(putting'[C].chunks) \subseteq ToSet(putting[C].chunks)
      PROVE  Coming' \subseteq Coming
  BY <1>1, <1>2, <1>3 DEF Coming, LiveUnit
<1>4. ToSet(putting'[C].chunks) \subseteq ToSet(putting[C].chunks)
  BY <1>1, PutMoves
<1>5. CASE /\ PutResult(p, to, Tail(cs), "put")
           /\ queue' = [queue EXCEPT ![to] = Append(@, Head(cs))]
           /\ history' = history
  <2>1. CASE p # C
    <3>1. putting'[C].chunks = putting[C].chunks /\ SameRecord
      BY <1>1, <1>5, <2>1 DEF PutResult, SameRecord
    <3>2. CASE to # C
      <4>1. queue'[C] = q
        BY <1>1, <1>5, <3>2 DEF TypeInv
      <4>. QED  BY <1>1, <1>2, <3>1, <4>1, Frame
    <3>3. CASE to = C
      <4>1. queue'[C] = Append(q, Head(cs))
        BY <1>1, <1>5, <3>3 DEF TypeInv
      <4>2. \A n : ~ LiveUnit(current, Head(cs), n)
        <5>1. Head(cs) \in ToSet(cs)
          BY <1>1, SequenceSets
        <5>. QED  BY <2>1, <5>1, NoOthers
      <4>3. Queued' = Queued
        <5>1. ToSet(queue'[C]) = ToSet(q) \cup {Head(cs)}
          BY <1>1, <4>1, SequenceSets
        <5>. QED  BY <1>1, <4>2, <5>1 DEF Queued, LiveUnit
      <4>4. QueueOrdered => QueueOrdered'
        BY <1>1, <4>1, <4>2, OrderedSteps DEF QueueOrdered
      <4>5. Coming' = Coming
        BY <1>1, <1>2, <3>1 DEF Coming, LiveUnit
      <4>. QED  BY <1>1, <1>2, <3>1, <4>3, <4>4, <4>5 DEF Stays
    <3>. QED  BY <3>2, <3>3
  <2>2. CASE p = C
    <3>1. /\ ToSet(cs) = {Head(cs)} \cup ToSet(Tail(cs)) /\ Tail(cs) = <<>> /\ ToSet(<<>>) = {}
      <4>1. ToSet(cs) = {Head(cs)} \cup ToSet(Tail(cs)) /\ ToSet(<<>>) = {}
        BY <1>1, SequenceSets
      <4>. QED  BY <1>1, <2>2, <4>1 DEF CallInv
    <3>2. to = C
      BY <2>2, <3>1, NoOthers
    <3>3. AboutToEmit(C) = {}
      BY <1>1, <2>2 DEF AboutToEmit, CallInv
    <3>4. Coming = {n \in Nat : LiveUnit(current, Head(cs), n)} /\ Coming' = {}
      BY <1>1, <1>2, <1>5, <2>2, <3>1, <3>3 DEF Coming, LiveUnit, PutResult
    <3>5. queue'[C] = Append(q, Head(cs))
      BY <1>1, <1>5, <3>2 DEF TypeInv
    <3>6. Queued' = Queued \cup Coming
      <4>1. ToSet(queue'[C]) = ToSet(q) \cup {Head(cs)}
        BY <1>1, <3>5, SequenceSets
      <4>. QED  BY <1>1, <3>4, <4>1 DEF Queued, LiveUnit
    <3>7. QueueOrdered /\ Below(Queued, Coming) => QueueOrdered'
      <4>1. ASSUME NEW d \in ToSet(q), NEW m \in Nat, LiveUnit(C, d, m) PROVE m \in Queued
        BY <4>1 DEF Queued
      <4>. QED  BY <1>1, <3>4, <3>5, <4>1, OrderedSteps DEF QueueOrdered, Below
    <3>. QED  BY <1>1, <1>2, <1>5, <3>4, <3>6, <3>7 DEF Enqueues, SameRecord
  <2>. QED  BY <2>1, <2>2
<1>6. CASE /\ PutResult(p, to, cs, "drop")
           /\ queue' = queue
           /\ history' = history
  <2>1. putting'[C].chunks = putting[C].chunks /\ SameRecord
    BY <1>1, <1>6 DEF PutResult, SameRecord
  <2>. QED  BY <1>1, <1>2, <1>6, <2>1, Frame
<1>7. CASE /\ \/ queue' = queue
              \/ queue[to] # <<>> /\ queue' = [queue EXCEPT ![to] = Tail(@)]
           /\ Loses(to)
  <2>1. CASE to # C
    <3>1. queue'[C] = q /\ history' = history
      BY <1>1, <1>7, <2>1 DEF TypeInv, Loses
    <3>2. putting'[C].chunks = putting[C].chunks
      <4>1. p # C
        <5>1. Head(cs) \in ToSet(cs)
          BY <1>1, SequenceSets
        <5>. QED  BY <2>1, <5>1, NoOthers
      <4>. QED  BY <1>1, <4>1, PutEffect DEF PutResult
    <3>. QED  BY <1>1, <1>2, <3>1, <3>2, Frame DEF SameRecord
  <2>2. CASE to = C
    <3>1. history'.lost /\ history'.sent = history.sent
      BY <1>1, <1>7, <2>2, LossyTypes DEF Loses, TypeInv
    <3>2. CASE queue'[C] = q
      BY <1>1, <1>2, <1>3, <1>4, <3>1, <3>2, QueueFrame DEF Drops
    <3>3. CASE q # <<>> /\ queue'[C] = Tail(q)
      <4>1. ToSet(queue'[C]) \subseteq ToSet(q)
        BY <1>1, <3>3, SequenceSets
      <4>2. Queued' \subseteq Queued
        BY <1>1, <4>1 DEF Queued, LiveUnit
      <4>3. QueueOrdered => QueueOrdered'
        BY <1>1, <3>3, OrderedSteps DEF QueueOrdered
      <4>. QED  BY <1>1, <1>2, <1>3, <1>4, <3>1, <4>2, <4>3 DEF Drops
    <3>. QED  BY <1>1, <1>7, <2>2, <3>2, <3>3 DEF TypeInv
  <2>. QED  BY <2>1, <2>2
<1>. QED  BY <1>5, <1>6, <1>7, PutEffect

LEMMA SenderStages ==
    ASSUME StructureInv, current # 0, NEW r \in Runtimes, SenderStep(r)
    PROVE  Stays \/ Takes \/ Sends \/ Drops
<1>. USE DEF StructureInv
<1>. DEFINE C == current
            c == sender[r].chunk
<1>1. /\ UNCHANGED <<current, reader, emitted, putting>>
      /\ C \in Runtimes /\ c \in ChunkType /\ queue[r] \in Seq(ChunkType)
      /\ AboutToEmit(C)' = AboutToEmit(C) /\ Coming' = Coming
  <2>1. UNCHANGED <<current, reader, emitted, putting>>
    BY DEF SenderStep, Get, SenderEnds, Send, SendFails, NoChannel, serverVars, sessionVars
  <2>. QED  BY <2>1, Ranges DEF AboutToEmit, Coming
<1>2. CASE Get(r)
  <2>1. /\ sender[r].pc = "get" /\ queue[r] # <<>> /\ history' = history
        /\ queue' = [queue EXCEPT ![r] = Tail(@)]
        /\ sender' = [sender EXCEPT ![r] = [pc |-> "send", chunk |-> Head(queue[r])]]
    BY <1>2 DEF Get, SenderIs
  <2>2. CASE r # C
    <3>1. sender'[C].chunk = sender[C].chunk /\ queue'[C] = queue[C]
      BY <1>1, <2>1, <2>2 DEF TypeInv
    <3>. QED  BY <1>1, <2>1, <3>1, Frame DEF SameRecord
  <2>3. CASE r = C
    <3>1. sender'[C].chunk = Head(queue[C]) /\ queue'[C] = Tail(queue[C])
      BY <1>1, <2>1, <2>3 DEF TypeInv
    <3>2. Held = {}
      BY <1>1, <2>1, <2>3 DEF Held, LiveUnit, CallInv
    <3>3. ToSet(queue[C]) = {Head(queue[C])} \cup ToSet(Tail(queue[C]))
      BY <1>1, <2>1, <2>3, SequenceSets
    <3>4. Queued = Held' \cup Queued'
      BY <1>1, <3>1, <3>3 DEF Queued, Held
    <3>5. QueueOrdered => QueueOrdered' /\ Below(Held', Queued')
      BY <1>1, <2>1, <2>3, <3>1, OrderedSteps DEF QueueOrdered, Below, Held, Queued
    <3>. QED  BY <1>1, <2>1, <3>2, <3>4, <3>5 DEF Takes, SameRecord
  <2>. QED  BY <2>2, <2>3
<1>3. CASE SenderEnds(r)
  <2>1. /\ queue' = queue /\ history' = history /\ sender[r].pc = "get"
        /\ sender' = [sender EXCEPT ![r] = SenderAt(LoopTest(r))]
    BY <1>3 DEF SenderEnds, SenderIs
  <2>2. Held' = Held
    <3>1. CASE r # C
      BY <1>1, <2>1, <3>1 DEF Held, TypeInv
    <3>2. CASE r = C
      <4>1. sender[C].chunk.kind = "none" /\ sender'[C].chunk.kind = "none"
        BY <1>1, <2>1, <3>2 DEF CallInv, TypeInv, SenderAt, Chunk
      <4>. QED  BY <1>1, <4>1 DEF Held, LiveUnit
    <3>. QED  BY <3>1, <3>2
  <2>. QED  BY <1>1, <2>1, <2>2, QueueFrame DEF Stays, SameRecord
<1>4. CASE Send(r) \/ SendFails(r)
  <2>1. /\ queue' = queue
        /\ sender' = [sender EXCEPT ![r] = SenderAt(LoopTest(r))]
        /\ \/ history' = HandOver(c)
           \/ history' = Lossy(history)
           \/ history' = Lossy(HandOver(c))
    BY <1>4 DEF Send, SendFails, SenderIs
  <2>2. Queued' = Queued /\ (QueueOrdered => QueueOrdered')
    BY <1>1, <2>1, QueueFrame
  <2>3. /\ HandOver(c) \in History /\ history \in History
        /\ Lossy(history).lost /\ Lossy(history).sent = history.sent
        /\ Lossy(HandOver(c)).lost /\ Lossy(HandOver(c)).sent = HandOver(c).sent
        /\ HandOver(c).lost = history.lost /\ HandOver(c).missed = history.missed
    BY <1>1, HandOverEffect, LossyTypes DEF TypeInv
  <2>4. CASE r # C
    <3>1. ~ (c.session = C /\ c.kind = "live")
      <4>1. c.session = C /\ C <= r => Unregistered(r)
        BY <1>1, <2>4, Ranges DEF Unregistered
      <4>. QED  BY <1>1, <4>1 DEF OwnerInv
    <3>2. HandOver(c).sent = history.sent
      BY <1>1, <3>1, HandOverEffect
    <3>3. Held' = Held
      BY <1>1, <2>1, <2>4 DEF Held, TypeInv
    <3>. QED  BY <1>1, <2>1, <2>2, <2>3, <3>2, <3>3 DEF Stays, Drops, SameRecord
  <2>5. CASE r = C
    <3>1. Held' = {}
      <4>1. sender'[C].chunk.kind = "none"
        BY <1>1, <2>1, <2>5 DEF TypeInv, SenderAt, Chunk
      <4>. QED  BY <1>1, <4>1 DEF Held, LiveUnit
    <3>2. \/ Held = {} /\ HandOver(c).sent = history.sent
          \/ \E n \in Nat : Held = {n} /\ HandOver(c).sent = Append(history.sent, n)
      <4>1. CASE c.session = C /\ c.kind = "live"
        <5>1. history.sent \in Seq(Nat)
          BY <2>3 DEF History
        <5>2. PICK n \in Nat : c.units = <<n>>
          BY <1>1, <4>1 DEF ChunkType
        <5>3. Held = {n}
          BY <1>1, <2>5, <4>1, <5>2, OneChunk DEF Held, LiveUnit
        <5>4. HandOver(c).sent = Append(history.sent, n)
          <6>1. HandOver(c).sent = history.sent \o <<n>>
            BY <1>1, <4>1, <5>2, HandOverEffect
          <6>. QED  BY <5>1, <6>1, AppendIsConcat
        <5>. QED  BY <5>3, <5>4
      <4>2. CASE ~ (c.session = C /\ c.kind = "live")
        BY <1>1, <2>5, <4>2, HandOverEffect DEF Held, LiveUnit
      <4>. QED  BY <4>1, <4>2
    <3>. QED  BY <1>1, <2>1, <2>2, <2>3, <3>1, <3>2 DEF Sends
  <2>. QED  BY <2>4, <2>5
<1>5. CASE NoChannel(r)
  BY <1>5 DEF NoChannel
<1>. QED  BY <1>2, <1>3, <1>4, <1>5 DEF SenderStep

LEMMA Stages ==
    ASSUME StructureInv, [Next]_vars, current # 0, current' = current
    PROVE  Stays \/ Prints \/ Enqueues \/ Takes \/ Sends \/ Drops
<1>. USE DEF StructureInv
<1>. DEFINE C == current
<1>1. C \in Runtimes /\ C \in Producers /\ C \in Nat /\ C # Receiver /\ C = created /\ recv # "create"
  BY Ranges
<1>2. CASE Roam \/ AnswerInfo
  <2>1. /\ UNCHANGED <<queue, sender, reader, emitted>>
        /\ \A p \in Producers \ {Receiver} : putting'[p] = putting[p]
        /\ SameRecord
    <3>1. /\ UNCHANGED <<queue, sender, reader, emitted>>
          /\ \E call : putting' = [putting EXCEPT ![Receiver] = call]
          /\ SameRecord
      BY <1>2 DEF Roam, AnswerInfo, BeginPut, sessionVars, SameRecord, TypeInv, History
    <3>. QED  BY <3>1 DEF TypeInv
  <2>2. AboutToEmit(C)' = AboutToEmit(C)
    BY <2>1 DEF AboutToEmit
  <2>. QED  BY <1>1, <2>1, <2>2, Frame
<1>3. ASSUME UNCHANGED <<queue, sender, reader, emitted, putting, history>>
      PROVE  Stays
  BY <1>3, Frame DEF SameRecord, AboutToEmit
<1>4. CASE PutStep(Receiver) \/ \E r \in Runtimes : PutStep(r)
  BY <1>4, PutStages, Ranges
<1>5. ASSUME NEW r \in Runtimes, Read(r) PROVE Stays \/ Prints
  <2>1. /\ UNCHANGED <<queue, sender, putting, history>> /\ reader[r] = "read"
        /\ reader' = [reader EXCEPT ![r] = "emit"]
        /\ emitted' = [emitted EXCEPT ![r] = @ + 1]
    BY <1>5 DEF Read, ReaderAt
  <2>2. CASE r # C
    <3>1. reader'[C] = reader[C] /\ emitted'[C] = emitted[C]
      BY <1>1, <2>1, <2>2 DEF TypeInv
    <3>. QED  BY <2>1, <3>1, Frame DEF AboutToEmit, SameRecord
  <2>3. CASE r = C
    <3>1. reader'[C] = "emit" /\ emitted'[C] = emitted[C] + 1 /\ emitted[C] \in Nat
          /\ putting[C].chunks = <<>>
      BY <1>1, <2>1, <2>3 DEF TypeInv, CallInv
    <3>2. Coming = {} /\ Coming' = {emitted[C] + 1}
      BY <2>1, <2>3, <3>1 DEF Coming, AboutToEmit, ToSet
    <3>3. Held' = Held
      BY <2>1 DEF Held
    <3>. QED  BY <2>1, <3>1, <3>2, <3>3, QueueFrame DEF Prints, SameRecord
  <2>. QED  BY <2>2, <2>3
<1>6. ASSUME NEW r \in Runtimes, ReaderGoesOn(r) PROVE Stays
  <2>1. /\ UNCHANGED <<queue, sender, putting, history, emitted>> /\ reader[r] = "put"
        /\ reader' = [reader EXCEPT ![r] = "read"]
    BY <1>6 DEF ReaderGoesOn, ReaderAt
  <2>2. AboutToEmit(C)' = AboutToEmit(C)
    BY <1>1, <2>1 DEF AboutToEmit, TypeInv
  <2>. QED  BY <2>1, <2>2, Frame DEF SameRecord
<1>7. ASSUME NEW r \in Runtimes, Emit(r) \/ ReaderEnds(r) PROVE Stays
  <2>1. PICK c : /\ c \in ChunkType /\ c.session = r
                 /\ BeginPut(r, <<c>>)
                 /\ \/ Emit(r) /\ c.kind = "live" /\ c.units = <<emitted[r]>>
                    \/ ReaderEnds(r) /\ c.kind = "status"
    <3>1. r \in Nat /\ emitted[r] \in Nat
      BY Ranges DEF TypeInv
    <3>2. CASE Emit(r)
      <4>. DEFINE c == Chunk(r, "live", <<emitted[r]>>)
      <4>1. c \in ChunkType /\ c.session = r /\ c.kind = "live" /\ c.units = <<emitted[r]>>
        BY <3>1, ChunkTypes DEF Chunk
      <4>2. BeginPut(r, <<c>>)
        BY <3>2 DEF Emit
      <4>. QED  BY <3>2, <4>1, <4>2
    <3>3. CASE ReaderEnds(r)
      <4>. DEFINE c == Chunk(r, "status", <<>>)
      <4>1. c \in ChunkType /\ c.session = r /\ c.kind = "status"
        BY <3>1, ChunkTypes DEF Chunk
      <4>2. BeginPut(r, <<c>>)
        BY <3>3 DEF ReaderEnds
      <4>. QED  BY <3>3, <4>1, <4>2
    <3>. QED  BY <1>7, <3>2, <3>3
  <2>2. /\ UNCHANGED <<queue, sender, history, emitted>>
        /\ \E pc \in {"put", "ended"} : reader' = [reader EXCEPT ![r] = pc]
    BY <1>7 DEF Emit, ReaderEnds, ReaderAt
  <2>3. /\ r \in Producers /\ <<c>> \in Seq(ChunkType)
        /\ \A q \in Producers \ {r} : putting'[q] = putting[q]
        /\ putting'[r].chunks = <<c>>
    <3>1. r \in Producers /\ <<c>> \in Seq(ChunkType)
      BY <2>1, Ranges
    <3>. QED  BY <2>1, <3>1, BeginPutEffect
  <2>4. CASE r # C
    <3>1. reader'[C] = reader[C]
      BY <1>1, <2>2, <2>4 DEF TypeInv
    <3>2. putting'[C].chunks = putting[C].chunks
      BY <1>1, <2>3, <2>4
    <3>. QED  BY <2>2, <3>1, <3>2, Frame DEF AboutToEmit, SameRecord
  <2>5. CASE r = C
    <3>1. reader'[C] \in {"put", "ended"}
      BY <1>1, <2>2, <2>5 DEF TypeInv
    <3>2. Coming' = {n \in Nat : LiveUnit(C, c, n)}
      BY <2>3, <2>5, <3>1, OneChunk DEF Coming, AboutToEmit
    <3>3. CASE Emit(r)
      <4>1. c.kind = "live" /\ c.units = <<emitted[C]>> /\ reader[C] = "emit" /\ emitted[C] \in Nat
        BY <1>1, <2>1, <2>5, <3>3 DEF Emit, ReaderEnds, TypeInv
      <4>2. Coming' = {emitted[C]}
        BY <2>1, <2>5, <3>2, <4>1, OneChunk DEF LiveUnit
      <4>3. Coming = {emitted[C]}
        BY <1>1, <4>1 DEF Coming, AboutToEmit, CallInv, ToSet
      <4>. QED
        BY <2>2, <4>2, <4>3, QueueFrame DEF Stays, SameRecord, Held
    <3>4. CASE ReaderEnds(r)
      <4>1. c.kind # "live" /\ putting[C].chunks = <<>> /\ reader[C] # "emit"
        BY <1>1, <2>1, <2>5, <3>4 DEF Emit, ReaderEnds, PutDone, CallInv
      <4>2. Coming' = {}
        BY <3>2, <4>1 DEF LiveUnit
      <4>3. Coming = {}
        BY <4>1 DEF Coming, AboutToEmit, ToSet
      <4>. QED
        BY <2>2, <4>2, <4>3, QueueFrame DEF Stays, SameRecord, Held
    <3>. QED  BY <1>7, <3>3, <3>4
  <2>. QED  BY <2>4, <2>5
<1>8. CASE \E r \in Runtimes : SenderStep(r)
  BY <1>8, SenderStages
<1>9. ~ CreateRuntime /\ ~ Register /\ ~ Pop
  BY <1>1 DEF CreateRuntime, Register, Pop
<1>10. CASE Handled \/ (\E r \in Runtimes : SetStops(r)) \/ UNCHANGED vars
  BY <1>3, <1>10 DEF Handled, SetStops, vars, serverVars, sessionVars
<1>. QED
  BY <1>2, <1>4, <1>5, <1>6, <1>7, <1>8, <1>9, <1>10 DEF Next, RecvStep, ReaderStep
------------------------------------------------------------------------------
(* What is on the channel was printed before what the sender thread holds,  *)
(* that before what is queued, and that before what is about to be.         *)
Gone == ToSet(history.sent)
Trail == Gone \cup Held \cup Queued \cup Coming

Increasing(s) == \A i, j \in DOMAIN s : i < j => s[i] < s[j]

OrderInv ==
    /\ current = 0 => history.sent = <<>>
    /\ current # 0 =>
          /\ Increasing(history.sent)
          /\ QueueOrdered
          /\ Below(Gone, Held)
          /\ Below(Gone \cup Held, Queued)
          /\ Below(Gone \cup Held \cup Queued, Coming)
          /\ \A n \in Trail : n <= emitted[current]

(* As long as nothing was dropped, all that was printed since the runtime   *)
(* was registered is somewhere on its way.                                  *)
LossInv == Intact => history.missed + 1 .. emitted[current] \subseteq Trail

LEMMA StageTypes ==
    ASSUME TypeInv, current # 0
    PROVE  /\ history.sent \in Seq(Nat)
           /\ Gone \subseteq Nat /\ Held \subseteq Nat /\ Queued \subseteq Nat /\ Coming \subseteq Nat
           /\ emitted[current] \in Nat
<1>1. history.sent \in Seq(Nat) /\ emitted[current] \in Nat
  BY Ranges DEF TypeInv, History
<1>2. Gone \subseteq Nat
  BY <1>1, SequenceSets DEF Gone
<1>. QED  BY <1>1, <1>2 DEF Held, Queued, Coming, AboutToEmit

LEMMA AppendIncreasing ==
    ASSUME NEW s \in Seq(Nat), NEW n \in Nat, Increasing(s), \A m \in ToSet(s) : m < n
    PROVE  Increasing(Append(s, n))
<1>1. /\ DOMAIN s = 1..Len(s) /\ Len(s) \in Nat
      /\ DOMAIN Append(s, n) = 1..Len(s) + 1
      /\ \A i \in 1..Len(s) : Append(s, n)[i] = s[i] /\ s[i] \in ToSet(s)
      /\ Append(s, n)[Len(s) + 1] = n
  BY AppendProperties, LenProperties DEF ToSet
<1>2. ASSUME NEW i \in 1..Len(s) + 1, NEW j \in 1..Len(s) + 1, i < j
      PROVE  Append(s, n)[i] < Append(s, n)[j]
  <2>1. i \in 1..Len(s)
    BY <1>1, <1>2
  <2>2. CASE j = Len(s) + 1
    BY <1>1, <2>1, <2>2
  <2>3. CASE j # Len(s) + 1
    <3>1. j \in 1..Len(s)
      BY <1>1, <2>3
    <3>. QED  BY <1>1, <1>2, <2>1, <3>1 DEF Increasing
  <2>. QED  BY <2>2, <2>3
<1>. QED  BY <1>1, <1>2 DEF Increasing

(* The steps that begin and end a registration, or pass without one.        *)
LEMMA Boundaries ==
    ASSUME StructureInv, OrderInv, [Next]_vars, ~ (current # 0 /\ current' = current)
    PROVE  /\ history'.sent = <<>>
           /\ current' # 0 =>
                 /\ Held' = {} /\ Queued' = {}
                 /\ Coming' = AboutToEmit(created)
                 /\ current' = created /\ queue'[created] = <<>>
                 /\ emitted' = emitted /\ reader' = reader /\ scrollback' = scrollback
                 /\ history' = Fresh(emitted[created] - Cardinality(AboutToEmit(created)))
<1>. USE DEF StructureInv
<1>1. CASE Register
  <2>1. /\ recv = "create" /\ current' = created
        /\ UNCHANGED <<reader, emitted, scrollback, putting, queue>>
        /\ sender' = [sender EXCEPT ![created] = SenderAt("get")]
        /\ history' = Fresh(emitted[created] - Cardinality(AboutToEmit(created)))
    BY <1>1 DEF Register, SenderIs, sessionVars
  <2>2. created \in Runtimes /\ created \in Producers /\ Unregistered(created)
    BY <2>1, Ranges DEF TypeInv, Unregistered, Runtimes
  <2>3. history'.sent = <<>>
    BY <2>1 DEF Fresh
  <2>4. sender'[created].chunk.kind = "none" /\ queue'[created] = <<>>
    BY <2>1, <2>2 DEF TypeInv, SenderAt, Chunk, OwnerInv
  <2>5. Held' = {} /\ Queued' = {}
    BY <2>1, <2>4 DEF Held, Queued, LiveUnit, ToSet
  <2>6. ToSet(putting[created].chunks) = {}
    <3>1. ASSUME NEW c \in ToSet(putting[created].chunks) PROVE FALSE
      <4>1. c.session = created /\ created <= putting[created].to
        BY <2>2 DEF CallInv, OwnerInv
      <4>2. putting[created].to <= created /\ putting[created].to \in Nat
        BY <2>2, Ranges DEF TypeInv
      <4>3. putting[created].to # created
        BY <2>2 DEF OwnerInv
      <4>. QED  BY <4>1, <4>2, <4>3, Ranges
    <3>. QED  BY <3>1
  <2>7. Coming' = AboutToEmit(created)
    BY <2>1, <2>6 DEF Coming, AboutToEmit
  <2>. QED  BY <2>1, <2>3, <2>4, <2>5, <2>7
<1>2. CASE Pop
  BY <1>2 DEF Pop, Fresh
<1>3. CASE current = 0 /\ ~ Register
  <2>1. current' = 0 /\ history' = history
    <3>1. ASSUME NEW p \in Producers, PutStep(p) PROVE current' = 0 /\ history' = history
      <4>1. putting[p].to # 0 /\ UNCHANGED current
        BY <3>1, PutEffect DEF TypeInv, PutUnchanged, serverVars
      <4>. QED  BY <1>3, <3>1, <4>1, PutEffect DEF Loses
    <3>2. ~ Roam /\ ~ AnswerInfo /\ ~ Pop /\ \A r \in Runtimes : ~ Send(r) /\ ~ SendFails(r)
      BY <1>3 DEF Roam, AnswerInfo, TakePacket, Pop, Send, SendFails
    <3>. QED
      BY <1>3, <3>1, <3>2, Ranges
      DEF Next, RecvStep, ReaderStep, SenderStep, CreateRuntime, Handled, SetStops, Read, Emit,
          ReaderGoesOn, ReaderEnds, Get, SenderEnds, NoChannel, vars, serverVars
  <2>. QED  BY <1>3, <2>1 DEF OrderInv
<1>4. CASE current # 0 /\ current' # current
  <2>1. Pop
    <3>1. \A p \in Producers : PutStep(p) => UNCHANGED current
      BY PutEffect DEF PutUnchanged, serverVars
    <3>. QED
      BY <1>4, <3>1, Ranges
      DEF Next, RecvStep, ReaderStep, SenderStep, CreateRuntime, Roam, AnswerInfo, Register, Handled,
          SetStops, Read, Emit, ReaderGoesOn, ReaderEnds, Get, SenderEnds, Send, SendFails, NoChannel,
          vars, serverVars
  <2>. QED  BY <1>2, <2>1
<1>. QED  BY <1>1, <1>2, <1>3, <1>4
(* What a registration starts from, for either of the two invariants.       *)
LEMMA AtRegistration ==
    ASSUME StructureInv, NEW r \in Runtimes
    PROVE  /\ AboutToEmit(r) = {} \/ AboutToEmit(r) = {emitted[r]}
           /\ emitted[r] \in Nat
           /\ emitted[r] - Cardinality(AboutToEmit(r)) + 1 .. emitted[r] \subseteq AboutToEmit(r)
<1>1. emitted[r] \in Nat
  BY DEF StructureInv, TypeInv
<1>2. CASE AboutToEmit(r) = {}
  <2>1. Cardinality(AboutToEmit(r)) = 0
    BY <1>2, FS_EmptySet
  <2>. QED  BY <1>1, <1>2, <2>1
<1>3. CASE AboutToEmit(r) = {emitted[r]}
  <2>1. Cardinality(AboutToEmit(r)) = 1
    BY <1>3, FS_Singleton
  <2>. QED  BY <1>1, <1>3, <2>1
<1>. QED  BY <1>1, <1>2, <1>3 DEF AboutToEmit

(* Gone after a step that adds nothing to the channel, or one unit.         *)
LEMMA GoneStep ==
    ASSUME TypeInv, current # 0
    PROVE  /\ history'.sent = history.sent => Gone' = Gone
           /\ \A n \in Nat : history'.sent = Append(history.sent, n) => Gone' = Gone \cup {n}
<1>1. history.sent \in Seq(Nat)
  BY StageTypes
<1>2. \A n \in Nat : ToSet(Append(history.sent, n)) = ToSet(history.sent) \cup {n}
  BY <1>1, SequenceSets
<1>. QED  BY <1>2 DEF Gone

LEMMA OrderStep == StructureInv /\ OrderInv /\ [Next]_vars => OrderInv'
<1>. SUFFICES ASSUME StructureInv, OrderInv, [Next]_vars PROVE OrderInv'
  OBVIOUS
<1>1. CASE ~ (current # 0 /\ current' = current)
  <2>1. /\ history'.sent = <<>>
        /\ current' # 0 => /\ Held' = {} /\ Queued' = {}
                           /\ Coming' = AboutToEmit(created)
                           /\ current' = created /\ emitted' = emitted
                           /\ queue'[current'] = <<>>
    BY <1>1, Boundaries
  <2>2. Gone' = {} /\ Increasing(history'.sent)
    BY <2>1 DEF Gone, ToSet, Increasing
  <2>3. ASSUME current' # 0
        PROVE  /\ QueueOrdered'
               /\ Below(Gone', Held') /\ Below(Gone' \cup Held', Queued')
               /\ Below(Gone' \cup Held' \cup Queued', Coming')
               /\ \A n \in Trail' : n <= emitted'[current']
    <3>1. QueueOrdered'
      BY <2>1, <2>3 DEF QueueOrdered, Ordered
    <3>2. Trail' = AboutToEmit(created)
      BY <2>1, <2>2, <2>3 DEF Trail
    <3>3. created \in Runtimes
      BY <2>1, <2>3, Ranges, OutputAssumption DEF StructureInv, TypeInv, Runtimes
    <3>4. \A n \in Trail' : n <= emitted'[current']
      BY <2>1, <2>3, <3>2, <3>3, AtRegistration
    <3>. QED  BY <2>1, <2>2, <2>3, <3>1, <3>4 DEF Below
  <2>. QED  BY <2>1, <2>2, <2>3 DEF OrderInv, Increasing, Below
<1>2. CASE current # 0 /\ current' = current
  <2>1. /\ Increasing(history.sent) /\ QueueOrdered
        /\ Below(Gone, Held) /\ Below(Gone \cup Held, Queued)
        /\ Below(Gone \cup Held \cup Queued, Coming)
        /\ \A n \in Gone \cup Held \cup Queued \cup Coming : n <= emitted[current]
    BY <1>2 DEF OrderInv, Trail
  <2>2. /\ history.sent \in Seq(Nat) /\ emitted[current] \in Nat
        /\ Gone \subseteq Nat /\ Held \subseteq Nat /\ Queued \subseteq Nat /\ Coming \subseteq Nat
    BY <1>2, StageTypes DEF StructureInv
  <2>3. SUFFICES /\ Increasing(history'.sent) /\ QueueOrdered'
                 /\ Below(Gone', Held') /\ Below(Gone' \cup Held', Queued')
                 /\ Below(Gone' \cup Held' \cup Queued', Coming')
                 /\ \A n \in Gone' \cup Held' \cup Queued' \cup Coming' : n <= emitted'[current]
    BY <1>2 DEF OrderInv, Trail, Increasing, Below
  <2>4. history'.sent = history.sent => Gone' = Gone /\ Increasing(history'.sent)
    BY <1>2, <2>1, GoneStep DEF StructureInv
  <2>5. CASE Stays
    BY <2>1, <2>4, <2>5 DEF Stays, SameRecord
  <2>6. CASE Prints
    <3>1. \A n \in Gone \cup Held \cup Queued : n \in Nat /\ n <= emitted[current]
      BY <2>1, <2>2
    <3>2. /\ Gone' = Gone /\ Held' = Held /\ Queued' = Queued /\ Coming' = {emitted[current] + 1}
          /\ Increasing(history'.sent) /\ QueueOrdered' /\ emitted'[current] = emitted[current] + 1
      BY <2>1, <2>4, <2>6 DEF Prints, SameRecord
    <3>3. Below(Gone \cup Held \cup Queued, {emitted[current] + 1})
      BY <2>2, <3>1 DEF Below
    <3>4. \A n \in Gone \cup Held \cup Queued \cup {emitted[current] + 1} : n <= emitted[current] + 1
      BY <2>2, <3>1
    <3>. QED  BY <2>1, <3>2, <3>3, <3>4
  <2>7. CASE Enqueues
    <3>1. Below(Queued, Coming) /\ Below(Gone \cup Held, Queued \cup Coming)
      BY <2>1 DEF Below
    <3>. QED  BY <2>1, <2>4, <2>7, <3>1 DEF Enqueues, SameRecord, Below
  <2>8. CASE Takes
    <3>1. Below(Gone, Held') /\ Below(Gone \cup Held', Queued')
      BY <2>1, <2>8 DEF Takes, Below
    <3>. QED  BY <2>1, <2>4, <2>8, <3>1 DEF Takes, SameRecord, Below
  <2>9. CASE Sends
    <3>1. Held' = {} /\ Queued' = Queued /\ Coming' = Coming /\ QueueOrdered'
          /\ emitted'[current] = emitted[current]
      BY <2>1, <2>9 DEF Sends
    <3>2. Increasing(history'.sent) /\ Gone' \subseteq Gone \cup Held
      <4>1. CASE history'.sent = history.sent
        BY <2>4, <4>1
      <4>2. ASSUME NEW n \in Nat, Held = {n}, history'.sent = Append(history.sent, n)
            PROVE  Increasing(history'.sent) /\ Gone' \subseteq Gone \cup Held
        <5>1. \A m \in ToSet(history.sent) : m < n
          BY <2>1, <4>2 DEF Below, Gone
        <5>. QED  BY <1>2, <2>1, <2>2, <4>2, <5>1, AppendIncreasing, GoneStep DEF StructureInv
      <4>. QED  BY <2>9, <4>1, <4>2 DEF Sends
    <3>. QED  BY <2>1, <3>1, <3>2 DEF Below
  <2>10. CASE Drops
    BY <2>1, <2>4, <2>10 DEF Drops, Below
  <2>. QED  BY <1>2, <2>5, <2>6, <2>7, <2>8, <2>9, <2>10, Stages
<1>. QED  BY <1>1, <1>2

(* What a step does to the trail as long as nothing is dropped.             *)
LEMMA TrailStep ==
    ASSUME StructureInv, [Next]_vars, current # 0, current' = current, ~ history'.lost
    PROVE  /\ ~ history.lost /\ history'.missed = history.missed
           /\ Trail \subseteq Trail'
           /\ \/ emitted'[current] = emitted[current]
              \/ emitted'[current] = emitted[current] + 1 /\ emitted[current] + 1 \in Trail'
<1>1. /\ history'.sent = history.sent => Gone' = Gone
      /\ \A n \in Nat : history'.sent = Append(history.sent, n) => Gone' = Gone \cup {n}
  BY GoneStep DEF StructureInv
<1>2. CASE Stays
  BY <1>1, <1>2 DEF Stays, SameRecord, Trail
<1>3. CASE Prints
  BY <1>1, <1>3 DEF Prints, SameRecord, Trail
<1>4. CASE Enqueues
  BY <1>1, <1>4 DEF Enqueues, SameRecord, Trail
<1>5. CASE Takes
  BY <1>1, <1>5 DEF Takes, SameRecord, Trail
<1>6. CASE Sends
  BY <1>1, <1>6 DEF Sends, Trail
<1>7. CASE Drops
  BY <1>7 DEF Drops
<1>. QED  BY <1>2, <1>3, <1>4, <1>5, <1>6, <1>7, Stages

LEMMA LossStep == StructureInv /\ OrderInv /\ LossInv /\ [Next]_vars => LossInv'
<1>. SUFFICES ASSUME StructureInv, OrderInv, LossInv, [Next]_vars, Intact'
              PROVE  history'.missed + 1 .. emitted'[current'] \subseteq Trail'
  BY DEF LossInv
<1>0. current' # 0 /\ ~ history'.lost
  BY DEF Intact
<1>1. CASE ~ (current # 0 /\ current' = current)
  <2>1. /\ Coming' = AboutToEmit(created)
        /\ current' = created /\ emitted' = emitted
        /\ history' = Fresh(emitted[created] - Cardinality(AboutToEmit(created)))
    BY <1>0, <1>1, Boundaries
  <2>2. created \in Runtimes
    BY <1>0, <2>1, Ranges, OutputAssumption DEF StructureInv, TypeInv, Runtimes
  <2>3. history'.missed = emitted[created] - Cardinality(AboutToEmit(created))
    BY <2>1 DEF Fresh
  <2>. QED  BY <2>1, <2>2, <2>3, AtRegistration DEF Trail
<1>2. CASE current # 0 /\ current' = current
  <2>1. emitted[current] \in Nat /\ history.missed \in Int
    BY <1>2, StageTypes DEF StructureInv, TypeInv, History
  <2>2. /\ ~ history.lost /\ history'.missed = history.missed
        /\ Trail \subseteq Trail'
        /\ \/ emitted'[current] = emitted[current]
           \/ emitted'[current] = emitted[current] + 1 /\ emitted[current] + 1 \in Trail'
    BY <1>0, <1>2, TrailStep
  <2>3. history.missed + 1 .. emitted[current] \subseteq Trail
    BY <1>2, <2>2 DEF LossInv, Intact
  <2>. QED  BY <1>2, <2>1, <2>2, <2>3
<1>. QED  BY <1>1, <1>2
------------------------------------------------------------------------------
(* The scrollback that is sent again: units the channel has got that way,   *)
(* and those that the sender thread, the queue and the receive thread hold. *)
AgainUnit(c, n) == c.session = current /\ c.kind = "replay" /\ n \in ToSet(c.units)

Again ==
    history.resent
        \cup {n \in Nat : \/ AgainUnit(sender[current].chunk, n)
                          \/ \E c \in ToSet(queue[current]) : AgainUnit(c, n)
                          \/ \E c \in ToSet(putting[Receiver].chunks) : AgainUnit(c, n)}

ReplayInv == Intact /\ history.replayed => ToSet(scrollback[current]) \subseteq Trail \cup Again

LEMMA PutAgain ==
    ASSUME StructureInv, current # 0, NEW p \in Producers, PutStep(p), ~ history'.lost
    PROVE  history' = history /\ Again \subseteq Again'
<1>. USE DEF StructureInv
<1>. DEFINE to == putting[p].to
            cs == putting[p].chunks
<1>1. /\ UNCHANGED <<current, sender>> /\ cs # <<>> /\ cs \in Seq(ChunkType)
      /\ current \in Runtimes /\ to \in Runtimes
      /\ queue[to] \in Seq(ChunkType) /\ Head(cs) \in ChunkType
  BY PutEffect, PutTarget, Ranges DEF PutUnchanged, serverVars, sessionVars
<1>2. Loses(to) => to # current /\ history' = history
  BY LossyTypes DEF Loses, TypeInv
<1>3. history' = history
  BY <1>2, PutEffect
<1>4. SUFFICES ASSUME NEW n \in Nat, NEW c, AgainUnit(c, n),
                      c \in ToSet(queue[current]) \cup ToSet(putting[Receiver].chunks)
               PROVE  c \in ToSet(queue'[current]) \cup ToSet(putting'[Receiver].chunks)
  BY <1>1, <1>3 DEF Again, AgainUnit
<1>5. c \in ToSet(cs) /\ p = Receiver => to = current
  BY <1>4 DEF AgainUnit, CallInv
<1>6. c \in ToSet(cs) => p = Receiver
  <2>1. CASE p \in Runtimes
    BY <1>4, <2>1 DEF AgainUnit, CallInv
  <2>. QED  BY <2>1, Ranges
<1>7. p # Receiver => putting'[Receiver].chunks = putting[Receiver].chunks
  BY Ranges, PutEffect DEF PutResult
<1>8. CASE /\ PutResult(p, to, Tail(cs), "put")
           /\ queue' = [queue EXCEPT ![to] = Append(@, Head(cs))]
  <2>1. ToSet(cs) = {Head(cs)} \cup ToSet(Tail(cs))
    BY <1>1, SequenceSets
  <2>2. /\ ToSet(Append(queue[to], Head(cs))) = ToSet(queue[to]) \cup {Head(cs)}
    BY <1>1, SequenceSets
  <2>3. /\ ToSet(queue[current]) \subseteq ToSet(queue'[current])
        /\ to = current => Head(cs) \in ToSet(queue'[current])
    BY <1>1, <1>8, <2>2 DEF TypeInv
  <2>4. p = Receiver => putting'[Receiver].chunks = Tail(cs)
    BY <1>8 DEF PutResult
  <2>. QED  BY <1>4, <1>5, <1>7, <2>1, <2>3, <2>4
<1>9. CASE PutResult(p, to, cs, "drop") /\ queue' = queue
  BY <1>4, <1>7, <1>9 DEF PutResult
<1>10. CASE Loses(to)
  <2>1. p # Receiver \/ cs = <<>> \/ c \notin ToSet(cs)
    BY <1>2, <1>5, <1>10
  <2>2. queue'[current] = queue[current]
    BY <1>1, <1>2, <1>10, PutMoves
  <2>. QED  BY <1>1, <1>4, <1>7, <2>1, <2>2
<1>. QED  BY <1>8, <1>9, <1>10, PutEffect

LEMMA SenderAgain ==
    ASSUME StructureInv, current # 0, NEW r \in Runtimes, SenderStep(r), ~ history'.lost
    PROVE  history'.replayed = history.replayed /\ Again \subseteq Again'
<1>. USE DEF StructureInv
<1>. DEFINE c == sender[r].chunk
<1>1. /\ UNCHANGED <<current, putting>>
      /\ current \in Runtimes /\ c \in ChunkType /\ queue[r] \in Seq(ChunkType)
  <2>1. UNCHANGED <<current, putting>>
    BY DEF SenderStep, Get, SenderEnds, Send, SendFails, NoChannel, serverVars, sessionVars
  <2>. QED  BY <2>1, Ranges
<1>2. CASE Get(r)
  <2>1. /\ sender[r].pc = "get" /\ queue[r] # <<>> /\ history' = history
        /\ queue' = [queue EXCEPT ![r] = Tail(@)]
        /\ sender' = [sender EXCEPT ![r] = [pc |-> "send", chunk |-> Head(queue[r])]]
    BY <1>2 DEF Get, SenderIs
  <2>2. CASE r # current
    BY <1>1, <2>1, <2>2 DEF Again, AgainUnit, TypeInv
  <2>3. CASE r = current
    <3>1. sender'[current].chunk = Head(queue[current]) /\ queue'[current] = Tail(queue[current])
      BY <1>1, <2>1, <2>3 DEF TypeInv
    <3>2. ToSet(queue[current]) = {Head(queue[current])} \cup ToSet(Tail(queue[current]))
      BY <1>1, <2>1, <2>3, SequenceSets
    <3>3. sender[current].chunk.kind = "none"
      BY <1>1, <2>1, <2>3 DEF CallInv
    <3>. QED  BY <1>1, <2>1, <3>1, <3>2, <3>3 DEF Again, AgainUnit
  <2>. QED  BY <2>2, <2>3
<1>3. CASE SenderEnds(r) \/ Send(r)
  <2>1. /\ queue' = queue
        /\ sender' = [sender EXCEPT ![r] = SenderAt(LoopTest(r))]
        /\ history' = history \/ history' = HandOver(c)
        /\ history' = HandOver(c) \/ c.kind = "none"
    BY <1>3 DEF SenderEnds, Send, SenderIs, CallInv
  <2>2. /\ history'.replayed = history.replayed /\ history'.lost = history.lost
        /\ history.resent \subseteq history'.resent
        /\ c.session = current /\ c.kind = "replay" => ToSet(c.units) \subseteq history'.resent
    BY <1>1, <2>1, HandOverEffect
  <2>3. r = current \/ sender'[current] = sender[current]
    BY <1>1, <2>1 DEF TypeInv
  <2>. QED  BY <1>1, <2>1, <2>2, <2>3 DEF Again, AgainUnit
<1>4. CASE SendFails(r)
  <2>1. \E h \in History : history' = Lossy(h)
    BY <1>1, <1>4, HandOverEffect DEF SendFails, TypeInv
  <2>. QED  BY <2>1, LossyTypes
<1>5. CASE NoChannel(r)
  BY <1>5 DEF NoChannel
<1>. QED  BY <1>2, <1>3, <1>4, <1>5 DEF SenderStep
LEMMA ReplayStep == StructureInv /\ OrderInv /\ ReplayInv /\ [Next]_vars => ReplayInv'
<1>. SUFFICES ASSUME StructureInv, OrderInv, ReplayInv, [Next]_vars, Intact', history'.replayed
              PROVE  ToSet(scrollback'[current']) \subseteq Trail' \cup Again'
  BY DEF ReplayInv
<1>. USE DEF StructureInv
<1>0. current' # 0 /\ ~ history'.lost
  BY DEF Intact
<1>1. CASE ~ (current # 0 /\ current' = current)
  <2>1. history'.replayed = FALSE
    BY <1>0, <1>1, Boundaries DEF Fresh
  <2>. QED  BY <2>1
<1>2. CASE current # 0 /\ current' = current
  <2>1. /\ current \in Runtimes /\ scrollback[current] \in Seq(Nat) /\ emitted[current] \in Nat
        /\ Receiver \in Producers
    BY <1>2, Ranges DEF TypeInv
  <2>2. /\ ~ history.lost
        /\ Trail \subseteq Trail'
        /\ \/ emitted'[current] = emitted[current]
           \/ emitted'[current] = emitted[current] + 1 /\ emitted[current] + 1 \in Trail'
    BY <1>0, <1>2, TrailStep
  <2>3. history.replayed => ToSet(scrollback[current]) \subseteq Trail \cup Again
    BY <1>2, <2>2 DEF ReplayInv, Intact
  <2>4. ASSUME history'.replayed = history.replayed, Again \subseteq Again',
               \/ scrollback'[current] = scrollback[current]
               \/ ToSet(scrollback'[current]) \subseteq ToSet(scrollback[current]) \cup Trail'
        PROVE  ToSet(scrollback'[current']) \subseteq Trail' \cup Again'
    BY <1>2, <2>2, <2>3, <2>4
  <2>5. CASE Roam
    <3>1. /\ BeginPut(Receiver, Replay(current)) /\ UNCHANGED <<scrollback, queue, sender>>
      BY <2>5 DEF Roam, sessionVars
    <3>2. /\ Replay(current) \in Seq(ChunkType)
          /\ \A c \in ToSet(Replay(current)) : c.session = current /\ c.kind = "replay"
          /\ \A n \in ToSet(scrollback[current]) : \E c \in ToSet(Replay(current)) : n \in ToSet(c.units)
      BY <2>1, ReplayTypes
    <3>3. putting'[Receiver].chunks = Replay(current)
      BY <1>2, <2>1, <3>1, <3>2, BeginPutEffect
    <3>4. ToSet(scrollback[current]) \subseteq Nat
      BY <2>1, SequenceSets
    <3>. QED  BY <1>2, <3>1, <3>2, <3>3, <3>4 DEF Again, AgainUnit
  <2>6. CASE AnswerInfo
    <3>1. /\ recv = "idle" /\ UNCHANGED <<scrollback, queue, sender, history>>
      BY <2>6 DEF AnswerInfo, TakePacket, sessionVars
    <3>2. ToSet(putting[Receiver].chunks) = {}
      BY <3>1 DEF CallInv, ToSet
    <3>. QED  BY <1>2, <2>4, <3>1, <3>2 DEF Again, AgainUnit
  <2>7. ASSUME NEW p \in Producers, PutStep(p)
        PROVE  ToSet(scrollback'[current']) \subseteq Trail' \cup Again'
    <3>1. scrollback' = scrollback
      BY <2>7, PutEffect DEF PutUnchanged, sessionVars
    <3>. QED  BY <1>0, <1>2, <2>4, <2>7, <3>1, PutAgain
  <2>8. ASSUME NEW r \in Runtimes, SenderStep(r)
        PROVE  ToSet(scrollback'[current']) \subseteq Trail' \cup Again'
    <3>1. scrollback' = scrollback
      BY <2>8 DEF SenderStep, Get, SenderEnds, Send, SendFails, NoChannel, sessionVars
    <3>. QED  BY <1>0, <1>2, <2>4, <2>8, <3>1, SenderAgain
  <2>9. ASSUME NEW r \in Runtimes, Read(r)
        PROVE  ToSet(scrollback'[current']) \subseteq Trail' \cup Again'
    <3>1. /\ UNCHANGED <<queue, sender, putting, history>>
          /\ emitted' = [emitted EXCEPT ![r] = @ + 1]
          /\ scrollback' = [scrollback EXCEPT ![r] = Remembered(r, emitted'[r])]
      BY <2>9 DEF Read
    <3>2. Again' = Again
      BY <1>2, <3>1 DEF Again, AgainUnit
    <3>3. CASE r # current
      <4>1. scrollback'[current] = scrollback[current]
        BY <2>1, <3>1, <3>3 DEF TypeInv
      <4>. QED  BY <2>4, <3>1, <3>2, <4>1
    <3>4. CASE r = current
      <4>. DEFINE n == emitted[current] + 1
                  s == Append(scrollback[current], n)
      <4>1. emitted'[current] = n /\ n # emitted[current] /\ n \in Nat
        BY <2>1, <3>1, <3>4 DEF TypeInv
      <4>2. scrollback'[current] \in {s, Tail(s)}
        BY <2>1, <3>1, <3>4, <4>1 DEF TypeInv, Remembered
      <4>3. /\ s \in Seq(Nat) /\ s # <<>>
            /\ ToSet(s) = ToSet(scrollback[current]) \cup {n}
        BY <2>1, <4>1, SequenceSets
      <4>. HIDE DEF s
      <4>4. ToSet(Tail(s)) \subseteq ToSet(s)
        BY <4>3, SequenceSets
      <4>5. n \in Trail'
        BY <2>2, <4>1
      <4>. QED  BY <2>4, <3>1, <3>2, <4>2, <4>3, <4>4, <4>5
    <3>. QED  BY <3>3, <3>4
  <2>10. ASSUME NEW r \in Runtimes, Emit(r) \/ ReaderEnds(r)
         PROVE  ToSet(scrollback'[current']) \subseteq Trail' \cup Again'
    <3>1. /\ UNCHANGED <<queue, sender, history, scrollback>>
          /\ \E call : putting' = [putting EXCEPT ![r] = call]
      BY <2>10 DEF Emit, ReaderEnds, BeginPut
    <3>2. putting'[Receiver] = putting[Receiver]
      BY <3>1, Ranges DEF TypeInv
    <3>. QED  BY <1>2, <2>4, <3>1, <3>2 DEF Again, AgainUnit
  <2>11. ASSUME UNCHANGED <<scrollback, queue, sender, putting, history>>
         PROVE  ToSet(scrollback'[current']) \subseteq Trail' \cup Again'
    BY <1>2, <2>4, <2>11 DEF Again, AgainUnit
  <2>12. ~ CreateRuntime /\ ~ Register /\ ~ Pop
    BY <1>2, Ranges DEF CreateRuntime, Register, Pop
  <2>13. CASE Handled \/ (\E r \in Runtimes : SetStops(r) \/ ReaderGoesOn(r)) \/ UNCHANGED vars
    BY <2>11, <2>13 DEF Handled, SetStops, ReaderGoesOn, vars, sessionVars
  <2>. QED
    BY <2>1, <2>5, <2>6, <2>7, <2>8, <2>9, <2>10, <2>12, <2>13, Ranges DEF Next, RecvStep, ReaderStep
<1>. QED  BY <1>1, <1>2
------------------------------------------------------------------------------
(* server.py:172-255: the structure of the calls and queues, the order of   *)
(* the live output, the trail it leaves and what a replay has brought or    *)
(* will bring are an invariant of the output path.                          *)
THEOREM OutputInvariant == Spec => [](StructureInv /\ OrderInv /\ LossInv /\ ReplayInv)
<1>1. Init => StructureInv /\ OrderInv /\ LossInv /\ ReplayInv
  <2>. SUFFICES ASSUME Init PROVE StructureInv /\ OrderInv /\ LossInv /\ ReplayInv
    OBVIOUS
  <2>1. current = 0 /\ history.sent = <<>>
    BY DEF Init, Fresh
  <2>. QED  BY <2>1, StructureInit DEF OrderInv, LossInv, ReplayInv, Intact
<1>2. /\ StructureInv /\ OrderInv /\ LossInv /\ ReplayInv
      /\ [Next]_vars
      => (StructureInv /\ OrderInv /\ LossInv /\ ReplayInv)'
  BY StructureStep, OrderStep, LossStep, ReplayStep
<1>. QED  BY <1>1, <1>2, PTL DEF Spec

(* server.py:217-231, 235-255: the live output of the current session       *)
(* reaches its channel in the order of printing and no more than once.      *)
THEOREM OutputInOrder == Spec => []LiveOutputInOrder
<1>1. StructureInv /\ OrderInv => LiveOutputInOrder
  BY DEF OrderInv, Increasing, LiveOutputInOrder
<1>. QED  BY <1>1, OutputInvariant, PTL

(* The trail, in the words of the property: what is queued, held or about   *)
(* to be put is under way to the runtime.                                   *)
LEMMA TrailUnderWay ==
    ASSUME StructureInv, current # 0
    PROVE  Trail \subseteq
               ToSet(history.sent) \cup UnitsUnderWay(current, {"live"}) \cup AboutToEmit(current)
<1>1. ASSUME NEW c, NEW n, LiveUnit(current, c, n),
             \/ c = sender[current].chunk
             \/ c \in ToSet(queue[current])
             \/ c \in ToSet(putting[current].chunks)
      PROVE  n \in UnitsUnderWay(current, {"live"})
  <2>1. current \in Producers
    BY Ranges DEF StructureInv
  <2>2. c \in UnderWay(current)
    BY <1>1, <2>1, NoOthers DEF UnderWay
  <2>. QED  BY <1>1, <2>2 DEF UnitsUnderWay, LiveUnit
<1>. QED  BY <1>1 DEF Trail, Gone, Held, Queued, Coming

(* server.py:217-255: live output is lost at a full queue and by a failed   *)
(* send, and nowhere else once the runtime is registered.                   *)
THEOREM NothingLostSilently == Spec => []NoSilentLoss
<1>1. StructureInv /\ LossInv => NoSilentLoss
  BY TrailUnderWay DEF LossInv, NoSilentLoss, Intact
<1>. QED  BY <1>1, OutputInvariant, PTL

(* server.py:176-183: as long as nothing is dropped, sending the scrollback *)
(* again leaves no gap between what the client gets and what follows.       *)
THEOREM ReplayLeavesNoGap == Spec => []ReplayClosesGap
<1>1. StructureInv /\ ReplayInv => ReplayClosesGap
  <2>. SUFFICES ASSUME StructureInv, ReplayInv, Intact, history.replayed
                PROVE  ToSet(scrollback[current]) \subseteq
                           ToSet(history.sent) \cup history.resent
                               \cup UnitsUnderWay(current, {"live", "replay"}) \cup AboutToEmit(current)
    BY DEF ReplayClosesGap
  <2>1. current # 0 /\ ToSet(scrollback[current]) \subseteq Trail \cup Again
    BY DEF ReplayInv, Intact
  <2>2. UnitsUnderWay(current, {"live"}) \subseteq UnitsUnderWay(current, {"live", "replay"})
    BY DEF UnitsUnderWay
  <2>3. ASSUME NEW c, NEW n, AgainUnit(c, n),
               \/ c = sender[current].chunk
               \/ c \in ToSet(queue[current])
               \/ c \in ToSet(putting[Receiver].chunks)
        PROVE  n \in UnitsUnderWay(current, {"live", "replay"})
    <3>1. c \in ToSet(putting[Receiver].chunks) => putting[Receiver].to = current
      BY <2>3 DEF StructureInv, CallInv, AgainUnit
    <3>2. c \in UnderWay(current)
      BY <2>3, <3>1, Ranges DEF UnderWay, StructureInv
    <3>. QED  BY <2>3, <3>2 DEF UnitsUnderWay, AgainUnit
  <2>4. Again \subseteq history.resent \cup UnitsUnderWay(current, {"live", "replay"})
    BY <2>3 DEF Again
  <2>. QED  BY <2>1, <2>2, <2>4, TrailUnderWay
<1>. QED  BY <1>1, OutputInvariant, PTL
------------------------------------------------------------------------------
(* The limits: of the queues, of the scrollback, and of the model's runs.   *)

SizeInv ==
    /\ reads \in 0..MaxUnits /\ packets \in 0..MaxPackets
    /\ \A r \in Runtimes :
          /\ emitted[r] <= reads
          /\ Len(scrollback[r]) <= ScrollbackSize
          /\ Len(queue[r]) <= QueueSize

LEMMA SizeInit == Init => SizeInv
<1>. SUFFICES ASSUME Init PROVE SizeInv
  OBVIOUS
<1>1. {QueueSize, ScrollbackSize, MaxUnits, MaxPackets} \subseteq Nat
  BY OutputAssumption
<1>. QED  BY <1>1 DEF Init, SizeInv

(* _scrollback is a deque with a maxlen.                                    *)
LEMMA RememberedFits ==
    ASSUME TypeInv, SizeInv, NEW r \in Runtimes, NEW n \in Nat
    PROVE  Len(Remembered(r, n)) <= ScrollbackSize
<1>. DEFINE s == Append(scrollback[r], n)
<1>1. ScrollbackSize \in Nat \ {0} /\ scrollback[r] \in Seq(Nat) /\ Len(scrollback[r]) <= ScrollbackSize
  BY OutputAssumption DEF TypeInv, SizeInv
<1>2. s \in Seq(Nat) /\ Len(s) = Len(scrollback[r]) + 1 /\ s # <<>>
  BY <1>1
<1>. HIDE DEF s
<1>3. Len(Tail(s)) = Len(s) - 1
  BY <1>2
<1>. QED  BY <1>1, <1>2, <1>3 DEF Remembered, s

LEMMA PutSizes ==
    ASSUME TypeInv, SizeInv, NEW p \in Producers, PutStep(p)
    PROVE  SizeInv'
<1>. DEFINE to == putting[p].to
            cs == putting[p].chunks
<1>0. /\ PutUnchanged /\ cs # <<>> /\ to \in Runtimes /\ queue[to] \in Seq(ChunkType)
      /\ Head(cs) \in ChunkType /\ QueueSize \in Nat
  BY PutEffect, PutTarget, OutputAssumption
<1>1. \A r \in Runtimes : Len(queue'[r]) <= QueueSize
  <2>1. CASE PutNowait(p)
    <3>1. queue' = [queue EXCEPT ![to] = Append(@, Head(cs))] /\ Len(queue[to]) < QueueSize
      BY <2>1 DEF PutNowait, Enqueued, HasRoom
    <3>2. Len(Append(queue[to], Head(cs))) = Len(queue[to]) + 1 /\ Len(queue[to]) \in Nat
      BY <1>0
    <3>. QED  BY <1>0, <3>1, <3>2 DEF SizeInv, TypeInv
  <2>2. CASE Full(p) \/ FullAgain(p)
    BY <2>2 DEF Full, FullAgain, SizeInv
  <2>3. CASE DropOldest(p)
    <3>1. CASE queue[to] = <<>>
      BY <2>3, <3>1 DEF DropOldest, SizeInv
    <3>2. CASE queue[to] # <<>>
      <4>1. queue' = [queue EXCEPT ![to] = Tail(@)]
        BY <2>3, <3>2 DEF DropOldest
      <4>2. Len(Tail(queue[to])) = Len(queue[to]) - 1 /\ Len(queue[to]) \in Nat
        BY <1>0, <3>2
      <4>. QED  BY <1>0, <4>1, <4>2 DEF SizeInv, TypeInv
    <3>. QED  BY <3>1, <3>2
  <2>. QED  BY <2>1, <2>2, <2>3 DEF PutStep
<1>. QED  BY <1>0, <1>1 DEF PutUnchanged, serverVars, sessionVars, SizeInv

LEMMA SizeStep == TypeInv /\ SizeInv /\ [Next]_vars => SizeInv'
<1>. SUFFICES ASSUME TypeInv, SizeInv, [Next]_vars PROVE SizeInv'
  OBVIOUS
<1>0. {MaxUnits, MaxPackets, ScrollbackSize, QueueSize} \subseteq Nat
  BY OutputAssumption
<1>1. CASE RecvStep /\ ~ PutStep(Receiver)
  BY <1>1 DEF RecvStep, Register, Handled, SizeInv, sessionVars
<1>2. CASE Roam \/ AnswerInfo
  <2>1. packets' \in 0..MaxPackets
    BY <1>0, <1>2 DEF Roam, AnswerInfo, TakePacket, SizeInv
  <2>. QED  BY <1>2, <2>1 DEF Roam, AnswerInfo, SizeInv, sessionVars
<1>3. CASE CreateRuntime \/ Pop
  BY <1>3 DEF CreateRuntime, Pop, SizeInv, sessionVars
<1>4. ASSUME NEW p \in Producers, PutStep(p) PROVE SizeInv'
  BY <1>4, PutSizes
<1>5. ASSUME NEW r \in Runtimes, Read(r) PROVE SizeInv'
  <2>1. /\ reads' = reads + 1 /\ reads' \in 0..MaxUnits /\ packets' = packets /\ queue' = queue
        /\ emitted' = [emitted EXCEPT ![r] = @ + 1]
        /\ scrollback' = [scrollback EXCEPT ![r] = Remembered(r, emitted'[r])]
    BY <1>0, <1>5 DEF Read, SizeInv, serverVars
  <2>2. emitted'[r] = emitted[r] + 1 /\ emitted[r] \in Nat /\ emitted'[r] \in Nat
    BY <2>1 DEF TypeInv
  <2>3. Len(Remembered(r, emitted'[r])) <= ScrollbackSize
    BY <2>2, RememberedFits
  <2>4. ASSUME NEW q \in Runtimes
        PROVE  emitted'[q] <= reads' /\ Len(scrollback'[q]) <= ScrollbackSize
    <3>1. emitted[q] \in Nat /\ emitted[q] <= reads /\ reads \in Nat
      BY <1>0 DEF TypeInv, SizeInv
    <3>2. CASE q = r
      BY <2>1, <2>2, <2>3, <3>1, <3>2 DEF TypeInv
    <3>3. CASE q # r
      BY <2>1, <3>1, <3>3 DEF TypeInv, SizeInv
    <3>. QED  BY <3>2, <3>3
  <2>. QED  BY <2>1, <2>4 DEF SizeInv
<1>6. ASSUME NEW r \in Runtimes, ReaderEnds(r) PROVE SizeInv'
  <2>1. reads' = reads + 1 /\ reads' \in 0..MaxUnits /\ reads \in Nat
        /\ UNCHANGED <<packets, emitted, scrollback, queue>>
    BY <1>0, <1>6 DEF ReaderEnds, SizeInv, serverVars
  <2>2. \A q \in Runtimes : emitted[q] \in Nat
    BY DEF TypeInv
  <2>. QED  BY <2>1, <2>2 DEF SizeInv
<1>7. ASSUME NEW r \in Runtimes, Emit(r) \/ ReaderGoesOn(r) \/ SetStops(r) PROVE SizeInv'
  BY <1>7 DEF Emit, ReaderGoesOn, SetStops, SizeInv, serverVars, sessionVars
<1>8. ASSUME NEW r \in Runtimes, Get(r) PROVE SizeInv'
  <2>1. /\ queue[r] # <<>> /\ queue' = [queue EXCEPT ![r] = Tail(@)]
        /\ UNCHANGED <<reads, packets, emitted, scrollback>>
    BY <1>8 DEF Get, serverVars, sessionVars
  <2>2. queue[r] \in Seq(ChunkType)
    BY DEF TypeInv
  <2>3. Len(Tail(queue[r])) = Len(queue[r]) - 1 /\ Len(queue[r]) \in Nat
    BY <2>1, <2>2
  <2>4. \A q \in Runtimes : Len(queue'[q]) <= QueueSize
    BY <1>0, <2>1, <2>3 DEF TypeInv, SizeInv
  <2>. QED  BY <2>1, <2>4 DEF SizeInv
<1>9. ASSUME NEW r \in Runtimes, SenderEnds(r) \/ Send(r) \/ SendFails(r) \/ NoChannel(r)
      PROVE  SizeInv'
  BY <1>9 DEF SenderEnds, Send, SendFails, NoChannel, SizeInv, serverVars, sessionVars
<1>10. CASE UNCHANGED vars
  BY <1>10 DEF vars, serverVars, sessionVars, SizeInv
<1>11. Receiver \in Producers /\ \A r \in Runtimes : r \in Producers
  BY DEF Producers
<1>. QED
  BY <1>1, <1>2, <1>3, <1>4, <1>5, <1>6, <1>7, <1>8, <1>9, <1>10, <1>11
     DEF Next, RecvStep, ReaderStep, SenderStep

(* The queues (server.py:197) and the scrollback (session.py:45) keep to    *)
(* their limits, and a call of _forward_output is for a runtime that was    *)
(* created.                                                                 *)
THEOREM OutputTypes == Spec => []TypeOK
<1>1. Init => SizeInv
  BY SizeInit
<1>2. StructureInv => TypeInv
  BY DEF StructureInv
<1>3. TypeInv /\ SizeInv /\ [Next]_vars => SizeInv'
  BY SizeStep
<1>4. TypeInv /\ SizeInv => TypeOK
  <2>. SUFFICES ASSUME TypeInv, SizeInv PROVE TypeOK
    OBVIOUS
  <2>1. created \in 0..MaxRuntimes /\ current \in 0..created /\ packets <= MaxPackets
    BY OutputAssumption DEF TypeInv, SizeInv
  <2>2. \A r \in Runtimes : emitted[r] <= MaxUnits
    <3>1. MaxUnits \in Nat /\ reads \in 0..MaxUnits
      BY OutputAssumption DEF SizeInv
    <3>2. \A r \in Runtimes : emitted[r] \in Nat /\ emitted[r] <= reads
      BY DEF TypeInv, SizeInv
    <3>. QED  BY <3>1, <3>2
  <2>3. \A p \in Producers : putting[p].to \in 0..created /\ putting[p].step \in {"put", "drop", "retry"}
    <3>1. \A p \in Producers : putting[p] \in Call /\ putting[p].to <= created
      BY DEF TypeInv
    <3>. QED  BY <3>1, <2>1 DEF Call
  <2>. QED  BY <2>1, <2>2, <2>3 DEF TypeOK, SizeInv
<1>. QED  BY <1>1, <1>2, <1>3, <1>4, OutputInvariant, PTL DEF Spec

(* server.py:92, 121-170: whatever the receive loop has handled, input did  *)
(* what the client meant or nothing at all.                                 *)
THEOREM InputIsWhole == Spec => []InputWholeOrNotAtAll
<1>1. InputWholeOrNotAtAll
  BY WholeOrNothing DEF InputWholeOrNotAtAll
<1>. QED  BY <1>1, PTL
==============================================================================
