------------------------ MODULE WindowsSessionProofs ------------------------
(***************************************************************************)
(* SessionInv is inductive, hence commands run one after the other where   *)
(* they were entered, with the exceptions CommandsAreSerial names and no   *)
(* others, for any number of commands, calls and directories.  And the     *)
(* history is kept as HistoryIsKept says, for all datagrams.               *)
(***************************************************************************)
EXTENDS WindowsSession, SequenceTheorems, WellFoundedInduction, TLAPS

(* Commands whose child may run beside a later one.                         *)
Excused == overtaken \cup replaced \cup cleared

(* A worker that is counted in commands was started, no other one was; the  *)
(* children are those of workers that are past Popen.                       *)
WorkersInv ==
    /\ \A w \in Commands : w > commands => worker[w] = "none"
    /\ \A w \in Commands : child[w] # "none" => worker[w] \notin {"none", "spawn"}
    /\ thread["recv"] \in {"run", "poll"} => commands < MaxCommands

(* The child that runs is the one in self.process, or it lost this place;   *)
(* so a command that is entered while it runs is refused.                   *)
PublishedInv ==
    \A w \in Commands : child[w] = "running" => w = process \/ w \in Excused

(* A command that has not been given to the system or whose child runs was  *)
(* overtaken, or lost its place, if a later one was started.                *)
SerialInv ==
    \A v, w \in Commands :
        v < w /\ worker[w] # "none" /\ (worker[v] = "spawn" \/ child[v] = "running") => v \in Excused

(* The directory does not change between a command and its worker, unless   *)
(* another command was run in between.                                      *)
DirectoryInv ==
    /\ \A w \in Commands : worker[w] = "spawn" => w \in overtaken \/ enteredIn[w] = cwd
    /\ strayed \subseteq overtaken

SessionInv == TypeOK /\ WorkersInv /\ PublishedInv /\ SerialInv /\ DirectoryInv

------------------------------------------------------------------------------
(* The command line is edited byte by byte: what a datagram leaves behind   *)
(* is defined by recursion over it.                                         *)

Bytes == Seq(STRING)
Lines == [buffer : Bytes, history : Seq(Bytes), historyIdx : Nat]

LEMMA NumbersByInduction ==
    ASSUME NEW S \in SUBSET Nat, 0 \in S, \A n \in S : n + 1 \in S
    PROVE  S = Nat
<1> DEFINE R == OpToRel(<, Nat)
<1>1. SUFFICES ASSUME Nat \ S # {} PROVE FALSE
  OBVIOUS
<1>2. IsWellFoundedOn(R, Nat)
  BY NatLessThanWellFounded
<1>3. \A x, y \in Nat : <<y, x>> \in R <=> y < x
  BY DEF OpToRel
<1> HIDE DEF R
<1>4. \E x \in Nat \ S : \A y \in Nat \ S : ~ (<<y, x>> \in R)
  BY <1>1, <1>2, WFMin
<1>5. PICK x \in Nat \ S : \A y \in Nat \ S : ~ (y < x)
  BY <1>3, <1>4, Zenon
<1>6. x # 0 /\ x - 1 \in S
  BY <1>5
<1> QED
  BY <1>5, <1>6

LEMMA LeastOf ==
    ASSUME NEW T \in SUBSET Nat, T # {}
    PROVE  Min(T) \in T /\ \A y \in T : Min(T) <= y
<1> DEFINE R == OpToRel(<, Nat)
<1>1. \A x, y \in Nat : <<y, x>> \in R <=> y < x
  BY DEF OpToRel
<1>2. IsWellFoundedOn(R, Nat)
  BY NatLessThanWellFounded
<1> HIDE DEF R
<1>3. \E x \in T : \A y \in T : ~ (<<y, x>> \in R)
  BY <1>2, WFMin
<1>4. PICK x \in T : \A y \in T : ~ (y < x)
  BY <1>1, <1>3
<1>5. \A y \in T : x <= y
  BY <1>4
<1> QED
  BY <1>5 DEF Min

LEMMA GreatestOf ==
    ASSUME NEW n \in Nat, NEW T \in SUBSET (1..n), T # {}
    PROVE  Max(T) \in T /\ \A y \in T : y <= Max(T)
<1> DEFINE D == {n - y : y \in T}
<1>0. \A y \in T : y \in 1..n /\ n - y \in Nat
  OBVIOUS
<1>1. D \subseteq Nat /\ D # {}
  BY <1>0
<1>2. Min(D) \in D /\ \A z \in D : Min(D) <= z
  BY <1>1, LeastOf
<1>3. PICK m \in D : \A z \in D : m <= z
  BY <1>2
<1>4. PICK x \in T : m = n - x
  OBVIOUS
<1>5. \A y \in T : n - y \in D
  OBVIOUS
<1> HIDE DEF D
<1>6. ASSUME NEW y \in T
      PROVE  x >= y
  <2>1. n - x <= n - y
    BY <1>3, <1>4, <1>5
  <2> QED
    BY <1>0, <2>1
<1> QED
  BY <1>6 DEF Max

(* What values are taken by turns, each a function of the one before and of *)
(* its place, there is a function of the places that has them.              *)
Follows(f, start, F, m) ==
    f = [n \in 0..m |-> IF n = 0 THEN start ELSE F[<<n, f[n - 1]>>]]

LEMMA FollowsOn ==
    ASSUME NEW F, NEW start, NEW m \in Nat, NEW f, Follows(f, start, F, m),
           NEW g, g = [n \in 0 .. m + 1 |-> IF n = 0 THEN start ELSE F[<<n, f[n - 1]>>]]
    PROVE  Follows(g, start, F, m + 1)
<1>1. \A n \in 0..m : n \in 0 .. m + 1
  OBVIOUS
<1>2. \A n \in 0..m : f[n] = g[n]
  BY <1>1, Zenon DEF Follows
<1>3. ASSUME NEW n \in 0 .. m + 1
      PROVE  (IF n = 0 THEN start ELSE F[<<n, f[n - 1]>>]) = (IF n = 0 THEN start ELSE F[<<n, g[n - 1]>>])
  <2>1. CASE n = 0
    BY <2>1, Zenon
  <2>2. CASE n # 0
    <3>1. n - 1 \in 0..m
      BY <2>2
    <3>2. f[n - 1] = g[n - 1]
      BY <3>1, <1>2, Zenon
    <3> QED
      BY <3>2, Zenon
  <2> QED
    BY <2>1, <2>2, Zenon
<1> QED
  BY <1>3, Zenon DEF Follows

LEMMA FollowsInside ==
    ASSUME NEW V, NEW start \in V, NEW F \in [Nat \X V -> V], NEW m \in Nat, NEW f \in [0..m -> V],
           NEW g, g = [n \in 0 .. m + 1 |-> IF n = 0 THEN start ELSE F[<<n, f[n - 1]>>]]
    PROVE  g \in [0 .. m + 1 -> V]
<1>1. ASSUME NEW n \in 0 .. m + 1
      PROVE  (IF n = 0 THEN start ELSE F[<<n, f[n - 1]>>]) \in V
  <2>1. CASE n = 0
    BY <2>1, Zenon
  <2>2. CASE n # 0
    <3>1. n - 1 \in 0..m /\ n \in Nat
      BY <2>2
    <3>2. f[n - 1] \in V
      BY <3>1, Zenon
    <3>3. <<n, f[n - 1]>> \in Nat \X V
      BY <3>1, <3>2, Zenon
    <3>4. F[<<n, f[n - 1]>>] \in V
      BY <3>3, Zenon
    <3> QED
      BY <2>2, <3>4, Zenon
  <2> QED
    BY <2>1, <2>2, Zenon
<1> QED
  BY <1>1, Zenon

LEMMA SomeFollows ==
    ASSUME NEW V, NEW start \in V, NEW F \in [Nat \X V -> V]
    PROVE  \A m \in Nat : \E f \in [0..m -> V] : Follows(f, start, F, m)
<1> DEFINE S == {m \in Nat : \E f \in [0..m -> V] : Follows(f, start, F, m)}
<1>1. 0 \in S
  <2> DEFINE f == [n \in 0..0 |-> start]
  <2>1. f \in [0..0 -> V]
    OBVIOUS
  <2>2. \A n \in 0..0 : start = IF n = 0 THEN start ELSE F[<<n, f[n - 1]>>]
    OBVIOUS
  <2>3. f = [n \in 0..0 |-> IF n = 0 THEN start ELSE F[<<n, f[n - 1]>>]]
    BY <2>2, Zenon
  <2> HIDE DEF f
  <2>4. Follows(f, start, F, 0)
    BY <2>3, Zenon DEF Follows
  <2> QED
    BY <2>1, <2>4
<1>2. ASSUME NEW m \in S
      PROVE  m + 1 \in S
  <2>1. m \in Nat
    OBVIOUS
  <2>2. PICK f \in [0..m -> V] : Follows(f, start, F, m)
    OBVIOUS
  <2> DEFINE g == [n \in 0 .. m + 1 |-> IF n = 0 THEN start ELSE F[<<n, f[n - 1]>>]]
  <2>3. g = [n \in 0 .. m + 1 |-> IF n = 0 THEN start ELSE F[<<n, f[n - 1]>>]]
    OBVIOUS
  <2> HIDE DEF S, g
  <2>4. g \in [0 .. m + 1 -> V]
    BY <2>1, <2>2, <2>3, FollowsInside
  <2>5. Follows(g, start, F, m + 1)
    BY <2>1, <2>2, <2>3, FollowsOn, Zenon
  <2> QED
    BY <2>1, <2>4, <2>5 DEF S
<1> HIDE DEF S
<1>3. S \in SUBSET Nat
  BY DEF S
<1>4. S = Nat
  BY <1>1, <1>2, <1>3, NumbersByInduction
<1> QED
  BY <1>4 DEF S

LEMMA PlaceByPlace ==
    ASSUME NEW m \in Nat, NEW T, 0 \in T, \A i \in 1..m : i - 1 \in T => i \in T
    PROVE  \A i \in 0..m : i \in T
<1> DEFINE S == {i \in Nat : i <= m => i \in T}
<1>1. 0 \in S /\ S \in SUBSET Nat
  OBVIOUS
<1>2. \A i \in S : i + 1 \in S
  OBVIOUS
<1> HIDE DEF S
<1>3. S = Nat
  BY <1>1, <1>2, NumbersByInduction
<1> QED
  BY <1>3 DEF S

(* A datagram's backspaces and the rest of it.                              *)
Scans == [buffer : Bytes, text : Bytes]
TakenUpTo(f, buffer, d) ==
    f = [i \in 0 .. Len(d) |-> IF i = 0 THEN [buffer |-> buffer, text |-> <<>>]
                               ELSE TakeByte(f[i - 1], d[i])]

LEMMA Shortened ==
    ASSUME NEW b \in Bytes
    PROVE  SubSeq(b, 1, Len(b) - 1) \in Bytes
<1>1. Len(b) - 1 <= Len(b) /\ Len(b) \in Nat
  BY LenProperties DEF Bytes
<1> QED
  BY <1>1 DEF Bytes

LEMMA TakeByteScans ==
    ASSUME NEW s \in Scans, NEW b \in STRING
    PROVE  TakeByte(s, b) \in Scans
<1>1. s.buffer \in Bytes /\ s.text \in Bytes
  BY DEF Scans
<1>2. SubSeq(s.buffer, 1, Len(s.buffer) - 1) \in Bytes
  BY <1>1, Shortened
<1>3. Append(s.text, b) \in Bytes
  BY <1>1 DEF Bytes
<1> QED
  BY <1>2, <1>3 DEF Scans, TakeByte

LEMMA TakenScans ==
    ASSUME NEW buffer \in Bytes, NEW d \in Bytes
    PROVE  Taken(buffer, d) \in Scans
<1> DEFINE m == Len(d)
           start == [buffer |-> buffer, text |-> <<>>]
           F == [x \in Nat \X Scans |-> IF x[1] \in 1..m THEN TakeByte(x[2], d[x[1]]) ELSE x[2]]
<1>1. m \in Nat /\ \A i \in 1..m : d[i] \in STRING
  BY DEF Bytes
<1>2. F \in [Nat \X Scans -> Scans]
  BY <1>1, TakeByteScans
<1>3. ASSUME NEW i \in 1..m, NEW k \in Scans
      PROVE  F[<<i, k>>] = TakeByte(k, d[i])
  <2>1. i \in Nat /\ <<i, k>> \in Nat \X Scans /\ <<i, k>>[1] = i /\ <<i, k>>[2] = k
    BY <1>1
  <2> QED
    BY <2>1, Zenon
<1>4. start \in Scans
  BY DEF Scans, Bytes
<1> HIDE DEF F, start
<1>5. PICK f \in [0..m -> Scans] : Follows(f, start, F, m)
  BY <1>1, <1>2, <1>4, SomeFollows
<1>6. TakenUpTo(f, buffer, d)
  <2>1. \A i \in 0..m : i = 0 \/ (i \in 1..m /\ f[i - 1] \in Scans)
    BY <1>1
  <2>2. \A i \in 1..m : f[i - 1] \in Scans => F[<<i, f[i - 1]>>] = TakeByte(f[i - 1], d[i])
    BY <1>3, Zenon
  <2>3. \A i \in 0..m : (IF i = 0 THEN start ELSE F[<<i, f[i - 1]>>])
                        = IF i = 0 THEN start ELSE TakeByte(f[i - 1], d[i])
    BY <2>1, <2>2, Zenon
  <2> QED
    BY <1>5, <2>3, Zenon DEF TakenUpTo, Follows, start
<1> DEFINE t == CHOOSE g : TakenUpTo(g, buffer, d)
<1>7. Taken(buffer, d) = t[m]
  BY DEF Taken, TakenUpTo
<1>8. TakenUpTo(t, buffer, d)
  BY <1>6, Zenon
<1> HIDE DEF t
<1>9. t[0] = start /\ \A i \in 1..m : t[i] = TakeByte(t[i - 1], d[i])
  BY <1>1, <1>8 DEF TakenUpTo, start
<1> DEFINE T == {j \in 0..m : t[j] \in Scans}
<1>10. 0 \in T
  BY <1>1, <1>4, <1>9
<1>11. ASSUME NEW i \in 1..m, i - 1 \in T
       PROVE  i \in T
  <2>1. t[i - 1] \in Scans /\ d[i] \in STRING /\ t[i] = TakeByte(t[i - 1], d[i]) /\ i \in 0..m
    BY <1>1, <1>9, <1>11
  <2>2. t[i] \in Scans
    BY <2>1, TakeByteScans
  <2> QED
    BY <2>1, <2>2
<1> HIDE DEF T
<1>12. \A i \in 0..m : i \in T
  BY <1>1, <1>10, <1>11, PlaceByPlace
<1>13. m \in T
  BY <1>1, <1>12
<1> QED
  BY <1>7, <1>13 DEF T

LEMMA StripTypes ==
    ASSUME NEW s \in Bytes
    PROVE  Strip(s) \in Bytes
<1> DEFINE kept == {i \in DOMAIN s : s[i] # "nl"}
<1>1. Len(s) \in Nat /\ kept \in SUBSET (1 .. Len(s)) /\ kept \in SUBSET Nat
  BY LenProperties DEF Bytes
<1>2. Strip(s) = IF kept = {} THEN <<>> ELSE SubSeq(s, Min(kept), Max(kept))
  BY DEF Strip
<1> HIDE DEF kept
<1>3. CASE kept = {}
  BY <1>2, <1>3 DEF Bytes
<1>4. CASE kept # {}
  <2>1. Min(kept) \in 1 .. Len(s) /\ Max(kept) \in 1 .. Len(s)
    BY <1>1, <1>4, LeastOf, GreatestOf
  <2>2. PICK a \in 1 .. Len(s), b \in 1 .. Len(s) : a = Min(kept) /\ b = Max(kept)
    BY <2>1
  <2>3. SubSeq(s, a, b) \in Bytes
    BY <1>1 DEF Bytes
  <2> QED
    BY <1>2, <1>4, <2>2, <2>3
<1> QED
  BY <1>3, <1>4

LEMMA LineEndBounds ==
    ASSUME NEW text \in Bytes
    PROVE  LineEnd(text) \in 0 .. Len(text)
<1> DEFINE I == {i \in 1 .. Len(text) : text[i] = "nl"}
<1>1. Len(text) \in Nat
  BY LenProperties DEF Bytes
<1>2. LineEnd(text) = IF I # {} THEN Min(I) ELSE 0
  BY DEF LineEnd, SelectInSeq
<1>3. I # {} => Min(I) \in I
  BY <1>1, LeastOf
<1> QED
  BY <1>1, <1>2, <1>3

(* Types of what a datagram makes of the line, and of the command in it.    *)
LEMMA CommandTypes ==
    ASSUME NEW l \in Lines, NEW d \in Bytes
    PROVE  CommandIn(l, d) \in Bytes
<1> DEFINE taken == Taken(l.buffer, d)
<1>1. taken.buffer \in Bytes /\ taken.text \in Bytes
  BY TakenScans DEF Lines, Scans
<1>2. LineEnd(taken.text) \in 0 .. Len(taken.text) /\ Len(taken.text) \in Nat
  BY <1>1, LineEndBounds, LenProperties DEF Bytes
<1>3. CommandIn(l, d) = IF d \in {<<"up">>, <<"down">>} \/ LineEnd(taken.text) = 0 THEN <<>>
                        ELSE Strip(taken.buffer \o SubSeq(taken.text, 1, LineEnd(taken.text) - 1))
  BY DEF CommandIn
<1> HIDE DEF taken
<1>4. SubSeq(taken.text, 1, LineEnd(taken.text) - 1) \in Bytes
  BY <1>1, <1>2 DEF Bytes
<1>5. taken.buffer \o SubSeq(taken.text, 1, LineEnd(taken.text) - 1) \in Bytes
  BY <1>1, <1>4 DEF Bytes
<1>6. Strip(taken.buffer \o SubSeq(taken.text, 1, LineEnd(taken.text) - 1)) \in Bytes
  BY <1>5, StripTypes
<1>7. <<>> \in Bytes
  BY DEF Bytes
<1> QED
  BY <1>3, <1>6, <1>7

(* The history after a command was remembered: it is the newest, and equal  *)
(* to none next to it.                                                      *)
NoRepeat(h) == \A i \in 2 .. Len(h) : h[i] # h[i - 1]

LEMMA Remembered ==
    ASSUME NEW h \in Seq(Bytes), NEW c \in Bytes, NoRepeat(h)
    PROVE  /\ Remember(h, c) \in Seq(Bytes) /\ Len(Remember(h, c)) \in Nat \ {0}
           /\ Remember(h, c)[Len(Remember(h, c))] = c
           /\ NoRepeat(Remember(h, c))
<1>0. Len(h) \in Nat
  BY LenProperties
<1>1. CASE h # <<>> /\ Last(h) = c
  <2>1. Remember(h, c) = h /\ Len(h) # 0 /\ h[Len(h)] = c
    BY <1>1, EmptySeq DEF Remember, Last
  <2> QED
    BY <1>0, <2>1
<1>2. CASE ~ (h # <<>> /\ Last(h) = c)
  <2> DEFINE g == Append(h, c)
  <2>1. Remember(h, c) = g
    BY <1>2 DEF Remember
  <2>2. g \in Seq(Bytes) /\ Len(g) = Len(h) + 1 /\ g[Len(h) + 1] = c
        /\ \A i \in 1 .. Len(h) : g[i] = h[i]
    BY AppendProperties
  <2>3. Len(h) # 0 => h[Len(h)] # c
    BY <1>0, <1>2, EmptySeq DEF Last
  <2> HIDE DEF g
  <2>4. ASSUME NEW i \in 2 .. Len(h) + 1
        PROVE  g[i] # g[i - 1]
    <3>1. CASE i = Len(h) + 1
      <4>1. Len(h) # 0 /\ i - 1 = Len(h) /\ Len(h) \in 1 .. Len(h)
        BY <1>0, <3>1
      <4> QED
        BY <2>2, <2>3, <3>1, <4>1
    <3>2. CASE i # Len(h) + 1
      <4>1. i \in 2 .. Len(h) /\ i \in 1 .. Len(h) /\ i - 1 \in 1 .. Len(h)
        BY <1>0, <3>2
      <4> QED
        BY <2>2, <4>1 DEF NoRepeat
    <3> QED
      BY <3>1, <3>2
  <2> QED
    BY <1>0, <2>1, <2>2, <2>4 DEF NoRepeat
<1> QED
  BY <1>1, <1>2

(* The index is of an entry or the one past the newest.                     *)
LineOK(l) == l.historyIdx \in 0 .. Len(l.history) /\ NoRepeat(l.history)
Newest(l, c) ==
    /\ Len(l.history) # 0 /\ l.historyIdx = Len(l.history)
    /\ l.history[Len(l.history)] = c

LEMMA Recalled ==
    ASSUME NEW l \in Lines, NEW i \in 0 .. Len(l.history), LineOK(l)
    PROVE  Recall(l, i) \in Lines /\ LineOK(Recall(l, i))
<1>1. l.history \in Seq(Bytes) /\ Len(l.history) \in Nat /\ i \in Nat
  BY LenProperties DEF Lines
<1>2. i < Len(l.history) => l.history[i + 1] \in Bytes
  BY <1>1
<1>3. <<>> \in Bytes
  BY DEF Bytes
<1>4. (IF i < Len(l.history) THEN l.history[i + 1] ELSE <<>>) \in Bytes
  BY <1>2, <1>3
<1>5. Recall(l, i) \in Lines
  BY <1>1, <1>4 DEF Lines, Recall
<1>6. Recall(l, i).history = l.history /\ Recall(l, i).historyIdx = i
  BY DEF Lines, Recall
<1> QED
  BY <1>5, <1>6 DEF LineOK

LEMMA Edited ==
    ASSUME NEW l \in Lines, LineOK(l), NEW b \in Bytes
    PROVE  /\ [l EXCEPT !.buffer = b] \in Lines /\ LineOK([l EXCEPT !.buffer = b])
           /\ \A c : Newest(l, c) => Newest([l EXCEPT !.buffer = b], c)
<1>1. [l EXCEPT !.buffer = b] \in Lines
  BY DEF Lines
<1>2. [l EXCEPT !.buffer = b].history = l.history /\ [l EXCEPT !.buffer = b].historyIdx = l.historyIdx
  BY DEF Lines
<1> QED
  BY <1>1, <1>2 DEF LineOK, Newest

LEMMA EnteredLine ==
    ASSUME NEW l \in Lines, LineOK(l), NEW c \in Bytes
    PROVE  /\ Enter(l, c) \in Lines /\ LineOK(Enter(l, c))
           /\ c # <<>> => Newest(Enter(l, c), c)
<1>1. CASE c = <<>>
  BY <1>1 DEF Enter
<1>2. CASE c # <<>>
  <2> DEFINE h == Remember(l.history, c)
  <2>1. h \in Seq(Bytes) /\ Len(h) \in Nat \ {0} /\ h[Len(h)] = c /\ NoRepeat(h)
    BY Remembered DEF Lines, LineOK
  <2>2. Enter(l, c) = [l EXCEPT !.history = h, !.historyIdx = Len(h)]
    BY <1>2 DEF Enter, Lines
  <2> HIDE DEF h
  <2>3. Enter(l, c) \in Lines /\ Enter(l, c).history = h /\ Enter(l, c).historyIdx = Len(h)
    BY <2>1, <2>2 DEF Lines
  <2>4. Len(h) \in 0 .. Len(h)
    BY <2>1
  <2> QED
    BY <2>1, <2>3, <2>4 DEF LineOK, Newest
<1> QED
  BY <1>1, <1>2

LEMMA Written ==
    ASSUME NEW l \in Lines, LineOK(l), NEW d \in Bytes
    PROVE  /\ Write(l, d) \in Lines /\ LineOK(Write(l, d))
           /\ CommandIn(l, d) # <<>> => Newest(Write(l, d), CommandIn(l, d))
<1>0. l.historyIdx \in 0 .. Len(l.history) /\ Len(l.history) \in Nat
  BY LenProperties DEF LineOK, Lines
<1>1. CASE d = <<"up">>
  <2>1. Write(l, d) = Up(l) /\ CommandIn(l, d) = <<>>
    BY <1>1 DEF Write, CommandIn
  <2>2. l.historyIdx > 0 => l.historyIdx - 1 \in 0 .. Len(l.history)
    BY <1>0
  <2> QED
    BY <2>1, <2>2, Recalled DEF Up
<1>2. CASE d = <<"down">>
  <2>1. Write(l, d) = Down(l) /\ CommandIn(l, d) = <<>>
    <3>1. d # <<"up">>
      BY <1>2
    <3> QED
      BY <1>2, <3>1 DEF Write, CommandIn
  <2>2. l.historyIdx < Len(l.history) => l.historyIdx + 1 \in 0 .. Len(l.history)
    BY <1>0
  <2> QED
    BY <2>1, <2>2, Recalled DEF Down
<1>3. CASE d \notin {<<"up">>, <<"down">>}
  <2> DEFINE taken == Taken(l.buffer, d)
             c == CommandIn(l, d)
  <2>1. Write(l, d) = Entered(l, d)
    BY <1>3 DEF Write
  <2>2. taken.buffer \in Bytes /\ taken.text \in Bytes
    BY TakenScans DEF Lines, Scans
  <2>3. LineEnd(taken.text) \in 0 .. Len(taken.text) /\ Len(taken.text) \in Nat
    BY <2>2, LineEndBounds, LenProperties DEF Bytes
  <2>4. /\ LineEnd(taken.text) = 0 => c = <<>>
        /\ Write(l, d) = IF LineEnd(taken.text) = 0
                         THEN [l EXCEPT !.buffer = taken.buffer \o taken.text]
                         ELSE [Enter(l, c) EXCEPT !.buffer = LeftOver(taken.text)]
    BY <2>1 DEF Entered, CommandIn
  <2>5. c \in Bytes
    BY CommandTypes
  <2> HIDE DEF taken, c
  <2>6. taken.buffer \o taken.text \in Bytes
    BY <2>2 DEF Bytes
  <2>7. LeftOver(taken.text) \in Bytes
    BY <2>2, <2>3 DEF LeftOver, Bytes
  <2>8. Enter(l, c) \in Lines /\ LineOK(Enter(l, c)) /\ (c # <<>> => Newest(Enter(l, c), c))
    BY <2>5, EnteredLine
  <2>9. CASE LineEnd(taken.text) = 0
    BY <2>4, <2>6, <2>9, Edited DEF c
  <2>10. CASE LineEnd(taken.text) # 0
    <3> DEFINE e == Enter(l, c)
    <3> HIDE DEF e
    <3>1. e \in Lines /\ LineOK(e) /\ (c # <<>> => Newest(e, c)) /\ Write(l, d) = [e EXCEPT !.buffer = LeftOver(taken.text)]
      BY <2>4, <2>8, <2>10 DEF e
    <3>2. Write(l, d) \in Lines /\ LineOK(Write(l, d)) /\ (c # <<>> => Newest(Write(l, d), c))
      BY <2>7, <3>1, Edited
    <3> QED
      BY <3>2 DEF c
  <2> QED
    BY <2>9, <2>10
<1> QED
  BY <1>1, <1>2, <1>3

(* The line in every reachable state; what is being run is its newest.      *)
HistoryInv ==
    /\ LineOK(line)
    /\ command # <<>> => Newest(line, command)

LEMMA InitHistory == Init => HistoryInv
  BY DEF Init, NoLine, HistoryInv, LineOK, NoRepeat

(* Only the receive thread's keys and interrupts change the line.           *)
LEMMA HistoryStays ==
    ASSUME HistoryInv, line' = line, command' \in {command, <<>>}
    PROVE  HistoryInv'
  BY DEF HistoryInv

------------------------------------------------------------------------------
(* Initial states *)

LEMMA InitSession == Init => SessionInv
<1> SUFFICES ASSUME Init PROVE SessionInv
  OBVIOUS
<1>0. MaxCommands \in Nat \ {0} /\ MaxCalls \in Nat /\ MaxEdits \in Nat /\ Home \in Dirs
  BY WindowsAssumption DEF WindowsAssumption
<1>1. TypeOK
  <2>1. thread \in [Actors -> {"idle", "run", "poll", "signal", "break", "kill", "check", "use",
                               "stopCheck", "stopUse", "stopEnd", "crashed"}]
    BY DEF Init
  <2>2. worker \in [Commands -> {"none", "spawn", "loop", "read", "wait", "ended"}]
    BY DEF Init
  <2>3. child \in [Commands -> {"none", "running", "orphan", "dead"}]
    BY DEF Init
  <2>4. enteredIn \in [Commands -> Dirs]
    BY <1>0 DEF Init
  <2>5. {strayed, overtaken, replaced, cleared} \subseteq SUBSET Commands
    BY DEF Init
  <2>6. cwd \in Dirs /\ process = 0 /\ stopEvent \in BOOLEAN
    BY <1>0 DEF Init
  <2>7. calls \in 0..MaxCalls /\ edits \in 0..MaxEdits /\ commands \in Commands
    BY <1>0 DEF Init, Commands
  <2>8. line \in Lines /\ command \in Bytes
    BY DEF Init, NoLine, Lines, Bytes
  <2> QED
    BY <2>1, <2>2, <2>3, <2>4, <2>5, <2>6, <2>7, <2>8 DEF TypeOK, Lines, Bytes
<1>2. WorkersInv /\ PublishedInv /\ SerialInv /\ DirectoryInv
  BY <1>0 DEF Init, WorkersInv, PublishedInv, SerialInv, DirectoryInv, Commands, Actors
<1> QED
  BY <1>1, <1>2 DEF SessionInv

------------------------------------------------------------------------------
(* Steps *)

(* Keys and interrupts.                                                     *)
LEMMA CallStep ==
    ASSUME SessionInv, HistoryInv, SendSignal \/ (\E d \in Datagrams : WriteKeys(d))
    PROVE  SessionInv' /\ HistoryInv'
<1> USE DEF callVars, commandVars, childVars, stopVars
<1>1. UNCHANGED <<commandVars, childVars, process, stopVars>>
  BY DEF SendSignal, WriteKeys, Call
<1>2. line \in Lines /\ command \in Bytes /\ LineOK(line)
  BY DEF SessionInv, TypeOK, Lines, Bytes, HistoryInv
<1>3. /\ line' \in Lines /\ command' \in Bytes
      /\ LineOK(line') /\ (command' # <<>> => Newest(line', command'))
  <2>1. CASE SendSignal
    <3>1. command' = command /\ (line' = line \/ line' = [line EXCEPT !.buffer = <<>>])
      BY <2>1 DEF SendSignal
    <3>2. <<>> \in Bytes
      BY DEF Bytes
    <3> QED
      BY <1>2, <3>1, <3>2, Edited DEF HistoryInv
  <2>2. ASSUME NEW d \in Datagrams, WriteKeys(d)
        PROVE  /\ line' \in Lines /\ command' \in Bytes
               /\ LineOK(line') /\ (command' # <<>> => Newest(line', command'))
    <3>1. d \in Bytes
      BY LineAssumption DEF LineAssumption, Bytes
    <3>2. line' = Write(line, d) /\ command' = CommandIn(line, d)
      BY <2>2 DEF WriteKeys
    <3> QED
      BY <1>2, <3>1, <3>2, Written, CommandTypes
  <2> QED
    BY <2>1, <2>2
<1>4. calls' \in 0..MaxCalls /\ edits' \in 0..MaxEdits
  BY WindowsAssumption DEF SendSignal, WriteKeys, SessionInv, TypeOK, WindowsAssumption
<1>5. /\ \E pc \in {"signal", "run", "idle"} : thread' = [thread EXCEPT !["recv"] = pc]
      /\ thread'["recv"] = "run" => commands < MaxCommands
  BY DEF SendSignal, WriteKeys, Call, At, SessionInv, TypeOK, Actors
<1>6. thread'["recv"] \in {"run", "signal", "idle"}
  BY <1>5 DEF SessionInv, TypeOK, Actors
<1>7. thread' \in [Actors -> {"idle", "run", "poll", "signal", "break", "kill", "check", "use",
                              "stopCheck", "stopUse", "stopEnd", "crashed"}]
  BY <1>5 DEF SessionInv, TypeOK
<1>8. TypeOK'
  BY <1>1, <1>3, <1>4, <1>7 DEF SessionInv, TypeOK, Lines, Bytes
<1>9. SessionInv'
  BY <1>1, <1>5, <1>6, <1>8 DEF SessionInv, WorkersInv, PublishedInv, SerialInv, DirectoryInv, Excused
<1>10. HistoryInv'
  BY <1>3 DEF HistoryInv
<1> QED
  BY <1>9, <1>10

(* A command is run: it overtakes those that are not given to the system.   *)
LEMMA ProceedStep ==
    ASSUME SessionInv, Proceed, thread["recv"] \in {"run", "poll"},
           process = 0 \/ child[process] # "running"
    PROVE  SessionInv'
<1> USE DEF SessionInv
<1>0. MaxCommands \in Nat \ {0} /\ commands \in Commands /\ commands < MaxCommands
  BY WindowsAssumption DEF TypeOK, WorkersInv
<1>1. /\ UNCHANGED <<line, calls, edits, child, strayed, replaced, process, stopEvent, cleared>>
      /\ command' = <<>> /\ overtaken' = overtaken \cup Unpublished
      /\ thread' = [thread EXCEPT !["recv"] = "idle"]
  BY DEF Proceed, At, stopVars
<1>2. thread'["recv"] = "idle" /\ Excused' = Excused \cup Unpublished
  BY <1>1 DEF TypeOK, Actors, Excused
<1>3. thread' \in [Actors -> {"idle", "run", "poll", "signal", "break", "kill", "check", "use",
                              "stopCheck", "stopUse", "stopEnd", "crashed"}]
  BY <1>1 DEF TypeOK
<1>4. \A w \in Commands : child[w] = "running" => w \in Excused
  BY <1>0 DEF PublishedInv, Commands
<1>5. PublishedInv'
  BY <1>1, <1>2 DEF PublishedInv
<1>6. overtaken' \in SUBSET Commands
  BY <1>1 DEF TypeOK, Unpublished
<1>7. CASE IsCd(command)
  <2>1. cwd' \in Dirs /\ UNCHANGED <<worker, commands, enteredIn>>
    BY <1>7 DEF Proceed, ChangeDir
  <2>2. TypeOK'
    BY <1>1, <1>3, <1>6, <2>1 DEF TypeOK
  <2>3. WorkersInv' /\ SerialInv'
    BY <1>1, <1>2, <2>1 DEF WorkersInv, SerialInv
  <2>4. DirectoryInv'
    BY <1>1, <2>1 DEF DirectoryInv, Unpublished
  <2> QED
    BY <1>5, <2>2, <2>3, <2>4
<1>8. CASE ~ IsCd(command)
  <2> DEFINE n == commands + 1
  <2>1. /\ UNCHANGED cwd /\ commands' = n
        /\ worker' = [worker EXCEPT ![n] = "spawn"]
        /\ enteredIn' = [enteredIn EXCEPT ![n] = cwd]
    BY <1>8 DEF Proceed, StartWorker
  <2>2. n \in Commands /\ worker[n] = "none" /\ child[n] = "none"
    BY <1>0 DEF Commands, WorkersInv, TypeOK
  <2>3. \A w \in Commands : w # n => worker'[w] = worker[w] /\ enteredIn'[w] = enteredIn[w]
    BY <2>1 DEF TypeOK
  <2>4. worker'[n] = "spawn" /\ enteredIn'[n] = cwd
    BY <2>1, <2>2 DEF TypeOK
  <2>5. worker' \in [Commands -> {"none", "spawn", "loop", "read", "wait", "ended"}]
        /\ enteredIn' \in [Commands -> Dirs]
    BY <2>1 DEF TypeOK
  <2>6. TypeOK'
    BY <1>1, <1>3, <1>6, <2>1, <2>2, <2>5 DEF TypeOK
  <2>7. WorkersInv'
    <3>1. \A w \in Commands : w > n => w > commands /\ w # n
      BY <1>0 DEF Commands
    <3> QED
      BY <1>1, <1>2, <2>1, <2>2, <2>3, <3>1 DEF WorkersInv
  <2>8. SerialInv'
    <3>1. ASSUME NEW v \in Commands, NEW w \in Commands, v < w, worker'[w] # "none",
                 worker'[v] = "spawn" \/ child'[v] = "running"
          PROVE  v \in Excused'
      <4>1. CASE v = n
        <5>1. w > commands /\ w # n
          BY <1>0, <3>1, <4>1 DEF Commands
        <5> QED
          BY <2>3, <3>1, <5>1 DEF WorkersInv
      <4>2. CASE v # n
        BY <1>1, <1>2, <1>4, <2>3, <3>1, <4>2 DEF Unpublished
      <4> QED
        BY <4>1, <4>2
    <3> QED
      BY <3>1 DEF SerialInv
  <2>9. DirectoryInv'
    BY <1>1, <2>1, <2>3, <2>4 DEF DirectoryInv, Unpublished
  <2> QED
    BY <1>5, <2>6, <2>7, <2>8, <2>9
<1> QED
  BY <1>7, <1>8

(* The receive thread goes on to poll the child, or is done.                *)
LEMMA RunAtStep ==
    ASSUME SessionInv, thread["recv"] \in {"run", "poll"}, NEW pc \in {"idle", "poll", "crashed"}, RunAt(pc)
    PROVE  SessionInv'
<1> USE DEF callVars, commandVars, childVars, stopVars, SessionInv
<1>1. UNCHANGED <<line, calls, edits, commandVars, childVars, process, stopVars>>
      /\ thread' = [thread EXCEPT !["recv"] = pc]
  BY DEF RunAt, At
<1>2. thread'["recv"] = pc
      /\ thread' \in [Actors -> {"idle", "run", "poll", "signal", "break", "kill", "check", "use",
                                 "stopCheck", "stopUse", "stopEnd", "crashed"}]
  BY <1>1 DEF TypeOK, Actors
<1>3. command' \in Seq(STRING)
  <2>1. command' \in {command, <<>>}
    BY DEF RunAt
  <2>2. command \in Seq(STRING) /\ <<>> \in Seq(STRING)
    BY DEF TypeOK
  <2> QED
    BY <2>1, <2>2
<1>4. TypeOK'
  BY <1>1, <1>2, <1>3 DEF TypeOK
<1> QED
  BY <1>1, <1>2, <1>4 DEF WorkersInv, PublishedInv, SerialInv, DirectoryInv, Excused

LEMMA RunStep ==
    ASSUME SessionInv, RunCommand \/ Poll
    PROVE  SessionInv'
<1>1. CASE \E pc \in {"idle", "poll", "crashed"} : RunAt(pc)
  BY <1>1, RunAtStep DEF RunCommand, Poll
<1>2. CASE ~ (\E pc \in {"idle", "poll", "crashed"} : RunAt(pc))
  BY <1>2, ProceedStep DEF RunCommand, Poll, Busy
<1> QED
  BY <1>1, <1>2

------------------------------------------------------------------------------
(* The workers *)

LEMMA SpawnStep ==
    ASSUME SessionInv, NEW w \in Commands, Spawn(w)
    PROVE  SessionInv'
<1> USE DEF callVars, stopVars, SessionInv
<1>0. 0 \notin Commands /\ Home \in Dirs
  BY WindowsAssumption DEF Commands
<1>1. /\ worker[w] = "spawn" /\ process' = w
      /\ child' = [child EXCEPT ![w] = "running"]
      /\ worker' = [worker EXCEPT ![w] = "loop"]
      /\ enteredIn' = [enteredIn EXCEPT ![w] = Home]
      /\ replaced' = replaced \cup ({process} \ {0})
      /\ strayed' \subseteq strayed \cup {w}
      /\ enteredIn[w] = cwd => strayed' = strayed
      /\ UNCHANGED <<line, command, calls, edits, commands, overtaken, cwd, stopEvent, cleared, thread>>
  BY DEF Spawn, WorkerAt
<1>2. \A v \in Commands : v # w => worker'[v] = worker[v] /\ child'[v] = child[v]
                                   /\ enteredIn'[v] = enteredIn[v]
  BY <1>1 DEF TypeOK
<1>3. worker'[w] = "loop" /\ child'[w] = "running"
  BY <1>1 DEF TypeOK
<1>4. Excused \subseteq Excused' /\ (process # 0 => process \in Excused')
  BY <1>1 DEF Excused
<1>5. TypeOK'
  <2>1. worker' \in [Commands -> {"none", "spawn", "loop", "read", "wait", "ended"}]
        /\ child' \in [Commands -> {"none", "running", "orphan", "dead"}]
        /\ enteredIn' \in [Commands -> Dirs]
    BY <1>0, <1>1 DEF TypeOK
  <2>2. {strayed', overtaken', replaced', cleared'} \subseteq SUBSET Commands
    BY <1>1 DEF TypeOK
  <2>3. process' \in {0} \cup {v \in Commands : child'[v] # "none"}
    BY <1>1, <1>3
  <2> QED
    BY <1>1, <2>1, <2>2, <2>3 DEF TypeOK
<1>6. WorkersInv'
  <2>1. ~ (w > commands)
    BY <1>1 DEF WorkersInv
  <2> QED
    BY <1>1, <1>2, <1>3, <2>1 DEF WorkersInv
<1>7. PublishedInv'
  BY <1>0, <1>1, <1>2, <1>4 DEF PublishedInv
<1>8. SerialInv'
  <2>1. ASSUME NEW u \in Commands, NEW v \in Commands, u < v, worker'[v] # "none",
               worker'[u] = "spawn" \/ child'[u] = "running"
        PROVE  u \in Excused'
    <3>1. worker[v] # "none" /\ (worker[u] = "spawn" \/ child[u] = "running")
      BY <1>1, <1>2, <1>3, <2>1
    <3> QED
      BY <1>4, <2>1, <3>1 DEF SerialInv
  <2> QED
    BY <2>1 DEF SerialInv
<1>9. DirectoryInv'
  BY <1>1, <1>2, <1>3 DEF DirectoryInv
<1> QED
  BY <1>5, <1>6, <1>7, <1>8, <1>9

(* A worker that is past Popen, or whose Popen fails, stays so; its child   *)
(* does not start again, and what it clears is its own place.               *)
LEMMA WorkerGoesOn ==
    ASSUME SessionInv, NEW w \in Commands,
           UNCHANGED <<callVars, commandVars, stopVars, thread, strayed, replaced>>,
           NEW pc \in {"loop", "read", "wait", "ended"},
           NEW c \in {"none", "running", "orphan", "dead"},
           \/ worker' = [worker EXCEPT ![w] = pc]
           \/ worker' = worker,
           worker[w] # "none" \/ worker' = worker,
           child' = [child EXCEPT ![w] = c],
           c = child[w] \/ (c \in {"orphan", "dead"} /\ child[w] # "none"),
           process' = process \/ (process = w /\ process' = 0 /\ c # "running")
    PROVE  SessionInv'
<1> USE DEF callVars, commandVars, stopVars, SessionInv
<1>1. \A v \in Commands : v # w => worker'[v] = worker[v] /\ child'[v] = child[v]
  BY DEF TypeOK
<1>2. worker'[w] \in {pc, worker[w]} /\ child'[w] = c
  BY DEF TypeOK
<1>3. worker' \in [Commands -> {"none", "spawn", "loop", "read", "wait", "ended"}]
      /\ child' \in [Commands -> {"none", "running", "orphan", "dead"}]
  BY DEF TypeOK
<1>4. \A v \in Commands : /\ child'[v] = "none" <=> child[v] = "none"
                          /\ child'[v] = "running" => child[v] = "running"
                          /\ worker'[v] = "none" <=> worker[v] = "none"
                          /\ worker'[v] = "spawn" => worker[v] = "spawn"
  BY <1>1, <1>2
<1>5. process' \in {0} \cup {v \in Commands : child'[v] # "none"}
  BY <1>4 DEF TypeOK
<1>6. TypeOK'
  BY <1>3, <1>5 DEF TypeOK
<1>7. WorkersInv'
  <2>1. \A v \in Commands : child'[v] # "none" => worker'[v] \notin {"none", "spawn"}
    BY <1>4 DEF WorkersInv
  <2> QED
    BY <1>4, <2>1 DEF WorkersInv
<1>8. PublishedInv'
  <2>1. ASSUME NEW v \in Commands, child'[v] = "running"
        PROVE  v = process' \/ v \in Excused'
    <3>1. process' = process \/ v # process
      BY <1>2, <2>1
    <3> QED
      BY <1>4, <2>1, <3>1 DEF PublishedInv, Excused
  <2> QED
    BY <2>1 DEF PublishedInv
<1>9. SerialInv' /\ DirectoryInv'
  BY <1>4 DEF SerialInv, DirectoryInv, Excused
<1> QED
  BY <1>6, <1>7, <1>8, <1>9

LEMMA WorkerSteps ==
    ASSUME SessionInv, NEW w \in Commands, WorkerStep(w) \/ ReadReturns(w) \/ ChildExits(w)
    PROVE  SessionInv'
<1>0. \A v \in Commands : child[v] \in {"none", "running", "orphan", "dead"}
                          /\ child = [child EXCEPT ![v] = child[v]]
  BY DEF SessionInv, TypeOK
<1>1. CASE Spawn(w)
  BY <1>1, SpawnStep
<1>2. CASE SpawnFails(w) \/ LoopTest(w) \/ ReadReturns(w)
  <2>1. /\ UNCHANGED <<callVars, commandVars, stopVars, thread, strayed, replaced, child, process>>
        /\ worker[w] # "none"
        /\ \E pc \in {"loop", "read", "wait", "ended"} : worker' = [worker EXCEPT ![w] = pc]
    BY <1>2 DEF SpawnFails, LoopTest, ReadReturns, WorkerAt, WorkerUnchanged
  <2> QED
    BY <1>0, <2>1, WorkerGoesOn
<1>3. CASE WaitAndClear(w)
  <2>1. /\ UNCHANGED <<callVars, commandVars, stopVars, thread, strayed, replaced>>
        /\ worker[w] # "none"
        /\ worker' = [worker EXCEPT ![w] = "ended"]
        /\ process' = IF process = w THEN 0 ELSE process
    BY <1>3 DEF WaitAndClear, WorkerAt, WorkerUnchanged, Cleared
  <2>2. PICK c \in {"none", "orphan", "dead"} :
           /\ child' = [child EXCEPT ![w] = c]
           /\ c = child[w] \/ (c \in {"orphan", "dead"} /\ child[w] # "none")
    BY <1>0, <1>3 DEF WaitAndClear, Terminated
  <2> QED
    BY <2>1, <2>2, WorkerGoesOn
<1>4. CASE ChildExits(w)
  <2>1. /\ UNCHANGED <<callVars, commandVars, stopVars, thread, strayed, replaced, worker, process>>
        /\ child[w] # "none"
        /\ child' = [child EXCEPT ![w] = "dead"]
    BY <1>4 DEF ChildExits, WorkerUnchanged
  <2> QED
    BY <2>1, WorkerGoesOn
<1> QED
  BY <1>1, <1>2, <1>3, <1>4 DEF WorkerStep

------------------------------------------------------------------------------
(* Interrupt and stop *)

(* Whoever ends the child in self.process, or takes it out of there, does   *)
(* not start anything.                                                      *)
LEMMA ThreadGoesOn ==
    ASSUME SessionInv, ThreadUnchanged, NEW a \in Actors,
           NEW pc \in {"idle", "break", "kill", "check", "use", "stopCheck", "stopUse", "stopEnd", "crashed"},
           At(a, pc), stopEvent' \in BOOLEAN,
           \/ child' = child
           \/ process # 0 /\ \E c \in {"orphan", "dead"} : child' = [child EXCEPT ![process] = c],
           \/ process' = process /\ cleared' = cleared
           \/ process' = 0 /\ cleared' = cleared \cup ({process} \ {0})
    PROVE  SessionInv'
<1> USE DEF callVars, commandVars, ThreadUnchanged, SessionInv
<1>1. /\ thread'["recv"] \in {"run", "poll"} => thread["recv"] \in {"run", "poll"}
      /\ thread' \in [Actors -> {"idle", "run", "poll", "signal", "break", "kill", "check", "use",
                                 "stopCheck", "stopUse", "stopEnd", "crashed"}]
  BY DEF At, TypeOK, Actors
<1>2. child' \in [Commands -> {"none", "running", "orphan", "dead"}]
  BY DEF TypeOK
<1>3. process = 0 \/ (process \in Commands /\ child[process] # "none")
  BY DEF TypeOK
<1>4. \A v \in Commands : /\ child'[v] = "none" <=> child[v] = "none"
                          /\ child'[v] = "running" => child[v] = "running"
  BY <1>3 DEF TypeOK
<1>5. cleared' \in SUBSET Commands /\ process' \in {0} \cup {v \in Commands : child'[v] # "none"}
  BY <1>3, <1>4 DEF TypeOK
<1>6. TypeOK'
  BY <1>1, <1>2, <1>5 DEF TypeOK
<1>7. Excused \subseteq Excused' /\ (process' = process \/ process = 0 \/ process \in Excused')
  BY DEF Excused
<1>8. 0 \notin Commands
  BY DEF Commands
<1>9. PublishedInv' /\ SerialInv'
  BY <1>4, <1>7, <1>8 DEF PublishedInv, SerialInv
<1>10. WorkersInv' /\ DirectoryInv'
  BY <1>1, <1>4 DEF WorkersInv, DirectoryInv
<1> QED
  BY <1>6, <1>9, <1>10

LEMMA TerminatedChild ==
    ASSUME process # 0, child' \in Terminated(process)
    PROVE  \/ child' = child
           \/ process # 0 /\ \E c \in {"orphan", "dead"} : child' = [child EXCEPT ![process] = c]
  BY DEF Terminated

LEMMA TerminateSteps ==
    ASSUME SessionInv, NEW a \in Actors,
           NEW check, NEW use \in {"use", "stopUse"}, NEW crash \in {"crashed"}, NEW done \in {"idle", "stopEnd"},
           TerminateCheck(a, check, use, done) \/ TerminateUse(a, use, crash, done)
    PROVE  SessionInv'
<1>0. stopEvent \in BOOLEAN
  BY DEF SessionInv, TypeOK
<1>1. CASE TerminateCheck(a, check, use, done)
  BY <1>0, <1>1, ThreadGoesOn DEF TerminateCheck, stopVars
<1>2. CASE TerminateUse(a, use, crash, done)
  <2>1. ThreadUnchanged /\ UNCHANGED <<process, stopEvent, cleared>>
    BY <1>2 DEF TerminateUse, stopVars
  <2>2. CASE process = 0
    BY <1>0, <1>2, <2>1, <2>2, ThreadGoesOn DEF TerminateUse
  <2>3. CASE process # 0
    <3>1. At(a, done) /\ child' \in Terminated(process)
      BY <1>2, <2>3 DEF TerminateUse
    <3>2. \/ child' = child
          \/ process # 0 /\ \E c \in {"orphan", "dead"} : child' = [child EXCEPT ![process] = c]
      BY <2>3, <3>1, TerminatedChild
    <3> QED
      BY <1>0, <2>1, <3>1, <3>2, ThreadGoesOn
  <2> QED
    BY <2>2, <2>3
<1> QED
  BY <1>1, <1>2

LEMMA InterruptSteps ==
    ASSUME SessionInv, InterruptStep
    PROVE  SessionInv'
<1>0. stopEvent \in BOOLEAN /\ "recv" \in Actors
  BY DEF SessionInv, TypeOK, Actors
<1>1. CASE Interrupt \/ Break
  <2>1. \E pc \in {"idle", "break", "kill"} : At("recv", pc)
    BY <1>1 DEF Interrupt, Break
  <2>2. ThreadUnchanged /\ UNCHANGED <<child, process, stopEvent, cleared>>
    BY <1>1 DEF Interrupt, Break, stopVars
  <2> QED
    BY <1>0, <2>1, <2>2, ThreadGoesOn
<1>2. CASE TaskKill
  <2>1. \E pc \in {"crashed", "check"} : At("recv", pc)
    BY <1>2 DEF TaskKill
  <2>2. ThreadUnchanged /\ UNCHANGED <<process, stopEvent, cleared>>
    BY <1>2 DEF TaskKill, stopVars
  <2>3. \/ child' = child
        \/ process # 0 /\ \E c \in {"orphan", "dead"} : child' = [child EXCEPT ![process] = c]
    BY <1>2 DEF TaskKill
  <2> QED
    BY <1>0, <2>1, <2>2, <2>3, ThreadGoesOn
<1>3. CASE \/ TerminateCheck("recv", "check", "use", "idle")
           \/ TerminateUse("recv", "use", "crashed", "idle")
  BY <1>0, <1>3, TerminateSteps
<1> QED
  BY <1>1, <1>2, <1>3 DEF InterruptStep

LEMMA StopSteps ==
    ASSUME SessionInv, NEW a \in Actors, Stop(a) \/ StopStep(a)
    PROVE  SessionInv'
<1>0. stopEvent \in BOOLEAN
  BY DEF SessionInv, TypeOK
<1>1. CASE Stop(a)
  BY <1>1, ThreadGoesOn DEF Stop
<1>2. CASE StopEnds(a)
  BY <1>0, <1>2, ThreadGoesOn DEF StopEnds
<1>3. CASE \/ TerminateCheck(a, "stopCheck", "stopUse", "stopEnd")
           \/ TerminateUse(a, "stopUse", "crashed", "stopEnd")
  BY <1>3, TerminateSteps
<1> QED
  BY <1>1, <1>2, <1>3 DEF StopStep

LEMMA NextSession == SessionInv /\ HistoryInv /\ [Next]_vars => SessionInv' /\ HistoryInv'
<1> SUFFICES ASSUME SessionInv, HistoryInv, [Next]_vars PROVE SessionInv' /\ HistoryInv'
  OBVIOUS
<1>1. CASE UNCHANGED vars
  BY <1>1, HistoryStays DEF vars, callVars, commandVars, childVars, stopVars, SessionInv, TypeOK,
     WorkersInv, PublishedInv, SerialInv, DirectoryInv, Excused
<1>2. CASE SendSignal \/ (\E d \in Datagrams : WriteKeys(d))
  BY <1>2, CallStep
<1>3. CASE RunCommand \/ Poll
  <2>1. line' = line /\ command' \in {command, <<>>}
    BY <1>3 DEF RunCommand, Poll, RunAt, Proceed
  <2> QED
    BY <1>3, <2>1, RunStep, HistoryStays
<1>4. CASE \E w \in Commands : WorkerStep(w) \/ ReadReturns(w) \/ ChildExits(w)
  <2>1. line' = line /\ command' = command
    BY <1>4 DEF WorkerStep, Spawn, SpawnFails, LoopTest, WaitAndClear, ReadReturns, ChildExits,
       WorkerUnchanged, callVars
  <2> QED
    BY <1>4, <2>1, WorkerSteps, HistoryStays
<1>5. CASE InterruptStep
  <2>1. line' = line /\ command' = command
    BY <1>5 DEF InterruptStep, Interrupt, Break, TaskKill, TerminateCheck, TerminateUse,
       ThreadUnchanged, callVars
  <2> QED
    BY <1>5, <2>1, InterruptSteps, HistoryStays
<1>6. CASE \E a \in Actors : Stop(a) \/ StopStep(a)
  <2>1. line' = line /\ command' = command
    BY <1>6 DEF Stop, StopStep, StopEnds, TerminateCheck, TerminateUse, ThreadUnchanged, callVars
  <2> QED
    BY <1>6, <2>1, StopSteps, HistoryStays
<1> QED
  BY <1>1, <1>2, <1>3, <1>4, <1>5, <1>6 DEF Next

------------------------------------------------------------------------------
(* SessionInv and HistoryInv hold in every reachable state of a Windows     *)
(* session.                                                                 *)
THEOREM SessionInvariant == Spec => [](SessionInv /\ HistoryInv)
<1>1. Init => SessionInv /\ HistoryInv
  BY InitSession, InitHistory
<1>2. SessionInv /\ HistoryInv /\ [Next]_vars => SessionInv' /\ HistoryInv'
  BY NextSession
<1> QED
  BY <1>1, <1>2, PTL DEF Spec

(* The variables keep their types: self.process is None or the child of a   *)
(* worker that was started (session.py:296, :317).                          *)
THEOREM SessionTypes == Spec => []TypeOK
<1>1. SessionInv => TypeOK
  BY DEF SessionInv
<1> QED
  BY <1>1, SessionInvariant, PTL

(* _run_windows_command (session.py:277) runs one command at a time and in  *)
(* the directory it was entered in, but for the commands that another one   *)
(* overtook before their child was in self.process, or whose child lost     *)
(* that place to such a command or to stop.                                 *)
THEOREM SerialCommands == Spec => []CommandsAreSerial
<1>1. SessionInv => CommandsAreSerial
  <2> SUFFICES ASSUME SessionInv PROVE CommandsAreSerial
    OBVIOUS
  <2>1. ASSUME NEW v \in Commands, NEW w \in Commands, v < w, child[v] = "running", child[w] = "running"
        PROVE  v \in Excused
    BY <2>1 DEF SessionInv, WorkersInv, SerialInv
  <2> QED
    BY <2>1 DEF CommandsAreSerial, Excused, SessionInv, DirectoryInv
<1> QED
  BY <1>1, SessionInvariant, PTL

(* The arrow keys never leave _history (session.py:213-236), whatever comes *)
(* before them, and the command that is run is its newest entry, once.      *)
THEOREM HistoryStaysUsable == Spec => []HistoryIsKept
<1>1. SessionInv /\ HistoryInv => HistoryIsKept
  <2> SUFFICES ASSUME SessionInv, HistoryInv PROVE HistoryIsKept
    OBVIOUS
  <2>1. line \in Lines /\ LineOK(line)
    BY DEF SessionInv, TypeOK, Lines, Bytes, HistoryInv
  <2>2. Len(line.history) \in Nat
    BY <2>1, LenProperties DEF Lines
  <2>3. ASSUME command # <<>>
        PROVE  line.historyIdx = Len(line.history) /\ Up(line).buffer = command
    <3>1. Newest(line, command)
      BY <2>3 DEF HistoryInv
    <3> DEFINE n == Len(line.history)
    <3>2. n \in Nat /\ n > 0 /\ line.historyIdx = n /\ line.history[n] = command
      BY <2>2, <3>1 DEF Newest
    <3>3. Up(line) = Recall(line, n - 1) /\ n - 1 < n /\ (n - 1) + 1 = n
      BY <3>2 DEF Up
    <3>4. Up(line).buffer = line.history[(n - 1) + 1]
      BY <2>1, <3>3 DEF Recall, Lines
    <3> QED
      BY <3>2, <3>3, <3>4
  <2> QED
    BY <2>1, <2>3 DEF HistoryIsKept, LineOK, NoRepeat
<1> QED
  BY <1>1, SessionInvariant, PTL

==============================================================================
