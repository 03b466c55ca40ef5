-------------------------- MODULE WireFormatProofs --------------------------
(***************************************************************************)
(* What the client means with an input is what the server does, or nothing *)
(* is done, for every size of a byte, of the fields and of the buffers,    *)
(* and for all payloads.                                                   *)
(***************************************************************************)
EXTENDS WireFormat, SequenceTheorems, WellFoundedInduction, TLAPS

------------------------------------------------------------------------------
(* Induction over numbers, from the well-foundedness of < on Nat, as a fact *)
(* about sets of numbers.                                                   *)

LEMMA LeastNumber ==
    ASSUME NEW T \in SUBSET Nat, T # {}
    PROVE  \E x \in T : \A y \in T : x <= y
<1> DEFINE R == OpToRel(<, Nat)
<1>1. IsWellFoundedOn(R, Nat)
  BY NatLessThanWellFounded
<1>2. \A x, y \in Nat : <<y, x>> \in R <=> y < x
  BY DEF OpToRel
<1> HIDE DEF R
<1>3. \E x \in T : \A y \in T : ~ (<<y, x>> \in R)
  BY <1>1, WFMin
<1>4. PICK x \in T : \A y \in T : ~ (<<y, x>> \in R)
  BY <1>3
<1>5. \A y \in T : ~ (y < x)
  BY <1>2, <1>4, Zenon
<1> QED
  BY <1>5

LEMMA NumbersByInduction ==
    ASSUME NEW S \in SUBSET Nat, 0 \in S, \A n \in S : n + 1 \in S
    PROVE  S = Nat
<1>1. SUFFICES ASSUME Nat \ S # {} PROVE FALSE
  OBVIOUS
<1>2. PICK x \in Nat \ S : \A y \in Nat \ S : x <= y
  BY <1>1, LeastNumber
<1>3. x # 0 /\ x - 1 \in S
  BY <1>2
<1> QED
  BY <1>2, <1>3

------------------------------------------------------------------------------
(* The powers of ByteSpace: the recursive function satisfies its equation.  *)

PowersUpTo(f, n) == f = [w \in 0..n |-> IF w = 0 THEN 1 ELSE ByteSpace * f[w - 1]]

LEMMA SomePowersUpTo == \A n \in Nat : \E f : PowersUpTo(f, n)
<1> DEFINE S == {n \in Nat : \E f : PowersUpTo(f, n)}
<1>1. 0 \in S
  <2>1. PowersUpTo([w \in 0..0 |-> 1], 0)
    BY DEF PowersUpTo
  <2> QED
    BY <2>1
<1>2. ASSUME NEW n \in S
      PROVE  n + 1 \in S
  <2>1. PICK f : PowersUpTo(f, n)
    OBVIOUS
  <2> DEFINE g == [w \in 0 .. n + 1 |-> IF w = 0 THEN 1 ELSE ByteSpace * f[w - 1]]
  <2>2. \A w \in 0..n : g[w] = f[w]
    BY <2>1 DEF PowersUpTo
  <2>3. ASSUME NEW w \in 0 .. n + 1
        PROVE  g[w] = IF w = 0 THEN 1 ELSE ByteSpace * g[w - 1]
    <3>1. w # 0 => w - 1 \in 0..n
      OBVIOUS
    <3> QED
      BY <2>2, <3>1
  <2>4. g = [w \in 0 .. n + 1 |-> g[w]]
    OBVIOUS
  <2> HIDE DEF g
  <2>5. PowersUpTo(g, n + 1)
    BY <2>3, <2>4 DEF PowersUpTo
  <2> QED
    BY <2>5
<1> HIDE DEF S
<1>3. S = Nat
  BY <1>1, <1>2, NumbersByInduction DEF S
<1> QED
  BY <1>3 DEF S

LEMMA PowersAgree ==
    ASSUME NEW n \in Nat, NEW m \in 0..n, NEW f, NEW g, PowersUpTo(f, n), PowersUpTo(g, m)
    PROVE  \A w \in 0..m : f[w] = g[w]
<1> DEFINE S == {w \in Nat : w <= m => f[w] = g[w]}
<1>1. 0 \in S
  BY DEF PowersUpTo
<1>2. ASSUME NEW w \in S
      PROVE  w + 1 \in S
  BY DEF PowersUpTo
<1> HIDE DEF S
<1>3. S = Nat
  BY <1>1, <1>2, NumbersByInduction DEF S
<1>4. \A w \in Nat : w <= m => f[w] = g[w]
  BY <1>3 DEF S
<1> QED
  BY <1>4

LEMMA PowerEquation ==
    \A w \in Nat : Power[w] = IF w = 0 THEN 1 ELSE ByteSpace * Power[w - 1]
<1> DEFINE IsPower(f) == f = [w \in Nat |-> IF w = 0 THEN 1 ELSE ByteSpace * f[w - 1]]
           UpTo(n) == CHOOSE f : PowersUpTo(f, n)
           h == [n \in Nat |-> UpTo(n)[n]]
<1>1. \A n \in Nat : PowersUpTo(UpTo(n), n)
  BY SomePowersUpTo
<1> HIDE DEF UpTo
<1>2. \A n \in Nat \ {0} : UpTo(n)[n - 1] = UpTo(n - 1)[n - 1]
  BY <1>1, PowersAgree
<1>3. ASSUME NEW n \in Nat
      PROVE  h[n] = IF n = 0 THEN 1 ELSE ByteSpace * h[n - 1]
  BY <1>1, <1>2 DEF PowersUpTo
<1>4. h = [n \in Nat |-> h[n]]
  OBVIOUS
<1> HIDE DEF h
<1>5. IsPower(h)
  BY <1>3, <1>4
<1>6. Power = CHOOSE f : IsPower(f)
  BY DEF Power
<1>7. IsPower(Power)
  BY <1>5, <1>6
<1> QED
  BY <1>7

B2 == ByteSpace * ByteSpace
B3 == ByteSpace * B2
B4 == ByteSpace * B3

LEMMA Powers ==
    /\ Power[0] = 1 /\ Power[1] = ByteSpace /\ Power[2] = B2 /\ Power[3] = B3 /\ Power[4] = B4
    /\ ByteSpace \in Nat \ {0, 1} /\ {B2, B3, B4} \subseteq Nat \ {0, 1}
<1>1. ByteSpace \in Nat \ {0, 1}
  BY WireAssumption
<1>2. \A m \in Nat \ {0, 1} : ByteSpace * m \in Nat /\ ByteSpace * m >= ByteSpace
  BY <1>1
<1>3. \A m \in Nat \ {0, 1} : ByteSpace * m \in Nat \ {0, 1}
  BY <1>1, <1>2
<1>4. {B2, B3, B4} \subseteq Nat \ {0, 1}
  BY <1>1, <1>3 DEF B2, B3, B4
<1>5. Power[0] = 1
  BY PowerEquation
<1>6. Power[1] = ByteSpace
  BY <1>1, <1>5, PowerEquation
<1>7. Power[2] = B2
  BY <1>6, PowerEquation DEF B2
<1>8. Power[3] = B3
  BY <1>7, PowerEquation DEF B3
<1>9. Power[4] = B4
  BY <1>8, PowerEquation DEF B4
<1> QED
  BY <1>1, <1>4, <1>5, <1>6, <1>7, <1>8, <1>9

------------------------------------------------------------------------------
(* Division *)

LEMMA DivMod ==
    ASSUME NEW n \in Int, NEW b \in Nat \ {0}
    PROVE  /\ n \div b \in Int /\ n % b \in 0 .. b - 1
           /\ n = b * (n \div b) + (n % b)
  OBVIOUS

LEMMA DivUnique ==
    ASSUME NEW b \in Nat \ {0}, NEW q \in Int, NEW r \in 0 .. b - 1, NEW n \in Int, n = b * q + r
    PROVE  n \div b = q /\ n % b = r
<1> DEFINE p == n \div b
           s == n % b
<1>1. p \in Int /\ s \in 0 .. b - 1 /\ n = b * p + s
  BY DivMod
<1> HIDE DEF p, s
<1>2. b * (p - q) = r - s
  BY <1>1
<1>3. \A d \in Nat \ {0} : b * d >= b
  OBVIOUS
<1>4. ~ (p - q >= 1)
  BY <1>1, <1>2, <1>3
<1>5. b * (q - p) = s - r
  BY <1>1
<1>6. ~ (q - p >= 1)
  BY <1>1, <1>5, <1>3
<1>7. p = q
  BY <1>1, <1>4, <1>6
<1>8. s = r
  BY <1>1, <1>7
<1> QED
  BY <1>7, <1>8 DEF p, s

(* Division by b and then by c is division by d, their product.  The two    *)
(* operators keep the provers from rewriting what the lemma is used for.    *)
DividedTwice(n, b, c, d, p) ==
    n \in Int /\ b \in Nat \ {0} /\ c \in Nat \ {0} /\ d = b * c /\ p = n \div b
DividedOnce(n, b, c, d, p) ==
    n \div d = p \div c /\ n % d = b * (p % c) + (n % b)

LEMMA DivDiv ==
    \A n, b, c, d, p : DividedTwice(n, b, c, d, p) => DividedOnce(n, b, c, d, p)
<1> SUFFICES ASSUME NEW n, NEW b, NEW c, NEW d, NEW p, DividedTwice(n, b, c, d, p)
             PROVE  DividedOnce(n, b, c, d, p)
  OBVIOUS
<1>0. n \in Int /\ b \in Nat \ {0} /\ c \in Nat \ {0} /\ d = b * c /\ p = n \div b
  BY DEF DividedTwice
<1> DEFINE q == p \div c
           r == p % c
           s == n % b
<1>1. p \in Int /\ s \in 0 .. b - 1 /\ n = b * p + s
  BY <1>0, DivMod
<1> HIDE DEF s
<1>2. q \in Int /\ r \in 0 .. c - 1 /\ p = c * q + r
  BY <1>0, <1>1, DivMod
<1> HIDE DEF q, r
<1>3. d \in Nat \ {0} /\ n \in Int
  BY <1>0
<1>4. n = d * q + (b * r + s)
  <2>1. b * p = b * (c * q) + b * r
    BY <1>0, <1>2
  <2>2. b * (c * q) = d * q
    BY <1>0, <1>2
  <2>3. b * r \in Int /\ d * q \in Int
    BY <1>0, <1>2, <1>3
  <2> QED
    BY <1>0, <1>1, <2>1, <2>2, <2>3
<1>5. b * r + s \in 0 .. d - 1
  <2>1. b * r \in Nat
    BY <1>0, <1>2
  <2>2. b * ((c - 1) - r) \in Nat
    BY <1>0, <1>2
  <2>3. b * ((c - 1) - r) = d - b - b * r
    BY <1>0, <1>2
  <2> QED
    BY <1>0, <1>1, <1>3, <2>1, <2>2, <2>3
<1> DEFINE t == b * r + s
<1>6. t \in 0 .. d - 1 /\ n = d * q + t
  BY <1>4, <1>5
<1> HIDE DEF t
<1>7. n \div d = q /\ n % d = t
  BY <1>2, <1>3, <1>6, DivUnique
<1> QED
  BY <1>7 DEF DividedOnce, q, r, s, t

------------------------------------------------------------------------------
(* struct.pack and struct.unpack                                            *)

LEMMA TwoBytes ==
    ASSUME NEW n \in Int
    PROVE  /\ \E a, b \in Nat : Pack(n, 2) = <<a, b>>
           /\ Pack(n, 2) = <<(n \div ByteSpace) % ByteSpace, n % ByteSpace>>
           /\ Unpack2(Pack(n, 2)) = n % B2
<1>1. /\ ByteSpace \in Nat \ {0} /\ Power[0] = 1 /\ Power[1] = ByteSpace
      /\ B2 = ByteSpace * ByteSpace
  BY Powers DEF B2
<1>2. PICK m \in Int : m = n \div ByteSpace
  BY <1>1, DivMod
<1>3. Pack(n, 2) = <<m % ByteSpace, n % ByteSpace>>
  <2>1. n \div 1 = n
    BY DivMod
  <2>2. Pack(n, 2) = [i \in 1..2 |-> (n \div Power[2 - i]) % ByteSpace]
    BY DEF Pack
  <2>3. (n \div Power[2 - 1]) % ByteSpace = m % ByteSpace
        /\ (n \div Power[2 - 2]) % ByteSpace = n % ByteSpace
    BY <1>1, <1>2, <2>1
  <2> QED
    BY <2>2, <2>3
<1>4. m % ByteSpace \in Nat /\ n % ByteSpace \in Nat
  BY <1>1, <1>2, DivMod
<1>5. Unpack2(Pack(n, 2)) = (m % ByteSpace) * ByteSpace + (n % ByteSpace)
  BY <1>3 DEF Unpack2
<1>6. n % B2 = ByteSpace * (m % ByteSpace) + (n % ByteSpace)
  <2>1. DividedTwice(n, ByteSpace, ByteSpace, B2, m)
    BY <1>1, <1>2 DEF DividedTwice
  <2>2. DividedOnce(n, ByteSpace, ByteSpace, B2, m)
    BY <2>1, DivDiv
  <2> QED
    BY <2>2 DEF DividedOnce
<1> QED
  BY <1>1, <1>2, <1>3, <1>4, <1>5, <1>6

LEMMA FourBytes ==
    ASSUME NEW n \in Int
    PROVE  /\ Pack(n, 4) \in Seq(Nat) /\ Len(Pack(n, 4)) = 4
           /\ Unpack4(Pack(n, 4)) = n % B4
<1> DEFINE p == Pack(n, 4)
<1>1. /\ ByteSpace \in Nat \ {0} /\ B2 \in Nat \ {0}
      /\ Power[0] = 1 /\ Power[1] = ByteSpace /\ Power[2] = B2 /\ Power[3] = B3
      /\ B3 = B2 * ByteSpace /\ B4 = B2 * B2
  BY Powers DEF B2, B3, B4
<1>2. PICK m \in Int : m = n \div B2
  BY <1>1, DivMod
<1>3. n \div B3 = m \div ByteSpace
  <2>1. DividedTwice(n, B2, ByteSpace, B3, m)
    BY <1>1, <1>2 DEF DividedTwice
  <2>2. DividedOnce(n, B2, ByteSpace, B3, m)
    BY <2>1, DivDiv
  <2> QED
    BY <2>2 DEF DividedOnce
<1>4. PICK a, b \in Nat : Pack(m, 2) = <<a, b>>
  BY <1>2, TwoBytes
<1>5. PICK c, d \in Nat : Pack(n, 2) = <<c, d>>
  BY TwoBytes
<1>6. /\ a = (m \div ByteSpace) % ByteSpace /\ b = m % ByteSpace
      /\ c = (n \div ByteSpace) % ByteSpace /\ d = n % ByteSpace
  BY <1>2, <1>4, <1>5, TwoBytes
<1>7. p = [i \in 1..4 |-> (n \div Power[4 - i]) % ByteSpace]
  BY DEF Pack
<1>8. p[1] = a /\ p[2] = b /\ p[3] = c /\ p[4] = d
  <2>1. n \div 1 = n
    BY DivMod
  <2> QED
    BY <1>1, <1>2, <1>3, <1>6, <1>7, <2>1
<1>9. p = <<a, b, c, d>>
  BY <1>7, <1>8
<1> HIDE DEF p
<1>10. p \in Seq(Nat) /\ Len(p) = 4
  BY <1>9
<1>11. Unpack2(p) = Unpack2(<<a, b>>) /\ Unpack2(SubSeq(p, 3, 4)) = Unpack2(<<c, d>>)
  BY <1>9 DEF Unpack2
<1>12. Unpack4(p) = (m % B2) * B2 + (n % B2)
  BY <1>1, <1>2, <1>4, <1>5, <1>11, TwoBytes DEF Unpack4
<1>13. n % B4 = B2 * (m % B2) + (n % B2)
  <2>1. DividedTwice(n, B2, B2, B4, m)
    BY <1>1, <1>2 DEF DividedTwice
  <2>2. DividedOnce(n, B2, B2, B4, m)
    BY <2>1, DivDiv
  <2> QED
    BY <2>2 DEF DividedOnce
<1>14. (m % B2) * B2 = B2 * (m % B2)
  <2>1. m % B2 \in Nat
    BY <1>1, <1>2, DivMod
  <2> QED
    BY <1>1, <2>1
<1>15. Unpack4(p) = n % B4
  BY <1>12, <1>13, <1>14, Zenon
<1> QED
  BY <1>10, <1>15 DEF p

(* A number that two bytes hold, and one that four bytes hold with a sign,  *)
(* come back.                                                               *)
LEMMA SmallMod ==
    ASSUME NEW b \in Nat \ {0}, NEW n \in 0 .. b - 1
    PROVE  n % b = n
  BY DivUnique, n = b * 0 + n

LEMMA SignComesBack ==
    ASSUME NEW n \in -(B4 \div 2) .. B4 \div 2 - 1
    PROVE  n \in Int /\ Signed(n % B4) = n
<1>1. B4 \in Nat \ {0, 1} /\ Power[4] = B4
  BY Powers
<1>2. B4 \div 2 \in Int /\ 2 * (B4 \div 2) <= B4 /\ B4 <= 2 * (B4 \div 2) + 1
  BY <1>1, DivMod
<1>3. n \in Int
  BY <1>2
<1>4. CASE n >= 0
  <2>1. n % B4 = n
    BY <1>1, <1>2, <1>4, SmallMod
  <2> QED
    BY <1>1, <1>2, <1>3, <2>1 DEF Signed
<1>5. CASE n < 0
  <2> DEFINE q == -1
             r == n + B4
  <2>1. q \in Int /\ r \in 0 .. B4 - 1 /\ n = B4 * q + r
    BY <1>1, <1>2, <1>5
  <2> HIDE DEF q, r
  <2>2. n % B4 = r
    BY <1>1, <1>3, <2>1, DivUnique
  <2> QED
    BY <1>1, <1>2, <1>3, <1>5, <2>2 DEF Signed, r
<1> QED
  BY <1>3, <1>4, <1>5

------------------------------------------------------------------------------
(* Inputs: HandleInput undoes BuildInput, kind by kind.                     *)

Undone(x) ==
    /\ BuildInput(x) \in Seq(Nat)
    /\ HandleInput(BuildInput(x)) = x \/ (x.kind = HISTORY_APPEND /\ x.bytes = <<>>)

LEMMA Tagged ==
    ASSUME NEW kind \in Nat, NEW rest \in Seq(Nat)
    PROVE  LET payload == <<kind>> \o rest
           IN  /\ payload \in Seq(Nat) /\ payload # <<>>
               /\ Head(payload) = kind /\ Tail(payload) = rest
  OBVIOUS

LEMMA TwoPairs ==
    ASSUME NEW a \in Nat, NEW b \in Nat, NEW c \in Nat, NEW d \in Nat
    PROVE  /\ <<a, b>> \o <<c, d>> \in Seq(Nat)
           /\ Len(<<a, b>> \o <<c, d>>) = 4
           /\ Unpack2(<<a, b>> \o <<c, d>>) = Unpack2(<<a, b>>)
           /\ Unpack2(SubSeq(<<a, b>> \o <<c, d>>, 3, 4)) = Unpack2(<<c, d>>)
<1> DEFINE s == <<a, b>> \o <<c, d>>
<1>1. s \in Seq(Nat) /\ Len(s) = 4
  OBVIOUS
<1>2. s[1] = a /\ s[2] = b /\ s[3] = c /\ s[4] = d
  OBVIOUS
<1> HIDE DEF s
<1>3. SubSeq(s, 3, 4)[1] = c /\ SubSeq(s, 3, 4)[2] = d
  BY <1>1, <1>2
<1> QED
  BY <1>1, <1>2, <1>3 DEF Unpack2, s

LEMMA ResizeHandled ==
    ASSUME NEW payload \in Seq(Nat), payload # <<>>, Head(payload) = RESIZE, Len(Tail(payload)) = 4
    PROVE  HandleInput(payload) = [kind |-> RESIZE, rows |-> Unpack2(Tail(payload)),
                                   columns |-> Unpack2(SubSeq(Tail(payload), 3, 4))]
  BY DEF HandleInput, InputKinds, DATA, HISTORY_APPEND, RESIZE, SIGNAL, INFO

LEMMA SignalHandled ==
    ASSUME NEW payload \in Seq(Nat), payload # <<>>, Head(payload) = SIGNAL, Len(Tail(payload)) = 4
    PROVE  HandleInput(payload) = [kind |-> SIGNAL, signum |-> Signed(Unpack4(Tail(payload)))]
  BY DEF HandleInput, InputKinds, DATA, HISTORY_APPEND, RESIZE, SIGNAL, INFO

LEMMA BytesUndone ==
    ASSUME NEW x \in [kind : {DATA, HISTORY_APPEND}, bytes : Seq(Nat)]
    PROVE  Undone(x)
<1>1. BuildInput(x) = <<x.kind>> \o x.bytes
  BY DEF BuildInput, DATA, HISTORY_APPEND, RESIZE, SIGNAL, INFO
<1>2. x.kind \in Nat /\ x.bytes \in Seq(Nat)
  BY DEF DATA, HISTORY_APPEND
<1>3. /\ BuildInput(x) \in Seq(Nat) /\ BuildInput(x) # <<>>
      /\ Head(BuildInput(x)) = x.kind /\ Tail(BuildInput(x)) = x.bytes
  BY <1>1, <1>2, Tagged
<1>4. CASE x.kind = DATA
  <2>1. x = [kind |-> DATA, bytes |-> x.bytes]
    BY <1>4
  <2> QED
    BY <1>3, <1>4, <2>1 DEF HandleInput, Undone, InputKinds,
         DATA, HISTORY_APPEND, RESIZE, SIGNAL, INFO
<1>5. CASE x.kind = HISTORY_APPEND /\ x.bytes = <<>>
  BY <1>3, <1>5 DEF Undone
<1>6. CASE x.kind = HISTORY_APPEND /\ x.bytes # <<>>
  <2>1. x = [kind |-> HISTORY_APPEND, bytes |-> x.bytes]
    BY <1>6
  <2> QED
    BY <1>3, <1>6, <2>1 DEF HandleInput, Undone, InputKinds,
         DATA, HISTORY_APPEND, RESIZE, SIGNAL, INFO
<1> QED
  BY <1>4, <1>5, <1>6

LEMMA ResizeUndone ==
    ASSUME NEW x \in [kind : {RESIZE}, rows : Int, columns : Int], Buildable(x)
    PROVE  Undone(x)
<1> DEFINE rest == Pack(x.rows, 2) \o Pack(x.columns, 2)
<1>1. x.rows \in 0 .. B2 - 1 /\ x.columns \in 0 .. B2 - 1 /\ B2 \in Nat \ {0}
  BY Powers DEF Buildable
<1>2. Unpack2(Pack(x.rows, 2)) = x.rows /\ Unpack2(Pack(x.columns, 2)) = x.columns
  BY <1>1, SmallMod, TwoBytes
<1>3. \A n \in Int : \E a, b \in Nat : Pack(n, 2) = <<a, b>>
  BY TwoBytes
<1>4. PICK a, b \in Nat : Pack(x.rows, 2) = <<a, b>>
  BY <1>3
<1>5. PICK c, d \in Nat : Pack(x.columns, 2) = <<c, d>>
  BY <1>3
<1>6. /\ rest \in Seq(Nat) /\ Len(rest) = 4
      /\ Unpack2(rest) = x.rows /\ Unpack2(SubSeq(rest, 3, 4)) = x.columns
  <2>1. rest = <<a, b>> \o <<c, d>>
    BY <1>4, <1>5
  <2>2. Unpack2(<<a, b>>) = x.rows /\ Unpack2(<<c, d>>) = x.columns
    BY <1>2, <1>4, <1>5
  <2> HIDE DEF rest
  <2> QED
    BY <2>1, <2>2, TwoPairs
<1>7. BuildInput(x) = <<RESIZE>> \o rest
  <2>1. BuildInput(x) = <<RESIZE>> \o Pack(x.rows, 2) \o Pack(x.columns, 2)
    BY DEF BuildInput, DATA, HISTORY_APPEND, RESIZE, SIGNAL, INFO
  <2>2. RESIZE \in Nat
    BY DEF RESIZE
  <2>3. <<RESIZE>> \o <<a, b>> \o <<c, d>> = <<RESIZE>> \o (<<a, b>> \o <<c, d>>)
    BY <2>2
  <2> QED
    BY <1>4, <1>5, <2>1, <2>3
<1> HIDE DEF rest
<1>8. RESIZE \in Nat
  BY DEF RESIZE
<1>9. /\ BuildInput(x) \in Seq(Nat) /\ BuildInput(x) # <<>>
      /\ Head(BuildInput(x)) = RESIZE /\ Tail(BuildInput(x)) = rest
  BY <1>6, <1>7, <1>8, Tagged
<1>10. x = [kind |-> RESIZE, rows |-> x.rows, columns |-> x.columns]
  OBVIOUS
<1> QED
  BY <1>6, <1>9, <1>10, ResizeHandled DEF Undone

LEMMA SignalUndone ==
    ASSUME NEW x \in [kind : {SIGNAL}, signum : -(Power[4] \div 2) .. Power[4] \div 2 - 1]
    PROVE  Undone(x)
<1> DEFINE rest == Pack(x.signum, 4)
<1>1. x.signum \in Int /\ Signed(x.signum % B4) = x.signum
  BY SignComesBack, Powers
<1>2. rest \in Seq(Nat) /\ Len(rest) = 4 /\ Signed(Unpack4(rest)) = x.signum
  BY <1>1, FourBytes
<1>3. BuildInput(x) = <<SIGNAL>> \o rest
  BY DEF BuildInput, DATA, HISTORY_APPEND, RESIZE, SIGNAL, INFO
<1> HIDE DEF rest
<1>4. SIGNAL \in Nat
  BY DEF SIGNAL
<1>5. /\ BuildInput(x) \in Seq(Nat) /\ BuildInput(x) # <<>>
      /\ Head(BuildInput(x)) = SIGNAL /\ Tail(BuildInput(x)) = rest
  BY <1>2, <1>3, <1>4, Tagged
<1>6. x = [kind |-> SIGNAL, signum |-> x.signum]
  OBVIOUS
<1> QED
  BY <1>2, <1>5, <1>6, SignalHandled DEF Undone

LEMMA InfoUndone ==
    ASSUME NEW x \in [kind : {INFO}]
    PROVE  Undone(x)
<1>1. BuildInput(x) = <<INFO>> /\ x = [kind |-> INFO]
  BY DEF BuildInput, DATA, HISTORY_APPEND, RESIZE, SIGNAL, INFO
<1> QED
  BY <1>1 DEF HandleInput, Undone, InputKinds,
         DATA, HISTORY_APPEND, RESIZE, SIGNAL, INFO

(* What the server does with the payload of an input is what was meant; an  *)
(* empty HISTORY_APPEND it refuses.                                         *)
LEMMA InputUndone ==
    ASSUME NEW x \in Inputs, Buildable(x)
    PROVE  Undone(x)
<1>1. Payloads \subseteq Seq(Nat) /\ Power[2] \in Nat
  BY WireAssumption, Powers
<1>2. CASE x \in [kind : {DATA, HISTORY_APPEND}, bytes : Payloads]
  BY <1>1, <1>2, BytesUndone
<1>3. CASE x \in [kind : {RESIZE}, rows : 0 .. Power[2], columns : 0 .. Power[2]]
  BY <1>1, <1>3, ResizeUndone
<1>4. CASE x \in [kind : {SIGNAL}, signum : -(Power[4] \div 2) .. Power[4] \div 2 - 1]
  BY <1>4, SignalUndone
<1>5. CASE x \in [kind : {INFO}]
  BY <1>5, InfoUndone
<1> QED
  BY <1>2, <1>3, <1>4, <1>5 DEF Inputs

------------------------------------------------------------------------------
(* Datagrams: what the receiver reads of a packet is the packet, its        *)
(* numbers cut to their fields, or nothing.                                 *)

LEMMA DatagramArrives ==
    ASSUME NEW type \in MessageTypes, NEW sequence, NEW client, NEW payload \in Seq(Nat)
    PROVE  Decode(Received(Encode([type |-> type, sequence |-> sequence, client |-> client,
                                   payload |-> payload])))
              = IF Fits(payload) /\ HeaderSize + Len(payload) <= RecvSize
                THEN [type |-> type, sequence |-> sequence % FieldSpace,
                      client |-> client % FieldSpace, payload |-> payload]
                ELSE Error
<1> DEFINE p == [type |-> type, sequence |-> sequence, client |-> client, payload |-> payload]
           d == [magic |-> TRUE, type |-> type, sequence |-> sequence % FieldSpace,
                 length |-> Len(payload), client |-> client % FieldSpace, body |-> payload]
<1>1. HeaderSize \in Nat /\ RecvSize \in Nat /\ HeaderSize <= RecvSize
  BY WireAssumption
<1>2. CASE ~ Fits(payload)
  <2>1. Encode(p) = Error
    BY <1>2 DEF Encode
  <2> QED
    BY <1>2, <2>1 DEF Decode, Received
<1>3. CASE Fits(payload)
  <2>1. Encode(p) = d
    BY <1>3 DEF Encode
  <2>2. d # Error
    BY DEF Error
  <2>3. Size(d) = HeaderSize + Len(payload)
    BY DEF Size
  <2>4. CASE HeaderSize + Len(payload) <= RecvSize
    <3>1. Received(d) = d
      BY <2>3, <2>4 DEF Received
    <3>2. Decode(d) = [type |-> type, sequence |-> sequence % FieldSpace,
                       client |-> client % FieldSpace, payload |-> payload]
      BY <2>2 DEF Decode, LengthMatches
    <3> QED
      BY <1>3, <2>1, <2>4, <3>1, <3>2
  <2>5. CASE ~ (HeaderSize + Len(payload) <= RecvSize)
    <3> DEFINE cut == [d EXCEPT !.body = SubSeq(payload, 1, RecvSize - HeaderSize)]
    <3>1. Received(d) = cut
      BY <2>2, <2>3, <2>5 DEF Received
    <3>2. Len(cut.body) = RecvSize - HeaderSize /\ cut.length = Len(payload)
      BY <1>1, <2>5
    <3>3. ~ LengthMatches(cut)
      BY <1>1, <2>5, <3>2 DEF LengthMatches
    <3>4. Decode(cut) = Error
      BY <3>3, Zenon DEF Decode
    <3> QED
      BY <2>1, <2>5, <3>1, <3>4
  <2> QED
    BY <2>4, <2>5
<1> QED
  BY <1>2, <1>3

(* _handle_command_input (server.py:121) does with any input what the       *)
(* client meant, or the datagram is refused as a whole: recvfrom (server.py *)
(* :92) may cut a datagram, but never what a command means.                 *)
THEOREM WholeOrNothing == InputsArriveWhole
<1> SUFFICES ASSUME NEW x \in Inputs, Buildable(x)
             PROVE  LET p == [type |-> 1, sequence |-> 1, client |-> 1, payload |-> BuildInput(x)]
                        read == Decode(Received(Encode(p)))
                    IN  IF Fits(p.payload) /\ HeaderSize + Len(p.payload) <= RecvSize
                        THEN x = HandleInput(read.payload)
                             \/ (x.kind = HISTORY_APPEND /\ x.bytes = <<>>)
                        ELSE read = Error
  BY DEF InputsArriveWhole
<1> DEFINE payload == BuildInput(x)
           read == Decode(Received(Encode([type |-> 1, sequence |-> 1, client |-> 1,
                                           payload |-> payload])))
<1>1. payload \in Seq(Nat)
  BY InputUndone DEF Undone
<1>2. HandleInput(payload) = x \/ (x.kind = HISTORY_APPEND /\ x.bytes = <<>>)
  BY InputUndone DEF Undone
<1> HIDE DEF payload
<1>3. 1 \in MessageTypes
  BY DEF MessageTypes
<1>4. read = IF Fits(payload) /\ HeaderSize + Len(payload) <= RecvSize
             THEN [type |-> 1, sequence |-> 1 % FieldSpace, client |-> 1 % FieldSpace,
                   payload |-> payload]
             ELSE Error
  BY <1>1, <1>3, DatagramArrives
<1> HIDE DEF read
<1>5. IF Fits(payload) /\ HeaderSize + Len(payload) <= RecvSize
      THEN x = HandleInput(read.payload) \/ (x.kind = HISTORY_APPEND /\ x.bytes = <<>>)
      ELSE read = Error
  BY <1>2, <1>4
<1> QED
  BY <1>5 DEF read, payload
==============================================================================
