------------------------- MODULE MessageCodec_proofs -------------------------
(***************************************************************************)
(* Proofs about MessageCodec.  Whatever payload arrives, decode() makes no  *)
(* read out of range, the registry hands it to the class of its type, the   *)
(* payload that encode() returns has every field in its place, and a        *)
(* message that is encoded and sent on is decoded to the same message.  At  *)
(* the end, proofs about PositionReports, which rest on the same layouts: a *)
(* vessel is located where it was when it sent its report.                  *)
(*                                                                          *)
(* The argument rests on the layouts: for each class, lemmas Layout* give   *)
(* the place of every write of encode() after the header and match it with  *)
(* the read of decode() at that place.  A field of any width then survives, *)
(* because its bits are found where they were written (FlattenSeq of the    *)
(* writes), in the bytes, and in the six-bit characters of the payload.     *)
(***************************************************************************)
EXTENDS MessageCodec, PositionReports, SequenceTheorems, WellFoundedInduction, TLAPS

-----------------------------------------------------------------------------
(* What holds at 0 and is passed on from each place to the next holds at all*)
(* places of a sequence of length n.                                        *)
LEMMA AllPlaces ==
  ASSUME NEW n \in Nat, NEW T, 0 \in T, \A i \in 1 .. n : i - 1 \in T => i \in T
  PROVE  0 .. n \subseteq T
<1>1. SUFFICES ASSUME NEW k \in 0 .. n, k \notin T PROVE FALSE
  OBVIOUS
<1> DEFINE B == {i \in Nat : i <= n /\ i \notin T}
<1>2. PICK m \in B : \A y \in B : ~(<<y, m>> \in OpToRel(<, Nat))
  <2>1. B # {} /\ B \subseteq Nat
    BY <1>1
  <2>2. IsWellFoundedOn(OpToRel(<, Nat), Nat)
    BY NatLessThanWellFounded
  <2> HIDE DEF B
  <2> QED
    BY <2>1, <2>2, WFMin
<1>3. m - 1 \in B /\ m \in Nat
  <2>1. m \in 1 .. n
    OBVIOUS
  <2> QED
    BY <2>1
<1>4. <<m - 1, m>> \in OpToRel(<, Nat)
  BY <1>3 DEF OpToRel
<1> QED
  BY <1>2, <1>3, <1>4

(* Pieces are joined one after the other: each is found at its place, which *)
(* is where the one before it ends.                                         *)
Places(ps, P) ==
  /\ P \in [0 .. Len(ps) -> Nat] /\ P[0] = 0
  /\ \A i \in 1 .. Len(ps) : P[i] = P[i - 1] + Len(ps[i])

Found(ps, P, n, s) ==
  /\ Len(s) = P[n]
  /\ \A i \in 1 .. n : /\ P[i] <= P[n]
                       /\ \A j \in 1 .. Len(ps[i]) : s[P[i - 1] + j] = ps[i][j]

LEMMA Appended ==
  ASSUME NEW T, NEW s \in Seq(T), NEW q \in Seq(T)
  PROVE  /\ s \o q \in Seq(T) /\ Len(s \o q) = Len(s) + Len(q)
         /\ \A j \in 1 .. Len(s) : (s \o q)[j] = s[j]
         /\ \A j \in 1 .. Len(q) : (s \o q)[Len(s) + j] = q[j]
<1>1. /\ s \o q \in Seq(T) /\ Len(s \o q) = Len(s) + Len(q)
      /\ \A j \in 1 .. Len(s) + Len(q) :
            (s \o q)[j] = IF j <= Len(s) THEN s[j] ELSE q[j - Len(s)]
  BY ConcatProperties
<1>2. Len(s) \in Nat /\ Len(q) \in Nat
  OBVIOUS
<1>3. \A j \in 1 .. Len(s) : (s \o q)[j] = s[j]
  BY <1>1, <1>2
<1>4. ASSUME NEW j \in 1 .. Len(q)
      PROVE  (s \o q)[Len(s) + j] = q[j]
  <2>1. /\ Len(s) + j \in 1 .. Len(s) + Len(q) /\ ~(Len(s) + j <= Len(s))
        /\ Len(s) + j - Len(s) = j
    BY <1>2
  <2> QED
    BY <1>1, <2>1
<1> QED
  BY <1>1, <1>3, <1>4

LEMMA JoinedPrefix ==
  ASSUME NEW T, NEW ps \in Seq(Seq(T)), NEW P, Places(ps, P), NEW n \in 1 .. Len(ps),
         NEW s \in Seq(T), n > 1 => Found(ps, P, n - 1, s)
  PROVE  /\ n > 1 => s \o ps[n] \in Seq(T) /\ Found(ps, P, n, s \o ps[n])
         /\ n = 1 => ps[n] \in Seq(T) /\ Found(ps, P, n, ps[n])
<1>1. ASSUME NEW i \in 1 .. Len(ps)
      PROVE  /\ ps[i] \in Seq(T) /\ Len(ps[i]) \in Nat
             /\ P[i] = P[i - 1] + Len(ps[i]) /\ P[i] \in Nat /\ P[i - 1] \in Nat
  <2>1. ps[i] \in Seq(T)
    OBVIOUS
  <2>2. Len(ps[i]) \in Nat
    BY <2>1
  <2>3. i \in 0 .. Len(ps) /\ i - 1 \in 0 .. Len(ps)
    OBVIOUS
  <2> QED
    BY <2>1, <2>2, <2>3 DEF Places
<1> DEFINE q == ps[n]
<1>2. q \in Seq(T) /\ P[n] = P[n - 1] + Len(q) /\ Len(q) \in Nat /\ P[n - 1] \in Nat
  BY <1>1
<1>3. CASE n = 1
  <2>1. P[n - 1] = 0
    BY <1>3 DEF Places
  <2> HIDE DEF q
  <2>2. Len(q) = P[n] /\ P[n] <= P[n] /\ \A j \in 1 .. Len(q) : q[P[n - 1] + j] = q[j]
    BY <1>2, <2>1
  <2> QED
    BY <1>2, <1>3, <2>2 DEF Found, q
<1>4. CASE n > 1
  <2> DEFINE w == s \o q
  <2>1. /\ w \in Seq(T) /\ Len(w) = Len(s) + Len(q)
        /\ \A j \in 1 .. Len(s) : w[j] = s[j]
        /\ \A j \in 1 .. Len(q) : w[Len(s) + j] = q[j]
    <3> HIDE DEF q
    <3> QED
      BY <1>2, Appended
  <2>2. Len(s) = P[n - 1]
    BY <1>4 DEF Found
  <2> HIDE DEF w, q
  <2>3. ASSUME NEW i \in 1 .. n
        PROVE  /\ P[i] <= P[n]
               /\ \A j \in 1 .. Len(ps[i]) : w[P[i - 1] + j] = ps[i][j]
    <3>1. CASE i = n
      BY <1>2, <2>1, <2>2, <3>1 DEF q
    <3>2. CASE i # n
      <4>1. i \in 1 .. n - 1 /\ i \in 1 .. Len(ps)
        BY <3>2
      <4>2. P[i] = P[i - 1] + Len(ps[i]) /\ P[i - 1] \in Nat /\ Len(ps[i]) \in Nat
        BY <1>1, <4>1
      <4>3. P[i] <= P[n - 1] /\ \A j \in 1 .. Len(ps[i]) : s[P[i - 1] + j] = ps[i][j]
        BY <1>4, <4>1 DEF Found
      <4>4. ASSUME NEW j \in 1 .. Len(ps[i])
            PROVE  P[i - 1] + j \in 1 .. Len(s)
        <5>1. PICK a, b, c : a = P[i - 1] /\ b = Len(ps[i]) /\ c = Len(s)
          OBVIOUS
        <5>2. a \in Nat /\ b \in Nat /\ c \in Nat /\ j \in 1 .. b /\ a + b <= c
          BY <1>2, <2>2, <4>2, <4>3, <5>1
        <5>3. a + j \in 1 .. c
          BY <5>2
        <5> QED
          BY <5>1, <5>3
      <4>5. P[i] <= P[n]
        <5>1. PICK a, b, c, d, e :
                a = P[i] /\ b = P[n - 1] /\ c = P[n] /\ d = Len(q) /\ e = Len(ps[i])
          OBVIOUS
        <5>2. a \in Nat /\ a <= b
          BY <4>2, <4>3, <5>1
        <5>3. b \in Nat /\ d \in Nat /\ c = b + d
          BY <1>2, <5>1
        <5>4. a <= c
          BY <5>2, <5>3
        <5> QED
          BY <5>1, <5>4
      <4> QED
        BY <2>1, <4>3, <4>4, <4>5
    <3> QED
      BY <3>1, <3>2
  <2>4. Len(w) = P[n]
    BY <1>2, <2>1, <2>2
  <2>5. Found(ps, P, n, w)
    BY <2>3, <2>4 DEF Found
  <2> QED
    BY <1>4, <2>1, <2>5 DEF w, q
<1> QED
  BY <1>3, <1>4

LEMMA Joined ==
  ASSUME NEW T, NEW ps \in Seq(Seq(T)), ps # <<>>, NEW P, Places(ps, P)
  PROVE  FlattenSeq(ps) \in Seq(T) /\ Found(ps, P, Len(ps), FlattenSeq(ps))
<1> DEFINE k == Len(ps)
           Joins(f, n) == f = [i \in 1 .. n |-> IF i = 1 THEN ps[i] ELSE f[i - 1] \o ps[i]]
           J == {n \in 0 .. k : \E f : Joins(f, n)}
<1>1. k \in Nat /\ k >= 1
  OBVIOUS
<1> HIDE DEF k
<1>2. 0 \in J
  <2>1. Joins([i \in 1 .. 0 |-> <<>>], 0)
    OBVIOUS
  <2>2. 0 \in 0 .. k
    BY <1>1
  <2> HIDE DEF Joins
  <2> QED
    BY <2>1, <2>2
<1>3. ASSUME NEW n \in 1 .. k, n - 1 \in J
      PROVE  n \in J
  <2>1. PICK f : Joins(f, n - 1)
    BY <1>3
  <2> DEFINE e == IF n = 1 THEN ps[n] ELSE f[n - 1] \o ps[n]
             g == [i \in 1 .. n |-> IF i = n THEN e ELSE f[i]]
  <2>2. ASSUME NEW i \in 1 .. n
        PROVE  g[i] = IF i = 1 THEN ps[i] ELSE g[i - 1] \o ps[i]
    <3>1. CASE i = n
      <4>1. i # 1 => i - 1 \in 1 .. n /\ i - 1 # n
        BY <3>1
      <4>2. i # 1 => g[i - 1] = f[i - 1]
        BY <4>1
      <4>3. g[i] = e
        BY <3>1
      <4> HIDE DEF g
      <4> QED
        BY <3>1, <4>2, <4>3
    <3>2. CASE i # n
      <4>1. i \in 1 .. n - 1 /\ (i # 1 => i - 1 \in 1 .. n /\ i - 1 # n)
        BY <3>2
      <4>2. g[i] = f[i] /\ (i # 1 => g[i - 1] = f[i - 1])
        BY <3>2, <4>1
      <4>3. f[i] = IF i = 1 THEN ps[i] ELSE f[i - 1] \o ps[i]
        BY <2>1, <4>1
      <4> HIDE DEF g
      <4> QED
        BY <4>2, <4>3
    <3> QED
      BY <3>1, <3>2
  <2>3. g = [i \in 1 .. n |-> g[i]]
    OBVIOUS
  <2> HIDE DEF g
  <2>4. Joins(g, n)
    BY <2>2, <2>3
  <2> HIDE DEF Joins
  <2> QED
    BY <2>4
<1>4. PICK f : Joins(f, k)
  <2> HIDE DEF J
  <2>1. 0 .. k \subseteq J
    BY <1>1, <1>2, <1>3, AllPlaces
  <2>2. k \in J
    BY <1>1, <2>1
  <2> QED
    BY <2>2 DEF J
<1> DEFINE flatten == CHOOSE h : Joins(h, k)
<1>5. Joins(flatten, k)
  <2> HIDE DEF Joins
  <2> QED
    BY <1>4
<1>6. FlattenSeq(ps) = flatten[k]
  BY <1>1 DEF FlattenSeq, k
<1> HIDE DEF flatten
<1>7. ASSUME NEW i \in 1 .. k
      PROVE  flatten[i] = IF i = 1 THEN ps[i] ELSE flatten[i - 1] \o ps[i]
  BY <1>5
<1> HIDE DEF Joins, J
<1> DEFINE U == {n \in 0 .. k : n > 0 => flatten[n] \in Seq(T) /\ Found(ps, P, n, flatten[n])}
<1>8. 0 \in U
  BY <1>1
<1>9. ASSUME NEW n \in 1 .. k, n - 1 \in U
      PROVE  n \in U
  <2>1. CASE n = 1
    <3>1. <<>> \in Seq(T)
      OBVIOUS
    <3>2. ps[n] \in Seq(T) /\ Found(ps, P, n, ps[n])
      BY <2>1, <3>1, JoinedPrefix DEF k
    <3> QED
      BY <1>7, <2>1, <3>2
  <2>2. CASE n > 1
    <3>1. flatten[n - 1] \in Seq(T) /\ Found(ps, P, n - 1, flatten[n - 1])
      BY <1>9, <2>2
    <3>2. /\ flatten[n - 1] \o ps[n] \in Seq(T)
          /\ Found(ps, P, n, flatten[n - 1] \o ps[n])
      BY <2>2, <3>1, JoinedPrefix DEF k
    <3>3. flatten[n] = flatten[n - 1] \o ps[n]
      <4>1. n # 1
        BY <2>2
      <4> QED
        BY <1>7, <4>1
    <3>4. flatten[n] \in Seq(T) /\ Found(ps, P, n, flatten[n])
      BY <3>2, <3>3
    <3>5. n \in 0 .. k
      BY <1>1
    <3> QED
      BY <3>4, <3>5
  <2> QED
    BY <2>1, <2>2
<1> HIDE DEF U
<1>10. k \in U
  <2>1. 0 .. k \subseteq U
    BY <1>1, <1>8, <1>9, AllPlaces
  <2> QED
    BY <1>1, <2>1
<1> QED
  BY <1>1, <1>6, <1>10 DEF U, k
-----------------------------------------------------------------------------
(* Bits and characters.                                                     *)
Symbols == {<<"received", i>> : i \in Nat} \cup {Bit(0), Bit(1)}
Bits == Seq(Symbols)
Six == {s \in Bits : Len(s) = 6}

LEMMA NumbersAreBits ==
  ASSUME NEW n \in Nat, NEW w \in 0 .. 8
  PROVE  NumberBits(n, w) \in Bits /\ Len(NumberBits(n, w)) = w
<1>1. ASSUME NEW i \in 1 .. w
      PROVE  Bit((n \div Weight[w - i + 1]) % 2) \in Symbols
  <2>1. w - i + 1 \in 1 .. 8
    OBVIOUS
  <2>2. Weight[w - i + 1] \in Nat \ {0}
    BY <2>1 DEF Weight
  <2>3. PICK d \in Nat \ {0} : d = Weight[w - i + 1]
    BY <2>2
  <2>4. n \div d \in Nat
    OBVIOUS
  <2>5. (n \div d) % 2 \in {0, 1}
    BY <2>4
  <2> QED
    BY <2>3, <2>5 DEF Symbols
<1> QED
  BY <1>1 DEF NumberBits, Bits

LEMMA ZerosAreBits ==
  ASSUME NEW n \in Nat
  PROVE  Zeros(n) \in Bits /\ Len(Zeros(n)) = n /\ \A i \in 1 .. n : Zeros(n)[i] = Bit(0)
BY DEF Zeros, Bits, Symbols

LEMMA PieceOfBits ==
  ASSUME NEW T, NEW s \in Seq(T), NEW m \in Nat, NEW n \in Nat,
         m >= 1, n <= Len(s), n + 1 >= m
  PROVE  /\ SubSeq(s, m, n) \in Seq(T) /\ Len(SubSeq(s, m, n)) = n + 1 - m
         /\ \A i \in 1 .. n + 1 - m : SubSeq(s, m, n)[i] = s[m + i - 1]
<1>1. \A i \in m .. n : s[i] \in T
  OBVIOUS
<1> QED
  BY <1>1, SubSeqProperties

(* Two sequences of one length whose elements are the same are one.         *)
LEMMA SameSequence ==
  ASSUME NEW T, NEW s \in Seq(T), NEW q \in Seq(T), Len(s) = Len(q),
         \A i \in 1 .. Len(s) : s[i] = q[i]
  PROVE  s = q
BY SeqEqual

(* The characters of a string of bits, and the bits of its characters.      *)
LEMMA CharactersOfBits ==
  ASSUME NEW b \in Bits
  PROVE  /\ Characters(b) \in Seq(Six) /\ Len(Characters(b)) = Len(b) \div 6
         /\ \A i \in 1 .. Len(b) \div 6 : \A j \in 1 .. 6 :
              Characters(b)[i][j] = b[6 * (i - 1) + j]
<1> DEFINE k == Len(b) \div 6
<1>1. Len(b) \in Nat /\ k \in Nat /\ 6 * k <= Len(b)
  OBVIOUS
<1>2. Characters(b) = [i \in 1 .. k |-> SubSeq(b, 6 * i - 5, 6 * i)]
  BY DEF Characters
<1> HIDE DEF k
<1>3. ASSUME NEW i \in 1 .. k
      PROVE  /\ SubSeq(b, 6 * i - 5, 6 * i) \in Six
             /\ \A j \in 1 .. 6 : SubSeq(b, 6 * i - 5, 6 * i)[j] = b[6 * (i - 1) + j]
  <2>1. PICK m, n : m = 6 * i - 5 /\ n = 6 * i
    OBVIOUS
  <2>2. m \in Nat /\ n \in Nat /\ m >= 1 /\ n <= Len(b) /\ n + 1 >= m /\ n + 1 - m = 6
    BY <1>1, <2>1
  <2>3. /\ SubSeq(b, m, n) \in Seq(Symbols) /\ Len(SubSeq(b, m, n)) = 6
        /\ \A j \in 1 .. 6 : SubSeq(b, m, n)[j] = b[m + j - 1]
    BY <2>2, PieceOfBits DEF Bits
  <2>4. \A j \in 1 .. 6 : m + j - 1 = 6 * (i - 1) + j
    BY <2>1
  <2> QED
    BY <2>1, <2>3, <2>4 DEF Six, Bits
<1>4. Characters(b) \in Seq(Six) /\ Len(Characters(b)) = k
  BY <1>1, <1>2, <1>3
<1> QED
  BY <1>2, <1>3, <1>4 DEF k

LEMMA BitsOfCharacters ==
  ASSUME NEW chars \in Seq(Six), chars # <<>>
  PROVE  /\ FlattenSeq(chars) \in Bits /\ Len(FlattenSeq(chars)) = 6 * Len(chars)
         /\ \A i \in 1 .. Len(chars) : \A j \in 1 .. 6 :
              FlattenSeq(chars)[6 * (i - 1) + j] = chars[i][j]
<1> DEFINE P == [i \in 0 .. Len(chars) |-> 6 * i]
<1>1. chars \in Seq(Seq(Symbols)) /\ \A i \in 1 .. Len(chars) : Len(chars[i]) = 6
  <2>1. Six \subseteq Seq(Symbols)
    BY DEF Six, Bits
  <2>2. \A i \in 1 .. Len(chars) : chars[i] \in Six
    OBVIOUS
  <2> QED
    BY <2>1, <2>2 DEF Six
<1>2. Len(chars) \in Nat
  OBVIOUS
<1>3. Places(chars, P)
  <2>1. P \in [0 .. Len(chars) -> Nat] /\ P[0] = 0
    BY <1>2
  <2>2. ASSUME NEW i \in 1 .. Len(chars)
        PROVE  P[i] = P[i - 1] + Len(chars[i])
    <3>1. i \in 0 .. Len(chars) /\ i - 1 \in 0 .. Len(chars)
      BY <1>2
    <3>2. P[i] = 6 * i /\ P[i - 1] = 6 * (i - 1)
      BY <3>1
    <3>3. 6 * i = 6 * (i - 1) + 6 /\ Len(chars[i]) = 6
      BY <1>1
    <3> HIDE DEF P
    <3> QED
      BY <3>2, <3>3
  <2> QED
    BY <2>1, <2>2 DEF Places
<1>4. \A i \in 1 .. Len(chars) : P[i - 1] = 6 * (i - 1)
  BY <1>2
<1>5. P[Len(chars)] = 6 * Len(chars)
  BY <1>2
<1> HIDE DEF P
<1>6. FlattenSeq(chars) \in Seq(Symbols) /\ Found(chars, P, Len(chars), FlattenSeq(chars))
  BY <1>1, <1>3, Joined
<1> QED
  BY <1>1, <1>4, <1>5, <1>6 DEF Found, Bits

(* Where a bit of a string of characters lies.                              *)
LEMMA CharacterOf ==
  ASSUME NEW n \in Nat, NEW q \in 1 .. 6 * n
  PROVE  \E i \in 1 .. n : \E j \in 1 .. 6 : q = 6 * (i - 1) + j
<1>1. (q - 1) \div 6 + 1 \in 1 .. n /\ ((q - 1) % 6) + 1 \in 1 .. 6
  OBVIOUS
<1>2. q = 6 * ((q - 1) \div 6 + 1 - 1) + (((q - 1) % 6) + 1)
  OBVIOUS
<1> QED
  BY <1>1, <1>2

LEMMA BitsAgain ==
  ASSUME NEW b \in Bits, b # <<>>, Len(b) % 6 = 0
  PROVE  FlattenSeq(Characters(b)) = b
<1>1. PICK n \in Nat : Len(b) = 6 * n /\ Len(b) \div 6 = n /\ n > 0
  <2>1. Len(b) \in Nat /\ Len(b) > 0
    BY DEF Bits
  <2> QED
    BY <2>1
<1>2. /\ Characters(b) \in Seq(Six) /\ Len(Characters(b)) = n
      /\ \A i \in 1 .. n : \A j \in 1 .. 6 : Characters(b)[i][j] = b[6 * (i - 1) + j]
  BY <1>1, CharactersOfBits
<1>3. PICK c : c = Characters(b)
  OBVIOUS
<1>4. c \in Seq(Six) /\ c # <<>> /\ Len(c) = n
  BY <1>1, <1>2, <1>3
<1>5. /\ FlattenSeq(c) \in Bits /\ Len(FlattenSeq(c)) = 6 * n
      /\ \A i \in 1 .. n : \A j \in 1 .. 6 : FlattenSeq(c)[6 * (i - 1) + j] = c[i][j]
  BY <1>4, BitsOfCharacters
<1>6. ASSUME NEW q \in 1 .. 6 * n
      PROVE  FlattenSeq(c)[q] = b[q]
  <2>1. PICK i \in 1 .. n, j \in 1 .. 6 : q = 6 * (i - 1) + j
    BY CharacterOf
  <2> QED
    BY <1>2, <1>3, <1>5, <2>1
<1> QED
  BY <1>1, <1>3, <1>5, <1>6, SameSequence DEF Bits

LEMMA CharactersAgain ==
  ASSUME NEW chars \in Seq(Six), chars # <<>>
  PROVE  Characters(FlattenSeq(chars)) = chars
<1>1. PICK n \in Nat : n = Len(chars)
  OBVIOUS
<1>2. PICK b : b = FlattenSeq(chars)
  OBVIOUS
<1>3. /\ b \in Bits /\ Len(b) = 6 * n
      /\ \A i \in 1 .. n : \A j \in 1 .. 6 : b[6 * (i - 1) + j] = chars[i][j]
  BY <1>1, <1>2, BitsOfCharacters
<1>4. Len(b) \div 6 = n
  BY <1>3
<1>5. /\ Characters(b) \in Seq(Six) /\ Len(Characters(b)) = n
      /\ \A i \in 1 .. n : \A j \in 1 .. 6 : Characters(b)[i][j] = b[6 * (i - 1) + j]
  BY <1>3, <1>4, CharactersOfBits
<1>6. ASSUME NEW i \in 1 .. n
      PROVE  Characters(b)[i] = chars[i]
  <2>1. Characters(b)[i] \in Six /\ chars[i] \in Six
    BY <1>1, <1>5
  <2>2. PICK c, d : c = Characters(b)[i] /\ d = chars[i]
    OBVIOUS
  <2>3. c \in Seq(Symbols) /\ d \in Seq(Symbols) /\ Len(c) = 6 /\ Len(d) = 6
    BY <2>1, <2>2 DEF Six, Bits
  <2>4. \A j \in 1 .. 6 : c[j] = d[j]
    BY <1>3, <1>5, <2>2
  <2>5. c = d
    BY <2>3, <2>4, SameSequence
  <2> QED
    BY <2>2, <2>5
<1> QED
  BY <1>1, <1>2, <1>5, <1>6, SameSequence
-----------------------------------------------------------------------------
(* Bits in whole bytes, and payloads.                                       *)
LEMMA Filled ==
  ASSUME NEW b \in Bits
  PROVE  /\ InBytes(b) \in Bits /\ Len(InBytes(b)) = 8 * Bytes(Len(b))
         /\ 8 * Bytes(Len(b)) >= Len(b)
         /\ \A i \in 1 .. Len(b) : InBytes(b)[i] = b[i]
         /\ \A i \in Len(b) + 1 .. 8 * Bytes(Len(b)) : InBytes(b)[i] = Bit(0)
<1>1. PICK n, e : n = Len(b) /\ e = 8 * Bytes(Len(b))
  OBVIOUS
<1>2. n \in Nat /\ e \in Nat /\ e >= n
  BY <1>1 DEF Bits, Bytes
<1>3. PICK z : z = Zeros(e - n)
  OBVIOUS
<1>4. z \in Bits /\ Len(z) = e - n /\ \A i \in 1 .. e - n : z[i] = Bit(0)
  BY <1>2, <1>3, ZerosAreBits
<1>5. InBytes(b) = b \o z
  BY <1>1, <1>3 DEF InBytes
<1>6. /\ b \o z \in Bits /\ Len(b \o z) = Len(b) + Len(z)
      /\ \A j \in 1 .. Len(b) : (b \o z)[j] = b[j]
      /\ \A j \in 1 .. Len(z) : (b \o z)[Len(b) + j] = z[j]
  <2>1. b \in Seq(Symbols) /\ z \in Seq(Symbols)
    BY <1>4 DEF Bits
  <2> QED
    BY <2>1, Appended DEF Bits
<1>7. ASSUME NEW i \in n + 1 .. e
      PROVE  (b \o z)[i] = Bit(0)
  <2>1. i - n \in 1 .. e - n /\ n + (i - n) = i
    BY <1>2
  <2>2. (b \o z)[n + (i - n)] = z[i - n]
    BY <1>1, <1>4, <1>6, <2>1
  <2> QED
    BY <1>4, <2>1, <2>2
<1> QED
  BY <1>1, <1>2, <1>4, <1>5, <1>6, <1>7

Sendable(p) ==
  p.error = "Ok" /\ p.chars \in Seq(Six \cup {Garbled}) /\ p.fill_bits \in 0 .. 5

Armoured(p) == p.chars \in Seq(Six) /\ p.chars # <<>> /\ p.fill_bits \in 0 .. 5

LEMMA ArmouredDecoded ==
  ASSUME NEW p, Armoured(p), Garbled \notin ToSet(p.chars)
  PROVE  LET n == SignificantBits(p)
             d == decode_payload(p)
         IN  /\ n \in Nat \ {0} /\ n = 6 * Len(p.chars) - p.fill_bits
             /\ d.error = "Ok" /\ d.buffer \in Bits /\ Len(d.buffer) = 8 * Bytes(n)
             /\ 8 * Bytes(n) >= n
             /\ \A i \in 1 .. n : d.buffer[i] = FlattenSeq(p.chars)[i]
             /\ \A i \in n + 1 .. 8 * Bytes(n) : d.buffer[i] = Bit(0)
<1>1. PICK n, s, c : n = SignificantBits(p) /\ s = FlattenSeq(p.chars) /\ c = p.chars
  OBVIOUS
<1>2. Len(c) \in Nat /\ Len(c) >= 1
  BY <1>1 DEF Armoured
<1>3. n = 6 * Len(c) - p.fill_bits /\ n \in Nat \ {0} /\ n <= 6 * Len(c)
  BY <1>1, <1>2 DEF SignificantBits, Armoured
<1>4. s \in Seq(Symbols) /\ Len(s) = 6 * Len(c)
  BY <1>1, BitsOfCharacters DEF Armoured, Bits
<1>5. PICK b : b = SubSeq(s, 1, n)
  OBVIOUS
<1>6. b \in Bits /\ Len(b) = n /\ \A i \in 1 .. n : b[i] = s[i]
  <2>1. n \in Nat /\ 1 \in Nat /\ 1 >= 1 /\ n <= Len(s) /\ n + 1 >= 1 /\ n + 1 - 1 = n
    BY <1>3, <1>4
  <2>2. /\ SubSeq(s, 1, n) \in Seq(Symbols) /\ Len(SubSeq(s, 1, n)) = n
        /\ \A i \in 1 .. n : SubSeq(s, 1, n)[i] = s[1 + i - 1]
    BY <1>4, <2>1, PieceOfBits
  <2>3. \A i \in 1 .. n : 1 + i - 1 = i
    BY <1>3
  <2> QED
    BY <1>5, <2>2, <2>3 DEF Bits
<1>7. /\ InBytes(b) \in Bits /\ Len(InBytes(b)) = 8 * Bytes(n) /\ 8 * Bytes(n) >= n
      /\ \A i \in 1 .. n : InBytes(b)[i] = b[i]
      /\ \A i \in n + 1 .. 8 * Bytes(n) : InBytes(b)[i] = Bit(0)
  BY <1>6, Filled
<1>8. decode_payload(p) = [error |-> "Ok", buffer |-> InBytes(b)]
  BY <1>1, <1>5 DEF decode_payload, Armoured
<1> QED
  BY <1>1, <1>3, <1>6, <1>7, <1>8

LEMMA GarbledIsNone == Garbled \notin Six
<1>1. 0 \in Nat /\ 7 \in 0 .. 8
  OBVIOUS
<1>2. Len(Garbled) = 7
  BY <1>1, NumbersAreBits DEF Garbled
<1> QED
  BY <1>2 DEF Six

LEMMA PayloadDecoded ==
  ASSUME NEW p, Sendable(p)
  PROVE  LET d == decode_payload(p)
         IN  /\ d.error \in {"Ok", "PayloadEmpty", "PayloadCharInvalid"}
             /\ d.error = "Ok" => d.buffer \in Bits /\ Len(d.buffer) \in Nat
<1>1. CASE p.chars = <<>>
  BY <1>1 DEF decode_payload
<1>2. CASE p.chars # <<>> /\ Garbled \in ToSet(p.chars)
  BY <1>2 DEF decode_payload
<1>3. CASE p.chars # <<>> /\ Garbled \notin ToSet(p.chars)
  <2>1. \A i \in 1 .. Len(p.chars) : p.chars[i] \in Six
    BY <1>3 DEF Sendable, ToSet
  <2>2. p.chars \in Seq(Six)
    BY <2>1 DEF Sendable
  <2>3. Armoured(p)
    BY <1>3, <2>2 DEF Sendable, Armoured
  <2>4. decode_payload(p).error = "Ok" /\ decode_payload(p).buffer \in Bits
    BY <1>3, <2>3, ArmouredDecoded
  <2> QED
    BY <2>4 DEF Bits
<1> QED
  BY <1>1, <1>2, <1>3

(* A receiver of encode_payload()'s payload decodes the bits that were      *)
(* encoded.                                                                 *)
LEMMA Transferred ==
  ASSUME NEW b \in Bits, NEW n \in Nat \ {0}, Len(b) >= 8 * Bytes(n)
  PROVE  LET p == encode_payload(b, n)
             d == decode_payload(p)
         IN  /\ Sendable(p) /\ SignificantBits(p) = n
             /\ d.error = "Ok" /\ d.buffer \in Bits /\ Len(d.buffer) = 8 * Bytes(n)
             /\ 8 * Bytes(n) >= n
             /\ \A i \in 1 .. n : d.buffer[i] = b[i]
             /\ \A i \in n + 1 .. 8 * Bytes(n) : d.buffer[i] = Bit(0)
<1>1. PICK f : f = FillBits(n)
  OBVIOUS
<1>2. f \in 0 .. 5 /\ (n + f) % 6 = 0 /\ n + f >= 6
  BY <1>1 DEF FillBits
<1>3. 8 * Bytes(n) >= n /\ n <= Len(b) /\ Len(b) \in Nat
  BY DEF Bytes, Bits
<1>4. PICK s, z : s = SubSeq(b, 1, n) /\ z = Zeros(f)
  OBVIOUS
<1>5. s \in Seq(Symbols) /\ Len(s) = n /\ \A i \in 1 .. n : s[i] = b[i]
  <2>1. n \in Nat /\ 1 \in Nat /\ 1 >= 1 /\ n + 1 >= 1 /\ n + 1 - 1 = n
    OBVIOUS
  <2>2. /\ SubSeq(b, 1, n) \in Seq(Symbols) /\ Len(SubSeq(b, 1, n)) = n
        /\ \A i \in 1 .. n : SubSeq(b, 1, n)[i] = b[1 + i - 1]
    BY <1>3, <2>1, PieceOfBits DEF Bits
  <2>3. \A i \in 1 .. n : 1 + i - 1 = i
    OBVIOUS
  <2> QED
    BY <1>4, <2>2, <2>3
<1>6. z \in Seq(Symbols) /\ Len(z) = f
  BY <1>2, <1>4, ZerosAreBits DEF Bits
<1>7. PICK w : w = s \o z
  OBVIOUS
<1>8. /\ w \in Seq(Symbols) /\ Len(w) = n + f
      /\ \A i \in 1 .. n : w[i] = b[i]
  <2>1. /\ s \o z \in Seq(Symbols) /\ Len(s \o z) = Len(s) + Len(z)
        /\ \A i \in 1 .. Len(s) : (s \o z)[i] = s[i]
    BY <1>5, <1>6, Appended
  <2> QED
    BY <1>5, <1>6, <1>7, <2>1
<1>9. PICK c : c = Characters(w)
  OBVIOUS
<1>10. encode_payload(b, n) = Payload(c, f)
  <2>1. ~(Len(b) < 8 * Bytes(n))
    BY <1>3 DEF Bytes
  <2> QED
    BY <1>1, <1>4, <1>7, <1>9, <2>1 DEF encode_payload
<1>11. PICK p : p = encode_payload(b, n)
  OBVIOUS
<1>12. p.error = "Ok" /\ p.chars = c /\ p.fill_bits = f
  BY <1>10, <1>11 DEF Payload
<1>13. c \in Seq(Six) /\ 6 * Len(c) = n + f /\ c # <<>> /\ FlattenSeq(c) = w
  <2>1. c \in Seq(Six) /\ Len(c) = (n + f) \div 6
    BY <1>8, <1>9, CharactersOfBits DEF Bits
  <2>2. 6 * Len(c) = n + f /\ Len(c) # 0
    BY <1>2, <2>1
  <2>3. w # <<>> /\ Len(w) % 6 = 0
    BY <1>2, <1>8
  <2>4. FlattenSeq(c) = w
    BY <1>8, <1>9, <2>3, BitsAgain DEF Bits
  <2> QED
    BY <2>1, <2>2, <2>4
<1>14. Armoured(p) /\ Garbled \notin ToSet(p.chars) /\ Sendable(p)
  <2>1. Armoured(p)
    BY <1>2, <1>12, <1>13 DEF Armoured
  <2>2. \A i \in 1 .. Len(c) : c[i] \in Six
    BY <1>13
  <2>3. Garbled \notin ToSet(p.chars)
    BY <1>12, <1>13, <2>2, GarbledIsNone DEF ToSet
  <2>4. c \in Seq(Six \cup {Garbled})
    BY <1>13, <2>2
  <2> QED
    BY <1>2, <1>12, <2>1, <2>3, <2>4 DEF Sendable
<1>15. SignificantBits(p) = n
  BY <1>2, <1>12, <1>13 DEF SignificantBits
<1>16. /\ decode_payload(p).error = "Ok" /\ decode_payload(p).buffer \in Bits
       /\ Len(decode_payload(p).buffer) = 8 * Bytes(n)
       /\ \A i \in 1 .. n : decode_payload(p).buffer[i] = FlattenSeq(p.chars)[i]
       /\ \A i \in n + 1 .. 8 * Bytes(n) : decode_payload(p).buffer[i] = Bit(0)
  BY <1>14, <1>15, ArmouredDecoded
<1> QED
  BY <1>3, <1>8, <1>11, <1>12, <1>13, <1>14, <1>15, <1>16
-----------------------------------------------------------------------------
(* The last of some places in a string.                                     *)
LEMMA LastPlace ==
  ASSUME NEW n \in Nat, NEW S, S \subseteq 0 .. n, S # {}
  PROVE  Max(S) \in S /\ \A i \in S : Max(S) >= i
<1> DEFINE T == {k \in Nat : (\E i \in S : i <= k) =>
                               \E m \in S : m <= k /\ \A i \in S : i <= k => m >= i}
<1>1. 0 \in T
  OBVIOUS
<1>2. ASSUME NEW k \in 1 .. n, k - 1 \in T
      PROVE  k \in T
  <2> SUFFICES ASSUME NEW i \in S, i <= k
               PROVE  \E m \in S : m <= k /\ \A j \in S : j <= k => m >= j
    OBVIOUS
  <2>1. CASE k \in S
    BY <2>1
  <2>2. CASE k \notin S
    <3>1. \A j \in S : j <= k => j <= k - 1
      BY <2>2
    <3>2. PICK m \in S : m <= k - 1 /\ \A j \in S : j <= k - 1 => m >= j
      BY <1>2, <3>1
    <3> QED
      BY <3>1, <3>2
  <2> QED
    BY <2>1, <2>2
<1> HIDE DEF T
<1>3. n \in T
  <2>1. 0 .. n \subseteq T
    BY <1>1, <1>2, AllPlaces
  <2> QED
    BY <2>1
<1>4. \E m \in S : \A i \in S : m >= i
  <2>1. \A i \in S : i <= n
    OBVIOUS
  <2>2. (\E i \in S : i <= n) => \E m \in S : m <= n /\ \A i \in S : i <= n => m >= i
    BY <1>3 DEF T
  <2> QED
    BY <2>1, <2>2
<1> QED
  BY <1>4 DEF Max

(* Texts: what read_text() keeps of what write_text() wrote.                *)
Blanks == {Space, Padding}

StrippedAt(text, n) ==
  /\ \A i \in n + 1 .. Len(text) : text[i] \in Blanks
  /\ n > 0 => text[n] \notin Blanks

LEMMA WhereStripped ==
  ASSUME NEW T, NEW text \in Seq(T)
  PROVE  \E n \in 0 .. Len(text) :
           StrippedAt(text, n) /\ Stripped(text) = SubSeq(text, 1, n)
<1> DEFINE kept == {i \in DOMAIN text : text[i] \notin {Space, Padding}}
           n == Max({0} \cup kept)
<1>1. Stripped(text) = SubSeq(text, 1, n)
  BY DEF Stripped
<1>2. kept = {i \in 1 .. Len(text) : text[i] \notin Blanks} /\ Len(text) \in Nat
  BY DEF Blanks
<1> HIDE DEF kept
<1>3. {0} \cup kept \subseteq 0 .. Len(text) /\ {0} \cup kept # {}
  BY <1>2
<1>4. n \in {0} \cup kept /\ \A i \in {0} \cup kept : n >= i
  BY <1>2, <1>3, LastPlace
<1> HIDE DEF n
<1>5. n \in 0 .. Len(text)
  BY <1>3, <1>4
<1>6. ASSUME NEW i \in n + 1 .. Len(text)
      PROVE  text[i] \in Blanks
  <2>1. i \in 1 .. Len(text) /\ ~(n >= i)
    BY <1>5
  <2> QED
    BY <1>2, <1>4, <2>1
<1>7. n > 0 => text[n] \notin Blanks
  BY <1>2, <1>4
<1> QED
  BY <1>1, <1>5, <1>6, <1>7 DEF StrippedAt

LEMMA OnePlace ==
  ASSUME NEW T, NEW text \in Seq(T), NEW m \in 0 .. Len(text), NEW n \in 0 .. Len(text),
         StrippedAt(text, m), StrippedAt(text, n)
  PROVE  m = n
<1>1. ASSUME NEW i \in 0 .. Len(text), NEW j \in 0 .. Len(text), i < j,
             StrippedAt(text, i), StrippedAt(text, j)
      PROVE  FALSE
  <2>1. j \in i + 1 .. Len(text) /\ j > 0
    BY <1>1
  <2> QED
    BY <1>1, <2>1 DEF StrippedAt
<1>2. m < n \/ n < m \/ m = n
  OBVIOUS
<1> QED
  BY <1>1, <1>2

LEMMA PaddingIsSix == Padding \in Six
<1>1. 6 \in Nat
  OBVIOUS
<1> QED
  BY <1>1, ZerosAreBits DEF Padding, Six

Padded(text, k) == [i \in 1 .. k |-> IF i <= Len(text) THEN text[i] ELSE Padding]

LEMMA StrippedAgain ==
  ASSUME NEW text \in Seq(Six)
  PROVE  /\ Stripped(text) \in Seq(Six)
         /\ Stripped(Padded(Stripped(text), Len(text))) = Stripped(text)
<1>1. PICK n \in 0 .. Len(text) :
        StrippedAt(text, n) /\ Stripped(text) = SubSeq(text, 1, n)
  BY WhereStripped
<1>2. PICK s : s = Stripped(text)
  OBVIOUS
<1>3. s \in Seq(Six) /\ Len(s) = n /\ \A i \in 1 .. n : s[i] = text[i]
  <2>1. n \in Nat /\ 1 \in Nat /\ 1 >= 1 /\ n <= Len(text) /\ n + 1 >= 1 /\ n + 1 - 1 = n
    OBVIOUS
  <2>2. /\ SubSeq(text, 1, n) \in Seq(Six) /\ Len(SubSeq(text, 1, n)) = n
        /\ \A i \in 1 .. n : SubSeq(text, 1, n)[i] = text[1 + i - 1]
    BY <2>1, PieceOfBits
  <2>3. \A i \in 1 .. n : 1 + i - 1 = i
    OBVIOUS
  <2> QED
    BY <1>1, <1>2, <2>2, <2>3
<1>4. PICK k, p : k = Len(text) /\ p = Padded(s, k)
  OBVIOUS
<1>5. p = [i \in 1 .. k |-> IF i <= n THEN s[i] ELSE Padding] /\ k \in Nat
  BY <1>3, <1>4 DEF Padded
<1>6. \A i \in 1 .. k : (IF i <= n THEN s[i] ELSE Padding) \in Six
  BY <1>3, PaddingIsSix
<1>7. p \in Seq(Six) /\ Len(p) = k
  BY <1>5, <1>6
<1>8. StrippedAt(p, n)
  <2>1. \A i \in n + 1 .. Len(p) : p[i] \in Blanks
    BY <1>5, <1>7 DEF Blanks
  <2>2. n > 0 => p[n] = text[n]
    BY <1>3, <1>4, <1>5
  <2>3. n > 0 => p[n] \notin Blanks
    BY <1>1, <2>2 DEF StrippedAt
  <2> QED
    BY <2>1, <2>3 DEF StrippedAt
<1>9. PICK m \in 0 .. Len(p) : StrippedAt(p, m) /\ Stripped(p) = SubSeq(p, 1, m)
  BY <1>7, WhereStripped
<1>10. m = n
  BY <1>4, <1>7, <1>8, <1>9, OnePlace
<1>11. SubSeq(p, 1, n) = s
  <2>1. n \in Nat /\ 1 \in Nat /\ 1 >= 1 /\ n <= Len(p) /\ n + 1 >= 1 /\ n + 1 - 1 = n
    BY <1>4, <1>7
  <2>2. /\ SubSeq(p, 1, n) \in Seq(Six) /\ Len(SubSeq(p, 1, n)) = n
        /\ \A i \in 1 .. n : SubSeq(p, 1, n)[i] = p[1 + i - 1]
    BY <1>7, <2>1, PieceOfBits
  <2>3. \A i \in 1 .. n : 1 + i - 1 = i
    OBVIOUS
  <2>4. \A i \in 1 .. n : p[i] = s[i]
    BY <1>4, <1>5
  <2> QED
    BY <1>3, <2>2, <2>3, <2>4, SameSequence
<1> QED
  BY <1>2, <1>3, <1>4, <1>9, <1>10, <1>11

LEMMA TextWritten ==
  ASSUME NEW text \in Seq(Six), NEW k \in Nat \ {0}
  PROVE  /\ WriteText(text, k) \in Bits /\ Len(WriteText(text, k)) = 6 * k
         /\ Characters(WriteText(text, k)) = Padded(text, k)
<1>1. PICK p : p = Padded(text, k)
  OBVIOUS
<1>2. \A i \in 1 .. k : (IF i <= Len(text) THEN text[i] ELSE Padding) \in Six
  BY PaddingIsSix
<1>3. p \in Seq(Six) /\ Len(p) = k /\ p # <<>>
  BY <1>1, <1>2 DEF Padded
<1>4. WriteText(text, k) = FlattenSeq(p)
  BY <1>1 DEF WriteText, Padded
<1>5. FlattenSeq(p) \in Bits /\ Len(FlattenSeq(p)) = 6 * Len(p)
  BY <1>3, BitsOfCharacters
<1>6. Characters(FlattenSeq(p)) = p
  BY <1>3, CharactersAgain
<1> QED
  BY <1>1, <1>3, <1>4, <1>5, <1>6

(* Numbers: a member that is wide enough gives its field back.              *)
LEMMA Extended ==
  ASSUME NEW b \in Bits, NEW w \in Nat \ {0}, Len(b) = w, NEW m \in Nat, m >= w, NEW kind
  PROVE  /\ Resized(b, kind, m) \in Bits /\ Len(Resized(b, kind, m)) = m
         /\ \A i \in 1 .. w : Resized(b, kind, m)[m - w + i] = b[i]
         /\ kind # "int" => \A i \in 1 .. m - w : Resized(b, kind, m)[i] = Bit(0)
<1>1. b \in Seq(Symbols) /\ b[1] \in Symbols /\ Bit(0) \in Symbols
  BY DEF Bits, Symbols
<1>2. CASE m = w
  <2>1. Resized(b, kind, m) = SubSeq(b, w - m + 1, w)
    BY <1>2 DEF Resized
  <2>2. w - m + 1 = 1
    BY <1>2
  <2>3. SubSeq(b, 1, w) = b
    BY <1>1, SubSeqFull
  <2>4. Resized(b, kind, m) = b
    BY <2>1, <2>2, <2>3
  <2> QED
    BY <1>2, <2>4
<1>3. CASE m > w
  <2> DEFINE z == [i \in 1 .. m - w |-> IF kind = "int" THEN b[1] ELSE Bit(0)]
  <2>1. z \in Seq(Symbols) /\ Len(z) = m - w
    BY <1>1, <1>3
  <2>2. Resized(b, kind, m) = z \o b
    BY <1>3 DEF Resized
  <2>3. kind # "int" => \A i \in 1 .. m - w : z[i] = Bit(0)
    OBVIOUS
  <2> HIDE DEF z
  <2>4. /\ z \o b \in Seq(Symbols) /\ Len(z \o b) = Len(z) + Len(b)
        /\ \A i \in 1 .. Len(z) : (z \o b)[i] = z[i]
        /\ \A i \in 1 .. Len(b) : (z \o b)[Len(z) + i] = b[i]
    <3>1. PICK q, c : q = z /\ c = b
      OBVIOUS
    <3>2. c \in Seq(Symbols) /\ q \in Seq(Symbols)
      BY <1>1, <2>1, <3>1
    <3>3. /\ q \o c \in Seq(Symbols) /\ Len(q \o c) = Len(q) + Len(c)
          /\ \A i \in 1 .. Len(q) : (q \o c)[i] = q[i]
          /\ \A i \in 1 .. Len(c) : (q \o c)[Len(q) + i] = c[i]
      BY <3>2, Appended
    <3> QED
      BY <3>1, <3>3
  <2> QED
    BY <2>1, <2>2, <2>3, <2>4 DEF Bits
<1> QED
  BY <1>2, <1>3

LEMMA NumberAgain ==
  ASSUME NEW b \in Bits, NEW w \in Nat \ {0}, Len(b) = w, NEW m \in Nat, m >= w, NEW kind
  PROVE  Resized(Resized(b, kind, m), kind, w) = b
<1>1. PICK e : e = Resized(b, kind, m)
  OBVIOUS
<1>2. e \in Seq(Symbols) /\ Len(e) = m /\ \A i \in 1 .. w : e[m - w + i] = b[i]
  BY <1>1, Extended DEF Bits
<1>3. Resized(e, kind, w) = SubSeq(e, m - w + 1, m)
  BY <1>2 DEF Resized
<1>4. PICK s, n : s = SubSeq(e, n, m) /\ n = m - w + 1
  OBVIOUS
<1>5. n \in Nat /\ n >= 1 /\ m <= Len(e) /\ m + 1 >= n /\ m + 1 - n = w
  BY <1>2, <1>4
<1>6. /\ s \in Seq(Symbols) /\ Len(s) = w
      /\ \A i \in 1 .. w : s[i] = e[n + i - 1]
  BY <1>2, <1>4, <1>5, PieceOfBits
<1>7. \A i \in 1 .. w : n + i - 1 = m - w + i
  BY <1>4
<1>8. s = b
  BY <1>2, <1>6, <1>7, SameSequence DEF Bits
<1> QED
  BY <1>1, <1>3, <1>4, <1>8
-----------------------------------------------------------------------------
(* The layouts: each read finds what one write put there, and each write    *)
(* that is not spare is read.                                               *)
Meets(w, r, place) ==
  w.field = r.field /\ w.kind = r.kind /\ w.width = r.width /\ place = r.offset

Laid(writes, reads, length, n, P) ==
  /\ n \in Nat \ {0} /\ DOMAIN writes = 1 .. n
  /\ P \in [0 .. n -> Nat] /\ P[0] = 0
  /\ P[n] <= length /\ Bytes(P[n]) = Bytes(length)
  /\ \A i \in 1 .. n : writes[i].width \in Nat \ {0} /\ P[i] = P[i - 1] + writes[i].width
  /\ \A i \in 1 .. n :
       \/ writes[i].field = "spare" /\ writes[i].kind = "uint"
       \/ \E r \in reads : Meets(writes[i], r, P[i - 1])
  /\ \A r \in reads : \E i \in 1 .. n : Meets(writes[i], r, P[i - 1])
  /\ \A r \in reads, q \in reads : r.field = q.field => r = q

(* The same of what a class writes and reads after the header: places[i] is *)
(* where its i-th write begins, the last place is the end.                  *)
HeaderFields == {"type", "repeat_indicator", "mmsi"}

FollowsHeader(own, reads, length, n, places) ==
  /\ n \in Nat \ {0} /\ own \in Seq({own[i] : i \in 1 .. n}) /\ Len(own) = n
  /\ places \in Seq(Nat) /\ Len(places) = n + 1 /\ places[1] = 38
  /\ places[n + 1] <= length /\ Bytes(places[n + 1]) = Bytes(length)
  /\ \A i \in 1 .. n : own[i].width \in Nat \ {0} /\ places[i + 1] = places[i] + own[i].width
  /\ \A i \in 1 .. n :
       \/ own[i].field = "spare" /\ own[i].kind = "uint"
       \/ \E r \in reads : Meets(own[i], r, places[i])
  /\ \A r \in reads : \E i \in 1 .. n : Meets(own[i], r, places[i])
  /\ \A r \in reads, q \in reads : r.field = q.field => r = q
  /\ \A r \in reads : r.field \notin HeaderFields

Matched(own, reads, length) ==
  \E n, places : FollowsHeader(own, reads, length, n, places)

LEMMA HeaderLaid ==
  /\ HeaderWrites \in Seq({HeaderWrites[1], HeaderWrites[2], HeaderWrites[3]})
  /\ Len(HeaderWrites) = 3
  /\ HeaderWrites[1].width = 6 /\ HeaderWrites[2].width = 2 /\ HeaderWrites[3].width = 30
  /\ \E r \in HeaderReads : Meets(HeaderWrites[1], r, 0)
  /\ \E r \in HeaderReads : Meets(HeaderWrites[2], r, 6)
  /\ \E r \in HeaderReads : Meets(HeaderWrites[3], r, 8)
  /\ \A r \in HeaderReads : \/ Meets(HeaderWrites[1], r, 0)
                            \/ Meets(HeaderWrites[2], r, 6)
                            \/ Meets(HeaderWrites[3], r, 8)
  /\ \A r \in HeaderReads, q \in HeaderReads : r.field = q.field => r = q
  /\ \A r \in HeaderReads : r.field \in HeaderFields
BY DEF HeaderWrites, HeaderReads, HeaderFields, Meets, Uint, UintAt

LEMMA ClassLaid ==
  ASSUME NEW own, NEW reads, NEW length, Matched(own, reads, length)
  PROVE  \E n, P : Laid(HeaderWrites \o own, HeaderReads \cup reads, length, n, P)
<1>0. PICK n, places : FollowsHeader(own, reads, length, n, places)
  BY DEF Matched
<1>1. /\ n \in Nat \ {0} /\ own \in Seq({own[i] : i \in 1 .. n}) /\ Len(own) = n
      /\ places \in Seq(Nat) /\ Len(places) = n + 1 /\ places[1] = 38
  BY <1>0 DEF FollowsHeader
<1>2. PICK h, w : h = HeaderWrites /\ w = h \o own
  OBVIOUS
<1>3. /\ h \in Seq({h[1], h[2], h[3]}) /\ Len(h) = 3
      /\ h[1].width = 6 /\ h[2].width = 2 /\ h[3].width = 30
  BY <1>2, HeaderLaid
<1> DEFINE W == {h[1], h[2], h[3]} \cup {own[i] : i \in 1 .. n}
<1>4. /\ w \in Seq(W) /\ Len(w) = 3 + n
      /\ \A i \in 1 .. 3 : w[i] = h[i]
      /\ \A i \in 1 .. n : w[3 + i] = own[i]
  <2>0. h \in Seq(W) /\ own \in Seq(W)
    BY <1>1, <1>3
  <2> HIDE DEF W
  <2>1. /\ h \o own \in Seq(W) /\ Len(h \o own) = Len(h) + Len(own)
        /\ \A j \in 1 .. Len(h) : (h \o own)[j] = h[j]
        /\ \A j \in 1 .. Len(own) : (h \o own)[Len(h) + j] = own[j]
    BY <2>0, Appended
  <2>2. Len(h) = 3 /\ Len(own) = n /\ w = h \o own
    BY <1>1, <1>2, <1>3
  <2> QED
    BY <2>1, <2>2
<1>5. PICK P : P = [i \in 0 .. n + 3 |-> CASE i = 0 -> 0 [] i = 1 -> 6 [] i = 2 -> 8
                                           [] OTHER -> places[i - 2]]
  OBVIOUS
<1>6. ASSUME NEW i \in 1 .. n + 1
      PROVE  P[2 + i] = places[i] /\ places[i] \in Nat
  <2>1. /\ 2 + i \in 0 .. n + 3 /\ 2 + i # 0 /\ 2 + i # 1 /\ 2 + i # 2
        /\ 2 + i - 2 = i /\ i \in 1 .. Len(places)
    BY <1>1
  <2>2. P[2 + i] = places[i]
    BY <1>5, <2>1
  <2>3. places[i] \in Nat
    BY <1>1, <2>1, ElementOfSeq
  <2> QED
    BY <2>2, <2>3
<1>7. P[0] = 0 /\ P[1] = 6 /\ P[2] = 8 /\ P[3] = 38
  <2>1. /\ 0 \in 0 .. n + 3 /\ 1 \in 0 .. n + 3 /\ 2 \in 0 .. n + 3
        /\ 1 \in 1 .. n + 1 /\ 2 + 1 = 3
    BY <1>1
  <2>2. P[0] = 0 /\ P[1] = 6 /\ P[2] = 8
    BY <1>5, <2>1
  <2>3. P[2 + 1] = places[1]
    BY <1>6, <2>1
  <2> QED
    BY <1>1, <2>1, <2>2, <2>3
<1>8. P \in [0 .. n + 3 -> Nat]
  <2>1. ASSUME NEW i \in 0 .. n + 3
        PROVE  P[i] \in Nat
    <3>1. CASE i \in 0 .. 2
      BY <1>7, <3>1
    <3>2. CASE i \notin 0 .. 2
      <4>1. i - 2 \in 1 .. n + 1 /\ 2 + (i - 2) = i
        BY <1>1, <3>2
      <4> QED
        BY <1>6, <4>1
    <3> QED
      BY <3>1, <3>2
  <2> QED
    BY <1>5, <2>1
<1>9. ASSUME NEW i \in 1 .. n
      PROVE  /\ w[3 + i] = own[i] /\ P[3 + i - 1] = places[i] /\ P[3 + i] = places[i + 1]
             /\ own[i].width \in Nat
  <2>1. i \in 1 .. n + 1 /\ i + 1 \in 1 .. n + 1 /\ 3 + i - 1 = 2 + i /\ 3 + i = 2 + (i + 1)
    BY <1>1
  <2>2. own[i].width \in Nat
    BY <1>0 DEF FollowsHeader
  <2> QED
    BY <1>4, <1>6, <2>1, <2>2
<1>10. ASSUME NEW i \in 1 .. n + 3
       PROVE  i \in {1, 2, 3} \/ \E j \in 1 .. n : i = 3 + j
  <2>1. i \in {1, 2, 3} \/ (i - 3 \in 1 .. n /\ i = 3 + (i - 3))
    BY <1>1
  <2> QED
    BY <2>1
<1>11. /\ w[1] = h[1] /\ w[2] = h[2] /\ w[3] = h[3]
       /\ 1 - 1 = 0 /\ 2 - 1 = 1 /\ 3 - 1 = 2
  BY <1>4
<1> HIDE DEF W
<1>12. n + 3 \in Nat \ {0} /\ DOMAIN w = 1 .. n + 3
  BY <1>1, <1>4
<1>13. P[n + 3] <= length /\ Bytes(P[n + 3]) = Bytes(length)
  <2>1. n + 1 \in 1 .. n + 1 /\ 2 + (n + 1) = n + 3
    BY <1>1
  <2> QED
    BY <1>0, <1>6, <2>1 DEF FollowsHeader
<1>14. ASSUME NEW i \in 1 .. n + 3
       PROVE  w[i].width \in Nat \ {0} /\ P[i] = P[i - 1] + w[i].width
  <2>1. CASE i \in {1, 2, 3}
    BY <1>3, <1>7, <1>11, <2>1
  <2>2. CASE \E j \in 1 .. n : i = 3 + j
    <3>1. PICK j \in 1 .. n : i = 3 + j
      BY <2>2
    <3>2. own[j].width \in Nat \ {0} /\ places[j + 1] = places[j] + own[j].width
      BY <1>0 DEF FollowsHeader
    <3> QED
      BY <1>9, <3>1, <3>2
  <2> QED
    BY <1>10, <2>1, <2>2
<1> DEFINE all == HeaderReads \cup reads
<1>15. ASSUME NEW i \in 1 .. n + 3
       PROVE  \/ w[i].field = "spare" /\ w[i].kind = "uint"
              \/ \E r \in all : Meets(w[i], r, P[i - 1])
  <2>1. CASE i \in {1, 2, 3}
    <3>1. /\ \E r \in HeaderReads : Meets(w[1], r, P[0])
          /\ \E r \in HeaderReads : Meets(w[2], r, P[1])
          /\ \E r \in HeaderReads : Meets(w[3], r, P[2])
      BY <1>2, <1>7, <1>11, HeaderLaid
    <3>2. \E r \in HeaderReads : Meets(w[i], r, P[i - 1])
      BY <1>11, <2>1, <3>1
    <3> QED
      BY <3>2
  <2>2. CASE \E j \in 1 .. n : i = 3 + j
    <3>1. PICK j \in 1 .. n : i = 3 + j
      BY <2>2
    <3>2. \/ own[j].field = "spare" /\ own[j].kind = "uint"
          \/ \E r \in reads : Meets(own[j], r, places[j])
      BY <1>0 DEF FollowsHeader
    <3> QED
      BY <1>9, <3>1, <3>2
  <2> QED
    BY <1>10, <2>1, <2>2
<1>16. ASSUME NEW r \in all
       PROVE  \E i \in 1 .. n + 3 : Meets(w[i], r, P[i - 1])
  <2>1. CASE r \in HeaderReads
    <3>1. \/ Meets(w[1], r, P[0]) \/ Meets(w[2], r, P[1])
          \/ Meets(w[3], r, P[2])
      BY <1>2, <1>7, <1>11, <2>1, HeaderLaid
    <3>2. 1 \in 1 .. n + 3 /\ 2 \in 1 .. n + 3 /\ 3 \in 1 .. n + 3
      BY <1>1
    <3> QED
      BY <1>11, <3>1, <3>2
  <2>2. CASE r \in reads
    <3>1. PICK j \in 1 .. n : Meets(own[j], r, places[j])
      BY <1>0, <2>2 DEF FollowsHeader
    <3>2. 3 + j \in 1 .. n + 3
      BY <1>1
    <3>3. Meets(w[3 + j], r, P[3 + j - 1])
      BY <1>9, <3>1
    <3> QED
      BY <3>2, <3>3
  <2> QED
    BY <2>1, <2>2
<1>17. ASSUME NEW r \in all, NEW q \in all, r.field = q.field
       PROVE  r = q
  <2>1. \A x \in reads : x.field \notin HeaderFields
    BY <1>0 DEF FollowsHeader
  <2>2. \A x \in reads, y \in reads : x.field = y.field => x = y
    BY <1>0 DEF FollowsHeader
  <2> QED
    BY <1>17, <2>1, <2>2, HeaderLaid
<1> HIDE DEF all
<1>18. Laid(w, all, length, n + 3, P)
  BY <1>7, <1>8, <1>12, <1>13, <1>14, <1>15, <1>16, <1>17 DEF Laid
<1> QED
  BY <1>2, <1>18 DEF all

LEMMA Layout1_3 ==
  Matched(Msg1_3Writes, Msg1_3Reads, 168)
<1>1. PICK places : places = <<38, 42, 50, 60, 61, 89, 116, 128, 137, 143, 145, 148, 149,
                          168>>
  OBVIOUS
<1>2. FollowsHeader(Msg1_3Writes, Msg1_3Reads, 168, 13, places)
  BY <1>1 DEF FollowsHeader, Msg1_3Writes, Msg1_3Reads, Meets, HeaderFields, Bytes,
         Uint, Sint, Bool, Text, Spare, UintAt, IntAt, BoolAt, TextAt
<1> QED
  BY <1>2 DEF Matched

LEMMA Layout4_11 ==
  Matched(Msg4_11Writes, Msg4_11Reads, 168)
<1>1. PICK places : places = <<38, 52, 56, 61, 66, 72, 78, 79, 107, 134, 138, 148, 149,
                          168>>
  OBVIOUS
<1>2. FollowsHeader(Msg4_11Writes, Msg4_11Reads, 168, 13, places)
  BY <1>1 DEF FollowsHeader, Msg4_11Writes, Msg4_11Reads, Meets, HeaderFields, Bytes,
         Uint, Sint, Bool, Text, Spare, UintAt, IntAt, BoolAt, TextAt
<1> QED
  BY <1>2 DEF Matched

LEMMA Layout5 ==
  Matched(Msg5Writes, Msg5Reads, 426)
<1>1. PICK places : places = <<38, 40, 70, 112, 232, 240, 249, 258, 264, 270, 274, 278,
                          283, 288, 294, 302, 422, 423, 425>>
  OBVIOUS
<1>2. FollowsHeader(Msg5Writes, Msg5Reads, 426, 18, places)
  BY <1>1 DEF FollowsHeader, Msg5Writes, Msg5Reads, Meets, HeaderFields, Bytes,
         Uint, Sint, Bool, Text, Spare, UintAt, IntAt, BoolAt, TextAt
<1> QED
  BY <1>2 DEF Matched

LEMMA Layout9 ==
  Matched(Msg9Writes, Msg9Reads, 168)
<1>1. PICK places : places = <<38, 50, 60, 61, 89, 116, 128, 134, 140, 141, 146, 147,
                          148, 168>>
  OBVIOUS
<1>2. FollowsHeader(Msg9Writes, Msg9Reads, 168, 13, places)
  BY <1>1 DEF FollowsHeader, Msg9Writes, Msg9Reads, Meets, HeaderFields, Bytes,
         Uint, Sint, Bool, Text, Spare, UintAt, IntAt, BoolAt, TextAt
<1> QED
  BY <1>2 DEF Matched

LEMMA Layout10 ==
  Matched(Msg10Writes, Msg10Reads, 72)
<1>1. PICK places : places = <<38, 40, 70, 72>>
  OBVIOUS
<1>2. FollowsHeader(Msg10Writes, Msg10Reads, 72, 3, places)
  BY <1>1 DEF FollowsHeader, Msg10Writes, Msg10Reads, Meets, HeaderFields, Bytes,
         Uint, Sint, Bool, Text, Spare, UintAt, IntAt, BoolAt, TextAt
<1> QED
  BY <1>2 DEF Matched

LEMMA Layout18 ==
  Matched(Msg18Writes, Msg18Reads, 168)
<1>1. PICK places : places = <<38, 46, 56, 57, 85, 112, 124, 133, 139, 141, 142, 143,
                          144, 145, 146, 147, 148, 168>>
  OBVIOUS
<1>2. FollowsHeader(Msg18Writes, Msg18Reads, 168, 17, places)
  BY <1>1 DEF FollowsHeader, Msg18Writes, Msg18Reads, Meets, HeaderFields, Bytes,
         Uint, Sint, Bool, Text, Spare, UintAt, IntAt, BoolAt, TextAt
<1> QED
  BY <1>2 DEF Matched

LEMMA Layout19 ==
  Matched(Msg19Writes, Msg19Reads, 312)
<1>1. PICK places : places = <<38, 48, 58, 59, 87, 114, 126, 135, 141, 145, 265, 273,
                          282, 291, 297, 303, 307, 308, 309, 310, 312>>
  OBVIOUS
<1>2. FollowsHeader(Msg19Writes, Msg19Reads, 312, 20, places)
  BY <1>1 DEF FollowsHeader, Msg19Writes, Msg19Reads, Meets, HeaderFields, Bytes,
         Uint, Sint, Bool, Text, Spare, UintAt, IntAt, BoolAt, TextAt
<1> QED
  BY <1>2 DEF Matched

LEMMA Layout24_0 ==
  Matched(Msg24Writes(0), Msg24Reads(0), 168)
<1> DEFINE own == <<Uint("part_number", 2), Text("vessel_name", 20), Spare(8)>>
           reads == {UintAt("part_number", 38, 2, 8), TextAt("vessel_name", 40, 20)}
<1>1. Msg24Writes(0) = own
  BY DEF Msg24Writes
<1>2. Msg24Reads(0) = reads
  BY DEF Msg24Reads
<1>3. PICK places : places = <<38, 40, 160, 168>>
  OBVIOUS
<1>4. FollowsHeader(own, reads, 168, 3, places)
  BY <1>3 DEF FollowsHeader, Meets, HeaderFields, Bytes, Uint, Text, Spare, UintAt, TextAt
<1> HIDE DEF own, reads
<1> QED
  BY <1>1, <1>2, <1>4 DEF Matched

LEMMA Layout24_1 ==
  Matched(Msg24Writes(1), Msg24Reads(1), 168)
<1> DEFINE own == <<Uint("part_number", 2), Uint("ship_type", 8), Text("vendor_id", 7),
                  Text("call_sign", 7), Uint("dim_to_bow", 9), Uint("dim_to_stern", 9),
                  Uint("dim_to_port", 6), Uint("dim_to_starboard", 6),
                  Uint("epfd", 4), Spare(2)>>
           reads == {UintAt("part_number", 38, 2, 8), UintAt("ship_type", 40, 8, 8),
                  TextAt("vendor_id", 48, 7), TextAt("call_sign", 90, 7),
                  UintAt("dim_to_bow", 132, 9, 16), UintAt("dim_to_stern", 141, 9, 16),
                  UintAt("dim_to_port", 150, 6, 8), UintAt("dim_to_starboard", 156, 6, 8),
                  UintAt("epfd", 162, 4, 8)}
<1>1. Msg24Writes(1) = own
  BY DEF Msg24Writes
<1>2. Msg24Reads(1) = reads
  BY DEF Msg24Reads
<1>3. PICK places : places = <<38, 40, 48, 90, 132, 141, 150, 156, 162, 166, 168>>
  OBVIOUS
<1>4. FollowsHeader(own, reads, 168, 10, places)
  BY <1>3 DEF FollowsHeader, Meets, HeaderFields, Bytes, Uint, Text, Spare, UintAt, TextAt
<1> HIDE DEF own, reads
<1> QED
  BY <1>1, <1>2, <1>4 DEF Matched

LEMMA Layout27 ==
  Matched(Msg27Writes, Msg27Reads, 96)
<1>1. PICK places : places = <<38, 39, 40, 44, 62, 79, 85, 94, 95, 96>>
  OBVIOUS
<1>2. FollowsHeader(Msg27Writes, Msg27Reads, 96, 9, places)
  BY <1>1 DEF FollowsHeader, Msg27Writes, Msg27Reads, Meets, HeaderFields, Bytes,
         Uint, Sint, Bool, Text, Spare, UintAt, IntAt, BoolAt, TextAt
<1> QED
  BY <1>2 DEF Matched

(* A read lies within the length its class tests, and fits its member.      *)
Fits(r, length) ==
  /\ r.offset \in Nat /\ r.width \in Nat \ {0} /\ r.offset + r.width <= length
  /\ r.field # "spare"
  /\ r.kind = "text" => r.width % 6 = 0
  /\ r.kind # "text" => r.member \in Nat /\ r.member >= r.width

LEMMA ClassLengths ==
  \A class \in Classes : kBitLength(class) \in Nat /\ kBitLength(class) >= 40
BY DEF Classes, kBitLength

LEMMA ReadsFit ==
  ASSUME NEW class \in Classes, NEW part
  PROVE  \A r \in Reads(class, part) : Fits(r, kBitLength(class))
<1>1. kBitLength(class) \in Nat /\ kBitLength(class) >= 40
  BY ClassLengths
<1>2. \A r \in HeaderReads : Fits(r, kBitLength(class))
  BY <1>1 DEF HeaderReads, UintAt, Fits
<1> USE DEF Fits, UintAt, IntAt, BoolAt, TextAt
<1>3. CASE class = "1_3"
  <2>1. \A r \in Msg1_3Reads : Fits(r, 168)
    BY DEF Msg1_3Reads
  <2> QED
    BY <1>2, <1>3, <2>1 DEF Reads, kBitLength
<1>4. CASE class = "4_11"
  <2>1. \A r \in Msg4_11Reads : Fits(r, 168)
    BY DEF Msg4_11Reads
  <2> QED
    BY <1>2, <1>4, <2>1 DEF Reads, kBitLength
<1>5. CASE class = "5"
  <2>1. \A r \in Msg5Reads : Fits(r, 426)
    BY DEF Msg5Reads
  <2> QED
    BY <1>2, <1>5, <2>1 DEF Reads, kBitLength
<1>6. CASE class = "9"
  <2>1. \A r \in Msg9Reads : Fits(r, 168)
    BY DEF Msg9Reads
  <2> QED
    BY <1>2, <1>6, <2>1 DEF Reads, kBitLength
<1>7. CASE class = "10"
  <2>1. \A r \in Msg10Reads : Fits(r, 72)
    BY DEF Msg10Reads
  <2> QED
    BY <1>2, <1>7, <2>1 DEF Reads, kBitLength
<1>8. CASE class = "18"
  <2>1. \A r \in Msg18Reads : Fits(r, 168)
    BY DEF Msg18Reads
  <2> QED
    BY <1>2, <1>8, <2>1 DEF Reads, kBitLength
<1>9. CASE class = "19"
  <2>1. \A r \in Msg19Reads : Fits(r, 312)
    BY DEF Msg19Reads
  <2> QED
    BY <1>2, <1>9, <2>1 DEF Reads, kBitLength
<1>10. CASE class = "24"
  <2>1. \A r \in Msg24Reads(part) : Fits(r, 168)
    BY DEF Msg24Reads
  <2> QED
    BY <1>2, <1>10, <2>1 DEF Reads, kBitLength
<1>11. CASE class = "27"
  <2>1. \A r \in Msg27Reads : Fits(r, 96)
    BY DEF Msg27Reads
  <2> QED
    BY <1>2, <1>11, <2>1 DEF Reads, kBitLength
<1> QED
  BY <1>3, <1>4, <1>5, <1>6, <1>7, <1>8, <1>9, <1>10, <1>11 DEF Classes

LEMMA LayoutOf ==
  ASSUME NEW class \in Classes, NEW part \in {0, 1}, class # "24" => part = 0
  PROVE  \E n, P : Laid(Writes(class, part), Reads(class, part), kBitLength(class), n, P)
<1> SUFFICES \E own, reads : /\ Writes(class, part) = HeaderWrites \o own
                            /\ Reads(class, part) = HeaderReads \cup reads
                            /\ Matched(own, reads, kBitLength(class))
  BY ClassLaid
<1>1. CASE class = "1_3"
  <2>1. /\ Writes(class, part) = HeaderWrites \o Msg1_3Writes
        /\ Reads(class, part) = HeaderReads \cup Msg1_3Reads
        /\ kBitLength(class) = 168
    BY <1>1 DEF Writes, Reads, kBitLength
  <2> QED
    BY <2>1, Layout1_3
<1>2. CASE class = "4_11"
  <2>1. /\ Writes(class, part) = HeaderWrites \o Msg4_11Writes
        /\ Reads(class, part) = HeaderReads \cup Msg4_11Reads
        /\ kBitLength(class) = 168
    BY <1>2 DEF Writes, Reads, kBitLength
  <2> QED
    BY <2>1, Layout4_11
<1>3. CASE class = "5"
  <2>1. /\ Writes(class, part) = HeaderWrites \o Msg5Writes
        /\ Reads(class, part) = HeaderReads \cup Msg5Reads
        /\ kBitLength(class) = 426
    BY <1>3 DEF Writes, Reads, kBitLength
  <2> QED
    BY <2>1, Layout5
<1>4. CASE class = "9"
  <2>1. /\ Writes(class, part) = HeaderWrites \o Msg9Writes
        /\ Reads(class, part) = HeaderReads \cup Msg9Reads
        /\ kBitLength(class) = 168
    BY <1>4 DEF Writes, Reads, kBitLength
  <2> QED
    BY <2>1, Layout9
<1>5. CASE class = "10"
  <2>1. /\ Writes(class, part) = HeaderWrites \o Msg10Writes
        /\ Reads(class, part) = HeaderReads \cup Msg10Reads
        /\ kBitLength(class) = 72
    BY <1>5 DEF Writes, Reads, kBitLength
  <2> QED
    BY <2>1, Layout10
<1>6. CASE class = "18"
  <2>1. /\ Writes(class, part) = HeaderWrites \o Msg18Writes
        /\ Reads(class, part) = HeaderReads \cup Msg18Reads
        /\ kBitLength(class) = 168
    BY <1>6 DEF Writes, Reads, kBitLength
  <2> QED
    BY <2>1, Layout18
<1>7. CASE class = "19"
  <2>1. /\ Writes(class, part) = HeaderWrites \o Msg19Writes
        /\ Reads(class, part) = HeaderReads \cup Msg19Reads
        /\ kBitLength(class) = 312
    BY <1>7 DEF Writes, Reads, kBitLength
  <2> QED
    BY <2>1, Layout19
<1>8. CASE class = "24" /\ part = 0
  <2>1. /\ Writes(class, part) = HeaderWrites \o Msg24Writes(0)
        /\ Reads(class, part) = HeaderReads \cup Msg24Reads(0)
        /\ kBitLength(class) = 168
    BY <1>8 DEF Writes, Reads, kBitLength
  <2> QED
    BY <2>1, Layout24_0
<1>9. CASE class = "24" /\ part = 1
  <2>1. /\ Writes(class, part) = HeaderWrites \o Msg24Writes(1)
        /\ Reads(class, part) = HeaderReads \cup Msg24Reads(1)
        /\ kBitLength(class) = 168
    BY <1>9 DEF Writes, Reads, kBitLength
  <2> QED
    BY <2>1, Layout24_1
<1>10. CASE class = "27"
  <2>1. /\ Writes(class, part) = HeaderWrites \o Msg27Writes
        /\ Reads(class, part) = HeaderReads \cup Msg27Reads
        /\ kBitLength(class) = 96
    BY <1>10 DEF Writes, Reads, kBitLength
  <2> QED
    BY <2>1, Layout27
<1> QED
  BY <1>1, <1>2, <1>3, <1>4, <1>5, <1>6, <1>7, <1>8, <1>9, <1>10 DEF Classes

(* What every class reads, and type 24.                                     *)
LEMMA CommonReads ==
  ASSUME NEW class \in Classes, NEW part
  PROVE  /\ UintAt("type", 0, 6, 8) \in Reads(class, part)
         /\ class = "24" => UintAt("part_number", 38, 2, 8) \in Reads(class, part)
<1>1. UintAt("type", 0, 6, 8) \in HeaderReads
  BY DEF HeaderReads
<1>2. HeaderReads \subseteq Reads(class, part)
  BY DEF Reads
<1>3. class = "24" => UintAt("part_number", 38, 2, 8) \in Reads(class, part)
  BY DEF Reads, Msg24Reads
<1> QED
  BY <1>1, <1>2, <1>3

-----------------------------------------------------------------------------
(* decode(), and what encode() makes of the message it returns.             *)
FieldBits(b, r) == SubSeq(b, r.offset + 1, r.offset + r.width)

(* One buffer holds the value that another holds at the place of a read.    *)
SameField(b, c, r) ==
  IF r.kind = "text"
  THEN Stripped(Characters(FieldBits(b, r))) = Stripped(Characters(FieldBits(c, r)))
  ELSE FieldBits(b, r) = FieldBits(c, r)

LEMMA FieldOfBits ==
  ASSUME NEW b \in Bits, NEW r, NEW n, n <= Len(b), Fits(r, n), n \in Nat
  PROVE  /\ FieldBits(b, r) \in Bits /\ Len(FieldBits(b, r)) = r.width
         /\ \A i \in 1 .. r.width : FieldBits(b, r)[i] = b[r.offset + i]
<1>1. PICK k, l, w : k = r.offset + 1 /\ l = r.offset + r.width /\ w = r.width
  OBVIOUS
<1>2. /\ k \in Nat /\ l \in Nat /\ k >= 1 /\ l <= Len(b) /\ l + 1 >= k
      /\ l + 1 - k = w
  <2>1. PICK o, m : o = r.offset /\ m = Len(b)
    OBVIOUS
  <2>2. m \in Nat /\ n <= m
    BY <2>1 DEF Bits
  <2>3. o \in Nat /\ w \in Nat /\ o + w <= n /\ k = o + 1 /\ l = o + w
    BY <1>1, <2>1 DEF Fits
  <2>4. k \in Nat /\ l \in Nat /\ k >= 1 /\ l <= m /\ l + 1 >= k /\ l + 1 - k = w
    BY <2>2, <2>3
  <2> QED
    BY <2>1, <2>4
<1>3. /\ SubSeq(b, k, l) \in Seq(Symbols) /\ Len(SubSeq(b, k, l)) = w
      /\ \A i \in 1 .. w : SubSeq(b, k, l)[i] = b[k + i - 1]
  BY <1>2, PieceOfBits DEF Bits
<1>4. \A i \in 1 .. w : k + i - 1 = r.offset + i
  BY <1>1 DEF Fits
<1> QED
  BY <1>1, <1>3, <1>4 DEF FieldBits, Bits

LEMMA Parts012 ==
  \A class, b : /\ PartNumber(class, b) \in {0, 1, 2}
                /\ class # "24" => PartNumber(class, b) = 0
BY DEF PartNumber

LEMMA ClassDecodeErrors ==
  ASSUME NEW class \in Classes, NEW b \in Bits
  PROVE  LET d == ClassDecode(class, b)
         IN  /\ d.error \in {"Ok", "PayloadTooShort", "MessageDecodeFailure"}
             /\ d.error = "Ok" => d.class = class
             /\ d.error = "MessageDecodeFailure" =>
                  ~HasTypeOf(class, b) \/ PartNumber(class, b) = 2
<1> DEFINE part == PartNumber(class, b)
<1>1. Len(b) \in Nat /\ kBitLength(class) \in Nat
  BY ClassLengths DEF Bits
<1>2. part \in {0, 1, 2}
  BY Parts012
<1> HIDE DEF part
<1>3. \A r \in Reads(class, part) : Fits(r, kBitLength(class))
  BY ReadsFit
<1>4. ASSUME Len(b) >= kBitLength(class), NEW r \in Reads(class, part)
      PROVE  ~(r.offset + r.width > Len(b))
  BY <1>1, <1>3, <1>4 DEF Fits
<1>5. Len(b) < kBitLength(class) \/ Len(b) >= kBitLength(class)
  BY <1>1
<1> QED
  BY <1>2, <1>4, <1>5 DEF ClassDecode, DecodeError, part

LEMMA ClassDecoded ==
  ASSUME NEW class \in Classes, NEW b \in Bits, ClassDecode(class, b).error = "Ok"
  PROVE  LET part == PartNumber(class, b)
             d == ClassDecode(class, b)
         IN  /\ part \in {0, 1} /\ (class # "24" => part = 0)
             /\ Len(b) \in Nat /\ Len(b) >= kBitLength(class) /\ HasTypeOf(class, b)
             /\ d.class = class
             /\ DOMAIN d.fields = {r.field : r \in Reads(class, part)}
             /\ \A r \in Reads(class, part) : d.fields[r.field] = ReadValue(b, r)
<1> DEFINE part == PartNumber(class, b)
           d == ClassDecode(class, b)
           reads == Reads(class, part)
           fields == [f \in {r.field : r \in reads} |->
                        ReadValue(b, CHOOSE r \in reads : r.field = f)]
<1>1. Len(b) \in Nat /\ kBitLength(class) \in Nat
  BY ClassLengths DEF Bits
<1>2. /\ ~(Len(b) < kBitLength(class)) /\ HasTypeOf(class, b) /\ part \in {0, 1}
      /\ d = [error |-> "Ok", class |-> class, fields |-> fields]
  BY DEF ClassDecode, DecodeError
<1>3. class # "24" => part = 0
  BY Parts012
<1> HIDE DEF d, part
<1>4. ASSUME NEW r \in reads
      PROVE  fields[r.field] = ReadValue(b, r)
  <2>1. PICK n, P : Laid(Writes(class, part), reads, kBitLength(class), n, P)
    BY <1>2, <1>3, LayoutOf
  <2>2. \A q \in reads : q.field = r.field => q = r
    BY <2>1 DEF Laid
  <2> HIDE DEF reads
  <2>3. (CHOOSE q \in reads : q.field = r.field) = r
    BY <2>2
  <2> QED
    BY <2>3
<1>5. DOMAIN fields = {r.field : r \in reads}
  OBVIOUS
<1> HIDE DEF fields
<1> QED
  BY <1>1, <1>2, <1>3, <1>4, <1>5 DEF d, part

(* The bits of the part number, of which PartOf() finds the part again.     *)
LEMMA PartBits ==
  /\ NumberBits(0, 2)[2] = Bit(0) /\ NumberBits(1, 8)[8] = Bit(1)
  /\ \A i \in 1 .. 6 : NumberBits(1, 8)[i] = Bit(0)
  /\ \A i \in 1 .. 2 : NumberBits(1, 8)[6 + i] = NumberBits(1, 2)[i]
  /\ Bit(0) # Bit(1)
BY DEF NumberBits, Weight, Bit

LEMMA PartAgain ==
  ASSUME NEW class \in Classes, NEW b \in Bits, ClassDecode(class, b).error = "Ok"
  PROVE  PartOf(ClassDecode(class, b)) = PartNumber(class, b)
<1> DEFINE part == PartNumber(class, b)
           d == ClassDecode(class, b)
<1>1. /\ part \in {0, 1} /\ (class # "24" => part = 0) /\ d.class = class
      /\ Len(b) \in Nat /\ Len(b) >= kBitLength(class)
      /\ \A r \in Reads(class, part) : d.fields[r.field] = ReadValue(b, r)
  BY ClassDecoded
<1> HIDE DEF d
<1>2. CASE class # "24"
  BY <1>1, <1>2 DEF PartOf, d
<1>3. CASE class = "24"
  <2> DEFINE q == UintAt("part_number", 38, 2, 8)
             s == FieldBits(b, q)
  <2>1. q \in Reads(class, part)
    BY <1>3, CommonReads
  <2>2. /\ q.field = "part_number" /\ q.kind = "uint" /\ q.offset = 38 /\ q.width = 2
        /\ q.member = 8
    BY DEF UintAt
  <2>3. Fits(q, kBitLength(class)) /\ kBitLength(class) \in Nat
    BY <2>1, ReadsFit, ClassLengths
  <2> HIDE DEF q
  <2>4. s \in Bits /\ Len(s) = 2
    BY <1>1, <2>2, <2>3, FieldOfBits
  <2>5. d.fields.part_number = Resized(s, "uint", 8)
    BY <1>1, <2>1, <2>2 DEF ReadValue, FieldBits
  <2>6. \A k : HasNumber(b, 38, 2, k) <=> s = NumberBits(k, 2)
    BY <2>2 DEF HasNumber, FieldBits
  <2> HIDE DEF s, part
  <2>7. PICK e : e = Resized(s, "uint", 8)
    OBVIOUS
  <2>8. /\ e \in Bits /\ Len(e) = 8 /\ \A i \in 1 .. 2 : e[6 + i] = s[i]
        /\ \A i \in 1 .. 6 : e[i] = Bit(0)
    <3>1. PICK w, m, kind, z : w = 2 /\ m = 8 /\ kind = "uint" /\ z = s
      OBVIOUS
    <3>2. /\ w \in Nat \ {0} /\ m \in Nat /\ m >= w /\ kind # "int"
          /\ z \in Bits /\ Len(z) = w
      BY <2>4, <3>1
    <3>3. /\ Resized(z, kind, m) \in Bits /\ Len(Resized(z, kind, m)) = m
          /\ \A i \in 1 .. w : Resized(z, kind, m)[m - w + i] = z[i]
          /\ \A i \in 1 .. m - w : Resized(z, kind, m)[i] = Bit(0)
      BY <3>2, Extended
    <3>4. m - w = 6
      BY <3>1
    <3> QED
      BY <2>7, <3>1, <3>3, <3>4
  <2>9. CASE part = 0
    <3>1. s = NumberBits(0, 2)
      BY <1>3, <2>6, <2>9 DEF PartNumber, part
    <3>2. e[8] = Bit(0)
      <4>1. 2 \in 1 .. 2 /\ 6 + 2 = 8
        OBVIOUS
      <4> QED
        BY <2>8, <3>1, <4>1, PartBits
    <3>3. e # NumberBits(1, 8)
      BY <3>2, PartBits
    <3> QED
      BY <1>1, <2>5, <2>7, <2>9, <3>3 DEF PartOf, d, part
  <2>10. CASE part = 1
    <3>1. s = NumberBits(1, 2)
      BY <1>3, <2>6, <2>10 DEF PartNumber, part
    <3>2. ASSUME NEW i \in 1 .. 8
          PROVE  e[i] = NumberBits(1, 8)[i]
      <4>1. CASE i <= 6
        BY <2>8, <4>1, PartBits
      <4>2. CASE i > 6
        <5>1. i - 6 \in 1 .. 2 /\ 6 + (i - 6) = i
          BY <4>2
        <5> QED
          BY <2>8, <3>1, <5>1, PartBits
      <4> QED
        BY <4>1, <4>2
    <3>3. NumberBits(1, 8) \in Seq(Symbols) /\ Len(NumberBits(1, 8)) = 8
      <4>1. 1 \in Nat /\ 8 \in 0 .. 8
        OBVIOUS
      <4> QED
        BY <4>1, NumbersAreBits DEF Bits
    <3>4. e = NumberBits(1, 8)
      <4>1. PICK o : o = NumberBits(1, 8)
        OBVIOUS
      <4>2. e \in Seq(Symbols) /\ Len(e) = 8
        BY <2>8 DEF Bits
      <4>3. /\ o \in Seq(Symbols) /\ Len(e) = Len(o)
            /\ \A i \in 1 .. Len(e) : e[i] = o[i]
        BY <3>2, <3>3, <4>1, <4>2
      <4>4. e = o
        BY <4>2, <4>3, SameSequence
      <4> QED
        BY <4>1, <4>4
    <3> QED
      BY <1>1, <1>3, <2>5, <2>7, <2>10, <3>4 DEF PartOf, d, part
  <2> QED
    BY <1>1, <2>9, <2>10 DEF part
<1> QED
  BY <1>2, <1>3
-----------------------------------------------------------------------------
(* encode() writes each field as it was read, and nothing else.             *)
LEMMA FieldWritten ==
  ASSUME NEW b \in Bits, NEW n \in Nat, n <= Len(b), NEW r, Fits(r, n),
         NEW m, m.fields[r.field] = ReadValue(b, r),
         NEW w, w.field = r.field, w.kind = r.kind, w.width = r.width
  PROVE  /\ Written(m, w) \in Bits /\ Len(Written(m, w)) = r.width
         /\ r.kind # "text" => Written(m, w) = FieldBits(b, r)
         /\ r.kind = "text" => Stripped(Characters(Written(m, w))) =
                                 Stripped(Characters(FieldBits(b, r)))
<1>1. PICK s, k : s = FieldBits(b, r) /\ k = r.width
  OBVIOUS
<1>2. s \in Bits /\ Len(s) = k /\ k \in Nat \ {0}
  BY <1>1, FieldOfBits DEF Fits
<1>3. w.field # "spare"
  BY DEF Fits
<1>4. CASE r.kind = "text"
  <2>1. PICK c \in Nat \ {0} : k = 6 * c /\ k \div 6 = c
    <3>1. k % 6 = 0 /\ k \in Nat /\ k > 0
      BY <1>1, <1>2, <1>4 DEF Fits
    <3>2. k = 6 * (k \div 6) /\ k \div 6 \in Nat \ {0}
      BY <3>1
    <3> QED
      BY <3>2
  <2>2. PICK t : t = Characters(s)
    OBVIOUS
  <2>3. t \in Seq(Six) /\ Len(t) = c
    BY <1>2, <2>1, <2>2, CharactersOfBits
  <2>4. PICK u : u = Stripped(t)
    OBVIOUS
  <2>5. u \in Seq(Six) /\ Stripped(Padded(u, c)) = u
    BY <2>3, <2>4, StrippedAgain
  <2>6. m.fields[r.field] = u
    BY <1>1, <1>4, <2>2, <2>4 DEF ReadValue, FieldBits
  <2>7. Written(m, w) = WriteText(u, c)
    BY <1>1, <1>3, <1>4, <2>1, <2>6 DEF Written
  <2>8. /\ WriteText(u, c) \in Bits /\ Len(WriteText(u, c)) = 6 * c
        /\ Characters(WriteText(u, c)) = Padded(u, c)
    BY <2>5, TextWritten
  <2> QED
    BY <1>1, <1>4, <2>1, <2>2, <2>4, <2>5, <2>7, <2>8
<1>5. CASE r.kind # "text"
  <2>1. PICK g, kind : g = r.member /\ kind = r.kind
    OBVIOUS
  <2>2. g \in Nat /\ g >= k
    BY <1>1, <1>5, <2>1 DEF Fits
  <2>3. m.fields[r.field] = Resized(s, kind, g)
    BY <1>1, <1>5, <2>1 DEF ReadValue, FieldBits
  <2>4. Written(m, w) = Resized(Resized(s, kind, g), kind, k)
    BY <1>1, <1>3, <1>5, <2>1, <2>3 DEF Written
  <2>5. Resized(Resized(s, kind, g), kind, k) = s
    BY <1>2, <2>2, NumberAgain
  <2> QED
    BY <1>1, <1>2, <1>5, <2>4, <2>5
<1> QED
  BY <1>4, <1>5

(* Between which places a bit lies.                                         *)
LEMMA PlaceOf ==
  ASSUME NEW n \in Nat, NEW P \in [0 .. n -> Nat], P[0] = 0, NEW i \in 1 .. P[n]
  PROVE  \E j \in 1 .. n : P[j - 1] < i /\ i <= P[j]
<1> DEFINE T == {k \in 0 .. n : i <= P[k] => \E j \in 1 .. k : P[j - 1] < i /\ i <= P[j]}
<1>1. 0 \in T
  OBVIOUS
<1>2. ASSUME NEW k \in 1 .. n, k - 1 \in T
      PROVE  k \in T
  <2>1. k - 1 \in 0 .. n /\ k \in 0 .. n /\ P[k - 1] \in Nat /\ P[k] \in Nat
    OBVIOUS
  <2>2. CASE i <= P[k - 1]
    <3>1. PICK j \in 1 .. k - 1 : P[j - 1] < i /\ i <= P[j]
      BY <1>2, <2>2
    <3>2. j \in 1 .. k
      OBVIOUS
    <3> QED
      BY <2>1, <3>1, <3>2
  <2>3. CASE ~(i <= P[k - 1])
    <3>1. P[k - 1] < i /\ k \in 1 .. k
      BY <2>1, <2>3
    <3> QED
      BY <2>1, <3>1
  <2> QED
    BY <2>2, <2>3
<1> HIDE DEF T
<1>3. 0 .. n \subseteq T
  BY <1>1, <1>2, AllPlaces
<1>4. n \in T
  BY <1>3
<1>5. i <= P[n]
  OBVIOUS
<1> QED
  BY <1>4, <1>5 DEF T

(* What the writer holds after the writes of a class.                       *)
Holds(b, c, class, part, length) ==
  /\ \A r \in Reads(class, part) : SameField(b, c, r)
  /\ \A i \in 1 .. length :
       (\E r \in Reads(class, part) : r.offset < i /\ i <= r.offset + r.width)
         \/ c[i] = Bit(0)

LEMMA MessageWritten ==
  ASSUME NEW class \in Classes, NEW b \in Bits, ClassDecode(class, b).error = "Ok"
  PROVE  LET part   == PartNumber(class, b)
             length == kBitLength(class)
             c      == InBytes(WriterBits(ClassDecode(class, b)))
         IN  c \in Bits /\ Len(c) = 8 * Bytes(length) /\ Holds(b, c, class, part, length)
<1>1. PICK part, length, d, reads, writes :
        /\ part = PartNumber(class, b) /\ length = kBitLength(class)
        /\ d = ClassDecode(class, b) /\ reads = Reads(class, part)
        /\ writes = Writes(class, part)
  OBVIOUS
<1>2. /\ part \in {0, 1} /\ (class # "24" => part = 0) /\ d.class = class
      /\ Len(b) \in Nat /\ Len(b) >= length /\ length \in Nat
      /\ \A r \in reads : d.fields[r.field] = ReadValue(b, r)
  BY <1>1, ClassDecoded, ClassLengths
<1>3. PartOf(d) = part
  BY <1>1, PartAgain
<1>4. PICK n, P : Laid(writes, reads, length, n, P)
  BY <1>1, <1>2, LayoutOf
<1>5. /\ n \in Nat \ {0} /\ DOMAIN writes = 1 .. n
      /\ P \in [0 .. n -> Nat] /\ P[0] = 0
      /\ P[n] <= length /\ Bytes(P[n]) = Bytes(length)
  BY <1>4 DEF Laid
<1>6. ASSUME NEW i \in 1 .. n
      PROVE  writes[i].width \in Nat \ {0} /\ P[i] = P[i - 1] + writes[i].width
  BY <1>4 DEF Laid
<1>7. \A r \in reads : Fits(r, length)
  BY <1>1, ReadsFit
<1> DEFINE pieces == [i \in 1 .. n |-> Written(d, writes[i])]
<1>8. ASSUME NEW r \in reads, NEW i \in 1 .. n, Meets(writes[i], r, P[i - 1])
      PROVE  /\ pieces[i] \in Bits /\ Len(pieces[i]) = writes[i].width
             /\ r.kind # "text" => pieces[i] = FieldBits(b, r)
             /\ r.kind = "text" => Stripped(Characters(pieces[i])) =
                                     Stripped(Characters(FieldBits(b, r)))
  <2>1. PICK w : w = writes[i]
    OBVIOUS
  <2>2. /\ w.field = r.field /\ w.kind = r.kind /\ w.width = r.width
        /\ d.fields[r.field] = ReadValue(b, r) /\ Fits(r, length)
    BY <1>2, <1>7, <1>8, <2>1 DEF Meets
  <2>3. /\ Written(d, w) \in Bits /\ Len(Written(d, w)) = r.width
        /\ r.kind # "text" => Written(d, w) = FieldBits(b, r)
        /\ r.kind = "text" => Stripped(Characters(Written(d, w))) =
                                 Stripped(Characters(FieldBits(b, r)))
    BY <1>2, <2>2, FieldWritten
  <2>4. pieces[i] = Written(d, w)
    BY <2>1
  <2> HIDE DEF pieces
  <2> QED
    BY <2>1, <2>2, <2>3, <2>4
<1>9. ASSUME NEW i \in 1 .. n, writes[i].field = "spare", writes[i].kind = "uint"
      PROVE  pieces[i] = Zeros(writes[i].width)
  BY <1>9 DEF Written
<1>10. ASSUME NEW i \in 1 .. n
       PROVE  \/ writes[i].field = "spare" /\ writes[i].kind = "uint"
              \/ \E r \in reads : Meets(writes[i], r, P[i - 1])
  BY <1>4 DEF Laid
<1>11. WriterBits(d) = FlattenSeq(pieces)
  BY <1>1, <1>2, <1>3, <1>5 DEF WriterBits
<1>12. DOMAIN pieces = 1 .. n /\ Len(pieces) = n
  BY <1>5
<1> HIDE DEF pieces
<1>13. ASSUME NEW i \in 1 .. n
       PROVE  pieces[i] \in Bits /\ Len(pieces[i]) = writes[i].width
  <2>1. CASE writes[i].field = "spare" /\ writes[i].kind = "uint"
    BY <1>6, <1>9, <2>1, ZerosAreBits
  <2>2. CASE \E r \in reads : Meets(writes[i], r, P[i - 1])
    BY <1>8, <2>2
  <2> QED
    BY <1>10, <2>1, <2>2
<1>14. pieces \in Seq(Seq(Symbols)) /\ pieces # <<>>
  <2>1. pieces = [i \in 1 .. n |-> pieces[i]]
    BY DEF pieces
  <2>2. n \in Nat /\ n >= 1
    BY <1>5
  <2>3. pieces \in Seq(Bits)
    BY <1>13, <2>1, <2>2
  <2> QED
    BY <1>12, <2>2, <2>3 DEF Bits
<1>15. Places(pieces, P)
  BY <1>5, <1>6, <1>12, <1>13 DEF Places
<1>16. PICK a : a = FlattenSeq(pieces)
  OBVIOUS
<1>17. a \in Bits /\ Found(pieces, P, n, a)
  BY <1>12, <1>14, <1>15, <1>16, Joined DEF Bits
<1>18. Len(a) = P[n]
  BY <1>17 DEF Found
<1>19. ASSUME NEW i \in 1 .. n
       PROVE  /\ P[i] <= P[n]
              /\ \A j \in 1 .. writes[i].width : a[P[i - 1] + j] = pieces[i][j]
  BY <1>13, <1>17 DEF Found
<1>20. PICK c : c = InBytes(a)
  OBVIOUS
<1>21. /\ c \in Bits /\ Len(c) = 8 * Bytes(length) /\ 8 * Bytes(length) >= P[n]
       /\ \A i \in 1 .. P[n] : c[i] = a[i]
       /\ \A i \in P[n] + 1 .. 8 * Bytes(length) : c[i] = Bit(0)
  BY <1>5, <1>17, <1>18, <1>20, Filled
<1>22. 8 * Bytes(length) >= length /\ P[n] \in Nat /\ Bytes(length) \in Nat
  BY <1>2, <1>5 DEF Bytes
<1>23. ASSUME NEW i \in 1 .. n, NEW j \in 1 .. writes[i].width
       PROVE  c[P[i - 1] + j] = pieces[i][j]
  <2>1. i - 1 \in 0 .. n /\ i \in 0 .. n /\ P[i - 1] \in Nat /\ P[i] \in Nat
    BY <1>5
  <2>2. P[i - 1] + j \in 1 .. P[n]
    BY <1>6, <1>19, <1>22, <2>1
  <2> QED
    BY <1>19, <1>21, <2>2
<1>24. ASSUME NEW r \in reads
       PROVE  SameField(b, c, r)
  <2>1. PICK i \in 1 .. n : Meets(writes[i], r, P[i - 1])
    BY <1>4 DEF Laid
  <2>2. Fits(r, length) /\ length <= Len(c)
    BY <1>2, <1>7, <1>21, <1>22
  <2>3. PICK s, p : s = FieldBits(c, r) /\ p = pieces[i]
    OBVIOUS
  <2>4. /\ s \in Bits /\ Len(s) = r.width
        /\ \A j \in 1 .. r.width : s[j] = c[r.offset + j]
    BY <1>2, <1>21, <2>2, <2>3, FieldOfBits
  <2>5. p \in Bits /\ Len(p) = r.width
    BY <1>13, <2>1, <2>3 DEF Meets
  <2>6. \A j \in 1 .. r.width : s[j] = p[j]
    BY <1>23, <2>1, <2>3, <2>4 DEF Meets
  <2>7. s = p
    BY <2>4, <2>5, <2>6, SameSequence DEF Bits
  <2> QED
    BY <1>8, <2>1, <2>3, <2>7 DEF SameField
<1>25. ASSUME NEW i \in 1 .. length, c[i] # Bit(0)
       PROVE  \E r \in reads : r.offset < i /\ i <= r.offset + r.width
  <2>1. i \in 1 .. P[n]
    <3>1. CASE i > P[n]
      <4>1. i \in P[n] + 1 .. 8 * Bytes(length)
        BY <1>2, <1>22, <3>1
      <4> QED
        BY <1>21, <1>25, <4>1
    <3> QED
      BY <1>22, <3>1
  <2>2. PICK j \in 1 .. n : P[j - 1] < i /\ i <= P[j]
    BY <1>5, <2>1, PlaceOf
  <2>3. j - 1 \in 0 .. n /\ j \in 0 .. n /\ P[j - 1] \in Nat /\ P[j] \in Nat
    BY <1>5
  <2>4. PICK k : k = i - P[j - 1]
    OBVIOUS
  <2>5. k \in 1 .. writes[j].width /\ P[j - 1] + k = i
    BY <1>6, <2>2, <2>3, <2>4
  <2>6. c[i] = pieces[j][k]
    BY <1>23, <2>5
  <2>7. CASE writes[j].field = "spare" /\ writes[j].kind = "uint"
    <3>1. pieces[j][k] = Bit(0)
      BY <1>6, <1>9, <2>5, <2>7, ZerosAreBits
    <3> QED
      BY <1>25, <2>6, <3>1
  <2>8. CASE \E r \in reads : Meets(writes[j], r, P[j - 1])
    <3>1. PICK r \in reads : Meets(writes[j], r, P[j - 1])
      BY <2>8
    <3>2. r.offset < i /\ i <= r.offset + r.width
      BY <1>6, <2>2, <2>3, <3>1 DEF Meets
    <3> QED
      BY <3>2
  <2> QED
    BY <1>10, <2>7, <2>8
<1> QED
  BY <1>1, <1>11, <1>16, <1>20, <1>21, <1>24, <1>25 DEF Holds
(* The payload that encode() returns holds the message's fields.            *)
LEMMA MessageEncoded ==
  ASSUME NEW class \in Classes, NEW b \in Bits, ClassDecode(class, b).error = "Ok"
  PROVE  LET part   == PartNumber(class, b)
             length == kBitLength(class)
             p      == EncodeMessage(ClassDecode(class, b))
             after  == decode_payload(p)
         IN  /\ Sendable(p) /\ SignificantBits(p) = length
             /\ after.error = "Ok" /\ after.buffer \in Bits
             /\ Len(after.buffer) \in Nat /\ Len(after.buffer) >= length
             /\ Holds(b, after.buffer, class, part, length)
<1>1. PICK part, length, d, c :
        /\ part = PartNumber(class, b) /\ length = kBitLength(class)
        /\ d = ClassDecode(class, b) /\ c = InBytes(WriterBits(d))
  OBVIOUS
<1>2. c \in Bits /\ Len(c) = 8 * Bytes(length) /\ Holds(b, c, class, part, length)
  BY <1>1, MessageWritten
<1>3. d.class = class /\ length \in Nat \ {0}
  BY <1>1, ClassDecoded, ClassLengths
<1>4. PICK p : p = encode_payload(c, length)
  OBVIOUS
<1>5. EncodeMessage(d) = p
  BY <1>1, <1>3, <1>4 DEF EncodeMessage
<1>6. Len(c) >= 8 * Bytes(length)
  BY <1>2, <1>3 DEF Bits
<1>7. PICK after : after = decode_payload(p)
  OBVIOUS
<1>8. /\ Sendable(p) /\ SignificantBits(p) = length
      /\ after.error = "Ok" /\ after.buffer \in Bits
      /\ Len(after.buffer) = 8 * Bytes(length) /\ 8 * Bytes(length) >= length
      /\ \A i \in 1 .. length : after.buffer[i] = c[i]
  BY <1>2, <1>3, <1>4, <1>6, <1>7, Transferred
<1>9. PICK a : a = after.buffer
  OBVIOUS
<1>10. Len(a) \in Nat /\ Len(a) >= length /\ length <= Len(a) /\ length <= Len(c)
  BY <1>2, <1>3, <1>8, <1>9 DEF Bits
<1>11. ASSUME NEW r \in Reads(class, part)
       PROVE  SameField(b, a, r)
  <2>1. Fits(r, length)
    BY <1>1, ReadsFit
  <2>2. PICK s, t : s = FieldBits(a, r) /\ t = FieldBits(c, r)
    OBVIOUS
  <2>3. /\ s \in Bits /\ Len(s) = r.width
        /\ \A j \in 1 .. r.width : s[j] = a[r.offset + j]
    BY <1>3, <1>8, <1>9, <1>10, <2>1, <2>2, FieldOfBits
  <2>4. /\ t \in Bits /\ Len(t) = r.width
        /\ \A j \in 1 .. r.width : t[j] = c[r.offset + j]
    BY <1>2, <1>3, <1>10, <2>1, <2>2, FieldOfBits
  <2>5. \A j \in 1 .. r.width : r.offset + j \in 1 .. length
    BY <1>3, <2>1 DEF Fits
  <2>6. \A j \in 1 .. r.width : s[j] = t[j]
    BY <1>8, <1>9, <2>3, <2>4, <2>5
  <2>7. s = t
    BY <2>3, <2>4, <2>6, SameSequence DEF Bits
  <2>8. SameField(b, c, r)
    BY <1>2 DEF Holds
  <2> QED
    BY <2>2, <2>7, <2>8 DEF SameField
<1>12. Holds(b, a, class, part, length)
  BY <1>2, <1>8, <1>9, <1>11 DEF Holds
<1> QED
  BY <1>1, <1>5, <1>7, <1>8, <1>9, <1>10, <1>12

(* A buffer with the same fields is decoded to the same message.            *)
LEMMA DecodedAgain ==
  ASSUME NEW class \in Classes, NEW b \in Bits, ClassDecode(class, b).error = "Ok",
         NEW a \in Bits, Len(a) >= kBitLength(class),
         \A r \in Reads(class, PartNumber(class, b)) : SameField(b, a, r)
  PROVE  /\ ClassDecode(class, a) = ClassDecode(class, b)
         /\ \A t : HasNumber(a, 0, 6, t) <=> HasNumber(b, 0, 6, t)
<1>1. PICK part, reads, length :
        /\ part = PartNumber(class, b) /\ reads = Reads(class, part)
        /\ length = kBitLength(class)
  OBVIOUS
<1>2. /\ part \in {0, 1} /\ HasTypeOf(class, b) /\ length \in Nat
      /\ Len(b) \in Nat /\ Len(b) >= length /\ Len(a) \in Nat /\ Len(a) >= length
  BY <1>1, ClassDecoded, ClassLengths DEF Bits
<1>3. ASSUME NEW t
      PROVE  HasNumber(a, 0, 6, t) <=> HasNumber(b, 0, 6, t)
  <2>1. PICK r : r = UintAt("type", 0, 6, 8)
    OBVIOUS
  <2>2. r \in reads /\ r.kind = "uint" /\ r.offset = 0 /\ r.width = 6
    BY <1>1, <2>1, CommonReads DEF UintAt
  <2>3. FieldBits(a, r) = FieldBits(b, r)
    BY <1>1, <2>2 DEF SameField
  <2> QED
    BY <2>2, <2>3 DEF FieldBits, HasNumber
<1>4. HasTypeOf(class, a)
  BY <1>2, <1>3 DEF HasTypeOf
<1>5. PartNumber(class, a) = part
  <2>1. CASE class # "24"
    BY <1>1, <2>1 DEF PartNumber
  <2>2. CASE class = "24"
    <3>1. PICK r : r = UintAt("part_number", 38, 2, 8)
      OBVIOUS
    <3>2. r \in reads /\ r.kind = "uint" /\ r.offset = 38 /\ r.width = 2
      BY <1>1, <2>2, <3>1, CommonReads DEF UintAt
    <3>3. FieldBits(a, r) = FieldBits(b, r)
      BY <1>1, <3>2 DEF SameField
    <3>4. \A t : HasNumber(a, 38, 2, t) <=> HasNumber(b, 38, 2, t)
      BY <3>2, <3>3 DEF FieldBits, HasNumber
    <3> QED
      BY <1>1, <3>4 DEF PartNumber
  <2> QED
    BY <2>1, <2>2
<1>6. ASSUME NEW r \in reads
      PROVE  /\ ReadValue(a, r) = ReadValue(b, r)
             /\ ~(r.offset + r.width > Len(a)) /\ ~(r.offset + r.width > Len(b))
  <2>1. Fits(r, length)
    BY <1>1, ReadsFit
  <2>2. SameField(b, a, r)
    BY <1>1
  <2>3. ReadValue(a, r) = ReadValue(b, r)
    BY <2>2 DEF SameField, ReadValue, FieldBits
  <2> QED
    BY <1>2, <2>1, <2>3 DEF Fits
<1> DEFINE Fields(x) == [f \in {r.field : r \in reads} |->
                           ReadValue(x, CHOOSE r \in reads : r.field = f)]
           Message(x) == [error |-> "Ok", class |-> class, fields |-> Fields(x)]
<1>7. Fields(a) = Fields(b)
  <2>1. ASSUME NEW f \in {r.field : r \in reads}
        PROVE  ReadValue(a, CHOOSE r \in reads : r.field = f) =
               ReadValue(b, CHOOSE r \in reads : r.field = f)
    <3>1. PICK q : q = CHOOSE r \in reads : r.field = f
      OBVIOUS
    <3>2. q \in reads
      BY <3>1
    <3> QED
      BY <1>6, <3>1, <3>2
  <2> QED
    BY <2>1
<1>8. ClassDecode(class, a) = Message(a)
  <2>1. ~(Len(a) < kBitLength(class)) /\ ~(part \notin {0, 1})
    BY <1>1, <1>2
  <2>2. ~\E r \in reads : r.offset + r.width > Len(a)
    BY <1>6
  <2> QED
    BY <1>1, <1>4, <1>5, <2>1, <2>2 DEF ClassDecode
<1>9. ClassDecode(class, b) = Message(b)
  <2>1. ~(Len(b) < kBitLength(class)) /\ ~(part \notin {0, 1})
    BY <1>1, <1>2
  <2>2. ~\E r \in reads : r.offset + r.width > Len(b)
    BY <1>6
  <2> QED
    BY <1>1, <1>2, <2>1, <2>2 DEF ClassDecode
<1> HIDE DEF Fields
<1> QED
  BY <1>3, <1>7, <1>8, <1>9
-----------------------------------------------------------------------------
(* What transmitters send is characters, whatever its length.               *)
LEMMA TransmittedAreBits ==
  ASSUME NEW class \in Classes, NEW t \in 0 .. 63, NEW part \in Parts(class),
         NEW shape \in TextShapes, NEW n \in Nat
  PROVE  TransmittedBits(class, t, part, shape, n) \in Bits /\
         Len(TransmittedBits(class, t, part, shape, n)) = n
<1> DEFINE texts == {r \in Reads(class, part) : r.kind = "text"}
           Covers(r, i) == r.offset < i /\ i <= r.offset + r.width
           text(i) == CHOOSE r \in texts : Covers(r, i)
           bit(i) == CASE i <= 6 -> NumberBits(t, 6)[i]
                       [] class = "24" /\ i \in {39, 40} -> NumberBits(part, 2)[i - 38]
                       [] \E r \in texts : Covers(r, i) -> TextBit(text(i), i, shape)
                       [] OTHER -> <<"received", i>>
<1>1. TransmittedBits(class, t, part, shape, n) = [i \in 1 .. n |-> bit(i)]
  BY DEF TransmittedBits
<1>2. ASSUME NEW i \in 1 .. n
      PROVE  bit(i) \in Symbols
  <2>1. i <= 6 => NumberBits(t, 6)[i] \in Symbols
    <3>1. t \in Nat /\ 6 \in 0 .. 8
      OBVIOUS
    <3>2. NumberBits(t, 6) \in Bits /\ Len(NumberBits(t, 6)) = 6
      BY <3>1, NumbersAreBits
    <3> QED
      BY <3>2 DEF Bits
  <2>2. i \in {39, 40} => NumberBits(part, 2)[i - 38] \in Symbols
    <3>1. part \in Nat /\ 2 \in 0 .. 8
      BY DEF Parts
    <3>2. NumberBits(part, 2) \in Bits /\ Len(NumberBits(part, 2)) = 2
      BY <3>1, NumbersAreBits
    <3> QED
      BY <3>2 DEF Bits
  <2>3. ASSUME \E r \in texts : Covers(r, i)
        PROVE  TextBit(text(i), i, shape) \in Symbols
    <3>1. PICK r : r = text(i)
      OBVIOUS
    <3>2. r \in texts /\ Covers(r, i)
      BY <2>3, <3>1
    <3>3. Fits(r, kBitLength(class))
      BY <3>2, ReadsFit
    <3>4. i - 1 - r.offset \in Nat
      BY <3>2, <3>3 DEF Fits
    <3>5. PICK o \in Nat : o = i - 1 - r.offset
      BY <3>4
    <3>6. 1 + (o % 6) \in 1 .. 6 /\ o \div 6 + 1 \in Nat /\ o \div 6 + 1 >= 1
      OBVIOUS
    <3>7. CharacterKind(r, i, shape) \in {"letter", "space", "padding"}
      <4>1. shape \in Seq({"letter", "space", "padding"})
        BY CodecAssumption
      <4> QED
        BY <3>5, <3>6, <4>1 DEF CharacterKind
    <3>8. Space[1 + (o % 6)] \in Symbols /\ Padding[1 + (o % 6)] \in Symbols
      <4>1. 32 \in Nat /\ 6 \in 0 .. 8
        OBVIOUS
      <4>2. Space \in Bits /\ Len(Space) = 6
        BY <4>1, NumbersAreBits DEF Space
      <4>3. Padding \in Bits /\ Len(Padding) = 6
        BY PaddingIsSix DEF Six
      <4>4. PICK q : q = 1 + (o % 6)
        OBVIOUS
      <4>5. PICK s, p : s = Space /\ p = Padding
        OBVIOUS
      <4>6. q \in 1 .. 6 /\ s \in Seq(Symbols) /\ Len(s) = 6
                       /\ p \in Seq(Symbols) /\ Len(p) = 6
        BY <3>6, <4>2, <4>3, <4>4, <4>5 DEF Bits
      <4>7. s[q] \in Symbols /\ p[q] \in Symbols
        <5>1. q \in 1 .. Len(s) /\ q \in 1 .. Len(p)
          BY <4>6
        <5> QED
          BY <4>6, <5>1, ElementOfSeq
      <4> QED
        BY <4>4, <4>5, <4>7
    <3>9. <<"received", i>> \in Symbols
      BY DEF Symbols
    <3>10. TextBit(r, i, shape) \in Symbols
      BY <3>5, <3>7, <3>8, <3>9 DEF TextBit
    <3> QED
      BY <3>1, <3>10
  <2>4. <<"received", i>> \in Symbols
    BY DEF Symbols
  <2> HIDE DEF texts, Covers, text
  <2> QED
    BY <2>1, <2>2, <2>3, <2>4
<1> HIDE DEF bit
<1> QED
  BY <1>1, <1>2 DEF Bits

LEMMA TransmittedSendable ==
  ASSUME NEW class \in Classes, NEW t \in 0 .. 63, NEW part \in Parts(class),
         NEW shape \in TextShapes, NEW d \in Int, CharCount(class) + d > 0
  PROVE  Transmitted(class, t, part, shape, d) \in Seq(Six) \ {<<>>}
<1>1. PICK n : n = CharCount(class) + d
  OBVIOUS
<1>2. n \in Nat /\ n > 0 /\ 6 * n \in Nat
  BY <1>1, ClassLengths DEF CharCount
<1>3. PICK b : b = TransmittedBits(class, t, part, shape, 6 * n)
  OBVIOUS
<1>4. b \in Bits /\ Len(b) = 6 * n
  BY <1>2, <1>3, TransmittedAreBits
<1>5. Len(b) \div 6 = n
  BY <1>2, <1>4
<1>6. Characters(b) \in Seq(Six) /\ Len(Characters(b)) = n
  BY <1>4, <1>5, CharactersOfBits
<1>7. Transmitted(class, t, part, shape, d) = Characters(b)
  BY <1>1, <1>3 DEF Transmitted
<1> QED
  BY <1>2, <1>6, <1>7

LEMMA InitSendable == Init => Sendable(received)
<1> SUFFICES ASSUME Init PROVE Sendable(received)
  OBVIOUS
<1>1. ASSUME NEW c \in Seq(Six), NEW fill \in 0 .. 5
      PROVE  Sendable(Payload(c, fill))
  <2>1. Seq(Six) \subseteq Seq(Six \cup {Garbled})
    OBVIOUS
  <2> QED
    BY <2>1 DEF Sendable, Payload
<1>2. \A class \in Classes : TypesOf(class) \subseteq 0 .. 63 /\ 0 \in Parts(class)
  BY DEF Classes, TypesOf, Parts
<1>3. Anything \in TextShapes
  BY CodecAssumption DEF Anything
<1>4. \A class \in Classes : CharCount(class) + 0 > 0
  BY ClassLengths DEF CharCount
<1>5. CASE received \in Intact
  <2>1. PICK class \in Classes : \E t \in TypesOf(class), part \in Parts(class),
                                    shape \in TextShapes :
          received = Payload(Transmitted(class, t, part, shape, 0), 0)
    BY <1>5 DEF Intact
  <2>2. PICK t \in TypesOf(class), part \in Parts(class), shape \in TextShapes :
          received = Payload(Transmitted(class, t, part, shape, 0), 0)
    BY <2>1
  <2>3. Transmitted(class, t, part, shape, 0) \in Seq(Six)
    <3>1. t \in 0 .. 63 /\ 0 \in Int /\ CharCount(class) + 0 > 0
      BY <1>2, <1>4
    <3> QED
      BY <3>1, TransmittedSendable
  <2> QED
    BY <1>1, <2>2, <2>3
<1>6. CASE received \in OtherLength
  <2>1. PICK class \in Classes : \E t \in TypesOf(class), fill \in 0 .. 5, d \in Changes :
          /\ CharCount(class) + d > 0
          /\ received = Payload(Transmitted(class, t, 0, Anything, d), fill)
    BY <1>6 DEF OtherLength
  <2>2. PICK t \in TypesOf(class), fill \in 0 .. 5, d \in Changes :
          /\ CharCount(class) + d > 0
          /\ received = Payload(Transmitted(class, t, 0, Anything, d), fill)
    BY <2>1
  <2>3. d \in Int
    BY CodecAssumption
  <2>4. Transmitted(class, t, 0, Anything, d) \in Seq(Six)
    BY <1>2, <1>3, <2>2, <2>3, TransmittedSendable
  <2> QED
    BY <1>1, <2>2, <2>4
<1>7. ASSUME NEW p \in OtherType
      PROVE  \E c \in Seq(Six) \ {<<>>} : p = Payload(c, 0)
  <2>1. PICK class \in Classes, t \in OtherTypes :
          p = Payload(Transmitted(class, t, 0, Anything, 0), 0)
    BY DEF OtherType
  <2>2. t \in 0 .. 63
    BY CodecAssumption
  <2>3. Transmitted(class, t, 0, Anything, 0) \in Seq(Six) \ {<<>>}
    <3>1. 0 \in Parts(class) /\ 0 \in Int /\ CharCount(class) + 0 > 0
      BY <1>2, <1>4
    <3> QED
      BY <1>3, <2>2, <3>1, TransmittedSendable
  <2> QED
    BY <2>1, <2>3
<1>8. CASE received \in OtherType
  BY <1>1, <1>7, <1>8
<1>9. CASE received \in Unarmoured
  <2>1. PICK p \in OtherType : received = [p EXCEPT !.chars[1] = Garbled]
    BY <1>9 DEF Unarmoured
  <2>2. PICK c \in Seq(Six) \ {<<>>} : p = Payload(c, 0)
    BY <1>7
  <2>3. PICK e : e = [c EXCEPT ![1] = Garbled]
    OBVIOUS
  <2>4. e \in Seq(Six \cup {Garbled})
    <3>1. 1 \in 1 .. Len(c) /\ c \in Seq(Six \cup {Garbled})
      OBVIOUS
    <3> QED
      BY <2>3, <3>1, ExceptSeq
  <2>5. received = Payload(e, 0)
    BY <2>1, <2>2, <2>3 DEF Payload
  <2> QED
    BY <2>4, <2>5 DEF Sendable, Payload
<1>10. CASE received = Payload(<<>>, 0)
  <2>1. <<>> \in Seq(Six) /\ 0 \in 0 .. 5
    OBVIOUS
  <2> QED
    BY <1>1, <1>10, <2>1
<1> QED
  BY <1>5, <1>6, <1>8, <1>9, <1>10 DEF Init
-----------------------------------------------------------------------------
(* A type id is known by its six bits, and belongs to one class.            *)
LEMMA TypeNumber ==
  ASSUME NEW t \in 0 .. 63, NEW u \in 0 .. 63, NumberBits(t, 6) = NumberBits(u, 6)
  PROVE  t = u
<1>1. ASSUME NEW n \in 0 .. 63
      PROVE  /\ NumberBits(n, 6)[1] = Bit((n \div 32) % 2)
             /\ NumberBits(n, 6)[2] = Bit((n \div 16) % 2)
             /\ NumberBits(n, 6)[3] = Bit((n \div 8) % 2)
             /\ NumberBits(n, 6)[4] = Bit((n \div 4) % 2)
             /\ NumberBits(n, 6)[5] = Bit((n \div 2) % 2)
             /\ NumberBits(n, 6)[6] = Bit((n \div 1) % 2)
  <2>1. \A i \in 1 .. 6 : NumberBits(n, 6)[i] = Bit((n \div Weight[6 - i + 1]) % 2)
    BY DEF NumberBits
  <2>2. /\ 6 - 1 + 1 = 6 /\ 6 - 2 + 1 = 5 /\ 6 - 3 + 1 = 4 /\ 6 - 4 + 1 = 3
        /\ 6 - 5 + 1 = 2 /\ 6 - 6 + 1 = 1
    OBVIOUS
  <2>3. /\ Weight[6] = 32 /\ Weight[5] = 16 /\ Weight[4] = 8 /\ Weight[3] = 4
        /\ Weight[2] = 2 /\ Weight[1] = 1
    BY DEF Weight
  <2> QED
    BY <2>1, <2>2, <2>3
<1>2. ASSUME NEW i, NEW j, Bit(i) = Bit(j)
      PROVE  i = j
  BY <1>2 DEF Bit
<1>3. /\ (t \div 32) % 2 = (u \div 32) % 2 /\ (t \div 16) % 2 = (u \div 16) % 2
      /\ (t \div 8) % 2 = (u \div 8) % 2 /\ (t \div 4) % 2 = (u \div 4) % 2
      /\ (t \div 2) % 2 = (u \div 2) % 2 /\ (t \div 1) % 2 = (u \div 1) % 2
  <2>1. (t \div 32) % 2 = (u \div 32) % 2
    <3>1. Bit((t \div 32) % 2) = Bit((u \div 32) % 2)
      BY <1>1
    <3> QED
      BY <1>2, <3>1
  <2>2. (t \div 16) % 2 = (u \div 16) % 2
    <3>1. Bit((t \div 16) % 2) = Bit((u \div 16) % 2)
      BY <1>1
    <3> QED
      BY <1>2, <3>1
  <2>3. (t \div 8) % 2 = (u \div 8) % 2
    <3>1. Bit((t \div 8) % 2) = Bit((u \div 8) % 2)
      BY <1>1
    <3> QED
      BY <1>2, <3>1
  <2>4. (t \div 4) % 2 = (u \div 4) % 2
    <3>1. Bit((t \div 4) % 2) = Bit((u \div 4) % 2)
      BY <1>1
    <3> QED
      BY <1>2, <3>1
  <2>5. (t \div 2) % 2 = (u \div 2) % 2
    <3>1. Bit((t \div 2) % 2) = Bit((u \div 2) % 2)
      BY <1>1
    <3> QED
      BY <1>2, <3>1
  <2>6. (t \div 1) % 2 = (u \div 1) % 2
    <3>1. Bit((t \div 1) % 2) = Bit((u \div 1) % 2)
      BY <1>1
    <3> QED
      BY <1>2, <3>1
  <2> QED
    BY <2>1, <2>2, <2>3, <2>4, <2>5, <2>6
<1>4. t \div 32 = u \div 32
  BY <1>3
<1>5. t \div 16 = u \div 16
  BY <1>3, <1>4
<1>6. t \div 8 = u \div 8
  BY <1>3, <1>5
<1>7. t \div 4 = u \div 4
  BY <1>3, <1>6
<1>8. t \div 2 = u \div 2
  BY <1>3, <1>7
<1> QED
  BY <1>3, <1>8

LEMMA ClassesOfTypes ==
  /\ \A class \in Classes : \A t \in TypesOf(class) :
       t \in SupportedTypes /\ DecoderFor(t) = class
  /\ \A t \in SupportedTypes : /\ DecoderFor(t) \in Classes /\ t \in TypesOf(DecoderFor(t))
                               /\ t \in 1 .. 27
BY DEF Classes, TypesOf, SupportedTypes, DecoderFor

Table == [t \in SupportedTypes |-> DecoderFor(t)]

(* MessageRegistry::decode() returns what the decoder of the type in the    *)
(* payload returns, if there is one.                                        *)
LEMMA RegistryDecodes ==
  ASSUME NEW p, Sendable(p), decoders = <<>> \/ decoders = Table
  PROVE  LET b == decode_payload(p).buffer
             m == RegistryDecode(p)
         IN  /\ m.error \in ErrorCodes \ {"none", "BitfieldOutOfRange"}
             /\ m.error \in {"Ok", "MessageDecodeFailure"} =>
                  /\ decode_payload(p).error = "Ok"
                  /\ \E t \in SupportedTypes :
                       HasNumber(b, 0, 6, t) /\ m = ClassDecode(DecoderFor(t), b)
             /\ \A t \in SupportedTypes :
                  /\ decoders # <<>> /\ decode_payload(p).error = "Ok"
                  /\ HasNumber(b, 0, 6, t)
                  => m = ClassDecode(DecoderFor(t), b)
<1>1. PICK d, b, m : d = decode_payload(p) /\ b = d.buffer /\ m = RegistryDecode(p)
  OBVIOUS
<1>2. /\ d.error \in {"Ok", "PayloadEmpty", "PayloadCharInvalid"}
      /\ d.error = "Ok" => b \in Bits
  BY <1>1, PayloadDecoded
<1> DEFINE types == {t \in 1 .. 27 : HasNumber(b, 0, 6, t)}
<1>3. m = IF d.error # "Ok" THEN DecodeError(d.error)
          ELSE IF types = {} THEN DecodeError("MessageTypeUnknown")
          ELSE IF types \cap DOMAIN decoders = {}
               THEN DecodeError("MessageTypeUnsupported")
          ELSE ClassDecode(decoders[CHOOSE t \in types : TRUE], b)
  BY <1>1 DEF RegistryDecode
<1>4. ASSUME NEW t \in types, NEW u \in types
      PROVE  t = u
  <2>1. t \in 0 .. 63 /\ u \in 0 .. 63
    OBVIOUS
  <2>2. NumberBits(t, 6) = NumberBits(u, 6)
    BY DEF HasNumber
  <2> QED
    BY <2>1, <2>2, TypeNumber
<1>5. \A t \in SupportedTypes : HasNumber(b, 0, 6, t) => t \in types
  BY ClassesOfTypes
<1>6. \A t \in types : HasNumber(b, 0, 6, t)
  OBVIOUS
<1> HIDE DEF types
<1>7. CASE d.error # "Ok"
  <2>1. m.error = d.error
    BY <1>3, <1>7 DEF DecodeError
  <2> QED
    BY <1>1, <1>2, <1>7, <2>1 DEF ErrorCodes
<1>8. CASE d.error = "Ok" /\ types = {}
  <2>1. m.error = "MessageTypeUnknown"
    BY <1>3, <1>8 DEF DecodeError
  <2> QED
    BY <1>1, <1>5, <1>8, <2>1 DEF ErrorCodes
<1>9. CASE d.error = "Ok" /\ types # {} /\ types \cap DOMAIN decoders = {}
  <2>1. m.error = "MessageTypeUnsupported"
    BY <1>3, <1>9 DEF DecodeError
  <2>2. decoders = Table => DOMAIN decoders = SupportedTypes
    BY DEF Table
  <2>3. decoders # <<>> => \A t \in SupportedTypes : ~HasNumber(b, 0, 6, t)
    BY <1>5, <1>9, <2>2
  <2> QED
    BY <1>1, <2>1, <2>3 DEF ErrorCodes
<1>10. CASE d.error = "Ok" /\ types # {} /\ types \cap DOMAIN decoders # {}
  <2>1. PICK t \in types : t \in DOMAIN decoders
    BY <1>10
  <2>2. DOMAIN <<>> = {}
    OBVIOUS
  <2>3. decoders = Table
    BY <2>1, <2>2
  <2>4. t \in SupportedTypes /\ decoders[t] = DecoderFor(t)
    BY <2>1, <2>3 DEF Table
  <2>5. (CHOOSE u \in types : TRUE) = t
    BY <1>4, <2>1
  <2>6. m = ClassDecode(DecoderFor(t), b)
    BY <1>3, <1>10, <2>4, <2>5
  <2>7. HasNumber(b, 0, 6, t)
    BY <1>6, <2>1
  <2>8. \A u \in SupportedTypes : HasNumber(b, 0, 6, u) => u = t
    BY <1>4, <1>5, <2>1
  <2>9. m.error \in {"Ok", "PayloadTooShort", "MessageDecodeFailure"}
    BY <1>2, <1>10, <2>4, <2>6, ClassDecodeErrors, ClassesOfTypes
  <2> QED
    BY <1>1, <1>10, <2>4, <2>6, <2>7, <2>8, <2>9 DEF ErrorCodes
<1> QED
  BY <1>7, <1>8, <1>9, <1>10
-----------------------------------------------------------------------------
(* The inductive invariant: what arrives can be sent, the registry is empty *)
(* or complete, a message is what its class decodes from the payload that   *)
(* arrived, what is encoded is that message, and what was received after a  *)
(* message was sent on is that message's encoding.                          *)
Decoded(m, b) == m.error = "Ok" /\ m.class \in Classes /\ m = ClassDecode(m.class, b)

RegistryInv == decoders = <<>> \/ decoders = Table

ResultInv ==
  /\ result.error \in ErrorCodes \ {"BitfieldOutOfRange"}
  /\ result.error = "Ok" => /\ decode_payload(received).error = "Ok"
                            /\ Decoded(result, decode_payload(received).buffer)

EncodedInv ==
  \/ encoded = NoPayload
  \/ result.error = "Ok" /\ encoded = EncodeMessage(result)

OriginInv ==
  \/ origin = NotDecoded
  \/ received = EncodeMessage(origin) /\ \E b \in Bits : Decoded(origin, b)

CodecInv == Sendable(received) /\ RegistryInv /\ ResultInv /\ EncodedInv /\ OriginInv

LEMMA NothingDecoded ==
  NotDecoded.error = "none" /\ NoPayload.error = "none"
BY DEF NotDecoded, DecodeError, NoPayload, PayloadError

(* What a class returns for the payload that arrived is as ResultInv has it. *)
LEMMA ClassResult ==
  ASSUME Sendable(received), decode_payload(received).error = "Ok", NEW class \in Classes,
         result' = ClassDecode(class, decode_payload(received).buffer),
         received' = received
  PROVE  ResultInv'
<1>1. PICK b : b = decode_payload(received).buffer
  OBVIOUS
<1>2. b \in Bits
  BY <1>1, PayloadDecoded
<1>3. PICK d : d = ClassDecode(class, b)
  OBVIOUS
<1>4. /\ d.error \in {"Ok", "PayloadTooShort", "MessageDecodeFailure"}
      /\ d.error = "Ok" => d.class = class
  BY <1>2, <1>3, ClassDecodeErrors
<1>5. d.error \in ErrorCodes \ {"BitfieldOutOfRange"}
  BY <1>4 DEF ErrorCodes
<1>6. d.error = "Ok" => Decoded(d, b)
  BY <1>3, <1>4 DEF Decoded
<1>7. result' = d /\ decode_payload(received').error = "Ok"
                  /\ decode_payload(received').buffer = b
  BY <1>1, <1>3
<1> QED
  BY <1>5, <1>6, <1>7 DEF ResultInv

LEMMA CodecInvariant == Spec => []CodecInv
<1>1. Init => CodecInv
  <2>1. NotDecoded.error # "Ok" /\ NotDecoded.error \in ErrorCodes \ {"BitfieldOutOfRange"}
    BY NothingDecoded DEF ErrorCodes
  <2>2. Init => Sendable(received)
    BY InitSendable
  <2>3. Init => RegistryInv /\ EncodedInv /\ OriginInv
    BY DEF Init, RegistryInv, EncodedInv, OriginInv
  <2>4. Init => ResultInv
    BY <2>1 DEF Init, ResultInv
  <2> QED
    BY <2>2, <2>3, <2>4 DEF CodecInv
<1>2. CodecInv /\ [Next]_vars => CodecInv'
  <2> SUFFICES ASSUME CodecInv, [Next]_vars PROVE CodecInv'
    OBVIOUS
  <2>1. Sendable(received) /\ RegistryInv /\ ResultInv /\ EncodedInv /\ OriginInv
    BY DEF CodecInv
  <2>2. CASE RegisterAllDecoders
    <3>1. RegistryInv'
      BY <2>2 DEF RegisterAllDecoders, RegistryInv, Table
    <3> QED
      BY <2>1, <2>2, <3>1
      DEF RegisterAllDecoders, CodecInv, ResultInv, EncodedInv, OriginInv
  <2>3. CASE Clear
    <3>1. RegistryInv'
      BY <2>3 DEF Clear, RegistryInv
    <3> QED
      BY <2>1, <2>3, <3>1 DEF Clear, CodecInv, ResultInv, EncodedInv, OriginInv
  <2>4. ASSUME result = NotDecoded, UNCHANGED <<received, decoders, encoded, origin>>,
               ResultInv'
        PROVE  CodecInv'
    <3>1. encoded = NoPayload
      BY <2>1, <2>4, NothingDecoded DEF EncodedInv
    <3>2. /\ received' = received /\ decoders' = decoders /\ encoded' = encoded
          /\ origin' = origin
      BY <2>4
    <3>3. Sendable(received') /\ RegistryInv'
      BY <2>1, <3>2 DEF RegistryInv
    <3>4. EncodedInv'
      BY <3>1, <3>2 DEF EncodedInv
    <3>5. OriginInv'
      BY <2>1, <3>2 DEF OriginInv
    <3> QED
      BY <2>4, <3>3, <3>4, <3>5 DEF CodecInv
  <2>5. CASE DecodeByRegistry
    <3>1. PICK b, m : b = decode_payload(received).buffer /\ m = RegistryDecode(received)
      OBVIOUS
    <3>2. /\ m.error \in ErrorCodes \ {"none", "BitfieldOutOfRange"}
          /\ m.error \in {"Ok", "MessageDecodeFailure"} =>
               /\ decode_payload(received).error = "Ok"
               /\ \E t \in SupportedTypes :
                    HasNumber(b, 0, 6, t) /\ m = ClassDecode(DecoderFor(t), b)
      BY <2>1, <3>1, RegistryDecodes DEF RegistryInv
    <3>3. result' = m /\ received' = received
      BY <2>5, <3>1 DEF DecodeByRegistry
    <3>4. CASE m.error = "Ok"
      <4>1. PICK t \in SupportedTypes : m = ClassDecode(DecoderFor(t), b)
        BY <3>2, <3>4
      <4>2. DecoderFor(t) \in Classes
        BY ClassesOfTypes
      <4>3. ResultInv'
        BY <2>1, <3>1, <3>2, <3>3, <3>4, <4>1, <4>2, ClassResult
      <4> QED
        BY <2>4, <2>5, <4>3 DEF DecodeByRegistry
    <3>5. CASE m.error # "Ok"
      <4>1. ResultInv'
        BY <3>2, <3>3, <3>5 DEF ResultInv
      <4> QED
        BY <2>4, <2>5, <4>1 DEF DecodeByRegistry
    <3> QED
      BY <3>4, <3>5
  <2>6. ASSUME NEW class \in Classes, DecodeAs(class)
        PROVE  CodecInv'
    <3>1. /\ decode_payload(received).error = "Ok" /\ received' = received
          /\ result' = ClassDecode(class, decode_payload(received).buffer)
      BY <2>6 DEF DecodeAs
    <3>2. ResultInv'
      BY <2>1, <3>1, ClassResult
    <3> QED
      BY <2>4, <2>6, <3>2 DEF DecodeAs
  <2>7. CASE Encode
    BY <2>1, <2>7 DEF Encode, CodecInv, RegistryInv, ResultInv, EncodedInv, OriginInv
  <2>8. CASE Forward
    <3>1. /\ encoded.error = "Ok" /\ received' = encoded /\ origin' = result
          /\ result' = NotDecoded /\ encoded' = NoPayload /\ decoders' = decoders
      BY <2>8 DEF Forward
    <3>2. result.error = "Ok" /\ encoded = EncodeMessage(result)
      BY <2>1, <3>1, NothingDecoded DEF EncodedInv
    <3>3. PICK b, class : b = decode_payload(received).buffer /\ class = result.class
      OBVIOUS
    <3>4. b \in Bits /\ class \in Classes /\ Decoded(result, b)
          /\ result = ClassDecode(class, b)
      BY <2>1, <3>2, <3>3, PayloadDecoded DEF ResultInv, Decoded
    <3>5. Sendable(received')
      BY <3>1, <3>2, <3>4, MessageEncoded
    <3>6. OriginInv'
      BY <3>1, <3>2, <3>4 DEF OriginInv
    <3>7. ResultInv'
      <4>1. result'.error = "none"
        BY <3>1, NothingDecoded
      <4> QED
        BY <4>1 DEF ResultInv, ErrorCodes
    <3>8. EncodedInv' /\ RegistryInv'
      BY <2>1, <3>1 DEF EncodedInv, RegistryInv
    <3> QED
      BY <3>5, <3>6, <3>7, <3>8 DEF CodecInv
  <2>9. CASE UNCHANGED vars
    BY <2>1, <2>9 DEF vars, CodecInv, RegistryInv, ResultInv, EncodedInv, OriginInv
  <2> QED
    BY <2>2, <2>3, <2>5, <2>6, <2>7, <2>8, <2>9 DEF Next
<1> QED
  BY <1>1, <1>2, PTL DEF Spec
-----------------------------------------------------------------------------
(* Type correctness.                                                        *)
LEMMA SendableChars ==
  ASSUME NEW p, Sendable(p)
  PROVE  /\ p.error \in ErrorCodes /\ p.fill_bits \in 0 .. 5
         /\ \A i \in DOMAIN p.chars : Len(p.chars[i]) = 6 \/ p.chars[i] = Garbled
<1>1. ASSUME NEW i \in DOMAIN p.chars
      PROVE  p.chars[i] \in Six \cup {Garbled}
  BY DEF Sendable
<1>2. p.error \in ErrorCodes /\ p.fill_bits \in 0 .. 5
  BY DEF Sendable, ErrorCodes
<1> QED
  BY <1>1, <1>2 DEF Six

LEMMA FieldsOfClass ==
  ASSUME NEW m, NEW b \in Bits, Decoded(m, b)
  PROVE  \E part \in {0, 1} : DOMAIN m.fields = {r.field : r \in Reads(m.class, part)}
<1>1. PICK class, part : class = m.class /\ part = PartNumber(class, b)
  OBVIOUS
<1>2. class \in Classes /\ m = ClassDecode(class, b) /\ ClassDecode(class, b).error = "Ok"
  BY <1>1 DEF Decoded
<1>3. part \in {0, 1} /\ DOMAIN m.fields = {r.field : r \in Reads(class, part)}
  BY <1>1, <1>2, ClassDecoded
<1> QED
  BY <1>1, <1>3

(* The codec's state is always of its type: payloads are characters with a  *)
(* fill count, and a decoded message has the fields of its class.           *)
THEOREM TypeCorrect == Spec => []TypeOK
<1>1. CodecInv => TypeOK
  <2> SUFFICES ASSUME CodecInv PROVE TypeOK
    OBVIOUS
  <2>1. Sendable(received) /\ RegistryInv /\ ResultInv /\ EncodedInv /\ OriginInv
    BY DEF CodecInv
  <2>2. PICK b : b = decode_payload(received).buffer
    OBVIOUS
  <2>3. decode_payload(received).error = "Ok" => b \in Bits
    BY <2>1, <2>2, PayloadDecoded
  <2>4. result.error = "Ok" => b \in Bits /\ Decoded(result, b)
    BY <2>1, <2>2, <2>3 DEF ResultInv
  <2>5. encoded = NoPayload \/ Sendable(encoded)
    <3>1. CASE result.error = "Ok" /\ encoded = EncodeMessage(result)
      <4>1. PICK class : class = result.class
        OBVIOUS
      <4>2. class \in Classes /\ result = ClassDecode(class, b)
        BY <2>4, <3>1, <4>1 DEF Decoded
      <4>3. Sendable(EncodeMessage(ClassDecode(class, b)))
        BY <2>4, <3>1, <4>2, MessageEncoded
      <4> QED
        BY <3>1, <4>2, <4>3
    <3> QED
      BY <2>1, <3>1 DEF EncodedInv
  <2>6. ASSUME NEW p \in {received, encoded}
        PROVE  /\ p.error \in ErrorCodes /\ p.fill_bits \in 0 .. 5
               /\ \A i \in DOMAIN p.chars : Len(p.chars[i]) = 6 \/ p.chars[i] = Garbled
    <3>1. CASE p = NoPayload
      <4>1. p.error = "none" /\ p.chars = <<>> /\ p.fill_bits = 0
        BY <3>1 DEF NoPayload, PayloadError
      <4>2. DOMAIN <<>> = {}
        OBVIOUS
      <4> QED
        BY <4>1, <4>2 DEF ErrorCodes
    <3>2. CASE Sendable(p)
      BY <3>2, SendableChars
    <3> QED
      BY <2>1, <2>5, <3>1, <3>2
  <2>7. DOMAIN decoders \subseteq 1 .. 27 /\ \A t \in DOMAIN decoders : decoders[t] \in Classes
    <3>1. CASE decoders = <<>>
      <4>1. DOMAIN <<>> = {}
        OBVIOUS
      <4> QED
        BY <3>1, <4>1
    <3>2. CASE decoders = Table
      <4>1. DOMAIN decoders = SupportedTypes
        BY <3>2 DEF Table
      <4>2. \A t \in SupportedTypes : decoders[t] = DecoderFor(t)
        BY <3>2 DEF Table
      <4> QED
        BY <4>1, <4>2, ClassesOfTypes
    <3> QED
      BY <2>1, <3>1, <3>2 DEF RegistryInv
  <2>8. ASSUME NEW m \in {result, origin}
        PROVE  /\ m.error \in ErrorCodes
               /\ m.error = "Ok" => \E part \in {0, 1} :
                    DOMAIN m.fields = {r.field : r \in Reads(m.class, part)}
    <3>1. CASE m = result
      BY <2>1, <2>4, <3>1, FieldsOfClass DEF ResultInv
    <3>2. CASE m = NotDecoded
      BY <3>2, NothingDecoded DEF ErrorCodes
    <3>3. CASE \E c \in Bits : Decoded(m, c)
      <4>1. PICK c \in Bits : Decoded(m, c)
        BY <3>3
      <4>2. m.error \in ErrorCodes
        BY <4>1 DEF Decoded, ErrorCodes
      <4> QED
        BY <4>1, <4>2, FieldsOfClass
    <3> QED
      BY <2>1, <3>1, <3>2, <3>3 DEF OriginInv
  <2> QED
    BY <2>6, <2>7, <2>8 DEF TypeOK
<1> QED
  BY <1>1, CodecInvariant, PTL

(* No payload is refused half way: whatever arrives, the length that decode *)
(* tests once is enough for every read of its class.                        *)
THEOREM ReadsInRange == Spec => []NoReadOutOfRange
<1>1. CodecInv => NoReadOutOfRange
  BY DEF CodecInv, ResultInv, NoReadOutOfRange
<1> QED
  BY <1>1, CodecInvariant, PTL

(* encode() returns a payload that is as long as the class requires, with   *)
(* each field of the message in its place and zero everywhere else.         *)
THEOREM EncodeRestores == Spec => []EncodeRestoresPayload
<1>1. CodecInv => EncodeRestoresPayload
  <2> SUFFICES ASSUME CodecInv, encoded # NoPayload PROVE EncodeRestoresPayload
    BY DEF EncodeRestoresPayload
  <2>1. Sendable(received) /\ ResultInv /\ EncodedInv
    BY DEF CodecInv
  <2>2. result.error = "Ok" /\ encoded = EncodeMessage(result)
    BY <2>1 DEF EncodedInv
  <2>3. PICK b, class, part, length, after :
          /\ b = decode_payload(received).buffer /\ class = result.class
          /\ part = PartNumber(class, b) /\ length = kBitLength(class)
          /\ after = decode_payload(encoded).buffer
    OBVIOUS
  <2>4. /\ b \in Bits /\ class \in Classes /\ result = ClassDecode(class, b)
        /\ ClassDecode(class, b).error = "Ok"
    BY <2>1, <2>2, <2>3, PayloadDecoded DEF ResultInv, Decoded
  <2>5. PartOf(result) = part
    BY <2>3, <2>4, PartAgain
  <2>6. /\ Sendable(encoded) /\ SignificantBits(encoded) = length
        /\ Holds(b, after, class, part, length)
    BY <2>2, <2>3, <2>4, MessageEncoded
  <2>7. encoded.error = "Ok"
    BY <2>6 DEF Sendable
  <2>8. \A r \in Reads(class, part) : SameField(b, after, r)
    BY <2>6 DEF Holds
  <2>9. \A i \in 1 .. length :
          (\E r \in Reads(class, part) : r.offset < i /\ i <= r.offset + r.width)
            \/ after[i] = Bit(0)
    BY <2>6 DEF Holds
  <2> DEFINE At(buffer, r) == SubSeq(buffer, r.offset + 1, r.offset + r.width)
  <2>10. \A r \in Reads(class, part) :
           IF r.kind = "text"
           THEN Stripped(Characters(At(after, r))) = Stripped(Characters(At(b, r)))
           ELSE At(after, r) = At(b, r)
    BY <2>8 DEF SameField, FieldBits
  <2> QED
    BY <2>3, <2>5, <2>6, <2>7, <2>9, <2>10 DEF EncodeRestoresPayload
<1> QED
  BY <1>1, CodecInvariant, PTL

(* What was sent on decodes to where it came from, and its type is that of  *)
(* the class it came from.                                                  *)
LEMMA OriginDecoded ==
  ASSUME CodecInv, origin # NotDecoded
  PROVE  LET b == decode_payload(received).buffer
         IN  /\ decode_payload(received).error = "Ok" /\ origin.class \in Classes
             /\ ClassDecode(origin.class, b) = origin
             /\ \E t \in SupportedTypes :
                  HasNumber(b, 0, 6, t) /\ DecoderFor(t) = origin.class
<1>1. PICK b \in Bits : received = EncodeMessage(origin) /\ Decoded(origin, b)
  BY DEF CodecInv, OriginInv
<1>2. PICK class, a : class = origin.class /\ a = decode_payload(received).buffer
  OBVIOUS
<1>3. /\ class \in Classes /\ origin = ClassDecode(class, b)
      /\ ClassDecode(class, b).error = "Ok"
  BY <1>1, <1>2 DEF Decoded
<1>4. /\ decode_payload(received).error = "Ok" /\ a \in Bits
      /\ Len(a) >= kBitLength(class)
      /\ Holds(b, a, class, PartNumber(class, b), kBitLength(class))
  BY <1>1, <1>2, <1>3, MessageEncoded
<1>5. \A r \in Reads(class, PartNumber(class, b)) : SameField(b, a, r)
  BY <1>4 DEF Holds
<1>6. /\ ClassDecode(class, a) = ClassDecode(class, b)
      /\ \A t : HasNumber(a, 0, 6, t) <=> HasNumber(b, 0, 6, t)
  BY <1>3, <1>4, <1>5, DecodedAgain
<1>7. PICK t \in TypesOf(class) : HasNumber(b, 0, 6, t)
  BY <1>3, ClassDecoded DEF HasTypeOf
<1>8. t \in SupportedTypes /\ DecoderFor(t) = class
  BY <1>3, ClassesOfTypes
<1> QED
  BY <1>2, <1>3, <1>4, <1>6, <1>7, <1>8

(* A message that is encoded and sent on is decoded to the same message, by *)
(* the registry and by its own class: no member of any class is cut short,  *)
(* shifted, or read with another sign or width than it was written with.    *)
THEOREM MessagesSurvive == Spec => RoundTrip
<1> DEFINE Again == /\ origin # NotDecoded
                    /\ \/ DecodeByRegistry /\ decoders # <<>>
                       \/ origin.error = "Ok" /\ DecodeAs(origin.class)
                    => result' = origin
<1>1. CodecInv => Again
  <2> SUFFICES ASSUME CodecInv, origin # NotDecoded,
                      \/ DecodeByRegistry /\ decoders # <<>>
                      \/ origin.error = "Ok" /\ DecodeAs(origin.class)
               PROVE  result' = origin
    OBVIOUS
  <2>1. PICK b : b = decode_payload(received).buffer
    OBVIOUS
  <2>2. /\ decode_payload(received).error = "Ok" /\ ClassDecode(origin.class, b) = origin
        /\ \E t \in SupportedTypes : HasNumber(b, 0, 6, t) /\ DecoderFor(t) = origin.class
    BY <2>1, OriginDecoded
  <2>3. CASE DecodeByRegistry /\ decoders # <<>>
    <3>1. PICK t \in SupportedTypes : HasNumber(b, 0, 6, t) /\ DecoderFor(t) = origin.class
      BY <2>2
    <3>2. Sendable(received) /\ (decoders = <<>> \/ decoders = Table)
      BY DEF CodecInv, RegistryInv
    <3>3. RegistryDecode(received) = ClassDecode(DecoderFor(t), b)
      BY <2>1, <2>2, <2>3, <3>1, <3>2, RegistryDecodes
    <3> QED
      BY <2>2, <2>3, <3>1, <3>3 DEF DecodeByRegistry
  <2>4. CASE origin.error = "Ok" /\ DecodeAs(origin.class)
    BY <2>1, <2>2, <2>4 DEF DecodeAs
  <2> QED
    BY <2>3, <2>4
<1> HIDE DEF Again
<1>2. Spec => [][Again]_vars
  BY <1>1, CodecInvariant, PTL
<1>3. (Spec => [][Again]_vars) => (Spec => RoundTrip)
  BY DEF Again, RoundTrip
<1> QED
  BY <1>2, <1>3

(* The registry hands a payload to the class of its type, so what a class   *)
(* refuses after the dispatch is a type 24 report with a reserved part.     *)
THEOREM DispatchedByType == Spec => DispatchMatchesType
<1> DEFINE Matches ==
             DecodeByRegistry /\ result'.error = "MessageDecodeFailure" =>
               /\ HasTypeOf("24", decode_payload(received).buffer)
               /\ PartNumber("24", decode_payload(received).buffer) = 2
<1>1. CodecInv => Matches
  <2> SUFFICES ASSUME CodecInv, DecodeByRegistry, result'.error = "MessageDecodeFailure"
               PROVE  /\ HasTypeOf("24", decode_payload(received).buffer)
                      /\ PartNumber("24", decode_payload(received).buffer) = 2
    OBVIOUS
  <2>1. PICK b, m : b = decode_payload(received).buffer /\ m = RegistryDecode(received)
    OBVIOUS
  <2>2. Sendable(received) /\ (decoders = <<>> \/ decoders = Table)
    BY DEF CodecInv, RegistryInv
  <2>3. m.error = "MessageDecodeFailure"
    BY <2>1 DEF DecodeByRegistry
  <2>4. decode_payload(received).error = "Ok" /\ \E t \in SupportedTypes :
          HasNumber(b, 0, 6, t) /\ m = ClassDecode(DecoderFor(t), b)
    BY <2>1, <2>2, <2>3, RegistryDecodes
  <2>5. PICK t \in SupportedTypes : HasNumber(b, 0, 6, t) /\ m = ClassDecode(DecoderFor(t), b)
    BY <2>4
  <2>6. PICK class : class = DecoderFor(t)
    OBVIOUS
  <2>7. class \in Classes /\ t \in TypesOf(class)
    BY <2>6, ClassesOfTypes
  <2>8. HasTypeOf(class, b) /\ b \in Bits
    BY <2>1, <2>2, <2>4, <2>5, <2>7, PayloadDecoded DEF HasTypeOf
  <2>9. PartNumber(class, b) = 2
    BY <2>3, <2>5, <2>6, <2>7, <2>8, ClassDecodeErrors
  <2>10. class = "24"
    BY <2>9, Parts012
  <2> QED
    BY <2>1, <2>8, <2>9, <2>10
<1> HIDE DEF Matches
<1>2. Spec => [][Matches]_vars
  BY <1>1, CodecInvariant, PTL
<1>3. (Spec => [][Matches]_vars) => (Spec => DispatchMatchesType)
  BY DEF Matches, DispatchMatchesType
<1> QED
  BY <1>2, <1>3
-----------------------------------------------------------------------------
(* Positions.  The field of a class is found by its name: no other read of  *)
(* the class has that name, and the widths are those of the class.          *)
LEMMA FieldNamed ==
  ASSUME NEW class \in PositionClasses, NEW name,
         NEW r \in Reads(class, 0), r.field = name
  PROVE  Field(class, name) = r
<1>1. class \in Classes /\ class # "24" /\ 0 \in {0, 1}
  BY DEF PositionClasses, Classes
<1>2. \A q \in Reads(class, 0) : q.field = name => q = r
  <2>1. PICK n, P : Laid(Writes(class, 0), Reads(class, 0), kBitLength(class), n, P)
    BY <1>1, LayoutOf
  <2> QED
    BY <2>1 DEF Laid
<1> QED
  BY <1>2 DEF Field

LongitudeWidth(class) == IF IsLongRange(class) THEN 18 ELSE 28
LatitudeWidth(class) == IF IsLongRange(class) THEN 17 ELSE 27

LEMMA PositionFields ==
  ASSUME NEW class \in PositionClasses
  PROVE  /\ Field(class, "longitude").kind = "int"
         /\ Field(class, "longitude").width = LongitudeWidth(class)
         /\ Field(class, "latitude").kind = "int"
         /\ Field(class, "latitude").width = LatitudeWidth(class)
         /\ class = "9" => /\ Field(class, "altitude").kind = "uint"
                           /\ Field(class, "altitude").width = 12
<1>1. ASSUME NEW name, NEW offset, NEW width, IntAt(name, offset, width, 32) \in Reads(class, 0)
      PROVE  Field(class, name).kind = "int" /\ Field(class, name).width = width
  <2>1. Field(class, name) = IntAt(name, offset, width, 32)
    BY <1>1, FieldNamed DEF IntAt
  <2> QED
    BY <2>1 DEF IntAt
<1>2. /\ class = "1_3" => Msg1_3Reads \subseteq Reads(class, 0)
      /\ class = "4_11" => Msg4_11Reads \subseteq Reads(class, 0)
      /\ class = "9" => Msg9Reads \subseteq Reads(class, 0)
      /\ class = "18" => Msg18Reads \subseteq Reads(class, 0)
      /\ class = "19" => Msg19Reads \subseteq Reads(class, 0)
      /\ class = "27" => Msg27Reads \subseteq Reads(class, 0)
  BY DEF Reads
<1>3. \E offset : IntAt("longitude", offset, LongitudeWidth(class), 32) \in Reads(class, 0)
  <2>1. CASE class = "1_3"
    <3>1. IntAt("longitude", 61, 28, 32) \in Msg1_3Reads
      BY DEF Msg1_3Reads
    <3> QED
      BY <1>2, <2>1, <3>1 DEF LongitudeWidth, IsLongRange
  <2>2. CASE class = "4_11"
    <3>1. IntAt("longitude", 79, 28, 32) \in Msg4_11Reads
      BY DEF Msg4_11Reads
    <3> QED
      BY <1>2, <2>2, <3>1 DEF LongitudeWidth, IsLongRange
  <2>3. CASE class = "9"
    <3>1. IntAt("longitude", 61, 28, 32) \in Msg9Reads
      BY DEF Msg9Reads
    <3> QED
      BY <1>2, <2>3, <3>1 DEF LongitudeWidth, IsLongRange
  <2>4. CASE class = "18"
    <3>1. IntAt("longitude", 57, 28, 32) \in Msg18Reads
      BY DEF Msg18Reads
    <3> QED
      BY <1>2, <2>4, <3>1 DEF LongitudeWidth, IsLongRange
  <2>5. CASE class = "19"
    <3>1. IntAt("longitude", 59, 28, 32) \in Msg19Reads
      BY DEF Msg19Reads
    <3> QED
      BY <1>2, <2>5, <3>1 DEF LongitudeWidth, IsLongRange
  <2>6. CASE class = "27"
    <3>1. IntAt("longitude", 44, 18, 32) \in Msg27Reads
      BY DEF Msg27Reads
    <3> QED
      BY <1>2, <2>6, <3>1 DEF LongitudeWidth, IsLongRange
  <2> QED
    BY <2>1, <2>2, <2>3, <2>4, <2>5, <2>6 DEF PositionClasses
<1>4. \E offset : IntAt("latitude", offset, LatitudeWidth(class), 32) \in Reads(class, 0)
  <2>1. CASE class = "1_3"
    <3>1. IntAt("latitude", 89, 27, 32) \in Msg1_3Reads
      BY DEF Msg1_3Reads
    <3> QED
      BY <1>2, <2>1, <3>1 DEF LatitudeWidth, IsLongRange
  <2>2. CASE class = "4_11"
    <3>1. IntAt("latitude", 107, 27, 32) \in Msg4_11Reads
      BY DEF Msg4_11Reads
    <3> QED
      BY <1>2, <2>2, <3>1 DEF LatitudeWidth, IsLongRange
  <2>3. CASE class = "9"
    <3>1. IntAt("latitude", 89, 27, 32) \in Msg9Reads
      BY DEF Msg9Reads
    <3> QED
      BY <1>2, <2>3, <3>1 DEF LatitudeWidth, IsLongRange
  <2>4. CASE class = "18"
    <3>1. IntAt("latitude", 85, 27, 32) \in Msg18Reads
      BY DEF Msg18Reads
    <3> QED
      BY <1>2, <2>4, <3>1 DEF LatitudeWidth, IsLongRange
  <2>5. CASE class = "19"
    <3>1. IntAt("latitude", 87, 27, 32) \in Msg19Reads
      BY DEF Msg19Reads
    <3> QED
      BY <1>2, <2>5, <3>1 DEF LatitudeWidth, IsLongRange
  <2>6. CASE class = "27"
    <3>1. IntAt("latitude", 62, 17, 32) \in Msg27Reads
      BY DEF Msg27Reads
    <3> QED
      BY <1>2, <2>6, <3>1 DEF LatitudeWidth, IsLongRange
  <2> QED
    BY <2>1, <2>2, <2>3, <2>4, <2>5, <2>6 DEF PositionClasses
<1>5. class = "9" => /\ Field(class, "altitude").kind = "uint"
                     /\ Field(class, "altitude").width = 12
  <2>1. UintAt("altitude", 38, 12, 16) \in Msg9Reads
    BY DEF Msg9Reads
  <2>2. class = "9" => UintAt("altitude", 38, 12, 16) \in Reads(class, 0)
    BY <1>2, <2>1
  <2>3. class = "9" => Field(class, "altitude") = UintAt("altitude", 38, 12, 16)
    BY <2>2, FieldNamed DEF UintAt
  <2> QED
    BY <2>3 DEF UintAt
<1> QED
  BY <1>1, <1>3, <1>4, <1>5

LEMMA Powers ==
  /\ 2^28 = 268435456 /\ 2^27 = 134217728 /\ 2^26 = 67108864
  /\ 2^18 = 262144 /\ 2^17 = 131072 /\ 2^16 = 65536 /\ 2^12 = 4096
<1>1. 2^28 = 268435456
  OBVIOUS
<1>2. 2^27 = 134217728
  OBVIOUS
<1>3. 2^26 = 67108864
  OBVIOUS
<1>4. 2^18 = 262144
  OBVIOUS
<1>5. 2^17 = 131072
  OBVIOUS
<1>6. 2^16 = 65536
  OBVIOUS
<1>7. 2^12 = 4096
  OBVIOUS
<1> QED
  BY <1>1, <1>2, <1>3, <1>4, <1>5, <1>6, <1>7

(* What is read of a number: itself if the field can hold it, and something *)
(* that the field can hold in any case.                                     *)
Held(n, width) == n \in -(2^(width - 1)) .. 2^(width - 1) - 1
IsAltitude(n) == n \in 0 .. 4095

LEMMA Between ==
  ASSUME NEW half \in Int, NEW n \in Int, -half <= n, n <= half - 1
  PROVE  n \in -half .. half - 1
OBVIOUS

LEMMA ReadSigned ==
  ASSUME NEW r, r.kind = "int", NEW width \in {17, 18, 27, 28}, r.width = width, NEW n \in Int
  PROVE  /\ Held(ReadNumber(r, n), width)
         /\ Held(n, width) => ReadNumber(r, n) = n
<1>1. \E half \in {65536, 131072, 67108864, 134217728} :
        2^(width - 1) = half /\ 2^width = 2 * half
  <2>1. CASE width = 17
    <3>1. width - 1 = 16
      BY <2>1
    <3> QED
      BY <2>1, <3>1, Powers, SMT
  <2>2. CASE width = 18
    <3>1. width - 1 = 17
      BY <2>2
    <3> QED
      BY <2>2, <3>1, Powers, SMT
  <2>3. CASE width = 27
    <3>1. width - 1 = 26
      BY <2>3
    <3> QED
      BY <2>3, <3>1, Powers, SMT
  <2>4. CASE width = 28
    <3>1. width - 1 = 27
      BY <2>4
    <3> QED
      BY <2>4, <3>1, Powers, SMT
  <2> QED
    BY <2>1, <2>2, <2>3, <2>4
<1>2. PICK half \in {65536, 131072, 67108864, 134217728} :
        2^(width - 1) = half /\ 2^width = 2 * half
  BY <1>1, SMT
<1>3. PICK m : m = ReadNumber(r, n)
  OBVIOUS
<1>4. m = IF n % (2 * half) >= half THEN (n % (2 * half)) - 2 * half ELSE n % (2 * half)
  BY <1>2, <1>3, SMT DEF ReadNumber
<1>5. m \in -half .. half - 1
  BY <1>4, SMT
<1>6. ASSUME n \in -half .. half - 1
      PROVE  m = n
  BY <1>4, <1>6, SMT
<1> QED
  BY <1>2, <1>3, <1>5, <1>6, SMT DEF Held

LEMMA ReadUnsigned ==
  ASSUME NEW r, r.kind = "uint", r.width = 12, NEW n \in Int
  PROVE  /\ IsAltitude(ReadNumber(r, n))
         /\ IsAltitude(n) => ReadNumber(r, n) = n
<1>1. ReadNumber(r, n) = n % 4096
  BY Powers, SMT DEF ReadNumber
<1>2. n % 4096 \in 0 .. 4095
  OBVIOUS
<1>3. n \in 0 .. 4095 => n % 4096 = n
  OBVIOUS
<1> QED
  BY <1>1, <1>2, <1>3, SMT DEF IsAltitude

(* A decoded message has what its fields can hold, and what was put there.  *)
LEMMA DecodedPosition ==
  ASSUME NEW class \in PositionClasses, NEW raw,
         raw.longitude \in Int, raw.latitude \in Int, raw.altitude \in Int,
         NEW m, m = Decode(class, raw)
  PROVE  /\ m.class = class
         /\ Held(m.longitude, LongitudeWidth(class))
         /\ Held(m.latitude, LatitudeWidth(class))
         /\ IsAltitude(m.altitude)
         /\ Held(raw.longitude, LongitudeWidth(class)) => m.longitude = raw.longitude
         /\ Held(raw.latitude, LatitudeWidth(class)) => m.latitude = raw.latitude
         /\ class = "9" /\ IsAltitude(raw.altitude) => m.altitude = raw.altitude
<1>1. LongitudeWidth(class) \in {17, 18, 27, 28} /\ LatitudeWidth(class) \in {17, 18, 27, 28}
  BY DEF LongitudeWidth, LatitudeWidth
<1>2. /\ m.class = class
      /\ m.longitude = ReadNumber(Field(class, "longitude"), raw.longitude)
      /\ m.latitude = ReadNumber(Field(class, "latitude"), raw.latitude)
      /\ m.altitude = IF class = "9" THEN ReadNumber(Field(class, "altitude"), raw.altitude)
                                     ELSE kAltitudeUnavailable
  BY DEF Decode
<1> DEFINE X(n) == ReadNumber(Field(class, "longitude"), n)
           Y(n) == ReadNumber(Field(class, "latitude"), n)
           Z(n) == ReadNumber(Field(class, "altitude"), n)
<1>3. ASSUME NEW n \in Int
      PROVE  /\ Held(X(n), LongitudeWidth(class))
             /\ Held(n, LongitudeWidth(class)) => X(n) = n
             /\ Held(Y(n), LatitudeWidth(class))
             /\ Held(n, LatitudeWidth(class)) => Y(n) = n
  BY <1>1, PositionFields, ReadSigned, Zenon
<1>4. ASSUME class = "9", NEW n \in Int
      PROVE  IsAltitude(Z(n)) /\ (IsAltitude(n) => Z(n) = n)
  BY <1>4, PositionFields, ReadUnsigned, Zenon
<1>5. IsAltitude(kAltitudeUnavailable)
  BY SMT DEF IsAltitude, kAltitudeUnavailable
<1>6. /\ m.longitude = X(raw.longitude)
      /\ m.latitude = Y(raw.latitude)
      /\ m.altitude = IF class = "9" THEN Z(raw.altitude) ELSE kAltitudeUnavailable
  BY <1>2
<1> HIDE DEF X, Y, Z
<1>7. /\ Held(X(raw.longitude), LongitudeWidth(class))
      /\ Held(raw.longitude, LongitudeWidth(class)) => X(raw.longitude) = raw.longitude
  BY <1>3, Zenon
<1>8. /\ Held(Y(raw.latitude), LatitudeWidth(class))
      /\ Held(raw.latitude, LatitudeWidth(class)) => Y(raw.latitude) = raw.latitude
  BY <1>3, Zenon
<1>9. class = "9" => /\ IsAltitude(Z(raw.altitude))
                     /\ IsAltitude(raw.altitude) => Z(raw.altitude) = raw.altitude
  BY <1>4, Zenon
<1> QED
  BY <1>2, <1>5, <1>6, <1>7, <1>8, <1>9, SMT

LEMMA KnownPlace ==
  ASSUME NEW place \in Positions
  PROVE  /\ place.longitude \in Longitudes \cup {Unavailable}
         /\ place.latitude \in Latitudes \cup {Unavailable}
         /\ place.altitude \in Altitudes \cup {Unavailable}
BY DEF Positions

LEMMA KnownFits ==
  ASSUME NEW class \in PositionClasses
  PROVE  /\ \A t \in Longitudes \cup {Unavailable} :
              /\ InUnits(class, Known(t, 1810)) \in Int
              /\ Held(InUnits(class, Known(t, 1810)), LongitudeWidth(class))
         /\ \A t \in Latitudes \cup {Unavailable} :
              /\ InUnits(class, Known(t, 910)) \in Int
              /\ Held(InUnits(class, Known(t, 910)), LatitudeWidth(class))
         /\ \A t \in Altitudes \cup {Unavailable} :
              Known(t, 4095) \in Int /\ IsAltitude(Known(t, 4095))
<1>1. ASSUME NEW t \in Longitudes \cup {Unavailable}
      PROVE  /\ InUnits(class, Known(t, 1810)) \in Int
             /\ Held(InUnits(class, Known(t, 1810)), LongitudeWidth(class))
  <2> DEFINE Tenths == -1810 .. 1810
  <2>1. Known(t, 1810) \in Tenths
    BY PositionAssumption, SMT DEF Known
  <2>2. ASSUME NEW k \in Tenths
        PROVE  /\ InUnits(class, k) \in Int
               /\ Held(InUnits(class, k), LongitudeWidth(class))
    <3>1. CASE class = "27"
      <4>1. /\ InUnits(class, k) \in Int
            /\ -131072 <= InUnits(class, k) /\ InUnits(class, k) <= 131072 - 1
        BY <3>1, SMT DEF InUnits, IsLongRange
      <4>2. 2^(LongitudeWidth(class) - 1) = 131072
        BY <3>1, Powers, SMT DEF LongitudeWidth, IsLongRange
      <4> QED
        BY <4>1, <4>2, Between, SMT DEF Held
    <3>2. CASE class # "27"
      <4>1. /\ InUnits(class, k) \in Int
            /\ -134217728 <= InUnits(class, k) /\ InUnits(class, k) <= 134217728 - 1
        BY <3>2, SMT DEF InUnits, IsLongRange
      <4>2. 2^(LongitudeWidth(class) - 1) = 134217728
        BY <3>2, Powers, SMT DEF LongitudeWidth, IsLongRange
      <4> QED
        BY <4>1, <4>2, Between, SMT DEF Held
    <3> QED
      BY <3>1, <3>2
  <2> HIDE DEF Tenths
  <2> QED
    BY <2>1, <2>2, SMT
<1>2. ASSUME NEW t \in Latitudes \cup {Unavailable}
      PROVE  /\ InUnits(class, Known(t, 910)) \in Int
             /\ Held(InUnits(class, Known(t, 910)), LatitudeWidth(class))
  <2> DEFINE Tenths == -910 .. 910
  <2>1. Known(t, 910) \in Tenths
    BY PositionAssumption, SMT DEF Known
  <2>2. ASSUME NEW k \in Tenths
        PROVE  /\ InUnits(class, k) \in Int
               /\ Held(InUnits(class, k), LatitudeWidth(class))
    <3>1. CASE class = "27"
      <4>1. /\ InUnits(class, k) \in Int
            /\ -65536 <= InUnits(class, k) /\ InUnits(class, k) <= 65536 - 1
        BY <3>1, SMT DEF InUnits, IsLongRange
      <4>2. 2^(LatitudeWidth(class) - 1) = 65536
        BY <3>1, Powers, SMT DEF LatitudeWidth, IsLongRange
      <4> QED
        BY <4>1, <4>2, Between, SMT DEF Held
    <3>2. CASE class # "27"
      <4>1. /\ InUnits(class, k) \in Int
            /\ -67108864 <= InUnits(class, k) /\ InUnits(class, k) <= 67108864 - 1
        BY <3>2, SMT DEF InUnits, IsLongRange
      <4>2. 2^(LatitudeWidth(class) - 1) = 67108864
        BY <3>2, Powers, SMT DEF LatitudeWidth, IsLongRange
      <4> QED
        BY <4>1, <4>2, Between, SMT DEF Held
    <3> QED
      BY <3>1, <3>2
  <2> HIDE DEF Tenths
  <2> QED
    BY <2>1, <2>2, SMT
<1>3. ASSUME NEW t \in Altitudes \cup {Unavailable}
      PROVE  Known(t, 4095) \in Int /\ IsAltitude(Known(t, 4095))
  BY PositionAssumption, SMT DEF Known, IsAltitude
<1> QED
  BY <1>1, <1>2, <1>3

LEMMA RawFits ==
  ASSUME NEW class \in PositionClasses, NEW place \in Positions, NEW raw, raw = Raw(class, place)
  PROVE  /\ raw.longitude \in Int /\ raw.latitude \in Int /\ raw.altitude \in Int
         /\ Held(raw.longitude, LongitudeWidth(class))
         /\ Held(raw.latitude, LatitudeWidth(class))
         /\ IsAltitude(raw.altitude)
<1>1. /\ raw.longitude = InUnits(class, Known(place.longitude, 1810))
      /\ raw.latitude = InUnits(class, Known(place.latitude, 910))
      /\ raw.altitude = Known(place.altitude, 4095)
  BY DEF Raw
<1> QED
  BY <1>1, KnownPlace, KnownFits

(* So a message that was sent from a place answers with that place.         *)
LEMMA Located ==
  ASSUME NEW class \in PositionClasses, NEW place \in Positions,
         NEW m, m = Decode(class, Raw(class, place))
  PROVE  /\ Means(longitude(m), place.longitude)
         /\ Means(latitude(m), place.latitude)
         /\ m.class = "9" => altitude_m(m) = place.altitude
<1>1. /\ m.class = class
      /\ m.longitude = InUnits(class, Known(place.longitude, 1810))
      /\ m.latitude = InUnits(class, Known(place.latitude, 910))
      /\ class = "9" => m.altitude = Known(place.altitude, 4095)
  <2>1. PICK raw : raw = Raw(class, place)
    OBVIOUS
  <2>2. /\ raw.longitude = InUnits(class, Known(place.longitude, 1810))
        /\ raw.latitude = InUnits(class, Known(place.latitude, 910))
        /\ raw.altitude = Known(place.altitude, 4095)
    BY <2>1 DEF Raw
  <2> QED
    BY <2>1, <2>2, RawFits, DecodedPosition
<1>2. Means(longitude(m), place.longitude)
  <2>1. ASSUME NEW t \in Longitudes \cup {Unavailable}, m.longitude = InUnits(class, Known(t, 1810))
        PROVE  Means(longitude(m), t)
    <3>1. CASE t = Unavailable
      BY <1>1, <2>1, <3>1, SMT DEF Means, longitude, Coordinate, InUnits, Known, IsLongRange,
                                   kLongitudeUnavailable, kMsg27LongitudeUnavailable
    <3>2. CASE t # Unavailable
      <4>1. t \in Int /\ -1800 <= t /\ t <= 1800
        BY <2>1, <3>2, PositionAssumption, SMT
      <4>2. m.longitude = IF class = "27" THEN t ELSE 60000 * t
        BY <2>1, <3>2, SMT DEF InUnits, Known, IsLongRange
      <4>3. t # 1810 /\ 60000 * t # 108600000
        BY <4>1, SMT
      <4>4. longitude(m) = IF class = "27" THEN Degrees(t, 10) ELSE Degrees(60000 * t, 600000)
        BY <1>1, <4>2, <4>3, SMT DEF longitude, Coordinate, IsLongRange,
                                     kLongitudeUnavailable, kMsg27LongitudeUnavailable
      <4>5. longitude(m).kind = "degrees" /\ 10 * longitude(m).raw = t * longitude(m).unit
        BY <4>1, <4>4, SMT DEF Degrees
      <4> QED
        BY <3>2, <4>5, SMT DEF Means
    <3> QED
      BY <3>1, <3>2
  <2> QED
    BY <1>1, <2>1, KnownPlace
<1>3. Means(latitude(m), place.latitude)
  <2>1. ASSUME NEW t \in Latitudes \cup {Unavailable}, m.latitude = InUnits(class, Known(t, 910))
        PROVE  Means(latitude(m), t)
    <3>1. CASE t = Unavailable
      BY <1>1, <2>1, <3>1, SMT DEF Means, latitude, Coordinate, InUnits, Known, IsLongRange,
                                   kLatitudeUnavailable, kMsg27LatitudeUnavailable
    <3>2. CASE t # Unavailable
      <4>1. t \in Int /\ -900 <= t /\ t <= 900
        BY <2>1, <3>2, PositionAssumption, SMT
      <4>2. m.latitude = IF class = "27" THEN t ELSE 60000 * t
        BY <2>1, <3>2, SMT DEF InUnits, Known, IsLongRange
      <4>3. t # 910 /\ 60000 * t # 54600000
        BY <4>1, SMT
      <4>4. latitude(m) = IF class = "27" THEN Degrees(t, 10) ELSE Degrees(60000 * t, 600000)
        BY <1>1, <4>2, <4>3, SMT DEF latitude, Coordinate, IsLongRange,
                                     kLatitudeUnavailable, kMsg27LatitudeUnavailable
      <4>5. latitude(m).kind = "degrees" /\ 10 * latitude(m).raw = t * latitude(m).unit
        BY <4>1, <4>4, SMT DEF Degrees
      <4> QED
        BY <3>2, <4>5, SMT DEF Means
    <3> QED
      BY <3>1, <3>2
  <2> QED
    BY <1>1, <2>1, KnownPlace
<1>4. m.class = "9" => altitude_m(m) = place.altitude
  <2>1. ASSUME NEW t \in Altitudes \cup {Unavailable}, m.altitude = Known(t, 4095)
        PROVE  altitude_m(m) = t
    BY <2>1, PositionAssumption, SMT DEF altitude_m, Known, kAltitudeUnavailable
  <2> QED
    BY <1>1, <2>1, KnownPlace
<1> QED
  BY <1>2, <1>3, <1>4

(* A decoded message has what its fields can hold, whatever was put there.  *)
ReportInv == ReportTypeOK /\ LocatedWhereSent

FieldsHold(m) ==
  /\ m.class \in PositionClasses
  /\ \A name \in {"longitude", "latitude"} :
       LET bound == 2^(Field(m.class, name).width - 1)
       IN  m[name] \in -bound .. bound - 1
  /\ m.altitude \in 0 .. 4095

LEMMA DecodedHolds ==
  ASSUME NEW class \in PositionClasses, NEW raw,
         raw.longitude \in Int, raw.latitude \in Int, raw.altitude \in Int,
         NEW m, m = Decode(class, raw)
  PROVE  FieldsHold(m)
<1>1. /\ m.class = class
      /\ Held(m.longitude, LongitudeWidth(class))
      /\ Held(m.latitude, LatitudeWidth(class))
      /\ IsAltitude(m.altitude)
  BY DecodedPosition
<1>2. /\ Field(class, "longitude").width = LongitudeWidth(class)
      /\ Field(class, "latitude").width = LatitudeWidth(class)
  BY PositionFields
<1>3. ASSUME NEW name \in {"longitude", "latitude"}
      PROVE  Held(m[name], Field(m.class, name).width)
  <2>1. CASE name = "longitude"
    <3>1. m[name] = m.longitude /\ Field(m.class, name).width = LongitudeWidth(class)
      BY <1>1, <1>2, <2>1
    <3> QED
      BY <1>1, <3>1
  <2>2. CASE name = "latitude"
    <3>1. m[name] = m.latitude /\ Field(m.class, name).width = LatitudeWidth(class)
      BY <1>1, <1>2, <2>2
    <3> QED
      BY <1>1, <3>1
  <2> QED
    BY <2>1, <2>2
<1> QED
  BY <1>1, <1>3 DEF FieldsHold, Held, IsAltitude

LEMMA ReportInvHolds == ReportInv /\ [ReportNext]_reportVars => ReportInv'
<1> SUFFICES ASSUME ReportInv, [ReportNext]_reportVars PROVE ReportInv'
  OBVIOUS
<1>1. CASE Move
  BY <1>1 DEF ReportInv, Move, ReportTypeOK, LocatedWhereSent
<1>2. ASSUME NEW class \in PositionClasses, Report(class)
      PROVE  ReportInv'
  <2>1. vessel \in Positions
    BY DEF ReportInv, ReportTypeOK
  <2>2. /\ message' = Decode(class, Raw(class, vessel))
        /\ sent' = vessel /\ vessel' = vessel
    BY <1>2 DEF Report
  <2>3. PICK raw : raw = Raw(class, vessel)
    OBVIOUS
  <2>4. raw.longitude \in Int /\ raw.latitude \in Int /\ raw.altitude \in Int
    BY <2>1, <2>3, RawFits
  <2>5. ReportTypeOK'
    <3>1. FieldsHold(message')
      BY <2>2, <2>3, <2>4, DecodedHolds
    <3> QED
      BY <2>1, <2>2, <3>1 DEF ReportTypeOK, FieldsHold
  <2>6. LocatedWhereSent'
    <3>1. PICK m : m = Decode(class, Raw(class, vessel))
      OBVIOUS
    <3>2. m = message'
      BY <2>2, <3>1
    <3> QED
      BY <2>1, <2>2, <3>1, <3>2, Located DEF LocatedWhereSent
  <2> QED
    BY <2>5, <2>6 DEF ReportInv
<1>3. ASSUME NEW class \in PositionClasses, Misreport(class)
      PROVE  ReportInv'
  <2>1. vessel \in Positions /\ vessel' = vessel /\ sent' = Garbage
    BY <1>3 DEF ReportInv, ReportTypeOK, Misreport
  <2>2. PICK n \in RawNumbers :
          message' = Decode(class, [longitude |-> n, latitude |-> n, altitude |-> n])
    BY <1>3 DEF Misreport
  <2>3. n \in Int
    BY PositionAssumption
  <2>4. ReportTypeOK'
    <3>1. PICK raw : raw = [longitude |-> n, latitude |-> n, altitude |-> n]
      OBVIOUS
    <3>2. raw.longitude \in Int /\ raw.latitude \in Int /\ raw.altitude \in Int
      BY <2>3, <3>1
    <3>3. FieldsHold(message')
      BY <2>2, <3>1, <3>2, DecodedHolds
    <3> QED
      BY <2>1, <3>3 DEF ReportTypeOK, FieldsHold
  <2> QED
    BY <2>1, <2>4 DEF ReportInv, LocatedWhereSent
<1>4. CASE UNCHANGED reportVars
  BY <1>4 DEF reportVars, ReportInv, ReportTypeOK, LocatedWhereSent
<1> QED
  BY <1>1, <1>2, <1>3, <1>4 DEF ReportNext

LEMMA ReportInvariant == ReportSpec => []ReportInv
<1>1. ReportInit => ReportInv
  BY DEF ReportInit, ReportInv, ReportTypeOK, LocatedWhereSent, Nowhere, Positions
<1> QED
  BY <1>1, ReportInvHolds, PTL DEF ReportSpec

(* Whatever a transmitter puts in the fields of a position report, decode() *)
(* takes from each coordinate's field a number that the field can hold.     *)
THEOREM CoordinatesFit == ReportSpec => []ReportTypeOK
<1>1. ReportInv => ReportTypeOK
  BY DEF ReportInv
<1> QED
  BY <1>1, ReportInvariant, PTL

(* Whichever class reports it, longitude(), latitude() and altitude_m() of  *)
(* the decoded message give the position of the vessel when it was sent, for*)
(* every position to a tenth of a degree, and none where it was not known.  *)
THEOREM VesselsLocated == ReportSpec => []LocatedWhereSent
<1>1. ReportInv => LocatedWhereSent
  BY DEF ReportInv
<1> QED
  BY <1>1, ReportInvariant, PTL
=============================================================================
