------------------------- MODULE SentenceParser_proofs -------------------------
(***************************************************************************)
(* parse() is total: of any text, whatever happened to it on its way, it    *)
(* returns one of its errors or a sentence within the bounds that the rest  *)
(* of the library takes for granted.  It decides by the rules it enforces,  *)
(* and no single damage makes it read another sentence.                     *)
(*                                                                          *)
(* Three arguments carry this.  Splitting undoes joining, so parse() reads  *)
(* from an intact line the fields that were written.  A change of one       *)
(* character changes the parity of a bit, and so the checksum.  And the     *)
(* frame hangs on the last star: a damage either leaves the star and its    *)
(* two digits to tell what came before them, or takes them away.            *)
(***************************************************************************)
EXTENDS SentenceParser, SequenceTheorems, FiniteSetTheorems, WellFoundedInduction, TLAPS

-----------------------------------------------------------------------------
(* What holds at 0 and is passed on from each place to the next holds at all*)
(* places of a string of n characters.                                      *)
LEMMA AllPlaces ==
  ASSUME NEW n \in Nat, NEW T, 0 \in T, \A i \in 1 .. n : i - 1 \in T => i \in T
  PROVE  0 .. n \subseteq T
<1>1. SUFFICES ASSUME NEW k \in 0 .. n, k \notin T PROVE FALSE
  OBVIOUS
<1> DEFINE B == {i \in Nat : i <= n /\ i \notin T}
<1>2. PICK m \in B : \A y \in B : ~(<<y, m>> \in OpToRel(<, Nat))
  <2>1. B # {} /\ B \subseteq Nat
    BY <1>1
  <2>2. IsWellFoundedOn(OpToRel(<, Nat), Nat)
    BY NatLessThanWellFounded
  <2> HIDE DEF B
  <2> QED
    BY <2>1, <2>2, WFMin
<1>3. m - 1 \in B /\ m \in Nat
  <2>1. m \in 1 .. n
    OBVIOUS
  <2> QED
    BY <2>1
<1>4. <<m - 1, m>> \in OpToRel(<, Nat)
  BY <1>3 DEF OpToRel
<1> QED
  BY <1>2, <1>3, <1>4

(* The last of some places in a string.                                     *)
LEMMA LastPlace ==
  ASSUME NEW n \in Nat, NEW S, S \subseteq 0 .. n, S # {}
  PROVE  Max(S) \in S /\ \A i \in S : Max(S) >= i
<1> DEFINE T == {k \in Nat : (\E i \in S : i <= k) =>
                               \E m \in S : m <= k /\ \A i \in S : i <= k => m >= i}
<1>1. 0 \in T
  OBVIOUS
<1>2. ASSUME NEW k \in 1 .. n, k - 1 \in T
      PROVE  k \in T
  <2> SUFFICES ASSUME NEW i \in S, i <= k
               PROVE  \E m \in S : m <= k /\ \A j \in S : j <= k => m >= j
    OBVIOUS
  <2>1. CASE k \in S
    BY <2>1
  <2>2. CASE k \notin S
    <3>1. \A j \in S : j <= k => j <= k - 1
      BY <2>2
    <3>2. PICK m \in S : m <= k - 1 /\ \A j \in S : j <= k - 1 => m >= j
      BY <1>2, <3>1
    <3> QED
      BY <3>1, <3>2
  <2> QED
    BY <2>1, <2>2
<1> HIDE DEF T
<1>3. n \in T
  <2>1. 0 .. n \subseteq T
    BY <1>1, <1>2, AllPlaces
  <2> QED
    BY <2>1
<1>4. \E m \in S : \A i \in S : m >= i
  <2>1. \A i \in S : i <= n
    OBVIOUS
  <2>2. (\E i \in S : i <= n) => \E m \in S : m <= n /\ \A i \in S : i <= n => m >= i
    BY <1>3 DEF T
  <2> QED
    BY <2>1, <2>2
<1> QED
  BY <1>4 DEF Max

(* A piece of a text is a text.                                             *)
LEMMA Pieces ==
  ASSUME NEW s \in Seq(Characters), NEW m \in Nat, NEW n \in Int, m >= 1, n <= Len(s)
  PROVE  SubSeq(s, m, n) \in Seq(Characters)
<1>1. \A i \in m .. n : s[i] \in Characters
  OBVIOUS
<1> QED
  BY <1>1, SubSeqProperties

-----------------------------------------------------------------------------
(* The character that separates the fields.                                 *)
Comma == ","

(* The fields of a written line are texts without separators.               *)
IsText(f) ==
  /\ f \in Seq(Seq(Characters)) /\ f # <<>>
  /\ \A i \in DOMAIN f : \A j \in DOMAIN f[i] : f[i][j] \notin Separators

(* How they are joined, one field at a time.                                *)
Joins(f, joined) ==
  /\ joined[1] = f[1]
  /\ \A n \in 2 .. Len(f) : joined[n] = joined[n - 1] \o <<Comma>> \o f[n]
  /\ \A n \in 1 .. Len(f) : joined[n] \in Seq(Characters)

LEMMA Marks == /\ Comma \in Characters /\ "*" \in Characters /\ "!" \in Characters
               /\ "CR" \in Characters /\ "LF" \in Characters
               /\ Comma \in Separators /\ Comma \notin {"*", "CR", "LF"}
               /\ {"*", "CR", "LF"} \subseteq Separators
<1>1. Separators \cup {"!"} \subseteq Characters
  BY ParserAssumption
<1>2. Comma \in Separators /\ {"*", "CR", "LF"} \subseteq Separators
  BY Zenon DEF Separators, Comma
<1>3. Comma # "*" /\ Comma # "CR" /\ Comma # "LF"
  BY Zenon DEF Comma
<1> QED
  BY <1>1, <1>2, <1>3

(* What follows another string comes after it.                              *)
LEMMA Appended ==
  ASSUME NEW s \in Seq(Characters), NEW q \in Seq(Characters)
  PROVE  /\ s \o q \in Seq(Characters) /\ Len(s \o q) = Len(s) + Len(q)
         /\ Len(s) \in Nat /\ Len(q) \in Nat
         /\ \A j \in 1 .. Len(s) : (s \o q)[j] = s[j]
         /\ \A j \in 1 .. Len(q) : (s \o q)[Len(s) + j] = q[j]
<1>1. /\ s \o q \in Seq(Characters) /\ Len(s \o q) = Len(s) + Len(q)
      /\ \A j \in 1 .. Len(s) + Len(q) :
            (s \o q)[j] = IF j <= Len(s) THEN s[j] ELSE q[j - Len(s)]
  BY ConcatProperties
<1>2. Len(s) \in Nat /\ Len(q) \in Nat
  OBVIOUS
<1>3. \A j \in 1 .. Len(s) : (s \o q)[j] = s[j]
  BY <1>1, <1>2
<1>4. ASSUME NEW j \in 1 .. Len(q)
      PROVE  (s \o q)[Len(s) + j] = q[j]
  <2>1. /\ Len(s) + j \in 1 .. Len(s) + Len(q) /\ ~(Len(s) + j <= Len(s))
        /\ Len(s) + j - Len(s) = j
    BY <1>2
  <2> QED
    BY <1>1, <2>1
<1> QED
  BY <1>1, <1>2, <1>3, <1>4

(* A character alone is a text.                                             *)
LEMMA Single ==
  ASSUME NEW c \in Characters
  PROVE  <<c>> \in Seq(Characters) /\ Len(<<c>>) = 1 /\ <<c>>[1] = c
OBVIOUS

LEMMA JoinedFunction ==
  ASSUME NEW f, IsText(f)
  PROVE  \E joined : Joins(f, joined) /\ Joined(f) = joined[Len(f)]
<1> DEFINE Step(j, n) == IF n = 1 THEN f[1] ELSE j[n - 1] \o <<Comma>> \o f[n]
           Runs(j, k) == j = [n \in 1 .. k |-> Step(j, n)]
           T == {k \in 0 .. Len(f) : \E j : Runs(j, k)}
<1>1. Len(f) \in Nat /\ Len(f) >= 1 /\ \A n \in 1 .. Len(f) : f[n] \in Seq(Characters)
  BY DEF IsText
<1>2. 0 \in T
  <2>1. Runs([n \in 1 .. 0 |-> 0], 0)
    OBVIOUS
  <2>2. 0 \in 0 .. Len(f)
    BY <1>1
  <2> HIDE DEF Runs
  <2> QED
    BY <2>1, <2>2
<1>3. ASSUME NEW k \in 1 .. Len(f), k - 1 \in T
      PROVE  k \in T
  <2>1. PICK j : Runs(j, k - 1)
    BY <1>3
  <2> DEFINE g == [n \in 1 .. k |-> IF n = k THEN Step(j, k) ELSE j[n]]
  <2>2. ASSUME NEW n \in 1 .. k
        PROVE  g[n] = Step(g, n)
    <3>1. CASE n # k
      <4>1. n \in 1 .. k - 1 /\ n # k
        BY <3>1
      <4>2. j[n] = Step(j, n)
        BY <2>1, <4>1
      <4>3. g[n] = j[n]
        BY <4>1
      <4>4. n # 1 => g[n - 1] = j[n - 1]
        <5>1. n # 1 => n - 1 \in 1 .. k /\ n - 1 # k
          BY <4>1
        <5> QED
          BY <5>1
      <4> HIDE DEF g
      <4> QED
        BY <4>2, <4>3, <4>4
    <3>2. CASE n = k
      <4>1. g[n] = Step(j, n)
        BY <3>2
      <4>2. n # 1 => g[n - 1] = j[n - 1]
        <5>1. n # 1 => n - 1 \in 1 .. k /\ n - 1 # k
          BY <3>2
        <5> QED
          BY <5>1
      <4> HIDE DEF g
      <4> QED
        BY <4>1, <4>2
    <3> QED
      BY <3>1, <3>2
  <2>3. g = [n \in 1 .. k |-> g[n]]
    OBVIOUS
  <2> HIDE DEF g, Step
  <2>4. Runs(g, k)
    BY <2>2, <2>3
  <2> HIDE DEF Runs
  <2> QED
    BY <2>4
<1> HIDE DEF T
<1>4. Len(f) \in T
  <2>1. 0 .. Len(f) \subseteq T
    BY <1>1, <1>2, <1>3, AllPlaces
  <2> QED
    BY <1>1, <2>1
<1> DEFINE joined == CHOOSE j : Runs(j, Len(f))
<1>5. Runs(joined, Len(f))
  <2> HIDE DEF Runs
  <2> QED
    BY <1>4 DEF T
<1>6. Joined(f) = joined[Len(f)]
  BY Zenon DEF Joined, Comma
<1> HIDE DEF joined
<1>7. \A n \in 1 .. Len(f) : joined[n] = Step(joined, n)
  BY <1>5
<1>8. joined[1] = f[1] /\ \A n \in 2 .. Len(f) : joined[n] = joined[n - 1] \o <<Comma>> \o f[n]
  <2>1. 1 \in 1 .. Len(f)
    BY <1>1
  <2>2. \A n \in 2 .. Len(f) : n \in 1 .. Len(f) /\ n # 1
    OBVIOUS
  <2> QED
    BY <1>7, <2>1, <2>2
<1> HIDE DEF Step
<1> DEFINE U == {n \in 0 .. Len(f) : n > 0 => joined[n] \in Seq(Characters)}
<1>9. ASSUME NEW n \in 1 .. Len(f), n - 1 \in U
      PROVE  n \in U
  <2>1. CASE n = 1
    <3>1. f[1] \in Seq(Characters) /\ joined[1] = f[1]
      <4>1. 1 \in 1 .. Len(f)
        BY <1>1
      <4> QED
        BY <1>1, <1>8, <4>1
    <3>2. joined[n] \in Seq(Characters)
      BY <2>1, <3>1
    <3> QED
      BY <3>2
  <2>2. CASE n # 1
    <3>1. n \in 2 .. Len(f) /\ n - 1 > 0
      BY <2>2
    <3>2. joined[n - 1] \in Seq(Characters)
      BY <1>9, <3>1
    <3>3. <<Comma>> \in Seq(Characters)
      <4>1. Comma \in Characters
        BY Marks
      <4> QED
        BY <4>1, Single
    <3>4. joined[n] = joined[n - 1] \o <<Comma>> \o f[n]
      BY <1>8, <3>1
    <3>5. joined[n] \in Seq(Characters)
      <4>1. joined[n - 1] \o <<Comma>> \in Seq(Characters)
        BY <3>2, <3>3, Appended
      <4>2. f[n] \in Seq(Characters)
        BY <1>1
      <4>3. (joined[n - 1] \o <<Comma>>) \o f[n] \in Seq(Characters)
        BY <4>1, <4>2, Appended
      <4> QED
        BY <3>4, <4>3
    <3> QED
      BY <3>5
  <2> QED
    BY <2>1, <2>2
<1>10. 0 \in U
  BY <1>1
<1> HIDE DEF U
<1>11. 0 .. Len(f) \subseteq U
  BY <1>1, <1>9, <1>10, AllPlaces
<1>12. \A n \in 1 .. Len(f) : joined[n] \in Seq(Characters)
  <2>1. ASSUME NEW n \in 1 .. Len(f)
        PROVE  n \in 0 .. Len(f) /\ n > 0
    OBVIOUS
  <2> QED
    BY <1>11, <2>1 DEF U
<1> QED
  BY <1>6, <1>8, <1>12 DEF Joins

(* One step of it, character by character: r is p, a comma and q.           *)
Follows(p, q, r) ==
  /\ Len(p) \in Nat /\ Len(q) \in Nat
  /\ Len(r) = Len(p) + 1 + Len(q)
  /\ \A i \in 1 .. Len(p) : r[i] = p[i]
  /\ r[Len(p) + 1] = Comma
  /\ \A i \in 1 .. Len(q) : r[Len(p) + 1 + i] = q[i]

LEMMA JoinedStep ==
  ASSUME NEW f, IsText(f), NEW joined, Joins(f, joined), NEW n \in 2 .. Len(f)
  PROVE  Follows(joined[n - 1], f[n], joined[n])
<1>1. PICK p : p = joined[n - 1]
  OBVIOUS
<1>2. PICK q : q = f[n]
  OBVIOUS
<1>3. PICK c : c = <<Comma>>
  OBVIOUS
<1>4. p \in Seq(Characters) /\ q \in Seq(Characters) /\ c \in Seq(Characters)
  <2>1. n - 1 \in 1 .. Len(f) /\ n \in 1 .. Len(f)
    OBVIOUS
  <2>2. p \in Seq(Characters)
    BY <1>1, <2>1 DEF Joins
  <2>3. q \in Seq(Characters)
    BY <1>2, <2>1 DEF IsText
  <2>4. c \in Seq(Characters)
    <3>1. Comma \in Characters
      BY Marks
    <3> QED
      BY <1>3, <3>1, Single
  <2> QED
    BY <2>2, <2>3, <2>4
<1>5. Len(c) = 1 /\ c[1] = Comma
  BY <1>3, Marks, Single
<1>6. joined[n] = p \o c \o q
  BY <1>1, <1>2, <1>3 DEF Joins
<1>7. PICK r : r = p \o c
  OBVIOUS
<1>8. /\ r \in Seq(Characters) /\ Len(r) = Len(p) + Len(c) /\ Len(p) \in Nat
      /\ \A i \in 1 .. Len(p) : r[i] = p[i]
      /\ \A i \in 1 .. Len(c) : r[Len(p) + i] = c[i]
  BY <1>4, <1>7, Appended
<1>9. joined[n] = r \o q
  BY <1>6, <1>7
<1>10. /\ Len(r \o q) = Len(r) + Len(q) /\ Len(q) \in Nat
       /\ \A i \in 1 .. Len(r) : (r \o q)[i] = r[i]
       /\ \A i \in 1 .. Len(q) : (r \o q)[Len(r) + i] = q[i]
  BY <1>4, <1>8, Appended
<1>11. PICK j : j = r \o q
  OBVIOUS
<1>12. PICK a \in Nat, b \in Nat : a = Len(p) /\ b = Len(q)
  BY <1>8, <1>10
<1>13. Len(r) = a + 1 /\ r[a + 1] = Comma
  <2>1. PICK k \in Nat : k = Len(c)
    BY <1>5
  <2>2. k = 1
    BY <1>5, <2>1
  <2>3. 1 \in 1 .. k
    BY <2>2
  <2>4. r[a + 1] = c[1]
    BY <1>8, <1>12, <2>1, <2>3
  <2>5. Len(r) = a + 1
    BY <1>8, <1>12, <2>1, <2>2
  <2> QED
    BY <1>5, <2>4, <2>5
<1>14. /\ Len(j) = a + 1 + b
       /\ \A i \in 1 .. a + 1 : j[i] = r[i]
       /\ \A i \in 1 .. b : j[a + 1 + i] = q[i]
  BY <1>10, <1>11, <1>12, <1>13
<1>15. \A i \in 1 .. a : j[i] = p[i]
  <2>1. \A i \in 1 .. a : i \in 1 .. a + 1
    OBVIOUS
  <2>2. \A i \in 1 .. a : r[i] = p[i]
    BY <1>8, <1>12
  <2> QED
    BY <1>14, <2>1, <2>2
<1>16. j[a + 1] = Comma
  <2>1. a + 1 \in 1 .. a + 1
    OBVIOUS
  <2> QED
    BY <1>13, <1>14, <2>1
<1>17. j = joined[n]
  BY <1>9, <1>11
<1> QED
  BY <1>1, <1>2, <1>12, <1>14, <1>15, <1>16, <1>17 DEF Follows

(* What is joined stays at its place, and there is no other separator than  *)
(* the commas.                                                              *)
LEMMA JoinedPrefix ==
  ASSUME NEW f, IsText(f), NEW joined, Joins(f, joined)
  PROVE  \A n \in 1 .. Len(f) :
           /\ \A m \in 1 .. n : /\ Len(joined[m]) <= Len(joined[n])
                                /\ \A i \in 1 .. Len(joined[m]) : joined[n][i] = joined[m][i]
           /\ \A i \in 1 .. Len(joined[n]) : joined[n][i] \notin {"*", "CR", "LF"}
<1>1. Len(f) \in Nat /\ Len(f) >= 1 /\ f[1] \in Seq(Characters)
  BY DEF IsText
<1>2. ASSUME NEW n \in 1 .. Len(f)
      PROVE  joined[n] \in Seq(Characters) /\ Len(joined[n]) \in Nat
  <2>1. joined[n] \in Seq(Characters)
    BY DEF Joins
  <2> QED
    BY <2>1
<1> DEFINE Kept(n) == \A m \in 1 .. n :
                        /\ Len(joined[m]) <= Len(joined[n])
                        /\ \A i \in 1 .. Len(joined[m]) : joined[n][i] = joined[m][i]
           Clean(n) == \A i \in 1 .. Len(joined[n]) : joined[n][i] \notin {"*", "CR", "LF"}
           T == {n \in 0 .. Len(f) : n > 0 => Kept(n) /\ Clean(n)}
<1>3. ASSUME NEW n \in 1 .. Len(f), n - 1 \in T
      PROVE  n \in T
  <2>1. CASE n = 1
    <3>1. Kept(n)
      <4> SUFFICES ASSUME NEW m \in 1 .. n
                   PROVE  /\ Len(joined[m]) <= Len(joined[n])
                          /\ \A i \in 1 .. Len(joined[m]) : joined[n][i] = joined[m][i]
        OBVIOUS
      <4>1. m = n
        BY <2>1
      <4> QED
        BY <1>2, <4>1
    <3>2. Clean(n)
      <4>1. joined[n] = f[1]
        BY <2>1 DEF Joins
      <4>2. 1 \in DOMAIN f /\ \A i \in 1 .. Len(f[1]) : i \in DOMAIN f[1]
        BY <1>1
      <4>3. \A i \in 1 .. Len(f[1]) : f[1][i] \notin Separators
        BY <4>2 DEF IsText
      <4> QED
        BY <4>1, <4>3, Marks
    <3> QED
      BY <3>1, <3>2
  <2>2. CASE n # 1
    <3>1. n \in 2 .. Len(f) /\ n - 1 \in 1 .. Len(f) /\ n - 1 > 0
      BY <2>2
    <3>2. PICK p, q, r : p = joined[n - 1] /\ q = f[n] /\ r = joined[n]
      OBVIOUS
    <3>0. Follows(p, q, r)
      BY <3>1, <3>2, JoinedStep
    <3>3. PICK a \in Nat, b \in Nat : a = Len(p) /\ b = Len(q)
      BY <3>0 DEF Follows
    <3>31. Len(r) = a + 1 + b
      BY <3>0, <3>3 DEF Follows
    <3>32. \A i \in 1 .. a : r[i] = p[i]
      BY <3>0, <3>3 DEF Follows
    <3>33. r[a + 1] = Comma
      BY <3>0, <3>3 DEF Follows
    <3>34. \A i \in 1 .. b : r[a + 1 + i] = q[i]
      BY <3>0, <3>3 DEF Follows
    <3>4. Kept(n - 1) /\ Clean(n - 1)
      BY <1>3, <3>1
    <3>5. Kept(n)
      <4> SUFFICES ASSUME NEW m \in 1 .. n
                   PROVE  /\ Len(joined[m]) <= Len(r)
                          /\ \A i \in 1 .. Len(joined[m]) : r[i] = joined[m][i]
        BY <3>2
      <4>1. CASE m = n
        BY <1>2, <3>2, <4>1
      <4>2. CASE m # n
        <5>1. m \in 1 .. n - 1 /\ m \in 1 .. Len(f)
          BY <4>2
        <5>2. PICK s : s = joined[m]
          OBVIOUS
        <5>3. PICK z \in Nat : z = Len(s) /\ z <= a /\ \A i \in 1 .. z : p[i] = s[i]
          <6>1. Len(s) \in Nat
            BY <1>2, <5>1, <5>2
          <6> QED
            BY <3>2, <3>3, <3>4, <5>1, <5>2, <6>1
        <5>4. z <= a + 1 + b
          BY <5>3
        <5>5. ASSUME NEW i \in 1 .. z
              PROVE  r[i] = s[i]
          <6>1. i \in 1 .. a
            BY <5>3
          <6> QED
            BY <3>32, <5>3, <6>1
        <5> QED
          BY <3>31, <5>2, <5>3, <5>4, <5>5
      <4> QED
        BY <4>1, <4>2
    <3>6. Clean(n)
      <4> SUFFICES ASSUME NEW i \in 1 .. a + 1 + b PROVE r[i] \notin {"*", "CR", "LF"}
        BY <3>2, <3>31
      <4>1. CASE i \in 1 .. a
        BY <3>2, <3>3, <3>32, <3>4, <4>1
      <4>2. CASE i = a + 1
        <5>1. r[i] = Comma
          BY <3>33, <4>2
        <5> QED
          BY <5>1, Marks
      <4>3. CASE i > a + 1
        <5>1. PICK k \in 1 .. b : i = a + 1 + k
          <6>1. i - a - 1 \in 1 .. b /\ i = a + 1 + (i - a - 1)
            BY <4>3
          <6> QED
            BY <6>1
        <5>2. r[i] = q[k]
          BY <3>34, <5>1
        <5>3. k \in DOMAIN f[n] /\ n \in DOMAIN f
          <6>1. f[n] \in Seq(Characters) /\ n \in DOMAIN f
            BY DEF IsText
          <6>2. Len(f[n]) = b
            BY <3>2, <3>3
          <6> QED
            BY <6>1, <6>2
        <5>4. q[k] \notin Separators
          BY <3>2, <5>3 DEF IsText
        <5> QED
          BY <5>2, <5>4, Marks
      <4> QED
        BY <4>1, <4>2, <4>3
    <3> QED
      BY <3>5, <3>6
  <2> QED
    BY <2>1, <2>2
<1>4. 0 \in T
  BY <1>1
<1> HIDE DEF T
<1>5. 0 .. Len(f) \subseteq T
  BY <1>1, <1>3, <1>4, AllPlaces
<1>6. ASSUME NEW n \in 1 .. Len(f)
      PROVE  Kept(n) /\ Clean(n)
  <2>1. n \in 0 .. Len(f) /\ n > 0
    OBVIOUS
  <2> QED
    BY <1>5, <2>1 DEF T
<1> QED
  BY <1>6

-----------------------------------------------------------------------------
(* What a character does to the fields that are read so far.                *)
ReadNext(fs, c, gs) ==
  /\ c = Comma => /\ Len(gs) = Len(fs) + 1
                  /\ \A m \in 1 .. Len(fs) : gs[m] = fs[m]
                  /\ gs[Len(fs) + 1] = <<>>
  /\ c # Comma => /\ Len(gs) = Len(fs)
                  /\ \A m \in 1 .. Len(fs) - 1 : gs[m] = fs[m]
                  /\ gs[Len(fs)] = Append(fs[Len(fs)], c)

LEMMA ExtendedIs ==
  ASSUME NEW fs \in Seq(Seq(Characters)), Len(fs) >= 1, NEW c \in Characters
  PROVE  /\ Extended(fs, c) \in Seq(Seq(Characters)) /\ Len(Extended(fs, c)) >= 1
         /\ ReadNext(fs, c, Extended(fs, c))
<1>1. PICK n \in Nat : n = Len(fs) /\ n >= 1
  OBVIOUS
<1>2. PICK g : g = Extended(fs, c)
  OBVIOUS
<1>3. CASE c = Comma
  <2>1. g = Append(fs, <<>>)
    BY <1>2, <1>3, Zenon DEF Extended, Comma
  <2>2. <<>> \in Seq(Characters)
    OBVIOUS
  <2>3. /\ g \in Seq(Seq(Characters)) /\ Len(g) = n + 1
        /\ \A m \in 1 .. n : g[m] = fs[m]
        /\ g[n + 1] = <<>>
    BY <1>1, <2>1, <2>2, AppendProperties
  <2> QED
    BY <1>1, <1>2, <1>3, <2>3 DEF ReadNext
<1>4. CASE c # Comma
  <2>1. n \in 1 .. Len(fs) /\ fs[n] \in Seq(Characters)
    BY <1>1
  <2>2. PICK x : x = Append(fs[n], c)
    OBVIOUS
  <2>3. x \in Seq(Characters)
    BY <2>1, <2>2, AppendProperties
  <2>4. g = [fs EXCEPT ![n] = x]
    BY <1>1, <1>2, <1>4, <2>2, Zenon DEF Extended, Comma
  <2>5. /\ g \in Seq(Seq(Characters)) /\ Len(g) = n
        /\ \A m \in 1 .. n - 1 : g[m] = fs[m]
        /\ g[n] = x
    BY <1>1, <2>1, <2>3, <2>4, ExceptSeq
  <2> QED
    BY <1>1, <1>2, <1>4, <2>2, <2>5 DEF ReadNext
<1> QED
  BY <1>3, <1>4

(* How a text is split, one character at a time.                            *)
Splits(str, split) ==
  /\ split[0] = <<<<>>>>
  /\ \A k \in 1 .. Len(str) : split[k] = Extended(split[k - 1], str[k])
  /\ \A k \in 0 .. Len(str) : split[k] \in Seq(Seq(Characters)) /\ Len(split[k]) >= 1

LEMMA SplitFunction ==
  ASSUME NEW str \in Seq(Characters)
  PROVE  \E split : Splits(str, split) /\ split_fields(str) = split[Len(str)]
<1> DEFINE Fields == {fs \in Seq(Seq(Characters)) : Len(fs) >= 1}
           Runs(f, k) == f = [n \in 0 .. k |-> IF n = 0 THEN <<<<>>>>
                                                 ELSE Extended(f[n - 1], str[n])]
           T == {k \in 0 .. Len(str) : \E f : Runs(f, k)}
<1>1. 0 \in T
  <2>1. Runs([n \in 0 .. 0 |-> <<<<>>>>], 0)
    OBVIOUS
  <2>2. 0 \in 0 .. Len(str)
    OBVIOUS
  <2> HIDE DEF Runs
  <2> QED
    BY <2>1, <2>2
<1>2. ASSUME NEW k \in 1 .. Len(str), k - 1 \in T
      PROVE  k \in T
  <2>1. PICK f : Runs(f, k - 1)
    BY <1>2
  <2> DEFINE g == [n \in 0 .. k |-> IF n = k THEN Extended(f[k - 1], str[k]) ELSE f[n]]
  <2>2. ASSUME NEW n \in 0 .. k
        PROVE  g[n] = IF n = 0 THEN <<<<>>>> ELSE Extended(g[n - 1], str[n])
    <3>1. CASE n = 0
      BY <2>1, <3>1
    <3>2. CASE n # 0 /\ n # k
      <4>1. n \in 0 .. k - 1 /\ n - 1 \in 0 .. k /\ n - 1 # k
        BY <3>2
      <4>2. g[n] = f[n] /\ g[n - 1] = f[n - 1]
        BY <3>2, <4>1
      <4>3. f[n] = Extended(f[n - 1], str[n])
        BY <2>1, <3>2, <4>1
      <4> QED
        BY <3>2, <4>2, <4>3
    <3>3. CASE n # 0 /\ n = k
      <4>1. k - 1 \in 0 .. k /\ k - 1 # k /\ k \in 0 .. k
        OBVIOUS
      <4>2. g[k] = Extended(f[k - 1], str[k]) /\ g[k - 1] = f[k - 1]
        BY <4>1
      <4> QED
        BY <3>3, <4>2
    <3> QED
      BY <3>1, <3>2, <3>3
  <2>3. g = [n \in 0 .. k |-> g[n]]
    OBVIOUS
  <2> HIDE DEF g
  <2>4. Runs(g, k)
    BY <2>2, <2>3
  <2> HIDE DEF Runs
  <2> QED
    BY <2>4
<1> HIDE DEF T
<1>3. Len(str) \in T
  <2>1. Len(str) \in Nat
    OBVIOUS
  <2>2. 0 .. Len(str) \subseteq T
    BY <1>1, <1>2, <2>1, AllPlaces
  <2> QED
    BY <2>1, <2>2
<1> DEFINE split == CHOOSE f : Runs(f, Len(str))
<1>4. Runs(split, Len(str))
  <2> HIDE DEF Runs
  <2> QED
    BY <1>3 DEF T
<1>5. split_fields(str) = split[Len(str)]
  BY DEF split_fields
<1> HIDE DEF split
<1> DEFINE U == {k \in 0 .. Len(str) : split[k] \in Fields}
<1>6. ASSUME NEW fs \in Fields, NEW c \in Characters
      PROVE  Extended(fs, c) \in Fields
  BY ExtendedIs
<1>7. 0 \in U
  <2>1. <<>> \in Seq(Characters)
    OBVIOUS
  <2>2. <<<<>>>> \in Fields
    BY <2>1
  <2> QED
    BY <1>4, <2>2
<1>8. ASSUME NEW k \in 1 .. Len(str), k - 1 \in U
      PROVE  k \in U
  <2>1. str[k] \in Characters
    OBVIOUS
  <2>2. k \in 0 .. Len(str) /\ k # 0
    OBVIOUS
  <2>3. split[k] = Extended(split[k - 1], str[k])
    BY <1>4, <2>2
  <2> HIDE DEF Fields, Runs
  <2> QED
    BY <1>6, <1>8, <2>1, <2>2, <2>3
<1> HIDE DEF U
<1>9. Len(str) \in Nat
  OBVIOUS
<1>10. 0 .. Len(str) \subseteq U
  BY <1>7, <1>8, <1>9, AllPlaces
<1>11. \A k \in 0 .. Len(str) : split[k] \in Seq(Seq(Characters)) /\ Len(split[k]) >= 1
  BY <1>10 DEF U
<1>12. split[0] = <<<<>>>>
  BY <1>4, <1>9
<1>13. ASSUME NEW k \in 1 .. Len(str)
       PROVE  split[k] = Extended(split[k - 1], str[k])
  <2>1. k \in 0 .. Len(str) /\ k # 0
    OBVIOUS
  <2> QED
    BY <1>4, <2>1
<1> QED
  BY <1>5, <1>11, <1>12, <1>13 DEF Splits

(* The fields of a text are texts, and there is at least one.               *)
LEMMA FieldsOfText ==
  ASSUME NEW str \in Seq(Characters)
  PROVE  split_fields(str) \in Seq(Seq(Characters)) /\ Len(split_fields(str)) >= 1
<1>1. PICK split : Splits(str, split) /\ split_fields(str) = split[Len(str)]
  BY SplitFunction
<1>2. Len(str) \in 0 .. Len(str)
  OBVIOUS
<1> QED
  BY <1>1, <1>2 DEF Splits

-----------------------------------------------------------------------------
(* The checksum.  What compute_checksum() writes, parse_hex8() reads.       *)
LEMMA UppercaseIs ==
  /\ Uppercase = <<"0", "1", "2", "3", "4", "5", "6", "7", "8", "9",
                   "A", "B", "C", "D", "E", "F">>
  /\ Len(Uppercase) = 16
  /\ \A i, j \in 1 .. 16 : Uppercase[i] = Uppercase[j] => i = j
  /\ \A i \in 1 .. 16 : Uppercase[i] \in Characters /\ Uppercase[i] \notin {"*", "CR", "LF"}
<1>1. Uppercase = <<"0", "1", "2", "3", "4", "5", "6", "7", "8", "9",
                    "A", "B", "C", "D", "E", "F">>
  BY DEF Uppercase
<1>2. Len(Uppercase) = 16
  BY <1>1
<1>3. \A i, j \in 1 .. 16 : Uppercase[i] = Uppercase[j] => i = j
  BY <1>1
<1>4. \A i \in 1 .. 16 : Uppercase[i] \notin {"*", "CR", "LF"}
  BY <1>1
<1>5. \A i \in 1 .. 16 : Uppercase[i] \in Characters
  BY <1>2, ParserAssumption DEF ToSet
<1> QED
  BY <1>1, <1>2, <1>3, <1>4, <1>5

LEMMA HexDigit ==
  ASSUME NEW k \in 0 .. 15
  PROVE  HexValue(Uppercase[k + 1]) = k
<1>1. k + 1 \in DOMAIN Uppercase
  BY UppercaseIs
<1>2. \A i \in DOMAIN Uppercase : Uppercase[i] = Uppercase[k + 1] => i = k + 1
  BY UppercaseIs
<1>3. (CHOOSE i \in DOMAIN Uppercase : Uppercase[i] = Uppercase[k + 1]) = k + 1
  BY <1>1, <1>2
<1>4. DigitValue(Uppercase[k + 1], Uppercase) = (k + 1) - 1
  BY <1>1, <1>3, Zenon DEF DigitValue
<1>5. (k + 1) - 1 = k /\ k # -1
  OBVIOUS
<1> QED
  BY <1>4, <1>5 DEF HexValue

(* Each of the eight bits of the exclusive or is a parity.                  *)
Weights == {1, 2, 4, 8, 16, 32, 64, 128}
Having(d, weight) == {i \in DOMAIN d : HasBit(d[i], weight)}

LEMMA ParityIs ==
  ASSUME NEW d \in Seq(Characters), NEW weight
  PROVE  /\ IsFiniteSet(Having(d, weight))
         /\ Cardinality(Having(d, weight)) \in Nat
         /\ Parity(d, weight) = Cardinality(Having(d, weight)) % 2
         /\ Parity(d, weight) \in {0, 1}
<1>1. IsFiniteSet(DOMAIN d)
  BY FS_Interval
<1>2. Having(d, weight) \in SUBSET DOMAIN d
  BY DEF Having
<1>3. IsFiniteSet(Having(d, weight))
  BY <1>1, <1>2, FS_Subset
<1>4. Cardinality(Having(d, weight)) \in Nat
  BY <1>3, FS_CardinalityType
<1>5. Parity(d, weight) = Cardinality(Having(d, weight)) % 2
  BY DEF Parity, Having
<1> QED
  BY <1>3, <1>4, <1>5

LEMMA ChecksumIs ==
  ASSUME NEW d \in Seq(Characters)
  PROVE  /\ Checksum(d) \in 0 .. 255
         /\ compute_checksum(d) \in Seq(Characters) /\ Len(compute_checksum(d)) = 2
         /\ \A i \in 1 .. 2 : compute_checksum(d)[i] \notin {"*", "CR", "LF"}
         /\ parse_hex8(compute_checksum(d)) = Checksum(d)
<1>1. Checksum(d) \in 0 .. 255
  <2>1. PICK a1 \in {0, 1}, a2 \in {0, 1} : a1 = Parity(d, 1) /\ a2 = Parity(d, 2)
    BY ParityIs
  <2>2. PICK a3 \in {0, 1}, a4 \in {0, 1} : a3 = Parity(d, 4) /\ a4 = Parity(d, 8)
    BY ParityIs
  <2>3. PICK a5 \in {0, 1}, a6 \in {0, 1} : a5 = Parity(d, 16) /\ a6 = Parity(d, 32)
    BY ParityIs
  <2>4. PICK a7 \in {0, 1}, a8 \in {0, 1} : a7 = Parity(d, 64) /\ a8 = Parity(d, 128)
    BY ParityIs
  <2>5. Checksum(d) = 1 * a1 + 2 * a2 + 4 * a3 + 8 * a4 + 16 * a5 + 32 * a6 + 64 * a7 + 128 * a8
    BY <2>1, <2>2, <2>3, <2>4 DEF Checksum
  <2>6. 1 * a1 + 2 * a2 + 4 * a3 + 8 * a4 + 16 * a5 + 32 * a6 + 64 * a7 + 128 * a8 \in 0 .. 255
    OBVIOUS
  <2> QED
    BY <2>5, <2>6
<1> DEFINE h == Checksum(d) \div 16
           l == Checksum(d) % 16
<1>2. h \in 0 .. 15 /\ l \in 0 .. 15 /\ 16 * h + l = Checksum(d)
  <2>1. ASSUME NEW v \in 0 .. 255
        PROVE  v \div 16 \in 0 .. 15 /\ v % 16 \in 0 .. 15 /\ 16 * (v \div 16) + (v % 16) = v
    <3>1. v \div 16 \in 0 .. 15
      OBVIOUS
    <3>2. v % 16 \in 0 .. 15
      OBVIOUS
    <3>3. 16 * (v \div 16) + (v % 16) = v
      OBVIOUS
    <3> QED
      BY <3>1, <3>2, <3>3
  <2> QED
    BY <1>1, <2>1
<1>3. compute_checksum(d) = <<Uppercase[h + 1], Uppercase[l + 1]>>
  BY DEF compute_checksum
<1> HIDE DEF h, l
<1>4. h + 1 \in 1 .. 16 /\ l + 1 \in 1 .. 16
  BY <1>2
<1>5. HexValue(Uppercase[h + 1]) = h /\ HexValue(Uppercase[l + 1]) = l
  BY <1>2, HexDigit
<1>6. PICK x, y : x = Uppercase[h + 1] /\ y = Uppercase[l + 1]
  OBVIOUS
<1>7. /\ x \in Characters /\ x \notin {"*", "CR", "LF"}
      /\ y \in Characters /\ y \notin {"*", "CR", "LF"}
  BY <1>4, <1>6, UppercaseIs
<1>8. compute_checksum(d) = <<x, y>>
  BY <1>3, <1>6
<1>9. parse_hex8(<<x, y>>) = Checksum(d)
  <2>1. HexValue(x) = h /\ HexValue(y) = l
    BY <1>5, <1>6
  <2>2. Len(<<x, y>>) = 2 /\ <<x, y>>[1] = x /\ <<x, y>>[2] = y
    OBVIOUS
  <2>3. HexValue(x) # -1 /\ HexValue(y) # -1
    BY <1>2, <2>1
  <2>4. ~(\E i \in 1 .. Len(<<x, y>>) : HexValue(<<x, y>>[i]) = -1)
    BY <2>2, <2>3
  <2> QED
    BY <1>2, <2>1, <2>2, <2>4 DEF parse_hex8
<1>10. <<x, y>> \in Seq(Characters) /\ Len(<<x, y>>) = 2
       /\ \A i \in 1 .. 2 : <<x, y>>[i] \notin {"*", "CR", "LF"}
  BY <1>7
<1> QED
  BY <1>1, <1>8, <1>9, <1>10

(* Texts with the same checksum have the same parities, and characters with *)
(* the same bits are the same.                                              *)
LEMMA SameChecksum ==
  ASSUME NEW d \in Seq(Characters), NEW e \in Seq(Characters), Checksum(d) = Checksum(e)
  PROVE  \A weight \in Weights : Parity(d, weight) = Parity(e, weight)
<1>1. PICK a1 \in {0, 1}, a2 \in {0, 1} : a1 = Parity(d, 1) /\ a2 = Parity(d, 2)
  BY ParityIs
<1>2. PICK a3 \in {0, 1}, a4 \in {0, 1} : a3 = Parity(d, 4) /\ a4 = Parity(d, 8)
  BY ParityIs
<1>3. PICK a5 \in {0, 1}, a6 \in {0, 1} : a5 = Parity(d, 16) /\ a6 = Parity(d, 32)
  BY ParityIs
<1>4. PICK a7 \in {0, 1}, a8 \in {0, 1} : a7 = Parity(d, 64) /\ a8 = Parity(d, 128)
  BY ParityIs
<1>5. PICK b1 \in {0, 1}, b2 \in {0, 1} : b1 = Parity(e, 1) /\ b2 = Parity(e, 2)
  BY ParityIs
<1>6. PICK b3 \in {0, 1}, b4 \in {0, 1} : b3 = Parity(e, 4) /\ b4 = Parity(e, 8)
  BY ParityIs
<1>7. PICK b5 \in {0, 1}, b6 \in {0, 1} : b5 = Parity(e, 16) /\ b6 = Parity(e, 32)
  BY ParityIs
<1>8. PICK b7 \in {0, 1}, b8 \in {0, 1} : b7 = Parity(e, 64) /\ b8 = Parity(e, 128)
  BY ParityIs
<1>9. Checksum(d) = 1 * a1 + 2 * a2 + 4 * a3 + 8 * a4 + 16 * a5 + 32 * a6 + 64 * a7 + 128 * a8
  BY <1>1, <1>2, <1>3, <1>4 DEF Checksum
<1>10. Checksum(e) = 1 * b1 + 2 * b2 + 4 * b3 + 8 * b4 + 16 * b5 + 32 * b6 + 64 * b7 + 128 * b8
  BY <1>5, <1>6, <1>7, <1>8 DEF Checksum
<1>11. PICK c : c = Checksum(d) /\ c = Checksum(e)
  OBVIOUS
<1>12. /\ a1 = b1 /\ a2 = b2 /\ a3 = b3 /\ a4 = b4
       /\ a5 = b5 /\ a6 = b6 /\ a7 = b7 /\ a8 = b8
  <2>1. c = 1 * a1 + 2 * a2 + 4 * a3 + 8 * a4 + 16 * a5 + 32 * a6 + 64 * a7 + 128 * a8
    BY <1>9, <1>11
  <2>2. c = 1 * b1 + 2 * b2 + 4 * b3 + 8 * b4 + 16 * b5 + 32 * b6 + 64 * b7 + 128 * b8
    BY <1>10, <1>11
  <2> QED
    BY <2>1, <2>2
<1>13. Parity(d, 1) = Parity(e, 1) /\ Parity(d, 2) = Parity(e, 2)
  BY <1>1, <1>5, <1>12, Zenon
<1>14. Parity(d, 4) = Parity(e, 4) /\ Parity(d, 8) = Parity(e, 8)
  BY <1>2, <1>6, <1>12, Zenon
<1>15. Parity(d, 16) = Parity(e, 16) /\ Parity(d, 32) = Parity(e, 32)
  BY <1>3, <1>7, <1>12, Zenon
<1>16. Parity(d, 64) = Parity(e, 64) /\ Parity(d, 128) = Parity(e, 128)
  BY <1>4, <1>8, <1>12, Zenon
<1>17. SUFFICES ASSUME NEW weight \in Weights PROVE Parity(d, weight) = Parity(e, weight)
  OBVIOUS
<1>18. \/ weight = 1 \/ weight = 2 \/ weight = 4 \/ weight = 8
       \/ weight = 16 \/ weight = 32 \/ weight = 64 \/ weight = 128
  BY <1>17 DEF Weights
<1> QED
  BY <1>13, <1>14, <1>15, <1>16, <1>18

LEMMA BitsTell ==
  ASSUME NEW c \in Characters, NEW d \in Characters, c # d
  PROVE  \E weight \in Weights : HasBit(c, weight) # HasBit(d, weight)
<1>1. ASSUME NEW m \in 1 .. 127, NEW n \in 1 .. 127,
             ((m \div 1) % 2 = 1) <=> ((n \div 1) % 2 = 1),
             ((m \div 2) % 2 = 1) <=> ((n \div 2) % 2 = 1),
             ((m \div 4) % 2 = 1) <=> ((n \div 4) % 2 = 1),
             ((m \div 8) % 2 = 1) <=> ((n \div 8) % 2 = 1),
             ((m \div 16) % 2 = 1) <=> ((n \div 16) % 2 = 1),
             ((m \div 32) % 2 = 1) <=> ((n \div 32) % 2 = 1),
             ((m \div 64) % 2 = 1) <=> ((n \div 64) % 2 = 1)
      PROVE  m = n
  BY <1>1
<1>2. Code[c] \in 1 .. 127 /\ Code[d] \in 1 .. 127 /\ Code[c] # Code[d]
  BY ParserAssumption
<1>3. \E weight \in {1, 2, 4, 8, 16, 32, 64} :
        ~(((Code[c] \div weight) % 2 = 1) <=> ((Code[d] \div weight) % 2 = 1))
  BY <1>1, <1>2
<1> QED
  BY <1>3 DEF HasBit, Weights

LEMMA SomeBit ==
  ASSUME NEW c \in Characters
  PROVE  \E weight \in Weights : HasBit(c, weight)
<1>1. ASSUME NEW m \in 1 .. 127
      PROVE  \E weight \in {1, 2, 4, 8, 16, 32, 64} : (m \div weight) % 2 = 1
  BY <1>1
<1>2. Code[c] \in 1 .. 127
  BY ParserAssumption
<1> QED
  BY <1>1, <1>2 DEF HasBit, Weights

-----------------------------------------------------------------------------
(* The frame of a text is made of texts.                                    *)
LEMMA LastOfText ==
  ASSUME NEW s \in Seq(Characters), NEW P, P \subseteq DOMAIN s
  PROVE  Max({0} \cup P) \in 0 .. Len(s)
<1>1. {0} \cup P \subseteq 0 .. Len(s) /\ {0} \cup P # {} /\ Len(s) \in Nat
  OBVIOUS
<1>2. Max({0} \cup P) \in {0} \cup P
  BY <1>1, LastPlace
<1> QED
  BY <1>1, <1>2

LEMMA FrameOfText ==
  ASSUME NEW raw \in Seq(Characters)
  PROVE  /\ Stripped(raw) \in Seq(Characters)
         /\ Body(raw) \in Seq(Characters)
<1> DEFINE Kept == {i \in DOMAIN raw : raw[i] \notin {"CR", "LF"}}
           Stars == {i \in DOMAIN raw : raw[i] = "*"}
<1>1. Max({0} \cup Kept) \in 0 .. Len(raw)
  <2>1. Kept \subseteq DOMAIN raw
    OBVIOUS
  <2> HIDE DEF Kept
  <2> QED
    BY <2>1, LastOfText
<1>2. StarAt(raw) \in 0 .. Len(raw)
  <2>1. Stars \subseteq DOMAIN raw
    OBVIOUS
  <2>2. StarAt(raw) = Max({0} \cup Stars)
    BY DEF StarAt
  <2> HIDE DEF Stars
  <2> QED
    BY <2>1, <2>2, LastOfText
<1>3. Stripped(raw) = SubSeq(raw, 1, Max({0} \cup Kept))
  BY DEF Stripped
<1> HIDE DEF Kept
<1>4. Stripped(raw) \in Seq(Characters)
  <2> DEFINE n == Max({0} \cup Kept)
  <2>1. n \in Int /\ n <= Len(raw) /\ 1 \in Nat /\ 1 >= 1
    BY <1>1
  <2> HIDE DEF n
  <2>2. SubSeq(raw, 1, n) \in Seq(Characters)
    BY <2>1, Pieces
  <2> QED
    BY <1>3, <2>2 DEF n
<1>5. Body(raw) \in Seq(Characters)
  <2>1. StarAt(raw) - 1 \in Int /\ StarAt(raw) - 1 <= Len(raw)
    BY <1>2
  <2>2. SubSeq(raw, 2, StarAt(raw) - 1) \in Seq(Characters)
    BY <2>1, Pieces
  <2> QED
    BY <2>2 DEF Body
<1> QED
  BY <1>4, <1>5

(* What FrameError() and FieldError() return.                               *)
LEMMA FrameErrors ==
  ASSUME NEW raw, NEW s
  PROVE  /\ FrameError(raw, s) \in ParseErrors \cup {"Ok"}
         /\ FrameError(raw, s) = "Ok" => ~(Len(split_fields(Body(s))) < 7)
BY DEF FrameError, ParseErrors

LEMMA FieldErrors ==
  ASSUME NEW f
  PROVE  /\ FieldError(f) \in ParseErrors \cup {"Ok"}
         /\ FieldError(f) = "Ok" =>
              /\ is_valid_talker(Talker(f)) /\ CountIsValid(f) /\ IndexIsValid(f)
              /\ SeqIdIsValid(f) /\ ~(f[6] = <<>> /\ parse_uint8(f[2]) = 1)
              /\ parse_uint8(f[7]) \in 0 .. 5
BY DEF FieldError, ParseErrors

(* Fields without an error are a sentence.                                  *)
LEMMA FieldsGiveSentence ==
  ASSUME NEW f \in Seq(Seq(Characters)), Len(f) >= 7, FieldError(f) = "Ok"
  PROVE  SentenceOf(f) \in Sentence /\ ChannelOf(f) \in Characters
<1>1. /\ is_valid_talker(Talker(f)) /\ CountIsValid(f) /\ IndexIsValid(f)
      /\ SeqIdIsValid(f) /\ ~(f[6] = <<>> /\ parse_uint8(f[2]) = 1)
      /\ parse_uint8(f[7]) \in 0 .. 5
  BY FieldErrors
<1>2. /\ f[5] \in Seq(Characters) /\ f[6] \in Seq(Characters)
  OBVIOUS
<1>3. /\ Talker(f) \in Talkers
      /\ f[6] \in Payloads
      /\ parse_uint8(f[7]) \in FillBits
  BY <1>1, <1>2, ParserAssumption DEF is_valid_talker
<1>4. /\ parse_uint8(f[2]) \in 1 .. kMaxSentenceParts
      /\ parse_uint8(f[3]) \in 1 .. parse_uint8(f[2])
  BY <1>1 DEF CountIsValid, IndexIsValid
<1>5. parse_uint8(f[3]) \in 1 .. kMaxSentenceParts /\ parse_uint8(f[3]) <= parse_uint8(f[2])
  BY <1>4, SentencesAssumption
<1> DEFINE Id == IF f[4] = <<>> THEN NoSeqId ELSE parse_uint8(f[4])
<1>6. Id \in SeqIds \cup {NoSeqId} /\ (parse_uint8(f[2]) > 1 => Id # NoSeqId)
  <2>1. CASE f[4] = <<>>
    BY <1>1, <2>1 DEF SeqIdIsValid
  <2>2. CASE f[4] # <<>>
    <3>1. Id \in SeqIds
      BY <1>1, <2>2, ParserAssumption DEF SeqIdIsValid
    <3> QED
      BY <3>1, SentencesAssumption
  <2> QED
    BY <2>1, <2>2
<1>7. parse_uint8(f[2]) = 1 => f[6] # NoPayload
  BY <1>1, ParserAssumption
<1> HIDE DEF Id
<1>8. SentenceOf(f) \in Sentence
  <2>1. SentenceOf(f) =
          [talker        |-> Talker(f),
           sentence_type |-> IF Type(f) = <<"V", "D", "O">> THEN "VDO" ELSE "VDM",
           part_count    |-> parse_uint8(f[2]),
           part_index    |-> parse_uint8(f[3]),
           seq_id        |-> Id,
           payload       |-> f[6],
           fill_bits     |-> parse_uint8(f[7])]
    BY DEF SentenceOf, Id
  <2> QED
    BY <1>3, <1>4, <1>5, <1>6, <1>7, <2>1 DEF Sentence, SentenceTypes
<1>9. ChannelOf(f) \in Characters
  <2>1. CASE f[5] = <<>>
    <3>1. "A" \in Characters
      <4>1. Uppercase[11] = "A" /\ 11 \in 1 .. 16
        BY UppercaseIs
      <4> QED
        BY <4>1, UppercaseIs
    <3> QED
      BY <2>1, <3>1 DEF ChannelOf
  <2>2. CASE f[5] # <<>>
    <3>1. f[5][1] \in Characters
      BY <1>2, <2>2
    <3> QED
      BY <2>2, <3>1 DEF ChannelOf
  <2> QED
    BY <2>1, <2>2
<1> QED
  BY <1>8, <1>9

(* parse() returns one of its errors, or a sentence and a channel, of       *)
(* whatever text it is given.                                               *)
Outcome(r) ==
  \/ r.kind = "error" /\ r.code \in ParseErrors
  \/ r.kind = "sentence" /\ r.sentence \in Sentence /\ r.channel \in Characters

LEMMA ParseOutcome ==
  ASSUME NEW raw \in Seq(Characters)
  PROVE  Outcome(parse(raw))
<1> DEFINE s == Stripped(raw)
           f == split_fields(Body(s))
<1>1. parse(raw) = IF FrameError(raw, s) # "Ok" THEN Failure(FrameError(raw, s))
                   ELSE IF FieldError(f) # "Ok" THEN Failure(FieldError(f))
                   ELSE Parsed(SentenceOf(f), ChannelOf(f))
  BY DEF parse
<1>2. s \in Seq(Characters)
  BY FrameOfText
<1>3. Body(s) \in Seq(Characters)
  BY <1>2, FrameOfText
<1>4. f \in Seq(Seq(Characters)) /\ Len(f) >= 1
  BY <1>3, FieldsOfText
<1>5. /\ FrameError(raw, s) \in ParseErrors \cup {"Ok"}
      /\ FrameError(raw, s) = "Ok" => ~(Len(f) < 7)
  BY FrameErrors
<1>6. FieldError(f) \in ParseErrors \cup {"Ok"}
  BY FieldErrors
<1> HIDE DEF s, f
<1>7. CASE FrameError(raw, s) # "Ok"
  BY <1>1, <1>5, <1>7 DEF Outcome, Failure
<1>8. CASE FrameError(raw, s) = "Ok" /\ FieldError(f) # "Ok"
  BY <1>1, <1>6, <1>8 DEF Outcome, Failure
<1>9. CASE FrameError(raw, s) = "Ok" /\ FieldError(f) = "Ok"
  <2>1. Len(f) >= 7
    BY <1>4, <1>5, <1>9
  <2>2. SentenceOf(f) \in Sentence /\ ChannelOf(f) \in Characters
    BY <1>4, <1>9, <2>1, FieldsGiveSentence
  <2> QED
    BY <1>1, <1>9, <2>2 DEF Outcome, Parsed
<1> QED
  BY <1>7, <1>8, <1>9

-----------------------------------------------------------------------------
(* Fields that are read are kept, and the last of them grows.               *)
Grown(fs, gs) ==
  /\ Len(fs) <= Len(gs)
  /\ \A m \in 1 .. Len(fs) - 1 : gs[m] = fs[m]
  /\ Len(fs[Len(fs)]) <= Len(gs[Len(fs)])
  /\ \A j \in 1 .. Len(fs[Len(fs)]) : gs[Len(fs)][j] = fs[Len(fs)][j]

LEMMA GrownStep ==
  ASSUME NEW fs \in Seq(Seq(Characters)), Len(fs) >= 1,
         NEW gs \in Seq(Seq(Characters)), Grown(fs, gs), NEW c \in Characters
  PROVE  Grown(fs, Extended(gs, c))
<1>1. PICK n \in Nat, l \in Nat : n = Len(fs) /\ l = Len(gs)
  OBVIOUS
<1>2. 1 <= n /\ n <= l
  BY <1>1 DEF Grown
<1>3. PICK hs : hs = Extended(gs, c)
  OBVIOUS
<1>4. PICK x, y : x = fs[n] /\ y = gs[n]
  OBVIOUS
<1>5. x \in Seq(Characters) /\ y \in Seq(Characters) /\ Len(x) \in Nat /\ Len(y) \in Nat
  <2>1. n \in 1 .. Len(fs) /\ n \in 1 .. Len(gs)
    BY <1>1, <1>2
  <2> QED
    BY <1>4, <2>1
<1>6. \A m \in 1 .. n - 1 : gs[m] = fs[m]
  BY <1>1 DEF Grown
<1>7. Len(x) <= Len(y) /\ \A j \in 1 .. Len(x) : y[j] = x[j]
  BY <1>1, <1>4 DEF Grown
<1>8. /\ c = Comma => /\ Len(hs) = l + 1
                      /\ \A m \in 1 .. l : hs[m] = gs[m]
      /\ c # Comma => /\ Len(hs) = l
                      /\ \A m \in 1 .. l - 1 : hs[m] = gs[m]
                      /\ hs[l] = Append(gs[l], c)
  <2>1. Len(gs) >= 1
    BY <1>1, <1>2
  <2>2. ReadNext(gs, c, hs)
    BY <1>3, <2>1, ExtendedIs
  <2>3. ASSUME c = Comma
        PROVE  Len(hs) = l + 1 /\ \A m \in 1 .. l : hs[m] = gs[m]
    BY <1>1, <2>2, <2>3 DEF ReadNext
  <2>4. ASSUME c # Comma
        PROVE  Len(hs) = l /\ \A m \in 1 .. l - 1 : hs[m] = gs[m]
    BY <1>1, <2>2, <2>4 DEF ReadNext
  <2>5. ASSUME c # Comma
        PROVE  hs[l] = Append(gs[l], c)
    <3>1. hs[Len(gs)] = Append(gs[Len(gs)], c)
      BY <2>2, <2>5, Zenon DEF ReadNext
    <3> QED
      BY <1>1, <3>1, Zenon
  <2> QED
    BY <2>3, <2>4, <2>5
<1>9. n <= Len(hs)
  BY <1>2, <1>8
<1>10. \A m \in 1 .. n - 1 : hs[m] = fs[m]
  BY <1>2, <1>6, <1>8
<1>11. Len(x) <= Len(hs[n]) /\ \A j \in 1 .. Len(x) : hs[n][j] = x[j]
  <2>1. CASE c = Comma \/ n < l
    <3>1. hs[n] = y
      BY <1>2, <1>4, <1>8, <2>1
    <3> QED
      BY <1>7, <3>1
  <2>2. CASE c # Comma /\ n = l
    <3>1. hs[n] = Append(y, c)
      BY <1>4, <1>8, <2>2
    <3>2. PICK z : z = Append(y, c)
      OBVIOUS
    <3>3. Len(z) = Len(y) + 1 /\ \A j \in 1 .. Len(y) : z[j] = y[j]
      BY <1>5, <3>2, AppendProperties
    <3>4. Len(x) <= Len(z)
      BY <1>5, <1>7, <3>3
    <3>5. ASSUME NEW j \in 1 .. Len(x)
          PROVE  z[j] = x[j]
      <4>1. j \in 1 .. Len(y)
        BY <1>5, <1>7
      <4> QED
        BY <1>7, <3>3, <4>1
    <3> QED
      BY <3>1, <3>2, <3>4, <3>5
  <2> QED
    BY <1>2, <2>1, <2>2
<1> QED
  BY <1>1, <1>3, <1>4, <1>9, <1>10, <1>11 DEF Grown

LEMMA SplitGrows ==
  ASSUME NEW str \in Seq(Characters), NEW split, Splits(str, split),
         NEW a \in 0 .. Len(str)
  PROVE  \A b \in a .. Len(str) : Grown(split[a], split[b])
<1>1. PICK l \in Nat : l = Len(str)
  OBVIOUS
<1> DEFINE T == {k \in 0 .. l - a : Grown(split[a], split[a + k])}
<1>2. split[a] \in Seq(Seq(Characters)) /\ Len(split[a]) >= 1
  BY DEF Splits
<1>3. 0 \in T
  <2>1. PICK fs \in Seq(Seq(Characters)) : fs = split[a] /\ Len(fs) >= 1
    BY <1>2
  <2>2. PICK n \in Nat : n = Len(fs) /\ n >= 1
    BY <2>1
  <2>3. n \in 1 .. Len(fs)
    BY <2>2
  <2>4. fs[n] \in Seq(Characters)
    BY <2>3
  <2>5. Len(fs[n]) \in Nat
    BY <2>4
  <2>6. Grown(fs, fs)
    BY <2>2, <2>5 DEF Grown
  <2>7. a + 0 = a /\ 0 \in 0 .. l - a
    BY <1>1
  <2> QED
    BY <2>1, <2>6, <2>7
<1>4. ASSUME NEW k \in 1 .. l - a, k - 1 \in T
      PROVE  k \in T
  <2>1. a + k \in 1 .. Len(str) /\ a + k - 1 = a + (k - 1) /\ a + (k - 1) \in 0 .. Len(str)
    BY <1>1
  <2>2. split[a + k] = Extended(split[a + (k - 1)], str[a + k])
    BY <2>1 DEF Splits
  <2>3. str[a + k] \in Characters
    BY <2>1
  <2>4. split[a + (k - 1)] \in Seq(Seq(Characters))
    BY <2>1 DEF Splits
  <2>5. Grown(split[a], split[a + (k - 1)])
    BY <1>4
  <2>6. Grown(split[a], split[a + k])
    BY <1>2, <2>2, <2>3, <2>4, <2>5, GrownStep
  <2>7. k \in 0 .. l - a
    OBVIOUS
  <2> QED
    BY <2>6, <2>7
<1>5. l - a \in Nat
  BY <1>1
<1> HIDE DEF T
<1>6. 0 .. l - a \subseteq T
  BY <1>3, <1>4, <1>5, AllPlaces
<1> SUFFICES ASSUME NEW b \in a .. Len(str) PROVE Grown(split[a], split[b])
  OBVIOUS
<1>7. b - a \in 0 .. l - a /\ a + (b - a) = b
  BY <1>1
<1> QED
  BY <1>6, <1>7 DEF T

(* A piece of the text without commas is read into one field, the n-th.     *)
Reads(fs, n, q, gs) ==
  Len(gs) = n /\ gs[n] = q /\ \A m \in 1 .. n - 1 : gs[m] = fs[m]

LEMMA FieldRead ==
  ASSUME NEW str \in Seq(Characters), NEW split, Splits(str, split),
         NEW a \in 0 .. Len(str), NEW n \in Nat, n = Len(split[a]), split[a][n] = <<>>,
         NEW q \in Seq(Characters), a + Len(q) <= Len(str),
         \A j \in 1 .. Len(q) : str[a + j] = q[j] /\ q[j] # Comma
  PROVE  Reads(split[a], n, q, split[a + Len(q)])
<1>1. PICK l \in Nat, e \in Nat : l = Len(str) /\ e = Len(q)
  OBVIOUS
<1> DEFINE Upto(k) == /\ Len(split[a + k]) = n
                      /\ \A m \in 1 .. n - 1 : split[a + k][m] = split[a][m]
                      /\ Len(split[a + k][n]) = k
                      /\ \A j \in 1 .. k : split[a + k][n][j] = q[j]
           T == {k \in 0 .. e : Upto(k)}
<1>2. /\ \A k \in 0 .. l : split[k] \in Seq(Seq(Characters)) /\ Len(split[k]) >= 1
      /\ \A k \in 1 .. l : split[k] = Extended(split[k - 1], str[k])
  BY <1>1 DEF Splits
<1>3. 0 \in T
  <2>1. a + 0 = a /\ 0 \in 0 .. e /\ Len(<<>>) = 0
    OBVIOUS
  <2>2. Upto(0)
    BY <2>1
  <2> QED
    BY <2>1, <2>2
<1>4. ASSUME NEW k \in 1 .. e, k - 1 \in T
      PROVE  k \in T
  <2>1. a + k \in 1 .. l /\ a + k - 1 \in 0 .. l /\ a + (k - 1) = a + k - 1
    BY <1>1
  <2>2. PICK g, h : g = split[a + k - 1] /\ h = split[a + k]
    OBVIOUS
  <2>3. PICK c : c = str[a + k]
    OBVIOUS
  <2>4. c \in Characters /\ c = q[k] /\ c # Comma
    <3>1. k \in 1 .. Len(q)
      BY <1>1
    <3>2. q[k] \in Characters
      BY <3>1
    <3> QED
      BY <2>3, <3>1, <3>2
  <2>5. h = Extended(g, c)
    BY <1>2, <2>1, <2>2, <2>3
  <2>6. g \in Seq(Seq(Characters)) /\ Len(g) >= 1
    BY <1>2, <2>1, <2>2
  <2>7. Upto(k - 1)
    BY <1>4
  <2>8. Len(g) = n /\ (\A m \in 1 .. n - 1 : g[m] = split[a][m])
    BY <2>1, <2>2, <2>7
  <2>9. Len(g[n]) = k - 1 /\ \A j \in 1 .. k - 1 : g[n][j] = q[j]
    BY <2>1, <2>2, <2>7
  <2> HIDE DEF Upto
  <2>10. /\ Len(h) = n
         /\ \A m \in 1 .. n - 1 : h[m] = g[m]
         /\ h[n] = Append(g[n], c)
    <3>1. ReadNext(g, c, h)
      BY <2>4, <2>5, <2>6, ExtendedIs
    <3> QED
      <4>1. Len(g) = n
        BY <2>8
      <4>2. Len(h) = n /\ \A m \in 1 .. n - 1 : h[m] = g[m]
        BY <2>4, <3>1, <4>1 DEF ReadNext
      <4>3. h[Len(g)] = Append(g[Len(g)], c)
        BY <2>4, <3>1, Zenon DEF ReadNext
      <4>4. h[n] = Append(g[n], c)
        BY <4>1, <4>3, Zenon
      <4> QED
        BY <4>2, <4>4
  <2>11. g[n] \in Seq(Characters)
    <3>1. n \in 1 .. Len(g)
      BY <2>6, <2>8
    <3> QED
      BY <2>6, <3>1
  <2>12. PICK y : y = g[n]
    OBVIOUS
  <2>13. PICK x : x = Append(y, c)
    OBVIOUS
  <2>14. /\ Len(x) = Len(y) + 1 /\ x[Len(y) + 1] = c
         /\ \A j \in 1 .. Len(y) : x[j] = y[j]
    BY <2>4, <2>11, <2>12, <2>13, AppendProperties
  <2>15. Len(y) = k - 1 /\ \A j \in 1 .. k - 1 : y[j] = q[j]
    BY <2>9, <2>12
  <2>16. Len(x) = k
    BY <2>14, <2>15
  <2>17. ASSUME NEW j \in 1 .. k
         PROVE  x[j] = q[j]
    <3>1. CASE j = k
      <4>1. Len(y) + 1 = k
        BY <2>15
      <4> QED
        BY <2>4, <2>14, <3>1, <4>1
    <3>2. CASE j # k
      <4>1. j \in 1 .. k - 1
        BY <3>2
      <4> QED
        BY <2>14, <2>15, <4>1
    <3> QED
      BY <3>1, <3>2
  <2>18. h[n] = x
    BY <2>10, <2>12, <2>13
  <2>19. Upto(k)
    BY <2>2, <2>8, <2>10, <2>16, <2>17, <2>18 DEF Upto
  <2>20. k \in 0 .. e
    OBVIOUS
  <2> QED
    BY <2>19, <2>20
<1> HIDE DEF T
<1>5. 0 .. e \subseteq T
  BY <1>1, <1>3, <1>4, AllPlaces
<1>6. Upto(e)
  <2>1. e \in T
    BY <1>5
  <2> QED
    BY <2>1 DEF T
<1>7. PICK h : h = split[a + e]
  OBVIOUS
<1>8. Len(h) = n /\ \A m \in 1 .. n - 1 : h[m] = split[a][m]
  BY <1>6, <1>7
<1>9. Len(h[n]) = e /\ \A j \in 1 .. e : h[n][j] = q[j]
  BY <1>6, <1>7
<1>10. h[n] \in Seq(Characters)
  <2>1. a + e \in 0 .. l
    BY <1>1
  <2>2. h \in Seq(Seq(Characters)) /\ Len(h) >= 1
    BY <1>2, <1>7, <2>1
  <2>3. n \in 1 .. Len(h)
    BY <1>8, <2>2
  <2> QED
    BY <2>2, <2>3
<1>11. h[n] = q
  BY <1>1, <1>9, <1>10, SeqEqual
<1> QED
  BY <1>1, <1>7, <1>8, <1>11 DEF Reads

(* Where a text begins with joined fields, these are the fields that are    *)
(* read from there.                                                         *)
LEMMA SplitOfJoined ==
  ASSUME NEW f, IsText(f), NEW joined, Joins(f, joined),
         NEW str \in Seq(Characters), NEW split, Splits(str, split),
         Len(joined[Len(f)]) <= Len(str),
         \A i \in 1 .. Len(joined[Len(f)]) : str[i] = joined[Len(f)][i]
  PROVE  split[Len(joined[Len(f)])] = f
<1>1. PICK N \in Nat, l \in Nat : N = Len(f) /\ N >= 1 /\ l = Len(str)
  BY DEF IsText
<1>2. ASSUME NEW n \in 1 .. N
      PROVE  /\ joined[n] \in Seq(Characters) /\ f[n] \in Seq(Characters)
             /\ Len(joined[n]) \in Nat /\ Len(f[n]) \in Nat
  <2>1. joined[n] \in Seq(Characters)
    BY <1>1 DEF Joins
  <2>2. f[n] \in Seq(Characters)
    BY <1>1 DEF IsText
  <2> QED
    BY <2>1, <2>2
<1>3. ASSUME NEW n \in 1 .. N, NEW j \in 1 .. Len(f[n])
      PROVE  f[n][j] # Comma
  <2>1. n \in DOMAIN f /\ j \in DOMAIN f[n]
    BY <1>1, <1>2 DEF IsText
  <2>2. f[n][j] \notin Separators
    BY <2>1 DEF IsText
  <2> QED
    BY <2>2, Marks
<1>4. ASSUME NEW n \in 1 .. N
      PROVE  Len(joined[n]) <= l /\ \A i \in 1 .. Len(joined[n]) : str[i] = joined[n][i]
  <2>1. /\ Len(joined[n]) <= Len(joined[N])
        /\ \A i \in 1 .. Len(joined[n]) : joined[N][i] = joined[n][i]
    <3>1. N \in 1 .. Len(f) /\ n \in 1 .. N
      BY <1>1
    <3> QED
      BY <3>1, JoinedPrefix
  <2>2. PICK a \in Nat, b \in Nat : a = Len(joined[n]) /\ b = Len(joined[N])
    <3>1. N \in 1 .. N
      BY <1>1
    <3> QED
      BY <1>2, <3>1
  <2>3. a <= b /\ b <= l
    BY <1>1, <2>1, <2>2
  <2>4. ASSUME NEW i \in 1 .. a
        PROVE  str[i] = joined[n][i]
    <3>1. i \in 1 .. b
      BY <2>3
    <3>2. str[i] = joined[N][i]
      BY <1>1, <2>2, <3>1
    <3>3. joined[N][i] = joined[n][i]
      BY <2>1, <2>2
    <3> QED
      BY <3>2, <3>3
  <2> QED
    BY <2>2, <2>3, <2>4
<1> DEFINE Upto(n) == /\ Len(split[Len(joined[n])]) = n
                      /\ \A m \in 1 .. n : split[Len(joined[n])][m] = f[m]
           T == {n \in 0 .. N : n > 0 => Upto(n)}
<1>5. 0 \in T
  BY <1>1
<1>6. ASSUME NEW n \in 1 .. N, n - 1 \in T
      PROVE  n \in T
  <2>1. PICK q : q = f[n]
    OBVIOUS
  <2>2. q \in Seq(Characters) /\ Len(q) \in Nat
    BY <1>2, <2>1
  <2>3. \A j \in 1 .. Len(q) : q[j] # Comma
    BY <1>3, <2>1
  <2>4. PICK e \in Nat : e = Len(joined[n])
    BY <1>2
  <2>5. e <= l /\ \A i \in 1 .. e : str[i] = joined[n][i]
    BY <1>4, <2>4
  <2>6. \E a \in 0 .. l :
          /\ Len(split[a]) = n /\ split[a][n] = <<>>
          /\ \A m \in 1 .. n - 1 : split[a][m] = f[m]
          /\ a + Len(q) = e
          /\ \A j \in 1 .. Len(q) : str[a + j] = q[j]
    <3>1. CASE n = 1
      <4>1. joined[1] = q
        BY <2>1, <3>1 DEF Joins
      <4>2. split[0] = <<<<>>>>
        BY DEF Splits
      <4>3. Len(split[0]) = 1 /\ split[0][1] = <<>>
        BY <4>2
      <4>4. \A j \in 1 .. Len(q) : 0 + j = j
        BY <2>2
      <4>5. \A j \in 1 .. Len(q) : str[0 + j] = q[j]
        BY <2>4, <2>5, <3>1, <4>1, <4>4
      <4>6. 0 \in 0 .. l /\ 0 + Len(q) = e
        BY <1>1, <2>2, <2>4, <3>1, <4>1
      <4>7. \A m \in 1 .. 0 : split[0][m] = f[m]
        OBVIOUS
      <4> QED
        BY <3>1, <4>3, <4>5, <4>6, <4>7
    <3>2. CASE n # 1
      <4>1. n - 1 \in 1 .. N /\ n \in 2 .. Len(f) /\ n - 1 > 0
        BY <1>1, <3>2
      <4>2. PICK p, r : p = joined[n - 1] /\ r = joined[n]
        OBVIOUS
      <4>3. Follows(p, q, r)
        BY <2>1, <4>1, <4>2, JoinedStep
      <4>4. PICK a \in Nat, b \in Nat : a = Len(p) /\ b = Len(q)
        BY <4>3 DEF Follows
      <4>5. e = a + 1 + b
        BY <2>4, <4>2, <4>3, <4>4 DEF Follows
      <4>6. r[a + 1] = Comma
        BY <4>3, <4>4 DEF Follows
      <4>7. \A j \in 1 .. b : r[a + 1 + j] = q[j]
        BY <4>3, <4>4 DEF Follows
      <4>8. \A i \in 1 .. e : str[i] = r[i]
        BY <2>5, <4>2
      <4>9. Upto(n - 1)
        BY <1>6, <4>1
      <4>10. PICK g, h : g = split[a] /\ h = split[a + 1]
        OBVIOUS
      <4>11. Len(g) = n - 1 /\ \A m \in 1 .. n - 1 : g[m] = f[m]
        BY <4>2, <4>4, <4>9, <4>10
      <4>12. a \in 0 .. l /\ a + 1 \in 1 .. l /\ a + 1 \in 1 .. e /\ a + 1 - 1 = a
             /\ a + 1 \in 0 .. l
        BY <2>5, <4>5
      <4>13. str[a + 1] = Comma
        BY <4>6, <4>8, <4>12
      <4>14. h = Extended(g, Comma)
        BY <1>1, <4>10, <4>12, <4>13 DEF Splits
      <4>15. g \in Seq(Seq(Characters)) /\ Len(g) >= 1
        BY <1>1, <4>10, <4>12 DEF Splits
      <4>16. ReadNext(g, Comma, h)
        BY <4>14, <4>15, ExtendedIs, Marks
      <4>17. /\ Len(h) = n - 1 + 1
             /\ \A m \in 1 .. n - 1 : h[m] = g[m]
             /\ h[n - 1 + 1] = <<>>
        BY <4>11, <4>16 DEF ReadNext
      <4>18. n - 1 + 1 = n
        OBVIOUS
      <4>19. Len(h) = n /\ h[n] = <<>> /\ \A m \in 1 .. n - 1 : h[m] = f[m]
        BY <4>11, <4>17, <4>18
      <4>20. ASSUME NEW j \in 1 .. b
             PROVE  str[a + 1 + j] = q[j]
        <5>1. a + 1 + j \in 1 .. e
          BY <4>5
        <5> QED
          BY <4>7, <4>8, <5>1
      <4>21. a + 1 + Len(q) = e
        BY <4>4, <4>5
      <4> QED
        BY <4>4, <4>10, <4>12, <4>19, <4>20, <4>21
    <3> QED
      BY <3>1, <3>2
  <2>7. PICK a \in 0 .. l :
          /\ Len(split[a]) = n /\ split[a][n] = <<>>
          /\ \A m \in 1 .. n - 1 : split[a][m] = f[m]
          /\ a + Len(q) = e
          /\ \A j \in 1 .. Len(q) : str[a + j] = q[j]
    BY <2>6
  <2>8. /\ a \in 0 .. Len(str) /\ n \in Nat /\ a + Len(q) <= Len(str)
        /\ \A j \in 1 .. Len(q) : str[a + j] = q[j] /\ q[j] # Comma
    BY <1>1, <2>3, <2>5, <2>7
  <2>9. Reads(split[a], n, q, split[a + Len(q)])
    BY <2>2, <2>7, <2>8, FieldRead
  <2>10. PICK h : h = split[e]
    OBVIOUS
  <2>11. Len(h) = n /\ h[n] = q /\ \A m \in 1 .. n - 1 : h[m] = f[m]
    BY <2>7, <2>9, <2>10 DEF Reads
  <2>12. ASSUME NEW m \in 1 .. n
         PROVE  h[m] = f[m]
    <3>1. m = n \/ m \in 1 .. n - 1
      OBVIOUS
    <3> QED
      BY <2>1, <2>11, <3>1
  <2>13. Upto(n)
    BY <2>4, <2>10, <2>11, <2>12
  <2> QED
    BY <2>13
<1> HIDE DEF T
<1>7. 0 .. N \subseteq T
  BY <1>1, <1>5, <1>6, AllPlaces
<1>8. Upto(N)
  <2>1. N \in T /\ N > 0
    BY <1>1, <1>7
  <2> QED
    BY <2>1 DEF T
<1>9. PICK h : h = split[Len(joined[Len(f)])]
  OBVIOUS
<1>10. Len(h) = N /\ \A m \in 1 .. N : h[m] = f[m]
  BY <1>1, <1>8, <1>9
<1>11. h \in Seq(Seq(Characters))
  <2>1. N \in 1 .. N
    BY <1>1
  <2>2. PICK e \in Nat : e = Len(joined[N])
    BY <1>2, <2>1
  <2>3. e \in 0 .. Len(str)
    BY <1>1, <2>2
  <2> QED
    BY <1>1, <1>9, <2>2, <2>3 DEF Splits
<1>12. f \in Seq(Seq(Characters))
  BY DEF IsText
<1>13. h = f
  BY <1>1, <1>10, <1>11, <1>12, SeqEqual
<1> QED
  BY <1>9, <1>13

(* Fields that are joined and split are the same fields.                    *)
LEMMA SplitJoined ==
  ASSUME NEW f, IsText(f)
  PROVE  Joined(f) \in Seq(Characters) /\ split_fields(Joined(f)) = f
<1>1. PICK joined : Joins(f, joined) /\ Joined(f) = joined[Len(f)]
  BY JoinedFunction
<1>2. Len(f) \in 1 .. Len(f)
  BY DEF IsText
<1>3. Joined(f) \in Seq(Characters)
  BY <1>1, <1>2 DEF Joins
<1>4. PICK split : /\ Splits(Joined(f), split)
                   /\ split_fields(Joined(f)) = split[Len(Joined(f))]
  BY <1>3, SplitFunction
<1>5. /\ Len(joined[Len(f)]) <= Len(Joined(f))
      /\ \A i \in 1 .. Len(joined[Len(f)]) : Joined(f)[i] = joined[Len(f)][i]
  BY <1>1, <1>3
<1>6. split[Len(joined[Len(f)])] = f
  BY <1>1, <1>3, <1>4, <1>5, SplitOfJoined
<1> QED
  BY <1>1, <1>3, <1>4, <1>6

-----------------------------------------------------------------------------
(* Another character in one place changes the checksum.                     *)
LEMMA ChecksumGarbled ==
  ASSUME NEW d \in Seq(Characters), NEW e \in Seq(Characters), Len(d) = Len(e),
         NEW i \in DOMAIN d, d[i] # e[i], \A j \in DOMAIN d \ {i} : d[j] = e[j]
  PROVE  Checksum(d) # Checksum(e)
<1> SUFFICES ASSUME Checksum(d) = Checksum(e) PROVE FALSE
  OBVIOUS
<1>1. DOMAIN d = DOMAIN e /\ d[i] \in Characters /\ e[i] \in Characters
  OBVIOUS
<1>2. PICK w \in Weights : HasBit(d[i], w) # HasBit(e[i], w)
  BY <1>1, BitsTell
<1>3. Parity(d, w) = Parity(e, w)
  BY SameChecksum
<1> DEFINE S == Having(d, w)
           T == Having(e, w)
<1>4. S \cup {i} = T \cup {i}
  BY <1>1 DEF Having
<1>5. ~((i \in S) <=> (i \in T))
  <2>1. (i \in S) <=> HasBit(d[i], w)
    BY DEF Having
  <2>2. (i \in T) <=> HasBit(e[i], w)
    BY <1>1 DEF Having
  <2>3. HasBit(d[i], w) \in BOOLEAN /\ HasBit(e[i], w) \in BOOLEAN
    BY DEF HasBit
  <2>4. ~(HasBit(d[i], w) <=> HasBit(e[i], w))
    BY <1>2, <2>3
  <2> HIDE DEF S, T
  <2> QED
    BY <2>1, <2>2, <2>4
<1>6. /\ IsFiniteSet(S) /\ IsFiniteSet(T)
      /\ Parity(d, w) = Cardinality(S) % 2 /\ Parity(e, w) = Cardinality(T) % 2
  BY ParityIs
<1>7. PICK s \in Nat, t \in Nat : s = Cardinality(S) /\ t = Cardinality(T)
  BY ParityIs
<1> HIDE DEF S, T
<1>8. /\ Cardinality(S \cup {i}) = IF i \in S THEN Cardinality(S) ELSE Cardinality(S) + 1
      /\ Cardinality(T \cup {i}) = IF i \in T THEN Cardinality(T) ELSE Cardinality(T) + 1
  BY <1>6, FS_AddElement
<1>9. s = t + 1 \/ t = s + 1
  <2>1. (IF i \in S THEN s ELSE s + 1) = (IF i \in T THEN t ELSE t + 1)
    BY <1>4, <1>7, <1>8
  <2>2. CASE i \in S
    BY <1>5, <2>1, <2>2
  <2>3. CASE i \notin S
    BY <1>5, <2>1, <2>3
  <2> QED
    BY <2>2, <2>3
<1>10. s % 2 = t % 2
  BY <1>3, <1>6, <1>7
<1> QED
  BY <1>9, <1>10

(* The loss of a character changes the checksum, for no character has the   *)
(* code 0.                                                                  *)
LEMMA ChecksumDropped ==
  ASSUME NEW d \in Seq(Characters), NEW e \in Seq(Characters), Len(e) = Len(d) - 1,
         NEW i \in DOMAIN d,
         \A j \in 1 .. i - 1 : e[j] = d[j], \A j \in i .. Len(e) : e[j] = d[j + 1]
  PROVE  Checksum(d) # Checksum(e)
<1> SUFFICES ASSUME Checksum(d) = Checksum(e) PROVE FALSE
  OBVIOUS
<1>1. PICK n \in Nat : n = Len(d) /\ n - 1 = Len(e) /\ i \in 1 .. n
  OBVIOUS
<1>2. d[i] \in Characters
  OBVIOUS
<1>3. PICK w \in Weights : HasBit(d[i], w)
  BY <1>2, SomeBit
<1>4. Parity(d, w) = Parity(e, w)
  BY SameChecksum
<1> DEFINE S == Having(d, w)
           T == Having(e, w)
           h == [j \in S \ {i} |-> IF j < i THEN j ELSE j - 1]
<1>5. /\ IsFiniteSet(S) /\ IsFiniteSet(T)
      /\ Parity(d, w) = Cardinality(S) % 2 /\ Parity(e, w) = Cardinality(T) % 2
  BY ParityIs
<1>6. PICK s \in Nat, t \in Nat : s = Cardinality(S) /\ t = Cardinality(T)
  BY ParityIs
<1>7. S = {j \in 1 .. n : HasBit(d[j], w)} /\ T = {j \in 1 .. n - 1 : HasBit(e[j], w)}
  BY <1>1 DEF Having
<1>8. i \in S
  BY <1>1, <1>3, <1>7
<1>9. ASSUME NEW j \in S \ {i}
      PROVE  h[j] \in T
  <2>1. j \in 1 .. n /\ HasBit(d[j], w) /\ j # i
    BY <1>7
  <2>2. CASE j < i
    <3>1. j \in 1 .. i - 1 /\ j \in 1 .. n - 1 /\ h[j] = j
      BY <1>1, <2>1, <2>2
    <3>2. e[j] = d[j]
      BY <3>1
    <3> QED
      BY <1>7, <2>1, <3>1, <3>2
  <2>3. CASE j > i
    <3>1. j - 1 \in i .. Len(e) /\ j - 1 \in 1 .. n - 1 /\ j - 1 + 1 = j
      BY <1>1, <2>1, <2>3
    <3>2. e[j - 1] = d[j]
      BY <3>1
    <3>3. h[j] = j - 1
      BY <1>1, <2>1, <2>3
    <3> QED
      BY <1>7, <2>1, <3>1, <3>2, <3>3
  <2> QED
    BY <1>1, <2>1, <2>2, <2>3
<1>10. ASSUME NEW j \in S \ {i}, NEW k \in S \ {i}, h[j] = h[k]
       PROVE  j = k
  <2>1. j \in 1 .. n /\ k \in 1 .. n /\ j # i /\ k # i
    BY <1>7
  <2>2. (IF j < i THEN j ELSE j - 1) = (IF k < i THEN k ELSE k - 1)
    BY <1>10
  <2> QED
    BY <1>1, <2>1, <2>2
<1>11. ASSUME NEW k \in T
       PROVE  \E j \in S \ {i} : h[j] = k
  <2>1. k \in 1 .. n - 1 /\ HasBit(e[k], w)
    BY <1>7
  <2>2. CASE k < i
    <3>1. k \in 1 .. i - 1 /\ k \in 1 .. n
      BY <1>1, <2>1, <2>2
    <3>2. e[k] = d[k]
      BY <3>1
    <3>3. k \in S \ {i}
      BY <1>1, <1>7, <2>1, <2>2, <3>1, <3>2
    <3>4. h[k] = k
      BY <2>2, <3>3
    <3> QED
      BY <3>3, <3>4
  <2>3. CASE k >= i
    <3>1. k \in i .. Len(e) /\ k + 1 \in 1 .. n /\ k + 1 # i /\ ~(k + 1 < i)
          /\ k + 1 - 1 = k
      BY <1>1, <2>1, <2>3
    <3>2. e[k] = d[k + 1]
      BY <3>1
    <3>3. k + 1 \in S \ {i}
      BY <1>7, <2>1, <3>1, <3>2
    <3>4. h[k + 1] = k
      BY <3>1, <3>3
    <3> QED
      BY <3>3, <3>4
  <2> QED
    BY <1>1, <2>1, <2>2, <2>3
<1>12. h \in [S \ {i} -> T]
  <2>1. h = [j \in S \ {i} |-> h[j]]
    OBVIOUS
  <2> HIDE DEF h, S, T
  <2> QED
    BY <1>9, <2>1
<1> HIDE DEF h, S, T
<1>13. h \in Bijection(S \ {i}, T)
  <2>1. h \in Injection(S \ {i}, T)
    BY <1>10, <1>12 DEF Injection, IsInjective
  <2>2. h \in Surjection(S \ {i}, T)
    BY <1>11, <1>12 DEF Surjection
  <2> QED
    BY <2>1, <2>2 DEF Bijection
<1>14. ExistsBijection(S \ {i}, T)
  BY <1>13 DEF ExistsBijection
<1>15. IsFiniteSet(S \ {i}) /\ Cardinality(S \ {i}) = s - 1
  BY <1>5, <1>6, <1>8, FS_RemoveElement
<1>16. t = s - 1
  BY <1>6, <1>14, <1>15, FS_Bijection
<1>17. s % 2 = t % 2
  BY <1>4, <1>5, <1>6
<1> QED
  BY <1>16, <1>17

-----------------------------------------------------------------------------
(* The frame of a line: w holds the text d and what is written around it,   *)
(* and perhaps an end of line.                                              *)
Framed(w, d) ==
  /\ Len(w) >= Len(d) + 4
  /\ w[1] = "!"
  /\ \A i \in 1 .. Len(d) : w[i + 1] = d[i]
  /\ w[Len(d) + 2] = "*"
  /\ w[Len(d) + 3] = compute_checksum(d)[1]
  /\ w[Len(d) + 4] = compute_checksum(d)[2]
  /\ \A i \in Len(d) + 5 .. Len(w) : w[i] \in {"CR", "LF"}

Clean(d) == \A i \in 1 .. Len(d) : d[i] \notin {"*", "CR", "LF"}

LEMMA JoinedIsClean ==
  ASSUME NEW f, IsText(f)
  PROVE  Clean(Joined(f))
<1>1. PICK joined : Joins(f, joined) /\ Joined(f) = joined[Len(f)]
  BY JoinedFunction
<1>2. Len(f) \in 1 .. Len(f)
  BY DEF IsText
<1>3. \A i \in 1 .. Len(joined[Len(f)]) : joined[Len(f)][i] \notin {"*", "CR", "LF"}
  BY <1>1, <1>2, JoinedPrefix
<1> QED
  BY <1>1, <1>3 DEF Clean

LEMMA LineIsFramed ==
  ASSUME NEW f, IsText(f)
  PROVE  /\ Line(f) \in Seq(Characters)
         /\ Len(Line(f)) = Len(Joined(f)) + 4
         /\ Framed(Line(f), Joined(f))
<1>1. PICK d \in Seq(Characters), n \in Nat : d = Joined(f) /\ n = Len(d)
  BY SplitJoined
<1>2. PICK x \in Seq(Characters) : x = compute_checksum(d) /\ Len(x) = 2
  BY ChecksumIs
<1>3. /\ <<"!">> \in Seq(Characters) /\ Len(<<"!">>) = 1 /\ <<"!">>[1] = "!"
      /\ <<"*">> \in Seq(Characters) /\ Len(<<"*">>) = 1 /\ <<"*">>[1] = "*"
  BY Marks, Single
<1>4. PICK b, s : b = <<"!">> /\ s = <<"*">>
  OBVIOUS
<1>5. /\ b \in Seq(Characters) /\ Len(b) = 1 /\ b[1] = "!"
      /\ s \in Seq(Characters) /\ Len(s) = 1 /\ s[1] = "*"
  BY <1>3, <1>4
<1>6. Line(f) = ((b \o d) \o s) \o x
  BY <1>1, <1>2, <1>4 DEF Line
<1>7. PICK u : u = b \o d
  OBVIOUS
<1>8. u \in Seq(Characters) /\ Len(u) = n + 1 /\ u[1] = "!" /\ \A i \in 1 .. n : u[i + 1] = d[i]
  <2>1. /\ u \in Seq(Characters) /\ Len(u) = Len(b) + Len(d)
        /\ \A j \in 1 .. Len(b) : u[j] = b[j]
        /\ \A j \in 1 .. Len(d) : u[Len(b) + j] = d[j]
    <3>1. /\ b \o d \in Seq(Characters) /\ Len(b \o d) = Len(b) + Len(d)
          /\ \A j \in 1 .. Len(b) : (b \o d)[j] = b[j]
          /\ \A j \in 1 .. Len(d) : (b \o d)[Len(b) + j] = d[j]
      BY <1>5, Appended
    <3> QED
      BY <1>7, <3>1
  <2>2. Len(u) = n + 1
    BY <1>1, <1>5, <2>1
  <2>3. u[1] = "!"
    <3>1. 1 \in 1 .. Len(b)
      BY <1>5
    <3> QED
      BY <1>5, <2>1, <3>1
  <2>4. \A i \in 1 .. n : u[1 + i] = d[i]
    BY <1>1, <1>5, <2>1
  <2>5. \A i \in 1 .. n : 1 + i = i + 1
    OBVIOUS
  <2> QED
    BY <2>1, <2>2, <2>3, <2>4, <2>5
<1>9. PICK v : v = u \o s
  OBVIOUS
<1>10. /\ v \in Seq(Characters) /\ Len(v) = n + 2 /\ v[n + 2] = "*"
       /\ \A i \in 1 .. n + 1 : v[i] = u[i]
  <2>1. /\ v \in Seq(Characters) /\ Len(v) = Len(u) + Len(s)
        /\ \A j \in 1 .. Len(u) : v[j] = u[j]
        /\ \A j \in 1 .. Len(s) : v[Len(u) + j] = s[j]
    <3>1. /\ u \o s \in Seq(Characters) /\ Len(u \o s) = Len(u) + Len(s)
          /\ \A j \in 1 .. Len(u) : (u \o s)[j] = u[j]
          /\ \A j \in 1 .. Len(s) : (u \o s)[Len(u) + j] = s[j]
      BY <1>5, <1>8, Appended
    <3> QED
      BY <1>9, <3>1
  <2>2. Len(v) = n + 2
    BY <1>5, <1>8, <2>1
  <2>3. v[n + 2] = "*"
    <3>1. 1 \in 1 .. Len(s) /\ Len(u) + 1 = n + 2
      BY <1>5, <1>8
    <3>2. v[Len(u) + 1] = s[1]
      BY <2>1, <3>1
    <3> QED
      BY <1>5, <3>1, <3>2
  <2> QED
    BY <1>8, <2>1, <2>2, <2>3
<1>11. PICK w : w = v \o x
  OBVIOUS
<1>12. /\ w \in Seq(Characters) /\ Len(w) = n + 4
       /\ w[n + 3] = x[1] /\ w[n + 4] = x[2]
       /\ \A i \in 1 .. n + 2 : w[i] = v[i]
  <2>1. /\ w \in Seq(Characters) /\ Len(w) = Len(v) + Len(x)
        /\ \A j \in 1 .. Len(v) : w[j] = v[j]
        /\ \A j \in 1 .. Len(x) : w[Len(v) + j] = x[j]
    <3>1. /\ v \o x \in Seq(Characters) /\ Len(v \o x) = Len(v) + Len(x)
          /\ \A j \in 1 .. Len(v) : (v \o x)[j] = v[j]
          /\ \A j \in 1 .. Len(x) : (v \o x)[Len(v) + j] = x[j]
      BY <1>2, <1>10, Appended
    <3> QED
      BY <1>11, <3>1
  <2>2. Len(w) = n + 4
    BY <1>2, <1>10, <2>1
  <2>3. w[n + 3] = x[1] /\ w[n + 4] = x[2]
    <3>1. 1 \in 1 .. Len(x) /\ 2 \in 1 .. Len(x) /\ Len(v) + 1 = n + 3 /\ Len(v) + 2 = n + 4
      BY <1>2, <1>10
    <3>2. w[Len(v) + 1] = x[1] /\ w[Len(v) + 2] = x[2]
      BY <2>1, <3>1
    <3> QED
      BY <3>1, <3>2
  <2> QED
    BY <1>10, <2>1, <2>2, <2>3
<1>13. w[1] = "!" /\ w[n + 2] = "*"
  <2>1. 1 \in 1 .. n + 2 /\ 1 \in 1 .. n + 1 /\ n + 2 \in 1 .. n + 2
    OBVIOUS
  <2> QED
    BY <1>8, <1>10, <1>12, <2>1
<1>14. ASSUME NEW i \in 1 .. n
       PROVE  w[i + 1] = d[i]
  <2>1. i + 1 \in 1 .. n + 2 /\ i + 1 \in 1 .. n + 1
    OBVIOUS
  <2> QED
    BY <1>8, <1>10, <1>12, <2>1
<1>15. \A i \in n + 5 .. n + 4 : w[i] \in {"CR", "LF"}
  OBVIOUS
<1>16. Framed(w, d)
  BY <1>1, <1>2, <1>12, <1>13, <1>14, <1>15 DEF Framed
<1> QED
  BY <1>1, <1>6, <1>7, <1>9, <1>11, <1>12, <1>16

LEMMA EndIsFramed ==
  ASSUME NEW f, IsText(f), NEW end \in LineEnds
  PROVE  /\ Line(f) \o end \in Seq(Characters)
         /\ Framed(Line(f) \o end, Joined(f))
<1>1. PICK d \in Seq(Characters), n \in Nat : d = Joined(f) /\ n = Len(d)
  BY SplitJoined
<1>2. PICK v \in Seq(Characters) : v = Line(f) /\ Len(v) = n + 4 /\ Framed(v, d)
  BY <1>1, LineIsFramed
<1>3. end \in Seq(Characters) /\ \A i \in 1 .. Len(end) : end[i] \in {"CR", "LF"}
  <2>1. CASE end = <<>>
    BY <2>1
  <2>2. CASE end = <<"LF">>
    BY <2>2, Marks
  <2>3. CASE end = <<"CR", "LF">>
    BY <2>3, Marks
  <2> QED
    BY <2>1, <2>2, <2>3 DEF LineEnds
<1>4. PICK w : w = v \o end
  OBVIOUS
<1>5. PICK m \in Nat : m = Len(end)
  BY <1>3
<1>6. /\ w \in Seq(Characters) /\ Len(w) = n + 4 + m
      /\ \A j \in 1 .. n + 4 : w[j] = v[j]
      /\ \A j \in 1 .. m : w[n + 4 + j] = end[j]
  <2>1. /\ v \o end \in Seq(Characters) /\ Len(v \o end) = Len(v) + Len(end)
        /\ \A j \in 1 .. Len(v) : (v \o end)[j] = v[j]
        /\ \A j \in 1 .. Len(end) : (v \o end)[Len(v) + j] = end[j]
    BY <1>2, <1>3, Appended
  <2> QED
    BY <1>2, <1>4, <1>5, <2>1
<1>7. /\ v[1] = "!" /\ v[n + 2] = "*"
      /\ v[n + 3] = compute_checksum(d)[1] /\ v[n + 4] = compute_checksum(d)[2]
      /\ \A i \in 1 .. n : v[i + 1] = d[i]
  BY <1>1, <1>2 DEF Framed
<1>8. /\ w[1] = "!" /\ w[n + 2] = "*"
      /\ w[n + 3] = compute_checksum(d)[1] /\ w[n + 4] = compute_checksum(d)[2]
  <2>1. 1 \in 1 .. n + 4 /\ n + 2 \in 1 .. n + 4 /\ n + 3 \in 1 .. n + 4 /\ n + 4 \in 1 .. n + 4
    OBVIOUS
  <2> QED
    BY <1>6, <1>7, <2>1
<1>9. ASSUME NEW i \in 1 .. n
      PROVE  w[i + 1] = d[i]
  <2>1. i + 1 \in 1 .. n + 4
    OBVIOUS
  <2> QED
    BY <1>6, <1>7, <2>1
<1>10. ASSUME NEW i \in n + 5 .. n + 4 + m
       PROVE  w[i] \in {"CR", "LF"}
  <2>1. PICK j \in 1 .. m : i = n + 4 + j
    <3>1. i - n - 4 \in 1 .. m /\ i = n + 4 + (i - n - 4)
      OBVIOUS
    <3> QED
      BY <3>1
  <2>2. w[i] = end[j]
    BY <1>6, <2>1
  <2> QED
    BY <1>3, <1>5, <2>2
<1>11. Len(w) >= n + 4
  BY <1>6
<1>12. Framed(w, d)
  BY <1>1, <1>6, <1>8, <1>9, <1>10, <1>11 DEF Framed
<1> QED
  BY <1>1, <1>2, <1>4, <1>6, <1>12

(* What is stripped is the end of the line, and no more; what is found is   *)
(* the last star.                                                           *)
Strips(raw, s) ==
  /\ s \in Seq(Characters) /\ Len(s) <= Len(raw)
  /\ \A j \in 1 .. Len(s) : s[j] = raw[j]
  /\ Len(s) > 0 => raw[Len(s)] \notin {"CR", "LF"}
  /\ \A j \in Len(s) + 1 .. Len(raw) : raw[j] \in {"CR", "LF"}

LEMMA StrippedIs ==
  ASSUME NEW raw \in Seq(Characters)
  PROVE  Strips(raw, Stripped(raw))
<1> DEFINE Kept == {i \in DOMAIN raw : raw[i] \notin {"CR", "LF"}}
<1>1. PICK l \in Nat : l = Len(raw) /\ DOMAIN raw = 1 .. l
  OBVIOUS
<1>2. PICK k : k = Max({0} \cup Kept)
  OBVIOUS
<1>3. {0} \cup Kept \subseteq 0 .. l /\ {0} \cup Kept # {}
  BY <1>1
<1> HIDE DEF Kept
<1>4. k \in {0} \cup Kept /\ \A i \in {0} \cup Kept : k >= i
  BY <1>2, <1>3, LastPlace
<1>5. k \in 0 .. l
  BY <1>3, <1>4
<1>6. k > 0 => raw[k] \notin {"CR", "LF"}
  BY <1>4 DEF Kept
<1>7. ASSUME NEW j \in k + 1 .. l
      PROVE  raw[j] \in {"CR", "LF"}
  <2>1. j \notin Kept
    BY <1>4, <1>5
  <2>2. j \in DOMAIN raw
    BY <1>1, <1>5
  <2> QED
    BY <2>1, <2>2 DEF Kept
<1>8. Stripped(raw) = SubSeq(raw, 1, k)
  BY <1>2 DEF Stripped, Kept
<1>9. PICK s : s = SubSeq(raw, 1, k)
  OBVIOUS
<1>10. s \in Seq(Characters)
  BY <1>1, <1>5, <1>9, Pieces
<1>11. Len(s) = k /\ \A j \in 1 .. k : s[j] = raw[j]
  <2>1. \A j \in 1 .. k : raw[j] \in Characters
    BY <1>1, <1>5
  <2> QED
    BY <1>1, <1>5, <1>9, <2>1, SubSeqProperties
<1> QED
  BY <1>1, <1>5, <1>6, <1>7, <1>8, <1>9, <1>10, <1>11 DEF Strips

LEMMA StarIs ==
  ASSUME NEW s \in Seq(Characters)
  PROVE  /\ StarAt(s) \in 0 .. Len(s)
         /\ StarAt(s) # 0 => s[StarAt(s)] = "*"
         /\ \A j \in 1 .. Len(s) : s[j] = "*" => j <= StarAt(s)
<1> DEFINE Stars == {i \in DOMAIN s : s[i] = "*"}
<1>1. PICK l \in Nat : l = Len(s) /\ DOMAIN s = 1 .. l
  OBVIOUS
<1>2. PICK k : k = Max({0} \cup Stars)
  OBVIOUS
<1>3. {0} \cup Stars \subseteq 0 .. l /\ {0} \cup Stars # {}
  BY <1>1
<1>4. StarAt(s) = k
  BY <1>2 DEF StarAt
<1> HIDE DEF Stars
<1>5. k \in {0} \cup Stars /\ \A i \in {0} \cup Stars : k >= i
  BY <1>2, <1>3, LastPlace
<1>6. k \in 0 .. l
  BY <1>3, <1>5
<1>7. k # 0 => s[k] = "*"
  BY <1>5 DEF Stars
<1>8. ASSUME NEW j \in 1 .. l, s[j] = "*"
      PROVE  j <= k
  <2>1. j \in Stars
    BY <1>1, <1>8 DEF Stars
  <2> QED
    BY <1>5, <1>6, <2>1
<1> QED
  BY <1>1, <1>4, <1>6, <1>7, <1>8

LEMMA BodyIs ==
  ASSUME NEW s \in Seq(Characters), NEW p \in 2 .. Len(s), p = StarAt(s)
  PROVE  /\ Body(s) \in Seq(Characters) /\ Len(Body(s)) = p - 2
         /\ \A j \in 1 .. p - 2 : Body(s)[j] = s[j + 1]
<1>1. Body(s) = SubSeq(s, 2, p - 1)
  BY DEF Body
<1>2. PICK b : b = SubSeq(s, 2, p - 1)
  OBVIOUS
<1>3. p - 1 \in Int /\ p - 1 <= Len(s) /\ p \in Int /\ 2 \in Nat
  OBVIOUS
<1>4. b \in Seq(Characters)
  BY <1>2, <1>3, Pieces
<1>5. Len(b) = p - 2
  <2>1. \A i \in 2 .. p - 1 : s[i] \in Characters
    OBVIOUS
  <2>2. Len(b) = IF 2 <= p - 1 THEN (p - 1) - 2 + 1 ELSE 0
    BY <1>2, <1>3, <2>1, SubSeqProperties
  <2> QED
    BY <2>2
<1>6. ASSUME NEW j \in 1 .. p - 2
      PROVE  b[j] = s[j + 1]
  <2>1. \A i \in 2 .. p - 1 : s[i] \in Characters
    OBVIOUS
  <2>2. j \in 1 .. (p - 1) - 2 + 1 /\ 2 + j - 1 = j + 1
    OBVIOUS
  <2>3. b[j] = s[2 + j - 1]
    BY <1>2, <1>3, <2>1, <2>2, SubSeqProperties
  <2> QED
    BY <2>2, <2>3
<1> QED
  BY <1>1, <1>2, <1>4, <1>5, <1>6

(* The frame that parse() finds in a line: up to k, with its last star at p *)
(* and the text b in it.                                                    *)
FrameAt(raw, b, k, p) ==
  /\ k \in 0 .. Len(raw) /\ p \in 2 .. k - 2
  /\ raw[1] \in {"!", "$"}
  /\ raw[p] = "*"
  /\ \A j \in 1 .. k : raw[j] = "*" => j <= p
  /\ raw[k] \notin {"CR", "LF"}
  /\ \A j \in k + 1 .. Len(raw) : raw[j] \in {"CR", "LF"}
  /\ b \in Seq(Characters) /\ Len(b) = p - 2
  /\ \A j \in 1 .. p - 2 : b[j] = raw[j + 1]
  /\ parse_hex8(<<raw[p + 1], raw[p + 2]>>) = Checksum(b)

LEMMA FrameOk ==
  ASSUME NEW raw, NEW s, FrameError(raw, s) = "Ok"
  PROVE  /\ ~(Len(s) < 14) /\ s[1] \in {"!", "$"}
         /\ StarAt(s) # 0 /\ ~(StarAt(s) + 2 > Len(s))
         /\ parse_hex8(ChecksumField(s)) = Checksum(Body(s))
         /\ ~(Len(split_fields(Body(s))) < 7)
BY DEF FrameError

LEMMA ChecksumFieldIs ==
  ASSUME NEW s \in Seq(Characters), NEW p \in Nat, p = StarAt(s), p + 2 <= Len(s)
  PROVE  ChecksumField(s) = <<s[p + 1], s[p + 2]>>
<1>1. PICK c : c = SubSeq(s, p + 1, p + 2)
  OBVIOUS
<1>2. ChecksumField(s) = c
  BY <1>1 DEF ChecksumField
<1>3. \A i \in p + 1 .. p + 2 : s[i] \in Characters
  OBVIOUS
<1>4. p + 1 \in Nat /\ p + 2 \in Int /\ p + 1 >= 1 /\ p + 2 <= Len(s)
  OBVIOUS
<1>5. c \in Seq(Characters)
  BY <1>1, <1>4, Pieces
<1>6. Len(c) = 2
  <2>1. Len(c) = IF p + 1 <= p + 2 THEN (p + 2) - (p + 1) + 1 ELSE 0
    BY <1>1, <1>3, <1>4, SubSeqProperties
  <2> QED
    BY <2>1
<1>7. c[1] = s[p + 1] /\ c[2] = s[p + 2]
  <2>1. PICK m \in Int, n \in Int : m = p + 1 /\ n = p + 2
    BY <1>4
  <2>2. c = SubSeq(s, m, n) /\ \A i \in m .. n : s[i] \in Characters
    BY <1>1, <1>3, <2>1
  <2>3. \A i \in 1 .. n - m + 1 : c[i] = s[m + i - 1]
    BY <2>2, SubSeqProperties
  <2>4. 1 \in 1 .. n - m + 1 /\ 2 \in 1 .. n - m + 1 /\ m + 1 - 1 = p + 1 /\ m + 2 - 1 = p + 2
    BY <2>1
  <2> QED
    BY <2>3, <2>4
<1>8. s[p + 1] \in Characters /\ s[p + 2] \in Characters
  BY <1>3
<1>9. c = <<s[p + 1], s[p + 2]>>
  BY <1>5, <1>6, <1>7, <1>8
<1> QED
  BY <1>2, <1>9

LEMMA FrameFound ==
  ASSUME NEW raw \in Seq(Characters), FrameError(raw, Stripped(raw)) = "Ok"
  PROVE  \E k, p : FrameAt(raw, Body(Stripped(raw)), k, p)
<1>1. PICK s \in Seq(Characters) : s = Stripped(raw) /\ Strips(raw, s)
  BY StrippedIs DEF Strips
<1>2. /\ ~(Len(s) < 14) /\ s[1] \in {"!", "$"}
      /\ StarAt(s) # 0 /\ ~(StarAt(s) + 2 > Len(s))
      /\ parse_hex8(ChecksumField(s)) = Checksum(Body(s))
  BY <1>1, FrameOk
<1>3. PICK l \in Nat, k \in Nat : l = Len(raw) /\ k = Len(s)
  BY <1>1
<1>4. k <= l /\ k >= 14
  BY <1>1, <1>2, <1>3 DEF Strips
<1>5. \A j \in 1 .. k : s[j] = raw[j]
  BY <1>1, <1>3 DEF Strips
<1>6. raw[k] \notin {"CR", "LF"}
  BY <1>1, <1>3, <1>4 DEF Strips
<1>7. \A j \in k + 1 .. l : raw[j] \in {"CR", "LF"}
  BY <1>1, <1>3 DEF Strips
<1>8. PICK p \in 0 .. k : p = StarAt(s)
  BY <1>3, StarIs
<1>9. p # 0 /\ p + 2 <= k
  BY <1>2, <1>3, <1>8
<1>10. s[p] = "*"
  BY <1>8, <1>9, StarIs
<1>11. \A j \in 1 .. k : s[j] = "*" => j <= p
  BY <1>3, <1>8, StarIs
<1>12. p # 1
  <2>1. s[1] # "*"
    BY <1>2
  <2> QED
    BY <1>10, <2>1
<1>13. p \in 2 .. k - 2 /\ p \in 2 .. Len(s) /\ p \in Nat /\ p + 2 <= Len(s)
  BY <1>3, <1>9, <1>12
<1>14. /\ Body(s) \in Seq(Characters) /\ Len(Body(s)) = p - 2
       /\ \A j \in 1 .. p - 2 : Body(s)[j] = s[j + 1]
  BY <1>8, <1>13, BodyIs
<1>15. PICK b : b = Body(s)
  OBVIOUS
<1>16. ASSUME NEW j \in 1 .. p - 2
       PROVE  b[j] = raw[j + 1]
  <2>1. j + 1 \in 1 .. k
    BY <1>13
  <2> QED
    BY <1>5, <1>14, <1>15, <2>1
<1>17. parse_hex8(<<raw[p + 1], raw[p + 2]>>) = Checksum(b)
  <2>1. ChecksumField(s) = <<s[p + 1], s[p + 2]>>
    BY <1>8, <1>13, ChecksumFieldIs
  <2>2. p + 1 \in 1 .. k /\ p + 2 \in 1 .. k
    BY <1>13
  <2>3. s[p + 1] = raw[p + 1] /\ s[p + 2] = raw[p + 2]
    BY <1>5, <2>2
  <2> QED
    BY <1>2, <1>15, <2>1, <2>3
<1>18. raw[1] \in {"!", "$"}
  <2>1. 1 \in 1 .. k
    BY <1>4
  <2> QED
    BY <1>2, <1>5, <2>1
<1>19. raw[p] = "*"
  <2>1. p \in 1 .. k
    BY <1>13
  <2> QED
    BY <1>5, <1>10, <2>1
<1>20. \A j \in 1 .. k : raw[j] = "*" => j <= p
  BY <1>5, <1>11
<1>21. FrameAt(raw, b, k, p)
  <2>1. k \in 0 .. Len(raw) /\ b \in Seq(Characters) /\ Len(b) = p - 2
    BY <1>3, <1>4, <1>14, <1>15
  <2> QED
    BY <1>3, <1>6, <1>7, <1>13, <1>16, <1>17, <1>18, <1>19, <1>20, <2>1 DEF FrameAt
<1> QED
  BY <1>1, <1>15, <1>21

-----------------------------------------------------------------------------
(* What is where in a framed line: one star, the digits of the checksum, and*)
(* an end of line at the end only.                                          *)
FramedAt(w, d, n, l) ==
  /\ l >= n + 4 /\ w[1] = "!" /\ w[n + 2] = "*"
  /\ \A j \in 1 .. n : w[j + 1] = d[j]
  /\ \A j \in 1 .. l : w[j] = "*" => j = n + 2
  /\ \A j \in 1 .. l : w[j] \in {"CR", "LF"} <=> j >= n + 5
  /\ parse_hex8(<<w[n + 3], w[n + 4]>>) = Checksum(d)

LEMMA FramedIs ==
  ASSUME NEW w \in Seq(Characters), NEW d \in Seq(Characters), Framed(w, d), Clean(d),
         NEW n \in Nat, n = Len(d), NEW l \in Nat, l = Len(w)
  PROVE  FramedAt(w, d, n, l)
<1>1. PICK x \in Seq(Characters) : x = compute_checksum(d)
  BY ChecksumIs
<1>2. /\ Len(x) = 2 /\ parse_hex8(x) = Checksum(d)
      /\ \A i \in 1 .. 2 : x[i] \notin {"*", "CR", "LF"}
  BY <1>1, ChecksumIs
<1>3. PICK y \in Characters, z \in Characters : y = x[1] /\ z = x[2]
  <2>1. \A i \in 1 .. Len(x) : x[i] \in Characters
    OBVIOUS
  <2>2. 1 \in 1 .. Len(x) /\ 2 \in 1 .. Len(x)
    BY <1>2
  <2>3. x[1] \in Characters /\ x[2] \in Characters
    BY <2>1, <2>2
  <2> QED
    BY <2>3
<1>4. x = <<y, z>> /\ y \notin {"*", "CR", "LF"} /\ z \notin {"*", "CR", "LF"}
  BY <1>2, <1>3
<1>5. l >= n + 4 /\ w[1] = "!" /\ w[n + 2] = "*"
  BY DEF Framed
<1>6. \A j \in 1 .. n : w[j + 1] = d[j]
  BY DEF Framed
<1>7. w[n + 3] = y /\ w[n + 4] = z
  BY <1>1, <1>3 DEF Framed
<1>8. \A j \in n + 5 .. l : w[j] \in {"CR", "LF"}
  BY DEF Framed
<1>9. \A j \in 1 .. n : d[j] \notin {"*", "CR", "LF"}
  BY DEF Clean
<1>10. ASSUME NEW j \in 1 .. l
       PROVE  /\ w[j] = "*" => j = n + 2
              /\ w[j] \in {"CR", "LF"} <=> j >= n + 5
  <2>1. CASE j = 1
    BY <1>5, <2>1
  <2>2. CASE j \in 2 .. n + 1
    <3>1. PICK i \in 1 .. n : j = i + 1
      <4>1. j - 1 \in 1 .. n /\ j = j - 1 + 1
        BY <2>2
      <4> QED
        BY <4>1
    <3>2. w[j] = d[i]
      BY <1>6, <3>1
    <3>3. w[j] \notin {"*", "CR", "LF"}
      BY <1>9, <3>2
    <3> QED
      BY <2>2, <3>3
  <2>3. CASE j = n + 2
    <3>1. w[j] = "*" /\ ~(j >= n + 5)
      BY <1>5, <2>3
    <3> QED
      BY <2>3, <3>1
  <2>4. CASE j = n + 3 \/ j = n + 4
    <3>1. w[j] \notin {"*", "CR", "LF"} /\ ~(j >= n + 5)
      BY <1>4, <1>7, <2>4
    <3> QED
      BY <3>1
  <2>5. CASE j >= n + 5
    <3>1. w[j] \in {"CR", "LF"}
      BY <1>8, <2>5
    <3> QED
      BY <2>5, <3>1
  <2> QED
    BY <2>1, <2>2, <2>3, <2>4, <2>5
<1>11. parse_hex8(<<w[n + 3], w[n + 4]>>) = Checksum(d)
  BY <1>2, <1>4, <1>7
<1> QED
  BY <1>5, <1>6, <1>10, <1>11 DEF FramedAt

(* A line with another character in one place: if parse() finds a frame in  *)
(* it, the text in it is the one that was written.                          *)
LEMMA GarbleIsDetected ==
  ASSUME NEW w \in Seq(Characters), NEW d \in Seq(Characters), Framed(w, d), Clean(d),
         NEW v \in Seq(Characters), Len(v) = Len(w),
         NEW i \in 1 .. Len(w), v[i] # w[i], \A j \in 1 .. Len(w) : j # i => v[j] = w[j],
         NEW b, NEW k, NEW p, FrameAt(v, b, k, p)
  PROVE  b = d
<1>1. PICK n \in Nat, l \in Nat : n = Len(d) /\ l = Len(w)
  OBVIOUS
<1>at. FramedAt(w, d, n, l)
  BY <1>1, FramedIs
<1>2. l >= n + 4 /\ w[1] = "!" /\ w[n + 2] = "*"
  BY <1>at DEF FramedAt
<1>3. \A j \in 1 .. n : w[j + 1] = d[j]
  BY <1>at DEF FramedAt
<1>4. \A j \in 1 .. l : w[j] = "*" => j = n + 2
  BY <1>at DEF FramedAt
<1>5. \A j \in 1 .. l : w[j] \in {"CR", "LF"} <=> j >= n + 5
  BY <1>at DEF FramedAt
<1>6. parse_hex8(<<w[n + 3], w[n + 4]>>) = Checksum(d)
  BY <1>at DEF FramedAt
<1>7. k \in 0 .. l /\ p \in 2 .. k - 2
  BY <1>1 DEF FrameAt
<1>8. v[p] = "*" /\ v[k] \notin {"CR", "LF"} /\ \A j \in k + 1 .. l : v[j] \in {"CR", "LF"}
  BY <1>1 DEF FrameAt
<1>9. \A j \in 1 .. k : v[j] = "*" => j <= p
  BY DEF FrameAt
<1>10. b \in Seq(Characters) /\ Len(b) = p - 2 /\ \A j \in 1 .. p - 2 : b[j] = v[j + 1]
  BY DEF FrameAt
<1>11. parse_hex8(<<v[p + 1], v[p + 2]>>) = Checksum(b)
  BY DEF FrameAt
<1>12. \A j \in 1 .. l : j # i => v[j] = w[j]
  BY <1>1
<1>13. i \in 1 .. l /\ p \in 1 .. l /\ k \in 1 .. l
  BY <1>1, <1>7
<1>14. p = n + 2 /\ (i \in 2 .. n + 1 => v[n + 3] = w[n + 3] /\ v[n + 4] = w[n + 4])
  <2>1. CASE i <= n + 1
    <3>1. n + 2 \in 1 .. l /\ n + 3 \in 1 .. l /\ n + 4 \in 1 .. l
      BY <1>2
    <3>2. v[n + 2] = "*" /\ v[n + 3] = w[n + 3] /\ v[n + 4] = w[n + 4]
      BY <1>2, <1>12, <2>1, <3>1
    <3>3. v[n + 4] \notin {"CR", "LF"}
      BY <1>5, <3>1, <3>2
    <3>4. k >= n + 4
      <4>1. k < n + 4 => n + 4 \in k + 1 .. l
        BY <1>7, <3>1
      <4> QED
        BY <1>7, <1>8, <3>3, <4>1
    <3>5. n + 2 <= p
      <4>1. n + 2 \in 1 .. k
        BY <1>7, <3>4
      <4> QED
        BY <1>9, <3>2, <4>1
    <3>6. w[p] = "*"
      BY <1>8, <1>12, <1>13, <2>1, <3>5
    <3> QED
      BY <1>4, <1>13, <3>2, <3>6
  <2>2. CASE i = n + 2
    <3>1. p # i
      BY <1>2, <1>8, <2>2
    <3>2. w[p] = "*"
      BY <1>8, <1>12, <1>13, <3>1
    <3> QED
      BY <1>4, <1>13, <2>2, <3>1, <3>2
  <2>3. CASE i > n + 2
    <3>1. p # i
      <4> SUFFICES ASSUME p = i PROVE FALSE
        OBVIOUS
      <4>1. k # i /\ k >= n + 5
        BY <1>7, <2>3
      <4>2. v[k] = w[k]
        BY <1>12, <1>13, <4>1
      <4> QED
        BY <1>5, <1>8, <1>13, <4>1, <4>2
    <3>2. w[p] = "*"
      BY <1>8, <1>12, <1>13, <3>1
    <3>3. p = n + 2
      BY <1>4, <1>13, <3>2
    <3> QED
      BY <2>3, <3>3
  <2> QED
    BY <1>13, <2>1, <2>2, <2>3
<1>15. Len(b) = n /\ \A j \in 1 .. n : b[j] = v[j + 1]
  <2>1. p - 2 = n
    BY <1>14
  <2> QED
    BY <1>10, <2>1
<1>16. ASSUME NEW j \in 1 .. n, j + 1 # i
       PROVE  b[j] = d[j]
  <2>1. j + 1 \in 1 .. l
    BY <1>2
  <2>2. v[j + 1] = w[j + 1]
    BY <1>12, <1>16, <2>1
  <2> QED
    BY <1>3, <1>15, <2>2
<1>17. CASE i \in 2 .. n + 1
  <2>1. v[n + 3] = w[n + 3] /\ v[n + 4] = w[n + 4]
    BY <1>14, <1>17
  <2>2. p + 1 = n + 3 /\ p + 2 = n + 4
    BY <1>14
  <2>3. Checksum(d) = Checksum(b)
    BY <1>6, <1>11, <2>1, <2>2
  <2>4. PICK m \in 1 .. n : m + 1 = i
    <3>1. i - 1 \in 1 .. n /\ i - 1 + 1 = i
      BY <1>17
    <3> QED
      BY <3>1
  <2>5. \A j \in 1 .. n : j # m => j + 1 # i
    BY <2>4
  <2>6. \A j \in DOMAIN d \ {m} : d[j] = b[j]
    BY <1>1, <1>16, <2>5
  <2>7. m \in DOMAIN d /\ Len(d) = Len(b)
    BY <1>1, <1>15
  <2>8. d[m] # b[m]
    BY <1>3, <1>15, <2>4
  <2> QED
    BY <1>10, <2>3, <2>6, <2>7, <2>8, ChecksumGarbled
<1>18. CASE i \notin 2 .. n + 1
  <2>1. \A j \in 1 .. n : j + 1 # i
    BY <1>18
  <2>2. \A j \in 1 .. n : b[j] = d[j]
    BY <1>16, <2>1
  <2> QED
    BY <1>1, <1>10, <1>15, <2>2, SeqEqual
<1> QED
  BY <1>17, <1>18

(* The same for a line that lost a character ...                            *)
Lost(v, w, i) ==
  /\ i \in 1 .. Len(w) /\ Len(v) = Len(w) - 1
  /\ \A j \in 1 .. i - 1 : v[j] = w[j]
  /\ \A j \in i .. Len(v) : v[j] = w[j + 1]

LEMMA DropIsDetected ==
  ASSUME NEW w \in Seq(Characters), NEW d \in Seq(Characters), Framed(w, d), Clean(d),
         NEW v \in Seq(Characters), NEW i, Lost(v, w, i), NEW b, NEW k, NEW p, FrameAt(v, b, k, p)
  PROVE  b = d
<1>1. PICK n \in Nat, l \in Nat : n = Len(d) /\ l = Len(w)
  OBVIOUS
<1>at. FramedAt(w, d, n, l)
  BY <1>1, FramedIs
<1>2. l >= n + 4 /\ w[1] = "!" /\ w[n + 2] = "*"
  BY <1>at DEF FramedAt
<1>3. \A j \in 1 .. n : w[j + 1] = d[j]
  BY <1>at DEF FramedAt
<1>4. \A j \in 1 .. l : w[j] = "*" => j = n + 2
  BY <1>at DEF FramedAt
<1>5. parse_hex8(<<w[n + 3], w[n + 4]>>) = Checksum(d)
  BY <1>at DEF FramedAt
<1>6. k \in 0 .. l - 1 /\ p \in 2 .. k - 2 /\ i \in 1 .. l
  BY <1>1 DEF FrameAt, Lost
<1>7. v[p] = "*"
  BY DEF FrameAt
<1>8. b \in Seq(Characters) /\ Len(b) = p - 2 /\ \A j \in 1 .. p - 2 : b[j] = v[j + 1]
  BY DEF FrameAt
<1>9. parse_hex8(<<v[p + 1], v[p + 2]>>) = Checksum(b)
  BY DEF FrameAt
<1>10. (\A j \in 1 .. i - 1 : v[j] = w[j]) /\ \A j \in i .. l - 1 : v[j] = w[j + 1]
  BY <1>1 DEF Lost
<1>11. CASE p < i
  <2>1. p \in 1 .. i - 1 /\ p \in 1 .. l
    BY <1>6, <1>11
  <2>2. p = n + 2
    BY <1>4, <1>7, <1>10, <2>1
  <2>3. Len(b) = n /\ \A j \in 1 .. n : b[j] = v[j + 1]
    <3>1. p - 2 = n
      BY <2>2
    <3> QED
      BY <1>8, <3>1
  <2>4. ASSUME NEW j \in 1 .. n
        PROVE  b[j] = d[j]
    <3>1. j + 1 \in 1 .. i - 1
      BY <1>6, <1>11, <2>2
    <3>2. v[j + 1] = w[j + 1]
      BY <1>10, <3>1
    <3> QED
      BY <1>3, <2>3, <3>2
  <2> QED
    BY <1>1, <1>8, <2>3, <2>4, SeqEqual
<1>12. CASE p >= i
  <2>1. p \in i .. l - 1 /\ p + 1 \in 1 .. l
    BY <1>6, <1>12
  <2>2. w[p + 1] = "*"
    BY <1>7, <1>10, <2>1
  <2>3. p + 1 = n + 2
    BY <1>4, <2>1, <2>2
  <2>4. n >= 1 /\ p - 2 = n - 1 /\ p + 1 \in i .. l - 1 /\ p + 2 \in i .. l - 1
        /\ p + 1 + 1 = n + 3 /\ p + 2 + 1 = n + 4
    BY <1>2, <1>6, <1>12, <2>3
  <2>5. v[p + 1] = w[n + 3] /\ v[p + 2] = w[n + 4]
    <3>1. v[p + 1] = w[p + 1 + 1] /\ v[p + 2] = w[p + 2 + 1]
      BY <1>10, <2>4
    <3> QED
      BY <2>4, <3>1
  <2>6. Checksum(d) = Checksum(b)
    BY <1>5, <1>9, <2>5
  <2>7. Len(b) = n - 1 /\ \A j \in 1 .. n - 1 : b[j] = v[j + 1]
    BY <1>8, <2>4
  <2>8. PICK m \in 1 .. n : m = IF i = 1 THEN 1 ELSE i - 1
    <3>1. (IF i = 1 THEN 1 ELSE i - 1) \in 1 .. n
      BY <1>6, <1>12, <2>3, <2>4
    <3> QED
      BY <3>1
  <2>9. ASSUME NEW j \in 1 .. m - 1
        PROVE  b[j] = d[j]
    <3>1. j \in 1 .. n - 1 /\ j \in 1 .. n /\ j + 1 \in 1 .. i - 1
      BY <1>6, <2>8
    <3>2. v[j + 1] = w[j + 1]
      BY <1>10, <3>1
    <3> QED
      BY <1>3, <2>7, <3>1, <3>2
  <2>10. ASSUME NEW j \in m .. n - 1
         PROVE  b[j] = d[j + 1]
    <3>1. j \in 1 .. n - 1 /\ j + 1 \in 1 .. n /\ j + 1 \in i .. l - 1
      BY <1>2, <1>6, <2>8
    <3>2. v[j + 1] = w[j + 1 + 1]
      BY <1>10, <3>1
    <3>3. w[j + 1 + 1] = d[j + 1]
      BY <1>3, <3>1
    <3> QED
      BY <2>7, <3>1, <3>2, <3>3
  <2>11. Len(b) = Len(d) - 1 /\ m \in DOMAIN d
    BY <1>1, <2>7
  <2>12. /\ \A j \in 1 .. m - 1 : b[j] = d[j]
         /\ \A j \in m .. Len(b) : b[j] = d[j + 1]
    BY <2>7, <2>9, <2>10
  <2> QED
    BY <1>8, <2>6, <2>11, <2>12, ChecksumDropped
<1> QED
  BY <1>6, <1>11, <1>12

(* ... and for one that lost its end.                                       *)
LEMMA CutIsDetected ==
  ASSUME NEW w \in Seq(Characters), NEW d \in Seq(Characters), Framed(w, d), Clean(d),
         NEW v \in Seq(Characters), Len(v) <= Len(w),
         \A j \in 1 .. Len(v) : v[j] = w[j],
         NEW b, NEW k, NEW p, FrameAt(v, b, k, p)
  PROVE  b = d
<1>1. PICK n \in Nat, l \in Nat, m \in Nat : n = Len(d) /\ l = Len(w) /\ m = Len(v)
  OBVIOUS
<1>at. FramedAt(w, d, n, l)
  BY <1>1, FramedIs
<1>2. m <= l /\ \A j \in 1 .. m : v[j] = w[j]
  BY <1>1
<1>3. \A j \in 1 .. n : w[j + 1] = d[j]
  BY <1>at DEF FramedAt
<1>4. \A j \in 1 .. l : w[j] = "*" => j = n + 2
  BY <1>at DEF FramedAt
<1>5. k \in 0 .. m /\ p \in 2 .. k - 2 /\ v[p] = "*"
  BY <1>1 DEF FrameAt
<1>6. b \in Seq(Characters) /\ Len(b) = p - 2 /\ \A j \in 1 .. p - 2 : b[j] = v[j + 1]
  BY DEF FrameAt
<1>7. p \in 1 .. m /\ p \in 1 .. l
  BY <1>2, <1>5
<1>8. p = n + 2
  BY <1>2, <1>4, <1>5, <1>7
<1>9. Len(b) = n /\ \A j \in 1 .. n : b[j] = v[j + 1]
  <2>1. p - 2 = n
    BY <1>8
  <2> QED
    BY <1>6, <2>1
<1>10. ASSUME NEW j \in 1 .. n
       PROVE  b[j] = d[j]
  <2>1. j + 1 \in 1 .. m
    BY <1>7, <1>8
  <2>2. v[j + 1] = w[j + 1]
    BY <1>2, <2>1
  <2> QED
    BY <1>3, <1>9, <2>2
<1> QED
  BY <1>1, <1>6, <1>9, <1>10, SeqEqual

-----------------------------------------------------------------------------
(* A line that arrives as it was written: its frame is found, with the text *)
(* that was written in it.                                                  *)
LEMMA IntactFrame ==
  ASSUME NEW w \in Seq(Characters), NEW d \in Seq(Characters), Framed(w, d), Clean(d)
  PROVE  /\ Body(Stripped(w)) = d
         /\ FrameError(w, Stripped(w)) = IF Len(d) + 4 < 14 THEN "SentenceTooShort"
                                         ELSE IF Len(split_fields(d)) < 7
                                         THEN "SentenceFieldMissing" ELSE "Ok"
<1>1. PICK n \in Nat, l \in Nat : n = Len(d) /\ l = Len(w)
  OBVIOUS
<1>2. FramedAt(w, d, n, l)
  BY <1>1, FramedIs
<1>3. l >= n + 4 /\ w[1] = "!" /\ w[n + 2] = "*"
  BY <1>2 DEF FramedAt
<1>4. \A j \in 1 .. n : w[j + 1] = d[j]
  BY <1>2 DEF FramedAt
<1>5. \A j \in 1 .. l : w[j] = "*" => j = n + 2
  BY <1>2 DEF FramedAt
<1>6. \A j \in 1 .. l : w[j] \in {"CR", "LF"} <=> j >= n + 5
  BY <1>2 DEF FramedAt
<1>7. parse_hex8(<<w[n + 3], w[n + 4]>>) = Checksum(d)
  BY <1>2 DEF FramedAt
<1>8. PICK s \in Seq(Characters) : s = Stripped(w) /\ Strips(w, s)
  BY StrippedIs DEF Strips
<1>9. PICK k \in Nat : k = Len(s)
  OBVIOUS
<1>10. k <= l /\ \A j \in 1 .. k : s[j] = w[j]
  BY <1>1, <1>8, <1>9 DEF Strips
<1>11. k > 0 => w[k] \notin {"CR", "LF"}
  BY <1>8, <1>9 DEF Strips
<1>12. \A j \in k + 1 .. l : w[j] \in {"CR", "LF"}
  BY <1>1, <1>8, <1>9 DEF Strips
<1>13. k = n + 4
  <2>1. ~(k < n + 4)
    <3>1. n + 4 \in 1 .. l
      BY <1>3
    <3>2. w[n + 4] \notin {"CR", "LF"}
      BY <1>6, <3>1
    <3>3. k < n + 4 => n + 4 \in k + 1 .. l
      BY <1>3
    <3> QED
      BY <1>12, <3>2, <3>3
  <2>2. ~(k >= n + 5)
    <3>1. k >= n + 5 => k \in 1 .. l /\ k > 0
      BY <1>10
    <3> QED
      BY <1>6, <1>11, <3>1
  <2> QED
    BY <2>1, <2>2
<1>14. PICK p \in 0 .. k : p = StarAt(s)
  BY <1>9, StarIs
<1>15. p = n + 2
  <2>1. n + 2 \in 1 .. k /\ s[n + 2] = "*"
    BY <1>3, <1>10, <1>13
  <2>2. n + 2 <= p
    BY <1>9, <1>14, <2>1, StarIs
  <2>3. s[p] = "*"
    BY <1>14, <2>2, StarIs
  <2>4. p \in 1 .. k /\ p \in 1 .. l
    BY <1>10, <2>2
  <2>5. w[p] = "*"
    BY <1>10, <2>3, <2>4
  <2> QED
    BY <1>5, <2>4, <2>5
<1>16. p \in 2 .. Len(s) /\ p \in Nat /\ p + 2 <= Len(s)
  BY <1>9, <1>13, <1>15
<1>17. /\ Body(s) \in Seq(Characters) /\ Len(Body(s)) = p - 2
       /\ \A j \in 1 .. p - 2 : Body(s)[j] = s[j + 1]
  BY <1>14, <1>16, BodyIs
<1>18. PICK b \in Seq(Characters) : b = Body(s)
  BY <1>17
<1>19. Len(b) = n /\ \A j \in 1 .. n : b[j] = s[j + 1]
  <2>1. p - 2 = n
    BY <1>15
  <2> QED
    BY <1>17, <1>18, <2>1
<1>20. ASSUME NEW j \in 1 .. n
       PROVE  b[j] = d[j]
  <2>1. j + 1 \in 1 .. k
    BY <1>13
  <2> QED
    BY <1>4, <1>10, <1>19, <2>1
<1>21. b = d
  BY <1>1, <1>19, <1>20, SeqEqual
<1>22. ChecksumField(s) = <<w[n + 3], w[n + 4]>>
  <2>1. ChecksumField(s) = <<s[p + 1], s[p + 2]>>
    BY <1>14, <1>16, ChecksumFieldIs
  <2>2. p + 1 = n + 3 /\ p + 2 = n + 4 /\ n + 3 \in 1 .. k /\ n + 4 \in 1 .. k
    BY <1>13, <1>15
  <2>3. s[n + 3] = w[n + 3] /\ s[n + 4] = w[n + 4]
    BY <1>10, <2>2
  <2> QED
    BY <2>1, <2>2, <2>3
<1>23. parse_hex8(ChecksumField(s)) = Checksum(Body(s))
  BY <1>7, <1>18, <1>21, <1>22
<1>24. w # <<>> /\ s[1] \in {"!", "$"} /\ ~(StarAt(s) = 0 \/ StarAt(s) + 2 > Len(s))
  <2>1. w # <<>>
    BY <1>1, <1>3
  <2>2. s[1] = "!"
    <3>1. 1 \in 1 .. k
      BY <1>13
    <3> QED
      BY <1>3, <1>10, <3>1
  <2>3. ~(p = 0 \/ p + 2 > k)
    BY <1>13, <1>15
  <2>4. ~(StarAt(s) = 0 \/ StarAt(s) + 2 > Len(s))
    BY <1>9, <1>14, <2>3
  <2> QED
    BY <2>1, <2>2, <2>4
<1>25. Len(s) = Len(d) + 4
  BY <1>1, <1>9, <1>13
<1>26. Body(s) = d
  BY <1>18, <1>21
<1>27. FrameError(w, s) = IF Len(d) + 4 < 14 THEN "SentenceTooShort"
                          ELSE IF Len(split_fields(d)) < 7
                          THEN "SentenceFieldMissing" ELSE "Ok"
  BY <1>23, <1>24, <1>25, <1>26, Zenon DEF FrameError
<1> QED
  BY <1>8, <1>26, <1>27

(* ... and parse() reads the fields that were written.                      *)
LEMMA ParseIntact ==
  ASSUME NEW f, IsText(f), NEW w \in Seq(Characters), Framed(w, Joined(f))
  PROVE  parse(w) = IF Len(Joined(f)) + 4 < 14 THEN Failure("SentenceTooShort")
                    ELSE IF Len(f) < 7 THEN Failure("SentenceFieldMissing")
                    ELSE IF FieldError(f) # "Ok" THEN Failure(FieldError(f))
                    ELSE Parsed(SentenceOf(f), ChannelOf(f))
<1>1. PICK d \in Seq(Characters) : d = Joined(f) /\ split_fields(d) = f /\ Clean(d)
  BY SplitJoined, JoinedIsClean
<1>2. Body(Stripped(w)) = d
  BY <1>1, IntactFrame
<1>3. FrameError(w, Stripped(w)) = IF Len(d) + 4 < 14 THEN "SentenceTooShort"
                                   ELSE IF Len(f) < 7
                                   THEN "SentenceFieldMissing" ELSE "Ok"
  BY <1>1, IntactFrame
<1>4. split_fields(Body(Stripped(w))) = f
  BY <1>1, <1>2
<1>5. parse(w) = IF FrameError(w, Stripped(w)) # "Ok" THEN Failure(FrameError(w, Stripped(w)))
                 ELSE IF FieldError(f) # "Ok" THEN Failure(FieldError(f))
                 ELSE Parsed(SentenceOf(f), ChannelOf(f))
  BY <1>4, Zenon DEF parse
<1>6. CASE Len(d) + 4 < 14
  BY <1>1, <1>3, <1>5, <1>6, Zenon
<1>7. CASE ~(Len(d) + 4 < 14) /\ Len(f) < 7
  BY <1>1, <1>3, <1>5, <1>7, Zenon
<1>8. CASE ~(Len(d) + 4 < 14) /\ ~(Len(f) < 7)
  BY <1>1, <1>3, <1>5, <1>8, Zenon
<1> QED
  BY <1>6, <1>7, <1>8

(* Fields that parse() accepts make a line of at least nineteen characters. *)
LEMMA AcceptedLength ==
  ASSUME NEW f, IsText(f), Len(f) >= 7, FieldError(f) = "Ok"
  PROVE  Len(Joined(f)) >= 15
<1>1. PICK joined : Joins(f, joined) /\ Joined(f) = joined[Len(f)]
  BY JoinedFunction
<1>2. PICK N \in Nat : N = Len(f) /\ N >= 7
  BY DEF IsText
<1>3. ASSUME NEW m \in 1 .. N
      PROVE  /\ f[m] \in Seq(Characters) /\ joined[m] \in Seq(Characters)
             /\ Len(f[m]) \in Nat /\ Len(joined[m]) \in Nat
  <2>1. f[m] \in Seq(Characters) /\ joined[m] \in Seq(Characters)
    BY <1>1, <1>2 DEF IsText, Joins
  <2> QED
    BY <2>1
<1>4. 1 \in 1 .. N /\ 2 \in 1 .. N /\ 3 \in 1 .. N /\ 4 \in 1 .. N /\ 5 \in 1 .. N
      /\ 6 \in 1 .. N /\ 7 \in 1 .. N
  BY <1>2
<1>5. PICK l1 \in Nat, l2 \in Nat, l3 \in Nat, l4 \in Nat :
        l1 = Len(f[1]) /\ l2 = Len(f[2]) /\ l3 = Len(f[3]) /\ l4 = Len(f[4])
  BY <1>3, <1>4
<1>6. PICK l5 \in Nat, l6 \in Nat, l7 \in Nat :
        l5 = Len(f[5]) /\ l6 = Len(f[6]) /\ l7 = Len(f[7])
  BY <1>3, <1>4
<1>7. PICK m1 \in Nat, m2 \in Nat, m3 \in Nat, m4 \in Nat :
        m1 = Len(joined[1]) /\ m2 = Len(joined[2]) /\ m3 = Len(joined[3]) /\ m4 = Len(joined[4])
  BY <1>3, <1>4
<1>8. PICK m5 \in Nat, m6 \in Nat, m7 \in Nat, mN \in Nat :
        m5 = Len(joined[5]) /\ m6 = Len(joined[6]) /\ m7 = Len(joined[7]) /\ mN = Len(joined[N])
  <2>1. N \in 1 .. N
    BY <1>2
  <2> QED
    BY <1>3, <1>4, <2>1
<1>9. ASSUME NEW n \in 2 .. 7
      PROVE  Len(joined[n]) = Len(joined[n - 1]) + 1 + Len(f[n])
  <2>1. n \in 2 .. Len(f)
    BY <1>2
  <2>2. Follows(joined[n - 1], f[n], joined[n])
    BY <1>1, <2>1, JoinedStep
  <2> QED
    BY <2>2 DEF Follows
<1>10. m1 = l1
  BY <1>1, <1>5, <1>7 DEF Joins
<1>11. m2 = m1 + 1 + l2
  <2>1. 2 - 1 = 1 /\ 2 \in 2 .. 7
    OBVIOUS
  <2> QED
    BY <1>5, <1>7, <1>9, <2>1
<1>12. m3 = m2 + 1 + l3
  <2>1. 3 - 1 = 2 /\ 3 \in 2 .. 7
    OBVIOUS
  <2> QED
    BY <1>5, <1>7, <1>9, <2>1
<1>13. m4 = m3 + 1 + l4
  <2>1. 4 - 1 = 3 /\ 4 \in 2 .. 7
    OBVIOUS
  <2> QED
    BY <1>5, <1>7, <1>9, <2>1
<1>14. m5 = m4 + 1 + l5
  <2>1. 5 - 1 = 4 /\ 5 \in 2 .. 7
    OBVIOUS
  <2> QED
    BY <1>6, <1>7, <1>8, <1>9, <2>1
<1>15. m6 = m5 + 1 + l6
  <2>1. 6 - 1 = 5 /\ 6 \in 2 .. 7
    OBVIOUS
  <2> QED
    BY <1>6, <1>8, <1>9, <2>1
<1>16. m7 = m6 + 1 + l7
  <2>1. 7 - 1 = 6 /\ 7 \in 2 .. 7
    OBVIOUS
  <2> QED
    BY <1>6, <1>8, <1>9, <2>1
<1>17. m7 <= mN
  <2>1. N \in 1 .. Len(f) /\ 7 \in 1 .. N
    BY <1>2
  <2>2. Len(joined[7]) <= Len(joined[N])
    BY <1>1, <2>1, JoinedPrefix
  <2> QED
    BY <1>8, <2>2
<1>18. \A s : s = <<>> => parse_uint8(s) = -1
  BY DEF parse_uint8
<1>19. /\ Len(f[1]) = 5
       /\ CountIsValid(f) /\ IndexIsValid(f) /\ SeqIdIsValid(f)
       /\ ~(f[6] = <<>> /\ parse_uint8(f[2]) = 1)
       /\ parse_uint8(f[7]) \in 0 .. 5
  BY DEF FieldError
<1>20. l1 = 5
  BY <1>5, <1>19
<1>21. f[2] # <<>>
  <2>1. -1 \notin 1 .. kMaxSentenceParts
    BY SentencesAssumption
  <2> QED
    BY <1>18, <1>19, <2>1 DEF CountIsValid
<1>22. f[3] # <<>>
  <2>1. parse_uint8(f[2]) \in Int
    BY <1>19, SentencesAssumption DEF CountIsValid
  <2>2. -1 \notin 1 .. parse_uint8(f[2])
    BY <2>1
  <2> QED
    BY <1>18, <1>19, <2>2 DEF IndexIsValid
<1>23. f[7] # <<>>
  <2>1. -1 \notin 0 .. 5
    OBVIOUS
  <2> QED
    BY <1>18, <1>19, <2>1
<1>24. f[4] # <<>> \/ f[6] # <<>>
  BY <1>19 DEF SeqIdIsValid
<1>25. \A m \in 1 .. N : f[m] # <<>> => Len(f[m]) # 0
  BY <1>3
<1>26. l2 # 0 /\ l3 # 0 /\ l7 # 0 /\ (l4 # 0 \/ l6 # 0)
  BY <1>4, <1>5, <1>6, <1>21, <1>22, <1>23, <1>24, <1>25
<1>27. mN >= 15
  BY <1>10, <1>11, <1>12, <1>13, <1>14, <1>15, <1>16, <1>17, <1>20, <1>26
<1> QED
  BY <1>1, <1>2, <1>8, <1>27

(* What parse() returns depends on the first seven fields only.             *)
LEMMA SevenFields ==
  ASSUME NEW f, NEW g, \A m \in 1 .. 7 : g[m] = f[m]
  PROVE  /\ FieldError(g) = FieldError(f)
         /\ SentenceOf(g) = SentenceOf(f) /\ ChannelOf(g) = ChannelOf(f)
<1>1. /\ g[1] = f[1] /\ g[2] = f[2] /\ g[3] = f[3] /\ g[4] = f[4]
      /\ g[5] = f[5] /\ g[6] = f[6] /\ g[7] = f[7]
  OBVIOUS
<1>2. Talker(g) = Talker(f) /\ Type(g) = Type(f)
  BY <1>1, Zenon DEF Talker, Type
<1>3. /\ CountIsValid(g) = CountIsValid(f) /\ IndexIsValid(g) = IndexIsValid(f)
      /\ SeqIdIsValid(g) = SeqIdIsValid(f)
  BY <1>1, Zenon DEF CountIsValid, IndexIsValid, SeqIdIsValid
<1>4. FieldError(g) = FieldError(f)
  BY <1>1, <1>2, <1>3, Zenon DEF FieldError
<1>5. SentenceOf(g) = SentenceOf(f)
  BY <1>1, <1>2, Zenon DEF SentenceOf
<1>6. ChannelOf(g) = ChannelOf(f)
  BY <1>1, Zenon DEF ChannelOf
<1> QED
  BY <1>4, <1>5, <1>6

-----------------------------------------------------------------------------
(* A line that is accepted where the intact one would be read the same.     *)
Faithful(v, f) == parse(v).kind = "error" \/ parse(v) = parse(Line(f))

LEMMA SameReading ==
  ASSUME NEW f, IsText(f), Len(f) >= 7, NEW v,
         FrameError(v, Stripped(v)) = "Ok" /\ FieldError(split_fields(Body(Stripped(v)))) = "Ok"
         => \A m \in 1 .. 7 : split_fields(Body(Stripped(v)))[m] = f[m]
  PROVE  Faithful(v, f)
<1>1. PICK g : g = split_fields(Body(Stripped(v)))
  OBVIOUS
<1>2. parse(v) = IF FrameError(v, Stripped(v)) # "Ok" THEN Failure(FrameError(v, Stripped(v)))
                 ELSE IF FieldError(g) # "Ok" THEN Failure(FieldError(g))
                 ELSE Parsed(SentenceOf(g), ChannelOf(g))
  BY <1>1, Zenon DEF parse
<1>3. \A c : Failure(c).kind = "error"
  BY DEF Failure
<1>4. CASE FrameError(v, Stripped(v)) # "Ok"
  BY <1>2, <1>3, <1>4 DEF Faithful
<1>5. CASE FrameError(v, Stripped(v)) = "Ok" /\ FieldError(g) # "Ok"
  BY <1>2, <1>3, <1>5 DEF Faithful
<1>6. CASE FrameError(v, Stripped(v)) = "Ok" /\ FieldError(g) = "Ok"
  <2>1. \A m \in 1 .. 7 : g[m] = f[m]
    BY <1>1, <1>6
  <2>2. FieldError(f) = "Ok" /\ SentenceOf(g) = SentenceOf(f) /\ ChannelOf(g) = ChannelOf(f)
    BY <1>6, <2>1, SevenFields
  <2>3. parse(v) = Parsed(SentenceOf(f), ChannelOf(f))
    BY <1>2, <1>6, <2>2, Zenon
  <2>4. ~(Len(Joined(f)) + 4 < 14) /\ ~(Len(f) < 7)
    <3>1. Len(Joined(f)) >= 15
      BY <2>2, AcceptedLength
    <3>2. PICK n \in Nat, m \in Nat : n = Len(Joined(f)) /\ m = Len(f)
      <4>1. Joined(f) \in Seq(Characters) /\ f \in Seq(Seq(Characters))
        BY SplitJoined DEF IsText
      <4> QED
        BY <4>1
    <3> QED
      BY <3>1, <3>2
  <2>5. parse(Line(f)) = Parsed(SentenceOf(f), ChannelOf(f))
    <3>1. Line(f) \in Seq(Characters) /\ Framed(Line(f), Joined(f))
      BY LineIsFramed
    <3>2. parse(Line(f)) = IF Len(Joined(f)) + 4 < 14 THEN Failure("SentenceTooShort")
                           ELSE IF Len(f) < 7 THEN Failure("SentenceFieldMissing")
                           ELSE IF FieldError(f) # "Ok" THEN Failure(FieldError(f))
                           ELSE Parsed(SentenceOf(f), ChannelOf(f))
      BY <3>1, ParseIntact
    <3> QED
      BY <2>2, <2>4, <3>2, Zenon
  <2> QED
    BY <2>3, <2>5 DEF Faithful
<1> QED
  BY <1>4, <1>5, <1>6

(* So it is enough that a frame, where there is one, holds the text written.*)
LEMMA SameBody ==
  ASSUME NEW f, IsText(f), Len(f) >= 7, NEW v \in Seq(Characters),
         \A b, k, p : FrameAt(v, b, k, p) => b = Joined(f)
  PROVE  Faithful(v, f)
<1>1. ASSUME FrameError(v, Stripped(v)) = "Ok"
      PROVE  split_fields(Body(Stripped(v))) = f
  <2>1. \E k, p : FrameAt(v, Body(Stripped(v)), k, p)
    BY <1>1, FrameFound
  <2>2. Body(Stripped(v)) = Joined(f)
    BY <2>1
  <2> QED
    BY <2>2, SplitJoined
<1> QED
  BY <1>1, SameReading

(* Another line after the end: the text goes on to the last star, and the   *)
(* last field of the first line holds a star.                               *)
LEMMA JoinIsDetected ==
  ASSUME NEW f, IsText(f), Len(f) >= 7, NEW w \in Seq(Characters), Framed(w, Joined(f)),
         NEW g, IsText(g)
  PROVE  Faithful(w \o Line(g), f)
<1>1. PICK d \in Seq(Characters), n \in Nat : d = Joined(f) /\ n = Len(d) /\ Clean(d)
  BY SplitJoined, JoinedIsClean
<1>2. PICK e \in Seq(Characters), m \in Nat : e = Joined(g) /\ m = Len(e) /\ Clean(e)
  BY SplitJoined, JoinedIsClean
<1>3. PICK u \in Seq(Characters) : u = Line(g) /\ Len(u) = m + 4 /\ Framed(u, e)
  BY <1>2, LineIsFramed
<1>4. PICK l \in Nat : l = Len(w)
  OBVIOUS
<1>5. PICK v : v = w \o u
  OBVIOUS
<1>6. /\ v \in Seq(Characters) /\ Len(v) = l + m + 4
      /\ \A j \in 1 .. l : v[j] = w[j]
      /\ \A j \in 1 .. m + 4 : v[l + j] = u[j]
  <2>1. /\ w \o u \in Seq(Characters) /\ Len(w \o u) = Len(w) + Len(u)
        /\ \A j \in 1 .. Len(w) : (w \o u)[j] = w[j]
        /\ \A j \in 1 .. Len(u) : (w \o u)[Len(w) + j] = u[j]
    BY <1>3, Appended
  <2> QED
    BY <1>3, <1>4, <1>5, <2>1
<1>7. FramedAt(w, d, n, l) /\ FramedAt(u, e, m, m + 4)
  <2>1. m + 4 \in Nat
    OBVIOUS
  <2> QED
    BY <1>1, <1>2, <1>3, <1>4, <2>1, FramedIs
<1>8. l >= n + 4 /\ w[n + 2] = "*" /\ \A j \in 1 .. n : w[j + 1] = d[j]
  BY <1>7 DEF FramedAt
<1>9. u[m + 2] = "*" /\ u[m + 4] \notin {"CR", "LF"}
  <2>1. \A j \in 1 .. m + 4 : u[j] \in {"CR", "LF"} <=> j >= m + 5
    BY <1>7 DEF FramedAt
  <2>2. m + 4 \in 1 .. m + 4 /\ ~(m + 4 >= m + 5)
    OBVIOUS
  <2> QED
    BY <1>7, <2>1, <2>2 DEF FramedAt
<1> SUFFICES ASSUME FrameError(v, Stripped(v)) = "Ok",
                    FieldError(split_fields(Body(Stripped(v)))) = "Ok"
             PROVE  \A i \in 1 .. 7 : split_fields(Body(Stripped(v)))[i] = f[i]
  BY <1>3, <1>5, SameReading
<1>10. PICK b, k, p : b = Body(Stripped(v)) /\ FrameAt(v, b, k, p)
  BY <1>6, FrameFound
<1>11. k \in 0 .. l + m + 4 /\ p \in 2 .. k - 2
  BY <1>6, <1>10 DEF FrameAt
<1>12. \A j \in 1 .. k : v[j] = "*" => j <= p
  BY <1>10 DEF FrameAt
<1>13. \A j \in k + 1 .. l + m + 4 : v[j] \in {"CR", "LF"}
  BY <1>6, <1>10 DEF FrameAt
<1>14. b \in Seq(Characters) /\ Len(b) = p - 2 /\ \A j \in 1 .. p - 2 : b[j] = v[j + 1]
  BY <1>10 DEF FrameAt
<1>15. v[l + (m + 2)] = "*" /\ v[l + (m + 4)] \notin {"CR", "LF"}
  <2>1. m + 2 \in 1 .. m + 4 /\ m + 4 \in 1 .. m + 4
    OBVIOUS
  <2> QED
    BY <1>6, <1>9, <2>1
<1>16. k = l + m + 4
  <2>1. k < l + m + 4 => l + (m + 4) \in k + 1 .. l + m + 4
    BY <1>11
  <2> QED
    BY <1>11, <1>13, <1>15, <2>1
<1>17. p >= l + m + 2
  <2>1. l + (m + 2) \in 1 .. k
    BY <1>16
  <2> QED
    BY <1>12, <1>15, <2>1
<1>18. p - 2 >= n + 1
  BY <1>8, <1>11, <1>17
<1>19. ASSUME NEW j \in 1 .. n
       PROVE  b[j] = d[j]
  <2>1. j \in 1 .. p - 2 /\ j + 1 \in 1 .. l
    BY <1>8, <1>11, <1>18
  <2>2. v[j + 1] = w[j + 1]
    BY <1>6, <2>1
  <2> QED
    BY <1>8, <1>14, <2>1, <2>2
<1>20. b[n + 1] = "*"
  <2>1. n + 1 \in 1 .. p - 2 /\ n + 1 + 1 \in 1 .. l /\ n + 1 + 1 = n + 2
    BY <1>8, <1>11, <1>18
  <2>2. v[n + 1 + 1] = w[n + 1 + 1]
    BY <1>6, <2>1
  <2> QED
    BY <1>8, <1>14, <2>1, <2>2
<1>21. PICK q \in Nat : q = Len(b) /\ q >= n + 1
  BY <1>11, <1>14, <1>18
<1>22. PICK split : Splits(b, split) /\ split_fields(b) = split[q]
  BY <1>14, <1>21, SplitFunction
<1>23. split[n] = f
  <2>1. PICK joined : Joins(f, joined) /\ Joined(f) = joined[Len(f)]
    BY JoinedFunction
  <2>2. joined[Len(f)] = d /\ Len(joined[Len(f)]) = n
    BY <1>1, <2>1
  <2>3. Len(joined[Len(f)]) <= Len(b)
    BY <1>21, <2>2
  <2>4. \A i \in 1 .. Len(joined[Len(f)]) : b[i] = joined[Len(f)][i]
    BY <1>19, <2>2
  <2>5. split[Len(joined[Len(f)])] = f
    BY <1>14, <1>22, <2>1, <2>3, <2>4, SplitOfJoined
  <2> QED
    BY <2>2, <2>5
<1>24. PICK N \in Nat : N = Len(f) /\ N >= 7 /\ f \in Seq(Seq(Characters))
  BY DEF IsText
<1>25. PICK h : h = split[n + 1]
  OBVIOUS
<1>26. h = Extended(f, "*")
  <2>1. n + 1 \in 1 .. Len(b) /\ n + 1 - 1 = n
    BY <1>21
  <2>2. split[n + 1] = Extended(split[n + 1 - 1], b[n + 1])
    BY <1>22, <2>1 DEF Splits
  <2> QED
    BY <1>20, <1>23, <1>25, <2>1, <2>2
<1>27. ReadNext(f, "*", h)
  <2>1. Len(f) >= 1
    BY <1>24
  <2> QED
    BY <1>24, <1>26, <2>1, Marks, ExtendedIs
<1>28. "*" # Comma
  BY Marks
<1>29. Len(h) = N /\ \A i \in 1 .. N - 1 : h[i] = f[i]
  BY <1>24, <1>27, <1>28 DEF ReadNext
<1>30. h[N] = Append(f[N], "*")
  <2>1. h[Len(f)] = Append(f[Len(f)], "*")
    BY <1>27, <1>28, Zenon DEF ReadNext
  <2> QED
    BY <1>24, <2>1, Zenon
<1>31. PICK x \in Seq(Characters), z \in Nat : x = f[N] /\ z = Len(x)
  <2>1. N \in 1 .. Len(f)
    BY <1>24
  <2>2. f[N] \in Seq(Characters)
    BY <1>24, <2>1
  <2> QED
    BY <2>2
<1>32. PICK y : y = Append(x, "*")
  OBVIOUS
<1>33. Len(y) = z + 1 /\ y[z + 1] = "*" /\ h[N] = y
  <2>1. "*" \in Characters
    BY Marks
  <2> QED
    BY <1>30, <1>31, <1>32, <2>1, AppendProperties
<1>34. PICK r : r = split[q]
  OBVIOUS
<1>35. Grown(h, r)
  <2>1. n + 1 \in 0 .. Len(b) /\ q \in n + 1 .. Len(b)
    BY <1>21
  <2> QED
    BY <1>14, <1>22, <1>25, <1>34, <2>1, SplitGrows
<1>36. \A i \in 1 .. N - 1 : r[i] = f[i]
  BY <1>29, <1>35 DEF Grown
<1>37. Len(r[N]) >= z + 1 /\ r[N][z + 1] = "*"
  <2>1. Len(h[N]) <= Len(r[N]) /\ \A j \in 1 .. Len(h[N]) : r[N][j] = h[N][j]
    BY <1>29, <1>35 DEF Grown
  <2>2. z + 1 <= Len(r[N]) /\ \A j \in 1 .. z + 1 : r[N][j] = y[j]
    BY <1>33, <2>1
  <2>3. z + 1 \in 1 .. z + 1
    OBVIOUS
  <2> QED
    BY <1>33, <2>2, <2>3
<1>38. r \in Seq(Seq(Characters)) /\ N <= Len(r)
  <2>1. q \in 0 .. Len(b)
    BY <1>21
  <2>2. r \in Seq(Seq(Characters))
    BY <1>22, <1>34, <2>1 DEF Splits
  <2> QED
    BY <1>29, <1>35, <2>2 DEF Grown
<1>39. "*" \in ToSet(r[N])
  <2>1. r[N] \in Seq(Characters)
    <3>1. N \in 1 .. Len(r)
      BY <1>24, <1>38
    <3> QED
      BY <1>38, <3>1
  <2>2. z + 1 \in DOMAIN r[N]
    BY <1>37, <2>1
  <2> QED
    BY <1>37, <2>2 DEF ToSet
<1>40. FieldError(r) = "Ok"
  BY <1>10, <1>22, <1>34
<1>41. N # 7
  <2> SUFFICES ASSUME N = 7 PROVE FALSE
    OBVIOUS
  <2>1. "*" \notin ToSet(Digits)
    BY DEF ToSet, Digits
  <2>2. "*" \in ToSet(r[7])
    BY <1>39
  <2>3. parse_uint8(r[7]) = -1
    BY <2>1, <2>2 DEF parse_uint8
  <2>4. parse_uint8(r[7]) \in 0 .. 5
    BY <1>40, FieldErrors
  <2> QED
    BY <2>3, <2>4
<1>42. \A i \in 1 .. 7 : i \in 1 .. N - 1
  <2>1. N >= 7
    BY <1>24
  <2>2. \A M \in Nat : M >= 7 /\ M # 7 => M >= 8
    OBVIOUS
  <2>3. N >= 8
    BY <1>41, <2>1, <2>2
  <2> QED
    BY <2>3
<1>43. split_fields(Body(Stripped(v))) = r
  BY <1>10, <1>22, <1>34
<1> QED
  BY <1>36, <1>42, <1>43

-----------------------------------------------------------------------------
(* parse() and the grammar.  A number is read as it is spelled, unless it is*)
(* above 255.                                                               *)
LEMMA Written ==
  ASSUME NEW f \in WrittenLines
  PROVE  IsText(f)
BY ParserAssumption DEF IsText

LEMMA NumbersRead ==
  ASSUME NEW f \in WrittenLines, Len(f) >= 7, NEW k \in {2, 3, 4, 7}
  PROVE  /\ Numerals[f[k]] \in Int
         /\ parse_uint8(f[k]) = IF Numerals[f[k]] > 255 THEN -1 ELSE Numerals[f[k]]
         /\ f[k] = <<>> => Numerals[f[k]] = -1
<1>1. /\ Numerals[f[k]] \in Int
      /\ Numerals[f[k]] = IF f[k] = <<>> \/ ~(ToSet(f[k]) \subseteq ToSet(Digits))
                          THEN -1 ELSE Decimal(f[k])
  BY ParserAssumption
<1>2. CASE f[k] = <<>> \/ ~(ToSet(f[k]) \subseteq ToSet(Digits))
  <2>1. Numerals[f[k]] = -1 /\ ~(-1 > 255)
    BY <1>1, <1>2
  <2>2. parse_uint8(f[k]) = -1
    BY <1>2 DEF parse_uint8
  <2> QED
    BY <1>1, <2>1, <2>2
<1>3. CASE ~(f[k] = <<>> \/ ~(ToSet(f[k]) \subseteq ToSet(Digits)))
  <2>1. Numerals[f[k]] = Decimal(f[k])
    BY <1>1, <1>3
  <2>2. parse_uint8(f[k]) = IF Decimal(f[k]) > 255 THEN -1 ELSE Decimal(f[k])
    BY <1>3 DEF parse_uint8
  <2> QED
    BY <1>1, <2>1, <2>2
<1> QED
  BY <1>2, <1>3

(* The rules of the grammar that parse() enforces, one by one.              *)
LEMMA Blames ==
  ASSUME NEW f
  PROVE  /\ Len(Line(f)) < 19 => "SentenceTooShort" \in Enforced(f)
         /\ ~(Len(f) >= 7) => "SentenceFieldMissing" \in Enforced(f)
         /\ Len(f[1]) # 5 => "SentenceFieldInvalid" \in Enforced(f)
         /\ Len(f) >= 7 /\ ~(1 <= Numerals[f[3]] /\ Numerals[f[3]] <= Numerals[f[2]])
            => "SentenceFieldInvalid" \in Enforced(f)
         /\ Len(f[1]) = 5 /\ Talker(f) \notin kValidTalkers
            => "SentenceTalkerInvalid" \in Enforced(f)
         /\ Len(f[1]) = 5 /\ Type(f) \notin TypeNames => "SentenceTypeInvalid" \in Enforced(f)
         /\ Len(f) >= 7 /\ Numerals[f[2]] \notin 1 .. 5 => "MultipartCountInvalid" \in Enforced(f)
         /\ Len(f) >= 7 /\ Numerals[f[4]] \notin 0 .. 9 /\ ~(f[4] = <<>> /\ Numerals[f[2]] = 1)
            => "MultipartSeqInvalid" \in Enforced(f)
         /\ Len(f) >= 7 /\ f[6] = <<>> /\ Numerals[f[2]] = 1 => "PayloadEmpty" \in Enforced(f)
         /\ Len(f) >= 7 /\ Numerals[f[7]] \notin 0 .. 5
            => "PayloadFillBitsInvalid" \in Enforced(f)
<1>1. Len(Line(f)) < 19 => "SentenceTooShort" \in Enforced(f)
  BY DEF Enforced, Blame, Overlooked, ParseErrors
<1>2. ~(Len(f) >= 7) => "SentenceFieldMissing" \in Enforced(f)
  BY DEF Enforced, Blame, Overlooked, ParseErrors
<1>3. Len(f[1]) # 5 => "SentenceFieldInvalid" \in Enforced(f)
  BY DEF Enforced, Blame, Overlooked, ParseErrors
<1>4. Len(f) >= 7 /\ ~(1 <= Numerals[f[3]] /\ Numerals[f[3]] <= Numerals[f[2]])
      => "SentenceFieldInvalid" \in Enforced(f)
  BY DEF Enforced, Blame, Overlooked, ParseErrors
<1>5. Len(f[1]) = 5 /\ Talker(f) \notin kValidTalkers => "SentenceTalkerInvalid" \in Enforced(f)
  BY DEF Enforced, Blame, Overlooked, ParseErrors
<1>6. Len(f[1]) = 5 /\ Type(f) \notin TypeNames => "SentenceTypeInvalid" \in Enforced(f)
  BY DEF Enforced, Blame, Overlooked, ParseErrors
<1>7. Len(f) >= 7 /\ Numerals[f[2]] \notin 1 .. 5 => "MultipartCountInvalid" \in Enforced(f)
  BY DEF Enforced, Blame, Overlooked, ParseErrors
<1>8. Len(f) >= 7 /\ Numerals[f[4]] \notin 0 .. 9 /\ ~(f[4] = <<>> /\ Numerals[f[2]] = 1)
      => "MultipartSeqInvalid" \in Enforced(f)
  BY DEF Enforced, Blame, Overlooked, ParseErrors
<1>9. Len(f) >= 7 /\ f[6] = <<>> /\ Numerals[f[2]] = 1 => "PayloadEmpty" \in Enforced(f)
  BY DEF Enforced, Blame, Overlooked, ParseErrors
<1>10. Len(f) >= 7 /\ Numerals[f[7]] \notin 0 .. 5 => "PayloadFillBitsInvalid" \in Enforced(f)
  BY DEF Enforced, Blame, Overlooked, ParseErrors
<1> QED
  BY <1>1, <1>2, <1>3, <1>4, <1>5, <1>6, <1>7, <1>8, <1>9, <1>10

LEMMA Blameless ==
  ASSUME NEW f, ~(Len(Line(f)) < 19), Len(f) >= 7, Len(f[1]) = 5,
         1 <= Numerals[f[3]] /\ Numerals[f[3]] <= Numerals[f[2]],
         Talker(f) \in kValidTalkers, Type(f) \in TypeNames, Numerals[f[2]] \in 1 .. 5,
         Numerals[f[4]] \in 0 .. 9 \/ (f[4] = <<>> /\ Numerals[f[2]] = 1),
         ~(f[6] = <<>> /\ Numerals[f[2]] = 1), Numerals[f[7]] \in 0 .. 5
  PROVE  Enforced(f) = {}
BY DEF Enforced, Blame, Overlooked

(* An error of the fields names a rule that they break, and without an error*)
(* they break none.                                                         *)
LEMMA ErrorIsBlamed ==
  ASSUME NEW f \in WrittenLines, Len(f) >= 7, FieldError(f) # "Ok"
  PROVE  FieldError(f) \in Enforced(f)
<1>1. PICK n2 \in Int, n3 \in Int, n4 \in Int, n7 \in Int :
        /\ n2 = Numerals[f[2]] /\ n3 = Numerals[f[3]]
        /\ n4 = Numerals[f[4]] /\ n7 = Numerals[f[7]]
  BY NumbersRead
<1>2. PICK p2 \in Int, p3 \in Int, p4 \in Int, p7 \in Int :
        /\ p2 = parse_uint8(f[2]) /\ p2 = IF n2 > 255 THEN -1 ELSE n2
        /\ p3 = parse_uint8(f[3]) /\ p3 = IF n3 > 255 THEN -1 ELSE n3
        /\ p4 = parse_uint8(f[4]) /\ p4 = IF n4 > 255 THEN -1 ELSE n4
        /\ p7 = parse_uint8(f[7]) /\ p7 = IF n7 > 255 THEN -1 ELSE n7
  <2>1. \E p \in Int : p = parse_uint8(f[2]) /\ p = IF n2 > 255 THEN -1 ELSE n2
    <3>1. parse_uint8(f[2]) = IF n2 > 255 THEN -1 ELSE n2
      BY <1>1, NumbersRead
    <3> QED
      BY <3>1
  <2>2. \E p \in Int : p = parse_uint8(f[3]) /\ p = IF n3 > 255 THEN -1 ELSE n3
    <3>1. parse_uint8(f[3]) = IF n3 > 255 THEN -1 ELSE n3
      BY <1>1, NumbersRead
    <3> QED
      BY <3>1
  <2>3. \E p \in Int : p = parse_uint8(f[4]) /\ p = IF n4 > 255 THEN -1 ELSE n4
    <3>1. parse_uint8(f[4]) = IF n4 > 255 THEN -1 ELSE n4
      BY <1>1, NumbersRead
    <3> QED
      BY <3>1
  <2>4. \E p \in Int : p = parse_uint8(f[7]) /\ p = IF n7 > 255 THEN -1 ELSE n7
    <3>1. parse_uint8(f[7]) = IF n7 > 255 THEN -1 ELSE n7
      BY <1>1, NumbersRead
    <3> QED
      BY <3>1
  <2> QED
    BY <2>1, <2>2, <2>3, <2>4
<1>3. \/ FieldError(f) = "SentenceFieldInvalid" /\ Len(f[1]) # 5
      \/ FieldError(f) = "SentenceTalkerInvalid" /\ Len(f[1]) = 5 /\ Talker(f) \notin kValidTalkers
      \/ FieldError(f) = "SentenceTypeInvalid" /\ Len(f[1]) = 5 /\ Type(f) \notin TypeNames
      \/ FieldError(f) = "MultipartCountInvalid" /\ ~CountIsValid(f)
      \/ FieldError(f) = "SentenceFieldInvalid" /\ CountIsValid(f) /\ ~IndexIsValid(f)
      \/ FieldError(f) = "MultipartSeqInvalid" /\ CountIsValid(f) /\ ~SeqIdIsValid(f)
      \/ FieldError(f) = "PayloadEmpty" /\ f[6] = <<>> /\ parse_uint8(f[2]) = 1
      \/ FieldError(f) = "PayloadFillBitsInvalid" /\ parse_uint8(f[7]) \notin 0 .. 5
  BY DEF FieldError, is_valid_talker
<1>4. CASE FieldError(f) = "SentenceFieldInvalid" /\ Len(f[1]) # 5
  BY <1>4, Blames
<1>5. CASE FieldError(f) = "SentenceTalkerInvalid" /\ Len(f[1]) = 5 /\ Talker(f) \notin kValidTalkers
  BY <1>5, Blames
<1>6. CASE FieldError(f) = "SentenceTypeInvalid" /\ Len(f[1]) = 5 /\ Type(f) \notin TypeNames
  BY <1>6, Blames
<1>7. CASE FieldError(f) = "MultipartCountInvalid" /\ ~CountIsValid(f)
  <2>1. p2 \notin 1 .. 5
    BY <1>2, <1>7, ParserAssumption DEF CountIsValid
  <2>2. n2 \notin 1 .. 5
    BY <1>2, <2>1
  <2>3. Numerals[f[2]] \notin 1 .. 5
    BY <1>1, <2>2
  <2> QED
    BY <1>7, <2>3, Blames
<1>8. ASSUME CountIsValid(f)
      PROVE  p2 = n2 /\ n2 \in 1 .. 5
  <2>1. p2 \in 1 .. 5
    BY <1>2, <1>8, ParserAssumption DEF CountIsValid
  <2> QED
    BY <1>2, <2>1
<1>9. CASE FieldError(f) = "SentenceFieldInvalid" /\ CountIsValid(f) /\ ~IndexIsValid(f)
  <2>1. p3 \notin 1 .. p2
    BY <1>2, <1>9 DEF IndexIsValid
  <2>2. ~(1 <= n3 /\ n3 <= n2)
    BY <1>2, <1>8, <1>9, <2>1
  <2>3. ~(1 <= Numerals[f[3]] /\ Numerals[f[3]] <= Numerals[f[2]])
    BY <1>1, <2>2
  <2> QED
    BY <1>9, <2>3, Blames
<1>10. CASE FieldError(f) = "MultipartSeqInvalid" /\ CountIsValid(f) /\ ~SeqIdIsValid(f)
  <2>1. n4 \notin 0 .. 9 /\ ~(f[4] = <<>> /\ n2 = 1)
    <3>1. CASE f[4] = <<>>
      <4>1. n4 = -1
        BY <1>1, <3>1, NumbersRead
      <4>2. p2 # 1
        BY <1>2, <1>10, <3>1 DEF SeqIdIsValid
      <4> QED
        BY <1>8, <1>10, <4>1, <4>2
    <3>2. CASE f[4] # <<>>
      <4>1. p4 \notin 0 .. 9
        BY <1>2, <1>10, <3>2 DEF SeqIdIsValid, kMaxSeqId
      <4>2. n4 \notin 0 .. 9
        BY <1>2, <4>1
      <4> QED
        BY <3>2, <4>2
    <3> QED
      BY <3>1, <3>2
  <2>2. Numerals[f[4]] \notin 0 .. 9 /\ ~(f[4] = <<>> /\ Numerals[f[2]] = 1)
    BY <1>1, <2>1
  <2> QED
    BY <1>10, <2>2, Blames
<1>11. CASE FieldError(f) = "PayloadEmpty" /\ f[6] = <<>> /\ parse_uint8(f[2]) = 1
  <2>1. p2 = 1
    BY <1>2, <1>11
  <2>2. n2 = 1
    BY <1>2, <2>1
  <2>3. Numerals[f[2]] = 1
    BY <1>1, <2>2
  <2> QED
    BY <1>11, <2>3, Blames
<1>12. CASE FieldError(f) = "PayloadFillBitsInvalid" /\ parse_uint8(f[7]) \notin 0 .. 5
  <2>1. n7 \notin 0 .. 5
    BY <1>2, <1>12
  <2>2. Numerals[f[7]] \notin 0 .. 5
    BY <1>1, <2>1
  <2> QED
    BY <1>12, <2>2, Blames
<1> QED
  BY <1>3, <1>4, <1>5, <1>6, <1>7, <1>9, <1>10, <1>11, <1>12

LEMMA AcceptedIsBlameless ==
  ASSUME NEW f \in WrittenLines, Len(f) >= 7, FieldError(f) = "Ok"
  PROVE  /\ Enforced(f) = {}
         /\ parse_uint8(f[2]) = Numerals[f[2]]
         /\ parse_uint8(f[3]) = Numerals[f[3]]
         /\ f[4] # <<>> => parse_uint8(f[4]) = Numerals[f[4]]
         /\ parse_uint8(f[7]) = Numerals[f[7]]
<1>1. PICK n2 \in Int, n3 \in Int, n4 \in Int, n7 \in Int :
        /\ n2 = Numerals[f[2]] /\ n3 = Numerals[f[3]]
        /\ n4 = Numerals[f[4]] /\ n7 = Numerals[f[7]]
  BY NumbersRead
<1>2. PICK p2 \in Int, p3 \in Int, p4 \in Int, p7 \in Int :
        /\ p2 = parse_uint8(f[2]) /\ p2 = IF n2 > 255 THEN -1 ELSE n2
        /\ p3 = parse_uint8(f[3]) /\ p3 = IF n3 > 255 THEN -1 ELSE n3
        /\ p4 = parse_uint8(f[4]) /\ p4 = IF n4 > 255 THEN -1 ELSE n4
        /\ p7 = parse_uint8(f[7]) /\ p7 = IF n7 > 255 THEN -1 ELSE n7
  <2>1. \E p \in Int : p = parse_uint8(f[2]) /\ p = IF n2 > 255 THEN -1 ELSE n2
    <3>1. parse_uint8(f[2]) = IF n2 > 255 THEN -1 ELSE n2
      BY <1>1, NumbersRead
    <3> QED
      BY <3>1
  <2>2. \E p \in Int : p = parse_uint8(f[3]) /\ p = IF n3 > 255 THEN -1 ELSE n3
    <3>1. parse_uint8(f[3]) = IF n3 > 255 THEN -1 ELSE n3
      BY <1>1, NumbersRead
    <3> QED
      BY <3>1
  <2>3. \E p \in Int : p = parse_uint8(f[4]) /\ p = IF n4 > 255 THEN -1 ELSE n4
    <3>1. parse_uint8(f[4]) = IF n4 > 255 THEN -1 ELSE n4
      BY <1>1, NumbersRead
    <3> QED
      BY <3>1
  <2>4. \E p \in Int : p = parse_uint8(f[7]) /\ p = IF n7 > 255 THEN -1 ELSE n7
    <3>1. parse_uint8(f[7]) = IF n7 > 255 THEN -1 ELSE n7
      BY <1>1, NumbersRead
    <3> QED
      BY <3>1
  <2> QED
    BY <2>1, <2>2, <2>3, <2>4
<1>3. /\ Len(f[1]) = 5 /\ Talker(f) \in kValidTalkers /\ Type(f) \in TypeNames
      /\ CountIsValid(f) /\ IndexIsValid(f) /\ SeqIdIsValid(f)
      /\ ~(f[6] = <<>> /\ parse_uint8(f[2]) = 1)
      /\ parse_uint8(f[7]) \in 0 .. 5
  BY DEF FieldError, is_valid_talker
<1>4. p2 = n2 /\ n2 \in 1 .. 5
  <2>1. p2 \in 1 .. 5
    BY <1>2, <1>3, ParserAssumption DEF CountIsValid
  <2> QED
    BY <1>2, <2>1
<1>5. p3 = n3 /\ 1 <= n3 /\ n3 <= n2
  <2>1. p3 \in 1 .. p2
    BY <1>2, <1>3 DEF IndexIsValid
  <2> QED
    BY <1>2, <1>4, <2>1
<1>6. f[4] = <<>> => n2 = 1
  BY <1>2, <1>3, <1>4 DEF SeqIdIsValid
<1>7. f[4] # <<>> => p4 = n4 /\ n4 \in 0 .. 9
  <2>1. f[4] # <<>> => p4 \in 0 .. 9
    BY <1>2, <1>3 DEF SeqIdIsValid, kMaxSeqId
  <2> QED
    BY <1>2, <2>1
<1>8. p7 = n7 /\ n7 \in 0 .. 5
  <2>1. p7 \in 0 .. 5
    BY <1>2, <1>3
  <2> QED
    BY <1>2, <2>1
<1>9. ~(Len(Line(f)) < 19)
  <2>1. IsText(f)
    BY Written
  <2>2. Len(Joined(f)) >= 15 /\ Len(Line(f)) = Len(Joined(f)) + 4
    BY <2>1, AcceptedLength, LineIsFramed
  <2>3. Joined(f) \in Seq(Characters)
    BY <2>1, SplitJoined
  <2>4. PICK n \in Nat : n = Len(Joined(f))
    BY <2>3
  <2> QED
    BY <2>2, <2>4
<1>10. /\ 1 <= Numerals[f[3]] /\ Numerals[f[3]] <= Numerals[f[2]]
       /\ Numerals[f[2]] \in 1 .. 5 /\ Numerals[f[7]] \in 0 .. 5
  BY <1>1, <1>4, <1>5, <1>8
<1>11. Numerals[f[4]] \in 0 .. 9 \/ (f[4] = <<>> /\ Numerals[f[2]] = 1)
  BY <1>1, <1>6, <1>7
<1>12. ~(f[6] = <<>> /\ Numerals[f[2]] = 1)
  BY <1>1, <1>2, <1>3, <1>4
<1>13. Enforced(f) = {}
  BY <1>3, <1>9, <1>10, <1>11, <1>12, Blameless
<1> QED
  BY <1>1, <1>2, <1>4, <1>5, <1>7, <1>8, <1>13

(* What GrammarDecides says of the fields f and what parse() returned.      *)
Decided(f, r) ==
  IF Enforced(f) # {}
  THEN r.kind = "error" /\ r.code \in Enforced(f)
  ELSE /\ r.kind = "sentence"
       /\ r.sentence.part_count = Numerals[f[2]]
       /\ r.sentence.part_index = Numerals[f[3]]
       /\ r.sentence.seq_id = IF f[4] = <<>> THEN NoSeqId ELSE Numerals[f[4]]
       /\ r.sentence.payload = f[6]
       /\ r.sentence.fill_bits = Numerals[f[7]]

LEMMA ParseDecides ==
  ASSUME NEW f \in WrittenLines, NEW end \in LineEnds
  PROVE  Decided(f, parse(Line(f) \o end))
<1>1. IsText(f)
  BY Written
<1>2. PICK w \in Seq(Characters) : w = Line(f) \o end /\ Framed(w, Joined(f))
  BY <1>1, EndIsFramed
<1>3. PICK n \in Nat, m \in Nat : n = Len(Joined(f)) /\ m = Len(f) /\ Len(Line(f)) = n + 4
  <2>1. Joined(f) \in Seq(Characters) /\ f \in Seq(Seq(Characters))
    BY <1>1, SplitJoined DEF IsText
  <2> QED
    BY <1>1, <2>1, LineIsFramed
<1>4. parse(w) = IF n + 4 < 14 THEN Failure("SentenceTooShort")
                 ELSE IF m < 7 THEN Failure("SentenceFieldMissing")
                 ELSE IF FieldError(f) # "Ok" THEN Failure(FieldError(f))
                 ELSE Parsed(SentenceOf(f), ChannelOf(f))
  BY <1>1, <1>2, <1>3, ParseIntact
<1>5. ASSUME NEW c \in Enforced(f)
      PROVE  Decided(f, Failure(c))
  <2>1. Failure(c).kind = "error" /\ Failure(c).code = c
    BY DEF Failure
  <2> QED
    BY <2>1 DEF Decided
<1>6. CASE n + 4 < 14
  <2>1. "SentenceTooShort" \in Enforced(f)
    <3>1. Len(Line(f)) < 19
      BY <1>3, <1>6
    <3> QED
      BY <3>1, Blames
  <2> QED
    BY <1>2, <1>4, <1>5, <1>6, <2>1
<1>7. CASE ~(n + 4 < 14) /\ m < 7
  <2>1. "SentenceFieldMissing" \in Enforced(f)
    <3>1. ~(Len(f) >= 7)
      BY <1>3, <1>7
    <3> QED
      BY <3>1, Blames
  <2> QED
    BY <1>2, <1>4, <1>5, <1>7, <2>1
<1>8. CASE ~(n + 4 < 14) /\ ~(m < 7) /\ FieldError(f) # "Ok"
  <2>1. Len(f) >= 7
    BY <1>3, <1>8
  <2>2. FieldError(f) \in Enforced(f)
    BY <1>8, <2>1, ErrorIsBlamed
  <2> QED
    BY <1>2, <1>4, <1>5, <1>8, <2>2
<1>9. CASE ~(n + 4 < 14) /\ ~(m < 7) /\ FieldError(f) = "Ok"
  <2>1. Len(f) >= 7
    BY <1>3, <1>9
  <2>2. /\ Enforced(f) = {}
        /\ parse_uint8(f[2]) = Numerals[f[2]]
        /\ parse_uint8(f[3]) = Numerals[f[3]]
        /\ f[4] # <<>> => parse_uint8(f[4]) = Numerals[f[4]]
        /\ parse_uint8(f[7]) = Numerals[f[7]]
    BY <1>9, <2>1, AcceptedIsBlameless
  <2>3. PICK r : r = parse(w)
    OBVIOUS
  <2>4. r.kind = "sentence" /\ r.sentence = SentenceOf(f)
    BY <1>4, <1>9, <2>3 DEF Parsed
  <2>5. /\ SentenceOf(f).part_count = parse_uint8(f[2])
        /\ SentenceOf(f).part_index = parse_uint8(f[3])
        /\ SentenceOf(f).seq_id = IF f[4] = <<>> THEN NoSeqId ELSE parse_uint8(f[4])
        /\ SentenceOf(f).payload = f[6]
        /\ SentenceOf(f).fill_bits = parse_uint8(f[7])
    BY DEF SentenceOf
  <2>6. Decided(f, r)
    BY <2>2, <2>4, <2>5 DEF Decided
  <2> QED
    BY <1>2, <2>3, <2>6
<1> QED
  BY <1>6, <1>7, <1>8, <1>9

-----------------------------------------------------------------------------
(* A piece of k characters of a text.                                       *)
LEMMA PieceIs ==
  ASSUME NEW s \in Seq(Characters), NEW m \in Nat, NEW n \in Nat, NEW k \in Nat,
         1 <= m, n <= Len(s), n = m + k - 1, NEW r, r = SubSeq(s, m, n)
  PROVE  r \in Seq(Characters) /\ Len(r) = k /\ \A j \in 1 .. k : r[j] = s[m + j - 1]
<1>1. \A i \in m .. n : s[i] \in Characters
  OBVIOUS
<1>2. /\ SubSeq(s, m, n) \in Seq(Characters)
      /\ Len(SubSeq(s, m, n)) = IF m <= n THEN n - m + 1 ELSE 0
      /\ \A i \in 1 .. n - m + 1 : SubSeq(s, m, n)[i] = s[m + i - 1]
  BY <1>1, SubSeqProperties
<1>3. n - m + 1 = k /\ k = IF m <= n THEN n - m + 1 ELSE 0
  OBVIOUS
<1> QED
  BY <1>2, <1>3

(* The places around place i of n.                                          *)
LEMMA PlacesAround ==
  ASSUME NEW n \in Nat, NEW i \in 1 .. n
  PROVE  /\ i + 1 \in Nat /\ n - i \in Nat /\ 1 <= i + 1
         /\ n = (i + 1) + (n - i) - 1
         /\ (i - 1) + (n - i) = n - 1
         /\ \A j \in 1 .. n - i : (i + 1) + j - 1 = i + j
OBVIOUS

(* One damage, done to a line w that arrives as it was written.             *)
LEMMA GarbledIsFaithful ==
  ASSUME NEW f, IsText(f), Len(f) >= 7, NEW w \in Seq(Characters), Framed(w, Joined(f)),
         NEW i \in DOMAIN w, NEW c \in Characters \ {w[i]}
  PROVE  ReplaceAt(w, i, c) \in Seq(Characters) /\ Faithful(ReplaceAt(w, i, c), f)
<1>1. PICK d \in Seq(Characters) : d = Joined(f) /\ Clean(d)
  BY SplitJoined, JoinedIsClean
<1>2. PICK v : v = ReplaceAt(w, i, c)
  OBVIOUS
<1>3. i \in 1 .. Len(w)
  OBVIOUS
<1>4. /\ v \in Seq(Characters) /\ Len(v) = Len(w)
      /\ v[i] = c /\ \A j \in 1 .. Len(w) : j # i => v[j] = w[j]
  BY <1>2, <1>3, ExceptSeq DEF ReplaceAt
<1>5. ASSUME NEW b, NEW k, NEW p, FrameAt(v, b, k, p)
      PROVE  b = d
  BY <1>1, <1>3, <1>4, <1>5, GarbleIsDetected
<1>6. Faithful(v, f)
  BY <1>1, <1>4, <1>5, SameBody
<1> QED
  BY <1>2, <1>4, <1>6

LEMMA DroppedIsFaithful ==
  ASSUME NEW f, IsText(f), Len(f) >= 7, NEW w \in Seq(Characters), Framed(w, Joined(f)),
         NEW i \in DOMAIN w
  PROVE  RemoveAt(w, i) \in Seq(Characters) /\ Faithful(RemoveAt(w, i), f)
<1>1. PICK d \in Seq(Characters) : d = Joined(f) /\ Clean(d)
  BY SplitJoined, JoinedIsClean
<1>2. PICK n \in Nat : n = Len(w)
  OBVIOUS
<1>3. i \in 1 .. n
  BY <1>2
<1>4. PICK q \in Seq(Characters) :
        q = SubSeq(w, 1, i - 1) /\ Len(q) = i - 1 /\ \A j \in 1 .. i - 1 : q[j] = w[j]
  <2>1. i - 1 \in Int /\ i - 1 <= Len(w) /\ 1 \in Nat /\ 1 >= 1
    BY <1>2, <1>3
  <2>2. SubSeq(w, 1, i - 1) \in Seq(Characters)
    BY <2>1, Pieces
  <2>3. /\ Len(SubSeq(w, 1, i - 1)) = i - 1
        /\ \A j \in 1 .. i - 1 : SubSeq(w, 1, i - 1)[j] = w[j]
    BY <1>2, <1>3
  <2> QED
    BY <2>2, <2>3
<1>5. PICK r \in Seq(Characters) :
        r = SubSeq(w, i + 1, Len(w)) /\ Len(r) = n - i /\ \A j \in 1 .. n - i : r[j] = w[i + j]
  <2>1. PICK a \in Nat, k \in Nat : a = i + 1 /\ k = n - i /\ 1 <= a /\ n = a + k - 1
    <3>1. i + 1 \in Nat /\ n - i \in Nat /\ 1 <= i + 1 /\ n = (i + 1) + (n - i) - 1
      BY <1>3, PlacesAround
    <3> QED
      BY <3>1
  <2>2. PICK r : r = SubSeq(w, a, n)
    OBVIOUS
  <2>3. r \in Seq(Characters) /\ Len(r) = k /\ \A j \in 1 .. k : r[j] = w[a + j - 1]
    <3>1. n <= Len(w)
      BY <1>2
    <3>2. 1 <= a /\ n = a + k - 1
      BY <2>1
    <3> QED
      BY <2>2, <3>1, <3>2, PieceIs
  <2>4. \A j \in 1 .. k : a + j - 1 = i + j
    <3>1. \A j \in 1 .. n - i : (i + 1) + j - 1 = i + j
      BY <1>3, PlacesAround
    <3> QED
      BY <2>1, <3>1, Zenon
  <2>5. \A j \in 1 .. n - i : r[j] = w[i + j]
    BY <2>1, <2>3, <2>4
  <2>6. r = SubSeq(w, i + 1, Len(w))
    BY <1>2, <2>1, <2>2
  <2> QED
    BY <2>1, <2>3, <2>5, <2>6
<1>6. PICK v : v = RemoveAt(w, i)
  OBVIOUS
<1>7. v = q \o r
  BY <1>4, <1>5, <1>6 DEF RemoveAt
<1>8. /\ v \in Seq(Characters) /\ Len(v) = n - 1
      /\ \A j \in 1 .. i - 1 : v[j] = q[j]
      /\ \A j \in 1 .. n - i : v[(i - 1) + j] = r[j]
  <2>1. /\ q \o r \in Seq(Characters) /\ Len(q \o r) = Len(q) + Len(r)
        /\ \A j \in 1 .. Len(q) : (q \o r)[j] = q[j]
        /\ \A j \in 1 .. Len(r) : (q \o r)[Len(q) + j] = r[j]
    BY Appended
  <2>2. Len(q) = i - 1 /\ Len(r) = n - i
    BY <1>4, <1>5
  <2>3. (i - 1) + (n - i) = n - 1
    BY <1>3, PlacesAround
  <2> QED
    BY <1>7, <2>1, <2>2, <2>3
<1>9. \A j \in 1 .. i - 1 : v[j] = w[j]
  BY <1>4, <1>8
<1>10. ASSUME NEW j \in i .. Len(v)
       PROVE  v[j] = w[j + 1]
  <2>1. PICK x \in 1 .. n - i : j = (i - 1) + x /\ j + 1 = i + x
    <3>1. j \in i .. n - 1
      BY <1>8
    <3>2. j - (i - 1) \in 1 .. n - i
      BY <1>2, <1>3, <3>1
    <3>3. j = (i - 1) + (j - (i - 1)) /\ j + 1 = i + (j - (i - 1))
      BY <1>3, <3>1
    <3> QED
      BY <3>2, <3>3
  <2>2. v[(i - 1) + x] = r[x] /\ r[x] = w[i + x]
    BY <1>5, <1>8
  <2> QED
    BY <2>1, <2>2
<1>11. Lost(v, w, i)
  BY <1>2, <1>3, <1>8, <1>9, <1>10 DEF Lost
<1>12. ASSUME NEW b, NEW k, NEW p, FrameAt(v, b, k, p)
       PROVE  b = d
  BY <1>1, <1>8, <1>11, <1>12, DropIsDetected
<1>13. Faithful(v, f)
  BY <1>1, <1>8, <1>12, SameBody
<1> QED
  BY <1>6, <1>8, <1>13

LEMMA CutIsFaithful ==
  ASSUME NEW f, IsText(f), Len(f) >= 7, NEW w \in Seq(Characters), Framed(w, Joined(f)),
         NEW n \in 0 .. Len(w) - 1
  PROVE  SubSeq(w, 1, n) \in Seq(Characters) /\ Faithful(SubSeq(w, 1, n), f)
<1>1. PICK d \in Seq(Characters) : d = Joined(f) /\ Clean(d)
  BY SplitJoined, JoinedIsClean
<1>2. PICK v : v = SubSeq(w, 1, n)
  OBVIOUS
<1>3. n \in Int /\ n <= Len(w) /\ 1 \in Nat /\ 1 >= 1
  OBVIOUS
<1>4. v \in Seq(Characters)
  BY <1>2, <1>3, Pieces
<1>5. Len(v) <= Len(w) /\ \A j \in 1 .. Len(v) : v[j] = w[j]
  BY <1>2, <1>3
<1>6. ASSUME NEW b, NEW k, NEW p, FrameAt(v, b, k, p)
      PROVE  b = d
  BY <1>1, <1>4, <1>5, <1>6, CutIsDetected
<1>7. Faithful(v, f)
  BY <1>1, <1>4, <1>6, SameBody
<1> QED
  BY <1>2, <1>4, <1>7

LEMMA JoinedIsFaithful ==
  ASSUME NEW f, IsText(f), Len(f) >= 7, NEW w \in Seq(Characters), Framed(w, Joined(f)),
         NEW g, IsText(g)
  PROVE  w \o Line(g) \in Seq(Characters) /\ Faithful(w \o Line(g), f)
<1>1. Line(g) \in Seq(Characters)
  BY LineIsFramed
<1>2. w \o Line(g) \in Seq(Characters)
  BY <1>1, Appended
<1>3. Faithful(w \o Line(g), f)
  BY JoinIsDetected
<1> QED
  BY <1>2, <1>3

-----------------------------------------------------------------------------
(* The line stays text; until it is damaged it is what was written, with or *)
(* without an end of line, and after one damage parse() makes of it what it *)
(* makes of what was written, or refuses it.                                *)
Fault == [kind : {"garble", "drop", "cut", "join"}, at : Nat]

LineInv ==
  /\ fields \in WrittenLines
  /\ line \in Seq(Characters)
  /\ faults \in Seq(Fault)
  /\ result = Idle \/ result = parse(line)
  /\ faults = <<>> => \E end \in LineEnds : line = Line(fields) \o end
  /\ Len(faults) = 1 => Faithful(line, fields)

LEMMA LineInvInitially == Init => LineInv
<1> SUFFICES ASSUME Init PROVE LineInv
  OBVIOUS
<1>1. fields \in WrittenLines /\ faults = <<>> /\ result = Idle
  BY DEF Init
<1>2. PICK end \in LineEnds : line = Line(fields) \o end
  BY DEF Init
<1>3. line \in Seq(Characters)
  BY <1>1, <1>2, Written, EndIsFramed
<1>4. faults \in Seq(Fault) /\ Len(faults) # 1
  BY <1>1
<1> QED
  BY <1>1, <1>2, <1>3, <1>4 DEF LineInv

LEMMA LineInvStep == LineInv /\ [Next]_vars => LineInv'
<1> SUFFICES ASSUME LineInv, [Next]_vars PROVE LineInv'
  OBVIOUS
<1>1. ASSUME NEW fault \in Fault, NEW to \in Seq(Characters), Damaged(fault, to),
             faults = <<>> => Faithful(to, fields)
      PROVE  LineInv'
  <2>1. /\ fields' = fields /\ line' = to /\ result = Idle /\ result' = Idle
        /\ faults' = Append(faults, fault)
    BY <1>1 DEF Damaged
  <2>2. faults' \in Seq(Fault) /\ Len(faults') = Len(faults) + 1 /\ Len(faults) \in Nat
    BY <2>1 DEF LineInv
  <2>3. faults' # <<>>
    BY <2>2
  <2>4. Len(faults') = 1 => faults = <<>>
    BY <2>2 DEF LineInv
  <2> QED
    BY <1>1, <2>1, <2>2, <2>3, <2>4 DEF LineInv
<1>2. ASSUME fields \in ExposedLines, faults = <<>>
      PROVE  /\ IsText(fields) /\ Len(fields) >= 7
             /\ line \in Seq(Characters) /\ Framed(line, Joined(fields))
  <2>1. fields \in WrittenLines /\ Len(fields) >= 7
    BY <1>2, ParserAssumption
  <2>2. IsText(fields)
    BY <2>1, Written
  <2>3. PICK end \in LineEnds : line = Line(fields) \o end
    BY <1>2 DEF LineInv
  <2> QED
    BY <2>1, <2>2, <2>3, EndIsFramed
<1>3. CASE Garble
  <2>1. PICK i \in DOMAIN line :
          \E c \in Characters \ {line[i]} :
            Damaged([kind |-> "garble", at |-> i], ReplaceAt(line, i, c))
    BY <1>3 DEF Garble
  <2>2. PICK c \in Characters \ {line[i]} :
          Damaged([kind |-> "garble", at |-> i], ReplaceAt(line, i, c))
    BY <2>1
  <2>3. [kind |-> "garble", at |-> i] \in Fault
    BY DEF Fault, LineInv
  <2>4. ReplaceAt(line, i, c) \in Seq(Characters)
    BY ExceptSeq DEF ReplaceAt, LineInv
  <2>5. faults = <<>> => Faithful(ReplaceAt(line, i, c), fields)
    BY <1>2, <2>2, GarbledIsFaithful DEF Damaged
  <2> QED
    BY <1>1, <2>2, <2>3, <2>4, <2>5
<1>4. CASE Drop
  <2>1. PICK i \in DOMAIN line :
          Damaged([kind |-> "drop", at |-> i], RemoveAt(line, i))
    BY <1>4 DEF Drop
  <2>2. [kind |-> "drop", at |-> i] \in Fault
    BY DEF Fault, LineInv
  <2>3. RemoveAt(line, i) \in Seq(Characters)
    <3>1. /\ i \in 1 .. Len(line) /\ i - 1 \in Int /\ i - 1 <= Len(line) /\ 1 \in Nat /\ 1 >= 1
          /\ i + 1 \in Nat /\ i + 1 >= 1 /\ Len(line) \in Int /\ Len(line) <= Len(line)
      BY DEF LineInv
    <3>2. line \in Seq(Characters)
      BY DEF LineInv
    <3>3. SubSeq(line, 1, i - 1) \in Seq(Characters)
      BY <3>1, <3>2, Pieces
    <3>4. SubSeq(line, i + 1, Len(line)) \in Seq(Characters)
      BY <3>1, <3>2, Pieces
    <3> QED
      BY <3>3, <3>4 DEF RemoveAt
  <2>4. faults = <<>> => Faithful(RemoveAt(line, i), fields)
    BY <1>2, <2>1, DroppedIsFaithful DEF Damaged
  <2> QED
    BY <1>1, <2>1, <2>2, <2>3, <2>4
<1>5. CASE Cut
  <2>1. PICK n \in 0 .. Len(line) - 1 :
          Damaged([kind |-> "cut", at |-> n], SubSeq(line, 1, n))
    BY <1>5 DEF Cut
  <2>2. [kind |-> "cut", at |-> n] \in Fault
    BY DEF Fault, LineInv
  <2>3. SubSeq(line, 1, n) \in Seq(Characters)
    <3>1. n \in Int /\ n <= Len(line) /\ 1 \in Nat /\ 1 >= 1 /\ line \in Seq(Characters)
      BY DEF LineInv
    <3> QED
      BY <3>1, Pieces
  <2>4. faults = <<>> => Faithful(SubSeq(line, 1, n), fields)
    BY <1>2, <2>1, CutIsFaithful DEF Damaged
  <2> QED
    BY <1>1, <2>1, <2>2, <2>3, <2>4
<1>6. CASE Join
  <2>1. PICK g \in ExposedLines :
          Damaged([kind |-> "join", at |-> Len(line)], line \o Line(g))
    BY <1>6 DEF Join
  <2>2. [kind |-> "join", at |-> Len(line)] \in Fault
    BY DEF Fault, LineInv
  <2>3. IsText(g)
    BY ParserAssumption, Written
  <2>4. line \o Line(g) \in Seq(Characters)
    <3>1. Line(g) \in Seq(Characters)
      BY <2>3, LineIsFramed
    <3> QED
      BY <3>1 DEF LineInv
  <2>5. faults = <<>> => Faithful(line \o Line(g), fields)
    BY <1>2, <2>1, <2>3, JoinedIsFaithful DEF Damaged
  <2> QED
    BY <1>1, <2>1, <2>2, <2>4, <2>5
<1>7. CASE Parse
  BY <1>7 DEF Parse, LineInv
<1>8. CASE UNCHANGED vars
  BY <1>8 DEF vars, LineInv
<1> QED
  BY <1>3, <1>4, <1>5, <1>6, <1>7, <1>8 DEF Next

LEMMA LineInvHolds == Spec => []LineInv
BY LineInvInitially, LineInvStep, PTL DEF Spec

(* Whatever characters a line is made of, and whatever damages are done to  *)
(* it, parse() returns one of its errors or a sentence within the bounds    *)
(* that the assembler's models start from.                                  *)
THEOREM TypeCorrect == Spec => []TypeOK
<1>1. LineInv => TypeOK
  <2> SUFFICES ASSUME LineInv, result # Idle PROVE TypeOK
    BY DEF LineInv, TypeOK
  <2>1. line \in Seq(Characters) /\ result = parse(line)
    BY DEF LineInv
  <2>2. Outcome(result)
    BY <2>1, ParseOutcome
  <2> QED
    BY <2>2 DEF Outcome, TypeOK
<1> QED
  BY <1>1, LineInvHolds, PTL

(* Of every line that arrives as it was written, parse() makes what the     *)
(* rules of sentence.h say, but for the seq_id of a single-part sentence:   *)
(* the sentence that its fields spell if they keep every other rule, and    *)
(* otherwise an error that names one of the others which they break.        *)
THEOREM GrammarDecided == Spec => []GrammarDecides
<1>1. LineInv => GrammarDecides
  <2> SUFFICES ASSUME LineInv, result # Idle, faults = <<>>
               PROVE  Decided(fields, result)
    BY DEF GrammarDecides, Decided
  <2>1. fields \in WrittenLines /\ result = parse(line)
    BY DEF LineInv
  <2>2. PICK end \in LineEnds : line = Line(fields) \o end
    BY DEF LineInv
  <2> QED
    BY <2>1, <2>2, ParseDecides
<1> QED
  BY <1>1, LineInvHolds, PTL

(* Whatever single character of a sentence is lost or garbled, wherever the *)
(* line is cut, and whatever sentence is glued to it, parse() returns an    *)
(* error or what it returns of the line intact.                             *)
THEOREM DamageDetected == Spec => []DamageIsDetected
<1>1. LineInv => DamageIsDetected
  BY DEF LineInv, DamageIsDetected, Faithful
<1> QED
  BY <1>1, LineInvHolds, PTL
=============================================================================
