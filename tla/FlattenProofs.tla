----------------------------- MODULE FlattenProofs -----------------------------
(***************************************************************************)
(* Facts about FlattenSeq, for sequences of any length: its type, and what *)
(* it is of no sequence, of one, of two joined, and of singletons.  It is  *)
(* a recursive function of the community modules, so they rest on          *)
(* induction, in the form of the least number that does not have a         *)
(* property.                                                               *)
(***************************************************************************)
EXTENDS SequencesExt, SequenceTheorems, WellFoundedInduction, TLAPS

\* What holds of 0, and with each number of the next, holds of all.
LEMMA Induction ==
    ASSUME NEW T, 0 \in T, \A n \in Nat : n \in T => n + 1 \in T
    PROVE  \A n \in Nat : n \in T
<1> DEFINE R == OpToRel(<, Nat)
           S == Nat \ T
<1>1. SUFFICES ASSUME S # {}
               PROVE  FALSE
  OBVIOUS
<1>2. IsWellFoundedOn(R, Nat)
  BY NatLessThanWellFounded, Zenon
<1>3. \A n, m \in Nat : n < m => <<n, m>> \in R
  BY Zenon DEF OpToRel
<1> HIDE DEF R
<1>4. PICK n \in S : \A m \in S : ~(<<m, n>> \in R)
  BY <1>1, <1>2, WFMin
<1>5. n # 0 /\ n - 1 \in Nat /\ n - 1 < n
  OBVIOUS
<1>6. n - 1 \in T
  BY <1>3, <1>4, <1>5
<1>7. (n - 1) + 1 \in T
  BY <1>5, <1>6
<1> QED
  BY <1>5, <1>7

-----------------------------------------------------------------------------
\* FlattenSeq of the first n.
Flattens(seqs, n, f) ==
    f = [i \in 1..n |-> IF i = 1 THEN seqs[i] ELSE f[i - 1] \o seqs[i]]

\* There is such a function.
LEMMA FlattensExists ==
    ASSUME NEW seqs, NEW n \in Nat
    PROVE  \E f : Flattens(seqs, n, f)
<1> DEFINE T == {k \in Nat : \E f : Flattens(seqs, k, f)}
<1>1. 0 \in T
  <2>1. Flattens(seqs, 0, [i \in 1..0 |-> seqs[i]])
    BY DEF Flattens
  <2> QED
    BY <2>1
<1>2. ASSUME NEW k \in Nat, k \in T
      PROVE  k + 1 \in T
  <2>1. PICK f : Flattens(seqs, k, f)
    BY <1>2
  <2> DEFINE g == [i \in 1..(k + 1) |->
                     IF i \in 1..k THEN f[i]
                     ELSE IF i = 1 THEN seqs[i] ELSE f[i - 1] \o seqs[i]]
  <2>2. \A i \in 1..(k + 1) :
            g[i] = IF i = 1 THEN seqs[i] ELSE g[i - 1] \o seqs[i]
    <3> SUFFICES ASSUME NEW i \in 1..(k + 1)
                 PROVE  g[i] = IF i = 1 THEN seqs[i] ELSE g[i - 1] \o seqs[i]
      OBVIOUS
    <3>1. i # 1 => i - 1 \in 1..k /\ g[i - 1] = f[i - 1]
      OBVIOUS
    <3>2. i \in 1..k => f[i] = IF i = 1 THEN seqs[i] ELSE f[i - 1] \o seqs[i]
      BY <2>1 DEF Flattens
    <3> QED
      BY <3>1, <3>2
  <2>3. Flattens(seqs, k + 1, g)
    BY <2>2 DEF Flattens
  <2> HIDE DEF g
  <2> QED
    BY <2>3
<1>3. \A k \in Nat : k \in T
  <2> HIDE DEF T
  <2> QED BY <1>1, <1>2, Induction
<1> QED
  BY <1>3

\* FlattenSeq is its last value.
LEMMA FlattenIs ==
    ASSUME NEW S, NEW seqs \in Seq(S), seqs # <<>>
    PROVE  \E f : Flattens(seqs, Len(seqs), f) /\ FlattenSeq(seqs) = f[Len(seqs)]
<1> DEFINE F == CHOOSE f : Flattens(seqs, Len(seqs), f)
<1>1. Len(seqs) \in Nat /\ Len(seqs) # 0
  OBVIOUS
<1>2. Flattens(seqs, Len(seqs), F)
  BY <1>1, FlattensExists
<1>3. FlattenSeq(seqs) = F[Len(seqs)]
  BY <1>1 DEF FlattenSeq, Flattens
<1> QED
  BY <1>2, <1>3

\* Of no sequence.
LEMMA FlattenEmpty == FlattenSeq(<<>>) = <<>>
  BY DEF FlattenSeq

\* Its first value, and the one after another.
LEMMA FlattensFirst ==
    ASSUME NEW seqs, NEW n \in Nat, NEW f, Flattens(seqs, n, f), 1 \in 1..n
    PROVE  f[1] = seqs[1]
  BY DEF Flattens

LEMMA FlattensNext ==
    ASSUME NEW seqs, NEW n \in Nat, NEW f, Flattens(seqs, n, f),
           NEW k \in 1..n, k + 1 \in 1..n
    PROVE  f[k + 1] = f[k] \o seqs[k + 1]
<1>1. \A i \in 1..n : f[i] = IF i = 1 THEN seqs[i] ELSE f[i - 1] \o seqs[i]
  BY DEF Flattens
<1>2. k + 1 \in 1..n /\ k + 1 # 1 /\ (k + 1) - 1 = k
  OBVIOUS
<1> QED
  BY <1>1, <1>2

\* Its values are sequences over the same set.
LEMMA FlattensType ==
    ASSUME NEW S, NEW seqs \in Seq(Seq(S)), NEW f, Flattens(seqs, Len(seqs), f)
    PROVE  \A k \in 1..Len(seqs) : f[k] \in Seq(S)
<1> DEFINE T == {k \in Nat : k \in 1..Len(seqs) => f[k] \in Seq(S)}
<1>0. Len(seqs) \in Nat
  OBVIOUS
<1>1. 0 \in T
  OBVIOUS
<1>2. ASSUME NEW k \in Nat, k \in T
      PROVE  k + 1 \in T
  <2>1. CASE k + 1 \in 1..Len(seqs)
    <3>1. seqs[k + 1] \in Seq(S)
      BY <2>1, ElementOfSeq
    <3>2. CASE k = 0
      <4>1. f[1] = seqs[1]
        BY <1>0, <2>1, <3>2, FlattensFirst
      <4>2. f[k + 1] \in Seq(S)
        BY <3>1, <3>2, <4>1
      <4> QED
        BY <4>2
    <3>3. CASE k # 0
      <4>1. k \in 1..Len(seqs)
        BY <1>0, <2>1, <3>3
      <4>2. f[k] \in Seq(S)
        BY <1>2, <4>1
      <4>3. f[k + 1] = f[k] \o seqs[k + 1]
        BY <1>0, <2>1, <4>1, FlattensNext
      <4>4. f[k] \o seqs[k + 1] \in Seq(S)
        BY <3>1, <4>2, ConcatProperties
      <4>5. f[k + 1] \in Seq(S)
        BY <4>3, <4>4, Zenon
      <4> QED
        BY <4>5
    <3> QED
      BY <3>2, <3>3
  <2> QED
    BY <2>1
<1>3. \A k \in Nat : k \in T
  <2> HIDE DEF T
  <2> QED BY <1>1, <1>2, Induction
<1> QED
  BY <1>0, <1>3

\* So is what they flatten to.
LEMMA FlattenType ==
    ASSUME NEW S, NEW seqs \in Seq(Seq(S))
    PROVE  FlattenSeq(seqs) \in Seq(S)
<1>1. CASE seqs = <<>>
  BY <1>1, FlattenEmpty, EmptySeq
<1>2. CASE seqs # <<>>
  <2>1. PICK f : Flattens(seqs, Len(seqs), f) /\ FlattenSeq(seqs) = f[Len(seqs)]
    BY <1>2, FlattenIs
  <2>2. Len(seqs) \in 1..Len(seqs)
    BY <1>2, EmptySeq
  <2> QED
    BY <2>1, <2>2, FlattensType
<1> QED
  BY <1>1, <1>2

\* One sequence flattens to itself.
LEMMA FlattenOne ==
    ASSUME NEW S, NEW x \in Seq(S)
    PROVE  FlattenSeq(<<x>>) = x
<1>1. <<x>> \in Seq(Seq(S)) /\ <<x>> # <<>> /\ Len(<<x>>) = 1
  OBVIOUS
<1>2. PICK f : Flattens(<<x>>, 1, f) /\ FlattenSeq(<<x>>) = f[1]
  BY <1>1, FlattenIs
<1> QED
  BY <1>2, FlattensFirst

\* What comes after a part does not matter to the part.
LEMMA FlattensPrefix ==
    ASSUME NEW start, NEW whole, NEW m \in Nat, NEW n \in Nat, NEW f, NEW h,
           Flattens(start, m, f), Flattens(whole, n, h),
           m <= n, \A i \in 1..m : whole[i] = start[i]
    PROVE  \A k \in 1..m : h[k] = f[k]
<1> DEFINE T == {k \in Nat : k \in 1..m => h[k] = f[k]}
<1>1. 0 \in T
  OBVIOUS
<1>2. ASSUME NEW k \in Nat, k \in T
      PROVE  k + 1 \in T
  <2>1. CASE k + 1 \in 1..m
    <3>1. k + 1 \in 1..n /\ whole[k + 1] = start[k + 1]
      BY <2>1
    <3>2. CASE k = 0
      <4>1. f[1] = start[1]
        BY <2>1, <3>2, FlattensFirst
      <4>2. h[1] = whole[1]
        BY <3>1, <3>2, FlattensFirst
      <4> QED
        BY <3>1, <3>2, <4>1, <4>2
    <3>3. CASE k # 0
      <4>1. k \in 1..m /\ k \in 1..n
        BY <2>1, <3>1, <3>3
      <4>2. f[k + 1] = f[k] \o start[k + 1]
        BY <2>1, <4>1, FlattensNext
      <4>3. h[k + 1] = h[k] \o whole[k + 1]
        BY <3>1, <4>1, FlattensNext
      <4>4. h[k] = f[k]
        BY <1>2, <4>1
      <4>5. h[k + 1] = f[k + 1]
        BY <3>1, <4>2, <4>3, <4>4, Zenon
      <4> QED
        BY <4>5
    <3> QED
      BY <3>2, <3>3
  <2> QED
    BY <2>1
<1>3. \A k \in Nat : k \in T
  <2> HIDE DEF T
  <2> QED BY <1>1, <1>2, Induction
<1> QED
  BY <1>3

\* Where a part ends, the whole has the value of the part.
LEMMA FlattensPart ==
    ASSUME NEW start, NEW whole, NEW m \in Nat, NEW n \in Nat, m # 0, NEW f, NEW h, NEW s,
           Flattens(start, m, f), Flattens(whole, m + n, h),
           \A i \in 1..m : whole[i] = start[i], s = f[m]
    PROVE  h[m] = s
<1>1. m <= m + n /\ m + n \in Nat /\ m \in 1..m
  OBVIOUS
<1>2. \A k \in 1..m : h[k] = f[k]
  BY <1>1, FlattensPrefix
<1> QED
  BY <1>1, <1>2

\* After its first m parts, whose flattening is s, the list c goes on like b.
GoesOn(S, b, c, m, n, g, h, s) ==
    /\ m \in Nat /\ n \in Nat /\ m # 0 /\ n # 0
    /\ Flattens(b, n, g) /\ Flattens(c, m + n, h)
    /\ s \in Seq(S) /\ s = h[m]
    /\ \A i \in 1..n : c[m + i] = b[i] /\ b[i] \in Seq(S) /\ g[i] \in Seq(S)

Follows(m, n, g, h, s) == h[m + n] = s \o g[n]

\* From there on the values of the whole follow those of the rest.
LEMMA FlattensRest ==
    \A S, b, c, m, n, g, h, s :
        GoesOn(S, b, c, m, n, g, h, s) => Follows(m, n, g, h, s)
<1> SUFFICES ASSUME NEW S, NEW b, NEW c, NEW m, NEW n, NEW g, NEW h, NEW s,
                    GoesOn(S, b, c, m, n, g, h, s)
             PROVE  h[m + n] = s \o g[n]
  BY Zenon DEF Follows
<1> DEFINE Joined(k) == h[m + k] = s \o g[k]
           U == {k \in Nat : k \in 1..n => Joined(k)}
<1>0. m \in Nat /\ n \in Nat /\ m # 0 /\ n # 0 /\ m + n \in Nat /\ 1 \in 1..n /\ n \in 1..n
  BY DEF GoesOn
<1>1. s \in Seq(S) /\ s = h[m] /\ Flattens(b, n, g) /\ Flattens(c, m + n, h)
  BY DEF GoesOn
<1>2. \A i \in 1..n : c[m + i] = b[i] /\ b[i] \in Seq(S) /\ g[i] \in Seq(S)
  BY DEF GoesOn
<1>3. ASSUME NEW k \in Nat, k \in U
      PROVE  k + 1 \in U
  <2>1. CASE k + 1 \in 1..n
    <3>1. m + k \in 1..(m + n) /\ (m + k) + 1 \in 1..(m + n) /\ m + (k + 1) = (m + k) + 1
      BY <1>0, <2>1
    <3>2. h[(m + k) + 1] = h[m + k] \o c[(m + k) + 1]
      <4> DEFINE p == m + k
      <4>1. p \in 1..(m + n) /\ p + 1 \in 1..(m + n)
        BY <3>1
      <4>2. Flattens(c, (m + n), h) /\ (m + n) \in Nat
        BY <1>0, <1>1
      <4> HIDE DEF p
      <4>3. h[p + 1] = h[p] \o c[p + 1]
        BY <4>1, <4>2, FlattensNext
      <4> QED
        BY <4>3 DEF p
    <3>3. c[(m + k) + 1] = b[k + 1]
      BY <1>2, <2>1, <3>1
    <3>4. CASE k = 0
      <4>1. g[1] = b[1]
        BY <1>0, <1>1, FlattensFirst
      <4>2. m + k = m /\ k + 1 = 1
        BY <1>0, <3>4
      <4>3. Joined(k + 1)
        BY <1>1, <3>1, <3>2, <3>3, <4>1, <4>2, Zenon
      <4> HIDE DEF Joined
      <4> QED
        BY <4>3
    <3>5. CASE k # 0
      <4>1. k \in 1..n
        BY <1>0, <2>1, <3>5
      <4>2. g[k + 1] = g[k] \o b[k + 1]
        BY <1>0, <1>1, <2>1, <4>1, FlattensNext
      <4>3. h[m + k] = s \o g[k]
        BY <1>3, <4>1
      <4>4. b[k + 1] \in Seq(S)
        BY <1>2, <2>1
      <4>5. (s \o g[k]) \o b[k + 1] = s \o (g[k] \o b[k + 1])
        <5>1. g[k] \in Seq(S)
          BY <1>2, <4>1
        <5>2. PICK v \in Seq(S), u \in Seq(S) : v = g[k] /\ u = b[k + 1]
          BY <4>4, <5>1
        <5>3. \A w1, w2, w3 \in Seq(S) : (w1 \o w2) \o w3 = w1 \o (w2 \o w3)
          BY ConcatAssociative
        <5> QED
          BY <1>1, <5>2, <5>3, Zenon
      <4>6. Joined(k + 1)
        BY <3>1, <3>2, <3>3, <4>2, <4>3, <4>5, Zenon
      <4> HIDE DEF Joined
      <4> QED
        BY <4>6
    <3> QED
      BY <3>4, <3>5
  <2> HIDE DEF Joined
  <2> QED
    BY <2>1
<1>4. \A k \in Nat : k \in U
  <2>1. 0 \in U
    BY <1>0
  <2> HIDE DEF U
  <2> QED
    BY <2>1, <1>3, Induction
<1> QED
  BY <1>0, <1>4

\* A list flattened is its first part flattened and the rest flattened.
LEMMA FlattenConcat ==
    ASSUME NEW S, NEW a \in Seq(Seq(S)), NEW b \in Seq(Seq(S))
    PROVE  FlattenSeq(a \o b) = FlattenSeq(a) \o FlattenSeq(b)
<1>1. CASE a = <<>>
  <2>1. FlattenSeq(b) \in Seq(S)
    BY FlattenType
  <2>2. a \o b = b
    BY <1>1, ConcatEmptySeq
  <2>3. <<>> \o FlattenSeq(b) = FlattenSeq(b)
    BY <2>1, ConcatEmptySeq
  <2> QED
    BY <1>1, <2>2, <2>3, FlattenEmpty, Zenon
<1>2. CASE b = <<>>
  <2>1. FlattenSeq(a) \in Seq(S)
    BY FlattenType
  <2>2. a \o b = a
    BY <1>2, ConcatEmptySeq
  <2>3. FlattenSeq(a) \o <<>> = FlattenSeq(a)
    BY <2>1, ConcatEmptySeq
  <2> QED
    BY <1>2, <2>2, <2>3, FlattenEmpty, Zenon
<1>3. CASE a # <<>> /\ b # <<>>
  <2> DEFINE c == a \o b
  <2>1. /\ c \in Seq(Seq(S)) /\ Len(c) = Len(a) + Len(b) /\ c # <<>>
        /\ \A i \in 1..Len(a) : c[i] = a[i]
        /\ \A i \in 1..Len(b) : c[Len(a) + i] = b[i]
    BY <1>3
  <2>2. Len(a) \in Nat \ {0} /\ Len(b) \in Nat \ {0}
    BY <1>3, EmptySeq
  <2>3. \A i \in 1..Len(b) : b[i] \in Seq(S)
    BY ElementOfSeq
  <2>4. FlattenSeq(a \o b) = FlattenSeq(c)
    OBVIOUS
  <2> HIDE DEF c
  <2>5. PICK f : Flattens(a, Len(a), f) /\ FlattenSeq(a) = f[Len(a)]
    BY <1>3, FlattenIs
  <2>6. PICK g : Flattens(b, Len(b), g) /\ FlattenSeq(b) = g[Len(b)]
    BY <1>3, FlattenIs
  <2>7. PICK h : Flattens(c, Len(c), h) /\ FlattenSeq(c) = h[Len(c)]
    BY <2>1, FlattenIs
  <2>8. \A i \in 1..Len(a) : f[i] \in Seq(S)
    BY <2>5, FlattensType
  <2>9. \A i \in 1..Len(b) : g[i] \in Seq(S)
    BY <2>6, FlattensType
  <2>10. PICK m \in Nat, n \in Nat : m = Len(a) /\ n = Len(b) /\ m # 0 /\ n # 0
    BY <2>2
  <2>11. Flattens(a, m, f) /\ Flattens(b, n, g) /\ Flattens(c, m + n, h)
    BY <2>1, <2>5, <2>6, <2>7, <2>10, Zenon
  <2>12. \A i \in 1..m : c[i] = a[i]
    BY <2>1, <2>10, Zenon
  <2>13. \A i \in 1..n : c[m + i] = b[i] /\ b[i] \in Seq(S) /\ g[i] \in Seq(S)
    BY <2>1, <2>3, <2>9, <2>10, Zenon
  <2>14. f[m] \in Seq(S) /\ g[n] \in Seq(S)
    BY <2>2, <2>8, <2>9, <2>10
  <2>15. PICK s \in Seq(S), t \in Seq(S) : s = f[m] /\ t = g[n]
    BY <2>14
  <2>16. h[m] = s
    BY <2>10, <2>11, <2>12, <2>15, FlattensPart
  <2>17. GoesOn(S, b, c, m, n, g, h, s)
    BY <2>10, <2>11, <2>13, <2>15, <2>16, Zenon DEF GoesOn
  <2>18. Follows(m, n, g, h, s)
    BY <2>17, FlattensRest
  <2> QED
    BY <2>1, <2>4, <2>5, <2>6, <2>7, <2>10, <2>15, <2>16, <2>18, Zenon DEF Follows
<1> QED
  BY <1>1, <1>2, <1>3

\* A list whose members are flattened one by one is the list.
LEMMA FlattenSingles ==
    ASSUME NEW S, NEW list \in Seq(S)
    PROVE  FlattenSeq([k \in DOMAIN list |-> <<list[k]>>]) = list
<1> DEFINE singles == [k \in DOMAIN list |-> <<list[k]>>]
           n == Len(list)
<1>0. n \in Nat /\ DOMAIN list = 1..n /\ \A k \in 1..n : list[k] \in S
  BY LenProperties
<1>1. /\ singles \in Seq(Seq(S)) /\ Len(singles) = n
      /\ \A k \in 1..n : singles[k] = <<list[k]>>
  <2>1. singles = [k \in 1..n |-> <<list[k]>>]
    BY <1>0
  <2>2. \A k \in 1..n : <<list[k]>> \in Seq(S)
    BY <1>0
  <2> QED
    BY <1>0, <2>1, <2>2
<1> HIDE DEF singles
<1>2. CASE n = 0
  <2>1. list = <<>>
    BY <1>2, EmptySeq
  <2>2. singles = <<>>
    BY <1>1, <1>2, EmptySeq
  <2> QED
    BY <2>1, <2>2, FlattenEmpty, Zenon DEF singles
<1>3. CASE n # 0
  <2>1. singles # <<>>
    BY <1>1, <1>3, EmptySeq
  <2>2. PICK f : Flattens(singles, Len(singles), f) /\ FlattenSeq(singles) = f[Len(singles)]
    BY <1>1, <2>1, FlattenIs
  <2>3. \A k \in 1..n : f[k] \in Seq(S)
    BY <1>1, <2>2, FlattensType
  <2> DEFINE Same(s, k) == Len(s) = k /\ \A j \in 1..k : s[j] = list[j]
             T == {k \in Nat : k \in 1..n => Same(f[k], k)}
  <2>4. 0 \in T
    OBVIOUS
  <2>5. ASSUME NEW k \in Nat, k \in T
        PROVE  k + 1 \in T
    <3>1. CASE k + 1 \in 1..n
      <4>1. singles[k + 1] = <<list[k + 1]>> /\ list[k + 1] \in S
        BY <1>0, <1>1, <3>1
      <4>2. CASE k = 0
        <5>1. f[1] = singles[1]
          BY <1>0, <1>1, <2>2, <3>1, <4>2, FlattensFirst
        <5>2. f[1] = <<list[1]>>
          BY <4>1, <4>2, <5>1
        <5>3. Same(<<list[1]>>, 1)
          BY <4>1
        <5>4. k + 1 = 1
          BY <4>2
        <5>5. Same(f[k + 1], k + 1)
          BY <5>2, <5>3, <5>4, Zenon
        <5> QED
          BY <5>5
      <4>3. CASE k # 0
        <5>1. k \in 1..n
          BY <1>0, <3>1, <4>3
        <5>2. f[k + 1] = f[k] \o singles[k + 1]
          BY <1>0, <1>1, <2>2, <3>1, <5>1, FlattensNext
        <5>3. f[k] \o <<list[k + 1]>> = Append(f[k], list[k + 1])
          BY <2>3, <4>1, <5>1, AppendIsConcat
        <5>4. f[k + 1] = Append(f[k], list[k + 1])
          BY <4>1, <5>2, <5>3, Zenon
        <5>5. Same(f[k], k) /\ f[k] \in Seq(S)
          BY <2>3, <2>5, <5>1
        <5>6. Same(Append(f[k], list[k + 1]), k + 1)
          BY <4>1, <5>5, AppendProperties
        <5> QED
          BY <5>4, <5>6
      <4> QED
        BY <4>2, <4>3
    <3> QED
      BY <3>1
  <2>6. \A k \in Nat : k \in T
    <3> HIDE DEF T
    <3> QED
      BY <2>4, <2>5, Induction
  <2>7. Same(f[n], n) /\ f[n] \in Seq(S)
    BY <1>0, <1>3, <2>3, <2>6
  <2>8. f[n] = list
    BY <2>7, SeqEqual
  <2> QED
    BY <1>1, <2>2, <2>8, Zenon DEF singles
<1> QED
  BY <1>2, <1>3
================================================================================
