-------------------------- MODULE MailText_proofs --------------------------
(***************************************************************************)
(* What MailBody's operators on characters do, for every set of            *)
(* characters, every set of lines and every mail.                          *)
(*                                                                         *)
(* The recursive definitions are unfolded and reasoned about by induction  *)
(* on sets: the prover cannot instantiate an induction principle with a    *)
(* predicate, but it can with the set of the numbers that satisfy it.      *)
(***************************************************************************)
EXTENDS MailBody, SequenceTheorems, WellFoundedInduction, TLAPS

-----------------------------------------------------------------------------
(* Induction. *)

LEMMA LeastElement ==
    ASSUME NEW S \in SUBSET Nat, S # {}
    PROVE  \E m \in S : \A k \in S : m <= k
<1> DEFINE R == OpToRel(<, Nat)
<1>1. IsWellFoundedOn(R, Nat)
  BY NatLessThanWellFounded
<1>2. \A x, y \in Nat : x < y => <<x, y>> \in R
  BY DEF OpToRel
<1> HIDE DEF R
<1>3. PICK m \in S : \A k \in S : ~(<<k, m>> \in R)
  BY <1>1, WFMin
<1>4. \A k \in S : k \in Nat /\ ~(k < m)
  BY <1>2, <1>3
<1>5. m \in S /\ \A k \in S : m <= k
  BY <1>4
<1> QED
  BY <1>5

\* A set that has m, and with every number below n the next one, has all of
\* them.
LEMMA IntervalInduction ==
    ASSUME NEW m \in Nat, NEW n \in Nat, NEW S, m \in S,
           \A i \in m .. (n - 1) : i \in S => i + 1 \in S
    PROVE  \A i \in m .. n : i \in S
<1> DEFINE T == {i \in m .. n : i \notin S}
<1> SUFFICES ASSUME T # {}
             PROVE  FALSE
  OBVIOUS
<1>1. T \in SUBSET Nat
  OBVIOUS
<1>2. PICK k \in T : \A j \in T : k <= j
  BY <1>1, LeastElement
<1>3. k \in m .. n /\ k # m /\ k - 1 \in m .. (n - 1) /\ k = (k - 1) + 1
  BY <1>2
<1>4. k - 1 \notin T
  BY <1>2, <1>3
<1> QED
  BY <1>2, <1>3, <1>4

-----------------------------------------------------------------------------
(* Kept. *)

IsKept(f, drop, s, n) ==
    f = [i \in 0 .. n |->
          IF i = 0 THEN <<>>
          ELSE IF i \in drop THEN f[i - 1] ELSE Append(f[i - 1], s[i])]

LEMMA KeptExists ==
    ASSUME NEW drop, NEW s, NEW m \in Nat
    PROVE  \E f : IsKept(f, drop, s, m)
<1> DEFINE S == {n \in 0 .. m : \E f : IsKept(f, drop, s, n)}
<1>1. 0 \in S
  <2> DEFINE f == [i \in 0 .. 0 |-> <<>>]
  <2>1. IsKept(f, drop, s, 0)
    BY DEF IsKept
  <2> QED
    BY <2>1
<1>2. ASSUME NEW n \in 0 .. (m - 1), n \in S
      PROVE  n + 1 \in S
  <2>1. PICK f : IsKept(f, drop, s, n)
    BY <1>2
  <2> DEFINE next == IF n + 1 \in drop THEN f[n] ELSE Append(f[n], s[n + 1])
             g == [i \in 0 .. (n + 1) |-> IF i = n + 1 THEN next ELSE f[i]]
  <2>2. ASSUME NEW i \in 0 .. (n + 1)
        PROVE  g[i] = IF i = 0 THEN <<>>
                      ELSE IF i \in drop THEN g[i - 1] ELSE Append(g[i - 1], s[i])
    <3>1. CASE i = n + 1
      <4>1. g[i] = next /\ g[i - 1] = f[n]
        BY <3>1
      <4> QED
        BY <3>1, <4>1
    <3>2. CASE i # n + 1
      <4>1. i \in 0 .. n /\ g[i] = f[i] /\ (i # 0 => g[i - 1] = f[i - 1])
        BY <3>2
      <4> HIDE DEF g
      <4> QED
        BY <2>1, <4>1 DEF IsKept
    <3> QED
      BY <3>1, <3>2
  <2>3. IsKept(g, drop, s, n + 1)
    <3>1. g = [i \in 0 .. (n + 1) |-> g[i]]
      OBVIOUS
    <3> HIDE DEF g
    <3> QED
      BY <2>2, <3>1 DEF IsKept
  <2> HIDE DEF g
  <2> QED
    BY <2>3
<1> HIDE DEF S
<1>3. \A i \in 0 .. m : i \in S
  BY <1>1, <1>2, IntervalInduction
<1> QED
  BY <1>3 DEF S

\* What the recursion says of the function it defines: h is the position
\* before i.
Step(K, drop, s, h, i) ==
    /\ i \in drop => K[i] = K[h]
    /\ i \notin drop => K[i] = Append(K[h], s[i])

Keeps(K, drop, s) ==
    /\ K[0] = <<>>
    /\ \A i \in 1 .. Len(s) : \A h \in 0 .. Len(s) :
         i = h + 1 => Step(K, drop, s, h, i)

LEMMA KeptKeeps ==
    ASSUME NEW C, NEW drop, NEW s \in Seq(C)
    PROVE  Keeps(Kept(drop, s), drop, s)
<1>1. Kept(drop, s) = CHOOSE f : IsKept(f, drop, s, Len(s))
  BY DEF Kept, IsKept
<1>2. PICK K : K = Kept(drop, s)
  OBVIOUS
<1>3. Len(s) \in Nat
  BY LenProperties
<1>4. IsKept(K, drop, s, Len(s))
  BY <1>1, <1>2, <1>3, KeptExists
<1>5. \A i \in 0 .. Len(s) :
        K[i] = IF i = 0 THEN <<>>
               ELSE IF i \in drop THEN K[i - 1] ELSE Append(K[i - 1], s[i])
  <2> TAKE i \in 0 .. Len(s)
  <2> QED
    BY <1>4 DEF IsKept
<1>6. K[0] = <<>>
  BY <1>3, <1>5
<1>7. ASSUME NEW i \in 1 .. Len(s), NEW h \in 0 .. Len(s), i = h + 1
      PROVE  Step(K, drop, s, h, i)
  <2>1. i \in 0 .. Len(s) /\ i # 0 /\ i - 1 = h
    BY <1>3, <1>7
  <2>2. K[i] = IF i \in drop THEN K[h] ELSE Append(K[h], s[i])
    BY <1>5, <2>1
  <2> QED
    BY <2>2 DEF Step
<1>8. Keeps(K, drop, s)
  BY <1>6, <1>7 DEF Keeps
<1> QED
  BY <1>2, <1>8

LEMMA KeepsType ==
    ASSUME NEW C, NEW drop, NEW s \in Seq(C), NEW K, Keeps(K, drop, s)
    PROVE  \A n \in 0 .. Len(s) : K[n] \in Seq(C) /\ Len(K[n]) <= n
<1> DEFINE S == {i \in 0 .. Len(s) : K[i] \in Seq(C) /\ Len(K[i]) <= i}
<1>1. Len(s) \in Nat
  BY LenProperties
<1>2. 0 \in S
  <2>1. K[0] = <<>>
    BY DEF Keeps
  <2>2. <<>> \in Seq(C) /\ Len(<<>>) = 0
    BY EmptySeq
  <2>3. K[0] \in Seq(C) /\ Len(K[0]) <= 0
    BY <2>1, <2>2
  <2> QED
    BY <1>1, <2>3
<1>3. ASSUME NEW h \in 0 .. (Len(s) - 1), h \in S
      PROVE  h + 1 \in S
  <2>1. PICK i : i = h + 1
    OBVIOUS
  <2>2. i \in 1 .. Len(s) /\ i \in 0 .. Len(s) /\ h \in 0 .. Len(s)
    BY <1>1, <2>1
  <2>3. Step(K, drop, s, h, i)
    BY <2>1, <2>2 DEF Keeps
  <2>4. K[h] \in Seq(C) /\ Len(K[h]) <= h
    BY <1>3
  <2>5. s[i] \in C
    BY <2>2, ElementOfSeq
  <2>6. CASE i \in drop
    <3>1. K[i] = K[h]
      BY <2>3, <2>6 DEF Step
    <3>2. K[i] \in Seq(C) /\ Len(K[i]) <= h
      BY <2>4, <3>1
    <3>3. Len(K[i]) <= i
      BY <2>1, <3>2, LenProperties
    <3> QED
      BY <2>1, <2>2, <3>2, <3>3
  <2>7. CASE i \notin drop
    <3>1. K[i] = Append(K[h], s[i])
      BY <2>3, <2>7 DEF Step
    <3>2. /\ Append(K[h], s[i]) \in Seq(C)
          /\ Len(Append(K[h], s[i])) = Len(K[h]) + 1
      BY <2>4, <2>5, AppendProperties
    <3>3. K[i] \in Seq(C) /\ Len(K[i]) = Len(K[h]) + 1
      BY <3>1, <3>2
    <3>4. Len(K[i]) <= i
      BY <2>1, <2>4, <3>3, LenProperties
    <3> QED
      BY <2>1, <2>2, <3>3, <3>4
  <2> QED
    BY <2>6, <2>7
<1> HIDE DEF S
<1>4. \A i \in 0 .. Len(s) : i \in S
  BY <1>1, <1>2, <1>3, IntervalInduction
<1> QED
  BY <1>4 DEF S

\* What is kept of a beginning is a beginning of what is kept.
Begins(p, s) == Len(p) <= Len(s) /\ \A i \in 1 .. Len(p) : s[i] = p[i]

LEMMA KeepsBegins ==
    ASSUME NEW C, NEW drop, NEW s \in Seq(C), NEW K, Keeps(K, drop, s),
           NEW m \in 0 .. Len(s), NEW n \in m .. Len(s)
    PROVE  Begins(K[m], K[n])
<1> DEFINE S == {i \in m .. n : Begins(K[m], K[i])}
<1>1. Len(s) \in Nat /\ m \in Nat /\ n \in Nat /\ m <= n /\ n <= Len(s)
  BY LenProperties
<1>2. \A i \in 0 .. Len(s) : K[i] \in Seq(C) /\ Len(K[i]) \in Nat
  BY KeepsType, LenProperties
<1>3. m \in S
  <2>1. PICK a : a = K[m]
    OBVIOUS
  <2>2. Len(a) \in Nat
    BY <1>2, <2>1
  <2>3. Begins(a, a)
    BY <2>2 DEF Begins
  <2> QED
    BY <1>1, <2>1, <2>3
<1>4. ASSUME NEW h \in m .. (n - 1), h \in S
      PROVE  h + 1 \in S
  <2>1. PICK i : i = h + 1
    OBVIOUS
  <2>2. i \in 1 .. Len(s) /\ h \in 0 .. Len(s) /\ i \in m .. n
    BY <1>1, <2>1
  <2>3. Step(K, drop, s, h, i)
    BY <2>1, <2>2 DEF Keeps
  <2>4. Begins(K[m], K[h])
    BY <1>4
  <2>5. CASE i \in drop
    <3>1. K[i] = K[h]
      BY <2>3, <2>5 DEF Step
    <3>2. Begins(K[m], K[i])
      BY <2>4, <3>1
    <3> QED
      BY <2>1, <2>2, <3>2
  <2>6. CASE i \notin drop
    <3>1. PICK a : a = K[h]
      OBVIOUS
    <3>2. PICK b : b = K[m]
      OBVIOUS
    <3>3. a \in Seq(C) /\ Len(a) \in Nat /\ Len(b) \in Nat /\ Begins(b, a)
      BY <1>1, <1>2, <2>2, <2>4, <3>1, <3>2
    <3>4. PICK c : c = Append(a, s[i])
      OBVIOUS
    <3>5. s[i] \in C
      BY <2>2, ElementOfSeq
    <3>6. Len(c) = Len(a) + 1 /\ \A k \in 1 .. Len(a) : c[k] = a[k]
      BY <3>3, <3>4, <3>5, AppendProperties
    <3>7. Begins(b, c)
      BY <3>3, <3>6 DEF Begins
    <3>8. K[i] = c
      BY <2>3, <2>6, <3>1, <3>4 DEF Step
    <3> QED
      BY <2>1, <2>2, <3>2, <3>7, <3>8
  <2> QED
    BY <2>5, <2>6
<1> HIDE DEF S
<1>5. \A i \in m .. n : i \in S
  BY <1>1, <1>3, <1>4, IntervalInduction
<1>6. n \in S
  BY <1>1, <1>5
<1> QED
  BY <1>6 DEF S

\* Two texts and what is dropped of them are alike up to position n.
Alike(drop, s, other, t, n) ==
    \A i \in 1 .. n : s[i] = t[i] /\ (i \in drop <=> i \in other)

\* What is kept of a beginning depends on that beginning only.
LEMMA KeepsAgree ==
    ASSUME NEW C, NEW drop, NEW s \in Seq(C), NEW K, Keeps(K, drop, s),
           NEW other, NEW t \in Seq(C), NEW J, Keeps(J, other, t),
           NEW n \in Nat, n <= Len(s), n <= Len(t), Alike(drop, s, other, t, n)
    PROVE  K[n] = J[n]
<1> DEFINE S == {i \in 0 .. n : K[i] = J[i]}
<1>1. Len(s) \in Nat /\ Len(t) \in Nat
  BY LenProperties
<1>2. 0 \in S
  BY DEF Keeps
<1>3. ASSUME NEW h \in 0 .. (n - 1), h \in S
      PROVE  h + 1 \in S
  <2>1. PICK i : i = h + 1
    OBVIOUS
  <2>2. /\ i \in 1 .. Len(s) /\ h \in 0 .. Len(s)
        /\ i \in 1 .. Len(t) /\ h \in 0 .. Len(t)
        /\ i \in 1 .. n /\ i \in 0 .. n
    BY <1>1, <2>1
  <2>3. Step(K, drop, s, h, i) /\ Step(J, other, t, h, i)
    BY <2>1, <2>2 DEF Keeps
  <2>4. s[i] = t[i] /\ (i \in drop <=> i \in other)
    BY <2>2 DEF Alike
  <2>5. K[h] = J[h]
    BY <1>3
  <2>6. K[i] = J[i]
    BY <2>3, <2>4, <2>5 DEF Step
  <2> QED
    BY <2>1, <2>2, <2>6
<1> HIDE DEF S
<1>4. \A i \in 0 .. n : i \in S
  BY <1>2, <1>3, IntervalInduction
<1>5. n \in S
  BY <1>4
<1> QED
  BY <1>5 DEF S

\* s from position h + 1 to i behind k0.
Copied(k0, s, h, i) == k0 \o SubSeq(s, h + 1, i)

LEMMA CopiedNone ==
    ASSUME NEW C, NEW s \in Seq(C), NEW k0 \in Seq(C), NEW h \in 0 .. Len(s)
    PROVE  Copied(k0, s, h, h) = k0
<1>1. h \in Int /\ SubSeq(s, h + 1, h) = <<>>
  BY LenProperties, SubSeqEmpty
<1>2. k0 \o <<>> = k0
  BY ConcatEmptySeq
<1> QED
  BY <1>1, <1>2 DEF Copied

LEMMA AppendConcat ==
    ASSUME NEW C, NEW s \in Seq(C), NEW t \in Seq(C), NEW c \in C
    PROVE  Append(s \o t, c) = s \o (t \o <<c>>)
<1>1. s \o t \in Seq(C)
  BY ConcatProperties
<1>2. Append(s \o t, c) = (s \o t) \o <<c>>
  BY <1>1, AppendIsConcat
<1>3. PICK u : u = <<c>>
  OBVIOUS
<1>4. u \in Seq(C)
  BY <1>3
<1>5. (s \o t) \o u = s \o (t \o u)
  BY <1>4, ConcatAssociative
<1> QED
  BY <1>2, <1>3, <1>5

LEMMA CopiedNext ==
    ASSUME NEW C, NEW s \in Seq(C), NEW k0 \in Seq(C),
           NEW h \in 0 .. Len(s), NEW j \in h .. (Len(s) - 1),
           NEW i, i = j + 1
    PROVE  Append(Copied(k0, s, h, j), s[i]) = Copied(k0, s, h, i)
<1>1. Len(s) \in Nat
  BY LenProperties
<1>2. PICK g : g = h + 1
  OBVIOUS
<1>3. g \in 1 .. Len(s) /\ i \in g .. Len(s) /\ i \in 1 .. Len(s) /\ i - 1 = j
  BY <1>1, <1>2
<1>4. PICK u : u = SubSeq(s, g, j)
  OBVIOUS
<1>5. SubSeq(s, g, i) = u \o <<s[i]>>
  BY <1>3, <1>4, SubSeqRecursiveSecond
<1>6. s[i] \in C /\ <<s[i]>> \in Seq(C)
  BY <1>3, ElementOfSeq
<1>7. u \in Seq(C)
  <2>1. \A p \in g .. j : s[p] \in C
    BY <1>1, <1>3, ElementOfSeq
  <2> QED
    BY <1>4, <2>1, <1>3, SubSeqProperties
<1>8. Append(k0 \o u, s[i]) = k0 \o (u \o <<s[i]>>)
  BY <1>6, <1>7, AppendConcat
<1> QED
  BY <1>2, <1>4, <1>5, <1>8 DEF Copied

\* Where nothing is dropped, the text is copied.
Untouched(drop, h, j) == \A k \in (h + 1) .. j : k \notin drop

LEMMA KeepsStretch ==
    ASSUME NEW C, NEW drop, NEW s \in Seq(C), NEW K, Keeps(K, drop, s),
           NEW h \in 0 .. Len(s), NEW j \in h .. Len(s), Untouched(drop, h, j)
    PROVE  K[j] = Copied(K[h], s, h, j)
<1> DEFINE S == {k \in h .. j : K[k] = Copied(K[h], s, h, k)}
<1>1. Len(s) \in Nat
  BY LenProperties
<1>2. K[h] \in Seq(C)
  BY KeepsType
<1>3. h \in Nat /\ j \in Nat /\ h <= j
  BY <1>1
<1>4. h \in S
  BY <1>2, <1>3, CopiedNone
<1>5. ASSUME NEW k \in h .. (j - 1), k \in S
      PROVE  k + 1 \in S
  <2>1. PICK i : i = k + 1
    OBVIOUS
  <2>2. /\ k \in h .. (Len(s) - 1) /\ k \in 0 .. Len(s)
        /\ i \in 1 .. Len(s) /\ i \in (h + 1) .. j /\ i \in h .. j
    BY <1>1, <1>3, <2>1
  <2>3. Step(K, drop, s, k, i)
    BY <2>1, <2>2 DEF Keeps
  <2>4. i \notin drop
    BY <2>2 DEF Untouched
  <2>5. K[i] = Append(K[k], s[i])
    BY <2>3, <2>4 DEF Step
  <2>6. K[k] = Copied(K[h], s, h, k)
    BY <1>5
  <2>7. Append(Copied(K[h], s, h, k), s[i]) = Copied(K[h], s, h, i)
    BY <1>2, <2>1, <2>2, CopiedNext
  <2>8. K[i] = Copied(K[h], s, h, i)
    BY <2>5, <2>6, <2>7
  <2> QED
    BY <2>1, <2>2, <2>8
<1> HIDE DEF S
<1>6. \A k \in h .. j : k \in S
  BY <1>3, <1>4, <1>5, IntervalInduction
<1>7. j \in S
  BY <1>3, <1>6
<1> QED
  BY <1>7 DEF S

-----------------------------------------------------------------------------
(* Where a pattern is: character by character. *)

\* p stands in s right behind position h.
Matches(p, s, h) ==
    /\ h \in Nat
    /\ h + Len(p) <= Len(s)
    /\ \A k \in 1 .. Len(p) : s[h + k] = p[k]

LEMMA SubSeqMatches ==
    ASSUME NEW C, NEW p \in Seq(C), NEW s \in Seq(C), NEW h \in Nat,
           h + Len(p) <= Len(s)
    PROVE  SubSeq(s, h + 1, h + Len(p)) = p <=> Matches(p, s, h)
<1>1. Len(p) \in Nat /\ Len(s) \in Nat
  BY LenProperties
<1>2. PICK a : a = h + 1
  OBVIOUS
<1>3. PICK b : b = h + Len(p)
  OBVIOUS
<1>4. a \in Int /\ b \in Int /\ b - a + 1 = Len(p)
  BY <1>1, <1>2, <1>3
<1>5. \A i \in a .. b : s[i] \in C
  BY <1>1, <1>2, <1>3, ElementOfSeq
<1>6. /\ SubSeq(s, a, b) \in Seq(C)
      /\ Len(SubSeq(s, a, b)) = Len(p)
      /\ \A i \in 1 .. Len(p) : SubSeq(s, a, b)[i] = s[a + i - 1]
  BY <1>1, <1>2, <1>3, <1>4, <1>5, SubSeqProperties
<1>7. PICK u : u = SubSeq(s, a, b)
  OBVIOUS
<1>8. \A i \in 1 .. Len(p) : u[i] = s[h + i]
  BY <1>1, <1>2, <1>6, <1>7
<1>9. ASSUME u = p
      PROVE  \A k \in 1 .. Len(p) : s[h + k] = p[k]
  BY <1>8, <1>9
<1>10. ASSUME \A k \in 1 .. Len(p) : s[h + k] = p[k]
       PROVE  u = p
  <2>1. u \in Seq(C) /\ Len(u) = Len(p) /\ \A i \in 1 .. Len(u) : u[i] = p[i]
    BY <1>6, <1>7, <1>8, <1>10
  <2> QED
    BY <2>1, SeqEqual
<1> QED
  BY <1>2, <1>3, <1>7, <1>9, <1>10 DEF Matches

LEMMA OccursAtMatches ==
    ASSUME NEW C, NEW p \in Seq(C), NEW s \in Seq(C), NEW h \in Nat,
           NEW i, i = h + 1
    PROVE  OccursAt(p, s, i) <=> Matches(p, s, h)
<1>1. Len(p) \in Nat /\ Len(s) \in Nat
  BY LenProperties
<1>2. i + Len(p) - 1 = h + Len(p)
  BY <1>1
<1>3. CASE h + Len(p) <= Len(s)
  BY <1>2, <1>3, SubSeqMatches DEF OccursAt
<1>4. CASE ~(h + Len(p) <= Len(s))
  BY <1>2, <1>4 DEF OccursAt, Matches
<1> QED
  BY <1>3, <1>4

LEMMA IsPrefixMatches ==
    ASSUME NEW C, NEW p \in Seq(C), NEW s \in Seq(C)
    PROVE  IsPrefix(p, s) <=> Matches(p, s, 0)
<1>1. Len(p) \in Nat /\ Len(s) \in Nat
  BY LenProperties
<1>2. SubSeq(p, 1, Len(p)) = p
  BY SubSeqFull
<1>3. CASE Len(p) <= Len(s)
  <2>1. SubSeq(s, 0 + 1, 0 + Len(p)) = p <=> Matches(p, s, 0)
    BY <1>1, <1>3, SubSeqMatches
  <2>2. 0 + 1 = 1 /\ 0 + Len(p) = Len(p)
    BY <1>1
  <2> QED
    BY <1>2, <1>3, <2>1, <2>2 DEF IsPrefix
<1>4. CASE ~(Len(p) <= Len(s))
  BY <1>1, <1>4 DEF IsPrefix, Matches
<1> QED
  BY <1>3, <1>4

LEMMA ReverseProperties ==
    ASSUME NEW C, NEW s \in Seq(C)
    PROVE  /\ Reverse(s) \in Seq(C)
           /\ Len(Reverse(s)) = Len(s)
           /\ \A i \in 1 .. Len(s) : Reverse(s)[i] = s[(Len(s) - i) + 1]
<1>1. Len(s) \in Nat
  BY LenProperties
<1>2. \A i \in 1 .. Len(s) : s[(Len(s) - i) + 1] \in C
  BY <1>1, ElementOfSeq
<1>3. Reverse(s) \in [1 .. Len(s) -> C]
  BY <1>2 DEF Reverse
<1>4. Reverse(s) \in Seq(C)
  BY <1>1, <1>3, SeqDef
<1>5. DOMAIN Reverse(s) = 1 .. Len(s)
  BY DEF Reverse
<1>6. Len(Reverse(s)) = Len(s)
  BY <1>1, <1>4, <1>5, LenProperties
<1> QED
  BY <1>4, <1>6 DEF Reverse

LEMMA IsSuffixMatches ==
    ASSUME NEW C, NEW p \in Seq(C), NEW s \in Seq(C)
    PROVE  IsSuffix(p, s) <=> Matches(p, s, Len(s) - Len(p))
<1>1. Len(p) \in Nat /\ Len(s) \in Nat
  BY LenProperties
<1>2. PICK q : q = Reverse(p)
  OBVIOUS
<1>3. PICK t : t = Reverse(s)
  OBVIOUS
<1>4. /\ q \in Seq(C) /\ Len(q) = Len(p)
      /\ \A i \in 1 .. Len(p) : q[i] = p[(Len(p) - i) + 1]
  BY <1>2, ReverseProperties
<1>5. /\ t \in Seq(C) /\ Len(t) = Len(s)
      /\ \A i \in 1 .. Len(s) : t[i] = s[(Len(s) - i) + 1]
  BY <1>3, ReverseProperties
<1>6. IsSuffix(p, s) <=> Matches(q, t, 0)
  BY <1>2, <1>3, <1>4, <1>5, IsPrefixMatches DEF IsSuffix
<1>7. CASE ~(Len(p) <= Len(s))
  BY <1>1, <1>4, <1>5, <1>6, <1>7 DEF Matches
<1>8. CASE Len(p) <= Len(s)
  <2>1. PICK h : h = Len(s) - Len(p)
    OBVIOUS
  <2>2. h \in Nat /\ h + Len(p) <= Len(s)
    BY <1>1, <1>8, <2>1
  <2>3. ASSUME NEW k \in 1 .. Len(p)
        PROVE  /\ (Len(p) - k) + 1 \in 1 .. Len(p)
               /\ k \in 1 .. Len(s)
               /\ q[k] = p[(Len(p) - k) + 1]
               /\ t[k] = s[h + ((Len(p) - k) + 1)]
    <3>1. k \in 1 .. Len(s) /\ h + ((Len(p) - k) + 1) = (Len(s) - k) + 1
      BY <1>1, <1>8, <2>1
    <3> QED
      BY <1>1, <1>4, <1>5, <3>1
  <2>4. ASSUME \A k \in 1 .. Len(p) : s[h + k] = p[k]
        PROVE  \A k \in 1 .. Len(q) : t[0 + k] = q[k]
    <3> TAKE k \in 1 .. Len(q)
    <3>1. PICK j : j = (Len(p) - k) + 1
      OBVIOUS
    <3>2. k \in 1 .. Len(p) /\ 0 + k = k
      BY <1>1, <1>4
    <3>3. j \in 1 .. Len(p) /\ q[k] = p[j] /\ t[k] = s[h + j]
      BY <2>3, <3>1, <3>2
    <3> QED
      BY <2>4, <3>2, <3>3
  <2>5. ASSUME \A k \in 1 .. Len(q) : t[0 + k] = q[k]
        PROVE  \A k \in 1 .. Len(p) : s[h + k] = p[k]
    <3>1. \A j \in 1 .. Len(p) : s[h + ((Len(p) - j) + 1)] = p[(Len(p) - j) + 1]
      BY <1>4, <2>3, <2>5
    <3> TAKE k \in 1 .. Len(p)
    <3>2. PICK j : j = (Len(p) - k) + 1
      OBVIOUS
    <3>3. j \in 1 .. Len(p) /\ (Len(p) - j) + 1 = k
      BY <1>1, <3>2
    <3> QED
      BY <3>1, <3>3
  <2>6. Matches(q, t, 0) <=> \A k \in 1 .. Len(q) : t[0 + k] = q[k]
    BY <1>1, <1>4, <1>5, <1>8 DEF Matches
  <2>7. Matches(p, s, h) <=> \A k \in 1 .. Len(p) : s[h + k] = p[k]
    BY <2>2 DEF Matches
  <2> QED
    BY <1>6, <2>1, <2>4, <2>5, <2>6, <2>7
<1> QED
  BY <1>7, <1>8

-----------------------------------------------------------------------------
(* The patterns of a mail. *)

Is(s, i, c) == i \in 1 .. Len(s) /\ s[i] = c

EolAt(s, i) == Is(s, i, CR) /\ Is(s, i + 1, LF)

MarkAt(s, i) == Is(s, i, CR) /\ Is(s, i + 1, LF) /\ Is(s, i + 2, DOT)

LastAt(s, i) == Is(s, i, DOT) /\ Is(s, i + 1, CR) /\ Is(s, i + 2, LF)

EndAt(s, i) == MarkAt(s, i) /\ EolAt(s, i + 3)

LEMMA Patterns ==
    /\ CRLF \in Seq(Chars) /\ Len(CRLF) = 2 /\ CRLF[1] = CR /\ CRLF[2] = LF
    /\ EndLine \in Seq(Chars) /\ Len(EndLine) = 3
    /\ EndLine[1] = DOT /\ EndLine[2] = CR /\ EndLine[3] = LF
    /\ Mark \in Seq(Chars) /\ Len(Mark) = 3
    /\ Mark[1] = CR /\ Mark[2] = LF /\ Mark[3] = DOT
    /\ <<DOT>> \in Seq(Chars) /\ Len(<<DOT>>) = 1
<1>1. CR \in Chars /\ LF \in Chars /\ DOT \in Chars
  BY CharAssumption
<1> QED
  BY <1>1 DEF CRLF, EndLine, Mark

LEMMA EndPattern ==
    /\ CRLF \o EndLine \in Seq(Chars) /\ Len(CRLF \o EndLine) = 5
    /\ (CRLF \o EndLine)[1] = CR /\ (CRLF \o EndLine)[2] = LF
    /\ (CRLF \o EndLine)[3] = DOT
    /\ (CRLF \o EndLine)[4] = CR /\ (CRLF \o EndLine)[5] = LF
<1>1. /\ CRLF \o EndLine \in Seq(Chars)
      /\ Len(CRLF \o EndLine) = Len(CRLF) + Len(EndLine)
      /\ \A i \in 1 .. Len(CRLF) + Len(EndLine) :
           (CRLF \o EndLine)[i]
             = IF i <= Len(CRLF) THEN CRLF[i] ELSE EndLine[i - Len(CRLF)]
  BY Patterns, ConcatProperties
<1> QED
  BY <1>1, Patterns

LEMMA MatchesMark ==
    ASSUME NEW s \in Seq(Chars), NEW h \in Nat, NEW i, i = h + 1
    PROVE  Matches(Mark, s, h) <=> MarkAt(s, i)
<1>1. Len(s) \in Nat
  BY LenProperties
<1>2. PICK p : p = Mark
  OBVIOUS
<1>3. Len(p) = 3 /\ p[1] = CR /\ p[2] = LF /\ p[3] = DOT
  BY <1>2, Patterns
<1>4. Matches(p, s, h) <=>
        h + 3 <= Len(s) /\ s[h + 1] = CR /\ s[h + 2] = LF /\ s[h + 3] = DOT
  BY <1>1, <1>3 DEF Matches
<1>5. MarkAt(s, i) <=>
        h + 3 <= Len(s) /\ s[h + 1] = CR /\ s[h + 2] = LF /\ s[h + 3] = DOT
  BY <1>1 DEF MarkAt, Is
<1> QED
  BY <1>2, <1>4, <1>5

LEMMA MatchesEol ==
    ASSUME NEW s \in Seq(Chars), NEW h \in Nat, NEW i, i = h + 1
    PROVE  Matches(CRLF, s, h) <=> EolAt(s, i)
<1>1. Len(s) \in Nat
  BY LenProperties
<1>2. PICK p : p = CRLF
  OBVIOUS
<1>3. Len(p) = 2 /\ p[1] = CR /\ p[2] = LF
  BY <1>2, Patterns
<1>4. Matches(p, s, h) <=> h + 2 <= Len(s) /\ s[h + 1] = CR /\ s[h + 2] = LF
  BY <1>1, <1>3 DEF Matches
<1>5. EolAt(s, i) <=> h + 2 <= Len(s) /\ s[h + 1] = CR /\ s[h + 2] = LF
  BY <1>1 DEF EolAt, Is
<1> QED
  BY <1>2, <1>4, <1>5

LEMMA MatchesLast ==
    ASSUME NEW s \in Seq(Chars), NEW h \in Nat, NEW i, i = h + 1
    PROVE  Matches(EndLine, s, h) <=> LastAt(s, i)
<1>1. Len(s) \in Nat
  BY LenProperties
<1>2. PICK p : p = EndLine
  OBVIOUS
<1>3. Len(p) = 3 /\ p[1] = DOT /\ p[2] = CR /\ p[3] = LF
  BY <1>2, Patterns
<1>4. Matches(p, s, h) <=>
        h + 3 <= Len(s) /\ s[h + 1] = DOT /\ s[h + 2] = CR /\ s[h + 3] = LF
  BY <1>1, <1>3 DEF Matches
<1>5. LastAt(s, i) <=>
        h + 3 <= Len(s) /\ s[h + 1] = DOT /\ s[h + 2] = CR /\ s[h + 3] = LF
  BY <1>1 DEF LastAt, Is
<1> QED
  BY <1>2, <1>4, <1>5

LEMMA MatchesEnd ==
    ASSUME NEW s \in Seq(Chars), NEW h \in Nat, NEW i, i = h + 1
    PROVE  Matches(CRLF \o EndLine, s, h) <=> EndAt(s, i)
<1>1. Len(s) \in Nat
  BY LenProperties
<1>2. PICK p : p = CRLF \o EndLine
  OBVIOUS
<1>3. Len(p) = 5 /\ p[1] = CR /\ p[2] = LF /\ p[3] = DOT /\ p[4] = CR /\ p[5] = LF
  BY <1>2, EndPattern
<1>4. Matches(p, s, h) <=>
        /\ h + 5 <= Len(s)
        /\ s[h + 1] = CR /\ s[h + 2] = LF /\ s[h + 3] = DOT
        /\ s[h + 4] = CR /\ s[h + 5] = LF
  BY <1>1, <1>3 DEF Matches
<1>5. EndAt(s, i) <=>
        /\ h + 5 <= Len(s)
        /\ s[h + 1] = CR /\ s[h + 2] = LF /\ s[h + 3] = DOT
        /\ s[h + 4] = CR /\ s[h + 5] = LF
  BY <1>1 DEF EndAt, MarkAt, EolAt, Is
<1> QED
  BY <1>2, <1>4, <1>5

\* The occurrences of the patterns, as positions.
LEMMA OccurrencesAre ==
    ASSUME NEW s \in Seq(Chars)
    PROVE  /\ \A i : i \in Marks(s) <=> MarkAt(s, i)
           /\ \A i : i \in Occurrences(CRLF, s) <=> EolAt(s, i)
           /\ \A i : i \in Occurrences(EndLine, s) <=> LastAt(s, i)
           /\ \A i : i \in Occurrences(CRLF \o EndLine, s) <=> EndAt(s, i)
<1>1. DOMAIN s = 1 .. Len(s) /\ Len(s) \in Nat
  BY LenProperties
<1>2. ASSUME NEW i \in 1 .. Len(s)
      PROVE  /\ OccursAt(Mark, s, i) <=> MarkAt(s, i)
             /\ OccursAt(CRLF, s, i) <=> EolAt(s, i)
             /\ OccursAt(EndLine, s, i) <=> LastAt(s, i)
             /\ OccursAt(CRLF \o EndLine, s, i) <=> EndAt(s, i)
  <2>1. PICK h : h = i - 1
    OBVIOUS
  <2>2. h \in Nat /\ i = h + 1
    BY <1>1, <2>1
  <2>3. OccursAt(Mark, s, i) <=> Matches(Mark, s, h)
    BY <2>2, Patterns, OccursAtMatches
  <2>4. OccursAt(CRLF, s, i) <=> Matches(CRLF, s, h)
    BY <2>2, Patterns, OccursAtMatches
  <2>5. OccursAt(EndLine, s, i) <=> Matches(EndLine, s, h)
    BY <2>2, Patterns, OccursAtMatches
  <2>6. OccursAt(CRLF \o EndLine, s, i) <=> Matches(CRLF \o EndLine, s, h)
    BY <2>2, EndPattern, OccursAtMatches
  <2>7. /\ Matches(Mark, s, h) <=> MarkAt(s, i)
        /\ Matches(CRLF, s, h) <=> EolAt(s, i)
        /\ Matches(EndLine, s, h) <=> LastAt(s, i)
        /\ Matches(CRLF \o EndLine, s, h) <=> EndAt(s, i)
    BY <2>2, MatchesMark, MatchesEol, MatchesLast, MatchesEnd
  <2> QED
    BY <2>3, <2>4, <2>5, <2>6, <2>7
<1>3. \A i : /\ MarkAt(s, i) => i \in 1 .. Len(s)
             /\ EolAt(s, i) => i \in 1 .. Len(s)
             /\ LastAt(s, i) => i \in 1 .. Len(s)
             /\ EndAt(s, i) => i \in 1 .. Len(s)
  BY DEF MarkAt, EolAt, LastAt, EndAt, Is
<1> QED
  BY <1>1, <1>2, <1>3 DEF Marks, Occurrences

LEMMA BeginningsAre ==
    ASSUME NEW s \in Seq(Chars)
    PROVE  /\ IsPrefix(<<DOT>>, s) <=> Is(s, 1, DOT)
           /\ IsPrefix(EndLine, s) <=> LastAt(s, 1)
<1>1. Len(s) \in Nat
  BY LenProperties
<1>2. PICK p : p = <<DOT>>
  OBVIOUS
<1>3. p \in Seq(Chars) /\ Len(p) = 1 /\ p[1] = DOT
  BY <1>2, Patterns
<1>4. IsPrefix(p, s) <=> Matches(p, s, 0)
  BY <1>3, IsPrefixMatches
<1>5. Matches(p, s, 0) <=> Is(s, 1, DOT)
  BY <1>1, <1>3 DEF Matches, Is
<1>6. IsPrefix(EndLine, s) <=> Matches(EndLine, s, 0)
  BY Patterns, IsPrefixMatches
<1>7. Matches(EndLine, s, 0) <=> LastAt(s, 1)
  BY MatchesLast
<1> QED
  BY <1>2, <1>4, <1>5, <1>6, <1>7

LEMMA EndsAre ==
    ASSUME NEW s \in Seq(Chars)
    PROVE  /\ IsSuffix(Mark, s) <=> MarkAt(s, Len(s) - 2)
           /\ IsSuffix(CRLF, s) <=> EolAt(s, Len(s) - 1)
           /\ IsSuffix(CRLF \o EndLine, s) <=> EndAt(s, Len(s) - 4)
<1>1. Len(s) \in Nat
  BY LenProperties
<1>2. /\ IsSuffix(Mark, s) <=> Matches(Mark, s, Len(s) - 3)
      /\ IsSuffix(CRLF, s) <=> Matches(CRLF, s, Len(s) - 2)
      /\ IsSuffix(CRLF \o EndLine, s) <=> Matches(CRLF \o EndLine, s, Len(s) - 5)
  BY Patterns, EndPattern, IsSuffixMatches
<1>3. Matches(Mark, s, Len(s) - 3) <=> MarkAt(s, Len(s) - 2)
  <2>1. CASE Len(s) - 3 \in Nat
    BY <1>1, <2>1, MatchesMark
  <2>2. CASE Len(s) - 3 \notin Nat
    BY <1>1, <2>2 DEF Matches, MarkAt, Is
  <2> QED
    BY <2>1, <2>2
<1>4. Matches(CRLF, s, Len(s) - 2) <=> EolAt(s, Len(s) - 1)
  <2>1. CASE Len(s) - 2 \in Nat
    BY <1>1, <2>1, MatchesEol
  <2>2. CASE Len(s) - 2 \notin Nat
    BY <1>1, <2>2 DEF Matches, EolAt, Is
  <2> QED
    BY <2>1, <2>2
<1>5. Matches(CRLF \o EndLine, s, Len(s) - 5) <=> EndAt(s, Len(s) - 4)
  <2>1. CASE Len(s) - 5 \in Nat
    BY <1>1, <2>1, MatchesEnd
  <2>2. CASE Len(s) - 5 \notin Nat
    BY <1>1, <2>2 DEF Matches, EndAt, MarkAt, Is
  <2> QED
    BY <2>1, <2>2
<1> QED
  BY <1>2, <1>3, <1>4, <1>5

LEMMA MailEndIs ==
    ASSUME NEW s \in Seq(Chars)
    PROVE  contains_mail_end(s) <=>
             LastAt(s, 1) \/ (\E i : EndAt(s, i)) \/ MarkAt(s, Len(s) - 2)
BY OccurrencesAre, BeginningsAre, EndsAre DEF contains_mail_end

LEMMA TerminatedIs ==
    ASSUME NEW s \in Seq(Chars)
    PROVE  Terminated(s) <=> EndAt(s, Len(s) - 4)
BY EndsAre DEF Terminated

LEMMA EndInsideIs ==
    ASSUME NEW s \in Seq(Chars)
    PROVE  EndInside(s) <=>
             \E i : MarkAt(s, i) /\ i # Len(s) - 4 /\ EolAt(s, i + 3)
                      /\ ~MarkAt(s, i + 3)
<1>1. Len(s) \in Nat
  BY LenProperties
<1>2. ASSUME NEW i, MarkAt(s, i)
      PROVE  OccursAt(CRLF, s, i + 3) <=> EolAt(s, i + 3)
  <2>1. i \in 1 .. Len(s)
    BY <1>2 DEF MarkAt, Is
  <2>2. PICK h : h = i + 2
    OBVIOUS
  <2>3. PICK j : j = i + 3
    OBVIOUS
  <2>4. h \in Nat /\ j = h + 1
    BY <1>1, <2>1, <2>2, <2>3
  <2>5. OccursAt(CRLF, s, j) <=> Matches(CRLF, s, h)
    BY <2>4, Patterns, OccursAtMatches
  <2>6. Matches(CRLF, s, h) <=> EolAt(s, j)
    BY <2>4, MatchesEol
  <2> QED
    BY <2>3, <2>5, <2>6
<1>3. \A i : i \in Marks(s) <=> MarkAt(s, i)
  BY OccurrencesAre
<1> QED
  BY <1>2, <1>3 DEF EndInside

\* The dots that transparency adds or that look as if it had.
Dots(s) == {i + 2 : i \in Marks(s)} \cup {i \in DOMAIN s : i = 1 /\ s[i] = DOT}

DotAt(s, p) ==
    \/ \E i : MarkAt(s, i) /\ p = i + 2
    \/ p = 1 /\ Is(s, 1, DOT)

LEMMA DotsAre ==
    ASSUME NEW s \in Seq(Chars)
    PROVE  /\ \A p : p \in Dots(s) <=> DotAt(s, p)
           /\ \A p : p \in Dropped(s) <=>
                \/ (\E i : MarkAt(s, i) /\ p = i + 2)
                     /\ ~(Terminated(s) /\ p = Len(s) - 2)
                \/ p = 1 /\ Is(s, 1, DOT)
<1>1. \A i : i \in Marks(s) <=> MarkAt(s, i)
  BY OccurrencesAre
<1>2. \A p : p \in {i + 2 : i \in Marks(s)} <=> \E i : MarkAt(s, i) /\ p = i + 2
  BY <1>1
<1>3. \A p : p \in {i \in DOMAIN s : i = 1 /\ s[i] = DOT} <=> p = 1 /\ Is(s, 1, DOT)
  BY LenProperties DEF Is
<1>4. PICK D : D = {i + 2 : i \in Marks(s)}
  OBVIOUS
<1>5. PICK E : E = {i \in DOMAIN s : i = 1 /\ s[i] = DOT}
  OBVIOUS
<1>6. \A p : p \in Dots(s) <=> p \in D \/ p \in E
  BY <1>4, <1>5 DEF Dots
<1>7. \A p : p \in Dropped(s) <=>
         (p \in D /\ ~(Terminated(s) /\ p = Len(s) - 2)) \/ p \in E
  BY <1>4, <1>5 DEF Dropped
<1>8. \A p : p \in D <=> \E i : MarkAt(s, i) /\ p = i + 2
  BY <1>2, <1>4
<1>9. \A p : p \in E <=> p = 1 /\ Is(s, 1, DOT)
  BY <1>3, <1>5
<1>10. \A p : p \in Dots(s) <=> DotAt(s, p)
  BY <1>6, <1>8, <1>9 DEF DotAt
<1>11. \A p : p \in Dropped(s) <=>
                \/ (\E i : MarkAt(s, i) /\ p = i + 2)
                     /\ ~(Terminated(s) /\ p = Len(s) - 2)
                \/ p = 1 /\ Is(s, 1, DOT)
  BY <1>7, <1>8, <1>9
<1> QED
  BY <1>10, <1>11

-----------------------------------------------------------------------------
(* Lines one after the other. *)

IsFlat(f, seqs, n) ==
    f = [i \in 1 .. n |-> IF i = 1 THEN seqs[i] ELSE f[i - 1] \o seqs[i]]

LEMMA FlatExists ==
    ASSUME NEW seqs, NEW m \in Nat
    PROVE  \E f : IsFlat(f, seqs, m)
<1> DEFINE S == {n \in 0 .. m : \E f : IsFlat(f, seqs, n)}
<1>1. 0 \in S
  <2> DEFINE f == [i \in 1 .. 0 |-> <<>>]
  <2>1. IsFlat(f, seqs, 0)
    BY DEF IsFlat
  <2> QED
    BY <2>1
<1>2. ASSUME NEW n \in 0 .. (m - 1), n \in S
      PROVE  n + 1 \in S
  <2>1. PICK f : IsFlat(f, seqs, n)
    BY <1>2
  <2> DEFINE next == IF n = 0 THEN seqs[n + 1] ELSE f[n] \o seqs[n + 1]
             g == [i \in 1 .. (n + 1) |-> IF i = n + 1 THEN next ELSE f[i]]
  <2>2. ASSUME NEW i \in 1 .. (n + 1)
        PROVE  g[i] = IF i = 1 THEN seqs[i] ELSE g[i - 1] \o seqs[i]
    <3>1. CASE i = n + 1
      <4>1. g[i] = next /\ (i # 1 => g[i - 1] = f[n]) /\ (i = 1 <=> n = 0)
        BY <3>1
      <4> QED
        BY <3>1, <4>1
    <3>2. CASE i # n + 1
      <4>1. i \in 1 .. n /\ g[i] = f[i] /\ (i # 1 => g[i - 1] = f[i - 1])
        BY <3>2
      <4> HIDE DEF g
      <4> QED
        BY <2>1, <4>1 DEF IsFlat
    <3> QED
      BY <3>1, <3>2
  <2>3. IsFlat(g, seqs, n + 1)
    <3>1. g = [i \in 1 .. (n + 1) |-> g[i]]
      OBVIOUS
    <3> HIDE DEF g
    <3> QED
      BY <2>2, <3>1 DEF IsFlat
  <2> HIDE DEF g
  <2> QED
    BY <2>3
<1> HIDE DEF S
<1>3. \A i \in 0 .. m : i \in S
  BY <1>1, <1>2, IntervalInduction
<1> QED
  BY <1>3 DEF S

\* F[k]: the first k of the sequences, one after the other.
Joins(F, seqs) ==
    /\ F[0] = <<>>
    /\ \A k \in 1 .. Len(seqs) : \A h \in 0 .. Len(seqs) :
         k = h + 1 => F[k] = F[h] \o seqs[k]

LEMMA FlattenSeqJoins ==
    ASSUME NEW C, NEW seqs \in Seq(Seq(C))
    PROVE  \E F : Joins(F, seqs) /\ FlattenSeq(seqs) = F[Len(seqs)]
<1>1. PICK n : n = Len(seqs)
  OBVIOUS
<1>2. n \in Nat
  BY <1>1, LenProperties
<1>3. PICK f : f = CHOOSE g : IsFlat(g, seqs, n)
  OBVIOUS
<1>4. IsFlat(f, seqs, n)
  BY <1>2, <1>3, FlatExists
<1>5. FlattenSeq(seqs) = IF n = 0 THEN seqs ELSE f[n]
  BY <1>1, <1>3 DEF FlattenSeq, IsFlat
<1> DEFINE F == [k \in 0 .. n |-> IF k = 0 THEN <<>> ELSE f[k]]
<1>6. F[0] = <<>>
  BY <1>2
<1>7. ASSUME NEW k \in 1 .. n, NEW h \in 0 .. n, k = h + 1
      PROVE  F[k] = F[h] \o seqs[k]
  <2>1. F[k] = f[k] /\ (h = 0 => F[h] = <<>>) /\ (h # 0 => F[h] = f[h])
    BY <1>2
  <2> HIDE DEF F
  <2>2. f[k] = IF k = 1 THEN seqs[k] ELSE f[k - 1] \o seqs[k]
    BY <1>4 DEF IsFlat
  <2>3. CASE h = 0
    <3>1. seqs[k] \in Seq(C)
      BY <1>1, ElementOfSeq
    <3>2. <<>> \o seqs[k] = seqs[k]
      BY <3>1, ConcatEmptySeq
    <3>3. f[k] = seqs[k]
      BY <1>7, <2>2, <2>3
    <3> QED
      BY <2>1, <2>3, <3>2, <3>3
  <2>4. CASE h # 0
    <3>1. k # 1 /\ k - 1 = h
      BY <1>2, <1>7, <2>4
    <3>2. f[k] = f[h] \o seqs[k]
      BY <2>2, <3>1
    <3> QED
      BY <2>1, <2>4, <3>2
  <2> QED
    BY <2>3, <2>4
<1>8. FlattenSeq(seqs) = F[n]
  <2>1. CASE n = 0
    <3>1. seqs = <<>>
      BY <1>1, <2>1, EmptySeq
    <3> QED
      BY <1>5, <1>6, <2>1, <3>1
  <2>2. CASE n # 0
    BY <1>2, <1>5, <2>2
  <2> QED
    BY <2>1, <2>2
<1> HIDE DEF F
<1>9. Joins(F, seqs)
  BY <1>1, <1>6, <1>7 DEF Joins
<1> QED
  BY <1>1, <1>8, <1>9

Joined(s, t, u) ==
    /\ u \in Seq(Chars)
    /\ Len(u) = Len(s) + Len(t)
    /\ \A i \in 1 .. Len(s) : u[i] = s[i]
    /\ \A i \in 1 .. Len(t) : u[Len(s) + i] = t[i]

LEMMA ConcatJoined ==
    ASSUME NEW s \in Seq(Chars), NEW t \in Seq(Chars)
    PROVE  Joined(s, t, s \o t)
<1>1. Len(s) \in Nat /\ Len(t) \in Nat
  BY LenProperties
<1>2. PICK u : u = s \o t
  OBVIOUS
<1>3. /\ u \in Seq(Chars) /\ Len(u) = Len(s) + Len(t)
      /\ \A i \in 1 .. Len(s) + Len(t) :
           u[i] = IF i <= Len(s) THEN s[i] ELSE t[i - Len(s)]
  BY <1>2, ConcatProperties
<1>4. \A i \in 1 .. Len(s) : u[i] = s[i]
  BY <1>1, <1>3
<1>5. ASSUME NEW i \in 1 .. Len(t)
      PROVE  u[Len(s) + i] = t[i]
  <2>1. PICK j : j = Len(s) + i
    OBVIOUS
  <2>2. j \in 1 .. Len(s) + Len(t) /\ ~(j <= Len(s)) /\ j - Len(s) = i
    BY <1>1, <2>1
  <2> QED
    BY <1>3, <2>1, <2>2
<1> QED
  BY <1>2, <1>3, <1>4, <1>5 DEF Joined

\* What stands in the first part stands there in the whole, and likewise for
\* the second part.
LEMMA JoinedFirst ==
    ASSUME NEW s \in Seq(Chars), NEW t \in Seq(Chars), NEW u, Joined(s, t, u),
           NEW i \in Int, i <= Len(s), NEW c
    PROVE  Is(u, i, c) <=> Is(s, i, c)
<1>1. Len(s) \in Nat /\ Len(t) \in Nat
  BY LenProperties
<1> QED
  BY <1>1 DEF Joined, Is

LEMMA JoinedSecond ==
    ASSUME NEW s \in Seq(Chars), NEW t \in Seq(Chars), NEW u, Joined(s, t, u),
           NEW i \in Int, i > Len(s), NEW c
    PROVE  Is(u, i, c) <=> Is(t, i - Len(s), c)
<1>1. Len(s) \in Nat /\ Len(t) \in Nat
  BY LenProperties
<1>2. PICK j : j = i - Len(s)
  OBVIOUS
<1>3. j \in Int /\ i = Len(s) + j /\ (i \in 1 .. Len(u) <=> j \in 1 .. Len(t))
  BY <1>1, <1>2 DEF Joined
<1>4. j \in 1 .. Len(t) => u[i] = t[j]
  BY <1>3 DEF Joined
<1> QED
  BY <1>2, <1>3, <1>4 DEF Is

LEMMA JoinedMatches ==
    ASSUME NEW s \in Seq(Chars), NEW t \in Seq(Chars), NEW u, Joined(s, t, u)
    PROVE  Matches(t, u, Len(s))
BY LenProperties DEF Joined, Matches

\* Nothing comes behind a line feed.
OneLine(p) ==
    /\ p \in Seq(Chars)
    /\ Len(p) >= 1
    /\ \A j : Is(p, j, LF) => j = Len(p)

WholeLines(s) ==
    /\ s \in Seq(Chars)
    /\ Len(s) = 0 \/ EolAt(s, Len(s) - 1)

LEMMA MarksOfJoined ==
    ASSUME NEW s, WholeLines(s), NEW p, OneLine(p), NEW u, Joined(s, p, u)
    PROVE  /\ \A i : MarkAt(s, i) => MarkAt(u, i)
           /\ Is(p, 1, DOT) /\ Len(s) # 0 => MarkAt(u, Len(s) - 1)
           /\ \A i : MarkAt(u, i) =>
                \/ MarkAt(s, i)
                \/ i = Len(s) - 1 /\ Len(s) # 0 /\ Is(p, 1, DOT)
<1>1. s \in Seq(Chars) /\ p \in Seq(Chars)
  BY DEF WholeLines, OneLine
<1>2. Len(s) \in Nat /\ Len(p) \in Nat
  BY <1>1, LenProperties
<1>3. \A i \in Int : \A c : i <= Len(s) => (Is(u, i, c) <=> Is(s, i, c))
  BY <1>1, JoinedFirst
<1>4. \A i \in Int : \A c : i > Len(s) => (Is(u, i, c) <=> Is(p, i - Len(s), c))
  BY <1>1, JoinedSecond
<1>5. ASSUME NEW i, MarkAt(s, i)
      PROVE  MarkAt(u, i)
  <2>1. i \in Int /\ i + 2 \in Int /\ i + 2 <= Len(s)
    BY <1>2, <1>5 DEF MarkAt, Is
  <2> QED
    BY <1>2, <1>3, <1>5, <2>1 DEF MarkAt
<1>6. ASSUME Is(p, 1, DOT), Len(s) # 0
      PROVE  MarkAt(u, Len(s) - 1)
  <2>1. EolAt(s, Len(s) - 1)
    BY <1>6 DEF WholeLines
  <2>2. PICK i : i = Len(s) - 1
    OBVIOUS
  <2>3. /\ i \in Int /\ i + 1 \in Int /\ i + 2 \in Int
        /\ i <= Len(s) /\ i + 1 <= Len(s) /\ i + 2 > Len(s) /\ (i + 2) - Len(s) = 1
    BY <1>2, <2>2
  <2>4. Is(s, i, CR) /\ Is(s, i + 1, LF)
    BY <2>1, <2>2 DEF EolAt
  <2>5. Is(u, i, CR) /\ Is(u, i + 1, LF)
    BY <1>3, <2>3, <2>4
  <2>6. Is(u, i + 2, DOT)
    BY <1>4, <1>6, <2>3
  <2> QED
    BY <2>2, <2>5, <2>6 DEF MarkAt
<1>7. ASSUME NEW i, MarkAt(u, i)
      PROVE  \/ MarkAt(s, i)
             \/ i = Len(s) - 1 /\ Len(s) # 0 /\ Is(p, 1, DOT)
  <2>1. /\ Is(u, i, CR) /\ Is(u, i + 1, LF) /\ Is(u, i + 2, DOT)
    BY <1>7 DEF MarkAt
  <2>2. /\ i \in Int /\ i >= 1 /\ i + 1 \in Int /\ i + 2 \in Int
        /\ i + 2 <= Len(s) + Len(p)
    BY <1>2, <2>1 DEF Is, Joined
  <2>3. CASE i + 2 <= Len(s)
    BY <1>2, <1>3, <2>1, <2>2, <2>3 DEF MarkAt
  <2>4. CASE i + 2 = Len(s) + 1
    <3>1. Is(p, 1, DOT)
      <4>1. i + 2 > Len(s) /\ (i + 2) - Len(s) = 1
        BY <1>2, <2>2, <2>4
      <4> QED
        BY <1>4, <2>1, <2>2, <4>1
    <3>2. i = Len(s) - 1 /\ Len(s) # 0
      BY <1>2, <2>2, <2>4
    <3> QED
      BY <3>1, <3>2
  <2>5. CASE i + 2 > Len(s) + 1
    <3>1. i + 1 > Len(s)
      BY <1>2, <2>2, <2>5
    <3>2. Is(p, (i + 1) - Len(s), LF)
      BY <1>4, <2>1, <2>2, <3>1
    <3>3. (i + 1) - Len(s) = Len(p)
      BY <3>2 DEF OneLine
    <3> QED
      BY <1>2, <2>2, <3>3
  <2> QED
    BY <1>2, <2>2, <2>3, <2>4, <2>5
<1> QED
  BY <1>5, <1>6, <1>7

\* A line of a mail, as it is and as it is sent.
LEMMA LineIs ==
    ASSUME NEW line \in Seq(Chars \ {CR, LF})
    PROVE  /\ line \o CRLF \in Seq(Chars)
           /\ Len(line \o CRLF) >= 2
           /\ OneLine(line \o CRLF)
           /\ EolAt(line \o CRLF, Len(line \o CRLF) - 1)
           /\ Is(line \o CRLF, 1, DOT) <=> IsPrefix(<<DOT>>, line)
<1>1. line \in Seq(Chars)
  BY SeqMonotonic
<1>2. CRLF \in Seq(Chars) /\ Len(CRLF) = 2 /\ CRLF[1] = CR /\ CRLF[2] = LF
  BY Patterns
<1>3. PICK t : t = line \o CRLF
  OBVIOUS
<1>4. Joined(line, CRLF, t)
  BY <1>1, <1>2, <1>3, ConcatJoined
<1>5. Len(line) \in Nat
  BY <1>1, LenProperties
<1>6. \A i \in 1 .. Len(line) : line[i] \notin {CR, LF}
  BY ElementOfSeq
<1>7. /\ t \in Seq(Chars) /\ Len(t) = Len(line) + 2
      /\ \A i \in 1 .. Len(line) : t[i] = line[i]
      /\ t[Len(line) + 1] = CR /\ t[Len(line) + 2] = LF
  BY <1>2, <1>4 DEF Joined
<1>8. PICK n : n = Len(line)
  OBVIOUS
<1>9. Len(t) = n + 2 /\ n \in Nat /\ t[n + 1] = CR /\ t[n + 2] = LF
  BY <1>5, <1>7, <1>8
<1>10. EolAt(t, Len(t) - 1)
  <2>1. Len(t) - 1 = n + 1 /\ (Len(t) - 1) + 1 = n + 2
        /\ n + 1 \in 1 .. Len(t) /\ n + 2 \in 1 .. Len(t)
    BY <1>9
  <2> QED
    BY <1>9, <2>1 DEF EolAt, Is
<1>11. OneLine(t)
  <2>1. ASSUME NEW j, Is(t, j, LF)
        PROVE  j = Len(t)
    <3>1. j \in 1 .. (n + 2) /\ t[j] = LF
      BY <1>9, <2>1 DEF Is
    <3>2. CASE j \in 1 .. n
      BY <1>6, <1>7, <1>8, <3>1, <3>2
    <3>3. CASE j = n + 1
      BY <1>9, <3>1, <3>3, CharAssumption
    <3> QED
      BY <1>9, <3>1, <3>2, <3>3
  <2>2. Len(t) >= 1
    BY <1>9
  <2> QED
    BY <1>7, <2>1, <2>2 DEF OneLine
<1>12. Is(t, 1, DOT) <=> Is(line, 1, DOT)
  <2>1. CASE n = 0
    <3>1. t[1] = CR
      BY <1>9, <2>1
    <3>2. ~Is(t, 1, DOT)
      BY <3>1, CharAssumption DEF Is
    <3>3. ~Is(line, 1, DOT)
      BY <1>8, <2>1 DEF Is
    <3> QED
      BY <3>2, <3>3
  <2>2. CASE n # 0
    BY <1>1, <1>2, <1>4, <1>8, <1>9, <2>2, JoinedFirst
  <2> QED
    BY <2>1, <2>2
<1>13. IsPrefix(<<DOT>>, line) <=> Is(line, 1, DOT)
  BY <1>1, BeginningsAre
<1>14. Len(t) >= 2
  BY <1>9
<1> QED
  BY <1>3, <1>7, <1>10, <1>11, <1>12, <1>13, <1>14

\* A line that starts with a dot is sent with another one, the others as they
\* are.
LEMMA StuffedIs ==
    ASSUME NEW line \in Seq(Chars \ {CR, LF})
    PROVE  /\ Stuffed(line) \in Seq(Chars \ {CR, LF})
           /\ ~Is(line \o CRLF, 1, DOT) => Stuffed(line) \o CRLF = line \o CRLF
           /\ Is(line \o CRLF, 1, DOT) =>
                Stuffed(line) \o CRLF = <<DOT>> \o (line \o CRLF)
<1>1. Is(line \o CRLF, 1, DOT) <=> IsPrefix(<<DOT>>, line)
  BY LineIs
<1>2. DOT \in Chars \ {CR, LF}
  BY CharAssumption
<1>3. <<DOT>> \in Seq(Chars \ {CR, LF})
  BY <1>2
<1>4. line \in Seq(Chars) /\ <<DOT>> \in Seq(Chars) /\ CRLF \in Seq(Chars)
  BY SeqMonotonic, Patterns
<1>5. (<<DOT>> \o line) \o CRLF = <<DOT>> \o (line \o CRLF)
  BY <1>4, ConcatAssociative
<1>6. <<DOT>> \o line \in Seq(Chars \ {CR, LF})
  BY <1>3, ConcatProperties
<1>7. CASE IsPrefix(<<DOT>>, line)
  <2>1. Stuffed(line) = <<DOT>> \o line
    BY <1>7 DEF Stuffed
  <2> QED
    BY <1>1, <1>5, <1>6, <1>7, <2>1
<1>8. CASE ~IsPrefix(<<DOT>>, line)
  <2>1. Stuffed(line) = line
    BY <1>8 DEF Stuffed
  <2> QED
    BY <1>1, <1>8, <2>1
<1> QED
  BY <1>7, <1>8

LEMMA WholeLinesGrow ==
    ASSUME NEW s, WholeLines(s), NEW p, OneLine(p), EolAt(p, Len(p) - 1),
           NEW u, Joined(s, p, u)
    PROVE  WholeLines(u)
<1>1. s \in Seq(Chars) /\ p \in Seq(Chars)
  BY DEF WholeLines, OneLine
<1>2. Len(s) \in Nat /\ Len(p) \in Nat
  BY <1>1, LenProperties
<1>3. Len(u) = Len(s) + Len(p) /\ u \in Seq(Chars)
  BY DEF Joined
<1>4. PICK i : i = Len(u) - 1
  OBVIOUS
<1>5. Is(p, Len(p) - 1, CR) /\ Is(p, (Len(p) - 1) + 1, LF)
  BY DEF EolAt
<1>6. Len(p) >= 2
  BY <1>2, <1>5 DEF Is
<1>7. /\ i \in Int /\ i > Len(s) /\ i - Len(s) = Len(p) - 1
      /\ i + 1 \in Int /\ i + 1 > Len(s) /\ (i + 1) - Len(s) = (Len(p) - 1) + 1
  BY <1>2, <1>3, <1>4, <1>6
<1>8. Is(u, i, CR)
  <2>1. Is(u, i, CR) <=> Is(p, i - Len(s), CR)
    BY <1>1, <1>7, JoinedSecond
  <2> QED
    BY <1>5, <1>7, <2>1
<1>9. Is(u, i + 1, LF)
  <2>1. Is(u, i + 1, LF) <=> Is(p, (i + 1) - Len(s), LF)
    BY <1>1, <1>7, JoinedSecond
  <2> QED
    BY <1>5, <1>7, <2>1
<1> QED
  BY <1>3, <1>4, <1>8, <1>9 DEF WholeLines, EolAt

LEMMA DotsOfJoined ==
    ASSUME NEW s, WholeLines(s), NEW p, OneLine(p), NEW u, Joined(s, p, u)
    PROVE  /\ \A q \in 1 .. Len(s) : q \in Dots(u) <=> q \in Dots(s)
           /\ \A q \in (Len(s) + 1) .. Len(u) :
                q \in Dots(u) <=> q = Len(s) + 1 /\ Is(p, 1, DOT)
<1>1. s \in Seq(Chars) /\ p \in Seq(Chars) /\ u \in Seq(Chars)
  BY DEF WholeLines, OneLine, Joined
<1>2. Len(s) \in Nat /\ Len(p) \in Nat /\ Len(u) = Len(s) + Len(p)
  BY <1>1, LenProperties DEF Joined
<1>3. /\ \A q : q \in Dots(s) <=> DotAt(s, q)
      /\ \A q : q \in Dots(u) <=> DotAt(u, q)
  BY <1>1, DotsAre
<1>4. /\ \A i : MarkAt(s, i) => MarkAt(u, i)
      /\ Is(p, 1, DOT) /\ Len(s) # 0 => MarkAt(u, Len(s) - 1)
      /\ \A i : MarkAt(u, i) =>
           \/ MarkAt(s, i)
           \/ i = Len(s) - 1 /\ Len(s) # 0 /\ Is(p, 1, DOT)
  BY MarksOfJoined
<1>5. \A i : MarkAt(s, i) => i \in Int /\ i + 2 <= Len(s)
  BY <1>2 DEF MarkAt, Is
<1>6. Len(s) >= 1 => (Is(u, 1, DOT) <=> Is(s, 1, DOT))
  BY <1>1, JoinedFirst
<1>7. Len(s) = 0 => (Is(u, 1, DOT) <=> Is(p, 1, DOT))
  <2> SUFFICES ASSUME Len(s) = 0
               PROVE  Is(u, 1, DOT) <=> Is(p, 1, DOT)
    OBVIOUS
  <2>1. PICK i : i = 1
    OBVIOUS
  <2>2. i \in Int /\ i > Len(s) /\ i - Len(s) = 1
    BY <2>1
  <2>3. Is(u, i, DOT) <=> Is(p, i - Len(s), DOT)
    BY <1>1, <2>2, JoinedSecond
  <2> QED
    BY <2>1, <2>2, <2>3
<1>8. ASSUME NEW q \in 1 .. Len(s)
      PROVE  DotAt(u, q) <=> DotAt(s, q)
  <2>1. Len(s) >= 1
    BY <1>2
  <2>2. ASSUME NEW i, MarkAt(u, i), q = i + 2
        PROVE  MarkAt(s, i)
    BY <1>2, <1>4, <2>2
  <2> QED
    BY <1>4, <1>6, <2>1, <2>2 DEF DotAt
<1>9. ASSUME NEW q \in (Len(s) + 1) .. Len(u), DotAt(u, q)
      PROVE  q = Len(s) + 1 /\ Is(p, 1, DOT)
  <2>1. CASE q = 1 /\ Is(u, 1, DOT)
    <3>1. Len(s) = 0
      BY <1>2, <2>1
    <3> QED
      BY <1>7, <2>1, <3>1
  <2>2. ASSUME NEW i, MarkAt(u, i), q = i + 2
        PROVE  q = Len(s) + 1 /\ Is(p, 1, DOT)
    <3>1. ~MarkAt(s, i)
      BY <1>2, <1>5, <2>2
    <3>2. i = Len(s) - 1 /\ Is(p, 1, DOT)
      BY <1>4, <2>2, <3>1
    <3> QED
      BY <1>2, <2>2, <3>2
  <2> QED
    BY <1>9, <2>1, <2>2 DEF DotAt
<1>10. ASSUME NEW q, q = Len(s) + 1, Is(p, 1, DOT)
       PROVE  DotAt(u, q)
  <2>1. CASE Len(s) = 0
    BY <1>7, <1>10, <2>1 DEF DotAt
  <2>2. CASE Len(s) # 0
    <3>1. MarkAt(u, Len(s) - 1) /\ q = (Len(s) - 1) + 2
      BY <1>2, <1>4, <1>10, <2>2
    <3> QED
      BY <3>1 DEF DotAt
  <2> QED
    BY <2>1, <2>2
<1>11. \A q \in 1 .. Len(s) : q \in Dots(u) <=> q \in Dots(s)
  BY <1>3, <1>8
<1>12. \A q \in (Len(s) + 1) .. Len(u) :
          q \in Dots(u) <=> q = Len(s) + 1 /\ Is(p, 1, DOT)
  BY <1>3, <1>9, <1>10
<1> QED
  BY <1>11, <1>12

\* Of the first part the same is kept, if the same is dropped of it.
LEMMA KeptFirst ==
    ASSUME NEW s \in Seq(Chars), NEW p \in Seq(Chars), NEW u, Joined(s, p, u),
           NEW own, NEW drop, \A q \in 1 .. Len(s) : q \in drop <=> q \in own,
           NEW K, Keeps(K, drop, u)
    PROVE  K[Len(s)] = Without(own, s)
<1>1. Len(s) \in Nat /\ Len(u) \in Nat /\ u \in Seq(Chars) /\ Len(s) <= Len(u)
  BY LenProperties DEF Joined
<1>2. PICK J : J = Kept(own, s)
  OBVIOUS
<1>3. Keeps(J, own, s)
  BY <1>2, KeptKeeps
<1>4. Alike(drop, u, own, s, Len(s))
  BY DEF Joined, Alike
<1>5. PICK n : n = Len(s)
  OBVIOUS
<1>6. n \in Nat /\ n <= Len(u) /\ n <= Len(s) /\ Alike(drop, u, own, s, n)
  BY <1>1, <1>4, <1>5
<1>7. K[n] = J[n]
  BY <1>1, <1>3, <1>6, KeepsAgree
<1> QED
  BY <1>2, <1>5, <1>7 DEF Without

\* r is t behind s.
Behind(r, s, t) == r = s \o t

\* If nothing of the rest is dropped, all of it is kept.
LEMMA KeptRest ==
    ASSUME NEW drop, NEW u \in Seq(Chars), NEW K, Keeps(K, drop, u),
           NEW h \in 0 .. Len(u), NEW t \in Seq(Chars), Matches(t, u, h),
           NEW j \in Nat, j <= Len(u), j = h + Len(t), Untouched(drop, h, j)
    PROVE  Behind(K[j], K[h], t)
<1>1. Len(u) \in Nat /\ Len(t) \in Nat
  BY LenProperties
<1>2. j \in h .. Len(u)
  BY <1>1
<1>3. K[j] = Copied(K[h], u, h, j)
  BY <1>2, KeepsStretch
<1>4. SubSeq(u, h + 1, j) = t
  <2>1. SubSeq(u, h + 1, h + Len(t)) = t
    BY SubSeqMatches DEF Matches
  <2> QED
    BY <2>1
<1> QED
  BY <1>3, <1>4 DEF Copied, Behind

\* Behind a dot that begins a line comes the one that was there.
Dotted(s) ==
    /\ \A i : MarkAt(s, i) => Is(s, i + 3, DOT)
    /\ Is(s, 1, DOT) => Is(s, 2, DOT)

LEMMA DottedGrows ==
    ASSUME NEW s, WholeLines(s), Dotted(s),
           NEW p, OneLine(p), Is(p, 1, DOT) => Is(p, 2, DOT),
           NEW u, Joined(s, p, u)
    PROVE  Dotted(u)
<1>1. s \in Seq(Chars) /\ p \in Seq(Chars)
  BY DEF WholeLines, OneLine
<1>2. Len(s) \in Nat
  BY <1>1, LenProperties
<1>3. \A i \in Int : \A c : i <= Len(s) => (Is(u, i, c) <=> Is(s, i, c))
  BY <1>1, JoinedFirst
<1>4. \A i \in Int : \A c : i > Len(s) => (Is(u, i, c) <=> Is(p, i - Len(s), c))
  BY <1>1, JoinedSecond
<1>5. ASSUME NEW i, MarkAt(u, i)
      PROVE  Is(u, i + 3, DOT)
  <2>1. CASE MarkAt(s, i)
    <3>1. Is(s, i + 3, DOT)
      BY <2>1 DEF Dotted
    <3>2. i + 3 \in Int /\ i + 3 <= Len(s)
      BY <1>2, <3>1 DEF Is
    <3> QED
      BY <1>3, <3>1, <3>2
  <2>2. CASE i = Len(s) - 1 /\ Is(p, 1, DOT)
    <3>1. Is(p, 2, DOT)
      BY <2>2
    <3>2. i + 3 \in Int /\ i + 3 > Len(s) /\ (i + 3) - Len(s) = 2
      BY <1>2, <2>2
    <3> QED
      BY <1>4, <3>1, <3>2
  <2> QED
    BY <1>5, <2>1, <2>2, MarksOfJoined
<1>6. ASSUME Is(u, 1, DOT)
      PROVE  Is(u, 2, DOT)
  <2>1. PICK i : i = 1
    OBVIOUS
  <2>2. PICK j : j = 2
    OBVIOUS
  <2>3. Is(u, i, DOT) /\ i \in Int /\ j \in Int
    BY <1>6, <2>1, <2>2
  <2>4. CASE i <= Len(s)
    <3>1. Is(s, i, DOT)
      BY <1>3, <2>3, <2>4
    <3>2. Is(s, j, DOT)
      BY <2>1, <2>2, <3>1 DEF Dotted
    <3>3. j <= Len(s)
      BY <1>2, <2>3, <3>2 DEF Is
    <3> QED
      BY <1>3, <2>2, <2>3, <3>2, <3>3
  <2>5. CASE ~(i <= Len(s))
    <3>1. i > Len(s) /\ j > Len(s) /\ i - Len(s) = 1 /\ j - Len(s) = 2
      BY <1>2, <2>1, <2>2, <2>5
    <3>2. Is(p, 1, DOT)
      BY <1>4, <2>3, <3>1
    <3>3. Is(p, 2, DOT)
      BY <3>2
    <3> QED
      BY <1>4, <2>2, <2>3, <3>1, <3>3
  <2> QED
    BY <2>4, <2>5
<1> QED
  BY <1>5, <1>6 DEF Dotted

\* s: the beginning of what is sent; t: that of what is meant.
Sent(s, t) ==
    /\ WholeLines(s)
    /\ Dotted(s)
    /\ t \in Seq(Chars)
    /\ Without(Dots(s), s) = t

LEMMA KeptGrows ==
    ASSUME NEW s, NEW t, Sent(s, t),
           NEW q \in Seq(Chars), NEW p, OneLine(p),
           ~Is(p, 1, DOT) => p = q, Is(p, 1, DOT) => Behind(p, <<DOT>>, q),
           NEW u, Joined(s, p, u)
    PROVE  Behind(Without(Dots(u), u), t, q)
<1>1. s \in Seq(Chars) /\ p \in Seq(Chars) /\ u \in Seq(Chars)
  BY DEF Sent, WholeLines, OneLine, Joined
<1>2. /\ Len(s) \in Nat /\ Len(p) \in Nat /\ Len(q) \in Nat
      /\ Len(u) = Len(s) + Len(p)
  BY <1>1, LenProperties DEF Joined
<1>3. PICK K : K = Kept(Dots(u), u)
  OBVIOUS
<1>4. Keeps(K, Dots(u), u)
  BY <1>1, <1>3, KeptKeeps
<1>5. /\ \A i \in 1 .. Len(s) : i \in Dots(u) <=> i \in Dots(s)
      /\ \A i \in (Len(s) + 1) .. Len(u) :
           i \in Dots(u) <=> i = Len(s) + 1 /\ Is(p, 1, DOT)
  BY DotsOfJoined DEF Sent
<1>6. K[Len(s)] = t
  <2>1. K[Len(s)] = Without(Dots(s), s)
    BY <1>1, <1>4, <1>5, KeptFirst
  <2> QED
    BY <2>1 DEF Sent
<1>7. Matches(p, u, Len(s))
  BY <1>1, JoinedMatches
<1>8. PICK n : n = Len(u)
  OBVIOUS
<1>9. PICK h : h = Len(s)
  OBVIOUS
<1>10. n \in Nat /\ n <= Len(u) /\ h \in 0 .. Len(u) /\ n = h + Len(p)
  BY <1>2, <1>8, <1>9
<1>11. CASE ~Is(p, 1, DOT)
  <2>1. Untouched(Dots(u), h, n)
    BY <1>5, <1>8, <1>9, <1>11 DEF Untouched
  <2>2. Behind(K[n], K[h], p)
    BY <1>1, <1>4, <1>7, <1>9, <1>10, <2>1, KeptRest
  <2> QED
    BY <1>3, <1>6, <1>8, <1>9, <1>11, <2>2 DEF Without
<1>12. CASE Is(p, 1, DOT)
  <2>1. PICK d : d = <<DOT>>
    OBVIOUS
  <2>2. d \in Seq(Chars) /\ Len(d) = 1
    BY <2>1, Patterns
  <2>3. Joined(d, q, p)
    BY <1>12, <2>1, <2>2, ConcatJoined DEF Behind
  <2>4. Len(p) = 1 + Len(q) /\ \A i \in 1 .. Len(q) : p[1 + i] = q[i]
    BY <2>2, <2>3 DEF Joined
  <2>5. PICK g : g = h + 1
    OBVIOUS
  <2>6. /\ g \in 0 .. Len(u) /\ g \in 1 .. Len(u) /\ h \in 0 .. Len(u)
        /\ n = g + Len(q) /\ g \in Nat
    BY <1>2, <1>10, <2>4, <2>5
  <2>7. Matches(q, u, g)
    <3>1. \A i \in 1 .. Len(p) : u[h + i] = p[i]
      BY <1>7, <1>9 DEF Matches
    <3>2. ASSUME NEW i \in 1 .. Len(q)
          PROVE  u[g + i] = q[i]
      <4>1. PICK j : j = 1 + i
        OBVIOUS
      <4>2. j \in 1 .. Len(p) /\ h + j = g + i
        BY <1>2, <1>10, <2>4, <2>5, <4>1
      <4>3. u[h + j] = p[j] /\ p[j] = q[i]
        BY <2>4, <3>1, <4>1, <4>2
      <4> QED
        BY <4>2, <4>3
    <3> QED
      BY <1>10, <2>6, <3>2 DEF Matches
  <2>8. Untouched(Dots(u), g, n)
    <3>1. \A i \in (g + 1) .. n : i \in (Len(s) + 1) .. Len(u) /\ i # Len(s) + 1
      BY <1>2, <1>8, <1>9, <2>5
    <3> QED
      BY <1>5, <3>1 DEF Untouched
  <2>9. K[g] = K[h]
    <3>1. g \in Dots(u)
      <4>1. g \in (Len(s) + 1) .. Len(u) /\ g = Len(s) + 1
        BY <1>9, <2>5, <2>6, <1>2
      <4> QED
        BY <1>5, <1>12, <4>1
    <3>2. Step(K, Dots(u), u, h, g)
      BY <1>4, <2>5, <2>6 DEF Keeps
    <3> QED
      BY <3>1, <3>2 DEF Step
  <2>10. Behind(K[n], K[g], q)
    BY <1>1, <1>4, <1>10, <2>6, <2>7, <2>8, KeptRest
  <2> QED
    BY <1>3, <1>6, <1>8, <1>9, <2>9, <2>10 DEF Without
<1> QED
  BY <1>11, <1>12

LEMMA SentNothing == Sent(<<>>, <<>>)
<1>1. PICK s : s = <<>>
  OBVIOUS
<1>2. s \in Seq(Chars) /\ Len(s) = 0
  BY <1>1, EmptySeq
<1>3. WholeLines(s)
  BY <1>2 DEF WholeLines
<1>4. Dotted(s)
  BY <1>2 DEF Dotted, MarkAt, Is
<1>5. Keeps(Kept(Dots(s), s), Dots(s), s)
  BY <1>2, KeptKeeps
<1>6. Kept(Dots(s), s)[0] = <<>>
  BY <1>5 DEF Keeps
<1>7. Without(Dots(s), s) = s
  BY <1>1, <1>2, <1>6 DEF Without
<1>8. Sent(s, s)
  BY <1>2, <1>3, <1>4, <1>7 DEF Sent
<1> QED
  BY <1>1, <1>8

\* What a line is sent as, behind what was sent before it.
LEMMA SentGrows ==
    ASSUME NEW s, NEW t, Sent(s, t),
           NEW line \in Seq(Chars \ {CR, LF}),
           NEW u, Behind(u, s, Stuffed(line) \o CRLF),
           NEW v, Behind(v, t, line \o CRLF)
    PROVE  Sent(u, v) /\ Len(u) >= 2
<1>1. PICK q : q = line \o CRLF
  OBVIOUS
<1>2. PICK p : p = Stuffed(line) \o CRLF
  OBVIOUS
<1>3. /\ Stuffed(line) \in Seq(Chars \ {CR, LF})
      /\ ~Is(q, 1, DOT) => p = q
      /\ Is(q, 1, DOT) => Behind(p, <<DOT>>, q)
  BY <1>1, <1>2, StuffedIs DEF Behind
<1>4. q \in Seq(Chars) /\ OneLine(q)
  BY <1>1, LineIs
<1>5. /\ p \in Seq(Chars) /\ Len(p) >= 2 /\ OneLine(p) /\ EolAt(p, Len(p) - 1)
  BY <1>2, <1>3, LineIs
<1>6. s \in Seq(Chars) /\ t \in Seq(Chars) /\ WholeLines(s) /\ Dotted(s)
  BY DEF Sent, WholeLines
<1>7. Joined(s, p, u)
  BY <1>2, <1>5, <1>6, ConcatJoined DEF Behind
<1>8. Is(q, 1, DOT) => Joined(<<DOT>>, q, p)
  BY <1>3, <1>4, Patterns, ConcatJoined DEF Behind
<1>9. Is(q, 1, DOT) => Is(p, 1, DOT) /\ Is(p, 2, DOT)
  <2> SUFFICES ASSUME Is(q, 1, DOT)
               PROVE  Is(p, 1, DOT) /\ Is(p, 2, DOT)
    OBVIOUS
  <2>1. PICK d : d = <<DOT>>
    OBVIOUS
  <2>2. Len(d) = 1 /\ d[1] = DOT /\ Joined(d, q, p)
    BY <1>8, <2>1, Patterns
  <2>3. Len(q) \in Nat /\ Len(q) >= 1 /\ q[1] = DOT
    BY <1>4, LenProperties DEF Is
  <2>4. Len(p) = 1 + Len(q) /\ p[1] = DOT /\ p[1 + 1] = q[1]
    BY <2>2, <2>3 DEF Joined
  <2> QED
    BY <2>3, <2>4 DEF Is
<1>10. Is(p, 1, DOT) <=> Is(q, 1, DOT)
  BY <1>3, <1>9
<1>11. WholeLines(u)
  BY <1>5, <1>6, <1>7, WholeLinesGrow
<1>12. Dotted(u)
  BY <1>5, <1>6, <1>7, <1>9, <1>10, DottedGrows
<1>13. Behind(Without(Dots(u), u), t, q)
  BY <1>3, <1>4, <1>5, <1>7, <1>10, KeptGrows
<1>14. Without(Dots(u), u) = v
  BY <1>1, <1>13 DEF Behind
<1>15. v \in Seq(Chars)
  BY <1>1, <1>4, <1>6, ConcatProperties DEF Behind
<1>16. Len(u) >= 2
  <2>1. Len(u) = Len(s) + Len(p) /\ Len(s) \in Nat /\ Len(p) \in Nat
    BY <1>5, <1>6, <1>7, LenProperties DEF Joined
  <2> QED
    BY <1>5, <2>1
<1> QED
  BY <1>11, <1>12, <1>14, <1>15, <1>16 DEF Sent

\* No line begins with a dot.
Plain(s) == (\A i : ~MarkAt(s, i)) /\ ~Is(s, 1, DOT)

LEMMA PlainGrows ==
    ASSUME NEW s, WholeLines(s), Plain(s),
           NEW line \in Seq(Chars \ {CR, LF}), ~IsPrefix(<<DOT>>, line),
           NEW u, Behind(u, s, line \o CRLF)
    PROVE  Plain(u)
<1>1. PICK q : q = line \o CRLF
  OBVIOUS
<1>2. q \in Seq(Chars) /\ OneLine(q) /\ ~Is(q, 1, DOT)
  BY <1>1, LineIs
<1>3. s \in Seq(Chars) /\ Len(s) \in Nat
  BY LenProperties DEF WholeLines
<1>4. Joined(s, q, u)
  BY <1>1, <1>2, <1>3, ConcatJoined DEF Behind
<1>5. \A i : ~MarkAt(u, i)
  BY <1>2, <1>4, MarksOfJoined DEF Plain
<1>6. ~Is(u, 1, DOT)
  <2>1. PICK i : i = 1
    OBVIOUS
  <2>2. i \in Int
    BY <2>1
  <2>3. CASE i <= Len(s)
    <3>1. Is(u, i, DOT) <=> Is(s, i, DOT)
      BY <1>2, <1>3, <1>4, <2>2, <2>3, JoinedFirst
    <3> QED
      BY <2>1, <3>1 DEF Plain
  <2>4. CASE ~(i <= Len(s))
    <3>1. i > Len(s) /\ i - Len(s) = 1
      BY <1>3, <2>1, <2>4
    <3>2. Is(u, i, DOT) <=> Is(q, i - Len(s), DOT)
      BY <1>2, <1>3, <1>4, <2>2, <3>1, JoinedSecond
    <3> QED
      BY <1>2, <2>1, <3>1, <3>2
  <2> QED
    BY <2>3, <2>4
<1> QED
  BY <1>5, <1>6 DEF Plain

-----------------------------------------------------------------------------
(* A whole mail. *)

\* F[k]: the first k lines.
Adds(F, lines) ==
    /\ F[0] = <<>>
    /\ \A k \in 1 .. Len(lines) : \A h \in 0 .. Len(lines) :
         k = h + 1 => Behind(F[k], F[h], lines[k] \o CRLF)

LEMMA EndedAdds ==
    ASSUME NEW lines \in Seq(Seq(Chars))
    PROVE  \E F : Adds(F, lines) /\ Ended(lines) = F[Len(lines)]
<1>1. PICK n : n = Len(lines)
  OBVIOUS
<1>2. n \in Nat /\ DOMAIN lines = 1 .. n
  BY <1>1, LenProperties
<1>3. PICK seqs : seqs = [i \in 1 .. n |-> lines[i] \o CRLF]
  OBVIOUS
<1>4. \A i \in 1 .. n : lines[i] \o CRLF \in Seq(Chars)
  BY <1>1, ElementOfSeq, Patterns, ConcatProperties
<1>5. /\ seqs \in [1 .. n -> Seq(Chars)]
      /\ \A i \in 1 .. n : seqs[i] = lines[i] \o CRLF
  BY <1>3, <1>4
<1>6. seqs \in Seq(Seq(Chars))
  BY <1>2, <1>5, SeqDef
<1>7. Len(seqs) = n
  BY <1>2, <1>5, <1>6, LenProperties
<1>8. PICK F : Joins(F, seqs) /\ FlattenSeq(seqs) = F[Len(seqs)]
  BY <1>6, FlattenSeqJoins
<1>9. Ended(lines) = F[n]
  BY <1>2, <1>3, <1>7, <1>8 DEF Ended
<1>10. F[0] = <<>>
  BY <1>8 DEF Joins
<1>11. ASSUME NEW k \in 1 .. n, NEW h \in 0 .. n, k = h + 1
       PROVE  Behind(F[k], F[h], lines[k] \o CRLF)
  <2>1. F[k] = F[h] \o seqs[k]
    BY <1>7, <1>8, <1>11 DEF Joins
  <2> QED
    BY <1>5, <2>1 DEF Behind
<1> QED
  BY <1>1, <1>9, <1>10, <1>11 DEF Adds

\* The lines of mail m as they are sent.
Lined(m) == Ended([i \in DOMAIN m |-> Stuffed(m[i])])

LEMMA LinesAre ==
    ASSUME NEW m \in Seq(Lines)
    PROVE  /\ Len(m) \in Nat /\ DOMAIN m = 1 .. Len(m)
           /\ \A i \in 1 .. Len(m) : m[i] \in Seq(Chars \ {CR, LF})
           /\ m \in Seq(Seq(Chars))
           /\ [i \in DOMAIN m |-> Stuffed(m[i])] \in Seq(Seq(Chars))
           /\ Len([i \in DOMAIN m |-> Stuffed(m[i])]) = Len(m)
<1>1. Len(m) \in Nat /\ DOMAIN m = 1 .. Len(m)
  BY LenProperties
<1>2. \A i \in 1 .. Len(m) : m[i] \in Seq(Chars \ {CR, LF})
  <2>1. Seq(Chars \ {CR, LF, INVALID}) \subseteq Seq(Chars \ {CR, LF})
    BY SeqMonotonic
  <2> QED
    BY <2>1, ElementOfSeq, LinesAssumption
<1>3. \A line \in Seq(Chars \ {CR, LF}) : line \in Seq(Chars)
  BY SeqMonotonic
<1>4. \A i \in 1 .. Len(m) : Stuffed(m[i]) \in Seq(Chars)
  BY <1>2, <1>3, StuffedIs
<1>5. Lines \subseteq Seq(Chars)
  BY <1>3, LinesAssumption
<1>6. m \in Seq(Seq(Chars))
  BY <1>5, SeqMonotonic
<1>7. PICK st : st = [i \in 1 .. Len(m) |-> Stuffed(m[i])]
  OBVIOUS
<1>8. st \in [1 .. Len(m) -> Seq(Chars)]
  BY <1>4, <1>7
<1>9. st \in Seq(Seq(Chars))
  BY <1>1, <1>8, SeqDef
<1>10. Len(st) = Len(m)
  BY <1>1, <1>8, <1>9, LenProperties
<1> QED
  BY <1>1, <1>2, <1>6, <1>7, <1>9, <1>10

LEMMA MailSent ==
    ASSUME NEW m \in Seq(Lines)
    PROVE  /\ Sent(Lined(m), Ended(m))
           /\ m # <<>> => Len(Lined(m)) >= 2
           /\ m = <<>> => Len(Lined(m)) = 0
<1>1. PICK n : n = Len(m)
  OBVIOUS
<1>2. PICK st : st = [i \in DOMAIN m |-> Stuffed(m[i])]
  OBVIOUS
<1>3. /\ n \in Nat /\ DOMAIN m = 1 .. n /\ Len(m) = n /\ Len(st) = n
      /\ \A i \in 1 .. n : m[i] \in Seq(Chars \ {CR, LF})
      /\ m \in Seq(Seq(Chars)) /\ st \in Seq(Seq(Chars))
  BY <1>1, <1>2, LinesAre
<1>4. \A i \in 1 .. n : st[i] = Stuffed(m[i])
  BY <1>2, <1>3
<1>5. PICK F : Adds(F, st) /\ Ended(st) = F[n]
  BY <1>3, EndedAdds
<1>6. PICK G : Adds(G, m) /\ Ended(m) = G[n]
  BY <1>3, EndedAdds
<1> DEFINE S == {k \in 0 .. n : Sent(F[k], G[k]) /\ (k # 0 => Len(F[k]) >= 2)}
<1>7. 0 \in S
  BY <1>3, <1>5, <1>6, SentNothing DEF Adds
<1>8. ASSUME NEW h \in 0 .. (n - 1), h \in S
      PROVE  h + 1 \in S
  <2>1. PICK k : k = h + 1
    OBVIOUS
  <2>2. k \in 1 .. n /\ h \in 0 .. n /\ k \in 0 .. n
    BY <1>3, <2>1
  <2>3. Behind(F[k], F[h], Stuffed(m[k]) \o CRLF)
    <3>1. Behind(F[k], F[h], st[k] \o CRLF)
      BY <1>3, <1>5, <2>1, <2>2 DEF Adds
    <3> QED
      BY <1>4, <2>2, <3>1
  <2>4. Behind(G[k], G[h], m[k] \o CRLF)
    BY <1>3, <1>6, <2>1, <2>2 DEF Adds
  <2>5. Sent(F[h], G[h])
    BY <1>8
  <2>6. PICK line : line = m[k]
    OBVIOUS
  <2>7. /\ Behind(F[k], F[h], Stuffed(line) \o CRLF)
        /\ Behind(G[k], G[h], line \o CRLF)
        /\ line \in Seq(Chars \ {CR, LF})
    BY <1>3, <2>2, <2>3, <2>4, <2>6
  <2>8. Sent(F[k], G[k]) /\ Len(F[k]) >= 2
    BY <2>5, <2>7, SentGrows
  <2> QED
    BY <2>1, <2>2, <2>8
<1> HIDE DEF S
<1>9. \A k \in 0 .. n : k \in S
  BY <1>3, <1>7, <1>8, IntervalInduction
<1>10. Sent(F[n], G[n]) /\ (n # 0 => Len(F[n]) >= 2)
  <2>1. n \in S
    BY <1>3, <1>9
  <2> QED
    BY <2>1 DEF S
<1>11. n = 0 => Len(F[n]) = 0
  BY <1>5, EmptySeq DEF Adds
<1>12. m = <<>> <=> n = 0
  BY <1>1, EmptySeq
<1>13. Lined(m) = F[n]
  BY <1>2, <1>5 DEF Lined
<1> QED
  BY <1>6, <1>10, <1>11, <1>12, <1>13

\* A mail without a line that starts with a dot is sent as it is.
LEMMA MailPlain ==
    ASSUME NEW m \in Seq(Lines), \A i \in DOMAIN m : ~IsPrefix(<<DOT>>, m[i])
    PROVE  Plain(Lined(m)) /\ Lined(m) = Ended(m)
<1>1. PICK n : n = Len(m)
  OBVIOUS
<1>2. /\ n \in Nat /\ DOMAIN m = 1 .. n /\ Len(m) = n
      /\ \A i \in 1 .. n : m[i] \in Seq(Chars \ {CR, LF})
      /\ m \in Seq(Seq(Chars)) /\ m \in [1 .. n -> Lines]
  BY <1>1, LinesAre, LenProperties
<1>3. \A i \in 1 .. n : Stuffed(m[i]) = m[i]
  BY <1>2 DEF Stuffed
<1>4. [i \in DOMAIN m |-> Stuffed(m[i])] = m
  BY <1>2, <1>3
<1>5. Lined(m) = Ended(m)
  BY <1>4 DEF Lined
<1>6. PICK F : Adds(F, m) /\ Ended(m) = F[n]
  BY <1>2, EndedAdds
<1> DEFINE S == {k \in 0 .. n : WholeLines(F[k]) /\ Plain(F[k])}
<1>7. 0 \in S
  <2>1. PICK s : s = <<>>
    OBVIOUS
  <2>2. Len(s) = 0 /\ WholeLines(s)
    BY <2>1, SentNothing, EmptySeq DEF Sent
  <2>3. Plain(s)
    BY <2>2 DEF Plain, MarkAt, Is
  <2> QED
    BY <1>2, <1>6, <2>1, <2>2, <2>3 DEF Adds
<1>8. ASSUME NEW h \in 0 .. (n - 1), h \in S
      PROVE  h + 1 \in S
  <2>1. PICK k : k = h + 1
    OBVIOUS
  <2>2. k \in 1 .. n /\ h \in 0 .. n /\ k \in 0 .. n
    BY <1>2, <2>1
  <2>3. Behind(F[k], F[h], m[k] \o CRLF)
    BY <1>2, <1>6, <2>1, <2>2 DEF Adds
  <2>4. WholeLines(F[h]) /\ Plain(F[h])
    BY <1>8
  <2>5. PICK line : line = m[k]
    OBVIOUS
  <2>6. /\ line \in Seq(Chars \ {CR, LF}) /\ ~IsPrefix(<<DOT>>, line)
        /\ Behind(F[k], F[h], line \o CRLF)
    BY <1>2, <2>2, <2>3, <2>5
  <2>7. Plain(F[k])
    BY <2>4, <2>6, PlainGrows
  <2>8. WholeLines(F[k])
    <3>1. PICK q : q = line \o CRLF
      OBVIOUS
    <3>2. q \in Seq(Chars) /\ OneLine(q) /\ EolAt(q, Len(q) - 1)
      BY <2>6, <3>1, LineIs
    <3>3. Joined(F[h], q, F[k])
      BY <2>4, <2>6, <3>1, <3>2, ConcatJoined DEF Behind, WholeLines
    <3> QED
      BY <2>4, <3>2, <3>3, WholeLinesGrow
  <2> QED
    BY <2>1, <2>2, <2>7, <2>8
<1> HIDE DEF S
<1>9. \A k \in 0 .. n : k \in S
  BY <1>2, <1>7, <1>8, IntervalInduction
<1>10. Plain(F[n])
  <2>1. n \in S
    BY <1>2, <1>9
  <2> QED
    BY <2>1 DEF S
<1> QED
  BY <1>5, <1>6, <1>10
=============================================================================
