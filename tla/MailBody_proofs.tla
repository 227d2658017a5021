--------------------------- MODULE MailBody_proofs ---------------------------
(***************************************************************************)
(* The invariants of MailBody, for every set of characters, every set of   *)
(* lines without CR and LF, mails of any length, whatever follows them,    *)
(* wherever the reads end and whether they are UTF-8 or not.               *)
(*                                                                         *)
(* MailText_proofs says what the operators do and what a mail looks like   *)
(* once it is sent; here the places where a read can end are gone through. *)
(***************************************************************************)
EXTENDS MailText_proofs

-----------------------------------------------------------------------------
(* What a sender puts on the wire: x, of which the mail is the first n. *)

Wire(x, n) ==
    /\ x \in Seq(Chars)
    /\ n \in Nat /\ n <= Len(x)
    /\ n = 3 \/ n >= 5
    /\ LastAt(x, n - 2)
    /\ n # 3 => EndAt(x, n - 4)
    /\ \A i : MarkAt(x, i) => i + 2 <= n /\ (i = n - 4 \/ Is(x, i + 3, DOT))
    /\ \A i : LastAt(x, i) => i + 2 <= n
    /\ LastAt(x, 1) => n = 3

\* What may follow the mail.
Harmless(f) ==
    /\ f \in Seq(Chars)
    /\ ~Is(f, 1, DOT)
    /\ \A i : ~MarkAt(f, i) /\ ~LastAt(f, i)

LEMMA FollowingHarmless == Harmless(Following) /\ Harmless(<<>>)
<1>1. Harmless(Following)
  <2>1. Following \in Seq(Chars)
    BY FollowingAssumption, SeqMonotonic
  <2> QED
    BY <2>1, FollowingAssumption, OccurrencesAre, BeginningsAre
       DEF Harmless, Marks
<1>2. PICK s : s = <<>>
  OBVIOUS
<1>3. s \in Seq(Chars) /\ Len(s) = 0
  BY <1>2, EmptySeq
<1>4. Harmless(s)
  BY <1>3 DEF Harmless, MarkAt, LastAt, Is
<1> QED
  BY <1>1, <1>2, <1>4

LEMMA EndLineIs ==
    /\ EndLine \in Seq(Chars) /\ Len(EndLine) = 3
    /\ Is(EndLine, 1, DOT) /\ Is(EndLine, 2, CR) /\ Is(EndLine, 3, LF)
    /\ OneLine(EndLine)
<1>1. PICK e : e = EndLine
  OBVIOUS
<1>2. e \in Seq(Chars) /\ Len(e) = 3 /\ e[1] = DOT /\ e[2] = CR /\ e[3] = LF
  BY <1>1, Patterns
<1>3. Is(e, 1, DOT) /\ Is(e, 2, CR) /\ Is(e, 3, LF)
  BY <1>2 DEF Is
<1>4. \A j : Is(e, j, LF) => j = Len(e)
  BY <1>2, CharAssumption DEF Is
<1>5. OneLine(e)
  BY <1>2, <1>4 DEF OneLine
<1> QED
  BY <1>1, <1>2, <1>3, <1>5

\* The mail itself: b are its lines as they are sent, m has the end as well.
LEMMA MailWire ==
    ASSUME NEW b, NEW t, Sent(b, t), Len(b) = 0 \/ Len(b) >= 2,
           NEW m, Joined(b, EndLine, m)
    PROVE  Wire(m, Len(m)) /\ Is(m, Len(m) - 1, CR) /\ Is(m, Len(m), LF)
<1>1. WholeLines(b) /\ Dotted(b) /\ b \in Seq(Chars)
  BY DEF Sent, WholeLines
<1>2. PICK k : k = Len(b)
  OBVIOUS
<1>3. PICK n : n = Len(m)
  OBVIOUS
<1>4. k \in Nat /\ n = k + 3 /\ m \in Seq(Chars) /\ Len(m) = k + 3 /\ Len(b) = k
  BY <1>1, <1>2, <1>3, EndLineIs, LenProperties DEF Joined
<1>5. \A i \in Int : \A c : i <= k => (Is(m, i, c) <=> Is(b, i, c))
  BY <1>1, <1>4, EndLineIs, JoinedFirst
<1>6. \A i \in Int : \A c : i > k => (Is(m, i, c) <=> Is(EndLine, i - k, c))
  BY <1>1, <1>4, EndLineIs, JoinedSecond
<1>7. Is(m, k + 1, DOT) /\ Is(m, k + 2, CR) /\ Is(m, k + 3, LF)
  <2>1. /\ k + 1 \in Int /\ k + 1 > k /\ (k + 1) - k = 1
        /\ k + 2 \in Int /\ k + 2 > k /\ (k + 2) - k = 2
        /\ k + 3 \in Int /\ k + 3 > k /\ (k + 3) - k = 3
    BY <1>4
  <2> QED
    BY <1>6, <2>1, EndLineIs
<1>8. LastAt(m, n - 2)
  <2>1. n - 2 = k + 1 /\ (n - 2) + 1 = k + 2 /\ (n - 2) + 2 = k + 3
    BY <1>4
  <2> QED
    BY <1>7, <2>1 DEF LastAt
<1>9. Is(m, n - 1, CR) /\ Is(m, n, LF)
  <2>1. n - 1 = k + 2 /\ n = k + 3
    BY <1>4
  <2> QED
    BY <1>7, <2>1
<1>10. n # 3 => EndAt(m, n - 4)
  <2> SUFFICES ASSUME n # 3
               PROVE  EndAt(m, n - 4)
    OBVIOUS
  <2>1. k # 0
    BY <1>4
  <2>2. EolAt(b, k - 1)
    BY <1>1, <1>4, <2>1 DEF WholeLines
  <2>3. Is(b, k - 1, CR) /\ Is(b, k, LF)
    BY <1>4, <2>2 DEF EolAt
  <2>4. Is(m, k - 1, CR) /\ Is(m, k, LF)
    BY <1>4, <1>5, <2>3
  <2>5. /\ n - 4 = k - 1 /\ (n - 4) + 1 = k /\ (n - 4) + 2 = k + 1
        /\ (n - 4) + 3 = k + 2 /\ ((n - 4) + 3) + 1 = k + 3
    BY <1>4
  <2> QED
    BY <1>7, <2>4, <2>5 DEF EndAt, MarkAt, EolAt
<1>11. ASSUME NEW i, MarkAt(m, i)
       PROVE  i + 2 <= n /\ (i = n - 4 \/ Is(m, i + 3, DOT))
  <2>1. i + 2 <= n
    BY <1>3, <1>4, <1>11 DEF MarkAt, Is
  <2>2. MarkAt(b, i) \/ i = k - 1
    BY <1>1, <1>4, <1>11, EndLineIs, MarksOfJoined
  <2>3. CASE MarkAt(b, i)
    <3>1. Is(b, i + 3, DOT)
      BY <1>1, <2>3 DEF Dotted
    <3>2. i + 3 \in Int /\ i + 3 <= k
      BY <1>4, <3>1 DEF Is
    <3>3. Is(m, i + 3, DOT)
      BY <1>5, <3>1, <3>2
    <3> QED
      BY <2>1, <3>3
  <2>4. CASE i = k - 1
    BY <1>4, <2>1, <2>4
  <2> QED
    BY <2>2, <2>3, <2>4
<1>12. \A i : LastAt(m, i) => i + 2 <= n
  BY <1>4 DEF LastAt, Is
<1>13. LastAt(m, 1) => n = 3
  <2> SUFFICES ASSUME LastAt(m, 1), n # 3
               PROVE  FALSE
    OBVIOUS
  <2>1. k >= 2
    BY <1>2, <1>4
  <2>2. Is(m, 1, DOT) /\ Is(m, 2, CR)
    BY DEF LastAt
  <2>3. PICK i : i = 1
    OBVIOUS
  <2>4. PICK j : j = 2
    OBVIOUS
  <2>5. i \in Int /\ i <= k /\ j \in Int /\ j <= k
    BY <1>4, <2>1, <2>3, <2>4
  <2>6. Is(b, i, DOT) /\ Is(b, j, CR)
    BY <1>5, <2>2, <2>3, <2>4, <2>5
  <2>7. Is(b, j, DOT)
    BY <1>1, <2>3, <2>4, <2>6 DEF Dotted
  <2> QED
    BY <2>6, <2>7, CharAssumption DEF Is
<1>14. n \in Nat /\ n <= Len(m) /\ (n = 3 \/ n >= 5)
  BY <1>2, <1>4
<1> QED
  BY <1>3, <1>4, <1>8, <1>9, <1>10, <1>11, <1>12, <1>13, <1>14 DEF Wire

\* The mail with what follows it.
LEMMA StreamWire ==
    ASSUME NEW m, Wire(m, Len(m)), Is(m, Len(m) - 1, CR), Is(m, Len(m), LF),
           NEW f, Harmless(f), NEW x, Joined(m, f, x)
    PROVE  Wire(x, Len(m))
<1>1. m \in Seq(Chars) /\ f \in Seq(Chars) /\ x \in Seq(Chars)
  BY DEF Wire, Harmless, Joined
<1>2. PICK n : n = Len(m)
  OBVIOUS
<1>3. /\ n \in Nat /\ Len(m) = n /\ (n = 3 \/ n >= 5)
      /\ Len(f) \in Nat /\ Len(x) = n + Len(f)
  BY <1>1, <1>2, LenProperties DEF Wire, Joined
<1>4. \A i \in Int : \A c : i <= n => (Is(x, i, c) <=> Is(m, i, c))
  BY <1>1, <1>3, JoinedFirst
<1>5. \A i \in Int : \A c : i > n => (Is(x, i, c) <=> Is(f, i - n, c))
  BY <1>1, <1>3, JoinedSecond
<1>6. /\ LastAt(m, n - 2)
      /\ n # 3 => EndAt(m, n - 4)
      /\ \A i : MarkAt(m, i) => i + 2 <= n /\ (i = n - 4 \/ Is(m, i + 3, DOT))
      /\ \A i : LastAt(m, i) => i + 2 <= n
      /\ LastAt(m, 1) => n = 3
      /\ Is(m, n - 1, CR) /\ Is(m, n, LF)
  BY <1>2 DEF Wire
<1>7. ASSUME NEW i, NEW c, Is(m, i, c)
      PROVE  Is(x, i, c) /\ i \in Int /\ i <= n
  <2>1. i \in Int /\ i <= n
    BY <1>3, <1>7 DEF Is
  <2> QED
    BY <1>4, <1>7, <2>1
<1>8. LastAt(x, n - 2)
  BY <1>6, <1>7 DEF LastAt
<1>9. n # 3 => EndAt(x, n - 4)
  BY <1>6, <1>7 DEF EndAt, MarkAt, EolAt
<1>10. \A i \in Int : MarkAt(x, i) /\ i + 2 <= n => MarkAt(m, i)
  BY <1>3, <1>4 DEF MarkAt
<1>11. \A i \in Int : LastAt(x, i) /\ i + 2 <= n => LastAt(m, i)
  BY <1>3, <1>4 DEF LastAt
<1>12. ASSUME NEW i, MarkAt(x, i)
       PROVE  i + 2 <= n /\ (i = n - 4 \/ Is(x, i + 3, DOT))
  <2>1. Is(x, i, CR) /\ Is(x, i + 1, LF) /\ Is(x, i + 2, DOT) /\ i \in Int
    BY <1>12 DEF MarkAt, Is
  <2>2. CASE i > n
    <3>1. PICK h : h = i - n
      OBVIOUS
    <3>2. /\ i + 1 \in Int /\ i + 1 > n /\ (i + 1) - n = h + 1
          /\ i + 2 \in Int /\ i + 2 > n /\ (i + 2) - n = h + 2
      BY <1>3, <2>1, <2>2, <3>1
    <3>3. Is(f, h, CR) /\ Is(f, h + 1, LF) /\ Is(f, h + 2, DOT)
      BY <1>5, <2>1, <2>2, <3>1, <3>2
    <3> QED
      BY <3>3 DEF Harmless, MarkAt
  <2>3. CASE i = n
    <3>1. Is(x, i, LF)
      BY <1>6, <1>7, <2>3
    <3> QED
      BY <2>1, <3>1, CharAssumption DEF Is
  <2>4. CASE i = n - 1
    <3>1. i + 2 \in Int /\ i + 2 > n /\ (i + 2) - n = 1
      BY <1>3, <2>4
    <3>2. Is(f, 1, DOT)
      BY <1>5, <2>1, <3>1
    <3> QED
      BY <3>2 DEF Harmless
  <2>5. CASE i + 2 <= n
    <3>1. MarkAt(m, i)
      BY <1>10, <1>12, <2>1, <2>5
    <3> QED
      BY <1>6, <1>7, <2>5, <3>1
  <2> QED
    BY <1>3, <2>1, <2>2, <2>3, <2>4, <2>5
<1>13. ASSUME NEW i, LastAt(x, i)
       PROVE  i + 2 <= n
  <2>1. Is(x, i, DOT) /\ Is(x, i + 1, CR) /\ Is(x, i + 2, LF) /\ i \in Int
    BY <1>13 DEF LastAt, Is
  <2>2. CASE i > n
    <3>1. PICK h : h = i - n
      OBVIOUS
    <3>2. /\ i + 1 \in Int /\ i + 1 > n /\ (i + 1) - n = h + 1
          /\ i + 2 \in Int /\ i + 2 > n /\ (i + 2) - n = h + 2
      BY <1>3, <2>1, <2>2, <3>1
    <3>3. Is(f, h, DOT) /\ Is(f, h + 1, CR) /\ Is(f, h + 2, LF)
      BY <1>5, <2>1, <2>2, <3>1, <3>2
    <3> QED
      BY <3>3 DEF Harmless, LastAt
  <2>3. CASE i = n
    <3>1. Is(x, i, LF)
      BY <1>6, <1>7, <2>3
    <3> QED
      BY <2>1, <3>1, CharAssumption DEF Is
  <2>4. CASE i = n - 1
    <3>1. Is(x, i, CR)
      BY <1>6, <1>7, <2>4
    <3> QED
      BY <2>1, <3>1, CharAssumption DEF Is
  <2> QED
    BY <1>3, <2>1, <2>2, <2>3, <2>4
<1>14. LastAt(x, 1) => n = 3
  <2> SUFFICES ASSUME LastAt(x, 1)
               PROVE  n = 3
    OBVIOUS
  <2>1. PICK i : i = 1
    OBVIOUS
  <2>2. i \in Int /\ LastAt(x, i) /\ i + 2 <= n
    BY <1>3, <2>1
  <2>3. LastAt(m, i)
    BY <1>11, <2>2
  <2> QED
    BY <1>6, <2>1, <2>3
<1>15. n \in Nat /\ n <= Len(x)
  BY <1>3
<1> QED
  BY <1>1, <1>2, <1>3, <1>8, <1>9, <1>12, <1>13, <1>14, <1>15 DEF Wire

-----------------------------------------------------------------------------
(* What a read brings. *)

\* c is what stands in x behind position h up to position j.
Part(c, x, h, j) ==
    /\ c \in Seq(Chars)
    /\ h \in Nat /\ j \in Nat /\ h <= j /\ j <= Len(x)
    /\ Len(c) = j - h
    /\ \A i \in 1 .. (j - h) : c[i] = x[h + i]

LEMMA SubSeqPart ==
    ASSUME NEW x \in Seq(Chars), NEW h \in Nat, NEW j \in Nat,
           h <= j, j <= Len(x)
    PROVE  Part(SubSeq(x, h + 1, j), x, h, j)
<1>1. Len(x) \in Nat
  BY LenProperties
<1>2. PICK a : a = h + 1
  OBVIOUS
<1>3. a \in Int /\ j \in Int /\ \A i \in a .. j : x[i] \in Chars
  BY <1>1, <1>2, ElementOfSeq
<1>4. /\ SubSeq(x, a, j) \in Seq(Chars)
      /\ Len(SubSeq(x, a, j)) = IF a <= j THEN j - a + 1 ELSE 0
      /\ \A i \in 1 .. (j - a + 1) : SubSeq(x, a, j)[i] = x[a + i - 1]
  BY <1>3, SubSeqProperties
<1>5. PICK c : c = SubSeq(x, a, j)
  OBVIOUS
<1>6. Len(c) = j - h
  BY <1>2, <1>4, <1>5
<1>7. \A i \in 1 .. (j - h) : c[i] = x[h + i]
  BY <1>2, <1>4, <1>5
<1> QED
  BY <1>2, <1>4, <1>5, <1>6, <1>7 DEF Part

LEMMA PartIs ==
    ASSUME NEW x \in Seq(Chars), NEW c, NEW h, NEW j, Part(c, x, h, j),
           NEW i \in Int, i >= 1, NEW k, k = h + i, NEW ch
    PROVE  Is(c, i, ch) <=> k <= j /\ Is(x, k, ch)
<1>1. Len(x) \in Nat
  BY LenProperties
<1>2. h \in Nat /\ j \in Nat /\ h <= j /\ j <= Len(x) /\ Len(c) = j - h
  BY DEF Part
<1>3. CASE k <= j
  <2>1. i \in 1 .. Len(c) /\ i \in 1 .. (j - h) /\ k \in 1 .. Len(x)
    BY <1>1, <1>2, <1>3
  <2>2. c[i] = x[k]
    BY <2>1 DEF Part
  <2> QED
    BY <1>3, <2>1, <2>2 DEF Is
<1>4. CASE ~(k <= j)
  BY <1>2, <1>4 DEF Is
<1> QED
  BY <1>3, <1>4

LEMMA PartPatterns ==
    ASSUME NEW x \in Seq(Chars), NEW c, NEW h, NEW j, Part(c, x, h, j),
           NEW i \in Int, i >= 1, NEW k, k = h + i
    PROVE  /\ MarkAt(c, i) <=> MarkAt(x, k) /\ k + 2 <= j
           /\ LastAt(c, i) <=> LastAt(x, k) /\ k + 2 <= j
           /\ EolAt(c, i) <=> EolAt(x, k) /\ k + 1 <= j
           /\ EndAt(c, i) <=> EndAt(x, k) /\ k + 4 <= j
<1>1. h \in Nat /\ j \in Nat
  BY DEF Part
<1>2. PICK i1 : i1 = i + 1
  OBVIOUS
<1>3. PICK i2 : i2 = i + 2
  OBVIOUS
<1>4. PICK i3 : i3 = i + 3
  OBVIOUS
<1>5. PICK i4 : i4 = i + 4
  OBVIOUS
<1>6. /\ i1 \in Int /\ i1 >= 1 /\ k + 1 = h + i1
      /\ i2 \in Int /\ i2 >= 1 /\ k + 2 = h + i2
      /\ i3 \in Int /\ i3 >= 1 /\ k + 3 = h + i3
      /\ i4 \in Int /\ i4 >= 1 /\ k + 4 = h + i4
      /\ i3 + 1 = i4 /\ (k + 3) + 1 = k + 4
      /\ k \in Int
  BY <1>1, <1>2, <1>3, <1>4, <1>5
<1>7. /\ \A ch : Is(c, i, ch) <=> k <= j /\ Is(x, k, ch)
      /\ \A ch : Is(c, i1, ch) <=> k + 1 <= j /\ Is(x, k + 1, ch)
      /\ \A ch : Is(c, i2, ch) <=> k + 2 <= j /\ Is(x, k + 2, ch)
      /\ \A ch : Is(c, i3, ch) <=> k + 3 <= j /\ Is(x, k + 3, ch)
      /\ \A ch : Is(c, i4, ch) <=> k + 4 <= j /\ Is(x, k + 4, ch)
  BY <1>6, PartIs
<1>8. MarkAt(c, i) <=> MarkAt(x, k) /\ k + 2 <= j
  BY <1>1, <1>2, <1>3, <1>6, <1>7 DEF MarkAt
<1>9. LastAt(c, i) <=> LastAt(x, k) /\ k + 2 <= j
  BY <1>1, <1>2, <1>3, <1>6, <1>7 DEF LastAt
<1>10. EolAt(c, i) <=> EolAt(x, k) /\ k + 1 <= j
  BY <1>1, <1>2, <1>6, <1>7 DEF EolAt
<1>11. EolAt(c, i3) <=> EolAt(x, k + 3) /\ k + 4 <= j
  BY <1>1, <1>6, <1>7 DEF EolAt
<1>12. EndAt(c, i) <=> EndAt(x, k) /\ k + 4 <= j
  BY <1>1, <1>4, <1>6, <1>8, <1>11 DEF EndAt
<1> QED
  BY <1>8, <1>9, <1>10, <1>12

\* Awkward, by the positions.
AwkwardAt(x, n, p) ==
    \/ MarkAt(x, p - 2)
    \/ LastAt(x, p + 1) /\ ~EolAt(x, p - 1)
    \/ p \in {n - 4, n - 2, n - 1}

LEMMA AwkwardIs ==
    ASSUME Stream \in Seq(Chars), NEW p \in 0 .. Len(Stream)
    PROVE  Awkward(p) <=> AwkwardAt(Stream, Len(Mail), p)
<1>1. PICK x : x = Stream
  OBVIOUS
<1>2. PICK n : n = Len(Mail)
  OBVIOUS
<1>3. x \in Seq(Chars) /\ Len(x) \in Nat /\ p \in Nat /\ p <= Len(x)
  BY <1>1, LenProperties
<1>4. PICK c : c = SubSeq(x, 1, p)
  OBVIOUS
<1>5. Part(c, x, 0, p)
  <2>1. Part(SubSeq(x, 0 + 1, p), x, 0, p)
    BY <1>3, SubSeqPart
  <2>2. 0 + 1 = 1
    OBVIOUS
  <2> QED
    BY <1>4, <2>1, <2>2
<1>6. c \in Seq(Chars) /\ Len(c) = p
  BY <1>5 DEF Part
<1>7. IsSuffix(Mark, c) <=> MarkAt(c, p - 2)
  BY <1>6, EndsAre
<1>8. IsSuffix(CRLF, c) <=> EolAt(c, p - 1)
  BY <1>6, EndsAre
<1>9. MarkAt(c, p - 2) <=> MarkAt(x, p - 2)
  <2>1. PICK i : i = p - 2
    OBVIOUS
  <2>2. CASE i >= 1
    <3>1. i \in Int /\ i = 0 + i /\ i + 2 <= p
      BY <1>3, <2>1
    <3> QED
      BY <1>3, <1>5, <2>1, <2>2, <3>1, PartPatterns
  <2>3. CASE ~(i >= 1)
    BY <1>3, <2>1, <2>3 DEF MarkAt, Is
  <2> QED
    BY <2>2, <2>3
<1>10. EolAt(c, p - 1) <=> EolAt(x, p - 1)
  <2>1. PICK i : i = p - 1
    OBVIOUS
  <2>2. CASE i >= 1
    <3>1. i \in Int /\ i = 0 + i /\ i + 1 <= p
      BY <1>3, <2>1
    <3> QED
      BY <1>3, <1>5, <2>1, <2>2, <3>1, PartPatterns
  <2>3. CASE ~(i >= 1)
    BY <1>3, <2>1, <2>3 DEF EolAt, Is
  <2> QED
    BY <2>2, <2>3
<1>11. OccursAt(EndLine, x, p + 1) <=> LastAt(x, p + 1)
  <2>1. PICK i : i = p + 1
    OBVIOUS
  <2>2. OccursAt(EndLine, x, i) <=> Matches(EndLine, x, p)
    BY <1>3, <2>1, EndLineIs, OccursAtMatches
  <2>3. Matches(EndLine, x, p) <=> LastAt(x, i)
    BY <1>3, <2>1, MatchesLast
  <2> QED
    BY <2>1, <2>2, <2>3
<1> QED
  BY <1>1, <1>2, <1>4, <1>7, <1>8, <1>9, <1>10, <1>11 DEF Awkward, AwkwardAt

-----------------------------------------------------------------------------
(* Where the end of a mail is seen. *)

\* A read that begins well and ends with the mail has the end of it.
LEMMA EndSeen ==
    ASSUME NEW x, NEW n, Wire(x, n),
           NEW h \in 0 .. (n - 1), h # 0 => ~AwkwardAt(x, n, h),
           NEW c, Part(c, x, h, n)
    PROVE  contains_mail_end(c)
<1>1. /\ x \in Seq(Chars) /\ c \in Seq(Chars)
      /\ n \in Nat /\ h \in Nat /\ h < n /\ (n = 3 \/ n >= 5)
  BY DEF Wire, Part
<1>2. CASE h = n - 3
  <2>1. PICK i : i = 1
    OBVIOUS
  <2>2. PICK k : k = n - 2
    OBVIOUS
  <2>3. i \in Int /\ i >= 1 /\ k = h + i /\ k + 2 <= n
    BY <1>1, <1>2, <2>1, <2>2
  <2>4. LastAt(x, k)
    BY <2>2 DEF Wire
  <2>5. LastAt(c, i)
    BY <1>1, <2>3, <2>4, PartPatterns
  <2> QED
    BY <1>1, <2>1, <2>5, MailEndIs
<1>3. CASE h # n - 3
  <2>1. n >= 5
    <3>1. CASE n = 3
      <4>1. h \in {n - 4, n - 2, n - 1}
        BY <1>1, <1>3, <3>1
      <4>2. h # 0
        BY <1>3, <3>1
      <4> QED
        BY <4>1, <4>2 DEF AwkwardAt
    <3> QED
      BY <1>1, <3>1
  <2>2. h <= n - 5
    <3>1. CASE h \in {n - 4, n - 2, n - 1}
      <4>1. h # 0
        BY <2>1, <3>1, <1>1
      <4> QED
        BY <3>1, <4>1 DEF AwkwardAt
    <3> QED
      BY <1>1, <1>3, <3>1
  <2>3. PICK k : k = n - 4
    OBVIOUS
  <2>4. PICK i : i = k - h
    OBVIOUS
  <2>5. i \in Int /\ i >= 1 /\ k = h + i /\ k + 4 <= n
    BY <1>1, <2>2, <2>3, <2>4
  <2>6. EndAt(x, k)
    BY <2>1, <2>3 DEF Wire
  <2>7. EndAt(c, i)
    BY <1>1, <2>5, <2>6, PartPatterns
  <2> QED
    BY <1>1, <2>7, MailEndIs
<1> QED
  BY <1>2, <1>3

\* A mark with CR behind it is the beginning of the end.
LEMMA MarkOfEnd ==
    ASSUME NEW x, NEW n, Wire(x, n), NEW i, MarkAt(x, i), Is(x, i + 3, CR)
    PROVE  i = n - 4
<1>1. i = n - 4 \/ Is(x, i + 3, DOT)
  BY DEF Wire
<1> QED
  BY <1>1, CharAssumption DEF Is

LEMMA PatternsArePositive ==
    ASSUME NEW s \in Seq(Chars), NEW i
    PROVE  /\ MarkAt(s, i) => i \in Int /\ i >= 1 /\ i + 2 <= Len(s)
           /\ EolAt(s, i) => i \in Int /\ i >= 1
           /\ LastAt(s, i) => i \in Int /\ i >= 1
           /\ EndAt(s, i) => i \in Int /\ i >= 1
BY LenProperties DEF MarkAt, EolAt, LastAt, EndAt, Is

\* Where a read of the mail has an end that is not its last, it began or ended
\* badly.
LEMMA NoEndSeen ==
    ASSUME NEW x, NEW n, Wire(x, n),
           NEW h \in Nat, h # 0 => ~AwkwardAt(x, n, h),
           NEW j \in Nat, j < n, ~AwkwardAt(x, n, j),
           NEW c, Part(c, x, h, j)
    PROVE  ~contains_mail_end(c)
<1>1. x \in Seq(Chars) /\ c \in Seq(Chars) /\ n \in Nat /\ Len(c) = j - h
  BY DEF Wire, Part
<1>2. ~LastAt(c, 1)
  <2> SUFFICES ASSUME LastAt(c, 1)
               PROVE  FALSE
    OBVIOUS
  <2>1. PICK i : i = 1
    OBVIOUS
  <2>2. PICK k : k = h + 1
    OBVIOUS
  <2>3. i \in Int /\ i >= 1 /\ k = h + i
    BY <2>1, <2>2
  <2>4. LastAt(x, k) /\ k + 2 <= j
    BY <1>1, <2>1, <2>3, PartPatterns
  <2>5. CASE h = 0
    <3>1. LastAt(x, 1)
      BY <2>2, <2>4, <2>5
    <3>2. n = 3
      BY <3>1 DEF Wire
    <3> QED
      BY <1>1, <2>2, <2>4, <3>2
  <2>6. CASE h # 0
    <3>1. EolAt(x, h - 1)
      BY <2>2, <2>4, <2>6 DEF AwkwardAt
    <3>2. PICK g : g = h - 1
      OBVIOUS
    <3>3. g + 1 = (h - 1) + 1 /\ g + 2 = k /\ g + 3 = k + 1
      BY <2>2, <3>2
    <3>4. MarkAt(x, g) /\ Is(x, g + 3, CR)
      BY <2>4, <3>1, <3>2, <3>3 DEF MarkAt, EolAt, LastAt
    <3>5. g = n - 4
      BY <3>4, MarkOfEnd
    <3> QED
      BY <1>1, <2>2, <2>4, <3>2, <3>5
  <2> QED
    BY <2>5, <2>6
<1>3. ASSUME NEW i, EndAt(c, i)
      PROVE  FALSE
  <2>1. i \in Int /\ i >= 1
    BY <1>1, <1>3, PatternsArePositive
  <2>2. PICK k : k = h + i
    OBVIOUS
  <2>3. EndAt(x, k) /\ k + 4 <= j
    BY <1>1, <1>3, <2>1, <2>2, PartPatterns
  <2>4. MarkAt(x, k) /\ Is(x, k + 3, CR)
    BY <2>3 DEF EndAt, EolAt
  <2>5. k = n - 4
    BY <2>4, MarkOfEnd
  <2> QED
    BY <1>1, <2>3, <2>5
<1>4. ~MarkAt(c, Len(c) - 2)
  <2> SUFFICES ASSUME MarkAt(c, Len(c) - 2)
               PROVE  FALSE
    OBVIOUS
  <2>1. PICK i : i = Len(c) - 2
    OBVIOUS
  <2>2. PICK k : k = j - 2
    OBVIOUS
  <2>3. MarkAt(c, i) /\ i \in Int /\ i >= 1
    BY <1>1, <2>1, PatternsArePositive
  <2>4. k = h + i
    BY <1>1, <2>1, <2>2
  <2>5. MarkAt(x, k)
    BY <1>1, <2>3, <2>4, PartPatterns
  <2> QED
    BY <2>2, <2>5 DEF AwkwardAt
<1> QED
  BY <1>1, <1>2, <1>3, <1>4, MailEndIs

\* There is no end behind the mail.
LEMMA NoEndBehind ==
    ASSUME NEW x, NEW n, Wire(x, n), NEW h \in Nat, h >= n, NEW j \in Nat,
           NEW c, Part(c, x, h, j)
    PROVE  ~contains_mail_end(c)
<1>1. x \in Seq(Chars) /\ c \in Seq(Chars) /\ n \in Nat
  BY DEF Wire, Part
<1>2. /\ \A i : MarkAt(x, i) => i + 2 <= n
      /\ \A i : LastAt(x, i) => i + 2 <= n
  BY DEF Wire
<1>3. ASSUME NEW i, MarkAt(c, i)
      PROVE  FALSE
  <2>1. i \in Int /\ i >= 1
    BY <1>1, <1>3, PatternsArePositive
  <2>2. PICK k : k = h + i
    OBVIOUS
  <2>3. MarkAt(x, k)
    BY <1>1, <1>3, <2>1, <2>2, PartPatterns
  <2> QED
    BY <1>1, <1>2, <2>1, <2>2, <2>3
<1>4. ASSUME NEW i, LastAt(c, i)
      PROVE  FALSE
  <2>1. i \in Int /\ i >= 1
    BY <1>1, <1>4, PatternsArePositive
  <2>2. PICK k : k = h + i
    OBVIOUS
  <2>3. LastAt(x, k)
    BY <1>1, <1>4, <2>1, <2>2, PartPatterns
  <2> QED
    BY <1>1, <1>2, <2>1, <2>2, <2>3
<1> QED
  BY <1>1, <1>3, <1>4, MailEndIs DEF EndAt

\* Whatever goes beyond a mail that has lines is refused.
LEMMA BeyondRefused ==
    ASSUME NEW x, NEW n, Wire(x, n), n # 3, NEW j \in Nat, j > n,
           NEW s, Part(s, x, 0, j)
    PROVE  EndInside(s)
<1>1. /\ x \in Seq(Chars) /\ s \in Seq(Chars) /\ n \in Nat /\ n >= 5
      /\ Len(s) = j
  BY DEF Wire, Part
<1>2. PICK i : i = n - 4
  OBVIOUS
<1>3. PICK k : k = n - 1
  OBVIOUS
<1>4. /\ i \in Int /\ i >= 1 /\ i = 0 + i /\ i + 2 <= j /\ k = i + 3
      /\ k \in Int /\ k >= 1 /\ k = 0 + k /\ k + 1 <= j /\ i # Len(s) - 4
  BY <1>1, <1>2, <1>3
<1>5. MarkAt(x, i) /\ EolAt(x, k)
  <2>1. EndAt(x, i)
    BY <1>2 DEF Wire
  <2> QED
    BY <1>4, <2>1 DEF EndAt
<1>6. MarkAt(s, i) /\ EolAt(s, k)
  BY <1>1, <1>4, <1>5, PartPatterns
<1>7. ~MarkAt(s, k)
  <2> SUFFICES ASSUME MarkAt(s, k)
               PROVE  FALSE
    OBVIOUS
  <2>1. MarkAt(x, k)
    BY <1>1, <1>4, PartPatterns
  <2>2. k + 2 <= n
    BY <2>1 DEF Wire
  <2> QED
    BY <1>1, <1>3, <2>2
<1> QED
  BY <1>1, <1>4, <1>6, <1>7, EndInsideIs

-----------------------------------------------------------------------------
(* What was collected, with the texts of replaced reads in it. *)

LEMMA PartsJoin ==
    ASSUME NEW x \in Seq(Chars), NEW k, NEW h, NEW j,
           NEW p, Part(p, x, k, h), NEW c, Part(c, x, h, j)
    PROVE  Part(p \o c, x, k, j)
<1>1. PICK q : q = p \o c
  OBVIOUS
<1>2. p \in Seq(Chars) /\ c \in Seq(Chars)
  BY DEF Part
<1>3. /\ k \in Nat /\ h \in Nat /\ j \in Nat /\ k <= h /\ h <= j
      /\ j <= Len(x) /\ Len(p) = h - k /\ Len(c) = j - h
  BY DEF Part
<1>4. Joined(p, c, q)
  BY <1>1, <1>2, ConcatJoined
<1>5. q \in Seq(Chars) /\ Len(q) = j - k
  BY <1>3, <1>4 DEF Joined
<1>6. ASSUME NEW i \in 1 .. (j - k)
      PROVE  q[i] = x[k + i]
  <2>1. CASE i <= h - k
    <3>1. i \in 1 .. (h - k) /\ i \in 1 .. Len(p)
      BY <1>3, <2>1
    <3> QED
      BY <1>4, <3>1 DEF Joined, Part
  <2>2. CASE ~(i <= h - k)
    <3>1. PICK g : g = i - (h - k)
      OBVIOUS
    <3>2. /\ g \in 1 .. (j - h) /\ g \in 1 .. Len(c)
          /\ i = Len(p) + g /\ k + i = h + g
      BY <1>3, <2>2, <3>1
    <3>3. q[i] = c[g] /\ c[g] = x[h + g]
      BY <1>4, <3>2 DEF Joined, Part
    <3> QED
      BY <3>2, <3>3
  <2> QED
    BY <2>1, <2>2
<1> QED
  BY <1>1, <1>3, <1>5, <1>6 DEF Part

LEMMA PartOfNothing ==
    ASSUME NEW x \in Seq(Chars), NEW j \in Nat, j <= Len(x)
    PROVE  Part(<<>>, x, j, j)
<1>1. PICK c : c = <<>>
  OBVIOUS
<1>2. c \in Seq(Chars) /\ Len(c) = 0
  BY <1>1, EmptySeq
<1>3. Part(c, x, j, j)
  BY <1>2 DEF Part
<1> QED
  BY <1>1, <1>3

\* s is a, which ends with the text of a replaced read if there is any in it,
\* and p, what was read since, behind position k.  An end that stands in a is
\* followed by a read, so that k is behind the mail.
Pieces(s, a, p, k, x, n, j) ==
    /\ a \in Seq(Chars) /\ s = a \o p /\ Part(p, x, k, j)
    /\ Len(a) = 0 => k = 0 \/ k > n
    /\ Len(a) # 0 => Is(a, Len(a), INVALID)
    /\ \A i : EndAt(a, i) => k > n

\* What can be collected of the first j characters of x.
Assembled(s, x, n, j) ==
    /\ s \in Seq(Chars) /\ Len(s) <= j
    /\ \E a, p, k : Pieces(s, a, p, k, x, n, j)

LEMMA PiecesJoined ==
    ASSUME NEW s, NEW a, NEW p, NEW k, NEW x, NEW n, NEW j,
           Pieces(s, a, p, k, x, n, j)
    PROVE  a \in Seq(Chars) /\ p \in Seq(Chars) /\ Joined(a, p, s)
<1>1. a \in Seq(Chars) /\ p \in Seq(Chars) /\ s = a \o p
  BY DEF Pieces, Part
<1> QED
  BY <1>1, ConcatJoined

\* After a refused end, and at the beginning.
LEMMA AssembledNothing ==
    ASSUME NEW x \in Seq(Chars), NEW n, NEW j \in Nat, j <= Len(x),
           j = 0 \/ j > n
    PROVE  Assembled(<<>>, x, n, j)
<1>1. PICK s : s = <<>>
  OBVIOUS
<1>2. s \in Seq(Chars) /\ Len(s) = 0
  BY <1>1, EmptySeq
<1>3. Part(s, x, j, j)
  BY <1>1, PartOfNothing
<1>4. s = s \o s
  BY <1>1, <1>2, ConcatEmptySeq
<1>5. \A i : ~EndAt(s, i)
  BY <1>2 DEF EndAt, MarkAt, Is
<1>6. Pieces(s, s, s, j, x, n, j)
  BY <1>2, <1>3, <1>4, <1>5 DEF Pieces
<1> QED
  BY <1>1, <1>2, <1>6 DEF Assembled

\* A read that is shown as it is.
LEMMA AssembledMore ==
    ASSUME NEW x \in Seq(Chars), NEW n, NEW h, NEW j,
           NEW s, Assembled(s, x, n, h), NEW c, Part(c, x, h, j)
    PROVE  Assembled(s \o c, x, n, j)
<1>1. PICK a, p, k : Pieces(s, a, p, k, x, n, h)
  BY DEF Assembled
<1>2. /\ a \in Seq(Chars) /\ p \in Seq(Chars) /\ c \in Seq(Chars)
      /\ s \in Seq(Chars) /\ s = a \o p
  BY <1>1 DEF Pieces, Part, Assembled
<1>3. s \o c = a \o (p \o c)
  BY <1>2, ConcatAssociative
<1>4. Part(p \o c, x, k, j)
  BY <1>1, PartsJoin DEF Pieces
<1>5. PICK q : q = p \o c
  OBVIOUS
<1>6. Pieces(s \o c, a, q, k, x, n, j)
  BY <1>1, <1>2, <1>3, <1>4, <1>5 DEF Pieces
<1>7. s \o c \in Seq(Chars) /\ Len(s \o c) <= j
  <2>1. PICK u : u = s \o c
    OBVIOUS
  <2>2. Joined(s, c, u)
    BY <1>2, <2>1, ConcatJoined
  <2>3. u \in Seq(Chars) /\ Len(u) = Len(s) + Len(c)
    BY <2>2 DEF Joined
  <2>4. Len(s) \in Nat /\ Len(s) <= h /\ h \in Nat /\ j \in Nat /\ Len(c) = j - h
    BY <1>2, LenProperties DEF Assembled, Part
  <2>5. Len(u) <= j
    BY <2>3, <2>4
  <2> QED
    BY <2>1, <2>3, <2>5
<1> QED
  BY <1>6, <1>7 DEF Assembled

LEMMA EndShowsNothing ==
    ASSUME NEW s, NEW i \in Int, EndAt(s, i), NEW q \in i .. i + 4
    PROVE  ~Is(s, q, INVALID)
<1>1. /\ Is(s, i, CR) /\ Is(s, i + 1, LF) /\ Is(s, i + 2, DOT)
      /\ Is(s, i + 3, CR) /\ Is(s, (i + 3) + 1, LF)
  BY DEF EndAt, MarkAt, EolAt
<1>2. \/ q = i \/ q = i + 1 \/ q = i + 2 \/ q = i + 3 \/ q = (i + 3) + 1
  OBVIOUS
<1>3. INVALID # CR /\ INVALID # LF /\ INVALID # DOT
  BY CharAssumption
<1> QED
  BY <1>1, <1>2, <1>3 DEF Is

\* An end in what was collected is that of the mail.
LEMMA EndInPieces ==
    ASSUME NEW x, NEW n, Wire(x, n), NEW s, NEW a, NEW p, NEW k, NEW j,
           Pieces(s, a, p, k, x, n, j), NEW i, EndAt(s, i)
    PROVE  k > n \/ (j >= n /\ (j = n => i = Len(s) - 4))
<1>1. a \in Seq(Chars) /\ p \in Seq(Chars) /\ Joined(a, p, s)
  BY PiecesJoined
<1>2. s \in Seq(Chars) /\ Len(s) = Len(a) + Len(p)
  BY <1>1 DEF Joined
<1>3. x \in Seq(Chars) /\ n \in Nat
  BY DEF Wire
<1>4. Part(p, x, k, j)
  BY DEF Pieces
<1>5. /\ k \in Nat /\ j \in Nat /\ Len(p) = j - k
      /\ Len(a) \in Nat
  BY <1>1, <1>4, LenProperties DEF Part
<1>6. i \in Int /\ i >= 1
  BY <1>2, PatternsArePositive
<1>7. PICK i1 : i1 = i + 1
  OBVIOUS
<1>8. PICK i2 : i2 = i + 2
  OBVIOUS
<1>9. PICK i3 : i3 = i + 3
  OBVIOUS
<1>10. PICK i4 : i4 = i3 + 1
  OBVIOUS
<1>11. Is(s, i, CR) /\ Is(s, i1, LF) /\ Is(s, i2, DOT) /\ Is(s, i3, CR) /\ Is(s, i4, LF)
  BY <1>7, <1>8, <1>9, <1>10 DEF EndAt, MarkAt, EolAt
<1>12. CASE i4 <= Len(a)
  <2>1. /\ i1 \in Int /\ i2 \in Int /\ i3 \in Int /\ i4 \in Int
        /\ i <= Len(a) /\ i1 <= Len(a) /\ i2 <= Len(a) /\ i3 <= Len(a)
    BY <1>5, <1>6, <1>7, <1>8, <1>9, <1>10, <1>12
  <2>2. Is(a, i, CR) /\ Is(a, i1, LF) /\ Is(a, i2, DOT) /\ Is(a, i3, CR) /\ Is(a, i4, LF)
    BY <1>1, <1>6, <1>11, <1>12, <2>1, JoinedFirst
  <2>3. EndAt(a, i)
    BY <1>7, <1>8, <1>9, <1>10, <2>2 DEF EndAt, MarkAt, EolAt
  <2> QED
    BY <2>3 DEF Pieces
<1>13. CASE i <= Len(a) /\ ~(i4 <= Len(a))
  <2>1. PICK q : q = Len(a)
    OBVIOUS
  <2>2. q \in i .. i + 4 /\ Len(a) # 0 /\ q \in Int /\ q <= Len(a)
    BY <1>5, <1>6, <1>9, <1>10, <1>13, <2>1
  <2>3. Is(a, q, INVALID)
    BY <2>1, <2>2 DEF Pieces
  <2>4. Is(s, q, INVALID)
    BY <1>1, <2>2, <2>3, JoinedFirst
  <2> QED
    BY <1>6, <2>2, <2>4, EndShowsNothing
<1>14. CASE i > Len(a)
  <2>1. PICK h : h = i - Len(a)
    OBVIOUS
  <2>2. /\ i1 \in Int /\ i2 \in Int /\ i3 \in Int /\ i4 \in Int
        /\ i1 > Len(a) /\ i2 > Len(a) /\ i3 > Len(a) /\ i4 > Len(a)
        /\ i1 - Len(a) = h + 1 /\ i2 - Len(a) = h + 2 /\ i3 - Len(a) = h + 3
        /\ i4 - Len(a) = (h + 3) + 1 /\ h \in Int /\ h >= 1
    BY <1>5, <1>6, <1>7, <1>8, <1>9, <1>10, <1>14, <2>1
  <2>3. /\ Is(p, i - Len(a), CR) /\ Is(p, i1 - Len(a), LF)
        /\ Is(p, i2 - Len(a), DOT) /\ Is(p, i3 - Len(a), CR)
        /\ Is(p, i4 - Len(a), LF)
    BY <1>1, <1>6, <1>11, <1>14, <2>2, JoinedSecond
  <2>4. EndAt(p, h)
    BY <2>1, <2>2, <2>3 DEF EndAt, MarkAt, EolAt
  <2>5. PICK g : g = k + h
    OBVIOUS
  <2>6. EndAt(x, g) /\ g + 4 <= j
    BY <1>3, <1>4, <2>2, <2>4, <2>5, PartPatterns
  <2>7. MarkAt(x, g) /\ Is(x, g + 3, CR)
    BY <2>6 DEF EndAt, EolAt
  <2>8. g = n - 4
    BY <2>7, MarkOfEnd
  <2> QED
    BY <1>2, <1>3, <1>5, <1>6, <2>1, <2>2, <2>5, <2>6, <2>8
<1> QED
  BY <1>5, <1>6, <1>9, <1>10, <1>12, <1>13, <1>14

\* A read that is shown as a text about it.
LEMMA AssembledReplaced ==
    ASSUME NEW x, NEW n, Wire(x, n), NEW h, NEW j \in Nat, h < j, j <= Len(x),
           NEW s, Assembled(s, x, n, h)
    PROVE  Assembled(s \o <<INVALID>>, x, n, j)
<1>1. PICK a, p, k : Pieces(s, a, p, k, x, n, h)
  BY DEF Assembled
<1>2. /\ x \in Seq(Chars) /\ s \in Seq(Chars) /\ n \in Nat
      /\ h \in Nat /\ k \in Nat /\ k <= h
      /\ Len(s) \in Nat /\ Len(s) <= h
  BY <1>1, LenProperties DEF Pieces, Part, Assembled, Wire
<1>3. PICK v : v = <<INVALID>>
  OBVIOUS
<1>4. v \in Seq(Chars) /\ Len(v) = 1 /\ v[1] = INVALID
  BY <1>3, CharAssumption
<1>5. PICK u : u = s \o v
  OBVIOUS
<1>6. Joined(s, v, u)
  BY <1>2, <1>4, <1>5, ConcatJoined
<1>7. u \in Seq(Chars) /\ Len(u) = Len(s) + 1
  BY <1>4, <1>6 DEF Joined
<1>8. Is(u, Len(u), INVALID) /\ Len(u) # 0
  <2>1. u[Len(s) + 1] = INVALID
    BY <1>4, <1>6 DEF Joined
  <2> QED
    BY <1>2, <1>7, <2>1 DEF Is
<1>9. ASSUME NEW i, EndAt(u, i)
      PROVE  j > n
  <2>1. i \in Int /\ i >= 1
    BY <1>7, <1>9, PatternsArePositive
  <2>2. PICK m : m = Len(u)
    OBVIOUS
  <2>3. m \notin i .. i + 4
    BY <1>8, <1>9, <2>1, <2>2, EndShowsNothing
  <2>4. m \in Int /\ (i + 3) + 1 <= m
    BY <1>2, <1>7, <1>9, <2>2 DEF EndAt, EolAt, Is
  <2>5. /\ i \in Int /\ i + 1 \in Int /\ i + 2 \in Int /\ i + 3 \in Int
        /\ (i + 3) + 1 \in Int
        /\ i <= Len(s) /\ i + 1 <= Len(s) /\ i + 2 <= Len(s) /\ i + 3 <= Len(s)
        /\ (i + 3) + 1 <= Len(s)
    BY <1>2, <1>7, <2>1, <2>2, <2>3, <2>4
  <2>6. \A q \in Int : \A ch : q <= Len(s) => (Is(u, q, ch) <=> Is(s, q, ch))
    BY <1>2, <1>4, <1>6, JoinedFirst
  <2>7. EndAt(s, i)
    BY <1>9, <2>5, <2>6 DEF EndAt, MarkAt, EolAt
  <2>8. k > n \/ h >= n
    BY <1>1, <2>7, EndInPieces
  <2> QED
    BY <1>2, <2>8
<1>10. PICK e : e = <<>>
  OBVIOUS
<1>11. Part(e, x, j, j) /\ u = u \o e
  BY <1>2, <1>7, <1>10, PartOfNothing, ConcatEmptySeq
<1>12. Pieces(u, u, e, j, x, n, j)
  BY <1>7, <1>8, <1>9, <1>11 DEF Pieces
<1>13. Len(u) <= j
  BY <1>2, <1>7
<1> QED
  BY <1>3, <1>5, <1>7, <1>12, <1>13 DEF Assembled

\* A refused end: what was collected goes beyond the mail.
LEMMA RefusedBeyond ==
    ASSUME NEW x, NEW n, Wire(x, n), NEW j, NEW s, Assembled(s, x, n, j),
           EndInside(s)
    PROVE  j > n
<1>1. PICK a, p, k : Pieces(s, a, p, k, x, n, j)
  BY DEF Assembled
<1>2. s \in Seq(Chars) /\ n \in Nat /\ j \in Nat /\ k \in Nat /\ k <= j
  BY <1>1 DEF Pieces, Part, Assembled, Wire
<1>3. PICK i : MarkAt(s, i) /\ i # Len(s) - 4 /\ EolAt(s, i + 3)
  BY <1>2, EndInsideIs
<1>4. EndAt(s, i)
  BY <1>3 DEF EndAt
<1>5. k > n \/ (j >= n /\ (j = n => i = Len(s) - 4))
  BY <1>1, <1>4, EndInPieces
<1> QED
  BY <1>2, <1>3, <1>5

Legible(s) == \A i : ~Is(s, i, INVALID)

\* If no read was replaced, it is one stretch.
LEMMA LegibleIsPart ==
    ASSUME NEW x, NEW n, NEW j, NEW s, Assembled(s, x, n, j), Legible(s)
    PROVE  \E k : (k = 0 \/ k > n) /\ Part(s, x, k, j)
<1>1. PICK a, p, k : Pieces(s, a, p, k, x, n, j)
  BY DEF Assembled
<1>2. a \in Seq(Chars) /\ p \in Seq(Chars) /\ Joined(a, p, s)
  BY <1>1, PiecesJoined
<1>3. PICK m : m = Len(a)
  OBVIOUS
<1>4. m \in Nat
  BY <1>2, <1>3, LenProperties
<1>5. m = 0
  <2> SUFFICES ASSUME m # 0
               PROVE  FALSE
    OBVIOUS
  <2>1. Is(a, m, INVALID)
    BY <1>1, <1>3 DEF Pieces
  <2>2. m \in Int /\ m <= Len(a)
    BY <1>3, <1>4
  <2>3. Is(s, m, INVALID)
    BY <1>2, <2>1, <2>2, JoinedFirst
  <2> QED
    BY <2>3 DEF Legible
<1>6. a = <<>>
  BY <1>2, <1>3, <1>5, EmptySeq
<1>7. s = p
  BY <1>1, <1>2, <1>6, ConcatEmptySeq DEF Pieces
<1> QED
  BY <1>1, <1>3, <1>5, <1>7 DEF Pieces

-----------------------------------------------------------------------------
(* What is made of what was collected. *)

LEMMA DecodeType ==
    ASSUME NEW s \in Seq(Chars)
    PROVE  /\ decode_transparency(s) \in Seq(Chars)
           /\ Len(decode_transparency(s)) <= Len(s) + 1
<1>1. PICK K : K = Kept(Dropped(s), s)
  OBVIOUS
<1>2. Keeps(K, Dropped(s), s)
  BY <1>1, KeptKeeps
<1>3. PICK n : n = Len(s)
  OBVIOUS
<1>4. n \in Nat /\ n \in 0 .. Len(s)
  BY <1>3, LenProperties
<1>5. K[n] \in Seq(Chars) /\ Len(K[n]) <= n
  BY <1>2, <1>4, KeepsType
<1>6. PICK r : r = K[n]
  OBVIOUS
<1>7. r \in Seq(Chars) /\ Len(r) \in Nat /\ Len(r) <= n
  BY <1>5, <1>6, LenProperties
<1>8. decode_transparency(s) = r \o (IF Terminated(s) THEN <<>> ELSE <<DOT>>)
  BY <1>1, <1>3, <1>6 DEF decode_transparency, Without
<1>9. PICK e : e = IF Terminated(s) THEN <<>> ELSE <<DOT>>
  OBVIOUS
<1>10. e \in Seq(Chars) /\ Len(e) <= 1
  BY <1>9, Patterns, EmptySeq
<1>11. r \o e \in Seq(Chars) /\ Len(r \o e) = Len(r) + Len(e) /\ Len(e) \in Nat
  BY <1>7, <1>10, ConcatProperties, LenProperties
<1>12. Len(r \o e) <= n + 1
  BY <1>4, <1>7, <1>10, <1>11
<1> QED
  BY <1>3, <1>8, <1>9, <1>11, <1>12

\* Decoding drops dots, and so hides no replaced read.
LEMMA DecodeShows ==
    ASSUME NEW s \in Seq(Chars), Legible(decode_transparency(s))
    PROVE  Legible(s)
<1> SUFFICES ASSUME NEW q, Is(s, q, INVALID)
             PROVE  \E r : Is(decode_transparency(s), r, INVALID)
  BY DEF Legible
<1>1. PICK K : K = Kept(Dropped(s), s)
  OBVIOUS
<1>2. Keeps(K, Dropped(s), s)
  BY <1>1, KeptKeeps
<1>3. PICK n : n = Len(s)
  OBVIOUS
<1>4. PICK h : h = q - 1
  OBVIOUS
<1>5. /\ n \in Nat /\ q \in 1 .. Len(s) /\ s[q] = INVALID /\ q = h + 1
      /\ h \in 0 .. Len(s) /\ q \in 0 .. Len(s) /\ n \in q .. Len(s)
      /\ n \in 0 .. Len(s)
  BY <1>3, <1>4, LenProperties DEF Is
<1>6. q \notin Dropped(s)
  <2> SUFFICES ASSUME q \in Dropped(s)
               PROVE  FALSE
    OBVIOUS
  <2>1. Is(s, q, DOT)
    BY DotsAre DEF MarkAt
  <2> QED
    BY <1>5, <2>1, CharAssumption DEF Is
<1>7. Step(K, Dropped(s), s, h, q)
  BY <1>2, <1>5 DEF Keeps
<1>8. K[q] = Append(K[h], s[q])
  BY <1>6, <1>7 DEF Step
<1>9. K[h] \in Seq(Chars) /\ K[q] \in Seq(Chars) /\ K[n] \in Seq(Chars)
  BY <1>2, <1>5, KeepsType
<1>10. PICK m : m = Len(K[h]) + 1
  OBVIOUS
<1>11. Is(K[q], m, INVALID)
  <2>1. PICK t : t = K[h]
    OBVIOUS
  <2>2. PICK u : u = Append(t, INVALID)
    OBVIOUS
  <2>3. t \in Seq(Chars) /\ INVALID \in Chars /\ Len(t) \in Nat
    BY <1>9, <2>1, LenProperties, CharAssumption
  <2>4. Len(u) = Len(t) + 1 /\ u[Len(t) + 1] = INVALID
    BY <2>2, <2>3, AppendProperties
  <2>5. Is(u, m, INVALID)
    BY <1>10, <2>1, <2>3, <2>4 DEF Is
  <2> QED
    BY <1>5, <1>8, <2>1, <2>2, <2>5
<1>12. Begins(K[q], K[n])
  BY <1>2, <1>5, KeepsBegins
<1>13. Is(K[n], m, INVALID)
  <2>1. PICK t : t = K[q]
    OBVIOUS
  <2>2. PICK r : r = K[n]
    OBVIOUS
  <2>3. Begins(t, r) /\ Len(t) \in Nat /\ Len(r) \in Nat /\ Is(t, m, INVALID)
    BY <1>9, <1>11, <1>12, <2>1, <2>2, LenProperties
  <2>4. Is(r, m, INVALID)
    BY <2>3 DEF Begins, Is
  <2> QED
    BY <2>2, <2>4
<1>14. PICK e : e = IF Terminated(s) THEN <<>> ELSE <<DOT>>
  OBVIOUS
<1>15. e \in Seq(Chars)
  BY <1>14, Patterns, EmptySeq
<1>16. decode_transparency(s) = K[n] \o e
  BY <1>1, <1>3, <1>14 DEF decode_transparency, Without
<1>17. m \in Int /\ m <= Len(K[n])
  BY <1>9, <1>13, LenProperties DEF Is
<1>18. Is(K[n] \o e, m, INVALID)
  BY <1>9, <1>13, <1>15, <1>17, ConcatJoined, JoinedFirst
<1> QED
  BY <1>16, <1>18

\* A dot is dropped for what stands before it.
LEMMA DotsOfPart ==
    ASSUME NEW m \in Seq(Chars), NEW s, NEW j, Part(s, m, 0, j),
           NEW q \in 1 .. j
    PROVE  q \in Dots(s) <=> q \in Dots(m)
<1>1. s \in Seq(Chars) /\ j \in Nat
  BY DEF Part
<1>2. (q \in Dots(s) <=> DotAt(s, q)) /\ (q \in Dots(m) <=> DotAt(m, q))
  BY <1>1, DotsAre
<1>3. Is(s, 1, DOT) /\ q = 1 <=> Is(m, 1, DOT) /\ q = 1
  <2>1. PICK i : i = 1
    OBVIOUS
  <2>2. i \in Int /\ i >= 1 /\ i = 0 + i /\ (q = i => i <= j)
    BY <2>1
  <2>3. Is(s, i, DOT) <=> i <= j /\ Is(m, i, DOT)
    BY <1>1, <2>2, PartIs
  <2> QED
    BY <2>1, <2>2, <2>3
<1>4. ASSUME NEW i, MarkAt(s, i)
      PROVE  MarkAt(m, i)
  <2>1. i \in Int /\ i >= 1 /\ i = 0 + i
    BY <1>1, <1>4, PatternsArePositive
  <2> QED
    BY <1>1, <1>4, <2>1, PartPatterns
<1>5. ASSUME NEW i, MarkAt(m, i), q = i + 2
      PROVE  MarkAt(s, i)
  <2>1. i \in Int /\ i >= 1 /\ i = 0 + i /\ i + 2 <= j
    BY <1>1, <1>5, PatternsArePositive
  <2> QED
    BY <1>1, <1>5, <2>1, PartPatterns
<1>6. DotAt(s, q) <=> DotAt(m, q)
  BY <1>3, <1>4, <1>5 DEF DotAt
<1> QED
  BY <1>2, <1>6

\* What transparency keeps of a mail with its end: the text, then CR LF.
LEMMA KeptOfMail ==
    ASSUME NEW b, NEW t, Sent(b, t), NEW m, Joined(b, EndLine, m),
           NEW K, Keeps(K, Dots(m), m),
           NEW k, k = Len(b), NEW k1, k1 = k + 1, NEW k2, k2 = k + 2
    PROVE  K[k] = t /\ K[k1] = t /\ K[k2] = Append(t, CR)
<1>1. WholeLines(b) /\ b \in Seq(Chars) /\ m \in Seq(Chars) /\ t \in Seq(Chars)
  BY DEF Sent, WholeLines, Joined
<1>2. k \in Nat /\ Len(m) = k + 3
  BY <1>1, EndLineIs, LenProperties DEF Joined
<1>3. /\ \A q \in 1 .. Len(b) : q \in Dots(m) <=> q \in Dots(b)
      /\ \A q \in (Len(b) + 1) .. Len(m) : q \in Dots(m) <=> q = Len(b) + 1
  BY <1>1, EndLineIs, DotsOfJoined
<1>4. K[k] = t
  <2>1. K[Len(b)] = Without(Dots(b), b)
    BY <1>1, <1>3, EndLineIs, KeptFirst
  <2> QED
    BY <2>1 DEF Sent
<1>5. /\ k1 \in 1 .. Len(m) /\ k \in 0 .. Len(m) /\ k1 \in 0 .. Len(m)
      /\ k2 \in 1 .. Len(m) /\ k2 = k1 + 1
      /\ k1 \in (Len(b) + 1) .. Len(m) /\ k1 = Len(b) + 1
      /\ k2 \in (Len(b) + 1) .. Len(m) /\ k2 # Len(b) + 1
  BY <1>2
<1>6. Step(K, Dots(m), m, k, k1) /\ Step(K, Dots(m), m, k1, k2)
  BY <1>5 DEF Keeps
<1>7. k1 \in Dots(m) /\ k2 \notin Dots(m)
  BY <1>3, <1>5
<1>8. K[k1] = t
  BY <1>4, <1>6, <1>7 DEF Step
<1>9. m[k2] = CR
  <2>1. PICK e : e = EndLine
    OBVIOUS
  <2>2. Len(e) = 3 /\ e[2] = CR /\ Joined(b, e, m)
    BY <2>1, Patterns
  <2>3. m[Len(b) + 2] = e[2]
    BY <2>2 DEF Joined
  <2> QED
    BY <2>2, <2>3
<1>10. K[k2] = Append(t, CR)
  BY <1>6, <1>7, <1>8, <1>9 DEF Step
<1> QED
  BY <1>4, <1>8, <1>10

\* The mail as a whole becomes the text and the last line.
LEMMA DecodeWhole ==
    ASSUME NEW b, NEW t, Sent(b, t), Len(b) >= 2, NEW m, Joined(b, EndLine, m)
    PROVE  Terminated(m) /\ decode_transparency(m) = t \o EndLine
<1>1. /\ WholeLines(b) /\ b \in Seq(Chars) /\ m \in Seq(Chars)
      /\ t \in Seq(Chars)
  BY DEF Sent, WholeLines, Joined
<1>2. PICK k : k = Len(b)
  OBVIOUS
<1>3. PICK n : n = Len(m)
  OBVIOUS
<1>4. k \in Nat /\ k >= 2 /\ n = k + 3
  BY <1>1, <1>2, <1>3, EndLineIs, LenProperties DEF Joined
<1>5. Terminated(m)
  <2>1. Wire(m, Len(m))
    BY MailWire
  <2>2. EndAt(m, Len(m) - 4)
    BY <1>3, <1>4, <2>1 DEF Wire
  <2> QED
    BY <1>1, <2>2, TerminatedIs
<1>6. PICK D : D = Dropped(m)
  OBVIOUS
<1>7. /\ \A q : q \in Dots(m) <=> DotAt(m, q)
      /\ \A q : q \in D <=> \/ (\E i : MarkAt(m, i) /\ q = i + 2) /\ q # n - 2
                            \/ q = 1 /\ Is(m, 1, DOT)
  BY <1>1, <1>3, <1>5, <1>6, DotsAre
<1>8. \A q : q \in D <=> q \in Dots(m) /\ (q # n - 2 \/ q = 1)
  <2>1. n - 2 # 1
    BY <1>4
  <2> QED
    BY <1>7, <2>1 DEF DotAt
<1>9. /\ \A q \in 1 .. Len(b) : q \in Dots(m) <=> q \in Dots(b)
      /\ \A q \in (Len(b) + 1) .. Len(m) : q \in Dots(m) <=> q = Len(b) + 1
  BY <1>1, EndLineIs, DotsOfJoined
<1>10. \A q \in 1 .. Len(b) : q \in D <=> q \in Dots(b)
  <2>1. \A q \in 1 .. Len(b) : q # n - 2
    BY <1>2, <1>4
  <2> QED
    BY <1>8, <1>9, <2>1
<1>11. Untouched(D, k, n)
  <2>1. \A q \in (k + 1) .. n : q \in (Len(b) + 1) .. Len(m) /\ q # 1
    BY <1>2, <1>3, <1>4
  <2>2. n - 2 = Len(b) + 1
    BY <1>2, <1>4
  <2> QED
    BY <1>8, <1>9, <2>1, <2>2 DEF Untouched
<1>12. PICK K : K = Kept(D, m)
  OBVIOUS
<1>13. Keeps(K, D, m)
  BY <1>1, <1>12, KeptKeeps
<1>14. K[k] = t
  <2>1. K[Len(b)] = Without(Dots(b), b)
    BY <1>1, <1>10, <1>13, EndLineIs, KeptFirst
  <2> QED
    BY <1>2, <2>1 DEF Sent
<1>15. Behind(K[n], K[k], EndLine)
  <2>1. Matches(EndLine, m, k)
    BY <1>1, <1>2, EndLineIs, JoinedMatches
  <2>2. k \in 0 .. Len(m) /\ n \in Nat /\ n <= Len(m) /\ n = k + Len(EndLine)
    BY <1>3, <1>4, EndLineIs
  <2> QED
    BY <1>1, <1>11, <1>13, <2>1, <2>2, EndLineIs, KeptRest
<1>16. Without(D, m) = t \o EndLine
  BY <1>3, <1>12, <1>14, <1>15 DEF Behind, Without
<1>17. t \o EndLine \in Seq(Chars)
  BY <1>1, EndLineIs, ConcatProperties
<1>18. PICK r : r = t \o EndLine
  OBVIOUS
<1>19. r \o <<>> = r
  BY <1>17, <1>18, ConcatEmptySeq
<1>20. decode_transparency(m) = r \o <<>>
  BY <1>5, <1>6, <1>16, <1>18 DEF decode_transparency
<1> QED
  BY <1>5, <1>18, <1>19, <1>20

\* r is a beginning of t and at most three characters of the last line: what
\* TruncatedAtWorst says of mail_body and Text.
CutShort(r, t) ==
    \E n \in 0 .. Len(r) :
        /\ IsPrefix(SubSeq(r, 1, n), t)
        /\ Len(r) - n <= 3
        /\ \A i \in n + 1 .. Len(r) : r[i] \in {CR, LF, DOT}

LEMMA CutShortIs ==
    ASSUME NEW t \in Seq(Chars), NEW p \in Seq(Chars), Begins(p, t),
           NEW r \in Seq(Chars), Begins(p, r), Len(r) <= Len(p) + 3,
           \A i \in (Len(p) + 1) .. Len(r) : r[i] \in {CR, LF, DOT}
    PROVE  CutShort(r, t)
<1>1. PICK n : n = Len(p)
  OBVIOUS
<1>2. Len(r) \in Nat /\ n \in 0 .. Len(r) /\ n \in Nat /\ Len(t) \in Nat
  BY <1>1, LenProperties DEF Begins
<1>3. Len(r) - n <= 3
  BY <1>1, <1>2
<1>4. \A i \in n + 1 .. Len(r) : r[i] \in {CR, LF, DOT}
  BY <1>1
<1>5. SubSeq(r, 1, n) = p
  <2>1. Matches(p, r, 0)
    BY <1>1, <1>2 DEF Matches, Begins
  <2>2. SubSeq(r, 0 + 1, 0 + Len(p)) = p
    BY <1>1, <1>2, <2>1, SubSeqMatches
  <2>3. 0 + 1 = 1 /\ 0 + Len(p) = n
    BY <1>1, <1>2
  <2> QED
    BY <2>2, <2>3
<1>6. IsPrefix(p, t)
  <2>1. Matches(p, t, 0)
    BY <1>1, <1>2 DEF Matches, Begins
  <2> QED
    BY <2>1, IsPrefixMatches
<1>7. IsPrefix(SubSeq(r, 1, n), t)
  BY <1>5, <1>6
<1> QED
  BY <1>2, <1>3, <1>4, <1>7 DEF CutShort

LEMMA BeginsItself ==
    ASSUME NEW s \in Seq(Chars)
    PROVE  Begins(s, s)
BY LenProperties DEF Begins

LEMMA AppendBegins ==
    ASSUME NEW s \in Seq(Chars), NEW c \in Chars, NEW r, r = Append(s, c)
    PROVE  /\ r \in Seq(Chars) /\ Len(r) = Len(s) + 1 /\ r[Len(s) + 1] = c
           /\ Begins(s, r)
<1>1. /\ r \in Seq(Chars) /\ Len(r) = Len(s) + 1 /\ r[Len(s) + 1] = c
      /\ \A i \in 1 .. Len(s) : r[i] = s[i]
  BY AppendProperties
<1>2. Len(s) \in Nat
  BY LenProperties
<1> QED
  BY <1>1, <1>2 DEF Begins

\* A mail that is taken to end too early, at position j, is cut there.
LEMMA DecodeCut ==
    ASSUME NEW b, NEW t, Sent(b, t), NEW m, Joined(b, EndLine, m),
           NEW j \in Nat, j < Len(m), NEW s, Part(s, m, 0, j), ~Terminated(s)
    PROVE  CutShort(decode_transparency(s), t)
<1>1. /\ b \in Seq(Chars) /\ m \in Seq(Chars) /\ t \in Seq(Chars)
      /\ s \in Seq(Chars) /\ Len(s) = j
  BY DEF Sent, WholeLines, Joined, Part
<1>2. PICK k : k = Len(b)
  OBVIOUS
<1>3. k \in Nat /\ Len(m) = k + 3
  BY <1>1, <1>2, EndLineIs, LenProperties DEF Joined
<1>4. PICK D : D = Dropped(s)
  OBVIOUS
<1>5. \A q : q \in D <=> q \in Dots(s)
  BY <1>1, <1>4, DotsAre DEF DotAt
<1>6. PICK J : J = Kept(D, s)
  OBVIOUS
<1>7. Keeps(J, D, s)
  BY <1>1, <1>6, KeptKeeps
<1>8. PICK K : K = Kept(Dots(m), m)
  OBVIOUS
<1>9. Keeps(K, Dots(m), m)
  BY <1>1, <1>8, KeptKeeps
<1>10. J[j] = K[j]
  <2>1. \A q \in 1 .. j : q \in D <=> q \in Dots(m)
    BY <1>1, <1>5, DotsOfPart
  <2>2. \A q \in 1 .. j : s[q] = m[q]
    BY DEF Part
  <2>3. Alike(D, s, Dots(m), m, j)
    BY <2>1, <2>2 DEF Alike
  <2>4. j <= Len(s) /\ j <= Len(m)
    BY <1>1, <1>3
  <2> QED
    BY <1>1, <1>7, <1>9, <2>3, <2>4, KeepsAgree
<1>11. decode_transparency(s) = K[j] \o <<DOT>>
  BY <1>1, <1>4, <1>6, <1>10 DEF decode_transparency, Without
<1>12. PICK p : p = K[j]
  OBVIOUS
<1>13. p \in Seq(Chars)
  <2>1. \A i \in 0 .. Len(m) : K[i] \in Seq(Chars)
    BY <1>1, <1>9, KeepsType
  <2>2. j \in 0 .. Len(m)
    BY <1>3
  <2> QED
    BY <1>12, <2>1, <2>2
<1>14. PICK r : r = p \o <<DOT>>
  OBVIOUS
<1>15. r = Append(p, DOT) /\ DOT \in Chars /\ CR \in Chars
  BY <1>13, <1>14, AppendIsConcat, CharAssumption
<1>16. /\ r \in Seq(Chars) /\ Len(r) = Len(p) + 1 /\ r[Len(p) + 1] = DOT
       /\ Begins(p, r) /\ Len(p) \in Nat
  BY <1>13, <1>15, AppendBegins, LenProperties
<1>17. PICK k1 : k1 = k + 1
  OBVIOUS
<1>18. PICK k2 : k2 = k + 2
  OBVIOUS
<1>19. K[k] = t /\ K[k1] = t /\ K[k2] = Append(t, CR)
  BY <1>2, <1>9, <1>17, <1>18, KeptOfMail
<1>20. CASE Begins(p, t)
  <2>1. Len(r) <= Len(p) + 3
    BY <1>16
  <2>2. \A i \in (Len(p) + 1) .. Len(r) : r[i] \in {CR, LF, DOT}
    BY <1>16
  <2>3. CutShort(r, t)
    BY <1>1, <1>13, <1>16, <1>20, <2>1, <2>2, CutShortIs
  <2> QED
    BY <1>11, <1>12, <1>14, <2>3
<1>21. CASE j <= k
  <2>1. Begins(K[j], K[k])
    <3>1. j \in 0 .. Len(m) /\ k \in j .. Len(m)
      BY <1>3, <1>21
    <3> QED
      BY <1>1, <1>9, <3>1, KeepsBegins
  <2> QED
    BY <1>12, <1>19, <1>20, <2>1
<1>22. CASE j = k1
  <2>1. p = t
    BY <1>12, <1>19, <1>22
  <2> QED
    BY <1>1, <1>20, <2>1, BeginsItself
<1>23. CASE j = k2
  <2>1. p = Append(t, CR)
    BY <1>12, <1>19, <1>23
  <2>2. Len(p) = Len(t) + 1 /\ p[Len(t) + 1] = CR /\ Begins(t, p) /\ Len(t) \in Nat
    BY <1>1, <1>15, <2>1, AppendBegins, LenProperties
  <2>3. Len(r) = Len(t) + 2 /\ Len(r) <= Len(t) + 3
    BY <1>16, <2>2
  <2>4. Begins(t, r)
    BY <1>16, <2>2, <2>3 DEF Begins
  <2>5. r[Len(t) + 1] = CR /\ r[Len(t) + 2] = DOT
    BY <1>16, <2>2 DEF Begins
  <2>6. \A i \in (Len(t) + 1) .. Len(r) : r[i] \in {CR, LF, DOT}
    BY <2>2, <2>3, <2>5
  <2>7. CutShort(r, t)
    BY <1>1, <1>16, <2>3, <2>4, <2>6, BeginsItself, CutShortIs
  <2> QED
    BY <1>11, <1>12, <1>14, <2>7
<1> QED
  BY <1>3, <1>17, <1>18, <1>21, <1>22, <1>23

\* The text with the last line: nothing is missing.
LEMMA WholeCutShort ==
    ASSUME NEW t \in Seq(Chars)
    PROVE  CutShort(t \o EndLine, t)
<1>1. PICK r : r = t \o EndLine
  OBVIOUS
<1>2. PICK e : e = EndLine
  OBVIOUS
<1>3. e \in Seq(Chars) /\ Len(e) = 3 /\ e[1] = DOT /\ e[2] = CR /\ e[3] = LF
  BY <1>2, Patterns
<1>4. Joined(t, e, r)
  BY <1>1, <1>2, <1>3, ConcatJoined
<1>5. /\ r \in Seq(Chars) /\ Len(r) = Len(t) + 3 /\ Len(t) \in Nat
      /\ \A i \in 1 .. Len(t) : r[i] = t[i]
      /\ r[Len(t) + 1] = DOT /\ r[Len(t) + 2] = CR /\ r[Len(t) + 3] = LF
  BY <1>3, <1>4, LenProperties DEF Joined
<1>6. Begins(t, r) /\ Len(r) <= Len(t) + 3
  BY <1>5 DEF Begins
<1>7. \A i \in (Len(t) + 1) .. Len(r) : r[i] \in {CR, LF, DOT}
  BY <1>5
<1>8. CutShort(r, t)
  BY <1>5, <1>6, <1>7, BeginsItself, CutShortIs
<1> QED
  BY <1>1, <1>8

-----------------------------------------------------------------------------
(* The mail of the specification. *)

LEMMA MessageIs ==
    ASSUME BodyTypeOK
    PROVE  /\ message \in Seq(Lines) /\ pipelined \in BOOLEAN
           /\ read \in Nat
<1>1. message \in UNION {[1 .. n -> Lines] : n \in 0 .. MaxLines}
  BY DEF BodyTypeOK, BoundedSeq, SeqOf
<1>2. message \in Seq(Lines)
  BY <1>1, SeqDef, LinesAssumption
<1> QED
  BY <1>2 DEF BodyTypeOK

LEMMA StreamIs ==
    ASSUME message \in Seq(Lines), pipelined \in BOOLEAN
    PROVE  /\ Sent(Lined(message), Text)
           /\ Len(Lined(message)) = 0 \/ Len(Lined(message)) >= 2
           /\ message # <<>> => Len(Lined(message)) >= 2 /\ Len(Mail) # 3
           /\ Joined(Lined(message), EndLine, Mail)
           /\ Wire(Stream, Len(Mail))
           /\ \E f \in Seq(Chars) : Joined(Mail, f, Stream)
           /\ Len(Stream) \in Nat /\ DOMAIN Stream = 1 .. Len(Stream)
<1>1. /\ Sent(Lined(message), Text)
      /\ message # <<>> => Len(Lined(message)) >= 2
      /\ message = <<>> => Len(Lined(message)) = 0
  BY MailSent DEF Text
<1>2. Lined(message) \in Seq(Chars)
  BY <1>1 DEF Sent, WholeLines
<1>3. Mail = Lined(message) \o EndLine
  BY DEF Mail, Lined
<1>4. Joined(Lined(message), EndLine, Mail)
  BY <1>2, <1>3, EndLineIs, ConcatJoined
<1>5. /\ Wire(Mail, Len(Mail)) /\ Is(Mail, Len(Mail) - 1, CR)
      /\ Is(Mail, Len(Mail), LF)
  BY <1>1, <1>4, MailWire
<1>6. PICK f : f = IF pipelined THEN Following ELSE <<>>
  OBVIOUS
<1>7. Harmless(f)
  BY <1>6, FollowingHarmless
<1>8. Mail \in Seq(Chars) /\ f \in Seq(Chars)
  BY <1>5, <1>7 DEF Wire, Harmless
<1>9. Joined(Mail, f, Stream)
  BY <1>6, <1>8, ConcatJoined DEF Stream
<1>10. Wire(Stream, Len(Mail))
  BY <1>5, <1>7, <1>9, StreamWire
<1>11. Len(Stream) \in Nat /\ DOMAIN Stream = 1 .. Len(Stream)
  BY <1>10, LenProperties DEF Wire
<1>12. message # <<>> => Len(Mail) # 3
  <2>1. Len(Mail) = Len(Lined(message)) + 3 /\ Len(Lined(message)) \in Nat
    BY <1>2, <1>4, EndLineIs, LenProperties DEF Joined
  <2> QED
    BY <1>1, <2>1
<1> QED
  BY <1>1, <1>4, <1>8, <1>9, <1>10, <1>11, <1>12

\* What is collected of the mail itself.
LEMMA PartOfMail ==
    ASSUME NEW m \in Seq(Chars), NEW f, NEW x, Joined(m, f, x),
           NEW s, NEW j, Part(s, x, 0, j), j <= Len(m)
    PROVE  Part(s, m, 0, j) /\ (j = Len(m) => s = m)
<1>1. /\ Len(m) \in Nat /\ s \in Seq(Chars) /\ j \in Nat /\ Len(s) = j
      /\ \A i \in 1 .. j : s[i] = x[0 + i]
      /\ \A i \in 1 .. Len(m) : x[i] = m[i]
  BY LenProperties DEF Part, Joined
<1>2. \A i \in 1 .. j : s[i] = m[0 + i] /\ s[i] = m[i]
  BY <1>1
<1>3. Part(s, m, 0, j)
  BY <1>1, <1>2 DEF Part
<1>4. ASSUME j = Len(m)
      PROVE  s = m
  <2>1. \A i \in 1 .. Len(s) : s[i] = m[i]
    BY <1>1, <1>2
  <2> QED
    BY <1>1, <1>4, <2>1, SeqEqual
<1> QED
  BY <1>3, <1>4

LEMMA StreamStays ==
    ASSUME UNCHANGED <<message, pipelined>>
    PROVE  /\ Stream' = Stream /\ Mail' = Mail /\ Text' = Text
           /\ \A p : Awkward(p)' <=> Awkward(p)
BY DEF Stream, Mail, Text, Awkward

-----------------------------------------------------------------------------
\* What was collected is one stretch of the stream: all of it, or, after a
\* refused end, what lies behind the mail; or it shows that it is not.
Collected == state = "DATA" => Assembled(mail_body, Stream, Len(Mail), read)

\* As long as the reads are cut well, the next one begins well.
CleanSoFar ==
    clean =>
        /\ read <= Len(Mail)
        /\ Accepted <=> read = Len(Mail)
        /\ state = "DATA" => /\ Part(mail_body, Stream, 0, read)
                             /\ read # 0 => ~Awkward(read)

StoredExact ==
    clean /\ Accepted /\ message # <<>> => mail_body = Text \o EndLine

BodyInv ==
    /\ BodyTypeOK
    /\ Collected
    /\ CleanSoFar
    /\ StoredExact
    /\ TruncatedAtWorst

\* What every read finds.
LEMMA ReadIs ==
    ASSUME BodyInv, NEW to \in DOMAIN Stream, ReadUpTo(to),
           NEW chunk, chunk = SubSeq(Stream, read + 1, to)
    PROVE  /\ to \in Nat /\ read \in Nat /\ to <= Len(Stream) /\ read < to
           /\ Part(chunk, Stream, read, to)
           /\ Assembled(mail_body, Stream, Len(Mail), read)
           /\ TextUpTo(to) = IF IsUtf8(chunk) THEN chunk ELSE <<INVALID>>
           /\ Assembled(Collect(TextUpTo(to)), Stream, Len(Mail), to)
           /\ clean' => /\ clean /\ TextUpTo(to) = chunk /\ ~CutsInside(chunk)
                        /\ Part(mail_body, Stream, 0, read)
                        /\ read < Len(Mail)
                        /\ read # 0 => ~AwkwardAt(Stream, Len(Mail), read)
                        /\ to <= Len(Mail)
                        /\ ~Awkward(to)
                        /\ ~AwkwardAt(Stream, Len(Mail), to)
<1>1. BodyTypeOK /\ message \in Seq(Lines) /\ pipelined \in BOOLEAN
  BY MessageIs DEF BodyInv
<1>2. /\ Wire(Stream, Len(Mail)) /\ Stream \in Seq(Chars) /\ Len(Mail) \in Nat
      /\ Len(Stream) \in Nat /\ DOMAIN Stream = 1 .. Len(Stream)
  BY <1>1, StreamIs DEF Wire
<1>3. /\ to \in Nat /\ to <= Len(Stream) /\ read \in Nat /\ read < to
      /\ state = "DATA" /\ read \in 0 .. Len(Stream) /\ to \in 0 .. Len(Stream)
  BY <1>1, <1>2 DEF BodyTypeOK, ReadUpTo
<1>4. Part(chunk, Stream, read, to)
  BY <1>2, <1>3, SubSeqPart
<1>5. Assembled(mail_body, Stream, Len(Mail), read)
  BY <1>3 DEF BodyInv, Collected
<1>6. TextUpTo(to) = IF IsUtf8(chunk) THEN chunk ELSE <<INVALID>>
  BY DEF TextUpTo, Shown
<1>7. Assembled(Collect(TextUpTo(to)), Stream, Len(Mail), to)
  <2>1. Assembled(mail_body \o chunk, Stream, Len(Mail), to)
    BY <1>2, <1>4, <1>5, AssembledMore
  <2>2. Assembled(mail_body \o <<INVALID>>, Stream, Len(Mail), to)
    BY <1>2, <1>3, <1>5, AssembledReplaced
  <2> QED
    BY <1>6, <2>1, <2>2 DEF Collect
<1>8. ASSUME clean'
      PROVE  /\ clean /\ TextUpTo(to) = chunk /\ ~CutsInside(chunk)
             /\ Part(mail_body, Stream, 0, read)
             /\ read < Len(Mail)
             /\ read # 0 => ~AwkwardAt(Stream, Len(Mail), read)
             /\ to <= Len(Mail)
             /\ ~Awkward(to)
             /\ ~AwkwardAt(Stream, Len(Mail), to)
  <2>1. /\ clean /\ ~Awkward(to) /\ ~Overruns(read, to)
        /\ IsUtf8(chunk) /\ ~CutsInside(chunk)
    BY <1>8 DEF ReadUpTo, CutWell
  <2>2. /\ read <= Len(Mail) /\ (Accepted <=> read = Len(Mail))
        /\ Part(mail_body, Stream, 0, read)
        /\ (read # 0 => ~Awkward(read))
    BY <1>3, <2>1 DEF BodyInv, CleanSoFar
  <2>3. ~Accepted
    BY <1>3 DEF Accepted
  <2>4. read < Len(Mail)
    BY <1>2, <1>3, <2>2, <2>3
  <2>5. to <= Len(Mail)
    BY <1>2, <1>3, <2>1, <2>4 DEF Overruns
  <2>6. /\ Awkward(read) <=> AwkwardAt(Stream, Len(Mail), read)
        /\ Awkward(to) <=> AwkwardAt(Stream, Len(Mail), to)
    BY <1>2, <1>3, AwkwardIs
  <2>7. TextUpTo(to) = chunk
    BY <1>6, <2>1
  <2> QED
    BY <2>1, <2>2, <2>4, <2>5, <2>6, <2>7
<1> QED
  BY <1>3, <1>4, <1>5, <1>6, <1>7, <1>8

\* The type of what a read leaves.
LEMMA ReadTypes ==
    ASSUME BodyInv, NEW to \in DOMAIN Stream, ReadUpTo(to),
           mail_body' \in Seq(Chars), Len(mail_body') <= to + 1,
           state' \in {"DATA", "DATACOMPLETE", "PANIC"}
    PROVE  BodyTypeOK'
<1>1. BodyTypeOK /\ message \in Seq(Lines) /\ pipelined \in BOOLEAN
  BY MessageIs DEF BodyInv
<1>2. Len(Stream) \in Nat /\ DOMAIN Stream = 1 .. Len(Stream)
  BY <1>1, StreamIs
<1>3. /\ read' = to /\ UNCHANGED <<message, pipelined>>
      /\ clean' = (clean /\ CutWell(read, to))
  BY DEF ReadUpTo
<1>4. Stream' = Stream
  BY <1>3, StreamStays
<1>5. read' \in 0 .. Len(Stream')
  BY <1>2, <1>3, <1>4
<1>6. clean' \in BOOLEAN
  BY <1>3
<1>7. /\ message' \in BoundedSeq(Lines, MaxLines) /\ pipelined' \in BOOLEAN
  BY <1>1, <1>3 DEF BodyTypeOK
<1> QED
  BY <1>3, <1>5, <1>6, <1>7 DEF BodyTypeOK

LEMMA InvalidHasNoEnd == ~contains_mail_end(<<INVALID>>)
<1>1. PICK s : s = <<INVALID>>
  OBVIOUS
<1>2. s \in Seq(Chars) /\ Len(s) = 1 /\ INVALID \in Chars
  BY <1>1, CharAssumption
<1>3. ~contains_mail_end(s)
  BY <1>2, MailEndIs DEF LastAt, EndAt, MarkAt, Is
<1> QED
  BY <1>1, <1>3

LEMMA BodyInitInv == BodyInit => BodyInv
<1> SUFFICES ASSUME BodyInit
             PROVE  BodyInv
  OBVIOUS
<1>1. /\ message \in BoundedSeq(Lines, MaxLines) /\ pipelined \in BOOLEAN
      /\ read = 0 /\ mail_body = <<>> /\ state = "DATA" /\ clean = TRUE
  BY DEF BodyInit
<1>2. message \in Seq(Lines)
  BY <1>1, SeqDef, LinesAssumption DEF BoundedSeq, SeqOf
<1>3. /\ Len(Stream) \in Nat /\ Wire(Stream, Len(Mail)) /\ Stream \in Seq(Chars)
      /\ 0 <= Len(Stream)
  BY <1>1, <1>2, StreamIs DEF Wire
<1>4. mail_body \in Seq(Chars) /\ Len(mail_body) <= read + 1
  BY <1>1, EmptySeq
<1>5. BodyTypeOK
  BY <1>1, <1>3, <1>4 DEF BodyTypeOK
<1>6. Assembled(mail_body, Stream, Len(Mail), read)
  <2>1. Assembled(<<>>, Stream, Len(Mail), 0)
    BY <1>3, AssembledNothing
  <2> QED
    BY <1>1, <2>1
<1>7. CleanSoFar
  <2>1. Len(Mail) \in Nat /\ (Len(Mail) = 3 \/ Len(Mail) >= 5)
    BY <1>3 DEF Wire
  <2>2. read <= Len(Mail) /\ read # Len(Mail)
    BY <1>1, <2>1
  <2>3. Part(<<>>, Stream, 0, 0)
    BY <1>3, PartOfNothing
  <2>4. Part(mail_body, Stream, 0, read)
    BY <1>1, <2>3
  <2> QED
    BY <1>1, <2>2, <2>4 DEF CleanSoFar, Accepted
<1>8. StoredExact /\ TruncatedAtWorst
  BY <1>1 DEF StoredExact, TruncatedAtWorst, Accepted
<1> QED
  BY <1>5, <1>6, <1>7, <1>8 DEF BodyInv, Collected

LEMMA ReceiveMoreInv == BodyInv /\ ReceiveMore => BodyInv'
<1> SUFFICES ASSUME BodyInv, ReceiveMore
             PROVE  BodyInv'
  OBVIOUS
<1>1. PICK to \in DOMAIN Stream :
        /\ ReadUpTo(to)
        /\ ~contains_mail_end(TextUpTo(to))
        /\ mail_body' = Collect(TextUpTo(to))
        /\ UNCHANGED state
  BY DEF ReceiveMore
<1>2. PICK chunk : chunk = SubSeq(Stream, read + 1, to)
  OBVIOUS
<1>3. /\ to \in Nat /\ read \in Nat /\ to <= Len(Stream)
      /\ Part(chunk, Stream, read, to)
      /\ Assembled(Collect(TextUpTo(to)), Stream, Len(Mail), to)
      /\ clean' => /\ TextUpTo(to) = chunk
                   /\ Part(mail_body, Stream, 0, read)
                   /\ read < Len(Mail)
                   /\ read # 0 => ~AwkwardAt(Stream, Len(Mail), read)
                   /\ to <= Len(Mail)
                   /\ ~Awkward(to)
                   /\ ~AwkwardAt(Stream, Len(Mail), to)
  BY <1>1, <1>2, ReadIs
<1>4. PICK s : s = Collect(TextUpTo(to))
  OBVIOUS
<1>5. /\ state = "DATA" /\ state' = "DATA" /\ read' = to
      /\ UNCHANGED <<message, pipelined>> /\ mail_body' = s
  BY <1>1, <1>4 DEF ReadUpTo
<1>6. BodyTypeOK /\ message \in Seq(Lines) /\ pipelined \in BOOLEAN
  BY MessageIs DEF BodyInv
<1>7. Stream' = Stream /\ Mail' = Mail
  BY <1>5, StreamStays
<1>8. Wire(Stream, Len(Mail)) /\ Len(Mail) \in Nat /\ Stream \in Seq(Chars)
  BY <1>6, StreamIs DEF Wire
<1>9. BodyTypeOK'
  <2>1. s \in Seq(Chars) /\ Len(s) <= to
    BY <1>3, <1>4 DEF Assembled
  <2>2. Len(s) <= to + 1
    BY <1>3, <2>1, LenProperties
  <2> QED
    BY <1>1, <1>5, <2>1, <2>2, ReadTypes
<1>10. Collected'
  BY <1>3, <1>4, <1>5, <1>7 DEF Collected
<1>11. ASSUME clean'
       PROVE  to < Len(Mail)
  <2>1. CASE to = Len(Mail)
    <3>1. read \in 0 .. (Len(Mail) - 1)
      BY <1>3, <1>8, <1>11
    <3>2. contains_mail_end(chunk)
      BY <1>3, <1>8, <1>11, <2>1, <3>1, EndSeen
    <3> QED
      BY <1>1, <1>3, <1>11, <3>2
  <2> QED
    BY <1>3, <1>8, <1>11, <2>1
<1>12. CleanSoFar'
  <2>1. ASSUME clean'
        PROVE  /\ read' <= Len(Mail') /\ read' # Len(Mail') /\ ~Awkward(read)'
               /\ Part(mail_body', Stream', 0, read')
    <3>1. ~Awkward(to)
      BY <1>3, <2>1
    <3>2. ~Awkward(read)'
      BY <1>5, <3>1 DEF Awkward, Stream, Mail
    <3>3. Part(mail_body \o chunk, Stream, 0, to)
      BY <1>3, <1>8, <2>1, PartsJoin
    <3>4. mail_body' = mail_body \o chunk
      BY <1>3, <1>4, <1>5, <2>1 DEF Collect
    <3> QED
      BY <1>3, <1>5, <1>7, <1>8, <1>11, <2>1, <3>2, <3>3, <3>4
  <2> QED
    BY <1>5, <2>1 DEF CleanSoFar, Accepted
<1>13. StoredExact' /\ TruncatedAtWorst'
  BY <1>5 DEF StoredExact, TruncatedAtWorst, Accepted
<1> QED
  BY <1>9, <1>10, <1>12, <1>13 DEF BodyInv

LEMMA OutOfRangeLegible ==
    ASSUME NEW s \in Seq(Chars), INVALID \notin Range(s)
    PROVE  Legible(s)
<1>1. DOMAIN s = 1 .. Len(s)
  BY LenProperties
<1> QED
  BY <1>1 DEF Legible, Is, Range

LEMMA LegibleFirst ==
    ASSUME NEW s \in Seq(Chars), NEW t \in Seq(Chars), Legible(s \o t)
    PROVE  Legible(s)
<1> SUFFICES ASSUME NEW i, Is(s, i, INVALID)
             PROVE  Is(s \o t, i, INVALID)
  BY DEF Legible
<1>1. i \in Int /\ i <= Len(s)
  BY LenProperties DEF Is
<1> QED
  BY <1>1, ConcatJoined, JoinedFirst

LEMMA ReceiveEndInv == BodyInv /\ ReceiveEnd => BodyInv'
<1> SUFFICES ASSUME BodyInv, ReceiveEnd
             PROVE  BodyInv'
  OBVIOUS
<1>1. PICK to \in DOMAIN Stream :
        /\ ReadUpTo(to)
        /\ contains_mail_end(TextUpTo(to))
        /\ ~EndInside(Collect(TextUpTo(to)))
        /\ mail_body' = decode_transparency(Collect(TextUpTo(to)))
        /\ state' = "DATACOMPLETE"
  BY DEF ReceiveEnd
<1>2. PICK chunk : chunk = SubSeq(Stream, read + 1, to)
  OBVIOUS
<1>3. /\ to \in Nat /\ read \in Nat /\ to <= Len(Stream) /\ read < to
      /\ Part(chunk, Stream, read, to)
      /\ Assembled(mail_body, Stream, Len(Mail), read)
      /\ TextUpTo(to) = IF IsUtf8(chunk) THEN chunk ELSE <<INVALID>>
      /\ Assembled(Collect(TextUpTo(to)), Stream, Len(Mail), to)
      /\ clean' => /\ Part(mail_body, Stream, 0, read)
                   /\ read < Len(Mail)
                   /\ read # 0 => ~AwkwardAt(Stream, Len(Mail), read)
                   /\ to <= Len(Mail)
                   /\ ~AwkwardAt(Stream, Len(Mail), to)
  BY <1>1, <1>2, ReadIs
<1>4. TextUpTo(to) = chunk
  BY <1>1, <1>3, InvalidHasNoEnd
<1>5. PICK s : s = mail_body \o chunk
  OBVIOUS
<1>6. /\ state' = "DATACOMPLETE" /\ read' = to
      /\ UNCHANGED <<message, pipelined>>
      /\ mail_body' = decode_transparency(s)
      /\ contains_mail_end(chunk) /\ ~EndInside(s)
      /\ Assembled(s, Stream, Len(Mail), to)
  BY <1>1, <1>3, <1>4, <1>5 DEF ReadUpTo, Collect
<1>7. BodyTypeOK /\ message \in Seq(Lines) /\ pipelined \in BOOLEAN
  BY MessageIs DEF BodyInv
<1>8. Stream' = Stream /\ Mail' = Mail /\ Text' = Text
  BY <1>6, StreamStays
<1>9. /\ Wire(Stream, Len(Mail)) /\ Len(Mail) \in Nat /\ Len(Stream) \in Nat
      /\ Stream \in Seq(Chars) /\ mail_body \in Seq(Chars) /\ chunk \in Seq(Chars)
  BY <1>3, <1>7, StreamIs DEF Wire, BodyTypeOK, Part
<1>10. s \in Seq(Chars) /\ Len(s) <= to /\ Len(s) \in Nat
  BY <1>6, LenProperties DEF Assembled
<1>11. read < Len(Mail)
  <2>1. CASE read >= Len(Mail)
    BY <1>3, <1>6, <1>9, <2>1, NoEndBehind
  <2> QED
    BY <1>3, <1>9, <2>1
<1>12. BodyTypeOK'
  <2>1. mail_body' \in Seq(Chars) /\ Len(mail_body') <= Len(s) + 1
    BY <1>6, <1>10, DecodeType
  <2>2. Len(mail_body') <= to + 1
    BY <1>3, <1>10, <2>1, LenProperties
  <2> QED
    BY <1>1, <2>1, <2>2, ReadTypes
<1>13. Collected'
  BY <1>6 DEF Collected
<1>14. ASSUME clean'
       PROVE  to = Len(Mail)
  <2>1. CASE to < Len(Mail)
    <3>1. ~contains_mail_end(chunk)
      BY <1>3, <1>9, <1>14, <2>1, NoEndSeen
    <3> QED
      BY <1>6, <3>1
  <2> QED
    BY <1>3, <1>9, <1>14, <2>1
<1>15. CleanSoFar'
  <2>1. ASSUME clean'
        PROVE  read' <= Len(Mail') /\ read' = Len(Mail')
    BY <1>6, <1>8, <1>9, <1>14, <2>1
  <2> QED
    BY <1>6, <2>1 DEF CleanSoFar, Accepted
<1>16. ASSUME message # <<>>, Part(mail_body, Stream, 0, read)
       PROVE  /\ to = Len(Mail) => decode_transparency(s) = Text \o EndLine
              /\ CutShort(decode_transparency(s), Text)
  <2>1. PICK b : b = Lined(message)
    OBVIOUS
  <2>2. /\ Sent(b, Text) /\ Len(b) >= 2 /\ Joined(b, EndLine, Mail)
        /\ Len(Mail) # 3
    BY <1>7, <1>16, <2>1, StreamIs
  <2>3. PICK f \in Seq(Chars) : Joined(Mail, f, Stream)
    BY <1>7, StreamIs
  <2>4. Mail \in Seq(Chars) /\ Text \in Seq(Chars)
    BY <2>2 DEF Sent, Joined
  <2>5. Part(s, Stream, 0, to) /\ Len(s) = to
    <3>1. Part(s, Stream, 0, to)
      BY <1>3, <1>5, <1>9, <1>16, PartsJoin
    <3> QED
      BY <1>3, <3>1 DEF Part
  <2>6. to <= Len(Mail)
    <3>1. CASE to > Len(Mail)
      <4>1. EndInside(s)
        BY <1>3, <1>9, <2>2, <2>5, <3>1, BeyondRefused
      <4> QED
        BY <1>6, <4>1
    <3> QED
      BY <1>3, <1>9, <3>1
  <2>7. Part(s, Mail, 0, to) /\ (to = Len(Mail) => s = Mail)
    BY <2>3, <2>4, <2>5, <2>6, PartOfMail
  <2>8. CASE to = Len(Mail)
    <3>1. decode_transparency(s) = Text \o EndLine
      BY <2>2, <2>7, <2>8, DecodeWhole
    <3>2. CutShort(Text \o EndLine, Text)
      BY <2>4, WholeCutShort
    <3> QED
      BY <3>1, <3>2
  <2>9. CASE to # Len(Mail)
    <3>1. to < Len(Mail)
      BY <1>3, <1>9, <2>6, <2>9
    <3>2. ~Terminated(s)
      <4> SUFFICES ASSUME Terminated(s)
                   PROVE  FALSE
        OBVIOUS
      <4>1. EndAt(s, Len(s) - 4)
        BY <1>10, TerminatedIs
      <4>2. PICK i : i = to - 4
        OBVIOUS
      <4>3. EndAt(s, i)
        BY <2>5, <4>1, <4>2
      <4>4. i \in Int /\ i >= 1 /\ i = 0 + i
        BY <1>10, <4>3, PatternsArePositive
      <4>5. EndAt(Stream, i)
        BY <1>9, <2>5, <4>3, <4>4, PartPatterns
      <4>6. MarkAt(Stream, i) /\ Is(Stream, i + 3, CR)
        BY <4>5 DEF EndAt, EolAt
      <4>7. i = Len(Mail) - 4
        BY <1>9, <4>6, MarkOfEnd
      <4> QED
        BY <1>3, <1>9, <2>9, <4>2, <4>7
    <3>3. CutShort(decode_transparency(s), Text)
      BY <1>3, <2>2, <2>7, <3>1, <3>2, DecodeCut
    <3> QED
      BY <2>9, <3>3
  <2> QED
    BY <2>8, <2>9
<1>17. StoredExact'
  <2> SUFFICES ASSUME clean', message' # <<>>
               PROVE  mail_body' = Text' \o EndLine
    BY DEF StoredExact
  <2>1. message # <<>> /\ Part(mail_body, Stream, 0, read)
    BY <1>3, <1>6
  <2>2. to = Len(Mail)
    BY <1>14
  <2> QED
    BY <1>6, <1>8, <1>16, <2>1, <2>2
<1>18. TruncatedAtWorst'
  <2> SUFFICES ASSUME message' # <<>>, INVALID \notin Range(mail_body')
               PROVE  CutShort(mail_body', Text')
    BY DEF TruncatedAtWorst, CutShort
  <2>1. message # <<>>
    BY <1>6
  <2>2. Legible(decode_transparency(s))
    <3>1. decode_transparency(s) \in Seq(Chars)
      BY <1>10, DecodeType
    <3>2. INVALID \notin Range(decode_transparency(s))
      BY <1>6
    <3> QED
      BY <3>1, <3>2, OutOfRangeLegible
  <2>3. Legible(s)
    BY <1>10, <2>2, DecodeShows
  <2>4. Legible(mail_body)
    BY <1>5, <1>9, <2>3, LegibleFirst
  <2>5. PICK k : (k = 0 \/ k > Len(Mail)) /\ Part(mail_body, Stream, k, read)
    BY <1>3, <2>4, LegibleIsPart
  <2>6. k = 0
    BY <1>3, <1>9, <1>11, <2>5 DEF Part
  <2> QED
    BY <1>6, <1>8, <1>16, <2>1, <2>5, <2>6
<1> QED
  BY <1>12, <1>13, <1>15, <1>17, <1>18 DEF BodyInv

LEMMA ReceiveBadEndInv == BodyInv /\ ReceiveBadEnd => BodyInv'
<1> SUFFICES ASSUME BodyInv, ReceiveBadEnd
             PROVE  BodyInv'
  OBVIOUS
<1>1. PICK to \in DOMAIN Stream :
        /\ ReadUpTo(to)
        /\ EndInside(Collect(TextUpTo(to)))
        /\ mail_body' = <<>>
        /\ UNCHANGED state
  BY DEF ReceiveBadEnd
<1>2. PICK chunk : chunk = SubSeq(Stream, read + 1, to)
  OBVIOUS
<1>3. /\ to \in Nat /\ to <= Len(Stream)
      /\ Assembled(Collect(TextUpTo(to)), Stream, Len(Mail), to)
      /\ clean' => to <= Len(Mail)
  BY <1>1, <1>2, ReadIs
<1>4. /\ state' = "DATA" /\ read' = to
      /\ UNCHANGED <<message, pipelined>> /\ mail_body' = <<>>
  BY <1>1 DEF ReadUpTo
<1>5. BodyTypeOK /\ message \in Seq(Lines) /\ pipelined \in BOOLEAN
  BY MessageIs DEF BodyInv
<1>6. Stream' = Stream /\ Mail' = Mail
  BY <1>4, StreamStays
<1>7. Wire(Stream, Len(Mail)) /\ Len(Mail) \in Nat /\ Stream \in Seq(Chars)
  BY <1>5, StreamIs DEF Wire
<1>8. to > Len(Mail)
  BY <1>1, <1>3, <1>7, RefusedBeyond
<1>9. BodyTypeOK'
  <2>1. mail_body' \in Seq(Chars) /\ Len(mail_body') <= to + 1
    BY <1>3, <1>4, EmptySeq
  <2> QED
    BY <1>1, <1>4, <2>1, ReadTypes
<1>10. Collected'
  <2>1. Assembled(<<>>, Stream, Len(Mail), to)
    BY <1>3, <1>7, <1>8, AssembledNothing
  <2> QED
    BY <1>4, <1>6, <2>1 DEF Collected
<1>11. ~clean'
  BY <1>3, <1>7, <1>8
<1>12. CleanSoFar' /\ StoredExact'
  BY <1>11 DEF CleanSoFar, StoredExact
<1>13. TruncatedAtWorst'
  BY <1>4 DEF TruncatedAtWorst, Accepted
<1> QED
  BY <1>9, <1>10, <1>12, <1>13 DEF BodyInv

LEMMA ReadPanicsInv == BodyInv /\ ReadPanics => BodyInv'
<1> SUFFICES ASSUME BodyInv, ReadPanics
             PROVE  BodyInv'
  OBVIOUS
<1>1. PICK to \in DOMAIN Stream :
        /\ ReadUpTo(to)
        /\ CutsInside(TextUpTo(to))
        /\ state' = "PANIC"
        /\ UNCHANGED mail_body
  BY DEF ReadPanics
<1>2. PICK chunk : chunk = SubSeq(Stream, read + 1, to)
  OBVIOUS
<1>3. /\ to \in Nat /\ read \in Nat /\ read < to
      /\ Assembled(mail_body, Stream, Len(Mail), read)
      /\ clean' => TextUpTo(to) = chunk /\ ~CutsInside(chunk)
  BY <1>1, <1>2, ReadIs
<1>4. ~clean'
  BY <1>1, <1>3
<1>5. BodyTypeOK'
  <2>1. mail_body' \in Seq(Chars) /\ Len(mail_body') <= read
    BY <1>1, <1>3 DEF Assembled
  <2>2. Len(mail_body') <= to + 1
    BY <1>3, <2>1, LenProperties
  <2> QED
    BY <1>1, <2>1, <2>2, ReadTypes
<1>6. Collected' /\ CleanSoFar' /\ StoredExact' /\ TruncatedAtWorst'
  BY <1>1, <1>4 DEF Collected, CleanSoFar, StoredExact, TruncatedAtWorst, Accepted
<1> QED
  BY <1>5, <1>6 DEF BodyInv

LEMMA BodyNextInv == BodyInv /\ [BodyNext]_vars => BodyInv'
<1> SUFFICES ASSUME BodyInv, [BodyNext]_vars
             PROVE  BodyInv'
  OBVIOUS
<1>1. CASE ReceiveMore
  BY <1>1, ReceiveMoreInv
<1>2. CASE ReceiveEnd
  BY <1>2, ReceiveEndInv
<1>3. CASE ReceiveBadEnd
  BY <1>3, ReceiveBadEndInv
<1>4. CASE ReadPanics
  BY <1>4, ReadPanicsInv
<1>5. CASE Idle \/ UNCHANGED vars
  <2>1. UNCHANGED vars
    BY <1>5 DEF Idle
  <2>2. /\ Stream' = Stream /\ Mail' = Mail /\ Text' = Text
        /\ \A p : Awkward(p)' <=> Awkward(p)
    BY <2>1, StreamStays DEF vars
  <2>3. Awkward(read)' <=> Awkward(read)
    BY <2>1 DEF Awkward, Stream, Mail, vars
  <2>4. BodyTypeOK'
    BY <2>1, <2>2 DEF BodyInv, BodyTypeOK, vars
  <2>5. Collected'
    BY <2>1, <2>2 DEF BodyInv, Collected, vars
  <2>6. CleanSoFar'
    BY <2>1, <2>2, <2>3 DEF BodyInv, CleanSoFar, Accepted, vars
  <2>7. StoredExact' /\ TruncatedAtWorst'
    BY <2>1, <2>2 DEF BodyInv, StoredExact, TruncatedAtWorst, Accepted, vars
  <2> QED
    BY <2>4, <2>5, <2>6, <2>7 DEF BodyInv
<1> QED
  BY <1>1, <1>2, <1>3, <1>4, <1>5 DEF BodyNext

LEMMA BodyInvAlways == BodySpec => []BodyInv
BY BodyInitInv, BodyNextInv, PTL DEF BodySpec

-----------------------------------------------------------------------------
\* What receive_data collects and decode_transparency makes of it are
\* characters, at most one more than were read (the dot of the rnp end), the
\* text that replaces a read counting as one.
THEOREM BodyTypeCorrect == BodySpec => []BodyTypeOK
<1>1. BodyInv => BodyTypeOK
  BY DEF BodyInv
<1> QED
  BY <1>1, BodyInvAlways, PTL

\* A mail whose reads are cut well, each UTF-8 by itself, is accepted exactly
\* when all of it was read, and stored as it was meant (socket_loop,
\* receive_data, decode_transparency).
THEOREM ExactWhenCutCleanAlways == BodySpec => []ExactWhenCutClean
<1>1. BodyInv => ExactWhenCutClean
  BY DEF BodyInv, CleanSoFar, StoredExact, ExactWhenCutClean
<1> QED
  BY <1>1, BodyInvAlways, PTL

\* Wherever the reads end, an accepted mail shows the text of a replaced read,
\* or is a beginning of the one that was meant and a rest of the last line,
\* with nothing of the commands behind it.
THEOREM TruncatedAtWorstAlways == BodySpec => []TruncatedAtWorst
<1>1. BodyInv => TruncatedAtWorst
  BY DEF BodyInv
<1> QED
  BY <1>1, BodyInvAlways, PTL

-----------------------------------------------------------------------------
(* What the next server makes of it. *)

\* The lines of a plain mail end where it ends.
LEMMA EndLinesOfPlain ==
    ASSUME NEW m, Wire(m, Len(m)), Len(m) # 3
    PROVE  EndLines(m) = {Len(m) - 2}
<1>1. m \in Seq(Chars) /\ Len(m) \in Nat /\ Len(m) >= 5
  BY DEF Wire
<1>2. PICK n : n = Len(m)
  OBVIOUS
<1>3. /\ \A i : i \in Occurrences(CRLF, m) <=> EolAt(m, i)
      /\ \A i : i \in Occurrences(EndLine, m) <=> LastAt(m, i)
  BY <1>1, OccurrencesAre
<1>4. \A j : j \in LineStarts(m) <=> j = 1 \/ \E i : EolAt(m, i) /\ j = i + 2
  BY <1>3 DEF LineStarts
<1>5. ASSUME NEW j, LastAt(m, j), j = 1 \/ \E i : EolAt(m, i) /\ j = i + 2
      PROVE  j = n - 2
  <2>1. j # 1
    BY <1>5 DEF Wire
  <2>2. PICK i : EolAt(m, i) /\ j = i + 2
    BY <1>5, <2>1
  <2>3. i \in Int
    BY <1>1, <2>2, PatternsArePositive
  <2>4. MarkAt(m, i) /\ Is(m, i + 3, CR)
    <3>1. j + 1 = i + 3
      BY <2>2, <2>3
    <3> QED
      BY <1>5, <2>2, <3>1 DEF MarkAt, EolAt, LastAt
  <2>5. i = n - 4
    BY <1>2, <2>4, MarkOfEnd
  <2> QED
    BY <1>1, <1>2, <2>2, <2>5
<1>6. LastAt(m, n - 2) /\ \E i : EolAt(m, i) /\ n - 2 = i + 2
  <2>1. LastAt(m, n - 2) /\ EndAt(m, n - 4)
    BY <1>2 DEF Wire
  <2>2. EolAt(m, n - 4)
    BY <2>1 DEF EndAt, MarkAt, EolAt
  <2>3. n - 2 = (n - 4) + 2
    BY <1>1, <1>2
  <2> QED
    BY <2>1, <2>2, <2>3
<1>7. \A j : j \in EndLines(m) <=> j = n - 2
  BY <1>3, <1>4, <1>5, <1>6 DEF EndLines
<1> QED
  BY <1>2, <1>7

\* Nothing is dropped of what has no line that begins with a dot.
LEMMA PlainUndropped ==
    ASSUME NEW t \in Seq(Chars), Plain(t)
    PROVE  /\ {i \in LineStarts(t) \cap DOMAIN t : t[i] = DOT} = {}
           /\ Without({}, t) = t
<1>1. DOMAIN t = 1 .. Len(t) /\ Len(t) \in Nat
  BY LenProperties
<1>2. \A i : i \in Occurrences(CRLF, t) <=> EolAt(t, i)
  BY OccurrencesAre
<1>3. ASSUME NEW i \in LineStarts(t) \cap DOMAIN t, t[i] = DOT
      PROVE  FALSE
  <2>1. Is(t, i, DOT)
    BY <1>1, <1>3 DEF Is
  <2>2. i # 1
    BY <2>1 DEF Plain
  <2>3. PICK j : EolAt(t, j) /\ i = j + 2
    BY <1>2, <2>2 DEF LineStarts
  <2>4. MarkAt(t, j)
    BY <2>1, <2>3 DEF MarkAt, EolAt
  <2> QED
    BY <2>4 DEF Plain
<1>4. PICK K : K = Kept({}, t)
  OBVIOUS
<1>5. Keeps(K, {}, t)
  BY <1>4, KeptKeeps
<1>6. PICK n : n = Len(t)
  OBVIOUS
<1>7. Behind(K[n], K[0], t)
  <2>1. Matches(t, t, 0)
    BY <1>1 DEF Matches
  <2>2. 0 \in 0 .. Len(t) /\ n \in Nat /\ n <= Len(t) /\ n = 0 + Len(t)
    BY <1>1, <1>6
  <2>3. Untouched({}, 0, n)
    BY DEF Untouched
  <2> QED
    BY <1>5, <2>1, <2>2, <2>3, KeptRest
<1>8. K[n] = <<>> \o t
  BY <1>5, <1>7 DEF Behind, Keeps
<1>9. <<>> \o t = t
  BY ConcatEmptySeq
<1>10. Without({}, t) = t
  BY <1>4, <1>6, <1>8, <1>9 DEF Without
<1> QED
  BY <1>3, <1>10

LEMMA RelayExact == BodyInv => RelayExactWithoutDots
<1> SUFFICES ASSUME BodyInv, clean, Accepted, message # <<>>,
                    \A i \in DOMAIN message : ~IsPrefix(<<DOT>>, message[i])
             PROVE  EndLines(mail_body) # {} /\ Received(mail_body) = Text
  BY DEF RelayExactWithoutDots
<1>1. message \in Seq(Lines) /\ pipelined \in BOOLEAN
  BY MessageIs DEF BodyInv
<1>2. PICK b : b = Lined(message)
  OBVIOUS
<1>3. PICK m : m = Mail
  OBVIOUS
<1>4. /\ Sent(b, Text) /\ Len(b) >= 2 /\ Joined(b, EndLine, m) /\ Len(m) # 3
  BY <1>1, <1>2, <1>3, StreamIs
<1>5. Plain(b) /\ b = Text
  BY <1>1, <1>2, MailPlain DEF Text
<1>6. mail_body = m
  <2>1. mail_body = Text \o EndLine
    BY DEF BodyInv, StoredExact
  <2>2. m = b \o EndLine
    BY <1>2, <1>3 DEF Mail, Lined
  <2> QED
    BY <1>5, <2>1, <2>2
<1>7. b \in Seq(Chars) /\ Len(b) \in Nat /\ m \in Seq(Chars)
  BY <1>4, LenProperties DEF Sent, WholeLines, Joined
<1>8. Wire(m, Len(m))
  BY <1>4, MailWire
<1>9. PICK e : e = Len(m) - 2
  OBVIOUS
<1>10. EndLines(m) = {e}
  BY <1>4, <1>8, <1>9, EndLinesOfPlain
<1>11. Len(m) = Len(b) + 3 /\ e = Len(b) + 1
  <2>1. Len(m) = Len(b) + 3
    BY <1>4, EndLineIs DEF Joined
  <2> QED
    BY <1>7, <1>9, <2>1
<1>12. Min(EndLines(m)) = e
  <2>1. e \in Int
    BY <1>7, <1>11
  <2> QED
    BY <1>10, <2>1 DEF Min
<1>13. SubSeq(m, 1, Min(EndLines(m)) - 1) = b
  <2>1. PICK n : n = Len(b)
    OBVIOUS
  <2>2. Matches(b, m, 0)
    BY <1>4, <1>7 DEF Matches, Joined
  <2>3. SubSeq(m, 0 + 1, 0 + Len(b)) = b
    BY <1>7, <1>11, <2>2, SubSeqMatches
  <2>4. 0 + 1 = 1 /\ 0 + Len(b) = n /\ Min(EndLines(m)) - 1 = n
    BY <1>7, <1>11, <1>12, <2>1
  <2> QED
    BY <2>3, <2>4
<1>14. Received(m) = b
  BY <1>5, <1>7, <1>13, PlainUndropped DEF Received
<1> QED
  BY <1>5, <1>6, <1>10, <1>14

\* A mail without a line that starts with a dot, whose reads were cut well, is
\* taken by the next server as it was meant, though SmtpClient::run does not
\* put dots before its lines.
THEOREM RelayExactWithoutDotsAlways == BodySpec => []RelayExactWithoutDots
BY BodyInvAlways, RelayExact, PTL
=============================================================================
