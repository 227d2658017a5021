--------------------------- MODULE Maildir_proofs ---------------------------
(***************************************************************************)
(* Proofs about Maildir, for every number of milliseconds in a second,     *)
(* every set of mailboxes and every bound.                                 *)
(***************************************************************************)
EXTENDS Maildir, Integers, TLAPS

\* What a file's name says of the mail in it: the second it was stored in,
\* and, if the connection of today stored it, how long after its beginning.
FileInv ==
    \A mb \in Mailboxes, n \in Names : files[mb][n] \in Mails =>
        LET m == files[mb][n] IN
          /\ storedAt[m] <= now
          /\ n.unixtime = (storedAt[m] + offset) \div Second
          /\ storedAt[m] > base_instant => n.millis = storedAt[m] - base_instant

StorageInv == MaildirTypeOK /\ FileInv

-----------------------------------------------------------------------------
\* The quotient of a division is between the multiples around the dividend.
LEMMA Quotient ==
    ASSUME NEW a \in Nat, NEW s \in Nat \ {0}
    PROVE  /\ a \div s \in Nat
           /\ s * (a \div s) <= a
           /\ a < s * (a \div s) + s
<1>1. /\ a \div s \in Int
      /\ a = s * (a \div s) + (a % s)
      /\ a % s \in 0 .. (s - 1)
  OBVIOUS
<1> QED
  BY <1>1

LEMMA DivMonotone ==
    ASSUME NEW a \in Nat, NEW b \in Nat, NEW s \in Nat \ {0}, a <= b
    PROVE  a \div s <= b \div s
<1> DEFINE p == a \div s
           q == b \div s
<1>1. p \in Nat /\ q \in Nat /\ s * p <= a /\ b < s * q + s
  BY Quotient
<1> HIDE DEF p, q
<1>2. ASSUME q < p PROVE FALSE
  <2>1. p >= q + 1
    BY <1>1, <1>2
  <2>2. s * p >= s * (q + 1)
    BY <1>1, <2>1
  <2>3. s * (q + 1) = s * q + s
    BY <1>1
  <2> QED
    BY <1>1, <2>2, <2>3
<1>3. p <= q
  BY <1>1, <1>2
<1> QED
  BY <1>3 DEF p, q

LEMMA NameType ==
    ASSUME MaildirTypeOK
    PROVE  /\ maildir_file_name \in Names
           /\ maildir_file_name.unixtime = (now + offset) \div Second
           /\ maildir_file_name.millis = now - base_instant
<1>1. /\ now + offset \in Nat
      /\ MaxTime + Second \in Nat
      /\ now + offset <= MaxTime + Second
      /\ Second \in Nat \ {0}
      /\ now - base_instant \in Times
  BY MaildirAssumption DEF MaildirTypeOK, Times
<1>2. /\ (now + offset) \div Second <= (MaxTime + Second) \div Second
      /\ (now + offset) \div Second \in Nat
      /\ (MaxTime + Second) \div Second \in Nat
  BY <1>1, DivMonotone, Quotient
<1>3. (now + offset) \div Second \in UnixTimes
  BY <1>2 DEF UnixTimes
<1> QED
  BY <1>1, <1>3 DEF maildir_file_name, Names

\* One file changes.
LEMMA Written ==
    ASSUME MaildirTypeOK, NEW content \in Mails \cup {Partial}, Write(content)
    PROVE  /\ mails \in Mails
           /\ mails' = mails + 1
           /\ storedAt' \in [Mails -> Times]
           /\ storedAt'[mails] = now
           /\ \A m \in Mails \ {mails} : storedAt'[m] = storedAt[m]
           /\ files' \in [Mailboxes -> [Names -> Mails \cup {NoMail, Partial}]]
           /\ \A mb \in Mailboxes, n \in Names :
                \/ files'[mb][n] = files[mb][n]
                \/ n = maildir_file_name /\ files'[mb][n] = content
           /\ UNCHANGED <<now, offset, base_instant>>
<1> USE DEF MaildirTypeOK
<1>1. mails \in Mails /\ now \in Times /\ mails' = mails + 1
  BY MaildirAssumption DEF Write, Mails
<1>2. storedAt' = [storedAt EXCEPT ![mails] = now]
  BY DEF Write
<1>3. /\ storedAt' \in [Mails -> Times]
      /\ storedAt'[mails] = now
      /\ \A m \in Mails \ {mails} : storedAt'[m] = storedAt[m]
  BY <1>1, <1>2
<1> DEFINE name == maildir_file_name
<1>4. name \in Names
  BY NameType
<1> HIDE DEF name
<1>5. PICK mb \in Mailboxes : files' = [files EXCEPT ![mb][name] = content]
  BY DEF Write, name
<1>6. /\ files' \in [Mailboxes -> [Names -> Mails \cup {NoMail, Partial}]]
      /\ \A b \in Mailboxes, n \in Names :
           \/ files'[b][n] = files[b][n]
           \/ n = name /\ files'[b][n] = content
  BY <1>4, <1>5
<1> QED
  BY <1>1, <1>3, <1>6 DEF Write, name

-----------------------------------------------------------------------------
LEMMA StorageInit == Init => StorageInv
<1> SUFFICES ASSUME Init PROVE StorageInv
  OBVIOUS
<1>1. \A mb \in Mailboxes, n \in Names : files[mb][n] = NoMail /\ NoMail \notin Mails
  BY MaildirAssumption DEF Init, Mails
<1>2. FileInv
  BY <1>1 DEF FileInv
<1>3. MaildirTypeOK
  BY <1>1, MaildirAssumption DEF Init, MaildirTypeOK, Times
<1> QED
  BY <1>2, <1>3 DEF StorageInv

LEMMA WritePreserves ==
    ASSUME StorageInv,
           NEW content \in Mails \cup {Partial}, content \in {mails, Partial},
           Write(content)
    PROVE  StorageInv'
<1> USE DEF StorageInv
<1>1. /\ mails \in Mails
      /\ mails' = mails + 1
      /\ storedAt' \in [Mails -> Times]
      /\ storedAt'[mails] = now
      /\ \A m \in Mails \ {mails} : storedAt'[m] = storedAt[m]
      /\ files' \in [Mailboxes -> [Names -> Mails \cup {NoMail, Partial}]]
      /\ \A mb \in Mailboxes, n \in Names :
           \/ files'[mb][n] = files[mb][n]
           \/ n = maildir_file_name /\ files'[mb][n] = content
      /\ UNCHANGED <<now, offset, base_instant>>
  BY Written
<1>2. /\ now \in Nat /\ base_instant \in 0 .. now /\ mails \in Nat
      /\ NoMail \notin Mails /\ Partial \notin Mails
  BY MaildirAssumption DEF MaildirTypeOK, Times, Mails
<1>3. mails' \in 0 .. MaxMails
  BY <1>1, MaildirAssumption DEF Mails
<1>4. \A mb \in Mailboxes, n \in Names :
        files'[mb][n] \in Mails => files'[mb][n] < mails'
  BY <1>1, <1>2 DEF MaildirTypeOK, Mails
<1>5. MaildirTypeOK'
  BY <1>1, <1>3, <1>4 DEF MaildirTypeOK
<1>6. ASSUME NEW mb \in Mailboxes, NEW n \in Names, files'[mb][n] \in Mails
      PROVE  LET m == files'[mb][n] IN
               /\ storedAt'[m] <= now
               /\ n.unixtime = (storedAt'[m] + offset) \div Second
               /\ storedAt'[m] > base_instant
                    => n.millis = storedAt'[m] - base_instant
  <2>1. CASE files'[mb][n] = files[mb][n]
    <3>1. files[mb][n] \in Mails \ {mails}
      BY <1>2, <1>6, <2>1 DEF MaildirTypeOK
    <3> QED
      BY <1>1, <2>1, <3>1 DEF FileInv
  <2>2. CASE n = maildir_file_name /\ files'[mb][n] = content
    <3>1. content = mails
      BY <1>2, <1>6, <2>2
    <3> QED
      BY <1>1, <1>2, <2>2, <3>1, NameType
  <2> QED
    BY <1>1, <2>1, <2>2
<1>7. FileInv'
  BY <1>1, <1>6 DEF FileInv
<1> QED
  BY <1>5, <1>7

LEMMA StorageStep ==
    ASSUME StorageInv, [Next]_maildirVars
    PROVE  StorageInv'
<1> USE DEF StorageInv
<1>1. CASE Tick
  <2>1. MaildirTypeOK'
    BY <1>1, MaildirAssumption DEF Tick, MaildirTypeOK, Times
  <2>2. storedAt \in [Mails -> Nat] /\ now \in Nat /\ now' = now + 1
    BY <1>1, MaildirAssumption DEF Tick, MaildirTypeOK, Times
  <2>3. FileInv'
    BY <1>1, <2>2 DEF Tick, FileInv
  <2> QED
    BY <2>1, <2>3
<1>2. CASE Connect
  <2>1. MaildirTypeOK'
    BY <1>2, MaildirAssumption DEF Connect, MaildirTypeOK, Times
  <2>2. storedAt \in [Mails -> Nat] /\ now \in Nat
    BY MaildirAssumption DEF MaildirTypeOK, Times
  <2>3. FileInv'
    BY <1>2, <2>2 DEF Connect, FileInv
  <2> QED
    BY <2>1, <2>3
<1>3. CASE Store
  <2>1. mails \in Mails
    BY <1>3, MaildirAssumption DEF Store, Write, MaildirTypeOK, Mails
  <2> QED
    BY <1>3, <2>1, WritePreserves DEF Store
<1>4. CASE StoreFails
  BY <1>4, WritePreserves DEF StoreFails
<1>5. CASE UNCHANGED maildirVars
  BY <1>5 DEF maildirVars, MaildirTypeOK, FileInv
<1> QED
  BY <1>1, <1>2, <1>3, <1>4, <1>5 DEF Next

LEMMA StorageInvariant == Spec => []StorageInv
<1> QED
  BY StorageInit, StorageStep, PTL DEF Spec

\* A file that loses its mail is the one that is written in this step.
LEMMA LosingStep ==
    ASSUME StorageInv, [Next]_maildirVars,
           NEW m \in Mails, Present(m), ~Present(m)'
    PROVE  /\ storedAt[m] + offset \in Nat
           /\ (storedAt[m] + offset) \div Second = (now + offset) \div Second
           /\ storedAt[m] # now => storedAt[m] <= base_instant
<1> USE DEF StorageInv
<1>1. PICK mb \in Mailboxes, n \in Names : files[mb][n] = m
  BY DEF Present
<1>2. files'[mb][n] # m
  BY DEF Present
<1>3. Store \/ StoreFails
  BY <1>1, <1>2 DEF Next, Tick, Connect, maildirVars
<1>4. n = maildir_file_name
  <2>1. mails \in Mails
    BY <1>3, MaildirAssumption DEF Store, StoreFails, Write, MaildirTypeOK, Mails
  <2>2. CASE Store
    BY <1>1, <1>2, <2>1, <2>2, Written DEF Store
  <2>3. CASE StoreFails
    BY <1>1, <1>2, <2>3, Written DEF StoreFails
  <2> QED
    BY <1>3, <2>2, <2>3
<1>5. /\ storedAt[m] \in Nat /\ now \in Nat /\ offset \in Nat /\ base_instant \in Nat
      /\ n.unixtime = (storedAt[m] + offset) \div Second
      /\ storedAt[m] > base_instant => n.millis = storedAt[m] - base_instant
  BY <1>1, MaildirAssumption DEF FileInv, MaildirTypeOK, Times
<1>6. /\ n.unixtime = (now + offset) \div Second
      /\ n.millis = now - base_instant
  BY <1>4, NameType
<1> QED
  BY <1>5, <1>6

-----------------------------------------------------------------------------
\* The clock, the instants and the files keep their types; a file holds a
\* mail for which store() has been called.
THEOREM StorageTypesCorrect == Spec => []MaildirTypeOK
<1> QED
  BY StorageInvariant, PTL DEF StorageInv

\* However store(), its failures, new connections and the clock interleave,
\* a file name given twice is given in one second of the wall clock
\* (maildir_file_name): mails stored in different seconds stay.
THEOREM LossNeedsSameSecond == Spec => LostOnlyWithinSecond
<1>1. StorageInv /\ [Next]_maildirVars =>
        [ \A m \in Mails : Present(m) /\ ~Present(m)'
            => (storedAt[m] + offset) \div Second = (now + offset) \div Second
        ]_maildirVars
  BY LosingStep
<1> QED
  BY <1>1, StorageInvariant, PTL DEF Spec, LostOnlyWithinSecond

\* A connection overwrites a mail of its own only within the millisecond in
\* which it stored it: the Instant a Storage is created with keeps apart what
\* it stores at different times, whatever the wall clock second.  What it
\* stores within one millisecond, such as the copies for a recipient named
\* twice, is not kept apart.
THEOREM OwnLossNeedsSameMilli == Spec => OwnLostOnlyWithinMilli
<1>1. StorageInv /\ [Next]_maildirVars =>
        [ \A m \in Mails :
            Present(m) /\ ~Present(m)' /\ storedAt[m] # now
                => storedAt[m] <= base_instant ]_maildirVars
  BY LosingStep
<1> QED
  BY <1>1, StorageInvariant, PTL DEF Spec, OwnLostOnlyWithinMilli
=============================================================================
