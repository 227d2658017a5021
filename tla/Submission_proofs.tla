------------------------- MODULE Submission_proofs -------------------------
(***************************************************************************)
(* A connection keeps the promise of Submission, for every set of          *)
(* addresses, logins and domains and every bound.                          *)
(***************************************************************************)
EXTENDS SmtpSession_proofs

-----------------------------------------------------------------------------
(* What a delivery hands over. *)

\* Whatever is in a mailbox or in the queue has an identity already given.
FreshUuid == \A p \in Handed : p[1] < uuid

Named == {session.recipients[i] : i \in DOMAIN session.recipients}

\* Grouping by domain loses nobody and invents nobody.
LEMMA GroupsCover ==
    ASSUME NEW R \in SUBSET Addrs
    PROVE  UNION GroupByDomain(R) = R
BY DEF GroupByDomain

LEMMA QueuedAfterAdd ==
    ASSUME queue \in Seq(Entries), NEW m \in Nat, NEW R \in SUBSET Addrs,
           AddToQueue(m, R)
    PROVE  Queued' = Queued \cup ({m} \X R)
<1> DEFINE new == [mail |-> m, groups |-> GroupByDomain(R)]
           Pairs(e) == {<<e.mail, a>> : a \in UNION e.groups}
<1>1. CASE R = {}
  BY <1>1 DEF AddToQueue, Queued
<1>2. CASE R # {}
  <2>1. new \in Entries
    BY GroupsType DEF Entries
  <2>2. queue' = Append(queue, new)
    BY <1>2 DEF AddToQueue
  <2>3. Pairs(new) = {m} \X R
    BY GroupsCover
  <2> HIDE DEF new
  <2>4. /\ DOMAIN queue' = (DOMAIN queue) \cup {Len(queue) + 1}
        /\ \A i \in DOMAIN queue : queue'[i] = queue[i]
        /\ queue'[Len(queue) + 1] = new
    BY <2>1, <2>2, AppendProperties, LenProperties
  <2>5. UNION {Pairs(queue'[i]) : i \in DOMAIN queue'}
          = (UNION {Pairs(queue[i]) : i \in DOMAIN queue}) \cup Pairs(new)
    <3> HIDE DEF Pairs
    <3> QED
      BY <2>4
  <2> QED
    BY <2>3, <2>5 DEF Queued
<1> QED
  BY <1>1, <1>2

LocalNamed(rcpts) == {rcpts[i] : i \in LocalIndices(rcpts)}

\* The files written stand for some of the recipients named, and for all the
\* local ones when the loop came to its end.
LEMMA StoredForNamed ==
    ASSUME NEW m, NEW rcpts \in Seq(Addrs), NEW k \in Int, StoreUpTo(m, rcpts, k)
    PROVE  \E L \in SUBSET {rcpts[i] : i \in DOMAIN rcpts} :
             /\ stored' = stored \cup ({m} \X L)
             /\ k = Len(rcpts) => L = LocalNamed(rcpts)
<1> DEFINE L == {rcpts[i] : i \in {j \in LocalIndices(rcpts) : j <= k}}
<1>1. stored' = stored \cup ({m} \X L)
  BY DEF StoreUpTo
<1>2. L \in SUBSET {rcpts[i] : i \in DOMAIN rcpts}
  BY DEF LocalIndices
<1>3. k = Len(rcpts) => L = LocalNamed(rcpts)
  BY LenProperties DEF LocalIndices, LocalNamed
<1> HIDE DEF L
<1> QED
  BY <1>1, <1>2, <1>3

\* However a delivery ends, one new mail went to some of the recipients
\* named, and to all of them when it succeeded.
HandsOver(R) ==
    /\ uuid \in 0..MaxMails
    /\ uuid < uuid'
    /\ Handed' = Handed \cup ({uuid} \X R)

LEMMA DeliveryHandsOver ==
    ASSUME TypeOK, NEW rcpts \in Seq(Addrs), uuid < MaxMails, uuid' = uuid + 1,
           AddToQueue(uuid, RemoteRecipients(rcpts)),
           NEW L \in SUBSET {rcpts[i] : i \in DOMAIN rcpts},
           stored' = stored \cup ({uuid} \X L)
    PROVE  HandsOver(L \cup RemoteRecipients(rcpts))
<1>1. queue \in Seq(Entries) /\ uuid \in Nat /\ uuid \in 0..MaxMails
  BY MaxMailsAssumption DEF TypeOK, DeliveryTypeOK
<1>2. Queued' = Queued \cup ({uuid} \X RemoteRecipients(rcpts))
  BY <1>1, QueuedAfterAdd, RemoteType
<1> QED
  BY <1>1, <1>2 DEF HandsOver, Handed

LEMMA OkHandsOver ==
    ASSUME TypeOK, DeliverOk(session.recipients)
    PROVE  HandsOver(Named)
<1> DEFINE rcpts == session.recipients
<1>1. rcpts \in Seq(Addrs) /\ Len(rcpts) \in Int
  BY LenProperties DEF TypeOK, SessionOK, Sessions
<1>2. PICK L \in SUBSET {rcpts[i] : i \in DOMAIN rcpts} :
        /\ stored' = stored \cup ({uuid} \X L)
        /\ L = LocalNamed(rcpts)
  <2>1. StoreUpTo(uuid, rcpts, Len(rcpts))
    BY DEF DeliverOk
  <2> HIDE DEF rcpts
  <2> QED
    BY <1>1, <2>1, StoredForNamed
<1>3. L \cup RemoteRecipients(rcpts) = Named
  BY <1>2 DEF RemoteRecipients, LocalIndices, LocalNamed, Named
<1>4. HandsOver(L \cup RemoteRecipients(rcpts))
  BY <1>1, <1>2, DeliveryHandsOver DEF DeliverOk
<1> QED
  BY <1>3, <1>4

LEMMA FailedHandsOver ==
    ASSUME TypeOK,
           \/ DeliverNoSuchUser(session.recipients)
           \/ DeliverMailboxIO(session.recipients)
    PROVE  \E R \in SUBSET Named : HandsOver(R)
<1> DEFINE rcpts == session.recipients
<1>1. rcpts \in Seq(Addrs) /\ LocalIndices(rcpts) \subseteq Int
  BY LenProperties DEF TypeOK, SessionOK, Sessions, LocalIndices
<1>2. PICK L \in SUBSET {rcpts[i] : i \in DOMAIN rcpts} :
        stored' = stored \cup ({uuid} \X L)
  <2>1. CASE DeliverNoSuchUser(rcpts)
    <3>1. stored' = stored \cup ({uuid} \X {})
      BY <2>1 DEF DeliverNoSuchUser
    <3> QED
      BY <3>1
  <2>2. CASE DeliverMailboxIO(rcpts)
    <3>1. PICK failing \in LocalIndices(rcpts) : StoreUpTo(uuid, rcpts, failing - 1)
      BY <2>2 DEF DeliverMailboxIO
    <3>2. failing - 1 \in Int
      BY <1>1
    <3> QED
      BY <1>1, <3>1, <3>2, StoredForNamed
  <2> QED
    BY <2>1, <2>2
<1>3. HandsOver(L \cup RemoteRecipients(rcpts))
  BY <1>1, <1>2, DeliveryHandsOver DEF DeliverNoSuchUser, DeliverMailboxIO
<1>4. L \cup RemoteRecipients(rcpts) \in SUBSET Named
  BY <1>2 DEF RemoteRecipients, LocalIndices, Named
<1> QED
  BY <1>3, <1>4

\* Every attempt takes an identity of its own.
LEMMA HandedStaysFresh ==
    ASSUME TypeOK, FreshUuid, NEW R, HandsOver(R), uuid' \in Nat
    PROVE  FreshUuid'
<1>1. uuid \in Nat
  BY MaxMailsAssumption DEF TypeOK, DeliveryTypeOK
<1>2. \A p \in Handed : p[1] \in Nat
  <2>1. stored \subseteq Nat \X Addrs /\ \A i \in DOMAIN queue : queue[i] \in Entries
    BY LenProperties, ElementOfSeq DEF TypeOK, DeliveryTypeOK
  <2> QED
    BY <2>1 DEF Handed, Queued, Entries
<1> QED
  BY <1>1, <1>2 DEF FreshUuid, HandsOver

-----------------------------------------------------------------------------
(* The steps as the client sees them. *)

IsOpen(s) == s.state \notin {"DATACOMPLETE"} \cup EndedOk \cup EndedErr

\* What a step that delivers nothing makes of the session: the transaction is
\* where it was, one recipient was named, or the connection is over.
Quiet(n) ==
    \/ n = session
    \/ IsOpen(session) /\ IsOpen(n) /\ n.recipients = session.recipients
    \/ /\ IsOpen(session) /\ IsOpen(n)
       /\ \E a \in Addrs : n.recipients = Append(session.recipients, a)
    \/ /\ session.state \notin EndedOk \cup EndedErr
       /\ n.state \in EndedOk \cup EndedErr
       /\ n.recipients = <<>>

LEMMA LiveIsOpen ==
    \A s \in {"ACCEPTED"} \cup Live : s \notin EndedOk \cup EndedErr
BY DEF Live, EndedOk, EndedErr

LEMMA EndIsQuiet ==
    ASSUME session.state \in {"ACCEPTED"} \cup Live,
           NEW e \in EndedOk \cup EndedErr
    PROVE  Quiet(Bare(e))
BY LiveIsOpen DEF Quiet, Bare

LEMMA RespondQuiet ==
    ASSUME session.state \in {"ACCEPTED"} \cup Live, NEW code, NEW next,
           Quiet(next), Respond(code, next)
    PROVE  Quiet(session')
BY EndIsQuiet DEF Respond, EndedErr

LEMMA RefuseQuiet ==
    ASSUME session.state \in {"ACCEPTED"} \cup Live, NEW code, Refuse(code)
    PROVE  Quiet(session')
<1>1. Quiet(session)
  BY DEF Quiet
<1> QED
  BY <1>1, RespondQuiet DEF Refuse, Answer

\* A handler that only moves to another state of the same transaction.
LEMMA MoveQuiet ==
    ASSUME session.state \in ({"ACCEPTED"} \cup Live) \ {"DATACOMPLETE"}, NEW n,
           n.state \in Live \ {"DATACOMPLETE"}, n.recipients = session.recipients
    PROVE  Quiet(n)
BY LiveIsOpen DEF Quiet, IsOpen

LEMMA HandshakeQuiet ==
    ASSUME TypeOK, Handshake
    PROVE  Quiet(session')
<1>1. session.recipients = <<>>
  BY DEF Handshake, Greet, Helo, Ehlo, In, TypeOK, SessionOK
<1>2. session.state \in ({"ACCEPTED"} \cup Live) \ {"DATACOMPLETE"}
  BY DEF Handshake, Greet, Helo, Ehlo, In, Live
<1>3. ASSUME NEW n, n \in {Bare("INIT"), [Bare("HELO") EXCEPT !.greeting = "HELO"],
                          [Bare("EHLO") EXCEPT !.greeting = "EHLO"]}
      PROVE  Quiet(n)
  <2>1. n.recipients = <<>> /\ n.state \in Live \ {"DATACOMPLETE"}
    BY <1>3 DEF Bare, Live
  <2> QED
    BY <1>1, <1>2, <2>1, MoveQuiet
<1> QED
  BY <1>2, <1>3, RespondQuiet DEF Handshake, Greet, Helo, Ehlo, Answer

LEMMA AuthQuiet ==
    ASSUME TypeOK, Auth
    PROVE  Quiet(session')
<1>1. session \in Sessions /\ session.state \in {"EHLO", "AUTH"}
  BY DEF TypeOK, SessionOK, Auth, AuthBadMechanism, AuthPlain, AuthPlainNoCredentials,
     AuthLogin, AuthStepPlain, AuthStepUser, AuthStepPassword, AuthStepMalformed, In
<1>2. session.state \in ({"ACCEPTED"} \cup Live) \ {"DATACOMPLETE"}
  BY <1>1 DEF Live
<1>3. ASSUME NEW u PROVE Quiet(AuthDone(u))
  <2>1. AuthDone(u).state = "EHLO" /\ AuthDone(u).recipients = session.recipients
    BY <1>1 DEF AuthDone, Sessions
  <2> QED
    BY <1>2, <2>1, MoveQuiet DEF Live
<1>4. ASSUME NEW l, NEW password, AuthVerdict(l, password)
      PROVE  Quiet(session')
  BY <1>2, <1>3, <1>4, RespondQuiet DEF AuthVerdict, Answer
<1>5. ASSUME NEW n, NEW s, NEW l, n = [session EXCEPT !.sasl = s, !.login = l]
      PROVE  Quiet(n)
  <2>1. n.state = session.state /\ n.recipients = session.recipients
    BY <1>1, <1>5 DEF Sessions
  <2> QED
    BY <1>1, <1>2, <2>1, MoveQuiet DEF Live
<1>6. ASSUME NEW n, NEW s, n = [session EXCEPT !.state = "AUTH", !.sasl = s]
      PROVE  Quiet(n)
  <2>1. n.state = "AUTH" /\ n.recipients = session.recipients
    BY <1>1, <1>6 DEF Sessions
  <2> QED
    BY <1>2, <2>1, MoveQuiet DEF Live
<1>7. CASE AuthBadMechanism
  BY <1>2, <1>7, RefuseQuiet DEF AuthBadMechanism
<1>8. CASE AuthPlain \/ AuthStepPlain \/ AuthStepPassword
  BY <1>4, <1>8 DEF AuthPlain, AuthStepPlain, AuthStepPassword
<1>9. CASE AuthPlainNoCredentials
  BY <1>6, <1>9 DEF AuthPlainNoCredentials
<1>10. CASE AuthLogin
  BY <1>2, <1>6, <1>10, RespondQuiet DEF AuthLogin, Answer
<1>11. CASE AuthStepUser
  BY <1>2, <1>5, <1>11, RespondQuiet DEF AuthStepUser, Answer
<1>12. CASE AuthStepMalformed
  BY <1>2, <1>3, <1>12, RespondQuiet DEF AuthStepMalformed, Answer
<1> QED
  BY <1>7, <1>8, <1>9, <1>10, <1>11, <1>12 DEF Auth

LEMMA EnvelopeQuiet ==
    ASSUME TypeOK, Envelope
    PROVE  Quiet(session')
<1>1. session \in Sessions /\ session.state \in {"HELO", "EHLO", "MAIL", "RCPT"}
  BY DEF TypeOK, SessionOK, Envelope, MailBadSyntax, MailBadAddress, MailUnauthorized,
     MailFrom, RcptBadSyntax, RcptBadAddress, RcptUnauthorized, Rcpt, In
<1>2. session.state \in ({"ACCEPTED"} \cup Live) \ {"DATACOMPLETE"}
  BY <1>1 DEF Live
<1>3. CASE MailBadSyntax \/ MailBadAddress \/ MailUnauthorized
  BY <1>2, <1>3, RefuseQuiet DEF MailBadSyntax, MailBadAddress, MailUnauthorized
<1>4. CASE RcptBadSyntax \/ RcptBadAddress \/ RcptUnauthorized
  BY <1>2, <1>4, RefuseQuiet
  DEF RcptBadSyntax, RcptBadAddress, RcptUnauthorized, AfterRcptError, Refuse
<1>5. CASE MailFrom
  <2>1. PICK a \in Addrs :
          Respond("250", [session EXCEPT !.state = "MAIL", !.sender = a,
                                         !.isLocalSender = IsLocalMailbox(a)])
    BY <1>5 DEF MailFrom, Answer
  <2>2. PICK n : n = [session EXCEPT !.state = "MAIL", !.sender = a,
                                     !.isLocalSender = IsLocalMailbox(a)]
    OBVIOUS
  <2>3. n.state = "MAIL" /\ n.recipients = session.recipients
    BY <1>1, <2>2 DEF Sessions
  <2>4. Quiet(n)
    BY <1>2, <2>3, MoveQuiet DEF Live
  <2> QED
    BY <1>2, <2>1, <2>2, <2>4, RespondQuiet
<1>6. CASE Rcpt
  <2>1. PICK a \in Addrs :
          Respond("250", [session EXCEPT !.state = "RCPT",
                              !.recipients = Append(session.recipients, a)])
    BY <1>6 DEF Rcpt, Answer
  <2>2. PICK n : n = [session EXCEPT !.state = "RCPT",
                          !.recipients = Append(session.recipients, a)]
    OBVIOUS
  <2>3. n.state = "RCPT" /\ n.recipients = Append(session.recipients, a)
    BY <1>1, <2>2 DEF Sessions
  <2>4. Quiet(n)
    BY <1>1, <2>3 DEF Quiet, IsOpen, EndedOk, EndedErr
  <2> QED
    BY <1>2, <2>1, <2>2, <2>4, RespondQuiet
<1> QED
  BY <1>3, <1>4, <1>5, <1>6 DEF Envelope

LEMMA OtherQuiet ==
    ASSUME TypeOK, Data \/ ReceiveMore \/ ReceiveBadEnd \/ Leave
    PROVE  Quiet(session')
<1>1. session \in Sessions
  BY DEF TypeOK, SessionOK
<1>2. CASE Data
  <2>1. PICK n : n = [session EXCEPT !.state = "DATA"] /\ Respond("354", n)
    BY <1>2 DEF Data, Answer
  <2>2. n.state = "DATA" /\ n.recipients = session.recipients
    BY <1>1, <2>1 DEF Sessions
  <2>3. session.state \in ({"ACCEPTED"} \cup Live) \ {"DATACOMPLETE"}
    BY <1>2 DEF Data, In, Live
  <2>4. Quiet(n)
    BY <2>2, <2>3, MoveQuiet DEF Live
  <2> QED
    BY <2>1, <2>3, <2>4, RespondQuiet
<1>3. CASE ReceiveMore
  BY <1>3 DEF ReceiveMore, Quiet
<1>4. CASE ReceiveBadEnd
  BY <1>4, RefuseQuiet DEF ReceiveBadEnd, In, Live
<1>5. CASE Quit
  BY <1>5, EndIsQuiet DEF Quit, In, Live, EndedOk
<1>6. CASE BadSequence \/ Unrecognized
  <2>1. session.state \in {"ACCEPTED"} \cup Live
    BY <1>6 DEF BadSequence, Unrecognized, In, Accepts, Live
  <2>2. Quiet(Bare("CANCELLED"))
    BY <2>1, EndIsQuiet DEF EndedOk
  <2> QED
    BY <1>6, <2>1, <2>2, RespondQuiet DEF BadSequence, Unrecognized, Answer
<1>7. CASE PeerCloses
  BY <1>7, EndIsQuiet DEF PeerCloses, In, EndedOk, EndedErr
<1> QED
  BY <1>2, <1>3, <1>4, <1>5, <1>6, <1>7 DEF Leave

\* Only the end of a mail delivers; every other step is quiet.
LEMMA StepsAreQuiet ==
    ASSUME TypeOK, [Next]_vars
    PROVE  \/ Quiet(session') /\ UNCHANGED <<uuid, stored, queue>>
           \/ ReceiveEndDelivered
           \/ ReceiveEndRefused
<1>1. CASE Handshake
  BY <1>1, HandshakeQuiet DEF Handshake, Greet, Helo, Ehlo, Answer, deliveryVars
<1>2. CASE Auth
  BY <1>2, AuthQuiet
  DEF Auth, AuthBadMechanism, AuthPlain, AuthPlainNoCredentials, AuthLogin, AuthStepPlain,
      AuthStepUser, AuthStepPassword, AuthStepMalformed, AuthVerdict, Refuse, Answer,
      deliveryVars
<1>3. CASE Envelope
  BY <1>3, EnvelopeQuiet
  DEF Envelope, MailBadSyntax, MailBadAddress, MailUnauthorized, MailFrom, RcptBadSyntax,
      RcptBadAddress, RcptUnauthorized, Rcpt, Refuse, Answer, deliveryVars
<1>4. CASE Data \/ ReceiveMore \/ ReceiveBadEnd \/ Leave
  BY <1>4, OtherQuiet
  DEF Data, ReceiveMore, ReceiveBadEnd, Leave, Quit, BadSequence, Unrecognized, PeerCloses,
      Refuse, Answer, deliveryVars
<1>5. CASE UNCHANGED <<deliveryVars, sessionVars>> \/ UNCHANGED vars
  BY <1>5 DEF deliveryVars, sessionVars, vars, Quiet
<1> QED
  BY <1>1, <1>2, <1>3, <1>4, <1>5 DEF Next, Handle, Content

LEMMA FreshStep ==
    ASSUME TypeOK, FreshUuid, [Next]_vars
    PROVE  FreshUuid'
<1>1. CASE UNCHANGED <<uuid, stored, queue>>
  BY <1>1 DEF FreshUuid, Handed, Queued
<1>2. CASE ReceiveEndDelivered \/ ReceiveEndRefused
  <2>1. uuid \in Nat
    BY MaxMailsAssumption DEF TypeOK, DeliveryTypeOK
  <2>2. uuid' \in Nat
    BY <1>2, <2>1 DEF ReceiveEndDelivered, ReceiveEndRefused, DeliverOk,
       DeliverNoSuchUser, DeliverMailboxIO
  <2>3. \E R : HandsOver(R)
    BY <1>2, OkHandsOver, FailedHandsOver DEF ReceiveEndDelivered, ReceiveEndRefused
  <2> QED
    BY <2>2, <2>3, HandedStaysFresh
<1> QED
  BY <1>1, <1>2, StepsAreQuiet

-----------------------------------------------------------------------------
(* ... and each of them is a step of Submission. *)

LEMMA QuietStep ==
    ASSUME TypeOK, Quiet(session'), UNCHANGED Handed
    PROVE  Transaction!Next \/ UNCHANGED Transaction!vars
<1>1. CASE session' = session
  BY <1>1 DEF Transaction!vars, In
<1>2. CASE /\ IsOpen(session) /\ IsOpen(session')
           /\ session'.recipients = session.recipients
  BY <1>2 DEF Transaction!vars, In, IsOpen
<1>3. CASE /\ IsOpen(session) /\ IsOpen(session')
           /\ \E a \in Addrs : session'.recipients = Append(session.recipients, a)
  BY <1>3 DEF Transaction!Next, Transaction!Name, In, IsOpen
<1>4. CASE /\ session.state \notin EndedOk \cup EndedErr
           /\ session'.state \in EndedOk \cup EndedErr
           /\ session'.recipients = <<>>
  BY <1>4 DEF Transaction!Next, Transaction!Close, In, IsOpen, EndedOk, EndedErr
<1> QED
  BY <1>1, <1>2, <1>3, <1>4 DEF Quiet

LEMMA HandOverStep ==
    ASSUME TypeOK, FreshUuid, NEW R, HandsOver(R)
    PROVE  Transaction!HandOver(R)
<1>1. uuid \in 0..MaxMails /\ uuid \in Nat
  BY MaxMailsAssumption DEF TypeOK, DeliveryTypeOK
<1>2. \A p \in Handed : p[1] # uuid
  BY <1>1 DEF FreshUuid
<1> QED
  BY <1>1, <1>2 DEF HandsOver, Transaction!HandOver

LEMMA DeliveredStep ==
    ASSUME TypeOK, FreshUuid, ReceiveEndDelivered
    PROVE  Transaction!Next
<1>1. session.state = "DATA" /\ session.recipients # <<>> /\ IsOpen(session)
  BY DEF ReceiveEndDelivered, In, TypeOK, SessionOK, IsOpen, EndedOk, EndedErr
<1>2. Transaction!HandOver(Named)
  BY OkHandsOver, HandOverStep DEF ReceiveEndDelivered
<1>3. Named = Transaction!NamedSet /\ Named \in SUBSET Transaction!NamedSet
  BY DEF Named, Transaction!NamedSet
<1>4. CASE session' = Bare("DATACOMPLETE")
  BY <1>1, <1>2, <1>3, <1>4
  DEF Bare, Transaction!Next, Transaction!Accept, In, IsOpen, EndedOk, EndedErr
<1>5. CASE session' = Bare("IOERR")
  BY <1>1, <1>2, <1>3, <1>5
  DEF Bare, Transaction!Next, Transaction!BreakOff, In, IsOpen, EndedOk, EndedErr
<1> QED
  BY <1>4, <1>5 DEF ReceiveEndDelivered, Respond

LEMMA RefusedStep ==
    ASSUME TypeOK, FreshUuid, ReceiveEndRefused
    PROVE  Transaction!Next
<1>1. session.state = "DATA" /\ IsOpen(session) /\ session \in Sessions
  BY DEF ReceiveEndRefused, In, TypeOK, SessionOK, IsOpen, EndedOk, EndedErr
<1>2. PICK R \in SUBSET Transaction!NamedSet : Transaction!HandOver(R)
  BY FailedHandsOver, HandOverStep DEF ReceiveEndRefused, Named, Transaction!NamedSet
<1>3. CASE session' = Rollback
  <2>1. session'.state = "RCPT" /\ session'.recipients = session.recipients
    BY <1>1, <1>3 DEF Rollback, Sessions
  <2> QED
    BY <1>1, <1>2, <2>1
    DEF Transaction!Next, Transaction!Refuse, In, IsOpen, EndedOk, EndedErr
<1>4. CASE session' = Bare("IOERR")
  BY <1>1, <1>2, <1>4
  DEF Bare, Transaction!Next, Transaction!BreakOff, In, IsOpen, EndedOk, EndedErr
<1> QED
  BY <1>3, <1>4 DEF ReceiveEndRefused, Respond

\* 250 after the mail means that every recipient named has it in the mailbox
\* or in the queue, as one mail with an identity of its own; whatever other
\* answer, and whenever the connection breaks, nobody has it who was not
\* named, and the envelope is whole or the connection over.
THEOREM SessionImplementsSubmission == Spec => ImplementsSubmission
<1>1. Init => FreshUuid /\ Transaction!Init
  BY DEF Init, DeliveryInit, FreshUuid, Handed, Queued, Bare, In, EndedOk, EndedErr,
     Transaction!Init
<1>2. TypeOK /\ FreshUuid /\ [Next]_vars => FreshUuid'
  BY FreshStep
<1>3. TypeOK /\ FreshUuid /\ [Next]_vars => [Transaction!Next]_(Transaction!vars)
  <2> SUFFICES ASSUME TypeOK, FreshUuid, [Next]_vars
               PROVE  Transaction!Next \/ UNCHANGED Transaction!vars
    OBVIOUS
  <2>1. CASE Quiet(session') /\ UNCHANGED <<uuid, stored, queue>>
    BY <2>1, QuietStep DEF Handed, Queued
  <2> QED
    BY <2>1, StepsAreQuiet, DeliveredStep, RefusedStep
<1> QED
  BY <1>1, <1>2, <1>3, TypeCorrect, PTL
  DEF Spec, ImplementsSubmission, Transaction!Spec
=============================================================================
