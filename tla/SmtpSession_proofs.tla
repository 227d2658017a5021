------------------------- MODULE SmtpSession_proofs -------------------------
(***************************************************************************)
(* Proofs about SmtpSession, for every set of addresses, logins and        *)
(* domains and every bound.                                                *)
(***************************************************************************)
EXTENDS SmtpSession, SequenceTheorems, TLAPS

-----------------------------------------------------------------------------
(* What the helpers return. *)

\* A session without data is well formed in every state that needs none.
LEMMA BareOK ==
    ASSUME NEW s \in States \ {"HELO", "EHLO", "AUTH", "MAIL", "RCPT", "DATA"}
    PROVE  SessionOK(Bare(s))
BY DEF SessionOK, Bare, Sessions, States, Live, EndedOk, EndedErr, SaslStates

\* Whether the reply gets through or not, the session is well formed after
\* it, and whatever else holds of the intended and of a broken session.
LEMMA RespondOK ==
    ASSUME NEW code \in Codes, NEW next, SessionOK(next), Respond(code, next)
    PROVE  SessionOK(session') /\ reply' \in Codes
<1>1. "IOERR" \in States \ {"HELO", "EHLO", "AUTH", "MAIL", "RCPT", "DATA"}
  BY DEF States, EndedErr
<1>2. SessionOK(Bare("IOERR")) /\ NoReply \in Codes
  BY <1>1, BareOK DEF Codes, ReplyCodes
<1> QED
  BY <1>2 DEF Respond

\* A step that leaves database, mailboxes and queue alone keeps the types if
\* the session and the reply have theirs.
LEMMA UnchangedOK ==
    ASSUME TypeOK, SessionOK(session'), reply' \in Codes,
           UNCHANGED <<users, dbUp, uuid, stored, queue>>
    PROVE  TypeOK'
BY DEF TypeOK, DbTypeOK, DeliveryTypeOK, SessionOK, Sessions

LEMMA AnswerOK ==
    ASSUME TypeOK, NEW code \in Codes, NEW next, SessionOK(next),
           Answer(code, next)
    PROVE  TypeOK'
<1>1. SessionOK(session') /\ reply' \in Codes
  BY RespondOK DEF Answer
<1> QED
  BY <1>1, UnchangedOK DEF Answer, dbVars, deliveryVars

LEMMA RefuseOK ==
    ASSUME TypeOK, NEW code \in Codes, Refuse(code)
    PROVE  TypeOK'
BY AnswerOK DEF Refuse, TypeOK

\* The groups built from remote recipients are sets of addresses.
LEMMA GroupsType ==
    ASSUME NEW R \in SUBSET Addrs
    PROVE  GroupByDomain(R) \in SUBSET SUBSET Addrs
BY DEF GroupByDomain

LEMMA RemoteType ==
    ASSUME NEW rcpts \in Seq(Addrs)
    PROVE  RemoteRecipients(rcpts) \in SUBSET Addrs
BY DEF RemoteRecipients, LocalIndices

LEMMA StoreType ==
    ASSUME stored \subseteq Nat \X Addrs, NEW m \in Nat,
           NEW rcpts \in Seq(Addrs), NEW k, StoreUpTo(m, rcpts, k)
    PROVE  stored' \subseteq Nat \X Addrs
BY DEF StoreUpTo, LocalIndices

LEMMA QueueType ==
    ASSUME queue \in Seq(Entries), NEW m \in Nat, NEW R \in SUBSET Addrs,
           AddToQueue(m, R)
    PROVE  queue' \in Seq(Entries)
<1>1. [mail |-> m, groups |-> GroupByDomain(R)] \in Entries
  BY GroupsType DEF Entries
<1> QED
  BY <1>1 DEF AddToQueue

\* However a delivery ends, mailboxes and queue are well formed after it.
LEMMA DeliverType ==
    ASSUME DeliveryTypeOK, NEW rcpts \in Seq(Addrs),
           \/ DeliverOk(rcpts)
           \/ DeliverNoSuchUser(rcpts)
           \/ DeliverMailboxIO(rcpts)
    PROVE  DeliveryTypeOK'
<1>1. uuid \in Nat /\ uuid' \in 0..MaxMails
  BY MaxMailsAssumption
  DEF DeliveryTypeOK, DeliverOk, DeliverNoSuchUser, DeliverMailboxIO
<1>2. queue' \in Seq(Entries)
  BY <1>1, QueueType, RemoteType
  DEF DeliveryTypeOK, DeliverOk, DeliverNoSuchUser, DeliverMailboxIO
<1>3. stored' \subseteq Nat \X Addrs
  BY <1>1, StoreType
  DEF DeliveryTypeOK, DeliverOk, DeliverNoSuchUser, DeliverMailboxIO
<1> QED
  BY <1>1, <1>2, <1>3 DEF DeliveryTypeOK

-----------------------------------------------------------------------------
(* The sessions the handlers leave are well formed. *)

LEMMA GreetedOK ==
    ASSUME NEW v \in {"HELO", "EHLO"}
    PROVE  SessionOK([Bare(v) EXCEPT !.greeting = v])
<1> DEFINE n == [Bare(v) EXCEPT !.greeting = v]
<1>1. n = [Bare(v) EXCEPT !.greeting = v]
  OBVIOUS
<1> HIDE DEF n
<1>2. n = [state |-> v, greeting |-> v, sasl |-> "none", login |-> NoUser,
           authorized |-> NoUser, sender |-> NoAddr, isLocalSender |-> FALSE,
           recipients |-> <<>>]
  BY <1>1 DEF Bare
<1>3. n \in Sessions
  BY <1>2 DEF Sessions, States, Live, SaslStates
<1>4. SessionOK(n)
  BY <1>2, <1>3 DEF SessionOK
<1> QED
  BY <1>1, <1>4

LEMMA AuthDoneOK ==
    ASSUME SessionOK(session), In({"EHLO", "AUTH"}),
           NEW u \in Logins \cup {NoUser}, NEW n, n = AuthDone(u)
    PROVE  SessionOK(n)
BY DEF SessionOK, AuthDone, Sessions, States, Live, SaslStates, In

\* The exchange is opened, or goes on to the password.
LEMMA SaslOK ==
    ASSUME SessionOK(session), In({"EHLO"}), NEW m \in {"PLAIN", "LOGIN_USER"},
           NEW n, n = [session EXCEPT !.state = "AUTH", !.sasl = m]
    PROVE  SessionOK(n)
BY DEF SessionOK, Sessions, States, Live, SaslStates, In

LEMMA SaslUserOK ==
    ASSUME SessionOK(session), In({"AUTH"}), NEW l \in Logins,
           NEW n, n = [session EXCEPT !.sasl = "LOGIN_PASSWORD", !.login = l]
    PROVE  SessionOK(n)
BY SessionAssumption DEF SessionOK, Sessions, States, SaslStates, In

LEMMA MailFromOK ==
    ASSUME SessionOK(session), In({"HELO", "EHLO"}), NEW a \in Addrs,
           NEW local \in BOOLEAN,
           NEW n, n = [session EXCEPT !.state = "MAIL", !.sender = a,
                                      !.isLocalSender = local]
    PROVE  SessionOK(n)
<1>1. n \in Sessions
  BY DEF SessionOK, Sessions, States, Live
<1>2. /\ n.state = "MAIL" /\ n.sender = a
      /\ n.greeting = session.greeting /\ n.sasl = session.sasl
      /\ n.login = session.login /\ n.authorized = session.authorized
      /\ n.recipients = session.recipients
  BY DEF SessionOK, Sessions
<1>3. a # NoAddr /\ session.recipients = <<>> /\ session.sasl = "none"
  BY AddrAssumption DEF SessionOK, In
<1>4. /\ n.login # NoUser <=> n.sasl = "LOGIN_PASSWORD"
      /\ n.authorized # NoUser => n.greeting = "EHLO"
  BY <1>2 DEF SessionOK
<1> QED
  BY <1>1, <1>2, <1>3, <1>4 DEF SessionOK

LEMMA RecipientOK ==
    ASSUME SessionOK(session), In({"MAIL", "RCPT"}), NEW a \in Addrs,
           NEW n, n = [session EXCEPT !.state = "RCPT",
                           !.recipients = Append(session.recipients, a)]
    PROVE  SessionOK(n)
<1>1. /\ session.recipients \in Seq(Addrs)
      /\ Append(session.recipients, a) \in Seq(Addrs)
      /\ Append(session.recipients, a) # <<>>
  BY AppendProperties DEF SessionOK, Sessions
<1>2. n \in Sessions
  BY <1>1 DEF SessionOK, Sessions, States, Live
<1>3. /\ n.state = "RCPT" /\ n.recipients = Append(session.recipients, a)
      /\ n.greeting = session.greeting /\ n.sasl = session.sasl
      /\ n.login = session.login /\ n.authorized = session.authorized
      /\ n.sender = session.sender
  BY DEF SessionOK, Sessions
<1> QED
  BY <1>1, <1>2, <1>3 DEF SessionOK, In

\* From RCPT to DATA, and back when the delivery failed.
LEMMA ContentOK ==
    ASSUME SessionOK(session), In({"RCPT", "DATA"}), NEW s \in {"RCPT", "DATA"},
           NEW n, n = [session EXCEPT !.state = s]
    PROVE  SessionOK(n)
BY DEF SessionOK, Sessions, States, Live, In

-----------------------------------------------------------------------------
(* Type correctness, one lemma per group of actions. *)

LEMMA HandshakeTypeOK ==
    ASSUME TypeOK, Handshake
    PROVE  TypeOK'
<1>1. CASE Greet
  <2>1. SessionOK(Bare("INIT"))
    BY BareOK DEF States, Live
  <2> QED
    BY <1>1, <2>1, AnswerOK DEF Greet, Codes, ReplyCodes
<1>2. CASE Helo
  BY <1>2, GreetedOK, AnswerOK DEF Helo, Codes, ReplyCodes
<1>3. CASE Ehlo
  BY <1>3, GreetedOK, AnswerOK DEF Ehlo, Codes, ReplyCodes
<1> QED
  BY <1>1, <1>2, <1>3 DEF Handshake

LEMMA AuthTypeOK ==
    ASSUME TypeOK, Auth
    PROVE  TypeOK'
<1> DEFINE U == Logins \cup {NoUser}
<1>1. SessionOK(session) /\ session.authorized \in U
  BY DEF TypeOK, SessionOK, Sessions
<1>2. ASSUME In({"EHLO", "AUTH"}), NEW l \in Logins, NEW p \in BOOLEAN,
             AuthVerdict(l, p)
      PROVE  TypeOK'
  <2>1. l \in U /\ "235" \in Codes /\ "535" \in Codes
    BY DEF Codes, ReplyCodes
  <2>2. SessionOK(AuthDone(l)) /\ SessionOK(AuthDone(session.authorized))
    BY <1>1, <1>2, <2>1, AuthDoneOK
  <2> QED
    BY <1>2, <2>1, <2>2, AnswerOK DEF AuthVerdict
<1>3. CASE AuthBadMechanism
  BY <1>3, RefuseOK DEF AuthBadMechanism, Codes, ReplyCodes
<1>4. CASE AuthPlain
  BY <1>4, <1>2 DEF AuthPlain, In
<1>5. CASE AuthPlainNoCredentials
  <2>1. SessionOK(session') /\ reply' \in Codes
    BY <1>1, <1>5, SaslOK DEF AuthPlainNoCredentials, Codes, ReplyCodes
  <2>2. UNCHANGED <<users, dbUp, uuid, stored, queue>>
    BY <1>5 DEF AuthPlainNoCredentials, dbVars, deliveryVars
  <2> QED
    BY <2>1, <2>2, UnchangedOK
<1>6. CASE AuthLogin
  <2>1. SessionOK([session EXCEPT !.state = "AUTH", !.sasl = "LOGIN_USER"])
    BY <1>1, <1>6, SaslOK DEF AuthLogin
  <2> QED
    BY <1>6, <2>1, AnswerOK DEF AuthLogin, Codes, ReplyCodes
<1>7. CASE AuthStepPlain
  BY <1>7, <1>2 DEF AuthStepPlain, In
<1>8. CASE AuthStepUser
  <2>1. ASSUME NEW l \in Logins
        PROVE  SessionOK([session EXCEPT !.sasl = "LOGIN_PASSWORD", !.login = l])
    BY <1>1, <1>8, SaslUserOK DEF AuthStepUser
  <2> QED
    BY <1>8, <2>1, AnswerOK DEF AuthStepUser, Codes, ReplyCodes
<1>9. CASE AuthStepPassword
  <2>1. session.login \in Logins
    BY <1>1, <1>9 DEF AuthStepPassword, SessionOK, Sessions
  <2> QED
    BY <1>9, <2>1, <1>2 DEF AuthStepPassword, In
<1>10. CASE AuthStepMalformed
  <2>1. SessionOK(AuthDone(session.authorized))
    BY <1>1, <1>10, AuthDoneOK DEF AuthStepMalformed, In
  <2> QED
    BY <1>10, <2>1, AnswerOK DEF AuthStepMalformed, Codes, ReplyCodes
<1> QED
  BY <1>3, <1>4, <1>5, <1>6, <1>7, <1>8, <1>9, <1>10 DEF Auth

LEMMA EnvelopeTypeOK ==
    ASSUME TypeOK, Envelope
    PROVE  TypeOK'
<1>1. SessionOK(session)
  BY DEF TypeOK
<1>2. CASE MailBadSyntax \/ MailBadAddress \/ MailUnauthorized
  BY <1>2, RefuseOK DEF MailBadSyntax, MailBadAddress, MailUnauthorized, Codes, ReplyCodes
<1>3. CASE MailFrom
  <2>1. PICK a \in Addrs :
          Answer("250", [session EXCEPT !.state = "MAIL", !.sender = a,
                                        !.isLocalSender = IsLocalMailbox(a)])
    BY <1>3 DEF MailFrom
  <2>2. IsLocalMailbox(a) \in BOOLEAN
    BY DEF IsLocalMailbox, HasMailboxHome
  <2>3. SessionOK([session EXCEPT !.state = "MAIL", !.sender = a,
                                  !.isLocalSender = IsLocalMailbox(a)])
    BY <1>1, <1>3, <2>2, MailFromOK DEF MailFrom
  <2> QED
    BY <2>1, <2>3, AnswerOK DEF Codes, ReplyCodes
<1>4. CASE RcptBadSyntax \/ RcptBadAddress \/ RcptUnauthorized
  BY <1>1, <1>4, AnswerOK
  DEF RcptBadSyntax, RcptBadAddress, RcptUnauthorized, AfterRcptError, Codes, ReplyCodes
<1>5. CASE Rcpt
  <2>1. PICK a \in Addrs :
          Answer("250", [session EXCEPT !.state = "RCPT",
                            !.recipients = Append(session.recipients, a)])
    BY <1>5 DEF Rcpt
  <2>2. SessionOK([session EXCEPT !.state = "RCPT",
                      !.recipients = Append(session.recipients, a)])
    BY <1>1, <1>5, RecipientOK DEF Rcpt
  <2> QED
    BY <2>1, <2>2, AnswerOK DEF Codes, ReplyCodes
<1> QED
  BY <1>2, <1>3, <1>4, <1>5 DEF Envelope

LEMMA ContentTypeOK ==
    ASSUME TypeOK, Content
    PROVE  TypeOK'
<1>1. SessionOK(session) /\ session.recipients \in Seq(Addrs) /\ DeliveryTypeOK
  BY DEF TypeOK, SessionOK, Sessions
<1>2. CASE Data
  <2>1. SessionOK([session EXCEPT !.state = "DATA"])
    BY <1>1, <1>2, ContentOK DEF Data, In
  <2> QED
    BY <1>2, <2>1, AnswerOK DEF Data, Codes, ReplyCodes
<1>3. CASE ReceiveMore
  <2>1. SessionOK(session') /\ reply' \in Codes
    BY <1>1, <1>3 DEF ReceiveMore, Codes, ReplyCodes
  <2>2. UNCHANGED <<users, dbUp, uuid, stored, queue>>
    BY <1>3 DEF ReceiveMore, dbVars, deliveryVars
  <2> QED
    BY <2>1, <2>2, UnchangedOK
<1>4. CASE ReceiveBadEnd
  BY <1>4, RefuseOK DEF ReceiveBadEnd, Codes, ReplyCodes
<1>5. CASE ReceiveEndDelivered
  <2>1. SessionOK(Bare("DATACOMPLETE"))
    BY BareOK DEF States, Live
  <2>2. SessionOK(session') /\ reply' \in Codes
    BY <1>5, <2>1, RespondOK DEF ReceiveEndDelivered, Codes, ReplyCodes
  <2>3. DeliveryTypeOK'
    BY <1>1, <1>5, DeliverType DEF ReceiveEndDelivered
  <2> QED
    BY <1>5, <2>2, <2>3 DEF ReceiveEndDelivered, TypeOK, DbTypeOK, dbVars, SessionOK, Sessions
<1>6. CASE ReceiveEndRefused
  <2>1. SessionOK(Rollback)
    BY <1>1, <1>6, ContentOK DEF ReceiveEndRefused, Rollback, In
  <2>2. SessionOK(session') /\ reply' \in Codes
    BY <1>6, <2>1, RespondOK DEF ReceiveEndRefused, Codes, ReplyCodes
  <2>3. DeliveryTypeOK'
    BY <1>1, <1>6, DeliverType DEF ReceiveEndRefused
  <2> QED
    BY <1>6, <2>2, <2>3 DEF ReceiveEndRefused, TypeOK, DbTypeOK, dbVars, SessionOK, Sessions
<1> QED
  BY <1>2, <1>3, <1>4, <1>5, <1>6 DEF Content

LEMMA LeaveTypeOK ==
    ASSUME TypeOK, Leave
    PROVE  TypeOK'
<1>1. \A s \in EndedOk \cup EndedErr : SessionOK(Bare(s))
  BY BareOK DEF States, EndedOk, EndedErr
<1>2. CASE Quit \/ PeerCloses
  <2>1. SessionOK(session') /\ reply' \in Codes
    BY <1>1, <1>2 DEF Quit, PeerCloses, EndedOk, EndedErr, Codes, ReplyCodes
  <2>2. UNCHANGED <<users, dbUp, uuid, stored, queue>>
    BY <1>2 DEF Quit, PeerCloses, dbVars, deliveryVars
  <2> QED
    BY <2>1, <2>2, UnchangedOK
<1>3. CASE BadSequence \/ Unrecognized
  BY <1>1, <1>3, AnswerOK DEF BadSequence, Unrecognized, EndedOk, Codes, ReplyCodes
<1> QED
  BY <1>2, <1>3 DEF Leave

LEMMA DbTypeStep ==
    ASSUME TypeOK, DbNext, UNCHANGED <<deliveryVars, sessionVars>>
    PROVE  TypeOK'
<1>1. DbTypeOK'
  BY LoginAssumption DEF TypeOK, DbTypeOK, DbNext, EditUser, DbFlaps
<1> QED
  BY <1>1 DEF TypeOK, DeliveryTypeOK, deliveryVars, sessionVars, SessionOK, Sessions

LEMMA InitTypeOK == Init => TypeOK
<1> SUFFICES ASSUME Init PROVE TypeOK
  OBVIOUS
<1>1. DbTypeOK
  BY LoginAssumption DEF Init, DbInit, DbTypeOK
<1>2. DeliveryTypeOK
  BY MaxMailsAssumption DEF Init, DeliveryInit, DeliveryTypeOK
<1>3. SessionOK(Bare("ACCEPTED"))
  BY BareOK DEF States
<1> QED
  BY <1>1, <1>2, <1>3 DEF Init, TypeOK, Codes, ReplyCodes

LEMMA NextTypeOK == TypeOK /\ [Next]_vars => TypeOK'
<1> SUFFICES ASSUME TypeOK, [Next]_vars PROVE TypeOK'
  OBVIOUS
<1>1. CASE Handle
  BY <1>1, HandshakeTypeOK, AuthTypeOK, EnvelopeTypeOK, ContentTypeOK, LeaveTypeOK
  DEF Handle
<1>2. CASE DbNext /\ UNCHANGED <<deliveryVars, sessionVars>>
  BY <1>2, DbTypeStep
<1>3. CASE UNCHANGED vars
  BY <1>3, UnchangedOK DEF vars, TypeOK
<1> QED
  BY <1>1, <1>2, <1>3 DEF Next

\* Type correctness: in every state of a connection each variable has its
\* type, and the session carries exactly the data of its SmtpState variant.
THEOREM TypeCorrect == Spec => []TypeOK
<1> QED
  BY InitTypeOK, NextTypeOK, PTL DEF Spec

-----------------------------------------------------------------------------
(* The envelope stays permitted. *)

LEMMA NoRemotes == RemoteRecipients(<<>>) = {}
BY DEF RemoteRecipients, LocalIndices

LEMMA BarePermitted ==
    ASSUME NEW s
    PROVE  RelayOK(Bare(s)) /\ SenderOK(Bare(s))
BY NoRemotes DEF Bare, RelayOK, SenderOK

\* What holds of the intended and of a broken session holds after a reply.
LEMMA RespondPermitted ==
    ASSUME NEW code, NEW next, RelayOK(next), SenderOK(next),
           Respond(code, next)
    PROVE  EnvelopePermitted'
BY BarePermitted DEF Respond, EnvelopePermitted

\* A session without an envelope is permitted, whoever is authenticated.
LEMMA NoEnvelopePermitted ==
    ASSUME NEW s, s.recipients = <<>>, s.isLocalSender = FALSE
    PROVE  RelayOK(s) /\ SenderOK(s)
BY NoRemotes DEF RelayOK, SenderOK

\* A session keeps its permissions if it keeps its envelope and its user.
LEMMA SameEnvelopePermitted ==
    ASSUME EnvelopePermitted, NEW s,
           s.recipients = session.recipients, s.authorized = session.authorized,
           s.sender = session.sender, s.isLocalSender = session.isLocalSender,
           s.greeting = session.greeting
    PROVE  RelayOK(s) /\ SenderOK(s)
BY DEF EnvelopePermitted, RelayOK, SenderOK

LEMMA HandshakePermitted ==
    ASSUME Handshake
    PROVE  EnvelopePermitted'
<1>1. \A v : /\ [Bare(v) EXCEPT !.greeting = v].recipients = <<>>
             /\ [Bare(v) EXCEPT !.greeting = v].isLocalSender = FALSE
  BY DEF Bare
<1>2. \A v : /\ RelayOK([Bare(v) EXCEPT !.greeting = v])
             /\ SenderOK([Bare(v) EXCEPT !.greeting = v])
  BY <1>1, NoEnvelopePermitted
<1> QED
  BY <1>2, BarePermitted, RespondPermitted
  DEF Handshake, Greet, Helo, Ehlo, Answer

LEMMA AuthPermitted ==
    ASSUME TypeOK, EnvelopePermitted, Auth
    PROVE  EnvelopePermitted'
<1>1. /\ session \in Sessions
      /\ session.recipients = <<>> /\ session.isLocalSender = FALSE
  <2>1. In({"EHLO", "AUTH"})
    BY DEF Auth, AuthBadMechanism, AuthPlain, AuthPlainNoCredentials, AuthLogin,
           AuthStepPlain, AuthStepUser, AuthStepPassword, AuthStepMalformed, In
  <2> QED
    BY <2>1 DEF TypeOK, SessionOK, Sessions, In
<1>2. ASSUME NEW u
      PROVE  RelayOK(AuthDone(u)) /\ SenderOK(AuthDone(u))
  <2>1. AuthDone(u).recipients = <<>> /\ AuthDone(u).isLocalSender = FALSE
    BY <1>1 DEF AuthDone, Sessions
  <2> QED
    BY <2>1, NoEnvelopePermitted
<1>3. ASSUME NEW l, NEW p, AuthVerdict(l, p)
      PROVE  EnvelopePermitted'
  BY <1>2, <1>3, RespondPermitted DEF AuthVerdict, Answer
<1>4. CASE AuthBadMechanism
  BY <1>4, RespondPermitted DEF AuthBadMechanism, Refuse, Answer, EnvelopePermitted
<1>5. CASE AuthPlain \/ AuthStepPlain \/ AuthStepPassword
  BY <1>3, <1>5 DEF AuthPlain, AuthStepPlain, AuthStepPassword
<1>6. CASE AuthPlainNoCredentials
  <2>1. session'.recipients = <<>> /\ session'.isLocalSender = FALSE
    BY <1>1, <1>6 DEF AuthPlainNoCredentials, Sessions
  <2> QED
    BY <2>1, NoEnvelopePermitted DEF EnvelopePermitted
<1>7. CASE AuthLogin
  <2> DEFINE n == [session EXCEPT !.state = "AUTH", !.sasl = "LOGIN_USER"]
  <2>1. n.recipients = <<>> /\ n.isLocalSender = FALSE
    BY <1>1 DEF Sessions
  <2>2. Respond("334", n)
    BY <1>7 DEF AuthLogin, Answer
  <2> HIDE DEF n
  <2> QED
    BY <2>1, <2>2, NoEnvelopePermitted, RespondPermitted
<1>8. CASE AuthStepUser
  <2> DEFINE n(l) == [session EXCEPT !.sasl = "LOGIN_PASSWORD", !.login = l]
  <2>1. \A l : n(l).recipients = <<>> /\ n(l).isLocalSender = FALSE
    BY <1>1 DEF Sessions
  <2>2. PICK l \in Logins : Respond("334", n(l))
    BY <1>8 DEF AuthStepUser, Answer
  <2> HIDE DEF n
  <2> QED
    BY <2>1, <2>2, NoEnvelopePermitted, RespondPermitted
<1>9. CASE AuthStepMalformed
  BY <1>2, <1>9, RespondPermitted DEF AuthStepMalformed, Answer
<1> QED
  BY <1>4, <1>5, <1>6, <1>7, <1>8, <1>9 DEF Auth

\* A further recipient that is itself permitted.
LEMMA RecipientPermitted ==
    ASSUME TypeOK, EnvelopePermitted, NEW a \in Addrs, MaySendTo(a), NEW n,
           n = [session EXCEPT !.state = "RCPT",
                    !.recipients = Append(session.recipients, a)]
    PROVE  RelayOK(n) /\ SenderOK(n)
<1> DEFINE r == session.recipients
           q == Append(session.recipients, a)
<1>1. r \in Seq(Addrs) /\ session \in Sessions
  BY DEF TypeOK, SessionOK, Sessions
<1>2. /\ n.recipients = q /\ n.authorized = session.authorized
      /\ n.sender = session.sender /\ n.greeting = session.greeting
      /\ n.isLocalSender = session.isLocalSender
  BY <1>1 DEF Sessions
<1>3. SenderOK(n)
  BY <1>2 DEF EnvelopePermitted, SenderOK
<1>4. ASSUME RemoteRecipients(q) # {}, session.authorized = NoUser
      PROVE  FALSE
  <2>1. PICK i \in DOMAIN q : ~IsLocalResponsibility(q[i])
    BY <1>4 DEF RemoteRecipients, LocalIndices
  <2>2. IsLocalResponsibility(a)
    BY <1>4 DEF MaySendTo
  <2>3. i \in DOMAIN r /\ q[i] = r[i]
    BY <1>1, <2>1, <2>2, AppendProperties, LenProperties
  <2>4. r[i] \in RemoteRecipients(r)
    BY <2>1, <2>3 DEF RemoteRecipients, LocalIndices
  <2> QED
    BY <1>4, <2>4 DEF EnvelopePermitted, RelayOK
<1> QED
  BY <1>2, <1>3, <1>4 DEF RelayOK

LEMMA EnvelopeCommandsPermitted ==
    ASSUME TypeOK, EnvelopePermitted, Envelope
    PROVE  EnvelopePermitted'
<1>1. session \in Sessions
  BY DEF TypeOK, SessionOK
<1>2. CASE \/ MailBadSyntax \/ MailBadAddress \/ MailUnauthorized
           \/ RcptBadSyntax \/ RcptBadAddress \/ RcptUnauthorized
  BY <1>2, RespondPermitted
  DEF MailBadSyntax, MailBadAddress, MailUnauthorized, RcptBadSyntax, RcptBadAddress,
      RcptUnauthorized, AfterRcptError, Refuse, Answer, EnvelopePermitted
<1>3. CASE MailFrom
  <2> DEFINE n(a) == [session EXCEPT !.state = "MAIL", !.sender = a,
                                     !.isLocalSender = IsLocalMailbox(a)]
  <2>1. PICK a \in Addrs : MaySendAs(a) /\ Respond("250", n(a))
    BY <1>3 DEF MailFrom, Answer
  <2>2. /\ n(a).recipients = session.recipients /\ n(a).sender = a
        /\ n(a).authorized = session.authorized /\ n(a).greeting = session.greeting
        /\ n(a).isLocalSender = IsLocalMailbox(a)
    BY <1>1 DEF Sessions
  <2> HIDE DEF n
  <2>3. session.greeting = "EHLO" => In({"EHLO"})
    BY <1>3 DEF MailFrom, TypeOK, SessionOK, In
  <2>4. SenderOK(n(a))
    BY <2>1, <2>2, <2>3 DEF SenderOK, MaySendAs
  <2>5. RelayOK(n(a))
    BY <2>2 DEF EnvelopePermitted, RelayOK
  <2> QED
    BY <2>1, <2>4, <2>5, RespondPermitted
<1>4. CASE Rcpt
  <2> DEFINE n(a) == [session EXCEPT !.state = "RCPT",
                          !.recipients = Append(session.recipients, a)]
  <2>1. PICK a \in Addrs : MaySendTo(a) /\ Respond("250", n(a))
    BY <1>4 DEF Rcpt, Answer
  <2>2. RelayOK(n(a)) /\ SenderOK(n(a))
    BY <2>1, RecipientPermitted
  <2> HIDE DEF n
  <2> QED
    BY <2>1, <2>2, RespondPermitted
<1> QED
  BY <1>2, <1>3, <1>4 DEF Envelope

LEMMA ContentPermitted ==
    ASSUME TypeOK, EnvelopePermitted, Content
    PROVE  EnvelopePermitted'
<1> DEFINE n(s) == [session EXCEPT !.state = s]
<1>1. \A s : RelayOK(n(s)) /\ SenderOK(n(s))
  <2>1. session \in Sessions
    BY DEF TypeOK, SessionOK
  <2>2. ASSUME NEW s
        PROVE  /\ n(s).recipients = session.recipients
               /\ n(s).authorized = session.authorized
               /\ n(s).sender = session.sender
               /\ n(s).isLocalSender = session.isLocalSender
               /\ n(s).greeting = session.greeting
    BY <2>1 DEF Sessions
  <2> HIDE DEF n
  <2> QED
    BY <2>2, SameEnvelopePermitted
<1>2. CASE Data
  <2>1. Respond("354", n("DATA"))
    BY <1>2 DEF Data, Answer
  <2> HIDE DEF n
  <2> QED
    BY <1>1, <2>1, RespondPermitted
<1>3. CASE ReceiveMore
  BY <1>3 DEF ReceiveMore, EnvelopePermitted
<1>4. CASE ReceiveBadEnd
  BY <1>4, RespondPermitted DEF ReceiveBadEnd, Refuse, Answer, EnvelopePermitted
<1>5. CASE ReceiveEndDelivered
  BY <1>5, BarePermitted, RespondPermitted DEF ReceiveEndDelivered
<1>6. CASE ReceiveEndRefused
  <2>1. Respond("450", n("RCPT"))
    BY <1>6 DEF ReceiveEndRefused, Rollback
  <2> HIDE DEF n
  <2> QED
    BY <1>1, <2>1, RespondPermitted
<1> QED
  BY <1>2, <1>3, <1>4, <1>5, <1>6 DEF Content

LEMMA LeavePermitted ==
    ASSUME Leave
    PROVE  EnvelopePermitted'
<1>1. CASE Quit \/ PeerCloses
  BY <1>1, BarePermitted DEF Quit, PeerCloses, EnvelopePermitted
<1>2. CASE BadSequence \/ Unrecognized
  BY <1>2, BarePermitted, RespondPermitted DEF BadSequence, Unrecognized, Answer
<1> QED
  BY <1>1, <1>2 DEF Leave

LEMMA NextPermitted ==
    TypeOK /\ EnvelopePermitted /\ [Next]_vars => EnvelopePermitted'
<1> SUFFICES ASSUME TypeOK, EnvelopePermitted, [Next]_vars
             PROVE  EnvelopePermitted'
  OBVIOUS
<1>1. CASE Handle
  BY <1>1, HandshakePermitted, AuthPermitted, EnvelopeCommandsPermitted,
     ContentPermitted, LeavePermitted DEF Handle
<1>2. CASE DbNext /\ UNCHANGED <<deliveryVars, sessionVars>>
  BY <1>2 DEF sessionVars, EnvelopePermitted, RelayOK, SenderOK
<1>3. CASE UNCHANGED vars
  BY <1>3 DEF vars, EnvelopePermitted, RelayOK, SenderOK
<1> QED
  BY <1>1, <1>2, <1>3 DEF Next

\* Every envelope a connection carries is permitted, at any time: its
\* recipients are local or its user known, and its local sender is the user.
THEOREM EnvelopesPermitted == Spec => []EnvelopePermitted
<1>1. Init => EnvelopePermitted
  BY BarePermitted DEF Init, EnvelopePermitted
<1> QED
  BY <1>1, TypeCorrect, NextPermitted, PTL DEF Spec

-----------------------------------------------------------------------------
(* What steps may do to mailboxes and queue. *)

\* Only the end of a mail reaches them.
LEMMA OnlyContentDelivers ==
    ASSUME [Next]_vars
    PROVE  \/ UNCHANGED <<stored, queue>>
           \/ ReceiveEndDelivered
           \/ ReceiveEndRefused
<1>1. CASE Handshake
  BY <1>1 DEF Handshake, Greet, Helo, Ehlo, Answer, deliveryVars
<1>2. CASE Auth
  BY <1>2
  DEF Auth, AuthBadMechanism, AuthPlain, AuthPlainNoCredentials, AuthLogin, AuthStepPlain,
      AuthStepUser, AuthStepPassword, AuthStepMalformed, AuthVerdict, Refuse, Answer,
      deliveryVars
<1>3. CASE Envelope
  BY <1>3
  DEF Envelope, MailBadSyntax, MailBadAddress, MailUnauthorized, MailFrom, RcptBadSyntax,
      RcptBadAddress, RcptUnauthorized, Rcpt, Refuse, Answer, deliveryVars
<1>4. CASE Content
  BY <1>4 DEF Content, Data, ReceiveMore, ReceiveBadEnd, Refuse, Answer, deliveryVars
<1>5. CASE Leave
  BY <1>5 DEF Leave, Quit, BadSequence, Unrecognized, PeerCloses, Answer, deliveryVars
<1>6. CASE UNCHANGED deliveryVars \/ UNCHANGED vars
  BY <1>6 DEF deliveryVars, vars
<1> QED
  BY <1>1, <1>2, <1>3, <1>4, <1>5, <1>6 DEF Next, Handle

LEMMA RelayStep ==
    TypeOK /\ EnvelopePermitted /\ [Next]_vars
        => [Len(queue') > Len(queue) => session.authorized # NoUser]_vars
<1> SUFFICES ASSUME TypeOK, EnvelopePermitted, [Next]_vars, Len(queue') > Len(queue)
             PROVE  session.authorized # NoUser
  OBVIOUS
<1>1. Len(queue) \in Nat
  BY LenProperties DEF TypeOK, DeliveryTypeOK
<1>2. queue' # queue
  BY <1>1
<1>3. AddToQueue(uuid, RemoteRecipients(session.recipients))
  BY <1>2, OnlyContentDelivers
  DEF ReceiveEndDelivered, ReceiveEndRefused, DeliverOk, DeliverNoSuchUser, DeliverMailboxIO
<1>4. RemoteRecipients(session.recipients) # {}
  BY <1>2, <1>3 DEF AddToQueue
<1> QED
  BY <1>4 DEF EnvelopePermitted, RelayOK

\* No open relay: no step of any connection puts a mail into the outgoing
\* queue unless a user is authenticated at that step.
THEOREM RelayNeedsUser == Spec => OnlyUsersRelay
<1> QED
  BY TypeCorrect, EnvelopesPermitted, RelayStep, PTL DEF Spec, OnlyUsersRelay

LEMMA StoreStep ==
    [Next]_vars =>
        [ In({"DATA"}) /\ ~AllHomesFound(session.recipients) => stored' = stored ]_vars
<1> SUFFICES ASSUME [Next]_vars, ~AllHomesFound(session.recipients)
             PROVE  stored' = stored
  OBVIOUS
<1> QED
  BY OnlyContentDelivers
  DEF ReceiveEndDelivered, ReceiveEndRefused, DeliverOk, DeliverNoSuchUser, DeliverMailboxIO

\* A mail one of whose local recipients has no mailbox is stored for nobody.
THEOREM LookupsFirst == Spec => NoSuchUserStoresNothing
<1> QED
  BY StoreStep, PTL DEF Spec, NoSuchUserStoresNothing

-----------------------------------------------------------------------------
(* The envelope is carried along. *)

\* A session with an envelope that has lost nothing of the present one.
Carries(n) ==
    /\ n.state \in {"MAIL", "RCPT", "DATA"}
    /\ n.sender = session.sender
    /\ n.isLocalSender = session.isLocalSender
    /\ n.authorized = session.authorized
    /\ Len(n.recipients) >= Len(session.recipients)
    /\ SubSeq(n.recipients, 1, Len(session.recipients)) = session.recipients

\* A session the connection does not go on with, or only to say goodbye.
Over(n) == n.state \notin Live \ {"DATACOMPLETE"}

LEMMA BrokenIsOver == \A s \in {"DATACOMPLETE"} \cup EndedOk \cup EndedErr : Over(Bare(s))
BY DEF Over, Bare, Live, EndedOk, EndedErr

LEMMA RespondCarries ==
    ASSUME NEW code, NEW next, Carries(next) \/ Over(next), Respond(code, next)
    PROVE  Carries(session') \/ Over(session')
BY BrokenIsOver DEF Respond, EndedErr

\* The same recipients, or one more.
LEMMA SameRecipients ==
    ASSUME NEW r \in Seq(Addrs)
    PROVE  Len(r) >= Len(r) /\ SubSeq(r, 1, Len(r)) = r
BY SubSeqFull, LenProperties

LEMMA OneMoreRecipient ==
    ASSUME NEW r \in Seq(Addrs), NEW a \in Addrs
    PROVE  Len(Append(r, a)) >= Len(r) /\ SubSeq(Append(r, a), 1, Len(r)) = r
<1> DEFINE q == Append(r, a)
           p == SubSeq(q, 1, Len(r))
<1>1. /\ q \in Seq(Addrs) /\ Len(q) = Len(r) + 1 /\ Len(r) \in Nat
      /\ \A i \in 1..Len(r) : q[i] = r[i]
  BY AppendProperties, LenProperties
<1>2. \A i \in 1..Len(r) : q[i] \in Addrs
  BY <1>1, ElementOfSeq
<1> HIDE DEF q
<1>3. /\ p \in Seq(Addrs) /\ Len(p) = Len(r)
      /\ \A i \in 1..Len(r) : p[i] = r[i]
  BY <1>1, <1>2, SubSeqProperties
<1> HIDE DEF p
<1>4. p = r
  BY <1>3, SeqEqual
<1> QED
  BY <1>1, <1>4 DEF p, q

LEMMA MovedCarries ==
    ASSUME TypeOK, NEW s \in {"MAIL", "RCPT", "DATA"},
           NEW n, n = [session EXCEPT !.state = s]
    PROVE  Carries(n)
<1>1. session \in Sessions /\ session.recipients \in Seq(Addrs)
  BY DEF TypeOK, SessionOK, Sessions
<1>2. /\ n.state = s /\ n.sender = session.sender /\ n.recipients = session.recipients
      /\ n.isLocalSender = session.isLocalSender /\ n.authorized = session.authorized
  BY <1>1 DEF Sessions
<1> QED
  BY <1>1, <1>2, SameRecipients DEF Carries

LEMMA StaysCarried ==
    ASSUME TypeOK, In({"MAIL", "RCPT", "DATA"})
    PROVE  Carries(session)
<1>1. session.recipients \in Seq(Addrs)
  BY DEF TypeOK, SessionOK, Sessions
<1> QED
  BY <1>1, SameRecipients DEF Carries, In

LEMMA RecipientCarries ==
    ASSUME TypeOK, NEW a \in Addrs, NEW n,
           n = [session EXCEPT !.state = "RCPT",
                    !.recipients = Append(session.recipients, a)]
    PROVE  Carries(n)
<1>1. session \in Sessions /\ session.recipients \in Seq(Addrs)
  BY DEF TypeOK, SessionOK, Sessions
<1>2. /\ n.state = "RCPT" /\ n.sender = session.sender
      /\ n.recipients = Append(session.recipients, a)
      /\ n.isLocalSender = session.isLocalSender /\ n.authorized = session.authorized
  BY <1>1 DEF Sessions
<1> QED
  BY <1>1, <1>2, OneMoreRecipient DEF Carries

LEMMA CarryStep ==
    ASSUME TypeOK, In({"MAIL", "RCPT", "DATA"}), [Next]_vars
    PROVE  Carries(session') \/ Over(session')
<1>1. Carries(session)
  BY StaysCarried
<1>2. ASSUME NEW code, Refuse(code)
      PROVE  Carries(session') \/ Over(session')
  BY <1>1, <1>2, RespondCarries DEF Refuse, Answer
<1>3. CASE Handshake \/ Auth
  BY <1>3
  DEF Handshake, Greet, Helo, Ehlo, Auth, AuthBadMechanism, AuthPlain, AuthPlainNoCredentials,
      AuthLogin, AuthStepPlain, AuthStepUser, AuthStepPassword, AuthStepMalformed, In
<1>4. CASE MailBadSyntax \/ MailBadAddress \/ MailUnauthorized \/ MailFrom \/ Quit
  BY <1>4 DEF MailBadSyntax, MailBadAddress, MailUnauthorized, MailFrom, Quit, In
<1>5. CASE RcptBadSyntax \/ RcptBadAddress \/ RcptUnauthorized
  BY <1>2, <1>5
  DEF RcptBadSyntax, RcptBadAddress, RcptUnauthorized, AfterRcptError, Refuse
<1>6. CASE Rcpt
  <2> DEFINE n(a) == [session EXCEPT !.state = "RCPT",
                          !.recipients = Append(session.recipients, a)]
  <2>1. PICK a \in Addrs : Respond("250", n(a))
    BY <1>6 DEF Rcpt, Answer
  <2>2. Carries(n(a))
    BY RecipientCarries
  <2> HIDE DEF n
  <2> QED
    BY <2>1, <2>2, RespondCarries
<1>7. CASE Data
  <2> DEFINE n == [session EXCEPT !.state = "DATA"]
  <2>1. Respond("354", n) /\ Carries(n)
    BY <1>7, MovedCarries DEF Data, Answer
  <2> HIDE DEF n
  <2> QED
    BY <2>1, RespondCarries
<1>8. CASE ReceiveMore \/ ReceiveBadEnd
  BY <1>1, <1>2, <1>8 DEF ReceiveMore, ReceiveBadEnd, Carries
<1>9. CASE ReceiveEndDelivered
  BY <1>9, BrokenIsOver, RespondCarries DEF ReceiveEndDelivered
<1>10. CASE ReceiveEndRefused
  <2> DEFINE n == [session EXCEPT !.state = "RCPT"]
  <2>1. Respond("450", n) /\ Carries(n)
    BY <1>10, MovedCarries DEF ReceiveEndRefused, Rollback
  <2> HIDE DEF n
  <2> QED
    BY <2>1, RespondCarries
<1>11. CASE BadSequence \/ Unrecognized
  BY <1>11, BrokenIsOver, RespondCarries DEF BadSequence, Unrecognized, Answer, EndedOk
<1>12. CASE PeerCloses
  BY <1>12, BrokenIsOver DEF PeerCloses, EndedOk, EndedErr
<1>13. CASE UNCHANGED sessionVars \/ UNCHANGED vars
  BY <1>1, <1>13 DEF sessionVars, vars, Carries
<1> QED
  BY <1>3, <1>4, <1>5, <1>6, <1>7, <1>8, <1>9, <1>10, <1>11, <1>12, <1>13
  DEF Next, Handle, Envelope, Content, Leave

\* Until a mail is accepted or the connection ends, no command, refusal or
\* failed delivery loses any part of the envelope.
THEOREM EnvelopesKept == Spec => EnvelopeSurvives
<1>1. TypeOK /\ [Next]_vars =>
        [ In({"MAIL", "RCPT", "DATA"}) /\ session'.state \in Live \ {"DATACOMPLETE"}
            => /\ session'.state \in {"MAIL", "RCPT", "DATA"}
               /\ session'.sender = session.sender
               /\ session'.isLocalSender = session.isLocalSender
               /\ session'.authorized = session.authorized
               /\ Len(session'.recipients) >= Len(session.recipients)
               /\ SubSeq(session'.recipients, 1, Len(session.recipients))
                    = session.recipients ]_vars
  BY CarryStep DEF Carries, Over
<1> QED
  BY <1>1, TypeCorrect, PTL DEF Spec, EnvelopeSurvives

-----------------------------------------------------------------------------
(* The entries of the queue. *)

\* What AddToQueue builds from remote recipients.
LEMMA GroupsWellFormed ==
    ASSUME NEW rcpts, RemoteRecipients(rcpts) # {}
    PROVE  LET G == GroupByDomain(RemoteRecipients(rcpts))
           IN  /\ G # {}
               /\ \A g \in G : /\ g # {}
                               /\ \A a \in g : ~IsLocalResponsibility(a)
                               /\ \A a, b \in g : DomainOf[a] = DomainOf[b]
               /\ \A g, h \in G : g # h => g \cap h = {}
<1> DEFINE R == RemoteRecipients(rcpts)
           D == {DomainOf[a] : a \in R}
           Group(d) == {a \in R : DomainOf[a] = d}
<1>1. GroupByDomain(R) = {Group(d) : d \in D}
  BY DEF GroupByDomain
<1>2. \A a \in R : ~IsLocalResponsibility(a)
  BY DEF RemoteRecipients, LocalIndices
<1>3. D # {} /\ \A d \in D : Group(d) # {}
  OBVIOUS
<1>4. \A d \in D : \A a, b \in Group(d) : DomainOf[a] = DomainOf[b]
  OBVIOUS
<1>5. \A d, e \in D : d # e => Group(d) \cap Group(e) = {}
  OBVIOUS
<1>6. \A d \in D : Group(d) \subseteq R
  OBVIOUS
<1> HIDE DEF R, D, Group
<1> QED
  BY <1>1, <1>2, <1>3, <1>4, <1>5, <1>6 DEF R

LEMMA QueueStep ==
    TypeOK /\ QueueWellFormed /\ [Next]_vars => QueueWellFormed'
<1> SUFFICES ASSUME TypeOK, QueueWellFormed, [Next]_vars
             PROVE  QueueWellFormed'
  OBVIOUS
<1> DEFINE R == RemoteRecipients(session.recipients)
           new == [mail |-> uuid, groups |-> GroupByDomain(R)]
<1>1. CASE queue' = queue
  BY <1>1 DEF QueueWellFormed, IsLocalResponsibility
<1>2. CASE queue' # queue
  <2>1. AddToQueue(uuid, R)
    BY <1>2, OnlyContentDelivers
    DEF ReceiveEndDelivered, ReceiveEndRefused, DeliverOk, DeliverNoSuchUser, DeliverMailboxIO
  <2>2. R # {} /\ queue' = Append(queue, new)
    BY <1>2, <2>1 DEF AddToQueue
  <2>3. queue \in Seq(Entries) /\ new \in Entries
    <3>1. uuid \in Nat /\ session.recipients \in Seq(Addrs)
      BY MaxMailsAssumption DEF TypeOK, DeliveryTypeOK, SessionOK, Sessions
    <3>2. GroupByDomain(R) \in SUBSET SUBSET Addrs
      BY <3>1, GroupsType, RemoteType
    <3> QED
      BY <3>1, <3>2 DEF TypeOK, DeliveryTypeOK, Entries
  <2>4. \A i \in DOMAIN queue' :
          \/ i \in DOMAIN queue /\ queue'[i] = queue[i]
          \/ queue'[i].groups = GroupByDomain(R)
    BY <2>2, <2>3, AppendProperties, LenProperties
  <2> HIDE DEF R, new
  <2>5. ASSUME NEW i \in DOMAIN queue'
        PROVE  /\ queue'[i].groups # {}
               /\ \A g \in queue'[i].groups :
                    /\ g # {}
                    /\ \A a \in g : ~IsLocalResponsibility(a)
                    /\ \A a, b \in g : DomainOf[a] = DomainOf[b]
               /\ \A g, h \in queue'[i].groups : g # h => g \cap h = {}
    <3>1. CASE i \in DOMAIN queue /\ queue'[i] = queue[i]
      BY <3>1 DEF QueueWellFormed
    <3>2. CASE queue'[i].groups = GroupByDomain(R)
      BY <2>2, <3>2, GroupsWellFormed DEF R
    <3> QED
      BY <2>4, <3>1, <3>2
  <2> QED
    BY <2>5 DEF QueueWellFormed, IsLocalResponsibility
<1> QED
  BY <1>1, <1>2

\* What SmtpClient::deliver relies on holds of every entry there ever is: its
\* groups are non-empty, remote, disjoint, and each of a single domain.
THEOREM QueueEntriesWellFormed == Spec => []QueueWellFormed
<1>1. Init => QueueWellFormed
  BY DEF Init, DeliveryInit, QueueWellFormed
<1> QED
  BY <1>1, TypeCorrect, QueueStep, PTL DEF Spec

-----------------------------------------------------------------------------
(* Silence. *)

\* A reply that was written is no silence; a connection that broke is over.
LEMMA AnswerSpeaks ==
    ASSUME NEW code \in ReplyCodes, NEW next, Respond(code, next)
    PROVE  SilenceHasReason'
<1>1. CASE reply' = code
  BY <1>1, NoReplyIsNoCode DEF SilenceHasReason
<1>2. CASE session' = Bare("IOERR")
  BY <1>2 DEF SilenceHasReason, In, Live, Bare
<1> QED
  BY <1>1, <1>2 DEF Respond

LEMMA HandshakeSpeaks ==
    ASSUME Handshake
    PROVE  SilenceHasReason'
  BY AnswerSpeaks DEF Handshake, Greet, Helo, Ehlo, Answer, ReplyCodes

LEMMA AuthSpeaks ==
    ASSUME TypeOK, Auth
    PROVE  SilenceHasReason'
<1>1. CASE AuthPlainNoCredentials
  <2>1. session \in Sessions
    BY DEF TypeOK, SessionOK
  <2>2. session'.sasl = "PLAIN"
    BY <1>1, <2>1 DEF AuthPlainNoCredentials, Sessions
  <2> QED
    BY <2>2 DEF SilenceHasReason
<1>2. ASSUME NEW l, NEW password, AuthVerdict(l, password)
      PROVE  SilenceHasReason'
  BY <1>2, AnswerSpeaks DEF AuthVerdict, Answer, ReplyCodes
<1>3. CASE \/ AuthBadMechanism \/ AuthLogin \/ AuthStepUser \/ AuthStepMalformed
  BY <1>3, AnswerSpeaks DEF AuthBadMechanism, AuthLogin, AuthStepUser,
     AuthStepMalformed, Refuse, Answer, ReplyCodes
<1>4. CASE AuthPlain \/ AuthStepPlain \/ AuthStepPassword
  BY <1>2, <1>4 DEF AuthPlain, AuthStepPlain, AuthStepPassword
<1> QED
  BY <1>1, <1>3, <1>4 DEF Auth

LEMMA EnvelopeSpeaks ==
    ASSUME Envelope
    PROVE  SilenceHasReason'
  BY AnswerSpeaks DEF Envelope, MailBadSyntax, MailBadAddress, MailUnauthorized,
     MailFrom, RcptBadSyntax, RcptBadAddress, RcptUnauthorized, Rcpt, Refuse,
     Answer, ReplyCodes

LEMMA ContentSpeaks ==
    ASSUME Content
    PROVE  SilenceHasReason'
<1>1. CASE ReceiveMore
  BY <1>1 DEF ReceiveMore, SilenceHasReason, In
<1>2. CASE Data \/ ReceiveBadEnd \/ ReceiveEndDelivered \/ ReceiveEndRefused
  BY <1>2, AnswerSpeaks DEF Data, ReceiveBadEnd, ReceiveEndDelivered,
     ReceiveEndRefused, Refuse, Answer, ReplyCodes
<1> QED
  BY <1>1, <1>2 DEF Content

LEMMA LeaveSpeaks ==
    ASSUME Leave
    PROVE  SilenceHasReason'
<1>1. CASE Quit \/ PeerCloses
  BY <1>1 DEF Quit, PeerCloses, SilenceHasReason, In, Live, Bare
<1>2. CASE BadSequence \/ Unrecognized
  BY <1>2, AnswerSpeaks DEF BadSequence, Unrecognized, Answer, ReplyCodes
<1> QED
  BY <1>1, <1>2 DEF Leave

LEMMA SpeakStep ==
    TypeOK /\ SilenceHasReason /\ [Next]_vars => SilenceHasReason'
<1> SUFFICES ASSUME TypeOK, SilenceHasReason, [Next]_vars
             PROVE  SilenceHasReason'
  OBVIOUS
<1>1. CASE Handle
  BY <1>1, HandshakeSpeaks, AuthSpeaks, EnvelopeSpeaks, ContentSpeaks,
     LeaveSpeaks DEF Handle
<1>2. CASE DbNext /\ UNCHANGED <<deliveryVars, sessionVars>>
  BY <1>2 DEF sessionVars, SilenceHasReason, In
<1>3. CASE UNCHANGED vars
  BY <1>3 DEF vars, SilenceHasReason, In
<1> QED
  BY <1>1, <1>2, <1>3 DEF Next

\* A client that is still connected waits in vain for a reply only where it
\* sends the mail or was handed the empty challenge of AUTH PLAIN; a handler
\* that cannot write ends the connection.
THEOREM SilenceExplained == Spec => []SilenceHasReason
<1>1. Init => SilenceHasReason
  BY DEF Init, SilenceHasReason, In, Live, Bare
<1> QED
  BY <1>1, SpeakStep, TypeCorrect, PTL DEF Spec
=============================================================================
