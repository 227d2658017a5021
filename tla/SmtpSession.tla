---------------------------- MODULE SmtpSession ----------------------------
(***************************************************************************)
(* One connection as SmtpServer::handle (smtp/server.rs) and               *)
(* ConnectionHandler::socket_loop (net.rs) see it: the protocol state      *)
(* machine, the SASL exchange it embeds (auth.rs), the envelope it         *)
(* collects, the delivery it triggers and the reply it writes.             *)
(*                                                                         *)
(* Every handler is one action.  A handler writes at most one reply; the   *)
(* write can fail, which ends the connection with an error, but not what   *)
(* the handler did to the mailboxes and the queue before it.               *)
(***************************************************************************)
EXTENDS Delivery

CONSTANTS NoUser,        \* "not authenticated"
          NoReply,       \* the handler wrote nothing
          MaxRecipients  \* bound: recipients of one envelope

ASSUME SessionAssumption ==
    /\ NoUser \notin Logins
    /\ MaxRecipients \in Nat

VARIABLES session,  \* the SmtpState and the data its variant carries
          reply     \* what the last handler wrote

sessionVars == <<session, reply>>
vars == <<users, dbUp, uuid, stored, queue, session, reply>>

-----------------------------------------------------------------------------
\* The words Command::new recognises as a verb.  Two of them name internal
\* states and are commands nowhere.
CommandVerbs == {"INIT", "HELO", "EHLO", "MAIL", "RCPT", "DATA",
                 "DATAINPUT", "QUIT", "AUTH"}

\* The verbs handle() has an arm for in each state.  In AUTH and DATA every
\* line goes to the state's own handler, whatever its first word.
Accepts ==
    [INIT |-> {"HELO", "EHLO"}, HELO |-> {"MAIL"}, EHLO |-> {"AUTH", "MAIL"},
     MAIL |-> {"RCPT"}, RCPT |-> {"RCPT", "DATA"}, DATACOMPLETE |-> {"QUIT"}]

\* The states in which socket_loop reads on.
Live == {"INIT", "HELO", "EHLO", "AUTH", "MAIL", "RCPT", "DATA", "DATACOMPLETE"}

\* socket_loop returned Ok (the peer closed, or StateKind::Quit) or Err.
EndedOk  == {"EOF", "QUIT", "CANCELLED"}
EndedErr == {"IOERR"}

\* ACCEPTED: the socket is there, the greeting is not yet written.
States == {"ACCEPTED"} \cup Live \cup EndedOk \cup EndedErr

\* What the SASL session waits for (AuthState).
SaslStates == {"none", "PLAIN", "LOGIN_USER", "LOGIN_PASSWORD"}

ReplyCodes == {"220", "221", "235", "250", "334", "354", "450", "500", "503",
               "530", "535"}

ASSUME NoReplyIsNoCode == NoReply \notin ReplyCodes

Codes == ReplyCodes \cup {NoReply}

Sessions ==
    [state : States,
     greeting : {"none", "HELO", "EHLO"},  \* history: the verb it greeted with
     sasl : SaslStates,
     login : Logins \cup {NoUser},       \* user name given to LOGIN so far
     authorized : Logins \cup {NoUser},  \* User.identity
     sender : Addrs \cup {NoAddr},
     isLocalSender : BOOLEAN,
     recipients : Seq(Addrs)]

\* A session in state s that carries no data.
Bare(s) ==
    [state |-> s, greeting |-> "none", sasl |-> "none", login |-> NoUser,
     authorized |-> NoUser, sender |-> NoAddr, isLocalSender |-> FALSE,
     recipients |-> <<>>]

\* Each SmtpState variant carries its own fields and no others: an envelope
\* exists exactly from MAIL to DATA, a SASL exchange exactly in AUTH, and an
\* identity only in a session that said EHLO.
SessionOK(s) ==
    /\ s \in Sessions
    /\ s.sasl # "none" <=> s.state = "AUTH"
    /\ s.login # NoUser <=> s.sasl = "LOGIN_PASSWORD"
    /\ s.authorized # NoUser => s.greeting = "EHLO"
    /\ s.authorized # NoUser => s.state \in {"EHLO", "AUTH", "MAIL", "RCPT", "DATA"}
    /\ s.state \in {"EHLO", "AUTH"} => s.greeting = "EHLO"
    /\ s.state = "HELO" => s.greeting = "HELO"
    /\ s.isLocalSender => s.state \in {"MAIL", "RCPT", "DATA"}
    /\ s.sender # NoAddr <=> s.state \in {"MAIL", "RCPT", "DATA"}
    /\ s.recipients # <<>> <=> s.state \in {"RCPT", "DATA"}

\* The types of all variables, and the data a session carries in each state.
TypeOK ==
    /\ DbTypeOK
    /\ DeliveryTypeOK
    /\ SessionOK(session)
    /\ reply \in Codes

Init ==
    /\ DbInit
    /\ DeliveryInit
    /\ session = Bare("ACCEPTED")
    /\ reply = NoReply

-----------------------------------------------------------------------------
\* writer.send(code).await? and then the state `next'; or the write fails,
\* the `?' drops the server and socket_loop returns the error.
Respond(code, next) ==
    \/ reply' = code /\ session' = next
    \/ reply' = NoReply /\ session' = Bare("IOERR")

\* The same for a handler that touches neither mailboxes nor queue.
Answer(code, next) ==
    /\ Respond(code, next)
    /\ UNCHANGED <<dbVars, deliveryVars>>

\* A handler that only writes a refusal and keeps the state it was in.
Refuse(code) == Answer(code, session)

In(S) == session.state \in S

-----------------------------------------------------------------------------
Greet ==
    /\ In({"ACCEPTED"})
    /\ Answer("220", Bare("INIT"))

Helo ==
    /\ In({"INIT"})
    /\ Answer("250", [Bare("HELO") EXCEPT !.greeting = "HELO"])

Ehlo ==
    /\ In({"INIT"})
    /\ Answer("250", [Bare("EHLO") EXCEPT !.greeting = "EHLO"])

-----------------------------------------------------------------------------
\* SASL.  The mechanisms themselves (rsasl) are outside the repository;
\* these are the steps Auth::new, Auth::step and the callback drive.

\* Mutated: a successful exchange forgets to close the SASL session.
AuthDoneKeepingSasl(authorized) ==
    [session EXCEPT !.state = "EHLO", !.authorized = authorized]

\* The exchange is over and the session is back in EHLO, as a new user when
\* it succeeded, as whoever it was before when it did not.
AuthDone(authorized) ==
    [session EXCEPT !.state = "EHLO", !.sasl = "none", !.login = NoUser,
                    !.authorized = authorized]

\* AuthResult::Authorized and AuthResult::BadCredentials.
AuthVerdict(l, password) ==
    IF password /\ Authenticate(l)
    THEN Answer("235", AuthDone(l))
    ELSE Answer("535", AuthDone(session.authorized))

\* AUTH without a mechanism, or with one that is not offered.
AuthBadMechanism ==
    /\ In({"EHLO"})
    /\ Refuse("535")

\* AUTH PLAIN <credentials>: decided at once.
AuthPlain ==
    /\ In({"EHLO"})
    /\ \E l \in Logins, password \in BOOLEAN : AuthVerdict(l, password)

\* AUTH PLAIN alone: the SASL session is unfinished, its write buffer is
\* empty, and nothing is written.
AuthPlainNoCredentials ==
    /\ In({"EHLO"})
    /\ session' = [session EXCEPT !.state = "AUTH", !.sasl = "PLAIN"]
    /\ reply' = NoReply
    /\ UNCHANGED <<dbVars, deliveryVars>>

\* Mutated: the challenge stays in the write buffer.
AuthLoginUnflushed ==
    /\ In({"EHLO"})
    /\ session' = [session EXCEPT !.state = "AUTH", !.sasl = "LOGIN_USER"]
    /\ reply' = NoReply
    /\ UNCHANGED <<dbVars, deliveryVars>>

\* AUTH LOGIN: an initial response is ignored, the user name asked for.
AuthLogin ==
    /\ In({"EHLO"})
    /\ Answer("334", [session EXCEPT !.state = "AUTH", !.sasl = "LOGIN_USER"])

AuthStepPlain ==
    /\ In({"AUTH"})
    /\ session.sasl = "PLAIN"
    /\ \E l \in Logins, password \in BOOLEAN : AuthVerdict(l, password)

AuthStepUser ==
    /\ In({"AUTH"})
    /\ session.sasl = "LOGIN_USER"
    /\ \E l \in Logins :
         Answer("334", [session EXCEPT !.sasl = "LOGIN_PASSWORD", !.login = l])

AuthStepPassword ==
    /\ In({"AUTH"})
    /\ session.sasl = "LOGIN_PASSWORD"
    /\ \E password \in BOOLEAN : AuthVerdict(session.login, password)

\* A line the mechanism cannot decode ends the exchange.
AuthStepMalformed ==
    /\ In({"AUTH"})
    /\ Answer("535", AuthDone(session.authorized))

-----------------------------------------------------------------------------
\* Mutated: any authenticated user may use any local sender.
MaySendAsSomebody(a) ==
    In({"EHLO"}) /\ IsLocalMailbox(a) => session.authorized # NoUser

\* MailFromState::has_permission; only a session greeted by EHLO is asked.
MaySendAs(a) ==
    In({"EHLO"}) /\ IsLocalMailbox(a) => session.authorized = a

MailBadSyntax ==
    /\ In({"HELO", "EHLO"})
    /\ Refuse("500")

MailBadAddress ==
    /\ In({"HELO", "EHLO"})
    /\ Refuse("450")

MailUnauthorized ==
    /\ In({"HELO", "EHLO"})
    /\ \E a \in Addrs : ~MaySendAs(a)
    /\ Refuse("530")

\* The locality of the sender is looked up once and kept from here on.
MailFrom ==
    /\ In({"HELO", "EHLO"})
    /\ \E a \in Addrs :
         /\ MaySendAs(a)
         /\ Answer("250", [session EXCEPT !.state = "MAIL", !.sender = a,
                                          !.isLocalSender = IsLocalMailbox(a)])

-----------------------------------------------------------------------------
\* Mutated: what MAIL allowed need not be asked again.
MaySendToAsLocalSender(a) ==
    IsLocalResponsibility(a) \/ session.isLocalSender

\* RcptState::has_permission.
MaySendTo(a) ==
    IsLocalResponsibility(a) \/ session.authorized # NoUser

\* The session a refused RCPT leaves: RcptState::new has already taken the
\* authorized user out of the MailFromState and puts it back.
AfterRcptError == session

RcptBadSyntax ==
    /\ In({"MAIL", "RCPT"})
    /\ Answer("500", AfterRcptError)

RcptBadAddress ==
    /\ In({"MAIL", "RCPT"})
    /\ Answer("450", AfterRcptError)

RcptUnauthorized ==
    /\ In({"MAIL", "RCPT"})
    /\ \E a \in Addrs : ~MaySendTo(a)
    /\ Answer("530", AfterRcptError)

Rcpt ==
    /\ In({"MAIL", "RCPT"})
    /\ Len(session.recipients) < MaxRecipients
    /\ \E a \in Addrs :
         /\ MaySendTo(a)
         /\ Answer("250", [session EXCEPT !.state = "RCPT",
                              !.recipients = Append(session.recipients, a)])

-----------------------------------------------------------------------------
Data ==
    /\ In({"RCPT"})
    /\ Answer("354", [session EXCEPT !.state = "DATA"])

\* A read without a mail end is appended to the body; nothing is written.
ReceiveMore ==
    /\ In({"DATA"})
    /\ reply' = NoReply
    /\ UNCHANGED <<dbVars, deliveryVars, session>>

\* A read with a mail end, but decode_transparency rejects the body: it is
\* thrown away and the session goes on collecting.
ReceiveBadEnd ==
    /\ In({"DATA"})
    /\ Refuse("500")

\* A read that completes the mail, and the mail could be delivered.
ReceiveEndDelivered ==
    /\ In({"DATA"})
    /\ DeliverOk(session.recipients)
    /\ Respond("250", Bare("DATACOMPLETE"))
    /\ UNCHANGED dbVars

\* Mutated: the user is not handed back with the envelope.
RollbackWithoutUser ==
    [session EXCEPT !.state = "RCPT", !.authorized = NoUser]

\* RcptState::from: after a failed delivery the envelope is back.
Rollback == [session EXCEPT !.state = "RCPT"]

ReceiveEndRefused ==
    /\ In({"DATA"})
    /\ \/ DeliverNoSuchUser(session.recipients)
       \/ DeliverMailboxIO(session.recipients)
    /\ Respond("450", Rollback)
    /\ UNCHANGED dbVars

-----------------------------------------------------------------------------
\* The result of writing 221 is ignored.
Quit ==
    /\ In({"DATACOMPLETE"})
    /\ session' = Bare("QUIT")
    /\ reply' \in {"221", NoReply}
    /\ UNCHANGED <<dbVars, deliveryVars>>

BadSequence ==
    /\ In(DOMAIN Accepts)
    /\ CommandVerbs \ Accepts[session.state] # {}
    /\ Answer("503", Bare("CANCELLED"))

Unrecognized ==
    /\ In(DOMAIN Accepts)
    /\ Answer("500", Bare("CANCELLED"))

\* read_into returned 0, or failed.
PeerCloses ==
    /\ In(Live)
    /\ session' \in {Bare("EOF"), Bare("IOERR")}
    /\ reply' = NoReply
    /\ UNCHANGED <<dbVars, deliveryVars>>

-----------------------------------------------------------------------------
Handshake == Greet \/ Helo \/ Ehlo

Auth ==
    \/ AuthBadMechanism \/ AuthPlain \/ AuthPlainNoCredentials \/ AuthLogin
    \/ AuthStepPlain \/ AuthStepUser \/ AuthStepPassword \/ AuthStepMalformed

Envelope ==
    \/ MailBadSyntax \/ MailBadAddress \/ MailUnauthorized \/ MailFrom
    \/ RcptBadSyntax \/ RcptBadAddress \/ RcptUnauthorized \/ Rcpt

Content ==
    \/ Data \/ ReceiveMore \/ ReceiveBadEnd
    \/ ReceiveEndDelivered \/ ReceiveEndRefused

Leave == Quit \/ BadSequence \/ Unrecognized \/ PeerCloses

\* A step of the connection; the database can change between any two.
Handle == Handshake \/ Auth \/ Envelope \/ Content \/ Leave

Next ==
    \/ Handle
    \/ DbNext /\ UNCHANGED <<deliveryVars, sessionVars>>

Spec == Init /\ [][Next]_vars

-----------------------------------------------------------------------------
\* What holds of an envelope from the first recipient to the last rollback:
\* a recipient this server is not responsible for is in it only while
\* somebody is authenticated ...
RelayOK(s) ==
    RemoteRecipients(s.recipients) # {} => s.authorized # NoUser

\* ... and in a session greeted with EHLO, a sender that was a local mailbox
\* when MAIL named it is the authenticated user's own address.
SenderOK(s) ==
    s.greeting = "EHLO" /\ s.isLocalSender => s.authorized = s.sender

\* The permissions has_permission gave to MAIL and to each RCPT
\* (server.rs:407-421, 486-499) still hold of the envelope and the user
\* that refused commands, DATA and failed deliveries carry along.
EnvelopePermitted == RelayOK(session) /\ SenderOK(session)

\* No open relay: the outgoing queue grows only on behalf of an
\* authenticated user, though the permission was checked several commands
\* before DataState::deliver_mail queues the mail.
OnlyUsersRelay ==
    [][Len(queue') > Len(queue) => session.authorized # NoUser]_vars

\* Until the mail is accepted or the connection ends, no command loses any
\* part of the envelope: recipients are only ever added, the sender and the
\* user stay, through every refusal and failed delivery (RcptState::new
\* hands the user back, RcptState::from the envelope).
EnvelopeSurvives ==
    [][ In({"MAIL", "RCPT", "DATA"}) /\ session'.state \in Live \ {"DATACOMPLETE"}
        => /\ session'.state \in {"MAIL", "RCPT", "DATA"}
           /\ session'.sender = session.sender
           /\ session'.isLocalSender = session.isLocalSender
           /\ session'.authorized = session.authorized
           /\ Len(session'.recipients) >= Len(session.recipients)
           /\ SubSeq(session'.recipients, 1, Len(session.recipients))
                = session.recipients ]_vars

\* A mail with a local recipient that has no mailbox reaches nobody's mailbox:
\* deliver_local_mail looks up every home before it writes a file.
NoSuchUserStoresNothing ==
    [][ In({"DATA"}) /\ ~AllHomesFound(session.recipients)
        => stored' = stored ]_vars

\* The client is left without an answer only while it sends the mail, and
\* after AUTH PLAIN without credentials.
SilenceHasReason ==
    In(Live) /\ reply = NoReply => In({"DATA"}) \/ session.sasl = "PLAIN"

\* The connection implements what Submission promises: 250 after the mail
\* means that every recipient named has it in the mailbox or in the queue,
\* as one mail, and that nothing more can be handed over.
Transaction ==
    INSTANCE Submission WITH
        Mails <- 0..MaxMails,
        phase <- CASE In({"DATACOMPLETE"}) -> "accepted"
                   [] In(EndedOk \cup EndedErr) -> "closed"
                   [] OTHER -> "open",
        named <- session.recipients,
        handed <- Handed

ImplementsSubmission == Transaction!Spec

\* What the reply "450 Requested mail action not taken" claims
\* (server.rs:22), of the half of the mail that is to be relayed: it is not in
\* the queue, which nobody would ever take it out of but fire.
NotTaken ==
    [][ In({"DATA"}) /\ reply' = "450" => UNCHANGED queue ]_vars

\* What the disabled test of tests_auth.rs:54-70 expects: the client that has to go on
\* with a SASL exchange has been told so.
ChallengeOutstanding == In({"AUTH"}) => reply = "334"
=============================================================================
