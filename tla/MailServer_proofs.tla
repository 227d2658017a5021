-------------------------- MODULE MailServer_proofs --------------------------
(***************************************************************************)
(* Proofs about MailServer, for every set of addresses, logins and domains *)
(* and every bound: its types, that no mail accepted over a connection     *)
(* that ended well is left in the queue, and that the queue implements     *)
(* Relay.                                                                  *)
(***************************************************************************)
EXTENDS MailServer, Submission_proofs

\* The states of a connection that has accepted a mail.
Done == {"DATACOMPLETE"} \cup EndedOk \cup EndedErr

\* Every mail in the queue is older than the next one, and is there once.
QueueInv ==
    /\ \A i \in DOMAIN queue : queue[i].mail < uuid
    /\ \A i, j \in DOMAIN queue : i # j => queue[i].mail # queue[j].mail

\* So is the mail fire() has popped, which is not in the queue any more.
JobInv ==
    job # NoJob =>
        /\ job.mail < uuid
        /\ \A i \in DOMAIN queue : queue[i].mail # job.mail

HistoryInv == \A p \in attempted \cup lost : p[1] < uuid

\* A mail this connection had accepted can only be in the newest entry; one
\* that is settled is in none.
SettledInv ==
    /\ settled \cup accepted \subseteq 0 .. (uuid - 1)
    /\ \A i \in DOMAIN queue :
         /\ queue[i].mail \notin settled
         /\ queue[i].mail \in accepted => i = Len(queue)
    /\ accepted # {} => phase = "serving" /\ In(Done)

ServerInv ==
    ServerTypeOK /\ QueueInv /\ JobInv /\ HistoryInv /\ SettledInv

-----------------------------------------------------------------------------
(* What a step of a connection does to the queue. *)

\* Outside the end of DATA no handler touches the queue or uses an identity.
LEMMA HandleQueue ==
    ASSUME Handle
    PROVE  \/ UNCHANGED <<uuid, queue>>
           \/ /\ In({"DATA"})
              /\ uuid < MaxMails
              /\ uuid' = uuid + 1
              /\ AddToQueue(uuid, RemoteRecipients(session.recipients))
<1>1. CASE ReceiveEndDelivered
  BY <1>1 DEF ReceiveEndDelivered, DeliverOk
<1>2. CASE ReceiveEndRefused
  BY <1>2 DEF ReceiveEndRefused, DeliverNoSuchUser, DeliverMailboxIO
<1>3. CASE Handshake
  BY <1>3 DEF Handshake, Greet, Helo, Ehlo, Answer, deliveryVars
<1>4. CASE Auth
  BY <1>4 DEF Auth, AuthBadMechanism, AuthPlain, AuthPlainNoCredentials, AuthLogin,
       AuthStepPlain, AuthStepUser, AuthStepPassword, AuthStepMalformed,
       AuthVerdict, Refuse, Answer, deliveryVars
<1>5. CASE Envelope
  BY <1>5 DEF Envelope, MailBadSyntax, MailBadAddress, MailUnauthorized, MailFrom,
       RcptBadSyntax, RcptBadAddress, RcptUnauthorized, Rcpt, Refuse, Answer, deliveryVars
<1>6. CASE Data \/ ReceiveMore \/ ReceiveBadEnd
  BY <1>6 DEF Data, ReceiveMore, ReceiveBadEnd, Refuse, Answer, deliveryVars
<1>7. CASE Leave
  BY <1>7 DEF Leave, Quit, BadSequence, Unrecognized, PeerCloses, Answer, deliveryVars
<1> QED
  BY <1>1, <1>2, <1>3, <1>4, <1>5, <1>6, <1>7 DEF Handle, Content

\* A connection that has accepted a mail, or has ended, accepts no other.
LEMMA DoneStaysDone ==
    ASSUME Handle, In(Done)
    PROVE  UNCHANGED <<uuid, queue>> /\ In(Done)'
<1>1. ~(Handshake \/ Auth \/ Envelope \/ Content)
  BY DEF In, Done, EndedOk, EndedErr, Handshake, Greet, Helo, Ehlo,
       Auth, AuthBadMechanism, AuthPlain, AuthPlainNoCredentials, AuthLogin,
       AuthStepPlain, AuthStepUser, AuthStepPassword, AuthStepMalformed,
       Envelope, MailBadSyntax, MailBadAddress, MailUnauthorized, MailFrom,
       RcptBadSyntax, RcptBadAddress, RcptUnauthorized, Rcpt,
       Content, Data, ReceiveMore, ReceiveBadEnd, ReceiveEndDelivered, ReceiveEndRefused
<1>2. Leave
  BY <1>1 DEF Handle
<1>3. UNCHANGED <<uuid, queue>>
  BY <1>2 DEF Leave, Quit, BadSequence, Unrecognized, PeerCloses, Answer, deliveryVars
<1>4. \A s \in EndedOk \cup EndedErr : Bare(s).state \in Done
  BY DEF Bare, Done
<1>5. session' \in {Bare(s) : s \in EndedOk \cup EndedErr}
  BY <1>2 DEF Leave, Quit, BadSequence, Unrecognized, PeerCloses, Answer, Respond,
       EndedOk, EndedErr
<1> QED
  BY <1>3, <1>4, <1>5 DEF In

\* The queue keeps its entries and gets at most one, for the newest mail.
LEMMA AddedEntry ==
    ASSUME TypeOK, AddToQueue(uuid, RemoteRecipients(session.recipients))
    PROVE  \/ queue' = queue
           \/ /\ Len(queue') = Len(queue) + 1
              /\ DOMAIN queue = 1 .. Len(queue)
              /\ DOMAIN queue' = 1 .. Len(queue')
              /\ \A i \in DOMAIN queue : queue'[i] = queue[i]
              /\ queue'[Len(queue')].mail = uuid
              /\ queue'[Len(queue')].groups
                   = GroupByDomain(RemoteRecipients(session.recipients))
<1> DEFINE G == GroupByDomain(RemoteRecipients(session.recipients))
           e == [mail |-> uuid, groups |-> G]
<1>1. G \in SUBSET SUBSET Addrs /\ uuid \in Nat /\ queue \in Seq(Entries)
  BY GroupsType, RemoteType, MaxMailsAssumption
  DEF TypeOK, SessionOK, Sessions, DeliveryTypeOK
<1>2. e \in Entries
  BY <1>1 DEF Entries
<1>3. queue' = queue \/ queue' = Append(queue, e)
  BY DEF AddToQueue
<1>4. e.mail = uuid /\ e.groups = G
  OBVIOUS
<1> HIDE DEF G, e
<1>5. CASE queue' = Append(queue, e)
  BY <1>1, <1>2, <1>4, <1>5, AppendProperties, LenProperties DEF G
<1> QED
  BY <1>3, <1>5

-----------------------------------------------------------------------------
(* The types. *)

LEMMA ServerInitInv == ServerInit => ServerInv
<1> SUFFICES ASSUME ServerInit PROVE ServerInv
  OBVIOUS
<1>1. SessionOK(Bare("EOF"))
  BY BareOK DEF States, EndedOk
<1>2. Bare("EOF").state = "EOF"
  BY DEF Bare
<1>3. TypeOK
  BY <1>1, MaxMailsAssumption
  DEF ServerInit, TypeOK, DbInit, DbTypeOK, DeliveryInit, DeliveryTypeOK, Codes, ReplyCodes, Entries
<1>4. ServerTypeOK
  BY <1>2, <1>3 DEF ServerInit, FireInit, ServerTypeOK, FireTypeOK, In, EndedOk
<1>5. uuid = 0 /\ queue = <<>> /\ job = NoJob /\ attempted = {} /\ lost = {}
      /\ settled = {} /\ accepted = {}
  BY DEF ServerInit, DeliveryInit, FireInit
<1> QED
  BY <1>4, <1>5 DEF ServerInv, QueueInv, JobInv, HistoryInv, SettledInv

\* The newest entry leaves, the others stay.
LEMMA PoppedEntry ==
    ASSUME TypeOK, queue # <<>>, Pop
    PROVE  /\ Len(queue) \in Nat \ {0}
           /\ DOMAIN queue = 1 .. Len(queue)
           /\ queue' \in Seq(Entries)
           /\ DOMAIN queue' = 1 .. (Len(queue) - 1)
           /\ \A i \in DOMAIN queue' : queue'[i] = queue[i]
           /\ job' = queue[Len(queue)]
           /\ job' \in Entries
<1>1. queue \in Seq(Entries)
  BY DEF TypeOK, DeliveryTypeOK
<1>2. Len(queue) \in Nat \ {0} /\ DOMAIN queue = 1 .. Len(queue)
  BY <1>1, EmptySeq, LenProperties
<1>3. job' = queue[Len(queue)] /\ queue[Len(queue)] \in Entries
  BY <1>1, <1>2, ElementOfSeq DEF Pop
<1>4. /\ queue' \in Seq(Entries)
      /\ Len(queue') = Len(queue) - 1
      /\ \A i \in 1 .. (Len(queue) - 1) : queue'[i] = queue[i]
  BY <1>1, <1>2, SubSeqProperties DEF Pop
<1>5. DOMAIN queue' = 1 .. (Len(queue) - 1)
  BY <1>4, LenProperties
<1> QED
  BY <1>2, <1>3, <1>4, <1>5

\* One more group has been attempted.
LEMMA AttemptedGroup ==
    ASSUME FireTypeOK, Attempt
    PROVE  \E g \in job.groups :
             /\ job \in Entries
             /\ job' \in Entries
             /\ job'.mail = job.mail
             /\ job'.groups = job.groups \ {g}
             /\ attempted' = attempted \cup {<<job.mail, g>>}
             /\ UNCHANGED <<queue, lost>>
<1>1. job \in Entries
  BY DEF FireTypeOK, Attempt
<1>2. PICK g \in job.groups :
        /\ job' = [job EXCEPT !.groups = @ \ {g}]
        /\ attempted' = attempted \cup {<<job.mail, g>>}
  BY DEF Attempt
<1>3. /\ job' \in Entries
      /\ job'.mail = job.mail
      /\ job'.groups = job.groups \ {g}
  BY <1>1, <1>2 DEF Entries
<1> QED
  BY <1>1, <1>2, <1>3 DEF Attempt

\* <<mail, group>> of an entry are of the type of the histories.
LEMMA PendingType ==
    ASSUME queue \in Seq(Entries), job \in Entries \cup {NoJob}
    PROVE  Pending \subseteq Nat \X SUBSET Addrs
<1>1. \A e \in Entries : GroupsOf(e) \subseteq Nat \X SUBSET Addrs
  BY DEF GroupsOf, Entries
<1>2. \A i \in DOMAIN queue : queue[i] \in Entries
  BY LenProperties, ElementOfSeq
<1> QED
  BY <1>1, <1>2 DEF Pending

LEMMA ServerTypeStep ==
    ASSUME ServerTypeOK, SettledInv, [ServerNext]_serverVars
    PROVE  ServerTypeOK'
<1> USE DEF ServerTypeOK
<1>1. CASE Accept
  <2>1. SessionOK(Bare("ACCEPTED")) /\ Bare("ACCEPTED").state = "ACCEPTED"
    BY BareOK DEF States, EndedOk, EndedErr, Live, Bare
  <2>2. TypeOK'
    BY <1>1, <2>1, UnchangedOK DEF Accept, dbVars, deliveryVars, Codes, ReplyCodes
  <2> QED
    BY <1>1, <2>2 DEF Accept, fireVars, FireTypeOK
<1>2. CASE Serve
  <2>1. TypeOK'
    BY <1>2, NextTypeOK DEF Serve, Next
  <2>2. accepted' \subseteq Nat
    BY <1>2, MaxMailsAssumption DEF Serve, TypeOK, DeliveryTypeOK
  <2> QED
    BY <1>2, <2>1, <2>2 DEF Serve, fireVars, FireTypeOK
<1>3. CASE EndOk
  <2>1. CASE queue = <<>>
    <3>1. TypeOK'
      BY <1>3, <2>1, UnchangedOK DEF EndOk, dbVars, sessionVars, TypeOK
    <3> QED
      BY <1>3, <2>1, <3>1 DEF EndOk, fireVars, FireTypeOK, sessionVars, In
  <2>2. CASE queue # <<>>
    <3>1. Pop /\ phase' = "firing"
      BY <1>3, <2>2 DEF EndOk
    <3>2. queue' \in Seq(Entries) /\ job' \in Entries
      BY <2>2, <3>1, PoppedEntry
    <3>3. TypeOK'
      BY <1>3, <3>2 DEF EndOk, dbVars, sessionVars, TypeOK, DbTypeOK, DeliveryTypeOK,
           SessionOK, Sessions
    <3>4. job' # NoJob
      BY <3>2, QueueAssumption
    <3>5. UNCHANGED <<attempted, lost>>
      BY <3>1 DEF Pop
    <3> QED
      BY <1>3, <3>1, <3>2, <3>3, <3>4, <3>5 DEF EndOk, FireTypeOK, sessionVars, In
  <2> QED
    BY <2>1, <2>2
<1>4. CASE EndErr
  <2>1. TypeOK'
    BY <1>4, UnchangedOK DEF EndErr, dbVars, deliveryVars, sessionVars, TypeOK
  <2> QED
    BY <1>4, <2>1 DEF EndErr, fireVars, FireTypeOK, sessionVars, In
<1>5. CASE Deliver
  <2>1. PICK g \in job.groups :
          /\ job \in Entries
          /\ job' \in Entries
          /\ attempted' = attempted \cup {<<job.mail, g>>}
          /\ UNCHANGED <<queue, lost>>
    BY <1>5, AttemptedGroup DEF Deliver
  <2>2. <<job.mail, g>> \in Nat \X SUBSET Addrs
    BY <2>1 DEF Entries
  <2>3. job' # NoJob
    BY <2>1, QueueAssumption
  <2>4. TypeOK'
    BY <1>5, <2>1, UnchangedOK DEF Deliver, dbVars, sessionVars, TypeOK
  <2> QED
    BY <1>5, <2>1, <2>2, <2>3, <2>4 DEF Deliver, loopVars, sessionVars, FireTypeOK, In
<1>6. CASE FireDone
  <2>1. TypeOK'
    BY <1>6, UnchangedOK DEF FireDone, FireReturns, dbVars, sessionVars, TypeOK
  <2> QED
    BY <1>6, <2>1 DEF FireDone, FireReturns, sessionVars, FireTypeOK, In
<1>7. CASE Crash
  <2>1. SessionOK(Bare("IOERR")) /\ Bare("IOERR").state = "IOERR"
    BY BareOK DEF States, EndedErr, Bare
  <2>2. queue' = <<>> /\ <<>> \in Seq(Entries) /\ job' = NoJob
    BY <1>7 DEF Crash, QueueDies
  <2>3. TypeOK'
    BY <1>7, <2>1, <2>2 DEF Crash, dbVars, TypeOK, DbTypeOK, DeliveryTypeOK, Codes, ReplyCodes
  <2>4. lost' \subseteq Nat \X SUBSET Addrs
    BY <1>7, PendingType DEF Crash, QueueDies, TypeOK, DeliveryTypeOK, FireTypeOK
  <2> QED
    BY <1>7, <2>1, <2>2, <2>3, <2>4 DEF Crash, QueueDies, FireTypeOK, In, EndedErr
<1>8. CASE Outside
  <2>1. TypeOK'
    BY <1>8, DbTypeStep DEF Outside
  <2> QED
    BY <1>8, <2>1 DEF Outside, fireVars, loopVars, sessionVars, FireTypeOK, In
<1>9. CASE UNCHANGED serverVars
  <2>1. TypeOK'
    BY <1>9, UnchangedOK DEF serverVars, TypeOK
  <2> QED
    BY <1>9, <2>1 DEF serverVars, FireTypeOK, In
<1> QED
  BY <1>1, <1>2, <1>3, <1>4, <1>5, <1>6, <1>7, <1>8, <1>9 DEF ServerNext

-----------------------------------------------------------------------------
(* Every action preserves the other parts of the invariant. *)

OrderInv == QueueInv /\ JobInv /\ HistoryInv /\ SettledInv

\* What waits in the queue or in fire() has an identity already given.
LEMMA PendingIsOld ==
    ASSUME ServerTypeOK, QueueInv, JobInv
    PROVE  \A p \in Pending : p[1] < uuid
<1>1. \A i \in DOMAIN queue : \A p \in GroupsOf(queue[i]) : p[1] < uuid
  BY DEF QueueInv, GroupsOf
<1>2. job # NoJob => \A p \in GroupsOf(job) : p[1] < uuid
  BY DEF JobInv, GroupsOf
<1> QED
  BY <1>1, <1>2 DEF Pending

LEMMA ServeOrder ==
    ASSUME ServerInv, Serve
    PROVE  OrderInv'
<1> USE DEF ServerInv, ServerTypeOK
<1>1. UNCHANGED <<job, attempted, lost, settled, phase>> /\ phase = "serving"
  BY DEF Serve, fireVars
<1>2. uuid \in Nat
  BY MaxMailsAssumption DEF TypeOK, DeliveryTypeOK
<1>5. \A i \in DOMAIN queue : queue[i].mail \in Nat
  <2>1. queue \in Seq(Entries)
    BY DEF TypeOK, DeliveryTypeOK
  <2>2. \A i \in DOMAIN queue : queue[i] \in Entries
    BY <2>1, LenProperties, ElementOfSeq
  <2> QED
    BY <2>2 DEF Entries
<1>6. \A p \in attempted \cup lost : p[1] \in Nat
  BY DEF FireTypeOK
<1>7. job # NoJob => job.mail \in Nat
  BY DEF FireTypeOK, Entries
<1>3. CASE UNCHANGED <<uuid, queue>>
  <2>1. accepted' = accepted
    BY <1>3 DEF Serve, Accepts250
  <2>2. accepted # {} => In(Done)'
    BY DoneStaysDone DEF SettledInv, Serve
  <2> QED
    BY <1>1, <1>3, <2>1, <2>2 DEF OrderInv, QueueInv, JobInv, HistoryInv, SettledInv
<1>4. CASE /\ In({"DATA"})
           /\ uuid' = uuid + 1
           /\ AddToQueue(uuid, RemoteRecipients(session.recipients))
  <2>1. accepted = {}
    BY <1>4 DEF SettledInv, In, Done, EndedOk, EndedErr
  <2>2. /\ accepted' \subseteq {uuid}
        /\ accepted' # {} => In(Done)'
    BY <2>1 DEF Serve, Accepts250, In, Done
  <2>3. CASE queue' = queue
    <3>1. QueueInv'
      BY <1>2, <1>4, <1>5, <2>3 DEF QueueInv
    <3>2. JobInv'
      BY <1>1, <1>2, <1>4, <1>7, <2>3 DEF JobInv
    <3>3. HistoryInv'
      BY <1>1, <1>2, <1>4, <1>6 DEF HistoryInv
    <3>4. \A i \in DOMAIN queue' : queue'[i].mail \notin settled' \cup accepted'
      BY <1>1, <1>2, <1>5, <2>2, <2>3 DEF SettledInv, QueueInv
    <3>5. settled' \cup accepted' \subseteq 0 .. (uuid' - 1)
      BY <1>1, <1>2, <1>4, <2>2 DEF SettledInv
    <3> QED
      BY <1>1, <2>2, <3>1, <3>2, <3>3, <3>4, <3>5 DEF OrderInv, SettledInv
  <2>4. CASE /\ Len(queue') = Len(queue) + 1
             /\ DOMAIN queue = 1 .. Len(queue)
             /\ DOMAIN queue' = 1 .. Len(queue')
             /\ \A i \in DOMAIN queue : queue'[i] = queue[i]
             /\ queue'[Len(queue')].mail = uuid
    <3>1. Len(queue) \in Nat
      BY LenProperties DEF TypeOK, DeliveryTypeOK
    <3>2. \A i \in DOMAIN queue' :
            \/ i \in DOMAIN queue /\ queue'[i] = queue[i]
            \/ i = Len(queue') /\ queue'[i].mail = uuid
      BY <2>4, <3>1
    <3>3. QueueInv'
      BY <1>2, <1>4, <1>5, <3>2 DEF QueueInv
    <3>4. JobInv'
      BY <1>1, <1>2, <1>4, <1>7, <3>2 DEF JobInv
    <3>5. HistoryInv'
      BY <1>1, <1>2, <1>4, <1>6 DEF HistoryInv
    <3>6. \A i \in DOMAIN queue' : queue'[i].mail \notin settled'
      BY <1>1, <1>2, <3>2 DEF SettledInv
    <3>7. \A i \in DOMAIN queue' : queue'[i].mail \in accepted' => i = Len(queue')
      BY <1>2, <1>5, <2>2, <3>2 DEF QueueInv
    <3>8. settled' \cup accepted' \subseteq 0 .. (uuid' - 1)
      BY <1>1, <1>2, <1>4, <2>2 DEF SettledInv
    <3> QED
      BY <1>1, <2>2, <3>3, <3>4, <3>5, <3>6, <3>7, <3>8 DEF OrderInv, SettledInv
  <2> QED
    BY <1>4, <2>3, <2>4, AddedEntry
<1> QED
  BY <1>3, <1>4, HandleQueue DEF Serve

LEMMA EndOkOrder ==
    ASSUME ServerInv, EndOk
    PROVE  OrderInv'
<1> USE DEF ServerInv, ServerTypeOK
<1>1. /\ settled' = settled \cup accepted
      /\ accepted' = {}
      /\ uuid' = uuid
  BY DEF EndOk
<1>2. job = NoJob
  BY DEF EndOk
<1>3. CASE queue = <<>>
  <2>1. UNCHANGED <<queue, job, attempted, lost>>
    BY <1>3 DEF EndOk, fireVars
  <2>2. DOMAIN queue = {}
    BY <1>3
  <2> QED
    BY <1>1, <1>2, <2>1, <2>2 DEF OrderInv, QueueInv, JobInv, HistoryInv, SettledInv
<1>4. CASE queue # <<>>
  <2>1. Pop
    BY <1>4 DEF EndOk
  <2>2. /\ Len(queue) \in Nat \ {0}
        /\ DOMAIN queue = 1 .. Len(queue)
        /\ DOMAIN queue' = 1 .. (Len(queue) - 1)
        /\ \A i \in DOMAIN queue' : queue'[i] = queue[i]
        /\ job' = queue[Len(queue)]
    BY <1>4, <2>1, PoppedEntry
  <2>3. UNCHANGED <<attempted, lost>>
    BY <2>1 DEF Pop
  <2>4. \A i \in DOMAIN queue' :
          i \in DOMAIN queue /\ i # Len(queue) /\ queue'[i] = queue[i]
    BY <2>2
  <2>5. QueueInv'
    BY <1>1, <2>4 DEF QueueInv
  <2>6. JobInv'
    BY <1>1, <2>2, <2>4 DEF JobInv, QueueInv
  <2>7. HistoryInv'
    BY <1>1, <2>3 DEF HistoryInv
  <2>8. SettledInv'
    BY <1>1, <2>4 DEF SettledInv
  <2> QED
    BY <2>5, <2>6, <2>7, <2>8 DEF OrderInv
<1> QED
  BY <1>3, <1>4

LEMMA CrashOrder ==
    ASSUME ServerInv, Crash
    PROVE  OrderInv'
<1>1. \A p \in Pending : p[1] < uuid
  BY PendingIsOld DEF ServerInv
<1>2. /\ queue' = <<>>
      /\ job' = NoJob
      /\ lost' = lost \cup Pending
      /\ UNCHANGED <<attempted, uuid, settled>>
      /\ accepted' = {}
  BY DEF Crash, QueueDies
<1>3. DOMAIN queue' = {}
  BY <1>2
<1> QED
  BY <1>1, <1>2, <1>3
  DEF ServerInv, OrderInv, QueueInv, JobInv, HistoryInv, SettledInv

LEMMA OrderStep ==
    ASSUME ServerInv, [ServerNext]_serverVars
    PROVE  OrderInv'
<1> USE DEF OrderInv, ServerInv
<1>1. CASE Accept
  BY <1>1 DEF Accept, deliveryVars, fireVars, QueueInv, JobInv, HistoryInv, SettledInv
<1>2. CASE Serve
  BY <1>2, ServeOrder
<1>3. CASE EndOk
  BY <1>3, EndOkOrder
<1>4. CASE EndErr
  BY <1>4 DEF EndErr, deliveryVars, fireVars, QueueInv, JobInv, HistoryInv, SettledInv
<1>5. CASE Deliver
  <2>1. PICK g \in job.groups :
          /\ job'.mail = job.mail
          /\ attempted' = attempted \cup {<<job.mail, g>>}
          /\ UNCHANGED <<queue, lost>>
    BY <1>5, AttemptedGroup DEF Deliver, ServerTypeOK
  <2>2. job # NoJob /\ UNCHANGED <<uuid, settled, accepted>> /\ phase # "serving"
    BY <1>5 DEF Deliver, Attempt, loopVars
  <2> QED
    BY <2>1, <2>2 DEF QueueInv, JobInv, HistoryInv, SettledInv
<1>6. CASE FireDone
  BY <1>6 DEF FireDone, FireReturns, QueueInv, JobInv, HistoryInv, SettledInv
<1>7. CASE Crash
  BY <1>7, CrashOrder
<1>8. CASE Outside
  BY <1>8 DEF Outside, deliveryVars, sessionVars, fireVars, loopVars, In,
       QueueInv, JobInv, HistoryInv, SettledInv
<1>9. CASE UNCHANGED serverVars
  BY <1>9 DEF serverVars, In, QueueInv, JobInv, HistoryInv, SettledInv
<1> QED
  BY <1>1, <1>2, <1>3, <1>4, <1>5, <1>6, <1>7, <1>8, <1>9 DEF ServerNext

LEMMA ServerInvariant == ServerSpec => []ServerInv
<1>1. ServerInv /\ [ServerNext]_serverVars => ServerInv'
  BY ServerTypeStep, OrderStep DEF ServerInv, OrderInv
<1> QED
  BY <1>1, ServerInitInv, PTL DEF ServerSpec

-----------------------------------------------------------------------------
\* The variables of the process keep their types, over every sequence of
\* connections, deliveries and crashes: in particular a job is in hand
\* exactly while fire() runs.
THEOREM ServerTypesCorrect == ServerSpec => []ServerTypeOK
<1> QED
  BY ServerInvariant, PTL DEF ServerInv

\* However many entries the queue holds and in whatever order connections
\* fail, end and deliver: pop() in fire() takes the entry of the mail this
\* connection had accepted, so that none accepted over a connection that
\* ended well waits while the server listens.
THEOREM SettledMailsAttempted == ServerSpec => []SettledIsAttempted
<1>1. ServerInv => SettledIsAttempted
  BY DEF ServerInv, SettledInv, SettledIsAttempted
<1> QED
  BY <1>1, ServerInvariant, PTL

-----------------------------------------------------------------------------
(* The queue implements Relay. *)

\* An entry for a mail puts its groups among the pending ones.
LEMMA PendingAfterAdd ==
    ASSUME TypeOK, UNCHANGED job,
           AddToQueue(uuid, RemoteRecipients(session.recipients))
    PROVE  \/ UNCHANGED Pending
           \/ Pending' = Pending \cup
                ({uuid} \X GroupByDomain(RemoteRecipients(session.recipients)))
<1> DEFINE G == GroupByDomain(RemoteRecipients(session.recipients))
<1>1. CASE queue' = queue
  BY <1>1 DEF Pending
<1>2. CASE /\ Len(queue') = Len(queue) + 1
           /\ DOMAIN queue = 1 .. Len(queue)
           /\ DOMAIN queue' = 1 .. Len(queue')
           /\ \A i \in DOMAIN queue : queue'[i] = queue[i]
           /\ queue'[Len(queue')].mail = uuid
           /\ queue'[Len(queue')].groups = G
  <2> HIDE DEF G
  <2>1. Len(queue) \in Nat
    BY LenProperties DEF TypeOK, DeliveryTypeOK
  <2>2. DOMAIN queue' = DOMAIN queue \cup {Len(queue')}
    BY <1>2, <2>1
  <2>3. GroupsOf(queue'[Len(queue')]) = {uuid} \X G
    BY <1>2 DEF GroupsOf
  <2>4. UNION {GroupsOf(queue'[i]) : i \in DOMAIN queue'}
          = (UNION {GroupsOf(queue[i]) : i \in DOMAIN queue}) \cup ({uuid} \X G)
    BY <1>2, <2>2, <2>3
  <2>5. GroupsOf(job)' = GroupsOf(job) /\ (job' = NoJob <=> job = NoJob)
    BY DEF GroupsOf
  <2> QED
    BY <2>4, <2>5 DEF Pending, G, GroupsOf
<1> QED
  BY <1>1, <1>2, AddedEntry

\* Popping an entry leaves the pending groups as they are.
LEMMA PendingAfterPop ==
    ASSUME TypeOK, job = NoJob, queue # <<>>, Pop
    PROVE  UNCHANGED Pending
<1>1. /\ Len(queue) \in Nat \ {0}
      /\ DOMAIN queue = 1 .. Len(queue)
      /\ DOMAIN queue' = 1 .. (Len(queue) - 1)
      /\ \A i \in DOMAIN queue' : queue'[i] = queue[i]
      /\ job' = queue[Len(queue)]
      /\ job' # NoJob
  BY PoppedEntry, QueueAssumption
<1>2. DOMAIN queue = DOMAIN queue' \cup {Len(queue)}
  BY <1>1
<1>3. UNION {GroupsOf(queue[i]) : i \in DOMAIN queue}
        = (UNION {GroupsOf(queue'[i]) : i \in DOMAIN queue'}) \cup GroupsOf(job')
  BY <1>1, <1>2
<1> QED
  BY <1>1, <1>3 DEF Pending, GroupsOf

\* An attempt takes one group, of the mail in hand, from the pending ones.
LEMMA PendingAfterAttempt ==
    ASSUME ServerTypeOK, JobInv, Attempt
    PROVE  \E p \in Pending :
             /\ Pending' = Pending \ {p}
             /\ attempted' = attempted \cup {p}
<1>1. PICK g \in job.groups :
        /\ job' \in Entries
        /\ job'.mail = job.mail
        /\ job'.groups = job.groups \ {g}
        /\ attempted' = attempted \cup {<<job.mail, g>>}
        /\ UNCHANGED <<queue, lost>>
  BY AttemptedGroup DEF ServerTypeOK
<1>2. job # NoJob /\ job' # NoJob
  BY <1>1, QueueAssumption DEF Attempt
<1> DEFINE p == <<job.mail, g>>
<1>3. p \in GroupsOf(job) /\ GroupsOf(job') = GroupsOf(job) \ {p}
  BY <1>1 DEF GroupsOf
<1>4. \A i \in DOMAIN queue : p \notin GroupsOf(queue[i])
  BY <1>2 DEF JobInv, GroupsOf
<1>5. GroupsOf(job)' = GroupsOf(job')
  BY DEF GroupsOf
<1>6. UNION {GroupsOf(queue'[i]) : i \in DOMAIN queue'}
        = UNION {GroupsOf(queue[i]) : i \in DOMAIN queue}
  BY <1>1
<1>7. p \in Pending /\ Pending' = Pending \ {p}
  <2> HIDE DEF p
  <2> QED
    BY <1>2, <1>3, <1>4, <1>6 DEF Pending, GroupsOf
<1> QED
  BY <1>1, <1>7

\* The groups of an entry share nobody.
LEMMA GroupsApart ==
    ASSUME NEW R
    PROVE  \A g, h \in GroupByDomain(R) : g # h => g \cap h = {}
  BY DEF GroupByDomain

LEMMA QueueRelayStep ==
    ASSUME ServerInv, [ServerNext]_serverVars
    PROVE  RelayContract!Next \/ UNCHANGED <<Pending, attempted, lost>>
<1> USE DEF ServerInv, ServerTypeOK
<1>1. CASE Serve
  <2>1. UNCHANGED <<job, attempted, lost>>
    BY <1>1 DEF Serve, fireVars
  <2>2. CASE UNCHANGED <<uuid, queue>>
    BY <2>1, <2>2 DEF Pending
  <2>3. CASE /\ uuid < MaxMails
             /\ AddToQueue(uuid, RemoteRecipients(session.recipients))
    <3> DEFINE G == GroupByDomain(RemoteRecipients(session.recipients))
    <3>1. uuid \in 0 .. MaxMails /\ G \in SUBSET SUBSET Addrs
      BY GroupsType, RemoteType DEF TypeOK, SessionOK, Sessions, DeliveryTypeOK
    <3>2. \A p \in Pending \cup attempted \cup lost : p[1] # uuid
      BY <3>1, PendingIsOld, MaxMailsAssumption DEF HistoryInv
    <3>3. UNCHANGED Pending \/ Pending' = Pending \cup ({uuid} \X G)
      BY <2>1, <2>3, PendingAfterAdd
    <3>4. CASE Pending' = Pending \cup ({uuid} \X G)
      <4>1. \A g, h \in G : g # h => g \cap h = {}
        BY GroupsApart
      <4> HIDE DEF G
      <4> QED
        BY <2>1, <3>1, <3>2, <3>4, <4>1 DEF RelayContract!Next, RelayContract!Take
    <3> QED
      BY <2>1, <3>3, <3>4
  <2> QED
    BY <1>1, <2>2, <2>3, HandleQueue DEF Serve
<1>2. CASE EndOk
  <2>1. CASE queue = <<>>
    BY <1>2, <2>1 DEF EndOk, fireVars, Pending
  <2>2. CASE queue # <<>>
    BY <1>2, <2>2, PendingAfterPop DEF EndOk, Pop
  <2> QED
    BY <2>1, <2>2
<1>3. CASE Deliver
  <2>1. PICK p \in Pending :
          /\ Pending' = Pending \ {p}
          /\ attempted' = attempted \cup {p}
    BY <1>3, PendingAfterAttempt DEF Deliver
  <2> QED
    BY <1>3, <2>1 DEF Deliver, Attempt, RelayContract!Next, RelayContract!Attempt
<1>4. CASE FireDone
  <2>1. job.groups = {} => GroupsOf(job) = {}
    BY DEF GroupsOf
  <2> QED
    BY <1>4, <2>1 DEF FireDone, FireReturns, Pending
<1>5. CASE Crash
  <2>1. Pending' = {}
    BY <1>5 DEF Crash, QueueDies, Pending
  <2> QED
    BY <1>5, <2>1 DEF Crash, QueueDies, RelayContract!Next, RelayContract!LoseAll
<1>6. CASE Accept \/ EndErr \/ Outside \/ UNCHANGED serverVars
  BY <1>6 DEF Accept, EndErr, Outside, deliveryVars, fireVars, serverVars, Pending
<1> QED
  BY <1>1, <1>2, <1>3, <1>4, <1>5, <1>6 DEF ServerNext

\* Queue::add and Queue::fire keep Relay's promise over every history of the
\* process: a group of recipients taken is attempted at most once, and only
\* a crash loses it.
THEOREM QueueImplementsRelay == ServerSpec => ImplementsRelay
<1>1. ServerInit => RelayContract!Init
  <2> SUFFICES ASSUME ServerInit PROVE RelayContract!Init
    OBVIOUS
  <2>1. queue = <<>> /\ job = NoJob
    BY DEF ServerInit, DeliveryInit, FireInit
  <2> QED
    BY <2>1 DEF ServerInit, FireInit, RelayContract!Init, Pending
<1>2. ServerInv /\ [ServerNext]_serverVars
        => [RelayContract!Next]_(RelayContract!vars)
  BY QueueRelayStep DEF RelayContract!vars
<1> QED
  BY <1>1, <1>2, ServerInvariant, PTL
  DEF ServerSpec, ImplementsRelay, RelayContract!Spec

\* Groups of one mail share nobody, wherever they are: this is inductive of
\* Relay, as a mail is taken once and a group only changes its place.
Apart ==
    \A p, q \in Pending \cup attempted \cup lost :
        p # q /\ p[1] = q[1] => p[2] \cap q[2] = {}

LEMMA ApartStep ==
    ASSUME Apart, RelayContract!Next \/ UNCHANGED <<Pending, attempted, lost>>
    PROVE  Apart'
<1> DEFINE All == Pending \cup attempted \cup lost
<1>1. ASSUME All' \subseteq All
      PROVE  Apart'
  BY <1>1 DEF Apart
<1>2. CASE RelayContract!Take
  <2>1. PICK m \in 0 .. MaxMails, G \in SUBSET SUBSET Addrs :
          /\ \A p \in All : p[1] # m
          /\ \A g, h \in G : g # h => g \cap h = {}
          /\ Pending' = Pending \cup ({m} \X G)
    BY <1>2 DEF RelayContract!Take
  <2>2. All' = All \cup ({m} \X G)
    BY <1>2, <2>1 DEF RelayContract!Take
  <2>3. \A p \in {m} \X G : p[1] = m /\ p[2] \in G /\ p = <<m, p[2]>>
    OBVIOUS
  <2> HIDE DEF All
  <2>4. ASSUME NEW p \in All', NEW q \in All', p # q, p[1] = q[1]
        PROVE  p[2] \cap q[2] = {}
    <3>1. CASE p \in All /\ q \in All
      BY <2>4, <3>1 DEF Apart, All
    <3>2. CASE p \in {m} \X G /\ q \in {m} \X G
      BY <2>1, <2>3, <2>4, <3>2
    <3>3. ~(p \in All /\ q \in {m} \X G) /\ ~(q \in All /\ p \in {m} \X G)
      BY <2>1, <2>3, <2>4
    <3> QED
      BY <2>2, <2>4, <3>1, <3>2, <3>3
  <2> QED
    BY <2>4 DEF Apart, All
<1>3. CASE RelayContract!Attempt
  BY <1>1, <1>3 DEF RelayContract!Attempt
<1>4. CASE RelayContract!LoseAll
  BY <1>1, <1>4 DEF RelayContract!LoseAll
<1>5. CASE UNCHANGED <<Pending, attempted, lost>>
  BY <1>1, <1>5
<1> QED
  BY <1>2, <1>3, <1>4, <1>5 DEF RelayContract!Next

\* Over every history of the process no recipient of a mail is delivered to
\* twice, through however many groups and failed attempts fire() goes.
THEOREM RecipientsAttemptedOnce == ServerSpec => []OncePerRecipient
<1>1. ServerInit => Apart
  BY DEF ServerInit, DeliveryInit, FireInit, Apart, Pending
<1>2. ServerInv /\ Apart /\ [ServerNext]_serverVars => Apart'
  BY QueueRelayStep, ApartStep
<1>3. Apart => OncePerRecipient
  BY DEF Apart, OncePerRecipient
<1> QED
  BY <1>1, <1>2, <1>3, ServerInvariant, PTL DEF ServerSpec
-----------------------------------------------------------------------------
(* Nobody is forgotten. *)

\* For session, mailboxes and queue a step of the process is a step of the
\* connection, the beginning or the loss of one, or the queue getting shorter.
LEMMA ProcessStep ==
    ASSUME ServerTypeOK, [ServerNext]_serverVars
    PROVE  \/ [Next]_vars
           \/ /\ session' \in {Bare("ACCEPTED"), Bare("IOERR")}
              /\ reply' = NoReply
              /\ stored' = stored
              /\ phase = "accepting" \/ session' = Bare("IOERR")
              /\ queue' = queue \/ queue' = <<>>
           \/ /\ UNCHANGED <<sessionVars, stored>>
              /\ queue # <<>> /\ Pop
<1>1. CASE Accept
  BY <1>1 DEF Accept, deliveryVars
<1>2. CASE Serve
  BY <1>2 DEF Serve, Next
<1>3. CASE EndOk
  BY <1>3 DEF EndOk, dbVars, sessionVars, vars
<1>4. CASE EndErr \/ Deliver \/ FireDone
  BY <1>4 DEF EndErr, Deliver, Attempt, FireDone, FireReturns, dbVars, deliveryVars,
     sessionVars, vars
<1>5. CASE Crash
  BY <1>5 DEF Crash, QueueDies
<1>6. CASE Outside
  BY <1>6 DEF Outside, Next
<1>7. CASE UNCHANGED serverVars
  BY <1>7 DEF serverVars, vars
<1> QED
  BY <1>1, <1>2, <1>3, <1>4, <1>5, <1>6, <1>7 DEF ServerNext

\* What a connection has handed over is served.
LEMMA HandedIsServed == Handed \subseteq Served
<1>1. ASSUME NEW i \in DOMAIN queue, NEW g \in queue[i].groups, NEW a \in g
      PROVE  <<queue[i].mail, a>> \in Served
  <2> DEFINE p == <<queue[i].mail, g>>
  <2>1. p \in Pending
    BY DEF Pending, GroupsOf
  <2>2. <<queue[i].mail, a>> \in {p[1]} \X p[2]
    OBVIOUS
  <2> HIDE DEF p
  <2> QED
    BY <2>1, <2>2 DEF Served
<1>2. Queued \subseteq Served
  BY <1>1 DEF Queued
<1> QED
  BY <1>2 DEF Handed, Served

LEMMA HandedIsServedNext == (Handed \subseteq Served)'
  BY HandedIsServed, PTL

\* A group changes its place, a file stays.
LEMMA ServedStays ==
    ASSUME ServerInv, [ServerNext]_serverVars
    PROVE  Served \subseteq Served'
<1> DEFINE All == Pending \cup attempted \cup lost
<1>1. All \subseteq All'
  BY QueueRelayStep
  DEF RelayContract!Next, RelayContract!Take, RelayContract!Attempt, RelayContract!LoseAll
<1>2. stored \subseteq stored'
  <2>1. CASE [Next]_vars
    BY <2>1, OnlyContentDelivers
    DEF ReceiveEndDelivered, ReceiveEndRefused, DeliverOk, DeliverNoSuchUser,
        DeliverMailboxIO, StoreUpTo
  <2> QED
    BY <2>1, ProcessStep DEF ServerInv
<1> HIDE DEF All
<1>3. Served = stored \cup UNION {{p[1]} \X p[2] : p \in All}
  BY DEF Served, All
<1>4. Served' = stored' \cup UNION {{p[1]} \X p[2] : p \in All'}
  BY DEF Served, All
<1> QED
  BY <1>1, <1>2, <1>3, <1>4

\* 250 after the mail: every recipient is in a mailbox or in the queue.
LEMMA AcceptedIsServed ==
    ASSUME ServerInv, [ServerNext]_serverVars, Accepts250,
           NEW i \in DOMAIN session.recipients
    PROVE  <<uuid, session.recipients[i]>> \in Served'
<1>1. Handle
  BY DEF Accepts250, ServerNext, Accept, Serve, EndOk, EndErr, Deliver, FireDone, Crash,
     Outside, deliveryVars, serverVars
<1>2. [Next]_vars
  BY <1>1 DEF Next
<1>3. ReceiveEndDelivered
  <2>1. ASSUME ReceiveEndRefused
        PROVE  FALSE
    <3> DEFINE n == [session EXCEPT !.state = "RCPT"]
    <3>1. session' \in {n, Bare("IOERR")}
      BY <2>1 DEF ReceiveEndRefused, Rollback, Respond
    <3>2. n.state = "RCPT"
      BY DEF ServerInv, ServerTypeOK, TypeOK, SessionOK, Sessions
    <3>3. Bare("IOERR").state = "IOERR"
      BY DEF Bare
    <3> HIDE DEF n
    <3> QED
      BY <3>1, <3>2, <3>3 DEF Accepts250
  <2> QED
    BY <1>2, <2>1, StepsAreQuiet DEF Accepts250, ServerInv, ServerTypeOK
<1>4. HandsOver(Named)
  BY <1>3, OkHandsOver DEF ReceiveEndDelivered, ServerInv, ServerTypeOK
<1>5. <<uuid, session.recipients[i]>> \in Handed'
  BY <1>4 DEF HandsOver, Named
<1> QED
  BY <1>5, HandedIsServedNext

\* Every recipient of a mail answered with 250 has a file, a place in the
\* queue or an attempt, or was in the queue of a process that died, and no
\* connection, delivery or failure afterwards changes that.
THEOREM ServerForgetsNobody == ServerSpec => NobodyForgotten
<1>1. ServerInv /\ [ServerNext]_serverVars =>
        [ /\ Served \subseteq Served'
          /\ Accepts250 =>
               \A i \in DOMAIN session.recipients :
                   <<uuid, session.recipients[i]>> \in Served' ]_serverVars
  BY ServedStays, AcceptedIsServed
<1> QED
  BY <1>1, ServerInvariant, PTL DEF ServerSpec, NobodyForgotten

-----------------------------------------------------------------------------
(* What is proved of a connection holds of every connection of the process. *)

\* The length of the queue in the steps that are no steps of a connection.
LEMMA QueueShrinks ==
    ASSUME TypeOK
    PROVE  /\ Len(queue) \in Nat
           /\ Len(<<>>) = 0
           /\ queue # <<>> /\ Pop => ~(Len(queue') > Len(queue))
<1>1. Len(queue) \in Nat
  BY LenProperties DEF TypeOK, DeliveryTypeOK
<1>2. ASSUME queue # <<>>, Pop
      PROVE  ~(Len(queue') > Len(queue))
  <2>1. /\ Len(queue) \in Nat \ {0}
        /\ DOMAIN queue' = 1 .. (Len(queue) - 1)
        /\ queue' \in Seq(Entries)
    BY <1>2, PoppedEntry
  <2>2. Len(queue') \in Nat /\ DOMAIN queue' = 1 .. Len(queue')
    BY <2>1, LenProperties
  <2> QED
    BY <2>1, <2>2
<1> QED
  BY <1>1, <1>2

\* Over any number of connections, whatever their predecessors left in the
\* queue, every envelope is permitted to the user of its own connection.
THEOREM ServerEnvelopesPermitted == ServerSpec => []EnvelopePermitted
<1>1. ServerInit => EnvelopePermitted
  BY BarePermitted DEF ServerInit, EnvelopePermitted
<1>2. ServerTypeOK /\ EnvelopePermitted /\ [ServerNext]_serverVars => EnvelopePermitted'
  <2> SUFFICES ASSUME ServerTypeOK, EnvelopePermitted, [ServerNext]_serverVars
               PROVE  EnvelopePermitted'
    OBVIOUS
  <2>1. CASE [Next]_vars
    BY <2>1, NextPermitted DEF ServerTypeOK
  <2>2. CASE session' \in {Bare("ACCEPTED"), Bare("IOERR")}
    BY <2>2, BarePermitted DEF EnvelopePermitted
  <2>3. CASE UNCHANGED sessionVars
    BY <2>3 DEF sessionVars, EnvelopePermitted, RelayOK, SenderOK
  <2> QED
    BY <2>1, <2>2, <2>3, ProcessStep
<1> QED
  BY <1>1, <1>2, ServerTypesCorrect, PTL DEF ServerSpec

\* The process is no open relay: no step of it, accepting, serving, firing or
\* dying, makes the queue longer unless a user is authenticated.
THEOREM ServerRelaysForUsers == ServerSpec => OnlyUsersRelay
<1>1. ServerTypeOK /\ EnvelopePermitted /\ [ServerNext]_serverVars
        => [Len(queue') > Len(queue) => session.authorized # NoUser]_vars
  <2> SUFFICES ASSUME ServerTypeOK, EnvelopePermitted, [ServerNext]_serverVars,
                      Len(queue') > Len(queue), vars' # vars
               PROVE  session.authorized # NoUser
    BY DEF vars
  <2>1. CASE [Next]_vars
    BY <2>1, RelayStep DEF ServerTypeOK
  <2>2. CASE queue' = queue \/ queue' = <<>>
    BY <2>2, QueueShrinks DEF ServerTypeOK
  <2>3. CASE queue # <<>> /\ Pop
    BY <2>3, QueueShrinks DEF ServerTypeOK
  <2> QED
    BY <2>1, <2>2, <2>3, ProcessStep
<1> QED
  BY <1>1, ServerTypesCorrect, ServerEnvelopesPermitted, PTL DEF ServerSpec, OnlyUsersRelay

\* Over any number of connections and crashes, nothing of an envelope is lost
\* between the commands of a connection that stays open: what EnvelopesKept
\* says of one session.
THEOREM ServerKeepsEnvelopes == ServerSpec => EnvelopeSurvives
<1>1. ServerTypeOK /\ [ServerNext]_serverVars =>
        [ In({"MAIL", "RCPT", "DATA"}) /\ session'.state \in Live \ {"DATACOMPLETE"}
            => /\ session'.state \in {"MAIL", "RCPT", "DATA"}
               /\ session'.sender = session.sender
               /\ session'.isLocalSender = session.isLocalSender
               /\ session'.authorized = session.authorized
               /\ Len(session'.recipients) >= Len(session.recipients)
               /\ SubSeq(session'.recipients, 1, Len(session.recipients))
                    = session.recipients ]_vars
  <2> SUFFICES ASSUME ServerTypeOK, [ServerNext]_serverVars, In({"MAIL", "RCPT", "DATA"})
               PROVE  Carries(session') \/ Over(session')
    BY DEF Carries, Over
  <2>1. CASE [Next]_vars
    BY <2>1, CarryStep DEF ServerTypeOK
  <2>2. CASE session' \in {Bare("ACCEPTED"), Bare("IOERR")}
    BY <2>2 DEF Over, Bare, Live
  <2>3. CASE UNCHANGED sessionVars
    BY <2>3, StaysCarried DEF sessionVars, Carries, ServerTypeOK
  <2> QED
    BY <2>1, <2>2, <2>3, ProcessStep
<1> QED
  BY <1>1, ServerTypesCorrect, PTL DEF ServerSpec, EnvelopeSurvives

\* Over any number of connections a mail is stored for nobody if one of its
\* local recipients has no mailbox; fire() and crashes store nothing.
THEOREM ServerLooksUpFirst == ServerSpec => NoSuchUserStoresNothing
<1>1. ServerTypeOK /\ [ServerNext]_serverVars =>
        [ In({"DATA"}) /\ ~AllHomesFound(session.recipients) => stored' = stored ]_vars
  BY ProcessStep, StoreStep
<1> QED
  BY <1>1, ServerTypesCorrect, PTL DEF ServerSpec, NoSuchUserStoresNothing

\* No client of any connection waits in vain for a reply, but where it sends
\* the mail and in the unfinished AUTH PLAIN.
THEOREM ServerSilenceExplained == ServerSpec => []SilenceHasReason
<1>1. ServerInit => SilenceHasReason
  BY DEF ServerInit, SilenceHasReason, In, Live, Bare
<1>2. ServerTypeOK /\ SilenceHasReason /\ [ServerNext]_serverVars => SilenceHasReason'
  <2> SUFFICES ASSUME ServerTypeOK, SilenceHasReason, [ServerNext]_serverVars
               PROVE  SilenceHasReason'
    OBVIOUS
  <2>1. CASE [Next]_vars
    BY <2>1, SpeakStep DEF ServerTypeOK
  <2>2. CASE session' \in {Bare("ACCEPTED"), Bare("IOERR")}
    BY <2>2 DEF SilenceHasReason, In, Live, Bare
  <2>3. CASE UNCHANGED sessionVars
    BY <2>3 DEF sessionVars, SilenceHasReason, In
  <2> QED
    BY <2>1, <2>2, <2>3, ProcessStep
<1> QED
  BY <1>1, <1>2, ServerTypesCorrect, PTL DEF ServerSpec

-----------------------------------------------------------------------------
(* What SmtpClient::deliver is called with. *)

\* It takes the domain of the first recipient for that of all of them, which
\* the group must have for one.
Deliverable(g) ==
    /\ g # {}
    /\ \A a \in g : ~IsLocalResponsibility(a)
    /\ \A a, b \in g : DomainOf[a] = DomainOf[b]

\* So the entries in the queue, the one in hand and all attempts made.
AllDeliverable ==
    /\ QueueWellFormed
    /\ job # NoJob => \A g \in job.groups : Deliverable(g)
    /\ \A p \in attempted : Deliverable(p[2])

LEMMA DeliverableStep ==
    ASSUME ServerTypeOK, AllDeliverable, [ServerNext]_serverVars
    PROVE  AllDeliverable'
<1> DEFINE JobOK == job # NoJob => \A g \in job.groups : Deliverable(g)
           AttemptsOK == \A p \in attempted : Deliverable(p[2])
<1>1. QueueWellFormed /\ JobOK /\ AttemptsOK
  BY DEF AllDeliverable
<1>2. ASSUME UNCHANGED <<job, attempted>>
      PROVE  JobOK' /\ AttemptsOK'
  BY <1>1, <1>2 DEF Deliverable, IsLocalResponsibility
<1>3. ASSUME UNCHANGED queue
      PROVE  QueueWellFormed'
  BY <1>1, <1>3 DEF QueueWellFormed, IsLocalResponsibility
<1>4. CASE Accept \/ EndErr \/ Outside \/ UNCHANGED serverVars
  <2>1. UNCHANGED <<queue, job, attempted>>
    BY <1>4 DEF Accept, EndErr, Outside, deliveryVars, fireVars, serverVars
  <2> QED
    BY <1>2, <1>3, <2>1 DEF AllDeliverable
<1>5. CASE Serve
  <2>1. UNCHANGED <<job, attempted>>
    BY <1>5 DEF Serve, fireVars
  <2>2. QueueWellFormed'
    BY <1>1, <1>5, QueueStep DEF Serve, Next, ServerTypeOK
  <2> QED
    BY <1>2, <2>1, <2>2 DEF AllDeliverable
<1>6. CASE EndOk
  <2>1. CASE queue = <<>>
    BY <1>2, <1>3, <1>6, <2>1 DEF EndOk, fireVars, AllDeliverable
  <2>2. CASE queue # <<>>
    <3>1. Pop
      BY <1>6, <2>2 DEF EndOk
    <3>2. /\ Len(queue) \in Nat \ {0}
          /\ DOMAIN queue = 1 .. Len(queue)
          /\ DOMAIN queue' = 1 .. (Len(queue) - 1)
          /\ \A i \in DOMAIN queue' : queue'[i] = queue[i]
          /\ job' = queue[Len(queue)]
      BY <2>2, <3>1, PoppedEntry DEF ServerTypeOK
    <3>3. QueueWellFormed'
      BY <1>1, <3>2 DEF QueueWellFormed, IsLocalResponsibility
    <3>4. JobOK'
      BY <1>1, <3>2 DEF QueueWellFormed, Deliverable, IsLocalResponsibility
    <3>5. AttemptsOK'
      BY <1>1, <3>1 DEF Pop, Deliverable, IsLocalResponsibility
    <3> QED
      BY <3>3, <3>4, <3>5 DEF AllDeliverable
  <2> QED
    BY <2>1, <2>2
<1>7. CASE Deliver
  <2>1. PICK g \in job.groups :
          /\ job' \in Entries
          /\ job'.groups = job.groups \ {g}
          /\ attempted' = attempted \cup {<<job.mail, g>>}
          /\ UNCHANGED queue
    BY <1>7, AttemptedGroup DEF Deliver, ServerTypeOK
  <2>2. Deliverable(g)
    BY <1>1, <1>7 DEF Deliver, Attempt
  <2>3. JobOK' /\ AttemptsOK'
    BY <1>1, <1>7, <2>1, <2>2 DEF Deliver, Attempt, Deliverable, IsLocalResponsibility
  <2> QED
    BY <1>3, <2>1, <2>3 DEF AllDeliverable
<1>8. CASE FireDone
  BY <1>1, <1>8 DEF FireDone, FireReturns, AllDeliverable, QueueWellFormed, Deliverable,
     IsLocalResponsibility
<1>9. CASE Crash
  <2>1. queue' = <<>> /\ job' = NoJob /\ attempted' = attempted
    BY <1>9 DEF Crash, QueueDies
  <2> QED
    BY <1>1, <2>1 DEF AllDeliverable, QueueWellFormed, Deliverable, IsLocalResponsibility
<1> QED
  BY <1>4, <1>5, <1>6, <1>7, <1>8, <1>9 DEF ServerNext

\* Whatever mails the process takes, queues, pops and loses: the entries are
\* well formed, and every call of SmtpClient::deliver is for a non-empty group
\* of remote recipients of a single domain.
THEOREM ServerAttemptsDeliverable == ServerSpec => [](QueueWellFormed /\ AllDeliverable)
<1>1. ServerInit => AllDeliverable
  BY DEF ServerInit, DeliveryInit, FireInit, AllDeliverable, QueueWellFormed
<1>2. ServerTypeOK /\ AllDeliverable /\ [ServerNext]_serverVars => AllDeliverable'
  BY DeliverableStep
<1>3. AllDeliverable => QueueWellFormed
  BY DEF AllDeliverable
<1> QED
  BY <1>1, <1>2, <1>3, ServerTypesCorrect, PTL DEF ServerSpec
=============================================================================
