------------------------------ MODULE Delivery ------------------------------
(***************************************************************************)
(* What becomes of one finished mail: DataState::deliver_mail and          *)
(* deliver_local_mail of smtp/server.rs, Queue::add of queue.rs and        *)
(* Storage::store of maildir.rs.                                           *)
(*                                                                         *)
(* A mail is known by its envelope's uuid, modelled by a counter.  A       *)
(* mailbox is the set of <<mail, recipient>> pairs stored; the outgoing    *)
(* queue is a sequence of entries, each with its recipients grouped by     *)
(* domain.  The same recipient named twice in an envelope is one recipient *)
(* here: copies of one envelope in one mailbox are not counted.            *)
(***************************************************************************)
EXTENDS UserDb, Sequences

CONSTANT MaxMails   \* bound: envelopes built in a behaviour

ASSUME MaxMailsAssumption == MaxMails \in Nat

VARIABLES uuid,     \* the uuid the next envelope gets
          stored,   \* {<<mail, recipient>>} written to mailboxes
          queue     \* the outgoing queue, newest entry last

deliveryVars == <<uuid, stored, queue>>

\* The entries Queue::add can build: a mail and its groups of recipients.
Entries == [mail : Nat, groups : SUBSET SUBSET Addrs]

DeliveryTypeOK ==
    /\ uuid \in 0..MaxMails
    /\ stored \subseteq Nat \X Addrs
    /\ queue \in Seq(Entries)

DeliveryInit ==
    /\ uuid = 0
    /\ stored = {}
    /\ queue = <<>>

-----------------------------------------------------------------------------
LocalIndices(rcpts) == {i \in DOMAIN rcpts : IsLocalResponsibility(rcpts[i])}

RemoteRecipients(rcpts) ==
    {rcpts[i] : i \in (DOMAIN rcpts) \ LocalIndices(rcpts)}

\* Mutated: all recipients in one group.
OneGroup(R) == {R}

\* Mutated: the list is not emptied between one domain and the next.
GroupsAccumulated(R) ==
    LET first == CHOOSE d \in {DomainOf[a] : a \in R} : TRUE
    IN  {{a \in R : DomainOf[a] = first}, R}

\* One group per domain that occurs among the recipients.
GroupByDomain(R) ==
    {{a \in R : DomainOf[a] = d} : d \in {DomainOf[a] : a \in R}}

\* Queue::add, called only when there is a remote recipient.
AddToQueue(mail, R) ==
    queue' = IF R = {} THEN queue
             ELSE Append(queue, [mail |-> mail, groups |-> GroupByDomain(R)])

\* First loop of deliver_local_mail: every home is looked up before a
\* single file is written.
AllHomesFound(rcpts) ==
    \A i \in LocalIndices(rcpts) : HasMailboxHome(rcpts[i])

\* Mutated: the last recipient is forgotten.
StoreBelow(mail, rcpts, k) ==
    stored' = stored \cup
              {<<mail, rcpts[i]>> : i \in {j \in LocalIndices(rcpts) : j < k}}

\* Second loop: files are written in the order of the recipients; the
\* first k positions are done when it ends or a write fails.
StoreUpTo(mail, rcpts, k) ==
    stored' = stored \cup
              {<<mail, rcpts[i]>> : i \in {j \in LocalIndices(rcpts) : j <= k}}

\* deliver_mail returned Ok: the remote part is queued, every local
\* recipient has its file.
DeliverOk(rcpts) ==
    /\ uuid < MaxMails
    /\ uuid' = uuid + 1
    /\ AddToQueue(uuid, RemoteRecipients(rcpts))
    /\ AllHomesFound(rcpts)
    /\ StoreUpTo(uuid, rcpts, Len(rcpts))

\* Mutated: the recipients that are found get their file before the next
\* one is looked up.
StoreWhileLookingUp(rcpts) ==
    /\ uuid < MaxMails
    /\ uuid' = uuid + 1
    /\ AddToQueue(uuid, RemoteRecipients(rcpts))
    /\ \E failing \in LocalIndices(rcpts) :
         /\ ~HasMailboxHome(rcpts[failing])
         /\ \A i \in LocalIndices(rcpts) : i < failing => HasMailboxHome(rcpts[i])
         /\ StoreUpTo(uuid, rcpts, failing - 1)

\* deliver_mail returned NoSuchUser.  The remote part is already queued.
DeliverNoSuchUser(rcpts) ==
    /\ uuid < MaxMails
    /\ uuid' = uuid + 1
    /\ AddToQueue(uuid, RemoteRecipients(rcpts))
    /\ ~AllHomesFound(rcpts)
    /\ UNCHANGED stored

\* deliver_mail returned MailboxIO: writing the file of some recipient
\* failed, after those before it were written.
DeliverMailboxIO(rcpts) ==
    /\ uuid < MaxMails
    /\ uuid' = uuid + 1
    /\ AddToQueue(uuid, RemoteRecipients(rcpts))
    /\ AllHomesFound(rcpts)
    /\ \E failing \in LocalIndices(rcpts) : StoreUpTo(uuid, rcpts, failing - 1)

-----------------------------------------------------------------------------
\* <<mail, recipient>> pairs this server is responsible for: in a mailbox, or
\* in the queue.
Queued ==
    UNION {{<<queue[i].mail, a>> : a \in UNION queue[i].groups} :
              i \in DOMAIN queue}

Handed == stored \cup Queued

\* Every group is a non-empty set of remote addresses of one domain, and
\* every entry has one: what Queue::add is documented to build (the comments
\* at queue.rs:18 and queue.rs:35-39) and SmtpClient::deliver relies on when
\* it takes the first recipient's domain for the host of all of them.
QueueWellFormed ==
    \A i \in DOMAIN queue :
        /\ queue[i].groups # {}
        /\ \A g \in queue[i].groups :
             /\ g # {}
             /\ \A a \in g : ~IsLocalResponsibility(a)
             /\ \A a, b \in g : DomainOf[a] = DomainOf[b]
        /\ \A g, h \in queue[i].groups : g # h => g \cap h = {}
=============================================================================
