--------------------------- MODULE OutgoingQueue ---------------------------
(***************************************************************************)
(* Queue::fire and Queue::deliver of queue.rs (Queue::add is AddToQueue of *)
(* Delivery).  The delivery to one group, SmtpClient::deliver, is an       *)
(* attempt that ends: the queue treats success and failure alike, an error *)
(* is logged after the last group and the entry is gone either way.        *)
(***************************************************************************)
EXTENDS Delivery

CONSTANT NoJob  \* fire() is not at work

ASSUME QueueAssumption == NoJob \notin Entries

VARIABLES job,        \* the entry fire() has popped, with the groups left
          attempted,  \* history: {<<mail, group>>} deliver() was called for
          lost        \* history: {<<mail, group>>} the process died with

fireVars == <<job, attempted, lost>>

FireTypeOK ==
    /\ job \in Entries \cup {NoJob}
    /\ attempted \subseteq Nat \X SUBSET Addrs
    /\ lost \subseteq Nat \X SUBSET Addrs

FireInit ==
    /\ job = NoJob
    /\ attempted = {}
    /\ lost = {}

GroupsOf(entry) == {entry.mail} \X entry.groups

Pending ==
    (UNION {GroupsOf(queue[i]) : i \in DOMAIN queue})
        \cup (IF job = NoJob THEN {} ELSE GroupsOf(job))

-----------------------------------------------------------------------------
\* Mutated: the oldest entry first.
PopOldest ==
    /\ job' = Head(queue)
    /\ queue' = Tail(queue)
    /\ UNCHANGED <<attempted, lost>>

\* Mutated: the entry is looked at but not removed.
Peek ==
    /\ job' = queue[Len(queue)]
    /\ UNCHANGED <<queue, attempted, lost>>

\* Vec::pop: the newest entry, and only one.
Pop ==
    /\ job' = queue[Len(queue)]
    /\ queue' = SubSeq(queue, 1, Len(queue) - 1)
    /\ UNCHANGED <<attempted, lost>>

\* Mutated: a failed delivery keeps the group for another attempt.
AttemptAndKeep ==
    /\ job # NoJob
    /\ \E g \in job.groups : attempted' = attempted \cup {<<job.mail, g>>}
    /\ UNCHANGED <<queue, job, lost>>

\* One turn of the loop over the groups, in whatever order the MultiMap
\* listed the domains.
Attempt ==
    /\ job # NoJob
    /\ \E g \in job.groups :
         /\ job' = [job EXCEPT !.groups = @ \ {g}]
         /\ attempted' = attempted \cup {<<job.mail, g>>}
    /\ UNCHANGED <<queue, lost>>

\* Mutated: fire() returns with an entry still in hand.
FireReturnsBusy ==
    /\ job # NoJob
    /\ job.groups = {}
    /\ UNCHANGED <<queue, job, attempted, lost>>

\* Mutated: fire() returns with the first error.
FireReturnsEarly ==
    /\ job # NoJob
    /\ job' = NoJob
    /\ UNCHANGED <<queue, attempted, lost>>

FireReturns ==
    /\ job # NoJob
    /\ job.groups = {}
    /\ job' = NoJob
    /\ UNCHANGED <<queue, attempted, lost>>

\* The queue is kept in memory only.
QueueDies ==
    /\ queue' = <<>>
    /\ job' = NoJob
    /\ lost' = lost \cup Pending
    /\ UNCHANGED attempted

-----------------------------------------------------------------------------
\* No recipient gets two deliveries of one mail, though the groups of an
\* entry are attempted one by one and whatever becomes of the others: fire()
\* pops the entry before it begins, and the groups share nobody.
OncePerRecipient ==
    \A p, q \in attempted :
        p # q /\ p[1] = q[1] => p[2] \cap q[2] = {}
=============================================================================
