------------------------------ MODULE Maildir ------------------------------
(***************************************************************************)
(* Storage of maildir.rs: the names it gives to files, and what            *)
(* fs::write(), which truncates, makes of two equal names.                 *)
(*                                                                         *)
(* Time is counted in milliseconds since the process started, of which     *)
(* Second make a second of the wall clock (1000 in reality).  The process  *)
(* starts anywhere in a wall clock second.  Every connection gets a        *)
(* Storage of its own (net.rs:51) that remembers when it was created.      *)
(***************************************************************************)
EXTENDS Naturals

CONSTANTS Mailboxes,  \* "new" directories
          Second,     \* milliseconds in a second
          MaxTime,    \* bound: the clock stops here
          MaxMails,   \* bound: calls of store()
          NoMail,     \* no file of that name
          Partial     \* a file of which only a part, or nothing, was written

ASSUME MaildirAssumption ==
    /\ Second \in Nat \ {0}
    /\ MaxTime \in Nat
    /\ MaxMails \in Nat
    /\ NoMail \notin Nat
    /\ Partial \notin Nat

VARIABLES now,           \* milliseconds since the process started
          offset,        \* how far into a second the process started
          base_instant,  \* when the Storage of this connection was created
          mails,         \* the calls of store() so far: each mail its own id
          files,         \* files[mb]: the file names of mb with their contents
          storedAt       \* history: storedAt[m], when mail m was stored

maildirVars == <<now, offset, base_instant, mails, files, storedAt>>

Times == 0..MaxTime
UnixTimes == 0..((MaxTime + Second) \div Second)
Names == [unixtime : UnixTimes, millis : Times]
Mails == 0..(MaxMails - 1)

MaildirTypeOK ==
    /\ now \in Times
    /\ offset \in 0..(Second - 1)
    /\ base_instant \in 0..now
    /\ mails \in 0..MaxMails
    /\ files \in [Mailboxes -> [Names -> Mails \cup {NoMail, Partial}]]
    /\ storedAt \in [Mails -> Times]
    /\ \A mb \in Mailboxes, n \in Names : files[mb][n] \in Mails => files[mb][n] < mails

Init ==
    /\ now = 0
    /\ offset \in 0..(Second - 1)
    /\ base_instant = 0
    /\ mails = 0
    /\ files = [mb \in Mailboxes |-> [n \in Names |-> NoMail]]
    /\ storedAt = [m \in Mails |-> 0]

-----------------------------------------------------------------------------
\* Mutated: the wall clock is left out.
NameWithoutClock ==
    [unixtime |-> 0, millis |-> now - base_instant]

\* Mutated: the milliseconds are left out.
NameWithoutMillis ==
    [unixtime |-> (now + offset) \div Second, millis |-> 0]

maildir_file_name ==
    [unixtime |-> (now + offset) \div Second, millis |-> now - base_instant]

Tick ==
    /\ now < MaxTime
    /\ now' = now + 1
    /\ UNCHANGED <<offset, base_instant, mails, files, storedAt>>

\* Mutated: the instant is taken from the wall clock.
ConnectByWallClock ==
    /\ base_instant' = now + offset
    /\ UNCHANGED <<now, offset, mails, files, storedAt>>

\* Storage::new.
Connect ==
    /\ base_instant' = now
    /\ UNCHANGED <<now, offset, mails, files, storedAt>>

Write(content) ==
    /\ mails < MaxMails
    /\ mails' = mails + 1
    /\ storedAt' = [storedAt EXCEPT ![mails] = now]
    /\ \E mb \in Mailboxes :
         files' = [files EXCEPT ![mb][maildir_file_name] = content]
    /\ UNCHANGED <<now, offset, base_instant>>

\* Storage::store; the call for one recipient of one mail.
Store == Write(mails)

\* The write fails: the file is there by then, in new/ where it is read, and
\* what an older one of that name held is gone.
StoreFails == Write(Partial)

Next == Tick \/ Connect \/ Store \/ StoreFails

Spec == Init /\ [][Next]_maildirVars

-----------------------------------------------------------------------------
Present(m) == \E mb \in Mailboxes, n \in Names : files[mb][n] = m

\* A stored mail disappears only when another one is stored, or fails to be,
\* within the same second of the wall clock: the file name keeps apart
\* whatever two connections, of whatever age, store in different seconds.
LostOnlyWithinSecond ==
    [][ \A m \in Mails : Present(m) /\ ~Present(m)'
          => (storedAt[m] + offset) \div Second = (now + offset) \div Second
      ]_maildirVars

\* A connection overwrites a mail of its own only within the millisecond in
\* which it stored it: the age in the name keeps apart what it stores at
\* different times, whatever the wall clock.  (A recipient named twice in one
\* envelope may be such a case: server.rs:660 stores the mail once for each.)
OwnLostOnlyWithinMilli ==
    [][ \A m \in Mails :
          Present(m) /\ ~Present(m)' /\ storedAt[m] # now
              => storedAt[m] <= base_instant ]_maildirVars

\* maildir.rs:92 of the name: "M value is milliseconds since process start
\* (roughly)".
MillisSinceProcessStart ==
    [][ \A mb \in Mailboxes, n \in Names :
          files'[mb][n] # files[mb][n] => n.millis = now ]_maildirVars
=============================================================================
