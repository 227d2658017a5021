----------------------------- MODULE MailServer -----------------------------
(***************************************************************************)
(* The process: main's accept loop with process_socket_silent (main.rs),   *)
(* which serves one connection to its end and then, if the connection      *)
(* ended well, fires the queue once before it accepts the next one.  All   *)
(* of this is awaited in the select! arm itself: there is one connection,  *)
(* or one delivery, at a time.                                             *)
(*                                                                         *)
(* The process can die in any phase (a panic, the operator); the queue is  *)
(* gone then, the mailboxes and the user database stay.                    *)
(***************************************************************************)
EXTENDS SmtpSession, OutgoingQueue

VARIABLES phase,    \* "accepting", "serving" or "firing"
          accepted, \* history: the mail this connection had accepted, as a set
          settled   \* history: mails accepted by connections that ended well

loopVars == <<phase, accepted, settled>>
serverVars == <<users, dbUp, uuid, stored, queue, session, reply,
                job, attempted, lost, phase, accepted, settled>>

ServerTypeOK ==
    /\ TypeOK
    /\ FireTypeOK
    /\ phase \in {"accepting", "serving", "firing"}
    /\ phase = "firing" <=> job # NoJob
    /\ phase # "serving" => In(EndedOk \cup EndedErr)
    /\ accepted \subseteq Nat
    /\ settled \subseteq Nat

ServerInit ==
    /\ DbInit
    /\ DeliveryInit
    /\ FireInit
    /\ session = Bare("EOF")
    /\ reply = NoReply
    /\ phase = "accepting"
    /\ accepted = {}
    /\ settled = {}

-----------------------------------------------------------------------------
Accept ==
    /\ phase = "accepting"
    /\ phase' = "serving"
    /\ session' = Bare("ACCEPTED")
    /\ reply' = NoReply
    /\ UNCHANGED <<dbVars, deliveryVars, fireVars, accepted, settled>>

\* The mail the handler built was accepted, and its 250 written.
Accepts250 == uuid' # uuid /\ session'.state = "DATACOMPLETE"

Serve ==
    /\ phase = "serving"
    /\ Handle
    /\ accepted' = IF Accepts250 THEN {uuid} ELSE accepted
    /\ UNCHANGED <<fireVars, phase, settled>>

\* server_loop returned Ok: fire() is called.
EndOk ==
    /\ phase = "serving"
    /\ In(EndedOk)
    /\ settled' = settled \cup accepted
    /\ accepted' = {}
    /\ IF queue = <<>>
       THEN phase' = "accepting" /\ UNCHANGED <<queue, fireVars>>
       ELSE phase' = "firing" /\ Pop
    /\ UNCHANGED <<dbVars, uuid, stored, sessionVars>>

\* server_loop returned an error, which is only logged.
EndErr ==
    /\ phase = "serving"
    /\ In(EndedErr)
    /\ phase' = "accepting"
    /\ accepted' = {}
    /\ UNCHANGED <<dbVars, deliveryVars, sessionVars, fireVars, settled>>

Deliver ==
    /\ phase = "firing"
    /\ Attempt
    /\ UNCHANGED <<dbVars, uuid, stored, sessionVars, loopVars>>

FireDone ==
    /\ phase = "firing"
    /\ FireReturns
    /\ phase' = "accepting"
    /\ UNCHANGED <<dbVars, uuid, stored, sessionVars, accepted, settled>>

Crash ==
    /\ QueueDies
    /\ phase' = "accepting"
    /\ session' = Bare("IOERR")
    /\ reply' = NoReply
    /\ accepted' = {}
    /\ UNCHANGED <<dbVars, uuid, stored, settled>>

Outside ==
    /\ DbNext
    /\ UNCHANGED <<deliveryVars, sessionVars, fireVars, loopVars>>

ServerNext ==
    Accept \/ Serve \/ EndOk \/ EndErr \/ Deliver \/ FireDone \/ Crash \/ Outside

ServerSpec == ServerInit /\ [][ServerNext]_serverVars

\* What the process does on its own goes on: it leaves a connection that has
\* ended, and a delivery ends because every step of SmtpClient has a timeout
\* or is a single write.  Nobody has to connect, say anything or hang up.
Fairness ==
    /\ WF_serverVars(EndOk)
    /\ WF_serverVars(EndErr)
    /\ WF_serverVars(Deliver)
    /\ WF_serverVars(FireDone)

FairServerSpec == ServerSpec /\ Fairness

-----------------------------------------------------------------------------
\* When the server listens again, no mail accepted over a connection that
\* ended well is left in the queue, though fire() takes a single entry: a
\* connection has at most one mail accepted, and its entry is the newest.
\* (What is left stems from refused mails and broken connections.)
SettledIsAttempted ==
    phase = "accepting" =>
        \A i \in DOMAIN queue : queue[i].mail \notin settled

\* The queue attempts every group it took at most once, whatever connections
\* come and however they end, and loses groups only when the process dies.
RelayContract ==
    INSTANCE Relay WITH
        Mails <- 0..MaxMails,
        Groups <- SUBSET Addrs,
        pending <- Pending

ImplementsRelay == RelayContract!Spec

\* <<mail, recipient>> pairs with something to show for: a file, a group in
\* the queue or in hand, an attempt, or the end of a process.
Served ==
    stored \cup UNION {{p[1]} \X p[2] : p \in Pending \cup attempted \cup lost}

\* 250 is given for a mail only when all of its recipients are served, and
\* nobody served is forgotten again: no pop, return of fire(), connection or
\* later failure drops a recipient in silence.
NobodyForgotten ==
    [][ /\ Served \subseteq Served'
        /\ Accepts250 =>
             \A i \in DOMAIN session.recipients :
                 <<uuid, session.recipients[i]>> \in Served' ]_serverVars

\* A delivery does not keep the server from listening for ever.
FireEnds == phase = "firing" ~> phase = "accepting"

\* While connections keep ending well and the queue gets no new entry, the
\* backlog is worked off, one entry per connection.
GoodEndings == []<><<EndOk>>_serverVars
NoNewEntries == <>[][Len(queue') <= Len(queue)]_queue
BacklogDrains == GoodEndings /\ NoNewEntries => <>[](queue = <<>>)
=============================================================================
