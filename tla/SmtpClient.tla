----------------------------- MODULE SmtpClient -----------------------------
(***************************************************************************)
(* SmtpClient::deliver of client.rs: after the search for a host, run()    *)
(* carries on the dialogue with it.  Each command is written and then one  *)
(* read is waited for, at most 30 seconds; whatever that read returns is   *)
(* the reply, and only the first three characters of it are looked at.     *)
(*                                                                         *)
(* The remote server (external) takes the commands in their order and may  *)
(* accept or refuse each, stay silent, be late, or close the connection.   *)
(* A reply travels as pieces, the lines of the reply or parts of a line; a *)
(* read returns any number of the pieces that have arrived.                *)
(***************************************************************************)
EXTENDS MxDiscovery, Sequences, Functions

CONSTANT Recipients  \* the recipients of one domain, in the order of RCPT

ASSUME RecipientsGiven == Recipients \in Seq(Range(Recipients)) \ {<<>>}

VARIABLES next,    \* which command of Script is said next, or was said last
          inbox,   \* commands on their way to the remote server
          wire,    \* pieces of replies on their way to the client
          closed,  \* the remote server has closed the connection
          rcpts,   \* the recipients the remote server has accepted
          taken,   \* the recipients it has taken the mail for
          whole    \* history: every read returned one whole reply

dialogueVars == <<next, inbox, wire, closed, rcpts, taken, whole>>
clientVars == <<step, tlsConfigured, records, remote_hosts, host, probed,
                next, inbox, wire, closed, rcpts, taken, whole>>

Group == Range(Recipients)

-----------------------------------------------------------------------------
\* The dialogue of run().  (QUIT, whose result is ignored: see Advance.)
Bare(verb) == [verb |-> verb]
Rcpt(a) == [verb |-> "RCPT", rcpt |-> a]

Script == <<Bare("EHLO"), Bare("MAIL")>>
              \o [i \in DOMAIN Recipients |-> Rcpt(Recipients[i])]
              \o <<Bare("DATA"), Bare("BODY")>>

Commands == Range(Script) \cup {Bare("QUIT")}

Expected(c) == IF c.verb = "DATA" THEN 354 ELSE 250

NoCode == 0  \* a piece that does not begin with a reply code
Refusal == 550

\* A reply in one piece or in two: a line more, or a line cut in two.
Piece(code, last) == [code |-> code, last |-> last]
Reply(code) ==
    {<<Piece(code, TRUE)>>} \cup
        {<<Piece(code, FALSE), Piece(c, TRUE)>> : c \in {code, NoCode}}

Pieces == [code : {250, 354, Refusal, NoCode}, last : BOOLEAN]

Failed == {"DnsLookupError", "NoSmtpHostError", "IoError", "SmtpError", "Timeout"}
Finished == Failed \cup {"ok", "panic"}

ClientTypeOK ==
    /\ step \in Searching \cup {"say", "expect"} \cup Finished
    /\ DiscoveryTypeOK
    /\ next \in DOMAIN Script
    /\ inbox \in Seq(Commands)
    /\ wire \in Seq(Pieces)
    /\ closed \in BOOLEAN
    /\ rcpts \subseteq Group
    /\ taken \in {{}, rcpts}
    /\ whole \in BOOLEAN

ClientInit ==
    /\ DiscoveryInit
    /\ next = 1
    /\ inbox = <<>>
    /\ wire = <<>>
    /\ closed = FALSE
    /\ rcpts = {}
    /\ taken = {}
    /\ whole = TRUE

-----------------------------------------------------------------------------
Search ==
    /\ Discover
    /\ UNCHANGED dialogueVars

Send(c) == inbox' = IF closed THEN inbox ELSE Append(inbox, c)

\* The command is written at once: the remote has answered what came before.
Say ==
    /\ step = "say"
    /\ step' = "expect"
    /\ Send(Script[next])
    /\ UNCHANGED <<discoveryVars, next, wire, closed, rcpts, taken, whole>>

\* A write to a connection that is gone; or a body larger than the socket
\* takes in one write, of which only the beginning is sent.
SayFails ==
    /\ step = "say"
    /\ closed \/ Script[next].verb = "BODY"
    /\ step' = "IoError"
    /\ UNCHANGED <<discoveryVars, dialogueVars>>

IsWhole(read) == \A i \in DOMAIN read : read[i].last <=> i = Len(read)

\* Mutated: a refused recipient does not end the dialogue.
MatchesForgiving(read) ==
    read[1].code = Expected(Script[next]) \/ Script[next].verb = "RCPT"

\* starts_with: what follows the first code is not looked at.
Matches(read) == read[1].code = Expected(Script[next])

\* Mutated: the next command is fetched without looking for the end.
AdvanceOffEnd ==
    step' = "say" /\ next' = next + 1 /\ UNCHANGED inbox

\* Mutated: the 354 counts as the acknowledgement.
AdvanceEarly ==
    IF next + 1 < Len(Script)
    THEN step' = "say" /\ next' = next + 1 /\ UNCHANGED inbox
    ELSE step' = "ok" /\ Send(Bare("QUIT")) /\ UNCHANGED next

Advance ==
    IF next < Len(Script)
    THEN step' = "say" /\ next' = next + 1 /\ UNCHANGED inbox
    ELSE step' = "ok" /\ Send(Bare("QUIT")) /\ UNCHANGED next

\* One read: the dialogue goes on, or it is over for all recipients.
Expect ==
    /\ step = "expect"
    /\ \E n \in DOMAIN wire :
         LET read == SubSeq(wire, 1, n) IN
           /\ \/ Matches(read) /\ Advance
              \/ ~Matches(read) /\ step' = "SmtpError" /\ UNCHANGED <<next, inbox>>
           /\ wire' = SubSeq(wire, n + 1, Len(wire))
           /\ whole' = (whole /\ IsWhole(read))
    /\ UNCHANGED <<discoveryVars, closed, rcpts, taken>>

\* A read of nothing, or of an error.
ExpectClosed ==
    /\ step = "expect"
    /\ closed
    /\ wire = <<>>
    /\ step' \in {"SmtpError", "IoError"}
    /\ UNCHANGED <<discoveryVars, dialogueVars>>

\* Mutated: the read is awaited without a timeout.
NoTimeout == FALSE /\ UNCHANGED clientVars

ExpectTimeout ==
    /\ step = "expect"
    /\ wire = <<>>
    /\ step' = "Timeout"
    /\ UNCHANGED <<discoveryVars, dialogueVars>>

-----------------------------------------------------------------------------
\* The remote server (external).  It says 354 only if there is a recipient;
\* with the end of the body it accepts, it has taken the mail.
RemoteAccepts ==
    /\ inbox # <<>>
    /\ LET c == Head(inbox) IN
         /\ c.verb # "QUIT"
         /\ c.verb = "DATA" => rcpts # {}
         /\ \E r \in Reply(Expected(c)) : wire' = wire \o r
         /\ rcpts' = IF c.verb = "RCPT" THEN rcpts \cup {c.rcpt} ELSE rcpts
         /\ taken' = IF c.verb = "BODY" THEN rcpts ELSE taken
    /\ inbox' = Tail(inbox)
    /\ UNCHANGED <<step, discoveryVars, next, closed, whole>>

RemoteRefuses ==
    /\ inbox # <<>>
    /\ Head(inbox).verb # "QUIT"
    /\ \E r \in Reply(Refusal) : wire' = wire \o r
    /\ inbox' = Tail(inbox)
    /\ UNCHANGED <<step, discoveryVars, next, closed, rcpts, taken, whole>>

\* At a QUIT or at any time; what it has not read is never read.
RemoteCloses ==
    /\ step \notin Searching
    /\ ~closed
    /\ closed' = TRUE
    /\ inbox' = <<>>
    /\ UNCHANGED <<step, discoveryVars, next, wire, rcpts, taken, whole>>

-----------------------------------------------------------------------------
ClientStep == Search \/ Say \/ SayFails \/ Expect \/ ExpectClosed \/ ExpectTimeout

Remote == RemoteAccepts \/ RemoteRefuses \/ RemoteCloses

\* deliver() has returned.
Over == step \in Finished /\ UNCHANGED clientVars

ClientNext == ClientStep \/ Remote \/ Over

ClientSpec == ClientInit /\ [][ClientNext]_clientVars

\* Lookups, probes and reads have timeouts, commands are single writes; the
\* remote server owes nothing.
FairClientSpec == ClientSpec /\ WF_clientVars(ClientStep)

-----------------------------------------------------------------------------
\* As long as replies and reads agree, the mail is delivered to the whole
\* group or to nobody: one refused recipient ends run() before DATA.
AllOrNothing == whole => taken \in {{}, Group}

\* Ok is returned only after the remote took the mail (which is what lets
\* fire() drop the entry), whatever arrives in one read; an error may be
\* followed by the mail being taken, once, after all.
Outcome ==
    IF step \in Failed THEN "error"
    ELSE IF step \in {"ok", "panic"} THEN step
    ELSE "none"

DeliveryContract ==
    INSTANCE RemoteDelivery WITH outcome <- Outcome, taken <- taken

ImplementsRemoteDelivery == DeliveryContract!Spec

\* deliver() returns, however the DNS and the remote server behave: fire(),
\* which holds up the server, waits for it.
DeliverEnds == <>(step \in Finished)

\* "previous 250 acknowledged successful mail delivery" (client.rs:295): the
\* delivery to the recipients, all of them.
Acknowledged == step = "ok" => taken = Group
=============================================================================
