----------------------------- MODULE AcceptLoop -----------------------------
(***************************************************************************)
(* The loop of main.rs with both of its listeners: select! takes whichever *)
(* port has a connection, at random when both have one, and its arm runs   *)
(* the whole connection, and the delivery after it, before the next turn.  *)
(*                                                                         *)
(* A TLS connection starts with a handshake, which is awaited too.  When   *)
(* accept() fails at the TLS port, the pattern of that arm does not match  *)
(* and the arm is disabled until select! is entered again.                 *)
(***************************************************************************)
EXTENDS MailServer

VARIABLES waiting,      \* the ports at which somebody waits to be accepted
          tlsArmed,     \* the TLS arm of this select! is not disabled
          handshaking   \* a TLS handshake is awaited

acceptVars == <<waiting, tlsArmed, handshaking>>
allVars == <<users, dbUp, uuid, stored, queue, session, reply,
             job, attempted, lost, phase, accepted, settled,
             waiting, tlsArmed, handshaking>>

Selecting == phase = "accepting" /\ ~handshaking

AcceptInit ==
    /\ ServerInit
    /\ waiting = {}
    /\ tlsArmed = TRUE
    /\ handshaking = FALSE

-----------------------------------------------------------------------------
\* Somebody connects (bound: one at a time waits at each port).
Arrive ==
    /\ \E port \in {"plain", "tls"} \ waiting : waiting' = waiting \cup {port}
    /\ UNCHANGED <<serverVars, tlsArmed, handshaking>>

\* Mutated: the TLS port is always served first.
AcceptPlainBiased ==
    /\ Selecting
    /\ waiting = {"plain"}
    /\ Accept
    /\ waiting' = {}
    /\ tlsArmed' = TRUE
    /\ UNCHANGED handshaking

\* Mutated: one future is kept for the TLS port, and polled no more once it
\* has failed.
AcceptPlainKeepingFuture ==
    /\ Selecting
    /\ "plain" \in waiting
    /\ Accept
    /\ waiting' = waiting \ {"plain"}
    /\ UNCHANGED <<tlsArmed, handshaking>>

\* The next select! has both arms again.
AcceptPlain ==
    /\ Selecting
    /\ "plain" \in waiting
    /\ Accept
    /\ waiting' = waiting \ {"plain"}
    /\ tlsArmed' = TRUE
    /\ UNCHANGED handshaking

\* Logged, and the loop goes round.
PlainAcceptError ==
    /\ Selecting
    /\ ~tlsArmed
    /\ tlsArmed' = TRUE
    /\ UNCHANGED <<serverVars, waiting, handshaking>>

AcceptTls ==
    /\ Selecting
    /\ tlsArmed
    /\ "tls" \in waiting
    /\ waiting' = waiting \ {"tls"}
    /\ handshaking' = TRUE
    /\ UNCHANGED <<serverVars, tlsArmed>>

\* conditional_tls_accept returns None.
TlsAcceptError ==
    /\ Selecting
    /\ tlsArmed
    /\ tlsArmed' = FALSE
    /\ UNCHANGED <<serverVars, waiting, handshaking>>

HandshakeOk ==
    /\ handshaking
    /\ Accept
    /\ handshaking' = FALSE
    /\ UNCHANGED <<waiting, tlsArmed>>

HandshakeFails ==
    /\ handshaking
    /\ handshaking' = FALSE
    /\ UNCHANGED <<serverVars, waiting, tlsArmed>>

ServerStep ==
    /\ Serve \/ EndOk \/ EndErr \/ Deliver \/ FireDone \/ Outside
    /\ UNCHANGED acceptVars

\* The sockets go with the process.
CrashAll ==
    /\ Crash
    /\ waiting' = {}
    /\ tlsArmed' = TRUE
    /\ handshaking' = FALSE

AcceptNext ==
    \/ Arrive \/ AcceptPlain \/ PlainAcceptError \/ AcceptTls \/ TlsAcceptError
    \/ HandshakeOk \/ HandshakeFails \/ ServerStep \/ CrashAll

AcceptSpec == AcceptInit /\ [][AcceptNext]_allVars

\* What the process does on its own goes on (Fairness of MailServer); select!
\* polls its arms in random order, so none that is ready again and again is
\* passed over for ever; and accept() does not fail for ever.
FairAcceptSpec ==
    /\ AcceptSpec
    /\ Fairness
    /\ SF_allVars(AcceptPlain)
    /\ SF_allVars(AcceptTls)

-----------------------------------------------------------------------------
\* If every connection ends some time, who waits at the plain port is served,
\* however many come to the TLS port (main.rs:110).
PlainServed == []<>Selecting => ("plain" \in waiting ~> "plain" \notin waiting)

\* If moreover plain connections keep coming, who waits at the TLS port is
\* served in spite of failing accepts (main.rs:124): only a new turn of the
\* loop brings the disabled arm back.
TlsServed ==
    []<>Selecting /\ []<><<AcceptPlain>>_allVars
        => ("tls" \in waiting ~> "tls" \notin waiting)
=============================================================================
