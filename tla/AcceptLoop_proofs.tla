-------------------------- MODULE AcceptLoop_proofs --------------------------
(***************************************************************************)
(* The loop with its two listeners is a MailServer: what is proved of the  *)
(* process with one abstract listener holds of it.                         *)
(***************************************************************************)
EXTENDS AcceptLoop, MailServer_proofs

LEMMA LoopStep ==
    ASSUME [AcceptNext]_allVars
    PROVE  [ServerNext]_serverVars
<1>1. CASE Arrive \/ PlainAcceptError \/ AcceptTls \/ TlsAcceptError \/ HandshakeFails
  BY <1>1 DEF Arrive, PlainAcceptError, AcceptTls, TlsAcceptError, HandshakeFails
<1>2. CASE AcceptPlain \/ HandshakeOk
  BY <1>2 DEF AcceptPlain, HandshakeOk, ServerNext
<1>3. CASE ServerStep \/ CrashAll
  BY <1>3 DEF ServerStep, CrashAll, ServerNext
<1>4. CASE UNCHANGED allVars
  BY <1>4 DEF allVars, serverVars
<1> QED
  BY <1>1, <1>2, <1>3, <1>4 DEF AcceptNext

\* Both ports, the handshake that is awaited in the arm and the arm that
\* failed accepts disable leave the process what MailServer says it is: one
\* connection, or one delivery, at a time (the select! of main).
THEOREM LoopImplementsServer == AcceptSpec => ServerSpec
<1>1. AcceptInit => ServerInit
  BY DEF AcceptInit
<1> QED
  BY <1>1, LoopStep, PTL DEF AcceptSpec, ServerSpec

\* So over both ports no mail accepted over a connection that ended well is
\* still in the queue when the select! is entered again.
THEOREM LoopAttemptsSettled == AcceptSpec => []SettledIsAttempted
<1> QED
  BY LoopImplementsServer, SettledMailsAttempted, PTL

\* And the queue, fed over both ports, implements Relay (Queue::add and fire
\* in queue.rs).
THEOREM LoopImplementsRelay == AcceptSpec => ImplementsRelay
<1> QED
  BY LoopImplementsServer, QueueImplementsRelay, PTL

\* The server is no open relay at either port: nothing main does, whatever
\* port a client comes from, makes the queue longer without a user.
THEOREM LoopRelaysForUsers == AcceptSpec => OnlyUsersRelay
<1> QED
  BY LoopImplementsServer, ServerRelaysForUsers, PTL

\* Nor does anything main does at either port forget a recipient of a mail
\* answered with 250.
THEOREM LoopForgetsNobody == AcceptSpec => NobodyForgotten
<1> QED
  BY LoopImplementsServer, ServerForgetsNobody, PTL
=============================================================================
