# A TLA+ verification of whalemail

whalemail is a small SMTP server: it takes mails for the mailboxes of one host,
lets its users authenticate and relay mails to other hosts, and keeps an
in-memory queue of what has to be relayed. This directory models the server
(`src/src/`), checks the models with TLC and proves theorems about them with
TLAPS.

Contents: 1 the system, 2 the modules, 3 abstractions, 4 the runs, 5 fairness,
6 findings, 7 the proofs, 8 what is not modelled, 9 what is left.

## 1. The system

| component | code | state it keeps | operations |
|---|---|---|---|
| accept loop | `main.rs` | nothing between connections; the shared `QueueMtx` and `UserDBMtx` | accept a plain or a TLS connection, serve it to its end, fire the queue |
| connection | `net.rs` | socket | read up to 4096 bytes, hand them to `SmtpServer::handle` as text (if they are not UTF-8, as a text about them), write a reply |
| SMTP server session | `smtp/server.rs`, `smtp/envelope.rs`, `user.rs` | `SmtpState`: a variant per protocol state, each with its own data (user, sender, recipients, body) | one arm of `handle` per state and verb |
| SASL authentication | `auth.rs`, `smtp/server.rs` | the rsasl session, its write buffer, the `EhloState` it started from | `init_sasl`, `handle_auth_step`, the validation callback |
| mail delivery | `smtp/server.rs` | nothing of its own | `deliver_mail`, `deliver_local_mail` |
| Maildir storage | `maildir.rs` | the moment it was created; the file system | `store`, `maildir_file_name` |
| outgoing queue | `queue.rs` | `entries`, in memory only | `add`, `fire`, `deliver` |
| SMTP client | `smtp/client.rs` | one connection to a remote server | `deliver`, MX lookup, `run` |
| user database | `userdb.rs`, `userdb/drivers/postgres.rs` | a PostgreSQL table somebody else edits | `authenticate`, `get_mailboxhome`, `is_local_mailbox` |
| TLS, configuration | `tls.rs`, `config.rs` | read once at start | - |

How they interact. `main` accepts one connection and awaits everything that
follows from it inside the arm of its `select!`: `server_loop` builds a session
and a `Storage` for the connection, `socket_loop` hands every read to
`handle`, and when the connection has ended *well* (`Ok`), `Queue::fire` pops one
entry and delivers its groups. Only then is the next connection accepted. So the
steps of two connections never interleave. What interleaves with a session is
the outside world: the table `users` changes between (and the database fails
during) any two commands, any write and any read of the socket can fail, and
the process can die.

What is hard about it:

* *Permissions are checked early and used late.* The right to use a sender is
  checked at `MAIL`, the right to relay at each `RCPT`; the mail is queued at
  the end of `DATA`, possibly after refused commands, failed deliveries and a
  rollback to `RCPT`, while the table `users` has changed. Correct: whatever
  is in the envelope was permitted to the user who is in the session *now*.
* *State is moved from variant to variant by hand.* `RcptState::new` takes the
  user out of the `MailFromState` and has to put it back when it refuses;
  `RcptState::from` has to restore all of the envelope after a failed delivery.
  Correct: nothing of an envelope is lost until the mail is accepted.
* *A delivery has many parts, any of which fails.* Remote recipients are queued
  first, all homes are looked up next, files are written one by one. Correct:
  `250` means that every recipient is served, and no attempt reaches anybody
  not named. What `450` means is another matter (finding F1).
* *The queue is popped from the end, one entry per connection.* Correct: a
  group is attempted at most once; what a connection that ended well had
  accepted is attempted before the next connection is served.
* *File names are built from two clocks.* Correct: no file is overwritten
  (which holds only across seconds and, within a connection, across
  milliseconds; finding F3).
* *TCP has no lines.* The server looks for the end of a mail in what one read
  returned, the client takes what one read returned for a reply; a sender's line
  or a server's reply may arrive in pieces, or with the next one. Correct: a
  mail is accepted when it ended and stored as it was meant; `Ok` is returned
  for a mail the remote server has taken, for all recipients. The code achieves
  the first where no read ends at an awkward place and the second almost (F4).
* *Nor has it characters.* `socket_loop` decodes each read by itself. A read that
  is not UTF-8, be it 8-bit text or one that ends inside a character (as one that
  fills the buffer may), is replaced as a whole by `Invalid unicode: ` and its bytes
  in hexadecimal (`net.rs` 67-76). In `DATA` this text becomes part of the mail, and if
  the read had the end of the mail in it, that is missed. `Command::new` then slices
  the first word of every read at byte 10 and panics inside a character, in `DATA` as
  well (`server.rs` 88). Correct: reads without this problem are stored as they are,
  and a mail that is not what was sent shows where.
* *Everything waits in one task.* A delivery, a silent client or a TLS handshake
  holds up all others. Correct: what has a timeout ends; who waits at a port
  whose loop comes round is served.

`PROJECT.json` lists these and the other hazards under "hazards", each at its
line and with the properties that watch it.

## 2. The modules

| module | models | state |
|---|---|---|
| `UserDb` | the three queries of `postgres.rs`, addresses and domains of `envelope.rs`; edits of the table and outages | `users[a]` (rows for an address), `dbUp` |
| `Delivery` (extends `UserDb`) | `deliver_mail`, `deliver_local_mail`, `Queue::add`, and that `Storage::store` can fail | `uuid` (next mail), `stored` (pairs of mail and recipient), `queue` |
| `SmtpSession` (extends `Delivery`) | every arm of `SmtpServer::handle` and the ways `socket_loop` ends | `session` (the `SmtpState` with its data), `reply` (what the last handler wrote) |
| `MailBody` | a mail from the socket on: the text `socket_loop` makes of a read, the slice of `Command::new`, `contains_mail_end`, `decode_transparency`, the collecting of `receive_data`, and what the next server makes of the body `run()` sends | `message`, `pipelined`, `read`, `mail_body`, `state`, history `clean` |
| `OutgoingQueue` (extends `Delivery`) | `Queue::fire` and `deliver` | `job` (the popped entry), histories `attempted`, `lost` |
| `MailServer` (extends `SmtpSession`, `OutgoingQueue`) | `main`'s loop and `process_socket_silent`; the end of the process | `phase`, histories `accepted`, `settled` |
| `AcceptLoop` (extends `MailServer`) | both listeners, the `select!` with the arm a failed accept disables, the TLS handshake | `waiting`, `tlsArmed`, `handshaking` |
| `MxDiscovery` | `discover_connection` with `pop_host` and the probes of both ports | `step`, `remote_hosts`, `host`, histories `records`, `probed` |
| `SmtpClient` (extends `MxDiscovery`) | `deliver` and `run`: the dialogue with a remote server, its timeouts, and how replies are read | `next`, `inbox`, `wire`, `closed`, `rcpts`, `taken`, history `whole` |
| `Maildir` | names and contents of the files of `Storage` | two clocks, `base_instant`, `files` |
| `Submission` | abstract: what one connection promises its client | `phase`, `named`, `handed` |
| `Relay` | abstract: what the queue promises for a group of recipients | `pending`, `attempted`, `lost` |
| `RemoteDelivery` | abstract: what `deliver` promises the queue | `outcome`, `taken` |
| `MCSmtpSession`, `MCMailServer`, `MCAcceptLoop`, `MCMailBody`, `MCSmtpClient` | small instances for TLC | - |
| `SmtpSession_proofs`, `Submission_proofs` (extends it), `MailServer_proofs` (extends that), `AcceptLoop_proofs` (extends that) | theorems on the session, on what it promises, on the process and on the loop | - |
| `MailText_proofs` | lemmas on the text of a mail: folds, patterns, the dots of transparency | - |
| `MailBody_proofs` (extends it) | theorems on the content of a mail | - |
| `Maildir_proofs`, `SmtpClient_proofs` | theorems on the files and on the client | - |

Actions follow the code's handlers. One arm of `handle` is one action, or one
action per way it ends: `MailFrom`, `MailBadSyntax`, `MailBadAddress` and
`MailUnauthorized` are `MailFromState::mail_from`; `Rcpt` and `Rcpt...` are
`RcptState::new` and `add_rcpt` (from `MAIL` and `RCPT`); `ReceiveMore`,
`ReceiveBadEnd`, `ReceiveEndDelivered` and `ReceiveEndRefused` are
`receive_data` (in `MailBody`, `ReceiveMore`, `ReceiveEnd`, `ReceiveBadEnd`, and
`ReadPanics` for a read that `Command::new` does not survive); `AuthPlain...`, `AuthLogin` and `AuthStep...` are `init_sasl`
and `handle_auth_step` as the two mechanisms drive them. `Respond(code, next)`
is `writer.send(..).await?` followed by the new state: either the reply is
written, or the `?` ends the connection with an error (`IOERR`) after the
handler's effects on mailboxes and queue. In the client a step is what lies
between two awaits: one lookup, one probe, one command written (`Say`), one
read (`Expect`). `PROJECT.json` "map" gives the lines of every definition.
Definitions whose comment begins with "Mutated" are variants with a plausible
bug. They occur in no specification; they are there to confirm that each
property notices such a bug.

How the modules meet. `SmtpSession` and `OutgoingQueue` share the state of
`Delivery` and are composed in `MailServer`, which `AcceptLoop` refines.
`SmtpClient` and `MailBody` stay apart from them, as their state is invisible
to the rest: `SmtpClient` shows the contract of `RemoteDelivery` and that a
delivery ends, which is all `OutgoingQueue` takes from it (`Attempt`: an
attempt that ends, one way or the other); `SmtpSession` leaves to the reads of
`DATA` the freedom `MailBody` resolves.

## 3. Abstractions

* **Data.** An address is a model value with a domain (`DomainOf`), a login a model
  value and the address the driver looks it up as (`LoginAddr`: a bare name
  gets the hostname). A line of input is a verb with well-formed or malformed
  arguments; in `SmtpSession` a read in `DATA` contains a mail end or not, and is
  decoded or not. Both are chosen freely, so every way the real bytes are
  classified is covered, but not whether they are classified *rightly*: for
  the content of a mail, `MailBody` adds that.
* **Bytes.** `MailBody` knows a set `Chars` of bytes with CR, LF, the dot, the blank
  and the two bytes `LEAD`, `TAIL` of a character of several bytes in it. Lines and
  reads are sequences of these, cut anywhere, also between `LEAD` and `TAIL`; a line may
  have one of them without the other, and is then not UTF-8 however it is cut. A sender
  uses CR and LF only together, to end a line (RFC 5321, 2.3.8), and no line of the
  commands it may send right after the mail begins or ends with a dot (section 7 says
  why this matters).
* **Replaced reads.** The text `Invalid unicode: 0d 0a ..` that stands for a read is a
  single element, `INVALID`, of `Chars`: which digits it has does not matter, but that the
  bytes it is about are not in it does, for it has no CR, no LF and no dot, so nothing
  in it or across its borders passes for a line end, a dot line or the end of a mail.
  Lengths count it as one. Outside `DATA` such a text is a line like any other that is
  no command or has malformed arguments, which `SmtpSession` has as inputs in every state.
  The client reads replies with `from_utf8_lossy` (`net.rs`) and looks only at their first
  three characters, so nothing of this kind happens there.
* **The sliced word.** `VerbBytes` is the 10 of `server.rs:88`. White space is CR, LF and
  the blank; tabs and the blanks Unicode has beside it are characters like others.
* **Passwords.** Whether a password matches is the client's choice in each
  exchange. `Authenticate` adds what the driver requires: the database answers and
  has a row for the address.
* **The table** holds 0..`MaxRows` rows per address because the driver tells no
  row, one row and several rows apart.
* **Granularity.** A handler is one step. Within it the code awaits socket,
  files and queue lock, but no other task touches this state (one connection at
  a time, and the queue is fired after it). Another process can edit the table
  between two lookups of a single delivery; the model takes the lookups of one
  delivery from one state of the table.
* **A probe is one step**: connecting, handshake and greeting are under one
  timeout, and everything that goes wrong in them becomes the same `None`.
* **Replies are pieces.** A reply arrives in one piece or in two (a line more, or
  one line cut in two), and a read returns any number of the pieces that have
  arrived. Only the first code of a read counts, as with `starts_with`.
* **The remote server** is external. It accepts or refuses each command, is
  silent, late, or closes at any time; it answers in order, says 354 only when it
  has a recipient, and has taken a mail when it accepts the end of the body.
* **Waiting connections.** At each port at most one peer waits at a time; the
  next one can come as soon as it was accepted.
* **Crash in a handler.** A process that dies halfway through a handler leaves
  what a failing delivery followed by a crash leaves: a prefix of the files
  written, the queue gone.
* **Repeated recipients.** `stored` is a set: a recipient named twice in an
  envelope gets one element, where the code writes the mail to the same
  mailbox twice. (`SmtpClient` does say a repeated recipient twice.)
* **Files.** A write that fails has truncated the file or has not touched it
  (`StoreFails`, content `Partial`). The wall clock is never set back.
* `MailServer` does not distinguish an I/O error of the session from a failed
  TLS handshake or `accept`: all lead back to accepting without firing.
  `AcceptLoop` does.

## 4. The runs

| run | module | instance | checks |
|---|---|---|---|
| `session` | `MCSmtpSession` | one session, 2 local and 1 remote address, login by address and bare name, 0-2 rows per address | `TypeOK`, `EnvelopePermitted`, `SilenceHasReason`; action properties `OnlyUsersRelay`, `EnvelopeSurvives`, `NoSuchUserStoresNothing` |
| `envelope` | `MCSmtpSession` | 2 local, 2 remote addresses of different domains, up to 3 recipients and 3 mails | `QueueWellFormed`; refinement `ImplementsSubmission` |
| `server` | `MCMailServer` | any number of connections and crashes, 1 user, 2 remote addresses of different domains, 2 mails | `ServerTypeOK`, `SettledIsAttempted`, `OncePerRecipient`; action property `NobodyForgotten`; refinement `ImplementsRelay` |
| `loop` | `MCAcceptLoop` | both listeners, 1 user, 1 remote address, 2 mails, under fairness | liveness `FireEnds`, `BacklogDrains`, `PlainServed`, `TlsServed` |
| `maildir` | `Maildir` | 2 mailboxes, connections and stores at any times, writes that fail | `MaildirTypeOK`; action properties `LostOnlyWithinSecond`, `OwnLostOnlyWithinMilli` |
| `client` | `MCSmtpClient` | every answer of the DNS over 2 hosts and 2 preferences, a group of 2 recipients, under fairness | `ClientTypeOK`, `ProbesInOrder`, `AllOrNothing`; refinement `ImplementsRemoteDelivery`; liveness `DeliverEnds` |
| `body` | `MCMailBody` | every mail of up to 3 lines out of 5, pipelined or not, cut into reads anywhere, also inside a character | `BodyTypeOK`, `ExactWhenCutClean`, `TruncatedAtWorst`, `RelayExactWithoutDots` |
| `not_taken`, `challenge`, `maildir_name`, `acknowledged`, `relayed` | | | expected violations, findings F1-F5 |

What they show:

* `EnvelopePermitted`: a remote recipient is in an envelope only while a user
  is authenticated, and after `EHLO` a sender that was a local mailbox at `MAIL`
  is the authenticated user, in all states up to and after every refusal and
  rollback. (After `HELO` nobody is asked, `server.rs` 386-394: the property
  says so by mentioning `EHLO`.) `OnlyUsersRelay` is the consequence that matters:
  the server is no open relay.
* `EnvelopeSurvives`: a refused `RCPT`, a failed `DATA` and a rejected body
  lose no part of sender, recipients and user.
* `NoSuchUserStoresNothing`: a mail with one unknown local recipient is
  stored for none.
* `SilenceHasReason`: the client is without an answer only while it sends a
  mail, and in the case of F2.
* `ImplementsSubmission`: the contract of `Submission`. An attempt that ends in
  acceptance has handed the mail to every recipient named; one that fails has
  handed it to some of them and keeps the envelope; no mail identity is reused;
  after an acceptance nothing is handed over any more. It is the weakest
  contract the code meets: a failed attempt serving a *subset* is exactly F1.
* `SettledIsAttempted`: although `fire` takes a single entry, the newest, no
  mail that was accepted with `250` by a connection that ended well is still
  queued when the server listens again. What stays behind comes from
  refused mails and from connections that ended with an error.
* `ImplementsRelay`: every group is attempted at most once and lost only when
  the process ends, with entries of one and of two groups; a mail is taken once,
  with no recipient in two groups. `OncePerRecipient` is what this is for: nobody
  gets two deliveries of one mail from this process.
* `NobodyForgotten`: `250` is given only when every recipient has a file or a
  place in the queue, and who has one of these keeps it, or has an attempt made
  for him, or was in the queue of a process that died. No pop, error of another
  group or connection in between drops him in silence.
* `FireEnds`, `BacklogDrains`: a delivery returns to the loop, and a backlog is
  worked off while connections keep ending well and bring no new entries.
* `PlainServed`, `TlsServed`: who waits at a port is served, if the loop comes
  back to `select!` again and again. At the TLS port this holds only while plain
  connections keep coming: a failed accept there disables the arm until the other
  one fires (`main.rs` 124).
* `LostOnlyWithinSecond`, `OwnLostOnlyWithinMilli`: what the naming
  scheme does guarantee. A mail is replaced only by one of the same second; one
  that the present connection stored, only by one of the same millisecond. Within a
  millisecond nothing is promised: a recipient named twice in one envelope may get
  one file for two writes.
* `ProbesInOrder`: neither the shuffling of hosts of equal preference nor the
  removal of emptied preferences skips a host or a port.
* `ImplementsRemoteDelivery`: `Ok` only after the remote server has taken the
  mail, and the mail is taken at most once, even when the client is a reply or
  more behind: between the 354 and the acceptance of the body there is no 250 that
  could be taken for it. An error promises nothing (the 250 may come after the
  timeout; there is no retry, so no duplicate follows).
* `AllOrNothing`: as long as every read returns one whole reply, all recipients of
  a group get the mail or none. Without that premise it is false (F4).
* `DeliverEnds`: `deliver` returns, however DNS and remote server behave.
* `ExactWhenCutClean`: a mail is accepted exactly when it was read to its end, and
  what is stored is what was meant, if every read is cut well (`CutWell`). A read is not
  if it ends at one of three awkward places (`Awkward`: right after a CR LF dot, which
  passes for an end; before a dot that ends a line, so that the next read begins like
  the last line; inside the end itself), if it goes past the end (`Overruns`), if it is
  not UTF-8 by itself (`IsUtf8`: text that is not, or a character cut at either border),
  or if its first word has a character across its byte 10 (`CutsInside`). If the
  end itself is split over two reads, or is in a read that is replaced, both sides wait,
  the server for an end it has already read. An empty mail is stored as CR LF dot.
* `TruncatedAtWorst`: wherever reads end and whatever is in them, an accepted mail that
  does not have the text of a replaced read in it is a beginning of what was meant and
  at most three characters that stem from a last line. With that text in it, it is
  neither: the server answers 250 to a mail with hexadecimal digits in its middle, and,
  if the end was in the replaced read, with commands behind it.
* `RelayExactWithoutDots`: what `run` sends is received as it was meant if no line
  starts with a dot (else F5) and every read was cut well.

Bounds. `MaxRows` = 2 is all the driver distinguishes (1 where only presence
matters). `Listed` limits which addresses the table may hold; the driver is
only ever asked about the sender, the login and local recipients.
`MaxRecipients` = 3 with four addresses gives a local recipient before and
after the failing one and two remote domains in one envelope. `MaxMails` bounds
the envelopes built: two already give a failed delivery and its repetition in
one session, and a backlog older than the newest entry in the server. A
session needs `MaxMails` > its failed deliveries to finish. When the bound is
reached no read completes a mail, but everything else goes on. In `server` the two
remote addresses are symmetric: states hold addresses, and domains are only
compared. In `Maildir`, `Second` = 3 milliseconds make a second and `MaxTime` = 5
spans three of them, with every offset between the start of the process and the
start of a second. In `client` two hosts and two preferences give equal
preferences, several hosts per preference and a host listed twice; two recipients
are the fewest of which one can be refused. In `body` the five lines are an empty one, a single
dot, one that ends with a dot, one that begins with a dot and ends with a character of
two bytes, and one with a blank before such a character; `MaxLines` = 3 gives a dot
line at the beginning, in the middle and at the end. `VerbBytes` is 6 there instead of 10, so that
reads of two of these short lines already have a character across that byte of their
first word (a line end does not end a word, only a blank does). `relayed`
needs one line, a single dot.

Deadlock. It is checked in every run. `MailServer`, `SmtpSession` and `Maildir`
always have a step (the table, or a new connection), so it says little there;
`SmtpClient` and `MailBody` stop only where `Over` and `Idle` say they may. The
mutual wait that matters, client and server waiting for each other, is
`SilenceHasReason` with F2.

## 5. Fairness

No fairness is assumed of clients, remote servers, the DNS, the database or
crashes.

* `Fairness` of `MailServer`: what the process does on its own goes on, that is
  leaving a connection that has ended (`EndOk`, `EndErr`), the next attempt of
  `fire` (`Deliver`) and its return (`FireDone`). They are straight-line code of
  one task. That an attempt ends is `DeliverEnds`.
* `FairAcceptSpec` adds strong fairness of `AcceptPlain` and `AcceptTls`: `select!`
  polls its arms in random order, so none that is ready again and again is
  passed over for ever, and `accept` does not fail for ever. Strong, not weak: the
  loop is away from `select!` for a whole connection.
* `FairClientSpec`: weak fairness of the client's own steps together. Lookups,
  probes and reads have timeouts (10 and 30 seconds), and a command is a single write;
  the timeout is what makes `DeliverEnds` true when the remote server is silent.

`BacklogDrains` says in its premise what it needs (connections that keep ending
well, and no new entries). Without the second premise it is false: one new mail
per connection keeps older entries waiting for ever. `PlainServed` and
`TlsServed` assume in theirs that the loop comes back to `select!`: a silent client
or a TLS handshake that stalls has no timeout, so nothing stronger is true.

## 6. Findings

* **F1** (`not_taken`, `NotTaken`). `450 Requested mail action not taken`
  (`server.rs:22`) is sent although part of the mail has been taken:
  `deliver_mail` queues the remote recipients before it tries the local ones, and
  nothing takes them out again. The run finds an authenticated user who names a
  local recipient, whose delivery fails, and a remote one: the reply is 450, no
  mailbox has the mail, and it is in the queue. (The files `deliver_local_mail` wrote
  before the one that failed, `server.rs` 660-668, are the other half of this defect.
  `NotTaken` speaks of the queue alone, so that the run shows this half.)
* **F2** (`challenge`, `ChallengeOutstanding`). `AUTH PLAIN` without initial
  response leaves the exchange unfinished and writes nothing. The disabled test
  in `tests_auth.rs:54-70` expects an empty challenge, `334 `.
* **F3** (`maildir_name`, `MillisSinceProcessStart`). `maildir.rs:92` calls the
  M value "milliseconds since process start (roughly)"; it counts from the
  start of the connection, since `server_loop` creates a `Storage` for each.
  Two connections of equal age in the same second build the same name, and the
  later mail overwrites the earlier.
* **F4** (`acknowledged`, `Acknowledged`). `client.rs:295` takes the last 250 for
  the acknowledgement of the delivery. Since a reply is whatever one read
  returns, the rest of a reply that came in two segments is read as the reply to
  the next command, or in front of it: the refusal of a recipient is never seen,
  and `Ok` is returned for a mail that recipient does not get.
* **F5** (`relayed`, `RelayedUnchanged`). The body was decoded when it came in
  and is sent without dot-stuffing (`client.rs:292`): a line that starts with a dot
  loses it at the next server, and a line with a single dot ends the mail there.

Observations without a run of their own: a remote host with an open port 465 panics
the server if no certificates are configured (`tls.rs:123`), if the CA directory or the key
cannot be read by then (`tls.rs` 126, 135) or if its name is none TLS accepts
(`client.rs:195`; all of them `TlsProbePanics`); a body larger than one write takes is
never relayed, as each write is a single attempt (`net.rs:91`, `SayFails`); a read that
is not UTF-8 is stored as text about it, and an end of the mail in it is missed
(`net.rs` 67-76, `Shown`); a read whose first word has a character across byte 10 panics
the server (`server.rs:88`, `ReadPanics`).

## 7. The proofs

For all values of the constants, under the assumptions named in the modules that
declare them (types, that the "none" values are distinct from real ones, and what
section 3 says of the bytes of a mail; TLC evaluates all of them on each run):

| theorem | statement |
|---|---|
| `TypeCorrect` | `Spec => []TypeOK` |
| `EnvelopesPermitted` | `Spec => []EnvelopePermitted` |
| `RelayNeedsUser` | `Spec => OnlyUsersRelay` |
| `LookupsFirst` | `Spec => NoSuchUserStoresNothing` |
| `EnvelopesKept` | `Spec => EnvelopeSurvives` |
| `QueueEntriesWellFormed` | `Spec => []QueueWellFormed` |
| `SilenceExplained` | `Spec => []SilenceHasReason` |
| `SessionImplementsSubmission` | `Spec => ImplementsSubmission` |
| `BodyTypeCorrect` | `BodySpec => []BodyTypeOK` |
| `ExactWhenCutCleanAlways` | `BodySpec => []ExactWhenCutClean` |
| `TruncatedAtWorstAlways` | `BodySpec => []TruncatedAtWorst` |
| `RelayExactWithoutDotsAlways` | `BodySpec => []RelayExactWithoutDots` |
| `ServerTypesCorrect` | `ServerSpec => []ServerTypeOK` |
| `SettledMailsAttempted` | `ServerSpec => []SettledIsAttempted` |
| `QueueImplementsRelay` | `ServerSpec => ImplementsRelay` |
| `RecipientsAttemptedOnce` | `ServerSpec => []OncePerRecipient` |
| `ServerForgetsNobody` | `ServerSpec => NobodyForgotten` |
| `ServerAttemptsDeliverable` | `ServerSpec => [](QueueWellFormed /\ AllDeliverable)` |
| `ServerEnvelopesPermitted`, `ServerRelaysForUsers`, `ServerKeepsEnvelopes`, `ServerLooksUpFirst`, `ServerSilenceExplained` | `ServerSpec =>` the same as the theorem of one session says |
| `LoopImplementsServer` | `AcceptSpec => ServerSpec` |
| `LoopAttemptsSettled`, `LoopImplementsRelay`, `LoopRelaysForUsers`, `LoopForgetsNobody` | the same of `AcceptSpec` |
| `StorageTypesCorrect` | `Spec => []MaildirTypeOK` |
| `LossNeedsSameSecond` | `Spec => LostOnlyWithinSecond` |
| `OwnLossNeedsSameMilli` | `Spec => OwnLostOnlyWithinMilli` |
| `ClientTypesCorrect` | `ClientSpec => []ClientTypeOK` |
| `HostsProbedInOrder` | `ClientSpec => []ProbesInOrder` |
| `ClientImplementsRemoteDelivery` | `ClientSpec => ImplementsRemoteDelivery` |
| `DeliveredToAllOrNone` | `ClientSpec => []AllOrNothing` |

The session. `TypeOK` is inductive by itself because it contains `SessionOK`,
which ties the data of a session to its state: an identity exists only after
`EHLO`, a SASL exchange exactly in `AUTH`, an envelope exactly from `MAIL` to
`DATA`. `EnvelopePermitted` is inductive only together with `TypeOK`: that
`AUTH` cannot replace the user of a session with an envelope needs "no envelope
in `EHLO` and `AUTH`", and that the session after a reply that could not be
written is permitted needs "no recipients in `IOERR`". `RelayNeedsUser`
and `LookupsFirst` follow from the invariant and the two actions that touch
`queue` and `stored`; `EnvelopesKept` goes through the actions and shows of each
that it carries the envelope along (`Carries`) or leaves a session that is over
(`Over`); `QueueWellFormed` follows from what `GroupByDomain` builds and from the
queue only ever growing by `AddToQueue`.

The promise of a session. Every handler but the end of a mail is `Quiet`: to
`Submission` it names one recipient, closes, or is not seen at all. The end of a mail
hands over a new identity (`HandsOver`): that it is new needs the invariant
`FreshUuid`, that all identities in mailboxes and queue are below `uuid`; that an
acceptance serves *all* recipients needs that grouping by domain loses nobody
(`GroupsCover`) and that local and remote recipients are all there are.

The content of a mail. Everything about it is a fold over characters or lines of
unknown number, and the library's induction theorems cannot be used here, since they
take an operator. `MailText_proofs` has induction for *sets* of numbers instead
(`IntervalInduction`, from the least element of the complement), applied to
the set of positions up to which a fold has the wanted property. The existence of
a recursive function is proved the same way (`KeptExists`). The lemmas then say
what `Kept` and `FlattenSeq` return, and line by line (`Sent`, `SentGrows`) that in a
mail as it is sent every CR LF dot is followed by a second dot, and that without
the added dots it is the text that was meant (`MailSent`). Hence the end of a mail
occurs where the mail ends and nowhere before (`MailWire`, `StreamWire`, and `EndSeen` for
a read). `BodyInv` makes the properties inductive: `Collected` (`Assembled`: what was
collected ends with a stretch of the stream, which goes up to where it was read, and what
is in front of that, if anything, ends with a replaced read and has an end in it only
if the mail is passed; without a replaced read the stretch is all, from the beginning
of the stream or, after a refused end, from behind the mail), `CleanSoFar` (as long as every read was cut well, all
that was read was collected, the mail is not passed, is accepted exactly at its end, and
the next read does not begin at an awkward place either) and `StoredExact` (what was
accepted so is the text and its end). A refused end drops what was collected, so the
premise of `TruncatedAtWorst` must not speak of every read but of those whose text
is still there; that the end of a mail is not put together across a replaced read is
`EndInPieces`.
`FollowingAssumption` cannot be dropped: with a command line after the mail that ends in a dot,
TLC finds that a read which goes past the end is refused for a bad end, the next
read begins with the dot that ends that line, passes for the end, and commands are stored
as part of the mail, which `TruncatedAtWorst` excludes.

The server. `SettledIsAttempted` speaks of the moment the server listens, and is
far from inductive. `ServerInv` adds: the entries of the queue are of different
mails, all with a uuid already given (`QueueInv`); so is the entry in hand, whose
mail is no longer in the queue (`JobInv`), and whatever was attempted or lost
(`HistoryInv`); a mail accepted by the present connection can only be in the newest
entry, and a settled one in none (`SettledInv`).
The refinement of `Relay` maps a session's mail to `Take`, an attempt to
`Attempt`, and a crash to `LoseAll`; a group is never attempted twice because a uuid is never
used twice. `Apart`, that groups of one mail share nobody wherever they are, is
inductive of `Relay` alone, and gives `OncePerRecipient`. `NobodyForgotten` joins
both contracts: what a session has handed over is served (`HandedIsServed`), and a group
only ever moves from pending to attempted or lost. The theorems of one session hold
of the process because each of its steps is a step of a session, begins or
breaks one, or shortens the queue (`ProcessStep`); `AllDeliverable` follows a group from
the queue into `fire` and into the calls of `SmtpClient::deliver`, which takes the
first recipient's domain for that of all.
The loop with two listeners takes steps of `MailServer` or leaves its
variables alone, and so inherits all of this.

The files. `StorageInv` adds to the types what a file's name says of its mail: the
second in which it was stored, and, if the present connection stored it, the age
of the connection then. Equal names then have equal seconds, and, within one
connection, equal times.

The client. `SearchInv` says that a record that is neither waiting nor in hand has
been probed at both ports, and that none waiting is better than the one in hand.
`DialogueInv` says which answers can be in transit: no 354 before `DATA` was sent,
no 250 behind a 354, no 250 at all while the acceptance of the body is awaited and
the mail not taken. This holds however far reads and replies are out of step,
and is why the last 250 can be trusted. `InStep` adds, for reads that return whole
replies, that nothing or exactly the awaited reply is in transit, and that all
recipients already said are accepted.

Only model-checked: the liveness properties `FireEnds`, `BacklogDrains`,
`PlainServed`, `TlsServed` and `DeliverEnds`, as fairness (WF, SF, ENABLED) is out of
the prover's reach; and the expected violations. Every other property of a
run is a theorem.

## 8. Not modelled

* `tls.rs`, `config.rs`: run once at start, without state that changes later; of
  `tls.rs` only the panic of the connector is a step.
* The directory template and the creation of directories (`maildir.rs`).
* The text of command lines: splitting into verb and arguments, and the regular
  expressions of addresses. The cut at byte 10 (`server.rs:88`) is modelled for the
  content of a mail, as `ReadPanics` of `MailBody`; in all other states, and for the rest
  of the server, that panic is a `Crash`.
* rsasl, base64, rustls, hickory: outside the repository; their steps are
  modelled as the code drives them.
* The database's contents beyond the number of rows, and its connection pool.
* Tests, mocks and logging.

## 9. What is left

1. The safety half of the liveness arguments as theorems: the number of groups in
   hand decreases with each attempt (`FireEnds`), the number of entries with each
   connection that ends well and brings no mail (`BacklogDrains`), the number of records
   and of dialogue steps left with each step of the client (`DeliverEnds`).
2. The same for the findings: under which premises `NotTaken` and
   `MillisSinceProcessStart` would hold, as theorems.
3. The parsing of command lines as an operator over tokens, if a property of it
   is found that is more than its definition.
