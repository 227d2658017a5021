------------------------------ MODULE MailBody ------------------------------
(***************************************************************************)
(* The content of one mail: what socket_loop of net.rs makes of the bytes  *)
(* of a read, how DataState::receive_data of server.rs collects it, where  *)
(* it sees the end of it, what decode_transparency makes of it, and what   *)
(* the server it is relayed to gets, since SmtpClient::run sends the body  *)
(* as it is.                                                               *)
(*                                                                         *)
(* The sender (external) puts a dot before every line that starts with one *)
(* and a line with a single dot at the end, and may send more commands     *)
(* right after it.  TCP cuts what it sends anywhere, also inside a         *)
(* character of several bytes, and a mail need not be UTF-8 at all.        *)
(***************************************************************************)
EXTENDS SequencesExt, Integers

CONSTANTS Chars,            \* bytes, and INVALID
          CR, LF, DOT, SP,  \* those that matter
          LEAD, TAIL,       \* the two bytes of a character of several
          INVALID,          \* all of the text "Invalid unicode: 0d 0a .."
          VerbBytes,        \* 10: of the first word, to look for a verb in
          Lines,            \* the lines a mail can have, without their CR LF
          Following,        \* what a sender that does not wait sends next
          MaxLines          \* bound: lines of a mail

ASSUME CharAssumption ==
    /\ {CR, LF, DOT, SP, LEAD, TAIL, INVALID} \subseteq Chars
    /\ CR # LF /\ LF # DOT /\ CR # DOT
    /\ INVALID \notin {CR, LF, DOT, SP, LEAD, TAIL}
    /\ VerbBytes \in Nat \ {0}

\* CR and LF are sent only together, to end a line (RFC 5321, 2.3.8).
ASSUME LinesAssumption ==
    /\ Lines \subseteq Seq(Chars \ {CR, LF, INVALID})
    /\ MaxLines \in Nat

VARIABLES message,    \* the lines of the mail the sender means
          pipelined,  \* the sender does not wait for the answer
          read,       \* how much of the stream was read
          mail_body,
          state,      \* "DATA"; "DATACOMPLETE": the mail was accepted
          clean       \* history: no read was cut badly (CutWell)

vars == <<message, pipelined, read, mail_body, state, clean>>

-----------------------------------------------------------------------------
CRLF == <<CR, LF>>
EndLine == <<DOT, CR, LF>>
Mark == <<CR, LF, DOT>>

Ended(lines) == FlattenSeq([i \in DOMAIN lines |-> lines[i] \o CRLF])

Text == Ended(message)

\* RFC 5321, 4.5.2 (external): the sender's side of transparency.
Stuffed(line) == IF IsPrefix(<<DOT>>, line) THEN <<DOT>> \o line ELSE line

Mail == Ended([i \in DOMAIN message |-> Stuffed(message[i])]) \o EndLine

Stream == Mail \o (IF pipelined THEN Following ELSE <<>>)

OccursAt(p, s, i) ==
    i + Len(p) - 1 <= Len(s) /\ SubSeq(s, i, i + Len(p) - 1) = p
Occurrences(p, s) == {i \in DOMAIN s : OccursAt(p, s, i)}

\* Kept(drop, s)[n]: what is left of the first n characters of s without
\* those at the positions in drop.
Kept(drop, s) ==
    LET kept[n \in 0 .. Len(s)] ==
          IF n = 0 THEN <<>>
          ELSE IF n \in drop THEN kept[n - 1] ELSE Append(kept[n - 1], s[n])
    IN  kept

Without(drop, s) == Kept(drop, s)[Len(s)]

\* Commands follow: none of their lines begins or ends with a dot.
ASSUME FollowingAssumption ==
    /\ Following \in Seq(Chars \ {INVALID})
    /\ ~IsPrefix(<<DOT>>, Following)
    /\ Occurrences(Mark, Following) = {}
    /\ Occurrences(EndLine, Following) = {}

-----------------------------------------------------------------------------
IsUtf8(s) ==
    \A i \in DOMAIN s :
        /\ s[i] = LEAD => i < Len(s) /\ s[i + 1] = TAIL
        /\ s[i] = TAIL => i > 1 /\ s[i - 1] = LEAD

\* What handle is given for a read: its text, or one about it.
Shown(s) == IF IsUtf8(s) THEN s ELSE <<INVALID>>

White == {CR, LF, SP}

\* Command::new, of a text in any state: the first word of the trimmed text
\* is sliced behind a byte that is not the last of its character.
CutsInside(s) ==
    \E i \in DOMAIN s :
        /\ s[i] \notin White /\ \A j \in 1 .. i - 1 : s[j] \in White
        /\ i + VerbBytes \in DOMAIN s /\ s[i + VerbBytes] = TAIL
        /\ \A j \in i .. i + VerbBytes : s[j] # SP

-----------------------------------------------------------------------------
\* Looked for in the text of one read, not in what was collected.
contains_mail_end(s) ==
    \/ IsPrefix(EndLine, s)
    \/ Occurrences(CRLF \o EndLine, s) # {}
    \/ IsSuffix(Mark, s)

\* s.split("\r\n."): where a chunk ends and the next one begins.
Marks(s) == Occurrences(Mark, s)

\* Mutated: the last chunk is never recognised.
TerminatedNever(s) == s = <<>>

\* The last chunk is "\r\n"; otherwise the body has the "rnp end".
Terminated(s) == IsSuffix(CRLF \o EndLine, s)

\* MailEndAtUnexpectedPosition: a chunk, not the last, begins with "\r\n".
EndInside(s) ==
    \E i \in Marks(s) \ {Len(s) - 4} :
        OccursAt(CRLF, s, i + 3) /\ i + 3 \notin Marks(s)

\* Mutated: the dot at the very beginning is left alone.
DroppedAfterCrlf(s) ==
    {i + 2 : i \in Marks(s)} \ (IF Terminated(s) THEN {Len(s) - 2} ELSE {})

\* The dots of the marks go, but not that of the end; so does a leading one.
Dropped(s) ==
    ({i + 2 : i \in Marks(s)} \ (IF Terminated(s) THEN {Len(s) - 2} ELSE {}))
        \cup {i \in DOMAIN s : i = 1 /\ s[i] = DOT}

\* Mutated: the rnp end is completed.
decode_completing(s) ==
    Without(Dropped(s), s) \o (IF Terminated(s) THEN <<>> ELSE EndLine)

decode_transparency(s) ==
    Without(Dropped(s), s) \o (IF Terminated(s) THEN <<>> ELSE <<DOT>>)

-----------------------------------------------------------------------------
\* Where a read must not end if the mail is to arrive as it was meant: after
\* CR LF dot, which passes for an end; before a dot that ends a line, so that
\* the next read begins like the last line; inside the end itself.
Awkward(p) ==
    \/ IsSuffix(Mark, SubSeq(Stream, 1, p))
    \/ /\ OccursAt(EndLine, Stream, p + 1)
       /\ ~IsSuffix(CRLF, SubSeq(Stream, 1, p))
    \/ p \in {Len(Mail) - 4, Len(Mail) - 2, Len(Mail) - 1}

\* A read of the end must end with it.
Overruns(from, to) == from < Len(Mail) /\ Len(Mail) < to

\* Nor may it be replaced by another text or panic the server.
CutWell(from, to) ==
    LET chunk == SubSeq(Stream, from + 1, to) IN
      ~Awkward(to) /\ ~Overruns(from, to) /\ IsUtf8(chunk) /\ ~CutsInside(chunk)

\* Types.  A mail grows by at most one character (the dot of the rnp end) over
\* what was read, where the text that replaces a read is one of Chars.
BodyTypeOK ==
    /\ message \in BoundedSeq(Lines, MaxLines)
    /\ pipelined \in BOOLEAN
    /\ read \in 0..Len(Stream)
    /\ mail_body \in Seq(Chars)
    /\ Len(mail_body) <= read + 1
    /\ state \in {"DATA", "DATACOMPLETE", "PANIC"}
    /\ clean \in BOOLEAN

BodyInit ==
    /\ message \in BoundedSeq(Lines, MaxLines)
    /\ pipelined \in BOOLEAN
    /\ read = 0
    /\ mail_body = <<>>
    /\ state = "DATA"
    /\ clean = TRUE

-----------------------------------------------------------------------------
\* One read, up to any place of the stream.
ReadUpTo(to) ==
    /\ state = "DATA"
    /\ read < to
    /\ read' = to
    /\ clean' = (clean /\ CutWell(read, to))
    /\ UNCHANGED <<message, pipelined>>

\* Its text.
TextUpTo(to) == Shown(SubSeq(Stream, read + 1, to))

\* Mutated: only what the last read brought is kept.
CollectLast(text) == text

Collect(text) == mail_body \o text

ReceiveMore ==
    \E to \in DOMAIN Stream :
        LET text == TextUpTo(to) IN
          /\ ReadUpTo(to)
          /\ ~CutsInside(text)
          /\ ~contains_mail_end(text)
          /\ mail_body' = Collect(text)
          /\ UNCHANGED state

\* 250: the mail is given to deliver_mail.
ReceiveEnd ==
    \E to \in DOMAIN Stream :
        LET text == TextUpTo(to) IN
          /\ ReadUpTo(to)
          /\ ~CutsInside(text)
          /\ contains_mail_end(text)
          /\ ~EndInside(Collect(text))
          /\ mail_body' = decode_transparency(Collect(text))
          /\ state' = "DATACOMPLETE"

\* 500: what was collected is dropped, and more is waited for.
ReceiveBadEnd ==
    \E to \in DOMAIN Stream :
        LET text == TextUpTo(to) IN
          /\ ReadUpTo(to)
          /\ ~CutsInside(text)
          /\ contains_mail_end(text)
          /\ EndInside(Collect(text))
          /\ mail_body' = <<>>
          /\ UNCHANGED state

\* A verb is looked for in every read, the content of a mail included.
ReadPanics ==
    \E to \in DOMAIN Stream :
        LET text == TextUpTo(to) IN
          /\ ReadUpTo(to)
          /\ CutsInside(text)
          /\ state' = "PANIC"
          /\ UNCHANGED mail_body

\* The mail is accepted, the server is gone, or there is nothing left to read.
Idle ==
    /\ state # "DATA" \/ read = Len(Stream)
    /\ UNCHANGED vars

BodyNext == ReceiveMore \/ ReceiveEnd \/ ReceiveBadEnd \/ ReadPanics \/ Idle

BodySpec == BodyInit /\ [][BodyNext]_vars

-----------------------------------------------------------------------------
\* The next server (external, RFC 5321): lines up to the one with a single
\* dot, without the leading dot of those that have one.
LineStarts(s) == {1} \cup {i + 2 : i \in Occurrences(CRLF, s)}

EndLines(s) == Occurrences(EndLine, s) \cap LineStarts(s)

Received(s) ==
    LET content == SubSeq(s, 1, Min(EndLines(s)) - 1)
    IN  Without({i \in LineStarts(content) \cap DOMAIN content :
                    content[i] = DOT}, content)

Accepted == state = "DATACOMPLETE"

\* If every read is cut well (it ends at no awkward place, is UTF-8 by itself
\* and no word in front of it is sliced inside a character), the mail is
\* accepted exactly when all of it was read, and what is stored is what the
\* sender meant, with the last line (receive_data, decode_transparency).  An
\* empty mail is not: it is stored as CR LF dot.
ExactWhenCutClean ==
    clean =>
        /\ Accepted <=> read = Len(Mail)
        /\ Accepted /\ message # <<>> => mail_body = Text \o EndLine

\* A mail that is accepted with something missing in the middle, or with
\* commands behind it, shows where: it has the text of a replaced read in it
\* (net.rs:67).  Any other accepted mail is at worst cut short, wherever the
\* reads end: it is a beginning of what the sender meant, and at most three
\* more characters that stem from the last line, with nothing of the commands.
TruncatedAtWorst ==
    Accepted /\ message # <<>> /\ INVALID \notin Range(mail_body) =>
        \E n \in 0 .. Len(mail_body) :
            /\ IsPrefix(SubSeq(mail_body, 1, n), Text)
            /\ Len(mail_body) - n <= 3
            /\ \A i \in n + 1 .. Len(mail_body) : mail_body[i] \in {CR, LF, DOT}

\* A mail without a line that starts with a dot, all of whose reads were cut
\* well, reaches the next server as it was meant, though client.rs:292 sends
\* what decode_transparency left.
RelayExactWithoutDots ==
    /\ clean /\ Accepted /\ message # <<>>
    /\ \A i \in DOMAIN message : ~IsPrefix(<<DOT>>, message[i])
    => EndLines(mail_body) # {} /\ Received(mail_body) = Text

\* SmtpClient has "the mission to deliver an envelope" (client.rs:60), whose
\* body is what is left of the transparency procedure: a mail that arrived in
\* full reaches the next server as it was meant.
RelayedUnchanged ==
    clean /\ Accepted /\ message # <<>>
    => EndLines(mail_body) # {} /\ Received(mail_body) = Text
=============================================================================
