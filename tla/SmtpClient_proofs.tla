-------------------------- MODULE SmtpClient_proofs --------------------------
(***************************************************************************)
(* Proofs about MxDiscovery and SmtpClient, for every set of mail          *)
(* exchangers and preferences and every list of recipients.                *)
(***************************************************************************)
EXTENDS SmtpClient, SequenceTheorems, TLAPS

-----------------------------------------------------------------------------
(* The search for a host. *)

\* A record that is neither waiting nor in hand has been probed at both
\* ports, and none that waits has a better preference than the one in hand.
SearchInv ==
    /\ DiscoveryTypeOK
    /\ records # {} => step # "lookup"
    /\ host # NoHost => host \notin remote_hosts
    /\ host # NoHost => \A r \in remote_hosts : host.pref <= r.pref
    /\ \A r \in records \ remote_hosts :
         \/ {r} \X Ports \subseteq probed
         \/ r = host /\ step \notin {"pop", "NoSmtpHostError"}
    /\ step = "plain" => <<host, 465>> \in probed
    /\ step = "NoSmtpHostError" => remote_hosts = {}

LEMMA SearchStarts == DiscoveryInit => SearchInv
  BY DEF DiscoveryInit, SearchInv, DiscoveryTypeOK, Ports

LEMMA SearchStep ==
    ASSUME SearchInv, Discover
    PROVE  SearchInv'
<1> USE DEF SearchInv, DiscoveryTypeOK, discoveryVars
<1>1. CASE LookupFails
  BY <1>1 DEF LookupFails
<1>2. CASE LookupAnswers
  <2>1. PICK mx \in (SUBSET MxRecords) \ {{}} :
          records' = mx /\ remote_hosts' = mx
    BY <1>2 DEF LookupAnswers
  <2>2. records = {} /\ host = NoHost /\ probed = {} /\ step' = "pop"
        /\ UNCHANGED <<tlsConfigured, host, probed>>
    BY <1>2 DEF LookupAnswers
  <2> QED
    BY <2>1, <2>2
<1>3. CASE PopHost
  <2>1. PICK r \in Best(remote_hosts) :
          /\ host' = r
          /\ remote_hosts' = remote_hosts \ {r}
    BY <1>3 DEF PopHost
  <2>2. /\ step = "pop" /\ step' = "tls"
        /\ UNCHANGED <<tlsConfigured, records, probed>>
    BY <1>3 DEF PopHost
  <2>3. r \in remote_hosts /\ \A s \in remote_hosts : r.pref <= s.pref
    BY <2>1 DEF Best
  <2>4. r # NoHost
    BY <2>3, NoHostIsNoRecord DEF MxRecords
  <2> QED
    BY <2>1, <2>2, <2>3, <2>4
<1>4. CASE NoHostLeft
  BY <1>4 DEF NoHostLeft
<1>5. CASE TlsProbeFails
  BY <1>5 DEF TlsProbeFails, Ports
<1>6. CASE TlsProbePanics
  BY <1>6 DEF TlsProbePanics
<1>7. CASE PlainProbeFails
  <2>1. /\ step = "plain" /\ step' = "pop"
        /\ probed' = probed \cup {<<host, 25>>}
        /\ host \in records
        /\ <<host, 465>> \in probed
        /\ UNCHANGED <<tlsConfigured, records, remote_hosts, host>>
    BY <1>7 DEF PlainProbeFails
  <2>2. {host} \X Ports \subseteq probed'
    BY <2>1 DEF Ports
  <2>3. probed' \subseteq records \X Ports
    BY <2>1 DEF Ports
  <2> QED
    BY <2>1, <2>2, <2>3
<1>8. CASE Greeted
  BY <1>8 DEF Greeted
<1> QED
  BY <1>1, <1>2, <1>3, <1>4, <1>5, <1>6, <1>7, <1>8 DEF Discover

LEMMA SearchImpliesOrder == SearchInv => ProbesInOrder
<1> SUFFICES ASSUME SearchInv PROVE ProbesInOrder
  OBVIOUS
<1>1. \A r \in records : r.pref \in Nat
  BY PrefsAreNumbers DEF SearchInv, DiscoveryTypeOK, MxRecords
<1>2. ASSUME host # NoHost, NEW r \in records, r.pref < host.pref
      PROVE  {r} \X Ports \subseteq probed
  <2>1. host \in records
    BY <1>2 DEF SearchInv, DiscoveryTypeOK
  <2>2. r \notin remote_hosts /\ r # host
    BY <1>1, <1>2, <2>1 DEF SearchInv
  <2> QED
    BY <2>2 DEF SearchInv
<1>3. step = "NoSmtpHostError" => records \X Ports = probed
  BY DEF SearchInv, DiscoveryTypeOK
<1> QED
  BY <1>2, <1>3 DEF ProbesInOrder

-----------------------------------------------------------------------------
(* The script, and the sequences in transit. *)

N == Len(Script)

\* A name that hides \o from the provers' own rewriting of it.
Joined(a, b) == a \o b

LEMMA JoinedType ==
    ASSUME NEW S, NEW a \in Seq(S), NEW b \in Seq(S)
    PROVE  Joined(a, b) \in Seq(S)
<1> DEFINE u == Joined(a, b)
<1>1. u = a \o b
  BY DEF Joined
<1> HIDE DEF u
<1>2. u \in Seq(S)
  BY <1>1, ConcatProperties
<1> QED
  BY <1>2 DEF u

LEMMA JoinedItems ==
    ASSUME NEW S, NEW a \in Seq(S), NEW b \in Seq(S)
    PROVE  /\ Len(Joined(a, b)) = Len(a) + Len(b)
           /\ \A i \in 1 .. Len(a) : Joined(a, b)[i] = a[i]
           /\ \A i \in 1 .. Len(b) : Joined(a, b)[Len(a) + i] = b[i]
<1> DEFINE u == Joined(a, b)
<1>0. u = a \o b
  BY DEF Joined
<1> HIDE DEF u
<1>1. Len(a) \in Nat /\ Len(b) \in Nat
  BY LenProperties
<1>2. /\ Len(u) = Len(a) + Len(b)
      /\ \A i \in 1 .. Len(a) + Len(b) :
           u[i] = IF i <= Len(a) THEN a[i] ELSE b[i - Len(a)]
  BY <1>0, ConcatProperties
<1>3. ASSUME NEW i \in 1 .. Len(b) PROVE u[Len(a) + i] = b[i]
  <2>1. /\ Len(a) + i \in 1 .. Len(a) + Len(b)
        /\ ~(Len(a) + i <= Len(a))
        /\ (Len(a) + i) - Len(a) = i
    BY <1>1
  <2> QED
    BY <1>2, <2>1
<1>4. \A i \in 1 .. Len(a) : u[i] = a[i]
  BY <1>1, <1>2
<1> QED
  BY <1>1, <1>2, <1>3, <1>4 DEF u

Head2 == <<Bare("EHLO"), Bare("MAIL")>>
Rcpts == [i \in DOMAIN Recipients |-> Rcpt(Recipients[i])]
HeadRcpts == Joined(Head2, Rcpts)
Tail2 == <<Bare("DATA"), Bare("BODY")>>
Sayable == {Bare(v) : v \in {"EHLO", "MAIL", "DATA", "BODY"}}
             \cup {Rcpt(a) : a \in Group}

LEMMA ScriptShape ==
    /\ N = Len(Recipients) + 4
    /\ Len(Recipients) \in Nat \ {0}
    /\ DOMAIN Recipients = 1 .. Len(Recipients)
    /\ DOMAIN Script = 1 .. N
    /\ Script[1] = Bare("EHLO") /\ Script[2] = Bare("MAIL")
    /\ \A i \in 1 .. Len(Recipients) : Script[2 + i] = Rcpt(Recipients[i])
    /\ Script[N - 1] = Bare("DATA") /\ Script[N] = Bare("BODY")
<1>1. /\ Recipients \in Seq(Group)
      /\ Len(Recipients) \in Nat \ {0}
      /\ DOMAIN Recipients = 1 .. Len(Recipients)
      /\ \A i \in 1 .. Len(Recipients) : Recipients[i] \in Group
  BY RecipientsGiven, LenProperties, EmptySeq, ElementOfSeq DEF Group
<1>2. /\ Rcpts \in Seq(Sayable)
      /\ Len(Rcpts) = Len(Recipients)
      /\ \A i \in 1 .. Len(Recipients) : Rcpts[i] = Rcpt(Recipients[i])
  <2>1. Rcpts \in [1 .. Len(Recipients) -> Sayable]
    BY <1>1 DEF Rcpts, Sayable
  <2> QED
    BY <1>1, <2>1 DEF Rcpts
<1>3. /\ Head2 \in Seq(Sayable) /\ Len(Head2) = 2
      /\ Head2[1] = Bare("EHLO") /\ Head2[2] = Bare("MAIL")
      /\ Tail2 \in Seq(Sayable) /\ Len(Tail2) = 2
      /\ Tail2[1] = Bare("DATA") /\ Tail2[2] = Bare("BODY")
  BY DEF Head2, Tail2, Sayable
<1>4. /\ HeadRcpts \in Seq(Sayable)
      /\ Len(HeadRcpts) = Len(Rcpts) + 2
      /\ HeadRcpts[1] = Head2[1] /\ HeadRcpts[2] = Head2[2]
      /\ \A i \in 1 .. Len(Rcpts) : HeadRcpts[2 + i] = Rcpts[i]
  <2>1. Head2 \in Seq(Sayable) /\ Rcpts \in Seq(Sayable)
    BY <1>2, <1>3
  <2>3. HeadRcpts \in Seq(Sayable)
    BY <2>1, JoinedType DEF HeadRcpts
  <2>2. /\ Len(HeadRcpts) = Len(Head2) + Len(Rcpts)
        /\ \A i \in 1 .. Len(Head2) : HeadRcpts[i] = Head2[i]
        /\ \A i \in 1 .. Len(Rcpts) : HeadRcpts[Len(Head2) + i] = Rcpts[i]
    BY <2>1, JoinedItems DEF HeadRcpts
  <2> QED
    BY <1>1, <1>2, <1>3, <2>2, <2>3
<1>5. /\ Script \in Seq(Sayable)
      /\ Len(Script) = Len(HeadRcpts) + 2
      /\ \A i \in 1 .. Len(HeadRcpts) : Script[i] = HeadRcpts[i]
      /\ Script[Len(HeadRcpts) + 1] = Tail2[1]
      /\ Script[Len(HeadRcpts) + 2] = Tail2[2]
  <2>1. HeadRcpts \in Seq(Sayable) /\ Tail2 \in Seq(Sayable)
    BY <1>3, <1>4
  <2>4. Joined(HeadRcpts, Tail2) \in Seq(Sayable)
    BY <2>1, JoinedType
  <2>2. /\ Len(Joined(HeadRcpts, Tail2)) = Len(HeadRcpts) + Len(Tail2)
        /\ \A i \in 1 .. Len(HeadRcpts) : Joined(HeadRcpts, Tail2)[i] = HeadRcpts[i]
        /\ \A i \in 1 .. Len(Tail2) :
             Joined(HeadRcpts, Tail2)[Len(HeadRcpts) + i] = Tail2[i]
    BY <2>1, JoinedItems
  <2>3. Script = Joined(HeadRcpts, Tail2)
    BY DEF Script, Joined, HeadRcpts, Head2, Rcpts, Tail2
  <2> QED
    BY <1>3, <2>2, <2>3, <2>4
<1>6. DOMAIN Script = 1 .. N
  BY <1>5, LenProperties DEF N
<1>7. Len(HeadRcpts) + 1 = N - 1 /\ Len(HeadRcpts) + 2 = N
      /\ N = Len(Recipients) + 4
  BY <1>1, <1>2, <1>4, <1>5 DEF N
<1>8. Script[1] = Head2[1] /\ Script[2] = Head2[2]
  BY <1>1, <1>2, <1>4, <1>5
<1>9. ASSUME NEW i \in 1 .. Len(Recipients)
      PROVE  Script[2 + i] = Rcpt(Recipients[i])
  <2>1. 2 + i \in 1 .. Len(HeadRcpts)
    BY <1>1, <1>2, <1>4
  <2> QED
    BY <1>2, <1>4, <1>5, <2>1
<1> QED
  BY <1>1, <1>3, <1>5, <1>6, <1>7, <1>8, <1>9

Early == {"EHLO", "MAIL", "RCPT"}

\* What is said when.
LEMMA ScriptVerbs ==
    /\ N \in Nat /\ N >= 5 /\ DOMAIN Script = 1 .. N
    /\ \A i \in 1 .. (N - 2) : Script[i].verb \in Early
    /\ Script[N - 1].verb = "DATA"
    /\ Script[N].verb = "BODY"
    /\ \A i \in 1 .. N : Script[i].verb = "RCPT" =>
         /\ i \in 3 .. (N - 2)
         /\ Script[i].rcpt = Recipients[i - 2]
    /\ \A i \in 1 .. N : Script[i] \in Commands
    /\ \A c \in Commands :
         /\ c.verb = "RCPT" => c.rcpt \in Group
         /\ c.verb \in Early \cup {"DATA", "BODY", "QUIT"}
<1>1. /\ N \in Nat /\ N >= 5 /\ DOMAIN Script = 1 .. N
      /\ \A i \in 1 .. N :
           \/ i = 1 \/ i = 2 \/ i \in 3 .. (N - 2) \/ i = N - 1 \/ i = N
  BY ScriptShape
<1>2. /\ Script[1].verb = "EHLO" /\ Script[2].verb = "MAIL"
      /\ Script[N - 1].verb = "DATA" /\ Script[N].verb = "BODY"
  BY ScriptShape DEF Bare
<1>3. \A i \in 3 .. (N - 2) :
        Script[i].verb = "RCPT" /\ Script[i].rcpt = Recipients[i - 2]
  <2>1. ASSUME NEW i \in 3 .. (N - 2)
        PROVE  Script[i] = Rcpt(Recipients[i - 2])
    <3>1. i - 2 \in 1 .. Len(Recipients) /\ 2 + (i - 2) = i
      BY ScriptShape
    <3> QED
      BY <3>1, ScriptShape
  <2>2. \A a : Rcpt(a).verb = "RCPT" /\ Rcpt(a).rcpt = a
    BY DEF Rcpt
  <2> QED
    BY <2>1, <2>2
<1>4. \A i \in 3 .. (N - 2) : Recipients[i - 2] \in Group
  BY ScriptShape DEF Group, Range
<1>5. \A i \in 1 .. N : Script[i] \in Commands
  BY <1>1 DEF Commands, Range
<1>6. ASSUME NEW c \in Commands
      PROVE  /\ c.verb = "RCPT" => c.rcpt \in Group
             /\ c.verb \in Early \cup {"DATA", "BODY", "QUIT"}
  <2>1. CASE c = Bare("QUIT")
    BY <2>1 DEF Bare
  <2>2. CASE c # Bare("QUIT")
    <3>1. PICK i \in 1 .. N : c = Script[i]
      BY <1>1, <2>2 DEF Commands, Range
    <3> QED
      BY <1>1, <1>2, <1>3, <1>4, <3>1 DEF Early
  <2> QED
    BY <2>1, <2>2
<1>7. \A i \in 1 .. (N - 2) : Script[i].verb \in Early
  BY <1>1, <1>2, <1>3 DEF Early
<1>8. \A i \in 1 .. N : Script[i].verb = "RCPT" =>
        i \in 3 .. (N - 2) /\ Script[i].rcpt = Recipients[i - 2]
  BY <1>1, <1>2, <1>3
<1> QED
  BY <1>1, <1>2, <1>5, <1>6, <1>7, <1>8

LEMMA ReplyShape ==
    ASSUME NEW code \in {250, 354, Refusal}, NEW r \in Reply(code)
    PROVE  /\ r \in Seq(Pieces)
           /\ Len(r) \in {1, 2}
           /\ r[1].code = code
           /\ \A i \in 1 .. Len(r) : r[i].code \in {code, NoCode}
           /\ \A i \in 1 .. Len(r) : r[i].last <=> i = Len(r)
<1>1. \A c \in {code, NoCode}, l \in BOOLEAN :
        Piece(c, l) \in Pieces /\ Piece(c, l).code = c /\ Piece(c, l).last = l
  BY DEF Piece, Pieces
<1>2. CASE r = <<Piece(code, TRUE)>>
  <2> DEFINE p == Piece(code, TRUE)
  <2>1. p \in Pieces /\ p.code = code /\ p.last = TRUE
    BY <1>1
  <2> HIDE DEF p
  <2>2. r = <<p>>
    BY <1>2 DEF p
  <2> QED
    BY <2>1, <2>2
<1>3. ASSUME NEW c \in {code, NoCode}, r = <<Piece(code, FALSE), Piece(c, TRUE)>>
      PROVE  /\ r \in Seq(Pieces)
             /\ Len(r) \in {1, 2}
             /\ r[1].code = code
             /\ \A i \in 1 .. Len(r) : r[i].code \in {code, NoCode}
             /\ \A i \in 1 .. Len(r) : r[i].last <=> i = Len(r)
  <2> DEFINE p == Piece(code, FALSE)
             q == Piece(c, TRUE)
  <2>1. /\ p \in Pieces /\ p.code = code /\ p.last = FALSE
        /\ q \in Pieces /\ q.code = c /\ q.last = TRUE
    BY <1>1
  <2> HIDE DEF p, q
  <2>2. r = <<p, q>>
    BY <1>3 DEF p, q
  <2> QED
    BY <2>1, <2>2
<1> QED
  BY <1>2, <1>3 DEF Reply

\* A reply has been sent.
Answered(code) ==
    /\ wire' \in Seq(Pieces)
    /\ Len(wire) \in Nat
    /\ Len(wire') \in Nat
    /\ \A i \in 1 .. Len(wire') :
         \/ i \in 1 .. Len(wire) /\ wire'[i] = wire[i]
         \/ i \notin 1 .. Len(wire) /\ wire'[i].code \in {code, NoCode}

Arrives(r) == wire' = wire \o r

LEMMA WireAfterReply ==
    ASSUME wire \in Seq(Pieces), NEW code \in {250, 354, Refusal},
           NEW r \in Reply(code), Arrives(r)
    PROVE  Answered(code)
<1>1. /\ r \in Seq(Pieces) /\ Len(r) \in {1, 2}
      /\ \A i \in 1 .. Len(r) : r[i].code \in {code, NoCode}
  BY ReplyShape
<1>2. /\ wire' \in Seq(Pieces)
      /\ Len(wire') = Len(wire) + Len(r)
      /\ \A i \in 1 .. Len(wire) + Len(r) :
           wire'[i] = IF i <= Len(wire) THEN wire[i] ELSE r[i - Len(wire)]
  BY <1>1, ConcatProperties DEF Arrives
<1>3. Len(wire) \in Nat
  BY LenProperties
<1>4. ASSUME NEW i \in 1 .. Len(wire'), i \notin 1 .. Len(wire)
      PROVE  wire'[i].code \in {code, NoCode}
  <2>1. i - Len(wire) \in 1 .. Len(r) /\ wire'[i] = r[i - Len(wire)]
    BY <1>1, <1>2, <1>3, <1>4
  <2> QED
    BY <1>1, <2>1
<1> QED
  BY <1>1, <1>2, <1>3, <1>4 DEF Answered

\* After a read of n pieces.
LEMMA WireAfterRead ==
    ASSUME wire \in Seq(Pieces), NEW n \in DOMAIN wire,
           wire' = SubSeq(wire, n + 1, Len(wire))
    PROVE  /\ n \in 1 .. Len(wire)
           /\ wire' \in Seq(Pieces)
           /\ Len(wire) \in Nat \ {0}
           /\ Len(wire') = Len(wire) - n
           /\ \A i \in 1 .. Len(wire') : n + i \in 1 .. Len(wire) /\ wire'[i] = wire[n + i]
           /\ SubSeq(wire, 1, n)[1] = wire[1]
           /\ Len(SubSeq(wire, 1, n)) = n
           /\ \A i \in 1 .. n : SubSeq(wire, 1, n)[i] = wire[i]
<1>1. Len(wire) \in Nat /\ n \in 1 .. Len(wire)
      /\ \A i \in 1 .. Len(wire) : wire[i] \in Pieces
  BY LenProperties, ElementOfSeq
<1>2. /\ wire' \in Seq(Pieces)
      /\ Len(wire') = IF n + 1 <= Len(wire) THEN Len(wire) - (n + 1) + 1 ELSE 0
      /\ \A i \in 1 .. Len(wire) - (n + 1) + 1 : wire'[i] = wire[n + 1 + i - 1]
  BY <1>1, SubSeqProperties
<1>3. /\ Len(SubSeq(wire, 1, n)) = n
      /\ \A i \in 1 .. n : SubSeq(wire, 1, n)[i] = wire[i]
  BY <1>1, SubSeqProperties
<1>4. Len(wire') = Len(wire) - n
  BY <1>1, <1>2
<1>5. ASSUME NEW i \in 1 .. Len(wire')
      PROVE  n + i \in 1 .. Len(wire) /\ wire'[i] = wire[n + i]
  <2>1. /\ i \in 1 .. Len(wire) - (n + 1) + 1
        /\ n + 1 + i - 1 = n + i
        /\ n + i \in 1 .. Len(wire)
    BY <1>1, <1>4
  <2> QED
    BY <1>2, <2>1
<1>6. SubSeq(wire, 1, n)[1] = wire[1] /\ Len(wire) \in Nat \ {0}
  BY <1>1, <1>3
<1> QED
  BY <1>1, <1>2, <1>3, <1>4, <1>5, <1>6

\* After the remote server has taken a command.
LEMMA InboxAfterTail ==
    ASSUME inbox \in Seq(Commands), inbox # <<>>, inbox' = Tail(inbox)
    PROVE  /\ Len(inbox) \in Nat \ {0}
           /\ Head(inbox) = inbox[1]
           /\ Head(inbox) \in Commands
           /\ inbox' \in Seq(Commands)
           /\ Len(inbox') = Len(inbox) - 1
           /\ Len(inbox) = 1 => inbox' = <<>>
           /\ \A i \in 1 .. Len(inbox') :
                i + 1 \in 1 .. Len(inbox) /\ inbox'[i] = inbox[i + 1]
<1>1. Len(inbox) \in Nat \ {0}
  BY EmptySeq
<1>2. /\ Head(inbox) \in Commands
      /\ inbox' \in Seq(Commands)
      /\ Len(inbox') = Len(inbox) - 1
      /\ \A i \in 1 .. Len(inbox') : inbox'[i] = inbox[i + 1]
  BY HeadTailProperties
<1>3. Len(inbox) = 1 => inbox' = <<>>
  BY <1>1, <1>2, EmptySeq
<1> QED
  BY <1>1, <1>2, <1>3

\* After a command has been sent.
LEMMA InboxAfterSend ==
    ASSUME inbox \in Seq(Commands), NEW c \in Commands, Send(c)
    PROVE  /\ Len(inbox) \in Nat
           /\ inbox' \in Seq(Commands)
           /\ \/ inbox' = inbox
              \/ /\ Len(inbox') = Len(inbox) + 1
                 /\ \A i \in 1 .. Len(inbox) : inbox'[i] = inbox[i]
                 /\ inbox'[Len(inbox')] = c
                 /\ inbox = <<>> => inbox' = <<c>>
<1>1. Len(inbox) \in Nat
  BY LenProperties
<1>2. inbox' = inbox \/ inbox' = Append(inbox, c)
  BY DEF Send
<1>3. CASE inbox' = Append(inbox, c)
  <2>1. /\ inbox' \in Seq(Commands)
        /\ Len(inbox') = Len(inbox) + 1
        /\ \A i \in 1 .. Len(inbox) : inbox'[i] = inbox[i]
        /\ inbox'[Len(inbox) + 1] = c
    BY <1>3, AppendProperties
  <2>2. inbox = <<>> => inbox' = <<c>>
    BY <1>3
  <2> QED
    BY <1>1, <2>1, <2>2
<1> QED
  BY <1>1, <1>2, <1>3

-----------------------------------------------------------------------------
(* Which answers can be in transit: whatever reads cut out of the replies, *)
(* a 354 comes from DATA, and no 250 is to be had between that 354 and the *)
(* acceptance of the body.                                                 *)

Only(verbs) == \A i \in 1 .. Len(inbox) : inbox[i].verb \in verbs
Without(code) == \A i \in 1 .. Len(wire) : wire[i].code # code

No250After354 ==
    \A i, j \in 1 .. Len(wire) :
        i < j /\ wire[i].code = 354 => wire[j].code # 250
No250InRest == \A j \in 1 .. Len(wire) : 1 < j => wire[j].code # 250

TransitInv ==
    /\ step \in Searching \cup {"say", "expect"} \cup Finished
    /\ next \in 1 .. N
    /\ inbox \in Seq(Commands)
    /\ wire \in Seq(Pieces)
    /\ closed \in BOOLEAN
    /\ rcpts \subseteq Group
    /\ taken \in {{}, rcpts}
    /\ whole \in BOOLEAN

BeforeData ==
    next < N - 1 \/ (next = N - 1 /\ step = "say")
        => Only(Early) /\ Without(354)

AtData ==
    next = N - 1 =>
        /\ Only(Early \cup {"DATA"})
        /\ \A i \in 1 .. Len(inbox) : inbox[i].verb = "DATA" => i = Len(inbox)
        /\ inbox # <<>> => Without(354)
        /\ ~Without(354) => rcpts # {}
        /\ No250After354

AtBody ==
    next = N =>
        /\ rcpts # {}
        /\ Only({"BODY", "QUIT"})
        /\ taken = {} => Without(250)
        /\ \A i \in 1 .. Len(inbox) :
             inbox[i].verb = "BODY" => Len(inbox) = 1 /\ taken = {}
        /\ step = "say" => inbox = <<>> /\ taken = {}

AnswerInv ==
    /\ step \in Searching => next = 1 /\ inbox = <<>> /\ wire = <<>>
    /\ next < N => taken = {}
    /\ step = "ok" => next = N /\ taken # {}
    /\ BeforeData
    /\ AtData
    /\ AtBody

DialogueInv == TransitInv /\ AnswerInv

LEMMA DialogueStarts == ClientInit => DialogueInv
<1> SUFFICES ASSUME ClientInit PROVE DialogueInv
  OBVIOUS
<1>1. N \in Nat /\ N >= 5
  BY ScriptVerbs
<1>2. /\ step = "lookup" /\ next = 1 /\ inbox = <<>> /\ wire = <<>> /\ taken = {}
      /\ closed = FALSE /\ rcpts = {} /\ whole = TRUE
  BY DEF ClientInit, DiscoveryInit
<1>3. <<>> \in Seq(Commands) /\ <<>> \in Seq(Pieces) /\ Len(<<>>) = 0
  BY EmptySeq
<1>4. Only(Early) /\ Without(354)
  BY <1>2, <1>3 DEF Only, Without
<1>5. BeforeData /\ AtData /\ AtBody
  BY <1>1, <1>2, <1>4 DEF BeforeData, AtData, AtBody
<1>6. TransitInv
  <2>1. step \in Searching
    BY <1>2 DEF Searching
  <2>2. next \in 1 .. N
    BY <1>1, <1>2
  <2>3. inbox \in Seq(Commands) /\ wire \in Seq(Pieces)
    BY <1>2, <1>3
  <2> QED
    BY <1>2, <2>1, <2>2, <2>3 DEF TransitInv
<1> QED
  BY <1>1, <1>2, <1>5, <1>6 DEF DialogueInv, AnswerInv

\* Steps that touch neither what is in transit nor what was taken.
LEMMA DialogueKept ==
    ASSUME DialogueInv, UNCHANGED dialogueVars,
           step' \in Searching \cup {"say", "expect"} \cup Finished,
           step' \in Searching => step \in Searching,
           step' = "ok" => step = "ok",
           step' = "say" => step = "say" \/ step \in Searching
    PROVE  DialogueInv'
<1>1. /\ UNCHANGED <<next, inbox, wire, closed, rcpts, taken, whole>>
      /\ N' = N
  BY DEF dialogueVars, N
<1>2. N \in Nat /\ N >= 5
  BY ScriptVerbs
<1> USE DEF DialogueInv, TransitInv, AnswerInv
<1>3. step \in Searching => next = 1
  OBVIOUS
<1>4. next \in 1 .. N
  OBVIOUS
<1>5. TransitInv'
  BY <1>1
<1>6. /\ Only(Early)' = Only(Early) /\ Without(354)' = Without(354)
      /\ Only(Early \cup {"DATA"})' = Only(Early \cup {"DATA"})
      /\ Only({"BODY", "QUIT"})' = Only({"BODY", "QUIT"})
      /\ Without(250)' = Without(250)
  BY <1>1 DEF Only, Without
<1>7. BeforeData'
  BY <1>1, <1>2, <1>3, <1>6 DEF BeforeData
<1>8. AtData'
  BY <1>1, <1>6 DEF AtData, No250After354
<1>9. AtBody'
  BY <1>1, <1>2, <1>3, <1>6 DEF AtBody
<1> QED
  BY <1>1, <1>5, <1>7, <1>8, <1>9

LEMMA SayDialogue ==
    ASSUME DialogueInv, Say
    PROVE  DialogueInv'
<1> USE DEF DialogueInv, TransitInv, AnswerInv
<1>1. /\ step = "say" /\ step' = "expect"
      /\ UNCHANGED <<next, wire, closed, rcpts, taken, whole>>
      /\ Send(Script[next])
  BY DEF Say
<1>2. N \in Nat /\ N >= 5 /\ next \in 1 .. N
  BY ScriptVerbs
<1> DEFINE c == Script[next]
<1>3. /\ c \in Commands
      /\ next < N - 1 => c.verb \in Early
      /\ next = N - 1 => c.verb = "DATA"
      /\ next = N => c.verb = "BODY"
  BY <1>2, ScriptVerbs
<1>4. /\ Len(inbox) \in Nat
      /\ inbox' \in Seq(Commands)
      /\ \/ inbox' = inbox
         \/ /\ Len(inbox') = Len(inbox) + 1
            /\ \A i \in 1 .. Len(inbox) : inbox'[i] = inbox[i]
            /\ inbox'[Len(inbox')] = c
            /\ inbox = <<>> => inbox' = <<c>>
  BY <1>1, <1>3, InboxAfterSend
<1> HIDE DEF c
<1>5. \A i \in 1 .. Len(inbox') :
        \/ i \in 1 .. Len(inbox) /\ inbox'[i] = inbox[i]
        \/ i = Len(inbox') /\ inbox'[i] = c
  BY <1>4
<1>6. "expect" \notin Searching
  BY DEF Searching
<1>7. BeforeData'
  BY <1>1, <1>2, <1>3, <1>5 DEF BeforeData, Only, Without
<1>8. AtData'
  <2>1. CASE next = N - 1
    <3>1. Only(Early) /\ Without(354)
      BY <1>1, <2>1 DEF BeforeData
    <3>2. Only(Early \cup {"DATA"})'
      BY <1>3, <1>5, <2>1, <3>1 DEF Only
    <3>3. \A i \in 1 .. Len(inbox') : inbox'[i].verb = "DATA" => i = Len(inbox')
      BY <1>5, <3>1 DEF Only, Early
    <3> QED
      BY <1>1, <3>1, <3>2, <3>3 DEF AtData, Without, No250After354
  <2> QED
    BY <1>1, <2>1 DEF AtData
<1>9. AtBody'
  <2>1. CASE next = N
    <3>1. inbox = <<>> /\ taken = {} /\ rcpts # {} /\ Without(250)
      BY <1>1, <2>1 DEF AtBody
    <3>2. inbox' = <<>> \/ (Len(inbox') = 1 /\ inbox'[1].verb = "BODY")
      BY <1>3, <1>4, <2>1, <3>1
    <3>3. \A i \in 1 .. Len(inbox') : inbox'[i].verb = "BODY" /\ Len(inbox') = 1
      BY <3>2
    <3> QED
      BY <1>1, <3>1, <3>3 DEF AtBody, Only, Without
  <2> QED
    BY <1>1, <2>1 DEF AtBody
<1> QED
  BY <1>1, <1>2, <1>4, <1>6, <1>7, <1>8, <1>9

\* A read leaves the end of the wire.
LEMMA ReadLeaves ==
    ASSUME wire \in Seq(Pieces), NEW n \in DOMAIN wire,
           wire' = SubSeq(wire, n + 1, Len(wire))
    PROVE  /\ n \in Nat \ {0}
           /\ \A i \in 1 .. Len(wire') :
                n + i \in 1 .. Len(wire) /\ wire'[i] = wire[n + i]
<1>1. n \in 1 .. Len(wire) /\ Len(wire) \in Nat \ {0}
  BY WireAfterRead
<1>2. \A i \in 1 .. Len(wire') :
        n + i \in 1 .. Len(wire) /\ wire'[i] = wire[n + i]
  BY WireAfterRead
<1> QED
  BY <1>1, <1>2

LEMMA ReadLeavesWithout ==
    ASSUME wire \in Seq(Pieces), NEW n \in DOMAIN wire,
           wire' = SubSeq(wire, n + 1, Len(wire)),
           NEW code, Without(code)
    PROVE  Without(code)'
<1>1. \A i \in 1 .. Len(wire') :
        n + i \in 1 .. Len(wire) /\ wire'[i] = wire[n + i]
  BY ReadLeaves
<1> QED
  BY <1>1 DEF Without

\* A wire whose pieces are those of another, n further on, has no new pairs.
LEMMA ShiftedNo250 ==
    ASSUME NEW n \in Nat \ {0}, No250After354,
           \A i \in 1 .. Len(wire') :
               n + i \in 1 .. Len(wire) /\ wire'[i] = wire[n + i]
    PROVE  No250After354'
<1>1. ASSUME NEW i \in 1 .. Len(wire'), NEW j \in 1 .. Len(wire'),
             i < j, wire'[i].code = 354
      PROVE  wire'[j].code # 250
  <2>1. n + i < n + j
    BY <1>1
  <2>2. PICK p \in 1 .. Len(wire) : p = n + i /\ wire'[i] = wire[p]
    OBVIOUS
  <2>3. PICK q \in 1 .. Len(wire) : q = n + j /\ wire'[j] = wire[q]
    OBVIOUS
  <2>4. p < q /\ wire[p].code = 354
    BY <1>1, <2>1, <2>2, <2>3
  <2>5. wire[q].code # 250
    BY <2>4 DEF No250After354
  <2> QED
    BY <2>3, <2>5
<1> QED
  BY <1>1 DEF No250After354

LEMMA ReadLeavesNo250 ==
    ASSUME wire \in Seq(Pieces), NEW n \in DOMAIN wire,
           wire' = SubSeq(wire, n + 1, Len(wire)),
           No250After354
    PROVE  No250After354'
<1>1. n \in Nat \ {0}
  BY ReadLeaves
<1>2. \A i \in 1 .. Len(wire') :
        n + i \in 1 .. Len(wire) /\ wire'[i] = wire[n + i]
  BY ReadLeaves
<1> QED
  BY <1>1, <1>2, ShiftedNo250

LEMMA ReadLeavesRest ==
    ASSUME wire \in Seq(Pieces), NEW n \in DOMAIN wire,
           wire' = SubSeq(wire, n + 1, Len(wire)),
           No250InRest
    PROVE  Without(250)'
<1>1. /\ n \in Nat \ {0}
      /\ \A i \in 1 .. Len(wire') :
           n + i \in 1 .. Len(wire) /\ wire'[i] = wire[n + i]
  BY ReadLeaves
<1>2. ASSUME NEW i \in 1 .. Len(wire') PROVE wire'[i].code # 250
  <2>1. n + i \in 1 .. Len(wire) /\ 1 < n + i /\ wire'[i] = wire[n + i]
    BY <1>1
  <2> QED
    BY <2>1 DEF No250InRest
<1> QED
  BY <1>2 DEF Without

LEMMA ExpectDialogue ==
    ASSUME DialogueInv, Expect
    PROVE  DialogueInv'
<1> USE DEF DialogueInv, TransitInv, AnswerInv
<1>1. /\ step = "expect"
      /\ UNCHANGED <<closed, rcpts, taken>>
  BY DEF Expect
<1>2. N \in Nat /\ N >= 5 /\ next \in 1 .. N
  BY ScriptVerbs
<1>3. PICK n \in DOMAIN wire :
        /\ \/ Matches(SubSeq(wire, 1, n)) /\ Advance
           \/ step' = "SmtpError" /\ UNCHANGED <<next, inbox>>
        /\ wire' = SubSeq(wire, n + 1, Len(wire))
        /\ whole' = (whole /\ IsWhole(SubSeq(wire, 1, n)))
  BY DEF Expect
<1>4. /\ Len(wire) \in Nat \ {0}
      /\ wire' \in Seq(Pieces)
      /\ SubSeq(wire, 1, n)[1] = wire[1]
  BY <1>3, WireAfterRead
<1>5. whole' \in BOOLEAN
  BY <1>3
<1>6. Without(354) => Without(354)'
  BY <1>3, ReadLeavesWithout
<1>7. Without(250) => Without(250)'
  BY <1>3, ReadLeavesWithout
<1>8. No250After354 => No250After354'
  BY <1>3, ReadLeavesNo250
<1>13. No250InRest => Without(250)'
  BY <1>3, ReadLeavesRest
<1>9. {"say", "ok", "SmtpError"} \cap Searching = {}
      /\ {"ok", "SmtpError"} \subseteq Finished
  BY DEF Searching, Finished, Failed
\* The reply is not the one expected.
<1>10. CASE step' = "SmtpError" /\ UNCHANGED <<next, inbox>>
  <2>1. BeforeData'
    BY <1>1, <1>2, <1>6, <1>10 DEF BeforeData, Only
  <2>2. AtData'
    <3>1. CASE next = N - 1
      <4>1. ~Without(354)' => rcpts # {}
        BY <1>6, <3>1 DEF AtData
      <4>2. inbox # <<>> => Without(354)'
        BY <1>6, <3>1 DEF AtData
      <4> QED
        BY <1>1, <1>8, <1>10, <3>1, <4>1, <4>2 DEF AtData, Only
    <3> QED
      BY <1>10, <3>1 DEF AtData, N
  <2>3. AtBody'
    BY <1>1, <1>7, <1>10 DEF AtBody, Only
  <2> QED
    BY <1>1, <1>4, <1>5, <1>9, <1>10, <2>1, <2>2, <2>3
\* The next command is due.
<1>11. CASE /\ Matches(SubSeq(wire, 1, n))
            /\ next < N /\ step' = "say" /\ next' = next + 1 /\ inbox' = inbox
  <2>1. taken = {}
    BY <1>11
  <2>2. next < N - 1 => Only(Early) /\ Without(354)
    BY DEF BeforeData
  <2>3. next = N - 1 => wire[1].code = 354
    BY <1>4, <1>11, ScriptVerbs DEF Matches, Expected
  <2>4. next = N - 1 =>
          /\ inbox = <<>>
          /\ rcpts # {}
          /\ No250InRest
    <3>1. 1 \in 1 .. Len(wire)
      BY <1>4
    <3>2. CASE next = N - 1
      <4>1. ~Without(354)
        BY <2>3, <3>1, <3>2 DEF Without
      <4>2. inbox = <<>> /\ rcpts # {}
        BY <3>2, <4>1 DEF AtData
      <4>3. No250InRest
        BY <2>3, <3>1, <3>2 DEF AtData, No250After354, No250InRest
      <4> QED
        BY <4>2, <4>3
    <3> QED
      BY <3>2
  <2>5. next = N - 1 => Without(250)'
    BY <1>13, <2>4
  <2>6. BeforeData'
    BY <1>2, <1>6, <1>11, <2>2 DEF BeforeData, Only
  <2>7. AtData'
    <3>1. CASE next + 1 = N - 1
      <4>1. Only(Early)' /\ Without(354)'
        BY <1>2, <1>6, <1>11, <2>2, <3>1 DEF Only
      <4>2. Only(Early \cup {"DATA"})'
        BY <4>1 DEF Only
      <4>3. \A i \in 1 .. Len(inbox') : inbox'[i].verb # "DATA"
        BY <4>1 DEF Only, Early
      <4> QED
        BY <4>1, <4>2, <4>3 DEF AtData, Without, No250After354
    <3> QED
      BY <1>11, <3>1 DEF AtData
  <2>8. AtBody'
    <3>1. CASE next + 1 = N
      <4>1. next = N - 1
        BY <1>2, <3>1
      <4>2. Len(inbox') = 0
        BY <1>11, <2>4, <4>1
      <4> QED
        BY <1>1, <1>11, <2>1, <2>4, <2>5, <4>1, <4>2 DEF AtBody, Only
    <3> QED
      BY <1>11, <3>1 DEF AtBody
  <2> QED
    BY <1>1, <1>2, <1>4, <1>5, <1>9, <1>11, <2>1, <2>6, <2>7, <2>8
\* deliver() returns Ok: the 250 in hand is the acceptance of the body.
<1>12. CASE /\ Matches(SubSeq(wire, 1, n))
            /\ ~(next < N) /\ step' = "ok" /\ next' = next /\ Send(Bare("QUIT"))
  <2>1. next = N
    BY <1>2, <1>12
  <2>2. wire[1].code = 250
    BY <1>4, <1>12, <2>1, ScriptVerbs DEF Matches, Expected
  <2>3. taken # {}
    BY <1>4, <2>1, <2>2 DEF AtBody, Without
  <2>4. \A i \in 1 .. Len(inbox) : inbox[i].verb = "QUIT"
    BY <2>1, <2>3 DEF AtBody, Only
  <2>5. Bare("QUIT") \in Commands /\ Bare("QUIT").verb = "QUIT"
    BY DEF Commands, Bare
  <2>6. /\ Len(inbox) \in Nat
        /\ inbox' \in Seq(Commands)
        /\ \/ inbox' = inbox
           \/ /\ Len(inbox') = Len(inbox) + 1
              /\ \A i \in 1 .. Len(inbox) : inbox'[i] = inbox[i]
              /\ inbox'[Len(inbox')] = Bare("QUIT")
    BY <1>12, <2>5, InboxAfterSend
  <2>7. \A i \in 1 .. Len(inbox') : inbox'[i].verb = "QUIT"
    BY <2>4, <2>5, <2>6
  <2>8. AtBody'
    BY <1>1, <1>12, <2>1, <2>3, <2>7 DEF AtBody, Only
  <2>9. BeforeData' /\ AtData'
    BY <1>2, <1>12, <2>1 DEF BeforeData, AtData
  <2> QED
    BY <1>1, <1>2, <1>4, <1>5, <1>9, <1>12, <2>1, <2>3, <2>6, <2>8, <2>9
<1> QED
  BY <1>3, <1>10, <1>11, <1>12 DEF Advance, N

\* The remote server answers the first command in its inbox.
Answers(c, code) ==
    /\ inbox # <<>>
    /\ c = Head(inbox)
    /\ inbox' = Tail(inbox)
    /\ c.verb # "QUIT"
    /\ \/ rcpts' = rcpts
       \/ c.verb = "RCPT" /\ rcpts' = rcpts \cup {c.rcpt}
    /\ \/ taken' = taken
       \/ c.verb = "BODY" /\ taken' = rcpts
    /\ code = 354 => c.verb = "DATA" /\ rcpts # {}
    /\ code = 250 => c.verb # "DATA" /\ (c.verb = "BODY" => taken' = rcpts)
    /\ Answered(code)
    /\ UNCHANGED <<step, next, closed, whole>>

LEMMA ReplyDialogue ==
    ASSUME DialogueInv, NEW c, NEW code \in {250, 354, Refusal}, Answers(c, code)
    PROVE  DialogueInv'
<1> USE DEF Answers
<1>1. TransitInv /\ AnswerInv /\ BeforeData /\ AtData /\ AtBody
  BY DEF DialogueInv, AnswerInv
<1>2. N \in Nat /\ N >= 5 /\ next \in 1 .. N
  BY <1>1, ScriptVerbs DEF TransitInv
<1>3. /\ Len(inbox) \in Nat \ {0}
      /\ c = inbox[1] /\ c \in Commands
      /\ inbox' \in Seq(Commands)
      /\ Len(inbox') = Len(inbox) - 1
      /\ Len(inbox) = 1 => inbox' = <<>>
      /\ \A i \in 1 .. Len(inbox') :
           i + 1 \in 1 .. Len(inbox) /\ inbox'[i] = inbox[i + 1]
  BY <1>1, InboxAfterTail DEF TransitInv
<1>4. /\ wire' \in Seq(Pieces)
      /\ Len(wire) \in Nat
      /\ Len(wire') \in Nat
      /\ \A i \in 1 .. Len(wire') :
           \/ i \in 1 .. Len(wire) /\ wire'[i] = wire[i]
           \/ i \notin 1 .. Len(wire) /\ wire'[i].code \in {code, NoCode}
  BY DEF Answered
<1>5. NoCode # 354 /\ NoCode # 250 /\ Refusal # 250
  BY DEF NoCode, Refusal
<1>6. ASSUME NEW d \in {250, 354}, d # code, Without(d)
      PROVE  Without(d)'
  BY <1>4, <1>5, <1>6 DEF Without
<1>7. \A V : Only(V) => c.verb \in V /\ Only(V)'
  BY <1>3 DEF Only
<1>8. next < N - 1 => Only(Early)
  BY <1>1 DEF BeforeData
<1>9. next = N - 1 => Only(Early \cup {"DATA"})
  BY <1>1 DEF AtData
<1>10. next < N => c.verb \in Early \cup {"DATA"}
  BY <1>2, <1>7, <1>8, <1>9
<1>11. next = N => c.verb = "BODY" /\ Len(inbox) = 1 /\ taken = {} /\ inbox' = <<>>
  <2>1. next = N => c.verb = "BODY"
    BY <1>1, <1>7 DEF AtBody
  <2> QED
    BY <1>1, <1>3, <2>1 DEF AtBody
<1>12. taken = {}
  BY <1>1, <1>2, <1>11 DEF AnswerInv
<1>13. next < N => taken' = {}
  BY <1>10, <1>12 DEF Early
<1>14. TransitInv'
  <2>1. c.verb = "RCPT" => c.rcpt \in Group
    BY <1>3, ScriptVerbs
  <2>2. rcpts' \subseteq Group
    BY <1>1, <2>1 DEF TransitInv
  <2>3. taken' \in {{}, rcpts'}
    BY <1>12
  <2> QED
    BY <1>1, <1>3, <1>4, <2>2, <2>3 DEF TransitInv, N
<1>15. BeforeData'
  <2>1. ASSUME next < N - 1 \/ (next = N - 1 /\ step = "say")
        PROVE  Only(Early)' /\ Without(354)'
    <3>1. Only(Early) /\ Without(354)
      BY <1>1, <2>1 DEF BeforeData
    <3>2. code # 354
      BY <1>7, <3>1 DEF Early
    <3> QED
      BY <1>6, <1>7, <3>1, <3>2
  <2> QED
    BY <2>1 DEF BeforeData, N
<1>16. AtData'
  <2>1. ASSUME next = N - 1
        PROVE  /\ Only(Early \cup {"DATA"})'
               /\ \A i \in 1 .. Len(inbox') :
                    inbox'[i].verb = "DATA" => i = Len(inbox')
               /\ inbox' # <<>> => Without(354)'
               /\ ~Without(354)' => rcpts' # {}
               /\ No250After354'
    <3>1. Only(Early \cup {"DATA"})'
      BY <1>7, <1>9, <2>1
    <3>2. Without(354)
      BY <1>1, <2>1 DEF AtData
    <3>6. \A i \in 1 .. Len(inbox) : inbox[i].verb = "DATA" => i = Len(inbox)
      BY <1>1, <2>1 DEF AtData
    <3>3. \A i \in 1 .. Len(inbox') : inbox'[i].verb = "DATA" => i = Len(inbox')
      <4>1. ASSUME NEW i \in 1 .. Len(inbox'), inbox'[i].verb = "DATA"
            PROVE  i = Len(inbox')
        <5>1. i + 1 \in 1 .. Len(inbox) /\ inbox'[i] = inbox[i + 1]
          BY <1>3
        <5>2. i + 1 = Len(inbox)
          BY <3>6, <4>1, <5>1
        <5>3. i \in Int /\ Len(inbox') = Len(inbox) - 1 /\ Len(inbox) \in Nat
          BY <1>3
        <5> QED
          BY <5>2, <5>3
      <4> QED
        BY <4>1
    <3>4. CASE c.verb = "DATA"
      <4>1. 1 = Len(inbox) /\ inbox' = <<>>
        <5>1. 1 \in 1 .. Len(inbox) /\ inbox[1].verb = "DATA"
          BY <1>3, <3>4
        <5>2. 1 = Len(inbox)
          BY <3>6, <5>1
        <5> QED
          BY <1>3, <5>2
      <4>2. ~Without(354)' => code = 354
        BY <1>6, <3>2
      <4>3. rcpts' = rcpts
        BY <3>4
      <4>4. ASSUME NEW i \in 1 .. Len(wire'), NEW j \in 1 .. Len(wire'),
                   i < j, wire'[i].code = 354
            PROVE  wire'[j].code # 250
        <5>1. i \notin 1 .. Len(wire)
          BY <1>4, <3>2, <4>4 DEF Without
        <5>2. j \notin 1 .. Len(wire)
          BY <1>4, <4>4, <5>1
        <5> QED
          BY <1>4, <1>5, <3>4, <5>2
      <4> QED
        BY <3>1, <3>3, <4>1, <4>2, <4>3, <4>4 DEF No250After354
    <3>5. CASE c.verb # "DATA"
      <4>1. Without(354)'
        BY <1>6, <3>2, <3>5
      <4> QED
        BY <3>1, <3>3, <4>1 DEF No250After354, Without
    <3> QED
      BY <3>4, <3>5
  <2> QED
    BY <2>1 DEF AtData, N
<1>17. AtBody'
  <2>1. ASSUME next = N
        PROVE  /\ rcpts' # {}
               /\ inbox' = <<>>
               /\ taken' = {} => Without(250)'
               /\ step # "say"
    <3>1. rcpts' # {} /\ step # "say"
      BY <1>1, <1>11, <2>1 DEF AtBody
    <3>2. taken' = {} => code # 250
      BY <1>1, <1>11, <2>1 DEF AtBody
    <3>3. Without(250)
      BY <1>1, <1>12, <2>1 DEF AtBody
    <3> QED
      BY <1>6, <1>11, <2>1, <3>1, <3>2, <3>3
  <2>2. inbox' = <<>> => Len(inbox') = 0
    OBVIOUS
  <2> QED
    BY <2>1, <2>2 DEF AtBody, Only, N
<1>18. step \notin Searching /\ step # "ok"
  BY <1>1, <1>12 DEF AnswerInv
<1> QED
  BY <1>13, <1>14, <1>15, <1>16, <1>17, <1>18 DEF DialogueInv, AnswerInv, N

LEMMA RemoteDialogue ==
    ASSUME DialogueInv, Remote
    PROVE  DialogueInv'
<1>1. CASE RemoteAccepts
  <2>1. PICK c : c = Head(inbox)
    OBVIOUS
  <2>2. PICK code \in {250, 354, Refusal} : code = Expected(c)
    BY DEF Expected
  <2>3. /\ code = 354 => c.verb = "DATA"
        /\ code = 250 => c.verb # "DATA"
    BY <2>2 DEF Expected
  <2>4. /\ inbox # <<>> /\ inbox' = Tail(inbox)
        /\ UNCHANGED <<step, next, closed, whole>>
        /\ c.verb # "QUIT"
        /\ c.verb = "DATA" => rcpts # {}
        /\ rcpts' = IF c.verb = "RCPT" THEN rcpts \cup {c.rcpt} ELSE rcpts
        /\ taken' = IF c.verb = "BODY" THEN rcpts ELSE taken
    BY <1>1, <2>1 DEF RemoteAccepts
  <2>5. Answered(code)
    <3>1. PICK r \in Reply(code) : Arrives(r)
      BY <1>1, <2>1, <2>2 DEF RemoteAccepts, Arrives
    <3>2. wire \in Seq(Pieces)
      BY DEF DialogueInv, TransitInv
    <3> QED
      BY <3>1, <3>2, WireAfterReply
  <2>6. Answers(c, code)
    BY <2>1, <2>3, <2>4, <2>5 DEF Answers
  <2> QED
    BY <2>6, ReplyDialogue
<1>2. CASE RemoteRefuses
  <2>1. PICK r \in Reply(Refusal) : Arrives(r)
    BY <1>2 DEF RemoteRefuses, Arrives
  <2>2. Refusal # 250 /\ Refusal # 354
    BY DEF Refusal
  <2>3. wire \in Seq(Pieces)
    BY DEF DialogueInv, TransitInv
  <2>4. Answered(Refusal)
    BY <2>1, <2>3, WireAfterReply
  <2>5. Answers(Head(inbox), Refusal)
    BY <1>2, <2>2, <2>4 DEF RemoteRefuses, Answers
  <2> QED
    BY <2>5, ReplyDialogue
<1>3. CASE RemoteCloses
  <2>1. /\ inbox' = <<>> /\ Len(inbox') = 0 /\ inbox' \in Seq(Commands)
        /\ closed' = TRUE
        /\ UNCHANGED <<step, next, wire, rcpts, taken, whole>>
        /\ step \notin Searching
    BY <1>3, EmptySeq DEF RemoteCloses
  <2>2. \A V : Only(V)'
    BY <2>1 DEF Only
  <2>3. \A code : Without(code)' = Without(code)
    BY <2>1 DEF Without
  <2>4. No250After354' = No250After354
    BY <2>1 DEF No250After354
  <2>5. TransitInv'
    BY <2>1 DEF DialogueInv, TransitInv, N
  <2>6. BeforeData' /\ AtData' /\ AtBody'
    BY <2>1, <2>2, <2>3, <2>4
    DEF DialogueInv, AnswerInv, BeforeData, AtData, AtBody, N
  <2> QED
    BY <2>1, <2>5, <2>6 DEF DialogueInv, AnswerInv, N
<1> QED
  BY <1>1, <1>2, <1>3 DEF Remote

-----------------------------------------------------------------------------
(* The whole of the client. *)

\* Nothing after the greeting touches what the search has found.
LEMMA SearchKept ==
    ASSUME SearchInv, UNCHANGED discoveryVars,
           \/ step' = step
           \/ step' \notin Searching \cup {"NoSmtpHostError"} /\ step # "pop"
    PROVE  SearchInv'
<1>1. UNCHANGED <<tlsConfigured, records, remote_hosts, host, probed>>
  BY DEF discoveryVars
<1>2. CASE step' = step
  BY <1>1, <1>2 DEF SearchInv, DiscoveryTypeOK
<1>3. CASE step' \notin Searching \cup {"NoSmtpHostError"} /\ step # "pop"
  <2>1. step' \notin {"lookup", "pop", "tls", "plain", "NoSmtpHostError"}
    BY <1>3 DEF Searching
  <2>2. step # "NoSmtpHostError" \/ remote_hosts = {}
    BY DEF SearchInv
  <2> QED
    BY <1>1, <1>3, <2>1, <2>2 DEF SearchInv, DiscoveryTypeOK
<1> QED
  BY <1>2, <1>3

\* Which steps of deliver() follow which.
LEMMA Steps ==
    /\ Discover =>
         /\ step \in Searching
         /\ step' \in Searching \cup
              {"say", "DnsLookupError", "NoSmtpHostError", "panic"}
    /\ Say \/ SayFails => step = "say" /\ step' \in {"expect", "IoError"}
    /\ Expect => step = "expect" /\ step' \in {"say", "ok", "SmtpError"}
    /\ ExpectClosed \/ ExpectTimeout =>
         step = "expect" /\ step' \in {"SmtpError", "IoError", "Timeout"}
    /\ Remote => step' = step
<1>1. Discover =>
        /\ step \in Searching
        /\ step' \in Searching \cup
             {"say", "DnsLookupError", "NoSmtpHostError", "panic"}
  BY DEF Discover, LookupFails, LookupAnswers, PopHost, NoHostLeft, TlsProbeFails,
         TlsProbePanics, PlainProbeFails, Greeted, Searching
<1>2. Expect => step = "expect" /\ step' \in {"say", "ok", "SmtpError"}
  BY DEF Expect, Advance
<1>3. Remote => step' = step
  BY DEF Remote, RemoteAccepts, RemoteRefuses, RemoteCloses
<1> QED
  BY <1>1, <1>2, <1>3 DEF Say, SayFails, ExpectClosed, ExpectTimeout

\* The inductive invariant of the client.
ClientInv == SearchInv /\ DialogueInv

LEMMA ClientStarts == ClientInit => ClientInv
  BY SearchStarts, DialogueStarts DEF ClientInit, ClientInv

LEMMA ClientStepInv ==
    ASSUME ClientInv, [ClientNext]_clientVars
    PROVE  ClientInv'
<1> USE DEF ClientInv
<1>0. Searching \cap {"say", "expect", "NoSmtpHostError", "ok"} = {}
  BY DEF Searching
<1>1. CASE Search
  <2>1. Discover /\ UNCHANGED dialogueVars
    BY <1>1 DEF Search
  <2>2. /\ step \in Searching
        /\ step' \in Searching \cup
             {"say", "DnsLookupError", "NoSmtpHostError", "panic"}
    BY <2>1, Steps
  <2>3. step' \in Searching \cup {"say", "expect"} \cup Finished /\ step' # "ok"
    BY <1>0, <2>2 DEF Finished, Failed
  <2>4. DialogueInv'
    BY <2>1, <2>2, <2>3, DialogueKept
  <2> QED
    BY <2>1, <2>4, SearchStep
<1>2. CASE Say
  <2>1. UNCHANGED discoveryVars
    BY <1>2 DEF Say
  <2>2. step = "say" /\ step' = "expect"
    BY <1>2 DEF Say
  <2>3. step' \notin Searching \cup {"NoSmtpHostError"} /\ step # "pop"
    BY <1>0, <2>2
  <2>4. SearchInv'
    BY <2>1, <2>3, SearchKept
  <2>5. DialogueInv'
    BY <1>2, SayDialogue
  <2> QED
    BY <2>4, <2>5
<1>3. CASE SayFails \/ ExpectClosed \/ ExpectTimeout
  <2>1. UNCHANGED discoveryVars /\ UNCHANGED dialogueVars
    BY <1>3 DEF SayFails, ExpectClosed, ExpectTimeout
  <2>2. /\ step \in {"say", "expect"}
        /\ step' \in {"IoError", "SmtpError", "Timeout"}
    BY <1>3 DEF SayFails, ExpectClosed, ExpectTimeout
  <2>3. /\ step' \notin Searching \cup {"NoSmtpHostError", "say", "ok"}
        /\ step' \in Finished
    BY <2>2 DEF Searching, Finished, Failed
  <2>4. DialogueInv'
    BY <2>1, <2>3, DialogueKept
  <2>5. SearchInv'
    BY <2>1, <2>2, <2>3, SearchKept
  <2> QED
    BY <2>4, <2>5
<1>4. CASE Expect
  <2>1. UNCHANGED discoveryVars
    BY <1>4 DEF Expect
  <2>2. step = "expect" /\ step' \notin Searching \cup {"NoSmtpHostError"}
    BY <1>4, Steps DEF Searching
  <2>3. SearchInv'
    BY <2>1, <2>2, SearchKept
  <2>4. DialogueInv'
    BY <1>4, ExpectDialogue
  <2> QED
    BY <2>3, <2>4
<1>5. CASE Remote
  <2>1. UNCHANGED discoveryVars /\ step' = step
    BY <1>5 DEF Remote, RemoteAccepts, RemoteRefuses, RemoteCloses
  <2> QED
    BY <1>5, <2>1, SearchKept, RemoteDialogue
<1>6. CASE Over \/ UNCHANGED clientVars
  <2>1. UNCHANGED discoveryVars /\ UNCHANGED dialogueVars /\ step' = step
    BY <1>6 DEF Over, clientVars, discoveryVars, dialogueVars
  <2>2. DialogueInv'
    BY <2>1, DialogueKept DEF DialogueInv, TransitInv
  <2> QED
    BY <2>1, <2>2, SearchKept
<1> QED
  BY <1>1, <1>2, <1>3, <1>4, <1>5, <1>6 DEF ClientNext, ClientStep

LEMMA ClientInvariant == ClientSpec => []ClientInv
<1>1. ClientInit => ClientInv
  BY ClientStarts
<1>2. ClientInv /\ [ClientNext]_clientVars => ClientInv'
  BY ClientStepInv
<1> QED
  BY <1>1, <1>2, PTL DEF ClientSpec

\* The client's variables keep their types (the step of deliver(), what is
\* in transit, the accepted recipients and those the mail was taken for), so
\* that no command past the end of the dialogue of run() is ever due.
THEOREM ClientTypesCorrect == ClientSpec => []ClientTypeOK
<1>1. ClientInv => ClientTypeOK
  <2>1. DOMAIN Script = 1 .. N
    BY ScriptVerbs
  <2> QED
    BY <2>1 DEF ClientInv, SearchInv, DialogueInv, TransitInv, ClientTypeOK
<1> QED
  BY <1>1, ClientInvariant, PTL

\* discover_connection never turns to a host while one of a better
\* preference has a port left to try, and gives up only when none has,
\* whatever the answer of the DNS and however equal preferences are shuffled.
THEOREM HostsProbedInOrder == ClientSpec => []ProbesInOrder
<1>1. ClientInv => ProbesInOrder
  BY SearchImpliesOrder DEF ClientInv
<1> QED
  BY <1>1, ClientInvariant, PTL

-----------------------------------------------------------------------------
(* The refinement: run() keeps the contract of RemoteDelivery. *)

LEMMA ContractStarts == ClientInit => DeliveryContract!Init
  BY DEF ClientInit, DiscoveryInit, DeliveryContract!Init, Outcome, Failed

\* The acceptance of the body is RemoteTakes.
LEMMA AcceptanceIsTaking ==
    ASSUME DialogueInv, RemoteAccepts
    PROVE  DeliveryContract!Next \/ UNCHANGED <<Outcome, taken>>
<1>1. /\ inbox # <<>> /\ step' = step
      /\ taken' = IF Head(inbox).verb = "BODY" THEN rcpts ELSE taken
  BY DEF RemoteAccepts
<1>2. Outcome' = Outcome
  BY <1>1 DEF Outcome
<1>3. CASE Head(inbox).verb = "BODY"
  <2>1. inbox \in Seq(Commands) /\ next \in 1 .. N /\ N \in Nat
    BY ScriptVerbs DEF DialogueInv, TransitInv
  <2>2. Len(inbox) \in Nat \ {0} /\ Head(inbox) = inbox[1]
    BY <1>1, <2>1, EmptySeq
  <2>3. 1 \in 1 .. Len(inbox) /\ inbox[1].verb = "BODY"
    BY <1>3, <2>2
  <2>4. next = N
    <3>1. next < N - 1 => Only(Early)
      BY DEF DialogueInv, AnswerInv, BeforeData
    <3>2. next = N - 1 => Only(Early \cup {"DATA"})
      BY DEF DialogueInv, AnswerInv, AtData
    <3>3. ~Only(Early) /\ ~Only(Early \cup {"DATA"})
      BY <2>3 DEF Only, Early
    <3> QED
      BY <2>1, <3>1, <3>2, <3>3
  <2>5. taken = {} /\ rcpts # {}
    BY <2>3, <2>4 DEF DialogueInv, AnswerInv, AtBody
  <2>6. step # "ok" /\ rcpts \subseteq Group
    BY <2>5 DEF DialogueInv, TransitInv, AnswerInv
  <2>7. Outcome # "ok"
    BY <2>6 DEF Outcome
  <2>8. DeliveryContract!RemoteTakes
    BY <1>1, <1>2, <1>3, <2>5, <2>6, <2>7 DEF DeliveryContract!RemoteTakes
  <2> QED
    BY <2>8 DEF DeliveryContract!Next
<1>4. CASE Head(inbox).verb # "BODY"
  BY <1>1, <1>2, <1>4
<1> QED
  BY <1>3, <1>4

\* A step of deliver() that leaves what was taken: it ends, or goes on.
LEMMA EndingIsOutcome ==
    ASSUME UNCHANGED taken,
           \/ step' = step
           \/ step \notin Finished /\ step' \notin Finished
           \/ step \notin Finished /\ step' \in Failed \cup {"panic"}
           \/ step \notin Finished /\ step' = "ok" /\ taken # {}
    PROVE  DeliveryContract!Next \/ UNCHANGED <<Outcome, taken>>
<1> USE DEF Outcome, Finished, Failed, DeliveryContract!Next
<1>1. CASE step' = step
  BY <1>1
<1>2. CASE step \notin Finished /\ step' \notin Finished
  BY <1>2
<1>3. CASE step \notin Finished /\ step' \in Failed \cup {"panic"}
  BY <1>3 DEF DeliveryContract!Fail
<1>4. CASE step \notin Finished /\ step' = "ok" /\ taken # {}
  BY <1>4 DEF DeliveryContract!Succeed
<1> QED
  BY <1>1, <1>2, <1>3, <1>4

LEMMA ContractStep ==
    ASSUME ClientInv, ClientInv', [ClientNext]_clientVars
    PROVE  DeliveryContract!Next \/ UNCHANGED <<Outcome, taken>>
<1>1. CASE RemoteAccepts
  BY <1>1, AcceptanceIsTaking DEF ClientInv
<1>2. CASE ~RemoteAccepts
  <2>1. UNCHANGED taken
    BY <1>2 DEF ClientNext, ClientStep, Remote, Over, clientVars, Search,
        dialogueVars, Say, SayFails, Expect, ExpectClosed, ExpectTimeout,
        RemoteRefuses, RemoteCloses
  <2>2. step' = "ok" => taken # {}
    BY <2>1 DEF ClientInv, DialogueInv, AnswerInv
  <2>3. \/ step' = step
        \/ step \in Searching \cup {"say", "expect"}
    BY Steps DEF ClientNext, ClientStep, Over, clientVars, Search
  <2>4. (Searching \cup {"say", "expect"}) \cap Finished = {}
    BY DEF Searching, Finished, Failed
  <2>5. step' \notin Finished \/ step' \in Failed \cup {"panic"} \/ step' = "ok"
    BY DEF Finished
  <2> QED
    BY <2>1, <2>2, <2>3, <2>4, <2>5, EndingIsOutcome
<1> QED
  BY <1>1, <1>2

\* run() returns Ok only after the remote server has taken the mail, and the
\* mail is taken at most once, for every cut of the replies into reads: a
\* 250 that answers an earlier command can never pass for the last one.
THEOREM ClientImplementsRemoteDelivery == ClientSpec => ImplementsRemoteDelivery
<1>1. ClientInit => DeliveryContract!Init
  BY ContractStarts
<1>2. ClientInv /\ ClientInv' /\ [ClientNext]_clientVars
        => [DeliveryContract!Next]_DeliveryContract!vars
  BY ContractStep DEF DeliveryContract!vars
<1> QED
  BY <1>1, <1>2, ClientInvariant, PTL
     DEF ClientSpec, ImplementsRemoteDelivery, DeliveryContract!Spec

-----------------------------------------------------------------------------
(* One mail, all recipients: as long as every read returns one whole reply, *)
(* the client and the remote server are in step with each other.            *)

Accepted ==
    \A i \in 1 .. Len(Recipients) : i + 2 < next => Recipients[i] \in rcpts

\* What can be in transit while the reply to Script[next] is awaited.
Asked == wire = <<>> /\ (inbox = <<>> \/ inbox = <<Script[next]>>)

GoodNews ==
    /\ inbox = <<>>
    /\ wire \in Reply(Expected(Script[next]))
    /\ Script[next].verb = "RCPT" => Script[next].rcpt \in rcpts

Awaited ==
    \/ Asked
    \/ inbox = <<>> /\ wire \in Reply(Refusal)
    \/ GoodNews

InStep ==
    whole =>
        /\ Accepted
        /\ step = "say" => inbox = <<>> /\ wire = <<>>
        /\ step = "expect" => Awaited

LEMMA InStepStarts == ClientInit => InStep
<1> SUFFICES ASSUME ClientInit PROVE InStep
  OBVIOUS
<1>1. next = 1 /\ step = "lookup"
  BY DEF ClientInit, DiscoveryInit
<1>2. Len(Recipients) \in Nat
  BY ScriptShape
<1> QED
  BY <1>1, <1>2 DEF InStep, Accepted

\* A read of the one reply in transit, whole, leaves nothing.
WholeRead(n) ==
    /\ n \in DOMAIN wire
    /\ IsWhole(SubSeq(wire, 1, n))
    /\ wire' = SubSeq(wire, n + 1, Len(wire))

LEMMA WholeReadLeavesNothing ==
    ASSUME NEW code \in {250, 354, Refusal}, wire \in Reply(code),
           NEW n, WholeRead(n)
    PROVE  wire' = <<>>
<1> USE DEF WholeRead
<1>1. /\ wire \in Seq(Pieces)
      /\ \A i \in 1 .. Len(wire) : wire[i].last <=> i = Len(wire)
  BY ReplyShape
<1>2. /\ n \in 1 .. Len(wire)
      /\ wire' \in Seq(Pieces)
      /\ Len(wire) \in Nat \ {0}
      /\ Len(wire') = Len(wire) - n
      /\ Len(SubSeq(wire, 1, n)) = n
      /\ SubSeq(wire, 1, n)[n] = wire[n]
  BY <1>1, WireAfterRead
<1>3. n \in DOMAIN SubSeq(wire, 1, n)
  <2>1. SubSeq(wire, 1, n) \in Seq(Pieces)
    <3>1. \A i \in 1 .. n : wire[i] \in Pieces
      BY <1>1, <1>2, ElementOfSeq
    <3> QED
      BY <1>1, <1>2, <3>1, SubSeqProperties
  <2> QED
    BY <1>2, <2>1, LenProperties
<1>4. wire[n].last
  BY <1>2, <1>3 DEF IsWhole
<1>5. n = Len(wire)
  BY <1>1, <1>2, <1>4
<1> QED
  BY <1>2, <1>5, EmptySeq

LEMMA ExpectInStep ==
    ASSUME DialogueInv, InStep, Expect
    PROVE  InStep'
<1> SUFFICES ASSUME whole' PROVE InStep'
  BY DEF InStep
<1>1. step = "expect" /\ UNCHANGED rcpts
  BY DEF Expect
<1>2. /\ N \in Nat /\ N >= 5 /\ next \in 1 .. N
      /\ Len(Recipients) \in Nat
  BY ScriptVerbs, ScriptShape DEF DialogueInv, TransitInv
<1>3. PICK n \in DOMAIN wire :
        /\ \/ Matches(SubSeq(wire, 1, n)) /\ Advance
           \/ step' = "SmtpError" /\ UNCHANGED <<next, inbox>>
        /\ wire' = SubSeq(wire, n + 1, Len(wire))
        /\ whole' = (whole /\ IsWhole(SubSeq(wire, 1, n)))
  BY DEF Expect
<1>4. whole /\ IsWhole(SubSeq(wire, 1, n))
  BY <1>3
<1>5. Accepted /\ Awaited
  BY <1>1, <1>4 DEF InStep
<1>6. /\ Len(wire) \in Nat \ {0}
      /\ SubSeq(wire, 1, n)[1] = wire[1]
  BY <1>3, WireAfterRead DEF DialogueInv, TransitInv
<1>7. wire # <<>>
  BY <1>6
<1>8. CASE step' = "SmtpError" /\ UNCHANGED <<next, inbox>>
  BY <1>1, <1>5, <1>8 DEF InStep, Accepted
<1>9. CASE Matches(SubSeq(wire, 1, n)) /\ Advance
  <2>1. Expected(Script[next]) \in {250, 354, Refusal}
    BY DEF Expected
  <2>2. wire[1].code = Expected(Script[next])
    BY <1>6, <1>9 DEF Matches
  <2>3. wire \notin Reply(Refusal)
    <3>1. Expected(Script[next]) # Refusal
      BY DEF Expected, Refusal
    <3>2. ASSUME wire \in Reply(Refusal) PROVE wire[1].code = Refusal
      BY <3>2, ReplyShape
    <3> QED
      BY <2>2, <3>1, <3>2
  <2>4. /\ inbox = <<>>
        /\ wire \in Reply(Expected(Script[next]))
        /\ Script[next].verb = "RCPT" => Script[next].rcpt \in rcpts
    <3>1. ~Asked
      BY <1>7 DEF Asked
    <3>2. GoodNews
      BY <1>5, <2>3, <3>1 DEF Awaited
    <3> QED
      BY <3>2 DEF GoodNews
  <2>5. wire' = <<>>
    <3>1. WholeRead(n)
      BY <1>3, <1>4 DEF WholeRead
    <3> QED
      BY <2>1, <2>4, <3>1, WholeReadLeavesNothing
  <2>6. CASE next < N
    <3>1. step' = "say" /\ next' = next + 1 /\ inbox' = inbox
      BY <1>9, <2>6 DEF Advance, N
    <3>2. ASSUME NEW i \in 1 .. Len(Recipients), i + 2 < next + 1
          PROVE  Recipients[i] \in rcpts
      <4>1. CASE i + 2 < next
        BY <1>5, <4>1 DEF Accepted
      <4>2. CASE 2 + i = next
        <5>1. Script[next] = Rcpt(Recipients[i])
          BY <4>2, ScriptShape
        <5> QED
          BY <2>4, <5>1 DEF Rcpt
      <4> QED
        BY <1>2, <3>2, <4>1, <4>2
    <3> QED
      BY <1>1, <2>4, <2>5, <3>1, <3>2 DEF InStep, Accepted
  <2>7. CASE ~(next < N)
    <3>1. step' = "ok" /\ next' = next
      BY <1>9, <2>7 DEF Advance, N
    <3> QED
      BY <1>1, <1>5, <3>1 DEF InStep, Accepted
  <2> QED
    BY <2>6, <2>7
<1> QED
  BY <1>3, <1>8, <1>9

LEMMA RemoteInStep ==
    ASSUME DialogueInv, InStep, Remote
    PROVE  InStep'
<1> SUFFICES ASSUME whole' PROVE InStep'
  BY DEF InStep
<1>1. /\ UNCHANGED <<step, next, whole>>
      /\ rcpts \subseteq rcpts'
  BY DEF Remote, RemoteAccepts, RemoteRefuses, RemoteCloses
<1>2. Accepted'
  BY <1>1 DEF InStep, Accepted
<1>3. /\ step = "say" => inbox = <<>> /\ wire = <<>>
      /\ step = "expect" => Awaited
  BY <1>1 DEF InStep
\* A command is answered: it was Script[next], and the only one.
<1>4. ASSUME NEW code \in {250, 354, Refusal},
             wire = <<>> => wire' \in Reply(code),
             inbox # <<>>, inbox' = Tail(inbox),
             \/ code = Refusal
             \/ /\ code = Expected(Head(inbox))
                /\ Head(inbox).verb = "RCPT" => Head(inbox).rcpt \in rcpts'
      PROVE  InStep'
  <2>1. step # "say"
    BY <1>3, <1>4
  <2>2. CASE step = "expect"
    <3>1. inbox = <<Script[next]>> /\ wire = <<>>
      BY <1>3, <1>4, <2>2, ReplyShape DEF Awaited, Asked, GoodNews
    <3>2. Head(inbox) = Script[next] /\ inbox' = <<>>
      BY <1>4, <3>1
    <3>3. Awaited'
      BY <1>1, <1>4, <3>1, <3>2 DEF Awaited, Asked, GoodNews
    <3> QED
      BY <1>1, <1>2, <2>1, <3>3 DEF InStep
  <2> QED
    BY <1>1, <1>2, <2>1, <2>2 DEF InStep
<1>5. CASE RemoteAccepts
  <2>1. PICK code \in {250, 354, Refusal} : code = Expected(Head(inbox))
    BY DEF Expected
  <2>2. wire = <<>> => wire' \in Reply(code)
    <3>1. PICK r \in Reply(code) : wire' = wire \o r
      BY <1>5, <2>1 DEF RemoteAccepts
    <3>2. r \in Seq(Pieces)
      BY ReplyShape
    <3> QED
      BY <3>1, <3>2, ConcatEmptySeq
  <2>3. /\ inbox # <<>> /\ inbox' = Tail(inbox)
        /\ Head(inbox).verb = "RCPT" => Head(inbox).rcpt \in rcpts'
    BY <1>5 DEF RemoteAccepts
  <2> QED
    BY <1>4, <2>1, <2>2, <2>3
<1>6. CASE RemoteRefuses
  <2>1. Refusal \in {250, 354, Refusal}
    OBVIOUS
  <2>2. wire = <<>> => wire' \in Reply(Refusal)
    <3>1. PICK r \in Reply(Refusal) : wire' = wire \o r
      BY <1>6 DEF RemoteRefuses
    <3>2. r \in Seq(Pieces)
      BY <2>1, ReplyShape
    <3> QED
      BY <3>1, <3>2, ConcatEmptySeq
  <2>3. inbox # <<>> /\ inbox' = Tail(inbox)
    BY <1>6 DEF RemoteRefuses
  <2> QED
    BY <1>4, <2>1, <2>2, <2>3
<1>7. CASE RemoteCloses
  <2>1. inbox' = <<>> /\ UNCHANGED <<step, next, wire, rcpts>>
    BY <1>7 DEF RemoteCloses
  <2>2. Awaited => Awaited'
    BY <2>1 DEF Awaited, Asked, GoodNews
  <2> QED
    BY <1>2, <1>3, <2>1, <2>2 DEF InStep
<1> QED
  BY <1>5, <1>6, <1>7 DEF Remote

LEMMA InStepKept ==
    ASSUME DialogueInv, InStep, [ClientNext]_clientVars
    PROVE  InStep'
<1>1. CASE Search
  <2>1. /\ step \in Searching
        /\ step' # "expect"
        /\ UNCHANGED <<next, inbox, wire, rcpts, whole>>
    BY <1>1, Steps DEF Search, dialogueVars, Searching
  <2>2. next = 1 /\ inbox = <<>> /\ wire = <<>>
    BY <2>1 DEF DialogueInv, AnswerInv
  <2>3. Len(Recipients) \in Nat
    BY ScriptShape
  <2> QED
    BY <2>1, <2>2, <2>3 DEF InStep, Accepted
<1>2. CASE Say
  <2>1. /\ step = "say" /\ step' = "expect"
        /\ UNCHANGED <<next, wire, rcpts, whole>>
        /\ inbox' = inbox \/ inbox' = Append(inbox, Script[next])
    BY <1>2 DEF Say, Send
  <2>2. inbox = <<>> => Append(inbox, Script[next]) = <<Script[next]>>
    OBVIOUS
  <2> QED
    BY <2>1, <2>2 DEF InStep, Accepted, Awaited, Asked, GoodNews
<1>3. CASE SayFails \/ ExpectClosed \/ ExpectTimeout
  <2>1. /\ step' \notin {"say", "expect"}
        /\ UNCHANGED <<next, rcpts, whole>>
    BY <1>3 DEF SayFails, ExpectClosed, ExpectTimeout, dialogueVars
  <2> QED
    BY <2>1 DEF InStep, Accepted
<1>4. CASE Expect
  BY <1>4, ExpectInStep
<1>5. CASE Remote
  BY <1>5, RemoteInStep
<1>6. CASE Over \/ UNCHANGED clientVars
  <2>1. UNCHANGED <<step, next, inbox, wire, rcpts, whole>>
    BY <1>6 DEF Over, clientVars
  <2> QED
    BY <2>1 DEF InStep, Accepted, Awaited, Asked, GoodNews
<1> QED
  BY <1>1, <1>2, <1>3, <1>4, <1>5, <1>6 DEF ClientNext, ClientStep

LEMMA InStepIsAllOrNothing == DialogueInv /\ InStep => AllOrNothing
<1> SUFFICES ASSUME DialogueInv, InStep, whole PROVE taken \in {{}, Group}
  BY DEF AllOrNothing
<1>1. /\ N \in Nat /\ next \in 1 .. N
      /\ N = Len(Recipients) + 4 /\ Len(Recipients) \in Nat
      /\ DOMAIN Recipients = 1 .. Len(Recipients)
  BY ScriptShape DEF DialogueInv, TransitInv
<1>2. CASE next < N
  BY <1>2 DEF DialogueInv, AnswerInv
<1>3. CASE next = N
  <2>1. \A i \in DOMAIN Recipients : Recipients[i] \in rcpts
    BY <1>1, <1>3 DEF InStep, Accepted
  <2>2. Group \subseteq rcpts
    BY <2>1 DEF Group, Range
  <2> QED
    BY <2>2 DEF DialogueInv, TransitInv
<1> QED
  BY <1>1, <1>2, <1>3

\* While replies and reads agree, a group of recipients gets the mail as a
\* whole or not at all (run() gives up at the first refused RCPT, before
\* DATA), whichever of them the remote server refuses and whenever it closes.
THEOREM DeliveredToAllOrNone == ClientSpec => []AllOrNothing
<1>1. ClientInit => ClientInv /\ InStep
  BY ClientStarts, InStepStarts
<1>2. ClientInv /\ InStep /\ [ClientNext]_clientVars => ClientInv' /\ InStep'
  BY ClientStepInv, InStepKept DEF ClientInv
<1>3. ClientInv /\ InStep => AllOrNothing
  BY InStepIsAllOrNothing DEF ClientInv
<1> QED
  BY <1>1, <1>2, <1>3, PTL DEF ClientSpec
=============================================================================
