----------------------------- MODULE Submission -----------------------------
(***************************************************************************)
(* What the server promises the client of one connection, whatever the     *)
(* commands are called.  The client names recipients.  An attempt to hand  *)
(* the mail over either succeeds for every recipient named, and then the   *)
(* transaction is over for good, or it fails, leaving any part of the      *)
(* recipients served and the envelope as it was.  No mail reaches anybody  *)
(* who was not named, and no attempt reuses the mail of an earlier one.    *)
(***************************************************************************)
EXTENDS Naturals, Sequences

CONSTANTS Addrs,  \* recipients
          Mails   \* identities of mails

VARIABLES phase,  \* "open", "accepted" or "closed"
          named,  \* the recipients named so far, in order
          handed  \* {<<mail, recipient>>} the server took responsibility for

vars == <<phase, named, handed>>

Init ==
    /\ phase = "open"
    /\ named = <<>>
    /\ handed = {}

NamedSet == {named[i] : i \in DOMAIN named}

\* A new mail goes to the recipients in R.
HandOver(R) ==
    \E m \in Mails :
        /\ \A p \in handed : p[1] # m
        /\ handed' = handed \cup ({m} \X R)

Name ==
    /\ phase = "open"
    /\ \E a \in Addrs : named' = Append(named, a)
    /\ UNCHANGED <<phase, handed>>

Accept ==
    /\ phase = "open"
    /\ named # <<>>
    /\ HandOver(NamedSet)
    /\ phase' = "accepted"
    /\ named' = <<>>

Refuse ==
    /\ phase = "open"
    /\ \E R \in SUBSET NamedSet : HandOver(R)
    /\ UNCHANGED <<phase, named>>

\* The connection breaks while an attempt is under way: the client does not
\* learn what became of it.
BreakOff ==
    /\ phase = "open"
    /\ \E R \in SUBSET NamedSet : HandOver(R)
    /\ phase' = "closed"
    /\ named' = <<>>

Close ==
    /\ phase \in {"open", "accepted"}
    /\ phase' = "closed"
    /\ named' = <<>>
    /\ UNCHANGED handed

Next == Name \/ Accept \/ Refuse \/ BreakOff \/ Close

Spec == Init /\ [][Next]_vars
=============================================================================
