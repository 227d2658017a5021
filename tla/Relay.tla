-------------------------------- MODULE Relay --------------------------------
(***************************************************************************)
(* What the outgoing queue promises for the remote part of a mail: every   *)
(* group of recipients it has taken is attempted at most once, and only    *)
(* the end of the process takes it away unattempted.  A mail is taken once,*)
(* with no recipient in two groups.  There is no promise that an attempt   *)
(* succeeds, and none about the order.                                     *)
(***************************************************************************)
CONSTANTS Mails,  \* identities of mails
          Groups  \* sets of recipients that can be attempted together

VARIABLES pending,    \* {<<mail, group>>} waiting
          attempted,  \* {<<mail, group>>} one delivery was tried for
          lost        \* {<<mail, group>>} gone with the process

vars == <<pending, attempted, lost>>

Init ==
    /\ pending = {}
    /\ attempted = {}
    /\ lost = {}

Take ==
    /\ \E m \in Mails, G \in SUBSET Groups :
         /\ \A p \in pending \cup attempted \cup lost : p[1] # m
         /\ \A g, h \in G : g # h => g \cap h = {}
         /\ pending' = pending \cup ({m} \X G)
    /\ UNCHANGED <<attempted, lost>>

Attempt ==
    /\ \E p \in pending :
         /\ pending' = pending \ {p}
         /\ attempted' = attempted \cup {p}
    /\ UNCHANGED lost

LoseAll ==
    /\ pending' = {}
    /\ lost' = lost \cup pending
    /\ UNCHANGED attempted

Next == Take \/ Attempt \/ LoseAll

Spec == Init /\ [][Next]_vars
=============================================================================
