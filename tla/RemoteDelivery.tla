--------------------------- MODULE RemoteDelivery ---------------------------
(***************************************************************************)
(* What SmtpClient::deliver promises its caller, the outgoing queue, about *)
(* one mail and one group of recipients: Ok only after the remote server   *)
(* has taken the mail for some recipient, and the mail is taken at most    *)
(* once.  An error promises nothing: the remote may have taken the mail,   *)
(* and may still take it later.                                            *)
(***************************************************************************)
CONSTANT Group  \* the recipients of the delivery

VARIABLES outcome,  \* "none" while deliver() runs, else how it ended
          taken     \* the recipients the remote server took the mail for

vars == <<outcome, taken>>

Init ==
    /\ outcome = "none"
    /\ taken = {}

RemoteTakes ==
    /\ outcome # "ok"
    /\ taken = {}
    /\ \E R \in (SUBSET Group) \ {{}} : taken' = R
    /\ UNCHANGED outcome

Succeed ==
    /\ outcome = "none"
    /\ taken # {}
    /\ outcome' = "ok"
    /\ UNCHANGED taken

Fail ==
    /\ outcome = "none"
    /\ outcome' \in {"error", "panic"}
    /\ UNCHANGED taken

Next == RemoteTakes \/ Succeed \/ Fail

Spec == Init /\ [][Next]_vars
=============================================================================
