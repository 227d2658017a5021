--------------------------- MODULE MCSmtpSession ---------------------------
(***************************************************************************)
(* Small instances of SmtpSession: two addresses of this host, two of      *)
(* other hosts, and two ways for alice to log in, by address and by bare   *)
(* name.  A configuration takes as many addresses as it needs.             *)
(***************************************************************************)
EXTENDS SmtpSession, TLC

CONSTANTS alice, bob, carol, aliceBare, dave,
          home, away, farAway

AllDomains == alice :> home @@ bob :> home @@ carol :> away
              @@ dave :> farAway
AllLogins == alice :> alice @@ aliceBare :> alice

MCDomainOf == [a \in Addrs |-> AllDomains[a]]
MCLoginAddr == [l \in Logins |-> AllLogins[l]]

=============================================================================
