---------------------------- MODULE MCMailServer ----------------------------
(***************************************************************************)
(* Small instances of MailServer: one user of this host and two addresses  *)
(* of two other hosts.                                                     *)
(***************************************************************************)
EXTENDS MailServer, TLC

CONSTANTS alice, carol, dave, home, away, farAway

AllDomains == alice :> home @@ carol :> away @@ dave :> farAway

MCDomainOf == [a \in Addrs |-> AllDomains[a]]
MCLoginAddr == [l \in Logins |-> l]

\* The two remote addresses can be exchanged: a state holds addresses, never
\* domains, and their two domains are only compared.
RemoteSymmetry == Permutations({carol, dave})
=============================================================================
