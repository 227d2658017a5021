---------------------------- MODULE MCAcceptLoop ----------------------------
(***************************************************************************)
(* A small instance of AcceptLoop: one user of this host and an address of *)
(* another host.                                                           *)
(***************************************************************************)
EXTENDS AcceptLoop, TLC

CONSTANTS alice, carol, home, away

MCDomainOf == alice :> home @@ carol :> away
MCLoginAddr == [l \in Logins |-> l]
=============================================================================
