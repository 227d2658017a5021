------------------------------- MODULE UserDb -------------------------------
(***************************************************************************)
(* The user database driver (userdb/drivers/postgres.rs) and the mail      *)
(* addresses it is asked about (smtp/envelope.rs).                         *)
(*                                                                         *)
(* The table `users' is abstracted to the number of rows it holds for an   *)
(* address; whether the password column matches is an input of the client. *)
(* The driver distinguishes no row, one row and several rows, and a query  *)
(* can fail (dbUp = FALSE stands for every DB error).                      *)
(***************************************************************************)
EXTENDS Naturals

CONSTANTS Addrs,      \* mail addresses, "local_part@domain"
          Domains,    \* their domains
          Hostname,   \* the configured hostname of this server
          DomainOf,   \* DomainOf[a]: the part of address a after the "@"
          Logins,     \* names a client may offer in a SASL exchange
          LoginAddr,  \* LoginAddr[l]: the address the driver looks l up as
          NoAddr,     \* "not an address"
          Listed,     \* bound: the addresses the table users may hold
          MaxRows     \* bound: rows of one address in the table users

ASSUME AddrAssumption ==
    /\ Hostname \in Domains
    /\ DomainOf \in [Addrs -> Domains]
    /\ NoAddr \notin Addrs

\* A login that is an address is looked up as it stands; any other login is
\* qualified with the hostname, and NoAddr when even that is no address.
ASSUME LoginAssumption ==
    /\ LoginAddr \in [Logins -> Addrs \cup {NoAddr}]
    /\ \A l \in Logins \cap Addrs : LoginAddr[l] = l
    /\ Listed \subseteq Addrs
    /\ MaxRows \in Nat

VARIABLES users,  \* users[a]: number of rows for address a
          dbUp    \* whether a query currently succeeds

dbVars == <<users, dbUp>>

DbTypeOK ==
    /\ users \in [Addrs -> 0..MaxRows]
    /\ \A a \in Addrs \ Listed : users[a] = 0
    /\ dbUp \in BOOLEAN

DbInit ==
    /\ users \in {u \in [Addrs -> 0..MaxRows] : \A a \in Addrs \ Listed : u[a] = 0}
    /\ dbUp = TRUE

-----------------------------------------------------------------------------
\* MailAddress::new: an address is this server's responsibility when its
\* domain is the hostname (it need not have a mailbox).
IsLocalResponsibility(a) == DomainOf[a] = Hostname

LocalAddrs == {a \in Addrs : IsLocalResponsibility(a)}

\* get_mailboxhome answers Ok only for exactly one row.
HasMailboxHome(a) == dbUp /\ users[a] = 1

\* is_local_mailbox: a failed query counts as "not local".
IsLocalMailbox(a) == HasMailboxHome(a)

\* authenticate: some row matches; here the password is the right one.
Authenticate(l) ==
    /\ dbUp
    /\ LoginAddr[l] # NoAddr
    /\ users[LoginAddr[l]] > 0

-----------------------------------------------------------------------------
\* The outside world: an administrator edits the table, the database or the
\* connection to it goes away and comes back.
EditUser ==
    /\ \E a \in Listed, n \in 0..MaxRows : users' = [users EXCEPT ![a] = n]
    /\ UNCHANGED dbUp

DbFlaps ==
    /\ dbUp' = ~dbUp
    /\ UNCHANGED users

DbNext == EditUser \/ DbFlaps
=============================================================================
