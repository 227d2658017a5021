----------------------------- MODULE MxDiscovery -----------------------------
(***************************************************************************)
(* SmtpClient::discover_connection of client.rs: the MX records of the     *)
(* recipients' domain are looked up, and their hosts are probed in the     *)
(* order of preference, at the TLS port first and at the plaintext port    *)
(* second, until one greets.                                               *)
(*                                                                         *)
(* A probe is one step: it connects, does the TLS handshake and reads the  *)
(* greeting under one timeout of 10 seconds, so it ends, and whatever goes *)
(* wrong in it is the same None.                                           *)
(***************************************************************************)
EXTENDS FiniteSets, Integers

CONSTANTS Hosts,  \* mail exchangers
          Prefs,  \* MX preferences: numbers, lower is better
          NoHost  \* no host is being probed

ASSUME PrefsAreNumbers == Prefs \subseteq Nat
ASSUME NoHostIsNoRecord == NoHost \notin [pref : Prefs, exchange : Hosts]

VARIABLES step,           \* where deliver() is
          tlsConfigured,  \* config.cert_dir and trusted_ca_cert_dir are set
          records,        \* history: the MX records of the answer
          remote_hosts,   \* the MX records not popped yet
          host,           \* the record being probed, or connected to
          probed          \* history: <<record, port>> probed without success

discoveryVars == <<tlsConfigured, records, remote_hosts, host, probed>>

MxRecords == [pref : Prefs, exchange : Hosts]
Ports == {465, 25}

Searching == {"lookup", "pop", "tls", "plain"}

DiscoveryTypeOK ==
    /\ tlsConfigured \in BOOLEAN
    /\ records \subseteq MxRecords
    /\ remote_hosts \subseteq records
    /\ host \in records \cup {NoHost}
    /\ probed \subseteq records \X Ports
    /\ step \in {"tls", "plain"} => host # NoHost

DiscoveryInit ==
    /\ step = "lookup"
    /\ tlsConfigured \in BOOLEAN
    /\ records = {}
    /\ remote_hosts = {}
    /\ host = NoHost
    /\ probed = {}

-----------------------------------------------------------------------------
LookupFails ==
    /\ step = "lookup"
    /\ step' = "DnsLookupError"
    /\ UNCHANGED discoveryVars

\* The answer has at least one record: hickory makes "no records" an error.
LookupAnswers ==
    /\ step = "lookup"
    /\ \E mx \in (SUBSET MxRecords) \ {{}} :
         /\ records' = mx
         /\ remote_hosts' = mx
    /\ step' = "pop"
    /\ UNCHANGED <<tlsConfigured, host, probed>>

\* Mutated: the comparison of the preferences is the wrong way round.
HighestFirst(mx) == {r \in mx : \A s \in mx : r.pref >= s.pref}

\* Hosts of equal preference are shuffled: any of them can be the next.
Best(mx) == {r \in mx : \A s \in mx : r.pref <= s.pref}

PopHost ==
    /\ step = "pop"
    /\ \E r \in Best(remote_hosts) :
         /\ host' = r
         /\ remote_hosts' = remote_hosts \ {r}
    /\ step' = "tls"
    /\ UNCHANGED <<tlsConfigured, records, probed>>

NoHostLeft ==
    /\ step = "pop"
    /\ remote_hosts = {}
    /\ step' = "NoSmtpHostError"
    /\ UNCHANGED discoveryVars

\* Nothing at port 465 that greets, within the timeout.
TlsProbeFails ==
    /\ step = "tls"
    /\ probed' = probed \cup {<<host, 465>>}
    /\ step' = "plain"
    /\ UNCHANGED <<tlsConfigured, records, remote_hosts, host>>

\* Port 465 is open, but build_tls_connector expects the certificates: always
\* if none are configured, and otherwise where a file is missing now, or where
\* the name the MX record gives is none a certificate could have.
TlsProbePanics ==
    /\ step = "tls"
    /\ step' = "panic"
    /\ UNCHANGED discoveryVars

PlainProbeFails ==
    /\ step = "plain"
    /\ probed' = probed \cup {<<host, 25>>}
    /\ step' = "pop"
    /\ UNCHANGED <<tlsConfigured, records, remote_hosts, host>>

\* The host greets with a 220: the dialogue starts, and no other host is
\* tried from here on.
Greeted ==
    /\ \/ step = "tls" /\ tlsConfigured
       \/ step = "plain"
    /\ step' = "say"
    /\ UNCHANGED discoveryVars

Discover ==
    \/ LookupFails \/ LookupAnswers \/ PopHost \/ NoHostLeft
    \/ TlsProbeFails \/ TlsProbePanics \/ PlainProbeFails \/ Greeted

-----------------------------------------------------------------------------
\* A host is turned to only after every host of a better preference has been
\* tried at both ports, and the search is given up only after all of them
\* have been (discover_connection with pop_host): neither the shuffle nor the
\* removal of emptied preferences loses a record.
ProbesInOrder ==
    /\ host # NoHost =>
         \A r \in records : r.pref < host.pref => {r} \X Ports \subseteq probed
    /\ step = "NoSmtpHostError" => records \X Ports = probed
=============================================================================
