CONSTANTS
    alice = alice
    bob = bob
    carol = carol
    dave = dave
    aliceBare = aliceBare
    home = home
    away = away
    farAway = farAway
    NoAddr = NoAddr
    NoUser = NoUser
    NoReply = NoReply
    Addrs = {alice, bob, carol}
    Domains = {home, away, farAway}
    Hostname = home
    DomainOf <- MCDomainOf
    Logins = {alice, aliceBare}
    LoginAddr <- MCLoginAddr
    Listed = {alice, bob, carol}
    MaxRows = 2
    MaxMails = 2
    MaxRecipients = 2
SPECIFICATION Spec
INVARIANTS
    TypeOK
    EnvelopePermitted
    SilenceHasReason
PROPERTIES
    OnlyUsersRelay
    EnvelopeSurvives
    NoSuchUserStoresNothing
