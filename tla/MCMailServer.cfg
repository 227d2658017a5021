CONSTANTS
    alice = alice
    carol = carol
    dave = dave
    home = home
    away = away
    farAway = farAway
    NoAddr = NoAddr
    NoUser = NoUser
    NoReply = NoReply
    NoJob = NoJob
    Addrs = {alice, carol, dave}
    Domains = {home, away, farAway}
    Hostname = home
    DomainOf <- MCDomainOf
    Logins = {alice}
    LoginAddr <- MCLoginAddr
    Listed = {alice}
    MaxRows = 1
    MaxMails = 2
    MaxRecipients = 2
SYMMETRY RemoteSymmetry
SPECIFICATION ServerSpec
INVARIANTS
    ServerTypeOK
    SettledIsAttempted
    OncePerRecipient
PROPERTIES
    ImplementsRelay
    NobodyForgotten
