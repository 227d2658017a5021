CONSTANTS
    alice = alice
    carol = carol
    home = home
    away = away
    NoAddr = NoAddr
    NoUser = NoUser
    NoReply = NoReply
    NoJob = NoJob
    Addrs = {alice, carol}
    Domains = {home, away}
    Hostname = home
    DomainOf <- MCDomainOf
    Logins = {alice}
    LoginAddr <- MCLoginAddr
    Listed = {alice}
    MaxRows = 1
    MaxMails = 2
    MaxRecipients = 1
SPECIFICATION FairAcceptSpec
PROPERTIES
    FireEnds
    BacklogDrains
    PlainServed
    TlsServed
