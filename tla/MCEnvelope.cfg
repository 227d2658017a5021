CONSTANTS
    alice = alice
    bob = bob
    carol = carol
    dave = dave
    aliceBare = aliceBare
    home = home
    away = away
    farAway = farAway
    NoAddr = NoAddr
    NoUser = NoUser
    NoReply = NoReply
    Addrs = {alice, bob, carol, dave}
    Domains = {home, away, farAway}
    Hostname = home
    DomainOf <- MCDomainOf
    Logins = {alice}
    LoginAddr <- MCLoginAddr
    Listed = {alice, bob}
    MaxRows = 1
    MaxMails = 3
    MaxRecipients = 3
SPECIFICATION Spec
INVARIANTS
    QueueWellFormed
PROPERTIES
    ImplementsSubmission
