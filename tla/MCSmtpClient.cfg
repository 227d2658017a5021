CONSTANTS
    mx1 = mx1
    mx2 = mx2
    carol = carol
    dave = dave
    NoHost = NoHost
    Hosts = {mx1, mx2}
    Prefs = {10, 20}
    Recipients <- MCRecipients
SPECIFICATION FairClientSpec
INVARIANTS
    ClientTypeOK
    ProbesInOrder
    AllOrNothing
PROPERTIES
    ImplementsRemoteDelivery
    DeliverEnds
