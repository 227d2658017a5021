CONSTANTS
    mx1 = mx1
    mx2 = mx2
    carol = carol
    dave = dave
    NoHost = NoHost
    Hosts = {mx1}
    Prefs = {10}
    Recipients <- MCRecipients
SPECIFICATION ClientSpec
INVARIANT
    Acknowledged
