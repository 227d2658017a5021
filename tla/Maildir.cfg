CONSTANTS
    Mailboxes = {alice, bob}
    Second = 3
    MaxTime = 5
    MaxMails = 3
    NoMail = NoMail
    Partial = Partial
SPECIFICATION Spec
INVARIANT
    MaildirTypeOK
PROPERTIES
    LostOnlyWithinSecond
    OwnLostOnlyWithinMilli
