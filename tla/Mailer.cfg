SPECIFICATION FairSpec
CONSTANTS
    Mails = {m1, m2}
    MaxMails = 4
PROPERTIES
    ImplementsMailQueue
    Handled
CHECK_DEADLOCK FALSE
