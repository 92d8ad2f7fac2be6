SPECIFICATION Spec
CONSTANTS
    Asks = {a1, a2}
    Exchanges = {x1, x2}
    Emails = {e1, e2}
    Names = {n1, n2}
    Processes = {w1, w2}
    NoProcess = NoProcess
    NoEmail = NoEmail
    NoName = NoName
    NoAsk = NoAsk
    Environments = {{"slow"}, {"commit"}}
    MaxAttempts = 2
    MaxFailing = 1
SYMMETRY Symmetry
INVARIANTS
    MailsPerTimeout
    SessionIsAddressees
    LoggedInIsVerified
    Unstuck
    MailedUserExists
PROPERTIES
    CreatedUsersAreMailed
    ImplementsUserTable
CHECK_DEADLOCK FALSE
