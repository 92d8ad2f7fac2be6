SPECIFICATION Spec
CONSTANTS
    Requests = {r1, r2}
    People = {p1}
    Names = {n1, n2}
    Emails = {e1}
    NoOne = NoOne
    NoName = NoName
    Environments = {{}, {"commit"}, {"overlap"}}
    AtOnce = 2
    Overlapping = 2
CHECK_DEADLOCK FALSE
PROPERTY OldNameLoggedOut
