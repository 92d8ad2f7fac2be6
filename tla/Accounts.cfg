SPECIFICATION Spec
CONSTANTS
    Requests = {r1, r2, r3}
    People = {p1, p2}
    Names = {n1, n2, n3}
    Emails = {e1, e2, e3}
    NoOne = NoOne
    NoName = NoName
    Environments = {{}, {"commit"}, {"overlap"}}
    AtOnce = 2
    Overlapping = 2
SYMMETRY Symmetry
INVARIANTS
    SessionsNameTheirUser
    Unstuck
PROPERTIES
    ChangesOwnRow
    LoggedOutEverywhere
    ImplementsUserTable
CHECK_DEADLOCK FALSE
