SPECIFICATION Spec
CONSTANTS
    Requests = {r1, r2}
    Users = {u1, u2}
    ProjectAdmins = {u2}
    Visitor = Visitor
    Names = {n1}
    Ids = {m1}
    AutoPublish = FALSE
    HideAbove = 1
    NoSite = NoSite
    NoMemory = NoMemory
    NoOrder = NoOrder
INVARIANTS
    NoOrphans
    OwnWords
    ListedIsReadable
PROPERTIES
    HiddenForAReason
    ReportedIsHidden
