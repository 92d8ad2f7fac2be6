SPECIFICATION Spec
CONSTANTS
    Requests = {r1, r2, r3}
    Users = {u1, su}
    Superusers = {su}
    Projects = {p1, p2}
    Names = {n1}
    AutoPublish = {p2}
    AdminPosting = {p1}
    Visitor = Visitor
    NoName = NoName
    NoSite = NoSite
    NoOrder = NoOrder
SYMMETRY Symmetry
INVARIANTS
    OnlyAdminsPost
    HiddenIsNotFound
    ListedIsReadable
PROPERTIES
    PublishedByAdmins
    ChangedByOwners
    AdminsAppointed
