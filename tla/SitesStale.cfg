SPECIFICATION Spec
CONSTANTS
    Requests = {r1, r2}
    Users = {u1, su}
    Superusers = {su}
    Projects = {p1, p2}
    Names = {n1}
    AutoPublish = {p2}
    AdminPosting = {p1}
    Visitor = Visitor
    NoName = NoName
    NoSite = NoSite
    NoOrder = NoOrder
SYMMETRY Symmetry
PROPERTY DoubleChecked
