SPECIFICATION Spec
CONSTANTS
    Requests = {r1, r2}
    Workers = {w1, w2}
    Project = Project
    Contact = Contact
    Sites = {s1}
    Langs = {fi, en}
    NoLang = NoLang
    NoImage = NoImage
    NoOrder = NoOrder
    MostFields = 2
INVARIANTS
    TypeOK
    ShownIsServed
    LeftoversOfFailures
    ReadableAsMade
PROPERTIES
    AllEnd
