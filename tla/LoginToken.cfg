SPECIFICATION Spec
CONSTANTS
    Workers = {w1, w2}
    Users = {u1, u2}
    Tokens = {t1, t2}
    NoToken = NoToken
    Wrong = Wrong
    NoUser = NoUser
    Tries = 3
SYMMETRY Symmetry
INVARIANTS
    TriesBounded
    SingleUse
PROPERTY OnlyItsOwnUseClears
