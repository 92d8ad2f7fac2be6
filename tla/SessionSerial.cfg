SPECIFICATION Spec
CONSTANTS
    Workers = {w1, w2, w3}
    Users = {u1, u2}
    Tokens = {t1, t2, t3, t4}
    NoUser = NoUser
    NoToken = NoToken
    OneAtATime = TRUE
SYMMETRY Symmetry
INVARIANT Linked
PROPERTIES LogoutAllIsComplete ImplementsRegistry
