SPECIFICATION FairSpec
CONSTANTS
    Workers = {w1, w2}
    Users = {u1, u2}
    Tokens = {t1, t2}
    NoUser = NoUser
    NoToken = NoToken
    OneAtATime = FALSE
PROPERTIES NoRevival EndedByOwner LoginCullsStale CallsReturn
