SPECIFICATION Spec
CONSTANTS
    Tokens = {t1, t2}
    Openers = {o1, o2}
    Keys = {1, 2}
    NoToken = NoToken
INVARIANT LivingLinksListed
INVARIANT RevokedIsDead
CHECK_DEADLOCK FALSE
