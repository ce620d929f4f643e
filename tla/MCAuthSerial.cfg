SPECIFICATION Spec
CONSTANTS
    Emails = {e1}
    Passwords = {p1, p2}
    Jtis = {j1, j2, j3}
    ResetIds = {r1, r2}
    VerifyIds = {v1}
    Slots = {s1}
    None = None
SYMMETRY Symmetric
INVARIANTS OneLivePerLogin LogoutEndsLogin ResetEndsSessions EveryResetSpendsAToken
CHECK_DEADLOCK FALSE
