SPECIFICATION Spec
CONSTANTS
    Emails = {e1}
    Passwords = {p1, p2}
    Jtis = {j1, j2}
    ResetIds = {r1}
    VerifyIds = {v1, v2}
    Slots = {s1, s2}
    None = None
SYMMETRY Symmetric
INVARIANTS  KnownTokensExist WelcomedOwnsAccount
CHECK_DEADLOCK FALSE
