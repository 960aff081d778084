SPECIFICATION Spec
CONSTANTS
    Users = {root, jo}
    Initial = root
    AtProvider = {jo}
    Anonymous = anonymous
    Sessions = {s1}
    Tokens = {t1}
    Logins = {l1, l2}
    Requests = {r1, r2}
    Modes = {"none", "password", "sso"}
    MaxHand = 1
    Passwords = {p1, p2}
    None = None
SYMMETRY Symmetry
INVARIANT AuthTypeOK AuthorityIsHeld OneSessionPerLogin TokenTrail
PROPERTY HandStands
