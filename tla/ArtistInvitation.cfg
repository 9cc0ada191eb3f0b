\* Three requests, two invitations of one email, three artist ids.
SPECIFICATION Spec
CONSTANTS
    Invitations = {i1, i2}
    Links = {l1, l2, l3}
    Artists = {a1, a2, a3}
    Requests = {r1, r2, r3}
    Null = Null
SYMMETRY Symmetry
INVARIANTS
    NothingLeftBehind
    AcceptedHasAccount
    LoggedInIsAccepted
PROPERTY ClosedForGood
