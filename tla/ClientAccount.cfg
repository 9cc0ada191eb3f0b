\* Two requests, two links and three sessions of one client.
SPECIFICATION Spec
CONSTANTS
    Requests = {r1, r2}
    Links = {l1, l2}
    Tokens = {t1, t2, t3}
    Passwords = {p1, p2}
    Limit = 2
    MaxFailures = 2
    Null = Null
SYMMETRY Symmetry
INVARIANTS
    LinksAreSingleUse
    ExchangedTokensAreDead
    OldSessionsEnd
PROPERTY ClaimsByInvitation
