\* A client registers through the public form.
SPECIFICATION Spec
CONSTANTS
    Requests = {r1, r2}
    Links = {l1, l2}
    Tokens = {t1, t2, t3}
    Passwords = {p1, p2}
    Limit = 1
    MaxFailures = 1
    Null = Null
SYMMETRY Symmetry
INVARIANT ClaimedOncePasswordSet
