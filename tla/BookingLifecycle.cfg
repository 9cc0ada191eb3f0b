\* Two requests race on one booking, which they also move, and a window; every
\* transition is mailed.
SPECIFICATION Spec
CONSTANTS
    Bookings = {b1}
    OffIds = {w1}
    Requests = {r1, r2}
    Artists = {a1}
    Clients = {c1}
    Reachable = {c1}
    Starts = {1, 2}
    Hours = {3}
    Prices = {1}
    Stored <- MCStored
    Quote <- MCQuote
    Amounts = {}
    Lead = 0
    MaxNow = 1
    Null = Null
SYMMETRY Symmetry
INVARIANTS
    StampsMatchStatus
    MailsMatchTransitions
    MailFits
PROPERTY OnlyLateAdvancesClash
