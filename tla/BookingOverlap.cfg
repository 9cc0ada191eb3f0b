\* Two requests race for overlapping slots of one artist; nobody has an email.
SPECIFICATION Spec
CONSTANTS
    Bookings = {b1, b2}
    OffIds = {}
    Requests = {r1, r2}
    Artists = {a1}
    Clients = {c1}
    Reachable = {}
    Starts = {1, 3}
    Hours = {1, 2}
    Prices = {1}
    Stored <- MCStored
    Quote <- MCQuote
    Amounts = {}
    Lead = 0
    MaxNow = 0
    Null = Null
SYMMETRY Symmetry
INVARIANT NoOverlap
PROPERTY ImplementsCalendar
