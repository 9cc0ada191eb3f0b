\* Two admins edit the amounts of one booking.
SPECIFICATION Spec
CONSTANTS
    Bookings = {b1}
    OffIds = {}
    Requests = {r1, r2}
    Artists = {a1}
    Clients = {c1}
    Reachable = {}
    Starts = {1}
    Hours = {3}
    Prices = {1}
    Stored <- MCStored
    Quote <- MCQuote
    Amounts = {5, 15}
    Lead = 0
    MaxNow = 0
    Null = Null
SYMMETRY Symmetry
PROPERTY EditsKeepDepositWithinTotal
