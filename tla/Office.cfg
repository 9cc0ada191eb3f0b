\* Two requests at once, one booking, as many emails as requests, and three
\* names of images: two that requests are about to use and one that the row has.
SPECIFICATION FairSpec
CONSTANTS
    Requests = {r1, r2}
    Bookings = {b1}
    Emails = {e1, e2}
    Paths = {p1, p2, p3}
    Agendas <- MCAgendas
    Null = Null
INVARIANTS
    PendingHasCause
    FateKnown
    SignatureHasFile
PROPERTY StopEnds
