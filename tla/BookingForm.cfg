\* One page and one day, three set types of which the artist performs two, two
\* quotes at once and one booking request, which may outlive its page.
SPECIFICATION Spec
CONSTANTS
    Dates = {d1}
    SetTypes = {dj, live, hybrid}
    DJ = dj
    Supported = {live, hybrid}
    Queries = {q1, q2}
    Sends = {s1}
    Null = Null
INVARIANTS
    DraftFollowsForm
    SpinnerHasCause
    QuoteHasCause
    BusyDaysSeen
PROPERTY SpinnersStop
