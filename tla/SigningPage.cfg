\* Two visits of the page, two intervals (one replaces the other), two requests
\* under way: two polls overlap, or a click and a poll.
SPECIFICATION FairSpec
CONSTANTS
    Visits = {v1, v2}
    Timers = {t1, t2}
    Calls = {c1, c2}
    None = None
INVARIANTS
    OneSignPerVisit
    WaitingIsPolled
    StraysWereReplaced
PROPERTIES
    GivesUpForCause
    WaitingEnds
    PollsStop
