\* Days of four hours around a change of the clock, two rows, ranges that begin
\* at midnight and that do not; prices on both sides of the large capacity.
SPECIFICATION AnswersSpec
CONSTANTS
    DayLength = 4
    Zones <- MCZones
    Intervals <- MCIntervals
    Ranges <- MCRanges
    MaxDays = 366
    MaxRows = 2
    HalvesLost <- MCHalvesLost
    Capacities <- MCCapacities
    TicketPrices <- MCTicketPrices
    Options <- MCOptions
    None = None
INVARIANTS
    StatusByTheHour
    PricesOrdered
