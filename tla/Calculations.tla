---------------------------- MODULE Calculations ----------------------------
(***************************************************************************)
(* What a visitor is told before asking for a booking: which days of an     *)
(* artist are free (Availability) and what it would cost (Pricing).  The    *)
(* artist's calendar changes between two questions; an answer is for the    *)
(* calendar as it was.                                                      *)
(***************************************************************************)
EXTENDS Availability, Pricing

CONSTANTS
    Zones,       \* time zones
    Intervals,   \* when bookings and unavailabilities may be
    Ranges,      \* of dates that are asked for
    MaxDays,     \* of a range
    MaxRows,     \* bookings and unavailabilities together (bound)
    Capacities, TicketPrices, Options,
    None

VARIABLES
    zone,            \* of the agency (never changes)
    bookings,        \* awaiting their deposit, or confirmed
    unavailabilities,
    requested,       \* the range asked for, or None
    shown,           \* the status per day that was answered, or None
    quoted           \* the inputs of an estimate, or None

answersVars == <<zone, bookings, unavailabilities, requested, shown, quoted>>

Input == [capacity : Capacities, level : ArtistLevel, cents : TicketPrices,
          set : ArtistSetType, option : Options]

\* A change of the clock is not by more than a day, and the clock shows the same
\* day just before it and just after: no midnight is skipped or comes twice.
ChangesWithinDay(z) ==
    /\ z.after - z.before \in -DayLength..DayLength
    /\ (z.at - 1 + z.before) \div DayLength = (z.at - 1 + z.after) \div DayLength

ASSUME AnswersAssumption ==
    /\ Zones \subseteq [at : Int, before : Int, after : Int]
    /\ \A z \in Zones : ChangesWithinDay(z)
    /\ Intervals \cup Ranges \subseteq [from : Int, to : Int]
    /\ Capacities \cup TicketPrices \subseteq Nat

AnswersInit ==
    /\ zone \in Zones
    /\ bookings = {} /\ unavailabilities = {}
    /\ requested = None /\ shown = None /\ quoted = None

Row(i) == [id |-> Cardinality(bookings \cup unavailabilities), from |-> i.from, to |-> i.to]

More == Cardinality(bookings \cup unavailabilities) < MaxRows /\ quoted = None

\* Bookings of one artist do not overlap (Booking).
Book(i) ==
    /\ More
    /\ \A b \in bookings : Common(b, i) = 0
    /\ bookings' = bookings \cup {Row(i)}
    /\ requested' = None /\ shown' = None
    /\ UNCHANGED <<zone, unavailabilities, quoted>>

\* Unavailabilities may.
Block(i) ==
    /\ More
    /\ i.from < i.to
    /\ unavailabilities' = unavailabilities \cup {Row(i)}
    /\ requested' = None /\ shown' = None
    /\ UNCHANGED <<zone, bookings, quoted>>

ShowCalendar(range) ==
    /\ ValidRange(range, MaxDays)
    /\ requested' = range
    /\ shown' = GetPublic(zone, range, bookings, unavailabilities)
    /\ quoted' = None
    /\ UNCHANGED <<zone, bookings, unavailabilities>>

\* (Once, and for an empty calendar: the price does not depend on it.)
Estimate(i) ==
    /\ bookings = {} /\ unavailabilities = {} /\ requested = None /\ quoted = None
    /\ quoted' = i
    /\ UNCHANGED <<zone, bookings, unavailabilities, requested, shown>>

AnswersNext ==
    \/ \E i \in Intervals : Book(i) \/ Block(i)
    \/ \E range \in Ranges : ShowCalendar(range)
    \/ \E i \in Input : Estimate(i)

AnswersSpec == AnswersInit /\ [][AnswersNext]_answersVars

-----------------------------------------------------------------------------
\* Properties.

HoursOf(i) == i.from..(i.to - 1)
HoursOfAll(rows) == UNION {HoursOf(i) : i \in rows}
Day(day, hours) == {t \in hours : ZonedDay(zone, t) = day}

\* The calendar, seen hour by hour and without midnights: every hour asked for
\* lies in a day that is answered; a day is never shown as free when an hour of
\* it that was asked for is taken, nor as busy when it has neither a booking nor
\* all hours blocked, unless two unavailabilities overlap in it, nor as partly
\* blocked when no hour is; and a day asked for as a whole is shown as busy when
\* it has a booking or no hour left.
StatusByTheHour ==
    requested # None =>
        LET booked == HoursOfAll(bookings)
            blocked == HoursOfAll(unavailabilities)
            span == (requested.from - 2 * DayLength)..(requested.to + 2 * DayLength)
            overlap(day) == \E u, v \in unavailabilities :
                u # v /\ Day(day, HoursOf(u)) \cap Day(day, HoursOf(v)) # {}
        IN
        /\ \A t \in HoursOf(requested) : ZonedDay(zone, t) \in DOMAIN shown
        /\ \A day \in DOMAIN shown :
            LET hours == Day(day, span)
                whole == hours \subseteq HoursOf(requested)
            IN
            /\ shown[day] = "free" => hours \cap HoursOf(requested) \cap (booked \cup blocked) = {}
            /\ shown[day] = "busy" => \/ hours \cap booked # {}
                                      \/ hours \subseteq blocked
                                      \/ overlap(day)
            /\ whole /\ (hours \cap booked # {} \/ hours \subseteq blocked) => shown[day] = "busy"
            /\ whole /\ hours \cap blocked # {} => shown[day] # "free"
            /\ shown[day] = "partial" => hours \cap blocked # {}

\* The price list is consistent in spite of its roundings: a larger room, a
\* dearer ticket, a higher level, a more elaborate set or an option never lowers
\* the total, the deposit is within the total, and the range that is shown with a
\* fee brackets the fees of all levels.
PricesOrdered ==
    quoted # None =>
        /\ \A c \in Capacities : c > quoted.capacity => Total(quoted) <= Total([quoted EXCEPT !.capacity = c])
        /\ \A p \in TicketPrices : p > quoted.cents => Total(quoted) <= Total([quoted EXCEPT !.cents = p])
        /\ \A l \in ArtistLevel : l > quoted.level => Total(quoted) <= Total([quoted EXCEPT !.level = l])
        /\ \A s \in ArtistSetType : SetTypeUplift(s) > SetTypeUplift(quoted.set) =>
               Total(quoted) <= Total([quoted EXCEPT !.set = s])
        /\ \A o \in Options : OptionPrice(o) > OptionPrice(quoted.option) =>
               Total(quoted) < Total([quoted EXCEPT !.option = o])
        /\ 0 <= Deposit(quoted) /\ Deposit(quoted) <= Total(quoted)
        /\ quoted.set = "dj" => FloorFee(quoted) <= Recommended(quoted)
                                /\ Recommended(quoted) <= CapFee(quoted)
=============================================================================
