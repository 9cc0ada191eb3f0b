---------------------------- MODULE Availability ----------------------------
(***************************************************************************)
(* The public calendar of an artist (AvailabilityService.getPublic): what   *)
(* each day of a range shows, computed from the bookings and the            *)
(* unavailabilities that meet the range, in the days of the agency's time   *)
(* zone, which are not all of the same length.                              *)
(*                                                                          *)
(* Instants are numbers of hours; rows are records whose from and to are an *)
(* interval [from, to) with from <= to.                                     *)
(***************************************************************************)
EXTENDS Integers, FiniteSetsExt

CONSTANT DayLength  \* hours on the clock of a day

ASSUME AvailabilityAssumption == DayLength \in Nat \ {0}

\* A time zone changes its offset once: [at, before, after].
TimeZoneOffset(zone, t) == IF t < zone.at THEN zone.before ELSE zone.after

\* formatZonedDate: the local day of an instant.
ZonedDay(zone, t) == (t + TimeZoneOffset(zone, t)) \div DayLength

\* zonedWallClockToInstant, for the midnight with which a day begins: the
\* offset is looked up twice, the second time at the instant it leads to.
Midnight(zone, day) ==
    LET naive == day * DayLength
        guess == naive - TimeZoneOffset(zone, naive)
    IN  naive - TimeZoneOffset(zone, guess)

Larger(a, b) == IF a > b THEN a ELSE b
Smaller(a, b) == IF a < b THEN a ELSE b

\* The hours that two intervals have in common.
Common(i, j) == Larger(0, Smaller(i.to, j.to) - Larger(i.from, j.from))

\* listPublicBusyBookings and listUnavailabilitiesInRange: the rows that meet
\* the range (an empty one meets nothing).
Listed(rows, range) == {row \in rows : Common(row, range) > 0}

\* Variant: a day ends 24 hours after it begins.
DayOfFixedLength(zone, day) ==
    [from |-> Midnight(zone, day), to |-> Midnight(zone, day) + DayLength]

\* A day ends where the next one begins.
DayInterval(zone, day) == [from |-> Midnight(zone, day), to |-> Midnight(zone, day + 1)]

\* The hours of each unavailability in the day, added up.
HoursBlocked(windows, interval) ==
    MapThenSumSet(LAMBDA w : Common(w, interval), windows)

\* A booking makes a day busy however short it is (#44); unavailabilities do
\* when their hours add up to the day.
Status(interval, booked, blocked) ==
    IF (\E b \in booked : Common(b, interval) > 0)
        \/ HoursBlocked(blocked, interval) >= interval.to - interval.from
    THEN "busy"
    ELSE IF HoursBlocked(blocked, interval) > 0 THEN "partial" ELSE "free"

\* The days that are answered, from the local day of the start of the range to
\* the last one that begins before its end.  (Two offsets look one day ahead.)
DaysAnswered(zone, range) ==
    {day \in ZonedDay(zone, range.from)..(ZonedDay(zone, range.to) + 1) :
        Midnight(zone, day) < range.to}

\* A range that is empty, or longer than 366 days, is refused.
ValidRange(range, maxDays) ==
    /\ range.from < range.to
    /\ range.to - range.from <= maxDays * DayLength

GetPublic(zone, range, bookings, unavailabilities) ==
    [day \in DaysAnswered(zone, range) |->
        Status(DayInterval(zone, day), Listed(bookings, range), Listed(unavailabilities, range))]

=============================================================================
