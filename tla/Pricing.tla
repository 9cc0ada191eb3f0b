------------------------------- MODULE Pricing -------------------------------
(***************************************************************************)
(* The price of a booking: the artist's fee from capacity, ticket price,    *)
(* level and set type (computeArtistFee), and the total with options, VAT   *)
(* and deposit (computeBookingTotal, computeQuote).  Amounts are in cents   *)
(* but for the fee, which the code computes and rounds in euros.            *)
(***************************************************************************)
EXTENDS Integers

CONSTANT HalvesLost  \* pairs <<multiplier, cents>> with a fee of half a euro more,
                     \* exactly, whose product in binary floating point is just below

ASSUME PricingAssumption == \A lost \in HalvesLost : (lost[1] * lost[2]) % 100 = 50

\* ArtistLevel and ArtistSetType.
ArtistLevel == 1..4
ArtistSetType == {"dj", "hybrid", "live"}

Large(capacity) == capacity >= 2000

\* Variant: the two tables of multipliers are swapped.
SwappedMultiplier(capacity, level) ==
    10 * level + (IF Large(capacity) THEN 10 ELSE 20)

\* ARTIST_MULTIPLIERS_SMALL and ARTIST_MULTIPLIERS_LARGE.
BaseMultiplier(capacity, level) == 10 * level + (IF Large(capacity) THEN 20 ELSE 10)

\* SET_TYPE_UPLIFT, in percent.
SetTypeUplift(setType) ==
    CASE setType = "dj" -> 100
      [] setType = "hybrid" -> 110
      [] setType = "live" -> 115

\* Math.round of a fraction: halves go up.
Rounded(n, d) == (2 * n + d) \div (2 * d)

\* The multiplier is rounded before it is applied.  In binary floating point
\* 50 * 1.15 is a little less than 57.5 and becomes 57; 30 * 1.15 is 34.5 and
\* becomes 35; the other products are not halves.
Multiplier(capacity, level, setType) ==
    LET base == BaseMultiplier(capacity, level) IN
    IF base = 50 /\ setType = "live" THEN 57 ELSE Rounded(base * SetTypeUplift(setType), 100)

\* Euros for a ticket price in cents: Math.round(multiplier * (cents / 100)).
Euros(multiplier, cents) ==
    IF <<multiplier, cents>> \in HalvesLost
    THEN (multiplier * cents) \div 100
    ELSE Rounded(multiplier * cents, 100)

Recommended(i) == Euros(Multiplier(i.capacity, i.level, i.set), i.cents)
FloorFee(i) == Euros(IF Large(i.capacity) THEN 30 ELSE 20, i.cents)
CapFee(i) == Euros(IF Large(i.capacity) THEN 60 ELSE 50, i.cents)

\* Options come from the server's catalogue; ids it does not have count nothing
\* in an estimate (and refuse a booking).
OptionPrice(option) ==
    CASE option = "sound_system" -> 50000
      [] option = "lighting" -> 35000
      [] option = "mc_host" -> 25000
      [] option = "extra_hour" -> 20000
      [] OTHER -> 0

\* One option at most (bound).
Subtotal(i) == Recommended(i) * 100 + OptionPrice(i.option)
Total(i) == Subtotal(i) + Rounded(Subtotal(i) * 21, 100)

\* 30 percent are due first.
Deposit(i) == Rounded(Total(i) * 30, 100)
=============================================================================
