--------------------------- MODULE MCCalculations ---------------------------
(* A small instance of Calculations for TLC.  A day has four hours; the clock  *)
(* changes between midnight and the next noon, as in Brussels, or so far east   *)
(* that midnight in UTC is after the change although local midnight is before.  *)
(* The pairs of MCHalvesLost are those below 61 cents whose product in binary64 *)
(* is below a half.                                                             *)
EXTENDS Calculations

MCZones == {[at |-> 9, before |-> 1, after |-> 2],
            [at |-> 9, before |-> 2, after |-> 1],
            [at |-> 11, before |-> 2, after |-> 3]}
MCIntervals == {i \in [from : 3..13, to : 3..13] : i.from <= i.to}
MCRanges == [from : {3, 4, 6}, to : {11, 13}]
MCCapacities == {1999, 2000}
MCTicketPrices == 0..60
MCHalvesLost == {<<50, 29>>, <<50, 57>>}
MCOptions == {"none", "extra_hour", "sound_system"}
=============================================================================
