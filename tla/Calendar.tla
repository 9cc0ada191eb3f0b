------------------------------ MODULE Calendar ------------------------------
(***************************************************************************)
(* What the bookings of an agency promise, whatever statements, requests   *)
(* and crashes implement it: each artist's calendar, with an atomic check  *)
(* for every entry that takes time in it, and the life cycle of an entry   *)
(* as the header of bookingConstants.ts draws it.                          *)
(*                                                                         *)
(* The actions are relations between cal and cal': the new entry is read   *)
(* off cal', so that an implementation's step can be checked against them  *)
(* without enumerating every interval of time.                             *)
(***************************************************************************)
EXTENDS Integers

CONSTANTS Ids, Artists, None

Held == {"pending_validation", "awaiting_deposit", "confirmed"}

Stage == Held \cup {"completed", "cancelled"}

Interval == [artist : Artists, from : Nat, to : Nat]

Entry == [slot : Interval, stage : Stage]

\* The life cycle: forward one stage at a time, cancelled from any stage
\* that holds time, and nothing after completed or cancelled.
Follows(stage, next) ==
    \/ stage = "pending_validation" /\ next = "awaiting_deposit"
    \/ stage = "awaiting_deposit" /\ next = "confirmed"
    \/ stage = "confirmed" /\ next = "completed"
    \/ stage \in Held /\ next = "cancelled"

VARIABLE cal

TypeInv == cal \in [Ids -> Entry \cup {None}]

Init == cal = [i \in Ids |-> None]

\* Two intervals share some time; an empty one shares none.
Meets(s, t) ==
    /\ s.artist = t.artist
    /\ s.from < s.to /\ t.from < t.to
    /\ s.from < t.to /\ t.from < s.to

\* No other entry that holds time meets this one.
Free(i, entry) ==
    \A j \in Ids \ {i} :
        cal[j] # None /\ cal[j].stage \in Held => ~Meets(cal[j].slot, entry.slot)

\* Only entry i changes, into an entry whose time is free if it holds time.
Write(i) ==
    /\ cal' = [cal EXCEPT ![i] = cal'[i]]
    /\ cal'[i] \in Entry
    /\ cal'[i].stage \in Held => Free(i, cal'[i])

\* A new entry, at any stage an administrator may record it at.
Enter(i) == cal[i] = None /\ Write(i)

\* Another time for an entry of the same artist; its stage stays.
Move(i) ==
    /\ cal[i] # None
    /\ Write(i)
    /\ cal'[i].slot.artist = cal[i].slot.artist
    /\ cal'[i].stage = cal[i].stage

\* The next stage of the life cycle; its time stays.
Advance(i) ==
    /\ cal[i] # None
    /\ Write(i)
    /\ cal'[i].slot = cal[i].slot
    /\ Follows(cal[i].stage, cal'[i].stage)

Next == \E i \in Ids : Enter(i) \/ Move(i) \/ Advance(i)

Spec == Init /\ [][Next]_cal

\* Entries that hold time of one artist are disjoint.
Disjoint ==
    \A i, j \in Ids :
        /\ i # j
        /\ cal[i] # None /\ cal[j] # None
        /\ cal[i].stage \in Held /\ cal[j].stage \in Held
        => ~Meets(cal[i].slot, cal[j].slot)
=============================================================================
