------------------------------ MODULE Booking ------------------------------
(***************************************************************************)
(* The booking core of the agency back end: the bookings table with its    *)
(* EXCLUDE constraint, the artist_unavailabilities table, and the HTTP     *)
(* handlers that read and write them.                                      *)
(*                                                                         *)
(* The database runs READ COMMITTED, so each SQL statement is one step and *)
(* statements of different requests interleave.  A request is what its     *)
(* handler still has to do: the statement it is about to run (pc) and the  *)
(* values it has read or received that it will still use.  A handler that  *)
(* answers with an error changes nothing, so its last step only frees the  *)
(* request.                                                                *)
(***************************************************************************)
EXTENDS Integers, FiniteSets

CONSTANTS
    Bookings,   \* ids the bookings table can hand out (bound on insertions)
    OffIds,     \* ids of artist_unavailabilities rows (bound on live rows)
    Requests,   \* requests the server handles at the same time
    Artists,    \* published artists
    Clients,    \* client accounts
    Reachable,  \* those of them with an email address on file
    Starts,     \* event start times that users ask for
    Hours,      \* event durations that users ask for
    Stored,     \* what the NUMERIC(4,1) column keeps of a duration: tenths of hours
    Prices,     \* pricing inputs: artist level, capacity, ticket price, set, options
    Quote,      \* the total computeBookingTotal returns for pricing inputs
    Amounts,    \* totals and deposits an admin types in
    Lead,       \* MIN_LEAD_TIME_HOURS
    MaxNow,     \* bound on the clock
    Null        \* SQL NULL, and the absence of a row

Status == {"pending_validation", "awaiting_deposit", "confirmed",
           "completed", "cancelled"}

\* Statuses that hold the artist's time.
Active == {"pending_validation", "awaiting_deposit", "confirmed"}

\* Statuses an artist cannot block time over.
Committed == {"awaiting_deposit", "confirmed"}

Template == {"BOOKING_CONFIRMATION", "BOOKING_APPROVED", "BOOKING_CONFIRMED",
             "BOOKING_REJECTED", "BOOKING_CANCELLED"}

Row == [artist : Artists, client : Clients, start : Nat, hours : Nat,
        status : Status, approved : BOOLEAN, paid : BOOLEAN,
        price : Prices, total : Nat, deposit : Nat]

\* A half-open interval of one artist's time.
Span == [artist : Artists, from : Nat, to : Nat]

ASSUME BookingAssumption ==
    /\ Reachable \subseteq Clients
    /\ Starts \subseteq Nat
    /\ Hours \subseteq Nat \ {0}
    /\ Stored \in [Hours -> Nat]
    /\ Quote \in [Prices -> Nat]
    /\ Amounts \subseteq Nat
    /\ Lead \in Nat /\ MaxNow \in Nat
    /\ Null \notin Row \cup Span \cup Nat \cup Prices
    /\ Null \notin [slot : Span, stage : Status]

-----------------------------------------------------------------------------
\* What a request that is being handled remembers, by operation.

Patch == [start : Starts \cup {Null}, hours : Hours \cup {Null},
          total : Amounts \cup {Null}, deposit : Amounts \cup {Null}]

Idle == [op |-> "none", pc |-> "idle"]

\* create and createForAdmin: the row to insert, the slot as it was asked for,
\* and whether to send a recap.
Creating == [op : {"create"}, pc : {"windows", "insert"},
             row : Row, slot : Span, notify : BOOLEAN]

\* updateForAdmin: the fields given, and the slot merged from the row it read.
Editing == [op : {"edit"}, pc : {"bookings", "windows", "update"},
            bk : Bookings, patch : Patch, slot : Span]

\* approve and mark-deposit-paid: the slot of the row read first.
Advancing == [op : {"approve", "deposit"}, pc : {"windows", "update"},
              bk : Bookings, slot : Span]

\* reject: the status and the date of the row read first.
Rejecting == [op : {"reject"}, pc : {"update"},
              bk : Bookings, seen : Status, told : Nat \cup {Null}]

\* UnavailabilityService.create after its conflict check.
Blocking == [op : {"block"}, pc : {"insert"}, slot : Span]

\* A handler past its write, about to enqueue an email.  told is the event
\* date the email will quote (Null when it quotes none, or the row is read
\* again first); was and date are history: the status the write replaced and the
\* event date of the row at that moment.
Mailing == [op : {"mail"}, pc : {"mail"}, bk : Bookings, template : Template,
            told : Nat \cup {Null}, was : Status \cup {Null}, date : Nat]

Request == {Idle} \cup Creating \cup Editing \cup Advancing \cup Rejecting
                  \cup Blocking \cup Mailing

-----------------------------------------------------------------------------
VARIABLES
    rows,    \* bookings: id -> row
    off,     \* artist_unavailabilities: id -> span
    now,     \* the clock, in the unit of Starts and Hours
    req,     \* what each request being handled has left to do
    mailed,    \* emails handed to the email queue, per booking and template
    overtaken  \* history: requests whose reads another request has outdated

vars == <<rows, off, now, req, mailed, overtaken>>

TypeOK ==
    /\ rows \in [Bookings -> Row \cup {Null}]
    /\ off \in [OffIds -> Span \cup {Null}]
    /\ now \in Nat
    /\ req \in [Requests -> Request]
    /\ mailed \in [Bookings -> [Template -> Nat]]
    /\ overtaken \subseteq Requests

Init ==
    /\ rows = [b \in Bookings |-> Null]
    /\ off = [w \in OffIds |-> Null]
    /\ now = 0
    /\ req = [r \in Requests |-> Idle]
    /\ mailed = [b \in Bookings |-> [t \in Template |-> 0]]
    /\ overtaken = {}

-----------------------------------------------------------------------------
\* Queries and table constraints.

Exists == {b \in Bookings : rows[b] # Null}

Slot(row) == [artist |-> row.artist, from |-> row.start,
              to |-> row.start + row.hours]

\* tstzrange && tstzrange: an empty range overlaps nothing.
Overlap(s, t) ==
    /\ s.artist = t.artist
    /\ s.from < s.to /\ t.from < t.to
    /\ s.from < t.to /\ t.from < s.to

\* listBookingsOverlapping
Overlapping(span) ==
    {b \in Exists : rows[b].status \in Active /\ Overlap(Slot(rows[b]), span)}

\* listUnavailabilitiesInRange returns a row
Blocked(span) == \E w \in OffIds : off[w] # Null /\ Overlap(off[w], span)

\* Variant: a constraint whose WHERE clause covers only committed bookings.
ExcludedCommittedOnly(b, row) ==
    /\ row.status \in Committed
    /\ \E c \in Overlapping(Slot(row)) : c # b /\ rows[c].status \in Committed

\* The EXCLUDE constraint bookings_no_overlap refuses this row under id b.
Excluded(b, row) ==
    row.status \in Active /\ \E c \in Overlapping(Slot(row)) : c # b

Coalesce(given, column) == IF given = Null THEN column ELSE given

\* Math.round(total * 3000 / 10000)
DepositOf(total) == (total * 3000 + 5000) \div 10000

\* The deposit guard of updateForAdmin.
DepositFits(deposit, total) == deposit <= total

LeadTimeOK(start) == start > now + Lead

\* Variant: a booking awaiting its deposit is not stamped.
DerivesApprovedLate(status) == status \in {"confirmed", "completed"}

\* deriveAdminBookingTimestamps
DerivesAdminApproved(status) ==
    status \in {"awaiting_deposit", "confirmed", "completed"}
DerivesPaid(status) == status = "completed"

\* The row create inserts: pending, quoted by the server.
RequestedRow(a, c, s, h, p) ==
    [artist |-> a, client |-> c, start |-> s, hours |-> Stored[h],
     status |-> "pending_validation", approved |-> FALSE, paid |-> FALSE,
     price |-> p, total |-> Quote[p], deposit |-> DepositOf(Quote[p])]

\* The row createForAdmin inserts: any status, stamped to match it, and the
\* amounts the admin gave in place of the quote.
RecordedRow(a, c, s, h, p, st, t, d) ==
    [artist |-> a, client |-> c, start |-> s, hours |-> Stored[h],
     status |-> st, approved |-> DerivesAdminApproved(st),
     paid |-> DerivesPaid(st), price |-> p,
     total |-> Coalesce(t, Quote[p]), deposit |-> Coalesce(d, DepositOf(Quote[p]))]

\* A slot as a user asks for it, before the duration is stored.
Asked(a, s, h) == [artist |-> a, from |-> s, to |-> s + h]

\* COALESCE(:eventDurationHours, event_duration_hours)
Duration(h, column) == IF h = Null THEN column ELSE Stored[h]

\* updateBookingAdmin: the fields given, onto a row.
Patched(row, p) ==
    [row EXCEPT !.start = Coalesce(p.start, @), !.hours = Duration(p.hours, @),
                !.total = Coalesce(p.total, @), !.deposit = Coalesce(p.deposit, @)]

Create(pc, row, slot, notify) ==
    [op |-> "create", pc |-> pc, row |-> row, slot |-> slot, notify |-> notify]

Edit(pc, b, patch, slot) ==
    [op |-> "edit", pc |-> pc, bk |-> b, patch |-> patch, slot |-> slot]

Mail(b, template, told, was, date) ==
    [op |-> "mail", pc |-> "mail", bk |-> b, template |-> template,
     told |-> told, was |-> was, date |-> date]

\* The request r goes on as record next; Idle ends it.
Continue(r, next) == req' = [req EXCEPT ![r] = next]

At(r, op, pc) == req[r].op = op /\ req[r].pc = pc

-----------------------------------------------------------------------------
\* About to advance a booking, past the check of the artist's unavailabilities.
Advances(r) == req[r].op \in {"approve", "deposit"} /\ req[r].pc = "update"

\* What the request r has read of the database, as it is now: the handler will
\* write without reading it again.
LastRead(r) ==
    CASE req[r].op = "edit" ->
            <<rows[req[r].bk].total, rows[req[r].bk].deposit>>
      [] req[r].op \in {"approve", "deposit"} ->
            <<Slot(rows[req[r].bk]), Advances(r) /\ Blocked(req[r].slot)>>
      [] req[r].op = "reject" ->
            <<rows[req[r].bk].status, rows[req[r].bk].start>>
      [] OTHER -> <<>>

\* A request is overtaken, until it ends, once a step of another one has changed
\* what it has read.
RecordOvertaken ==
    overtaken' = {r \in Requests :
                    \/ r \in overtaken /\ req'[r] # Idle
                    \/ req'[r] = req[r] /\ LastRead(r)' # LastRead(r)}

-----------------------------------------------------------------------------
\* BookingService.create: lead time, quote, then the transaction's first
\* SELECT.  An overlapping active booking ends the request.
CreateBegin(r) ==
    /\ req[r] = Idle
    /\ \E a \in Artists, c \in Reachable, s \in Starts, h \in Hours, p \in Prices :
          /\ LeadTimeOK(s)
          /\ Overlapping(Asked(a, s, h)) = {}
          /\ Continue(r, Create("windows", RequestedRow(a, c, s, h, p),
                                Asked(a, s, h), TRUE))
    /\ UNCHANGED <<rows, off, now, mailed>>
    /\ RecordOvertaken

\* BookingService.createForAdmin: any status, no lead time, amounts that may
\* replace the quote; with overrideConflict both availability checks are
\* skipped, with skipEmails nobody is notified.
AdminCreateBegin(r) ==
    /\ req[r] = Idle
    /\ \E a \in Artists, c \in Clients, s \in Starts, h \in Hours, p \in Prices,
          st \in Status, t \in Amounts \cup {Null}, d \in Amounts \cup {Null},
          notify \in BOOLEAN :
          LET row == RecordedRow(a, c, s, h, p, st, t, d)
          IN  /\ notify => c \in Reachable
              /\ \/ Continue(r, Create("insert", row, Asked(a, s, h), notify))
                 \/ /\ Overlapping(Asked(a, s, h)) = {}
                    /\ Continue(r, Create("windows", row, Asked(a, s, h), notify))
    /\ UNCHANGED <<rows, off, now, mailed>>
    /\ RecordOvertaken

\* assertSlotFree, second SELECT.
CreateCheckWindows(r) ==
    /\ At(r, "create", "windows")
    /\ Continue(r, IF Blocked(req[r].slot) THEN Idle
                   ELSE [req[r] EXCEPT !.pc = "insert"])
    /\ UNCHANGED <<rows, off, now, mailed>>
    /\ RecordOvertaken

\* INSERT and COMMIT.  The EXCLUDE constraint has the last word.
CreateInsert(r) ==
    /\ At(r, "create", "insert")
    /\ \E b \in Bookings \ Exists :
          LET row == req[r].row
          IN  IF Excluded(b, row)
              THEN rows' = rows /\ Continue(r, Idle)
              ELSE /\ rows' = [rows EXCEPT ![b] = row]
                   /\ Continue(r, IF req[r].notify
                                  THEN Mail(b, "BOOKING_CONFIRMATION", row.start,
                                            Null, row.start)
                                  ELSE Idle)
    /\ UNCHANGED <<off, now, mailed>>
    /\ RecordOvertaken

-----------------------------------------------------------------------------
\* BookingService.updateForAdmin: reads the row, checks the merged deposit
\* and, when the slot of a live booking moves without override, re-checks it.
EditBegin(r) ==
    /\ req[r] = Idle
    /\ \E b \in Exists, p \in Patch, override \in BOOLEAN :
          LET slot == Asked(rows[b].artist, Coalesce(p.start, rows[b].start),
                            Coalesce(p.hours, rows[b].hours))
              recheck == /\ p.start # Null \/ p.hours # Null
                         /\ rows[b].status # "cancelled"
                         /\ ~override
          IN  /\ \E f \in {"start", "hours", "total", "deposit"} : p[f] # Null
              /\ DepositFits(Coalesce(p.deposit, rows[b].deposit),
                             Coalesce(p.total, rows[b].total))
              /\ Continue(r, Edit(IF recheck THEN "bookings" ELSE "update", b, p, slot))
    /\ UNCHANGED <<rows, off, now, mailed>>
    /\ RecordOvertaken

EditCheckBookings(r) ==
    /\ At(r, "edit", "bookings")
    /\ Continue(r, IF Overlapping(req[r].slot) \subseteq {req[r].bk}
                   THEN [req[r] EXCEPT !.pc = "windows"] ELSE Idle)
    /\ UNCHANGED <<rows, off, now, mailed>>
    /\ RecordOvertaken

EditCheckWindows(r) ==
    /\ At(r, "edit", "windows")
    /\ Continue(r, IF Blocked(req[r].slot) THEN Idle
                   ELSE [req[r] EXCEPT !.pc = "update"])
    /\ UNCHANGED <<rows, off, now, mailed>>
    /\ RecordOvertaken

\* UPDATE by id alone: only the given fields, onto the row as it is now.
EditUpdate(r) ==
    /\ At(r, "edit", "update")
    /\ LET b == req[r].bk
           row == Patched(rows[b], req[r].patch)
       IN  rows' = IF Excluded(b, row) THEN rows ELSE [rows EXCEPT ![b] = row]
    /\ Continue(r, Idle)
    /\ UNCHANGED <<off, now, mailed>>
    /\ RecordOvertaken

-----------------------------------------------------------------------------
\* POST approve and POST mark-deposit-paid read the booking first.
AdvanceBegin(r) ==
    /\ req[r] = Idle
    /\ \E b \in Exists, op \in {"approve", "deposit"} :
          Continue(r, [op |-> op, pc |-> "windows", bk |-> b,
                       slot |-> Slot(rows[b])])
    /\ UNCHANGED <<rows, off, now, mailed>>
    /\ RecordOvertaken

\* Variant: the result of the query is ignored.
AssertNothing(r) ==
    /\ req[r].op \in {"approve", "deposit"} /\ req[r].pc = "windows"
    /\ Continue(r, [req[r] EXCEPT !.pc = "update"])
    /\ UNCHANGED <<rows, off, now, mailed>>
    /\ RecordOvertaken

\* assertNoUnavailabilityConflict on the slot that was read.
AssertNoUnavailabilityConflict(r) ==
    /\ req[r].op \in {"approve", "deposit"} /\ req[r].pc = "windows"
    /\ Continue(r, IF Blocked(req[r].slot) THEN Idle
                   ELSE [req[r] EXCEPT !.pc = "update"])
    /\ UNCHANGED <<rows, off, now, mailed>>
    /\ RecordOvertaken

\* Variant: mails without looking at the UPDATE's row count.
TransitionMailsAlways(r, b, matches, row, template, told) ==
    /\ rows' = IF matches THEN [rows EXCEPT ![b] = row] ELSE rows
    /\ Continue(r, IF rows[b].client \in Reachable
                   THEN Mail(b, template, told, rows[b].status, rows[b].start)
                   ELSE Idle)
    /\ UNCHANGED <<off, now, mailed>>
    /\ RecordOvertaken

\* UPDATE ... WHERE matched row b: it becomes row, and the client, when
\* reachable, is told.  An UPDATE that matches no row is a 409.
Transition(r, b, matches, row, template, told) ==
    /\ rows' = IF matches THEN [rows EXCEPT ![b] = row] ELSE rows
    /\ Continue(r, IF matches /\ rows[b].client \in Reachable
                   THEN Mail(b, template, told, rows[b].status, rows[b].start)
                   ELSE Idle)
    /\ UNCHANGED <<off, now, mailed>>
    /\ RecordOvertaken

\* approveBookingAdmin; the handler reads the booking again for its email.
ApproveBooking(r) ==
    /\ At(r, "approve", "update")
    /\ LET b == req[r].bk IN
       Transition(r, b,
                  rows[b].status = "pending_validation" /\ ~rows[b].approved,
                  [rows[b] EXCEPT !.status = "awaiting_deposit",
                                  !.approved = TRUE],
                  "BOOKING_APPROVED", Null)

\* markBookingDepositPaid; the email quotes the booking read at the start.
MarkDepositPaid(r) ==
    /\ At(r, "deposit", "update")
    /\ LET b == req[r].bk IN
       Transition(r, b, rows[b].status = "awaiting_deposit",
                  [rows[b] EXCEPT !.status = "confirmed"],
                  "BOOKING_CONFIRMED", req[r].slot.from)

\* Variant: one email for every rejection.
RejectsAlike(seen) == "BOOKING_REJECTED"

\* A request still under review is rejected, a later booking is cancelled;
\* only the cancellation quotes the event date.
RejectTemplate(seen) ==
    IF seen = "pending_validation" THEN "BOOKING_REJECTED" ELSE "BOOKING_CANCELLED"

\* POST reject reads the booking, then cancels it from any active status.
RejectBegin(r) ==
    /\ req[r] = Idle
    /\ \E b \in Exists :
          Continue(r, [op |-> "reject", pc |-> "update", bk |-> b,
                       seen |-> rows[b].status,
                       told |-> IF rows[b].status = "pending_validation"
                                THEN Null ELSE rows[b].start])
    /\ UNCHANGED <<rows, off, now, mailed>>
    /\ RecordOvertaken

\* Variant: the UPDATE has no guard on the status.
RejectAnything(r) ==
    /\ At(r, "reject", "update")
    /\ Transition(r, req[r].bk, TRUE,
                  [rows[req[r].bk] EXCEPT !.status = "cancelled"],
                  RejectTemplate(req[r].seen), req[r].told)

RejectBooking(r) ==
    /\ At(r, "reject", "update")
    /\ LET b == req[r].bk IN
       Transition(r, b, rows[b].status \in Active,
                  [rows[b] EXCEPT !.status = "cancelled"],
                  RejectTemplate(req[r].seen), req[r].told)

\* POST mark-completed: one UPDATE, no email.
MarkCompleted(r) ==
    /\ req[r] = Idle
    /\ \E b \in Exists :
          /\ rows[b].status = "confirmed"
          /\ rows' = [rows EXCEPT ![b].status = "completed", ![b].paid = TRUE]
    /\ UNCHANGED <<off, now, req, mailed>>
    /\ RecordOvertaken

-----------------------------------------------------------------------------
\* ClientAuthService.cancelBooking: one UPDATE guarded by ownership (so any
\* booking, by its own client), status and lead time; the booking is read
\* again for the email.
CancelByClient(r) ==
    /\ req[r] = Idle
    /\ \E b \in Exists :
          /\ rows[b].status \in Active
          /\ LeadTimeOK(rows[b].start)
          /\ Transition(r, b, TRUE, [rows[b] EXCEPT !.status = "cancelled"],
                        "BOOKING_CANCELLED", Null)

\* The fields a client gives, onto a row: its quote stays as it was.
Edited(row, s, h, p) ==
    [row EXCEPT !.start = Coalesce(s, @), !.hours = Duration(h, @),
                !.price = Coalesce(p, @)]

\* ClientAuthService.editBooking: one UPDATE on the client's own pending
\* booking.  Neither the lead time nor the unavailabilities are looked at.
EditByClient(r) ==
    /\ req[r] = Idle
    /\ \E b \in Exists, s \in Starts \cup {Null}, h \in Hours \cup {Null},
          p \in Prices \cup {Null} :
          /\ rows[b].status = "pending_validation"
          /\ ~Excluded(b, Edited(rows[b], s, h, p))
          /\ rows' = [rows EXCEPT ![b] = Edited(rows[b], s, h, p)]
    /\ UNCHANGED <<off, now, req, mailed>>
    /\ RecordOvertaken

-----------------------------------------------------------------------------
\* UnavailabilityService.create: a committed booking in the window is a
\* conflict, a pending one is not; the INSERT is a separate statement.
BlockBegin(r) ==
    /\ req[r] = Idle
    /\ \E a \in Artists, s \in Starts, h \in Hours :
          /\ \A b \in Overlapping(Asked(a, s, h)) : rows[b].status \notin Committed
          /\ Continue(r, [op |-> "block", pc |-> "insert", slot |-> Asked(a, s, h)])
    /\ UNCHANGED <<rows, off, now, mailed>>
    /\ RecordOvertaken

BlockInsert(r) ==
    /\ At(r, "block", "insert")
    /\ \E w \in OffIds :
          /\ off[w] = Null
          /\ off' = [off EXCEPT ![w] = req[r].slot]
    /\ Continue(r, Idle)
    /\ UNCHANGED <<rows, now, mailed>>
    /\ RecordOvertaken

\* UnavailabilityService.deleteForArtist.
Unblock(r) ==
    /\ req[r] = Idle
    /\ \E w \in OffIds :
          /\ off[w] # Null
          /\ off' = [off EXCEPT ![w] = Null]
    /\ UNCHANGED <<rows, now, req, mailed>>
    /\ RecordOvertaken

-----------------------------------------------------------------------------
\* getEmailQueue().enqueue after the write.
EnqueueMail(r) ==
    /\ req[r].op = "mail"
    /\ mailed' = [mailed EXCEPT ![req[r].bk][req[r].template] = @ + 1]
    /\ Continue(r, Idle)
    /\ UNCHANGED <<rows, off, now>>
    /\ RecordOvertaken

\* A statement fails, the connection drops or the process dies: what was
\* committed stays, an open transaction is rolled back, the rest is lost.
Abort(r) ==
    /\ req[r] # Idle
    /\ Continue(r, Idle)
    /\ UNCHANGED <<rows, off, now, mailed>>
    /\ RecordOvertaken

Tick ==
    /\ now < MaxNow
    /\ now' = now + 1
    /\ UNCHANGED <<rows, off, req, mailed>>
    /\ RecordOvertaken

Handle(r) ==
    \/ CreateBegin(r) \/ AdminCreateBegin(r) \/ CreateCheckWindows(r)
    \/ CreateInsert(r)
    \/ EditBegin(r) \/ EditCheckBookings(r) \/ EditCheckWindows(r) \/ EditUpdate(r)
    \/ AdvanceBegin(r) \/ AssertNoUnavailabilityConflict(r)
    \/ ApproveBooking(r) \/ MarkDepositPaid(r)
    \/ RejectBegin(r) \/ RejectBooking(r) \/ MarkCompleted(r)
    \/ CancelByClient(r) \/ EditByClient(r)
    \/ BlockBegin(r) \/ BlockInsert(r) \/ Unblock(r)
    \/ EnqueueMail(r) \/ Abort(r)

Next == Tick \/ \E r \in Requests : Handle(r)

Spec == Init /\ [][Next]_vars

-----------------------------------------------------------------------------
\* Properties.

\* No artist is double-booked: two bookings that hold the artist's time never
\* overlap, however inserts, moves and overrides race (#5, migration 003).
NoOverlap ==
    \A b, c \in Exists :
        /\ b # c
        /\ rows[b].status \in Active /\ rows[c].status \in Active
        => ~Overlap(Slot(rows[b]), Slot(rows[c]))

\* The bookings table seen as the agency's calendar: every step of the code is
\* an atomic reservation, move or life cycle step of it, or none.
Cal == INSTANCE Calendar WITH
    Ids <- Bookings,
    None <- Null,
    cal <- [b \in Bookings |->
              IF rows[b] = Null THEN Null
              ELSE [slot |-> Slot(rows[b]), stage |-> rows[b].status]]

\* The check-then-write handlers implement the calendar with atomic checks,
\* and no path of them leaves the life cycle.
ImplementsCalendar == Cal!Spec

\* The stamps of a row agree with its status.
Stamped(row) ==
    /\ row.status = "pending_validation" => ~row.approved
    /\ row.status \in {"awaiting_deposit", "confirmed", "completed"} => row.approved
    /\ row.paid <=> row.status = "completed"

\* #8: the stamps of a booking agree with its status on every path that leads
\* there, the admin's manual creation included: a pending booking is never
\* stamped approved (approveBookingAdmin would refuse it for ever), a
\* committed or completed one always is, and only a completed one is paid.
StampsMatchStatus == \A b \in Exists : Stamped(rows[b])

\* What makes the invariants above inductive: a booking that a request works
\* on never disappears, and a row about to be inserted is stamped.
BookingsKnown ==
    \A r \in Requests :
        req[r].op \in {"edit", "approve", "deposit", "reject", "mail"}
            => req[r].bk \in Exists

CreatesStamped ==
    \A r \in Requests : req[r].op = "create" => Stamped(req[r].row)

\* The inductive invariant of BookingProofs.
IndInv == TypeOK /\ BookingsKnown /\ CreatesStamped /\ StampsMatchStatus /\ NoOverlap

\* The request r is about to queue an email of template t for booking b.
Queues(r, b, t) == req[r].op = "mail" /\ req[r].bk = b /\ req[r].template = t

\* Emails of a template sent or about to be sent for a booking.
Told(b, t) == mailed[b][t] + Cardinality({r \in Requests : Queues(r, b, t)})

\* However many administrators and clients act on a booking at once (double
\* clicks, retries), the client gets at most one email per transition, and
\* none for a transition that did not happen: the guards of the UPDATEs elect
\* one winner and only the winner mails.
MailsMatchTransitions ==
    \A b \in Bookings :
        LET ended == Told(b, "BOOKING_REJECTED") + Told(b, "BOOKING_CANCELLED") IN
        /\ \A t \in Template : Told(b, t) <= 1
        /\ ended <= 1
        /\ Told(b, "BOOKING_APPROVED") = 1 => b \in Exists /\ rows[b].approved
        /\ Told(b, "BOOKING_CONFIRMED") = 1 =>
              b \in Exists /\ rows[b].status \in {"confirmed", "completed", "cancelled"}
        /\ ended = 1 => b \in Exists /\ rows[b].status = "cancelled"

\* The email a handler is about to queue fits the transition it made, however
\* many requests race: it quotes the event date the booking had then, and only a
\* request that was still pending is told it could not be processed.  The
\* handler that was overtaken between its SELECT and its UPDATE is excused.
MailFits ==
    \A r \in Requests :
        req[r].op = "mail" /\ r \notin overtaken =>
            /\ req[r].told \in {req[r].date, Null}
            /\ req[r].template = "BOOKING_REJECTED" =>
                  req[r].was = "pending_validation"

\* In this step a request of these operations that was overtaken writes b.
WrittenLate(b, ops) ==
    \E r \in overtaken : req[r].op \in ops /\ req[r].bk = b /\ req'[r] # req[r]

\* #24: approve and mark-deposit-paid advance a booking over a slot the artist
\* has blocked only when the booking moved after that very request read it, or
\* the window was inserted after that request had looked for windows.
OnlyLateAdvancesClash ==
    [][\A b \in Exists :
          /\ rows'[b].status # rows[b].status
          /\ rows'[b].status \in Committed
          /\ Blocked(Slot(rows'[b]))
          => WrittenLate(b, {"approve", "deposit"})]_vars

\* #9: the guard of an admin's edit runs "against the value the booking will
\* actually hold after the update", so no change takes a deposit above its total.
EditsKeepDepositWithinTotal ==
    [][\A b \in Exists : rows[b].deposit <= rows[b].total
          => rows'[b].deposit <= rows'[b].total]_vars

\* What the guard does achieve: a change takes a deposit above its total only when
\* it is an admin's edit and another one changed the amounts after it read them.
OnlyLateEditsOverdraw ==
    [][\A b \in Exists :
          /\ rows[b].deposit <= rows[b].total
          /\ rows'[b].deposit > rows'[b].total
          => WrittenLate(b, {"edit"})]_vars

-----------------------------------------------------------------------------
\* What makes MailsMatchTransitions inductive.

Announced(b, t) == mailed[b][t] # 0 \/ \E r \in Requests : Queues(r, b, t)

\* The transition that an email of template t reports has been made.
Happened(b, t) ==
    /\ b \in Exists
    /\ t = "BOOKING_APPROVED" => rows[b].approved
    /\ t = "BOOKING_CONFIRMED" => rows[b].status \in {"confirmed", "completed", "cancelled"}
    /\ t \in {"BOOKING_REJECTED", "BOOKING_CANCELLED"} => rows[b].status = "cancelled"

MailsOnce ==
    \A b \in Bookings :
        /\ \A t \in Template :
              /\ mailed[b][t] <= 1
              /\ Announced(b, t) => Happened(b, t)
              /\ \A r, s \in Requests : Queues(r, b, t) =>
                    mailed[b][t] = 0 /\ (Queues(s, b, t) => r = s)
        /\ ~(Announced(b, "BOOKING_REJECTED") /\ Announced(b, "BOOKING_CANCELLED"))

\* What the handlers that read before they write rest on: what a request has
\* read of its booking still holds of the row.
RowRead(q) ==
    /\ q.op = "edit" =>
          DepositFits(Coalesce(q.patch.deposit, rows[q.bk].deposit),
                      Coalesce(q.patch.total, rows[q.bk].total))
    /\ q.op \in {"approve", "deposit"} => q.slot = Slot(rows[q.bk])
    /\ q.op = "reject" =>
          /\ q.seen = rows[q.bk].status
          /\ q.told \in {rows[q.bk].start, Null}

\* A request that was not overtaken can rely on what it has read.
ReadsHold ==
    \A r \in Requests \ overtaken :
        RowRead(req[r]) /\ (Advances(r) => ~Blocked(req[r].slot))
=============================================================================
