--------------------------- MODULE BookingProofs ---------------------------
(***************************************************************************)
(* Proofs about Booking for every number of bookings, requests, artists,   *)
(* clients and windows, every quote and every clock.                       *)
(***************************************************************************)
EXTENDS Booking, FiniteSetTheorems, TLAPS

-----------------------------------------------------------------------------
\* What an operation remembers: the variant of a request follows from its op.
LEMMA RequestVariants ==
    ASSUME NEW q \in Request
    PROVE  /\ q.op = "create" => q \in Creating
           /\ q.op = "edit" => q \in Editing
           /\ q.op \in {"approve", "deposit"} => q \in Advancing
           /\ q.op = "reject" => q \in Rejecting
           /\ q.op = "block" => q \in Blocking
           /\ q.op = "mail" => q \in Mailing
  BY DEF Request, Idle, Creating, Editing, Advancing, Rejecting, Blocking, Mailing

\* The slot of a row is a span.
LEMMA SlotIsSpan == ASSUME NEW row \in Row PROVE Slot(row) \in Span
  BY DEF Slot, Row, Span

\* The deposit of an amount is an amount.
LEMMA DepositIsNat == ASSUME NEW total \in Nat PROVE DepositOf(total) \in Nat
  BY DEF DepositOf

\* A row of the table is a Row.
LEMMA ExistingRow ==
    ASSUME TypeOK, NEW b \in Exists
    PROVE  b \in Bookings /\ rows[b] \in Row /\ rows[b] # Null
  BY DEF TypeOK, Exists

-----------------------------------------------------------------------------
\* Type correctness.

LEMMA InitTypeOK == Init => TypeOK
  BY DEF Init, TypeOK, Request

\* Ending a request, or giving it another record of a known variant.
LEMMA ContinueType ==
    ASSUME TypeOK, NEW r \in Requests, NEW next \in Request, Continue(r, next)
    PROVE  req' \in [Requests -> Request]
  BY DEF TypeOK, Continue

LEMMA MailType ==
    ASSUME NEW b \in Bookings, NEW template \in Template,
           NEW told \in Nat \cup {Null}, NEW was \in Status \cup {Null},
           NEW date \in Nat
    PROVE  Mail(b, template, told, was, date) \in Request
  BY DEF Mail, Mailing, Request

\* A transition writes a row or nothing and then mails or stops.
LEMMA TransitionType ==
    ASSUME TypeOK, NEW r \in Requests, NEW b \in Exists, NEW matches \in BOOLEAN,
           NEW row, matches => row \in Row, NEW template \in Template,
           NEW told \in Nat \cup {Null},
           Transition(r, b, matches, row, template, told),
           overtaken' \subseteq Requests
    PROVE  TypeOK'
<1>1. b \in Bookings /\ rows[b] \in Row
  BY ExistingRow
<1>2. rows[b].status \in Status \cup {Null} /\ rows[b].start \in Nat
  BY <1>1 DEF Row
<1>3. Mail(b, template, told, rows[b].status, rows[b].start) \in Request
  BY <1>1, <1>2, MailType
<1>4. req' \in [Requests -> Request]
  BY <1>3, ContinueType DEF Transition, Request
<1>5. rows' \in [Bookings -> Row \cup {Null}]
  BY <1>1 DEF TypeOK, Transition
<1>. QED
  BY <1>4, <1>5 DEF TypeOK, Transition

LEMMA CoalesceType ==
    ASSUME NEW S, NEW column \in S, NEW given \in S \cup {Null}
    PROVE  Coalesce(given, column) \in S
  BY DEF Coalesce

\* The rows the handlers build are rows of the table.
LEMMA RequestedRowType ==
    ASSUME NEW a \in Artists, NEW c \in Clients, NEW s \in Starts, NEW h \in Hours,
           NEW p \in Prices
    PROVE  RequestedRow(a, c, s, h, p) \in Row
<1>1. Quote[p] \in Nat /\ DepositOf(Quote[p]) \in Nat
  BY BookingAssumption, DepositIsNat
<1>2. s \in Nat /\ Stored[h] \in Nat
  BY BookingAssumption
<1>. QED
  BY <1>1, <1>2 DEF RequestedRow, Row, Status

LEMMA RecordedRowType ==
    ASSUME NEW a \in Artists, NEW c \in Clients, NEW s \in Starts, NEW h \in Hours,
           NEW p \in Prices, NEW st \in Status,
           NEW t \in Amounts \cup {Null}, NEW d \in Amounts \cup {Null}
    PROVE  RecordedRow(a, c, s, h, p, st, t, d) \in Row
<1>1. Quote[p] \in Nat /\ DepositOf(Quote[p]) \in Nat
  BY BookingAssumption, DepositIsNat
<1>2. /\ s \in Nat /\ Stored[h] \in Nat
      /\ t \in Nat \cup {Null} /\ d \in Nat \cup {Null}
  BY BookingAssumption
<1>3. Coalesce(t, Quote[p]) \in Nat /\ Coalesce(d, DepositOf(Quote[p])) \in Nat
  BY <1>1, <1>2 DEF Coalesce
<1>4. DerivesAdminApproved(st) \in BOOLEAN /\ DerivesPaid(st) \in BOOLEAN
  BY DEF DerivesAdminApproved, DerivesPaid
<1>. QED
  BY <1>2, <1>3, <1>4 DEF RecordedRow, Row

LEMMA AskedType ==
    ASSUME NEW a \in Artists, NEW s \in Nat, NEW h \in Nat
    PROVE  Asked(a, s, h) \in Span
  BY DEF Asked, Span

LEMMA DurationType ==
    ASSUME NEW column \in Nat, NEW h \in Hours \cup {Null}
    PROVE  Duration(h, column) \in Nat
  BY BookingAssumption DEF Duration

LEMMA PatchedType ==
    ASSUME NEW row \in Row, NEW p \in Patch
    PROVE  Patched(row, p) \in Row
<1>1. /\ p.start \in Nat \cup {Null} /\ p.hours \in Hours \cup {Null}
      /\ p.total \in Nat \cup {Null} /\ p.deposit \in Nat \cup {Null}
  BY BookingAssumption DEF Patch
<1>2. /\ Coalesce(p.start, row.start) \in Nat
      /\ Duration(p.hours, row.hours) \in Nat
      /\ Coalesce(p.total, row.total) \in Nat
      /\ Coalesce(p.deposit, row.deposit) \in Nat
  BY <1>1, CoalesceType, DurationType DEF Row
<1>. QED
  BY <1>2 DEF Patched, Row

LEMMA EditedType ==
    ASSUME NEW row \in Row, NEW s \in Starts \cup {Null},
           NEW h \in Hours \cup {Null}, NEW p \in Prices \cup {Null}
    PROVE  Edited(row, s, h, p) \in Row
<1>1. /\ Coalesce(s, row.start) \in Nat
      /\ Duration(h, row.hours) \in Nat
      /\ Coalesce(p, row.price) \in Prices
  BY BookingAssumption, DurationType DEF Row, Coalesce
<1>. QED
  BY <1>1 DEF Edited, Row

\* Every step of a request keeps the record of those it overtakes.
LEMMA HandleRecords ==
    ASSUME NEW r \in Requests, Handle(r)
    PROVE  RecordOvertaken
  BY DEF Handle, Transition, CreateBegin, AdminCreateBegin, CreateCheckWindows,
         CreateInsert, EditBegin, EditCheckBookings, EditCheckWindows, EditUpdate,
         AdvanceBegin, AssertNoUnavailabilityConflict, ApproveBooking,
         MarkDepositPaid, RejectBegin, RejectBooking, MarkCompleted,
         CancelByClient, EditByClient, BlockBegin, BlockInsert, Unblock,
         EnqueueMail, Abort

\* Every step of a request keeps the types: one step per action.
LEMMA HandleTypeOK ==
    ASSUME TypeOK, BookingsKnown, NEW r \in Requests, Handle(r),
           overtaken' \subseteq Requests
    PROVE  TypeOK'
<1>0. /\ rows \in [Bookings -> Row \cup {Null}]
      /\ off \in [OffIds -> Span \cup {Null}]
      /\ now \in Nat
      /\ req \in [Requests -> Request]
      /\ mailed \in [Bookings -> [Template -> Nat]]
      /\ req[r] \in Request
      /\ Idle \in Request
  BY DEF TypeOK, Request
<1>1. CASE CreateBegin(r)
  <2>1. PICK a \in Artists, c \in Reachable, s \in Starts, h \in Hours, p \in Prices :
          Continue(r, Create("windows", RequestedRow(a, c, s, h, p),
                             Asked(a, s, h), TRUE))
    BY <1>1 DEF CreateBegin
  <2>2. RequestedRow(a, c, s, h, p) \in Row /\ Asked(a, s, h) \in Span
    BY BookingAssumption, RequestedRowType, AskedType
  <2>3. Create("windows", RequestedRow(a, c, s, h, p), Asked(a, s, h), TRUE)
          \in Request
    BY <2>2 DEF Create, Creating, Request
  <2>. QED
    BY <1>1, <2>1, <2>3, ContinueType DEF CreateBegin, TypeOK
<1>2. CASE AdminCreateBegin(r)
  <2>1. PICK a \in Artists, c \in Clients, s \in Starts, h \in Hours, p \in Prices,
             st \in Status, t \in Amounts \cup {Null}, d \in Amounts \cup {Null},
             notify \in BOOLEAN :
          \/ Continue(r, Create("insert", RecordedRow(a, c, s, h, p, st, t, d),
                                Asked(a, s, h), notify))
          \/ Continue(r, Create("windows", RecordedRow(a, c, s, h, p, st, t, d),
                                Asked(a, s, h), notify))
    BY <1>2 DEF AdminCreateBegin
  <2>2. RecordedRow(a, c, s, h, p, st, t, d) \in Row /\ Asked(a, s, h) \in Span
    BY BookingAssumption, RecordedRowType, AskedType
  <2>3. \A pc \in {"windows", "insert"} :
          Create(pc, RecordedRow(a, c, s, h, p, st, t, d), Asked(a, s, h), notify)
            \in Request
    BY <2>2 DEF Create, Creating, Request
  <2>. QED
    BY <1>2, <2>1, <2>3, ContinueType DEF AdminCreateBegin, TypeOK
<1>3. CASE CreateCheckWindows(r)
  <2>1. req[r] \in Creating
    BY <1>0, <1>3, RequestVariants DEF CreateCheckWindows, At
  <2>2. [req[r] EXCEPT !.pc = "insert"] \in Request
    BY <2>1 DEF Request, Creating
  <2>. QED
    BY <1>0, <1>3, <2>2, ContinueType DEF CreateCheckWindows, TypeOK
<1>4. CASE CreateInsert(r)
  <2>1. req[r] \in Creating /\ req[r].row \in Row /\ req[r].row.start \in Nat
    BY <1>0, <1>4, RequestVariants DEF CreateInsert, At, Creating, Row
  <2>2. PICK b \in Bookings \ Exists :
          IF Excluded(b, req[r].row)
          THEN rows' = rows /\ Continue(r, Idle)
          ELSE /\ rows' = [rows EXCEPT ![b] = req[r].row]
               /\ Continue(r, IF req[r].notify
                              THEN Mail(b, "BOOKING_CONFIRMATION", req[r].row.start,
                                        Null, req[r].row.start)
                              ELSE Idle)
    BY <1>4 DEF CreateInsert
  <2>3. Mail(b, "BOOKING_CONFIRMATION", req[r].row.start, Null, req[r].row.start)
          \in Request
    BY <2>1, MailType DEF Template
  <2>4. req' \in [Requests -> Request]
    BY <1>0, <2>2, <2>3, ContinueType
  <2>5. rows' \in [Bookings -> Row \cup {Null}]
    BY <1>0, <2>1, <2>2
  <2>. QED
    BY <1>0, <1>4, <2>4, <2>5 DEF CreateInsert, TypeOK
<1>5. CASE EditBegin(r)
  <2>1. PICK b \in Exists, p \in Patch, pc \in {"bookings", "update"} :
          Continue(r, Edit(pc, b, p, Asked(rows[b].artist,
                                           Coalesce(p.start, rows[b].start),
                                           Coalesce(p.hours, rows[b].hours))))
    BY <1>5 DEF EditBegin
  <2> DEFINE s == Coalesce(p.start, rows[b].start)
             h == Coalesce(p.hours, rows[b].hours)
  <2>2. b \in Bookings /\ rows[b].artist \in Artists /\ s \in Nat /\ h \in Nat
    BY BookingAssumption, ExistingRow DEF Row, Patch, Coalesce
  <2> HIDE DEF s, h
  <2>3. Edit(pc, b, p, Asked(rows[b].artist, s, h)) \in Request
    BY <2>2, AskedType DEF Edit, Editing, Request
  <2>. QED
    BY <1>5, <2>1, <2>3, ContinueType DEF EditBegin, TypeOK, s, h
<1>6. CASE EditCheckBookings(r)
  <2>1. req[r] \in Editing
    BY <1>0, <1>6, RequestVariants DEF EditCheckBookings, At
  <2>2. [req[r] EXCEPT !.pc = "windows"] \in Request
    BY <2>1 DEF Request, Editing
  <2>. QED
    BY <1>0, <1>6, <2>2, ContinueType DEF EditCheckBookings, TypeOK
<1>7. CASE EditCheckWindows(r)
  <2>1. req[r] \in Editing
    BY <1>0, <1>7, RequestVariants DEF EditCheckWindows, At
  <2>2. [req[r] EXCEPT !.pc = "update"] \in Request
    BY <2>1 DEF Request, Editing
  <2>. QED
    BY <1>0, <1>7, <2>2, ContinueType DEF EditCheckWindows, TypeOK
<1>8. CASE EditUpdate(r)
  <2>1. req[r] \in Editing /\ req[r].patch \in Patch /\ req[r].bk \in Exists
    BY <1>0, <1>8, RequestVariants DEF EditUpdate, At, Editing, BookingsKnown
  <2>2. Patched(rows[req[r].bk], req[r].patch) \in Row
    BY <2>1, ExistingRow, PatchedType
  <2>3. rows' \in [Bookings -> Row \cup {Null}]
    BY <1>0, <1>8, <2>2 DEF EditUpdate
  <2>. QED
    BY <1>0, <1>8, <2>3, ContinueType DEF EditUpdate, TypeOK
<1>9. CASE AdvanceBegin(r)
  <2>1. PICK b \in Exists, op \in {"approve", "deposit"} :
          Continue(r, [op |-> op, pc |-> "windows", bk |-> b, slot |-> Slot(rows[b])])
    BY <1>9 DEF AdvanceBegin
  <2>2. b \in Bookings /\ Slot(rows[b]) \in Span
    BY ExistingRow, SlotIsSpan
  <2>3. [op |-> op, pc |-> "windows", bk |-> b, slot |-> Slot(rows[b])] \in Request
    BY <2>2 DEF Request, Advancing
  <2>. QED
    BY <1>9, <2>1, <2>3, ContinueType DEF AdvanceBegin, TypeOK
<1>10. CASE AssertNoUnavailabilityConflict(r)
  <2>1. req[r] \in Advancing
    BY <1>0, <1>10, RequestVariants DEF AssertNoUnavailabilityConflict
  <2>2. [req[r] EXCEPT !.pc = "update"] \in Request
    BY <2>1 DEF Request, Advancing
  <2>. QED
    BY <1>0, <1>10, <2>2, ContinueType DEF AssertNoUnavailabilityConflict, TypeOK
<1>11. CASE ApproveBooking(r)
  <2> DEFINE b == req[r].bk
             row == [rows[b] EXCEPT !.status = "awaiting_deposit", !.approved = TRUE]
  <2>1. b \in Exists
    BY <1>11 DEF ApproveBooking, At, BookingsKnown
  <2>2. row \in Row
    BY <2>1, ExistingRow DEF Row, Status
  <2>3. Transition(r, b, rows[b].status = "pending_validation" /\ ~rows[b].approved,
                   row, "BOOKING_APPROVED", Null)
    BY <1>11 DEF ApproveBooking
  <2> HIDE DEF b, row
  <2>. QED
    BY <2>1, <2>2, <2>3, TransitionType DEF Template
<1>12. CASE MarkDepositPaid(r)
  <2> DEFINE b == req[r].bk
             row == [rows[b] EXCEPT !.status = "confirmed"]
             told == req[r].slot.from
  <2>1. b \in Exists /\ told \in Nat
    BY <1>0, <1>12, RequestVariants
       DEF MarkDepositPaid, At, BookingsKnown, Advancing, Span
  <2>2. row \in Row
    BY <2>1, ExistingRow DEF Row, Status
  <2>3. Transition(r, b, rows[b].status = "awaiting_deposit", row,
                   "BOOKING_CONFIRMED", told)
    BY <1>12 DEF MarkDepositPaid
  <2> HIDE DEF b, row, told
  <2>. QED
    BY <2>1, <2>2, <2>3, TransitionType DEF Template
<1>13. CASE RejectBegin(r)
  <2>1. PICK b \in Exists :
          Continue(r, [op |-> "reject", pc |-> "update", bk |-> b,
                       seen |-> rows[b].status,
                       told |-> IF rows[b].status = "pending_validation"
                                THEN Null ELSE rows[b].start])
    BY <1>13 DEF RejectBegin
  <2> DEFINE told == IF rows[b].status = "pending_validation"
                     THEN Null ELSE rows[b].start
  <2>2. b \in Bookings /\ rows[b].status \in Status /\ told \in Nat \cup {Null}
    BY ExistingRow DEF Row
  <2>3. [op |-> "reject", pc |-> "update", bk |-> b, seen |-> rows[b].status,
         told |-> told] \in Request
    BY <2>2 DEF Request, Rejecting
  <2>. QED
    BY <1>13, <2>1, <2>3, ContinueType DEF RejectBegin, TypeOK
<1>14. CASE RejectBooking(r)
  <2> DEFINE b == req[r].bk
             row == [rows[b] EXCEPT !.status = "cancelled"]
             template == RejectTemplate(req[r].seen)
             told == req[r].told
             matches == rows[b].status \in Active
  <2>1. b \in Exists /\ told \in Nat \cup {Null} /\ matches \in BOOLEAN
    BY <1>0, <1>14, RequestVariants DEF RejectBooking, At, BookingsKnown, Rejecting
  <2>2. row \in Row
    BY <2>1, ExistingRow DEF Row, Status
  <2>3. template \in Template
    BY DEF RejectTemplate, Template
  <2>4. Transition(r, b, matches, row, template, told)
    BY <1>14 DEF RejectBooking
  <2> HIDE DEF b, row, template, told, matches
  <2>. QED
    BY <2>1, <2>2, <2>3, <2>4, TransitionType
<1>15. CASE MarkCompleted(r)
  <2>1. PICK b \in Exists :
          rows' = [rows EXCEPT ![b].status = "completed", ![b].paid = TRUE]
    BY <1>15 DEF MarkCompleted
  <2>2. [rows[b] EXCEPT !.status = "completed", !.paid = TRUE] \in Row
    BY ExistingRow DEF Row, Status
  <2>3. rows' = [rows EXCEPT ![b] = [rows[b] EXCEPT !.status = "completed", !.paid = TRUE]]
    BY <1>0, <2>1, ExistingRow
  <2>. QED
    BY <1>0, <1>15, <2>2, <2>3 DEF MarkCompleted, TypeOK
<1>16. CASE CancelByClient(r)
  <2>1. PICK b \in Exists :
          Transition(r, b, TRUE, [rows[b] EXCEPT !.status = "cancelled"],
                     "BOOKING_CANCELLED", Null)
    BY <1>16 DEF CancelByClient
  <2>2. [rows[b] EXCEPT !.status = "cancelled"] \in Row
    BY ExistingRow DEF Row, Status
  <2>. QED
    BY <2>1, <2>2, TransitionType DEF Template
<1>17. CASE EditByClient(r)
  <2>1. PICK b \in Exists, s \in Starts \cup {Null}, h \in Hours \cup {Null},
             p \in Prices \cup {Null} :
          rows' = [rows EXCEPT ![b] = Edited(rows[b], s, h, p)]
    BY <1>17 DEF EditByClient
  <2>2. Edited(rows[b], s, h, p) \in Row
    BY ExistingRow, EditedType
  <2>. QED
    BY <1>0, <1>17, <2>1, <2>2 DEF EditByClient, TypeOK
<1>18. CASE BlockBegin(r)
  <2>1. PICK a \in Artists, s \in Starts, h \in Hours :
          Continue(r, [op |-> "block", pc |-> "insert", slot |-> Asked(a, s, h)])
    BY <1>18 DEF BlockBegin
  <2>2. Asked(a, s, h) \in Span
    BY BookingAssumption, AskedType
  <2>3. [op |-> "block", pc |-> "insert", slot |-> Asked(a, s, h)] \in Request
    BY <2>2 DEF Request, Blocking
  <2>. QED
    BY <1>18, <2>1, <2>3, ContinueType DEF BlockBegin, TypeOK
<1>19. CASE BlockInsert(r)
  <2>1. req[r].slot \in Span
    BY <1>0, <1>19, RequestVariants DEF BlockInsert, At, Blocking
  <2>. QED
    BY <1>0, <1>19, <2>1, ContinueType DEF BlockInsert, TypeOK
<1>20. CASE Unblock(r)
  BY <1>0, <1>20 DEF Unblock, TypeOK
<1>21. CASE EnqueueMail(r)
  <2>1. req[r].bk \in Bookings /\ req[r].template \in Template
    BY <1>0, <1>21, RequestVariants DEF EnqueueMail, Mailing
  <2>2. mailed' \in [Bookings -> [Template -> Nat]]
    BY <1>0, <1>21, <2>1 DEF EnqueueMail
  <2>. QED
    BY <1>0, <1>21, <2>2, ContinueType DEF EnqueueMail, TypeOK
<1>22. CASE Abort(r)
  BY <1>0, <1>22, ContinueType DEF Abort, TypeOK
<1>. QED
  BY <1>1, <1>2, <1>3, <1>4, <1>5, <1>6, <1>7, <1>8, <1>9, <1>10, <1>11, <1>12,
     <1>13, <1>14, <1>15, <1>16, <1>17, <1>18, <1>19, <1>20, <1>21, <1>22
     DEF Handle

LEMMA NextTypeOK ==
    ASSUME TypeOK, BookingsKnown, [Next]_vars
    PROVE  TypeOK'
<1>1. CASE Tick
  BY <1>1 DEF Tick, TypeOK, RecordOvertaken
<1>2. CASE \E r \in Requests : Handle(r)
  BY <1>2, HandleTypeOK, HandleRecords DEF RecordOvertaken
<1>3. CASE UNCHANGED vars
  BY <1>3 DEF vars, TypeOK
<1>. QED
  BY <1>1, <1>2, <1>3 DEF Next

-----------------------------------------------------------------------------
\* What a step does to the table: it inserts a stamped row into free time,
\* moves a row to free time, or takes a row one stage further.

Insertion(b, row) ==
    b \in Bookings \ Exists /\ ~Excluded(b, row) /\ Stamped(row)

Shift(b, row) ==
    /\ b \in Exists /\ ~Excluded(b, row)
    /\ row.artist = rows[b].artist
    /\ row.status = rows[b].status
    /\ row.approved = rows[b].approved /\ row.paid = rows[b].paid

Promotion(b, row) ==
    /\ b \in Exists
    /\ Slot(row) = Slot(rows[b])
    /\ Cal!Follows(rows[b].status, row.status)
    /\ Stamped(row) /\ (rows[b].approved => row.approved)

RowStep ==
    \E b \in Bookings, row \in Row :
        /\ rows' = [rows EXCEPT ![b] = row]
        /\ Insertion(b, row) \/ Shift(b, row) \/ Promotion(b, row)

\* A row with another status and stamps keeps its slot.
LEMMA SameSlot ==
    ASSUME NEW old \in Row, NEW row \in Row,
           row.artist = old.artist, row.start = old.start, row.hours = old.hours
    PROVE  Slot(row) = Slot(old)
  BY DEF Slot

LEMMA TransitionRowStep ==
    ASSUME TypeOK, NEW r, NEW b \in Exists, NEW matches, NEW row \in Row,
           matches => Promotion(b, row), NEW template, NEW told,
           Transition(r, b, matches, row, template, told)
    PROVE  RowStep \/ rows' = rows
  BY ExistingRow DEF Transition, RowStep

LEMMA HandleRowStep ==
    ASSUME IndInv, NEW r \in Requests, Handle(r)
    PROVE  RowStep \/ rows' = rows
<1>0. /\ TypeOK
      /\ req[r] \in Request
      /\ \A b \in Exists : b \in Bookings /\ rows[b] \in Row /\ Stamped(rows[b])
  BY ExistingRow DEF IndInv, TypeOK, StampsMatchStatus
<1>1. CASE CreateInsert(r)
  <2>1. req[r].row \in Row /\ Stamped(req[r].row)
    BY <1>0, <1>1, RequestVariants
       DEF CreateInsert, At, Creating, IndInv, CreatesStamped
  <2>2. CASE rows' # rows
    <3>1. PICK b \in Bookings \ Exists :
            ~Excluded(b, req[r].row) /\ rows' = [rows EXCEPT ![b] = req[r].row]
      BY <1>1, <2>2 DEF CreateInsert
    <3>. QED
      BY <2>1, <3>1 DEF RowStep, Insertion
  <2>. QED
    BY <2>2
<1>2. CASE EditUpdate(r)
  <2> DEFINE b == req[r].bk
             row == Patched(rows[b], req[r].patch)
  <2>1. b \in Exists /\ req[r].patch \in Patch
    BY <1>0, <1>2, RequestVariants
       DEF EditUpdate, At, Editing, IndInv, BookingsKnown
  <2>2. row \in Row
    BY <1>0, <2>1, PatchedType
  <2>3. /\ row.artist = rows[b].artist /\ row.status = rows[b].status
        /\ row.approved = rows[b].approved /\ row.paid = rows[b].paid
    BY <1>0, <2>1 DEF Patched, Row
  <2>4. rows' = IF Excluded(b, row) THEN rows ELSE [rows EXCEPT ![b] = row]
    BY <1>2 DEF EditUpdate
  <2> HIDE DEF b, row
  <2>. QED
    BY <1>0, <2>1, <2>2, <2>3, <2>4 DEF RowStep, Shift
<1>3. CASE EditByClient(r)
  <2>1. PICK b \in Exists, s \in Starts \cup {Null}, h \in Hours \cup {Null},
             p \in Prices \cup {Null} :
          /\ ~Excluded(b, Edited(rows[b], s, h, p))
          /\ rows' = [rows EXCEPT ![b] = Edited(rows[b], s, h, p)]
    BY <1>3 DEF EditByClient
  <2> DEFINE row == Edited(rows[b], s, h, p)
  <2>2. row \in Row
    BY <1>0, EditedType
  <2>3. /\ row.artist = rows[b].artist /\ row.status = rows[b].status
        /\ row.approved = rows[b].approved /\ row.paid = rows[b].paid
    BY <1>0 DEF Edited, Row
  <2>4. ~Excluded(b, row) /\ rows' = [rows EXCEPT ![b] = row]
    BY <2>1
  <2> HIDE DEF row
  <2>. QED
    BY <1>0, <2>2, <2>3, <2>4 DEF RowStep, Shift
<1>4. CASE ApproveBooking(r)
  <2> DEFINE b == req[r].bk
             row == [rows[b] EXCEPT !.status = "awaiting_deposit", !.approved = TRUE]
             matches == rows[b].status = "pending_validation" /\ ~rows[b].approved
  <2>1. b \in Exists
    BY <1>4 DEF ApproveBooking, At, IndInv, BookingsKnown
  <2>2. /\ row \in Row /\ row.status = "awaiting_deposit" /\ row.approved
        /\ row.paid = rows[b].paid /\ Slot(row) = Slot(rows[b])
    BY <1>0, <2>1, SameSlot DEF Row, Status
  <2>3. matches => Promotion(b, row)
    BY <1>0, <2>1, <2>2 DEF Promotion, Stamped, Cal!Follows
  <2>4. Transition(r, b, matches, row, "BOOKING_APPROVED", Null)
    BY <1>4 DEF ApproveBooking
  <2> HIDE DEF b, row, matches
  <2>. QED
    BY <1>0, <2>1, <2>2, <2>3, <2>4, TransitionRowStep
<1>5. CASE MarkDepositPaid(r)
  <2> DEFINE b == req[r].bk
             row == [rows[b] EXCEPT !.status = "confirmed"]
             matches == rows[b].status = "awaiting_deposit"
  <2>1. b \in Exists
    BY <1>5 DEF MarkDepositPaid, At, IndInv, BookingsKnown
  <2>2. /\ row \in Row /\ row.status = "confirmed" /\ row.approved = rows[b].approved
        /\ row.paid = rows[b].paid /\ Slot(row) = Slot(rows[b])
    BY <1>0, <2>1, SameSlot DEF Row, Status
  <2>3. matches => Promotion(b, row)
    BY <1>0, <2>1, <2>2 DEF Promotion, Stamped, Cal!Follows
  <2>4. Transition(r, b, matches, row, "BOOKING_CONFIRMED", req[r].slot.from)
    BY <1>5 DEF MarkDepositPaid
  <2> HIDE DEF b, row, matches
  <2>. QED
    BY <1>0, <2>1, <2>2, <2>3, <2>4, TransitionRowStep
<1>6. CASE RejectBooking(r)
  <2> DEFINE b == req[r].bk
             row == [rows[b] EXCEPT !.status = "cancelled"]
             matches == rows[b].status \in Active
  <2>1. b \in Exists
    BY <1>6 DEF RejectBooking, At, IndInv, BookingsKnown
  <2>2. /\ row \in Row /\ row.status = "cancelled" /\ row.paid = rows[b].paid
        /\ row.approved = rows[b].approved /\ Slot(row) = Slot(rows[b])
    BY <1>0, <2>1, SameSlot DEF Row, Status
  <2>3. matches => Promotion(b, row)
    BY <1>0, <2>1, <2>2 DEF Promotion, Stamped, Active, Cal!Follows, Cal!Held
  <2>4. Transition(r, b, matches, row, RejectTemplate(req[r].seen), req[r].told)
    BY <1>6 DEF RejectBooking
  <2> HIDE DEF b, row, matches
  <2>. QED
    BY <1>0, <2>1, <2>2, <2>3, <2>4, TransitionRowStep
<1>7. CASE CancelByClient(r)
  <2>1. PICK b \in Exists :
          /\ rows[b].status \in Active
          /\ Transition(r, b, TRUE, [rows[b] EXCEPT !.status = "cancelled"],
                        "BOOKING_CANCELLED", Null)
    BY <1>7 DEF CancelByClient
  <2> DEFINE row == [rows[b] EXCEPT !.status = "cancelled"]
  <2>2. /\ row \in Row /\ row.status = "cancelled" /\ row.paid = rows[b].paid
        /\ row.approved = rows[b].approved /\ Slot(row) = Slot(rows[b])
    BY <1>0, SameSlot DEF Row, Status
  <2>3. Promotion(b, row)
    BY <1>0, <2>1, <2>2 DEF Promotion, Stamped, Active, Cal!Follows, Cal!Held
  <2>4. Transition(r, b, TRUE, row, "BOOKING_CANCELLED", Null)
    BY <2>1
  <2> HIDE DEF row
  <2>. QED
    BY <1>0, <2>2, <2>3, <2>4, TransitionRowStep
<1>8. CASE MarkCompleted(r)
  <2>1. PICK b \in Exists :
          /\ rows[b].status = "confirmed"
          /\ rows' = [rows EXCEPT ![b].status = "completed", ![b].paid = TRUE]
    BY <1>8 DEF MarkCompleted
  <2> DEFINE row == [rows[b] EXCEPT !.status = "completed", !.paid = TRUE]
  <2>2. /\ row \in Row /\ row.status = "completed" /\ row.paid
        /\ row.approved = rows[b].approved /\ Slot(row) = Slot(rows[b])
    BY <1>0, SameSlot DEF Row, Status
  <2>3. Promotion(b, row)
    BY <1>0, <2>1, <2>2 DEF Promotion, Stamped, Cal!Follows
  <2>4. rows' = [rows EXCEPT ![b] = row]
    BY <1>0, <2>1 DEF TypeOK
  <2> HIDE DEF row
  <2>. QED
    BY <1>0, <2>2, <2>3, <2>4 DEF RowStep
<1>9. CASE UNCHANGED rows
  BY <1>9
<1>. QED
  BY <1>1, <1>2, <1>3, <1>4, <1>5, <1>6, <1>7, <1>8, <1>9
     DEF Handle, CreateBegin, AdminCreateBegin, CreateCheckWindows, EditBegin,
         EditCheckBookings, EditCheckWindows, AdvanceBegin,
         AssertNoUnavailabilityConflict, RejectBegin, BlockBegin, BlockInsert,
         Unblock, EnqueueMail, Abort

-----------------------------------------------------------------------------
\* Safety.

\* Rows are never deleted, stay stamped, and stay apart.
LEMMA RowStepSafe ==
    ASSUME IndInv, RowStep
    PROVE  Exists \subseteq Exists' /\ StampsMatchStatus' /\ NoOverlap'
<1>1. PICK b \in Bookings, row \in Row :
        /\ rows' = [rows EXCEPT ![b] = row]
        /\ Insertion(b, row) \/ Shift(b, row) \/ Promotion(b, row)
  BY DEF RowStep
<1>2. /\ \A c \in Exists : c \in Bookings /\ rows[c] \in Row /\ rows[c] # Null
      /\ row # Null /\ rows'[b] = row
      /\ \A c \in Bookings \ {b} : rows'[c] = rows[c]
  BY <1>1, ExistingRow, BookingAssumption DEF IndInv, TypeOK
<1>3. Exists' = Exists \cup {b}
  BY <1>2 DEF Exists
<1>4. Stamped(row)
  BY <1>1 DEF Insertion, Shift, Promotion, IndInv, StampsMatchStatus, Stamped
<1>5. StampsMatchStatus'
  BY <1>2, <1>3, <1>4 DEF IndInv, StampsMatchStatus
<1>6. \A c \in Exists \ {b} :
        row.status \in Active /\ rows[c].status \in Active
          => ~Overlap(Slot(row), Slot(rows[c])) /\ ~Overlap(Slot(rows[c]), Slot(row))
  <2>1. CASE ~Excluded(b, row)
    BY <1>2, <2>1 DEF Excluded, Overlapping, Overlap
  <2>2. CASE Promotion(b, row)
    <3>1. /\ b \in Exists /\ Slot(row) = Slot(rows[b])
          /\ row.status \in Active => rows[b].status \in Active
      BY <2>2 DEF Promotion, Cal!Follows, Cal!Held, Active
    <3>. QED
      BY <3>1 DEF IndInv, NoOverlap
  <2>. QED
    BY <1>1, <2>1, <2>2 DEF Insertion, Shift
<1>7. NoOverlap'
  <2>1. SUFFICES ASSUME NEW c \in Exists', NEW d \in Exists', c # d,
                        rows'[c].status \in Active, rows'[d].status \in Active
                 PROVE  ~Overlap(Slot(rows'[c]), Slot(rows'[d]))
    BY DEF NoOverlap, Slot, Overlap
  <2>2. CASE c = b
    BY <1>2, <1>3, <1>6, <2>1, <2>2
  <2>3. CASE d = b
    BY <1>2, <1>3, <1>6, <2>1, <2>3
  <2>4. CASE c # b /\ d # b
    BY <1>2, <1>3, <2>1, <2>4 DEF IndInv, NoOverlap
  <2>. QED
    BY <2>2, <2>3, <2>4
<1>. QED
  BY <1>3, <1>5, <1>7

\* What a request remembers after a step of its own: a booking that exists, a
\* stamped row.
Sound(q) ==
    /\ q.op \in {"edit", "approve", "deposit", "reject", "mail"} => q.bk \in Exists'
    /\ q.op = "create" => Stamped(q.row)

LEMMA RowsSurvive ==
    ASSUME IndInv, NEW r \in Requests, Handle(r)
    PROVE  Exists \subseteq Exists' /\ StampsMatchStatus' /\ NoOverlap'
<1>1. CASE RowStep
  BY <1>1, RowStepSafe
<1>2. CASE rows' = rows
  BY <1>2 DEF IndInv, Exists, StampsMatchStatus, NoOverlap, Slot, Overlap
<1>. QED
  BY <1>1, <1>2, HandleRowStep

\* The rows that handlers build are stamped.
LEMMA NewRowsStamped ==
    /\ \A a, c, s, h, p : Stamped(RequestedRow(a, c, s, h, p))
    /\ \A a, c, s, h, p, t, d : \A st \in Status :
          Stamped(RecordedRow(a, c, s, h, p, st, t, d))
<1>1. ASSUME NEW a, NEW c, NEW s, NEW h, NEW p
      PROVE  Stamped(RequestedRow(a, c, s, h, p))
  BY DEF Stamped, RequestedRow
<1>2. ASSUME NEW a, NEW c, NEW s, NEW h, NEW p, NEW t, NEW d, NEW st \in Status
      PROVE  Stamped(RecordedRow(a, c, s, h, p, st, t, d))
  <2>1. /\ RecordedRow(a, c, s, h, p, st, t, d).status = st
        /\ RecordedRow(a, c, s, h, p, st, t, d).approved = DerivesAdminApproved(st)
        /\ RecordedRow(a, c, s, h, p, st, t, d).paid = DerivesPaid(st)
    BY DEF RecordedRow
  <2>. QED
    BY <2>1 DEF Stamped, DerivesAdminApproved, DerivesPaid
<1>. QED
  BY <1>1, <1>2

LEMMA HandleSound ==
    ASSUME IndInv, NEW r \in Requests, Handle(r)
    PROVE  \/ UNCHANGED req
           \/ \E q : Continue(r, q) /\ Sound(q)
<1>0. Sound(Idle)
  BY DEF Sound, Idle
<1>1. Exists \subseteq Exists'
  BY RowsSurvive
<1>2. Sound(req[r])
  BY <1>1 DEF Sound, IndInv, BookingsKnown, CreatesStamped
<1>3. req[r] \in Request
  BY DEF IndInv, TypeOK
<1>4. CASE CreateBegin(r)
  <2>1. PICK a, c, s, h, p :
          Continue(r, Create("windows", RequestedRow(a, c, s, h, p),
                             Asked(a, s, h), TRUE))
    BY <1>4 DEF CreateBegin
  <2>2. Sound(Create("windows", RequestedRow(a, c, s, h, p), Asked(a, s, h), TRUE))
    BY NewRowsStamped DEF Sound, Create
  <2>. QED
    BY <2>1, <2>2
<1>5. CASE AdminCreateBegin(r)
  <2>1. PICK a \in Artists, c \in Clients, s \in Starts, h \in Hours, p \in Prices,
             st \in Status, t \in Amounts \cup {Null}, d \in Amounts \cup {Null},
             notify \in BOOLEAN :
          \/ Continue(r, Create("insert", RecordedRow(a, c, s, h, p, st, t, d),
                                Asked(a, s, h), notify))
          \/ Continue(r, Create("windows", RecordedRow(a, c, s, h, p, st, t, d),
                                Asked(a, s, h), notify))
    BY <1>5 DEF AdminCreateBegin
  <2>2. \A pc : Sound(Create(pc, RecordedRow(a, c, s, h, p, st, t, d),
                             Asked(a, s, h), notify))
    BY NewRowsStamped DEF Sound, Create
  <2>. QED
    BY <2>1, <2>2
<1>6. CASE CreateCheckWindows(r) \/ EditCheckBookings(r) \/ EditCheckWindows(r)
             \/ AssertNoUnavailabilityConflict(r)
  <2>1. \/ Continue(r, Idle)
        \/ \E pc : Continue(r, [req[r] EXCEPT !.pc = pc])
    BY <1>6 DEF CreateCheckWindows, EditCheckBookings, EditCheckWindows,
                AssertNoUnavailabilityConflict
  <2>2. \A pc : Sound([req[r] EXCEPT !.pc = pc])
    BY <1>2, <1>3 DEF Sound, Request, Idle, Creating, Editing, Advancing,
                      Rejecting, Blocking, Mailing
  <2>. QED
    BY <1>0, <2>1, <2>2
<1>7. CASE CreateInsert(r)
  <2>1. PICK b \in Bookings \ Exists :
          IF Excluded(b, req[r].row)
          THEN rows' = rows /\ Continue(r, Idle)
          ELSE /\ rows' = [rows EXCEPT ![b] = req[r].row]
               /\ Continue(r, IF req[r].notify
                              THEN Mail(b, "BOOKING_CONFIRMATION", req[r].row.start,
                                        Null, req[r].row.start)
                              ELSE Idle)
    BY <1>7 DEF CreateInsert
  <2>2. CASE ~Excluded(b, req[r].row)
    <3>1. req[r].row \in Row
      BY <1>3, <1>7, RequestVariants DEF CreateInsert, At, Creating
    <3>2. b \in Exists'
      BY <2>1, <2>2, <3>1, BookingAssumption DEF Exists, IndInv, TypeOK
    <3>3. Sound(Mail(b, "BOOKING_CONFIRMATION", req[r].row.start, Null,
                     req[r].row.start))
      BY <3>2 DEF Sound, Mail
    <3>. QED
      BY <1>0, <2>1, <2>2, <3>3
  <2>. QED
    BY <1>0, <2>1, <2>2
<1>8. CASE EditBegin(r)
  <2>1. PICK b \in Exists, p \in Patch, pc \in {"bookings", "update"} :
          Continue(r, Edit(pc, b, p, Asked(rows[b].artist,
                                           Coalesce(p.start, rows[b].start),
                                           Coalesce(p.hours, rows[b].hours))))
    BY <1>8 DEF EditBegin
  <2>2. \A slot : Sound(Edit(pc, b, p, slot))
    BY <1>1 DEF Sound, Edit
  <2>. QED
    BY <2>1, <2>2
<1>9. CASE AdvanceBegin(r)
  BY <1>1, <1>9 DEF AdvanceBegin, Sound
<1>10. CASE RejectBegin(r)
  BY <1>1, <1>10 DEF RejectBegin, Sound
<1>11. CASE BlockBegin(r)
  BY <1>11 DEF BlockBegin, Sound
<1>12. ASSUME NEW b \in Exists, NEW matches, NEW row, NEW template, NEW told,
              Transition(r, b, matches, row, template, told)
       PROVE  \E q : Continue(r, q) /\ Sound(q)
  <2>1. Sound(Mail(b, template, told, rows[b].status, rows[b].start))
    BY <1>1 DEF Sound, Mail
  <2>. QED
    BY <1>0, <1>12, <2>1 DEF Transition
<1>13. CASE ApproveBooking(r) \/ MarkDepositPaid(r) \/ RejectBooking(r)
  <2>1. req[r].bk \in Exists
    BY <1>13 DEF ApproveBooking, MarkDepositPaid, RejectBooking, At, IndInv,
                 BookingsKnown
  <2>2. \E matches, row, template, told :
          Transition(r, req[r].bk, matches, row, template, told)
    BY <1>13 DEF ApproveBooking, MarkDepositPaid, RejectBooking
  <2>. QED
    BY <1>12, <2>1, <2>2
<1>14. CASE CancelByClient(r)
  BY <1>12, <1>14 DEF CancelByClient
<1>15. CASE EditUpdate(r) \/ BlockInsert(r) \/ EnqueueMail(r) \/ Abort(r)
  BY <1>0, <1>15 DEF EditUpdate, BlockInsert, EnqueueMail, Abort
<1>16. CASE MarkCompleted(r) \/ EditByClient(r) \/ Unblock(r)
  BY <1>16 DEF MarkCompleted, EditByClient, Unblock
<1>. QED
  BY <1>4, <1>5, <1>6, <1>7, <1>8, <1>9, <1>10, <1>11, <1>13, <1>14, <1>15, <1>16
     DEF Handle

LEMMA InitIndInv == Init => IndInv
<1>. SUFFICES ASSUME Init PROVE IndInv
  OBVIOUS
<1>1. TypeOK
  BY InitTypeOK
<1>2. Exists = {}
  BY DEF Init, Exists
<1>3. \A r \in Requests : req[r] = Idle
  BY DEF Init
<1>. QED
  BY <1>1, <1>2, <1>3
     DEF IndInv, BookingsKnown, CreatesStamped, StampsMatchStatus, NoOverlap, Idle

LEMMA HandleIndInv ==
    ASSUME IndInv, NEW r \in Requests, Handle(r)
    PROVE  IndInv'
<1>1. TypeOK'
  BY HandleTypeOK, HandleRecords DEF IndInv, RecordOvertaken
<1>2. Exists \subseteq Exists' /\ StampsMatchStatus' /\ NoOverlap'
  BY RowsSurvive
<1>3. \A s \in Requests : Sound(req'[s])
  <2>1. \A s \in Requests : Sound(req[s])
    BY <1>2 DEF Sound, IndInv, BookingsKnown, CreatesStamped
  <2>2. req \in [Requests -> Request]
    BY DEF IndInv, TypeOK
  <2>. QED
    BY <2>1, <2>2, HandleSound DEF Continue
<1>4. BookingsKnown' /\ CreatesStamped'
  BY <1>3 DEF Sound, BookingsKnown, CreatesStamped, Stamped
<1>. QED
  BY <1>1, <1>2, <1>4 DEF IndInv

LEMMA NextIndInv == IndInv /\ [Next]_vars => IndInv'
<1>1. ASSUME IndInv, Tick PROVE IndInv'
  BY <1>1, NextTypeOK DEF Next, Tick, IndInv, BookingsKnown, CreatesStamped,
       StampsMatchStatus, NoOverlap, Exists, Slot, Overlap, Stamped
<1>2. ASSUME IndInv, NEW r \in Requests, Handle(r) PROVE IndInv'
  BY <1>2, HandleIndInv
<1>3. ASSUME IndInv, UNCHANGED vars PROVE IndInv'
  BY <1>3, NextTypeOK DEF vars, IndInv, BookingsKnown, CreatesStamped,
       StampsMatchStatus, NoOverlap, Exists, Slot, Overlap, Stamped
<1>. QED
  BY <1>1, <1>2, <1>3 DEF Next

\* The inductive invariant holds of every behaviour of the back end.
THEOREM Invariance == Spec => []IndInv
<1>. QED
  BY InitIndInv, NextIndInv, PTL DEF Spec

\* The table, the requests and the queue keep their types.
THEOREM TypeCorrect == Spec => []TypeOK
  BY Invariance, PTL DEF IndInv

\* Two bookings that hold an artist's time never overlap, however many
\* requests race and wherever they stop.
THEOREM NeverDoubleBooked == Spec => []NoOverlap
  BY Invariance, PTL DEF IndInv

\* The stamps of every booking agree with its status.
THEOREM AlwaysStamped == Spec => []StampsMatchStatus
  BY Invariance, PTL DEF IndInv

-----------------------------------------------------------------------------
\* Emails: the transition that an email reports happens once, because the guard
\* of its UPDATE is that it has not happened, and it lasts.

LEMMA HappenedLasts ==
    ASSUME IndInv, RowStep \/ rows' = rows, NEW b \in Bookings, NEW t, Happened(b, t)
    PROVE  Happened(b, t)'
<1>1. CASE rows' = rows
  BY <1>1 DEF Happened, Exists
<1>2. CASE RowStep
  <2>1. PICK c \in Bookings, row \in Row :
          /\ rows' = [rows EXCEPT ![c] = row]
          /\ Insertion(c, row) \/ Shift(c, row) \/ Promotion(c, row)
    BY <1>2 DEF RowStep
  <2>2. row # Null /\ rows'[c] = row /\ \A d \in Bookings \ {c} : rows'[d] = rows[d]
    BY <2>1, BookingAssumption DEF IndInv, TypeOK
  <2>3. CASE c # b
    BY <2>2, <2>3 DEF Happened, Exists
  <2>4. CASE c = b
    <3>1. Shift(b, row) \/ Promotion(b, row)
      BY <2>1, <2>4 DEF Insertion, Happened
    <3>2. /\ rows[b].approved => row.approved
          /\ rows[b].status = "cancelled" => row.status = "cancelled"
          /\ rows[b].status \in {"confirmed", "completed", "cancelled"} =>
                row.status \in {"confirmed", "completed", "cancelled"}
      BY <3>1 DEF Shift, Promotion, Cal!Follows, Cal!Held
    <3>. QED
      BY <2>2, <2>4, <3>2 DEF Happened, Exists
  <2>. QED
    BY <2>3, <2>4
<1>. QED
  BY <1>1, <1>2

\* No request is about to queue an email it was not about to queue before.
NoNewMail == /\ UNCHANGED mailed
             /\ \A s \in Requests : req'[s] = req[s] \/ req'[s].op # "mail"

\* The request r has made the transition that it is about to report.
NewMail(r) ==
    /\ UNCHANGED mailed
    /\ \A s \in Requests : s # r => req'[s] = req[s]
    /\ \E b \in Bookings, t \in Template :
          /\ req'[r].op = "mail" /\ req'[r].bk = b /\ req'[r].template = t
          /\ ~Happened(b, t) /\ Happened(b, t)'

LEMMA TransitionMail ==
    ASSUME IndInv, NEW r \in Requests, NEW b \in Exists, NEW matches, NEW row \in Row,
           NEW t \in Template, NEW told, Transition(r, b, matches, row, t, told),
           matches => /\ ~Happened(b, t)
                      /\ t = "BOOKING_APPROVED" => row.approved
                      /\ t = "BOOKING_CONFIRMED" => row.status = "confirmed"
                      /\ t \in {"BOOKING_REJECTED", "BOOKING_CANCELLED"} =>
                            row.status = "cancelled"
    PROVE  NoNewMail \/ NewMail(r)
<1>1. b \in Bookings /\ TypeOK
  BY ExistingRow DEF IndInv
<1>2. CASE ~(matches /\ rows[b].client \in Reachable)
  BY <1>1, <1>2 DEF Transition, Continue, TypeOK, NoNewMail, Idle
<1>3. CASE matches /\ rows[b].client \in Reachable
  <2>1. /\ rows' = [rows EXCEPT ![b] = row]
        /\ req' = [req EXCEPT ![r] = Mail(b, t, told, rows[b].status, rows[b].start)]
        /\ UNCHANGED mailed
    BY <1>3 DEF Transition, Continue
  <2>2. rows'[b] = row /\ row # Null
    BY <1>1, <2>1, BookingAssumption DEF TypeOK
  <2>3. Happened(b, t)'
    BY <1>1, <1>3, <2>2 DEF Happened, Exists
  <2>4. req'[r].op = "mail" /\ req'[r].bk = b /\ req'[r].template = t
    BY <1>1, <2>1 DEF TypeOK, Mail
  <2>5. \A s \in Requests : s # r => req'[s] = req[s]
    BY <1>1, <2>1 DEF TypeOK
  <2>. QED
    BY <1>1, <1>3, <2>1, <2>3, <2>4, <2>5 DEF NewMail
<1>. QED
  BY <1>2, <1>3

LEMMA HandleMail ==
    ASSUME IndInv, NEW r \in Requests, Handle(r)
    PROVE  NoNewMail \/ NewMail(r) \/ EnqueueMail(r)
<1>0. /\ TypeOK /\ req[r] \in Request
      /\ \A b \in Exists : b \in Bookings /\ rows[b] \in Row
  BY ExistingRow DEF IndInv, TypeOK
<1>1. ASSUME NEW q, Continue(r, q), q.op # "mail", UNCHANGED mailed
      PROVE  NoNewMail
  BY <1>0, <1>1 DEF Continue, NoNewMail, TypeOK
<1>2. CASE CreateBegin(r) \/ AdminCreateBegin(r)
  <2>1. ASSUME NEW pc, NEW row, NEW slot, NEW notify, Continue(r, Create(pc, row, slot, notify)),
               UNCHANGED mailed
        PROVE  NoNewMail
    BY <1>1, <2>1 DEF Create
  <2>2. CASE CreateBegin(r)
    BY <2>1, <2>2 DEF CreateBegin
  <2>3. CASE AdminCreateBegin(r)
    <3>1. /\ UNCHANGED mailed
          /\ \E row, slot, notify : \/ Continue(r, Create("insert", row, slot, notify))
                                    \/ Continue(r, Create("windows", row, slot, notify))
      BY <2>3 DEF AdminCreateBegin
    <3>. QED
      BY <2>1, <3>1
  <2>. QED
    BY <1>2, <2>2, <2>3
<1>3. CASE CreateCheckWindows(r) \/ EditCheckBookings(r) \/ EditCheckWindows(r)
             \/ AssertNoUnavailabilityConflict(r)
  <2>1. /\ UNCHANGED mailed /\ req[r].op # "mail"
        /\ \/ Continue(r, Idle)
           \/ \E pc : Continue(r, [req[r] EXCEPT !.pc = pc])
    BY <1>3 DEF CreateCheckWindows, EditCheckBookings, EditCheckWindows,
                AssertNoUnavailabilityConflict, At
  <2>2. \A pc : [req[r] EXCEPT !.pc = pc].op = req[r].op
    BY <1>0 DEF Request, Idle, Creating, Editing, Advancing, Rejecting, Blocking, Mailing
  <2>. QED
    BY <1>1, <2>1, <2>2 DEF Idle
<1>4. CASE CreateInsert(r)
  <2>1. req[r].row \in Row /\ UNCHANGED mailed
    BY <1>0, <1>4, RequestVariants DEF CreateInsert, At, Creating
  <2>. DEFINE recap(b) == Mail(b, "BOOKING_CONFIRMATION", req[r].row.start, Null,
                               req[r].row.start)
  <2>2. PICK b \in Bookings \ Exists :
          \/ Continue(r, Idle)
          \/ /\ rows' = [rows EXCEPT ![b] = req[r].row]
             /\ req' = [req EXCEPT ![r] = recap(b)]
    BY <1>4 DEF CreateInsert, Continue
  <2>3. CASE /\ rows' = [rows EXCEPT ![b] = req[r].row]
             /\ req' = [req EXCEPT ![r] = recap(b)]
    <3>1. b \in Exists'
      BY <1>0, <2>1, <2>3, BookingAssumption DEF TypeOK, Exists
    <3>2. ~Happened(b, "BOOKING_CONFIRMATION") /\ Happened(b, "BOOKING_CONFIRMATION")'
      BY <3>1 DEF Happened
    <3>3. /\ req'[r].op = "mail" /\ req'[r].bk = b
          /\ req'[r].template = "BOOKING_CONFIRMATION"
          /\ \A s \in Requests : s # r => req'[s] = req[s]
      BY <1>0, <2>3 DEF TypeOK, Mail
    <3>. QED
      BY <2>1, <3>2, <3>3 DEF NewMail, Template
  <2>. QED
    BY <1>1, <2>1, <2>2, <2>3 DEF Idle
<1>5. CASE EditBegin(r)
  <2>1. UNCHANGED mailed /\ \E q : Continue(r, q) /\ q.op = "edit"
    BY <1>5 DEF EditBegin, Edit
  <2>. QED
    BY <1>1, <2>1
<1>6. CASE AdvanceBegin(r) \/ RejectBegin(r) \/ BlockBegin(r)
  <2>1. CASE AdvanceBegin(r)
    BY <1>1, <2>1 DEF AdvanceBegin
  <2>2. CASE RejectBegin(r)
    BY <1>1, <2>2 DEF RejectBegin
  <2>3. CASE BlockBegin(r)
    BY <1>1, <2>3 DEF BlockBegin
  <2>. QED
    BY <1>6, <2>1, <2>2, <2>3
<1>7. CASE EditUpdate(r) \/ BlockInsert(r) \/ Abort(r)
  BY <1>1, <1>7 DEF EditUpdate, BlockInsert, Abort, Idle
<1>8. CASE MarkCompleted(r) \/ EditByClient(r) \/ Unblock(r)
  BY <1>8 DEF MarkCompleted, EditByClient, Unblock, NoNewMail
<1>9. CASE ApproveBooking(r)
  <2>. DEFINE b == req[r].bk
              row == [rows[b] EXCEPT !.status = "awaiting_deposit", !.approved = TRUE]
              matches == rows[b].status = "pending_validation" /\ ~rows[b].approved
  <2>1. b \in Exists
    BY <1>9 DEF ApproveBooking, At, IndInv, BookingsKnown
  <2>2. row \in Row /\ row.approved
    BY <1>0, <2>1 DEF Row, Status
  <2>3. Transition(r, b, matches, row, "BOOKING_APPROVED", Null)
    BY <1>9 DEF ApproveBooking
  <2>4. matches => ~Happened(b, "BOOKING_APPROVED")
    BY DEF Happened
  <2>. HIDE DEF b, row, matches
  <2>. QED
    BY <2>1, <2>2, <2>3, <2>4, TransitionMail DEF Template
<1>10. CASE MarkDepositPaid(r)
  <2>. DEFINE b == req[r].bk
              row == [rows[b] EXCEPT !.status = "confirmed"]
              matches == rows[b].status = "awaiting_deposit"
  <2>1. b \in Exists
    BY <1>10 DEF MarkDepositPaid, At, IndInv, BookingsKnown
  <2>2. row \in Row /\ row.status = "confirmed"
    BY <1>0, <2>1 DEF Row, Status
  <2>3. Transition(r, b, matches, row, "BOOKING_CONFIRMED", req[r].slot.from)
    BY <1>10 DEF MarkDepositPaid
  <2>4. matches => ~Happened(b, "BOOKING_CONFIRMED")
    BY DEF Happened
  <2>. HIDE DEF b, row, matches
  <2>. QED
    BY <2>1, <2>2, <2>3, <2>4, TransitionMail DEF Template
<1>11. CASE RejectBooking(r)
  <2>. DEFINE b == req[r].bk
              row == [rows[b] EXCEPT !.status = "cancelled"]
              matches == rows[b].status \in Active
              t == RejectTemplate(req[r].seen)
  <2>1. b \in Exists
    BY <1>11 DEF RejectBooking, At, IndInv, BookingsKnown
  <2>2. row \in Row /\ row.status = "cancelled"
    BY <1>0, <2>1 DEF Row, Status
  <2>3. Transition(r, b, matches, row, t, req[r].told)
    BY <1>11 DEF RejectBooking
  <2>4. t \in {"BOOKING_REJECTED", "BOOKING_CANCELLED"}
    BY DEF RejectTemplate
  <2>5. matches => ~Happened(b, t)
    BY <2>4 DEF Happened, Active
  <2>. HIDE DEF b, row, matches, t
  <2>. QED
    BY <2>1, <2>2, <2>3, <2>4, <2>5, TransitionMail DEF Template
<1>12. CASE CancelByClient(r)
  <2>1. PICK b \in Exists :
          /\ rows[b].status \in Active
          /\ Transition(r, b, TRUE, [rows[b] EXCEPT !.status = "cancelled"],
                        "BOOKING_CANCELLED", Null)
    BY <1>12 DEF CancelByClient
  <2>. DEFINE row == [rows[b] EXCEPT !.status = "cancelled"]
  <2>2. row \in Row /\ row.status = "cancelled"
    BY <1>0 DEF Row, Status
  <2>3. Transition(r, b, TRUE, row, "BOOKING_CANCELLED", Null)
    BY <2>1
  <2>4. ~Happened(b, "BOOKING_CANCELLED")
    BY <2>1 DEF Happened, Active
  <2>. HIDE DEF row
  <2>. QED
    BY <2>2, <2>3, <2>4, TransitionMail DEF Template
<1>. QED
  BY <1>2, <1>3, <1>4, <1>5, <1>6, <1>7, <1>8, <1>9, <1>10, <1>11, <1>12 DEF Handle

LEMMA InitMailsOnce == Init => MailsOnce
  BY DEF Init, MailsOnce, Announced, Queues, Idle, Template

LEMMA HandleMailsOnce ==
    ASSUME IndInv, MailsOnce, NEW r \in Requests, Handle(r)
    PROVE  MailsOnce'
<1>0. TypeOK
  BY DEF IndInv
<1>1. \A b \in Bookings, t \in Template : Happened(b, t) => Happened(b, t)'
  BY HappenedLasts, HandleRowStep
<1>2. CASE NoNewMail
  <2>1. \A b, t : \A s \in Requests : Queues(s, b, t)' => Queues(s, b, t)
    BY <1>2 DEF NoNewMail, Queues
  <2>2. \A b, t : Announced(b, t)' => Announced(b, t)
    BY <1>2, <2>1 DEF NoNewMail, Announced
  <2>. QED
    BY <1>1, <1>2, <2>1, <2>2 DEF MailsOnce, NoNewMail
<1>3. CASE NewMail(r)
  <2>1. PICK b \in Bookings, t \in Template :
          /\ req'[r].op = "mail" /\ req'[r].bk = b /\ req'[r].template = t
          /\ ~Happened(b, t) /\ Happened(b, t)'
    BY <1>3 DEF NewMail
  <2>2. UNCHANGED mailed /\ \A s \in Requests : s # r => req'[s] = req[s]
    BY <1>3 DEF NewMail
  <2>3. \A c, u : Queues(r, c, u)' <=> (c = b /\ u = t)
    BY <2>1 DEF Queues
  <2>4. \A s \in Requests : s # r => \A c, u : Queues(s, c, u)' <=> Queues(s, c, u)
    BY <2>2 DEF Queues
  <2>5. ~Announced(b, t)
    BY <2>1 DEF MailsOnce
  <2>6. \A c, u : Announced(c, u)' => (Announced(c, u) \/ (c = b /\ u = t))
    <3>1. ASSUME NEW c, NEW u, NEW s \in Requests, Queues(s, c, u)'
          PROVE  Queues(s, c, u) \/ (c = b /\ u = t)
      BY <2>3, <2>4, <3>1
    <3>. QED
      BY <2>2, <3>1 DEF Announced
  <2>7. ASSUME t \in {"BOOKING_REJECTED", "BOOKING_CANCELLED"}
        PROVE  ~Announced(b, "BOOKING_REJECTED") /\ ~Announced(b, "BOOKING_CANCELLED")
    <3>1. ~Happened(b, "BOOKING_REJECTED") /\ ~Happened(b, "BOOKING_CANCELLED")
      BY <2>1, <2>7 DEF Happened
    <3>. QED
      BY <3>1 DEF MailsOnce, Template
  <2>8. ASSUME NEW c \in Bookings, NEW u \in Template
        PROVE  /\ mailed'[c][u] <= 1
               /\ Announced(c, u)' => Happened(c, u)'
    BY <1>1, <2>1, <2>2, <2>6 DEF MailsOnce
  <2>9. ASSUME NEW c \in Bookings, NEW u \in Template, NEW p \in Requests,
               NEW q \in Requests, Queues(p, c, u)'
        PROVE  mailed'[c][u] = 0 /\ (Queues(q, c, u)' => p = q)
    <3>1. CASE c = b /\ u = t
      BY <2>2, <2>3, <2>4, <2>5, <2>9, <3>1 DEF Announced
    <3>2. CASE ~(c = b /\ u = t)
      BY <2>2, <2>3, <2>4, <2>9, <3>2 DEF MailsOnce
    <3>. QED
      BY <3>1, <3>2
  <2>10. \A c \in Bookings :
            ~(Announced(c, "BOOKING_REJECTED")' /\ Announced(c, "BOOKING_CANCELLED")')
    BY <2>6, <2>7 DEF MailsOnce
  <2>. QED
    BY <2>8, <2>9, <2>10 DEF MailsOnce
<1>4. CASE EnqueueMail(r)
  <2>1. req[r] \in Mailing
    BY <1>0, <1>4, RequestVariants DEF EnqueueMail, TypeOK
  <2>2. PICK b \in Bookings, t \in Template : b = req[r].bk /\ t = req[r].template
    BY <2>1 DEF Mailing
  <2>3. /\ mailed' = [mailed EXCEPT ![b][t] = @ + 1]
        /\ req' = [req EXCEPT ![r] = Idle]
    BY <1>4, <2>2 DEF EnqueueMail, Continue
  <2>4. Queues(r, b, t)
    BY <1>4, <2>2 DEF EnqueueMail, Queues
  <2>5. \A c, u : \A s \in Requests : Queues(s, c, u)' <=> (s # r /\ Queues(s, c, u))
    BY <1>0, <2>3 DEF TypeOK, Queues, Idle
  <2>6. /\ mailed[b][t] = 0 /\ mailed'[b][t] = 1
        /\ \A c \in Bookings, u \in Template :
              ~(c = b /\ u = t) => mailed'[c][u] = mailed[c][u]
    <3>1. mailed[b][t] = 0
      BY <2>4 DEF MailsOnce
    <3>. QED
      BY <1>0, <2>3, <3>1 DEF TypeOK
  <2>7. Announced(b, t)
    BY <2>4 DEF Announced
  <2>8. \A c \in Bookings, u \in Template : Announced(c, u)' => Announced(c, u)
    BY <2>5, <2>6, <2>7 DEF Announced
  <2>9. \A s \in Requests : ~Queues(s, b, t)'
    BY <2>4, <2>5 DEF MailsOnce
  <2>10. ASSUME NEW c \in Bookings, NEW u \in Template
         PROVE  /\ mailed'[c][u] <= 1
                /\ Announced(c, u)' => Happened(c, u)'
                /\ \A p, q \in Requests : Queues(p, c, u)' =>
                      mailed'[c][u] = 0 /\ (Queues(q, c, u)' => p = q)
    <3>1. CASE c = b /\ u = t
      BY <1>1, <2>6, <2>8, <2>9, <3>1 DEF MailsOnce
    <3>2. CASE ~(c = b /\ u = t)
      BY <1>1, <2>5, <2>6, <2>8, <3>2 DEF MailsOnce
    <3>. QED
      BY <3>1, <3>2
  <2>11. \A c \in Bookings :
            ~(Announced(c, "BOOKING_REJECTED")' /\ Announced(c, "BOOKING_CANCELLED")')
    BY <2>8 DEF MailsOnce, Template
  <2>. QED
    BY <2>10, <2>11 DEF MailsOnce
<1>. QED
  BY <1>2, <1>3, <1>4, HandleMail

LEMMA NextMailsOnce == IndInv /\ MailsOnce /\ [Next]_vars => MailsOnce'
<1>1. ASSUME MailsOnce, Tick \/ UNCHANGED vars PROVE MailsOnce'
  BY <1>1 DEF Tick, vars, MailsOnce, Announced, Happened, Queues, Exists
<1>2. ASSUME IndInv, MailsOnce, NEW r \in Requests, Handle(r) PROVE MailsOnce'
  BY <1>2, HandleMailsOnce
<1>. QED
  BY <1>1, <1>2 DEF Next

\* Emails under way count at most once, so the number told is 0 or 1.
LEMMA ToldOnce ==
    ASSUME TypeOK, MailsOnce, NEW b \in Bookings, NEW t \in Template
    PROVE  /\ Told(b, t) \in {0, 1}
           /\ Told(b, t) = 1 <=> Announced(b, t)
<1>. DEFINE Q == {r \in Requests : Queues(r, b, t)}
<1>1. mailed[b][t] \in {0, 1}
  <2>1. mailed[b][t] \in Nat
    BY DEF TypeOK
  <2>2. mailed[b][t] <= 1
    BY DEF MailsOnce
  <2>. QED
    BY <2>1, <2>2
<1>2. CASE Q = {}
  BY <1>1, <1>2, FS_EmptySet DEF Told, Announced
<1>3. CASE Q # {}
  <2>1. PICK r \in Q : TRUE
    BY <1>3
  <2>2. Q = {r} /\ mailed[b][t] = 0
    BY <2>1 DEF MailsOnce
  <2>3. Cardinality(Q) = 1
    BY <2>2, FS_Singleton
  <2>. QED
    BY <2>1, <2>2, <2>3 DEF Told, Announced
<1>. QED
  BY <1>2, <1>3

\* A client gets at most one email per transition, and none for one that did not
\* happen, however many requests race and wherever they stop.
THEOREM MailedOnce == Spec => []MailsMatchTransitions
<1>1. IndInv /\ MailsOnce => MailsMatchTransitions
  <2>1. SUFFICES ASSUME IndInv, MailsOnce, NEW b \in Bookings
                 PROVE  LET ended == Told(b, "BOOKING_REJECTED") + Told(b, "BOOKING_CANCELLED")
                        IN  /\ \A t \in Template : Told(b, t) <= 1
                            /\ ended <= 1
                            /\ Told(b, "BOOKING_APPROVED") = 1 => b \in Exists /\ rows[b].approved
                            /\ Told(b, "BOOKING_CONFIRMED") = 1 =>
                                  b \in Exists
                                  /\ rows[b].status \in {"confirmed", "completed", "cancelled"}
                            /\ ended = 1 => b \in Exists /\ rows[b].status = "cancelled"
    BY DEF MailsMatchTransitions
  <2>2. ASSUME NEW t \in Template
        PROVE  /\ Told(b, t) \in {0, 1}
               /\ Told(b, t) = 1 <=> Announced(b, t)
    <3>1. TypeOK
      BY <2>1 DEF IndInv
    <3>. QED
      BY <2>1, <2>2, <3>1, ToldOnce
  <2>3. ASSUME NEW t \in Template, Told(b, t) = 1
        PROVE  Happened(b, t)
    BY <2>1, <2>2, <2>3 DEF MailsOnce
  <2>4. ~(Told(b, "BOOKING_REJECTED") = 1 /\ Told(b, "BOOKING_CANCELLED") = 1)
    BY <2>1, <2>2 DEF MailsOnce, Template
  <2>5. {"BOOKING_REJECTED", "BOOKING_CANCELLED", "BOOKING_APPROVED", "BOOKING_CONFIRMED"}
            \subseteq Template
    BY DEF Template
  <2>. QED
    BY <2>2, <2>3, <2>4, <2>5 DEF Happened
<1>. QED
  BY <1>1, InitMailsOnce, NextMailsOnce, Invariance, PTL DEF Spec

-----------------------------------------------------------------------------
\* Requests that read before they write: what was read is still so when the write
\* comes, unless the request was overtaken.

\* The email that q is about to queue is what MailFits says.
Fits(q) ==
    q.op = "mail" =>
        /\ q.told \in {q.date, Null}
        /\ q.template = "BOOKING_REJECTED" => q.was = "pending_validation"

\* The operations that read a booking first.
Reads == {"edit", "approve", "deposit", "reject"}

\* The steps in which a handler goes on to its next statement.
GoesOn(r) ==
    CreateCheckWindows(r) \/ EditCheckBookings(r) \/ EditCheckWindows(r)
    \/ AssertNoUnavailabilityConflict(r)

\* q is what r has left to do after such a step: it keeps what it has read.
Onwards(r, q) ==
    /\ q.op = req[r].op /\ q.pc # req[r].pc
    /\ q.op \in {"create", "edit", "approve", "deposit"}
    /\ q.op = "edit" => q.bk = req[r].bk /\ q.patch = req[r].patch
    /\ q.op \in {"approve", "deposit"} =>
          q.bk = req[r].bk /\ q.slot = req[r].slot /\ ~Blocked(q.slot)

LEMMA OnwardsTo ==
    ASSUME TypeOK, NEW r \in Requests, NEW pc, pc # req[r].pc,
           req[r].op \in {"create", "edit", "approve", "deposit"},
           req[r].op \in {"approve", "deposit"} => ~Blocked(req[r].slot)
    PROVE  Onwards(r, [req[r] EXCEPT !.pc = pc])
<1>1. PICK q : q = [req[r] EXCEPT !.pc = pc]
  OBVIOUS
<1>2. req[r] \in Creating \cup Editing \cup Advancing
  BY RequestVariants DEF TypeOK
<1>3. /\ q.op = req[r].op /\ q.pc = pc
      /\ q.op = "edit" => q.bk = req[r].bk /\ q.patch = req[r].patch
      /\ q.op \in {"approve", "deposit"} => q.bk = req[r].bk /\ q.slot = req[r].slot
  BY <1>1, <1>2 DEF Creating, Editing, Advancing
<1>4. Onwards(r, q)
  BY <1>3 DEF Onwards
<1>. QED
  BY <1>1, <1>4

LEMMA GoesOnSame ==
    ASSUME TypeOK, NEW r \in Requests, GoesOn(r)
    PROVE  /\ UNCHANGED <<rows, off>>
           /\ \E q : Continue(r, q) /\ (q = Idle \/ Onwards(r, q))
<1>1. UNCHANGED <<rows, off>>
  BY DEF GoesOn, CreateCheckWindows, EditCheckBookings, EditCheckWindows,
         AssertNoUnavailabilityConflict
<1>2. \/ Continue(r, Idle)
      \/ \E pc : /\ Continue(r, [req[r] EXCEPT !.pc = pc])
                 /\ pc # req[r].pc
                 /\ req[r].op \in {"create", "edit", "approve", "deposit"}
                 /\ req[r].op \in {"approve", "deposit"} => ~Blocked(req[r].slot)
  <2>1. CASE CreateCheckWindows(r)
    BY <2>1 DEF CreateCheckWindows, At
  <2>2. CASE EditCheckBookings(r)
    BY <2>2 DEF EditCheckBookings, At
  <2>3. CASE EditCheckWindows(r)
    BY <2>3 DEF EditCheckWindows, At
  <2>4. CASE AssertNoUnavailabilityConflict(r)
    BY <2>4 DEF AssertNoUnavailabilityConflict
  <2>. QED
    BY <2>1, <2>2, <2>3, <2>4 DEF GoesOn
<1>. QED
  BY <1>1, <1>2, OnwardsTo

\* The steps that end a handler or take it past its write.
Concludes(r) ==
    EditUpdate(r) \/ BlockInsert(r) \/ EnqueueMail(r) \/ Abort(r) \/ CreateInsert(r)
    \/ ApproveBooking(r) \/ MarkDepositPaid(r) \/ RejectBooking(r) \/ CancelByClient(r)

LEMMA ConcludesSo ==
    ASSUME NEW r \in Requests, Concludes(r)
    PROVE  \E q : Continue(r, q) /\ q.op \in {"none", "mail"}
<1>1. Idle.op = "none"
  BY DEF Idle
<1>2. \A b, t, told, was, date : Mail(b, t, told, was, date).op = "mail"
  BY DEF Mail
<1>3. ASSUME NEW b, NEW matches, NEW row, NEW t, NEW told, Transition(r, b, matches, row, t, told)
      PROVE  \E q : Continue(r, q) /\ q.op \in {"none", "mail"}
  BY <1>1, <1>2, <1>3 DEF Transition
<1>4. CASE ApproveBooking(r)
  BY <1>3, <1>4 DEF ApproveBooking
<1>5. CASE MarkDepositPaid(r)
  BY <1>3, <1>5 DEF MarkDepositPaid
<1>6. CASE RejectBooking(r)
  BY <1>3, <1>6 DEF RejectBooking
<1>7. CASE CancelByClient(r)
  BY <1>3, <1>7 DEF CancelByClient
<1>8. CASE CreateInsert(r)
  <2>1. \E b, date : \/ Continue(r, Idle)
                     \/ Continue(r, Mail(b, "BOOKING_CONFIRMATION", date, Null, date))
    BY <1>8 DEF CreateInsert
  <2>. QED
    BY <1>1, <1>2, <2>1
<1>9. CASE EditUpdate(r) \/ BlockInsert(r) \/ EnqueueMail(r) \/ Abort(r)
  BY <1>1, <1>9 DEF EditUpdate, BlockInsert, EnqueueMail, Abort
<1>. QED
  BY <1>4, <1>5, <1>6, <1>7, <1>8, <1>9 DEF Concludes

\* The steps that take up an operation that reads no booking.
LEMMA BeginsOther ==
    ASSUME NEW r \in Requests, CreateBegin(r) \/ AdminCreateBegin(r) \/ BlockBegin(r)
    PROVE  \E q : Continue(r, q) /\ q.op \in {"create", "block"}
<1>1. \A pc, row, slot, notify : Create(pc, row, slot, notify).op = "create"
  BY DEF Create
<1>2. CASE CreateBegin(r)
  BY <1>1, <1>2 DEF CreateBegin
<1>3. CASE AdminCreateBegin(r)
  <2>1. \E pc, row, slot, notify : Continue(r, Create(pc, row, slot, notify))
    BY <1>3 DEF AdminCreateBegin
  <2>. QED
    BY <1>1, <2>1
<1>4. CASE BlockBegin(r)
  BY <1>4 DEF BlockBegin
<1>. QED
  BY <1>2, <1>3, <1>4

\* The steps that take up an operation that reads a booking first.
LEMMA BeginsReading ==
    ASSUME NEW r \in Requests, EditBegin(r) \/ AdvanceBegin(r) \/ RejectBegin(r)
    PROVE  /\ UNCHANGED rows
           /\ \E q : /\ Continue(r, q) /\ RowRead(q) /\ q.op \in Reads
                     /\ q.op \in {"approve", "deposit"} => q.pc = "windows"
<1>1. CASE EditBegin(r)
  <2>1. PICK b, p, pc, slot :
          /\ DepositFits(Coalesce(p.deposit, rows[b].deposit), Coalesce(p.total, rows[b].total))
          /\ Continue(r, Edit(pc, b, p, slot))
    BY <1>1 DEF EditBegin
  <2>2. PICK q : q = Edit(pc, b, p, slot)
    OBVIOUS
  <2>3. q.op = "edit" /\ q.bk = b /\ q.patch = p
    BY <2>2 DEF Edit
  <2>. QED
    BY <1>1, <2>1, <2>2, <2>3 DEF EditBegin, RowRead, Reads
<1>2. CASE AdvanceBegin(r)
  <2>1. PICK b \in Exists, op \in {"approve", "deposit"} :
          Continue(r, [op |-> op, pc |-> "windows", bk |-> b, slot |-> Slot(rows[b])])
    BY <1>2 DEF AdvanceBegin
  <2>2. PICK q : q = [op |-> op, pc |-> "windows", bk |-> b, slot |-> Slot(rows[b])]
    OBVIOUS
  <2>3. /\ q.op \in {"approve", "deposit"} /\ q.pc = "windows"
        /\ q.bk = b /\ q.slot = Slot(rows[b])
    BY <2>2
  <2>. QED
    BY <1>2, <2>1, <2>2, <2>3 DEF AdvanceBegin, RowRead, Reads
<1>3. CASE RejectBegin(r)
  <2>1. PICK b, told :
          /\ told \in {rows[b].start, Null}
          /\ Continue(r, [op |-> "reject", pc |-> "update", bk |-> b,
                          seen |-> rows[b].status, told |-> told])
    BY <1>3 DEF RejectBegin
  <2>2. PICK q : q = [op |-> "reject", pc |-> "update", bk |-> b,
                      seen |-> rows[b].status, told |-> told]
    OBVIOUS
  <2>3. q.op = "reject" /\ q.bk = b /\ q.seen = rows[b].status /\ q.told = told
    BY <2>2
  <2>. QED
    BY <1>3, <2>1, <2>2, <2>3 DEF RejectBegin, RowRead, Reads
<1>. QED
  BY <1>1, <1>2, <1>3

\* Every step of a request is of one of these kinds, or is one statement that
\* leaves no work behind.
LEMMA HandleKinds ==
    ASSUME NEW r \in Requests, Handle(r)
    PROVE  \/ GoesOn(r) \/ Concludes(r)
           \/ CreateBegin(r) \/ AdminCreateBegin(r) \/ BlockBegin(r)
           \/ EditBegin(r) \/ AdvanceBegin(r) \/ RejectBegin(r)
           \/ req[r] = Idle /\ UNCHANGED req
  BY DEF Handle, GoesOn, Concludes, MarkCompleted, EditByClient, Unblock

\* What a request has read holds after its own step.
LEMMA HandleReads ==
    ASSUME TypeOK, NEW r \in Requests, Handle(r), RowRead(req[r])
    PROVE  RowRead(req[r])' /\ (Advances(r)' => ~Blocked(req[r].slot)')
<1>1. \A q : Continue(r, q) => req'[r] = q
  BY DEF Continue, TypeOK
<1>2. CASE GoesOn(r)
  <2>1. CASE Continue(r, Idle)
    BY <1>1, <2>1 DEF Idle, RowRead, Advances
  <2>2. ASSUME NEW q, Continue(r, q), Onwards(r, q)
        PROVE  RowRead(req[r])' /\ (Advances(r)' => ~Blocked(req[r].slot)')
    <3>1. UNCHANGED <<rows, off>>
      BY <1>2, GoesOnSame
    <3>2. RowRead(req[r])'
      BY <1>1, <2>2, <3>1 DEF RowRead, Slot, Onwards
    <3>3. Advances(r)' => ~Blocked(req[r].slot)'
      BY <1>1, <2>2, <3>1 DEF Onwards, Advances, Blocked
    <3>. QED
      BY <3>2, <3>3
  <2>. QED
    BY <1>2, <2>1, <2>2, GoesOnSame
<1>3. CASE Concludes(r)
  BY <1>1, <1>3, ConcludesSo DEF RowRead, Advances
<1>4. CASE CreateBegin(r) \/ AdminCreateBegin(r) \/ BlockBegin(r)
  BY <1>1, <1>4, BeginsOther DEF RowRead, Advances
<1>5. CASE EditBegin(r) \/ AdvanceBegin(r) \/ RejectBegin(r)
  <2>1. UNCHANGED rows /\ RowRead(req'[r]) /\ ~Advances(r)'
    BY <1>1, <1>5, BeginsReading DEF Advances
  <2>. QED
    BY <2>1 DEF RowRead, Slot
<1>6. CASE req[r] = Idle /\ UNCHANGED req
  BY <1>6 DEF Idle, RowRead, Advances
<1>. QED
  BY <1>2, <1>3, <1>4, <1>5, <1>6, HandleKinds

\* A request takes only itself on.
LEMMA HandleOwn ==
    ASSUME TypeOK, NEW r \in Requests, Handle(r), NEW s \in Requests, req'[s] # req[s]
    PROVE  s = r
<1>1. \A q : Continue(r, q) => \A t \in Requests : t # r => req'[t] = req[t]
  BY DEF Continue, TypeOK
<1>2. UNCHANGED req \/ \E q : Continue(r, q)
  BY HandleKinds, GoesOnSame, ConcludesSo, BeginsOther, BeginsReading
<1>. QED
  BY <1>1, <1>2

\* What others have read holds after a step that does not overtake them.
LEMMA OthersRead ==
    ASSUME NEW s \in Requests, req'[s] = req[s], LastRead(s)' = LastRead(s),
           RowRead(req[s]), Advances(s) => ~Blocked(req[s].slot)
    PROVE  RowRead(req[s])' /\ (Advances(s)' => ~Blocked(req[s].slot)')
<1>. DEFINE b == req[s].bk
<1>1. CASE req[s].op = "edit"
  <2>1. rows'[b].total = rows[b].total /\ rows'[b].deposit = rows[b].deposit
    BY <1>1 DEF LastRead
  <2>. QED
    BY <1>1, <2>1 DEF RowRead, Advances
<1>2. CASE req[s].op \in {"approve", "deposit"}
  <2>1. /\ Slot(rows[b])' = Slot(rows[b])
        /\ (Advances(s) /\ Blocked(req[s].slot))' <=> Advances(s) /\ Blocked(req[s].slot)
    BY <1>2, Zenon DEF LastRead
  <2>. QED
    BY <1>2, <2>1 DEF RowRead
<1>3. CASE req[s].op = "reject"
  <2>1. rows'[b].status = rows[b].status /\ rows'[b].start = rows[b].start
    BY <1>3 DEF LastRead
  <2>. QED
    BY <1>3, <2>1 DEF RowRead, Advances
<1>4. CASE req[s].op \notin {"edit", "approve", "deposit", "reject"}
  BY <1>4 DEF RowRead, Advances
<1>. QED
  BY <1>1, <1>2, <1>3, <1>4

\* A request at work that is not overtaken after a step was not before, nor by it.
LEMMA NotOvertaken ==
    ASSUME RecordOvertaken, NEW s \in Requests, s \notin overtaken'
    PROVE  /\ req'[s] # Idle => s \notin overtaken
           /\ req'[s] = req[s] => LastRead(s)' = LastRead(s)
  BY DEF RecordOvertaken

LEMMA NextReads ==
    ASSUME TypeOK, ReadsHold, [Next]_vars
    PROVE  ReadsHold'
<1>. SUFFICES ASSUME NEW s \in Requests, s \notin overtaken'
              PROVE  RowRead(req[s])' /\ (Advances(s)' => ~Blocked(req[s].slot)')
  BY DEF ReadsHold
<1>1. CASE req'[s] = Idle
  BY <1>1 DEF RowRead, Advances, Idle
<1>2. CASE UNCHANGED vars
  BY <1>2 DEF vars, ReadsHold, RowRead, Slot, Advances, Blocked
<1>3. ASSUME RecordOvertaken, req'[s] # Idle
      PROVE  /\ RowRead(req[s]) /\ (Advances(s) => ~Blocked(req[s].slot))
             /\ req'[s] = req[s] => LastRead(s)' = LastRead(s)
  BY <1>3, NotOvertaken DEF ReadsHold
<1>4. CASE Tick
  BY <1>1, <1>3, <1>4, OthersRead DEF Tick
<1>5. ASSUME NEW r \in Requests, Handle(r)
      PROVE  RowRead(req[s])' /\ (Advances(s)' => ~Blocked(req[s].slot)')
  <2>1. RecordOvertaken
    BY <1>5, HandleRecords
  <2>2. CASE req'[s] = req[s]
    BY <1>1, <1>3, <2>1, <2>2, OthersRead
  <2>3. CASE req'[s] # req[s]
    <3>1. s = r
      BY <1>5, <2>3, HandleOwn
    <3>. QED
      BY <1>1, <1>3, <1>5, <2>1, <3>1, HandleReads
  <2>. QED
    BY <2>2, <2>3
<1>. QED
  BY <1>2, <1>4, <1>5 DEF Next

\* The email that reports a transition fits it, if what was read still holds.
LEMMA TransitionFits ==
    ASSUME NEW r \in Requests, NEW b, NEW matches, NEW row, NEW t, NEW told,
           Transition(r, b, matches, row, t, told),
           matches => told \in {rows[b].start, Null},
           matches /\ t = "BOOKING_REJECTED" => rows[b].status = "pending_validation"
    PROVE  \E q : Continue(r, q) /\ Fits(q)
<1>1. CASE ~(matches /\ rows[b].client \in Reachable)
  BY <1>1 DEF Transition, Idle, Fits
<1>2. CASE matches /\ rows[b].client \in Reachable
  BY <1>2 DEF Transition, Mail, Fits
<1>. QED
  BY <1>1, <1>2

LEMMA ConcludesFits ==
    ASSUME NEW r \in Requests, Concludes(r),
           RowRead(req[r])
    PROVE  \E q : Continue(r, q) /\ Fits(q)
<1>1. CASE ApproveBooking(r)
  BY <1>1, TransitionFits DEF ApproveBooking
<1>2. CASE MarkDepositPaid(r)
  <2>1. req[r].slot.from = rows[req[r].bk].start
    BY <1>2 DEF MarkDepositPaid, At, RowRead, Slot
  <2>. QED
    BY <1>2, <2>1, TransitionFits DEF MarkDepositPaid
<1>3. CASE RejectBooking(r)
  <2>1. /\ req[r].seen = rows[req[r].bk].status
        /\ req[r].told \in {rows[req[r].bk].start, Null}
    BY <1>3 DEF RejectBooking, At, RowRead
  <2>2. RejectTemplate(req[r].seen) = "BOOKING_REJECTED" =>
           rows[req[r].bk].status = "pending_validation"
    BY <2>1 DEF RejectTemplate
  <2>. QED
    BY <1>3, <2>1, <2>2, TransitionFits DEF RejectBooking
<1>4. CASE CancelByClient(r)
  BY <1>4, TransitionFits DEF CancelByClient
<1>5. CASE CreateInsert(r)
  <2>1. PICK b, date : \/ Continue(r, Idle)
                       \/ Continue(r, Mail(b, "BOOKING_CONFIRMATION", date, Null, date))
    BY <1>5 DEF CreateInsert
  <2>2. Fits(Idle) /\ Fits(Mail(b, "BOOKING_CONFIRMATION", date, Null, date))
    BY DEF Idle, Mail, Fits
  <2>. QED
    BY <2>1, <2>2
<1>6. CASE EditUpdate(r) \/ BlockInsert(r) \/ EnqueueMail(r) \/ Abort(r)
  BY <1>6 DEF EditUpdate, BlockInsert, EnqueueMail, Abort, Idle, Fits
<1>. QED
  BY <1>1, <1>2, <1>3, <1>4, <1>5, <1>6 DEF Concludes

LEMMA NextFits ==
    ASSUME TypeOK, MailFits, ReadsHold, [Next]_vars
    PROVE  MailFits'
<1>. SUFFICES ASSUME NEW s \in Requests, s \notin overtaken'
              PROVE  Fits(req'[s])
  BY DEF MailFits, Fits
<1>1. CASE req'[s] = Idle
  BY <1>1 DEF Fits, Idle
<1>2. ASSUME s \notin overtaken, req'[s] = req[s]
      PROVE  Fits(req'[s])
  BY <1>2 DEF MailFits, Fits
<1>3. CASE UNCHANGED vars
  BY <1>2, <1>3 DEF vars
<1>4. CASE Tick
  BY <1>1, <1>2, <1>4, NotOvertaken DEF Tick
<1>5. ASSUME NEW r \in Requests, Handle(r), req'[s] # Idle, req'[s] # req[s]
      PROVE  Fits(req'[s])
  <2>1. s = r
    BY <1>5, HandleOwn
  <2>2. s \notin overtaken
    BY <1>5, HandleRecords, NotOvertaken
  <2>3. \A q : Continue(r, q) => req'[r] = q
    BY DEF Continue, TypeOK
  <2>4. CASE GoesOn(r)
    <3>1. req'[r] = Idle \/ Onwards(r, req'[r])
      BY <2>3, <2>4, GoesOnSame
    <3>. QED
      BY <2>1, <3>1 DEF Fits, Idle, Onwards
  <2>5. CASE Concludes(r)
    BY <2>1, <2>2, <2>3, <2>5, ConcludesFits DEF ReadsHold
  <2>6. CASE CreateBegin(r) \/ AdminCreateBegin(r) \/ BlockBegin(r)
    BY <2>1, <2>3, <2>6, BeginsOther DEF Fits
  <2>7. CASE EditBegin(r) \/ AdvanceBegin(r) \/ RejectBegin(r)
    BY <2>1, <2>3, <2>7, BeginsReading DEF Fits, Reads
  <2>. QED
    BY <1>5, <2>1, <2>4, <2>5, <2>6, <2>7, HandleKinds
<1>6. ASSUME NEW r \in Requests, Handle(r), req'[s] # Idle, req'[s] = req[s]
      PROVE  Fits(req'[s])
  BY <1>2, <1>6, HandleRecords, NotOvertaken
<1>. QED
  BY <1>1, <1>3, <1>4, <1>5, <1>6 DEF Next

LEMMA InitReads == Init => ReadsHold /\ MailFits
  BY DEF Init, Advances, ReadsHold, RowRead, MailFits, Idle

\* Only the two routes that advance a booking give an existing row a status that
\* commits it, and only admin's edits change what the deposit is measured by.
ClashIsLate(b) ==
    /\ rows'[b].status # rows[b].status
    /\ rows'[b].status \in Committed
    /\ Blocked(Slot(rows'[b]))
    => WrittenLate(b, {"approve", "deposit"})

OverdraftIsLate(b) ==
    /\ rows[b].deposit <= rows[b].total
    /\ rows'[b].deposit > rows'[b].total
    => WrittenLate(b, {"edit"})

LEMMA HandleWrites ==
    ASSUME IndInv, ReadsHold, NEW r \in Requests, Handle(r), NEW b \in Exists
    PROVE  ClashIsLate(b) /\ OverdraftIsLate(b)
<1>0. /\ TypeOK /\ req[r] \in Request /\ b \in Bookings
      /\ \A c \in Exists : c \in Bookings /\ rows[c] \in Row
  BY ExistingRow DEF IndInv, TypeOK
<1>. rows[b].deposit \in Nat /\ rows[b].total \in Nat
  <2>1. rows[b] \in Row
    BY <1>0
  <2>. QED
    BY <2>1 DEF Row
<1>1. CASE rows'[b] = rows[b]
  BY <1>1 DEF ClashIsLate, OverdraftIsLate
<1>12. Concludes(r) => req'[r].op \in {"none", "mail"}
  BY <1>0, ConcludesSo DEF Continue, TypeOK
<1>2. ASSUME NEW c \in Exists, NEW row, NEW matches, NEW t, NEW told,
             Transition(r, c, matches, row, t, told),
             row.deposit = rows[c].deposit, row.total = rows[c].total,
             matches /\ row.status \in Committed /\ Blocked(Slot(row))
               => WrittenLate(c, {"approve", "deposit"})
      PROVE  ClashIsLate(b) /\ OverdraftIsLate(b)
  <2>1. rows'[b] = rows[b] \/ (rows'[b] = row /\ matches /\ b = c)
    BY <1>0, <1>2 DEF Transition, TypeOK
  <2>. QED
    BY <1>2, <2>1 DEF ClashIsLate, OverdraftIsLate
<1>3. CASE ApproveBooking(r) \/ MarkDepositPaid(r)
  <2>. DEFINE c == req[r].bk
              approved == [rows[c] EXCEPT !.status = "awaiting_deposit", !.approved = TRUE]
              paid == [rows[c] EXCEPT !.status = "confirmed"]
  <2>1. /\ c \in Exists /\ req[r].op \in {"approve", "deposit"}
        /\ Advances(r)
    BY <1>3 DEF ApproveBooking, MarkDepositPaid, At, Advances, IndInv, BookingsKnown
  <2>5. Blocked(Slot(rows[c])) => WrittenLate(c, {"approve", "deposit"})
    <3>1. CASE r \in overtaken
      <4>1. req'[r] # req[r]
        BY <1>3, <1>12, <2>1 DEF Concludes
      <4>. QED
        BY <2>1, <3>1, <4>1 DEF WrittenLate
    <3>2. CASE r \notin overtaken
      BY <2>1, <3>2 DEF ReadsHold, RowRead
    <3>. QED
      BY <3>1, <3>2
  <2>2. /\ approved.deposit = rows[c].deposit /\ approved.total = rows[c].total
        /\ paid.deposit = rows[c].deposit /\ paid.total = rows[c].total
    BY <1>0, <2>1 DEF Row
  <2>3. Slot(approved) = Slot(rows[c]) /\ Slot(paid) = Slot(rows[c])
    BY <1>0, <2>1 DEF Row, Slot
  <2>4. \E matches, t, told : \/ Transition(r, c, matches, approved, t, told)
                              \/ Transition(r, c, matches, paid, t, told)
    BY <1>3 DEF ApproveBooking, MarkDepositPaid
  <2>. HIDE DEF c, approved, paid
  <2>. QED
    BY <1>2, <2>1, <2>2, <2>3, <2>4, <2>5
<1>4. ASSUME NEW c \in Exists, NEW matches, NEW t, NEW told,
             Transition(r, c, matches, [rows[c] EXCEPT !.status = "cancelled"], t, told)
      PROVE  ClashIsLate(b) /\ OverdraftIsLate(b)
  <2>. DEFINE row == [rows[c] EXCEPT !.status = "cancelled"]
  <2>1. /\ row.deposit = rows[c].deposit /\ row.total = rows[c].total
        /\ row.status \notin Committed
    BY <1>0 DEF Row, Committed
  <2>2. Transition(r, c, matches, row, t, told)
    BY <1>4
  <2>. HIDE DEF row
  <2>. QED
    BY <1>2, <2>1, <2>2
<1>5. CASE RejectBooking(r)
  <2>1. req[r].bk \in Exists
    BY <1>5 DEF RejectBooking, At, IndInv, BookingsKnown
  <2>. QED
    BY <1>4, <1>5, <2>1 DEF RejectBooking
<1>6. CASE CancelByClient(r)
  BY <1>4, <1>6 DEF CancelByClient
<1>7. CASE CreateInsert(r)
  BY <1>0, <1>1, <1>7 DEF CreateInsert, TypeOK
<1>8. CASE MarkCompleted(r)
  <2>1. PICK c \in Exists :
          rows' = [rows EXCEPT ![c].status = "completed", ![c].paid = TRUE]
    BY <1>8 DEF MarkCompleted
  <2>2. CASE b # c
    BY <1>0, <1>1, <2>1, <2>2 DEF TypeOK
  <2>3. CASE b = c
    <3>1. rows'[b] = [rows[b] EXCEPT !.status = "completed", !.paid = TRUE]
      BY <1>0, <2>1, <2>3 DEF TypeOK
    <3>2. /\ rows'[b].status = "completed"
          /\ rows'[b].deposit = rows[b].deposit /\ rows'[b].total = rows[b].total
      BY <1>0, <3>1 DEF Row
    <3>. QED
      BY <3>2 DEF Committed, ClashIsLate, OverdraftIsLate
  <2>. QED
    BY <2>2, <2>3
<1>9. CASE EditByClient(r)
  <2>1. PICK c, s, h, p :
          /\ c \in Exists
          /\ rows' = [rows EXCEPT ![c] = Edited(rows[c], s, h, p)]
    BY <1>9 DEF EditByClient
  <2>2. CASE b # c
    BY <1>0, <1>1, <2>1, <2>2 DEF TypeOK
  <2>3. CASE b = c
    <3>1. rows'[b] = Edited(rows[b], s, h, p)
      BY <1>0, <2>1, <2>3 DEF TypeOK
    <3>2. /\ rows'[b].status = rows[b].status
          /\ rows'[b].deposit = rows[b].deposit /\ rows'[b].total = rows[b].total
      BY <1>0, <3>1 DEF Edited, Row
    <3>. QED
      BY <3>2 DEF ClashIsLate, OverdraftIsLate
  <2>. QED
    BY <2>2, <2>3
<1>10. CASE EditUpdate(r)
  <2>1. PICK c, p : /\ c = req[r].bk /\ p = req[r].patch
                    /\ c \in Exists
                    /\ rows' = rows \/ rows' = [rows EXCEPT ![c] = Patched(rows[c], p)]
    BY <1>10 DEF EditUpdate, At, IndInv, BookingsKnown
  <2>2. CASE b # c
    BY <1>0, <1>1, <2>1, <2>2 DEF TypeOK
  <2>3. CASE b = c
    <3>1. rows'[b] = rows[b] \/ rows'[b] = Patched(rows[b], p)
      BY <1>0, <2>1, <2>3 DEF TypeOK
    <3>2. /\ Patched(rows[b], p).status = rows[b].status
          /\ Patched(rows[b], p).deposit = Coalesce(p.deposit, rows[b].deposit)
          /\ Patched(rows[b], p).total = Coalesce(p.total, rows[b].total)
      BY <1>0 DEF Patched, Row
    <3>3. r \notin overtaken =>
             Coalesce(p.deposit, rows[b].deposit) <= Coalesce(p.total, rows[b].total)
      BY <1>10, <2>1, <2>3 DEF EditUpdate, At, ReadsHold, RowRead, DepositFits
    <3>4. r \in overtaken => WrittenLate(b, {"edit"})
      <4>1. req[r].op = "edit" /\ req'[r].op \in {"none", "mail"}
        BY <1>10, <1>12 DEF EditUpdate, At, Concludes
      <4>. QED
        BY <2>1, <2>3, <4>1 DEF WrittenLate
    <3>5. /\ Coalesce(p.deposit, rows[b].deposit) \in Nat
          /\ Coalesce(p.total, rows[b].total) \in Nat
      <4>1. req[r] \in Editing
        BY <1>0, <1>10, RequestVariants DEF EditUpdate, At
      <4>2. /\ p.deposit \in Nat \cup {Null} /\ p.total \in Nat \cup {Null}
            /\ rows[b].deposit \in Nat /\ rows[b].total \in Nat
        BY <1>0, <2>1, <4>1, BookingAssumption DEF Editing, Patch, Row
      <4>. QED
        BY <4>2 DEF Coalesce
    <3>. QED
      BY <1>1, <3>1, <3>2, <3>3, <3>4, <3>5 DEF ClashIsLate, OverdraftIsLate
  <2>. QED
    BY <2>2, <2>3
<1>11. CASE UNCHANGED rows
  BY <1>1, <1>11
<1>. QED
  BY <1>3, <1>5, <1>6, <1>7, <1>8, <1>9, <1>10, <1>11
     DEF Handle, CreateBegin, AdminCreateBegin, CreateCheckWindows, EditBegin,
         EditCheckBookings, EditCheckWindows, AdvanceBegin,
         AssertNoUnavailabilityConflict, RejectBegin, BlockBegin, BlockInsert,
         Unblock, EnqueueMail, Abort

LEMMA NextWrites ==
    ASSUME IndInv, ReadsHold, [Next]_vars, NEW b \in Exists
    PROVE  ClashIsLate(b) /\ OverdraftIsLate(b)
<1>1. CASE UNCHANGED rows
  <2>1. rows[b].deposit \in Nat /\ rows[b].total \in Nat
    BY ExistingRow DEF IndInv, Row
  <2>. QED
    BY <1>1, <2>1 DEF ClashIsLate, OverdraftIsLate
<1>2. ASSUME NEW r \in Requests, Handle(r)
      PROVE  ClashIsLate(b) /\ OverdraftIsLate(b)
  BY <1>2, HandleWrites
<1>. QED
  BY <1>1, <1>2 DEF Next, Tick, vars

\* However many requests race: an email quotes the date the booking has, and only
\* a request under review is told it could not be processed, except by a
\* mark-deposit-paid or a reject whose booking changed after it was read.
THEOREM EmailsFit == Spec => []MailFits
<1>1. Init => ReadsHold /\ MailFits
  BY InitReads
<1>2. TypeOK /\ ReadsHold /\ MailFits /\ [Next]_vars => ReadsHold' /\ MailFits'
  BY NextReads, NextFits
<1>. QED
  BY <1>1, <1>2, TypeCorrect, PTL DEF Spec

\* What a request has read holds until it writes, unless it was overtaken.
THEOREM ReadsRemain == Spec => []ReadsHold
<1>1. Init => ReadsHold
  BY InitReads
<1>2. TypeOK /\ ReadsHold /\ [Next]_vars => ReadsHold'
  BY NextReads
<1>. QED
  BY <1>1, <1>2, TypeCorrect, PTL DEF Spec

\* #24: however many requests race, a booking is advanced over a slot that the
\* artist has blocked only by a request that had read the booking before it moved,
\* or looked for windows before this one was inserted.
THEOREM ClashesAreLate == Spec => OnlyLateAdvancesClash
<1>1. IndInv /\ ReadsHold /\ [Next]_vars =>
        [\A b \in Exists :
          /\ rows'[b].status # rows[b].status
          /\ rows'[b].status \in Committed
          /\ Blocked(Slot(rows'[b]))
          => WrittenLate(b, {"approve", "deposit"})]_vars
  BY NextWrites DEF ClashIsLate
<1>. QED
  BY <1>1, Invariance, ReadsRemain, PTL DEF Spec, OnlyLateAdvancesClash

\* #9: however many requests race, a change takes a deposit above its total only
\* when it is an admin's edit and another one changed the amounts it had read.
THEOREM OverdraftsAreLate == Spec => OnlyLateEditsOverdraw
<1>1. IndInv /\ ReadsHold /\ [Next]_vars =>
        [\A b \in Exists :
          /\ rows[b].deposit <= rows[b].total
          /\ rows'[b].deposit > rows'[b].total
          => WrittenLate(b, {"edit"})]_vars
  BY NextWrites DEF OverdraftIsLate
<1>. QED
  BY <1>1, Invariance, ReadsRemain, PTL DEF Spec, OnlyLateEditsOverdraw

-----------------------------------------------------------------------------
\* The table implements the calendar.

cal == [b \in Bookings |->
          IF rows[b] = Null THEN Null
          ELSE [slot |-> Slot(rows[b]), stage |-> rows[b].status]]

EntryOf(row) == [slot |-> Slot(row), stage |-> row.status]

LEMMA CalOfRow ==
    ASSUME TypeOK, NEW b \in Bookings
    PROVE  /\ b \notin Exists => cal[b] = Null
           /\ b \in Exists => cal[b] = EntryOf(rows[b]) /\ cal[b] # Null
<1>1. ASSUME b \in Exists PROVE EntryOf(rows[b]) \in [slot : Span, stage : Status]
  BY <1>1, ExistingRow, SlotIsSpan DEF EntryOf, Row
<1>. QED
  BY <1>1, BookingAssumption DEF cal, EntryOf, Exists

LEMMA RowStepRefines ==
    ASSUME IndInv, TypeOK', RowStep
    PROVE  Cal!Next
<1>1. PICK b \in Bookings, row \in Row :
        /\ rows' = [rows EXCEPT ![b] = row]
        /\ Insertion(b, row) \/ Shift(b, row) \/ Promotion(b, row)
  BY DEF RowStep
<1>2. TypeOK /\ row # Null /\ rows'[b] = row
  BY <1>1, BookingAssumption DEF IndInv, TypeOK
<1>3. cal' = [cal EXCEPT ![b] = EntryOf(row)] /\ cal'[b] = EntryOf(row)
  BY <1>1, <1>2 DEF cal, EntryOf, TypeOK, Slot
<1>4. EntryOf(row) \in Cal!Entry
  BY SlotIsSpan DEF EntryOf, Row, Cal!Entry, Cal!Interval, Cal!Stage, Cal!Held,
                    Span, Status
<1>5. row.status \in Active =>
        \A c \in Exists \ {b} : rows[c].status \in Active
            => ~Overlap(Slot(rows[c]), Slot(row))
  <2>1. CASE ~Excluded(b, row)
    BY <2>1 DEF Excluded, Overlapping
  <2>2. CASE Promotion(b, row)
    <3>1. /\ b \in Exists /\ Slot(row) = Slot(rows[b])
          /\ row.status \in Active => rows[b].status \in Active
      BY <2>2 DEF Promotion, Cal!Follows, Cal!Held, Active
    <3>. QED
      BY <3>1 DEF IndInv, NoOverlap
  <2>. QED
    BY <1>1, <2>1, <2>2 DEF Insertion, Shift
<1>6. row.status \in Active => Cal!Free(b, EntryOf(row))
  BY <1>2, <1>5, CalOfRow
     DEF Cal!Free, Cal!Meets, Cal!Held, cal, EntryOf, Overlap, Active
<1>7. Cal!Write(b)
  <2>1. EntryOf(row).stage \in Cal!Held => Cal!Free(b, EntryOf(row))
    BY <1>6 DEF EntryOf, Cal!Held, Active
  <2>2. /\ cal' = [cal EXCEPT ![b] = cal'[b]]
        /\ cal'[b] \in Cal!Entry
        /\ cal'[b].stage \in Cal!Held => Cal!Free(b, cal'[b])
    BY <1>3, <1>4, <2>1
  <2>. QED
    BY <2>2 DEF Cal!Write, cal
<1>8. CASE Insertion(b, row)
  <2>1. Cal!Enter(b)
    BY <1>2, <1>7, <1>8, CalOfRow DEF Insertion, Cal!Enter, cal
  <2>. QED
    BY <2>1 DEF Cal!Next
<1>9. CASE Shift(b, row)
  <2>1. Cal!Move(b)
    BY <1>2, <1>3, <1>7, <1>9, CalOfRow DEF Shift, Cal!Move, cal, EntryOf, Slot
  <2>. QED
    BY <2>1 DEF Cal!Next
<1>10. CASE Promotion(b, row)
  <2>1. Cal!Advance(b)
    BY <1>2, <1>3, <1>7, <1>10, CalOfRow DEF Promotion, Cal!Advance, cal, EntryOf
  <2>. QED
    BY <2>1 DEF Cal!Next
<1>. QED
  BY <1>1, <1>8, <1>9, <1>10

\* Every behaviour of the handlers is a behaviour of the calendar: no
\* interleaving shows a step that an atomic check and write would not take.
THEOREM Refinement == Spec => ImplementsCalendar
<1>1. Init => Cal!Init
  BY DEF Init, Cal!Init
<1>2. IndInv /\ IndInv' /\ [Next]_vars => [Cal!Next]_cal
  <2>1. ASSUME IndInv, IndInv', [Next]_vars PROVE Cal!Next \/ UNCHANGED cal
    <3>1. rows' = rows \/ RowStep
      BY <2>1, HandleRowStep DEF Next, Tick, vars
    <3>2. CASE RowStep
      BY <2>1, <3>2, RowStepRefines DEF IndInv
    <3>3. CASE rows' = rows
      BY <3>3 DEF cal, Slot
    <3>. QED
      BY <3>1, <3>2, <3>3
  <2>. QED
    BY <2>1
<1>. QED
  BY <1>1, <1>2, Invariance, PTL DEF Spec, ImplementsCalendar, Cal!Spec, cal

-----------------------------------------------------------------------------
\* The promise itself: any behaviour of the calendar keeps its entries apart.

\* Two intervals meet whichever is named first.
LEMMA CalMeetsSym == ASSUME NEW s, NEW t, Cal!Meets(s, t) PROVE Cal!Meets(t, s)
  BY DEF Cal!Meets

\* A written entry is the only change, and it is free of those that hold time.
LEMMA CalWriteKeepsDisjoint ==
    ASSUME Cal!TypeInv, Cal!Disjoint, NEW i \in Bookings, Cal!Write(i)
    PROVE  Cal!TypeInv' /\ Cal!Disjoint'
<1>1. \A j \in Bookings : j # i => cal'[j] = cal[j]
  BY DEF Cal!Write, cal
<1>2. Cal!TypeInv'
  BY DEF Cal!Write, Cal!TypeInv
<1>3. SUFFICES ASSUME NEW j \in Bookings, NEW k \in Bookings, j # k,
                      cal'[j] # Null, cal'[k] # Null,
                      cal'[j].stage \in Cal!Held, cal'[k].stage \in Cal!Held
               PROVE  ~Cal!Meets(cal'[j].slot, cal'[k].slot)
  BY <1>2 DEF Cal!Disjoint, cal
<1>4. CASE j = i
  BY <1>1, <1>3, <1>4, CalMeetsSym DEF Cal!Write, Cal!Free, cal
<1>5. CASE k = i
  BY <1>1, <1>3, <1>5 DEF Cal!Write, Cal!Free, cal
<1>6. CASE j # i /\ k # i
  BY <1>1, <1>3, <1>6 DEF Cal!Disjoint, cal
<1>. QED
  BY <1>4, <1>5, <1>6

\* The calendar never holds the same time twice, and neither does the agency
\* that implements it.
THEOREM CalendarSafe == (Cal!Spec => []Cal!Disjoint) /\ (Spec => []Cal!Disjoint)
<1>1. Cal!Init => Cal!TypeInv /\ Cal!Disjoint
  BY DEF Cal!Init, Cal!TypeInv, Cal!Disjoint
<1>2. Cal!TypeInv /\ Cal!Disjoint /\ [Cal!Next]_cal => (Cal!TypeInv /\ Cal!Disjoint)'
  <2>1. ASSUME Cal!TypeInv, Cal!Disjoint, NEW i \in Bookings,
               Cal!Enter(i) \/ Cal!Move(i) \/ Cal!Advance(i)
        PROVE  Cal!TypeInv' /\ Cal!Disjoint'
    BY <2>1, CalWriteKeepsDisjoint DEF Cal!Enter, Cal!Move, Cal!Advance
  <2>2. ASSUME Cal!TypeInv, Cal!Disjoint, UNCHANGED cal PROVE Cal!TypeInv' /\ Cal!Disjoint'
    BY <2>2 DEF Cal!TypeInv, Cal!Disjoint, cal
  <2>. QED
    BY <2>1, <2>2 DEF Cal!Next
<1>3. Cal!Spec => []Cal!Disjoint
  BY <1>1, <1>2, PTL DEF Cal!Spec, cal
<1>. QED
  BY <1>3, Refinement, PTL DEF ImplementsCalendar

=============================================================================
