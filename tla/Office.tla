------------------------------- MODULE Office -------------------------------
(***************************************************************************)
(* The requests of an admin that leave something behind outside the         *)
(* database, and the process that handles them: the contract of a booking,  *)
(* with an email that is sent and accounted for in email_deliveries; the    *)
(* agency's signature, an image whose path is in agency_settings; and the   *)
(* process, which a signal stops in order, a second one or a crash at once. *)
(*                                                                          *)
(* Every email of the code is enqueued in the way EmailQueueService does    *)
(* here, awaited by the handler that asks for it.                           *)
(***************************************************************************)
EXTENDS Naturals, Sequences

CONSTANTS
    Requests,  \* requests being handled at one moment (bound on their number)
    Bookings,  \* bookings, each with one contract at most
    Emails,    \* rows of email_deliveries (bound: a row that nothing will touch
               \* any more is taken again)
    Paths,     \* names signature-<time>.<ext>
    Agendas,   \* what the admins of one behaviour do, and what becomes of the bookings
               \* (bound: contracts and the signature share the process alone)
    Null

ASSUME OfficeAssumption ==
    /\ Null \notin Bookings \cup Emails \cup Paths
    /\ Agendas \subseteq SUBSET {"upload", "remind", "confirm", "close", "save", "remove"}

\* The shutdown tasks in the order in which startApi registers them.
Registered == <<"database-pool", "storage-service", "notification-service",
                "mailer-service", "job-scheduler", "http-server">>

\* Variant: they run in the order in which they were registered.
InOrder == Registered

\* runShutdown takes the last one first.
Tasks == <<Registered[6], Registered[5], Registered[4],
           Registered[3], Registered[2], Registered[1]>>

\* The statement or call a handler is about to make.
Place == {"idle", "upsert", "touch", "enqueue", "send", "mark_sent", "mark_failed",
          "write", "read", "delete", "update"}

\* path is the file a signature request will name, previous the one it found;
\* gone says that the client has closed its connection.
Request == [pc : Place, booking : Bookings \cup {Null}, email : Emails \cup {Null},
            path : Paths \cup {Null}, previous : Paths \cup {Null}, gone : BOOLEAN]

HasWhatItNeeds(q) ==
    /\ q.pc \in {"upsert", "touch", "enqueue"} => q.booking # Null
    /\ q.pc \in {"send", "mark_sent", "mark_failed"} => q.email # Null
    /\ q.pc = "write" => q.path # Null
    /\ q.pc = "delete" => q.previous # Null

Idle == [pc |-> "idle", booking |-> Null, email |-> Null, path |-> Null, previous |-> Null,
         gone |-> FALSE]

VARIABLES
    process,    \* "running", "stopping" (runShutdown) or "down"
    done,       \* how many shutdown tasks have run
    agenda,     \* what the admins do (never changes)
    req,        \* what each request has left to do
    status,     \* bookings: "open", "confirmed" or "over"
    reachable,  \* bookings whose client has an address
    contracts,  \* contracts by booking: "none", "ready", or "reminded" within 24 hours
    emails,     \* email_deliveries: "none", "pending", "sent" or "failed"
    signature,  \* agency_settings.signature_image_path
    files,      \* images in the storage
    \* History.
    fate,       \* per email: whether the mail server "got" it, did "not", or
                \* may have got it although the connection broke ("unsure")
    cut,        \* emails whose handler was killed, or a statement about them failed,
                \* or that an orderly stop overtook after its client had left
    holed       \* paths whose file is gone because a request was cut off after it
                \* deleted it, or that two requests named in the same millisecond

life == <<process, done, agenda>>
booked == <<status, reachable, contracts>>
mail == <<emails, fate, cut>>
image == <<signature, files, holed>>
vars == <<life, req, booked, mail, image>>

TypeOK ==
    /\ process \in {"running", "stopping", "down"}
    /\ done \in 0..Len(Tasks)
    /\ agenda \in Agendas
    /\ req \in [Requests -> Request]
    /\ status \in [Bookings -> {"open", "confirmed", "over"}]
    /\ reachable \subseteq Bookings
    /\ contracts \in [Bookings -> {"none", "ready", "reminded"}]
    /\ emails \in [Emails -> {"none", "pending", "sent", "failed"}]
    /\ signature \in Paths \cup {Null}
    /\ files \subseteq Paths
    /\ fate \in [Emails -> {"not", "got", "unsure"}]
    /\ cut \subseteq Emails
    /\ holed \subseteq Paths
    /\ \A r \in Requests : HasWhatItNeeds(req[r])

Init ==
    /\ process = "running" /\ done = 0 /\ agenda \in Agendas
    /\ req = [r \in Requests |-> Idle]
    /\ status = [b \in Bookings |-> "open"]
    /\ reachable \in SUBSET Bookings
    /\ contracts = [b \in Bookings |-> "none"]
    /\ emails = [e \in Emails |-> "none"] /\ fate = [e \in Emails |-> "not"] /\ cut = {}
    /\ signature = Null /\ files = {} /\ holed = {}

-----------------------------------------------------------------------------
At(r, pc) == req[r].pc = pc
Goes(r, pc) == req' = [req EXCEPT ![r].pc = pc]
Ends(r) == req' = [req EXCEPT ![r] = Idle]

\* The pool takes statements until its shutdown task has run.  (The tasks of the
\* mailer and of the storage close nothing that a handler uses: the next call
\* makes a new one.)
PoolOpen == \E i \in (done + 1)..Len(Tasks) : Tasks[i] = "database-pool"

\* A server that is closed takes no new requests.
Free(r, what) == what \in agenda /\ process = "running" /\ At(r, "idle")

\* A statement can run; a handler that cannot run it fails.
Runs(r, pc) == At(r, pc) /\ PoolOpen

\* The connection of a request is closed: its client left, and the handler, which
\* does not notice, goes on; nothing waits for it any more.
ClientLeaves(r) ==
    /\ ~At(r, "idle") /\ ~req[r].gone
    /\ req' = [req EXCEPT ![r].gone = TRUE]
    /\ UNCHANGED <<life, booked, mail, image>>

-----------------------------------------------------------------------------
\* The contract of a booking.

\* POST /bookings/:id/contract: only a confirmed booking gets one.
Upload(r, b) ==
    /\ Free(r, "upload") /\ status[b] = "confirmed"
    /\ req' = [req EXCEPT ![r] = [Idle EXCEPT !.pc = "upsert", !.booking = b]]
    /\ UNCHANGED <<life, booked, mail, image>>

\* The client is told, if there is an address.
Tells(r) == IF req[r].booking \in reachable THEN Goes(r, "enqueue") ELSE Ends(r)

\* upsertContract: a new document waits for its signature; when the last
\* reminder was sent is kept.
Upsert(r) ==
    /\ Runs(r, "upsert")
    /\ contracts' = [contracts EXCEPT ![req[r].booking] = IF @ = "none" THEN "ready" ELSE @]
    /\ Tells(r)
    /\ UNCHANGED <<life, status, reachable, mail, image>>

\* POST /contracts/:id/remind.
Remind(r, b) ==
    /\ Free(r, "remind") /\ contracts[b] # "none"
    /\ req' = [req EXCEPT ![r] = [Idle EXCEPT !.pc = "touch", !.booking = b]]
    /\ UNCHANGED <<life, booked, mail, image>>

\* touchContractReminder: one reminder within 24 hours, counted before it is
\* sent.  (The booking is then read again for the address, which stays.)
Touch(r) ==
    /\ Runs(r, "touch")
    /\ IF contracts[req[r].booking] = "ready"
       THEN contracts' = [contracts EXCEPT ![req[r].booking] = "reminded"] /\ Tells(r)
       ELSE Ends(r) /\ UNCHANGED contracts
    /\ UNCHANGED <<life, status, reachable, mail, image>>

-----------------------------------------------------------------------------
\* EmailQueueService: enqueue and attempt.

\* The row e is one that a handler works on.
Handles(r, e) == req[r].email = e /\ req[r].pc \in {"send", "mark_sent", "mark_failed"}
InHand(e) == \E r \in Requests : Handles(r, e)

Enqueue(r) ==
    /\ Runs(r, "enqueue")
    /\ \E e \in Emails :
       /\ ~InHand(e)
       /\ emails' = [emails EXCEPT ![e] = "pending"]
       /\ fate' = [fate EXCEPT ![e] = "not"]
       /\ cut' = cut \ {e}
       /\ req' = [req EXCEPT ![r] = [@ EXCEPT !.pc = "send", !.email = e]]
    /\ UNCHANGED <<life, booked, image>>

Delivery(r, outcome, pc) ==
    /\ fate' = [fate EXCEPT ![req[r].email] = outcome]
    /\ Goes(r, pc)

\* Variant: a refused email is enqueued again at once.
SendAgain(r) ==
    /\ At(r, "send")
    /\ Delivery(r, "got", "mark_sent") \/ Delivery(r, "not", "enqueue")
    /\ UNCHANGED <<life, booked, emails, cut, image>>

\* Variant: an error of the mail server is logged and no more.
SendUnchecked(r) ==
    /\ At(r, "send")
    /\ \E outcome \in {"got", "not"} : Delivery(r, outcome, "mark_sent")
    /\ UNCHANGED <<life, booked, emails, cut, image>>

\* The email is handed to the mail server, which takes it, refuses it, or is
\* not heard of any more.  (One to a reserved domain goes no further and counts
\* as taken.)
Send(r) ==
    /\ At(r, "send")
    /\ \/ Delivery(r, "got", "mark_sent")
       \/ Delivery(r, "unsure", "mark_failed")
       \/ Delivery(r, "not", "mark_failed")
    /\ UNCHANGED <<life, booked, emails, cut, image>>

Marks(r, outcome) ==
    /\ emails' = [emails EXCEPT ![req[r].email] = outcome]
    /\ Ends(r)
    /\ UNCHANGED <<life, booked, fate, cut, image>>

MarkEmailSent(r) == Runs(r, "mark_sent") /\ Marks(r, "sent")

\* (A row is attempted once: nothing calls processRetries, so that the third
\* failure, which abandons it, never comes.)
MarkEmailFailed(r) == Runs(r, "mark_failed") /\ Marks(r, "failed")

-----------------------------------------------------------------------------
\* The agency's signature.

\* A path that nothing names.
Unused(p) ==
    /\ p # signature
    /\ \A r \in Requests : p # req[r].path /\ p # req[r].previous

\* Variant: the file has always the same name.
SameName(p) == TRUE

\* The name of the file is the time in milliseconds, at which another request
\* may just have taken its own.
Fresh(p) == Unused(p) \/ \E r \in Requests : At(r, "write") /\ req[r].path = p

\* PUT /agency/signature.  (A file that nothing names is forgotten, so that its
\* path may stand for a new one.)
Save(r) ==
    /\ Free(r, "save")
    /\ \E p \in Paths :
       /\ Fresh(p)
       /\ req' = [req EXCEPT ![r] = [Idle EXCEPT !.pc = "write", !.path = p]]
       /\ holed' = IF \E d \in Requests : At(d, "write") /\ req[d].path = p
                   THEN holed \cup {p} ELSE holed \ {p}
       /\ files' = files \ {p}
    /\ UNCHANGED <<life, booked, mail, signature>>

Write(r) ==
    /\ At(r, "write")
    /\ files' = files \cup {req[r].path}
    /\ Goes(r, "read")
    /\ UNCHANGED <<life, booked, mail, signature, holed>>

\* DELETE /agency/signature names no new file.
Remove(r) ==
    /\ Free(r, "remove")
    /\ req' = [req EXCEPT ![r] = [Idle EXCEPT !.pc = "read"]]
    /\ UNCHANGED <<life, booked, mail, image>>

ReadPrevious(r) ==
    /\ Runs(r, "read")
    /\ req' = [req EXCEPT ![r] = [@ EXCEPT !.pc = IF signature = Null THEN "update" ELSE "delete",
                                            !.previous = signature]]
    /\ UNCHANGED <<life, booked, mail, image>>

\* The old file goes first; that it could not be deleted is only logged.
DeletePrevious(r) ==
    /\ At(r, "delete")
    /\ files' \in {files, files \ {req[r].previous}}
    /\ Goes(r, "update")
    /\ UNCHANGED <<life, booked, mail, signature, holed>>

UpdateSignature(r) ==
    /\ Runs(r, "update")
    /\ signature' = req[r].path
    /\ Ends(r)
    /\ UNCHANGED <<life, booked, mail, files, holed>>

-----------------------------------------------------------------------------
\* Failures of a statement or of the storage.

Marking == {"mark_sent", "mark_failed"}

\* History: a failure is the database's own, or the pool was closed under a
\* handler whose client had left.  Under one whose client waits, it has no excuse.
Excused(r) == PoolOpen \/ req[r].gone

\* An error ends the handler, and if it is about an email that was sent the row
\* is first marked as failed.
Fails(r) ==
    /\ req[r].pc \notin {"idle", "send", "delete"}
    /\ IF At(r, "mark_sent") THEN Goes(r, "mark_failed") ELSE Ends(r)
    /\ cut' = IF req[r].pc \in Marking /\ Excused(r) THEN cut \cup {req[r].email} ELSE cut
    /\ holed' = IF At(r, "update") /\ req[r].previous # Null /\ Excused(r)
                THEN holed \cup {req[r].previous} ELSE holed
    /\ UNCHANGED <<life, booked, emails, fate, signature, files>>

-----------------------------------------------------------------------------
\* The process.

\* SIGINT or SIGTERM.
Signal ==
    /\ process = "running"
    /\ process' = "stopping"
    /\ UNCHANGED <<done, agenda, req, booked, mail, image>>

\* server.close waits for the connections, and a handler whose client left has
\* none; the other tasks wait for nothing that is modelled.  A task that fails is
\* logged, and the next one runs.
RunTask ==
    /\ process = "stopping" /\ done < Len(Tasks)
    /\ Tasks[done + 1] = "http-server" =>
          \A r \in Requests : At(r, "idle") \/ req[r].gone
    /\ done' = done + 1
    /\ UNCHANGED <<process, agenda, req, booked, mail, image>>

\* The process ends in the middle of the handlers in R.
EndsUnder(R) ==
    /\ process' = "down" /\ done' = 0
    /\ req' = [r \in Requests |-> Idle]
    /\ cut' = cut \cup {e \in Emails : \E r \in R : Handles(r, e)}
    /\ holed' = holed \cup {p \in Paths : \E r \in R : At(r, "update") /\ req[r].previous = p}
    /\ UNCHANGED <<agenda, booked, emails, fate, signature, files>>

\* process.exit once the tasks have run.  History: only a handler whose client
\* had left may be cut off by it.
Exit ==
    /\ process = "stopping" /\ done = Len(Tasks)
    /\ EndsUnder({r \in Requests : req[r].gone})

\* A crash, or a second signal, for which runShutdown returns at once and the
\* process exits.
Kill ==
    /\ process # "down"
    /\ EndsUnder(Requests)

Restart ==
    /\ process = "down"
    /\ process' = "running"
    /\ UNCHANGED <<done, agenda, req, booked, mail, image>>

\* Others: the deposit of a booking is recorded; it is cancelled or over
\* (Booking); 24 hours pass.
Confirm(b) ==
    /\ "confirm" \in agenda /\ status[b] = "open"
    /\ status' = [status EXCEPT ![b] = "confirmed"]
    /\ UNCHANGED <<life, req, reachable, contracts, mail, image>>

Close(b) ==
    /\ "close" \in agenda /\ status[b] # "over"
    /\ status' = [status EXCEPT ![b] = "over"]
    /\ UNCHANGED <<life, req, reachable, contracts, mail, image>>

Day(b) ==
    /\ contracts[b] = "reminded"
    /\ contracts' = [contracts EXCEPT ![b] = "ready"]
    /\ UNCHANGED <<life, req, status, reachable, mail, image>>

-----------------------------------------------------------------------------
Begin(r) == Save(r) \/ Remove(r) \/ \E b \in Bookings : Upload(r, b) \/ Remind(r, b)

Step(r) ==
    \/ Upsert(r) \/ Touch(r) \/ Enqueue(r) \/ Send(r) \/ MarkEmailSent(r) \/ MarkEmailFailed(r)
    \/ Write(r) \/ ReadPrevious(r) \/ DeletePrevious(r) \/ UpdateSignature(r)

Next ==
    \/ \E r \in Requests : Begin(r) \/ Step(r) \/ Fails(r) \/ ClientLeaves(r)
    \/ Signal \/ RunTask \/ Exit \/ Kill \/ Restart
    \/ \E b \in Bookings : Confirm(b) \/ Close(b) \/ Day(b)

Spec == Init /\ [][Next]_vars

\* Calls that were made come back: of the database, of the storage and of the
\* mail server (which have timeouts), and of the shutdown's own tasks.
FairSpec ==
    /\ Spec
    /\ \A r \in Requests : WF_vars(Step(r))
    /\ WF_vars(RunTask) /\ WF_vars(Exit)

-----------------------------------------------------------------------------
\* Properties.

\* A row of email_deliveries stays pending only when the process was killed in
\* the middle of a handler, the database failed, or its client had closed the
\* connection before an orderly stop: the stop accounts for every email whose
\* client waits, because the server is closed first and the pool last
\* (lifecycle.ts, queueService.ts).
PendingHasCause ==
    \A e \in Emails : emails[e] = "pending" => InHand(e) \/ e \in cut

\* What a row says of its email is what became of it: one that is marked as
\* sent was taken by the mail server, and one that is marked as failed was not,
\* unless the connection broke or its first mark failed (attempt).
FateKnown ==
    \A e \in Emails :
        /\ emails[e] = "sent" => fate[e] = "got"
        /\ emails[e] = "failed" => fate[e] # "got" \/ e \in cut

\* The path in agency_settings names a file, but for the time between the
\* deletion of the old file and the UPDATE, and for what was cut off there: two
\* admins who save and remove at once do not take each other's file away
\* (agencySignatureService.ts).
SignatureHasFile ==
    signature # Null =>
        \/ signature \in files \cup holed
        \/ \E r \in Requests : At(r, "update") /\ req[r].previous = signature

\* A process that is told to stop does stop (runShutdown).
StopEnds == process = "stopping" ~> process = "down"
=============================================================================
