---------------------------- MODULE BookingForm ----------------------------
(***************************************************************************)
(* The page on which a client asks for a booking, pages/BookingNew: what is *)
(* typed and its draft in sessionStorage, the quote computed while typing,  *)
(* the calendar beside the form, and the request, whose answer may find     *)
(* another page, or none.  One browser tab and one artist.                  *)
(*                                                                          *)
(* The server is what the page sees of it: a day of the artist is free,     *)
(* held by a request nobody has looked at (pending), or taken (busy).  Its  *)
(* handlers are in Booking.                                                 *)
(***************************************************************************)
EXTENDS Naturals, FiniteSets

CONSTANTS
    Dates,
    SetTypes,
    DJ,         \* the one selected at first
    Supported,  \* the set types the artist performs
    Queries,    \* quotes being fetched (bound on their number)
    Sends,      \* booking requests under way (bound on their number)
    Null

ASSUME BookingFormAssumption ==
    /\ DJ \in SetTypes
    /\ Supported \subseteq SetTypes /\ Supported # {}
    /\ Null \notin Dates

\* Of the fields two are kept.  The place is treated as the date is; duration,
\* capacity and ticket price as the set type, which besides is bound to the
\* artist; and any field that is empty or not a number as an empty date (Null).
Form == [date : Dates \cup {Null}, set : SetTypes]

Initial == [date |-> Null, set |-> DJ]

Outcome == {"ok", "conflict", "error"}

\* to: who hears the answer - the open page, a page that was left while the
\* browser kept the script, or nobody, in which case an answer is dropped.
Send == [date : Dates \cup {Null}, pc : {"idle", "sent"} \cup Outcome,
         to : {"page", "left", "nobody"}]

Idle == [date |-> Null, pc |-> "idle", to |-> "nobody"]

VARIABLES
    \* The server.
    slots,       \* per day: "free", "pending" or "busy"
    \* The browser.
    client,      \* whether somebody is signed in
    draft,       \* the form saved in sessionStorage, or Null
    open,        \* whether the page is mounted
    sends,       \* booking requests under way
    \* The state of the page.
    slug,        \* its URL names the artist by slug
    artist,      \* "loading", "known" or "none"
    missing,
    form,
    submitted,
    submitting,
    unavailable, \* the date has the message "artist unavailable"
    timer,       \* the quote's debounce is running
    asked,       \* per query, the inputs it was sent with, or Null
    estimating,
    estimate,    \* the inputs of the quote on the screen, or Null
    calendar,    \* "off", "asked", "loaded" or "failed"
    marked,      \* days it shows as busy
    \* History.
    wiped,       \* the draft was removed behind the back of the open page
    late,        \* the last quote to arrive was not for what the form says
    steady       \* days busy ever since the page was told so

server == <<slots>>
page == <<slug, artist, missing, form, submitted, submitting, unavailable>>
quote == <<timer, asked, estimating, estimate, late>>
month == <<calendar, marked>>
vars == <<slots, client, draft, open, sends, page, quote, month, wiped, steady>>

TypeOK ==
    /\ slots \in [Dates -> {"free", "pending", "busy"}]
    /\ client \in BOOLEAN
    /\ draft \in Form \cup {Null}
    /\ open \in BOOLEAN
    /\ sends \in [Sends -> Send]
    /\ \A s \in Sends : sends[s].pc # "idle" => sends[s].date \in Dates
    /\ slug \in BOOLEAN
    /\ artist \in {"loading", "known", "none"}
    /\ missing \in BOOLEAN
    /\ form \in Form
    /\ submitted \in BOOLEAN
    /\ submitting \in BOOLEAN
    /\ unavailable \in BOOLEAN
    /\ timer \in BOOLEAN
    /\ asked \in [Queries -> Form \cup {Null}]
    /\ estimating \in BOOLEAN
    /\ estimate \in Form \cup {Null}
    /\ calendar \in {"off", "asked", "loaded", "failed"}
    /\ marked \subseteq Dates
    /\ wiped \in BOOLEAN
    /\ late \in BOOLEAN
    /\ steady \subseteq Dates

Init ==
    /\ slots = [d \in Dates |-> "free"]
    /\ client \in BOOLEAN
    /\ draft = Null
    /\ open = FALSE
    /\ sends = [s \in Sends |-> Idle]
    /\ slug = FALSE /\ form = Initial
    /\ artist = "loading" /\ missing = FALSE
    /\ submitted = FALSE /\ submitting = FALSE /\ unavailable = FALSE
    /\ timer = FALSE /\ asked = [q \in Queries |-> Null]
    /\ estimating = FALSE /\ estimate = Null /\ late = FALSE
    /\ calendar = "off" /\ marked = {} /\ steady = {} /\ wiped = FALSE

-----------------------------------------------------------------------------
\* What follows from a new form or a new artist (the effects of the page).

\* Whether the inputs of a quote are all there.
Complete(f) == f.date # Null

\* A set type the artist does not perform is replaced by one that it does.
Snapped(f, a) ==
    IF a = "known" /\ f.set \notin Supported
    THEN {[f EXCEPT !.set = t] : t \in Supported}
    ELSE {f}

\* Variant (mutant): the cleanup clears the timer and leaves the spinner.
RequoteSpinning(f, a) ==
    /\ timer' = (a = "known" /\ Complete(f))
    /\ estimating' = (timer' \/ estimating)
    /\ estimate' = IF timer' THEN estimate ELSE Null
    /\ UNCHANGED <<asked, late>>

\* Variant (mutant): the quote stays when an input is emptied.
RequoteKeeping(f, a) ==
    /\ timer' = (a = "known" /\ Complete(f))
    /\ estimating' = timer'
    /\ UNCHANGED <<estimate, asked, late>>

\* The debounce starts again; a request that is under way is not cancelled.
Requote(f, a) ==
    /\ timer' = (a = "known" /\ Complete(f))
    /\ estimating' = timer'
    /\ estimate' = IF timer' THEN estimate ELSE Null
    /\ UNCHANGED <<asked, late>>

\* Variant (mutant): the form of the render before is saved.
PersistStale(f) ==
    /\ draft' = form
    /\ wiped' = FALSE

Persist(f) ==
    /\ draft' = f
    /\ wiped' = FALSE

\* setForm, and the effects that run on it.
Typed(f) == \E g \in Snapped(f, artist) :
    /\ form' = g
    /\ Requote(g, artist)
    /\ IF slug THEN Persist(g) ELSE UNCHANGED <<draft, wiped>>

-----------------------------------------------------------------------------
\* Coming and going.

\* What the draft says is restored; only the date and the place of the link win
\* over it.
Restored(p) ==
    IF draft = Null THEN p
    ELSE [draft EXCEPT !.date = IF p.date = Null THEN @ ELSE p.date]

\* A page starts with this state, and it is gone with the page.
Fresh ==
    /\ artist' = "loading" /\ missing' = FALSE
    /\ submitted' = FALSE /\ submitting' = FALSE /\ unavailable' = FALSE
    /\ timer' = FALSE /\ asked' = [q \in Queries |-> Null]
    /\ estimating' = FALSE /\ estimate' = Null /\ late' = FALSE
    /\ calendar' = "off" /\ marked' = {} /\ steady' = {} /\ wiped' = FALSE

Mount ==
    /\ ~open /\ open' = TRUE
    /\ Fresh
    /\ UNCHANGED <<slots, client, sends>>

\* A link with the artist's slug; p is the form with what the link fills in.
Open(p) ==
    /\ slug' = TRUE
    /\ form' = Restored(p)
    /\ draft' = form'
    /\ Mount

\* A legacy link with the artist's id: no draft is read.
OpenLegacy(p) ==
    /\ slug' = FALSE
    /\ form' = p
    /\ UNCHANGED draft
    /\ Mount

\* The slug of the legacy id is found and the URL rewritten, the page staying as
\* it is; its form is now the draft.
Resolve ==
    /\ open /\ ~slug /\ ~missing
    /\ slug' = TRUE
    /\ Persist(form)
    /\ UNCHANGED <<slots, client, open, sends, artist, missing, form, submitted,
                   submitting, unavailable, quote, month, steady>>

ResolveFails ==
    /\ open /\ ~slug /\ ~missing
    /\ missing' = TRUE
    /\ UNCHANGED <<slots, client, draft, open, sends, slug, artist, form, submitted,
                   submitting, unavailable, quote, month, wiped, steady>>

ArtistArrives ==
    /\ open /\ slug /\ artist = "loading"
    /\ artist' = "known" /\ missing' = FALSE
    /\ \E g \in Snapped(form, "known") :
        /\ form' = g
        /\ Requote(g, "known")
        /\ IF submitted \/ g = form THEN UNCHANGED <<draft, wiped>> ELSE Persist(g)
    /\ calendar' = IF submitted THEN "off" ELSE "asked"
    /\ UNCHANGED <<slots, client, open, sends, slug, submitted, submitting, unavailable,
                   marked, steady>>

ArtistFails ==
    /\ open /\ slug /\ artist = "loading"
    /\ artist' = "none" /\ missing' = TRUE
    /\ UNCHANGED <<slots, client, draft, open, sends, slug, form, submitted, submitting,
                   unavailable, quote, month, wiped, steady>>

\* Another page of the front end, a reload, or the end of the tab, with which
\* sessionStorage goes.
Leave(how) ==
    /\ open /\ open' = FALSE
    /\ slug' = FALSE /\ form' = Initial
    /\ Fresh
    /\ draft' = IF how = "close" THEN Null ELSE draft
    /\ sends' = [s \in Sends |->
           CASE sends[s].pc = "idle" -> Idle
             [] how = "navigate" -> [sends[s] EXCEPT !.to = IF @ = "page" THEN "left" ELSE @]
             [] sends[s].pc = "sent" -> [sends[s] EXCEPT !.to = "nobody"]
             [] OTHER -> Idle]
    /\ UNCHANGED <<slots, client>>

\* On another page.
SignIn ==
    /\ ~open /\ ~client /\ client' = TRUE
    /\ UNCHANGED <<slots, draft, open, sends, page, quote, month, wiped, steady>>

SignOut ==
    /\ ~open /\ client /\ client' = FALSE
    /\ UNCHANGED <<slots, draft, open, sends, page, quote, month, wiped, steady>>

-----------------------------------------------------------------------------
\* Typing and the quote.

\* A field is typed in; the form is there for somebody who is signed in.
Edit(f) ==
    /\ open /\ client /\ ~submitted
    /\ f # form
    /\ \/ f = [form EXCEPT !.date = f.date]
       \/ f = [form EXCEPT !.set = f.set] /\ (artist = "known" => f.set \in Supported)
    /\ Typed(f)
    /\ unavailable' = (unavailable /\ f.date = form.date)
    /\ UNCHANGED <<slots, client, open, sends, slug, artist, missing, submitted,
                   submitting, month, steady>>

\* A day of the calendar is clicked, which is there without a session.
ClickDay(d) ==
    /\ open /\ calendar # "off"
    /\ d \notin marked
    /\ d # form.date
    /\ Typed([form EXCEPT !.date = d])
    /\ unavailable' = FALSE
    /\ UNCHANGED <<slots, client, open, sends, slug, artist, missing, submitted,
                   submitting, month, steady>>

\* The debounce ends and the quote is asked for.
Fire(q) ==
    /\ timer /\ asked[q] = Null
    /\ timer' = FALSE
    /\ asked' = [asked EXCEPT ![q] = form]
    /\ UNCHANGED <<slots, client, draft, open, sends, page, estimating, estimate, late,
                   month, wiped, steady>>

\* Variant (mutant): a failed quote returns before the spinner is reset.
QuotedOnSuccess(q, result) ==
    /\ asked[q] # Null
    /\ result \in {asked[q], Null}
    /\ estimate' = result
    /\ estimating' = (estimating /\ result = Null)
    /\ late' = (asked[q] # form)
    /\ asked' = [asked EXCEPT ![q] = Null]
    /\ UNCHANGED <<slots, client, draft, open, sends, page, timer, month, wiped, steady>>

\* Its answer, or none (Null).
Quoted(q, result) ==
    /\ asked[q] # Null
    /\ result \in {asked[q], Null}
    /\ estimate' = result
    /\ estimating' = FALSE
    /\ late' = (asked[q] # form)
    /\ asked' = [asked EXCEPT ![q] = Null]
    /\ UNCHANGED <<slots, client, draft, open, sends, page, timer, month, wiped, steady>>

-----------------------------------------------------------------------------
\* The calendar.

Load ==
    /\ calendar = "asked"
    /\ calendar' = "loaded"
    /\ marked' = {d \in Dates : slots[d] = "busy"}
    /\ UNCHANGED <<slots, client, draft, open, sends, page, quote, wiped, steady>>

LoadFails ==
    /\ calendar = "asked"
    /\ calendar' = "failed"
    /\ UNCHANGED <<slots, client, draft, open, sends, page, quote, marked, wiped, steady>>

\* Variant (mutant): the key stays the same.
ReloadNothing(shown) == UNCHANGED month

\* A new key: the calendar is mounted again, empty, and loads.
Reload(shown) ==
    /\ calendar' = IF shown THEN "asked" ELSE "off"
    /\ marked' = {}

-----------------------------------------------------------------------------
\* The request.

\* The form is valid.  The button shows a spinner while a request is under way
\* but stays a submit button, and the handler does not look at submitting.
Submit(s) ==
    /\ open /\ client /\ slug /\ ~missing /\ ~submitted
    /\ Complete(form)
    /\ sends[s].pc = "idle"
    /\ sends' = [sends EXCEPT ![s] = [Idle EXCEPT !.date = form.date, !.pc = "sent", !.to = "page"]]
    /\ submitting' = TRUE
    /\ unavailable' = FALSE
    /\ UNCHANGED <<slots, client, draft, open, slug, artist, missing, form, submitted,
                   quote, month, wiped, steady>>

\* The form is not valid: other messages take the place of this one.
SubmitInvalid ==
    /\ open /\ client /\ slug /\ ~missing /\ ~submitted
    /\ unavailable /\ unavailable' = FALSE
    /\ UNCHANGED <<slots, client, draft, open, sends, slug, artist, missing, form,
                   submitted, submitting, quote, month, wiped, steady>>

\* The server inserts the booking unless the artist's time is held: also by a
\* request that is pending, which the calendar does not show.
Serve(s, r) ==
    LET d == sends[s].date IN
    /\ sends[s].pc = "sent"
    /\ r = "ok" => slots[d] = "free"
    /\ r = "conflict" => slots[d] # "free"
    /\ sends' = [sends EXCEPT ![s] =
           IF @.to = "nobody" THEN Idle
           ELSE [@ EXCEPT !.pc = r]]
    /\ slots' = IF r = "ok" THEN [slots EXCEPT ![d] = "pending"] ELSE slots
    /\ UNCHANGED <<client, draft, open, page, quote, month, wiped, steady>>

Close(s) == sends' = [sends EXCEPT ![s] = Idle]

\* The page shows the success and forgets the form.
Succeed(s) ==
    /\ sends[s].pc = "ok" /\ sends[s].to = "page"
    /\ Close(s)
    /\ draft' = Null
    /\ submitting' = FALSE /\ submitted' = TRUE
    /\ \E g \in Snapped(Initial, artist) : form' = g /\ Requote(g, artist)
    /\ calendar' = "off" /\ marked' = {}
    /\ UNCHANGED <<slots, client, open, slug, artist, missing, unavailable, wiped, steady>>

\* A page that was left still removes the draft, whatever became of it.
SucceedUnseen(s) ==
    /\ sends[s].pc = "ok" /\ sends[s].to = "left"
    /\ Close(s)
    /\ draft' = Null
    /\ wiped' = TRUE
    /\ UNCHANGED <<slots, client, open, page, quote, month, steady>>

Conflict(s) ==
    LET d == sends[s].date IN
    /\ sends[s].pc = "conflict" /\ sends[s].to = "page"
    /\ Close(s)
    /\ submitting' = FALSE /\ unavailable' = TRUE
    /\ Reload(artist = "known" /\ ~submitted)
    /\ steady' = IF slots[d] = "busy" THEN steady \cup {d} ELSE steady
    /\ UNCHANGED <<slots, client, draft, open, slug, artist, missing, form, submitted,
                   quote, wiped>>

\* The other refusals: the artist is not found; the session is over, which hides
\* the form, that stays typed; anything else.
Refuse(s) == \E why \in {"notFound", "expired", "failed"} :
    /\ sends[s].pc = "error" /\ sends[s].to = "page"
    /\ Close(s)
    /\ submitting' = FALSE
    /\ missing' = (missing \/ why = "notFound")
    /\ client' = (client /\ why # "expired")
    /\ UNCHANGED <<slots, draft, open, slug, artist, form, submitted, unavailable,
                   quote, month, wiped, steady>>

\* A refusal nobody sees, but the end of the session counts.
RefuseUnseen(s) ==
    /\ sends[s].pc \in {"conflict", "error"} /\ sends[s].to = "left"
    /\ Close(s)
    /\ client' \in {client, client /\ sends[s].pc # "error"}
    /\ UNCHANGED <<slots, draft, open, page, quote, month, wiped, steady>>

\* The connection is lost, before or after the server has done its part.
Lose(s) ==
    /\ sends[s].pc # "idle" /\ sends[s].to # "nobody"
    /\ sends' = [sends EXCEPT ![s] = IF @.pc = "sent" THEN [@ EXCEPT !.to = "nobody"] ELSE Idle]
    /\ submitting' = (submitting /\ sends[s].to # "page")
    /\ UNCHANGED <<slots, client, draft, open, slug, artist, missing, form, submitted,
                   unavailable, quote, month, wiped, steady>>

\* The agency, the artist and other clients: a request is approved, an artist
\* blocks a day, a booking ends, another client asks first.
Elsewhere(d, v) ==
    /\ <<slots[d], v>> \in {<<"pending", "busy">>, <<"free", "busy">>, <<"free", "pending">>,
                            <<"pending", "free">>, <<"busy", "free">>}
    /\ slots' = [slots EXCEPT ![d] = v]
    /\ steady' = steady \ {d}
    /\ UNCHANGED <<client, draft, open, sends, page, quote, month, wiped>>

-----------------------------------------------------------------------------
Visit ==
    \/ \E p \in Form : Open(p) \/ OpenLegacy(p)
    \/ Resolve \/ ResolveFails
    \/ ArtistArrives \/ ArtistFails
    \/ \E how \in {"navigate", "reload", "close"} : Leave(how)
    \/ SignIn \/ SignOut

Type ==
    \/ \E f \in Form : Edit(f)
    \/ \E d \in Dates : ClickDay(d)

Answer(q) == \E result \in Form \cup {Null} : Quoted(q, result)

Settle(s) ==
    \/ Succeed(s) \/ SucceedUnseen(s)
    \/ Conflict(s)
    \/ Refuse(s) \/ RefuseUnseen(s)

Next ==
    \/ Visit
    \/ Type
    \/ \E q \in Queries : Fire(q) \/ Answer(q)
    \/ Load \/ LoadFails
    \/ SubmitInvalid
    \/ \E s \in Sends :
        \/ Submit(s)
        \/ \E r \in Outcome : Serve(s, r)
        \/ Settle(s)
        \/ Lose(s)
    \/ \E d \in Dates, v \in {"free", "pending", "busy"} : Elsewhere(d, v)

\* A timer fires, a fetch is answered or fails, a server finishes.
Fairness ==
    /\ WF_vars(\E q \in Queries : Fire(q))
    /\ \A q \in Queries : WF_vars(Answer(q))
    /\ \A s \in Sends : WF_vars(\E r \in Outcome : Serve(s, r)) /\ WF_vars(Settle(s))

Spec == Init /\ [][Next]_vars /\ Fairness

-----------------------------------------------------------------------------
\* Properties.

\* What is typed survives a reload or a login: while the page is open with an
\* artist, the draft is the form, and after the request it is gone.  Only the
\* success of a page that was left before removes it meanwhile.
DraftFollowsForm ==
    open /\ slug => IF submitted THEN draft = Null ELSE wiped \/ draft = form

\* "Computing" is on the screen only while the quote of the present form is on
\* its way, however the form changed and whatever was answered meanwhile.
SpinnerHasCause ==
    estimating => Complete(form) /\ (timer \/ \E q \in Queries : asked[q] = form)

\* A quote that is not the one of the form is about to be replaced, or came
\* late: requests are not cancelled, and their answers may overtake each other.
QuoteHasCause ==
    estimate \notin {Null, form} => timer \/ late \/ \E q \in Queries : asked[q] = form

\* After "artist unavailable" the calendar loads again, so that it shows the day
\* that was taken, unless it was released meanwhile.
BusyDaysSeen == unavailable /\ calendar = "loaded" => steady \subseteq marked

\* Spinners end.
SpinnersStop == (estimating ~> ~estimating) /\ (submitting ~> ~submitting)
=============================================================================
