------------------------- MODULE BookingFormProofs -------------------------
(* The booking form keeps what is typed, its spinner and its quote have a    *)
(* cause, and its calendar is not older than the last conflict, for every    *)
(* number of days, set types, quotes and requests under way.  And the two    *)
(* answers of the server that it shows are right: the calendar, for all      *)
(* bookings, unavailabilities, ranges and lengths of the day, and the price, *)
(* for all capacities and ticket prices (Calculations).                      *)
EXTENDS BookingForm, Calculations, FiniteSetTheorems, TLAPS

USE DEF vars, server, page, quote, month

-----------------------------------------------------------------------------
\* Types.

LEMMA InitialType == Initial \in Form /\ Idle \in Send
  BY BookingFormAssumption DEF Form, Initial, Send, Idle

LEMMA InitType == Init => TypeOK
  <1> SUFFICES ASSUME Init PROVE TypeOK
    OBVIOUS
  <1>2. sends \in [Sends -> Send] /\ \A s \in Sends : sends[s].pc = "idle"
    <2>1. sends = [s \in Sends |-> Idle]
      BY DEF Init
    <2>2. Idle.pc = "idle"
      BY DEF Idle
    <2>3. QED
      BY <2>1, <2>2, InitialType
  <1>3. slots \in [Dates -> {"free", "pending", "busy"}]
    <2>1. slots = [d \in Dates |-> "free"]
      BY DEF Init
    <2>2. QED
      BY <2>1
  <1>4. form \in Form /\ asked \in [Queries -> Form \cup {Null}]
    <2>1. form = Initial /\ asked = [q \in Queries |-> Null]
      BY DEF Init
    <2>2. QED
      BY <2>1, InitialType
  <1>5. /\ client \in BOOLEAN /\ open \in BOOLEAN /\ slug \in BOOLEAN /\ missing \in BOOLEAN
        /\ submitted \in BOOLEAN /\ submitting \in BOOLEAN /\ unavailable \in BOOLEAN
        /\ timer \in BOOLEAN /\ estimating \in BOOLEAN /\ wiped \in BOOLEAN /\ late \in BOOLEAN
    BY DEF Init
  <1>6. /\ draft = Null /\ artist = "loading" /\ estimate = Null /\ calendar = "off"
        /\ marked = {} /\ steady = {}
    BY DEF Init
  <1>7. QED
    BY <1>2, <1>3, <1>4, <1>5, <1>6 DEF TypeOK

LEMMA SnappedType ==
  ASSUME NEW f \in Form, NEW a, NEW g \in Snapped(f, a)
  PROVE  g \in Form
  BY BookingFormAssumption DEF Snapped, Form

LEMMA VisitType ==
  ASSUME TypeOK, Visit
  PROVE  TypeOK'
  <1>1. CASE \E p \in Form : Open(p) \/ OpenLegacy(p)
    <2>1. PICK p \in Form : Open(p) \/ OpenLegacy(p)
      BY <1>1
    <2>2. Restored(p) \in Form
      BY BookingFormAssumption DEF TypeOK, Restored, Form
    <2>3. form' \in Form /\ draft' \in Form \cup {Null}
      BY <2>1, <2>2 DEF TypeOK, Open, OpenLegacy
    <2>4. QED
      BY <2>1, <2>3 DEF TypeOK, Open, OpenLegacy, Mount, Fresh
  <1>2. CASE Resolve \/ ResolveFails \/ ArtistFails \/ SignIn \/ SignOut
    <2>1. CASE Resolve
      BY <2>1 DEF TypeOK, Resolve, Persist
    <2>2. CASE ResolveFails
      BY <2>2 DEF TypeOK, ResolveFails
    <2>3. CASE ArtistFails
      BY <2>3 DEF TypeOK, ArtistFails
    <2>4. CASE SignIn
      BY <2>4 DEF TypeOK, SignIn
    <2>5. CASE SignOut
      <3>1. client' \in BOOLEAN
        BY <2>5 DEF SignOut
      <3>2. UNCHANGED <<slots, draft, open, sends, page, quote, month, wiped, steady>>
        BY <2>5 DEF SignOut
      <3>3. QED
        BY <3>1, <3>2 DEF TypeOK
    <2>6. QED
      BY <1>2, <2>1, <2>2, <2>3, <2>4, <2>5
  <1>3. CASE ArtistArrives
    <2>1. PICK g \in Snapped(form, "known") :
            /\ form' = g /\ Requote(g, "known")
            /\ IF submitted \/ g = form THEN UNCHANGED <<draft, wiped>> ELSE Persist(g)
      BY <1>3 DEF ArtistArrives
    <2>2. g \in Form
      BY <2>1, SnappedType DEF TypeOK
    <2>3. form' \in Form /\ draft' \in Form \cup {Null} /\ wiped' \in BOOLEAN
      BY <2>1, <2>2 DEF TypeOK, Persist
    <2>4. timer' \in BOOLEAN /\ estimating' \in BOOLEAN /\ estimate' \in Form \cup {Null}
      BY <2>1 DEF TypeOK, Requote, Complete
    <2>5. QED
      BY <1>3, <2>1, <2>3, <2>4 DEF TypeOK, ArtistArrives, Requote
  <1>4. CASE \E how \in {"navigate", "reload", "close"} : Leave(how)
    <2>1. PICK how \in {"navigate", "reload", "close"} : Leave(how)
      BY <1>4
    <2>2. /\ sends' \in [Sends -> Send]
          /\ \A s \in Sends : sends'[s].pc # "idle" => sends'[s].date \in Dates
      BY <2>1 DEF TypeOK, Leave, Send, Idle, Outcome
    <2>3. form' \in Form /\ draft' \in Form \cup {Null}
      BY <2>1, BookingFormAssumption DEF TypeOK, Leave, Form, Initial
    <2>5. QED
      BY <2>1, <2>2, <2>3 DEF TypeOK, Leave, Fresh
  <1>5. QED
    BY <1>1, <1>2, <1>3, <1>4 DEF Visit

LEMMA TypedType ==
  ASSUME TypeOK, NEW f \in Form, Typed(f)
  PROVE  /\ form' \in Form /\ draft' \in Form \cup {Null} /\ wiped' \in BOOLEAN
         /\ timer' \in BOOLEAN /\ estimating' \in BOOLEAN /\ late' \in BOOLEAN
         /\ estimate' \in Form \cup {Null}
         /\ asked' \in [Queries -> Form \cup {Null}]
  <1>1. PICK g \in Snapped(f, artist) :
          /\ form' = g /\ Requote(g, artist)
          /\ IF slug THEN Persist(g) ELSE UNCHANGED <<draft, wiped>>
    BY DEF Typed
  <1>2. g \in Form
    BY <1>1, SnappedType
  <1>3. QED
    BY <1>1, <1>2 DEF TypeOK, Requote, Persist, Complete

LEMMA FormType ==
  ASSUME TypeOK,
         \/ Type
         \/ \E q \in Queries : Fire(q) \/ Answer(q)
         \/ Load \/ LoadFails
  PROVE  TypeOK'
  <1>1. CASE \E f \in Form : Edit(f)
    <2>1. PICK f \in Form : Edit(f)
      BY <1>1
    <2>2. QED
      BY <2>1, TypedType DEF TypeOK, Edit
  <1>2. CASE \E d \in Dates : ClickDay(d)
    <2>1. PICK d \in Dates : ClickDay(d)
      BY <1>2
    <2>2. [form EXCEPT !.date = d] \in Form
      BY DEF TypeOK, Form
    <2>3. QED
      BY <2>1, <2>2, TypedType DEF TypeOK, ClickDay
  <1>3. CASE \E q \in Queries : Fire(q)
    <2>1. PICK q \in Queries : Fire(q)
      BY <1>3
    <2>2. asked' \in [Queries -> Form \cup {Null}]
      BY <2>1 DEF TypeOK, Fire
    <2>3. timer' \in BOOLEAN /\ UNCHANGED <<slots, client, draft, open, sends, page, estimating,
                                        estimate, late, month, wiped, steady>>
      BY <2>1 DEF Fire
    <2>4. QED
      BY <2>2, <2>3 DEF TypeOK
  <1>4. CASE \E q \in Queries : Answer(q)
    <2>1. PICK q \in Queries, r \in Form \cup {Null} : Quoted(q, r)
      BY <1>4 DEF Answer
    <2>2. asked' \in [Queries -> Form \cup {Null}]
      BY <2>1 DEF TypeOK, Quoted
    <2>3. /\ estimate' \in Form \cup {Null} /\ estimating' \in BOOLEAN /\ late' \in BOOLEAN
          /\ UNCHANGED <<slots, client, draft, open, sends, page, timer, month, wiped, steady>>
      BY <2>1 DEF Quoted
    <2>4. QED
      BY <2>2, <2>3 DEF TypeOK
  <1>5. CASE Load \/ LoadFails
    BY <1>5 DEF TypeOK, Load, LoadFails
  <1>6. QED
    BY <1>1, <1>2, <1>3, <1>4, <1>5 DEF Type

LEMMA RequestType ==
  ASSUME TypeOK, NEW s \in Sends,
         \/ Submit(s) \/ (\E r \in Outcome : Serve(s, r))
         \/ Settle(s) \/ Lose(s)
  PROVE  TypeOK'
  <1>a. sends[s] \in Send /\ Idle \in Send
    BY InitialType DEF TypeOK
  <1>1. CASE Submit(s)
    <2> DEFINE new == [Idle EXCEPT !.date = form.date, !.pc = "sent", !.to = "page"]
    <2>1. new \in Send /\ new.date \in Dates
      BY <1>1 DEF TypeOK, Form, Idle, Send, Submit, Complete
    <2>2. sends' = [sends EXCEPT ![s] = new]
      BY <1>1 DEF Submit
    <2> HIDE DEF new
    <2>3. QED
      BY <1>1, <2>1, <2>2 DEF TypeOK, Submit
  <1>2. CASE \E r \in Outcome : Serve(s, r)
    <2>1. PICK r \in Outcome : Serve(s, r)
      BY <1>2
    <2> DEFINE new == [sends[s] EXCEPT !.pc = r]
    <2>a. /\ new \in Send /\ new.date = sends[s].date /\ sends[s].date \in Dates
          /\ \/ sends' = [sends EXCEPT ![s] = new]
             \/ sends' = [sends EXCEPT ![s] = Idle]
      <3>1. new \in Send
        BY <1>a DEF Send
      <3>2. new.date = sends[s].date
        BY <1>a DEF Send
      <3>3. \/ sends' = [sends EXCEPT ![s] = new]
            \/ sends' = [sends EXCEPT ![s] = Idle]
        BY <2>1 DEF TypeOK, Serve
      <3>4. QED
        BY <2>1, <3>1, <3>2, <3>3 DEF TypeOK, Serve
    <2> HIDE DEF new
    <2>2. /\ sends' \in [Sends -> Send]
          /\ \A c \in Sends : sends'[c].pc # "idle" => sends'[c].date \in Dates
      <3>1. Idle.pc = "idle"
        BY DEF Idle
      <3>2. QED
        BY <1>a, <2>a, <3>1 DEF TypeOK
    <2>3. slots' \in [Dates -> {"free", "pending", "busy"}]
      BY <2>1 DEF TypeOK, Serve
    <2>4. UNCHANGED <<client, draft, open, page, quote, month, wiped, steady>>
      BY <2>1 DEF Serve
    <2>5. QED
      BY <2>2, <2>3, <2>4 DEF TypeOK
  <1>b. Close(s) => /\ sends' \in [Sends -> Send]
                    /\ \A c \in Sends : sends'[c].pc # "idle" => sends'[c].date \in Dates
    BY <1>a DEF TypeOK, Close, Idle
  <1>3. CASE Succeed(s)
    <2>1. PICK g \in Snapped(Initial, artist) : form' = g /\ Requote(g, artist)
      BY <1>3 DEF Succeed
    <2>2. form' \in Form
      BY <2>1, SnappedType, BookingFormAssumption DEF Initial, Form
    <2>3. QED
      BY <1>3, <1>b, <2>1, <2>2 DEF TypeOK, Succeed, Requote, Complete
  <1>4. CASE SucceedUnseen(s)
    BY <1>4, <1>b DEF TypeOK, SucceedUnseen
  <1>5. CASE Conflict(s)
    <2>1. steady' \subseteq Dates
      BY <1>5 DEF TypeOK, Conflict
    <2>2. /\ Close(s) /\ submitting' \in BOOLEAN /\ unavailable' \in BOOLEAN
          /\ calendar' \in {"off", "asked"} /\ marked' = {}
          /\ UNCHANGED <<slots, client, draft, open, slug, artist, missing, form, submitted,
                         quote, wiped>>
      BY <1>5 DEF Conflict, Reload
    <2>3. QED
      BY <1>b, <2>1, <2>2 DEF TypeOK
  <1>6. CASE Refuse(s)
    <2>1. missing' \in BOOLEAN /\ client' \in BOOLEAN
      BY <1>6 DEF Refuse
    <2>2. /\ Close(s) /\ submitting' \in BOOLEAN
          /\ UNCHANGED <<slots, draft, open, slug, artist, form, submitted, unavailable,
                         quote, month, wiped, steady>>
      BY <1>6 DEF Refuse
    <2>3. QED
      BY <1>b, <2>1, <2>2 DEF TypeOK
  <1>7. CASE RefuseUnseen(s)
    <2>1. client' \in BOOLEAN
      BY <1>7 DEF TypeOK, RefuseUnseen
    <2>2. QED
      BY <1>7, <1>b, <2>1 DEF TypeOK, RefuseUnseen
  <1>8. CASE Lose(s)
    <2>1. /\ sends' \in [Sends -> Send]
          /\ \A c \in Sends : sends'[c].pc # "idle" => sends'[c].date \in Dates
      BY <1>8, <1>a DEF TypeOK, Lose, Send, Idle
    <2>2. QED
      BY <1>8, <2>1 DEF TypeOK, Lose
  <1>9. QED
    BY <1>1, <1>2, <1>3, <1>4, <1>5, <1>6, <1>7, <1>8 DEF Settle

LEMMA NextType ==
  ASSUME TypeOK, [Next]_vars
  PROVE  TypeOK'
  <1>1. CASE Visit
    BY <1>1, VisitType
  <1>2. CASE Type \/ (\E q \in Queries : Fire(q) \/ Answer(q)) \/ Load \/ LoadFails
    BY <1>2, FormType
  <1>3. CASE SubmitInvalid
    BY <1>3 DEF TypeOK, SubmitInvalid
  <1>4. ASSUME NEW s \in Sends,
               \/ Submit(s) \/ (\E r \in Outcome : Serve(s, r))
               \/ Settle(s) \/ Lose(s)
        PROVE  TypeOK'
    BY <1>4, RequestType
  <1>5. CASE \E d \in Dates, v \in {"free", "pending", "busy"} : Elsewhere(d, v)
    BY <1>5 DEF TypeOK, Elsewhere
  <1>6. CASE UNCHANGED vars
    BY <1>6 DEF TypeOK
  <1>7. QED
    BY <1>1, <1>2, <1>3, <1>4, <1>5, <1>6 DEF Next

\* Whatever is typed, answered or lost, in whatever order, the state keeps its
\* types; in particular the set type is always one of the list.
THEOREM TypeCorrect == Spec => []TypeOK
  BY InitType, NextType, PTL DEF Spec

-----------------------------------------------------------------------------
\* The quote.

\* What a step may do to the form and the quote: nothing; start with a new page;
\* ask again for what is typed; fire the timer; receive an answer.
QuoteStep ==
    \/ UNCHANGED <<form, quote>>
    \/ estimating' = FALSE /\ estimate' = Null
    \/ \E g \in Form, a \in {"loading", "known", "none"} : form' = g /\ Requote(g, a)
    \/ \E q \in Queries : Fire(q)
    \/ \E q \in Queries, r \in Form \cup {Null} : Quoted(q, r)

LEMMA TypedQuote ==
  ASSUME TypeOK, NEW f \in Form, Typed(f)
  PROVE  \E g \in Form, a \in {"loading", "known", "none"} : form' = g /\ Requote(g, a)
  <1>1. PICK g \in Snapped(f, artist) : form' = g /\ Requote(g, artist)
    BY DEF Typed
  <1>2. g \in Form /\ artist \in {"loading", "known", "none"}
    BY <1>1, SnappedType DEF TypeOK
  <1>3. QED
    BY <1>1, <1>2

LEMMA NextQuote ==
  ASSUME TypeOK, [Next]_vars
  PROVE  QuoteStep
  <1>1. CASE Visit
    <2>1. CASE \E p \in Form : Open(p) \/ OpenLegacy(p)
      BY <2>1 DEF QuoteStep, Open, OpenLegacy, Mount, Fresh
    <2>2. CASE Resolve \/ ResolveFails \/ ArtistFails \/ SignIn \/ SignOut
      BY <2>2 DEF QuoteStep, Resolve, ResolveFails, ArtistFails, SignIn, SignOut
    <2>3. CASE ArtistArrives
      <3>1. PICK g \in Snapped(form, "known") : form' = g /\ Requote(g, "known")
        BY <2>3 DEF ArtistArrives
      <3>2. g \in Form
        BY <3>1, SnappedType DEF TypeOK
      <3>3. QED
        BY <3>1, <3>2 DEF QuoteStep
    <2>4. CASE \E how \in {"navigate", "reload", "close"} : Leave(how)
      BY <2>4 DEF QuoteStep, Leave, Fresh
    <2>5. QED
      BY <1>1, <2>1, <2>2, <2>3, <2>4 DEF Visit
  <1>2. CASE Type
    <2>1. ASSUME NEW f \in Form, Edit(f) PROVE QuoteStep
      <3>1. Typed(f)
        BY <2>1 DEF Edit
      <3>2. QED
        BY <3>1, TypedQuote DEF QuoteStep
    <2>2. ASSUME NEW d \in Dates, ClickDay(d) PROVE QuoteStep
      <3>1. [form EXCEPT !.date = d] \in Form
        BY DEF TypeOK, Form
      <3>2. Typed([form EXCEPT !.date = d])
        BY <2>2 DEF ClickDay
      <3>3. QED
        BY <3>1, <3>2, TypedQuote DEF QuoteStep
    <2>3. QED
      BY <1>2, <2>1, <2>2 DEF Type
  <1>3. CASE \E q \in Queries : Fire(q) \/ Answer(q)
    BY <1>3 DEF QuoteStep, Answer
  <1>4. CASE Load \/ LoadFails \/ SubmitInvalid
    BY <1>4 DEF QuoteStep, Load, LoadFails, SubmitInvalid
  <1>5. ASSUME NEW s \in Sends,
               \/ Submit(s) \/ (\E r \in Outcome : Serve(s, r))
               \/ Settle(s) \/ Lose(s)
        PROVE  QuoteStep
    <2>1. CASE Succeed(s)
      <3>1. PICK g \in Snapped(Initial, artist) : form' = g /\ Requote(g, artist)
        BY <2>1 DEF Succeed
      <3>2. g \in Form /\ artist \in {"loading", "known", "none"}
        BY <3>1, InitialType, SnappedType DEF TypeOK
      <3>3. QED
        BY <3>1, <3>2 DEF QuoteStep
    <2>2. CASE Submit(s) \/ Lose(s) \/ \E r \in Outcome : Serve(s, r)
      BY <2>2 DEF QuoteStep, Submit, Lose, Serve
    <2>3. CASE SucceedUnseen(s) \/ Conflict(s) \/ Refuse(s) \/ RefuseUnseen(s)
      BY <2>3 DEF QuoteStep, SucceedUnseen, Conflict, Refuse, RefuseUnseen
    <2>4. QED
      BY <1>5, <2>1, <2>2, <2>3 DEF Settle
  <1>6. CASE \E d \in Dates, v \in {"free", "pending", "busy"} : Elsewhere(d, v)
    BY <1>6 DEF QuoteStep, Elsewhere
  <1>7. CASE UNCHANGED vars
    BY <1>7 DEF QuoteStep
  <1>8. QED
    BY <1>1, <1>2, <1>3, <1>4, <1>5, <1>6, <1>7 DEF Next

\* Both follow from what a step may do to the quote.
QuoteInvariant == SpinnerHasCause /\ QuoteHasCause

LEMMA StepQuote ==
  ASSUME TypeOK, QuoteStep, QuoteInvariant
  PROVE  QuoteInvariant'
  <1>1. CASE UNCHANGED <<form, quote>>
    BY <1>1 DEF QuoteInvariant, SpinnerHasCause, QuoteHasCause, Complete
  <1>2. CASE estimating' = FALSE /\ estimate' = Null
    BY <1>2 DEF QuoteInvariant, SpinnerHasCause, QuoteHasCause
  <1>3. CASE \E g \in Form, a \in {"loading", "known", "none"} : form' = g /\ Requote(g, a)
    <2>1. PICK g \in Form, a \in {"loading", "known", "none"} : form' = g /\ Requote(g, a)
      BY <1>3
    <2>2. /\ timer' <=> (a = "known" /\ Complete(g))
          /\ estimating' = timer'
          /\ timer' \/ estimate' = Null
      BY <2>1 DEF Requote
    <2>3. SpinnerHasCause'
      <3>1. ASSUME estimating' PROVE timer' /\ Complete(form')
        BY <2>1, <2>2, <3>1
      <3>2. QED
        BY <3>1 DEF SpinnerHasCause, Complete
    <2>4. QuoteHasCause'
      BY <2>2 DEF QuoteHasCause
    <2>5. QED
      BY <2>3, <2>4 DEF QuoteInvariant
  <1>4. CASE \E q \in Queries : Fire(q)
    <2>1. PICK q \in Queries : Fire(q)
      BY <1>4
    <2>2. asked'[q] = form' /\ UNCHANGED <<form, estimating, estimate, late>>
      BY <2>1 DEF Fire, TypeOK
    <2>3. QED
      BY <2>1, <2>2 DEF QuoteInvariant, SpinnerHasCause, QuoteHasCause, Complete
  <1>5. CASE \E q \in Queries, r \in Form \cup {Null} : Quoted(q, r)
    <2>1. PICK q \in Queries, r \in Form \cup {Null} : Quoted(q, r)
      BY <1>5
    <2>2. /\ estimating' = FALSE /\ form' = form
          /\ late' = (asked[q] # form)
          /\ estimate' \in {asked[q], Null}
      BY <2>1 DEF Quoted
    <2>3. SpinnerHasCause'
      BY <2>2 DEF SpinnerHasCause
    <2>4. QuoteHasCause'
      <3>1. CASE asked[q] = form
        BY <2>2, <3>1 DEF QuoteHasCause
      <3>2. CASE asked[q] # form
        <4>1. late'
          BY <2>2, <3>2
        <4>2. QED
          BY <4>1 DEF QuoteHasCause
      <3>3. QED
        BY <3>1, <3>2
    <2>5. QED
      BY <2>3, <2>4 DEF QuoteInvariant
  <1>6. QED
    BY <1>1, <1>2, <1>3, <1>4, <1>5 DEF QuoteStep

LEMMA QuoteInvariance == Spec => []QuoteInvariant
  <1>1. Init => QuoteInvariant
    BY DEF Init, QuoteInvariant, SpinnerHasCause, QuoteHasCause
  <1>2. TypeOK /\ QuoteInvariant /\ [Next]_vars => QuoteInvariant'
    BY NextQuote, StepQuote
  <1>3. QED
    BY <1>1, <1>2, TypeCorrect, PTL DEF Spec

\* "Computing" is shown only while the quote of the present form is on its way,
\* for any number of requests under way and any order of their answers.
THEOREM SpinnerCaused == Spec => []SpinnerHasCause
  <1>1. QuoteInvariant => SpinnerHasCause
    BY DEF QuoteInvariant
  <1>2. QED
    BY <1>1, QuoteInvariance, PTL

\* A quote for other inputs than the form's is being replaced, or came late.
THEOREM QuoteCaused == Spec => []QuoteHasCause
  <1>1. QuoteInvariant => QuoteHasCause
    BY DEF QuoteInvariant
  <1>2. QED
    BY <1>1, QuoteInvariance, PTL

-----------------------------------------------------------------------------
\* The draft and the calendar.

\* What the page's own state must satisfy besides.
PageInvariant ==
    /\ DraftFollowsForm
    /\ submitted => slug
    /\ \A s \in Sends : sends[s].pc # "idle" /\ sends[s].to = "page" => open /\ slug
    /\ calendar = "loaded" => steady \subseteq marked
    /\ \A d \in steady : slots[d] = "busy"
    /\ calendar # "off" => slug /\ ~submitted

LEMMA TypedPage ==
  ASSUME PageInvariant, NEW f, Typed(f), ~submitted,
         UNCHANGED <<slots, open, sends, slug, submitted, calendar, marked, steady>>
  PROVE  PageInvariant'
  <1>1. slug => draft' = form'
    BY DEF Typed, Persist
  <1>2. DraftFollowsForm'
    BY <1>1 DEF DraftFollowsForm
  <1>3. QED
    BY <1>2 DEF PageInvariant

LEMMA NextPage ==
  ASSUME TypeOK, PageInvariant, [Next]_vars
  PROVE  PageInvariant'
  <1>1. CASE \E p \in Form : Open(p) \/ OpenLegacy(p)
    <2>1. PICK p \in Form : Open(p) \/ OpenLegacy(p)
      BY <1>1
    <2>2. /\ ~open /\ open' = TRUE /\ submitted' = FALSE /\ calendar' = "off" /\ steady' = {}
          /\ UNCHANGED <<slots, sends>>
      BY <2>1 DEF Open, OpenLegacy, Mount, Fresh
    <2>3. DraftFollowsForm'
      BY <2>1, <2>2 DEF DraftFollowsForm, Open, OpenLegacy
    <2>4. QED
      BY <2>2, <2>3 DEF PageInvariant
  <1>2. CASE Resolve
    <2>1. /\ slug' = TRUE /\ draft' = form' /\ ~submitted
          /\ UNCHANGED <<slots, open, sends, form, submitted, calendar, marked, steady>>
      BY <1>2 DEF Resolve, Persist, PageInvariant
    <2>2. DraftFollowsForm'
      BY <2>1 DEF DraftFollowsForm
    <2>3. QED
      BY <2>1, <2>2 DEF PageInvariant
  <1>3. CASE ArtistArrives
    <2>1. /\ open /\ slug
          /\ calendar' = IF submitted THEN "off" ELSE "asked"
          /\ UNCHANGED <<slots, open, sends, slug, submitted, marked, steady>>
          /\ submitted \/ form' = form => UNCHANGED <<draft, wiped>>
          /\ ~(submitted \/ form' = form) => draft' = form'
      BY <1>3 DEF ArtistArrives, Persist
    <2>2. DraftFollowsForm'
      BY <2>1 DEF DraftFollowsForm, PageInvariant
    <2>3. QED
      BY <2>1, <2>2 DEF PageInvariant
  <1>4. CASE \E how \in {"navigate", "reload", "close"} : Leave(how)
    <2>1. PICK how \in {"navigate", "reload", "close"} : Leave(how)
      BY <1>4
    <2>2. /\ open' = FALSE /\ submitted' = FALSE /\ calendar' = "off" /\ steady' = {}
          /\ UNCHANGED slots
      BY <2>1 DEF Leave, Fresh
    <2>3. \A s \in Sends : sends'[s].pc # "idle" => sends'[s].to # "page"
      <3>1. ASSUME NEW s \in Sends, sends'[s].pc # "idle"
            PROVE  sends'[s].to # "page"
        <4>1. sends[s] \in Send
          BY DEF TypeOK
        <4>2. QED
          BY <2>1, <3>1, <4>1 DEF Leave, Send, Idle
      <3>2. QED
        BY <3>1
    <2>4. QED
      BY <2>2, <2>3 DEF PageInvariant, DraftFollowsForm
  <1>5. CASE \E f \in Form : Edit(f)
    BY <1>5, TypedPage DEF Edit
  <1>6. CASE \E d \in Dates : ClickDay(d)
    <2>1. PICK d \in Dates : ClickDay(d)
      BY <1>6
    <2>2. ~submitted
      BY <2>1 DEF ClickDay, PageInvariant
    <2>3. QED
      BY <2>1, <2>2, TypedPage DEF ClickDay
  <1>7. CASE \/ ResolveFails \/ ArtistFails \/ SignIn \/ SignOut \/ SubmitInvalid
             \/ \E q \in Queries : Fire(q) \/ Answer(q)
             \/ UNCHANGED vars
    <2>1. UNCHANGED <<slots, draft, open, sends, slug, form, submitted, calendar, marked,
                      wiped, steady>>
      BY <1>7 DEF ResolveFails, ArtistFails, SignIn, SignOut, SubmitInvalid, Fire, Answer, Quoted
    <2>2. QED
      BY <2>1 DEF PageInvariant, DraftFollowsForm
  <1>8. CASE Load \/ LoadFails
    <2>1. /\ calendar # "off" /\ calendar' # "off"
          /\ calendar' = "loaded" => marked' = {d \in Dates : slots[d] = "busy"}
          /\ UNCHANGED <<slots, draft, open, sends, slug, form, submitted, wiped, steady>>
      BY <1>8 DEF Load, LoadFails
    <2>2. QED
      BY <2>1 DEF PageInvariant, DraftFollowsForm, TypeOK
  <1>9. CASE \E d \in Dates, v \in {"free", "pending", "busy"} : Elsewhere(d, v)
    <2>1. PICK d \in Dates, v \in {"free", "pending", "busy"} : Elsewhere(d, v)
      BY <1>9
    <2>2. /\ steady' = steady \ {d} /\ \A e \in Dates \ {d} : slots'[e] = slots[e]
          /\ UNCHANGED <<draft, open, sends, slug, form, submitted, calendar, marked, wiped>>
      BY <2>1 DEF Elsewhere, TypeOK
    <2>3. QED
      BY <2>2 DEF PageInvariant, DraftFollowsForm, TypeOK
  <1>10. ASSUME NEW s \in Sends,
                \/ Submit(s) \/ (\E r \in Outcome : Serve(s, r))
                \/ Settle(s) \/ Lose(s)
         PROVE  PageInvariant'
    <2>a. sends[s] \in Send /\ Idle.pc = "idle"
      BY DEF TypeOK, Idle
    <2>b. ASSUME Close(s)
          PROVE  \A c \in Sends : sends'[c].pc # "idle" => sends'[c] = sends[c]
      BY <2>a, <2>b DEF TypeOK, Close
    <2>1. CASE Submit(s)
      <3>1. \A c \in Sends : c = s \/ sends'[c] = sends[c]
        BY <2>1 DEF TypeOK, Submit
      <3>2. open /\ slug /\ UNCHANGED <<slots, draft, open, slug, form, submitted, calendar,
                                        marked, wiped, steady>>
        BY <2>1 DEF Submit
      <3>3. QED
        BY <3>1, <3>2 DEF PageInvariant, DraftFollowsForm
    <2>2. CASE \E r \in Outcome : Serve(s, r)
      <3>1. PICK r \in Outcome : Serve(s, r)
        BY <2>2
      <3>2. UNCHANGED <<draft, open, slug, form, submitted, calendar, marked, wiped, steady>>
        BY <3>1 DEF Serve
      <3>3. \A c \in Sends : sends'[c].pc # "idle" /\ sends'[c].to = "page" =>
                             sends[c].pc # "idle" /\ sends[c].to = "page"
        <4>1. ASSUME NEW c \in Sends, sends'[c].pc # "idle", sends'[c].to = "page"
              PROVE  sends[c].pc # "idle" /\ sends[c].to = "page"
          <5>1. sends[c] \in Send /\ sends[s].pc = "sent"
            BY <3>1 DEF TypeOK, Serve
          <5>2. QED
            BY <2>a, <3>1, <4>1, <5>1 DEF TypeOK, Serve, Send
        <4>2. QED
          BY <4>1
      <3>4. \A d \in steady : slots'[d] = slots[d]
        <4>1. ASSUME NEW d \in steady PROVE slots'[d] = slots[d]
          <5>1. slots[d] = "busy" /\ d \in Dates
            BY DEF PageInvariant, TypeOK
          <5>2. QED
            BY <3>1, <5>1 DEF Serve, TypeOK
        <4>2. QED
          BY <4>1
      <3>5. QED
        BY <3>2, <3>3, <3>4 DEF PageInvariant, DraftFollowsForm
    <2>3. CASE Succeed(s)
      <3>1. /\ draft' = Null /\ submitted' = TRUE /\ calendar' = "off" /\ Close(s)
            /\ UNCHANGED <<slots, open, slug, steady>> /\ slug
        BY <2>3 DEF Succeed, PageInvariant
      <3>2. QED
        BY <2>b, <3>1 DEF PageInvariant, DraftFollowsForm
    <2>4. CASE SucceedUnseen(s)
      <3>1. /\ draft' = Null /\ wiped' = TRUE /\ Close(s)
            /\ UNCHANGED <<slots, open, slug, submitted, calendar, marked, steady>>
        BY <2>4 DEF SucceedUnseen
      <3>2. QED
        BY <2>b, <3>1 DEF PageInvariant, DraftFollowsForm
    <2>5. CASE Conflict(s)
      <3>1. /\ calendar' \in {"off", "asked"}
            /\ calendar' # "off" => ~submitted
            /\ \A d \in steady' : slots[d] = "busy"
            /\ Close(s) /\ slug
            /\ UNCHANGED <<slots, draft, open, slug, form, submitted, wiped>>
        BY <2>5 DEF Conflict, Reload, PageInvariant
      <3>2. DraftFollowsForm' /\ (submitted' => slug')
        BY <3>1 DEF PageInvariant, DraftFollowsForm
      <3>3. \A c \in Sends : sends'[c].pc # "idle" /\ sends'[c].to = "page" => open' /\ slug'
        BY <2>b, <3>1 DEF PageInvariant
      <3>4. /\ calendar' # "loaded"
            /\ \A d \in steady' : slots'[d] = "busy"
            /\ calendar' # "off" => slug' /\ ~submitted'
        BY <3>1
      <3>5. QED
        BY <3>2, <3>3, <3>4 DEF PageInvariant
    <2>6. CASE Refuse(s) \/ RefuseUnseen(s)
      <3>1. /\ Close(s)
            /\ UNCHANGED <<slots, draft, open, slug, form, submitted, calendar, marked, wiped, steady>>
        BY <2>6 DEF Refuse, RefuseUnseen
      <3>2. QED
        BY <2>b, <3>1 DEF PageInvariant, DraftFollowsForm
    <2>7. CASE Lose(s)
      <3>1. UNCHANGED <<slots, draft, open, slug, form, submitted, calendar, marked, wiped, steady>>
        BY <2>7 DEF Lose
      <3>2. \A c \in Sends : sends'[c].pc # "idle" /\ sends'[c].to = "page" => sends'[c] = sends[c]
        BY <2>a, <2>7 DEF Lose, TypeOK, Send
      <3>3. QED
        BY <3>1, <3>2 DEF PageInvariant, DraftFollowsForm
    <2>8. QED
      BY <1>10, <2>1, <2>2, <2>3, <2>4, <2>5, <2>6, <2>7 DEF Settle
  <1>11. QED
    BY <1>1, <1>2, <1>3, <1>4, <1>5, <1>6, <1>7, <1>8, <1>9, <1>10 DEF Next, Visit, Type

LEMMA PageInvariance == Spec => []PageInvariant
  <1>1. Init => PageInvariant
    <2>1. Idle.pc = "idle"
      BY DEF Idle
    <2>2. QED
      BY <2>1 DEF Init, PageInvariant, DraftFollowsForm
  <1>2. TypeOK /\ PageInvariant /\ [Next]_vars => PageInvariant'
    BY NextPage
  <1>3. QED
    BY <1>1, <1>2, TypeCorrect, PTL DEF Spec

\* The draft is the form of the open page until its request succeeds, whatever
\* requests of pages left before are still answered, unless one of these
\* succeeded; then it is saved again with the next character.
THEOREM DraftKept == Spec => []DraftFollowsForm
  <1>1. PageInvariant => DraftFollowsForm
    BY DEF PageInvariant
  <1>2. QED
    BY <1>1, PageInvariance, PTL

\* A calendar that has loaded after a conflict shows every day that has been
\* busy since.
THEOREM CalendarFresh == Spec => []BusyDaysSeen
  <1>1. PageInvariant => BusyDaysSeen
    BY DEF PageInvariant, BusyDaysSeen
  <1>2. QED
    BY <1>1, PageInvariance, PTL

-----------------------------------------------------------------------------
\* Sums over sets.  The theorems on induction and on recursive functions take an
\* operator; these make do with sets of numbers, from their least elements.

\* A set of numbers that is not empty has a least element.
LEMMA LeastNumber ==
  ASSUME NEW S \in SUBSET Nat, S # {}
  PROVE  \E n \in S : \A m \in S : n <= m
  <1>1. IsWellFoundedOn(OpToRel(<, Nat), Nat)
    BY NatLessThanWellFounded
  <1>2. \E n \in S : \A m \in S : ~(<<m, n>> \in OpToRel(<, Nat))
    BY <1>1, WFMin
  <1>3. \A m, n \in Nat : m < n => <<m, n>> \in OpToRel(<, Nat)
    BY DEF OpToRel
  <1> DEFINE R == OpToRel(<, Nat)
  <1> HIDE DEF R
  <1>4. \A m, n \in Nat : m < n => <<m, n>> \in R
    BY <1>3 DEF R
  <1>5. PICK n \in S : \A m \in S : ~(<<m, n>> \in R)
    BY <1>2 DEF R
  <1>6. \A m \in S : ~(m < n)
    BY <1>4, <1>5
  <1>7. \A m \in S : n <= m
    BY <1>6
  <1>8. QED
    BY <1>7

\* Induction over the numbers, for a set of them.
LEMMA AllNumbers ==
  ASSUME NEW S \in SUBSET Nat, 0 \in S, \A n \in S : n + 1 \in S
  PROVE  S = Nat
  <1> SUFFICES ASSUME S # Nat PROVE FALSE
    OBVIOUS
  <1>1. PICK n \in Nat \ S : \A m \in Nat \ S : n <= m
    <2>1. Nat \ S # {} /\ Nat \ S \in SUBSET Nat
      OBVIOUS
    <2>2. QED
      BY <2>1, LeastNumber
  <1>2. n # 0 /\ n - 1 \in Nat
    OBVIOUS
  <1>3. n - 1 \in S
    BY <1>1, <1>2
  <1>4. (n - 1) + 1 \in S
    BY <1>3
  <1>5. QED
    BY <1>1, <1>4

\* f adds up h over each of the sets, one element at a time (MapThenFoldSet).
Adds(f, h, sets) ==
  f = [s \in sets |-> IF s = {} THEN 0
                      ELSE h[CHOOSE w \in s : TRUE] + f[s \ {CHOOSE w \in s : TRUE}]]

\* There is such a function: the recursion has a solution, by induction on the
\* size of the sets.
LEMMA SumExists ==
  ASSUME NEW W, IsFiniteSet(W), NEW h
  PROVE  \E f : Adds(f, h, SUBSET W)
  <1> DEFINE Sets(n) == {s \in SUBSET W : Cardinality(s) <= n}
             S == {n \in Nat : \E f : Adds(f, h, Sets(n))}
  <1>0. \A s \in SUBSET W : /\ IsFiniteSet(s) /\ Cardinality(s) \in Nat
                            /\ Cardinality(s) <= Cardinality(W)
                            /\ Cardinality(s) = 0 <=> s = {}
    <2> SUFFICES ASSUME NEW s \in SUBSET W
                 PROVE  /\ IsFiniteSet(s) /\ Cardinality(s) \in Nat
                        /\ Cardinality(s) <= Cardinality(W)
                        /\ Cardinality(s) = 0 <=> s = {}
      OBVIOUS
    <2>1. IsFiniteSet(s) /\ Cardinality(s) <= Cardinality(W)
      BY FS_Subset
    <2>2. QED
      BY <2>1, FS_CardinalityType, FS_EmptySet
  <1>1. 0 \in S
    <2>1. Sets(0) = {{}}
      BY <1>0
    <2>2. Adds([s \in Sets(0) |-> 0], h, Sets(0))
      BY <2>1 DEF Adds
    <2>3. QED
      BY <2>2
  <1>2. ASSUME NEW n \in S PROVE n + 1 \in S
    <2>1. PICK f : Adds(f, h, Sets(n))
      OBVIOUS
    <2> DEFINE c(s) == CHOOSE w \in s : TRUE
               g == [s \in Sets(n + 1) |-> IF s = {} THEN 0 ELSE h[c(s)] + f[s \ {c(s)}]]
    <2>2. \A s \in Sets(n + 1) : s # {} => s \ {c(s)} \in Sets(n)
      <3> SUFFICES ASSUME NEW s \in Sets(n + 1), s # {} PROVE s \ {c(s)} \in Sets(n)
        OBVIOUS
      <3>1. c(s) \in s
        OBVIOUS
      <3>2. Cardinality(s \ {c(s)}) = Cardinality(s) - 1
        BY <3>1, <1>0, FS_RemoveElement
      <3>3. QED
        BY <3>2, <1>0
    <2>3. \A s \in Sets(n) : g[s] = f[s]
      <3> SUFFICES ASSUME NEW s \in Sets(n) PROVE g[s] = f[s]
        OBVIOUS
      <3>1. s \in Sets(n + 1)
        BY <1>0
      <3>2. f[s] = IF s = {} THEN 0 ELSE h[c(s)] + f[s \ {c(s)}]
        BY <2>1 DEF Adds
      <3>3. QED
        BY <3>1, <3>2
    <2>4. g = [s \in Sets(n + 1) |-> IF s = {} THEN 0 ELSE h[c(s)] + g[s \ {c(s)}]]
      <3>1. \A s \in Sets(n + 1) : g[s] = IF s = {} THEN 0 ELSE h[c(s)] + g[s \ {c(s)}]
        <4> SUFFICES ASSUME NEW s \in Sets(n + 1)
                     PROVE  g[s] = IF s = {} THEN 0 ELSE h[c(s)] + g[s \ {c(s)}]
          OBVIOUS
        <4>1. CASE s = {}
          BY <4>1
        <4>2. CASE s # {}
          <5>1. g[s] = h[c(s)] + f[s \ {c(s)}]
            BY <4>2
          <5>2. g[s \ {c(s)}] = f[s \ {c(s)}]
            BY <4>2, <2>2, <2>3
          <5> HIDE DEF g, c
          <5>3. QED
            BY <4>2, <5>1, <5>2
        <4>3. QED
          BY <4>1, <4>2
      <3>2. g = [s \in Sets(n + 1) |-> g[s]]
        OBVIOUS
      <3> HIDE DEF g
      <3>3. QED
        BY <3>1, <3>2
    <2>5. Adds(g, h, Sets(n + 1))
      BY <2>4 DEF Adds
    <2> HIDE DEF g, Sets
    <2>6. n + 1 \in Nat /\ \E k : Adds(k, h, Sets(n + 1))
      BY <2>5
    <2>7. QED
      BY <2>6
  <1>3. S = Nat
    BY <1>1, <1>2, AllNumbers
  <1>4. Sets(Cardinality(W)) = SUBSET W /\ Cardinality(W) \in Nat
    BY <1>0
  <1> HIDE DEF Sets
  <1>5. \E f : Adds(f, h, Sets(Cardinality(W)))
    BY <1>3, <1>4
  <1>6. QED
    BY <1>4, <1>5

\* What HoursBlocked adds up is a sum in this sense.
LEMMA HoursBlockedAdds ==
  ASSUME NEW W, IsFiniteSet(W), NEW interval
  PROVE  \E f : /\ Adds(f, [w \in W |-> Common(w, interval)], SUBSET W)
                /\ HoursBlocked(W, interval) = f[W]
  <1> DEFINE h == [w \in W |-> Common(w, interval)]
             c(s) == CHOOSE w \in s : TRUE
             Sum(f) == f = [s \in SUBSET W |->
                              IF s = {} THEN 0 ELSE Common(c(s), interval) + f[s \ {c(s)}]]
             iter == CHOOSE f : Sum(f)
  <1>1. HoursBlocked(W, interval) = iter[W]
    BY DEF HoursBlocked, MapThenSumSet, MapThenFoldSet
  <1>2. PICK f : Adds(f, h, SUBSET W)
    BY SumExists
  <1>3. \A s \in SUBSET W : s # {} => h[c(s)] = Common(c(s), interval)
    <2> SUFFICES ASSUME NEW s \in SUBSET W, s # {}
                 PROVE  h[c(s)] = Common(c(s), interval)
      OBVIOUS
    <2>1. c(s) \in s
      OBVIOUS
    <2>2. QED
      BY <2>1
  <1> HIDE DEF h, c
  <1>4. \A g : Adds(g, h, SUBSET W) <=> Sum(g)
    BY <1>3 DEF Adds, c
  <1>5. Sum(iter)
    <2>1. Sum(f)
      BY <1>2, <1>4
    <2> HIDE DEF Sum
    <2>2. QED
      BY <2>1
  <1> HIDE DEF iter
  <1>6. Adds(iter, h, SUBSET W)
    BY <1>4, <1>5
  <1>7. QED
    BY <1>1, <1>6 DEF h

\* The union of a family of sets.
UnionOf(H, s) == UNION {H[w] : w \in s}

\* The sum f of the sizes h of the sets H, compared with the size of their union.
Counts(f, h, H, s) ==
  /\ f[s] \in Nat
  /\ \A w \in s : h[w] <= f[s]
  /\ f[s] # 0 => \E w \in s : h[w] # 0
  /\ IsFiniteSet(UnionOf(H, s))
  /\ Cardinality(UnionOf(H, s)) <= f[s]
  /\ (\A v, w \in s : v # w => H[v] \cap H[w] = {}) => Cardinality(UnionOf(H, s)) = f[s]

\* By induction on the size of the set.
LEMMA SumCounts ==
  ASSUME NEW W, IsFiniteSet(W), NEW h \in [W -> Nat], NEW H,
         \A w \in W : IsFiniteSet(H[w]) /\ Cardinality(H[w]) = h[w],
         NEW f, Adds(f, h, SUBSET W)
  PROVE  Counts(f, h, H, W)
  <1> DEFINE All(s) == UnionOf(H, s)
             Counted(s) == Counts(f, h, H, s)
             S == {n \in Nat : \A s \in SUBSET W : Cardinality(s) = n => Counted(s)}
  <1>1. ASSUME NEW s \in SUBSET W
        PROVE  /\ IsFiniteSet(s) /\ Cardinality(s) \in Nat
               /\ Cardinality(s) = 0 <=> s = {}
    BY FS_Subset, FS_CardinalityType, FS_EmptySet
  <1>2. Counted({})
    <2>1. f[{}] = 0
      BY DEF Adds
    <2>2. All({}) = {}
      BY DEF UnionOf
    <2>3. IsFiniteSet({}) /\ Cardinality({}) = 0
      BY FS_EmptySet
    <2> HIDE DEF All
    <2>4. IsFiniteSet(All({})) /\ Cardinality(All({})) = 0
      BY <2>2, <2>3
    <2>5. QED
      BY <2>1, <2>4 DEF Counts, All
  <1>3. 0 \in S
    BY <1>1, <1>2
  <1>4. ASSUME NEW n \in S PROVE n + 1 \in S
    <2>0. n \in Nat /\ \A s \in SUBSET W : Cardinality(s) = n => Counted(s)
      OBVIOUS
    <2> HIDE DEF Counted
    <2> SUFFICES ASSUME NEW s \in SUBSET W, Cardinality(s) = n + 1 PROVE Counted(s)
      BY <2>0
    <2> DEFINE x == CHOOSE w \in s : TRUE
               t == s \ {x}
    <2>1. x \in s
      BY <2>0, <1>1
    <2>2. t \in SUBSET W /\ Cardinality(t) = n
      <3>1. Cardinality(s \ {x}) = Cardinality(s) - 1
        BY <2>1, <1>1, FS_RemoveElement
      <3>2. QED
        BY <3>1, <2>0
    <2>3. Counted(t)
      BY <2>0, <2>2
    <2> USE DEF Counted, Counts
    <2>4. f[s] = h[x] + f[t]
      BY <2>1 DEF Adds
    <2>5. x \in W /\ x \notin t /\ s = t \cup {x}
      BY <2>1
    <2> HIDE DEF x, t
    <2>6. All(s) = All(t) \cup H[x]
      BY <2>5 DEF UnionOf
    <2>7. h[x] \in Nat /\ IsFiniteSet(H[x]) /\ Cardinality(H[x]) = h[x]
      BY <2>5
    <2>8. /\ IsFiniteSet(All(s))
          /\ Cardinality(All(s)) = Cardinality(All(t)) + h[x] - Cardinality(All(t) \cap H[x])
      BY <2>3, <2>6, <2>7, FS_Union
    <2>9. /\ Cardinality(All(t) \cap H[x]) \in Nat
          /\ Cardinality(All(t)) \in Nat
      BY <2>3, FS_Intersection, FS_CardinalityType
    <2>10. (\A v, w \in s : v # w => H[v] \cap H[w] = {})
             => /\ Cardinality(All(t) \cap H[x]) = 0
                /\ \A v, w \in t : v # w => H[v] \cap H[w] = {}
      <3> SUFFICES ASSUME \A v, w \in s : v # w => H[v] \cap H[w] = {}
                   PROVE  /\ Cardinality(All(t) \cap H[x]) = 0
                          /\ \A v, w \in t : v # w => H[v] \cap H[w] = {}
        OBVIOUS
      <3>1. All(t) \cap H[x] = {}
        BY <2>5 DEF UnionOf
      <3>2. QED
        BY <3>1, <2>5, FS_EmptySet
    <2>a. /\ f[t] \in Nat
          /\ \A w \in t : h[w] <= f[t]
          /\ f[t] # 0 => \E w \in t : h[w] # 0
          /\ Cardinality(All(t)) <= f[t]
          /\ (\A v, w \in t : v # w => H[v] \cap H[w] = {}) => Cardinality(All(t)) = f[t]
      BY <2>3
    <2> HIDE DEF All, Counts
    <2>11. f[s] \in Nat
      BY <2>a, <2>4, <2>7
    <2>12. \A w \in s : h[w] <= f[s]
      BY <2>a, <2>4, <2>5, <2>7
    <2>13. f[s] # 0 => \E w \in s : h[w] # 0
      BY <2>a, <2>4, <2>5, <2>7
    <2>14. Cardinality(All(s)) <= f[s]
      BY <2>a, <2>4, <2>7, <2>8, <2>9
    <2>15. (\A v, w \in s : v # w => H[v] \cap H[w] = {}) => Cardinality(All(s)) = f[s]
      BY <2>a, <2>4, <2>7, <2>8, <2>9, <2>10
    <2>16. QED
      BY <2>8, <2>11, <2>12, <2>13, <2>14, <2>15 DEF All, Counts
  <1>5. S = Nat
    BY <1>3, <1>4, AllNumbers
  <1>6. Counted(W)
    <2>1. Cardinality(W) \in Nat
      BY <1>1
    <2> HIDE DEF Counted
    <2>2. \A n \in Nat : \A s \in SUBSET W : Cardinality(s) = n => Counted(s)
      BY <1>5
    <2>3. QED
      BY <2>1, <2>2
  <1>7. QED
    BY <1>6

\* Common counts the hours that two intervals share.
LEMMA CommonCounts ==
  ASSUME NEW i, NEW j, i.from \in Int, i.to \in Int, j.from \in Int, j.to \in Int
  PROVE  /\ Common(i, j) \in Nat
         /\ IsFiniteSet(HoursOf(i) \cap HoursOf(j))
         /\ Cardinality(HoursOf(i) \cap HoursOf(j)) = Common(i, j)
         /\ Common(i, j) = 0 <=> HoursOf(i) \cap HoursOf(j) = {}
  <1> DEFINE first == Larger(i.from, j.from)
             last == Smaller(i.to, j.to) - 1
  <1>1. first \in Int /\ last \in Int
    BY DEF Larger, Smaller
  <1>2. HoursOf(i) \cap HoursOf(j) = first..last
    BY DEF HoursOf, Larger, Smaller
  <1>3. Common(i, j) = IF first > last THEN 0 ELSE last - first + 1
    BY DEF Common, Larger, Smaller
  <1> HIDE DEF first, last
  <1>4. /\ IsFiniteSet(first..last)
        /\ Cardinality(first..last) = IF first > last THEN 0 ELSE last - first + 1
    BY <1>1, FS_Interval
  <1>5. Cardinality(first..last) = 0 <=> first..last = {}
    BY <1>4, FS_EmptySet
  <1>6. first..last = {} <=> first > last
    BY <1>1
  <1>7. Common(i, j) \in Nat /\ (Common(i, j) = 0 <=> first > last)
    BY <1>1, <1>3
  <1>8. Cardinality(first..last) = Common(i, j)
    BY <1>3, <1>4
  <1>9. QED
    BY <1>2, <1>4, <1>6, <1>7, <1>8

\* The hours blocked in an interval, against the hours themselves.
LEMMA HoursBlockedCounts ==
  ASSUME NEW W, IsFiniteSet(W), \A w \in W : w.from \in Int /\ w.to \in Int,
         NEW interval, interval.from \in Int, interval.to \in Int
  PROVE  LET hours == HoursOf(interval)
             sum == HoursBlocked(W, interval)
         IN  /\ sum \in Nat
             /\ sum > 0 <=> \E w \in W : HoursOf(w) \cap hours # {}
             /\ hours \subseteq HoursOfAll(W) => sum >= interval.to - interval.from
             /\ sum >= interval.to - interval.from =>
                  \/ hours \subseteq HoursOfAll(W)
                  \/ \E u, v \in W : u # v /\ HoursOf(u) \cap HoursOf(v) \cap hours # {}
  <1> DEFINE hours == HoursOf(interval)
             sum == HoursBlocked(W, interval)
             h == [w \in W |-> Common(w, interval)]
             H == [w \in W |-> HoursOf(w) \cap hours]
             all == UnionOf(H, W)
  <1>1. PICK f : Adds(f, h, SUBSET W) /\ sum = f[W]
    BY HoursBlockedAdds
  <1>2. /\ h \in [W -> Nat]
        /\ \A w \in W : IsFiniteSet(H[w]) /\ Cardinality(H[w]) = h[w]
        /\ \A w \in W : h[w] # 0 <=> H[w] # {}
    BY CommonCounts
  <1>3. \A w \in W : H[w] = HoursOf(w) \cap hours
    OBVIOUS
  <1>4. all = HoursOfAll(W) \cap hours
    BY DEF HoursOfAll, UnionOf
  <1>5. /\ IsFiniteSet(hours)
        /\ Cardinality(hours) = IF interval.from > interval.to - 1 THEN 0
                                ELSE interval.to - interval.from
    BY FS_Interval DEF HoursOf
  <1> HIDE DEF h, H, hours, sum
  <1>6. /\ sum \in Nat
        /\ \A w \in W : h[w] <= sum
        /\ sum # 0 => \E w \in W : h[w] # 0
        /\ Cardinality(all) <= sum
        /\ (\A v, w \in W : v # w => H[v] \cap H[w] = {}) => Cardinality(all) = sum
    <2>1. Adds(f, h, SUBSET W)
      BY <1>1 DEF h
    <2>2. Counts(f, h, H, W)
      BY <2>1, <1>2, SumCounts
    <2>3. QED
      BY <2>2, <1>1 DEF Counts
  <1> HIDE DEF all
  <1>7. sum > 0 <=> \E w \in W : HoursOf(w) \cap hours # {}
    BY <1>2, <1>3, <1>6
  <1>8. hours \subseteq HoursOfAll(W) => sum >= interval.to - interval.from
    <2> SUFFICES ASSUME hours \subseteq HoursOfAll(W) PROVE sum >= interval.to - interval.from
      OBVIOUS
    <2>1. all = hours
      BY <1>4
    <2>2. QED
      BY <2>1, <1>5, <1>6
  <1>9. sum >= interval.to - interval.from =>
          \/ hours \subseteq HoursOfAll(W)
          \/ \E u, v \in W : u # v /\ HoursOf(u) \cap HoursOf(v) \cap hours # {}
    <2> SUFFICES ASSUME sum >= interval.to - interval.from,
                        \A u, v \in W : u # v => HoursOf(u) \cap HoursOf(v) \cap hours = {}
                 PROVE  hours \subseteq HoursOfAll(W)
      OBVIOUS
    <2>1. \A v, w \in W : v # w => H[v] \cap H[w] = {}
      BY <1>3
    <2>2. Cardinality(all) = sum
      BY <2>1, <1>6
    <2>3. all \in SUBSET hours
      BY <1>4
    <2>4. Cardinality(hours) <= Cardinality(all)
      BY <2>2, <1>5, <1>6
    <2>5. Cardinality(all) <= Cardinality(hours) /\ (Cardinality(hours) = Cardinality(all) => hours = all)
      BY <2>3, <1>5, FS_Subset
    <2>6. Cardinality(hours) \in Nat /\ Cardinality(all) \in Nat
      BY <2>2, <1>5, <1>6, FS_CardinalityType
    <2>7. hours = all
      BY <2>4, <2>5, <2>6
    <2>8. QED
      BY <2>7, <1>4
  <1>10. QED
    BY <1>6, <1>7, <1>8, <1>9 DEF hours, sum

-----------------------------------------------------------------------------
\* The days of a time zone.

\* Integer division, by what it leaves.
LEMMA Quotient ==
  ASSUME NEW x \in Int, NEW d \in Int, NEW n \in Nat \ {0}
  PROVE  /\ x \div n \in Int
         /\ d <= x \div n <=> d * n <= x
  <1> DEFINE q == x \div n
  <1>1. q \in Int /\ n * q <= x /\ x < n * q + n
    OBVIOUS
  <1> HIDE DEF q
  <1>2. ASSUME d <= q PROVE d * n <= x
    <2>1. PICK k \in Nat : q = d + k
      BY <1>1, <1>2
    <2>2. n * q = d * n + n * k /\ n * k >= 0
      BY <2>1
    <2>3. QED
      BY <2>2, <1>1
  <1>3. ASSUME d > q PROVE d * n > x
    <2>1. PICK k \in Nat : d = q + 1 + k
      BY <1>1, <1>3
    <2>2. d * n = n * q + n + n * k /\ n * k >= 0
      BY <2>1, <1>1
    <2>3. QED
      BY <2>2, <1>1
  <1>4. QED
    BY <1>1, <1>2, <1>3 DEF q

\* No change of the clock separates the two instants at which a day might begin.
LEMMA OneMidnight ==
  ASSUME NEW z \in Zones, NEW d \in Int
  PROVE  d * DayLength - z.before < z.at <=> d * DayLength - z.after < z.at
  <1> DEFINE b == z.at - 1 + z.before
             a == z.at - 1 + z.after
  <1>1. z.at \in Int /\ z.before \in Int /\ z.after \in Int /\ DayLength \in Nat \ {0}
    BY AnswersAssumption, AvailabilityAssumption
  <1>2. b \div DayLength = a \div DayLength
    BY AnswersAssumption DEF ChangesWithinDay
  <1>3. a \in Int /\ b \in Int
    BY <1>1
  <1>4. d * DayLength <= b <=> d * DayLength <= a
    <2> HIDE DEF a, b
    <2>1. d <= b \div DayLength <=> d * DayLength <= b
      BY <1>1, <1>3, Quotient
    <2>2. d <= a \div DayLength <=> d * DayLength <= a
      BY <1>1, <1>3, Quotient
    <2>3. QED
      BY <1>2, <2>1, <2>2
  <1>5. d * DayLength \in Int
    BY <1>1
  <1>6. QED
    BY <1>1, <1>4, <1>5

\* Midnight is the first instant of its day.
LEMMA MidnightIsFirst ==
  ASSUME NEW z \in Zones, NEW d \in Int, NEW t \in Int
  PROVE  /\ ZonedDay(z, t) \in Int
         /\ Midnight(z, d) \in Int
         /\ d <= ZonedDay(z, t) <=> Midnight(z, d) <= t
  <1> DEFINE n == d * DayLength
  <1>1. z.at \in Int /\ z.before \in Int /\ z.after \in Int /\ DayLength \in Nat \ {0}
    BY AnswersAssumption, AvailabilityAssumption
  <1>2. n \in Int
    BY <1>1
  <1>3. TimeZoneOffset(z, t) \in Int
    BY <1>1 DEF TimeZoneOffset
  <1>4. /\ ZonedDay(z, t) \in Int
        /\ d <= ZonedDay(z, t) <=> n <= t + TimeZoneOffset(z, t)
    <2> DEFINE x == t + TimeZoneOffset(z, t)
    <2>1. x \in Int
      BY <1>3
    <2> HIDE DEF x
    <2>2. x \div DayLength \in Int /\ (d <= x \div DayLength <=> n <= x)
      BY <1>1, <2>1, Quotient
    <2>3. QED
      BY <2>2 DEF ZonedDay, x
  <1>5. n - z.before < z.at <=> n - z.after < z.at
    BY OneMidnight
  <1>6. Midnight(z, d) = IF n - z.before < z.at THEN n - z.before ELSE n - z.after
    <2> HIDE DEF n
    <2>1. \A s \in {n - z.before, n - z.after} :
             n - TimeZoneOffset(z, s) = IF n - z.before < z.at THEN n - z.before ELSE n - z.after
      BY <1>1, <1>2, <1>5 DEF TimeZoneOffset
    <2>2. n - TimeZoneOffset(z, n) \in {n - z.before, n - z.after}
      BY DEF TimeZoneOffset
    <2>3. Midnight(z, d) = n - TimeZoneOffset(z, n - TimeZoneOffset(z, n))
      BY DEF Midnight, n
    <2>4. QED
      BY <2>1, <2>2, <2>3
  <1> HIDE DEF n
  <1>7. Midnight(z, d) \in Int
    BY <1>1, <1>2, <1>6
  <1>8. n <= t + TimeZoneOffset(z, t) <=> Midnight(z, d) <= t
    BY <1>1, <1>2, <1>5, <1>6 DEF TimeZoneOffset
  <1>9. QED
    BY <1>4, <1>7, <1>8

\* A day is no longer than two.
LEMMA DaysShort ==
  ASSUME NEW z \in Zones, NEW d \in Int
  PROVE  Midnight(z, d + 1) - Midnight(z, d) <= 2 * DayLength
  <1> DEFINE n == d * DayLength
             next == (d + 1) * DayLength
  <1>1. /\ z.at \in Int /\ z.before \in Int /\ z.after \in Int /\ DayLength \in Nat \ {0}
        /\ z.after - z.before \in -DayLength..DayLength
    BY AnswersAssumption, AvailabilityAssumption DEF ChangesWithinDay
  <1>2. n \in Int /\ next \in Int /\ next = n + DayLength
    BY <1>1
  <1>3. Midnight(z, d) \in {n - z.before, n - z.after}
    BY DEF Midnight, TimeZoneOffset
  <1>4. Midnight(z, d + 1) \in {next - z.before, next - z.after}
    BY DEF Midnight, TimeZoneOffset
  <1> HIDE DEF n, next
  <1>5. QED
    BY <1>1, <1>2, <1>3, <1>4

-----------------------------------------------------------------------------
\* The rows, and the answer that was given last.
AnswersInv ==
  /\ zone \in Zones
  /\ bookings \cup unavailabilities \subseteq [id : Nat, from : Int, to : Int]
  /\ IsFiniteSet(bookings) /\ IsFiniteSet(unavailabilities)
  /\ requested # None => /\ requested \in Ranges
                         /\ shown = GetPublic(zone, requested, bookings, unavailabilities)
  /\ quoted # None => quoted \in Input

\* A row is an interval of instants.
LEMMA RowKnown ==
  ASSUME AnswersInv, NEW i \in Intervals
  PROVE  Row(i) \in [id : Nat, from : Int, to : Int]
  <1>1. IsFiniteSet(bookings \cup unavailabilities)
    BY FS_Union DEF AnswersInv
  <1>2. Cardinality(bookings \cup unavailabilities) \in Nat
    BY <1>1, FS_CardinalityType
  <1>3. i.from \in Int /\ i.to \in Int
    BY AnswersAssumption
  <1>4. QED
    BY <1>2, <1>3 DEF Row

\* The rows are finitely many intervals and what is shown is the answer for them.
LEMMA AnswersInvariance == AnswersSpec => []AnswersInv
  <1>1. AnswersInit => AnswersInv
    BY FS_EmptySet DEF AnswersInit, AnswersInv
  <1>2. AnswersInv /\ [AnswersNext]_answersVars => AnswersInv'
    <2> SUFFICES ASSUME AnswersInv, [AnswersNext]_answersVars PROVE AnswersInv'
      OBVIOUS
    <2>1. ASSUME NEW i \in Intervals, Book(i) PROVE AnswersInv'
      <3>1. bookings' = bookings \cup {Row(i)} /\ requested' = None
            /\ UNCHANGED <<zone, unavailabilities, quoted>>
        BY <2>1 DEF Book
      <3>2. IsFiniteSet(bookings')
        BY <3>1, FS_AddElement DEF AnswersInv
      <3>3. QED
        BY <3>1, <3>2, RowKnown DEF AnswersInv
    <2>2. ASSUME NEW i \in Intervals, Block(i) PROVE AnswersInv'
      <3>1. unavailabilities' = unavailabilities \cup {Row(i)} /\ requested' = None
            /\ UNCHANGED <<zone, bookings, quoted>>
        BY <2>2 DEF Block
      <3>2. IsFiniteSet(unavailabilities')
        BY <3>1, FS_AddElement DEF AnswersInv
      <3>3. QED
        BY <3>1, <3>2, RowKnown DEF AnswersInv
    <2>3. ASSUME NEW range \in Ranges, ShowCalendar(range) PROVE AnswersInv'
      BY <2>3 DEF ShowCalendar, AnswersInv
    <2>4. ASSUME NEW i \in Input, Estimate(i) PROVE AnswersInv'
      BY <2>4 DEF Estimate, AnswersInv
    <2>5. CASE UNCHANGED answersVars
      BY <2>5 DEF answersVars, AnswersInv
    <2>6. QED
      BY <2>1, <2>2, <2>3, <2>4, <2>5 DEF AnswersNext
  <1>3. QED
    BY <1>1, <1>2, PTL DEF AnswersSpec

\* The interval of an answered day has the hours of that day, however far one looks.
LEMMA HoursOfDay ==
  ASSUME zone \in Zones, NEW range, range.from \in Int, range.to \in Int,
         NEW day \in DaysAnswered(zone, range)
  PROVE  /\ DayInterval(zone, day).from \in Int
         /\ DayInterval(zone, day).to \in Int
         /\ HoursOf(DayInterval(zone, day))
              = Day(day, (range.from - 2 * DayLength)..(range.to + 2 * DayLength))
  <1> DEFINE first == ZonedDay(zone, range.from)
             m == Midnight(zone, day)
             n == Midnight(zone, day + 1)
  <1>1. /\ first \in Int /\ ZonedDay(zone, range.to) \in Int
        /\ DayLength \in Nat \ {0} /\ first + 1 \in Int
    BY MidnightIsFirst, AvailabilityAssumption
  <1>2. day \in Int /\ day + 1 \in Int /\ first <= day /\ m < range.to
    BY <1>1 DEF DaysAnswered
  <1>3. m \in Int /\ n \in Int /\ Midnight(zone, first) \in Int
        /\ Midnight(zone, first + 1) \in Int
    BY <1>1, <1>2, MidnightIsFirst
  <1>4. n - m <= 2 * DayLength
    BY <1>2, DaysShort
  <1>5. range.from - 2 * DayLength <= m
    <2>1. range.from < Midnight(zone, first + 1)
      <3>1. ~(first + 1 <= first)
        BY <1>1
      <3>2. ~(Midnight(zone, first + 1) <= range.from)
        BY <3>1, <1>1, MidnightIsFirst
      <3>3. QED
        BY <3>2, <1>3
    <2>2. Midnight(zone, first + 1) - Midnight(zone, first) <= 2 * DayLength
      BY <1>1, DaysShort
    <2>3. Midnight(zone, first) <= m
      <3>1. day <= ZonedDay(zone, m) /\ ZonedDay(zone, m) \in Int
        BY <1>2, <1>3, MidnightIsFirst
      <3>2. first <= ZonedDay(zone, m)
        BY <3>1, <1>1, <1>2
      <3>3. QED
        BY <3>2, <1>1, <1>3, MidnightIsFirst
    <2>4. QED
      BY <2>1, <2>2, <2>3, <1>1, <1>3
  <1>6. \A t \in Int : m <= t /\ t < n <=> ZonedDay(zone, t) = day
    <2> SUFFICES ASSUME NEW t \in Int PROVE m <= t /\ t < n <=> ZonedDay(zone, t) = day
      OBVIOUS
    <2>1. ZonedDay(zone, t) \in Int /\ (day <= ZonedDay(zone, t) <=> m <= t)
      BY <1>2, MidnightIsFirst
    <2>2. day + 1 <= ZonedDay(zone, t) <=> n <= t
      BY <1>2, MidnightIsFirst
    <2>3. QED
      BY <2>1, <2>2, <1>2, <1>3
  <1>7. DayInterval(zone, day).from = m /\ DayInterval(zone, day).to = n
    BY DEF DayInterval
  <1> HIDE DEF m, n, first
  <1>8. HoursOf(DayInterval(zone, day)) = m..(n - 1)
    BY <1>7 DEF HoursOf
  <1> DEFINE span == (range.from - 2 * DayLength)..(range.to + 2 * DayLength)
  <1>9. m..(n - 1) \subseteq span
    BY <1>1, <1>2, <1>3, <1>4, <1>5
  <1>10. span \subseteq Int
    BY <1>1
  <1> HIDE DEF span
  <1>11. m..(n - 1) = {t \in span : ZonedDay(zone, t) = day}
    <2>1. \A t \in m..(n - 1) : t \in Int /\ m <= t /\ t < n
      BY <1>3
    <2>2. \A t \in Int : m <= t /\ t < n => t \in m..(n - 1)
      BY <1>3
    <2>3. QED
      BY <2>1, <2>2, <1>6, <1>9, <1>10
  <1>12. QED
    BY <1>3, <1>7, <1>8, <1>11 DEF Day, span

\* Two intervals meet when they share an hour.
LEMMA MetByCommon ==
  ASSUME NEW i, NEW j, i.from \in Int, i.to \in Int, j.from \in Int, j.to \in Int
  PROVE  Common(i, j) > 0 <=> HoursOf(i) \cap HoursOf(j) # {}
  <1>1. Common(i, j) \in Nat /\ (Common(i, j) = 0 <=> HoursOf(i) \cap HoursOf(j) = {})
    BY CommonCounts
  <1>2. QED
    BY <1>1

\* An answer agrees with the hours of the days.
LEMMA AnswerByTheHour ==
  ASSUME AnswersInv, requested # None
  PROVE  StatusByTheHour
  <1> DEFINE booked == HoursOfAll(bookings)
             blocked == HoursOfAll(unavailabilities)
             range == requested
             B == Listed(bookings, range)
             U == Listed(unavailabilities, range)
             span == (requested.from - 2 * DayLength)..(requested.to + 2 * DayLength)
             overlap(day) == \E u, v \in unavailabilities :
                 u # v /\ Day(day, HoursOf(u)) \cap Day(day, HoursOf(v)) # {}
             hours(day) == Day(day, span)
             whole(day) == hours(day) \subseteq HoursOf(requested)
  <1>1. /\ range.from \in Int /\ range.to \in Int /\ zone \in Zones
        /\ shown = GetPublic(zone, range, bookings, unavailabilities)
    BY AnswersAssumption DEF AnswersInv
  <1>2. \A row \in bookings \cup unavailabilities : row.from \in Int /\ row.to \in Int
    BY DEF AnswersInv
  <1>3. \A row \in bookings \cup unavailabilities :
          Common(row, range) > 0 <=> HoursOf(row) \cap HoursOf(range) # {}
    BY <1>1, <1>2, MetByCommon
  <1>4. /\ \A b \in B : b \in bookings /\ b.from \in Int /\ b.to \in Int
        /\ \A u \in U : u \in unavailabilities /\ u.from \in Int /\ u.to \in Int
        /\ \A b \in bookings : HoursOf(b) \cap HoursOf(range) # {} => b \in B
        /\ \A u \in unavailabilities : HoursOf(u) \cap HoursOf(range) # {} => u \in U
        /\ IsFiniteSet(U)
    <2>1. U \in SUBSET unavailabilities
      BY DEF Listed
    <2>2. IsFiniteSet(U)
      BY <2>1, FS_Subset DEF AnswersInv
    <2>3. QED
      BY <2>2, <1>2, <1>3 DEF Listed
  <1>5. DOMAIN shown = DaysAnswered(zone, range)
    BY <1>1 DEF GetPublic
  <1>6. \A t \in HoursOf(requested) : ZonedDay(zone, t) \in DOMAIN shown
    <2> SUFFICES ASSUME NEW t \in HoursOf(range) PROVE ZonedDay(zone, t) \in DaysAnswered(zone, range)
      BY <1>5
    <2> DEFINE day == ZonedDay(zone, t)
               low == ZonedDay(zone, range.from)
               high == ZonedDay(zone, range.to)
    <2>1. t \in Int /\ range.from <= t /\ t < range.to
      BY <1>1 DEF HoursOf
    <2>2. low \in Int /\ high \in Int /\ day \in Int
      BY <1>1, <2>1, MidnightIsFirst
    <2>3. Midnight(zone, day) \in Int /\ Midnight(zone, low) \in Int
      BY <1>1, <2>1, <2>2, MidnightIsFirst
    <2>4. Midnight(zone, day) <= t
      <3>1. day <= day
        BY <2>2
      <3>2. QED
        BY <3>1, <1>1, <2>1, <2>2, MidnightIsFirst
    <2>5. Midnight(zone, low) <= range.from
      <3>1. low <= low
        BY <2>2
      <3>2. QED
        BY <3>1, <1>1, <2>2, MidnightIsFirst
    <2>6. low <= day
      <3>1. Midnight(zone, low) <= t
        BY <1>1, <2>1, <2>3, <2>5
      <3>2. QED
        BY <3>1, <1>1, <2>1, <2>2, MidnightIsFirst
    <2>7. day <= high
      <3>1. Midnight(zone, day) <= range.to
        BY <1>1, <2>1, <2>3, <2>4
      <3>2. QED
        BY <3>1, <1>1, <2>2, MidnightIsFirst
    <2> HIDE DEF day, low, high
    <2>8. day \in low..(high + 1) /\ Midnight(zone, day) < range.to
      BY <1>1, <2>1, <2>2, <2>3, <2>4, <2>6, <2>7
    <2>9. QED
      BY <2>8 DEF DaysAnswered, day, low, high
  <1>7. ASSUME NEW day \in DOMAIN shown
        PROVE  /\ shown[day] = "free" => hours(day) \cap HoursOf(requested) \cap (booked \cup blocked) = {}
               /\ shown[day] = "busy" => \/ hours(day) \cap booked # {}
                                         \/ hours(day) \subseteq blocked
                                         \/ overlap(day)
               /\ whole(day) /\ (hours(day) \cap booked # {} \/ hours(day) \subseteq blocked)
                    => shown[day] = "busy"
               /\ whole(day) /\ hours(day) \cap blocked # {} => shown[day] # "free"
               /\ shown[day] = "partial" => hours(day) \cap blocked # {}
    <2> DEFINE interval == DayInterval(zone, day)
               sum == HoursBlocked(U, interval)
               len == interval.to - interval.from
               H == hours(day)
    <2>1. day \in DaysAnswered(zone, range)
      BY <1>5
    <2>2. /\ interval.from \in Int /\ interval.to \in Int
          /\ HoursOf(interval) = H
      BY <1>1, <2>1, HoursOfDay
    <2>3. shown[day] = Status(interval, B, U)
      BY <1>1, <2>1 DEF GetPublic
    <2> HIDE DEF B, U, interval
    <2>4. /\ sum \in Nat
          /\ sum > 0 <=> \E w \in U : HoursOf(w) \cap H # {}
          /\ H \subseteq HoursOfAll(U) => sum >= len
          /\ sum >= len => \/ H \subseteq HoursOfAll(U)
                           \/ \E u, v \in U : u # v /\ HoursOf(u) \cap HoursOf(v) \cap H # {}
      <3> HIDE DEF hours
      <3>1. QED
        BY <1>4, <2>2, HoursBlockedCounts
    <2> DEFINE full == sum >= len
               taken == \E b \in B : HoursOf(b) \cap H # {}
    <2>5. taken <=> \E b \in B : Common(b, interval) > 0
      <3>1. \A b \in B : Common(b, interval) > 0 <=> HoursOf(b) \cap H # {}
        BY <1>4, <2>2, MetByCommon
      <3>2. QED
        BY <3>1
    <2>6. /\ shown[day] = "busy" <=> taken \/ full
          /\ shown[day] = "partial" => sum > 0
          /\ shown[day] = "free" <=> ~taken /\ ~full /\ ~(sum > 0)
      BY <2>3, <2>5 DEF Status
    <2>7. \A t \in H : t \in Int /\ ZonedDay(zone, t) = day
      BY <1>1, AvailabilityAssumption DEF Day
    <2> HIDE DEF full, sum, len, hours, taken
    <2>8. HoursOfAll(U) \subseteq blocked
      BY <1>4 DEF HoursOfAll
    <2>9. \A t \in booked : \E b \in bookings : t \in HoursOf(b)
      BY DEF HoursOfAll
    <2>10. \A t \in blocked : \E u \in unavailabilities : t \in HoursOf(u)
      BY DEF HoursOfAll
    <2>11. \A t \in H \cap HoursOf(requested) : /\ t \in booked => taken
                                                /\ t \in blocked => sum > 0 /\ t \in HoursOfAll(U)
      <3> SUFFICES ASSUME NEW t \in H \cap HoursOf(range)
                   PROVE  /\ t \in booked => taken
                          /\ t \in blocked => sum > 0 /\ t \in HoursOfAll(U)
        OBVIOUS
      <3>1. ASSUME t \in booked PROVE taken
        <4>1. PICK b \in bookings : t \in HoursOf(b)
          BY <3>1, <2>9
        <4>2. b \in B
          BY <4>1, <1>4
        <4>3. QED
          BY <4>1, <4>2 DEF taken
      <3>2. ASSUME t \in blocked PROVE sum > 0 /\ t \in HoursOfAll(U)
        <4>1. PICK u \in unavailabilities : t \in HoursOf(u)
          BY <3>2, <2>10
        <4>2. u \in U
          BY <4>1, <1>4
        <4>3. QED
          BY <4>1, <4>2, <2>4 DEF HoursOfAll
      <3>3. QED
        BY <3>1, <3>2
    <2>12. taken => H \cap booked # {}
      BY <1>4 DEF taken, HoursOfAll
    <2>13. sum > 0 => H \cap blocked # {}
      BY <1>4, <2>4 DEF HoursOfAll
    <2>14. full => H \subseteq blocked \/ overlap(day)
      <3> SUFFICES ASSUME full, ~(H \subseteq blocked) PROVE overlap(day)
        OBVIOUS
      <3>1. PICK u \in U, v \in U : u # v /\ HoursOf(u) \cap HoursOf(v) \cap H # {}
        BY <2>4, <2>8 DEF full
      <3>2. PICK t \in H : t \in HoursOf(u) /\ t \in HoursOf(v)
        BY <3>1
      <3>3. t \in Day(day, HoursOf(u)) \cap Day(day, HoursOf(v))
        BY <3>2, <2>7 DEF Day
      <3>4. u \in unavailabilities /\ v \in unavailabilities
        BY <1>4
      <3>5. QED
        BY <3>1, <3>3, <3>4
    <2>15. whole(day) /\ H \cap booked # {} => taken
      BY <2>11
    <2>16. whole(day) /\ H \subseteq blocked => full
      <3> SUFFICES ASSUME whole(day), H \subseteq blocked PROVE full
        OBVIOUS
      <3>1. H \subseteq HoursOfAll(U)
        BY <2>11
      <3>2. QED
        BY <3>1, <2>4 DEF full
    <2>17. whole(day) /\ H \cap blocked # {} => sum > 0
      BY <2>11
    <2>18. shown[day] = "free" => H \cap HoursOf(requested) \cap (booked \cup blocked) = {}
      BY <2>6, <2>11
    <2> HIDE DEF booked, blocked, overlap, whole, H
    <2>19. QED
      BY <2>6, <2>12, <2>13, <2>14, <2>15, <2>16, <2>17, <2>18 DEF H
  <1> HIDE DEF booked, blocked, overlap, span
  <1>8. QED
    BY <1>6, <1>7 DEF StatusByTheHour, booked, blocked, overlap, span

\* Every calendar that getPublic answers tells the days as their hours are, across
\* a change of the clock, for any length of the day, any rows and any range.
THEOREM CalendarTold == AnswersSpec => []StatusByTheHour
  <1>1. AnswersInv => StatusByTheHour
    BY AnswerByTheHour DEF StatusByTheHour
  <1>2. QED
    BY <1>1, AnswersInvariance, PTL

-----------------------------------------------------------------------------
\* Prices.

\* Products grow with both factors, and strictly with the first.
LEMMA Products ==
  ASSUME NEW m \in Nat, NEW n \in Nat, NEW c \in Nat, NEW p \in Nat, m <= n, c <= p
  PROVE  m * c \in Nat /\ n * p \in Nat /\ m * c <= n * p
  <1>1. PICK k \in Nat : n = m + k
    BY SMT
  <1>2. PICK q \in Nat : p = c + q
    BY SMT
  <1>3. n * p = m * c + m * q + k * c + k * q
    BY <1>1, <1>2
  <1>4. m * c \in Nat /\ m * q \in Nat /\ k * c \in Nat /\ k * q \in Nat
    OBVIOUS
  <1>5. QED
    BY <1>3, <1>4

\* An exact half that is rounded down is dearer than what has less.
LEMMA EurosGrow ==
  ASSUME NEW m \in Nat \ {0}, NEW n \in Nat, NEW c \in Nat, NEW p \in Nat, m <= n, c <= p
  PROVE  Euros(m, c) \in Nat /\ Euros(m, c) <= Euros(n, p)
  <1> DEFINE a == m * c
             b == n * p
  <1>1. a \in Nat /\ b \in Nat /\ a <= b
    BY Products
  <1>2. a = b => (m = n /\ c = p) \/ a = 0
    <2> SUFFICES ASSUME a = b, a # 0 PROVE m = n /\ c = p
      OBVIOUS
    <2>1. c # 0
      OBVIOUS
    <2>2. m = n
      <3> SUFFICES ASSUME m < n PROVE FALSE
        OBVIOUS
      <3>1. (m + 1) * c <= b /\ (m + 1) * c = a + c
        <4>1. m + 1 \in Nat /\ m + 1 <= n
          OBVIOUS
        <4>2. QED
          BY <4>1, Products
      <3> HIDE DEF a, b
      <3>2. QED
        BY <3>1, <2>1, <1>1
    <2>3. c = p
      <3> SUFFICES ASSUME c < p PROVE FALSE
        OBVIOUS
      <3>1. m * (c + 1) <= b /\ m * (c + 1) = a + m
        <4>1. c + 1 \in Nat /\ c + 1 <= p
          OBVIOUS
        <4>2. QED
          BY <4>1, Products
      <3> HIDE DEF a, b
      <3>2. QED
        BY <3>1, <1>1
    <2>4. QED
      BY <2>2, <2>3
  <1>3. /\ <<m, c>> \in HalvesLost => a % 100 = 50
        /\ <<n, p>> \in HalvesLost => b % 100 = 50
    BY PricingAssumption
  <1>4. /\ Euros(m, c) = IF <<m, c>> \in HalvesLost THEN a \div 100 ELSE (2 * a + 100) \div 200
        /\ Euros(n, p) = IF <<n, p>> \in HalvesLost THEN b \div 100 ELSE (2 * b + 100) \div 200
    BY DEF Euros, Rounded
  <1> HIDE DEF a, b
  <1>5. Euros(m, c) \in Nat
    BY <1>1, <1>4
  <1>6. CASE <<n, p>> \notin HalvesLost
    BY <1>1, <1>4, <1>6
  <1>7. CASE <<n, p>> \in HalvesLost /\ a # b
    BY <1>1, <1>3, <1>4, <1>7
  <1>8. CASE <<n, p>> \in HalvesLost /\ a = b
    <2>1. m = n /\ c = p
      BY <1>1, <1>2, <1>3, <1>8
    <2>2. QED
      BY <2>1, <1>4, <1>5, <1>8
  <1>9. QED
    BY <1>5, <1>6, <1>7, <1>8

\* The multiplier of every room, level and set, in the order of each.
LEMMA MultipliersGrow ==
  ASSUME NEW c \in Nat, NEW d \in Nat, c <= d,
         NEW k \in ArtistLevel, NEW l \in ArtistLevel, k <= l,
         NEW s \in ArtistSetType, NEW t \in ArtistSetType, SetTypeUplift(s) <= SetTypeUplift(t)
  PROVE  /\ Multiplier(c, k, s) \in 20..69
         /\ Multiplier(c, k, s) <= Multiplier(d, l, t)
  <1>1. /\ BaseMultiplier(c, k) \in {20, 30, 40, 50, 60}
        /\ BaseMultiplier(d, l) \in {20, 30, 40, 50, 60}
        /\ BaseMultiplier(c, k) <= BaseMultiplier(d, l)
    BY DEF BaseMultiplier, Large, ArtistLevel
  <1>2. /\ SetTypeUplift("dj") = 100 /\ SetTypeUplift("hybrid") = 110 /\ SetTypeUplift("live") = 115
    BY DEF SetTypeUplift
  <1> DEFINE times(b, u) == IF b = 50 /\ u = "live" THEN 57 ELSE Rounded(b * SetTypeUplift(u), 100)
  <1>3. \A b \in {20, 30, 40, 50, 60}, u \in ArtistSetType :
           times(b, u) = CASE u = "dj" -> b
                           [] u = "hybrid" -> b + b \div 10
                           [] u = "live" -> CASE b = 20 -> 23 [] b = 30 -> 35 [] b = 40 -> 46
                                              [] b = 50 -> 57 [] b = 60 -> 69
    BY <1>2 DEF Rounded, ArtistSetType
  <1>4. Multiplier(c, k, s) = times(BaseMultiplier(c, k), s)
        /\ Multiplier(d, l, t) = times(BaseMultiplier(d, l), t)
    BY DEF Multiplier
  <1> HIDE DEF times
  <1>5. QED
    BY <1>1, <1>2, <1>3, <1>4 DEF ArtistSetType


\* What costs no less on every count costs no less altogether.
LEMMA TotalsGrow ==
  ASSUME NEW i \in Input, NEW j \in Input,
         i.capacity <= j.capacity, i.level <= j.level, i.cents <= j.cents,
         SetTypeUplift(i.set) <= SetTypeUplift(j.set),
         OptionPrice(i.option) <= OptionPrice(j.option)
  PROVE  /\ Total(i) \in Nat
         /\ Total(i) <= Total(j)
         /\ OptionPrice(i.option) < OptionPrice(j.option) => Total(i) < Total(j)
  <1>1. /\ i.capacity \in Nat /\ j.capacity \in Nat /\ i.cents \in Nat /\ j.cents \in Nat
        /\ i.level \in ArtistLevel /\ j.level \in ArtistLevel
        /\ i.set \in ArtistSetType /\ j.set \in ArtistSetType
    BY AnswersAssumption DEF Input
  <1> DEFINE m == Multiplier(i.capacity, i.level, i.set)
             n == Multiplier(j.capacity, j.level, j.set)
  <1>2. m \in 20..69 /\ m <= n
    BY <1>1, MultipliersGrow
  <1>3. n \in 20..69
    <2>1. j.capacity <= j.capacity /\ j.level <= j.level
          /\ SetTypeUplift(j.set) <= SetTypeUplift(j.set)
      BY <1>1 DEF ArtistLevel, ArtistSetType, SetTypeUplift
    <2>2. QED
      BY <1>1, <2>1, MultipliersGrow
  <1> HIDE DEF m, n
  <1>4. Euros(m, i.cents) \in Nat /\ Euros(m, i.cents) <= Euros(n, j.cents)
    BY <1>1, <1>2, <1>3, EurosGrow
  <1>5. Euros(n, j.cents) \in Nat
    BY <1>1, <1>3, EurosGrow
  <1>6. OptionPrice(i.option) \in Nat /\ OptionPrice(j.option) \in Nat
    BY DEF OptionPrice
  <1>7. /\ Subtotal(i) = Euros(m, i.cents) * 100 + OptionPrice(i.option)
        /\ Subtotal(j) = Euros(n, j.cents) * 100 + OptionPrice(j.option)
    BY DEF Subtotal, Recommended, m, n
  <1>8. /\ Subtotal(i) \in Nat /\ Subtotal(j) \in Nat /\ Subtotal(i) <= Subtotal(j)
        /\ OptionPrice(i.option) < OptionPrice(j.option) => Subtotal(i) < Subtotal(j)
    BY <1>4, <1>5, <1>6, <1>7
  <1>9. QED
    BY <1>8 DEF Total, Rounded

\* Uplifts are numbers, and so can be compared.
LEMMA UpliftsComparable == \A s, t \in ArtistSetType : SetTypeUplift(s) \in Nat
  BY DEF ArtistSetType, SetTypeUplift

\* An estimate is in the order of the price list.
LEMMA EstimateInOrder ==
  ASSUME AnswersInv, quoted # None
  PROVE  PricesOrdered
  <1> DEFINE q == quoted
  <1>1. /\ q \in Input
        /\ q.capacity \in Nat /\ q.cents \in Nat /\ q.level \in ArtistLevel
        /\ q.set \in ArtistSetType
    BY AnswersAssumption DEF AnswersInv, Input
  <1>2. /\ q.capacity <= q.capacity /\ q.cents <= q.cents /\ q.level <= q.level
        /\ SetTypeUplift(q.set) <= SetTypeUplift(q.set)
        /\ OptionPrice(q.option) <= OptionPrice(q.option)
    BY <1>1, UpliftsComparable DEF ArtistLevel, OptionPrice
  <1>3. \A c \in Capacities : c > q.capacity => Total(q) <= Total([q EXCEPT !.capacity = c])
    <2> SUFFICES ASSUME NEW c \in Capacities, c > q.capacity
                 PROVE  Total(q) <= Total([q EXCEPT !.capacity = c])
      OBVIOUS
    <2> DEFINE r == [q EXCEPT !.capacity = c]
    <2>1. r \in Input /\ r.capacity = c /\ q.capacity <= c
          /\ r.cents = q.cents /\ r.level = q.level /\ r.set = q.set /\ r.option = q.option
      BY <1>1, AnswersAssumption DEF Input
    <2> HIDE DEF r
    <2>2. QED
      BY <1>1, <1>2, <2>1, TotalsGrow DEF r
  <1>4. \A p \in TicketPrices : p > q.cents => Total(q) <= Total([q EXCEPT !.cents = p])
    <2> SUFFICES ASSUME NEW p \in TicketPrices, p > q.cents
                 PROVE  Total(q) <= Total([q EXCEPT !.cents = p])
      OBVIOUS
    <2> DEFINE r == [q EXCEPT !.cents = p]
    <2>1. r \in Input /\ r.cents = p /\ q.cents <= p
          /\ r.capacity = q.capacity /\ r.level = q.level /\ r.set = q.set /\ r.option = q.option
      BY <1>1, AnswersAssumption DEF Input
    <2> HIDE DEF r
    <2>2. QED
      BY <1>1, <1>2, <2>1, TotalsGrow DEF r
  <1>5. \A l \in ArtistLevel : l > q.level => Total(q) <= Total([q EXCEPT !.level = l])
    <2> SUFFICES ASSUME NEW l \in ArtistLevel, l > q.level
                 PROVE  Total(q) <= Total([q EXCEPT !.level = l])
      OBVIOUS
    <2> DEFINE r == [q EXCEPT !.level = l]
    <2>1. r \in Input /\ r.level = l /\ q.level <= l
          /\ r.capacity = q.capacity /\ r.cents = q.cents /\ r.set = q.set /\ r.option = q.option
      BY <1>1 DEF Input, ArtistLevel
    <2> HIDE DEF r
    <2>2. QED
      BY <1>1, <1>2, <2>1, TotalsGrow DEF r
  <1>6. \A s \in ArtistSetType : SetTypeUplift(s) > SetTypeUplift(q.set) =>
           Total(q) <= Total([q EXCEPT !.set = s])
    <2> SUFFICES ASSUME NEW s \in ArtistSetType, SetTypeUplift(s) > SetTypeUplift(q.set)
                 PROVE  Total(q) <= Total([q EXCEPT !.set = s])
      OBVIOUS
    <2> DEFINE r == [q EXCEPT !.set = s]
    <2>1. r \in Input /\ r.set = s
          /\ r.capacity = q.capacity /\ r.cents = q.cents /\ r.level = q.level
          /\ r.option = q.option
      BY <1>1 DEF Input
    <2>2. SetTypeUplift(q.set) <= SetTypeUplift(s)
      BY <1>1, UpliftsComparable
    <2> HIDE DEF r
    <2>3. QED
      BY <1>1, <1>2, <2>1, <2>2, TotalsGrow DEF r
  <1>7. \A o \in Options : OptionPrice(o) > OptionPrice(q.option) =>
           Total(q) < Total([q EXCEPT !.option = o])
    <2> SUFFICES ASSUME NEW o \in Options, OptionPrice(o) > OptionPrice(q.option)
                 PROVE  Total(q) < Total([q EXCEPT !.option = o])
      OBVIOUS
    <2> DEFINE r == [q EXCEPT !.option = o]
    <2>1. r \in Input /\ r.option = o
          /\ r.capacity = q.capacity /\ r.cents = q.cents /\ r.level = q.level /\ r.set = q.set
      BY <1>1 DEF Input
    <2>2. OptionPrice(q.option) <= OptionPrice(o) /\ OptionPrice(q.option) < OptionPrice(o)
      BY DEF OptionPrice
    <2> HIDE DEF r
    <2>3. QED
      BY <1>1, <1>2, <2>1, <2>2, TotalsGrow DEF r
  <1>8. 0 <= Deposit(q) /\ Deposit(q) <= Total(q)
    <2>1. Total(q) \in Nat
      BY <1>1, <1>2, TotalsGrow
    <2>2. QED
      BY <2>1 DEF Deposit, Rounded
  <1>9. q.set = "dj" => FloorFee(q) <= Recommended(q) /\ Recommended(q) <= CapFee(q)
    <2> SUFFICES ASSUME q.set = "dj"
                 PROVE  FloorFee(q) <= Recommended(q) /\ Recommended(q) <= CapFee(q)
      OBVIOUS
    <2> DEFINE low == IF Large(q.capacity) THEN 30 ELSE 20
               mid == Multiplier(q.capacity, q.level, q.set)
               high == IF Large(q.capacity) THEN 60 ELSE 50
    <2>1. low \in Nat \ {0} /\ mid \in Nat \ {0} /\ high \in Nat /\ low <= mid /\ mid <= high
      BY <1>1 DEF Multiplier, BaseMultiplier, SetTypeUplift, Rounded, Large, ArtistLevel
    <2> HIDE DEF low, mid, high
    <2>2. Euros(low, q.cents) <= Euros(mid, q.cents) /\ Euros(mid, q.cents) <= Euros(high, q.cents)
      BY <1>1, <1>2, <2>1, EurosGrow
    <2>3. QED
      BY <2>2 DEF FloorFee, Recommended, CapFee, low, mid, high
  <1>10. QED
    BY <1>3, <1>4, <1>5, <1>6, <1>7, <1>8, <1>9 DEF PricesOrdered

\* The price list keeps its order through all roundings, for all capacities and
\* ticket prices (computeArtistFee, computeBookingTotal, computeQuote).
THEOREM PriceList == AnswersSpec => []PricesOrdered
  <1>1. AnswersInv => PricesOrdered
    BY EstimateInOrder DEF PricesOrdered
  <1>2. QED
    BY <1>1, AnswersInvariance, PTL
=============================================================================
