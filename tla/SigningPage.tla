---------------------------- MODULE SigningPage ----------------------------
(***************************************************************************)
(* The page on which an artist signs the engagement contract               *)
(* (pages/ArtistOnboardingContract, and ContractSection of the profile, the *)
(* same code without the personal data): it opens Documenso in another tab  *)
(* and then polls the server until the contract is signed or ten minutes    *)
(* are over.                                                                *)
(*                                                                          *)
(* A click, a poll and a reload are asynchronous functions that go on when  *)
(* their request is answered, whatever the page has become meanwhile: two   *)
(* polls overlap when an answer takes longer than the interval, and a page  *)
(* that was left still hears its answers.  So what a visit of the page owns *)
(* for itself (pollTimerRef) is kept per visit, what is on the screen for   *)
(* the present visit only.                                                  *)
(*                                                                          *)
(* The server is the one contract as this page sees it, signed or not (a    *)
(* draft and a pending one differ in the label of the button); its handlers *)
(* are in Engagement.  The personal data typed on the page is left out.     *)
(***************************************************************************)
EXTENDS Naturals, FiniteSets

CONSTANTS
    Visits,  \* instances of the page, one mounted at a time (bound)
    Timers,  \* intervals of the browser (bound)
    Calls,   \* requests under way (bound)
    None

ASSUME SigningPageAssumption == None \notin Visits \cup Timers

\* What a call waits for: the answer to a click on Sign, or to a reload, which
\* is the first of a visit, the one that follows a click (the contract was
\* signed already, or Documenso was opened), or a poll of a timer.  An answer
\* that is neither "signed" nor an address to sign at tells the page nothing.
Call == [pc : {"idle", "sent", "answered"},
         kind : {"sign", "first", "already", "opened", "poll"},
         visit : Visits \cup {None}, timer : Timers \cup {None},
         answer : {"signed", "url", "nothing"}]

Idle == [pc |-> "idle", kind |-> "first", visit |-> None, timer |-> None,
         answer |-> "nothing"]

VARIABLES
    signed,     \* the server: whether the engagement contract is signed
    \* The page that is open.
    visit,      \* which, or None
    shown,      \* whether the screen shows it as signed
    loading,
    submitting, \* the button spins
    awaiting,   \* "waiting for the signature"
    \* The browser.
    ref,        \* pollTimerRef, per visit
    owner,      \* per interval: the visit that set it, None if it is not running
    old,        \* intervals that were set more than ten minutes ago
    calls,
    \* History.
    replaced    \* intervals that were in a pollTimerRef that got another one

screen == <<visit, shown, loading, submitting>>
vars == <<signed, screen, awaiting, ref, owner, old, calls, replaced>>

Running == {t \in Timers : owner[t] # None}
Mine(c) == calls[c].visit = visit
Asked(c) == calls[c].pc = "sent"
Answered(c, kinds) == calls[c].pc = "answered" /\ calls[c].kind \in kinds

Sent(kind, v, t) == [Idle EXCEPT !.pc = "sent", !.kind = kind, !.visit = v, !.timer = t]

\* An identifier that nothing refers to any more.
Unused(t) ==
    /\ owner[t] = None
    /\ \A c \in Calls : calls[c].timer # t
    /\ \A v \in Visits : ref[v] # t

\* The bound on intervals stops clicks, not the polling they lead to.
TimerLeft ==
    Cardinality({c \in Calls : calls[c].kind \in {"sign", "opened"}})
        < Cardinality({t \in Timers : Unused(t)})

Finished(v) ==
    /\ \A c \in Calls : calls[c].visit # v
    /\ \A t \in Timers : owner[t] # v

Init ==
    /\ signed \in BOOLEAN
    /\ visit = None /\ shown = FALSE
    /\ loading = FALSE /\ submitting = FALSE /\ awaiting = FALSE
    /\ ref = [v \in Visits |-> None]
    /\ owner = [t \in Timers |-> None]
    /\ old = {} /\ replaced = {}
    /\ calls = [c \in Calls |-> Idle]

-----------------------------------------------------------------------------
\* Intervals.

\* startPollingForSignature of visit v.
StartPolling(v) ==
    \E t \in Timers :
        /\ Unused(t)
        /\ owner' = [owner EXCEPT ![t] = v]
        /\ ref' = [ref EXCEPT ![v] = t]
        /\ replaced' = (replaced \cup {ref[v]}) \ {t, None}
        /\ old' = old \ {t}
        /\ awaiting' = (awaiting \/ v = visit)

\* Variant: the interval goes on.
StopPollingLoosely(v) ==
    /\ ref' = [ref EXCEPT ![v] = None]
    /\ awaiting' = (awaiting /\ v # visit)
    /\ UNCHANGED <<owner, old, replaced>>

\* Variant: the page keeps saying that it waits.
StopPollingSilently(v) ==
    /\ owner' = [t \in Timers |-> IF t = ref[v] THEN None ELSE owner[t]]
    /\ ref' = [ref EXCEPT ![v] = None]
    /\ UNCHANGED <<awaiting, old, replaced>>

\* stopPolling of visit v: it knows no interval but the one in its ref.
StopPolling(v) ==
    /\ owner' = [t \in Timers |-> IF t = ref[v] THEN None ELSE owner[t]]
    /\ ref' = [ref EXCEPT ![v] = None]
    /\ awaiting' = (awaiting /\ v # visit)
    /\ UNCHANGED <<old, replaced>>

NoTimers == UNCHANGED <<awaiting, ref, owner, old, replaced>>

\* Variants: a poll that never gives up, one that gives up at once.
OverNever(t) == FALSE
OverAtOnce(t) == TRUE

\* The callback's check of the ten minutes.
Over(t) == t \in old

-----------------------------------------------------------------------------
\* The artist and the browser.

Open(v, c) ==
    /\ visit = None /\ Finished(v) /\ calls[c] = Idle
    /\ visit' = v /\ shown' = FALSE /\ loading' = TRUE /\ submitting' = FALSE
    /\ calls' = [calls EXCEPT ![c] = Sent("first", v, None)]
    /\ NoTimers /\ UNCHANGED signed

\* Variant: the button does not mind spinning.
ClickableAlways == visit # None /\ ~loading /\ ~shown

\* The button is there while the page does not show the contract as signed, and
\* ignores clicks while it spins.
Clickable == visit # None /\ ~loading /\ ~shown /\ ~submitting

Sign(c) ==
    /\ Clickable /\ calls[c] = Idle /\ TimerLeft
    /\ submitting' = TRUE
    /\ calls' = [calls EXCEPT ![c] = Sent("sign", visit, None)]
    /\ NoTimers /\ UNCHANGED <<signed, visit, shown, loading>>

\* The artist goes elsewhere, or is taken to the bookings 1.5 seconds after the
\* page showed the contract as signed.
Leave ==
    /\ visit # None
    /\ visit' = None /\ shown' = FALSE /\ loading' = FALSE /\ submitting' = FALSE
    /\ StopPolling(visit)
    /\ UNCHANGED <<signed, calls>>

\* The tab is closed or reloaded: nothing is left of any visit.
CloseTab ==
    /\ visit' = None /\ shown' = FALSE
    /\ loading' = FALSE /\ submitting' = FALSE /\ awaiting' = FALSE
    /\ ref' = [v \in Visits |-> None]
    /\ owner' = [t \in Timers |-> None]
    /\ old' = {} /\ replaced' = {}
    /\ calls' = [c \in Calls |-> Idle]
    /\ UNCHANGED signed

\* Three seconds have passed, whether the previous poll is answered or not.
Tick(t, c) ==
    /\ owner[t] # None /\ calls[c] = Idle
    /\ calls' = [calls EXCEPT ![c] = Sent("poll", owner[t], t)]
    /\ NoTimers /\ UNCHANGED <<signed, screen>>

TenMinutes(t) ==
    /\ owner[t] # None
    /\ old' = old \cup {t}
    /\ UNCHANGED <<signed, screen, awaiting, ref, owner, calls, replaced>>

-----------------------------------------------------------------------------
\* The server, and requests or answers that are lost.

\* signEngagementContract: a contract that is signed has no address to sign at,
\* and an envelope may have none.
ServeSign(c) ==
    /\ Asked(c) /\ calls[c].kind = "sign"
    /\ \E a \in IF signed THEN {"signed"} ELSE {"url", "nothing"} :
           calls' = [calls EXCEPT ![c].pc = "answered", ![c].answer = a]
    /\ NoTimers /\ UNCHANGED <<signed, screen>>

ServeReload(c) ==
    /\ Asked(c) /\ calls[c].kind # "sign"
    /\ calls' = [calls EXCEPT ![c].pc = "answered",
                             ![c].answer = IF signed THEN "signed" ELSE "nothing"]
    /\ NoTimers /\ UNCHANGED <<signed, screen>>

\* An error on the way there or back: the functions that fetch answer null, and
\* a contract that is null is shown as unsigned.
Lose(c) ==
    /\ calls[c].pc # "idle"
    /\ calls' = [calls EXCEPT ![c].pc = "answered", ![c].answer = "nothing"]
    /\ NoTimers /\ UNCHANGED <<signed, screen>>

\* The artist signs in the other tab and the webhook arrives, or an admin resets
\* the contract.
Elsewhere == signed' = ~signed /\ NoTimers /\ UNCHANGED <<screen, calls>>

-----------------------------------------------------------------------------
\* The page goes on with an answer.

\* An answered click: without an address there is nothing more to do, with one
\* (or a contract that is signed already) the page reloads before it goes on.
Clicked(c) ==
    /\ Answered(c, {"sign"})
    /\ submitting' = (submitting /\ ~Mine(c))
    /\ calls' = [calls EXCEPT ![c] =
           CASE @.answer = "signed" -> Sent("already", @.visit, None)
             [] @.answer = "url" -> Sent("opened", @.visit, None)
             [] OTHER -> Idle]
    /\ NoTimers /\ UNCHANGED <<signed, visit, shown, loading>>

\* reload, of whatever kind, puts what it got on the screen.
Show(c) ==
    /\ shown' = IF Mine(c) THEN calls[c].answer = "signed" ELSE shown
    /\ loading' = (loading /\ ~Mine(c))
    /\ calls' = [calls EXCEPT ![c] = Idle]
    /\ UNCHANGED <<signed, visit, submitting>>

Reloaded(c) == Answered(c, {"first", "already"}) /\ Show(c) /\ NoTimers

Opened(c) == Answered(c, {"opened"}) /\ Show(c) /\ StartPolling(calls[c].visit)

\* Variant: the callback does nothing once its page is left.
PolledMounted(c) ==
    /\ Answered(c, {"poll"})
    /\ Show(c)
    /\ IF Mine(c) /\ (calls[c].answer = "signed" \/ Over(calls[c].timer))
       THEN StopPolling(calls[c].visit)
       ELSE NoTimers

Polled(c) ==
    /\ Answered(c, {"poll"})
    /\ Show(c)
    /\ IF calls[c].answer = "signed" \/ Over(calls[c].timer)
       THEN StopPolling(calls[c].visit)
       ELSE NoTimers

-----------------------------------------------------------------------------
Next ==
    \/ \E v \in Visits, c \in Calls : Open(v, c)
    \/ \E c \in Calls : Sign(c)
    \/ Leave \/ CloseTab
    \/ \E t \in Timers, c \in Calls : Tick(t, c)
    \/ \E t \in Timers : TenMinutes(t)
    \/ \E c \in Calls : ServeSign(c) \/ ServeReload(c) \/ Lose(c)
    \/ Elsewhere
    \/ \E c \in Calls : Clicked(c) \/ Reloaded(c) \/ Opened(c) \/ Polled(c)

Spec == Init /\ [][Next]_vars

\* The browser's clock and intervals go on, every request is answered or fails,
\* and the page hears of it.  A poll needs one of the bounded Calls, which are
\* taken again and again but never for good: hence strong fairness.
Fairness ==
    /\ \A t \in Timers : WF_vars(TenMinutes(t))
    /\ \A t \in Timers : SF_vars(\E c \in Calls : Tick(t, c))
    /\ \A c \in Calls : WF_vars(ServeSign(c) \/ ServeReload(c))
    /\ \A c \in Calls : WF_vars(Clicked(c) \/ Reloaded(c) \/ Opened(c) \/ Polled(c))

FairSpec == Spec /\ Fairness

-----------------------------------------------------------------------------
TypeOK ==
    /\ visit \in Visits \cup {None}
    /\ {signed, shown, loading, submitting, awaiting} \subseteq BOOLEAN
    /\ ref \in [Visits -> Timers \cup {None}]
    /\ owner \in [Timers -> Visits \cup {None}]
    /\ old \subseteq Timers /\ replaced \subseteq Timers
    /\ calls \in [Calls -> Call]

\* A visit of the page has one click on Sign with the server at a time (the
\* button's isLoading): what Engagement needs for a signature not to be undone
\* by a second envelope.  A page that is left and opened again is another visit.
OneSignPerVisit ==
    \A c, d \in Calls :
        /\ calls[c].pc # "idle" /\ calls[c].kind = "sign"
        /\ calls[d].pc # "idle" /\ calls[d].kind = "sign"
        /\ calls[c].visit = calls[d].visit
        => c = d

\* The page says that it waits exactly while an interval that it can stop runs
\* for it, however clicks, polls and visits overlap.
WaitingIsPolled ==
    awaiting <=> visit # None /\ ref[visit] \in Running /\ owner[ref[visit]] = visit

\* An interval that runs and that no visit can stop was replaced: the artist
\* clicked "resume" while the page was polling (pollTimerRef holds one).
StraysWereReplaced == \A t \in Running : ref[owner[t]] = t \/ t \in replaced

\* A page stops waiting when it shows the signature, when it is left, or when
\* an interval of the same visit has run for ten minutes, be it one that was
\* replaced.
GivesUpForCause ==
    [][awaiting /\ ~awaiting' =>
         \/ visit' # visit \/ shown'
         \/ \E c \in Calls : Answered(c, {"poll"}) /\ Mine(c) /\ calls[c].timer \in old]_vars

\* A page does not say for ever that it waits for the signature.
WaitingEnds == awaiting ~> ~awaiting

\* An interval stops some day, of a page that was left too, unless it was
\* replaced: those poll, and report the signature, until the tab is closed.
PollsStop == \A t \in Timers : (owner[t] # None) ~> (owner[t] = None \/ t \in replaced)

-----------------------------------------------------------------------------
\* What the invariants rest on.

\* A request belongs to a visit, and while a click of the visit on the screen
\* is with the server, the button spins.
CallsOwned ==
    \A c \in Calls : calls[c].pc # "idle" =>
        /\ calls[c].visit \in Visits
        /\ calls[c].kind = "sign" /\ calls[c].visit = visit => submitting

\* What a visit has in its ref runs, and for this visit.
RefsRun == \A v \in Visits : ref[v] # None => owner[ref[v]] = v

PageInvariant ==
    /\ TypeOK
    /\ OneSignPerVisit /\ CallsOwned
    /\ WaitingIsPolled /\ StraysWereReplaced /\ RefsRun

=============================================================================
