------------------------- MODULE SigningPageProofs -------------------------
(* Proofs about the signing page, for any number of visits, intervals and    *)
(* requests.                                                                 *)
EXTENDS SigningPage, TLAPS

USE SigningPageAssumption

LEMMA IdleCall == Idle \in Call /\ Idle.pc = "idle"
  BY DEF Idle, Call

LEMMA SentCall ==
    ASSUME NEW kind \in {"sign", "first", "already", "opened", "poll"},
           NEW v \in Visits, NEW t \in Timers \cup {None}
    PROVE  /\ Sent(kind, v, t) \in Call
           /\ Sent(kind, v, t).pc = "sent" /\ Sent(kind, v, t).kind = kind
           /\ Sent(kind, v, t).visit = v
  BY DEF Sent, Idle, Call

LEMMA PageInit == Init => PageInvariant
  BY IdleCall DEF Init, PageInvariant, TypeOK, OneSignPerVisit, CallsOwned,
     WaitingIsPolled, StraysWereReplaced, RefsRun, Running

-----------------------------------------------------------------------------
\* The two halves of the invariant: intervals, and requests.

Timing == WaitingIsPolled /\ StraysWereReplaced /\ RefsRun
Asking == OneSignPerVisit /\ CallsOwned

\* A step that leaves page and intervals alone keeps what is about them.
LEMMA TimingKept ==
    ASSUME Timing, NoTimers, visit' = visit
    PROVE  Timing'
  BY DEF Timing, NoTimers, WaitingIsPolled, StraysWereReplaced, RefsRun, Running

LEMMA StartKeepsTiming ==
    ASSUME TypeOK, Timing, NEW v \in Visits, StartPolling(v), visit' = visit
    PROVE  Timing'
<1>1. PICK t \in Timers :
         /\ Unused(t)
         /\ owner' = [owner EXCEPT ![t] = v]
         /\ ref' = [ref EXCEPT ![v] = t]
         /\ replaced' = (replaced \cup {ref[v]}) \ {t, None}
         /\ awaiting' = (awaiting \/ v = visit)
  BY DEF StartPolling
<1>2. RefsRun'
  BY <1>1 DEF TypeOK, Timing, RefsRun, Unused
<1>3. WaitingIsPolled'
  BY <1>1 DEF TypeOK, Timing, WaitingIsPolled, RefsRun, Running, Unused
<1>4. StraysWereReplaced'
  BY <1>1 DEF TypeOK, Timing, StraysWereReplaced, RefsRun, Running, Unused
<1>. QED
  BY <1>2, <1>3, <1>4 DEF Timing

LEMMA StopKeepsTiming ==
    ASSUME TypeOK, Timing, NEW v \in Visits, StopPolling(v),
           visit' = visit \/ (v = visit /\ visit' = None)
    PROVE  Timing'
<1>1. RefsRun'
  BY DEF TypeOK, Timing, RefsRun, StopPolling
<1>2. WaitingIsPolled'
  BY DEF TypeOK, Timing, WaitingIsPolled, RefsRun, Running, StopPolling
<1>3. StraysWereReplaced'
  BY DEF TypeOK, Timing, StraysWereReplaced, RefsRun, Running, StopPolling
<1>. QED
  BY <1>1, <1>2, <1>3 DEF Timing

\* Whatever happens to a request but its being a new click keeps what is about
\* requests: it goes on for the same visit, or is done.
LEMMA AskingKept ==
    ASSUME TypeOK, Asking, NEW c \in Calls, NEW call \in Call,
           calls' = [calls EXCEPT ![c] = call],
           call.pc # "idle" =>
               /\ call.visit \in Visits
               /\ call.kind = "sign" =>
                     calls[c].pc # "idle" /\ calls[c].kind = "sign" /\ calls[c].visit = call.visit,
           visit' = visit \/ visit' = None,
           submitting' = submitting \/ (calls[c].kind = "sign" /\ call.kind # "sign"
                                        /\ calls[c].pc # "idle"
                                        /\ submitting' = (submitting /\ ~Mine(c)))
    PROVE  Asking'
<1>1. \A d \in Calls : d # c => calls'[d] = calls[d]
  BY DEF TypeOK
<1>2. calls'[c] = call
  BY DEF TypeOK
<1>3. OneSignPerVisit'
  BY <1>1, <1>2 DEF Asking, OneSignPerVisit
<1>4. ASSUME NEW d \in Calls, calls'[d].pc # "idle"
      PROVE  /\ calls'[d].visit \in Visits
             /\ calls'[d].kind = "sign" /\ calls'[d].visit = visit' => submitting'
  <2>1. CASE d = c
    BY <1>2, <1>4, <2>1 DEF Asking, CallsOwned
  <2>2. CASE d # c
    <3>1. calls'[d] = calls[d] /\ calls[d].pc # "idle" /\ calls[d].visit \in Visits
      BY <1>1, <1>4, <2>2 DEF Asking, CallsOwned
    <3>2. CASE submitting' = submitting
      BY <3>1, <3>2 DEF Asking, CallsOwned
    <3>3. CASE calls[c].pc # "idle" /\ calls[c].kind = "sign" /\ submitting' = (submitting /\ ~Mine(c))
      <4>1. SUFFICES ASSUME calls[d].kind = "sign", calls[d].visit = visit' PROVE submitting'
        BY <3>1
      <4>2. visit' = visit
        BY <3>1, <4>1
      <4>3. submitting /\ ~Mine(c)
        BY <2>2, <3>1, <3>3, <4>1, <4>2 DEF Asking, CallsOwned, OneSignPerVisit, Mine
      <4>. QED
        BY <3>3, <4>3
    <3>. QED
      BY <3>2, <3>3
  <2>. QED
    BY <2>1, <2>2
<1>. QED
  BY <1>3, <1>4 DEF Asking, CallsOwned

-----------------------------------------------------------------------------
\* The actions.

Inv == TypeOK /\ Asking /\ Timing

LEMMA OpenKeeps ==
    ASSUME Inv, NEW v \in Visits, NEW c \in Calls, Open(v, c)
    PROVE  Inv'
<1>1. /\ Sent("first", v, None) \in Call
      /\ Sent("first", v, None).kind = "first" /\ Sent("first", v, None).visit = v
  BY SentCall
<1>2. TypeOK'
  BY <1>1 DEF Open, NoTimers, Inv, TypeOK
<1>3. Asking'
  BY <1>1 DEF Open, Finished, Inv, Asking, TypeOK, OneSignPerVisit, CallsOwned
<1>4. ref[v] = None
  BY DEF Open, Finished, Inv, Timing, RefsRun, TypeOK
<1>5. Timing'
  BY <1>4 DEF Open, NoTimers, Inv, Timing, TypeOK, WaitingIsPolled,
     StraysWereReplaced, RefsRun, Running
<1>. QED
  BY <1>2, <1>3, <1>5 DEF Inv

LEMMA SignKeeps ==
    ASSUME Inv, NEW c \in Calls, Sign(c)
    PROVE  Inv'
<1>1. visit \in Visits /\ ~submitting /\ calls[c].pc = "idle"
  BY IdleCall DEF Sign, Clickable, Inv, TypeOK
<1>2. /\ Sent("sign", visit, None) \in Call
      /\ Sent("sign", visit, None).kind = "sign" /\ Sent("sign", visit, None).visit = visit
  BY <1>1, SentCall
<1>3. TypeOK'
  BY <1>2 DEF Sign, NoTimers, Inv, TypeOK
<1>4. Asking'
  BY <1>1, <1>2 DEF Sign, Inv, Asking, TypeOK, OneSignPerVisit, CallsOwned
<1>5. Timing'
  BY TimingKept DEF Sign, Inv
<1>. QED
  BY <1>3, <1>4, <1>5 DEF Inv

LEMMA LeaveKeeps == ASSUME Inv, Leave PROVE Inv'
<1>1. visit \in Visits
  BY DEF Leave, Inv, TypeOK
<1>2. TypeOK'
  BY <1>1 DEF Leave, StopPolling, Inv, TypeOK
<1>3. Asking'
  BY DEF Leave, Inv, Asking, OneSignPerVisit, CallsOwned
<1>4. Timing'
  BY <1>1, StopKeepsTiming DEF Leave, Inv
<1>. QED
  BY <1>2, <1>3, <1>4 DEF Inv

LEMMA CloseTabKeeps == ASSUME Inv, CloseTab PROVE Inv'
  BY IdleCall DEF CloseTab, Inv, TypeOK, Asking, OneSignPerVisit, CallsOwned,
     Timing, WaitingIsPolled, StraysWereReplaced, RefsRun, Running

LEMMA TickKeeps ==
    ASSUME Inv, NEW t \in Timers, NEW c \in Calls, Tick(t, c)
    PROVE  Inv'
<1>1. owner[t] \in Visits
  BY DEF Tick, Inv, TypeOK
<1> DEFINE call == Sent("poll", owner[t], t)
<1>2. call \in Call /\ call.kind = "poll" /\ call.visit = owner[t]
  BY <1>1, SentCall
<1>3. TypeOK'
  BY <1>2 DEF Tick, NoTimers, screen, Inv, TypeOK
<1>4. Asking'
  <2>. HIDE DEF call
  <2>1. calls' = [calls EXCEPT ![c] = call] /\ visit' = visit /\ submitting' = submitting
    BY DEF Tick, screen, call
  <2>. QED
    BY <1>1, <1>2, <2>1, AskingKept DEF Inv
<1>5. Timing'
  BY TimingKept DEF Tick, screen, Inv
<1>. QED
  BY <1>3, <1>4, <1>5 DEF Inv

LEMMA TenMinutesKeeps ==
    ASSUME Inv, NEW t \in Timers, TenMinutes(t)
    PROVE  Inv'
  BY DEF TenMinutes, screen, Inv, TypeOK, Asking, OneSignPerVisit, CallsOwned,
     Timing, WaitingIsPolled, StraysWereReplaced, RefsRun, Running

\* The server and the network only change what a request has become.
LEMMA AnswerKeeps ==
    ASSUME Inv, NEW c \in Calls, ServeSign(c) \/ ServeReload(c) \/ Lose(c)
    PROVE  Inv'
<1>1. PICK a \in {"signed", "url", "nothing"} :
         calls' = [calls EXCEPT ![c].pc = "answered", ![c].answer = a]
  BY DEF ServeSign, ServeReload, Lose
<1>2. /\ calls[c].pc # "idle" /\ signed' = signed /\ NoTimers
      /\ visit' = visit /\ shown' = shown /\ loading' = loading /\ submitting' = submitting
  BY DEF ServeSign, ServeReload, Lose, Asked, screen
<1> DEFINE call == [calls[c] EXCEPT !.pc = "answered", !.answer = a]
<1>3. call \in Call /\ call.kind = calls[c].kind /\ call.visit = calls[c].visit
  BY DEF Inv, TypeOK, Call
<1>4. calls' = [calls EXCEPT ![c] = call]
  BY <1>1 DEF Inv, TypeOK, Call
<1>5. TypeOK'
  <2>. HIDE DEF call
  <2>. QED
    BY <1>2, <1>3, <1>4 DEF NoTimers, Inv, TypeOK
<1>6. Asking'
  <2>. HIDE DEF call
  <2>. QED
    BY <1>2, <1>3, <1>4, AskingKept DEF Inv, Asking, CallsOwned
<1>7. Timing'
  BY <1>2, TimingKept DEF Inv
<1>. QED
  BY <1>5, <1>6, <1>7 DEF Inv

LEMMA ElsewhereKeeps == ASSUME Inv, Elsewhere PROVE Inv'
  BY TimingKept DEF Elsewhere, NoTimers, screen, Inv, TypeOK, Asking,
     OneSignPerVisit, CallsOwned

LEMMA ClickedKeeps ==
    ASSUME Inv, NEW c \in Calls, Clicked(c)
    PROVE  Inv'
<1> DEFINE v == calls[c].visit
<1>1. v \in Visits /\ calls[c].pc # "idle" /\ calls[c].kind = "sign"
  BY DEF Clicked, Answered, Inv, Asking, CallsOwned
<1>2. PICK call \in {Sent("already", v, None), Sent("opened", v, None), Idle} :
         calls' = [calls EXCEPT ![c] = call]
  BY DEF Clicked
<1>3. call \in Call /\ (call.pc # "idle" => call.visit = v) /\ call.kind # "sign"
  BY <1>1, SentCall, IdleCall DEF Idle
<1>4. TypeOK'
  BY <1>2, <1>3 DEF Clicked, NoTimers, Inv, TypeOK
<1>5. Asking'
  <2>1. visit' = visit /\ submitting' = (submitting /\ ~Mine(c))
    BY DEF Clicked
  <2>. QED
    BY <1>1, <1>2, <1>3, <2>1, AskingKept DEF Inv
<1>6. Timing'
  BY TimingKept DEF Clicked, Inv
<1>. QED
  BY <1>4, <1>5, <1>6 DEF Inv

\* A reload that is shown is done.
LEMMA ShowKeeps ==
    ASSUME Inv, NEW c \in Calls, Show(c)
    PROVE  /\ Asking' /\ visit' = visit /\ calls' \in [Calls -> Call]
           /\ {signed', shown', loading', submitting'} \subseteq BOOLEAN
<1>1. visit' = visit /\ submitting' = submitting /\ calls' = [calls EXCEPT ![c] = Idle]
  BY DEF Show
<1>2. Asking'
  BY <1>1, IdleCall, AskingKept DEF Inv
<1>. QED
  BY <1>1, <1>2, IdleCall DEF Show, Inv, TypeOK

LEMMA ReloadedKeeps ==
    ASSUME Inv, NEW c \in Calls, Reloaded(c) \/ Opened(c) \/ Polled(c)
    PROVE  Inv'
<1>1. calls[c].visit \in Visits /\ Show(c)
  BY DEF Reloaded, Opened, Polled, Answered, Inv, Asking, CallsOwned
<1>2. \/ NoTimers
      \/ StartPolling(calls[c].visit)
      \/ StopPolling(calls[c].visit)
  BY DEF Reloaded, Opened, Polled
<1>3. TypeOK'
  BY <1>1, <1>2, ShowKeeps DEF NoTimers, StartPolling, StopPolling, Inv, TypeOK
<1>4. Timing'
  BY <1>1, <1>2, ShowKeeps, TimingKept, StartKeepsTiming, StopKeepsTiming DEF Inv
<1>. QED
  BY <1>1, <1>3, <1>4, ShowKeeps DEF Inv

LEMMA PageStep == PageInvariant /\ [Next]_vars => PageInvariant'
<1>1. SUFFICES ASSUME Inv, [Next]_vars PROVE Inv'
  BY DEF PageInvariant, Inv, Asking, Timing
<1>2. CASE UNCHANGED vars
  BY <1>1, <1>2 DEF vars, screen, Inv, TypeOK, Asking, OneSignPerVisit, CallsOwned,
     Timing, WaitingIsPolled, StraysWereReplaced, RefsRun, Running
<1>3. CASE Next
  BY <1>1, <1>3, OpenKeeps, SignKeeps, LeaveKeeps, CloseTabKeeps, TickKeeps,
     TenMinutesKeeps, AnswerKeeps, ElsewhereKeeps, ClickedKeeps, ReloadedKeeps DEF Next
<1>. QED
  BY <1>1, <1>2, <1>3

THEOREM PageSafe == Spec => []PageInvariant
  BY PageInit, PageStep, PTL DEF Spec

-----------------------------------------------------------------------------
\* The variables have their types.
THEOREM TypeCorrect == Spec => []TypeOK
<1>1. PageInvariant => TypeOK
  BY DEF PageInvariant
<1>. QED
  BY <1>1, PageSafe, PTL

\* A visit has one click with the server at a time.
THEOREM OneSign == Spec => []OneSignPerVisit
<1>1. PageInvariant => OneSignPerVisit
  BY DEF PageInvariant
<1>. QED
  BY <1>1, PageSafe, PTL

\* The page says that it waits exactly while an interval polls for it.
THEOREM WaitingPolled == Spec => []WaitingIsPolled
<1>1. PageInvariant => WaitingIsPolled
  BY DEF PageInvariant
<1>. QED
  BY <1>1, PageSafe, PTL

\* Every interval that no visit can stop was replaced.
THEOREM StraysReplaced == Spec => []StraysWereReplaced
<1>1. PageInvariant => StraysWereReplaced
  BY DEF PageInvariant
<1>. QED
  BY <1>1, PageSafe, PTL

\* A page stops waiting for a cause only.
THEOREM GivesUpCaused == Spec => GivesUpForCause
<1> DEFINE Cause ==
      \/ visit' # visit \/ shown'
      \/ \E c \in Calls : Answered(c, {"poll"}) /\ Mine(c) /\ calls[c].timer \in old
<1>1. ASSUME PageInvariant, [Next]_vars, awaiting, ~awaiting' PROVE Cause
  <2>1. visit # None
    BY <1>1 DEF PageInvariant, WaitingIsPolled
  <2>2. CASE Leave \/ CloseTab
    BY <2>1, <2>2 DEF Leave, CloseTab
  <2>3. ASSUME NEW c \in Calls, Opened(c) PROVE FALSE
    BY <1>1, <2>3 DEF Opened, StartPolling
  <2>4. ASSUME NEW c \in Calls, Polled(c) PROVE Cause
    <3>1. StopPolling(calls[c].visit) /\ Show(c) /\ Answered(c, {"poll"})
      BY <1>1, <2>4 DEF Polled, NoTimers
    <3>2. Mine(c)
      BY <1>1, <3>1 DEF StopPolling, Mine
    <3>3. calls[c].answer = "signed" \/ calls[c].timer \in old
      BY <1>1, <2>4 DEF Polled, Over, NoTimers
    <3>. QED
      BY <3>1, <3>2, <3>3 DEF Show
  <2>5. CASE UNCHANGED awaiting
    BY <1>1, <2>5
  <2>. QED
    BY <1>1, <2>2, <2>3, <2>4, <2>5 DEF Next, vars, Open, Sign, Tick, TenMinutes,
       ServeSign, ServeReload, Lose, Elsewhere, Clicked, Reloaded, NoTimers
<1>2. PageInvariant /\ [Next]_vars => [awaiting /\ ~awaiting' => Cause]_vars
  BY <1>1
<1>. QED
  BY <1>2, PageSafe, PTL DEF Spec, GivesUpForCause
=============================================================================
