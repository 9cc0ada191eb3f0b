------------------------------ MODULE Sessions ------------------------------
(***************************************************************************)
(* The sessions of one person (an admin, an artist or a client: the three  *)
(* share this code) as browsers see them: the cookies of each browser, the *)
(* tabs that share them, the requests each tab has under way, and the rows *)
(* of identity_refresh_tokens that the server keeps.                       *)
(*                                                                         *)
(* The login itself, its links and its lock are in ClientAccount; here the *)
(* subject is what happens to a session between a login and a logout.      *)
(***************************************************************************)
EXTENDS Naturals, FiniteSets

CONSTANTS
    Browsers,
    Tabs,
    Calls,      \* requests a tab may have under way (bound on their number)
    BrowserOf,  \* the browser of each tab
    TabOf,      \* the tab of each call
    KindsOf,    \* what each call may be (bound on what runs at once)
    Tokens,     \* refresh tokens, which are random (bound on their number)
    Null

ASSUME SessionsAssumption ==
    /\ BrowserOf \in [Tabs -> Browsers]
    /\ TabOf \in [Calls -> Tabs]
    /\ KindsOf \in [Calls -> SUBSET {"page", "hydrate", "login", "logout"}]
    /\ Null \notin Tokens
    /\ Null \notin Calls

\* A call is a request of a page that got a 401, the hydration of a tab that
\* loads, a login or a logout.  (A request that is served changes nothing
\* here.)  pc is where it is: "first" and "second" are a request and its
\* repetition under way; "await" waits for the refresh of another call; the
\* others are the statements of the server's handler, and the answers
\* "granted", "refused" and "cleared" on their way back.
Kind == {"none", "page", "hydrate", "login", "logout"}
Exchange == {"read", "sweep", "consume", "insert", "granted", "refused"}
Handling == Exchange \cup {"revoke", "cleared"}
Place == {"idle", "first", "second", "await"} \cup Handling

\* access and token: the cookies as they were when the request was sent; left:
\* its page is gone, and only the server still works on it.
Call == [kind : Kind, pc : Place, access : BOOLEAN,
         token : Tokens \cup {Null}, granted : Tokens \cup {Null}, left : BOOLEAN]

Idle == [kind |-> "none", pc |-> "idle", access |-> FALSE, token |-> Null, granted |-> Null,
         left |-> FALSE]

\* Why a token may be presented although it is revoked (history): "no" reason;
\* it was sent by two calls at once; an exchange or a logout of it was cut off, or
\* its answer lost with its page;
\* a sweep revoked it before it was ever presented.
Cause == {"no", "doubled", "cut", "swept"}

VARIABLES
    rows,      \* identity_refresh_tokens: "none", "live" or "revoked"
    known,     \* whether the account exists and is active
    jar,       \* per browser, the refresh token in its cookie, or Null; the cookie
               \* of the access token comes and goes with it, and what that
               \* token says may have expired at any moment
    stored,    \* whether its localStorage names somebody
    identity,  \* whether the store of a tab does
    guard,     \* per tab, the call whose refresh the others wait for, or Null
    call,      \* what each call is doing
    \* History.
    cause,     \* per token, as above
    out        \* the browser was signed out while it had nothing else under way

history == <<cause, out>>
vars == <<rows, known, jar, stored, identity, guard, call, history>>

TypeOK ==
    /\ rows \in [Tokens -> {"none", "live", "revoked"}]
    /\ known \in BOOLEAN
    /\ jar \in [Browsers -> Tokens \cup {Null}]
    /\ stored \in [Browsers -> BOOLEAN]
    /\ identity \in [Tabs -> BOOLEAN]
    /\ guard \in [Tabs -> Calls \cup {Null}]
    /\ call \in [Calls -> Call]
    /\ cause \in [Tokens -> Cause]
    /\ out \in [Browsers -> BOOLEAN]

Init ==
    /\ rows = [t \in Tokens |-> "none"]
    /\ known = TRUE
    /\ jar = [b \in Browsers |-> Null]
    /\ stored = [b \in Browsers |-> FALSE]
    /\ identity = [t \in Tabs |-> FALSE]
    /\ guard = [t \in Tabs |-> Null]
    /\ call = [c \in Calls |-> Idle]
    /\ cause = [t \in Tokens |-> "no"]
    /\ out = [b \in Browsers |-> FALSE]

Home(c) == BrowserOf[TabOf[c]]
At(c, pc) == call[c].pc = pc
CallsIn(t) == {c \in Calls : TabOf[c] = t}

\* Tokens that somebody still has: only they can be presented again.
Held == {jar[b] : b \in Browsers} \cup {call[c].token : c \in Calls}
                                          \cup {call[c].granted : c \in Calls}

\* The row of a token that nobody has any more is left out of rows.
Keep(newRows, newCause) == \E held \in {Held'} :
    /\ rows' = [t \in Tokens |-> IF t \in held THEN newRows[t] ELSE "none"]
    /\ cause' = [t \in Tokens |-> IF t \in held THEN newCause[t] ELSE "no"]

\* A request to a route to which the refresh cookie is scoped.
WithToken(c, kind, pc) == [Idle EXCEPT !.kind = kind, !.pc = pc, !.token = jar[Home(c)]]

\* History: a token that another call has under way is sent a second time.
Sent(c) ==
    LET t == jar[Home(c)] IN
    cause' = IF t # Null /\ \E d \in Calls \ {c} : call[d].token = t
             THEN [cause EXCEPT ![t] = "doubled"] ELSE cause

\* setClient and clear of the store: one tab and the browser's localStorage.
SetIdentity(c, v) ==
    /\ identity' = [identity EXCEPT ![TabOf[c]] = v]
    /\ stored' = [stored EXCEPT ![Home(c)] = v]

-----------------------------------------------------------------------------
\* What starts a call.

\* What remains of a call whose page is gone: the handler, if the server has
\* begun one, which goes on without the browser.
Left(d) == IF call[d].pc \in Handling THEN [call[d] EXCEPT !.left = TRUE] ELSE Idle

\* A tab is opened or reloaded: what its page had under way is dropped, with the
\* promise the calls shared; the store begins with what localStorage says and
\* is hydrated.  (Bound: by a call that no handler is left of.)
Load(c) ==
    /\ "hydrate" \in KindsOf[c] /\ call[c].pc \notin Handling
    /\ identity' = [identity EXCEPT ![TabOf[c]] = stored[Home(c)]]
    /\ guard' = [guard EXCEPT ![TabOf[c]] = Null]
    /\ call' = [d \in Calls |->
                   IF d = c THEN [Idle EXCEPT !.kind = "hydrate", !.pc = "first",
                                              !.access = jar[Home(c)] # Null]
                   ELSE IF TabOf[d] = TabOf[c] THEN Left(d) ELSE call[d]]
    /\ UNCHANGED <<rows, known, jar, stored, history>>

\* The login form, which a signed-in person is sent away from; the password is
\* right.
Login(c) ==
    /\ "login" \in KindsOf[c]
    /\ At(c, "idle") /\ ~identity[TabOf[c]]
    /\ known
    /\ call' = [call EXCEPT ![c] = [Idle EXCEPT !.kind = "login", !.pc = "insert"]]
    /\ out' = [out EXCEPT ![Home(c)] = FALSE]
    /\ UNCHANGED <<rows, known, jar, stored, identity, guard, cause>>

\* The logout button.
Logout(c) ==
    /\ "logout" \in KindsOf[c]
    /\ At(c, "idle") /\ identity[TabOf[c]]
    /\ call' = [call EXCEPT ![c] = WithToken(c, "logout", "revoke")]
    /\ Sent(c)
    /\ UNCHANGED <<rows, known, jar, stored, identity, guard, out>>

-----------------------------------------------------------------------------
\* The request of a page or of a hydration, and its retry.

UnderWay(c) == call[c].pc \in {"first", "second"}

\* requireKind lets the request through, the handler runs and answers.
Served(c) ==
    /\ UnderWay(c) /\ call[c].access /\ known
    /\ call' = [call EXCEPT ![c] = Idle]
    /\ IF call[c].kind = "hydrate" THEN SetIdentity(c, TRUE) ELSE UNCHANGED <<identity, stored>>
    /\ UNCHANGED <<rows, known, jar, guard, history>>

\* The refresh route is asked, and its promise is kept for the others.
SendsRefresh(c) ==
    /\ call' = [call EXCEPT ![c] = WithToken(c, "page", "read")]
    /\ guard' = [guard EXCEPT ![TabOf[c]] = c]
    /\ Sent(c)

\* createTokenRefresher: the first call that asks for a refresh sends it, the
\* others of its tab wait for the same promise.
Refresh(c) ==
    \/ /\ guard[TabOf[c]] = Null
       /\ SendsRefresh(c)
    \/ /\ guard[TabOf[c]] # Null
       /\ call' = [call EXCEPT ![c] = [Idle EXCEPT !.kind = "page", !.pc = "await"]]
       /\ UNCHANGED <<guard, cause>>

\* identityFetch: a page that shows somebody signed in gets a 401, and asks for
\* a refresh.
Unauthorized(c) ==
    /\ "page" \in KindsOf[c]
    /\ At(c, "idle") /\ identity[TabOf[c]]
    /\ Refresh(c)
    /\ UNCHANGED <<rows, known, jar, stored, identity, out>>

\* The account is gone (USER_DISABLED): the store is cleared at once.
Disabled(c) ==
    /\ "page" \in KindsOf[c]
    /\ At(c, "idle") /\ identity[TabOf[c]]
    /\ jar[Home(c)] # Null /\ ~known
    /\ SetIdentity(c, FALSE)
    /\ UNCHANGED <<rows, known, jar, guard, call, history>>

\* A second 401 (or no account): the session is over, the store is cleared.
\* A hydration gives up the same way.
Expired(c) ==
    /\ At(c, "second")
    /\ call' = [call EXCEPT ![c] = Idle]
    /\ SetIdentity(c, FALSE)
    /\ UNCHANGED <<rows, known, jar, guard, history>>

\* fetchCurrentClient: whatever /me said but 200, the hydration refreshes once,
\* by itself and not through the guard.
HydrateRefresh(c) ==
    /\ At(c, "first")
    /\ call' = [call EXCEPT ![c] = WithToken(c, "hydrate", "read")]
    /\ Sent(c)
    /\ UNCHANGED <<rows, known, jar, stored, identity, guard, out>>

-----------------------------------------------------------------------------
\* The server's handlers of refresh, login and logout, statement by statement.

Goes(c, pc) == call' = [call EXCEPT ![c].pc = pc]

\* consumeRefreshToken: the SELECT that finds revoked rows too (#21).  No
\* cookie is a 401 before it.
Read(c) ==
    /\ At(c, "read")
    /\ LET t == call[c].token IN
       Goes(c, IF t = Null \/ rows[t] = "none" THEN "refused"
               ELSE IF rows[t] = "live" THEN "consume" ELSE "sweep")
    /\ UNCHANGED <<rows, known, jar, stored, identity, guard, history>>

\* revokeAllForSubject: what a replay brings about, and a password reset.
Revoked(t) == [rows EXCEPT ![t] = IF @ = "live" THEN "revoked" ELSE @]
AllRevoked == [t \in Tokens |-> IF rows[t] = "live" THEN "revoked" ELSE rows[t]]

\* History: live tokens that nobody has presented yet lose their row.
Swept ==
    cause' = [t \in Tokens |->
                 IF rows[t] = "live" THEN
                     IF \E c \in Calls : call[c].token = t THEN "doubled" ELSE "swept"
                 ELSE cause[t]]

\* "Reuse detected": every session of the account ends, the refresh is refused.
Sweep(c) ==
    /\ At(c, "sweep")
    /\ rows' = AllRevoked
    /\ Swept
    /\ Goes(c, "refused")
    /\ UNCHANGED <<known, jar, stored, identity, guard, out>>

\* The token is revoked; how many rows that changed is not looked at.
Consume(c) ==
    /\ At(c, "consume")
    /\ rows' = Revoked(call[c].token)
    /\ Goes(c, "insert")
    /\ UNCHANGED <<known, jar, stored, identity, guard, history>>

\* History: an exchange or a logout is cut off after its token was revoked.
CutOff(c) == IF call[c].pc \in {"insert", "granted", "cleared"} /\ call[c].token # Null
             THEN [cause EXCEPT ![call[c].token] = "cut"] ELSE cause

\* issueRefreshToken, for a login and for a refresh.  A refresh reads the
\* account again before it, and is refused when it is gone.
Insert(c) ==
    /\ At(c, "insert")
    /\ call[c].kind = "login" \/ known
    /\ \E t \in Tokens \ Held :
       /\ rows' = [rows EXCEPT ![t] = "live"]
       /\ cause' = [cause EXCEPT ![t] = "no"]
       /\ call' = [call EXCEPT ![c] = [@ EXCEPT !.pc = "granted", !.granted = t]]
    /\ UNCHANGED <<known, jar, stored, identity, guard, out>>

AccountGone(c) ==
    /\ At(c, "insert") /\ call[c].kind # "login" /\ ~known
    /\ Goes(c, "refused")
    /\ cause' = CutOff(c)
    /\ UNCHANGED <<rows, known, jar, stored, identity, guard, out>>

\* The logout route revokes the token of its cookie, if there is one.
RevokeOwn(c) ==
    /\ At(c, "revoke")
    /\ rows' = IF call[c].token = Null THEN rows ELSE Revoked(call[c].token)
    /\ Goes(c, "cleared")
    /\ UNCHANGED <<known, jar, stored, identity, guard, history>>

-----------------------------------------------------------------------------
\* The answers arrive, with the cookies they set, at a page that is still there.

Answered(c, pc) == At(c, pc) /\ ~call[c].left

Waiting(c) == {d \in CallsIn(TabOf[c]) : At(d, "await")}

\* After its refresh a call repeats its request, with the cookies just set.
Retry(d) == [Idle EXCEPT !.kind = call[d].kind, !.pc = "second", !.access = TRUE]

\* Variant: the calls that wait are forgotten.
SettleOwn(c, granted) ==
    call' = [call EXCEPT ![c] = IF granted THEN Retry(c) ELSE Idle]

\* The promise of a refresh settles: its call goes on, and with the refresh of
\* a page the calls that wait for it.
Settle(c, granted) ==
    call' = [d \in Calls |->
                IF d = c \/ (call[c].kind = "page" /\ d \in Waiting(c))
                THEN IF granted THEN Retry(d) ELSE Idle
                ELSE call[d]]

Release(c) ==
    guard' = IF guard[TabOf[c]] = c THEN [guard EXCEPT ![TabOf[c]] = Null] ELSE guard

\* Variant: the answer of a refresh sets the access cookie only.
SetAccessOnly(c) ==
    jar' = [jar EXCEPT ![Home(c)] = IF @ = Null THEN call[c].granted ELSE @]

\* setAuthCookies.
SetAuthCookies(c) ==
    jar' = [jar EXCEPT ![Home(c)] = call[c].granted]

LoggedIn(c) ==
    /\ Answered(c, "granted") /\ call[c].kind = "login"
    /\ SetAuthCookies(c)
    /\ SetIdentity(c, TRUE)
    /\ call' = [call EXCEPT ![c] = Idle]
    /\ UNCHANGED <<known, guard, out>>
    /\ Keep(rows, cause)

Refreshed(c) ==
    /\ Answered(c, "granted") /\ call[c].kind # "login"
    /\ SetAuthCookies(c)
    /\ Settle(c, TRUE)
    /\ Release(c)
    /\ UNCHANGED <<known, stored, identity, out>>
    /\ Keep(rows, cause)

\* A failed refresh clears the store, whatever the reason; the calls that
\* wait end with it.  The cookies stay.
Refused(c) ==
    /\ Answered(c, "refused")
    /\ SetIdentity(c, FALSE)
    /\ Settle(c, FALSE)
    /\ Release(c)
    /\ UNCHANGED <<known, jar, out>>
    /\ Keep(rows, cause)

\* Variant: only the access cookie is cleared (the path of the other differs).
ClearAccessOnly(c) == UNCHANGED jar

\* clearAuthCookies.
ClearAuthCookies(c) == jar' = [jar EXCEPT ![Home(c)] = Null]

\* History: nothing else that brings cookies is under way in this browser.
Alone(c) == \A d \in Calls \ {c} :
    Home(d) = Home(c) => call[d].pc \notin Exchange \/ call[d].left

LoggedOut(c) ==
    /\ Answered(c, "cleared")
    /\ ClearAuthCookies(c)
    /\ SetIdentity(c, FALSE)
    /\ call' = [call EXCEPT ![c] = Idle]
    /\ out' = [out EXCEPT ![Home(c)] = Alone(c)]
    /\ UNCHANGED <<known, guard>>
    /\ Keep(rows, cause)

-----------------------------------------------------------------------------
\* What goes wrong: a request or an answer is lost, a statement fails, the
\* server stops in the middle.

\* A page call gives up with an error message.
PageFails(c) ==
    /\ UnderWay(c) /\ call[c].kind = "page"
    /\ call' = [call EXCEPT ![c] = Idle]
    /\ UNCHANGED <<rows, known, jar, stored, identity, guard, history>>

\* A hydration ends with nobody.
HydrateFails(c) ==
    /\ UnderWay(c) /\ call[c].kind = "hydrate"
    /\ call' = [call EXCEPT ![c] = Idle]
    /\ SetIdentity(c, FALSE)
    /\ UNCHANGED <<rows, known, jar, guard, history>>

\* A refresh is refused, a login ends; a logout clears the store all the same,
\* and leaves the cookies.
ExchangeFails(c) ==
    /\ call[c].pc \in Handling \ {"refused"} /\ ~call[c].left
    /\ CASE call[c].kind = "login" ->
              call' = [call EXCEPT ![c] = Idle] /\ UNCHANGED <<identity, stored>>
         [] call[c].kind = "logout" ->
              call' = [call EXCEPT ![c] = Idle] /\ SetIdentity(c, FALSE)
         [] OTHER -> Goes(c, "refused") /\ UNCHANGED <<identity, stored>>
    /\ UNCHANGED <<known, jar, guard, out>>
    /\ Keep(rows, CutOff(c))

\* Nobody hears how a handler ended whose page is gone: the cookies of its
\* answer are lost.
Unheard(c) ==
    /\ call[c].left
    /\ call' = [call EXCEPT ![c] = Idle]
    /\ UNCHANGED <<known, jar, stored, identity, guard, out>>
    /\ Keep(rows, CutOff(c))

\* Others: a password reset ends all sessions (ClientAccount), an admin deletes
\* the account.
PasswordReset ==
    /\ rows' = AllRevoked
    /\ Swept
    /\ UNCHANGED <<known, jar, stored, identity, guard, call, out>>

AccountDeleted ==
    /\ known
    /\ known' = FALSE
    /\ UNCHANGED <<rows, jar, stored, identity, guard, call, history>>

-----------------------------------------------------------------------------
Begin(c) == Load(c) \/ Unauthorized(c) \/ Disabled(c) \/ Login(c) \/ Logout(c)

Step(c) ==
    \/ Served(c) \/ Expired(c) \/ HydrateRefresh(c)
    \/ Read(c) \/ Sweep(c) \/ Consume(c) \/ Insert(c) \/ AccountGone(c) \/ RevokeOwn(c)
    \/ LoggedIn(c) \/ Refreshed(c) \/ Refused(c) \/ LoggedOut(c)

Fails(c) == PageFails(c) \/ HydrateFails(c) \/ ExchangeFails(c) \/ Unheard(c)

Next ==
    \/ \E c \in Calls : Begin(c) \/ Step(c) \/ Fails(c)
    \/ PasswordReset \/ AccountDeleted

Spec == Init /\ [][Next]_vars

-----------------------------------------------------------------------------
\* Properties.

Refreshing(c) == call[c].kind = "page" /\ call[c].pc \in Exchange /\ ~call[c].left

\* "Several concurrent requests trigger only one refresh round-trip": of the
\* requests of the pages of one tab at most one refreshes, and the others wait
\* for a refresh that is really under way (createTokenRefresher).
OneRefreshPerTab ==
    \A c \in Calls :
        /\ Refreshing(c) => \A d \in CallsIn(TabOf[c]) : Refreshing(d) => d = c
        /\ At(c, "await") => \E d \in CallsIn(TabOf[c]) : Refreshing(d)

\* A session ends by "reuse detected" only when its token was sent twice at
\* once, its exchange was cut off, or a sweep had revoked it: a browser that
\* is used call after call never ends its own session, however often its
\* tokens rotate (#21).
AlarmsHaveCause ==
    \A c \in Calls : At(c, "sweep") => cause[call[c].token] # "no"

\* A browser that was signed out with nothing else under way has no refresh
\* token until somebody logs in.
LogoutLasts == \A b \in Browsers : out[b] => jar[b] = Null
=============================================================================
