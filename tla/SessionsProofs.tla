--------------------------- MODULE SessionsProofs ---------------------------
(***************************************************************************)
(* What holds of Sessions for every number of browsers, tabs and calls:    *)
(* one refresh per tab, a sign-out that lasts, and no alarm without a      *)
(* cause.  The three inductive invariants are independent; they share the  *)
(* shape that a call has at each place.                                    *)
(***************************************************************************)
EXTENDS Sessions, TLAPS

\* The type invariant: every statement of the handlers and every answer keeps
\* the state in its types.
THEOREM TypeCorrect == Spec => []TypeOK
<1>1. Init => TypeOK
  BY SessionsAssumption DEF Init, TypeOK, Idle, Call, Kind, Place, Handling, Exchange, Cause
<1>2. TypeOK /\ [Next]_vars => TypeOK'
  <2> SUFFICES ASSUME TypeOK, [Next]_vars PROVE TypeOK'
    OBVIOUS
  <2> USE SessionsAssumption DEF TypeOK
  <2>k. ASSUME NEW r \in [Tokens -> {"none", "live", "revoked"}],
               NEW z \in [Tokens -> Cause], Keep(r, z)
        PROVE /\ rows' \in [Tokens -> {"none", "live", "revoked"}]
              /\ cause' \in [Tokens -> Cause]
    BY <2>k DEF Keep, Cause
  <2>p. ASSUME NEW c \in Calls, NEW pc \in Place PROVE [call EXCEPT ![c].pc = pc] \in [Calls -> Call]
    BY DEF Call
  <2>s. ASSUME NEW c \in Calls, NEW d \in Call PROVE [call EXCEPT ![c] = d] \in [Calls -> Call]
    OBVIOUS
  <2>i. Idle \in Call
    BY DEF Idle, Call, Kind, Place, Handling
  <2>r. ASSUME NEW t \in Tokens \cup {Null} PROVE Revoked(t) \in [Tokens -> {"none", "live", "revoked"}]
    BY DEF Revoked
  <2>0. CASE UNCHANGED vars
    BY <2>0 DEF vars, history
  <2>1. ASSUME NEW c \in Calls, Load(c) PROVE TypeOK'
    <3> DEFINE new == [Idle EXCEPT !.kind = "hydrate", !.pc = "first", !.access = jar[Home(c)] # Null]
    <3>1. new \in Call
      BY DEF Idle, Call, Kind, Place, Handling, Exchange
    <3>2. \A d \in Calls : Left(d) \in Call
      BY <2>i DEF Left, Call
    <3>3. call' = [d \in Calls |-> IF d = c THEN new
                                  ELSE IF TabOf[d] = TabOf[c] THEN Left(d) ELSE call[d]]
      BY <2>1 DEF Load
    <3> HIDE DEF new
    <3>4. call' \in [Calls -> Call]
      BY <3>1, <3>2, <3>3
    <3> QED
      BY <2>1, <3>4 DEF Load, Home, history
  <2>2. ASSUME NEW c \in Calls, Login(c) PROVE TypeOK'
    BY <2>2 DEF Login, Idle, Call, Kind, Place, Handling, Exchange, Home
  <2>3. ASSUME NEW c \in Calls, Logout(c) PROVE TypeOK'
    BY <2>3 DEF Logout, Sent, WithToken, Idle, Call, Kind, Place, Handling, Exchange, Home, Cause
  <2>4. ASSUME NEW c \in Calls, Unauthorized(c) PROVE TypeOK'
    <3>4. [Idle EXCEPT !.kind = "page", !.pc = "await"] \in Call
      BY DEF Idle, Call, Kind, Place, Handling
    <3>5. WithToken(c, "page", "read") \in Call
      BY DEF WithToken, Idle, Call, Kind, Place, Handling, Exchange, Home
    <3>1. call' \in [Calls -> Call]
      BY <2>4, <2>s, <3>4, <3>5 DEF Unauthorized, Refresh, SendsRefresh
    <3>2. guard' \in [Tabs -> Calls \cup {Null}]
      BY <2>4 DEF Unauthorized, Refresh, SendsRefresh
    <3>3. cause' \in [Tokens -> Cause]
      BY <2>4 DEF Unauthorized, Refresh, SendsRefresh, Sent, Home, Cause
    <3> QED
      BY <2>4, <3>1, <3>2, <3>3 DEF Unauthorized
  <2>5. ASSUME NEW c \in Calls, Disabled(c) PROVE TypeOK'
    BY <2>5 DEF Disabled, SetIdentity, Home, history
  <2>6. ASSUME NEW c \in Calls, Served(c) PROVE TypeOK'
    BY <2>6 DEF Served, SetIdentity, Idle, Call, Kind, Place, Handling, Exchange, Home, history
  <2>7. ASSUME NEW c \in Calls, Expired(c) PROVE TypeOK'
    BY <2>7 DEF Expired, SetIdentity, Idle, Call, Kind, Place, Handling, Exchange, Home, history
  <2>8. ASSUME NEW c \in Calls, HydrateRefresh(c) PROVE TypeOK'
    BY <2>8 DEF HydrateRefresh, Sent, WithToken, Idle, Call, Kind, Place, Handling, Exchange, Home, Cause
  <2>9. ASSUME NEW c \in Calls, Read(c) PROVE TypeOK'
    BY <2>9 DEF Read, Goes, Call, Kind, Place, Handling, Exchange, history
  <2>10. ASSUME NEW c \in Calls, Sweep(c) PROVE TypeOK'
    <3>1. call' \in [Calls -> Call]
      BY <2>10, <2>p DEF Sweep, Goes, Place, Handling, Exchange
    <3>2. rows' \in [Tokens -> {"none", "live", "revoked"}] /\ cause' \in [Tokens -> Cause]
      BY <2>10 DEF Sweep, AllRevoked, Swept, Cause
    <3> QED
      BY <2>10, <3>1, <3>2 DEF Sweep
  <2>11. ASSUME NEW c \in Calls, Consume(c) PROVE TypeOK'
    <3>1. call[c].token \in Tokens \cup {Null}
      BY DEF Call
    <3> QED
      BY <2>11, <3>1, <2>r, <2>p DEF Consume, Goes, Place, Handling, Exchange, history
  <2>12. ASSUME NEW c \in Calls, Insert(c) PROVE TypeOK'
    <3>1. PICK t \in Tokens \ Held :
              /\ rows' = [rows EXCEPT ![t] = "live"]
              /\ cause' = [cause EXCEPT ![t] = "no"]
              /\ call' = [call EXCEPT ![c] = [call[c] EXCEPT !.pc = "granted", !.granted = t]]
      BY <2>12 DEF Insert
    <3>3. [call[c] EXCEPT !.pc = "granted", !.granted = t] \in Call
      BY DEF Call, Place, Handling, Exchange
    <3>2. call' \in [Calls -> Call]
      BY <3>1, <3>3, <2>s
    <3> QED
      BY <2>12, <3>1, <3>2 DEF Insert, Cause
  <2>13. ASSUME NEW c \in Calls, AccountGone(c) PROVE TypeOK'
    BY <2>13 DEF AccountGone, CutOff, Goes, Call, Kind, Place, Handling, Exchange, Cause
  <2>14. ASSUME NEW c \in Calls, RevokeOwn(c) PROVE TypeOK'
    <3>1. call[c].token \in Tokens \cup {Null}
      BY DEF Call
    <3> QED
      BY <2>14, <3>1, <2>r, <2>p DEF RevokeOwn, Goes, Place, Handling, history
  <2>15. ASSUME NEW c \in Calls, LoggedIn(c) PROVE TypeOK'
    BY <2>15, <2>k DEF LoggedIn, SetAuthCookies, SetIdentity, Idle, Call, Kind, Place, Handling, Exchange, Home
  <2>16. ASSUME NEW c \in Calls, Refreshed(c) PROVE TypeOK'
    BY <2>16, <2>k DEF Refreshed, SetAuthCookies, Settle, Retry, Release, Idle, Call, Kind, Place, Handling,
       Exchange, Home
  <2>17. ASSUME NEW c \in Calls, Refused(c) PROVE TypeOK'
    BY <2>17, <2>k DEF Refused, SetIdentity, Settle, Release, Idle, Call, Kind, Place, Handling, Exchange, Home
  <2>18. ASSUME NEW c \in Calls, LoggedOut(c) PROVE TypeOK'
    BY <2>18, <2>k DEF LoggedOut, ClearAuthCookies, SetIdentity, Alone, Idle, Call, Kind, Place, Handling,
       Exchange, Home
  <2>19. ASSUME NEW c \in Calls, PageFails(c) PROVE TypeOK'
    BY <2>19 DEF PageFails, Idle, Call, Kind, Place, Handling, Exchange, history
  <2>20. ASSUME NEW c \in Calls, HydrateFails(c) PROVE TypeOK'
    BY <2>20 DEF HydrateFails, SetIdentity, Idle, Call, Kind, Place, Handling, Exchange, Home, history
  <2>21. ASSUME NEW c \in Calls, ExchangeFails(c) PROVE TypeOK'
    <3>1. CutOff(c) \in [Tokens -> Cause]
      BY DEF CutOff, Call, Cause
    <3>2. rows' \in [Tokens -> {"none", "live", "revoked"}] /\ cause' \in [Tokens -> Cause]
      BY <2>21, <3>1, <2>k DEF ExchangeFails
    <3>3. call' \in [Calls -> Call]
      <4>1. "refused" \in Place
        BY DEF Place, Handling, Exchange
      <4>2. \/ call' = [call EXCEPT ![c] = Idle]
            \/ call' = [call EXCEPT ![c].pc = "refused"]
        BY <2>21 DEF ExchangeFails, Goes
      <4> QED
        BY <4>1, <4>2, <2>p, <2>s, <2>i
    <3>4. identity' \in [Tabs -> BOOLEAN] /\ stored' \in [Browsers -> BOOLEAN]
      BY <2>21 DEF ExchangeFails, SetIdentity, Home
    <3> QED
      BY <2>21, <3>2, <3>3, <3>4 DEF ExchangeFails
  <2>24. ASSUME NEW c \in Calls, Unheard(c) PROVE TypeOK'
    <3>1. CutOff(c) \in [Tokens -> Cause]
      BY DEF CutOff, Call, Cause
    <3>2. rows' \in [Tokens -> {"none", "live", "revoked"}] /\ cause' \in [Tokens -> Cause]
      BY <2>24, <3>1, <2>k DEF Unheard
    <3> QED
      BY <2>24, <2>i, <2>s, <3>2 DEF Unheard
  <2>22. CASE PasswordReset
    BY <2>22 DEF PasswordReset, AllRevoked, Swept, Cause
  <2>23. CASE AccountDeleted
    BY <2>23 DEF AccountDeleted, history
  <2> QED
    BY <2>0, <2>1, <2>2, <2>3, <2>4, <2>5, <2>6, <2>7, <2>8, <2>9, <2>10, <2>11, <2>12, <2>13,
       <2>14, <2>15, <2>16, <2>17, <2>18, <2>19, <2>20, <2>21, <2>22, <2>23, <2>24
       DEF Next, Begin, Step, Fails
<1> QED
  BY <1>1, <1>2, PTL DEF Spec

-----------------------------------------------------------------------------
\* One refresh per tab: the guard of a tab names the call that refreshes for
\* it, and is set as long as anybody waits.
GuardInv ==
    /\ \A c \in Calls :
        /\ call[c].pc \in {"revoke", "cleared"} => call[c].kind = "logout"
        /\ At(c, "await") => call[c].kind = "page" /\ guard[TabOf[c]] # Null
        /\ Refreshing(c) => guard[TabOf[c]] = c
        /\ call[c].left => call[c].pc \in Handling
    /\ \A t \in Tabs : guard[t] # Null => TabOf[guard[t]] = t /\ Refreshing(guard[t])

\* A step of one call that neither begins nor ends a refresh of a page, nor a
\* wait for one.
LEMMA GuardOne ==
    ASSUME TypeOK, GuardInv, UNCHANGED guard, NEW c \in Calls, NEW new \in Call,
           call' = [call EXCEPT ![c] = new],
           ~At(c, "await"),
           new.pc # "await",
           new.left => new.pc \in Handling,
           new.pc \in {"revoke", "cleared"} => new.kind = "logout",
           (new.kind = "page" /\ new.pc \in Exchange /\ ~new.left) <=> Refreshing(c)
    PROVE  GuardInv'
<1>1. \A d \in Calls : call'[d] = IF d = c THEN new ELSE call[d]
  BY DEF TypeOK
<1>2. \A d \in Calls : Refreshing(d)' <=> Refreshing(d)
  BY <1>1 DEF Refreshing
<1>3. \A d \in Calls : At(d, "await")' <=> At(d, "await")
  BY <1>1 DEF At
<1>4. \A d \in Calls : /\ call'[d].pc \in {"revoke", "cleared"} => call'[d].kind = "logout"
                       /\ At(d, "await")' => call'[d].kind = "page" /\ guard'[TabOf[d]] # Null
                       /\ Refreshing(d)' => guard'[TabOf[d]] = d
                       /\ call'[d].left => call'[d].pc \in Handling
  BY <1>1, <1>2, <1>3 DEF GuardInv, At
<1>5. ASSUME NEW t \in Tabs, guard'[t] # Null
      PROVE  (TabOf[guard[t]] = t /\ Refreshing(guard[t]))'
  <2>1. guard[t] \in Calls /\ Refreshing(guard[t]) /\ TabOf[guard[t]] = t
    BY <1>5 DEF GuardInv, TypeOK
  <2>2. guard' = guard
    OBVIOUS
  <2>3. call'[guard[t]] = call[guard[t]] \/ guard[t] = c
    BY <1>1, <2>1
  <2> QED
    BY <1>1, <2>1, <2>2, <2>3 DEF Refreshing
<1> QED
  BY <1>4, <1>5 DEF GuardInv, At, Refreshing

\* A call that neither waits nor refreshes begins something else or ends.
LEMMA GuardOther ==
    ASSUME TypeOK, GuardInv, UNCHANGED guard, NEW c \in Calls, NEW new \in Call,
           call' = [call EXCEPT ![c] = new],
           ~At(c, "await"), ~Refreshing(c),
           \/ new.pc \in {"idle", "first", "second"}
           \/ new.pc = "revoke" /\ new.kind = "logout"
           \/ new.pc \in Exchange /\ new.kind \in {"hydrate", "login"},
           ~new.left
    PROVE  GuardInv'
BY GuardOne DEF Exchange

\* A call goes from one statement of its handler to the next.
LEMMA GuardGoes ==
    ASSUME TypeOK, GuardInv, UNCHANGED guard, NEW c \in Calls, NEW new \in Call,
           call' = [call EXCEPT ![c] = new],
           new.kind = call[c].kind, new.left = call[c].left,
           \/ call[c].pc \in Exchange /\ new.pc \in Exchange
           \/ call[c].pc = "revoke" /\ new.pc = "cleared"
    PROVE  GuardInv'
BY GuardOne DEF Exchange, Handling, Refreshing, At, GuardInv, TypeOK

\* The answer of a refresh: the guard is released, the waiting calls resume.
LEMMA GuardSettles ==
    ASSUME TypeOK, GuardInv, NEW c \in Calls, NEW granted \in BOOLEAN,
           call[c].pc \in {"granted", "refused"}, ~call[c].left,
           Settle(c, granted), Release(c)
    PROVE  GuardInv'
<1> USE SessionsAssumption
<1>1. \A d \in Calls : call'[d] = IF d = c \/ (call[c].kind = "page" /\ d \in Waiting(c))
                                  THEN IF granted THEN Retry(d) ELSE Idle ELSE call[d]
  BY DEF Settle
<1>2. /\ \A d \in Calls : Retry(d).pc = "second" /\ ~Retry(d).left
      /\ Idle.pc = "idle" /\ ~Idle.left
  BY DEF Retry, Idle
<1>3. CASE call[c].kind = "page"
  <2>1. Refreshing(c) /\ guard[TabOf[c]] = c /\ guard' = [guard EXCEPT ![TabOf[c]] = Null]
    BY <1>3 DEF Refreshing, Exchange, GuardInv, Release
  <2>2. \A d \in Calls : TabOf[d] = TabOf[c] => call'[d].pc # "await" /\ ~Refreshing(d)'
    <3> SUFFICES ASSUME NEW d \in Calls, TabOf[d] = TabOf[c]
                 PROVE  call'[d].pc # "await" /\ ~Refreshing(d)'
      OBVIOUS
    <3>1. CASE d = c \/ d \in Waiting(c)
      BY <1>1, <1>2, <1>3, <3>1 DEF Refreshing, Exchange
    <3>2. CASE ~(d = c \/ d \in Waiting(c))
      <4>1. call'[d] = call[d] /\ call[d].pc # "await"
        BY <1>1, <3>2 DEF Waiting, CallsIn, At
      <4>2. ~Refreshing(d)
        BY <2>1, <3>2 DEF GuardInv
      <4> QED
        BY <4>1, <4>2 DEF Refreshing
    <3> QED
      BY <3>1, <3>2
  <2>3. \A d \in Calls : TabOf[d] # TabOf[c] => call'[d] = call[d]
    BY <1>1 DEF Waiting, CallsIn
  <2>4. \A d \in Calls : TabOf[d] # TabOf[c] => guard'[TabOf[d]] = guard[TabOf[d]]
    BY <2>1 DEF TypeOK
  <2>5. ASSUME NEW d \in Calls
        PROVE  /\ call'[d].pc \in {"revoke", "cleared"} => call'[d].kind = "logout"
               /\ At(d, "await")' => call'[d].kind = "page" /\ guard'[TabOf[d]] # Null
               /\ Refreshing(d)' => guard'[TabOf[d]] = d
               /\ call'[d].left => call'[d].pc \in Handling
    <3>1. CASE TabOf[d] = TabOf[c]
      <4>1. call'[d].pc \in {"revoke", "cleared"} \/ call'[d].left => call'[d] = call[d]
        BY <1>1, <1>2
      <4> QED
        BY <4>1, <2>2, <3>1 DEF At, GuardInv
    <3>2. CASE TabOf[d] # TabOf[c]
      BY <2>3, <2>4, <3>2 DEF At, GuardInv, Refreshing
    <3> QED
      BY <3>1, <3>2
  <2>6. ASSUME NEW t \in Tabs, guard'[t] # Null
        PROVE  (TabOf[guard[t]] = t /\ Refreshing(guard[t]))'
    <3>1. t # TabOf[c] /\ guard'[t] = guard[t]
      BY <2>1, <2>6 DEF TypeOK
    <3>2. guard[t] \in Calls /\ TabOf[guard[t]] = t
      BY <2>6, <3>1 DEF GuardInv, TypeOK
    <3>3. call'[guard[t]] = call[guard[t]]
      BY <3>1, <3>2, <2>3
    <3> QED
      BY <2>6, <3>1, <3>2, <3>3 DEF GuardInv, Refreshing
  <2> QED
    BY <2>5, <2>6 DEF GuardInv
<1>4. CASE call[c].kind # "page"
  <2>1. guard' = guard
    BY <1>4 DEF Release, GuardInv, Refreshing, TypeOK
  <2>2. \A d \in Calls : call'[d] = IF d = c THEN IF granted THEN Retry(d) ELSE Idle ELSE call[d]
    BY <1>1, <1>4
  <2>3. ~Refreshing(c) /\ ~At(c, "await") /\ ~Refreshing(c)' /\ ~At(c, "await")'
    BY <1>2, <1>4, <2>2 DEF Refreshing, At, Exchange
  <2>4. call'[c].pc \in {"idle", "second"}
    BY <1>2, <2>2
  <2>7. ~call'[c].left
    BY <1>2, <2>2
  <2>5. \A d \in Calls : (Refreshing(d)' <=> Refreshing(d)) /\ (At(d, "await")' <=> At(d, "await"))
    BY <2>2, <2>3 DEF Refreshing, At
  <2>6. call'[c] \in Call /\ call' = [call EXCEPT ![c] = call'[c]]
    <3>1. Retry(c) \in Call /\ Idle \in Call
      BY DEF Retry, Idle, Call, Place, Handling, Kind, TypeOK
    <3>2. call'[c] \in Call
      BY <2>2, <3>1
    <3>3. call' = [d \in Calls |-> IF d = c THEN IF granted THEN Retry(d) ELSE Idle ELSE call[d]]
      BY <1>4 DEF Settle
    <3> QED
      BY <3>2, <3>3 DEF TypeOK
  <2> QED
    BY <2>1, <2>3, <2>4, <2>6, <2>7, GuardOther
<1> QED
  BY <1>3, <1>4

\* The invariant of the guard holds in every state.
THEOREM GuardInvariant == Spec => []GuardInv
<1>1. Init => GuardInv
  BY SessionsAssumption DEF Init, GuardInv, Idle, Refreshing, Exchange, At
<1>2. TypeOK /\ TypeOK' /\ GuardInv /\ [Next]_vars => GuardInv'
  <2> SUFFICES ASSUME TypeOK, TypeOK', GuardInv, [Next]_vars PROVE GuardInv'
    OBVIOUS
  <2> USE SessionsAssumption
  <2>i. Idle \in Call
    BY DEF Idle, Call, Kind, Place, Handling
  <2>c. \A c \in Calls : call[c] \in Call /\ call'[c] \in Call
    BY DEF TypeOK
  <2>0. CASE UNCHANGED vars
    BY <2>0 DEF vars, GuardInv, Refreshing, At
  <2>1. ASSUME NEW c \in Calls, Load(c) PROVE GuardInv'
    <3> DEFINE new == [Idle EXCEPT !.kind = "hydrate", !.pc = "first", !.access = jar[Home(c)] # Null]
    <3>1. new.pc = "first" /\ ~new.left /\ Idle.pc = "idle" /\ ~Idle.left
      BY DEF Idle
    <3>2. \A d \in Calls : call'[d] = IF d = c THEN new
                                      ELSE IF TabOf[d] = TabOf[c] THEN Left(d) ELSE call[d]
      BY <2>1 DEF Load
    <3> HIDE DEF new
    <3>3. \A t \in Tabs : guard'[t] = IF t = TabOf[c] THEN Null ELSE guard[t]
      BY <2>1 DEF Load, TypeOK
    <3>4. \A d \in Calls : /\ Left(d).left => Left(d).pc \in Handling /\ Left(d).kind = call[d].kind
                                             /\ Left(d).pc = call[d].pc
                           /\ ~Left(d).left => Left(d).pc = "idle"
      BY <2>c, <3>1 DEF Left, Call
    <3>5. \A d \in Calls : TabOf[d] = TabOf[c] =>
             /\ ~Refreshing(d)' /\ ~At(d, "await")'
             /\ call'[d].left => call'[d].pc \in Handling
             /\ call'[d].pc \in {"revoke", "cleared"} => call'[d].kind = call[d].kind /\ call'[d].pc = call[d].pc
      BY <3>1, <3>2, <3>4 DEF Refreshing, At, Exchange, Handling
    <3>6. \A d \in Calls : TabOf[d] # TabOf[c] => call'[d] = call[d] /\ guard'[TabOf[d]] = guard[TabOf[d]]
      BY <3>2, <3>3
    <3>7. ASSUME NEW d \in Calls
          PROVE  /\ call'[d].pc \in {"revoke", "cleared"} => call'[d].kind = "logout"
                 /\ At(d, "await")' => call'[d].kind = "page" /\ guard'[TabOf[d]] # Null
                 /\ Refreshing(d)' => guard'[TabOf[d]] = d
                 /\ call'[d].left => call'[d].pc \in Handling
      BY <3>5, <3>6 DEF GuardInv, At, Refreshing
    <3>8. ASSUME NEW t \in Tabs, guard'[t] # Null
          PROVE  (TabOf[guard[t]] = t /\ Refreshing(guard[t]))'
      <4>1. t # TabOf[c] /\ guard'[t] = guard[t] /\ guard[t] \in Calls
        BY <3>3, <3>8 DEF TypeOK
      <4>2. TabOf[guard[t]] = t /\ Refreshing(guard[t])
        BY <3>8, <4>1 DEF GuardInv
      <4>3. call'[guard[t]] = call[guard[t]]
        BY <3>6, <4>1, <4>2
      <4> QED
        BY <4>1, <4>2, <4>3 DEF Refreshing
    <3> QED
      BY <3>7, <3>8 DEF GuardInv
  <2>2. ASSUME NEW c \in Calls, Login(c) PROVE GuardInv'
    <3> DEFINE new == [Idle EXCEPT !.kind = "login", !.pc = "insert"]
    <3>1. new \in Call /\ (new.pc \in Exchange /\ new.kind = "login") /\ ~new.left
      BY <2>c DEF Idle, Call, Place, Handling, Kind, Exchange
    <3>2. ~At(c, "await") /\ ~Refreshing(c)
      BY <2>2 DEF Login, UnderWay, At, Refreshing, Exchange, GuardInv
    <3>3. call' = [call EXCEPT ![c] = new] /\ UNCHANGED guard
      BY <2>2 DEF Login
    <3> HIDE DEF new
    <3> QED
      BY <3>1, <3>2, <3>3, GuardOther
  <2>3. ASSUME NEW c \in Calls, Logout(c) PROVE GuardInv'
    <3> DEFINE new == WithToken(c, "logout", "revoke")
    <3>1. new \in Call /\ (new.pc = "revoke" /\ new.kind = "logout") /\ ~new.left
      BY <2>c DEF WithToken, Home, TypeOK, Idle, Call, Place, Handling, Kind, Exchange
    <3>2. ~At(c, "await") /\ ~Refreshing(c)
      BY <2>3 DEF Logout, UnderWay, At, Refreshing, Exchange, GuardInv
    <3>3. call' = [call EXCEPT ![c] = new] /\ UNCHANGED guard
      BY <2>3 DEF Logout
    <3> HIDE DEF new
    <3> QED
      BY <3>1, <3>2, <3>3, GuardOther
  <2>4. ASSUME NEW c \in Calls, Served(c) PROVE GuardInv'
    <3> DEFINE new == Idle
    <3>1. new \in Call /\ (new.pc = "idle") /\ ~new.left
      BY <2>c DEF Idle, Call, Place, Handling, Kind
    <3>2. ~At(c, "await") /\ ~Refreshing(c)
      BY <2>4 DEF Served, UnderWay, At, Refreshing, Exchange, GuardInv
    <3>3. call' = [call EXCEPT ![c] = new] /\ UNCHANGED guard
      BY <2>4 DEF Served
    <3> HIDE DEF new
    <3> QED
      BY <3>1, <3>2, <3>3, GuardOther
  <2>5. ASSUME NEW c \in Calls, Expired(c) PROVE GuardInv'
    <3> DEFINE new == Idle
    <3>1. new \in Call /\ (new.pc = "idle") /\ ~new.left
      BY <2>c DEF Idle, Call, Place, Handling, Kind
    <3>2. ~At(c, "await") /\ ~Refreshing(c)
      BY <2>5 DEF Expired, UnderWay, At, Refreshing, Exchange, GuardInv
    <3>3. call' = [call EXCEPT ![c] = new] /\ UNCHANGED guard
      BY <2>5 DEF Expired
    <3> HIDE DEF new
    <3> QED
      BY <3>1, <3>2, <3>3, GuardOther
  <2>6. ASSUME NEW c \in Calls, HydrateRefresh(c) PROVE GuardInv'
    <3> DEFINE new == WithToken(c, "hydrate", "read")
    <3>1. new \in Call /\ (new.pc \in Exchange /\ new.kind = "hydrate") /\ ~new.left
      BY <2>c DEF WithToken, Home, TypeOK, Idle, Call, Place, Handling, Kind, Exchange
    <3>2. ~At(c, "await") /\ ~Refreshing(c)
      BY <2>6 DEF HydrateRefresh, UnderWay, At, Refreshing, Exchange, GuardInv
    <3>3. call' = [call EXCEPT ![c] = new] /\ UNCHANGED guard
      BY <2>6 DEF HydrateRefresh
    <3> HIDE DEF new
    <3> QED
      BY <3>1, <3>2, <3>3, GuardOther
  <2>7. ASSUME NEW c \in Calls, LoggedIn(c) PROVE GuardInv'
    <3> DEFINE new == Idle
    <3>1. new \in Call /\ (new.pc = "idle") /\ ~new.left
      BY <2>c DEF Idle, Call, Place, Handling, Kind
    <3>2. ~At(c, "await") /\ ~Refreshing(c)
      BY <2>7 DEF LoggedIn, Answered, UnderWay, At, Refreshing, Exchange, GuardInv
    <3>3. call' = [call EXCEPT ![c] = new] /\ UNCHANGED guard
      BY <2>7 DEF LoggedIn
    <3> HIDE DEF new
    <3> QED
      BY <3>1, <3>2, <3>3, GuardOther
  <2>8. ASSUME NEW c \in Calls, LoggedOut(c) PROVE GuardInv'
    <3> DEFINE new == Idle
    <3>1. new \in Call /\ (new.pc = "idle") /\ ~new.left
      BY <2>c DEF Idle, Call, Place, Handling, Kind
    <3>2. ~At(c, "await") /\ ~Refreshing(c)
      BY <2>8 DEF LoggedOut, Answered, UnderWay, At, Refreshing, Exchange, GuardInv
    <3>3. call' = [call EXCEPT ![c] = new] /\ UNCHANGED guard
      BY <2>8 DEF LoggedOut
    <3> HIDE DEF new
    <3> QED
      BY <3>1, <3>2, <3>3, GuardOther
  <2>9. ASSUME NEW c \in Calls, PageFails(c) PROVE GuardInv'
    <3> DEFINE new == Idle
    <3>1. new \in Call /\ (new.pc = "idle") /\ ~new.left
      BY <2>c DEF Idle, Call, Place, Handling, Kind
    <3>2. ~At(c, "await") /\ ~Refreshing(c)
      BY <2>9 DEF PageFails, UnderWay, At, Refreshing, Exchange, GuardInv
    <3>3. call' = [call EXCEPT ![c] = new] /\ UNCHANGED guard
      BY <2>9 DEF PageFails
    <3> HIDE DEF new
    <3> QED
      BY <3>1, <3>2, <3>3, GuardOther
  <2>10. ASSUME NEW c \in Calls, HydrateFails(c) PROVE GuardInv'
    <3> DEFINE new == Idle
    <3>1. new \in Call /\ (new.pc = "idle") /\ ~new.left
      BY <2>c DEF Idle, Call, Place, Handling, Kind
    <3>2. ~At(c, "await") /\ ~Refreshing(c)
      BY <2>10 DEF HydrateFails, UnderWay, At, Refreshing, Exchange, GuardInv
    <3>3. call' = [call EXCEPT ![c] = new] /\ UNCHANGED guard
      BY <2>10 DEF HydrateFails
    <3> HIDE DEF new
    <3> QED
      BY <3>1, <3>2, <3>3, GuardOther
  <2>11. ASSUME NEW c \in Calls, Read(c) PROVE GuardInv'
    <3> DEFINE new == [call[c] EXCEPT !.pc =
                       IF call[c].token = Null \/ rows[call[c].token] = "none" THEN "refused"
                                        ELSE IF rows[call[c].token] = "live" THEN "consume" ELSE "sweep"]
    <3>1. new \in Call /\ new.kind = call[c].kind /\ new.left = call[c].left /\ (call[c].pc \in Exchange /\ new.pc \in Exchange)
      BY <2>11, <2>c DEF Read, At, Call, Place, Handling, Exchange
    <3>2. call' = [call EXCEPT ![c] = new] /\ UNCHANGED guard
      BY <2>11 DEF Read, Goes
    <3> HIDE DEF new
    <3> QED
      BY <3>1, <3>2, GuardGoes
  <2>12. ASSUME NEW c \in Calls, Sweep(c) PROVE GuardInv'
    <3> DEFINE new == [call[c] EXCEPT !.pc = "refused"]
    <3>1. new \in Call /\ new.kind = call[c].kind /\ new.left = call[c].left /\ (call[c].pc \in Exchange /\ new.pc \in Exchange)
      BY <2>12, <2>c DEF Sweep, At, Call, Place, Handling, Exchange
    <3>2. call' = [call EXCEPT ![c] = new] /\ UNCHANGED guard
      BY <2>12 DEF Sweep, Goes
    <3> HIDE DEF new
    <3> QED
      BY <3>1, <3>2, GuardGoes
  <2>13. ASSUME NEW c \in Calls, Consume(c) PROVE GuardInv'
    <3> DEFINE new == [call[c] EXCEPT !.pc = "insert"]
    <3>1. new \in Call /\ new.kind = call[c].kind /\ new.left = call[c].left /\ (call[c].pc \in Exchange /\ new.pc \in Exchange)
      BY <2>13, <2>c DEF Consume, At, Call, Place, Handling, Exchange
    <3>2. call' = [call EXCEPT ![c] = new] /\ UNCHANGED guard
      BY <2>13 DEF Consume, Goes
    <3> HIDE DEF new
    <3> QED
      BY <3>1, <3>2, GuardGoes
  <2>14. ASSUME NEW c \in Calls, AccountGone(c) PROVE GuardInv'
    <3> DEFINE new == [call[c] EXCEPT !.pc = "refused"]
    <3>1. new \in Call /\ new.kind = call[c].kind /\ new.left = call[c].left /\ (call[c].pc \in Exchange /\ new.pc \in Exchange)
      BY <2>14, <2>c DEF AccountGone, At, Call, Place, Handling, Exchange
    <3>2. call' = [call EXCEPT ![c] = new] /\ UNCHANGED guard
      BY <2>14 DEF AccountGone, Goes
    <3> HIDE DEF new
    <3> QED
      BY <3>1, <3>2, GuardGoes
  <2>15. ASSUME NEW c \in Calls, RevokeOwn(c) PROVE GuardInv'
    <3> DEFINE new == [call[c] EXCEPT !.pc = "cleared"]
    <3>1. new \in Call /\ new.kind = call[c].kind /\ new.left = call[c].left /\ (call[c].pc = "revoke" /\ new.pc = "cleared")
      BY <2>15, <2>c DEF RevokeOwn, At, Call, Place, Handling, Exchange
    <3>2. call' = [call EXCEPT ![c] = new] /\ UNCHANGED guard
      BY <2>15 DEF RevokeOwn, Goes
    <3> HIDE DEF new
    <3> QED
      BY <3>1, <3>2, GuardGoes
  <2>16. ASSUME NEW c \in Calls, Insert(c) PROVE GuardInv'
    <3>1. PICK t \in Tokens : call' = [call EXCEPT ![c] = [call[c] EXCEPT !.pc = "granted", !.granted = t]]
      BY <2>16 DEF Insert
    <3> DEFINE new == [call[c] EXCEPT !.pc = "granted", !.granted = t]
    <3>2. new \in Call /\ new.kind = call[c].kind /\ new.left = call[c].left /\ call[c].pc \in Exchange /\ new.pc \in Exchange
      BY <2>16, <2>c DEF Insert, At, Call, Place, Handling, Exchange
    <3>3. UNCHANGED guard
      BY <2>16 DEF Insert
    <3> HIDE DEF new
    <3> QED
      BY <3>1, <3>2, <3>3, GuardGoes DEF new
  <2>17. ASSUME NEW c \in Calls, ExchangeFails(c) PROVE GuardInv'
    <3>1. UNCHANGED guard
      BY <2>17 DEF ExchangeFails
    <3>2. CASE call[c].kind \in {"login", "logout"}
      <4>1. call' = [call EXCEPT ![c] = Idle]
        BY <2>17, <3>2 DEF ExchangeFails
      <4>2. ~At(c, "await") /\ ~Refreshing(c)
        BY <2>17, <3>2 DEF ExchangeFails, At, Refreshing, Handling, Exchange
      <4>3. Idle.pc = "idle" /\ ~Idle.left
        BY DEF Idle
      <4> QED
        BY <2>i, <3>1, <4>1, <4>2, <4>3, GuardOther
    <3>3. CASE call[c].kind \notin {"login", "logout"}
      <4> DEFINE new == [call[c] EXCEPT !.pc = "refused"]
      <4>1. call' = [call EXCEPT ![c] = new]
        BY <2>17, <3>3 DEF ExchangeFails, Goes
      <4>2. new \in Call /\ new.kind = call[c].kind /\ new.left = call[c].left /\ call[c].pc \in Exchange /\ new.pc \in Exchange
        BY <2>17, <2>c, <3>3 DEF ExchangeFails, GuardInv, Call, Place, Handling, Exchange
      <4> HIDE DEF new
      <4> QED
        BY <3>1, <4>1, <4>2, GuardGoes
    <3> QED
      BY <3>2, <3>3
  <2>18. ASSUME NEW c \in Calls, Refreshed(c) PROVE GuardInv'
    BY <2>18, GuardSettles DEF Refreshed, Answered, At
  <2>19. ASSUME NEW c \in Calls, Refused(c) PROVE GuardInv'
    BY <2>19, GuardSettles DEF Refused, Answered, At
  <2>20. ASSUME NEW c \in Calls, Unauthorized(c) PROVE GuardInv'
    <3>1. ~At(c, "await") /\ ~Refreshing(c)
      BY <2>20 DEF Unauthorized, At, Refreshing, Exchange
    <3>2. CASE guard[TabOf[c]] # Null
      <4> DEFINE new == [Idle EXCEPT !.kind = "page", !.pc = "await"]
      <4>1. \A d \in Calls : call'[d] = IF d = c THEN new ELSE call[d]
        BY <2>20, <3>2 DEF Unauthorized, Refresh, TypeOK
      <4>2. new.kind = "page" /\ new.pc = "await" /\ ~new.left
        BY DEF Idle
      <4>3. UNCHANGED guard
        BY <2>20, <3>2 DEF Unauthorized, Refresh
      <4> HIDE DEF new
      <4>4. \A d \in Calls : Refreshing(d)' <=> Refreshing(d)
        BY <3>1, <4>1, <4>2 DEF Refreshing, Exchange
      <4>5. ASSUME NEW d \in Calls
            PROVE  /\ call'[d].pc \in {"revoke", "cleared"} => call'[d].kind = "logout"
                   /\ At(d, "await")' => call'[d].kind = "page" /\ guard'[TabOf[d]] # Null
                   /\ Refreshing(d)' => guard'[TabOf[d]] = d
                   /\ call'[d].left => call'[d].pc \in Handling
        BY <3>2, <4>1, <4>2, <4>3, <4>4 DEF GuardInv, At
      <4>6. ASSUME NEW t \in Tabs, guard'[t] # Null
            PROVE  (TabOf[guard[t]] = t /\ Refreshing(guard[t]))'
        <5>1. guard[t] \in Calls /\ Refreshing(guard[t]) /\ TabOf[guard[t]] = t
          BY <4>3, <4>6 DEF GuardInv, TypeOK
        <5>2. call'[guard[t]] = call[guard[t]]
          BY <3>1, <4>1, <5>1
        <5> QED
          BY <4>3, <5>1, <5>2 DEF Refreshing
      <4> QED
        BY <4>5, <4>6 DEF GuardInv
    <3>3. CASE guard[TabOf[c]] = Null
      <4> DEFINE new == WithToken(c, "page", "read")
      <4>1. \A d \in Calls : call'[d] = IF d = c THEN new ELSE call[d]
        BY <2>20, <3>3 DEF Unauthorized, Refresh, SendsRefresh, TypeOK
      <4>2. new.kind = "page" /\ new.pc = "read" /\ ~new.left
        BY DEF Idle, WithToken
      <4>3. \A t \in Tabs : guard'[t] = IF t = TabOf[c] THEN c ELSE guard[t]
        BY <2>20, <3>3 DEF Unauthorized, Refresh, SendsRefresh, TypeOK
      <4> HIDE DEF new
      <4>4. \A d \in Calls : TabOf[d] = TabOf[c] => ~Refreshing(d) /\ ~At(d, "await")
        BY <3>3 DEF GuardInv
      <4>5. \A d \in Calls : Refreshing(d)' <=> (d = c \/ Refreshing(d))
        BY <4>1, <4>2 DEF Refreshing, Exchange
      <4>6. c # Null /\ TabOf[c] \in Tabs
        OBVIOUS
      <4> QED
        BY <3>1, <4>1, <4>2, <4>3, <4>4, <4>5, <4>6 DEF GuardInv, TypeOK, At, Refreshing, Exchange
    <3> QED
      BY <3>2, <3>3
  <2>21. ASSUME NEW c \in Calls, Disabled(c) PROVE GuardInv'
    BY <2>21 DEF Disabled, GuardInv, Refreshing, At
  <2>24. ASSUME NEW c \in Calls, Unheard(c) PROVE GuardInv'
    <3>1. ~At(c, "await") /\ ~Refreshing(c)
      BY <2>24 DEF Unheard, At, Refreshing, GuardInv, Handling, Exchange
    <3>2. call' = [call EXCEPT ![c] = Idle] /\ UNCHANGED guard
      BY <2>24 DEF Unheard
    <3>3. Idle.pc = "idle" /\ ~Idle.left
      BY DEF Idle
    <3> QED
      BY <2>i, <3>1, <3>2, <3>3, GuardOther
  <2>22. CASE PasswordReset
    BY <2>22 DEF PasswordReset, GuardInv, Refreshing, At
  <2>23. CASE AccountDeleted
    BY <2>23 DEF AccountDeleted, GuardInv, Refreshing, At
  <2> QED
    BY <2>0, <2>1, <2>2, <2>3, <2>4, <2>5, <2>6, <2>7, <2>8, <2>9, <2>10, <2>11, <2>12, <2>13, <2>14, <2>15, <2>16, <2>17, <2>18, <2>19, <2>20, <2>21, <2>22, <2>23, <2>24
       DEF Next, Begin, Step, Fails
<1> QED
  BY <1>1, <1>2, TypeCorrect, PTL DEF Spec

\* "Several concurrent requests trigger only one refresh round-trip", whatever
\* the tabs and the calls (createTokenRefresher).
THEOREM OneRefresh == Spec => []OneRefreshPerTab
<1>1. TypeOK /\ GuardInv => OneRefreshPerTab
  <2> SUFFICES ASSUME TypeOK, GuardInv, NEW c \in Calls
               PROVE  /\ Refreshing(c) => \A d \in CallsIn(TabOf[c]) : Refreshing(d) => d = c
                      /\ At(c, "await") => \E d \in CallsIn(TabOf[c]) : Refreshing(d)
    BY DEF OneRefreshPerTab
  <2>1. Refreshing(c) => \A d \in CallsIn(TabOf[c]) : Refreshing(d) => d = c
    BY DEF GuardInv, CallsIn
  <2>2. ASSUME At(c, "await") PROVE \E d \in CallsIn(TabOf[c]) : Refreshing(d)
    <3>1. TabOf[c] \in Tabs /\ guard[TabOf[c]] \in Calls
      BY <2>2, SessionsAssumption DEF GuardInv, TypeOK
    <3>2. guard[TabOf[c]] \in CallsIn(TabOf[c]) /\ Refreshing(guard[TabOf[c]])
      BY <3>1, SessionsAssumption DEF GuardInv, Refreshing, CallsIn
    <3> QED
      BY <3>2
  <2> QED
    BY <2>1, <2>2
<1> QED
  BY <1>1, GuardInvariant, TypeCorrect, PTL

-----------------------------------------------------------------------------
\* A sign-out lasts: nothing that would bring cookies is under way in a browser
\* that is signed out, only refreshes that were sent without a token.
OutInv == \A b \in Browsers : out[b] =>
    /\ jar[b] = Null
    /\ \A c \in Calls : Home(c) = b /\ call[c].pc \in Exchange /\ ~call[c].left =>
                            call[c].pc \in {"read", "refused"} /\ call[c].token = Null

LEMMA OutOne ==
    ASSUME TypeOK, OutInv, NEW c \in Calls, NEW new,
           call' = [call EXCEPT ![c] = new],
           \A b \in Browsers : out'[b] => out[b],
           \A b \in Browsers : out[b] => jar'[b] = jar[b],
           \/ new.pc \notin Exchange
           \/ new.left
           \/ /\ new.pc = "refused" /\ new.token = call[c].token
              /\ call[c].pc \in Exchange /\ ~call[c].left
           \/ new.pc = "read" /\ new.token = jar[Home(c)]
           \/ ~out'[Home(c)]
    PROVE  OutInv'
<1>1. \A d \in Calls : call'[d] = IF d = c THEN new ELSE call[d]
  BY DEF TypeOK
<1> QED
  BY <1>1 DEF OutInv, Home

THEOREM SignedOut == Spec => []LogoutLasts
<1>1. Init => OutInv
  BY DEF Init, OutInv
<1>2. TypeOK /\ GuardInv /\ OutInv /\ [Next]_vars => OutInv'
  <2> SUFFICES ASSUME TypeOK, GuardInv, OutInv, [Next]_vars PROVE OutInv'
    OBVIOUS
  <2> USE SessionsAssumption
  <2>h. \A c \in Calls : Home(c) \in Browsers
    BY DEF Home
  <2>0. CASE UNCHANGED vars
    BY <2>0 DEF vars, history, OutInv, Home
  <2>1. ASSUME NEW c \in Calls, Load(c) PROVE OutInv'
    <3> DEFINE new == [Idle EXCEPT !.kind = "hydrate", !.pc = "first", !.access = jar[Home(c)] # Null]
    <3>1. new.pc \notin Exchange
      BY DEF Idle, Exchange
    <3>2. \A d \in Calls : call'[d] = IF d = c THEN new
                                      ELSE IF TabOf[d] = TabOf[c] THEN Left(d) ELSE call[d]
      BY <2>1 DEF Load
    <3> HIDE DEF new
    <3>3. \A d \in Calls : Left(d).left \/ Left(d).pc \notin Exchange
      BY DEF Left, Idle, Exchange, TypeOK, Call
    <3>4. \A d \in Calls : call'[d] = call[d] \/ call'[d].left \/ call'[d].pc \notin Exchange
      BY <3>1, <3>2, <3>3
    <3>5. UNCHANGED <<jar, out>>
      BY <2>1 DEF Load, history
    <3> QED
      BY <3>4, <3>5 DEF OutInv, Home
  <2>2. ASSUME NEW c \in Calls, Login(c) PROVE OutInv'
    <3>1. ~out'[Home(c)] /\ \A b \in Browsers : out'[b] => out[b]
      BY <2>2, <2>h DEF Login, TypeOK
    <3> QED
      BY <2>2, <3>1, OutOne DEF Login
  <2>3. ASSUME NEW c \in Calls, Logout(c) PROVE OutInv'
    BY <2>3, OutOne DEF Logout, WithToken, Idle, Exchange
  <2>4. ASSUME NEW c \in Calls, Unauthorized(c) PROVE OutInv'
    <3>1. CASE call' = [call EXCEPT ![c] = [Idle EXCEPT !.kind = "page", !.pc = "await"]]
      BY <2>4, <3>1, OutOne DEF Unauthorized, Idle, Exchange
    <3>2. CASE call' = [call EXCEPT ![c] = WithToken(c, "page", "read")]
      BY <2>4, <3>2, OutOne DEF Unauthorized, Idle, WithToken
    <3> QED
      BY <2>4, <3>1, <3>2 DEF Unauthorized, Refresh, SendsRefresh
  <2>5. ASSUME NEW c \in Calls, Disabled(c) PROVE OutInv'
    BY <2>5 DEF Disabled, OutInv, Home, history
  <2>6. ASSUME NEW c \in Calls, Served(c) PROVE OutInv'
    BY <2>6, OutOne DEF Served, Idle, Exchange, history
  <2>7. ASSUME NEW c \in Calls, Expired(c) PROVE OutInv'
    BY <2>7, OutOne DEF Expired, Idle, Exchange, history
  <2>8. ASSUME NEW c \in Calls, HydrateRefresh(c) PROVE OutInv'
    BY <2>8, OutOne DEF HydrateRefresh, WithToken, Idle
  <2>9. ASSUME NEW c \in Calls, Read(c) PROVE OutInv'
    BY <2>9, <2>h DEF Read, Goes, At, OutInv, Home, Exchange, TypeOK, history
  <2>10. ASSUME NEW c \in Calls, Sweep(c) PROVE OutInv'
    <3> DEFINE new == [call[c] EXCEPT !.pc = "refused"]
    <3>1. new.pc = "refused" /\ new.token = call[c].token /\ call[c].pc \in Exchange /\ new.left = call[c].left
      BY <2>10 DEF Sweep, At, Exchange, TypeOK, Call
    <3>2. call' = [call EXCEPT ![c] = new] /\ UNCHANGED <<jar, out>>
      BY <2>10 DEF Sweep, Goes
    <3> HIDE DEF new
    <3> QED
      BY <3>1, <3>2, OutOne
  <2>11. ASSUME NEW c \in Calls, Consume(c) PROVE OutInv'
    <3> DEFINE new == [call[c] EXCEPT !.pc = "insert"]
    <3>1. call' = [call EXCEPT ![c] = new] /\ UNCHANGED <<jar, out>> /\ call[c].pc = "consume"
      BY <2>11 DEF Consume, Goes, At, history
    <3>2. new.left = call[c].left /\ call[c].left \in BOOLEAN
      BY DEF TypeOK, Call
    <3>3. call[c].left \/ ~out[Home(c)]
      BY <2>h, <3>1, <3>2 DEF OutInv, Exchange
    <3> HIDE DEF new
    <3> QED
      BY <3>1, <3>2, <3>3, OutOne
  <2>12. ASSUME NEW c \in Calls, Insert(c) PROVE OutInv'
    <3>1. PICK t \in Tokens : call' = [call EXCEPT ![c] = [call[c] EXCEPT !.pc = "granted", !.granted = t]]
      BY <2>12 DEF Insert
    <3> DEFINE new == [call[c] EXCEPT !.pc = "granted", !.granted = t]
    <3>2. new.left = call[c].left /\ call[c].left \in BOOLEAN
      BY DEF TypeOK, Call
    <3>3. UNCHANGED <<jar, out>> /\ call[c].pc = "insert" /\ call' = [call EXCEPT ![c] = new]
      BY <2>12, <3>1 DEF Insert, At
    <3>4. call[c].left \/ ~out[Home(c)]
      BY <2>h, <3>2, <3>3 DEF OutInv, Exchange
    <3> HIDE DEF new
    <3> QED
      BY <3>2, <3>3, <3>4, OutOne
  <2>13. ASSUME NEW c \in Calls, AccountGone(c) PROVE OutInv'
    <3> DEFINE new == [call[c] EXCEPT !.pc = "refused"]
    <3>1. new.pc = "refused" /\ new.token = call[c].token /\ call[c].pc \in Exchange /\ new.left = call[c].left
      BY <2>13 DEF AccountGone, At, Exchange, TypeOK, Call
    <3>2. call' = [call EXCEPT ![c] = new] /\ UNCHANGED <<jar, out>>
      BY <2>13 DEF AccountGone, Goes
    <3> HIDE DEF new
    <3> QED
      BY <3>1, <3>2, OutOne
  <2>14. ASSUME NEW c \in Calls, RevokeOwn(c) PROVE OutInv'
    <3> DEFINE new == [call[c] EXCEPT !.pc = "cleared"]
    <3>1. new.pc \notin Exchange
      BY DEF Exchange, TypeOK, Call
    <3>2. call' = [call EXCEPT ![c] = new] /\ UNCHANGED <<jar, out>>
      BY <2>14 DEF RevokeOwn, Goes, history
    <3> HIDE DEF new
    <3> QED
      BY <3>1, <3>2, OutOne
  <2>15. ASSUME NEW c \in Calls, LoggedIn(c) PROVE OutInv'
    <3>1. ~out[Home(c)] /\ out' = out
      BY <2>15, <2>h DEF LoggedIn, Answered, At, OutInv, Exchange
    <3>2. \A b \in Browsers : out[b] => jar'[b] = jar[b]
      BY <2>15, <3>1 DEF LoggedIn, SetAuthCookies, TypeOK
    <3> QED
      BY <2>15, <3>1, <3>2, OutOne DEF LoggedIn
  <2>16. ASSUME NEW c \in Calls, NEW granted \in BOOLEAN, Settle(c, granted)
         PROVE  \A d \in Calls : call'[d] = call[d] \/ call'[d].pc \notin Exchange
    BY <2>16 DEF Settle, Retry, Idle, Exchange
  <2>17. ASSUME NEW c \in Calls, Refreshed(c) PROVE OutInv'
    <3>1. ~out[Home(c)] /\ out' = out
      BY <2>17, <2>h DEF Refreshed, Answered, At, OutInv, Exchange
    <3>2. \A b \in Browsers : out[b] => jar'[b] = jar[b]
      BY <2>17, <3>1 DEF Refreshed, SetAuthCookies, TypeOK
    <3>3. \A d \in Calls : call'[d] = call[d] \/ call'[d].pc \notin Exchange
      BY <2>16, <2>17 DEF Refreshed
    <3> QED
      BY <3>1, <3>2, <3>3 DEF OutInv, Home
  <2>18. ASSUME NEW c \in Calls, Refused(c) PROVE OutInv'
    <3>1. \A d \in Calls : call'[d] = call[d] \/ call'[d].pc \notin Exchange
      BY <2>16, <2>18 DEF Refused
    <3> QED
      BY <2>18, <3>1 DEF Refused, OutInv, Home
  <2>19. ASSUME NEW c \in Calls, LoggedOut(c) PROVE OutInv'
    <3>1. \A d \in Calls : call'[d] = IF d = c THEN Idle ELSE call[d]
      BY <2>19 DEF LoggedOut, TypeOK
    <3>2. \A b \in Browsers : jar'[b] = IF b = Home(c) THEN Null ELSE jar[b]
      BY <2>19 DEF LoggedOut, ClearAuthCookies, TypeOK
    <3>3. \A b \in Browsers : out'[b] = IF b = Home(c) THEN Alone(c) ELSE out[b]
      BY <2>19 DEF LoggedOut, TypeOK
    <3>4. Idle.pc \notin Exchange
      BY DEF Idle, Exchange
    <3>5. ASSUME NEW b \in Browsers, out'[b]
          PROVE  /\ jar'[b] = Null
                 /\ \A d \in Calls : Home(d) = b /\ call'[d].pc \in Exchange /\ ~call'[d].left =>
                        call'[d].pc \in {"read", "refused"} /\ call'[d].token = Null
      <4>1. CASE b = Home(c)
        BY <3>1, <3>2, <3>3, <3>4, <3>5, <4>1 DEF Alone
      <4>2. CASE b # Home(c)
        BY <3>1, <3>2, <3>3, <3>4, <3>5, <4>2 DEF OutInv
      <4> QED
        BY <4>1, <4>2
    <3> QED
      BY <3>5 DEF OutInv, Home
  <2>20. ASSUME NEW c \in Calls, PageFails(c) PROVE OutInv'
    BY <2>20, OutOne DEF PageFails, Idle, Exchange, history
  <2>21. ASSUME NEW c \in Calls, HydrateFails(c) PROVE OutInv'
    BY <2>21, OutOne DEF HydrateFails, Idle, Exchange, history
  <2>22. ASSUME NEW c \in Calls, ExchangeFails(c) PROVE OutInv'
    <3>1. UNCHANGED <<jar, out>>
      BY <2>22 DEF ExchangeFails
    <3>2. CASE call[c].kind \in {"login", "logout"}
      <4>1. call' = [call EXCEPT ![c] = Idle]
        BY <2>22, <3>2 DEF ExchangeFails
      <4> QED
        BY <3>1, <4>1, OutOne DEF Idle, Exchange
    <3>3. CASE call[c].kind \notin {"login", "logout"}
      <4> DEFINE new == [call[c] EXCEPT !.pc = "refused"]
      <4>1. call' = [call EXCEPT ![c] = new] /\ call[c].pc \in Exchange /\ ~call[c].left
        BY <2>22, <3>3 DEF ExchangeFails, Goes, GuardInv, Handling
      <4>2. new.pc = "refused" /\ new.token = call[c].token
        BY DEF TypeOK, Call
      <4> HIDE DEF new
      <4> QED
        BY <3>1, <4>1, <4>2, OutOne
    <3> QED
      BY <3>2, <3>3
  <2>25. ASSUME NEW c \in Calls, Unheard(c) PROVE OutInv'
    BY <2>25, OutOne DEF Unheard, Idle, Exchange
  <2>23. CASE PasswordReset
    BY <2>23 DEF PasswordReset, OutInv, Home
  <2>24. CASE AccountDeleted
    BY <2>24 DEF AccountDeleted, OutInv, Home, history
  <2> QED
    BY <2>0, <2>1, <2>2, <2>3, <2>4, <2>5, <2>6, <2>7, <2>8, <2>9, <2>10, <2>11, <2>12, <2>13,
       <2>14, <2>15, <2>17, <2>18, <2>19, <2>20, <2>21, <2>22, <2>23, <2>24, <2>25
       DEF Next, Begin, Step, Fails
<1>3. OutInv => LogoutLasts
  BY DEF OutInv, LogoutLasts
<1>4. Spec => []GuardInv
  BY GuardInvariant
<1> QED
  BY <1>1, <1>2, <1>3, <1>4, TypeCorrect, PTL DEF Spec

-----------------------------------------------------------------------------
\* Alarms have a cause.  Spending is where a call has revoked its token and
\* still holds it; a revoked token that nobody is to blame for is held there,
\* and by nobody else.
Spending == {"insert", "granted", "cleared"}

Shape == \A c \in Calls :
    /\ call[c].pc \in {"idle", "first", "second", "await"} =>
           call[c].token = Null /\ call[c].granted = Null
    /\ call[c].granted # Null => call[c].pc \in {"granted", "refused"}
    /\ call[c].pc = "granted" => call[c].granted # Null
    /\ call[c].kind = "login" => call[c].token = Null
    /\ call[c].pc \in {"sweep", "consume"} => call[c].token # Null

Distinct ==
    /\ \A c, d \in Calls : call[c].granted # Null =>
           call[d].token # call[c].granted /\ (call[d].granted = call[c].granted => d = c)
    /\ \A c \in Calls, b \in Browsers : call[c].granted # Null => jar[b] # call[c].granted
    /\ \A b1, b2 \in Browsers : jar[b1] # Null /\ jar[b1] = jar[b2] => b1 = b2
    /\ \A c \in Calls, b \in Browsers : call[c].token # Null /\ jar[b] = call[c].token => b = Home(c)

Blamed ==
    /\ \A c, d \in Calls : c # d /\ call[c].token # Null /\ call[c].token = call[d].token =>
           cause[call[c].token] # "no"
    /\ \A c \in Calls : call[c].pc = "sweep" => cause[call[c].token] # "no"
    /\ \A t \in Tokens : rows[t] = "revoked" /\ cause[t] = "no" =>
           \E c \in Calls : call[c].token = t /\ call[c].pc \in Spending

AlarmInv == Shape /\ Distinct /\ Blamed

\* A call that holds nothing begins or ends without taking a token.
LEMMA AlarmQuiet ==
    ASSUME TypeOK, AlarmInv, NEW c \in Calls, NEW new \in Call,
           call' = [call EXCEPT ![c] = new], UNCHANGED <<rows, jar, cause>>,
           call[c].token = Null, call[c].granted = Null,
           new.token = Null, new.granted = Null,
           new.pc \notin {"granted", "sweep", "consume"}
    PROVE  AlarmInv'
<1>1. \A d \in Calls : call'[d] = IF d = c THEN new ELSE call[d]
  BY DEF TypeOK
<1>2. Shape'
  BY <1>1 DEF AlarmInv, Shape
<1>3. Distinct'
  BY <1>1 DEF AlarmInv, Distinct, Home
<1>4. Blamed'
  <2>1. \A t \in Tokens : rows[t] = "revoked" /\ cause[t] = "no" =>
            \E d \in Calls : call'[d].token = t /\ call'[d].pc \in Spending
    BY <1>1, SessionsAssumption DEF AlarmInv, Blamed
  <2> QED
    BY <1>1, <2>1 DEF AlarmInv, Blamed
<1> QED
  BY <1>2, <1>3, <1>4 DEF AlarmInv

\* A page goes: its calls keep what they hold on the server, or hold nothing.
LEMMA AlarmReload ==
    ASSUME TypeOK, AlarmInv, UNCHANGED <<rows, jar, cause>>,
           \A d \in Calls : \/ /\ call'[d].token = call[d].token /\ call'[d].granted = call[d].granted
                               /\ call'[d].pc = call[d].pc /\ call'[d].kind = call[d].kind
                            \/ /\ call[d].token = Null /\ call[d].granted = Null
                               /\ call'[d].token = Null /\ call'[d].granted = Null
                               /\ call'[d].pc \notin {"granted", "sweep", "consume"}
    PROVE  AlarmInv'
<1>1. Shape'
  BY DEF AlarmInv, Shape
<1>2. \A d \in Calls : call'[d].token = call[d].token /\ call'[d].granted = call[d].granted
  OBVIOUS
<1>3. Distinct'
  BY <1>2 DEF AlarmInv, Distinct, Home
<1>4. Blamed'
  <2>1. \A t \in Tokens : rows[t] = "revoked" /\ cause[t] = "no" =>
            \E d \in Calls : call'[d].token = t /\ call'[d].pc \in Spending
    BY SessionsAssumption DEF AlarmInv, Blamed
  <2> QED
    BY <1>2, <2>1 DEF AlarmInv, Blamed
<1> QED
  BY <1>1, <1>3, <1>4 DEF AlarmInv

\* A call that holds nothing takes the token of its browser.
LEMMA AlarmSends ==
    ASSUME TypeOK, AlarmInv, NEW c \in Calls, NEW new \in Call,
           call' = [call EXCEPT ![c] = new], UNCHANGED <<rows, jar>>, Sent(c),
           call[c].token = Null, call[c].granted = Null,
           new.token = jar[Home(c)], new.granted = Null,
           new.pc \in {"read", "revoke"}, new.kind # "login"
    PROVE  AlarmInv'
<1> USE SessionsAssumption
<1>1. \A d \in Calls : call'[d] = IF d = c THEN new ELSE call[d]
  BY DEF TypeOK
<1>2. Shape'
  BY <1>1 DEF AlarmInv, Shape
<1>0. Home(c) \in Browsers /\ jar[Home(c)] \in Tokens \cup {Null}
  BY DEF Home, TypeOK
<1>3. Distinct'
  BY <1>0, <1>1 DEF AlarmInv, Distinct, Home
<1>4. \A t \in Tokens : cause'[t] = IF t = jar[Home(c)] /\ \E d \in Calls \ {c} : call[d].token = t
                                    THEN "doubled" ELSE cause[t]
  BY <1>0 DEF Sent, TypeOK
<1>5. Blamed'
  <2>1. \A t \in Tokens : rows[t] = "revoked" /\ cause'[t] = "no" =>
            \E d \in Calls : call'[d].token = t /\ call'[d].pc \in Spending
    BY <1>1, <1>4 DEF AlarmInv, Blamed
  <2>2. ASSUME NEW d1 \in Calls, NEW d2 \in Calls, d1 # d2, call'[d1].token # Null,
               call'[d1].token = call'[d2].token
        PROVE  cause'[call'[d1].token] # "no"
    BY <1>0, <1>1, <1>4, <2>2 DEF AlarmInv, Blamed, TypeOK, Call
  <2>3. ASSUME NEW d \in Calls, call'[d].pc = "sweep" PROVE cause'[call'[d].token] # "no"
    BY <1>1, <1>4, <2>3 DEF AlarmInv, Blamed, Shape, TypeOK, Call
  <2> QED
    BY <2>1, <2>2, <2>3 DEF Blamed
<1> QED
  BY <1>2, <1>3, <1>5 DEF AlarmInv

\* A call goes from one statement to the next with the tokens it has.
LEMMA AlarmMoves ==
    ASSUME TypeOK, TypeOK', AlarmInv, NEW c \in Calls, NEW new \in Call,
           call' = [call EXCEPT ![c] = new], UNCHANGED jar,
           new.token = call[c].token, new.granted = call[c].granted, new.kind = call[c].kind,
           new.pc \notin {"idle", "first", "second", "await", "granted"},
           new.granted # Null => new.pc = "refused",
           new.pc \in {"sweep", "consume"} => new.token # Null,
           new.pc = "sweep" => cause'[new.token] # "no",
           call[c].pc \in Spending => new.pc \in Spending \/ new.token = Null \/ cause'[new.token] # "no",
           \A d \in Calls : call[d].token # Null /\ cause[call[d].token] # "no" =>
               cause'[call[d].token] # "no",
           \A t \in Tokens : rows'[t] = "revoked" /\ cause'[t] = "no" =>
               cause[t] = "no" /\ (rows[t] = "revoked" \/ (t = new.token /\ new.pc \in Spending))
    PROVE  AlarmInv'
<1> USE SessionsAssumption
<1>1. \A d \in Calls : call'[d] = IF d = c THEN new ELSE call[d]
  BY DEF TypeOK
<1>2. Shape'
  BY <1>1 DEF AlarmInv, Shape
<1>3. Distinct'
  BY <1>1 DEF AlarmInv, Distinct, Home
<1>4. \A d \in Calls : call'[d].token = call[d].token
  BY <1>1
<1>5. ASSUME NEW d1 \in Calls, NEW d2 \in Calls, d1 # d2, call'[d1].token # Null,
             call'[d1].token = call'[d2].token
      PROVE  cause'[call'[d1].token] # "no"
  BY <1>4, <1>5 DEF AlarmInv, Blamed
<1>6. ASSUME NEW d \in Calls, call'[d].pc = "sweep" PROVE cause'[call'[d].token] # "no"
  BY <1>1, <1>4, <1>6 DEF AlarmInv, Blamed, Shape
<1>7. ASSUME NEW t \in Tokens, rows'[t] = "revoked", cause'[t] = "no"
      PROVE  \E d \in Calls : call'[d].token = t /\ call'[d].pc \in Spending
  <2>1. CASE t = new.token /\ new.pc \in Spending
    BY <1>1, <2>1
  <2>2. CASE ~(t = new.token /\ new.pc \in Spending)
    <3>1. rows[t] = "revoked" /\ cause[t] = "no"
      BY <1>7, <2>2
    <3>2. PICK d \in Calls : call[d].token = t /\ call[d].pc \in Spending
      BY <3>1 DEF AlarmInv, Blamed
    <3>3. d # c
      BY <1>7, <2>2, <3>2
    <3> QED
      BY <1>1, <3>2, <3>3
  <2> QED
    BY <2>1, <2>2
<1>8. Blamed'
  BY <1>5, <1>6, <1>7 DEF Blamed
<1> QED
  BY <1>2, <1>3, <1>8 DEF AlarmInv

\* Calls end or resume and let go of their tokens; the cookie of a browser may
\* become the granted token of one of them, or nothing.
LEMMA AlarmDrops ==
    ASSUME TypeOK, TypeOK', AlarmInv, NEW c \in Calls, NEW z \in [Tokens -> Cause], Keep(rows, z),
           \A d \in Calls : \/ call'[d] = call[d]
                            \/ /\ call'[d].token = Null /\ call'[d].granted = Null
                               /\ call'[d].pc \notin {"granted", "sweep", "consume"},
           \A b \in Browsers : \/ jar'[b] = jar[b]
                               \/ jar'[b] = Null
                               \/ /\ b = Home(c) /\ jar'[b] = call[c].granted
                                  /\ call'[c].granted = Null /\ call[c].granted # Null,
           \A t \in Tokens : z[t] = "no" => cause[t] = "no",
           \A d \in Calls : call'[d] # call[d] /\ call[d].token # Null /\ call[d].pc \in Spending =>
               z[call[d].token] # "no" \/ jar'[Home(d)] # call[d].token
    PROVE  AlarmInv'
<1> USE SessionsAssumption
<1>h. \A d \in Calls : Home(d) \in Browsers
  BY DEF Home
<1>1. Shape'
  BY DEF AlarmInv, Shape
<1>2. Distinct'
  <2>1. ASSUME NEW d1 \in Calls, NEW d2 \in Calls, call'[d1].granted # Null
        PROVE  /\ call'[d2].token # call'[d1].granted
               /\ call'[d2].granted = call'[d1].granted => d2 = d1
    BY <2>1 DEF AlarmInv, Distinct
  <2>2. ASSUME NEW d \in Calls, NEW b \in Browsers, call'[d].granted # Null
        PROVE  jar'[b] # call'[d].granted
    BY <2>2 DEF AlarmInv, Distinct
  <2>3. ASSUME NEW b1 \in Browsers, NEW b2 \in Browsers, jar'[b1] # Null, jar'[b1] = jar'[b2]
        PROVE  b1 = b2
    BY <2>3, <1>h DEF AlarmInv, Distinct
  <2>4. ASSUME NEW d \in Calls, NEW b \in Browsers, call'[d].token # Null, jar'[b] = call'[d].token
        PROVE  b = Home(d)
    BY <2>4, <1>h DEF AlarmInv, Distinct
  <2> QED
    BY <2>1, <2>2, <2>3, <2>4 DEF Distinct, Home
<1>3. \A t \in Tokens : rows'[t] # "none" => t \in Held' /\ rows'[t] = rows[t] /\ cause'[t] = z[t]
  BY DEF Keep
<1>4. \A d \in Calls : call'[d].token # Null =>
          call'[d] = call[d] /\ call[d].token \in Tokens /\ call[d].token \in Held' 
          /\ cause'[call[d].token] = z[call[d].token]
  <2> SUFFICES ASSUME NEW d \in Calls, call'[d].token # Null
               PROVE  call'[d] = call[d] /\ call[d].token \in Tokens /\ call[d].token \in Held' 
                      /\ cause'[call[d].token] = z[call[d].token]
    OBVIOUS
  <2>1. call'[d] = call[d] /\ call[d].token \in Tokens
    BY DEF TypeOK, Call
  <2>2. call[d].token \in Held'
    BY <2>1 DEF Held
  <2> QED
    BY <2>1, <2>2 DEF Keep
<1>5. \A t \in Tokens : cause[t] # "no" => z[t] # "no"
  OBVIOUS
<1>6. ASSUME NEW d1 \in Calls, NEW d2 \in Calls, d1 # d2, call'[d1].token # Null,
             call'[d1].token = call'[d2].token
      PROVE  cause'[call'[d1].token] # "no"
  BY <1>4, <1>5, <1>6 DEF AlarmInv, Blamed
<1>7. ASSUME NEW d \in Calls, call'[d].pc = "sweep" PROVE cause'[call'[d].token] # "no"
  <2>1. call'[d] = call[d] /\ call[d].token # Null
    BY <1>7 DEF AlarmInv, Shape
  <2> QED
    BY <1>4, <1>5, <1>7, <2>1 DEF AlarmInv, Blamed
<1>8. ASSUME NEW t \in Tokens, rows'[t] = "revoked", cause'[t] = "no"
      PROVE  \E d \in Calls : call'[d].token = t /\ call'[d].pc \in Spending
  <2>1. t \in Held' /\ rows[t] = "revoked" /\ z[t] = "no" /\ cause[t] = "no"
    BY <1>3, <1>5, <1>8
  <2>2. PICK d \in Calls : call[d].token = t /\ call[d].pc \in Spending
    BY <2>1 DEF AlarmInv, Blamed
  <2>3. CASE call'[d] = call[d]
    BY <2>2, <2>3
  <2>4. CASE call'[d] # call[d]
    <3>1. jar'[Home(d)] # t /\ t # Null
      BY <2>1, <2>2, <2>4
    <3>2. \A b \in Browsers : jar'[b] # t
      BY <2>2, <3>1 DEF AlarmInv, Distinct
    <3>3. \A e \in Calls : call'[e].token # t
      <4> SUFFICES ASSUME NEW e \in Calls, call'[e].token = t PROVE FALSE
        OBVIOUS
      <4>1. call'[e] = call[e] /\ e # d
        BY <1>4, <2>4, <3>1
      <4> QED
        BY <2>1, <2>2, <3>1, <4>1 DEF AlarmInv, Blamed
    <3>4. \A e \in Calls : call'[e].granted # t
      BY <2>2, <3>1 DEF AlarmInv, Distinct
    <3> QED
      BY <2>1, <3>2, <3>3, <3>4 DEF Held
  <2> QED
    BY <2>3, <2>4
<1>9. Blamed'
  BY <1>6, <1>7, <1>8 DEF Blamed
<1> QED
  BY <1>1, <1>2, <1>9 DEF AlarmInv

\* The answer of a refresh, granted or refused.
LEMMA AlarmSettles ==
    ASSUME TypeOK, TypeOK', AlarmInv, NEW c \in Calls, Refreshed(c) \/ Refused(c)
    PROVE  AlarmInv'
<1> USE SessionsAssumption
<1>0. PICK granted \in BOOLEAN : /\ Settle(c, granted) /\ Keep(rows, cause)
                                 /\ granted => Refreshed(c)
                                 /\ ~granted => Refused(c)
  BY DEF Refreshed, Refused
<1>1. \A d \in Calls : \/ call'[d] = call[d]
                       \/ /\ call'[d].token = Null /\ call'[d].granted = Null
                          /\ call'[d].pc \notin {"granted", "sweep", "consume"}
  BY <1>0 DEF Settle, Retry, Idle
<1>2. call'[c].granted = Null
  BY <1>0 DEF Settle, Retry, Idle
<1>3. \A d \in Calls : call'[d] # call[d] => d = c \/ call[d].token = Null
  BY <1>0 DEF Settle, Waiting, At, CallsIn, AlarmInv, Shape
<1>4. Home(c) \in Browsers
  BY DEF Home
<1>5. CASE granted
  <2>1. call[c].granted # Null /\ \A b \in Browsers : jar'[b] = IF b = Home(c) THEN call[c].granted ELSE jar[b]
    BY <1>0, <1>5 DEF Refreshed, Answered, At, SetAuthCookies, AlarmInv, Shape, TypeOK
  <2>2. call[c].token # Null => jar'[Home(c)] # call[c].token
    BY <1>4, <2>1 DEF AlarmInv, Distinct
  <2> QED
    BY <1>0, <1>1, <1>2, <1>3, <2>1, <2>2, AlarmDrops DEF TypeOK
<1>6. CASE ~granted
  <2>1. jar' = jar /\ call[c].pc \notin Spending
    BY <1>0, <1>6 DEF Refused, Answered, At, Spending
  <2> QED
    BY <1>0, <1>1, <1>3, <2>1, AlarmDrops DEF TypeOK
<1> QED
  BY <1>5, <1>6

\* The invariant of the alarms holds in every state.
THEOREM AlarmInvariant == Spec => []AlarmInv
<1>1. Init => AlarmInv
  BY SessionsAssumption DEF Init, AlarmInv, Shape, Distinct, Blamed, Idle
<1>2. TypeOK /\ TypeOK' /\ AlarmInv /\ [Next]_vars => AlarmInv'
  <2> SUFFICES ASSUME TypeOK, TypeOK', AlarmInv, [Next]_vars PROVE AlarmInv'
    OBVIOUS
  <2> USE SessionsAssumption
  <2>i. /\ Idle \in Call /\ Idle.token = Null /\ Idle.granted = Null /\ Idle.pc = "idle"
    BY DEF Idle, Call, Kind, Place, Handling
  <2>q. \A c \in Calls : call[c].pc \in {"idle", "first", "second", "await"} =>
            call[c].token = Null /\ call[c].granted = Null
    BY DEF AlarmInv, Shape
  <2>c. \A c \in Calls : call[c] \in Call /\ call[c].token \in Tokens \cup {Null}
    BY DEF TypeOK, Call
  <2>0. CASE UNCHANGED vars
    BY <2>0 DEF vars, history, AlarmInv, Shape, Distinct, Blamed, Home
  <2>1. ASSUME NEW c \in Calls, Load(c) PROVE AlarmInv'
    <3> DEFINE new == [Idle EXCEPT !.kind = "hydrate", !.pc = "first", !.access = jar[Home(c)] # Null]
    <3>1. new.token = Null /\ new.granted = Null /\ new.pc = "first"
      BY DEF Idle
    <3>2. \A d \in Calls : call'[d] = IF d = c THEN new
                                      ELSE IF TabOf[d] = TabOf[c] THEN Left(d) ELSE call[d]
      BY <2>1 DEF Load
    <3>3. UNCHANGED <<rows, jar, cause>> /\ call[c].pc \notin Handling
      BY <2>1 DEF Load, history
    <3> HIDE DEF new
    <3>4. \A d \in Calls : call[d].pc \notin Handling => call[d].token = Null /\ call[d].granted = Null
      BY <2>c, <2>q DEF Call, Place
    <3>5. \A d \in Calls : call[d].pc \in Handling =>
             /\ Left(d).token = call[d].token /\ Left(d).granted = call[d].granted
             /\ Left(d).pc = call[d].pc /\ Left(d).kind = call[d].kind
      BY <2>c DEF Left, Call
    <3>6. \A d \in Calls : call[d].pc \notin Handling => Left(d) = Idle
      BY DEF Left
    <3>7. \A d \in Calls : \/ /\ call'[d].token = call[d].token /\ call'[d].granted = call[d].granted
                               /\ call'[d].pc = call[d].pc /\ call'[d].kind = call[d].kind
                            \/ /\ call[d].token = Null /\ call[d].granted = Null
                               /\ call'[d].token = Null /\ call'[d].granted = Null
                               /\ call'[d].pc \notin {"granted", "sweep", "consume"}
      BY <2>i, <3>1, <3>2, <3>3, <3>4, <3>5, <3>6
    <3> QED
      BY <3>3, <3>7, AlarmReload
  <2>2. ASSUME NEW c \in Calls, Login(c) PROVE AlarmInv'
    <3> DEFINE new == [Idle EXCEPT !.kind = "login", !.pc = "insert"]
    <3>1. new \in Call /\ new.token = Null /\ new.granted = Null /\ new.pc = "insert"
      BY DEF Idle, Call, Kind, Place, Handling, Exchange
    <3>2. call' = [call EXCEPT ![c] = new] /\ UNCHANGED <<rows, jar, cause>> /\ call[c].pc = "idle"
      BY <2>2 DEF Login, At
    <3> HIDE DEF new
    <3> QED
      BY <2>q, <3>1, <3>2, AlarmQuiet
  <2>w. ASSUME NEW c \in Calls, NEW kind \in {"page", "hydrate", "logout"}, NEW pc \in {"read", "revoke"}
        PROVE  LET new == WithToken(c, kind, pc) IN
               new \in Call /\ new.token = jar[Home(c)] /\ new.granted = Null
               /\ new.pc = pc /\ new.kind = kind
    BY DEF WithToken, Idle, Call, Kind, Place, Handling, Exchange, Home, TypeOK
  <2>3. ASSUME NEW c \in Calls, Logout(c) PROVE AlarmInv'
    BY <2>3, <2>q, <2>w, AlarmSends DEF Logout, At
  <2>4. ASSUME NEW c \in Calls, Unauthorized(c) PROVE AlarmInv'
    <3>1. call[c].pc = "idle" /\ UNCHANGED <<rows, jar>>
      BY <2>4 DEF Unauthorized, At
    <3>2. CASE guard[TabOf[c]] = Null
      <4>1. call' = [call EXCEPT ![c] = WithToken(c, "page", "read")] /\ Sent(c)
        BY <2>4, <3>2 DEF Unauthorized, Refresh, SendsRefresh
      <4> QED
        BY <2>q, <2>w, <3>1, <4>1, AlarmSends
    <3>3. CASE guard[TabOf[c]] # Null
      <4> DEFINE new == [Idle EXCEPT !.kind = "page", !.pc = "await"]
      <4>1. new \in Call /\ new.token = Null /\ new.granted = Null /\ new.pc = "await"
        BY DEF Idle, Call, Kind, Place, Handling
      <4>2. call' = [call EXCEPT ![c] = new] /\ UNCHANGED cause
        BY <2>4, <3>3 DEF Unauthorized, Refresh
      <4> HIDE DEF new
      <4> QED
        BY <2>q, <3>1, <4>1, <4>2, AlarmQuiet
    <3> QED
      BY <3>2, <3>3
  <2>5. ASSUME NEW c \in Calls, Disabled(c) PROVE AlarmInv'
    BY <2>5 DEF Disabled, history, AlarmInv, Shape, Distinct, Blamed, Home
  <2>6. ASSUME NEW c \in Calls, Served(c) PROVE AlarmInv'
    BY <2>6, <2>i, <2>q, AlarmQuiet DEF Served, UnderWay, history
  <2>7. ASSUME NEW c \in Calls, Expired(c) PROVE AlarmInv'
    BY <2>7, <2>i, <2>q, AlarmQuiet DEF Expired, At, history
  <2>8. ASSUME NEW c \in Calls, HydrateRefresh(c) PROVE AlarmInv'
    BY <2>8, <2>q, <2>w, AlarmSends DEF HydrateRefresh, At
  <2>m. ASSUME NEW c \in Calls, NEW pc \in Place
        PROVE  LET new == [call[c] EXCEPT !.pc = pc] IN
               /\ new \in Call /\ new.pc = pc /\ new.token = call[c].token
               /\ new.granted = call[c].granted /\ new.kind = call[c].kind
    BY <2>c DEF Call
  <2>p. {"refused", "sweep", "consume", "insert", "cleared"} \subseteq Place
    BY DEF Place, Handling, Exchange
  <2>9. ASSUME NEW c \in Calls, Read(c) PROVE AlarmInv'
    <3> DEFINE t == call[c].token
               pc == IF t = Null \/ rows[t] = "none" THEN "refused"
                     ELSE IF rows[t] = "live" THEN "consume" ELSE "sweep"
               new == [call[c] EXCEPT !.pc = pc]
    <3>1. call' = [call EXCEPT ![c] = new] /\ UNCHANGED <<rows, jar, cause>> /\ call[c].pc = "read"
      BY <2>9 DEF Read, Goes, At, history
    <3>2. /\ new \in Call /\ new.pc = pc /\ new.token = t
          /\ new.granted = call[c].granted /\ new.kind = call[c].kind
      BY <2>m, <2>p
    <3>4. call[c].granted = Null
      BY <3>1 DEF AlarmInv, Shape
    <3>5. ASSUME pc = "sweep" PROVE cause[t] # "no"
      <4>1. t \in Tokens /\ rows[t] = "revoked"
        BY <3>5, <2>c DEF TypeOK
      <4> QED
        BY <3>1, <4>1 DEF AlarmInv, Blamed, Spending
    <3>6. pc \in {"consume", "sweep"} => t # Null
      OBVIOUS
    <3>7. pc \in {"refused", "sweep", "consume"}
      OBVIOUS
    <3> HIDE DEF new, pc
    <3> QED
      BY <3>1, <3>2, <3>4, <3>5, <3>6, <3>7, AlarmMoves DEF Spending
  <2>10. ASSUME NEW c \in Calls, Sweep(c) PROVE AlarmInv'
    <3> DEFINE new == [call[c] EXCEPT !.pc = "refused"]
    <3>1. call' = [call EXCEPT ![c] = new] /\ UNCHANGED jar /\ call[c].pc = "sweep"
      BY <2>10 DEF Sweep, Goes, At
    <3>2. /\ new \in Call /\ new.pc = "refused" /\ new.token = call[c].token
          /\ new.granted = call[c].granted /\ new.kind = call[c].kind
      BY <2>m, <2>p
    <3>3. call[c].granted = Null
      BY <3>1 DEF AlarmInv, Shape
    <3>4. \A t \in Tokens : /\ rows'[t] = IF rows[t] = "live" THEN "revoked" ELSE rows[t]
                            /\ rows[t] = "live" => cause'[t] \in {"doubled", "swept"}
                            /\ rows[t] # "live" => cause'[t] = cause[t]
      BY <2>10 DEF Sweep, AllRevoked, Swept
    <3> HIDE DEF new
    <3> QED
      BY <2>c, <3>1, <3>2, <3>3, <3>4, AlarmMoves DEF Spending
  <2>11. ASSUME NEW c \in Calls, Consume(c) PROVE AlarmInv'
    <3> DEFINE new == [call[c] EXCEPT !.pc = "insert"]
    <3>1. call' = [call EXCEPT ![c] = new] /\ UNCHANGED <<jar, cause>> /\ call[c].pc = "consume"
      BY <2>11 DEF Consume, Goes, At, history
    <3>2. /\ new \in Call /\ new.pc = "insert" /\ new.token = call[c].token
          /\ new.granted = call[c].granted /\ new.kind = call[c].kind
      BY <2>m, <2>p
    <3>3. call[c].granted = Null
      BY <3>1 DEF AlarmInv, Shape
    <3>4. \A t \in Tokens : rows'[t] = rows[t] \/ t = call[c].token
      BY <2>11 DEF Consume, Revoked, TypeOK
    <3> HIDE DEF new
    <3> QED
      BY <3>1, <3>2, <3>3, <3>4, AlarmMoves DEF Spending
  <2>13. ASSUME NEW c \in Calls, AccountGone(c) PROVE AlarmInv'
    <3> DEFINE new == [call[c] EXCEPT !.pc = "refused"]
    <3>1. call' = [call EXCEPT ![c] = new] /\ UNCHANGED <<rows, jar>> /\ call[c].pc = "insert"
      BY <2>13 DEF AccountGone, Goes, At
    <3>2. /\ new \in Call /\ new.pc = "refused" /\ new.token = call[c].token
          /\ new.granted = call[c].granted /\ new.kind = call[c].kind
      BY <2>m, <2>p
    <3>4. \A t \in Tokens : cause'[t] = IF t = call[c].token THEN "cut" ELSE cause[t]
      BY <2>13, <3>1 DEF AccountGone, CutOff, TypeOK
    <3> HIDE DEF new
    <3> QED
      BY <2>c, <3>1, <3>2, <3>4, AlarmMoves DEF Spending
  <2>14. ASSUME NEW c \in Calls, RevokeOwn(c) PROVE AlarmInv'
    <3> DEFINE new == [call[c] EXCEPT !.pc = "cleared"]
    <3>1. call' = [call EXCEPT ![c] = new] /\ UNCHANGED <<jar, cause>> /\ call[c].pc = "revoke"
      BY <2>14 DEF RevokeOwn, Goes, At, history
    <3>2. /\ new \in Call /\ new.pc = "cleared" /\ new.token = call[c].token
          /\ new.granted = call[c].granted /\ new.kind = call[c].kind
      BY <2>m, <2>p
    <3>3. call[c].granted = Null
      BY <3>1 DEF AlarmInv, Shape
    <3>4. \A t \in Tokens : rows'[t] = rows[t] \/ t = call[c].token
      BY <2>14 DEF RevokeOwn, Revoked, TypeOK
    <3> HIDE DEF new
    <3> QED
      BY <3>1, <3>2, <3>3, <3>4, AlarmMoves DEF Spending
  <2>12. ASSUME NEW c \in Calls, Insert(c) PROVE AlarmInv'
    <3>1. PICK t \in Tokens \ Held :
              /\ rows' = [rows EXCEPT ![t] = "live"]
              /\ cause' = [cause EXCEPT ![t] = "no"]
              /\ call' = [call EXCEPT ![c] = [call[c] EXCEPT !.pc = "granted", !.granted = t]]
      BY <2>12 DEF Insert
    <3>2. \A d \in Calls : /\ call'[d].token = call[d].token
                           /\ call'[d].kind = call[d].kind
                           /\ call'[d].pc = IF d = c THEN "granted" ELSE call[d].pc
                           /\ call'[d].granted = IF d = c THEN t ELSE call[d].granted
      BY <2>c, <3>1 DEF TypeOK, Call
    <3>3. jar' = jar /\ call[c].pc = "insert"
      BY <2>12 DEF Insert, At
    <3>4. /\ \A d \in Calls : call[d].token # t /\ call[d].granted # t
          /\ \A b \in Browsers : jar[b] # t
          /\ t # Null
      BY DEF Held
    <3>5. Shape'
      BY <3>2, <3>3, <3>4 DEF AlarmInv, Shape
    <3>6. Distinct'
      BY <3>2, <3>3, <3>4 DEF AlarmInv, Distinct, Home
    <3>7. \A u \in Tokens : u # t => rows'[u] = rows[u] /\ cause'[u] = cause[u]
      BY <3>1 DEF TypeOK
    <3>8. ASSUME NEW d1 \in Calls, NEW d2 \in Calls, d1 # d2, call'[d1].token # Null,
                 call'[d1].token = call'[d2].token
          PROVE  cause'[call'[d1].token] # "no"
      BY <2>c, <3>2, <3>4, <3>7, <3>8 DEF AlarmInv, Blamed
    <3>9. ASSUME NEW d \in Calls, call'[d].pc = "sweep" PROVE cause'[call'[d].token] # "no"
      BY <2>c, <3>2, <3>4, <3>7, <3>9 DEF AlarmInv, Blamed, Shape
    <3>10. ASSUME NEW u \in Tokens, rows'[u] = "revoked", cause'[u] = "no"
           PROVE  \E d \in Calls : call'[d].token = u /\ call'[d].pc \in Spending
      <4>1. u # t /\ rows[u] = "revoked" /\ cause[u] = "no"
        BY <3>1, <3>7, <3>10 DEF TypeOK
      <4>2. PICK d \in Calls : call[d].token = u /\ call[d].pc \in Spending
        BY <4>1 DEF AlarmInv, Blamed
      <4> QED
        BY <3>2, <4>2 DEF Spending
    <3>11. Blamed'
      BY <3>8, <3>9, <3>10 DEF Blamed
    <3> QED
      BY <3>5, <3>6, <3>11 DEF AlarmInv
  <2>15. ASSUME NEW c \in Calls, LoggedIn(c) PROVE AlarmInv'
    <3>1. \A d \in Calls : call'[d] = IF d = c THEN Idle ELSE call[d]
      BY <2>15 DEF LoggedIn, TypeOK
    <3>2. \A b \in Browsers : jar'[b] = IF b = Home(c) THEN call[c].granted ELSE jar[b]
      BY <2>15 DEF LoggedIn, SetAuthCookies, TypeOK
    <3>3. call[c].token = Null /\ call[c].granted # Null
      BY <2>15 DEF LoggedIn, Answered, At, AlarmInv, Shape
    <3>4. Keep(rows, cause) /\ cause \in [Tokens -> Cause]
      BY <2>15 DEF LoggedIn, TypeOK
    <3> QED
      BY <2>i, <3>1, <3>2, <3>3, <3>4, AlarmDrops
  <2>16. ASSUME NEW c \in Calls, Refreshed(c) \/ Refused(c) PROVE AlarmInv'
    BY <2>16, AlarmSettles
  <2>17. ASSUME NEW c \in Calls, LoggedOut(c) PROVE AlarmInv'
    <3>1. \A d \in Calls : call'[d] = IF d = c THEN Idle ELSE call[d]
      BY <2>17 DEF LoggedOut, TypeOK
    <3>2. \A b \in Browsers : jar'[b] = IF b = Home(c) THEN Null ELSE jar[b]
      BY <2>17 DEF LoggedOut, ClearAuthCookies, TypeOK
    <3>3. Keep(rows, cause) /\ cause \in [Tokens -> Cause] /\ Home(c) \in Browsers
      BY <2>17 DEF LoggedOut, TypeOK, Home
    <3> QED
      BY <2>i, <3>1, <3>2, <3>3, AlarmDrops
  <2>18. ASSUME NEW c \in Calls, PageFails(c) PROVE AlarmInv'
    BY <2>18, <2>i, <2>q, AlarmQuiet DEF PageFails, UnderWay, history
  <2>19. ASSUME NEW c \in Calls, HydrateFails(c) PROVE AlarmInv'
    BY <2>19, <2>i, <2>q, AlarmQuiet DEF HydrateFails, UnderWay, history
  <2>20. ASSUME NEW c \in Calls, ExchangeFails(c) PROVE AlarmInv'
    <3>1. /\ UNCHANGED jar /\ Keep(rows, CutOff(c)) /\ CutOff(c) \in [Tokens -> Cause]
          /\ \A t \in Tokens : CutOff(c)[t] = "no" => cause[t] = "no"
          /\ call[c].token # Null /\ call[c].pc \in Spending => CutOff(c)[call[c].token] # "no"
      BY <2>20, <2>c DEF ExchangeFails, CutOff, Spending, TypeOK, Cause
    <3>2. CASE call[c].kind \in {"login", "logout"}
      <4>1. \A d \in Calls : call'[d] = IF d = c THEN Idle ELSE call[d]
        BY <2>20, <3>2 DEF ExchangeFails, TypeOK
      <4> QED
        BY <2>i, <3>1, <4>1, AlarmDrops
    <3>3. CASE call[c].kind \notin {"login", "logout"}
      <4> DEFINE new == [call[c] EXCEPT !.pc = "refused"]
      <4>1. call' = [call EXCEPT ![c] = new]
        BY <2>20, <3>3 DEF ExchangeFails, Goes
      <4>2. /\ new \in Call /\ new.pc = "refused" /\ new.token = call[c].token
            /\ new.granted = call[c].granted /\ new.kind = call[c].kind
        BY <2>m, <2>p
      <4>3. \A d \in Calls : call'[d].token = call[d].token
        BY <4>1, <4>2 DEF TypeOK
      <4>4. \A d \in Calls : call[d].token # Null =>
                call[d].token \in Held' /\ cause'[call[d].token] = CutOff(c)[call[d].token]
        BY <2>c, <3>1, <4>3 DEF Held, Keep
      <4>5. \A t \in Tokens : rows'[t] = "revoked" => rows[t] = "revoked" /\ cause'[t] = CutOff(c)[t]
        BY <3>1 DEF Keep
      <4>6. \A t \in Tokens : cause[t] # "no" => CutOff(c)[t] # "no"
        BY <3>1
      <4>7. \A d \in Calls : call[d].token # Null /\ cause[call[d].token] # "no" =>
                cause'[call[d].token] # "no"
        BY <2>c, <4>4, <4>6
      <4>8. \A t \in Tokens : rows'[t] = "revoked" /\ cause'[t] = "no" =>
                cause[t] = "no" /\ rows[t] = "revoked"
        BY <4>5, <4>6
      <4>9. call[c].pc \in Spending /\ call[c].token # Null => cause'[call[c].token] # "no"
        BY <3>1, <4>4
      <4> HIDE DEF new
      <4> QED
        BY <3>1, <4>1, <4>2, <4>7, <4>8, <4>9, AlarmMoves
    <3> QED
      BY <3>2, <3>3
  <2>23. ASSUME NEW c \in Calls, Unheard(c) PROVE AlarmInv'
    <3>1. /\ UNCHANGED jar /\ Keep(rows, CutOff(c)) /\ CutOff(c) \in [Tokens -> Cause]
          /\ \A t \in Tokens : CutOff(c)[t] = "no" => cause[t] = "no"
          /\ call[c].token # Null /\ call[c].pc \in Spending => CutOff(c)[call[c].token] # "no"
      BY <2>23, <2>c DEF Unheard, CutOff, Spending, TypeOK, Cause
    <3>2. \A d \in Calls : call'[d] = IF d = c THEN Idle ELSE call[d]
      BY <2>23 DEF Unheard, TypeOK
    <3> QED
      BY <2>i, <3>1, <3>2, AlarmDrops
  <2>21. CASE PasswordReset
    <3>1. \A t \in Tokens : /\ rows'[t] = IF rows[t] = "live" THEN "revoked" ELSE rows[t]
                            /\ rows[t] = "live" => cause'[t] \in {"doubled", "swept"}
                            /\ rows[t] # "live" => cause'[t] = cause[t]
      BY <2>21 DEF PasswordReset, AllRevoked, Swept
    <3>2. UNCHANGED <<jar, call>>
      BY <2>21 DEF PasswordReset
    <3>3. Shape' /\ Distinct'
      BY <3>2 DEF AlarmInv, Shape, Distinct, Home
    <3>4. \A t \in Tokens : cause'[t] = "no" => cause[t] = "no" /\ rows'[t] = rows[t]
      BY <3>1 
    <3>5. Blamed'
      <4>1. \A d1, d2 \in Calls : d1 # d2 /\ call[d1].token # Null /\ call[d1].token = call[d2].token =>
                cause'[call[d1].token] # "no"
        BY <2>c, <3>4 DEF AlarmInv, Blamed
      <4>2. \A d \in Calls : call[d].pc = "sweep" => cause'[call[d].token] # "no"
        BY <2>c, <3>4 DEF AlarmInv, Blamed, Shape
      <4>3. \A t \in Tokens : rows'[t] = "revoked" /\ cause'[t] = "no" =>
                \E d \in Calls : call[d].token = t /\ call[d].pc \in Spending
        BY <3>4 DEF AlarmInv, Blamed
      <4> QED
        BY <3>2, <4>1, <4>2, <4>3 DEF Blamed
    <3> QED
      BY <3>3, <3>5 DEF AlarmInv
  <2>22. CASE AccountDeleted
    BY <2>22 DEF AccountDeleted, history, AlarmInv, Shape, Distinct, Blamed, Home
  <2> QED
    BY <2>0, <2>1, <2>2, <2>3, <2>4, <2>5, <2>6, <2>7, <2>8, <2>9, <2>10, <2>11, <2>12, <2>13,
       <2>14, <2>15, <2>16, <2>17, <2>18, <2>19, <2>20, <2>21, <2>22, <2>23
       DEF Next, Begin, Step, Fails
<1> QED
  BY <1>1, <1>2, TypeCorrect, PTL DEF Spec

\* A browser used call after call never ends its own session: every alarm has
\* a cause, for every number of browsers, tabs, calls and tokens (#21).
THEOREM NoFalseAlarm == Spec => []AlarmsHaveCause
<1>1. AlarmInv => AlarmsHaveCause
  BY DEF AlarmInv, Blamed, AlarmsHaveCause, At
<1> QED
  BY <1>1, AlarmInvariant, PTL
=============================================================================
