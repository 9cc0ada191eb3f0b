------------------------ MODULE ClientAccountProofs ------------------------
(***************************************************************************)
(* Proofs about ClientAccount for every number of requests, links, refresh *)
(* tokens and passwords, and every lockout limit.                          *)
(***************************************************************************)
EXTENDS ClientAccount, TLAPS

-----------------------------------------------------------------------------
\* What an operation remembers: the variant of a request follows from its op.
LEMMA RequestVariants ==
    ASSUME NEW q \in Request
    PROVE  /\ q.op = "create" => q \in Creating
           /\ q.op = "link" => q \in Linking
           /\ q.op = "mail" => q \in Mailing
           /\ q.op = "login" => q \in LoggingIn
           /\ q.op = "refresh" => q \in Consuming
           /\ q.op = "issue" => q \in Issuing
           /\ q.op = "reset" => q \in Resetting
  BY DEF Request, Idle, Creating, Linking, Mailing, LoggingIn, Consuming,
         Issuing, Resetting

\* Granting a session is a request of its own.
LEMMA IssueType ==
    ASSUME NEW from \in Tokens \cup {Null}
    PROVE  /\ Issue(from) \in Request /\ Issue(from).op = "issue"
           /\ Issue(from).from = from
  BY DEF Issue, Issuing, Request

LEMMA IdleType == Idle \in Request /\ Idle.op = "none"
  BY DEF Idle, Request

\* Revoking tokens keeps them where they were but for the live ones.
LEMMA RevokeType ==
    ASSUME TypeOK, (\E t \in Tokens : Revoke(t)) \/ RevokeAll
    PROVE  /\ tokens' \in [Tokens -> TokenState]
           /\ \A t \in Tokens : \/ tokens'[t] = tokens[t]
                                \/ tokens[t] = "live" /\ tokens'[t] = "revoked"
  BY DEF TypeOK, Revoke, RevokeAll, TokenState

\* Counting or clearing failures changes nothing else of the account.
LEMMA LoginKeeps ==
    ASSUME account \in Account, NEW r \in Requests, LoginCount(r) \/ LoginClear(r)
    PROVE  /\ account' \in Account
           /\ account'.link = account.link /\ account'.claimed = account.claimed
<1>1. CASE LoginCount(r)
  <2>. DEFINE locked == account.locked \/ account.failures + 1 >= Limit
  <2>1. account' = [password |-> account.password, claimed |-> account.claimed,
                    link |-> account.link, failures |-> account.failures + 1,
                    locked |-> locked]
    BY <1>1 DEF LoginCount, Account
  <2>2. locked \in BOOLEAN
    OBVIOUS
  <2>3. account.failures + 1 \in Nat
    BY DEF Account
  <2>. HIDE DEF locked
  <2>. QED
    BY <2>1, <2>2, <2>3 DEF Account
<1>2. CASE LoginClear(r)
  <2>1. account' = [password |-> account.password, claimed |-> account.claimed,
                    link |-> account.link, failures |-> 0, locked |-> FALSE]
    BY <1>2 DEF LoginClear, Account
  <2>. QED
    BY <2>1 DEF Account
<1>. QED
  BY <1>1, <1>2

\* The empty tables satisfy the invariant.
LEMMA InitIndInv == Init => IndInv
<1>. SUFFICES ASSUME Init PROVE IndInv
  OBVIOUS
<1>1. TypeOK
  BY DEF Init, TypeOK, Request, TokenState
<1>2. LinksAreSingleUse /\ LinksInUse
  BY DEF Init, LinksAreSingleUse, LinksInUse
<1>3. ResetsOfClaimed
  BY DEF Init, ResetsOfClaimed, Idle
<1>4. ExchangedTokensAreDead
  BY ClientAssumption DEF Init, ExchangedTokensAreDead, Successors
<1>5. SuccessorsOfDead
  BY ClientAssumption DEF Init, SuccessorsOfDead, Successors, Idle
<1>6. OldSessionsEnd /\ FormerIssued
  BY DEF Init, OldSessionsEnd, FormerIssued
<1>. QED
  BY <1>1, <1>2, <1>3, <1>4, <1>5, <1>6 DEF IndInv

-----------------------------------------------------------------------------
\* Type correctness.
LEMMA HandleTypeOK ==
    ASSUME IndInv, NEW r \in Requests, Handle(r)
    PROVE  TypeOK'
<1>. USE DEF IndInv
<1>0. req[r] \in Request /\ Idle \in Request
  BY IdleType DEF TypeOK
<1>1. CASE CreateBegin(r)
  <2>1. PICK p \in Passwords \cup {Null} :
           Continue(r, [op |-> "create", pc |-> "insert", password |-> p])
    BY <1>1 DEF CreateBegin
  <2>2. [op |-> "create", pc |-> "insert", password |-> p] \in Request
    BY DEF Creating, Request
  <2>. QED
    BY <1>1, <2>1, <2>2 DEF CreateBegin, Continue, TypeOK, history, ages
<1>2. CASE CreateInsert(r)
  <2>1. req[r] \in Creating
    BY <1>0, <1>2, RequestVariants DEF CreateInsert, At
  <2>2. /\ req[r].password \in Passwords \cup {Null}
        /\ Issue(Null) \in Request
    BY <2>1, IssueType DEF Creating, TypeOK
  <2>. DEFINE new == [password |-> req[r].password, claimed |-> FALSE,
                      link |-> Null, failures |-> 0, locked |-> FALSE]
  <2>3. account' \in Account \cup {Null}
    <3>1. new \in Account
      BY <2>2 DEF Account
    <3>2. account' = new \/ account' = account
      BY <1>2 DEF CreateInsert
    <3>. QED
      BY <3>1, <3>2 DEF TypeOK
  <2>4. req' \in [Requests -> Request]
    BY <1>0, <1>2, <2>2 DEF CreateInsert, Continue, TypeOK
  <2>. QED
    BY <1>2, <2>3, <2>4 DEF CreateInsert, TypeOK, history, ages
<1>3. CASE LinkBegin(r)
  <2>1. PICK p \in Purpose : Continue(r, [op |-> "link", pc |-> "set", purpose |-> p])
    BY <1>3 DEF LinkBegin
  <2>2. [op |-> "link", pc |-> "set", purpose |-> p] \in Request
    BY DEF Linking, Request
  <2>. QED
    BY <1>3, <2>1, <2>2 DEF LinkBegin, Continue, TypeOK, history, ages
<1>4. CASE LinkSet(r)
  <2>1. req[r] \in Linking /\ account \in Account
    BY <1>0, <1>4, RequestVariants DEF LinkSet, At, ResetsOfClaimed, TypeOK
  <2>2. PICK l \in Links :
           /\ purpose' = [purpose EXCEPT ![l] = req[r].purpose]
           /\ account' = [account EXCEPT !.link = l]
           /\ Continue(r, [op |-> "mail", pc |-> "mail", link |-> l])
    BY <1>4 DEF LinkSet
  <2>3. [op |-> "mail", pc |-> "mail", link |-> l] \in Request
    BY DEF Mailing, Request
  <2>4. account' \in Account /\ req[r].purpose \in Purpose
    BY <2>1, <2>2 DEF Account, Linking
  <2>. QED
    BY <1>4, <2>2, <2>3, <2>4 DEF LinkSet, Continue, TypeOK, ages
<1>5. CASE LinkMail(r)
  <2>1. req[r] \in Mailing
    BY <1>0, <1>5, RequestVariants DEF LinkMail
  <2>. QED
    BY <1>0, <1>5, <2>1 DEF LinkMail, Continue, TypeOK, Mailing, history, ages
<1>6. CASE LoginBegin(r)
  <2>1. PICK p \in Passwords :
           Continue(r, [op |-> "login",
                        pc |-> IF p = account.password THEN "clear" ELSE "count"])
    BY <1>6 DEF LoginBegin
  <2>2. [op |-> "login", pc |-> IF p = account.password THEN "clear" ELSE "count"] \in Request
    BY DEF LoggingIn, Request, TypeOK
  <2>. QED
    BY <1>6, <2>1, <2>2 DEF LoginBegin, Continue, TypeOK, history, ages
<1>7. CASE LoginCount(r) \/ LoginClear(r)
  <2>1. req[r] \in LoggingIn /\ account \in Account
    BY <1>0, <1>7, RequestVariants DEF LoginCount, LoginClear, At, ResetsOfClaimed, TypeOK
  <2>2. account' \in Account
    BY <1>7, <2>1, LoginKeeps
  <2>3. Issue(Null) \in Request
    BY <2>1, IssueType DEF LoggingIn
  <2>. QED
    BY <1>0, <1>7, <2>2, <2>3 DEF LoginCount, LoginClear, Continue, Done, TypeOK, history, ages
<1>8. CASE IssueToken(r)
  <2>1. req[r] \in Issuing
    BY <1>0, <1>8, RequestVariants DEF IssueToken, At
  <2>2. req[r].from \in Tokens \cup {Null}
    BY <2>1 DEF Issuing
  <2>. QED
    BY <1>0, <1>8, <2>2 DEF IssueToken, Continue, Done, TypeOK, TokenState
<1>9. CASE RefreshBegin(r)
  <2>1. PICK t \in Tokens :
           Continue(r, [op |-> "refresh", token |-> t,
                        pc |-> IF tokens[t] = "live" THEN "revoke" ELSE "revokeAll"])
    BY <1>9 DEF RefreshBegin
  <2>2. [op |-> "refresh", token |-> t,
         pc |-> IF tokens[t] = "live" THEN "revoke" ELSE "revokeAll"] \in Request
    BY DEF Consuming, Request
  <2>. QED
    BY <1>9, <2>1, <2>2 DEF RefreshBegin, Continue, TypeOK, history, ages
<1>10. CASE RefreshRevoke(r)
  <2>1. req[r] \in Consuming
    BY <1>0, <1>10, RequestVariants DEF RefreshRevoke, At
  <2>2. req[r].token \in Tokens /\ Issue(req[r].token) \in Request
    BY <2>1, IssueType DEF Consuming, TypeOK
  <2>3. tokens' \in [Tokens -> TokenState]
    BY <1>10, <2>2, RevokeType DEF RefreshRevoke
  <2>. QED
    BY <1>10, <2>2, <2>3 DEF RefreshRevoke, Continue, TypeOK, history, ages
<1>11. CASE RefreshReplayed(r) \/ Logout(r)
  <2>1. tokens' \in [Tokens -> TokenState]
    BY <1>11, RevokeType DEF RefreshReplayed, Logout
  <2>. QED
    BY <1>0, <1>11, <2>1 DEF RefreshReplayed, Logout, Continue, Done, TypeOK, history, ages
<1>12. CASE ResetConsume(r)
  <2>1. PICK p \in Passwords : account' = Consumed(p)
    BY <1>12 DEF ResetConsume
  <2>2. account \in Account /\ account.link \in Links
    BY <1>12 DEF ResetConsume, TypeOK
  <2>3. account' \in Account
    BY <2>1, <2>2 DEF Consumed, Account
  <2>4. [op |-> "reset", pc |-> "revokeAll"] \in Request
    BY DEF Resetting, Request, TypeOK
  <2>. QED
    BY <1>12, <2>2, <2>3, <2>4 DEF ResetConsume, Continue, TypeOK
<1>13. CASE ResetRevokeAll(r)
  <2>1. req[r] \in Resetting
    BY <1>0, <1>13, RequestVariants DEF ResetRevokeAll, At
  <2>2. tokens' \in [Tokens -> TokenState]
    BY <1>13, RevokeType DEF ResetRevokeAll
  <2>. QED
    BY <1>0, <1>13, <2>1, <2>2 DEF ResetRevokeAll, Continue, TypeOK, Resetting, history, ages
<1>14. CASE Abort(r)
  BY <1>0, <1>14 DEF Abort, Continue, Done, TypeOK, history, ages
<1>. QED
  BY <1>1, <1>2, <1>3, <1>4, <1>5, <1>6, <1>7, <1>8, <1>9, <1>10, <1>11, <1>12,
     <1>13, <1>14 DEF Handle

-----------------------------------------------------------------------------
\* Links.  A step that touches the row's link, its claim or the links' history
\* creates the account, sets a new link, or uses the link in the row.

LinksKept ==
    /\ UNCHANGED <<purpose, uses>>
    /\ (account = Null) <=> (account' = Null)
    /\ account # Null => /\ account'.link = account.link
                         /\ account'.claimed = account.claimed

Created ==
    /\ UNCHANGED <<purpose, uses>>
    /\ account = Null /\ account' # Null
    /\ account'.link = Null

LinkReplaced(l, p) ==
    /\ purpose[l] = Null
    /\ purpose' = [purpose EXCEPT ![l] = p]
    /\ UNCHANGED uses
    /\ account # Null /\ account' # Null
    /\ account'.link = l
    /\ account'.claimed = account.claimed
    /\ p = "reset" => account.claimed

LinkUsed ==
    /\ account # Null /\ account.link \in Links
    /\ uses' = [uses EXCEPT ![account.link] = @ + 1]
    /\ UNCHANGED purpose
    /\ account' # Null
    /\ account'.link = Null
    /\ account'.claimed

LinkStep ==
    \/ LinksKept \/ Created \/ LinkUsed
    \/ \E l \in Links, p \in Purpose : LinkReplaced(l, p)

LEMMA HandleLinkStep ==
    ASSUME IndInv, NEW r \in Requests, Handle(r)
    PROVE  LinkStep
<1>. USE DEF IndInv
<1>0. req[r] \in Request /\ account \in Account \cup {Null} /\ Null \notin Account
  BY ClientAssumption DEF TypeOK
<1>1. CASE CreateInsert(r)
  <2>1. CASE account # Null
    BY <1>1, <2>1 DEF CreateInsert, LinkStep, LinksKept, history, ages
  <2>2. CASE account = Null
    <3>1. account' = [password |-> req[r].password, claimed |-> FALSE, link |-> Null,
                      failures |-> 0, locked |-> FALSE]
      BY <1>1, <2>2 DEF CreateInsert
    <3>2. req[r].password \in Passwords \cup {Null}
      BY <1>0, <1>1, RequestVariants DEF CreateInsert, At, Creating
    <3>3. account' \in Account
      BY <3>1, <3>2 DEF Account
    <3>. QED
      BY <1>0, <1>1, <2>2, <3>1, <3>3 DEF CreateInsert, LinkStep, Created, history, ages
  <2>. QED
    BY <2>1, <2>2
<1>2. CASE LinkSet(r)
  <2>1. req[r] \in Linking /\ account \in Account
    BY <1>0, <1>2, RequestVariants DEF LinkSet, At, ResetsOfClaimed
  <2>2. PICK l \in Links :
           /\ purpose[l] = Null
           /\ purpose' = [purpose EXCEPT ![l] = req[r].purpose]
           /\ account' = [account EXCEPT !.link = l]
    BY <1>2 DEF LinkSet
  <2>3. account' \in Account /\ account'.link = l /\ account'.claimed = account.claimed
    BY <2>1, <2>2 DEF Account
  <2>4. req[r].purpose \in Purpose /\ (req[r].purpose = "reset" => account.claimed)
    BY <1>2, <2>1 DEF LinkSet, At, ResetsOfClaimed, Linking
  <2>5. LinkReplaced(l, req[r].purpose)
    BY <1>0, <1>2, <2>1, <2>2, <2>3, <2>4 DEF LinkSet, LinkReplaced
  <2>. QED
    BY <2>4, <2>5 DEF LinkStep
<1>3. CASE LoginCount(r) \/ LoginClear(r)
  <2>1. account \in Account
    BY <1>0, <1>3 DEF LoginCount, LoginClear, At, ResetsOfClaimed
  <2>2. /\ account' \in Account
        /\ account'.link = account.link /\ account'.claimed = account.claimed
    BY <1>3, <2>1, LoginKeeps
  <2>. QED
    BY <1>0, <1>3, <2>1, <2>2 DEF LoginCount, LoginClear, LinkStep, LinksKept, history, ages
<1>4. CASE ResetConsume(r)
  <2>1. PICK p \in Passwords : account' = Consumed(p)
    BY <1>4 DEF ResetConsume
  <2>2. account \in Account /\ account.link \in Links
    BY <1>0, <1>4 DEF ResetConsume, TypeOK
  <2>3. account' \in Account /\ account'.link = Null /\ account'.claimed = TRUE
    BY <2>1, <2>2 DEF Consumed, Account
  <2>4. LinkUsed
    BY <1>0, <1>4, <2>2, <2>3 DEF ResetConsume, LinkUsed
  <2>. QED
    BY <2>4 DEF LinkStep
<1>5. CASE UNCHANGED <<account, purpose, uses>>
  BY <1>5 DEF LinkStep, LinksKept
<1>. QED
  BY <1>1, <1>2, <1>3, <1>4, <1>5
     DEF Handle, CreateBegin, LinkBegin, LinkMail, LoginBegin, IssueToken,
         RefreshBegin, RefreshRevoke, RefreshReplayed, Logout, ResetRevokeAll,
         Abort, history, ages

\* Such a step keeps links single-use, and reset links of claimed accounts.
LEMMA LinkStepSafe ==
    ASSUME IndInv, LinkStep
    PROVE  /\ LinksAreSingleUse' /\ LinksInUse'
           /\ account' # Null /\ account'.link # Null /\ purpose'[account'.link] = "reset"
                 => account'.claimed
           /\ account # Null => account' # Null
           /\ account # Null /\ account.claimed => account'.claimed
<1>. USE DEF IndInv
<1>0. /\ purpose \in [Links -> Purpose \cup {Null}] /\ uses \in [Links -> Nat]
      /\ account # Null => account.link \in Links \cup {Null}
  BY DEF TypeOK, Account
<1>1. CASE LinksKept
  BY <1>0, <1>1 DEF LinksKept, LinksAreSingleUse, LinksInUse, ResetsOfClaimed
<1>2. CASE Created
  BY <1>0, <1>2 DEF Created, LinksAreSingleUse, LinksInUse
<1>3. ASSUME NEW l \in Links, NEW p \in Purpose, LinkReplaced(l, p)
      PROVE  /\ LinksAreSingleUse' /\ LinksInUse'
             /\ account'.link # Null /\ purpose'[account'.link] = "reset"
                   => account'.claimed
             /\ account' # Null
             /\ account.claimed => account'.claimed
  <2>1. p # Null
    BY <1>0, <1>3, ClientAssumption DEF LinkReplaced, LinksInUse, Purpose
  <2>. QED
    BY <1>0, <1>3, <2>1 DEF LinkReplaced, LinksAreSingleUse, LinksInUse
<1>4. CASE LinkUsed
  BY <1>0, <1>4, ClientAssumption DEF LinkUsed, LinksAreSingleUse, LinksInUse
<1>. QED
  BY <1>1, <1>2, <1>3, <1>4 DEF LinkStep

\* Every request that is about to set a link, or logs in, has an account, and
\* one about to set a reset link a claimed one.
LEMMA HandleResetsOfClaimed ==
    ASSUME IndInv, NEW r \in Requests, Handle(r)
    PROVE  ResetsOfClaimed'
<1>. USE DEF IndInv
<1>1. /\ account' # Null /\ account'.link # Null /\ purpose'[account'.link] = "reset"
            => account'.claimed
      /\ account # Null => account' # Null
      /\ account # Null /\ account.claimed => account'.claimed
  BY HandleLinkStep, LinkStepSafe
<1>2. /\ req'[r].op \in {"link", "login"} => account # Null
      /\ req'[r].op = "link" => (req'[r].purpose = "reset" => account.claimed)
  <2>1. CASE LinkBegin(r)
    BY <2>1 DEF LinkBegin, MayLink, Continue, TypeOK
  <2>2. CASE LoginBegin(r)
    BY <2>2 DEF LoginBegin, Continue, TypeOK
  <2>3. ASSUME req'[r].op \notin {"link", "login"}
        PROVE  /\ req'[r].op \in {"link", "login"} => account # Null
               /\ req'[r].op = "link" => (req'[r].purpose = "reset" => account.claimed)
    BY <2>3
  <2>4. CASE CreateBegin(r) \/ CreateInsert(r) \/ LinkSet(r) \/ LinkMail(r)
    BY <2>3, <2>4, IdleType
       DEF CreateBegin, CreateInsert, LinkSet, LinkMail, Continue, Issue, TypeOK
  <2>5. CASE LoginCount(r) \/ LoginClear(r) \/ IssueToken(r) \/ RefreshBegin(r)
    BY <2>3, <2>5, IdleType
       DEF LoginCount, LoginClear, IssueToken, RefreshBegin, Continue, Done, Issue, TypeOK
  <2>6. CASE RefreshRevoke(r) \/ RefreshReplayed(r) \/ Logout(r)
    BY <2>3, <2>6, IdleType
       DEF RefreshRevoke, RefreshReplayed, Logout, Continue, Done, Issue, TypeOK
  <2>7. CASE ResetConsume(r) \/ ResetRevokeAll(r) \/ Abort(r)
    BY <2>3, <2>7, IdleType
       DEF ResetConsume, ResetRevokeAll, Abort, Continue, Done, TypeOK
  <2>. QED
    BY <2>1, <2>2, <2>4, <2>5, <2>6, <2>7 DEF Handle
<1>3. \A s \in Requests : s # r => req'[s] = req[s]
  BY DEF Handle, CreateBegin, CreateInsert, LinkBegin, LinkSet, LinkMail, LoginBegin,
         LoginCount, LoginClear, IssueToken, RefreshBegin, RefreshRevoke,
         RefreshReplayed, Logout, ResetConsume, ResetRevokeAll, Abort, Continue, Done, TypeOK
<1>. QED
  BY <1>1, <1>2, <1>3 DEF ResetsOfClaimed

-----------------------------------------------------------------------------
\* Tokens.  A step ends some of them, or issues an unused one.

TokensEnded ==
    /\ UNCHANGED rotated
    /\ tokens' \in [Tokens -> TokenState]
    /\ \A t \in Tokens : \/ tokens'[t] = tokens[t]
                         \/ /\ tokens[t] \in {"live", "revoked"}
                            /\ tokens'[t] \in {"revoked", "expired"}

TokenIssued(t, from) ==
    /\ tokens[t] = "unused"
    /\ tokens' = [tokens EXCEPT ![t] = "live"]
    /\ rotated' = [rotated EXCEPT ![t] = from]
    /\ from # Null => tokens[from] \notin {"unused", "live"}

TokenStep ==
    TokensEnded \/ \E t \in Tokens, from \in Tokens \cup {Null} : TokenIssued(t, from)

LEMMA RevokeEnds ==
    ASSUME TypeOK, UNCHANGED rotated, (\E t \in Tokens : Revoke(t)) \/ RevokeAll
    PROVE  TokensEnded
  BY RevokeType DEF TokensEnded

LEMMA HandleTokenStep ==
    ASSUME IndInv, NEW r \in Requests, Handle(r)
    PROVE  TokenStep
<1>. USE DEF IndInv
<1>0. req[r] \in Request
  BY DEF TypeOK
<1>1. CASE IssueToken(r)
  <2>1. req[r] \in Issuing
    BY <1>0, <1>1, RequestVariants DEF IssueToken, At
  <2>2. PICK t \in Tokens : /\ tokens[t] = "unused"
                            /\ tokens' = [tokens EXCEPT ![t] = "live"]
                            /\ rotated' = [rotated EXCEPT ![t] = req[r].from]
    BY <1>1 DEF IssueToken
  <2>3. TokenIssued(t, req[r].from)
    BY <1>1, <2>2 DEF TokenIssued, SuccessorsOfDead, IssueToken, At
  <2>. QED
    BY <2>1, <2>3 DEF TokenStep, Issuing
<1>2. CASE RefreshRevoke(r)
  <2>1. req[r].token \in Tokens
    BY <1>0, <1>2, RequestVariants DEF RefreshRevoke, At, Consuming
  <2>. QED
    BY <1>2, <2>1, RevokeEnds DEF RefreshRevoke, TokenStep, history, ages
<1>3. CASE RefreshReplayed(r) \/ Logout(r) \/ ResetRevokeAll(r)
  BY <1>3, RevokeEnds DEF RefreshReplayed, Logout, ResetRevokeAll, TokenStep, history, ages
<1>4. CASE UNCHANGED <<tokens, rotated>>
  BY <1>4 DEF TokenStep, TokensEnded, TypeOK
<1>. QED
  BY <1>1, <1>2, <1>3, <1>4
     DEF Handle, CreateBegin, CreateInsert, LinkBegin, LinkSet, LinkMail, LoginBegin,
         LoginCount, LoginClear, RefreshBegin, ResetConsume, Abort, history, ages

\* Such a step leaves no exchanged token live, and no unused one exchanged.
LEMMA TokenStepSafe ==
    ASSUME IndInv, TokenStep
    PROVE  /\ ExchangedTokensAreDead'
           /\ \A t \in Tokens : tokens'[t] = "unused" => Successors(t)' = {}
           /\ \A t \in Tokens : /\ tokens[t] # "unused" => tokens'[t] # "unused"
                                /\ tokens[t] \notin {"unused", "live"}
                                      => tokens'[t] \notin {"unused", "live"}
<1>. USE DEF IndInv
<1>0. tokens \in [Tokens -> TokenState] /\ rotated \in [Tokens -> Tokens \cup {Null}]
  BY DEF TypeOK
<1>1. CASE TokensEnded
  <2>1. \A t \in Tokens : Successors(t)' = Successors(t)
    BY <1>1 DEF TokensEnded, Successors
  <2>2. \A t \in Tokens : /\ tokens'[t] = "live" => tokens[t] = "live"
                          /\ tokens'[t] = "unused" => tokens[t] = "unused"
    BY <1>1 DEF TokensEnded
  <2>. QED
    BY <1>1, <2>1, <2>2 DEF TokensEnded, ExchangedTokensAreDead, SuccessorsOfDead
<1>2. ASSUME NEW u \in Tokens, NEW from \in Tokens \cup {Null}, TokenIssued(u, from)
      PROVE  /\ ExchangedTokensAreDead'
             /\ \A t \in Tokens : tokens'[t] = "unused" => Successors(t)' = {}
             /\ \A t \in Tokens :
                   /\ tokens[t] # "unused" => tokens'[t] # "unused"
                   /\ tokens[t] \notin {"unused", "live"}
                         => tokens'[t] \notin {"unused", "live"}
  <2>1. \A t \in Tokens : tokens[t] \in {"unused", "live"} => Successors(t)' = {}
    <3>1. SUFFICES ASSUME NEW t \in Tokens, tokens[t] \in {"unused", "live"},
                          NEW s \in Tokens, rotated'[s] = t
                   PROVE  FALSE
      BY DEF Successors
    <3>2. CASE s = u
      BY <1>0, <1>2, <3>1, <3>2, ClientAssumption DEF TokenIssued
    <3>3. CASE s # u
      <4>1. s \in Successors(t)
        BY <1>0, <1>2, <3>1, <3>3 DEF TokenIssued, Successors
      <4>. QED
        BY <3>1, <4>1 DEF ExchangedTokensAreDead, SuccessorsOfDead
    <3>. QED
      BY <3>2, <3>3
  <2>2. \A t \in Tokens : t # u => tokens'[t] = tokens[t]
    BY <1>0, <1>2 DEF TokenIssued
  <2>3. tokens[u] = "unused" /\ tokens'[u] = "live"
    BY <1>0, <1>2 DEF TokenIssued
  <2>. QED
    BY <2>1, <2>2, <2>3 DEF ExchangedTokensAreDead
<1>. QED
  BY <1>1, <1>2 DEF TokenStep

\* The tokens that requests carry: a presented one was issued, and one about to
\* have a successor has been revoked or has expired.
LEMMA HandleSuccessorsOfDead ==
    ASSUME IndInv, NEW r \in Requests, Handle(r)
    PROVE  ExchangedTokensAreDead' /\ SuccessorsOfDead'
<1>. USE DEF IndInv
<1>0. req[r] \in Request /\ tokens \in [Tokens -> TokenState]
  BY DEF TypeOK
<1>1. /\ ExchangedTokensAreDead'
      /\ \A t \in Tokens : tokens'[t] = "unused" => Successors(t)' = {}
      /\ \A t \in Tokens : /\ tokens[t] # "unused" => tokens'[t] # "unused"
                           /\ tokens[t] \notin {"unused", "live"}
                                 => tokens'[t] \notin {"unused", "live"}
  BY HandleTokenStep, TokenStepSafe
<1>2. /\ req'[r].op = "issue" /\ req'[r].from # Null
            => tokens'[req'[r].from] \notin {"unused", "live"}
      /\ req'[r].op = "refresh" => tokens'[req'[r].token] # "unused"
  <2>1. CASE RefreshBegin(r)
    <3>1. PICK t \in Tokens :
             /\ tokens[t] \in {"live", "revoked"}
             /\ Continue(r, [op |-> "refresh", token |-> t,
                             pc |-> IF tokens[t] = "live" THEN "revoke" ELSE "revokeAll"])
      BY <2>1 DEF RefreshBegin
    <3>2. req'[r].op = "refresh" /\ req'[r].token = t
      BY <3>1 DEF Continue, TypeOK
    <3>. QED
      BY <1>1, <3>1, <3>2
  <2>2. CASE RefreshRevoke(r)
    <3>1. req[r].token \in Tokens /\ tokens[req[r].token] # "unused"
      BY <1>0, <2>2, RequestVariants DEF RefreshRevoke, At, Consuming, SuccessorsOfDead
    <3>2. req'[r].op = "issue" /\ req'[r].from = req[r].token
      BY <2>2 DEF RefreshRevoke, Continue, Issue, TypeOK
    <3>3. tokens'[req[r].token] \notin {"unused", "live"}
      BY <1>0, <2>2, <3>1 DEF RefreshRevoke, Revoke
    <3>. QED
      BY <3>2, <3>3
  <2>3. CASE CreateInsert(r)
    BY <2>3, IdleType DEF CreateInsert, Continue, Issue, TypeOK
  <2>4. CASE LoginClear(r)
    BY <2>4 DEF LoginClear, Continue, Issue, TypeOK
  <2>5. CASE Logout(r)
    BY <2>5, IdleType DEF Logout, Continue, TypeOK
  <2>6. CASE CreateBegin(r) \/ LinkBegin(r) \/ LinkSet(r) \/ LinkMail(r)
    BY <2>6, IdleType DEF CreateBegin, LinkBegin, LinkSet, LinkMail, Continue, TypeOK
  <2>7. CASE LoginBegin(r) \/ LoginCount(r) \/ IssueToken(r) \/ RefreshReplayed(r)
    BY <2>7, IdleType
       DEF LoginBegin, LoginCount, IssueToken, RefreshReplayed, Continue, Done, TypeOK
  <2>8. CASE ResetConsume(r) \/ ResetRevokeAll(r) \/ Abort(r)
    BY <2>8, IdleType DEF ResetConsume, ResetRevokeAll, Abort, Continue, Done, TypeOK
  <2>. QED
    BY <2>1, <2>2, <2>3, <2>4, <2>5, <2>6, <2>7, <2>8 DEF Handle
<1>3. ASSUME NEW s \in Requests, s # r
      PROVE  /\ req'[s].op = "issue" /\ req'[s].from # Null
                   => tokens'[req'[s].from] \notin {"unused", "live"}
             /\ req'[s].op = "refresh" => tokens'[req'[s].token] # "unused"
  <2>1. req'[s] = req[s]
    BY <1>3 DEF Handle, CreateBegin, CreateInsert, LinkBegin, LinkSet, LinkMail,
         LoginBegin, LoginCount, LoginClear, IssueToken, RefreshBegin, RefreshRevoke,
         RefreshReplayed, Logout, ResetConsume, ResetRevokeAll, Abort, Continue, Done, TypeOK
  <2>2. /\ req[s].op = "issue" => req[s].from \in Tokens \cup {Null}
        /\ req[s].op = "refresh" => req[s].token \in Tokens
    BY <1>3, RequestVariants DEF TypeOK, Issuing, Consuming
  <2>. QED
    BY <1>1, <2>1, <2>2 DEF SuccessorsOfDead
<1>. QED
  BY <1>1, <1>2, <1>3 DEF SuccessorsOfDead

-----------------------------------------------------------------------------
\* Sessions that a reset must end.  Only five steps make a token live, look for
\* all of them or end a reset; the others may end tokens and begin resets.
NoNewSession ==
    /\ UNCHANGED <<former, spared>>
    /\ \A t \in Tokens : tokens'[t] = "live" => tokens[t] = "live"
    /\ Sweeping => Sweeping'

LEMMA NoNewSessionSafe == TypeOK /\ OldSessionsEnd /\ NoNewSession => OldSessionsEnd'
  BY DEF TypeOK, OldSessionsEnd, NoNewSession

\* No step takes the row of a token away, and every token it calls former has one.
LEMMA HandleFormerIssued ==
    ASSUME IndInv, NEW r \in Requests, Handle(r)
    PROVE  FormerIssued'
<1>. USE DEF IndInv
<1>1. CASE CreateBegin(r) \/ CreateInsert(r) \/ LinkBegin(r) \/ LinkSet(r) \/ LinkMail(r)
           \/ LoginBegin(r) \/ LoginCount(r) \/ LoginClear(r) \/ RefreshBegin(r) \/ Abort(r)
  <2>1. UNCHANGED <<tokens, former>>
    BY <1>1 DEF CreateBegin, CreateInsert, LinkBegin, LinkSet, LinkMail, LoginBegin,
                LoginCount, LoginClear, RefreshBegin, Abort, history, ages
  <2>. QED
    BY <2>1 DEF FormerIssued
<1>2. CASE RefreshRevoke(r) \/ Logout(r) \/ RefreshReplayed(r) \/ ResetRevokeAll(r)
  <2>1. UNCHANGED former
    BY <1>2 DEF RefreshRevoke, Logout, RefreshReplayed, ResetRevokeAll, history, ages
  <2>2. RevokeAll \/ \E t \in Tokens \cup {req[r].token} : Revoke(t)
    BY <1>2 DEF RefreshRevoke, Logout, RefreshReplayed, ResetRevokeAll
  <2>3. \A t \in Tokens : tokens[t] # "unused" => tokens'[t] # "unused"
    BY <2>2 DEF RevokeAll, Revoke, TypeOK
  <2>. QED
    BY <2>1, <2>3 DEF FormerIssued, TypeOK
<1>3. CASE IssueToken(r)
  BY <1>3 DEF IssueToken, FormerIssued, TypeOK
<1>4. CASE ResetConsume(r)
  BY <1>4 DEF ResetConsume, FormerIssued
<1>. QED
  BY <1>1, <1>2, <1>3, <1>4 DEF Handle

LEMMA HandleOldSessionsEnd ==
    ASSUME IndInv, NEW r \in Requests, Handle(r)
    PROVE  OldSessionsEnd'
<1>. USE DEF IndInv
<1>0. \A s \in Requests : s # r => req'[s] = req[s]
  BY DEF Handle, CreateBegin, CreateInsert, LinkBegin, LinkSet, LinkMail, LoginBegin,
         LoginCount, LoginClear, IssueToken, RefreshBegin, RefreshRevoke,
         RefreshReplayed, Logout, ResetConsume, ResetRevokeAll, Abort, Continue, Done, TypeOK
<1>1. ASSUME req[r].op # "reset" PROVE Sweeping => Sweeping'
  BY <1>0, <1>1 DEF Sweeping
<1>2. CASE CreateBegin(r) \/ CreateInsert(r) \/ LinkBegin(r) \/ LinkSet(r) \/ LinkMail(r)
           \/ LoginBegin(r) \/ LoginCount(r) \/ LoginClear(r) \/ RefreshBegin(r)
  <2>1. req[r].op # "reset"
    BY <1>2 DEF CreateBegin, CreateInsert, LinkBegin, LinkSet, LinkMail, LoginBegin,
                LoginCount, LoginClear, RefreshBegin, At, Idle
  <2>2. UNCHANGED <<tokens, former, spared>>
    BY <1>2 DEF CreateBegin, CreateInsert, LinkBegin, LinkSet, LinkMail, LoginBegin,
                LoginCount, LoginClear, RefreshBegin, history, ages
  <2>. QED
    BY <1>1, <2>1, <2>2, NoNewSessionSafe DEF NoNewSession
<1>3. CASE RefreshRevoke(r) \/ Logout(r)
  <2>1. req[r].op # "reset" /\ UNCHANGED <<former, spared>>
    BY <1>3 DEF RefreshRevoke, Logout, At, Idle, history, ages
  <2>2. PICK t : Revoke(t)
    BY <1>3 DEF RefreshRevoke, Logout
  <2>3. \A u \in Tokens : tokens'[u] = "live" => tokens[u] = "live"
    BY <2>2 DEF Revoke, TypeOK
  <2>. QED
    BY <1>1, <2>1, <2>3, NoNewSessionSafe DEF NoNewSession
<1>4. CASE RefreshReplayed(r) \/ ResetRevokeAll(r)
  <2>1. \A t \in Tokens : tokens'[t] # "live"
    BY <1>4 DEF RefreshReplayed, ResetRevokeAll, RevokeAll
  <2>2. former' \subseteq Tokens
    BY <1>4 DEF RefreshReplayed, ResetRevokeAll, TypeOK, history, ages
  <2>. QED
    BY <2>1, <2>2 DEF OldSessionsEnd
<1>5. CASE IssueToken(r)
  <2>1. PICK t \in Tokens :
          /\ tokens[t] = "unused"
          /\ tokens' = [tokens EXCEPT ![t] = "live"]
          /\ former' = IF r \in late THEN former \cup {t} ELSE former
          /\ spared' = IF r \in late /\ ~Sweeping THEN spared \cup {t} ELSE spared
    BY <1>5 DEF IssueToken
  <2>2. Sweeping => Sweeping'
    BY <1>1, <1>5 DEF IssueToken, At
  <2>3. ASSUME NEW u \in former', tokens'[u] = "live"
        PROVE  Sweeping' \/ u \in spared'
    <3>1. CASE u = t /\ r \in late
      BY <2>1, <2>2, <3>1
    <3>2. CASE u # t
      BY <2>1, <2>2, <2>3, <3>2 DEF TypeOK, OldSessionsEnd
    <3>3. CASE u = t /\ r \notin late
      BY <2>1, <2>3, <3>3 DEF FormerIssued
    <3>. QED
      BY <3>1, <3>2, <3>3
  <2>. QED
    BY <2>3 DEF OldSessionsEnd
<1>6. CASE ResetConsume(r)
  <2>1. req'[r].op = "reset"
    BY <1>6 DEF ResetConsume, Continue, TypeOK
  <2>. QED
    BY <2>1 DEF OldSessionsEnd, Sweeping
<1>7. CASE Abort(r)
  <2>1. UNCHANGED <<tokens, former>> /\ spared \subseteq spared'
    BY <1>7 DEF Abort
  <2>2. CASE req[r].op # "reset"
    BY <1>1, <2>1, <2>2 DEF OldSessionsEnd
  <2>3. CASE req[r].op = "reset"
    BY <1>7, <2>1, <2>3 DEF Abort, OldSessionsEnd
  <2>. QED
    BY <2>2, <2>3
<1>. QED
  BY <1>2, <1>3, <1>4, <1>5, <1>6, <1>7 DEF Handle

-----------------------------------------------------------------------------
\* Time passing touches neither the links' history nor who claimed the account,
\* and ends tokens.
LEMMA TimeKeeps ==
    ASSUME IndInv, LinkExpires \/ TokenExpires \/ LockExpires \/ UNCHANGED vars
    PROVE  /\ TypeOK' /\ UNCHANGED req
           /\ LinkStep /\ TokenStep
<1>. USE DEF IndInv
<1>1. CASE LinkExpires
  BY <1>1 DEF LinkExpires, TypeOK, history, ages, LinkStep, LinksKept, TokenStep, TokensEnded
<1>2. CASE TokenExpires
  BY <1>2 DEF TokenExpires, TypeOK, TokenState, history, ages, LinkStep, LinksKept,
              TokenStep, TokensEnded
<1>3. CASE LockExpires
  <2>1. account \in Account /\ account' = [account EXCEPT !.locked = FALSE]
    BY <1>3 DEF LockExpires, TypeOK
  <2>2. /\ account' \in Account
        /\ account'.link = account.link /\ account'.claimed = account.claimed
    BY <2>1 DEF Account
  <2>3. account # Null /\ account' # Null
    BY <2>1, <2>2, ClientAssumption
  <2>. QED
    BY <1>3, <2>2, <2>3 DEF LockExpires, TypeOK, history, ages, LinkStep, LinksKept,
                            TokenStep, TokensEnded
<1>4. CASE UNCHANGED vars
  BY <1>4 DEF vars, TypeOK, history, ages, LinkStep, LinksKept, TokenStep, TokensEnded
<1>. QED
  BY <1>1, <1>2, <1>3, <1>4

LEMMA TimeIndInv ==
    ASSUME IndInv, LinkExpires \/ TokenExpires \/ LockExpires \/ UNCHANGED vars
    PROVE  IndInv'
<1>. USE DEF IndInv
<1>1. TypeOK' /\ UNCHANGED req /\ LinkStep /\ TokenStep
  BY TimeKeeps
<1>2. LinksAreSingleUse' /\ LinksInUse' /\ ResetsOfClaimed'
  BY <1>1, LinkStepSafe DEF ResetsOfClaimed
<1>3. ExchangedTokensAreDead' /\ SuccessorsOfDead'
  <2>1. \A s \in Requests : /\ req[s].op = "issue" => req[s].from \in Tokens \cup {Null}
                            /\ req[s].op = "refresh" => req[s].token \in Tokens
    BY RequestVariants DEF TypeOK, Issuing, Consuming
  <2>. QED
    BY <1>1, <2>1, TokenStepSafe DEF SuccessorsOfDead
<1>4. OldSessionsEnd' /\ FormerIssued'
  <2>1. UNCHANGED <<req, former, spared>>
    BY DEF LinkExpires, TokenExpires, LockExpires, vars, history, ages
  <2>2. \A t \in Tokens : /\ tokens'[t] = "live" => tokens[t] = "live"
                          /\ tokens[t] # "unused" => tokens'[t] # "unused"
    BY DEF LinkExpires, TokenExpires, LockExpires, vars, TypeOK
  <2>. QED
    BY <2>1, <2>2, NoNewSessionSafe DEF NoNewSession, Sweeping, FormerIssued, TypeOK
<1>. QED
  BY <1>1, <1>2, <1>3, <1>4

LEMMA NextIndInv == IndInv /\ [Next]_vars => IndInv'
<1>. SUFFICES ASSUME IndInv, [Next]_vars PROVE IndInv'
  OBVIOUS
<1>1. ASSUME NEW r \in Requests, Handle(r) PROVE IndInv'
  <2>1. TypeOK' /\ ResetsOfClaimed' /\ ExchangedTokensAreDead' /\ SuccessorsOfDead'
    BY <1>1, HandleTypeOK, HandleResetsOfClaimed, HandleSuccessorsOfDead
  <2>2. LinksAreSingleUse' /\ LinksInUse'
    BY <1>1, HandleLinkStep, LinkStepSafe
  <2>3. OldSessionsEnd' /\ FormerIssued'
    BY <1>1, HandleOldSessionsEnd, HandleFormerIssued
  <2>. QED
    BY <2>1, <2>2, <2>3 DEF IndInv
<1>. QED
  BY <1>1, TimeIndInv DEF Next

-----------------------------------------------------------------------------
\* The inductive invariant holds of every execution.
THEOREM Invariance == Spec => []IndInv
  BY InitIndInv, NextIndInv, PTL DEF Spec

\* The state variables keep their types through every interleaving.
THEOREM TypeCorrect == Spec => []TypeOK
<1>1. IndInv => TypeOK
  BY DEF IndInv
<1>. QED
  BY <1>1, Invariance, PTL

\* EPIC-04: a link that was mailed sets a password at most once.
THEOREM LinksUsedOnce == Spec => []LinksAreSingleUse
<1>1. IndInv => LinksAreSingleUse
  BY DEF IndInv
<1>. QED
  BY <1>1, Invariance, PTL

\* #21: a refresh token that was exchanged is dead from then on, even when two
\* requests exchange it at once.
THEOREM RotationSafe == Spec => []ExchangedTokensAreDead
<1>1. IndInv => ExchangedTokensAreDead
  BY DEF IndInv
<1>. QED
  BY <1>1, Invariance, PTL

\* A password reset ends the sessions that began before it (comment at
\* clientAuthService.ts:426), but for those that were being issued or exchanged
\* when it looked for them, and unless it was cut off.
THEOREM ResetEndsSessions == Spec => []OldSessionsEnd
<1>1. IndInv => OldSessionsEnd
  BY DEF IndInv
<1>. QED
  BY <1>1, Invariance, PTL

\* A stub account is activated by an invitation only.
THEOREM ActivationByInvitation == Spec => ClaimsByInvitation
<1>1. ASSUME IndInv, [Next]_vars
      PROVE  account # Null /\ ~account.claimed /\ account'.claimed
                => purpose[account.link] = "invite"
  <2>. USE DEF IndInv
  <2>1. LinkStep
    BY <1>1, HandleLinkStep, TimeKeeps DEF Next
  <2>2. SUFFICES ASSUME account # Null, ~account.claimed, account'.claimed
                 PROVE  purpose[account.link] = "invite"
    OBVIOUS
  <2>3. LinkUsed
    BY <2>1, <2>2 DEF LinkStep, LinksKept, Created, LinkReplaced
  <2>4. account.link \in Links /\ account.link # Null
    BY <2>3, ClientAssumption DEF LinkUsed
  <2>. QED
    BY <1>1, <2>2, <2>4 DEF LinksInUse, ResetsOfClaimed, TypeOK, Purpose
<1>. QED
  BY <1>1, Invariance, PTL DEF Spec, ClaimsByInvitation

=============================================================================
