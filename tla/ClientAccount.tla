---------------------------- MODULE ClientAccount ----------------------------
(***************************************************************************)
(* One client of the agency: the row of client_accounts with its email,    *)
(* the links mailed to that address, and the refresh tokens issued for it  *)
(* (ClientAuthService and identityRefreshService).                         *)
(*                                                                         *)
(* No handler here runs in a transaction: each SQL statement is one step,  *)
(* and a request is the statement it is about to run with what it has read *)
(* or received.  Access tokens are stateless and left out; a session is    *)
(* its refresh token.                                                      *)
(***************************************************************************)
EXTENDS Naturals, FiniteSets

CONSTANTS
    Requests,     \* requests the server handles at the same time
    Links,        \* single-use tokens generated for emails (bound on their number)
    Tokens,       \* refresh tokens generated (bound on their number)
    Passwords,    \* passwords that users type
    Limit,        \* wrong passwords that lock the account
    MaxFailures,  \* bound on the failures counted
    Null          \* SQL NULL, and the absence of a row

\* A row of client_accounts: link is password_reset_token_hash, locked whether
\* locked_until is in the future.
Account == [password : Passwords \cup {Null}, claimed : BOOLEAN,
            link : Links \cup {Null}, failures : Nat, locked : BOOLEAN]

Purpose == {"invite", "reset"}

\* "unused" is no row yet; "expired" is a row no query returns any more.
TokenState == {"unused", "live", "revoked", "expired"}

ASSUME ClientAssumption ==
    /\ Limit \in Nat \ {0} /\ MaxFailures \in Nat
    /\ Null \notin Account \cup Links \cup Tokens \cup Passwords \cup Purpose

-----------------------------------------------------------------------------
\* What a request that is being handled has left to do.

Idle == [op |-> "none", pc |-> "idle"]

\* register and findOrCreateStubClient after they found no account.
Creating == [op : {"create"}, pc : {"insert"}, password : Passwords \cup {Null}]

\* inviteClient and forgotPassword: past their check, and past their UPDATE.
Linking == [op : {"link"}, pc : {"set"}, purpose : Purpose]
Mailing == [op : {"mail"}, pc : {"mail"}, link : Links]

\* login after its checks: the password was right or wrong.
LoggingIn == [op : {"login"}, pc : {"count", "clear"}]

\* consumeRefreshToken after it read the presented token.
Consuming == [op : {"refresh"}, pc : {"revoke", "revokeAll"}, token : Tokens]

\* issueRefreshToken: the token this one replaces, if any.
Issuing == [op : {"issue"}, pc : {"insert"}, from : Tokens \cup {Null}]

\* resetPassword after the link was consumed.
Resetting == [op : {"reset"}, pc : {"revokeAll"}]

Request == {Idle} \cup Creating \cup Linking \cup Mailing \cup LoggingIn
                  \cup Consuming \cup Issuing \cup Resetting

VARIABLES
    account,  \* the row, or Null
    tokens,   \* identity_refresh_tokens of this client
    inbox,    \* links the client has received and that have not expired
    req,      \* what each request being handled has left to do
    \* History.
    purpose,  \* what each link was generated for, Null before
    uses,     \* how many times each link has set a password
    rotated,  \* the token each token was rotated from, or Null
    former,   \* tokens of sessions that began with a password replaced since
    late,     \* requests under way that will issue a token for such a session
    spared    \* former tokens that the reset did not find, or did not look for

ages == <<former, late, spared>>
history == <<purpose, uses, rotated, ages>>
vars == <<account, tokens, inbox, req, history>>

TypeOK ==
    /\ account \in Account \cup {Null}
    /\ tokens \in [Tokens -> TokenState]
    /\ inbox \subseteq Links
    /\ req \in [Requests -> Request]
    /\ purpose \in [Links -> Purpose \cup {Null}]
    /\ uses \in [Links -> Nat]
    /\ rotated \in [Tokens -> Tokens \cup {Null}]
    /\ former \subseteq Tokens /\ late \subseteq Requests /\ spared \subseteq Tokens

Init ==
    /\ account = Null
    /\ tokens = [t \in Tokens |-> "unused"]
    /\ inbox = {}
    /\ req = [r \in Requests |-> Idle]
    /\ purpose = [l \in Links |-> Null]
    /\ uses = [l \in Links |-> 0]
    /\ rotated = [t \in Tokens |-> Null]
    /\ former = {} /\ late = {} /\ spared = {}

\* The request r goes on as record next; Idle ends it.
Continue(r, next) == req' = [req EXCEPT ![r] = next]

\* The request r ends.
Done(r) ==
    /\ Continue(r, Idle)
    /\ late' = late \ {r}

At(r, op, pc) == req[r].op = op /\ req[r].pc = pc

Issue(from) == [op |-> "issue", pc |-> "insert", from |-> from]

-----------------------------------------------------------------------------
\* register (password p) or findOrCreateStubClient (no password): the SELECT
\* by email found nobody.  When it finds someone, register is a conflict and
\* an admin's booking reuses the account.
CreateBegin(r) ==
    /\ req[r] = Idle
    /\ account = Null
    /\ \E p \in Passwords \cup {Null} :
          Continue(r, [op |-> "create", pc |-> "insert", password |-> p])
    /\ UNCHANGED <<account, tokens, inbox, history>>

\* INSERT, refused by the unique email when another request was faster.
\* Neither INSERT writes claimed_at; register goes on to issue a session.
CreateInsert(r) ==
    /\ At(r, "create", "insert")
    /\ LET p == req[r].password IN
       IF account # Null
       THEN Continue(r, Idle) /\ UNCHANGED account
       ELSE /\ account' = [password |-> p, claimed |-> FALSE, link |-> Null,
                           failures |-> 0, locked |-> FALSE]
            /\ Continue(r, IF p = Null THEN Idle ELSE Issue(Null))
    /\ UNCHANGED <<tokens, inbox, history>>

-----------------------------------------------------------------------------
\* Variant: a forgotten password is reset whoever the account belongs to.
MayLinkAnyone(p) ==
    /\ account # Null
    /\ p = "invite" => ~account.claimed

\* The check in front of a new link: an invitation is for an account not yet
\* claimed, a reset for one that is.
MayLink(p) ==
    /\ account # Null
    /\ account.claimed <=> p = "reset"

\* inviteClient and forgotPassword: SELECT and check.
LinkBegin(r) ==
    /\ req[r] = Idle
    /\ \E p \in Purpose :
          /\ MayLink(p)
          /\ Continue(r, [op |-> "link", pc |-> "set", purpose |-> p])
    /\ UNCHANGED <<account, tokens, inbox, history>>

\* setClientInvitationTokenById, setClientPasswordResetToken: a random token,
\* written by id or email alone, replaces whatever link there was.
LinkSet(r) ==
    /\ At(r, "link", "set")
    /\ \E l \in Links :
          /\ purpose[l] = Null
          /\ purpose' = [purpose EXCEPT ![l] = req[r].purpose]
          /\ account' = [account EXCEPT !.link = l]
          /\ Continue(r, [op |-> "mail", pc |-> "mail", link |-> l])
    /\ UNCHANGED <<tokens, inbox, uses, rotated, ages>>

\* The email with the link is queued and delivered.
LinkMail(r) ==
    /\ req[r].op = "mail"
    /\ inbox' = inbox \cup {req[r].link}
    /\ Continue(r, Idle)
    /\ UNCHANGED <<account, tokens, history>>

-----------------------------------------------------------------------------
\* login: the SELECT, the gates and the password check, in that order.
LoginBegin(r) ==
    /\ req[r] = Idle
    /\ account # Null
    /\ account.claimed /\ account.password # Null
    /\ ~account.locked
    /\ \E p \in Passwords :
          Continue(r, [op |-> "login",
                       pc |-> IF p = account.password THEN "clear" ELSE "count"])
    /\ UNCHANGED <<account, tokens, inbox, history>>

\* incrementClientFailedAttempts, the login is refused.
LoginCount(r) ==
    /\ At(r, "login", "count")
    /\ account.failures < MaxFailures
    /\ account' = [account EXCEPT !.failures = @ + 1,
                                  !.locked = @ \/ account.failures + 1 >= Limit]
    /\ Done(r)
    /\ UNCHANGED <<tokens, inbox, purpose, uses, rotated, former, spared>>

\* resetClientFailedAttempts, the session follows.
LoginClear(r) ==
    /\ At(r, "login", "clear")
    /\ account' = [account EXCEPT !.failures = 0, !.locked = FALSE]
    /\ Continue(r, Issue(Null))
    /\ UNCHANGED <<tokens, inbox, history>>

\* A reset has set its password and has not yet ended the sessions.
Sweeping == \E s \in Requests : req[s].op = "reset"

\* issueRefreshToken: INSERT of a random token.
IssueToken(r) ==
    /\ At(r, "issue", "insert")
    /\ \E t \in Tokens :
          /\ tokens[t] = "unused"
          /\ tokens' = [tokens EXCEPT ![t] = "live"]
          /\ rotated' = [rotated EXCEPT ![t] = req[r].from]
          /\ former' = IF r \in late THEN former \cup {t} ELSE former
          /\ spared' = IF r \in late /\ ~Sweeping THEN spared \cup {t} ELSE spared
    /\ Done(r)
    /\ UNCHANGED <<account, inbox, purpose, uses>>

-----------------------------------------------------------------------------
\* refresh: consumeRefreshToken reads the presented token, revoked or not.  An
\* unknown or expired token ends the request.
RefreshBegin(r) ==
    /\ req[r] = Idle
    /\ \E t \in Tokens :
          /\ tokens[t] \in {"live", "revoked"}
          /\ Continue(r, [op |-> "refresh", token |-> t,
                          pc |-> IF tokens[t] = "live" THEN "revoke" ELSE "revokeAll"])
          /\ late' = IF t \in former THEN late \cup {r} ELSE late
    /\ UNCHANGED <<account, tokens, inbox, purpose, uses, rotated, former, spared>>

\* UPDATE ... SET revoked_at = NOW() WHERE revoked_at IS NULL, of one token and
\* of every token of the client.
Revoke(t) == tokens' = [tokens EXCEPT ![t] = IF @ = "live" THEN "revoked" ELSE @]

RevokeAll == tokens' = [t \in Tokens |-> IF tokens[t] = "live" THEN "revoked" ELSE tokens[t]]

\* Variant: the token is not revoked when it is exchanged.
RefreshKeeps(r) ==
    /\ At(r, "refresh", "revoke")
    /\ Continue(r, Issue(req[r].token))
    /\ UNCHANGED <<account, tokens, inbox, history>>

\* UPDATE ... WHERE revoked_at IS NULL; its row count is not looked at.
RefreshRevoke(r) ==
    /\ At(r, "refresh", "revoke")
    /\ Revoke(req[r].token)
    /\ Continue(r, Issue(req[r].token))
    /\ UNCHANGED <<account, inbox, history>>

\* The token had been exchanged before: every session ends, none is issued.
RefreshReplayed(r) ==
    /\ At(r, "refresh", "revokeAll")
    /\ RevokeAll
    /\ Done(r)
    /\ UNCHANGED <<account, inbox, purpose, uses, rotated, former, spared>>

\* logout: one UPDATE.
Logout(r) ==
    /\ req[r] = Idle
    /\ \E t \in Tokens : tokens[t] \in {"live", "revoked"} /\ Revoke(t)
    /\ UNCHANGED <<account, inbox, req, history>>

-----------------------------------------------------------------------------
\* Variant: the consumed link stays in the row.
ConsumedLinkStays(p) ==
    [account EXCEPT !.password = p, !.failures = 0, !.locked = FALSE, !.claimed = TRUE]

\* consumeClientPasswordResetToken, for invitations and resets alike.
Consumed(p) ==
    [account EXCEPT !.password = p, !.link = Null, !.failures = 0,
                    !.locked = FALSE, !.claimed = TRUE]

\* resetPassword with a link the client received; any other is refused.
ResetConsume(r) ==
    /\ req[r] = Idle
    /\ account # Null
    /\ account.link \in inbox
    /\ \E p \in Passwords : account' = Consumed(p)
    /\ uses' = [uses EXCEPT ![account.link] = @ + 1]
    /\ former' = {t \in Tokens : tokens[t] = "live"}
    /\ late' = {s \in Requests : req[s].op \in {"login", "refresh", "issue"}}
    /\ spared' = {}
    /\ Continue(r, [op |-> "reset", pc |-> "revokeAll"])
    /\ UNCHANGED <<tokens, inbox, purpose, rotated>>

\* Variant: the sessions are left as they are.
ResetRevokesNone(r) ==
    /\ At(r, "reset", "revokeAll")
    /\ Continue(r, Idle)
    /\ UNCHANGED <<account, tokens, inbox, history>>

\* revokeAllForSubject, a separate statement.
ResetRevokeAll(r) ==
    /\ At(r, "reset", "revokeAll")
    /\ RevokeAll
    /\ Continue(r, Idle)
    /\ UNCHANGED <<account, inbox, history>>

-----------------------------------------------------------------------------
\* Time passes: a link, a refresh token or the lock expires.
LinkExpires ==
    /\ \E l \in inbox : inbox' = inbox \ {l}
    /\ UNCHANGED <<account, tokens, req, history>>

TokenExpires ==
    /\ \E t \in Tokens :
          /\ tokens[t] \in {"live", "revoked"}
          /\ tokens' = [tokens EXCEPT ![t] = "expired"]
    /\ UNCHANGED <<account, inbox, req, history>>

LockExpires ==
    /\ account # Null
    /\ account.locked
    /\ account' = [account EXCEPT !.locked = FALSE]
    /\ UNCHANGED <<tokens, inbox, req, history>>

\* A statement fails, the connection drops or the process dies.
Abort(r) ==
    /\ req[r] # Idle
    /\ Done(r)
    /\ spared' = IF req[r].op = "reset" /\ ~Sweeping'
                 THEN spared \cup {t \in former : tokens[t] = "live"} ELSE spared
    /\ UNCHANGED <<account, tokens, inbox, purpose, uses, rotated, former>>

Handle(r) ==
    \/ CreateBegin(r) \/ CreateInsert(r)
    \/ LinkBegin(r) \/ LinkSet(r) \/ LinkMail(r)
    \/ LoginBegin(r) \/ LoginCount(r) \/ LoginClear(r) \/ IssueToken(r)
    \/ RefreshBegin(r) \/ RefreshRevoke(r) \/ RefreshReplayed(r) \/ Logout(r)
    \/ ResetConsume(r) \/ ResetRevokeAll(r) \/ Abort(r)

Next ==
    \/ \E r \in Requests : Handle(r)
    \/ LinkExpires \/ TokenExpires \/ LockExpires

Spec == Init /\ [][Next]_vars

-----------------------------------------------------------------------------
\* Properties.

\* A link sets a password at most once, however many requests, new links and
\* lost answers there are in between (EPIC-04: the reset token is single-use).
LinksAreSingleUse == \A l \in Links : uses[l] <= 1

\* An account that an admin created is claimed through its invitation and in
\* no other way: a forgotten-password link, whenever it was asked for, never
\* activates an account.
ClaimsByInvitation ==
    [][account # Null /\ ~account.claimed /\ account'.claimed
          => purpose[account.link] = "invite"]_vars

Successors(t) == {u \in Tokens : rotated[u] = t}

\* A refresh token and its successor are never both live, so that whoever
\* presents an exchanged token again is noticed (#21).
ExchangedTokensAreDead ==
    \A t \in Tokens : tokens[t] = "live" => Successors(t) = {}

\* A session that began with the password before does not outlive a reset
\* (clientAuthService.ts:426), unless the reset ended before it revoked anything
\* or the session was just being issued or exchanged when it did: every other
\* token is dead, its successors as well, once the reset has finished.
OldSessionsEnd ==
    \A t \in former : tokens[t] = "live" => Sweeping \/ t \in spared

\* claimed_at stays NULL only until the client has set a password.
ClaimedOncePasswordSet ==
    account # Null /\ account.password # Null => account.claimed

\* What makes them inductive: a link is unused until it is set, and at most
\* the one in the row can be used; ...
LinksInUse ==
    /\ \A l \in Links : purpose[l] = Null => uses[l] = 0
    /\ account # Null /\ account.link # Null =>
          uses[account.link] = 0 /\ purpose[account.link] # Null

\* ... a reset link, set or about to be, belongs to a claimed account; ...
ResetsOfClaimed ==
    /\ account # Null /\ account.link # Null /\ purpose[account.link] = "reset"
          => account.claimed
    /\ \A r \in Requests :
          /\ req[r].op \in {"link", "login"} => account # Null
          /\ req[r].op = "link" => (req[r].purpose = "reset" => account.claimed)

\* ... and no request carries the successor of a token that is live or unused.
SuccessorsOfDead ==
    /\ \A t \in Tokens : tokens[t] = "unused" => Successors(t) = {}
    /\ \A r \in Requests :
          /\ req[r].op = "issue" /\ req[r].from # Null
                => tokens[req[r].from] \notin {"unused", "live"}
          /\ req[r].op = "refresh" => tokens[req[r].token] # "unused"

\* The former sessions are of tokens issued before.
FormerIssued == \A t \in former : tokens[t] # "unused"

\* The inductive invariant of ClientAccountProofs.
IndInv ==
    /\ TypeOK
    /\ LinksAreSingleUse /\ LinksInUse
    /\ ResetsOfClaimed
    /\ ExchangedTokensAreDead /\ SuccessorsOfDead
    /\ OldSessionsEnd /\ FormerIssued
=============================================================================
