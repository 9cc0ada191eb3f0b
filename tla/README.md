# A TLA+ project for the booking agency

The repository is a booking agency: an Express and PostgreSQL API (`src/backend`), a React
front end (`src/frontend`) and an external e-signature server (Documenso). Clients request
an artist for an event, the agency approves, records the deposit and closes the booking;
artists block time in their calendar and sign an engagement contract; emails go out
through a queue table.

The API is stateless: everything that matters is in PostgreSQL, reached through a
connection pool at READ COMMITTED. Nearly every handler is a sequence of separate SQL
statements, with an external call or an email in between, and only few of them share a
transaction. Three parts of the front end keep state of their own and race with it: the
browser sessions (cookies shared by tabs, a refresh that several requests wait for), the
booking form (a draft, quotes under way, a calendar) and the page on which an artist signs
(an interval that polls for the signature). So the whole project has one modelling
convention:

* **one SQL statement is one step.** A handler is a record in `req`: the statement it is
  about to run (`pc`) and the values it has read and will still use. Steps of different
  requests interleave. What a handler computes between two statements belongs to the step
  of the statement before it.
* a statement inside `BEGIN ... COMMIT` that no other statement can observe is merged
  with its commit; reads inside a transaction are steps of their own, because READ
  COMMITTED gives them no protection.
* a handler that answers with an error changes nothing and becomes `Idle`. `Abort` ends any
  handler at any statement: a failing query, a lost connection, a killed process.
* data that no property tells apart (texts, addresses, locales, audit rows) is left out.

## 1. Inventory

| component | state | operations | interacts with | what must hold |
|---|---|---|---|---|
| Bookings (`services/bookings`, `routes/admin.ts`, `routes/account.ts`) | `bookings`, EXCLUDE constraint of migration 003 | create, admin create, admin edit, approve, deposit paid, completed, reject, client cancel, client edit | unavailabilities, pricing, client accounts, email queue | no double booking; the documented life cycle; stamps agree with status; one email per transition, which fits it; deposit within total; quote follows inputs; no advance over blocked time |
| Unavailabilities (`services/unavailability`) | `artist_unavailabilities` | create, delete, list | bookings (each reads the other's table before writing its own) | a window is never laid over a committed booking, nor a booking advanced over a window |
| Client accounts and sessions (`services/auth/clientAuthService.ts`, `identityRefreshService.ts`) | `client_accounts`, `identity_refresh_tokens` | register, stub, invite, login, refresh, logout, forgot, reset | bookings (stub on admin create), email queue | links single use; stubs claimed by invitation only; refresh tokens single use; a reset ends sessions; lockout |
| Browser sessions of admin, artist and client (`Utils/Auth`, `createAuthFetch.ts`, `identityFetch.ts`, the stores; `artistAuthService.ts`, `adminAuthService.ts`) | cookies, localStorage, a store and a guard per tab; `identity_refresh_tokens` | hydrate, request, refresh on 401, retry, login, logout | the three logins, the same refresh tokens | one refresh per tab; no false alarm of a stolen token; a sign-out lasts |
| Booking form (`pages/BookingNew`) | form, draft in sessionStorage, quote, calendar, request under way | open, edit, quote, submit, leave, reload | bookings, pricing, availability, client session | the draft is the form; spinners end; quote and calendar are not stale without a cause |
| Artist invitations (`services/artistInvitation`) | `artist_invitations`, `artists`, `artist_accounts` | create, resend, revoke, accept, expire | email queue, sessions | one invitation makes at most one artist; a failed accept leaves nothing behind |
| Engagement contract (`services/artistArea`, `services/contract`, `routes/webhook.ts`) | `contracts`, `artists.onboarding_completed_at`, stored PDFs | get or create, sign, webhook, reset, download | Documenso (calls and at-least-once webhooks), storage | a signed contract has its document and an onboarded artist; retries are idempotent; a signature is never lost |
| Signing page (`pages/ArtistOnboardingContract`, `ArtistProfile/ContractSection`) | what is on the screen, the reference to an interval, intervals and requests under way | open, sign or resume, poll, give up, leave, close | engagement contract | one click with the server at a time; the page waits only while something polls, and not for ever; intervals stop |
| Booking contract (`routes/admin.ts`) | `contracts` of kind booking | upload, remind | bookings, email queue, storage | one reminder a day; each email accounted for |
| Email queue (`services/mailer/queueService.ts`) | `email_deliveries` | enqueue, attempt | SMTP, every handler that mails | no email stays pending without a cause; what a row says is what became of the email |
| Agency signature (`services/agency`) | `agency_settings`, a stored image | save, remove, load | storage, engagement contract | the stored path names an existing file |
| Start and stop (`helpers/lifecycle.ts`, `apps/api.ts`) | process memory | start, stop, crash | all | orderly shutdown, which ends |
| Public availability (`services/availability`, `helpers/timezone.ts`) | none | day status | bookings, unavailabilities | never shows a taken day as free |
| Pricing (`services/pricing`) | none | fee, total, deposit | bookings | roundings keep the order of prices; bounds |
| Storage (`services/storage`) | files or S3 objects | save, read, delete | contracts, artists, signature | a path stays inside the root |
| Legacy authentication (`authService.ts`, `middleware/auth`) | `users`, a process-wide cache | login, refresh, forgot, reset | pool | as for clients; nested connections |
| Rate limits, configuration, audit, job scheduler (`helpers`, `middleware`, `jobs`) | process memory | limit | all | none that a model reaches |
| Contact, content, statistics, artists catalogue | `content_blocks`, `artists` | single reads and writes | email queue | none that spans two steps |
| Other pages (`src/frontend`) | forms and filters | one fetch on mount, one request per button | API | what is shown is the answer to what was asked |

The hard behaviour is: two handlers interleaving between a check and the write it guards
(all components), statements committed one by one with a crash in between (sessions,
invitations, engagement reset, email queue, signature), external calls of seconds in the
middle of a handler (engagement), webhooks delivered late or twice, links and tokens that are
used while they are being replaced, answers that arrive after the page they were for has
changed or gone, a process that is told to stop with requests under way. `PROJECT.json` lists them one by one, each at its line.

## 2. Plan

Order of work: first what clients and artists would notice (a double booking, a lost
signature), then what protects accounts, then the browser that talks to all of it, then what
happens to files, emails and the process, then the computations.

| step | modules | state |
|---|---|---|
| 1 | `Calendar` (abstract), `Booking`, `BookingProofs` | done |
| 2 | `ClientAccount`, `ClientAccountProofs` | done |
| 3 | `SignatureLedger` (abstract), `Engagement`, `EngagementProofs` | done |
| 4 | `ArtistInvitation`, `ArtistInvitationProofs` | done |
| 5 | `Sessions`, `SessionsProofs`: tabs, cookies, refresh, for the three actors | done |
| 6 | `BookingForm`, `BookingFormProofs`: draft, quote, calendar, request | done |
| 7 | `SigningPage`, `SigningPageProofs`: clicks, the interval that polls, visits of the page | done |
| 8 | `Office`, `OfficeProofs`: emails, booking contracts, the signature, shutdown and crash, in one module because they share the process | done |
| 9 | `Availability`, `Pricing`, `Calculations`: pure operators against reference definitions, proved in `BookingFormProofs` next to the form that shows them | done |
| 10 | legacy users, the upload of pictures, the lists of the admin pages | left out, see section 7 |

Compositions: `Booking` holds bookings and unavailabilities in one module, because each of
the two handlers reads the other's table before it writes its own; `Booking` implements
`Calendar` (`Cal == INSTANCE Calendar WITH ...`), `Engagement` implements `SignatureLedger`
(`Ledger == INSTANCE SignatureLedger WITH ...`). `Sessions` composes the browser with the
server's refresh tokens, `BookingForm` and `SigningPage` a page with what it sees of the server, `Office` the
email queue with the handlers that await it and with the process. Accounts, engagement and
invitations share no row with bookings that a property speaks of, so they are checked on
their own.

## 3. Modules and the code

Common to all: `Requests` (`Clicks`, `Hooks`, `Admins` in `Engagement`) are the requests
being handled at one moment, `req[r]` is what one of them has left to do, `Idle` that it is
free. A variable marked *history* records what the properties need and influences nothing.

### Booking

| variable | code |
|---|---|
| `rows` | `bookings`: artist, client, start, stored duration, status, `approved_at`, `paid_at`, pricing inputs, quoted total, deposit |
| `off` | `artist_unavailabilities` |
| `now` | the clock; only the lead time looks at it |
| `mailed` | rows of `email_deliveries` per booking and template (history) |
| `overtaken` | history: requests for which a step of another one has changed what they had read and will not read again |

`CreateBegin`, `CreateCheckWindows`, `CreateInsert` are `BookingService.create`, with the
EXCLUDE constraint of migration 003 in the last; `AdminCreateBegin` is `createForAdmin`,
which goes on through the same two. `Edit*` is `updateForAdmin`, `AdvanceBegin`,
`AssertNoUnavailabilityConflict`, `ApproveBooking` and `MarkDepositPaid` are the two routes
that advance a booking, `RejectBegin`/`RejectBooking`, `MarkCompleted`, `CancelByClient` and
`EditByClient` the others. `BlockBegin`/`BlockInsert`/`Unblock` are
`UnavailabilityService`. `EnqueueMail` is the enqueue after a committed write (what becomes
of the email is in `Office`); `Abort` stops a handler at any statement. A pricing input is one
value with one quote (`Quote`): what `computeBookingTotal` computes is in `Pricing`. `Stored` is what the
column `NUMERIC(4,1)` keeps of a duration: the checks run on the duration as asked, the
constraint on the one stored, and a duration below three minutes is stored as zero, whose
range is empty.

No handler locks what it reads. `LastRead` says what each one will rely on: an edit on the
amounts, an approval or deposit on the slot and on the windows that it found free, a
rejection on status and date. `RecordOvertaken`, a conjunct of every action, marks the
requests for which that has changed under them. The properties about these handlers are about
all requests and excuse only a request in `overtaken`, so that they name the interleaving in
which the code goes wrong and exclude every other.

### Calendar

The abstract promise of the bookings: an entry is entered or moved only where the artist is
free, atomically, and its stage follows the life cycle drawn at the head of
`bookingConstants.ts`. An entry that takes no time meets no other (a booking stored with
zero hours).

### ClientAccount

| variable | code |
|---|---|
| `account` | the row of `client_accounts` of one email: password, `claimed_at`, the one link column that invitations and resets share, failures, lock |
| `tokens` | `identity_refresh_tokens` of the client |
| `inbox` | links that were mailed and have not expired |
| `purpose`, `uses`, `rotated` | history: why a link was made, how often it set a password, which token replaced which |
| `former`, `late`, `spared` | history: sessions that began with a password replaced since, requests under way for one, and those of them that the reset missed |

`Create*` is `register` and `findOrCreateStubClient`; `Link*` is `inviteClient` and
`forgotPassword`; `Login*` and `IssueToken` are `login` up to `issueRefreshToken`;
`RefreshBegin`, `RefreshRevoke` (or `RefreshReplayed`) and `IssueToken` are `refresh`;
`Logout` is one UPDATE; `ResetConsume` and `ResetRevokeAll` are `resetPassword`. Time is in
`LinkExpires`, `TokenExpires`, `LockExpires`.

### Engagement

| variable | code |
|---|---|
| `contracts`, `created` | `contracts` of kind engagement of one artist, ids in the order of `created_at` |
| `onboarded`, `link` | `artists.onboarding_completed_at`, `artists.engagement_contract_id` |
| `envelopes`, `acked` | Documenso: the state of each envelope, and whether its completion was answered with 200 |
| `files` | signed PDFs in the storage, by the envelope they are named after |
| `effects`, `sentFor` | history: how often an envelope signed a contract, and the row it was recorded in |
| `overtaken` | history: clicks whose row got an envelope from another click after they read it |

`Create*` is `getOrCreateEngagementContract`, `Sign*` is `signEngagementContract` with its
calls to Documenso, `Complete` the artist's signature there, `HookBegin`, `HookPersist`,
`HookSign` and `HookAnswer` one webhook delivery (`handleSignedDocument`), `Reset*` the admin's
reset. Deliveries repeat until answered and overlap each other, and so do clicks:
`SignRecord` writes by id alone, and where a click that was overtaken replaces the envelope of
another, and un-signs the row, the properties say so (`RecordedLate`, `SentTwice`).

### SignatureLedger

The abstract promise of the engagement contracts: an entry is opened once, sent by those who
saw it as a draft (`See`, `Send`), each time with an envelope that was nobody's, and signed by an
envelope that was sent for this very entry, after the artist signed that one; only a reset
takes entries away. That two senders may have seen the same draft is part of the promise,
because nothing in the code prevents it. The refinement maps the rows as they are, the ids used
so far, the completed envelopes, the row each envelope was recorded in and the row each click
is working on; Documenso's calls, deliveries, storage, onboarding and acknowledgements are what it
hides.

### ArtistInvitation

| variable | code |
|---|---|
| `invitations` | `artist_invitations` of one email |
| `artists`, `given` | `artists` that acceptances inserted, and ids used so far |
| `accounts` | `artist_accounts` with that email, by the artist they belong to |
| `inbox` | links that were sent or shown and have not expired |
| `granted`, `lost` | history: artists that `accept` logged in; artists that it had inserted when it was cut off |

`InviteBegin`/`InviteInsert` is `create`, `Resend` and `Revoke` are one UPDATE each,
`Deliver` is the email or the link shown to the admin. `accept` is `AcceptBegin`,
`AcceptCheck`, `AcceptArtist`, `AcceptAccount`, `AcceptMark`, `AcceptSession`, and
`AcceptUndo` is its hand-written rollback. `AdminDelete` is the deletion of an artist by an
admin: the foreign key of `artist_invitations` decides whether it succeeds.

### Sessions

| variable | code |
|---|---|
| `rows`, `known` | `identity_refresh_tokens` of one subject, and whether the account exists |
| `jar`, `stored` | per browser: the two cookies (`helpers/authCookies.ts`), and whether localStorage names somebody |
| `identity`, `guard`, `call` | per tab: the store, the refresh under way that others wait for (`createTokenRefresher`); per call: where it is between browser and server |
| `cause`, `out` | history: why a token may be presented although it is revoked; whether the browser was signed out with nothing else under way |

A call is one request that got a 401, the hydration of a tab, a login or a logout.
`Unauthorized`, `Disabled`, `Expired`, `Retry`, `Settle` and `Release` are `identityFetch` and
the shared refresh; `Load` and `HydrateRefresh` the hydration; `Read`, `Sweep`, `Consume` and
`Insert` the statements of `consumeRefreshToken` and `issueRefreshToken`, with `AccountGone`
for an account deleted meanwhile; `LoggedIn`, `Refreshed`, `Refused` and `LoggedOut` the
answers, with their cookies. `PageFails`, `HydrateFails` and `ExchangeFails` lose a request,
an answer or a statement. `Load` drops what a reloaded tab had under way, with the refresh it
shared; a handler that the server had begun goes on without its page (`left`), revokes and
inserts as it would have, and has an answer that nobody reads (`Unheard`). `PasswordReset` and
`AccountDeleted` come from elsewhere. An answer's cookies and what the page makes of it are one
step, so a page that goes away takes the answer with its cookies. Admin, artist and client have the same code three
times over one service; the module is any of them.

### BookingForm

| variable | code |
|---|---|
| `slots` | what the page sees of the server: a day is free, held by a request nobody looked at, or taken |
| `client`, `draft`, `open` | the signed-in client, the draft in sessionStorage, whether the page is mounted |
| `slug`, `artist`, `missing`, `form`, `submitted`, `submitting`, `unavailable` | the state of `BookingNew` |
| `timer`, `asked`, `estimating`, `estimate` | the debounce, the quotes under way and the one on the screen |
| `calendar`, `marked` | `PublicAvailabilityCalendar` |
| `sends` | booking requests under way, which may outlive their page |
| `wiped`, `late`, `steady` | history |

`Requote` and `Persist` are the effects that every change of the form runs, inside the action
that changes it. `Open`, `OpenLegacy`, `Resolve`, `ArtistArrives` open the page by its two
kinds of links; `Leave` navigates, reloads or closes; `Serve` is the server's decision, which
`Booking` has in full; `Elsewhere` is everybody else.

### SigningPage

| variable | code |
|---|---|
| `signed` | the server: whether the contract is signed (`Engagement` has the rest) |
| `visit`, `shown`, `loading`, `submitting`, `awaiting` | the instance of the page that is open, and its state |
| `ref` | `pollTimerRef` of each instance: a page that was left goes on hearing answers |
| `owner`, `old` | the browser's intervals: which instance set one, and whether its ten minutes are over |
| `calls` | requests under way: a click, or a reload (the first, the one after a click, a poll) |
| `replaced` | history: intervals whose reference was overwritten by another |

`Open`, `Sign`, `Leave` and `CloseTab` are the artist, `Tick` and `TenMinutes` the browser,
`ServeSign`, `ServeReload` and `Lose` the server and the network. `Clicked`, `Reloaded`,
`Opened` and `Polled` are the functions of the page going on with an answer, whatever the page
has become; `StartPolling` and `StopPolling` are what they do to the interval. `TimerLeft`
bounds the clicks, so that a click that opens Documenso always finds an interval to poll with.
`ContractSection` of the profile is the same code.

### Office

| variable | code |
|---|---|
| `process`, `done` | running, stopping (`runShutdown`) or down; how many shutdown tasks have run |
| `req`, `agenda` | the handlers, statement by statement; what the admins of a behaviour do |
| `status`, `reachable`, `contracts` | bookings, whether their client has an address, `contracts` of kind booking |
| `emails` | `email_deliveries` |
| `signature`, `files` | `agency_settings.signature_image_path`, images in the storage |
| `fate`, `cut`, `holed` | history: what the mail server got; emails whose handler was killed, whose statement the database failed, or whose client had left before an orderly stop; paths whose file was lost in one of these ways |

`Upload`/`Upsert` and `Remind`/`Touch` are the two routes for contracts, `Enqueue`, `Send`,
`MarkEmailSent` and `MarkEmailFailed` are `EmailQueueService`, `Save`, `Write`,
`ReadPrevious`, `DeletePrevious` and `UpdateSignature` the signature's two routes. `Fails` is an
error of any statement or file operation. `Signal`, `RunTask` and `Exit` are the orderly stop,
`Kill` a crash or a second signal, `Restart` a new process. The rows and files survive, the
handlers do not.

A client may close its connection at any moment (`ClientLeaves`); its handler does not notice
and goes on. `server.close`, the first task, waits for connections, so it waits for the handlers
whose clients are still there and for no other. The task of the pool is what makes statements
fail (`PoolOpen`); those of the mailer and of the storage close nothing that a handler uses.
Under a handler whose client had left, a closed pool (`Excused`) and `process.exit` are recorded
in the history; under one whose client waits, neither may happen, and a pool closed under it
would have no excuse.

### Availability, Pricing, Calculations

`Availability` has `getPublic` as an operator: `Midnight` looks the time zone's offset up twice,
as `zonedWallClockToInstant` does, a day ends where the next one begins, blocked hours are
added up. `Pricing` has `computeArtistFee`, `computeBookingTotal` and the deposit with each
`Math.round` where the code has it; `HalvesLost` and the product 50 x 1.15 are where binary
floating point falls below a half. `Calculations` is the visitor: it lets a calendar change
between two questions and holds the answers against definitions by the hour, and against
all other prices.

Definitions called "Variant" in the modules are deliberate faults next to the definition
they would replace. No specification uses them; each was checked to break the property that
is about that code, so that a property that holds says something.

## 4. What the runs check

| run | instance | question and answer |
|---|---|---|
| `booking_overlap` | 2 requests, 2 bookings, 1 artist, durations of 1 and 2 thirtieths of an hour, starts 1 and 3 | Can requests that race leave two bookings over the same time, or a booking outside its life cycle? No: `NoOverlap` holds, and every step is one of `Calendar` or a stutter (`ImplementsCalendar`). 3.0 M states |
| `booking_lifecycle` | 2 requests, 1 booking with a reachable client and 2 starts, 1 unavailability | Do double clicks, retries and mixed actors keep stamps, emails and status together, and when can a check be out of date at the write? `StampsMatchStatus` and `MailsMatchTransitions` hold without exception. `MailFits`: the email fits its transition unless the handler was overtaken between its SELECT and its UPDATE. `OnlyLateAdvancesClash`: a booking is advanced over blocked time only by a request that was overtaken in the same way. 1.8 M states |
| `booking_deposits` | 2 requests, 1 booking, amounts 5 and 15 | Does the deposit guard of an edit run against what the booking will hold? `EditsKeepDepositWithinTotal`: violated by two edits that merge, see section 6 |
| `client_account` | 2 requests, 2 links, 3 tokens, 2 passwords, lock after 2 failures | Links are used once, exchanged tokens are dead, a reset ends the sessions before it but for those in flight, only an invitation activates a stub. 3.9 M states |
| `client_register` | 2 requests | Whoever sets a password is claimed: violated, see section 6 |
| `engagement` | 2 clicks, 2 deliveries and 1 reset at a time, 2 envelopes, 2 contracts | Documents are stored before a row is signed; an envelope signs once and none is acknowledged before its contract is signed; a contract loses its envelope or signature only to a reset or to a click that was overtaken by another; a signature counts in the end (under fairness); the rows are a ledger of signatures (`ImplementsLedger`). 0.3 M states |
| `artist_invitation` | 3 requests, 2 invitations of one email, 3 links, 3 artists | One acceptance wins and keeps its artist and account, losers leave nothing, closed invitations stay closed. 0.2 M states |
| `sessions` | 1 browser, 2 tabs, 3 calls, 4 tokens | One refresh per tab, no alarm of a stolen token without a cause, a sign-out lasts, with tabs reloaded while the server handles their calls. 2.5 M states |
| `booking_form` | 1 page, 1 day, 3 set types, 2 quotes and 1 request under way | The draft is the form, spinner and quote have a cause, the calendar is newer than the conflict, spinners end (under fairness). 0.1 M states |
| `signing_page` | 2 visits, 2 intervals, 2 requests under way | One click with the server per visit, the page waits exactly while an interval it can stop runs, only replaced intervals stray, waiting and polling end (under fairness). 0.2 M states |
| `office` | 2 requests, 1 booking, 2 emails, 3 image names | An orderly stop leaves no email pending but of clients that had left, rows tell what became of emails, the signature has its file, a stop ends (under fairness). 1.6 M states |
| `calculations` | days of 4 hours around a change of the clock, 2 rows; capacities 1999 and 2000, tickets up to 60 cents | The days shown agree with the hours, the price list is ordered. 0.3 M states |

**Bounds.** The hazards of this code are checks that are stale when the write comes, and two
requests show those: one checks, the other writes, the first writes. The proofs of section 5
cover any number of requests for the safety properties they name. Invitations take three,
because a winner, a loser and a deletion or revocation can meet; so do the calls of
`Sessions`, because two of one tab share a refresh while the third, of another tab, presents
the same token. Two bookings make an overlap; one is enough for everything about a single
row. The unit of time in `MCBooking` is a thirtieth of an hour, so that the stored duration
(tenths of hours) is below, above and equal to the one asked for (`MCStored`: 1 is stored as
0, 2 as 3, 3 as 3); `Quote` is 10 or 20, so that the amounts 5 and 15 lie on both sides of
it. In `engagement` two clicks on one row, with an envelope each, are what un-signs a contract. Ids (`Bookings`, `Links`, `Tokens`, `Envelopes`, `Artists`, `Contracts`) bound how many
rows are ever made; when they run out the handlers that need one stay where they are until
`Abort`, so a bound hides no other behaviour. In `Sessions` and `Office` an id that nobody
holds any more is taken again, so those runs have no end: four tokens are one in the jar and
one in each call (a tab is hydrated by a call of which no handler is left), three image names one in the row and one in each request, and an email row
is free when its handler has ended. In
`SigningPage` two intervals are one that replaces the other, two requests are two polls that
overlap or a poll and a click; the safety properties were also checked with three. `MaxNow` bounds the clock and `MaxFailures` the
counter of wrong passwords. Expired links and revoked invitations keep their ids; a link
that nobody knows any more may be drawn again, as a fresh random one would look. `Agendas`
splits the office into behaviours with contracts, in which bookings are confirmed and closed,
and behaviours with the signature, which share the process only. In `calculations` a change of the clock within a day makes a day of
three or five of its four hours, ranges begin at a midnight and within a day, one time zone
has its midnight on the other side of the change from the midnight of UTC (only there the
second lookup of the offset matters), and two rows are enough for hours counted twice; 2000
is the boundary of the large room, and halves of a euro, the two that floating point loses
included, occur below 60 cents.

**Symmetry** is over model values that no definition tells apart. It is not used with the
liveness runs, nor over contracts, which are ordered.

**Deadlock** is checked everywhere but in `engagement`: there, once the envelopes and contracts
of the bound are used up and everything is answered, nothing is left to do.

**Fairness** is assumed in four runs. In `engagement` (`FairSpec`), for each envelope: strong
fairness of the delivery being taken up, of the download and of the transaction. Documenso
repeats a delivery until it is answered with 200 (comment at `routes/webhook.ts:114-119`; the
code answers an unknown envelope with 202 for that reason), each repetition runs all three
steps, and any of them may be aborted any number of times; strong fairness says that a call
repeated for ever does not fail for ever. Nothing is assumed of the artist, the admin or the
clicks. In `booking_form`, weak fairness of a timer that fires, of a fetch that is answered or
fails, and of the page's handler of an answer: the browser guarantees each. In `office`, weak
fairness of each statement or call of a handler and of the shutdown's tasks: the pool, the
storage and the mail transport answer or fail, and both are steps. In `signing_page`, weak fairness of
the ten minutes, of the server's answers and of the page going on with them, and strong
fairness of an interval's tick: the browser fires it every three seconds, but in the model it
needs one of the bounded `Calls`, which others take again and again. Nothing is assumed of
the artist. In all four, nothing is assumed of signals, crashes or restarts. All other runs
check safety and need no fairness.

**Type invariants.** Each module has one. They are proved (section 5), so no run repeats them.

## 5. What is proved

The theorems hold for all values of the constants that satisfy the assumption named in each
module: essentially that NULL is not a value, durations are positive, the column and the
pricing yield natural numbers, and sets that are counted are finite. `Stored` and `Quote`
are otherwise arbitrary, so the results do not depend on how durations or prices are rounded.

| module | theorem | argument |
|---|---|---|
| `BookingProofs` | `Invariance`, `TypeCorrect`, `NeverDoubleBooked`, `AlwaysStamped` | `IndInv` is inductive. `NoOverlap` needs only the constraint at the three writes of a slot or of an active status, but a transition must know that its booking exists (`BookingsKnown`), and the stamps of a new row are fixed when the request begins (`CreatesStamped`) |
| | `MailedOnce` | `MailsOnce`: a request that is about to mail, or has mailed, is the only one, because the guard of each UPDATE is that the transition has not happened (`Happened`), and what has happened lasts. The requests under way are counted by the cardinality of a set that is empty or a singleton |
| | `ReadsRemain`, `EmailsFit`, `ClashesAreLate`, `OverdraftsAreLate` | for any number of requests and without a hypothesis. `ReadsHold` is inductive: what a handler has read of its row (`RowRead`), and that it found no window, still holds unless a step of another one changed it, and then the request is in `overtaken` until it ends. So the write of any other request does what its check said: the three theorems say that an email that does not fit, an advance over blocked time and a deposit above its total each need a request that was overtaken |
| | `Refinement`, `CalendarSafe` | `Spec => Cal!Spec`: one lemma per kind of write shows that it is an `Enter`, `Move` or `Advance` of the abstract calendar; a status only changes under a guard on the status in the same UPDATE, which is why no stale read leaves the life cycle. The abstract calendar keeps entries disjoint, and so does what implements it |
| `ClientAccountProofs` | `Invariance`, `TypeCorrect`, `LinksUsedOnce`, `RotationSafe`, `ResetEndsSessions`, `ActivationByInvitation` | at most the link in the row can be used, and it is unused (`LinksInUse`); a reset link, set or about to be, is on a claimed account, because nothing unclaims one (`ResetsOfClaimed`); whoever carries a successor has revoked its predecessor (`SuccessorsOfDead`); a step that makes no token live keeps the end of old sessions, and a token that is issued for one is spared or will be swept (`OldSessionsEnd`, `FormerIssued`) |
| `EngagementProofs` | `Invariance`, `TypeCorrect`, `DocumentsStored` | a delivery is of a completed envelope, completed is final, and the file is stored before the transaction (`DeliveriesSigned`); an envelope is distributed by the one click that made it (`InPreparation`), so none that is completed goes back |
| | `Acknowledged` | a completion is answered with 200 only when the contract that has the envelope is signed (`AckInv`). An envelope is fresh, and in one click's hands, until it is recorded (`FreshUntilRecorded`); it is recorded in one row, the one its deliveries are for (`OneRowEach`); a row with an envelope is sent or signed (`SentOrSigned`), so the transaction that finds it unsent finds it signed |
| | `SignedOnce`, `DownloadsAgree`, `SignatureStays` | for any number of clicks, deliveries and resets and without a hypothesis (`RowInv`): rows are numbered as they are made (`RowsKnown`); an envelope that signed its row and is still in it left it signed (`EffectInItsRow`), so that it does not sign again; a click that nobody overtook works on a row that is gone or still bare (`SignsBareRow`), so that only an overtaken click can take an envelope or a signature from a row, and only a row with two envelopes can be signed twice or have two documents |
| | `Refinement`, `LedgerSafe` | `Spec => Ledger!Spec`, whatever clicks, deliveries and resets do: `CreateInsert` is `Open`, `SignBegin` is `See`, `SignRecord` is `Send` because its envelope is fresh, or `Leave` when the row is gone, `HookSign` is `Sign` because the delivery's envelope was recorded in this very row (`OneRowEach`), `Complete` and `ResetDelete` are themselves, and all else stutters or leaves. The ledger keeps the envelope and the document of an entry to those sent for it |
| `ArtistInvitationProofs` | `Invariance`, `TypeCorrect`, `CleansUp`, `AcceptedOnce`, `LoginsAccepted`, `ClosedStays` | an artist in the hands of a request is in no other's and no invitation has it (`HeldApart`), so a rollback deletes only what its request inserted; accounts are one at most and theirs is there when the invitation is marked (`TablesConsistent`), so a second acceptance cannot have an account; steps that touch no artist are dealt with once (`OutsideSafe`) |
| `SessionsProofs` | `TypeCorrect`, `OneRefresh`, `SignedOut`, `NoFalseAlarm` | the guard of a tab names a call of the tab that refreshes, and a refreshing call of a page is the guard (`GuardInv`); a browser signed out has nothing in the jar and nothing that brings it cookies (`OutInv`), handlers of a page that is gone included, because their answers reach nobody; a token granted is nowhere else, a token in two places has a cause, and a revoked token without a cause is in the hands of the one call that revoked it (`AlarmInv`) |
| `BookingFormProofs` | `TypeCorrect`, `DraftKept`, `SpinnerCaused`, `QuoteCaused`, `CalendarFresh` | each effect re-establishes its part for whatever the form has become (`QuoteInvariant`); a calendar that is being loaded or was loaded since the conflict shows the days that have been busy ever since (`PageInvariant`) |
| | `CalendarTold` | every answer of the public calendar agrees with the hours themselves: the offset looked up twice gives the first midnight of a day (`OneMidnight`, `MidnightIsFirst`), so an hour belongs to one day, and the sum of the blocked hours of all rows is compared with a count of hours. The sum over a set of rows is by induction over sets of numbers, which is proved from least elements (`LeastNumber`, `AllNumbers`). `AnswersAssumption`: the clock changes within a day, not at midnight |
| | `PriceList` | no larger room, dearer ticket, higher level, set or option lowers a total, for whatever capacities and ticket prices; the deposit is within the total, the range brackets the fee: products are monotone, and so is each rounding, the halves that floating point loses included |
| `SigningPageProofs` | `PageSafe`, `TypeCorrect`, `OneSign`, `WaitingPolled`, `StraysReplaced`, `GivesUpCaused` | a request belongs to a visit, and while a click of the visit on the screen is with the server the button spins (`CallsOwned`); what a visit has in its reference runs, for this visit (`RefsRun`), so stopping a reference stops what the page waits for, and an interval becomes a stray only when its reference is overwritten |
| `OfficeProofs` | `TypeCorrect`, `PendingCaused`, `FateTold`, `SignatureKept` | the server's task comes first and waits for every handler whose client is there (`Quiet`), so that a handler under way with the pool closed has lost its client (`WaitedForRuns`), and what becomes of it is recorded; an email in a handler's hands is in no other's and has the fate that its next statement writes (`MailInvariant`); a file is deleted only by a request that goes on to write the row, and a new name is nobody else's, or recorded (`ImageInvariant`) |

No theorem has a hypothesis about a behaviour: nothing in the code keeps two requests from one
row, so none is assumed to be kept from it. Where the code loses something to a race, the
property names the race, and `overtaken`, the history that records it, is set by the steps of
others, never by the step that does the damage. `OneSignPerVisit` is what the
page contributes against two clicks; two tabs, or a page left and opened again, are not
covered by it.

`AnswersAssumption` holds in the two zones the repository names: UTC, the default of
`APP_TIMEZONE`, and Europe/Brussels, where the clock changes between two and three. Section 6
has a zone where it does not.

Model-checked only: `SignatureCounts`, `SpinnersStop`, `WaitingEnds`, `PollsStop` and `StopEnds`,
since liveness under fairness and `ENABLED` are beyond the proof system. Every invariant and
every action property that a passing run checks is proved.
The library's induction theorems take an operator as a parameter, which the installed provers
cannot instantiate; the one induction over data that is needed (a sum over a set) is carried
out by hand on the least number at which a claim would fail. No module has a recursive
operator.

## 6. Where the code and its documents disagree

Two disagreements are runs:

* `client_register`: a client who registers through the form is never marked as claimed
  (`createClientAccount.sql:2`), so neither login nor forgotten password works for that account.
* `booking_deposits`: of a booking with a total of 10 and a deposit of 3, one admin lowers the
  total to 5; before that UPDATE another one raises both to 15. Each passes the guard on the row
  it read (`bookingService.ts:429`), and the first UPDATE, which writes the total alone, leaves a
  deposit of 15 on a total of 5, against the comment at 401-402 ("guard that the merged deposit
  never exceeds the merged quoted total") and the one at 418-419.

The following were met while modelling. The models keep each as the code has it, and the
properties are stated so that they hold; the lines are those a fix would touch.

**Bookings.**
* approve and mark-deposit-paid check the slot they read, then update by status alone
  (`routes/admin.ts:955-961`, `1064-1070`): an approval reads a pending booking and finds no
  window; the artist blocks that time, which a pending booking does not prevent; the approval
  writes. A slot moved in between does the same. The comment at `bookingService.ts:503-505` says
  that "a booking is never advanced toward confirmed over a slot the artist has since blocked".
  The literal claim, without `WrittenLate` in `OnlyLateAdvancesClash`, fails in
  `booking_lifecycle` after seven steps.
* reject chooses its email, and the date in it, from the row before its UPDATE
  (`routes/admin.ts:1007`, `1018-1025`), mark-deposit-paid quotes such a date: an edit that moves the
  booking in between makes the email name a day that is no longer the booking's, and an approval
  in between makes it say that a request was rejected which had been accepted. `MailFits` without
  its exception fails in `booking_lifecycle` after six steps.
* a client edit changes capacity or ticket price and keeps the quote
  (`editBookingByClient.sql:9-17`), which the comment at `bookingService.ts:88-91` says can never
  drift.
* the email of a transition is enqueued after its commit (`bookingService.ts:224`,
  `routes/admin.ts:1191`): a process that dies in between never tells the client.

**Accounts and sessions.**
* a login or refresh that passed its check before a password reset inserts its token after the
  reset has revoked the sessions (`clientAuthService.ts:429`, against the comment at 426-428), and a process that dies before
  that statement revokes nothing: what is left is in `spared`.
* a token swept by a reset, or by an alarm, raises the alarm again when it is presented for
  the first time afterwards (`identityRefreshService.ts:56`, before the check at 60).
* an artist's `changePassword` ends no session (`artistAreaService.ts:245-262`).
* the legacy registration (`authService.ts:86-107`) inserts the user in a transaction and the
  refresh token through another connection of the pool: the foreign key of `refresh_tokens`
  does not see the user yet, so it always rolls back, and it holds one connection while it
  waits for a second.

**Engagement and the signing page.**
* two clicks on Sign that both read a row without an envelope make two envelopes. The first
  one's is recorded, the artist signs it, the webhook signs the row, and then the slower click
  overwrites both status and envelope by id alone (`artistAreaService.ts:586`, against 491-492
  and EPIC-08, S-51): the signature is gone, and only signing the second envelope brings it
  back. `engagement` has this trace; `SignedForGood` says that nothing else does it. Also, a webhook
  between the two statements of a reset (`routes/admin.ts:605`) leaves an onboarded artist
  without a contract; two first reads insert two rows (389).
* "Resume signing" while the page polls overwrites `pollTimerRef`
  (`ArtistOnboardingContract.tsx:109`): the first interval can no longer be stopped, polls (and
  announces the signature at each poll) until the tab is closed, and once it is ten minutes
  old stops, at its next answer, whatever polling the page has.
* an answer that failed or comes late turns a page that showed the signature back to unsigned
  and cancels its redirect (97-104); a poll overwrites personal data being typed (78).
* a personal field that was emptied is sent as null, which `updateArtistSelfProfile.sql` keeps
  as it was, and the page says that it was saved; the contract is printed from the profile that
  was saved, while the button looks at the form (144, 179).
* a signature image whose file is missing gives a contract without it, silently.

**Booking form.**
* the request of an estimate is not cancelled: the answer to older inputs may come last and
  stay (`BookingNew.tsx:345-373`).
* a draft wins over the values of the link but for date and street, although the comment at
  183-184 says that the link wins; a legacy `artistId` link, which finds its artist only after
  the form was made, overwrites the draft of that artist.
* after a conflict caused by a pending request the calendar is loaded again and still shows the
  day as free (508-509), because only committed bookings are public.
* the draft is in sessionStorage, while EPIC-02:87 wants it to survive closing the tab.
* `Button` returns while it spins but does not prevent the default: as the submit button of a
  form it sends the request twice (`Button.tsx:58-59`, `handleSubmit` 446-468).

**Office.**
* `processRetries` has no caller and no job is registered: a failed email is never sent again
  (EPIC-02:152 and 161, EPIC-07:105 and 107 say it is), nor is a pending one after a crash.
* an orderly stop does not wait for a handler whose client has closed the connection
  (`apps/api.ts:36`): while it is with the mail server the pool is closed (`dbConnect.ts:47`) and
  the process exits (`lifecycle.ts:70`), and the row of its email stays pending.
* a second upload keeps `last_reminder_at`, so the new contract cannot be reminded of within a
  day of the old one's reminder; a reminder is counted before its email; a contract can be
  uploaded for a booking cancelled in between; images whose row was replaced in a race stay.

**Computations.**
* overlapping unavailabilities are added up (`availabilityService.ts:126`), so that a day
  blocked half may show as busy; a range that does not begin at a local midnight leaves out
  what lies before it on its first day (and after it on its last), and the front end merges
  such a day over one that was right.
* the offset looked up twice (`timezone.ts`) may miss the midnight of a zone whose clock changes
  at midnight: in Havana the day on which summer time begins is taken to start an hour early.
  `AnswersAssumption` leaves such zones out; put into `MCCalculations` without it, a zone like
  this makes TLC violate `StatusByTheHour`.
* 50 x 1.15 is below 57.5 in binary floating point, so the multiplier of that level for a live
  set comes out as 57 and not 58 (EPIC-01:410 asks for the rounded product); 50 x 0.29 and the
  like lose a euro at an exact half in the same way.

**Pages that are not modelled.** `AdminArtists` reloads without its search text after an action
(99, 105, 116, 128), and the answer of an older filter may come last; the "not found" of
`AdminBookingDetail` is never reset (91-93); `useAutoRefresh` has no user.

## 7. Not modelled

The table of section 1 and `PROJECT.json` name every part. Modelled in part:

* *Engagement contract*: the rendering of the PDF and the signature of the webhook request are
  computations on texts; the profile and picture parts of the same service are one UPDATE each,
  with a file written before it.
* *Signing page*: the form with the personal data, two requests that share nothing with the
  polling but the values a poll puts back (section 6).
* *Agency settings*: the agency's name and address are one UPDATE.

Not modelled, and why:

* *Storage drivers*: single reads, writes and deletes; `Engagement` and `Office` keep the names
  that are stored, and let any of them fail. Checks of a path are string handling.
* *Legacy users*: the template's own, which no page of the agency and no table of it uses.
* *Limits, configuration, audit*: counters of a library per process, environment variables, and
  rows that nothing reads.
* *Job scheduler*: no job is registered with it.
* *Contact, content, statistics, artist catalogue*: one read or one write each.
* *Other pages*: most of the lines of the repository. They are lists with a filter and details
  with a form, layout for the greater part, where nothing lasts beyond one fetch and one
  request per button; the rules they show are enforced again by the back end. The three that
  keep a state of their own have modules.

That is also why the modules stand for less than a tenth of the implementation's lines: what is left is
markup, styles in code, schemas, API wrappers, translations and single statements.

Abstractions to keep in mind: in `Sessions` the access cookie comes and goes with the refresh
cookie, elsewhere access tokens are left out, being stateless; a client is one email with one
account; an engagement is that of one artist, an invitation set that of one email; a draft and
a pending contract are both "unsigned" in `SigningPage`; `server.close` refuses new requests and waits for connections,
of which each request under way has one until its client leaves; slugs, locales and messages have no values;
SQL errors other than the constraints named in the modules are `Abort`.
