-------------------------- MODULE ArtistInvitation --------------------------
(***************************************************************************)
(* The invitations of one person, by email address, to become an artist of *)
(* the agency, and what accepting one creates: a row of artists and, under *)
(* it, the row of artist_accounts with that address                        *)
(* (ArtistInvitationService).                                              *)
(*                                                                         *)
(* accept() runs without a transaction: five statements one after the      *)
(* other, and a DELETE that undoes the first ones when a later one finds   *)
(* that it came too late.                                                  *)
(***************************************************************************)
EXTENDS Naturals

CONSTANTS
    Invitations,  \* ids of artist_invitations (bound on their number)
    Links,        \* tokens generated (bound on their number)
    Artists,      \* ids of artists, never given out twice (bound)
    Requests,     \* requests the server handles at the same time
    Null          \* SQL NULL, and the absence of a row

\* artist_invitation_status; nothing ever writes 'expired', a link expires by
\* its date.
Status == {"pending", "accepted", "revoked"}

\* A row of artist_invitations.
Invitation == [status : Status, link : Links, artist : Artists \cup {Null}]

ASSUME InvitationAssumption == Null \notin Invitation \cup Links \cup Artists

-----------------------------------------------------------------------------
\* What a request that is being handled has left to do.

Idle == [op |-> "none", pc |-> "idle"]

\* create after it found no account with the email.
Inviting == [op : {"invite"}, pc : {"insert"}]

\* create and resend after their write: the email with the link is next.
Mailing == [op : {"mail"}, pc : {"mail"}, link : Links]

\* accept with the invitation it read: before its artist row is inserted, ...
Accepting == [op : {"accept"}, pc : {"check", "artist"}, inv : Invitations]

\* ... and with it.
Creating == [op : {"accept"}, pc : {"account", "mark", "undo", "session"},
             inv : Invitations, artist : Artists]

Request == {Idle} \cup Inviting \cup Mailing \cup Accepting \cup Creating

VARIABLES
    invitations,  \* artist_invitations of this email
    artists,      \* the rows of artists
    accounts,     \* those with a row in artist_accounts
    given,        \* ids of artists given out so far
    inbox,        \* links that were sent and have not expired
    req,          \* what each request being handled has left to do
    \* History.
    granted,      \* artists that accept has logged in
    lost          \* artists that accept had inserted when it was cut off

vars == <<invitations, artists, accounts, given, inbox, req, granted, lost>>

TypeOK ==
    /\ invitations \in [Invitations -> Invitation \cup {Null}]
    /\ artists \subseteq Artists
    /\ accounts \subseteq Artists
    /\ given \subseteq Artists
    /\ inbox \subseteq Links
    /\ req \in [Requests -> Request]
    /\ granted \subseteq Artists
    /\ lost \subseteq Artists

Init ==
    /\ invitations = [i \in Invitations |-> Null]
    /\ artists = {} /\ accounts = {} /\ given = {}
    /\ inbox = {}
    /\ req = [r \in Requests |-> Idle]
    /\ granted = {} /\ lost = {}

\* The request r goes on as record next; Idle ends it.
Continue(r, next) == req' = [req EXCEPT ![r] = next]

At(r, op, pc) == req[r].op = op /\ req[r].pc = pc

Exists(i) == invitations[i] # Null

\* generateRawToken: no link that anyone still knows.
Fresh(l) ==
    /\ \A i \in Invitations : Exists(i) => invitations[i].link # l
    /\ l \notin inbox
    /\ \A r \in Requests : req[r].op = "mail" => req[r].link # l

-----------------------------------------------------------------------------
\* create: no account has the email yet.  Other invitations to it may exist.
InviteBegin(r) ==
    /\ req[r] = Idle
    /\ accounts = {}
    /\ Continue(r, [op |-> "invite", pc |-> "insert"])
    /\ UNCHANGED <<invitations, artists, accounts, given, inbox, granted, lost>>

\* createArtistInvitation.
InviteInsert(r) ==
    /\ At(r, "invite", "insert")
    /\ \E i \in Invitations, l \in Links :
          /\ ~Exists(i) /\ Fresh(l)
          /\ invitations' = [invitations EXCEPT ![i] =
                                [status |-> "pending", link |-> l, artist |-> Null]]
          /\ Continue(r, [op |-> "mail", pc |-> "mail", link |-> l])
    /\ UNCHANGED <<artists, accounts, given, inbox, granted, lost>>

\* Variant: closed invitations may be opened again.
OpenAny(i) == Exists(i)

\* WHERE status IN ('pending', 'expired'): neither accepted nor revoked.
Open(i) == Exists(i) /\ invitations[i].status = "pending"

\* resend: rotateArtistInvitationToken; the old link is no longer found.
Resend(r) ==
    /\ req[r] = Idle
    /\ \E i \in Invitations, l \in Links :
          /\ Open(i) /\ Fresh(l)
          /\ invitations' = [invitations EXCEPT ![i] =
                                [@ EXCEPT !.link = l, !.status = "pending"]]
          /\ Continue(r, [op |-> "mail", pc |-> "mail", link |-> l])
    /\ UNCHANGED <<artists, accounts, given, inbox, granted, lost>>

\* The email is queued and delivered, the link shown to the admin.
Deliver(r) ==
    /\ req[r].op = "mail"
    /\ inbox' = inbox \cup {req[r].link}
    /\ Continue(r, Idle)
    /\ UNCHANGED <<invitations, artists, accounts, given, granted, lost>>

\* revoke: revokeArtistInvitation.
Revoke(r) ==
    /\ req[r] = Idle
    /\ \E i \in Invitations :
          /\ Open(i)
          /\ invitations' = [invitations EXCEPT ![i] = [@ EXCEPT !.status = "revoked"]]
    /\ UNCHANGED <<artists, accounts, given, inbox, req, granted, lost>>

-----------------------------------------------------------------------------
\* accept: the invitation of the link is pending and has not expired.
AcceptBegin(r) ==
    /\ req[r] = Idle
    /\ \E i \in Invitations :
          /\ Exists(i)
          /\ invitations[i].link \in inbox
          /\ invitations[i].status = "pending"
          /\ Continue(r, [op |-> "accept", pc |-> "check", inv |-> i])
    /\ UNCHANGED <<invitations, artists, accounts, given, inbox, granted, lost>>

\* getArtistAccountByEmail, once more.
AcceptCheck(r) ==
    /\ At(r, "accept", "check")
    /\ Continue(r, IF accounts = {} THEN [req[r] EXCEPT !.pc = "artist"] ELSE Idle)
    /\ UNCHANGED <<invitations, artists, accounts, given, inbox, granted, lost>>

\* insertArtistFromInvitation.
AcceptArtist(r) ==
    /\ At(r, "accept", "artist")
    /\ \E a \in Artists \ given :
          /\ artists' = artists \cup {a}
          /\ given' = given \cup {a}
          /\ Continue(r, [op |-> "accept", pc |-> "account", inv |-> req[r].inv,
                          artist |-> a])
    /\ UNCHANGED <<invitations, accounts, inbox, granted, lost>>

\* Variant: the email column is not UNIQUE.
AccountAlways(a) == a \in artists

\* artist_accounts takes the row: email UNIQUE, artist_id REFERENCES artists.
AccountFits(a) == accounts = {} /\ a \in artists

\* createArtistAccount.  Whatever makes it fail, the artist is undone.
AcceptAccount(r) ==
    /\ At(r, "accept", "account")
    /\ \/ /\ AccountFits(req[r].artist)
          /\ accounts' = accounts \cup {req[r].artist}
          /\ Continue(r, [req[r] EXCEPT !.pc = "mark"])
       \/ UNCHANGED accounts /\ Continue(r, [req[r] EXCEPT !.pc = "undo"])
    /\ UNCHANGED <<invitations, artists, given, inbox, granted, lost>>

\* The row markArtistInvitationAccepted leaves.
Accepted(i, a) == [invitations[i] EXCEPT !.status = "accepted", !.artist = a]

\* Variant: an empty result of markArtistInvitationAccepted is only an error.
TooLateFails(r) == Idle

\* An empty result: the invitation was revoked or used in between; undo.
TooLate(r) == [req[r] EXCEPT !.pc = "undo"]

\* Variant: the row count of markArtistInvitationAccepted is not looked at.
MarkUnchecked(r) ==
    LET i == req[r].inv
        a == req[r].artist
    IN  /\ At(r, "accept", "mark")
        /\ invitations' = IF invitations[i].status = "pending" /\ a \in artists
                          THEN [invitations EXCEPT ![i] = Accepted(i, a)]
                          ELSE invitations
        /\ Continue(r, [req[r] EXCEPT !.pc = "session"])
        /\ UNCHANGED <<artists, accounts, given, inbox, granted, lost>>

\* markArtistInvitationAccepted: WHERE id = ... AND status = 'pending'; the link
\* is not looked at again.  The foreign key refuses an artist that an admin has
\* deleted, and that error ends the request.
AcceptMark(r) ==
    LET i == req[r].inv
        a == req[r].artist
    IN  /\ At(r, "accept", "mark")
        /\ \/ /\ invitations[i].status = "pending" /\ a \in artists
              /\ invitations' = [invitations EXCEPT ![i] = Accepted(i, a)]
              /\ Continue(r, [req[r] EXCEPT !.pc = "session"])
           \/ /\ invitations[i].status = "pending" /\ a \notin artists
              /\ Continue(r, Idle) /\ UNCHANGED invitations
           \/ /\ invitations[i].status # "pending"
              /\ Continue(r, TooLate(r)) /\ UNCHANGED invitations
        /\ UNCHANGED <<artists, accounts, given, inbox, granted, lost>>

\* issueRefreshToken: the artist is logged in.
AcceptSession(r) ==
    /\ At(r, "accept", "session")
    /\ granted' = granted \cup {req[r].artist}
    /\ Continue(r, Idle)
    /\ UNCHANGED <<invitations, artists, accounts, given, inbox, lost>>

-----------------------------------------------------------------------------
\* artist_invitations.artist_id REFERENCES artists, without ON DELETE.
Referenced(a) == \E i \in Invitations : Exists(i) /\ invitations[i].artist = a

\* deleteArtist: the account goes with the artist; refused while an invitation
\* references it.
Delete(a) ==
    /\ artists' = IF Referenced(a) THEN artists ELSE artists \ {a}
    /\ accounts' = IF Referenced(a) THEN accounts ELSE accounts \ {a}

\* rollbackArtist.
AcceptUndo(r) ==
    /\ At(r, "accept", "undo")
    /\ Delete(req[r].artist)
    /\ Continue(r, Idle)
    /\ UNCHANGED <<invitations, given, inbox, granted, lost>>

\* DELETE /artists/:id by an admin, for an artist without bookings.
AdminDelete(r) ==
    /\ req[r] = Idle
    /\ \E a \in artists : Delete(a)
    /\ UNCHANGED <<invitations, given, inbox, req, granted, lost>>

\* A link expires.
LinkExpires ==
    /\ \E l \in inbox : inbox' = inbox \ {l}
    /\ UNCHANGED <<invitations, artists, accounts, given, req, granted, lost>>

\* The artist row that accept has inserted and not yet seen accepted or undone.
Holds(r, a) == /\ req[r].op = "accept" /\ req[r].pc \in {"account", "mark", "undo"}
               /\ req[r].artist = a

\* A statement fails, the DELETE of the rollback included, or the process dies.
Abort(r) ==
    /\ req[r] # Idle
    /\ lost' = lost \cup {a \in Artists : Holds(r, a)}
    /\ Continue(r, Idle)
    /\ UNCHANGED <<invitations, artists, accounts, given, inbox, granted>>

Handle(r) ==
    \/ InviteBegin(r) \/ InviteInsert(r) \/ Resend(r) \/ Deliver(r) \/ Revoke(r)
    \/ AcceptBegin(r) \/ AcceptCheck(r) \/ AcceptArtist(r) \/ AcceptAccount(r)
    \/ AcceptMark(r) \/ AcceptUndo(r) \/ AcceptSession(r)
    \/ AdminDelete(r) \/ Abort(r)

Next == LinkExpires \/ \E r \in Requests : Handle(r)

Spec == Init /\ [][Next]_vars

-----------------------------------------------------------------------------
\* Properties.

\* accept cleans up after itself: every artist row is that of an accepted
\* invitation, or still in the hands of a request, or was left by one that was
\* cut off.  In particular, the losers of concurrent acceptances and of a
\* revocation leave nothing (comments at :320 and :332).
NothingLeftBehind ==
    \A a \in artists : Referenced(a) \/ (\E r \in Requests : Holds(r, a)) \/ a \in lost

\* The email has at most one accepted invitation, however many were sent and
\* clicked at once, and its artist and account exist: no rollback and no
\* deletion by an admin reaches them.
AcceptedHasAccount ==
    \A i, j \in Invitations :
        /\ Exists(i) /\ Exists(j)
        /\ invitations[i].status = "accepted" /\ invitations[j].status = "accepted"
        => i = j /\ invitations[i].artist \in artists \cap accounts

\* Whoever was logged in by a link is the artist of the accepted invitation.
LoggedInIsAccepted ==
    \A a \in granted : \E i \in Invitations :
        Exists(i) /\ invitations[i].status = "accepted" /\ invitations[i].artist = a

\* An invitation that was accepted or revoked stays so: no resend and no late
\* acceptance opens or changes it again.
ClosedForGood ==
    [][\A i \in Invitations : Exists(i) /\ invitations[i].status # "pending"
          => invitations'[i] = invitations[i]]_vars

\* What makes them inductive: rows of accounts are under rows of artists, one at
\* most; an artist in the hands of a request was given out to it alone, no
\* invitation has it, and its account is there from the INSERT on.
TablesConsistent ==
    /\ accounts \subseteq artists /\ artists \subseteq given
    /\ \A a, b \in accounts : a = b
    /\ \A i \in Invitations : Exists(i) =>
          (invitations[i].status = "accepted" <=> invitations[i].artist # Null)

HeldApart ==
    \A r \in Requests, a \in Artists : Holds(r, a) =>
        /\ a \in given /\ ~Referenced(a)
        /\ \A s \in Requests : Holds(s, a) => s = r
        /\ At(r, "accept", "mark") /\ a \in artists => a \in accounts

AcceptsKnown ==
    \A r \in Requests : req[r].op = "accept" =>
        /\ Exists(req[r].inv)
        /\ req[r].pc = "session" => /\ invitations[req[r].inv].status = "accepted"
                                    /\ invitations[req[r].inv].artist = req[r].artist

\* The inductive invariant of ArtistInvitationProofs.
IndInv ==
    /\ TypeOK /\ TablesConsistent /\ HeldApart /\ AcceptsKnown
    /\ NothingLeftBehind /\ AcceptedHasAccount /\ LoggedInIsAccepted
=============================================================================
