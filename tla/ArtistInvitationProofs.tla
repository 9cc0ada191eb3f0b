----------------------- MODULE ArtistInvitationProofs -----------------------
(***************************************************************************)
(* Proofs about ArtistInvitation for every number of invitations, links,   *)
(* artists and requests.                                                   *)
(***************************************************************************)
EXTENDS ArtistInvitation, TLAPS

-----------------------------------------------------------------------------
\* What a request remembers follows from its op and pc.
LEMMA RequestVariants ==
    ASSUME NEW q \in Request
    PROVE  /\ q.op = "mail" => q \in Mailing
           /\ q.op = "accept" => q.inv \in Invitations
           /\ q.op = "accept" /\ q.pc \in {"account", "mark", "undo", "session"}
                => q \in Creating
           /\ q.op = "accept" /\ q.pc \in {"check", "artist"} => q \in Accepting
  BY DEF Request, Idle, Inviting, Mailing, Accepting, Creating

\* Moving an acceptance on to another statement keeps what it remembers.
LEMMA CreatingMoves ==
    ASSUME NEW q \in Creating, NEW pc \in {"account", "mark", "undo", "session"}
    PROVE  LET n == [q EXCEPT !.pc = pc] IN
           /\ n \in Creating /\ n \in Request
           /\ n.op = "accept" /\ n.pc = pc /\ n.inv = q.inv /\ n.artist = q.artist
  BY DEF Creating, Request

LEMMA IdleType == Idle \in Request /\ Idle.op = "none"
  BY DEF Idle, Request

\* One request changes, the others stay.
LEMMA ContinueOne ==
    ASSUME TypeOK, NEW r \in Requests, NEW n, Continue(r, n)
    PROVE  \A s \in Requests : req'[s] = IF s = r THEN n ELSE req[s]
  BY DEF TypeOK, Continue

\* The empty tables satisfy the invariant.
LEMMA InitIndInv == Init => IndInv
<1>. SUFFICES ASSUME Init PROVE IndInv
  OBVIOUS
<1>1. TypeOK
  BY IdleType DEF Init, TypeOK
<1>2. \A i \in Invitations : ~Exists(i)
  BY DEF Init, Exists
<1>3. \A r \in Requests : req[r].op = "none"
  BY IdleType DEF Init
<1>4. TablesConsistent /\ AcceptedHasAccount /\ LoggedInIsAccepted
  BY <1>2 DEF Init, TablesConsistent, AcceptedHasAccount, LoggedInIsAccepted
<1>5. HeldApart /\ AcceptsKnown
  BY <1>3 DEF HeldApart, AcceptsKnown, Holds
<1>6. NothingLeftBehind
  BY DEF Init, NothingLeftBehind
<1>. QED
  BY <1>1, <1>4, <1>5, <1>6 DEF IndInv

-----------------------------------------------------------------------------
\* Type correctness.
LEMMA NextTypeOK == TypeOK /\ AcceptsKnown /\ [Next]_vars => TypeOK'
<1>. SUFFICES ASSUME TypeOK, AcceptsKnown, [Next]_vars PROVE TypeOK'
  OBVIOUS
<1>1. CASE UNCHANGED vars
  BY <1>1 DEF vars, TypeOK
<1>2. CASE LinkExpires
  BY <1>2 DEF LinkExpires, TypeOK
<1>3. ASSUME NEW r \in Requests, Handle(r) PROVE TypeOK'
  <2>0. req[r] \in Request
    BY DEF TypeOK
  <2>1. CASE InviteBegin(r)
    <3>1. [op |-> "invite", pc |-> "insert"] \in Request
      BY DEF Request, Inviting
    <3>. QED
      BY <2>1, <3>1 DEF InviteBegin, Continue, TypeOK
  <2>2. CASE InviteInsert(r)
    <3>1. PICK i \in Invitations, l \in Links :
            /\ invitations' = [invitations EXCEPT ![i] =
                                  [status |-> "pending", link |-> l, artist |-> Null]]
            /\ Continue(r, [op |-> "mail", pc |-> "mail", link |-> l])
      BY <2>2 DEF InviteInsert
    <3>2. /\ [status |-> "pending", link |-> l, artist |-> Null] \in Invitation
          /\ [op |-> "mail", pc |-> "mail", link |-> l] \in Request
      BY DEF Invitation, Status, Request, Mailing
    <3>. QED
      BY <2>2, <3>1, <3>2 DEF InviteInsert, Continue, TypeOK
  <2>3. CASE Resend(r)
    <3>1. PICK i \in Invitations, l \in Links :
            /\ Open(i)
            /\ invitations' = [invitations EXCEPT ![i] =
                                  [@ EXCEPT !.link = l, !.status = "pending"]]
            /\ Continue(r, [op |-> "mail", pc |-> "mail", link |-> l])
      BY <2>3 DEF Resend
    <3>2. [op |-> "mail", pc |-> "mail", link |-> l] \in Request
      BY DEF Request, Mailing
    <3>3. [invitations[i] EXCEPT !.link = l, !.status = "pending"] \in Invitation
      BY <3>1 DEF Open, Exists, TypeOK, Invitation, Status
    <3>. QED
      BY <2>3, <3>1, <3>2, <3>3 DEF Resend, Continue, TypeOK
  <2>4. CASE Deliver(r)
    BY <2>0, <2>4, RequestVariants, IdleType DEF Deliver, Continue, TypeOK, Mailing
  <2>5. CASE Revoke(r)
    <3>1. PICK i \in Invitations :
            /\ Open(i)
            /\ invitations' = [invitations EXCEPT ![i] = [@ EXCEPT !.status = "revoked"]]
      BY <2>5 DEF Revoke
    <3>2. [invitations[i] EXCEPT !.status = "revoked"] \in Invitation
      BY <3>1 DEF Open, Exists, TypeOK, Invitation, Status
    <3>. QED
      BY <2>5, <3>1, <3>2 DEF Revoke, TypeOK
  <2>6. CASE AcceptBegin(r)
    <3>1. PICK i \in Invitations : Continue(r, [op |-> "accept", pc |-> "check", inv |-> i])
      BY <2>6 DEF AcceptBegin
    <3>2. [op |-> "accept", pc |-> "check", inv |-> i] \in Request
      BY DEF Request, Accepting
    <3>. QED
      BY <2>6, <3>1, <3>2 DEF AcceptBegin, Continue, TypeOK
  <2>7. CASE AcceptCheck(r)
    <3>1. req[r] \in Accepting
      BY <2>0, <2>7, RequestVariants DEF AcceptCheck, At
    <3>2. [req[r] EXCEPT !.pc = "artist"] \in Request
      BY <3>1 DEF Accepting, Request
    <3>. QED
      BY <2>7, <3>2, IdleType DEF AcceptCheck, Continue, TypeOK
  <2>8. CASE AcceptArtist(r)
    <3>1. req[r].inv \in Invitations
      BY <2>0, <2>8, RequestVariants DEF AcceptArtist, At
    <3>2. PICK a \in Artists :
            /\ artists' = artists \cup {a} /\ given' = given \cup {a}
            /\ Continue(r, [op |-> "accept", pc |-> "account", inv |-> req[r].inv,
                            artist |-> a])
      BY <2>8 DEF AcceptArtist
    <3>3. [op |-> "accept", pc |-> "account", inv |-> req[r].inv, artist |-> a] \in Request
      BY <3>1 DEF Request, Creating
    <3>. QED
      BY <2>8, <3>2, <3>3 DEF AcceptArtist, Continue, TypeOK
  <2>9. CASE AcceptAccount(r)
    <3>1. req[r] \in Creating
      BY <2>0, <2>9, RequestVariants DEF AcceptAccount, At
    <3>2. req[r].artist \in Artists
      BY <3>1 DEF Creating
    <3>3. [req[r] EXCEPT !.pc = "mark"] \in Request
      BY <3>1, CreatingMoves
    <3>4. [req[r] EXCEPT !.pc = "undo"] \in Request
      BY <3>1, CreatingMoves
    <3>. QED
      BY <2>9, <3>2, <3>3, <3>4 DEF AcceptAccount, Continue, TypeOK
  <2>10. CASE AcceptMark(r)
    <3>1. req[r] \in Creating
      BY <2>0, <2>10, RequestVariants DEF AcceptMark, At
    <3>2. req[r].inv \in Invitations /\ req[r].artist \in Artists /\ Exists(req[r].inv)
      BY <2>10, <3>1 DEF Creating, AcceptsKnown, AcceptMark, At
    <3>3. Accepted(req[r].inv, req[r].artist) \in Invitation
      BY <3>2 DEF Accepted, Exists, TypeOK, Invitation, Status
    <3>4. [req[r] EXCEPT !.pc = "session"] \in Request
      BY <3>1, CreatingMoves
    <3>5. [req[r] EXCEPT !.pc = "undo"] \in Request
      BY <3>1, CreatingMoves
    <3>6. req' \in [Requests -> Request]
      BY <2>10, <3>4, <3>5, IdleType DEF AcceptMark, TooLate, Continue, TypeOK
    <3>7. invitations' \in [Invitations -> Invitation \cup {Null}]
      BY <2>10, <3>2, <3>3 DEF AcceptMark, TypeOK
    <3>. QED
      BY <2>10, <3>6, <3>7 DEF AcceptMark, TypeOK
  <2>11. CASE AcceptUndo(r)
    BY <2>11, IdleType DEF AcceptUndo, Delete, Continue, TypeOK
  <2>12. CASE AcceptSession(r)
    <3>1. req[r] \in Creating
      BY <2>0, <2>12, RequestVariants DEF AcceptSession, At
    <3>. QED
      BY <2>12, <3>1, IdleType DEF AcceptSession, Continue, TypeOK, Creating
  <2>13. CASE AdminDelete(r)
    BY <2>13 DEF AdminDelete, Delete, TypeOK
  <2>14. CASE Abort(r)
    BY <2>14, IdleType DEF Abort, Continue, TypeOK
  <2>. QED
    BY <1>3, <2>1, <2>2, <2>3, <2>4, <2>5, <2>6, <2>7, <2>8, <2>9, <2>10, <2>11,
       <2>12, <2>13, <2>14 DEF Handle
<1>. QED
  BY <1>1, <1>2, <1>3 DEF Next

-----------------------------------------------------------------------------
\* The steps that touch no artist: an invitation that is not closed is written,
\* or a request without an artist moves on.

Bare(q) == ~(q.op = "accept" /\ q.pc \in {"account", "mark", "undo", "session"})

OutsideStep ==
    /\ UNCHANGED <<artists, accounts, given, granted, lost>>
    /\ \A i \in Invitations :
          \/ invitations'[i] = invitations[i]
          \/ /\ Exists(i) => invitations[i].status = "pending"
             /\ invitations'[i] # Null
             /\ invitations'[i].status # "accepted" /\ invitations'[i].artist = Null
    /\ \A s \in Requests :
          \/ req'[s] = req[s]
          \/ /\ Bare(req[s]) /\ Bare(req'[s])
             /\ req'[s].op = "accept" => invitations'[req'[s].inv] # Null

\* They preserve everything that is said about artists.
LEMMA OutsideSafe == IndInv /\ TypeOK' /\ OutsideStep => IndInv'
<1>. SUFFICES ASSUME IndInv, TypeOK', OutsideStep PROVE IndInv'
  OBVIOUS
<1>. USE InvitationAssumption
<1>1. \A i \in Invitations :
        /\ Exists(i)' /\ invitations'[i].status = "accepted" => invitations'[i] = invitations[i]
        /\ Exists(i) /\ invitations[i].status = "accepted" => invitations'[i] = invitations[i]
        /\ Exists(i) => Exists(i)'
  BY DEF OutsideStep, Exists
<1>2. TablesConsistent'
  BY DEF IndInv, TablesConsistent, OutsideStep, Exists
<1>3. \A a \in Artists : Referenced(a)' <=> Referenced(a)
  <2>1. \A i \in Invitations, a \in Artists :
          /\ Exists(i) /\ invitations[i].artist = a => invitations[i].status = "accepted"
          /\ Exists(i)' /\ invitations'[i].artist = a => invitations'[i].status = "accepted"
    BY <1>2 DEF IndInv, TablesConsistent, Exists
  <2>. QED
    BY <1>1, <2>1 DEF Referenced, Exists
<1>4. \A s \in Requests, a \in Artists : Holds(s, a)' <=> Holds(s, a)
  BY DEF OutsideStep, Holds, Bare
<1>5. HeldApart'
  <2>1. \A s \in Requests, a \in Artists : Holds(s, a) => req'[s] = req[s]
    BY DEF OutsideStep, Holds, Bare
  <2>. QED
    BY <1>3, <1>4, <2>1 DEF IndInv, HeldApart, OutsideStep, At
<1>6. AcceptsKnown'
  <2>. SUFFICES ASSUME NEW s \in Requests, req'[s].op = "accept"
                PROVE  /\ invitations'[req'[s].inv] # Null
                       /\ req'[s].pc = "session" =>
                            /\ invitations'[req'[s].inv].status = "accepted"
                            /\ invitations'[req'[s].inv].artist = req'[s].artist
    BY DEF AcceptsKnown, Exists
  <2>1. CASE req'[s] = req[s]
    <3>1. req[s].inv \in Invitations
      BY <2>1, RequestVariants DEF IndInv, TypeOK
    <3>. QED
      BY <1>1, <2>1, <3>1 DEF IndInv, AcceptsKnown, Exists
  <2>2. CASE req'[s] # req[s]
    BY <2>2 DEF OutsideStep, Bare, Exists
  <2>. QED
    BY <2>1, <2>2
<1>7. NothingLeftBehind'
  BY <1>3, <1>4 DEF IndInv, NothingLeftBehind, OutsideStep, TypeOK
<1>8. AcceptedHasAccount'
  BY <1>1 DEF IndInv, AcceptedHasAccount, OutsideStep, Exists
<1>9. LoggedInIsAccepted'
  BY <1>1 DEF IndInv, LoggedInIsAccepted, OutsideStep
<1>. QED
  BY <1>2, <1>5, <1>6, <1>7, <1>8, <1>9 DEF IndInv

\* The actions that are such steps.
LEMMA OutsideActions ==
    ASSUME IndInv,
           \/ UNCHANGED vars
           \/ LinkExpires
           \/ \E r \in Requests :
                 \/ InviteBegin(r) \/ InviteInsert(r) \/ Resend(r) \/ Deliver(r) \/ Revoke(r)
                 \/ AcceptBegin(r) \/ AcceptCheck(r)
    PROVE  OutsideStep
<1>. USE DEF IndInv
<1>1. CASE UNCHANGED vars
  BY <1>1 DEF vars, OutsideStep
<1>2. CASE LinkExpires
  BY <1>2 DEF LinkExpires, OutsideStep
<1>3. ASSUME NEW r \in Requests,
             \/ InviteBegin(r) \/ InviteInsert(r) \/ Resend(r) \/ Deliver(r) \/ Revoke(r)
             \/ AcceptBegin(r) \/ AcceptCheck(r)
      PROVE  OutsideStep
  <2>1. CASE InviteBegin(r)
    BY <2>1 DEF InviteBegin, Continue, Idle, Bare, OutsideStep, TypeOK
  <2>2. CASE InviteInsert(r)
    <3>1. PICK i \in Invitations, l \in Links :
            /\ ~Exists(i)
            /\ invitations' = [invitations EXCEPT ![i] =
                                  [status |-> "pending", link |-> l, artist |-> Null]]
            /\ Continue(r, [op |-> "mail", pc |-> "mail", link |-> l])
      BY <2>2 DEF InviteInsert
    <3>2. [status |-> "pending", link |-> l, artist |-> Null] # Null
      BY InvitationAssumption DEF Invitation, Status
    <3>3. \A s \in Requests :
             \/ req'[s] = req[s]
             \/ Bare(req[s]) /\ Bare(req'[s]) /\ req'[s].op = "mail"
      BY <2>2, <3>1 DEF InviteInsert, At, Continue, Bare, TypeOK
    <3>4. \A j \in Invitations :
             \/ invitations'[j] = invitations[j]
             \/ /\ ~Exists(j) /\ invitations'[j] # Null
                /\ invitations'[j].status # "accepted" /\ invitations'[j].artist = Null
      BY <3>1, <3>2 DEF TypeOK
    <3>. QED
      BY <2>2, <3>3, <3>4 DEF InviteInsert, OutsideStep
  <2>3. ASSUME NEW i \in Invitations, Open(i),
               NEW n \in Invitation, invitations' = [invitations EXCEPT ![i] = n],
               n.status # "accepted", n.artist = invitations[i].artist
        PROVE  \A j \in Invitations :
                  \/ invitations'[j] = invitations[j]
                  \/ /\ invitations[j].status = "pending" /\ invitations'[j] # Null
                     /\ invitations'[j].status # "accepted" /\ invitations'[j].artist = Null
    <3>1. invitations[i].artist = Null /\ n # Null
      BY <2>3, InvitationAssumption DEF Open, TablesConsistent
    <3>. QED
      BY <2>3, <3>1 DEF Open, TypeOK
  <2>4. CASE Resend(r)
    <3>1. PICK i \in Invitations, l \in Links :
            /\ Open(i)
            /\ invitations' = [invitations EXCEPT ![i] =
                                  [@ EXCEPT !.link = l, !.status = "pending"]]
            /\ Continue(r, [op |-> "mail", pc |-> "mail", link |-> l])
      BY <2>4 DEF Resend
    <3>. DEFINE n == [invitations[i] EXCEPT !.link = l, !.status = "pending"]
    <3>2. n \in Invitation /\ n.status # "accepted" /\ n.artist = invitations[i].artist
      BY <3>1 DEF Open, Exists, TypeOK, Invitation, Status
    <3>3. invitations' = [invitations EXCEPT ![i] = n]
      BY <3>1
    <3>. HIDE DEF n
    <3>4. \A j \in Invitations :
             \/ invitations'[j] = invitations[j]
             \/ /\ invitations[j].status = "pending" /\ invitations'[j] # Null
                /\ invitations'[j].status # "accepted" /\ invitations'[j].artist = Null
      BY <2>3, <3>1, <3>2, <3>3
    <3>5. \A s \in Requests :
             \/ req'[s] = req[s]
             \/ Bare(req[s]) /\ Bare(req'[s]) /\ req'[s].op = "mail"
      <4>1. Bare(req[r])
        BY <2>4, IdleType DEF Resend, Bare
      <4>. HIDE DEF IndInv
      <4>2. TypeOK /\ Continue(r, [op |-> "mail", pc |-> "mail", link |-> l])
        BY <3>1 DEF IndInv
      <4>. QED
        BY <4>1, <4>2 DEF Continue, Bare, TypeOK
    <3>. QED
      BY <2>4, <3>4, <3>5 DEF Resend, OutsideStep
  <2>5. CASE Deliver(r)
    BY <2>5 DEF Deliver, Continue, Idle, Bare, OutsideStep, TypeOK
  <2>6. CASE Revoke(r)
    <3>1. PICK i \in Invitations :
            /\ Open(i)
            /\ invitations' = [invitations EXCEPT ![i] = [@ EXCEPT !.status = "revoked"]]
      BY <2>6 DEF Revoke
    <3>. DEFINE n == [invitations[i] EXCEPT !.status = "revoked"]
    <3>2. n \in Invitation /\ n.status # "accepted" /\ n.artist = invitations[i].artist
      BY <3>1 DEF Open, Exists, TypeOK, Invitation, Status
    <3>3. invitations' = [invitations EXCEPT ![i] = n]
      BY <3>1
    <3>. HIDE DEF n
    <3>. QED
      BY <2>3, <2>6, <3>1, <3>2, <3>3 DEF Revoke, OutsideStep
  <2>7. CASE AcceptBegin(r)
    BY <2>7 DEF AcceptBegin, Continue, Idle, Bare, OutsideStep, Exists, TypeOK
  <2>8. CASE AcceptCheck(r)
    <3>1. req[r].op = "accept" /\ req[r].inv \in Invitations /\ Exists(req[r].inv)
          /\ req[r] \in Accepting
      BY <2>8, RequestVariants DEF AcceptCheck, At, TypeOK, AcceptsKnown
    <3>2. [req[r] EXCEPT !.pc = "artist"] \in Accepting
          /\ [req[r] EXCEPT !.pc = "artist"].inv = req[r].inv
      BY <3>1 DEF Accepting
    <3>. QED
      BY <2>8, <3>1, <3>2
      DEF AcceptCheck, Continue, Idle, Accepting, Bare, OutsideStep, Exists, TypeOK
  <2>. QED
    BY <1>3, <2>1, <2>2, <2>4, <2>5, <2>6, <2>7, <2>8
<1>. QED
  BY <1>1, <1>2, <1>3

-----------------------------------------------------------------------------
\* A new artist is in the hands of the request that inserted it, and of it alone.
LEMMA ArtistSafe ==
    ASSUME IndInv, TypeOK', NEW r \in Requests, AcceptArtist(r)
    PROVE  IndInv'
<1>. USE InvitationAssumption
<1>1. PICK a \in Artists \ given :
        /\ artists' = artists \cup {a} /\ given' = given \cup {a}
        /\ Continue(r, [op |-> "accept", pc |-> "account", inv |-> req[r].inv,
                        artist |-> a])
  BY DEF AcceptArtist
<1>2. /\ req[r].op = "accept" /\ req[r].pc = "artist"
      /\ UNCHANGED <<invitations, accounts, inbox, granted, lost>>
  BY DEF AcceptArtist, At
<1>3. \A s \in Requests :
        req'[s] = IF s = r THEN [op |-> "accept", pc |-> "account", inv |-> req[r].inv,
                                 artist |-> a]
                  ELSE req[s]
  BY <1>1, ContinueOne DEF IndInv
<1>4. \A s \in Requests, b \in Artists :
        Holds(s, b)' <=> (s = r /\ b = a) \/ (s # r /\ Holds(s, b))
  BY <1>3 DEF Holds
<1>5. \A s \in Requests, b \in Artists : Holds(s, b) => b # a /\ s # r
  BY <1>2 DEF IndInv, HeldApart, Holds
<1>6. \A b \in Artists : Referenced(b)' <=> Referenced(b)
  BY <1>2 DEF Referenced, Exists
<1>7. TablesConsistent'
  BY <1>1, <1>2 DEF IndInv, TablesConsistent, Exists
<1>8. ~Referenced(a)
  <2>1. \A i \in Invitations : Exists(i) /\ invitations[i].artist = a
                                 => a \in artists
    BY DEF IndInv, TablesConsistent, AcceptedHasAccount
  <2>. QED
    BY <1>1, <2>1 DEF IndInv, TablesConsistent, Referenced
<1>9. HeldApart'
  <2>. SUFFICES ASSUME NEW s \in Requests, NEW b \in Artists, Holds(s, b)'
                PROVE  /\ b \in given' /\ ~Referenced(b)'
                       /\ \A t \in Requests : Holds(t, b)' => t = s
                       /\ At(s, "accept", "mark")' /\ b \in artists' => b \in accounts'
    BY DEF HeldApart
  <2>1. CASE s = r
    BY <1>1, <1>3, <1>4, <1>5, <1>6, <1>8, <2>1 DEF At
  <2>2. CASE s # r
    BY <1>1, <1>2, <1>3, <1>4, <1>5, <1>6, <2>2 DEF IndInv, HeldApart, At
  <2>. QED
    BY <2>1, <2>2
<1>10. AcceptsKnown'
  BY <1>2, <1>3 DEF IndInv, AcceptsKnown, Exists
<1>11. NothingLeftBehind'
  BY <1>1, <1>2, <1>4, <1>5, <1>6 DEF IndInv, NothingLeftBehind, TypeOK
<1>12. AcceptedHasAccount'
  BY <1>1, <1>2 DEF IndInv, AcceptedHasAccount, Exists
<1>13. LoggedInIsAccepted'
  BY <1>2 DEF IndInv, LoggedInIsAccepted, Exists
<1>. QED
  BY <1>7, <1>9, <1>10, <1>11, <1>12, <1>13 DEF IndInv

\* The account goes in under an artist that is not referenced yet, when there is
\* no other account.
LEMMA AccountSafe ==
    ASSUME IndInv, TypeOK', NEW r \in Requests, AcceptAccount(r)
    PROVE  IndInv'
<1>. USE InvitationAssumption
<1>1. /\ req[r].op = "accept" /\ req[r].pc = "account" /\ req[r] \in Creating
      /\ UNCHANGED <<invitations, artists, given, inbox, granted, lost>>
  BY RequestVariants DEF AcceptAccount, At, IndInv, TypeOK
<1>. DEFINE a == req[r].artist
<1>2. a \in Artists /\ Holds(r, a)
  BY <1>1 DEF Holds, Creating
<1>3. PICK pc \in {"mark", "undo"} :
        /\ Continue(r, [req[r] EXCEPT !.pc = pc])
        /\ IF pc = "mark" THEN AccountFits(a) /\ accounts' = accounts \cup {a}
           ELSE accounts' = accounts
  BY DEF AcceptAccount
<1>4. \A s \in Requests : req'[s] = IF s = r THEN [req[r] EXCEPT !.pc = pc] ELSE req[s]
  BY <1>3, ContinueOne DEF IndInv
<1>5. /\ req'[r].op = "accept" /\ req'[r].pc = pc
      /\ req'[r].inv = req[r].inv /\ req'[r].artist = a
  <2>1. req'[r] = [req[r] EXCEPT !.pc = pc]
    BY <1>4
  <2>. QED
    BY <1>1, <2>1, CreatingMoves
<1>6. \A s \in Requests, b \in Artists : Holds(s, b)' <=> Holds(s, b)
  BY <1>1, <1>4, <1>5 DEF Holds
<1>7. \A b \in Artists : Referenced(b)' <=> Referenced(b)
  BY <1>1 DEF Referenced, Exists
<1>8. TablesConsistent'
  BY <1>1, <1>3 DEF IndInv, TablesConsistent, AccountFits, Exists
<1>9. HeldApart'
  <2>. SUFFICES ASSUME NEW s \in Requests, NEW b \in Artists, Holds(s, b)'
                PROVE  /\ b \in given' /\ ~Referenced(b)'
                       /\ \A t \in Requests : Holds(t, b)' => t = s
                       /\ At(s, "accept", "mark")' /\ b \in artists' => b \in accounts'
    BY DEF HeldApart
  <2>1. CASE s = r
    <3>1. b = a
      BY <1>5, <2>1 DEF Holds
    <3>. QED
      BY <1>1, <1>2, <1>3, <1>5, <1>6, <1>7, <2>1, <3>1 DEF IndInv, HeldApart, At
  <2>2. CASE s # r
    BY <1>1, <1>3, <1>4, <1>6, <1>7, <2>2 DEF IndInv, HeldApart, At
  <2>. QED
    BY <2>1, <2>2
<1>10. AcceptsKnown'
  BY <1>1, <1>4, <1>5 DEF IndInv, AcceptsKnown, Exists
<1>11. NothingLeftBehind'
  BY <1>1, <1>6, <1>7 DEF IndInv, NothingLeftBehind, TypeOK
<1>12. AcceptedHasAccount'
  BY <1>1, <1>3 DEF IndInv, AcceptedHasAccount, Exists
<1>13. LoggedInIsAccepted'
  BY <1>1 DEF IndInv, LoggedInIsAccepted, Exists
<1>. QED
  BY <1>8, <1>9, <1>10, <1>11, <1>12, <1>13 DEF IndInv

\* Only the acceptance of a pending invitation gives it the artist, and by then the
\* account is there; no other invitation can have been accepted, for its account
\* would be another one.
LEMMA MarkSafe ==
    ASSUME IndInv, TypeOK', NEW r \in Requests, AcceptMark(r)
    PROVE  IndInv'
<1>. USE InvitationAssumption
<1>. DEFINE i == req[r].inv
            a == req[r].artist
<1>1. /\ req[r].op = "accept" /\ req[r].pc = "mark" /\ req[r] \in Creating
      /\ UNCHANGED <<artists, accounts, given, inbox, granted, lost>>
  BY RequestVariants DEF AcceptMark, At, IndInv, TypeOK
<1>2. /\ i \in Invitations /\ a \in Artists /\ Exists(i) /\ invitations[i] \in Invitation
      /\ Holds(r, a) /\ a \in given /\ ~Referenced(a) /\ (a \in artists => a \in accounts)
  BY <1>1 DEF Creating, Holds, At, IndInv, HeldApart, AcceptsKnown, TypeOK, Exists
<1>3. \A n : Continue(r, n) => \A s \in Requests : req'[s] = IF s = r THEN n ELSE req[s]
  BY ContinueOne DEF IndInv
<1>. DEFINE session == [req[r] EXCEPT !.pc = "session"]
            undo == [req[r] EXCEPT !.pc = "undo"]
<1>4. /\ session.op = "accept" /\ session.pc = "session"
      /\ session.inv = i /\ session.artist = a
  BY <1>1, CreatingMoves
<1>5. undo.op = "accept" /\ undo.pc = "undo" /\ undo.inv = i /\ undo.artist = a
  BY <1>1, CreatingMoves
<1>6. CASE /\ invitations[i].status = "pending" /\ a \in artists
           /\ invitations' = [invitations EXCEPT ![i] = Accepted(i, a)]
           /\ Continue(r, session)
  <2>1. \A s \in Requests : req'[s] = IF s = r THEN session ELSE req[s]
    BY <1>3, <1>6
  <2>. DEFINE n == Accepted(i, a)
  <2>2. n \in Invitation /\ n # Null /\ n.status = "accepted" /\ n.artist = a
    BY <1>2 DEF Accepted, Invitation, Status
  <2>. HIDE DEF session, undo, n
  <2>3. \A j \in Invitations : invitations'[j] = IF j = i THEN n ELSE invitations[j]
    BY <1>6 DEF n, IndInv, TypeOK
  <2>4. \A j \in Invitations : Exists(j)' <=> Exists(j)
    BY <1>2, <2>2, <2>3 DEF Exists
  <2>5. \A b \in Artists : Referenced(b)' <=> b = a \/ Referenced(b)
    <3>1. ~\E j \in Invitations : j = i /\ invitations[j].artist # Null
      BY <1>2, <1>6 DEF IndInv, TablesConsistent
    <3>. QED
      BY <1>2, <2>2, <2>3, <2>4, <3>1 DEF Referenced
  <2>6. \A s \in Requests, b \in Artists : Holds(s, b)' <=> s # r /\ Holds(s, b)
    BY <1>4, <2>1 DEF Holds
  <2>7. \A s \in Requests, b \in Artists : s # r /\ Holds(s, b) => b # a
    BY <1>2 DEF IndInv, HeldApart
  <2>8. TablesConsistent'
    BY <1>1, <1>2, <2>2, <2>3, <2>4 DEF IndInv, TablesConsistent
  <2>9. HeldApart'
    BY <1>1, <2>1, <2>5, <2>6, <2>7 DEF IndInv, HeldApart, At
  <2>10. AcceptsKnown'
    <3>. SUFFICES ASSUME NEW s \in Requests, req'[s].op = "accept"
                  PROVE  /\ invitations'[req'[s].inv] # Null
                         /\ req'[s].pc = "session" =>
                              /\ invitations'[req'[s].inv].status = "accepted"
                              /\ invitations'[req'[s].inv].artist = req'[s].artist
      BY DEF AcceptsKnown, Exists
    <3>1. CASE s = r
      BY <1>2, <1>4, <2>1, <2>2, <2>3, <3>1
    <3>2. CASE s # r
      <4>1. req'[s] = req[s] /\ req[s].inv \in Invitations /\ Exists(req[s].inv)
        BY <2>1, <3>2, RequestVariants DEF IndInv, TypeOK, AcceptsKnown
      <4>2. req[s].pc = "session" => req[s].inv # i
        BY <1>6, <4>1 DEF IndInv, AcceptsKnown
      <4>. QED
        BY <2>2, <2>3, <4>1, <4>2 DEF IndInv, AcceptsKnown, Exists
    <3>. QED
      BY <3>1, <3>2
  <2>11. NothingLeftBehind'
    <3>1. \A b \in Artists : Holds(r, b) => b = a
      BY DEF Holds
    <3>. QED
      BY <1>1, <1>2, <2>5, <2>6, <3>1 DEF IndInv, NothingLeftBehind, TypeOK
  <2>12. \A j \in Invitations :
            ~(Exists(j) /\ invitations[j].status = "accepted")
    <3>1. ASSUME NEW j \in Invitations, Exists(j), invitations[j].status = "accepted"
          PROVE  FALSE
      <4>1. invitations[j].artist \in accounts
        BY <3>1 DEF IndInv, AcceptedHasAccount
      <4>2. invitations[j].artist = a
        BY <1>2, <1>6, <4>1 DEF IndInv, TablesConsistent
      <4>. QED
        BY <1>2, <3>1, <4>2 DEF Referenced
    <3>. QED
      BY <3>1
  <2>13. AcceptedHasAccount'
    BY <1>1, <1>2, <1>6, <2>2, <2>3, <2>4, <2>12 DEF AcceptedHasAccount
  <2>14. LoggedInIsAccepted'
    BY <1>1, <1>6, <2>2, <2>3, <2>4, <2>12 DEF IndInv, LoggedInIsAccepted
  <2>. QED
    BY <2>8, <2>9, <2>10, <2>11, <2>13, <2>14 DEF IndInv
<1>7. CASE /\ UNCHANGED invitations
           /\ \/ a \notin artists /\ Continue(r, Idle)
              \/ Continue(r, undo)
  <2>. HIDE DEF session, undo
  <2>1. PICK n \in {Idle, undo} :
          /\ \A s \in Requests : req'[s] = IF s = r THEN n ELSE req[s]
          /\ n = Idle => a \notin artists
    BY <1>3, <1>5, <1>7, IdleType
  <2>2. n.op = "accept" => n = undo
    BY <2>1, IdleType
  <2>3. \A s \in Requests, b \in Artists :
          Holds(s, b)' <=> Holds(s, b) /\ (s = r => n = undo)
    BY <1>1, <1>5, <2>1, <2>2, IdleType DEF Holds
  <2>4. \A b \in Artists : Referenced(b)' <=> Referenced(b)
    BY <1>7 DEF Referenced, Exists
  <2>5. TablesConsistent'
    BY <1>1, <1>7 DEF IndInv, TablesConsistent, Exists
  <2>6. HeldApart'
    <3>. SUFFICES ASSUME NEW s \in Requests, NEW b \in Artists, Holds(s, b)'
                  PROVE  /\ b \in given' /\ ~Referenced(b)'
                         /\ \A t \in Requests : Holds(t, b)' => t = s
                         /\ At(s, "accept", "mark")' /\ b \in artists' => b \in accounts'
      BY DEF HeldApart
    <3>1. At(s, "accept", "mark")' => At(s, "accept", "mark")
      BY <1>5, <2>1, <2>2 DEF At
    <3>. QED
      BY <1>1, <2>3, <2>4, <3>1 DEF IndInv, HeldApart
  <2>7. AcceptsKnown'
    BY <1>2, <1>5, <1>7, <2>1, <2>2 DEF IndInv, AcceptsKnown, Exists
  <2>8. NothingLeftBehind'
    <3>. SUFFICES ASSUME NEW b \in artists
                  PROVE  \/ Referenced(b)' \/ (\E s \in Requests : Holds(s, b)')
                         \/ b \in lost
      BY <1>1 DEF NothingLeftBehind
    <3>1. b \in Artists
      BY DEF IndInv, TypeOK
    <3>2. \A s \in Requests : Holds(s, b) => Holds(s, b)'
      BY <1>1, <2>1, <2>3, <3>1 DEF Holds
    <3>. QED
      BY <2>4, <3>1, <3>2 DEF IndInv, NothingLeftBehind
  <2>9. AcceptedHasAccount' /\ LoggedInIsAccepted'
    BY <1>1, <1>7 DEF IndInv, AcceptedHasAccount, LoggedInIsAccepted, Exists
  <2>. QED
    BY <2>5, <2>6, <2>7, <2>8, <2>9 DEF IndInv
<1>. QED
  BY <1>6, <1>7 DEF AcceptMark, TooLate

\* The session is that of the accepted invitation's artist.
LEMMA SessionSafe ==
    ASSUME IndInv, TypeOK', NEW r \in Requests, AcceptSession(r)
    PROVE  IndInv'
<1>1. /\ req[r].op = "accept" /\ req[r].pc = "session" /\ req[r].inv \in Invitations
      /\ granted' = granted \cup {req[r].artist}
      /\ UNCHANGED <<invitations, artists, accounts, given, inbox, lost>>
  BY RequestVariants DEF AcceptSession, At, IndInv, TypeOK
<1>2. \A s \in Requests : req'[s] = IF s = r THEN Idle ELSE req[s]
  BY ContinueOne DEF AcceptSession, IndInv
<1>3. \A s \in Requests, b \in Artists : Holds(s, b)' <=> Holds(s, b)
  BY <1>1, <1>2, IdleType DEF Holds
<1>4. \A b \in Artists : Referenced(b)' <=> Referenced(b)
  BY <1>1 DEF Referenced, Exists
<1>5. TablesConsistent' /\ AcceptedHasAccount'
  BY <1>1 DEF IndInv, TablesConsistent, AcceptedHasAccount, Exists
<1>6. HeldApart'
  BY <1>1, <1>2, <1>3, <1>4, IdleType DEF IndInv, HeldApart, At
<1>7. AcceptsKnown'
  BY <1>1, <1>2, IdleType DEF IndInv, AcceptsKnown, Exists
<1>8. NothingLeftBehind'
  BY <1>1, <1>3, <1>4 DEF IndInv, NothingLeftBehind, TypeOK
<1>9. LoggedInIsAccepted'
  BY <1>1 DEF IndInv, LoggedInIsAccepted, AcceptsKnown, Exists
<1>. QED
  BY <1>5, <1>6, <1>7, <1>8, <1>9 DEF IndInv

\* A DELETE reaches no artist that an invitation references, and leaves the others
\* alone.
LEMMA DeleteSafe ==
    ASSUME IndInv, TypeOK', NEW a \in Artists, Delete(a),
           UNCHANGED <<invitations, given, inbox, granted, lost>>,
           \/ UNCHANGED req
           \/ \E r \in Requests : Holds(r, a) /\ Continue(r, Idle)
              /\ req[r].pc = "undo"
    PROVE  IndInv'
<1>1. PICK gone \in SUBSET {a} :
        /\ artists' = artists \ gone /\ accounts' = accounts \ gone
        /\ Referenced(a) <=> gone = {}
  <2>1. CASE Referenced(a)
    <3>. QED
      BY <2>1 DEF Delete
  <2>2. CASE ~Referenced(a)
    BY <2>2 DEF Delete
  <2>. QED
    BY <2>1, <2>2
<1>2. \A b \in Artists : Referenced(b)' <=> Referenced(b)
  BY DEF Referenced, Exists
<1>3. \A s \in Requests : req'[s] = req[s] \/ (req'[s] = Idle /\ Holds(s, a))
  BY ContinueOne DEF IndInv
<1>4. \A s \in Requests, b \in Artists :
        Holds(s, b)' <=> Holds(s, b) /\ req'[s] = req[s]
  BY <1>3, IdleType DEF Holds
<1>5. TablesConsistent'
  BY <1>1 DEF IndInv, TablesConsistent, Exists
<1>6. AcceptedHasAccount'
  <2>1. \A i \in Invitations :
          Exists(i) /\ invitations[i].status = "accepted" => invitations[i].artist \notin gone
    BY <1>1 DEF Referenced
  <2>. QED
    BY <1>1, <2>1 DEF IndInv, AcceptedHasAccount, Exists
<1>7. LoggedInIsAccepted'
  BY DEF IndInv, LoggedInIsAccepted, Exists
<1>8. AcceptsKnown'
  BY <1>3, IdleType DEF IndInv, AcceptsKnown, Exists
<1>9. HeldApart'
  BY <1>1, <1>2, <1>3, <1>4, IdleType DEF IndInv, HeldApart, At
<1>10. NothingLeftBehind'
  <2>. SUFFICES ASSUME NEW b \in artists'
                PROVE  Referenced(b)' \/ (\E s \in Requests : Holds(s, b)') \/ b \in lost'
    BY DEF NothingLeftBehind
  <2>1. b \in artists /\ b \in Artists /\ b \notin gone
    BY <1>1 DEF IndInv, TypeOK
  <2>2. CASE b = a
    BY <1>1, <1>2, <2>1, <2>2
  <2>3. CASE b # a
    <3>1. \A s \in Requests : Holds(s, b) => req'[s] = req[s]
      BY <1>3, <2>3 DEF Holds
    <3>. QED
      BY <1>2, <1>4, <2>1, <3>1 DEF IndInv, NothingLeftBehind
  <2>. QED
    BY <2>2, <2>3
<1>. QED
  BY <1>5, <1>6, <1>7, <1>8, <1>9, <1>10 DEF IndInv

\* A request that is cut off leaves at most the artist it held, and lost names it.
LEMMA AbortSafe ==
    ASSUME IndInv, TypeOK', NEW r \in Requests, Abort(r)
    PROVE  IndInv'
<1>1. /\ lost' = lost \cup {a \in Artists : Holds(r, a)}
      /\ UNCHANGED <<invitations, artists, accounts, given, inbox, granted>>
  BY DEF Abort
<1>2. \A s \in Requests : req'[s] = IF s = r THEN Idle ELSE req[s]
  BY ContinueOne DEF Abort, IndInv
<1>3. \A s \in Requests, b \in Artists : Holds(s, b)' <=> s # r /\ Holds(s, b)
  BY <1>2, IdleType DEF Holds
<1>4. \A b \in Artists : Referenced(b)' <=> Referenced(b)
  BY <1>1 DEF Referenced, Exists
<1>5. TablesConsistent' /\ AcceptedHasAccount' /\ LoggedInIsAccepted'
  BY <1>1 DEF IndInv, TablesConsistent, AcceptedHasAccount, LoggedInIsAccepted, Exists
<1>6. HeldApart'
  BY <1>1, <1>2, <1>3, <1>4, IdleType DEF IndInv, HeldApart, At
<1>7. AcceptsKnown'
  BY <1>1, <1>2, IdleType DEF IndInv, AcceptsKnown, Exists
<1>8. NothingLeftBehind'
  BY <1>1, <1>3, <1>4 DEF IndInv, NothingLeftBehind, TypeOK
<1>. QED
  BY <1>5, <1>6, <1>7, <1>8 DEF IndInv

-----------------------------------------------------------------------------
\* Every step preserves the invariant.
LEMMA NextIndInv == IndInv /\ [Next]_vars => IndInv'
<1>. SUFFICES ASSUME IndInv, [Next]_vars PROVE IndInv'
  OBVIOUS
<1>0. TypeOK'
  BY NextTypeOK DEF IndInv
<1>1. CASE \/ UNCHANGED vars \/ LinkExpires
           \/ \E r \in Requests :
                 \/ InviteBegin(r) \/ InviteInsert(r) \/ Resend(r) \/ Deliver(r)
                 \/ Revoke(r) \/ AcceptBegin(r) \/ AcceptCheck(r)
  <2>1. OutsideStep
    BY <1>1, OutsideActions
  <2>. QED
    BY <1>0, <2>1, OutsideSafe
<1>2. ASSUME NEW r \in Requests,
             \/ AcceptArtist(r) \/ AcceptAccount(r) \/ AcceptMark(r) \/ AcceptUndo(r)
             \/ AcceptSession(r) \/ AdminDelete(r) \/ Abort(r)
      PROVE  IndInv'
  <2>1. CASE AcceptArtist(r) \/ AcceptAccount(r) \/ AcceptMark(r)
             \/ AcceptSession(r) \/ Abort(r)
    BY <1>0, <2>1, ArtistSafe, AccountSafe, MarkSafe, SessionSafe, AbortSafe
  <2>2. CASE AcceptUndo(r)
    <3>1. req[r].op = "accept" /\ req[r].pc = "undo" /\ req[r] \in Creating
      BY <2>2, RequestVariants DEF AcceptUndo, At, IndInv, TypeOK
    <3>2. req[r].artist \in Artists /\ Holds(r, req[r].artist)
      BY <3>1 DEF Holds, Creating
    <3>. QED
      BY <1>0, <2>2, <3>1, <3>2, DeleteSafe DEF AcceptUndo
  <2>3. CASE AdminDelete(r)
    <3>1. PICK a \in artists : Delete(a)
      BY <2>3 DEF AdminDelete
    <3>2. a \in Artists
      BY <3>1 DEF IndInv, TypeOK
    <3>. QED
      BY <1>0, <2>3, <3>1, <3>2, DeleteSafe DEF AdminDelete
  <2>. QED
    BY <1>2, <2>1, <2>2, <2>3
<1>. QED
  BY <1>1, <1>2 DEF Next, Handle

\* The inductive invariant holds of every reachable state.
THEOREM Invariance == Spec => []IndInv
<1>. QED
  BY InitIndInv, NextIndInv, PTL DEF Spec

\* Every reachable state is of the declared types.
THEOREM TypeCorrect == Spec => []TypeOK
<1>1. IndInv => TypeOK
  BY DEF IndInv
<1>. QED
  BY <1>1, Invariance, PTL

\* Whatever the interleaving of invitations, revocations, acceptances, deletions
\* and failures, an artist row belongs to an accepted invitation or to a request at
\* work, unless a request that was cut off left it.
THEOREM CleansUp == Spec => []NothingLeftBehind
<1>1. IndInv => NothingLeftBehind
  BY DEF IndInv
<1>. QED
  BY <1>1, Invariance, PTL

\* At most one invitation of an email is ever accepted, and its artist and account
\* stay.
THEOREM AcceptedOnce == Spec => []AcceptedHasAccount
<1>1. IndInv => AcceptedHasAccount
  BY DEF IndInv
<1>. QED
  BY <1>1, Invariance, PTL

\* Nobody is logged in as an artist whose invitation was not accepted.
THEOREM LoginsAccepted == Spec => []LoggedInIsAccepted
<1>1. IndInv => LoggedInIsAccepted
  BY DEF IndInv
<1>. QED
  BY <1>1, Invariance, PTL

\* An invitation that was accepted or revoked is never written again.
THEOREM ClosedStays == Spec => ClosedForGood
<1>. DEFINE Stays == \A i \in Invitations :
                Exists(i) /\ invitations[i].status # "pending"
                   => invitations'[i] = invitations[i]
<1>1. IndInv /\ [Next]_vars => Stays
  <2>. SUFFICES ASSUME IndInv, [Next]_vars PROVE Stays
    OBVIOUS
  <2>1. CASE \/ UNCHANGED vars \/ LinkExpires
             \/ \E r \in Requests :
                   \/ InviteBegin(r) \/ InviteInsert(r) \/ Resend(r) \/ Deliver(r)
                   \/ Revoke(r) \/ AcceptBegin(r) \/ AcceptCheck(r)
    <3>1. OutsideStep
      BY <2>1, OutsideActions
    <3>. QED
      BY <3>1 DEF OutsideStep
  <2>2. ASSUME NEW r \in Requests, AcceptMark(r) PROVE Stays
    <3>1. req[r].inv \in Invitations
      BY <2>2, RequestVariants DEF AcceptMark, At, IndInv, TypeOK
    <3>. QED
      BY <2>2, <3>1 DEF AcceptMark, IndInv, TypeOK
  <2>3. ASSUME NEW r \in Requests,
               \/ AcceptArtist(r) \/ AcceptAccount(r) \/ AcceptUndo(r)
               \/ AcceptSession(r) \/ AdminDelete(r) \/ Abort(r)
        PROVE  Stays
    BY <2>3 DEF AcceptArtist, AcceptAccount, AcceptUndo, AcceptSession, AdminDelete, Abort
  <2>. QED
    BY <2>1, <2>2, <2>3 DEF Next, Handle
<1>. QED
  BY <1>1, Invariance, PTL DEF Spec, ClosedForGood

=============================================================================
