------------------------------ MODULE Engagement ------------------------------
(***************************************************************************)
(* The engagement contract of one artist: the rows of contracts, the two   *)
(* columns of artists that depend on them, the envelopes on the signature  *)
(* server (Documenso), the signed PDFs in the storage, and Documenso's     *)
(* webhook (ArtistAreaService, contractWebhookService, the admin's reset). *)
(*                                                                         *)
(* A row's pdf_storage_key is built from its envelope id, so a stored PDF  *)
(* is named here by its envelope.                                          *)
(***************************************************************************)
EXTENDS Naturals

CONSTANTS
    Clicks,        \* requests of the artist handled at the same time
    Hooks,         \* webhook deliveries handled at the same time
    Admins,        \* resets handled at the same time
    Envelopes,     \* envelopes created on Documenso (bound on their number)
    MaxContracts,  \* bound on the rows ever inserted
    Null           \* SQL NULL, and the absence of a row

\* Contract ids, in the order of created_at.
Contracts == 1 .. MaxContracts

\* A row of contracts: envelope is signature_provider_envelope_id, document
\* signed_pdf_storage_key.
Contract == [status : {"draft", "pending_signature", "signed"},
             envelope : Envelopes \cup {Null}, document : Envelopes \cup {Null}]

\* What Documenso has of an envelope: distributed is when it can be signed.
EnvelopeState == {"unused", "created", "distributed", "completed"}

ASSUME EngagementAssumption ==
    /\ MaxContracts \in Nat
    /\ Null \notin Contract \cup Contracts \cup Envelopes

-----------------------------------------------------------------------------
\* What a request that is being handled has left to do.

Idle == [op |-> "none", pc |-> "idle"]

\* getOrCreateEngagementContract: before the INSERT, and before the artist's
\* engagement_contract_id is set.
Creating == [op : {"create"}, pc : {"insert"}]
Attaching == [op : {"create"}, pc : {"link"}, contract : Contracts]

\* signEngagementContract for the row it read, which had no envelope.
Preparing == [op : {"sign"}, pc : {"create"}, contract : Contracts]
Signing == [op : {"sign"}, pc : {"distribute", "record"}, contract : Contracts,
            envelope : Envelopes]

\* handleSignedDocument after it found the row of the envelope.
Receiving == [op : {"hook"}, pc : {"persist", "sign"}, contract : Contracts,
              envelope : Envelopes]

\* The reset between its two statements.
Resetting == [op : {"reset"}, pc : {"delete"}]

Request == {Idle} \cup Creating \cup Attaching \cup Preparing \cup Signing
                  \cup Receiving \cup Resetting

Handlers == Clicks \cup Hooks \cup Admins

VARIABLES
    contracts,  \* the rows of contracts, Null where there is none
    created,    \* how many rows were ever inserted
    onboarded,  \* artists.onboarding_completed_at is set
    link,       \* artists.engagement_contract_id
    envelopes,  \* Documenso's envelopes
    acked,      \* envelopes whose completion was answered with 200
    files,      \* envelopes whose signed PDF is in the storage
    req,        \* what each request being handled has left to do
    effects,    \* history: how many times each envelope signed a contract
    sentFor,    \* history: the row that each envelope was recorded in
    overtaken   \* history: clicks whose row got an envelope after they read it

history == <<effects, sentFor, overtaken>>

vars == <<contracts, created, onboarded, link, envelopes, acked, files, req, history>>

TypeOK ==
    /\ contracts \in [Contracts -> Contract \cup {Null}]
    /\ created \in 0 .. MaxContracts
    /\ onboarded \in BOOLEAN
    /\ link \in Contracts \cup {Null}
    /\ envelopes \in [Envelopes -> EnvelopeState]
    /\ acked \subseteq Envelopes
    /\ files \subseteq Envelopes
    /\ req \in [Handlers -> Request]
    /\ effects \in [Envelopes -> Nat]
    /\ sentFor \in [Envelopes -> Contracts \cup {Null}]
    /\ overtaken \subseteq Handlers

Init ==
    /\ contracts = [c \in Contracts |-> Null]
    /\ created = 0
    /\ onboarded = FALSE
    /\ link = Null
    /\ envelopes = [e \in Envelopes |-> "unused"]
    /\ acked = {}
    /\ files = {}
    /\ req = [r \in Handlers |-> Idle]
    /\ effects = [e \in Envelopes |-> 0]
    /\ sentFor = [e \in Envelopes |-> Null]
    /\ overtaken = {}

\* The request r goes on as record next; Idle ends it.
Continue(r, next) == req' = [req EXCEPT ![r] = next]

At(r, op, pc) == req[r].op = op /\ req[r].pc = pc

Exists(c) == contracts[c] # Null

\* getEngagementContractByArtist: ORDER BY created_at DESC LIMIT 1.
Latest(c) == Exists(c) /\ \A d \in Contracts : Exists(d) => d <= c

\* Variant: the contract of a delivery is looked up by the artist alone.
RecordedLatest(c, e) == Latest(c) /\ contracts[c].envelope # Null

\* getContractByEnvelopeId.
Recorded(c, e) == Exists(c) /\ contracts[c].envelope = e

Signed(c) == Exists(c) /\ contracts[c].status = "signed"

-----------------------------------------------------------------------------
\* getOrCreateEngagementContract, when it finds no row.
CreateBegin(k) ==
    /\ req[k] = Idle
    /\ \A c \in Contracts : ~Exists(c)
    /\ Continue(k, [op |-> "create", pc |-> "insert"])
    /\ UNCHANGED <<contracts, created, onboarded, link, envelopes, acked, files, history>>

\* insertEngagementContract; nothing makes the artist unique.
CreateInsert(k) ==
    /\ At(k, "create", "insert")
    /\ created < MaxContracts
    /\ created' = created + 1
    /\ contracts' = [contracts EXCEPT ![created + 1] =
                        [status |-> "draft", envelope |-> Null, document |-> Null]]
    /\ Continue(k, [op |-> "create", pc |-> "link", contract |-> created + 1])
    /\ UNCHANGED <<onboarded, link, envelopes, acked, files, history>>

\* setArtistEngagementContract, refused by the foreign key when the row is gone.
CreateLink(k) ==
    /\ At(k, "create", "link")
    /\ link' = IF Exists(req[k].contract) THEN req[k].contract ELSE link
    /\ Continue(k, Idle)
    /\ UNCHANGED <<contracts, created, onboarded, envelopes, acked, files, history>>

-----------------------------------------------------------------------------
\* Variant: a click makes a new envelope although the row has one.
NeedsAnyEnvelope(c) == contracts[c].status # "signed"

\* A row that is signed, or has an envelope to sign already, is answered as it is.
NeedsEnvelope(c) == contracts[c].status # "signed" /\ contracts[c].envelope = Null

\* signEngagementContract: the SELECT and its early returns.
SignBegin(k) ==
    /\ req[k] = Idle
    /\ \E c \in Contracts :
          /\ Latest(c)
          /\ NeedsEnvelope(c)
          /\ Continue(k, [op |-> "sign", pc |-> "create", contract |-> c])
    /\ UNCHANGED <<contracts, created, onboarded, link, envelopes, acked, files, history>>

\* The PDF is rendered and uploaded as a new envelope.
SignCreate(k) ==
    /\ At(k, "sign", "create")
    /\ \E e \in Envelopes :
          /\ envelopes[e] = "unused"
          /\ envelopes' = [envelopes EXCEPT ![e] = "created"]
          /\ Continue(k, [op |-> "sign", pc |-> "distribute",
                          contract |-> req[k].contract, envelope |-> e])
    /\ UNCHANGED <<contracts, created, onboarded, link, acked, files, history>>

\* The signature field is added and the envelope distributed.
SignDistribute(k) ==
    /\ At(k, "sign", "distribute")
    /\ envelopes' = [envelopes EXCEPT ![req[k].envelope] = "distributed"]
    /\ Continue(k, [req[k] EXCEPT !.pc = "record"])
    /\ UNCHANGED <<contracts, created, onboarded, link, acked, files, history>>

\* Clicks that have read the row c and are about to send an envelope for it.
Sending(c) == {r \in Handlers : req[r].op = "sign" /\ req[r].contract = c}

\* setEngagementSigningInfo, by id alone: whatever the row is by now.
SignRecord(k) ==
    /\ At(k, "sign", "record")
    /\ LET c == req[k].contract IN
       IF Exists(c)
       THEN /\ contracts' = [contracts EXCEPT ![c] = [@ EXCEPT
                   !.status = "pending_signature", !.envelope = req[k].envelope]]
            /\ sentFor' = [sentFor EXCEPT ![req[k].envelope] = c]
            /\ overtaken' = (overtaken \cup Sending(c)) \ {k}
       ELSE /\ overtaken' = overtaken \ {k}
            /\ UNCHANGED <<contracts, sentFor>>
    /\ Continue(k, Idle)
    /\ UNCHANGED <<created, onboarded, link, envelopes, acked, files, effects>>

\* The artist signs on Documenso.
Complete(e) ==
    /\ envelopes[e] = "distributed"
    /\ envelopes' = [envelopes EXCEPT ![e] = "completed"]
    /\ UNCHANGED <<contracts, created, onboarded, link, acked, files, req, history>>

-----------------------------------------------------------------------------
\* Documenso delivers a completion again until it is answered with 200, also
\* while an earlier delivery is being handled.
Deliverable(e) == envelopes[e] = "completed" /\ e \notin acked

\* Variant: a completion of an unknown envelope is answered with 200.
SettledOrUnknown(e) == \A c \in Contracts : Recorded(c, e) => Signed(c)

\* The envelope's contract is signed; an unknown envelope is answered with 202,
\* which asks for another delivery.
Settled(e) == \E c \in Contracts : Recorded(c, e) /\ Signed(c)

HookAnswer(e) ==
    /\ Deliverable(e)
    /\ Settled(e)
    /\ acked' = acked \cup {e}
    /\ UNCHANGED <<contracts, created, onboarded, link, envelopes, files, req, history>>

\* handleSignedDocument: the SELECT finds a row that is not signed.  The check
\* with Documenso that follows cannot stop it (its errors are only logged).
HookBegin(h, e) ==
    /\ req[h] = Idle
    /\ Deliverable(e)
    /\ \E c \in Contracts :
          /\ Recorded(c, e)
          /\ ~Signed(c)
          /\ Continue(h, [op |-> "hook", pc |-> "persist", contract |-> c, envelope |-> e])
    /\ UNCHANGED <<contracts, created, onboarded, link, envelopes, acked, files, history>>

\* Variant: the failed download of the PDF does not stop the handler.
PersistBestEffort(h) ==
    /\ At(h, "hook", "persist")
    /\ files' \in {files, files \cup {req[h].envelope}}
    /\ Continue(h, [req[h] EXCEPT !.pc = "sign"])
    /\ UNCHANGED <<contracts, created, onboarded, link, envelopes, acked, history>>

\* persistSignedPdf: the PDF is downloaded and stored.
HookPersist(h) ==
    /\ At(h, "hook", "persist")
    /\ files' = files \cup {req[h].envelope}
    /\ Continue(h, [req[h] EXCEPT !.pc = "sign"])
    /\ UNCHANGED <<contracts, created, onboarded, link, envelopes, acked, history>>

\* Variant: markContractSigned without its guard on the status.
MarksAny(c) == Exists(c)

\* markContractSigned: WHERE id = ... AND status = 'pending_signature'.
Marks(c) == Exists(c) /\ contracts[c].status = "pending_signature"

\* The transaction: the row is signed and the artist onboarded, or neither.
\* The answer is 200 in both cases, and may be lost.
HookSign(h) ==
    /\ At(h, "hook", "sign")
    /\ LET c == req[h].contract
           e == req[h].envelope
       IN /\ IF Marks(c)
             THEN /\ contracts' = [contracts EXCEPT ![c] =
                                      [@ EXCEPT !.status = "signed", !.document = e]]
                  /\ onboarded' = TRUE
                  /\ effects' = [effects EXCEPT ![e] = @ + 1]
             ELSE UNCHANGED <<contracts, onboarded, effects>>
          /\ acked' \in {acked, acked \cup {e}}
    /\ Continue(h, Idle)
    /\ UNCHANGED <<created, link, envelopes, files, sentFor, overtaken>>

-----------------------------------------------------------------------------
\* POST /artists/:id/engagement-contract/reset: resetArtistOnboarding, ...
ResetBegin(a) ==
    /\ req[a] = Idle
    /\ link' = Null
    /\ onboarded' = FALSE
    /\ Continue(a, [op |-> "reset", pc |-> "delete"])
    /\ UNCHANGED <<contracts, created, envelopes, acked, files, history>>

\* ... then deleteEngagementContractByArtist, refused by the foreign key when the
\* artist was linked to a row in between.
ResetDelete(a) ==
    /\ At(a, "reset", "delete")
    /\ contracts' = IF link = Null THEN [c \in Contracts |-> Null] ELSE contracts
    /\ Continue(a, Idle)
    /\ UNCHANGED <<created, onboarded, link, envelopes, acked, files, history>>

-----------------------------------------------------------------------------
\* A call fails or the process dies.
Abort(r) ==
    /\ req[r] # Idle
    /\ Continue(r, Idle)
    /\ overtaken' = overtaken \ {r}
    /\ UNCHANGED <<contracts, created, onboarded, link, envelopes, acked, files, effects, sentFor>>

Click(k) ==
    \/ CreateBegin(k) \/ CreateInsert(k) \/ CreateLink(k)
    \/ SignBegin(k) \/ SignCreate(k) \/ SignDistribute(k) \/ SignRecord(k)

Next ==
    \/ \E k \in Clicks : Click(k)
    \/ \E h \in Hooks : (\E e \in Envelopes : HookBegin(h, e)) \/ HookPersist(h) \/ HookSign(h)
    \/ \E a \in Admins : ResetBegin(a) \/ ResetDelete(a)
    \/ \E e \in Envelopes : Complete(e) \/ HookAnswer(e)
    \/ \E r \in Handlers : Abort(r)

Spec == Init /\ [][Next]_vars

\* Documenso repeats a delivery until it is answered, and a call that is repeated
\* for ever does not fail for ever.
Fairness ==
    \A e \in Envelopes :
        /\ SF_vars(\E h \in Hooks : HookBegin(h, e))
        /\ SF_vars(\E h \in Hooks : HookPersist(h) /\ req[h].envelope = e)
        /\ SF_vars(\E h \in Hooks : HookSign(h) /\ req[h].envelope = e)

FairSpec == Spec /\ Fairness

-----------------------------------------------------------------------------
\* Properties.

\* A signed contract points at a PDF that is stored and that the artist signed,
\* and an artist who is onboarded has signed one, whatever clicks, deliveries
\* and resets race (#10).
SignedHasDocument ==
    /\ \A c \in Contracts :
          Signed(c) => contracts[c].document \in files
                           /\ envelopes[contracts[c].document] = "completed"
    /\ onboarded => files # {}

\* Two envelopes were recorded in the row c, one after the other.
SentTwice(c) == \E e, f \in Envelopes : e # f /\ sentFor[e] = c /\ sentFor[f] = c

\* The artist downloads the stored document, an admin the one of the envelope:
\* of a signed contract they are the same, unless the row had two envelopes.
OneDocument ==
    \A c \in Contracts :
        Signed(c) => contracts[c].document = contracts[c].envelope \/ SentTwice(c)

\* No envelope signs twice, unless the row had two envelopes.
SignsOnce ==
    \A e \in Envelopes :
        effects[e] > 1 => \E c \in Contracts : sentFor[e] = c /\ SentTwice(c)

\* The contract of an acknowledged envelope is signed.
AckedSigned == \A e \in acked, c \in Contracts : Recorded(c, e) => Signed(c)

\* Deliveries that are repeated or run at once sign one contract once (#39), and
\* none is acknowledged, so that Documenso would not repeat it, before it has.
EffectiveOnce == SignsOnce /\ AckedSigned

\* In this step a click that was overtaken records its envelope in the row c.
RecordedLate(c) ==
    \E k \in overtaken :
        At(k, "sign", "record") /\ req[k].contract = c /\ req'[k] # req[k]

\* A contract keeps its envelope, and a signed one its signature, until a reset
\* takes the row away.  Two clicks that both read the row before it had an envelope
\* are the exception: the slower one replaces the envelope of the other, and takes
\* the signature if there is one already.
SignedForGood ==
    [][\A c \in Contracts :
          /\ Exists(c) /\ Exists(c)'
          /\ \/ Signed(c) /\ ~Signed(c)'
             \/ contracts[c].envelope # Null /\ contracts'[c].envelope # contracts[c].envelope
          => RecordedLate(c)]_vars

\* The artist has signed the envelope, and the contract it is for is not signed.
Outstanding(e) ==
    envelopes[e] = "completed" /\ \E c \in Contracts : Recorded(c, e) /\ ~Signed(c)

\* Once the artist has signed the envelope of a contract, the contract becomes
\* signed, however late or often the webhook comes, unless it is reset or gets
\* another envelope before.
SignatureCounts == \A e \in Envelopes : Outstanding(e) ~> ~Outstanding(e)

\* What makes SignedHasDocument inductive: a delivery is of a completed envelope,
\* and the PDF is stored before the row is written; envelopes being prepared
\* are not signed yet.
DeliveriesSigned ==
    \A r \in Handlers :
        /\ req[r].op = "hook" => envelopes[req[r].envelope] = "completed"
        /\ At(r, "hook", "sign") => req[r].envelope \in files

FilesCompleted == \A e \in files : envelopes[e] = "completed"

\* An envelope that is not distributed yet is in the hands of one click.
InPreparation ==
    \A r \in Handlers : At(r, "sign", "distribute") =>
        /\ envelopes[req[r].envelope] = "created"
        /\ \A s \in Handlers :
              At(s, "sign", "distribute") /\ req[s].envelope = req[r].envelope => s = r

\* The inductive invariant of EngagementProofs.
IndInv == TypeOK /\ SignedHasDocument /\ DeliveriesSigned /\ FilesCompleted /\ InPreparation

-----------------------------------------------------------------------------
\* What makes AckedSigned inductive.

\* The envelope is in no row and in no delivery, and never was.
Fresh(e) ==
    /\ effects[e] = 0 /\ e \notin acked /\ sentFor[e] = Null
    /\ \A c \in Contracts : ~Recorded(c, e)
    /\ \A r \in Handlers : req[r].op = "hook" => req[r].envelope # e

\* The request prepares an envelope.
Prepares(r) == At(r, "sign", "distribute") \/ At(r, "sign", "record")

\* An envelope is fresh, and in the hands of one click, until it is recorded.
FreshUntilRecorded ==
    /\ \A e \in Envelopes : envelopes[e] = "unused" => Fresh(e)
    /\ \A r \in Handlers : Prepares(r) =>
          /\ envelopes[req[r].envelope] # "unused"
          /\ Fresh(req[r].envelope)
          /\ \A s \in Handlers :
                Prepares(s) /\ req[s].envelope = req[r].envelope => s = r

\* An envelope is recorded in one row, the one that its deliveries are for.
OneRowEach ==
    /\ \A c \in Contracts, e \in Envelopes : Recorded(c, e) => sentFor[e] = c
    /\ \A r \in Handlers : req[r].op = "hook" => sentFor[req[r].envelope] = req[r].contract

\* A row has an envelope when it waits for the signature or has it; a draft has
\* nothing.
SentOrSigned ==
    \A c \in Contracts : Exists(c) =>
        /\ contracts[c].envelope = Null <=> contracts[c].status = "draft"
        /\ contracts[c].status = "draft" => contracts[c].document = Null

\* The inductive invariant of EngagementProofs for acknowledgements.
AckInv == FreshUntilRecorded /\ OneRowEach /\ SentOrSigned /\ AckedSigned

-----------------------------------------------------------------------------
\* What OneDocument, SignsOnce and SignedForGood rest on.

\* Rows, and the rows that clicks work on, were inserted before.
RowsKnown ==
    /\ \A c \in Contracts : Exists(c) => c <= created
    /\ \A r \in Handlers : req[r].op = "sign" => req[r].contract <= created

\* An envelope that signed a contract and is still recorded left it signed.
EffectInItsRow ==
    \A c \in Contracts, e \in Envelopes : Recorded(c, e) /\ effects[e] # 0 => Signed(c)

\* A click prepares an envelope for a row that is gone or still has none, unless
\* another click was faster.
SignsBareRow ==
    \A r \in Handlers \ overtaken :
        req[r].op = "sign" /\ Exists(req[r].contract) => NeedsEnvelope(req[r].contract)

\* The inductive invariant of EngagementProofs for envelopes and rows.
RowInv == RowsKnown /\ EffectInItsRow /\ SignsBareRow /\ OneDocument /\ SignsOnce

-----------------------------------------------------------------------------
\* The contracts seen as a ledger of signatures: what clicks, deliveries and
\* resets do to them, with the calls between and the storage left out.
Ledger == INSTANCE SignatureLedger WITH
    Ids <- Contracts,
    Senders <- Handlers,
    None <- Null,
    ledger <- contracts,
    opened <- 1 .. created,
    completed <- {e \in Envelopes : envelopes[e] = "completed"},
    sentFor <- sentFor,
    seen <- [r \in Handlers |-> IF req[r].op = "sign" THEN req[r].contract ELSE Null]

\* Each row is sent by a click that saw it bare, with an envelope nobody had, and
\* signed by an envelope that was sent for this very row, after the artist signed
\* it; only a reset takes a row away.
ImplementsLedger == Ledger!Spec
=============================================================================
