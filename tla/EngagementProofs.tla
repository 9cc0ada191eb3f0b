--------------------------- MODULE EngagementProofs ---------------------------
(***************************************************************************)
(* Proofs about Engagement for any number of clicks, deliveries and resets *)
(* at the same time, and any number of envelopes and rows.                 *)
(***************************************************************************)
EXTENDS Engagement, TLAPS

-----------------------------------------------------------------------------
\* What a request that is being handled carries follows from its place.
LEMMA RequestVariants ==
    ASSUME NEW q \in Request
    PROVE  /\ q.op = "create" /\ q.pc = "link" => q \in Attaching
           /\ q.op = "sign" /\ q.pc = "create" => q \in Preparing
           /\ q.op = "sign" /\ q.pc \in {"distribute", "record"} => q \in Signing
           /\ q.op = "hook" => q \in Receiving
  BY DEF Request, Idle, Creating, Attaching, Preparing, Signing, Receiving, Resetting

LEMMA IdleType == Idle \in Request /\ Idle.op = "none"
  BY DEF Idle, Request

\* A request goes on at another statement of its own handler.
LEMMA SigningGoesOn ==
    ASSUME NEW q \in Signing
    PROVE  /\ [q EXCEPT !.pc = "record"] \in Request
           /\ [q EXCEPT !.pc = "record"].op = "sign"
           /\ [q EXCEPT !.pc = "record"].pc = "record"
  BY DEF Signing, Request

LEMMA ReceivingGoesOn ==
    ASSUME NEW q \in Receiving
    PROVE  /\ [q EXCEPT !.pc = "sign"] \in Request
           /\ [q EXCEPT !.pc = "sign"].op = "hook"
           /\ [q EXCEPT !.pc = "sign"].envelope = q.envelope
  BY DEF Receiving, Request

\* The two writes to a row keep its shape.
LEMMA RecordedRow ==
    ASSUME NEW row \in Contract, NEW e \in Envelopes
    PROVE  LET new == [row EXCEPT !.status = "pending_signature", !.envelope = e]
           IN  new \in Contract /\ new.status = "pending_signature"
  BY DEF Contract

LEMMA SignedRow ==
    ASSUME NEW row \in Contract, NEW e \in Envelopes
    PROVE  LET new == [row EXCEPT !.status = "signed", !.document = e]
           IN  new \in Contract /\ new.document = e
  BY DEF Contract

LEMMA InitIndInv == Init => IndInv
<1>. SUFFICES ASSUME Init PROVE IndInv
  OBVIOUS
<1>1. TypeOK
  <2>1. created \in 0 .. MaxContracts
    BY EngagementAssumption DEF Init
  <2>. QED
    BY <2>1, IdleType DEF Init, TypeOK, EnvelopeState
<1>2. SignedHasDocument /\ FilesCompleted
  BY DEF Init, SignedHasDocument, Signed, Exists, FilesCompleted
<1>3. DeliveriesSigned /\ InPreparation
  BY DEF Init, DeliveriesSigned, InPreparation, At, Idle
<1>. QED
  BY <1>1, <1>2, <1>3 DEF IndInv

-----------------------------------------------------------------------------
\* The handlers of the artist's clicks.

\* A step of getOrCreateEngagementContract touches rows and the link only.
LEMMA CreateIndInv ==
    ASSUME IndInv, NEW k \in Clicks, CreateBegin(k) \/ CreateInsert(k) \/ CreateLink(k)
    PROVE  IndInv'
<1>. USE DEF IndInv, history
<1>0. k \in Handlers /\ req[k] \in Request
  BY DEF Handlers, TypeOK
<1>1. UNCHANGED <<onboarded, envelopes, acked, files, history>>
  BY DEF CreateBegin, CreateInsert, CreateLink
<1>2. PICK next \in Request : /\ req' = [req EXCEPT ![k] = next]
                              /\ next.op \in {"create", "none"}
  <2>1. CASE CreateBegin(k)
    <3>1. [op |-> "create", pc |-> "insert"] \in Request
      BY DEF Creating, Request
    <3>. QED
      BY <2>1, <3>1 DEF CreateBegin, Continue
  <2>2. CASE CreateInsert(k)
    <3>1. created + 1 \in Contracts
      BY <2>2, EngagementAssumption DEF CreateInsert, TypeOK, Contracts
    <3>2. [op |-> "create", pc |-> "link", contract |-> created + 1] \in Request
      BY <3>1 DEF Attaching, Request
    <3>. QED
      BY <2>2, <3>2 DEF CreateInsert, Continue
  <2>3. CASE CreateLink(k)
    BY <2>3, IdleType DEF CreateLink, Continue
  <2>. QED
    BY <2>1, <2>2, <2>3
<1>3. /\ contracts' \in [Contracts -> Contract \cup {Null}]
      /\ created' \in 0 .. MaxContracts
      /\ link' \in Contracts \cup {Null}
      /\ \A c \in Contracts : Signed(c)' => Signed(c) /\ contracts'[c] = contracts[c]
  <2>1. CASE CreateBegin(k)
    BY <2>1 DEF CreateBegin, TypeOK, Signed, Exists
  <2>2. CASE CreateInsert(k)
    <3>1. [status |-> "draft", envelope |-> Null, document |-> Null] \in Contract
      BY DEF Contract
    <3>2. created' \in 0 .. MaxContracts
      BY <2>2, EngagementAssumption DEF CreateInsert, TypeOK
    <3>. QED
      BY <2>2, <3>1, <3>2 DEF CreateInsert, TypeOK, Signed, Exists
  <2>3. CASE CreateLink(k)
    <3>1. req[k].contract \in Contracts
      BY <1>0, <2>3, RequestVariants DEF CreateLink, At, Attaching
    <3>. QED
      BY <2>3, <3>1 DEF CreateLink, TypeOK, Signed, Exists
  <2>. QED
    BY <2>1, <2>2, <2>3
<1>4. TypeOK'
  BY <1>0, <1>1, <1>2, <1>3 DEF TypeOK
<1>5. SignedHasDocument' /\ FilesCompleted'
  BY <1>1, <1>3 DEF SignedHasDocument, FilesCompleted
<1>6. DeliveriesSigned' /\ InPreparation'
  BY <1>0, <1>1, <1>2 DEF DeliveriesSigned, InPreparation, At, TypeOK
<1>. QED
  BY <1>4, <1>5, <1>6

LEMMA SignBeginIndInv ==
    ASSUME IndInv, NEW k \in Clicks, SignBegin(k)
    PROVE  IndInv'
<1>. USE DEF IndInv, history
<1>0. k \in Handlers
  BY DEF Handlers
<1>1. PICK c \in Contracts :
         req' = [req EXCEPT ![k] = [op |-> "sign", pc |-> "create", contract |-> c]]
  BY DEF SignBegin, Continue
<1>2. [op |-> "sign", pc |-> "create", contract |-> c] \in Request
  BY DEF Preparing, Request
<1>3. UNCHANGED <<contracts, created, onboarded, link, envelopes, acked, files, history>>
  BY DEF SignBegin
<1>4. TypeOK'
  BY <1>0, <1>1, <1>2, <1>3 DEF TypeOK
<1>5. SignedHasDocument' /\ FilesCompleted'
  BY <1>3 DEF SignedHasDocument, FilesCompleted, Signed, Exists
<1>6. DeliveriesSigned' /\ InPreparation'
  BY <1>0, <1>1, <1>3 DEF DeliveriesSigned, InPreparation, At, TypeOK
<1>. QED
  BY <1>4, <1>5, <1>6

LEMMA SignCreateIndInv ==
    ASSUME IndInv, NEW k \in Clicks, SignCreate(k)
    PROVE  IndInv'
<1>. USE DEF IndInv, history
<1>0. k \in Handlers /\ req[k] \in Preparing
  BY RequestVariants DEF Handlers, TypeOK, SignCreate, At
<1>. DEFINE next(e) == [op |-> "sign", pc |-> "distribute",
                        contract |-> req[k].contract, envelope |-> e]
<1>1. PICK e \in Envelopes : /\ envelopes[e] = "unused"
                             /\ envelopes' = [envelopes EXCEPT ![e] = "created"]
                             /\ req' = [req EXCEPT ![k] = next(e)]
  BY DEF SignCreate, Continue
<1>2. next(e) \in Request
  BY <1>0 DEF Preparing, Signing, Request
<1>3. UNCHANGED <<contracts, created, onboarded, link, acked, files, history>>
  BY DEF SignCreate
<1>4. TypeOK'
  BY <1>0, <1>1, <1>2, <1>3 DEF TypeOK, EnvelopeState
<1>5. \A f \in Envelopes : f # e => envelopes'[f] = envelopes[f]
  BY <1>1 DEF TypeOK
<1>6. SignedHasDocument' /\ FilesCompleted'
  <2>1. e \notin files
    BY <1>1 DEF FilesCompleted
  <2>. QED
    BY <1>3, <1>5, <2>1
       DEF SignedHasDocument, FilesCompleted, Signed, Exists, TypeOK
<1>7. DeliveriesSigned' /\ InPreparation'
  <2>1. \A r \in Handlers : r # k => req'[r] = req[r]
    BY <1>1 DEF TypeOK
  <2>2. req'[k] = next(e) /\ envelopes'[e] = "created"
    BY <1>0, <1>1 DEF TypeOK
  <2>3. ASSUME NEW r \in Handlers, r # k
        PROVE  /\ req[r].op = "hook" => req[r].envelope \in Envelopes \ {e}
               /\ At(r, "sign", "distribute") => req[r].envelope \in Envelopes \ {e}
    BY <1>1, <2>3, RequestVariants
       DEF DeliveriesSigned, InPreparation, At, TypeOK, Signing, Receiving
  <2>. QED
    BY <1>3, <1>5, <2>1, <2>2, <2>3 DEF DeliveriesSigned, InPreparation, At
<1>. QED
  BY <1>4, <1>6, <1>7

LEMMA SignDistributeIndInv ==
    ASSUME IndInv, NEW k \in Clicks, SignDistribute(k)
    PROVE  IndInv'
<1>. USE DEF IndInv, history
<1>0. k \in Handlers /\ req[k] \in Signing
  BY RequestVariants DEF Handlers, TypeOK, SignDistribute, At
<1>. DEFINE e == req[k].envelope
            next == [req[k] EXCEPT !.pc = "record"]
<1>1. /\ e \in Envelopes
      /\ envelopes[e] = "created"
      /\ envelopes' = [envelopes EXCEPT ![e] = "distributed"]
      /\ req' = [req EXCEPT ![k] = next]
  BY <1>0 DEF SignDistribute, Continue, InPreparation, Signing
<1>2. next \in Request /\ next.op = "sign" /\ next.pc = "record"
  BY <1>0, SigningGoesOn
<1>3. UNCHANGED <<contracts, created, onboarded, link, acked, files, history>>
  BY DEF SignDistribute
<1>. HIDE DEF next
<1>4. TypeOK'
  BY <1>0, <1>1, <1>2, <1>3 DEF TypeOK, EnvelopeState
<1>5. \A f \in Envelopes : f # e => envelopes'[f] = envelopes[f]
  BY <1>1 DEF TypeOK
<1>6. SignedHasDocument' /\ FilesCompleted'
  <2>1. e \notin files
    BY <1>1 DEF FilesCompleted
  <2>. QED
    BY <1>3, <1>5, <2>1
       DEF SignedHasDocument, FilesCompleted, Signed, Exists, TypeOK
<1>7. DeliveriesSigned' /\ InPreparation'
  <2>1. \A r \in Handlers : r # k => req'[r] = req[r]
    BY <1>1 DEF TypeOK
  <2>2. req'[k].op = "sign" /\ req'[k].pc = "record"
    BY <1>0, <1>1, <1>2 DEF TypeOK
  <2>3. ASSUME NEW r \in Handlers, r # k
        PROVE  /\ req[r].op = "hook" => req[r].envelope \in Envelopes \ {e}
               /\ At(r, "sign", "distribute") => req[r].envelope \in Envelopes \ {e}
    BY <1>0, <1>1, <2>3, RequestVariants
       DEF DeliveriesSigned, InPreparation, At, TypeOK, Signing, Receiving, SignDistribute
  <2>. QED
    BY <1>3, <1>5, <2>1, <2>2, <2>3 DEF DeliveriesSigned, InPreparation, At
<1>. QED
  BY <1>4, <1>6, <1>7

LEMMA SignRecordIndInv ==
    ASSUME IndInv, NEW k \in Clicks, SignRecord(k)
    PROVE  IndInv'
<1>. USE DEF IndInv, history
<1>0. k \in Handlers /\ req[k] \in Signing
  BY RequestVariants DEF Handlers, TypeOK, SignRecord, At
<1>. DEFINE c == req[k].contract
<1>1. c \in Contracts /\ req[k].envelope \in Envelopes
  BY <1>0 DEF Signing
<1>2. UNCHANGED <<created, onboarded, link, envelopes, acked, files, effects>>
  BY DEF SignRecord
<1>3. /\ req' = [req EXCEPT ![k] = Idle]
      /\ sentFor' \in [Envelopes -> Contracts \cup {Null}]
      /\ overtaken' \subseteq Handlers
  <2>1. Sending(c) \subseteq Handlers
    BY DEF Sending
  <2>. QED
    BY <1>1, <2>1 DEF SignRecord, Continue, TypeOK
<1>4. /\ contracts' \in [Contracts -> Contract \cup {Null}]
      /\ \A d \in Contracts : Signed(d)' => Signed(d) /\ contracts'[d] = contracts[d]
  <2>1. CASE Exists(c)
    <3>. DEFINE row == [contracts[c] EXCEPT !.status = "pending_signature",
                                            !.envelope = req[k].envelope]
    <3>1. contracts[c] \in Contract
      BY <1>1, <2>1 DEF Exists, TypeOK
    <3>2. row \in Contract /\ row.status = "pending_signature"
      BY <1>1, <3>1, RecordedRow
    <3>3. contracts' = [contracts EXCEPT ![c] = row]
      BY <2>1 DEF SignRecord
    <3>. HIDE DEF row
    <3>. QED
      BY <1>1, <3>2, <3>3 DEF TypeOK, Signed, Exists
  <2>2. CASE ~Exists(c)
    BY <2>2 DEF SignRecord, TypeOK, Signed, Exists
  <2>. QED
    BY <2>1, <2>2
<1>5. TypeOK'
  BY <1>0, <1>2, <1>3, <1>4, IdleType DEF TypeOK
<1>6. SignedHasDocument' /\ FilesCompleted'
  BY <1>2, <1>4 DEF SignedHasDocument, FilesCompleted
<1>7. DeliveriesSigned' /\ InPreparation'
  BY <1>0, <1>2, <1>3, IdleType DEF DeliveriesSigned, InPreparation, At, TypeOK
<1>. QED
  BY <1>5, <1>6, <1>7

-----------------------------------------------------------------------------
\* The webhook.

\* Finding the row and storing the PDF.
LEMMA HookPrepareIndInv ==
    ASSUME IndInv, NEW h \in Hooks,
           (\E e \in Envelopes : HookBegin(h, e)) \/ HookPersist(h)
    PROVE  IndInv'
<1>. USE DEF IndInv, history
<1>0. h \in Handlers
  BY DEF Handlers
<1>1. UNCHANGED <<contracts, created, onboarded, link, envelopes, acked, history>>
  BY DEF HookBegin, HookPersist
<1>2. PICK e \in Envelopes, next \in Request :
         /\ envelopes[e] = "completed"
         /\ req' = [req EXCEPT ![h] = next]
         /\ next.op = "hook" /\ next.envelope = e
         /\ files' = files \/ files' = files \cup {e}
         /\ next.pc = "sign" => e \in files'
  <2>1. ASSUME NEW e \in Envelopes, HookBegin(h, e)
        PROVE  \E next \in Request :
                 /\ envelopes[e] = "completed"
                 /\ req' = [req EXCEPT ![h] = next]
                 /\ next.op = "hook" /\ next.envelope = e /\ next.pc = "persist"
                 /\ files' = files
    <3>1. PICK c \in Contracts :
             req' = [req EXCEPT ![h] = [op |-> "hook", pc |-> "persist",
                                        contract |-> c, envelope |-> e]]
      BY <2>1 DEF HookBegin, Continue
    <3>2. [op |-> "hook", pc |-> "persist", contract |-> c, envelope |-> e] \in Request
      BY DEF Receiving, Request
    <3>. QED
      BY <2>1, <3>1, <3>2 DEF HookBegin, Deliverable
  <2>2. CASE HookPersist(h)
    <3>1. req[h] \in Receiving
      BY <1>0, <2>2, RequestVariants DEF HookPersist, At, TypeOK
    <3>2. req[h].envelope \in Envelopes /\ envelopes[req[h].envelope] = "completed"
      BY <1>0, <2>2, <3>1 DEF HookPersist, At, DeliveriesSigned, Receiving
    <3>. QED
      BY <2>2, <3>1, <3>2, ReceivingGoesOn DEF HookPersist, Continue
  <2>. QED
    BY <2>1, <2>2
<1>3. TypeOK'
  BY <1>0, <1>1, <1>2 DEF TypeOK
<1>4. SignedHasDocument' /\ FilesCompleted'
  BY <1>1, <1>2 DEF SignedHasDocument, FilesCompleted, Signed, Exists
<1>5. DeliveriesSigned' /\ InPreparation'
  BY <1>0, <1>1, <1>2 DEF DeliveriesSigned, InPreparation, At, TypeOK
<1>. QED
  BY <1>3, <1>4, <1>5

\* The transaction.
LEMMA HookSignIndInv ==
    ASSUME IndInv, NEW h \in Hooks, HookSign(h)
    PROVE  IndInv'
<1>. USE DEF IndInv, history
<1>0. h \in Handlers /\ req[h] \in Receiving
  BY RequestVariants DEF Handlers, TypeOK, HookSign, At
<1>. DEFINE c == req[h].contract
            e == req[h].envelope
<1>1. /\ c \in Contracts /\ e \in Envelopes
      /\ e \in files /\ envelopes[e] = "completed"
  BY <1>0 DEF Receiving, HookSign, DeliveriesSigned, At
<1>2. /\ UNCHANGED <<created, link, envelopes, files, sentFor, overtaken>>
      /\ req' = [req EXCEPT ![h] = Idle]
      /\ acked' \subseteq Envelopes
  BY <1>1 DEF HookSign, Continue, TypeOK
<1>3. /\ contracts' \in [Contracts -> Contract \cup {Null}]
      /\ onboarded' \in BOOLEAN
      /\ effects' \in [Envelopes -> Nat]
      /\ \A d \in Contracts : Signed(d)' => \/ Signed(d) /\ contracts'[d] = contracts[d]
                                            \/ contracts'[d].document = e
  <2>1. CASE Marks(c)
    <3>. DEFINE row == [contracts[c] EXCEPT !.status = "signed", !.document = e]
    <3>1. contracts[c] \in Contract
      BY <1>1, <2>1 DEF Marks, Exists, TypeOK
    <3>2. row \in Contract /\ row.document = e
      BY <1>1, <3>1, SignedRow
    <3>3. contracts' = [contracts EXCEPT ![c] = row]
      BY <2>1 DEF HookSign
    <3>4. onboarded' = TRUE /\ effects' \in [Envelopes -> Nat]
      BY <1>1, <2>1 DEF HookSign, TypeOK
    <3>. HIDE DEF row
    <3>. QED
      BY <1>1, <3>2, <3>3, <3>4 DEF TypeOK, Signed, Exists
  <2>2. CASE ~Marks(c)
    BY <2>2 DEF HookSign, TypeOK, Signed, Exists
  <2>. QED
    BY <2>1, <2>2
<1>4. TypeOK'
  BY <1>0, <1>2, <1>3, IdleType DEF TypeOK
<1>5. SignedHasDocument' /\ FilesCompleted'
  BY <1>1, <1>2, <1>3 DEF SignedHasDocument, FilesCompleted
<1>6. DeliveriesSigned' /\ InPreparation'
  BY <1>0, <1>2, IdleType DEF DeliveriesSigned, InPreparation, At, TypeOK
<1>. QED
  BY <1>4, <1>5, <1>6

-----------------------------------------------------------------------------
\* The reset, and every other step.

LEMMA ResetIndInv ==
    ASSUME IndInv, NEW a \in Admins, ResetBegin(a) \/ ResetDelete(a)
    PROVE  IndInv'
<1>. USE DEF IndInv, history
<1>0. a \in Handlers
  BY DEF Handlers
<1>1. UNCHANGED <<created, envelopes, acked, files, history>>
  BY DEF ResetBegin, ResetDelete
<1>2. PICK next \in Request : /\ req' = [req EXCEPT ![a] = next]
                              /\ next.op \in {"reset", "none"}
  <2>1. [op |-> "reset", pc |-> "delete"] \in Request
    BY DEF Resetting, Request
  <2>. QED
    BY <2>1, IdleType DEF ResetBegin, ResetDelete, Continue
<1>3. /\ contracts' \in [Contracts -> Contract \cup {Null}]
      /\ link' \in Contracts \cup {Null} /\ onboarded' \in BOOLEAN
      /\ onboarded' => onboarded
      /\ \A c \in Contracts : Signed(c)' => Signed(c) /\ contracts'[c] = contracts[c]
  <2>1. CASE ResetBegin(a)
    BY <2>1 DEF ResetBegin, TypeOK, Signed, Exists
  <2>2. CASE ResetDelete(a) /\ link = Null
    BY <2>2 DEF ResetDelete, TypeOK, Signed, Exists
  <2>3. CASE ResetDelete(a) /\ link # Null
    BY <2>3 DEF ResetDelete, TypeOK, Signed, Exists
  <2>. QED
    BY <2>1, <2>2, <2>3
<1>4. TypeOK'
  BY <1>0, <1>1, <1>2, <1>3 DEF TypeOK
<1>5. SignedHasDocument' /\ FilesCompleted'
  BY <1>1, <1>3 DEF SignedHasDocument, FilesCompleted
<1>6. DeliveriesSigned' /\ InPreparation'
  BY <1>0, <1>1, <1>2 DEF DeliveriesSigned, InPreparation, At, TypeOK
<1>. QED
  BY <1>4, <1>5, <1>6

\* The artist signs, a settled delivery is answered.
LEMMA EnvelopeIndInv ==
    ASSUME IndInv, NEW e \in Envelopes, Complete(e) \/ HookAnswer(e)
    PROVE  IndInv'
<1>. USE DEF IndInv, history
<1>1. UNCHANGED <<contracts, created, onboarded, link, files, req, history>>
  BY DEF Complete, HookAnswer
<1>2. /\ envelopes' \in [Envelopes -> EnvelopeState]
      /\ \A f \in Envelopes : \/ envelopes'[f] = envelopes[f]
                              \/ envelopes[f] = "distributed" /\ envelopes'[f] = "completed"
      /\ acked' \subseteq Envelopes
  BY DEF Complete, HookAnswer, TypeOK, EnvelopeState
<1>3. TypeOK'
  BY <1>1, <1>2 DEF TypeOK
<1>4. SignedHasDocument' /\ FilesCompleted'
  BY <1>1, <1>2 DEF SignedHasDocument, FilesCompleted, Signed, Exists, TypeOK
<1>5. DeliveriesSigned' /\ InPreparation'
  <2>1. \A r \in Handlers : /\ req[r].op = "hook" => req[r].envelope \in Envelopes
                            /\ At(r, "sign", "distribute") => req[r].envelope \in Envelopes
    BY RequestVariants DEF TypeOK, At, Signing, Receiving
  <2>. QED
    BY <1>1, <1>2, <2>1 DEF DeliveriesSigned, InPreparation, At
<1>. QED
  BY <1>3, <1>4, <1>5

LEMMA AbortIndInv ==
    ASSUME IndInv, NEW r \in Handlers, Abort(r)
    PROVE  IndInv'
<1>. USE DEF IndInv, history
<1>1. /\ UNCHANGED <<contracts, created, onboarded, link, envelopes, acked, files, effects>>
      /\ UNCHANGED sentFor /\ overtaken' \subseteq overtaken
      /\ req' = [req EXCEPT ![r] = Idle]
  BY DEF Abort, Continue
<1>2. TypeOK'
  BY <1>1, IdleType DEF TypeOK
<1>3. SignedHasDocument' /\ FilesCompleted'
  BY <1>1 DEF SignedHasDocument, FilesCompleted, Signed, Exists
<1>4. DeliveriesSigned' /\ InPreparation'
  BY <1>1, IdleType DEF DeliveriesSigned, InPreparation, At, TypeOK
<1>. QED
  BY <1>2, <1>3, <1>4

LEMMA StutterIndInv == IndInv /\ UNCHANGED vars => IndInv'
  BY DEF vars, history, IndInv, TypeOK, SignedHasDocument, DeliveriesSigned, FilesCompleted,
         InPreparation, Signed, Exists, At

LEMMA NextIndInv == IndInv /\ [Next]_vars => IndInv'
<1>. SUFFICES ASSUME IndInv, [Next]_vars PROVE IndInv'
  OBVIOUS
<1>1. ASSUME NEW k \in Clicks, Click(k) PROVE IndInv'
  BY <1>1, CreateIndInv, SignBeginIndInv, SignCreateIndInv, SignDistributeIndInv,
     SignRecordIndInv DEF Click
<1>2. ASSUME NEW h \in Hooks,
             (\E e \in Envelopes : HookBegin(h, e)) \/ HookPersist(h) \/ HookSign(h)
      PROVE  IndInv'
  BY <1>2, HookPrepareIndInv, HookSignIndInv
<1>. QED
  BY <1>1, <1>2, ResetIndInv, EnvelopeIndInv, AbortIndInv, StutterIndInv DEF Next

-----------------------------------------------------------------------------
\* The inductive invariant holds of every execution.
THEOREM Invariance == Spec => []IndInv
  BY InitIndInv, NextIndInv, PTL DEF Spec

\* The state variables keep their types through every interleaving.
THEOREM TypeCorrect == Spec => []TypeOK
<1>1. IndInv => TypeOK
  BY DEF IndInv
<1>. QED
  BY <1>1, Invariance, PTL

\* #10: a signed contract has the PDF that the artist signed, and only an artist
\* who signed one is onboarded, however clicks, deliveries and resets race.
THEOREM DocumentsStored == Spec => []SignedHasDocument
<1>1. IndInv => SignedHasDocument
  BY DEF IndInv
<1>. QED
  BY <1>1, Invariance, PTL

-----------------------------------------------------------------------------
\* Acknowledgements.

\* The other requests stay as they are.
LEMMA OthersWait ==
    ASSUME TypeOK, NEW k \in Handlers, NEW q, Continue(k, q)
    PROVE  req'[k] = q /\ \A r \in Handlers : r # k => req'[r] = req[r]
  BY DEF TypeOK, Continue

\* What requests have in hand is of the types the state has.
LEMMA InHand ==
    ASSUME TypeOK, NEW r \in Handlers
    PROVE  /\ req[r].op \in {"sign", "hook"} => req[r].contract \in Contracts
           /\ Prepares(r) \/ req[r].op = "hook" => req[r].envelope \in Envelopes
  BY DEF TypeOK, Request, Idle, Creating, Attaching, Preparing, Signing, Receiving, Resetting,
         Prepares, At

LEMMA InitAck == Init => AckInv
<1>. SUFFICES ASSUME Init PROVE AckInv
  OBVIOUS
<1>1. \A c \in Contracts : ~Exists(c)
  BY DEF Init, Exists
<1>2. \A r \in Handlers : req[r].op = "none"
  BY DEF Init, Idle
<1>3. FreshUntilRecorded /\ OneRowEach
  BY <1>1, <1>2 DEF Init, FreshUntilRecorded, Fresh, Prepares, At, OneRowEach, Recorded
<1>4. SentOrSigned /\ AckedSigned
  BY <1>1 DEF Init, SentOrSigned, AckedSigned
<1>. QED
  BY <1>3, <1>4 DEF AckInv

\* Fresh envelopes stay so in a step that takes none up.
LEMMA FreshStays ==
    ASSUME TypeOK, FreshUntilRecorded,
           \A e \in Envelopes : envelopes'[e] = "unused" => envelopes[e] = "unused",
           \A r \in Handlers :
               Prepares(r)' => Prepares(r) /\ req'[r].envelope = req[r].envelope,
           \A e \in Envelopes : Fresh(e) =>
               \/ Fresh(e)'
               \/ /\ envelopes'[e] # "unused"
                  /\ \A r \in Handlers : Prepares(r)' => req[r].envelope # e
    PROVE  FreshUntilRecorded'
<1>1. \A r \in Handlers : Prepares(r) => req[r].envelope \in Envelopes
  BY InHand
<1>. QED
  BY <1>1 DEF FreshUntilRecorded

\* A step that leaves the rows, the effects and the acknowledgements, and in which
\* no delivery is taken up, keeps every part.
LEMMA RowsLeft ==
    ASSUME TypeOK, AckInv, UNCHANGED <<contracts, effects, acked, sentFor>>,
           \A r \in Handlers : req'[r].op = "hook" =>
               req[r].op = "hook" /\ req'[r].envelope = req[r].envelope
                   /\ req'[r].contract = req[r].contract
    PROVE  /\ OneRowEach' /\ SentOrSigned' /\ AckedSigned'
           /\ \A e : Fresh(e) => Fresh(e)'
<1>1. /\ \A c, e : Recorded(c, e)' <=> Recorded(c, e)
      /\ \A c : /\ Signed(c)' <=> Signed(c)
                /\ Exists(c)' <=> Exists(c)
  BY DEF Recorded, Signed, Exists
<1>. QED
  BY <1>1 DEF AckInv, OneRowEach, SentOrSigned, AckedSigned, Fresh

\* Such a step, if it takes up no envelope either.
LEMMA QuietAck ==
    ASSUME TypeOK, AckInv, UNCHANGED <<contracts, effects, acked, sentFor>>,
           \A e \in Envelopes : envelopes'[e] = "unused" => envelopes[e] = "unused",
           \A r \in Handlers :
               /\ req'[r].op = "hook" =>
                    req[r].op = "hook" /\ req'[r].envelope = req[r].envelope
                        /\ req'[r].contract = req[r].contract
               /\ Prepares(r)' => Prepares(r) /\ req'[r].envelope = req[r].envelope
    PROVE  AckInv'
<1>1. /\ OneRowEach' /\ SentOrSigned' /\ AckedSigned'
      /\ \A e : Fresh(e) => Fresh(e)'
  BY RowsLeft
<1>2. FreshUntilRecorded'
  BY <1>1, FreshStays DEF AckInv
<1>. QED
  BY <1>1, <1>2 DEF AckInv

LEMMA CreateAck ==
    ASSUME TypeOK, AckInv, NEW k \in Clicks,
           CreateBegin(k) \/ CreateInsert(k) \/ CreateLink(k)
    PROVE  AckInv'
<1>1. k \in Handlers
  BY DEF Handlers
<1>2. /\ \A r \in Handlers : r # k => req'[r] = req[r]
      /\ req'[k].op \in {"none", "create"}
  BY <1>1, OthersWait, IdleType DEF CreateBegin, CreateInsert, CreateLink
<1>3. \A r \in Handlers :
          /\ req'[r].op = "hook" => r # k
          /\ Prepares(r)' => Prepares(r) /\ r # k
  BY <1>2 DEF Prepares, At
<1>4. UNCHANGED <<envelopes, effects, acked, sentFor>>
  BY DEF CreateBegin, CreateInsert, CreateLink, history
<1>5. CASE CreateBegin(k) \/ CreateLink(k)
  BY <1>2, <1>3, <1>4, <1>5, QuietAck DEF CreateBegin, CreateLink
<1>6. CASE CreateInsert(k)
  <2>. DEFINE new == created + 1
              row == [status |-> "draft", envelope |-> Null, document |-> Null]
  <2>1. new \in Contracts /\ \A c \in Contracts : c # new => contracts'[c] = contracts[c]
    BY <1>6, EngagementAssumption DEF CreateInsert, TypeOK, Contracts
  <2>2. contracts'[new] = row
    BY <1>6, <2>1 DEF CreateInsert, TypeOK
  <2>3. row.status = "draft" /\ row.envelope = Null /\ row.document = Null
    OBVIOUS
  <2>. HIDE DEF row, new
  <2>4. /\ \A c \in Contracts, e \in Envelopes : Recorded(c, e)' => Recorded(c, e) /\ c # new
        /\ \A c \in Contracts : c # new => /\ Signed(c)' <=> Signed(c)
                                           /\ Exists(c)' <=> Exists(c)
    BY <2>1, <2>2, <2>3, EngagementAssumption DEF Recorded, Signed, Exists
  <2>5. \A e \in Envelopes : Fresh(e) => Fresh(e)'
    BY <1>2, <1>3, <1>4, <2>4 DEF Fresh
  <2>6. FreshUntilRecorded'
    BY <1>2, <1>3, <1>4, <2>5, FreshStays DEF AckInv
  <2>7. OneRowEach' /\ AckedSigned'
    BY <1>2, <1>3, <1>4, <2>4 DEF AckInv, OneRowEach, AckedSigned, TypeOK
  <2>8. SentOrSigned'
    BY <2>1, <2>2, <2>3 DEF AckInv, SentOrSigned, Exists
  <2>. QED
    BY <2>6, <2>7, <2>8 DEF AckInv
<1>. QED
  BY <1>5, <1>6

\* An unused envelope is nobody's yet.
LEMMA SignAck ==
    ASSUME TypeOK, AckInv, NEW k \in Clicks,
           SignBegin(k) \/ SignCreate(k) \/ SignDistribute(k)
    PROVE  AckInv'
<1>1. k \in Handlers
  BY DEF Handlers
<1>2. UNCHANGED <<contracts, effects, acked, sentFor>>
  BY DEF SignBegin, SignCreate, SignDistribute, history
<1>3. CASE SignBegin(k)
  <2>1. /\ \A r \in Handlers : r # k => req'[r] = req[r]
        /\ req'[k].op = "sign" /\ req'[k].pc = "create"
    BY <1>1, <1>3, OthersWait DEF SignBegin
  <2>2. \A r \in Handlers : Prepares(r)' => Prepares(r) /\ r # k
    BY <2>1 DEF Prepares, At
  <2>. QED
    BY <1>2, <1>3, <2>1, <2>2, QuietAck DEF SignBegin
<1>4. CASE SignCreate(k)
  <2>1. PICK e \in Envelopes :
          /\ envelopes[e] = "unused"
          /\ envelopes' = [envelopes EXCEPT ![e] = "created"]
          /\ Continue(k, [op |-> "sign", pc |-> "distribute",
                          contract |-> req[k].contract, envelope |-> e])
    BY <1>4 DEF SignCreate
  <2>2. /\ \A r \in Handlers : r # k => req'[r] = req[r]
        /\ req'[k].op = "sign" /\ req'[k].envelope = e
    BY <1>1, <2>1, OthersWait
  <2>3. /\ OneRowEach' /\ SentOrSigned' /\ AckedSigned'
        /\ \A f : Fresh(f) => Fresh(f)'
    BY <1>2, <2>2, RowsLeft
  <2>4. /\ envelopes'[e] # "unused"
        /\ \A f \in Envelopes : envelopes'[f] = "unused" => envelopes[f] = "unused"
    BY <2>1 DEF TypeOK
  <2>5. /\ Fresh(e)
        /\ \A r \in Handlers : Prepares(r) =>
              req[r].envelope \in Envelopes /\ req[r].envelope # e
    BY <2>1, InHand DEF AckInv, FreshUntilRecorded
  <2>6. \A r \in Handlers : r # k /\ Prepares(r)' => Prepares(r) /\ req'[r] = req[r]
    BY <2>2 DEF Prepares, At
  <2>7. FreshUntilRecorded'
    <3>1. \A r \in Handlers : envelopes[req[r].envelope] # "unused" /\ req[r].envelope \in Envelopes
             => envelopes'[req[r].envelope] # "unused"
      BY <2>4
    <3>2. \A r \in Handlers : Prepares(r)' => envelopes'[req'[r].envelope] # "unused"
      BY <2>2, <2>4, <2>5, <2>6, <3>1 DEF AckInv, FreshUntilRecorded
    <3>3. \A r \in Handlers : Prepares(r)' => Fresh(req[r].envelope)'
      BY <2>2, <2>3, <2>5, <2>6 DEF AckInv, FreshUntilRecorded, Fresh
    <3>4. \A r, s \in Handlers :
              Prepares(r)' /\ Prepares(s)' /\ req'[r].envelope = req'[s].envelope => r = s
      BY <2>2, <2>5, <2>6 DEF AckInv, FreshUntilRecorded
    <3>5. \A f \in Envelopes : envelopes'[f] = "unused" => Fresh(f)'
      BY <2>3, <2>4 DEF AckInv, FreshUntilRecorded
    <3>. QED
      BY <3>2, <3>3, <3>4, <3>5 DEF FreshUntilRecorded
  <2>. QED
    BY <2>3, <2>7 DEF AckInv
<1>5. CASE SignDistribute(k)
  <2>1. req[k] \in Signing
    BY <1>1, <1>5, RequestVariants DEF TypeOK, SignDistribute, At
  <2>2. /\ \A r \in Handlers : r # k => req'[r] = req[r]
        /\ req'[k].op = "sign" /\ req'[k].envelope = req[k].envelope
    BY <1>1, <1>5, <2>1, OthersWait DEF SignDistribute, Signing
  <2>3. \A r \in Handlers : Prepares(r)' => Prepares(r) /\ req'[r].envelope = req[r].envelope
    BY <1>5, <2>2 DEF SignDistribute, Prepares, At
  <2>4. \A e \in Envelopes : envelopes'[e] = "unused" => envelopes[e] = "unused"
    BY <1>5 DEF SignDistribute, TypeOK
  <2>. QED
    BY <1>2, <2>2, <2>3, <2>4, QuietAck
<1>. QED
  BY <1>3, <1>4, <1>5

\* The envelope that a row gets is fresh: not acknowledged, in no other row and
\* in no delivery.
LEMMA SignRecordAck ==
    ASSUME TypeOK, AckInv, NEW k \in Clicks, SignRecord(k)
    PROVE  AckInv'
<1>1. k \in Handlers /\ Prepares(k)
  BY DEF Handlers, SignRecord, Prepares
<1>2. PICK c \in Contracts, e \in Envelopes : c = req[k].contract /\ e = req[k].envelope
  BY <1>1, InHand DEF Prepares, At
<1>3. /\ \A r \in Handlers : r # k => req'[r] = req[r]
      /\ req'[k].op = "none"
  BY <1>1, OthersWait, IdleType DEF SignRecord
<1>4. UNCHANGED <<envelopes, effects, acked>>
  BY DEF SignRecord
<1>5. \A r \in Handlers : Prepares(r)' => /\ Prepares(r) /\ req'[r] = req[r]
                                          /\ req[r].envelope # e
  BY <1>1, <1>2, <1>3 DEF Prepares, At, AckInv, FreshUntilRecorded
<1>6. Fresh(e) /\ envelopes[e] # "unused"
  BY <1>1, <1>2 DEF AckInv, FreshUntilRecorded
<1>7. CASE ~Exists(c)
  <2>1. UNCHANGED <<contracts, sentFor>>
    BY <1>2, <1>7 DEF SignRecord
  <2>. QED
    BY <1>3, <1>4, <1>5, <2>1, QuietAck
<1>8. CASE Exists(c)
  <2>1. contracts[c] \in Contract
    BY <1>8 DEF TypeOK, Exists
  <2>2. \A d \in Contracts : d # c => contracts'[d] = contracts[d]
    BY <1>2, <1>8 DEF SignRecord, TypeOK
  <2>3. contracts'[c] = [contracts[c] EXCEPT !.status = "pending_signature", !.envelope = e]
    BY <1>2, <1>8 DEF SignRecord, TypeOK
  <2>4. contracts'[c].status = "pending_signature" /\ contracts'[c].envelope = e
    BY <2>1, <2>3 DEF Contract
  <2>5. /\ \A d \in Contracts, f \in Envelopes : Recorded(d, f)' =>
              IF d = c THEN f = e ELSE Recorded(d, f)
        /\ \A d \in Contracts : d # c => /\ Signed(d)' <=> Signed(d)
                                         /\ Exists(d)' <=> Exists(d)
    BY <2>2, <2>4 DEF Recorded, Signed, Exists
  <2>sent. sentFor'[e] = c /\ \A f \in Envelopes : f # e => sentFor'[f] = sentFor[f]
    BY <1>2, <1>8 DEF SignRecord, TypeOK
  <2>6. \A f \in Envelopes : f # e /\ Fresh(f) => Fresh(f)'
    BY <1>3, <1>4, <2>5, <2>sent DEF Fresh
  <2>7. FreshUntilRecorded'
    BY <1>4, <1>5, <1>6, <2>6, FreshStays DEF AckInv
  <2>8. OneRowEach'
    <3>1. \A r \in Handlers : req'[r].op = "hook" =>
              /\ req'[r] = req[r] /\ req[r].op = "hook"
              /\ req[r].envelope \in Envelopes /\ req[r].envelope # e
      BY <1>3, <1>6, InHand DEF Fresh
    <3>2. \A d \in Contracts, f \in Envelopes : Recorded(d, f)' => sentFor'[f] = d
      BY <1>6, <2>5, <2>sent DEF AckInv, OneRowEach, Fresh
    <3>. QED
      BY <2>sent, <3>1, <3>2 DEF AckInv, OneRowEach
  <2>9. SentOrSigned'
    BY <2>2, <2>4, EngagementAssumption DEF AckInv, SentOrSigned, Exists
  <2>10. AckedSigned'
    BY <1>4, <1>6, <2>5 DEF AckInv, AckedSigned, Fresh, TypeOK
  <2>. QED
    BY <2>7, <2>8, <2>9, <2>10 DEF AckInv
<1>. QED
  BY <1>7, <1>8

\* A delivery is taken up for the only row that has its envelope.
LEMMA HookAck ==
    ASSUME TypeOK, AckInv, NEW h \in Hooks,
           (\E e \in Envelopes : HookBegin(h, e)) \/ HookPersist(h)
    PROVE  AckInv'
<1>1. h \in Handlers
  BY DEF Handlers
<1>2. UNCHANGED <<contracts, effects, acked, envelopes, sentFor>>
  BY DEF HookBegin, HookPersist, history
<1>3. ASSUME NEW e \in Envelopes, HookBegin(h, e)
      PROVE  AckInv'
  <2>1. PICK c \in Contracts :
          /\ Recorded(c, e)
          /\ Continue(h, [op |-> "hook", pc |-> "persist", contract |-> c, envelope |-> e])
    BY <1>3 DEF HookBegin
  <2>2. /\ \A r \in Handlers : r # h => req'[r] = req[r]
        /\ req'[h].op = "hook" /\ req'[h].contract = c /\ req'[h].envelope = e
    BY <1>1, <2>1, OthersWait
  <2>3. /\ \A d, f : Recorded(d, f)' <=> Recorded(d, f)
        /\ \A d : /\ Signed(d)' <=> Signed(d)
                  /\ Exists(d)' <=> Exists(d)
    BY <1>2 DEF Recorded, Signed, Exists
  <2>4. ~Fresh(e) /\ \A f \in Envelopes : Fresh(f) /\ f # e => Fresh(f)'
    BY <1>2, <2>1, <2>2, <2>3 DEF Fresh
  <2>5. \A r \in Handlers : Prepares(r)' => Prepares(r) /\ req'[r] = req[r]
    BY <2>2 DEF Prepares, At
  <2>6. FreshUntilRecorded'
    BY <1>2, <2>4, <2>5, FreshStays DEF AckInv
  <2>7. OneRowEach'
    BY <1>2, <2>1, <2>2, <2>3 DEF AckInv, OneRowEach
  <2>8. SentOrSigned' /\ AckedSigned'
    BY <1>2, <2>3 DEF AckInv, SentOrSigned, AckedSigned
  <2>. QED
    BY <2>6, <2>7, <2>8 DEF AckInv
<1>4. CASE HookPersist(h)
  <2>1. req[h] \in Receiving /\ req[h].op = "hook"
    BY <1>1, <1>4, RequestVariants DEF TypeOK, HookPersist, At
  <2>2. /\ \A r \in Handlers : r # h => req'[r] = req[r]
        /\ req'[h].op = "hook" /\ req'[h].envelope = req[h].envelope
        /\ req'[h].contract = req[h].contract
    BY <1>1, <1>4, <2>1, OthersWait DEF HookPersist, Receiving
  <2>3. \A r \in Handlers : Prepares(r)' => Prepares(r) /\ req'[r] = req[r]
    BY <2>2 DEF Prepares, At
  <2>. QED
    BY <1>2, <2>1, <2>2, <2>3, QuietAck
<1>. QED
  BY <1>3, <1>4

\* The transaction acknowledges an envelope whose row is signed by it, was signed
\* before, or has another envelope or is gone.
LEMMA HookSignAck ==
    ASSUME TypeOK, AckInv, NEW h \in Hooks, HookSign(h)
    PROVE  AckInv'
<1>1. h \in Handlers /\ req[h].op = "hook"
  BY DEF Handlers, HookSign, At
<1>2. PICK c \in Contracts, e \in Envelopes : c = req[h].contract /\ e = req[h].envelope
  BY <1>1, InHand
<1>3. /\ \A r \in Handlers : r # h => req'[r] = req[r]
      /\ req'[h].op = "none"
  BY <1>1, OthersWait, IdleType DEF HookSign
<1>4. /\ UNCHANGED <<envelopes, sentFor>>
      /\ acked' \subseteq acked \cup {e}
      /\ \A f \in Envelopes : f # e => effects'[f] = effects[f]
  BY <1>2 DEF HookSign, TypeOK
<1>5. /\ Marks(c) => contracts' = [contracts EXCEPT ![c] =
                                      [@ EXCEPT !.status = "signed", !.document = e]]
      /\ ~Marks(c) => UNCHANGED contracts
  BY <1>2 DEF HookSign
<1>6. /\ \A d \in Contracts, f \in Envelopes : Recorded(d, f)' => Recorded(d, f)
      /\ \A d \in Contracts : Signed(d) => Signed(d)'
      /\ Marks(c) => Signed(c)'
      /\ SentOrSigned'
  <2>1. CASE ~Marks(c)
    BY <1>5, <2>1 DEF Recorded, Signed, Exists, AckInv, SentOrSigned
  <2>2. CASE Marks(c)
    <3>1. contracts[c] \in Contract
      BY <2>2 DEF Marks, Exists, TypeOK
    <3>2. contracts'[c] = [contracts[c] EXCEPT !.status = "signed", !.document = e]
      BY <1>5, <2>2 DEF TypeOK
    <3>3. contracts'[c] # Null
      BY <1>2, <3>1, <3>2, SignedRow, EngagementAssumption
    <3>4. contracts'[c].status = "signed" /\ contracts'[c].envelope = contracts[c].envelope
      BY <3>1, <3>2 DEF Contract
    <3>5. \A d \in Contracts : d # c => contracts'[d] = contracts[d]
      BY <1>5, <2>2 DEF TypeOK
    <3>. QED
      BY <2>2, <3>3, <3>4, <3>5 DEF Recorded, Signed, Exists, Marks, AckInv, SentOrSigned
  <2>. QED
    BY <2>1, <2>2
<1>7. Recorded(c, e) => Marks(c) \/ Signed(c)
  <2>1. ASSUME Recorded(c, e) PROVE Marks(c) \/ Signed(c)
    <3>1. contracts[c] \in Contract /\ contracts[c].status # "draft"
      BY <1>2, <2>1, EngagementAssumption DEF Recorded, Exists, TypeOK, AckInv, SentOrSigned
    <3>. QED
      BY <2>1, <3>1 DEF Recorded, Marks, Signed, Contract
  <2>. QED
    BY <2>1
<1>8. ~Fresh(e) /\ \A f \in Envelopes : Fresh(f) => Fresh(f)'
  <2>1. ~Fresh(e)
    BY <1>1, <1>2 DEF Fresh
  <2>. QED
    BY <1>3, <1>4, <1>6, <2>1 DEF Fresh
<1>9. \A r \in Handlers : Prepares(r)' => Prepares(r) /\ req'[r] = req[r]
  BY <1>3 DEF Prepares, At
<1>10. FreshUntilRecorded'
  BY <1>4, <1>8, <1>9, FreshStays DEF AckInv
<1>11. OneRowEach'
  BY <1>3, <1>4, <1>6 DEF AckInv, OneRowEach
<1>12. AckedSigned'
  <2>. SUFFICES ASSUME NEW f \in acked', NEW d \in Contracts, Recorded(d, f)'
                PROVE  Signed(d)'
    BY DEF AckedSigned
  <2>1. f \in Envelopes /\ Recorded(d, f)
    BY <1>4, <1>6 DEF TypeOK
  <2>2. CASE f \in acked
    BY <1>6, <2>1, <2>2 DEF AckInv, AckedSigned
  <2>3. CASE f = e
    <3>1. c = d
      BY <1>1, <1>2, <2>1, <2>3 DEF AckInv, OneRowEach
    <3>. QED
      BY <1>6, <1>7, <2>1, <2>3, <3>1
  <2>. QED
    BY <1>4, <2>2, <2>3
<1>. QED
  BY <1>6, <1>10, <1>11, <1>12 DEF AckInv

LEMMA ResetAck ==
    ASSUME TypeOK, AckInv, NEW a \in Admins, ResetBegin(a) \/ ResetDelete(a)
    PROVE  AckInv'
<1>1. a \in Handlers
  BY DEF Handlers
<1>2. /\ \A r \in Handlers : r # a => req'[r] = req[r]
      /\ req'[a].op \in {"reset", "none"}
  BY <1>1, OthersWait, IdleType DEF ResetBegin, ResetDelete
<1>3. UNCHANGED <<effects, acked, envelopes, sentFor>>
  BY DEF ResetBegin, ResetDelete, history
<1>4. \A r \in Handlers : Prepares(r)' => Prepares(r) /\ req'[r] = req[r]
  BY <1>2 DEF Prepares, At
<1>5. CASE UNCHANGED contracts
  BY <1>2, <1>3, <1>4, <1>5, QuietAck
<1>6. CASE contracts' = [c \in Contracts |-> Null]
  <2>1. \A c \in Contracts : ~Exists(c)'
    BY <1>6 DEF Exists
  <2>2. \A e \in Envelopes : Fresh(e) => Fresh(e)'
    BY <1>2, <1>3, <2>1 DEF Fresh, Recorded
  <2>3. FreshUntilRecorded'
    BY <1>3, <1>4, <2>2, FreshStays DEF AckInv
  <2>. QED
    BY <1>2, <1>3, <2>1, <2>3
       DEF AckInv, OneRowEach, SentOrSigned, AckedSigned, Recorded
<1>. QED
  BY <1>5, <1>6 DEF ResetBegin, ResetDelete

\* An envelope is acknowledged at once only when its row is signed.
LEMMA OtherAck ==
    ASSUME TypeOK, AckInv,
           \/ \E e \in Envelopes : Complete(e) \/ HookAnswer(e)
           \/ \E r \in Handlers : Abort(r)
           \/ UNCHANGED vars
    PROVE  AckInv'
<1>1. UNCHANGED <<contracts, effects, sentFor>>
  BY DEF Complete, HookAnswer, Abort, vars, history
<1>2. \A r \in Handlers : req'[r] = req[r] \/ req'[r].op = "none"
  BY OthersWait, IdleType DEF Complete, HookAnswer, Abort, vars
<1>3. \A r \in Handlers : Prepares(r)' => Prepares(r) /\ req'[r] = req[r]
  BY <1>2 DEF Prepares, At
<1>4. \A e \in Envelopes : envelopes'[e] = "unused" => envelopes[e] = "unused"
  BY DEF TypeOK, Complete, HookAnswer, Abort, vars
<1>5. CASE UNCHANGED acked
  BY <1>1, <1>2, <1>3, <1>4, <1>5, QuietAck
<1>6. ASSUME NEW e \in Envelopes, HookAnswer(e)
      PROVE  AckInv'
  <2>1. PICK c \in Contracts : Recorded(c, e) /\ Signed(c)
    BY <1>6 DEF HookAnswer, Settled
  <2>2. acked' = acked \cup {e}
    BY <1>6 DEF HookAnswer
  <2>3. /\ \A d, f : Recorded(d, f)' <=> Recorded(d, f)
        /\ \A d : /\ Signed(d)' <=> Signed(d)
                  /\ Exists(d)' <=> Exists(d)
    BY <1>1 DEF Recorded, Signed, Exists
  <2>4. \A f \in Envelopes : Fresh(f) => Fresh(f)'
    BY <1>1, <1>2, <2>1, <2>2, <2>3 DEF Fresh
  <2>5. FreshUntilRecorded'
    BY <1>3, <1>4, <2>4, FreshStays DEF AckInv
  <2>6. OneRowEach' /\ SentOrSigned'
    BY <1>1, <1>2, <2>3 DEF AckInv, OneRowEach, SentOrSigned
  <2>7. AckedSigned'
    BY <2>1, <2>2, <2>3 DEF AckInv, AckedSigned, OneRowEach
  <2>. QED
    BY <2>5, <2>6, <2>7 DEF AckInv
<1>. QED
  BY <1>5, <1>6 DEF Complete, Abort, vars

LEMMA NextAck == TypeOK /\ AckInv /\ [Next]_vars => AckInv'
  BY CreateAck, SignAck, SignRecordAck, HookAck, HookSignAck, ResetAck, OtherAck
     DEF Next, Click

\* A completion is answered with 200 only when the contract that has the envelope
\* is signed, or none has it any more: no signature is lost by being acknowledged
\* too early, however clicks, repeated deliveries and resets race.
THEOREM Acknowledged == Spec => []AckedSigned
<1>1. TypeOK /\ AckInv /\ [Next]_vars => AckInv'
  BY NextAck
<1>2. AckInv => AckedSigned
  BY DEF AckInv
<1>. QED
  BY <1>1, <1>2, InitAck, TypeCorrect, PTL DEF Spec

-----------------------------------------------------------------------------
\* The rows and their envelopes, the slower of two clicks included.

\* An envelope stays with the row it was sent for.
LEMMA SentTwiceStays ==
    ASSUME \A e \in Envelopes : sentFor[e] # Null => sentFor'[e] = sentFor[e]
    PROVE  \A c \in Contracts : SentTwice(c) => SentTwice(c)'
  BY EngagementAssumption DEF SentTwice

\* Where rows stay, so does what is said of them.
LEMMA RowsStay ==
    ASSUME UNCHANGED <<contracts, created, effects, sentFor>>
    PROVE  /\ \A c : /\ Exists(c)' <=> Exists(c)
                     /\ Signed(c)' <=> Signed(c)
                     /\ NeedsEnvelope(c)' <=> NeedsEnvelope(c)
           /\ \A c, e : Recorded(c, e)' <=> Recorded(c, e)
           /\ EffectInItsRow => EffectInItsRow'
           /\ OneDocument => OneDocument'
           /\ SignsOnce => SignsOnce'
  BY DEF Exists, Signed, NeedsEnvelope, Recorded, EffectInItsRow, OneDocument, SignsOnce,
         SentTwice

LEMMA InitRow == Init => RowInv
<1>. SUFFICES ASSUME Init PROVE RowInv
  OBVIOUS
<1>1. \A c \in Contracts : ~Exists(c)
  BY DEF Init, Exists
<1>2. \A r \in Handlers : req[r].op = "none"
  BY DEF Init, Idle
<1>3. RowsKnown /\ SignsBareRow
  BY <1>1, <1>2 DEF RowsKnown, SignsBareRow
<1>4. EffectInItsRow /\ OneDocument /\ SignsOnce
  BY <1>1 DEF EffectInItsRow, OneDocument, SignsOnce, Recorded, Signed, Init
<1>. QED
  BY <1>3, <1>4 DEF RowInv

\* A click goes on for the row it read, and counts as overtaken as before.
GoesOn(r) ==
    req'[r].op = "sign" =>
        /\ req[r].op = "sign" /\ req'[r].contract = req[r].contract
        /\ r \in overtaken' <=> r \in overtaken

\* Steps that write no row, and in which no click takes one up, keep every part.
LEMMA QuietRow ==
    ASSUME RowInv, UNCHANGED <<contracts, created, effects, sentFor>>,
           \A r \in Handlers : GoesOn(r)
    PROVE  RowInv'
<1>. USE DEF RowInv
<1>1. RowsKnown'
  BY RowsStay DEF RowsKnown, GoesOn
<1>2. SignsBareRow'
  BY RowsStay DEF SignsBareRow, GoesOn
<1>. QED
  BY <1>1, <1>2, RowsStay

LEMMA CreateInsertRow ==
    ASSUME TypeOK, RowInv, NEW k \in Clicks, CreateInsert(k)
    PROVE  /\ RowInv'
           /\ \A c \in Contracts : Exists(c) => contracts'[c] = contracts[c]
<1>. USE DEF RowInv
<1>1. k \in Handlers
  BY DEF Handlers
<1>. DEFINE new == created + 1
            row == [status |-> "draft", envelope |-> Null, document |-> Null]
<1>2. created \in Nat /\ created' = new /\ new \in Contracts
  BY EngagementAssumption DEF CreateInsert, TypeOK, Contracts
<1>3. UNCHANGED <<effects, sentFor, overtaken>>
  BY DEF CreateInsert, history
<1>4. /\ contracts'[new] = row
      /\ \A c \in Contracts : c # new => contracts'[c] = contracts[c]
  BY <1>2 DEF CreateInsert, TypeOK
<1>5. row.status = "draft" /\ row.envelope = Null
  OBVIOUS
<1>6. \A r \in Handlers : req'[r].op = "sign" => req[r].op = "sign" /\ req'[r] = req[r]
  BY <1>1, OthersWait DEF CreateInsert
<1>7. \A r \in Handlers : req[r].op = "sign" => req[r].contract \in Contracts /\ req[r].contract # new
  BY <1>2, InHand DEF RowsKnown, Contracts
<1>. HIDE DEF new, row
<1>8. /\ \A c \in Contracts : Signed(c)' => c # new /\ Signed(c)
      /\ \A c \in Contracts, e \in Envelopes : Recorded(c, e)' => c # new /\ Recorded(c, e)
      /\ \A c \in Contracts : c # new => /\ Exists(c)' <=> Exists(c)
                                         /\ Signed(c)' <=> Signed(c)
                                         /\ NeedsEnvelope(c)' <=> NeedsEnvelope(c)
  BY <1>4, <1>5, EngagementAssumption DEF Signed, Recorded, Exists, NeedsEnvelope
<1>9. RowsKnown'
  <2>1. \A c \in Contracts : Exists(c)' => c <= new
    BY <1>2, <1>8 DEF RowsKnown, Contracts, new
  <2>2. \A r \in Handlers : req[r].op = "sign" => req[r].contract <= new
    BY <1>2, <1>7 DEF RowsKnown, Contracts, new
  <2>. QED
    BY <1>2, <1>6, <2>1, <2>2 DEF RowsKnown
<1>10. SignsBareRow'
  BY <1>3, <1>6, <1>7, <1>8 DEF SignsBareRow
<1>11. EffectInItsRow' /\ OneDocument' /\ SignsOnce'
  BY <1>3, <1>4, <1>8 DEF EffectInItsRow, OneDocument, SignsOnce, SentTwice
<1>12. ~Exists(new)
  BY <1>2 DEF RowsKnown, new
<1>. QED
  BY <1>4, <1>9, <1>10, <1>11, <1>12

\* The click that takes up a row reads it without an envelope.
LEMMA SignBeginRow ==
    ASSUME TypeOK, RowInv, NEW k \in Clicks, SignBegin(k)
    PROVE  RowInv'
<1>. USE DEF RowInv
<1>1. k \in Handlers
  BY DEF Handlers
<1>2. PICK c \in Contracts :
         /\ Exists(c) /\ NeedsEnvelope(c)
         /\ Continue(k, [op |-> "sign", pc |-> "create", contract |-> c])
  BY DEF SignBegin, Latest
<1>3. UNCHANGED <<contracts, created, effects, sentFor, overtaken>>
  BY DEF SignBegin, history
<1>4. /\ \A r \in Handlers : r # k => req'[r] = req[r]
      /\ req'[k].contract = c
  BY <1>1, <1>2, OthersWait
<1>5. RowsKnown'
  BY <1>2, <1>3, <1>4, RowsStay DEF RowsKnown
<1>6. SignsBareRow'
  BY <1>2, <1>3, <1>4, RowsStay DEF SignsBareRow
<1>. QED
  BY <1>3, <1>5, <1>6, RowsStay

\* Preparing the envelope is nothing to the row.
LEMMA SignPrepareRow ==
    ASSUME TypeOK, RowInv, NEW k \in Clicks, SignCreate(k) \/ SignDistribute(k)
    PROVE  RowInv'
<1>1. k \in Handlers
  BY DEF Handlers
<1>2. UNCHANGED <<contracts, created, effects, sentFor, overtaken>>
  BY DEF SignCreate, SignDistribute, history
<1>3. req[k].op = "sign" /\ req'[k].contract = req[k].contract
  <2>1. CASE SignCreate(k)
    BY <1>1, <2>1, OthersWait DEF SignCreate, At
  <2>2. CASE SignDistribute(k)
    <3>1. req[k] \in Signing
      BY <1>1, <2>2, RequestVariants DEF SignDistribute, At, TypeOK
    <3>. QED
      BY <1>1, <2>2, <3>1, OthersWait DEF SignDistribute, At, Signing
  <2>. QED
    BY <2>1, <2>2
<1>4. \A r \in Handlers : r # k => req'[r] = req[r]
  BY <1>1, OthersWait DEF SignCreate, SignDistribute
<1>5. \A r \in Handlers : GoesOn(r)
  BY <1>2, <1>3, <1>4 DEF GoesOn
<1>. QED
  BY <1>2, <1>5, QuietRow

\* The slower of two clicks that read the same row is overtaken; every other click
\* records its envelope in a row that has none.
LEMMA SignRecordRow ==
    ASSUME TypeOK, AckInv, RowInv, NEW k \in Clicks, SignRecord(k)
    PROVE  /\ RowInv'
           /\ \A c \in Contracts :
                 \/ contracts'[c] = contracts[c]
                 \/ NeedsEnvelope(c)
                 \/ RecordedLate(c)
<1>. USE DEF RowInv
<1>1. k \in Handlers /\ Prepares(k) /\ req[k].op = "sign" /\ At(k, "sign", "record")
  BY DEF Handlers, SignRecord, Prepares, At
<1>2. PICK c \in Contracts, e \in Envelopes : c = req[k].contract /\ e = req[k].envelope
  BY <1>1, InHand
<1>3. /\ \A r \in Handlers : r # k => req'[r] = req[r]
      /\ req'[k].op = "none"
  BY <1>1, OthersWait, IdleType DEF SignRecord
<1>4. UNCHANGED <<created, effects>>
  BY DEF SignRecord
<1>5. Fresh(e)
  BY <1>1, <1>2 DEF AckInv, FreshUntilRecorded
<1>7. CASE ~Exists(c)
  <2>1. UNCHANGED <<contracts, sentFor>> /\ overtaken' = overtaken \ {k}
    BY <1>2, <1>7 DEF SignRecord
  <2>2. \A r \in Handlers : GoesOn(r)
    BY <1>3, <2>1 DEF GoesOn
  <2>. QED
    BY <1>4, <2>1, <2>2, QuietRow
<1>8. CASE Exists(c)
  <2>1. contracts[c] \in Contract
    BY <1>8 DEF TypeOK, Exists
  <2>2. \A d \in Contracts : d # c => contracts'[d] = contracts[d]
    BY <1>2, <1>8 DEF SignRecord, TypeOK
  <2>3. contracts'[c] = [contracts[c] EXCEPT !.status = "pending_signature", !.envelope = e]
    BY <1>2, <1>8 DEF SignRecord, TypeOK
  <2>4. contracts'[c].status = "pending_signature" /\ contracts'[c].envelope = e
    BY <2>1, <2>3 DEF Contract
  <2>5. /\ sentFor'[e] = c /\ \A f \in Envelopes : f # e => sentFor'[f] = sentFor[f]
        /\ overtaken' = (overtaken \cup Sending(c)) \ {k}
    BY <1>2, <1>8 DEF SignRecord, TypeOK
  <2>6. /\ ~Signed(c)'
        /\ \A d \in Contracts, f \in Envelopes : Recorded(d, f)' =>
              IF d = c THEN f = e ELSE Recorded(d, f)
        /\ \A d \in Contracts : d # c => /\ Signed(d)' <=> Signed(d)
                                         /\ Exists(d)' <=> Exists(d)
                                         /\ NeedsEnvelope(d)' <=> NeedsEnvelope(d)
    BY <2>2, <2>4 DEF Recorded, Signed, Exists, NeedsEnvelope
  <2>7. \A d \in Contracts : SentTwice(d) => SentTwice(d)'
    BY <1>5, <2>5, SentTwiceStays DEF Fresh
  <2>8. RowsKnown'
    BY <1>3, <1>4, <1>8, <2>6 DEF RowsKnown
  <2>9. SignsBareRow'
    <3>. SUFFICES ASSUME NEW r \in Handlers, r \notin overtaken', req'[r].op = "sign",
                         Exists(req[r].contract)'
                  PROVE  NeedsEnvelope(req[r].contract)'
      BY DEF SignsBareRow
    <3>1. r # k /\ req'[r] = req[r] /\ req[r].contract \in Contracts
      BY <1>3, InHand
    <3>2. PICK d \in Contracts : d = req[r].contract
      BY <3>1
    <3>3. r \notin overtaken /\ d # c /\ Exists(d)'
      BY <2>5, <3>1, <3>2 DEF Sending, Exists
    <3>4. NeedsEnvelope(d)'
      BY <2>6, <3>1, <3>2, <3>3 DEF SignsBareRow
    <3>. QED
      BY <3>1, <3>2, <3>4 DEF NeedsEnvelope
  <2>10. EffectInItsRow'
    BY <1>4, <1>5, <2>6 DEF EffectInItsRow, Fresh
  <2>11. OneDocument'
    BY <2>2, <2>6, <2>7 DEF OneDocument
  <2>12. SignsOnce'
    <3>1. \A f \in Envelopes : effects[f] > 1 => sentFor'[f] = sentFor[f]
      BY <1>5, <2>5 DEF Fresh
    <3>. QED
      BY <1>4, <2>7, <3>1 DEF SignsOnce
  <2>13. NeedsEnvelope(c) \/ RecordedLate(c)
    <3>1. CASE k \in overtaken
      <4>1. req'[k] # req[k]
        BY <1>1, <1>3
      <4>. QED
        BY <1>1, <1>2, <3>1, <4>1 DEF RecordedLate
    <3>2. CASE k \notin overtaken
      BY <1>1, <1>2, <1>8, <3>2 DEF SignsBareRow
    <3>. QED
      BY <3>1, <3>2
  <2>. QED
    BY <2>2, <2>8, <2>9, <2>10, <2>11, <2>12, <2>13
<1>. QED
  BY <1>7, <1>8

\* Finding the row and storing the PDF change no row.
LEMMA HookPrepareRow ==
    ASSUME TypeOK, RowInv, NEW h \in Hooks,
           (\E e \in Envelopes : HookBegin(h, e)) \/ HookPersist(h)
    PROVE  RowInv'
<1>1. h \in Handlers
  BY DEF Handlers
<1>2. UNCHANGED <<contracts, created, effects, sentFor, overtaken>>
  BY DEF HookBegin, HookPersist, history
<1>3. req'[h].op = "hook" /\ \A r \in Handlers : r # h => req'[r] = req[r]
  <2>1. CASE \E e \in Envelopes : HookBegin(h, e)
    BY <1>1, <2>1, OthersWait DEF HookBegin
  <2>2. CASE HookPersist(h)
    <3>1. req[h] \in Receiving
      BY <1>1, <2>2, RequestVariants DEF HookPersist, At, TypeOK
    <3>. QED
      BY <1>1, <2>2, <3>1, OthersWait DEF HookPersist, Receiving
  <2>. QED
    BY <2>1, <2>2
<1>4. \A r \in Handlers : GoesOn(r)
  BY <1>2, <1>3 DEF GoesOn
<1>. QED
  BY <1>2, <1>4, QuietRow

\* The transaction signs a row that its envelope was sent for: the one it still has,
\* and then for the first time, or one that had another envelope since.
LEMMA HookSignRow ==
    ASSUME TypeOK, AckInv, RowInv, NEW h \in Hooks, HookSign(h)
    PROVE  /\ RowInv'
           /\ \A c \in Contracts : /\ Signed(c) => Signed(c)'
                                   /\ Exists(c) => contracts'[c].envelope = contracts[c].envelope
<1>. USE DEF RowInv
<1>1. h \in Handlers /\ req[h].op = "hook"
  BY DEF Handlers, HookSign, At
<1>2. PICK c \in Contracts, e \in Envelopes : c = req[h].contract /\ e = req[h].envelope
  BY <1>1, InHand
<1>3. /\ \A r \in Handlers : r # h => req'[r] = req[r]
      /\ req'[h].op = "none"
  BY <1>1, OthersWait, IdleType DEF HookSign
<1>4. UNCHANGED <<created, sentFor, overtaken>>
  BY DEF HookSign
<1>5. CASE ~Marks(c)
  <2>1. UNCHANGED <<contracts, effects>>
    BY <1>2, <1>5 DEF HookSign
  <2>2. \A r \in Handlers : GoesOn(r)
    BY <1>3, <1>4 DEF GoesOn
  <2>. QED
    BY <1>4, <2>1, <2>2, QuietRow, RowsStay
<1>6. CASE Marks(c)
  <2>1. contracts[c] \in Contract /\ Exists(c) /\ ~Signed(c)
    BY <1>6 DEF Marks, Exists, Signed, TypeOK
  <2>2. \A d \in Contracts : d # c => contracts'[d] = contracts[d]
    BY <1>2, <1>6 DEF HookSign, TypeOK
  <2>3. contracts'[c] = [contracts[c] EXCEPT !.status = "signed", !.document = e]
    BY <1>2, <1>6 DEF HookSign, TypeOK
  <2>4. /\ contracts'[c] # Null
        /\ contracts'[c].status = "signed" /\ contracts'[c].document = e
        /\ contracts'[c].envelope = contracts[c].envelope
    <3>1. contracts'[c] # Null
      BY <1>2, <2>1, <2>3, SignedRow, EngagementAssumption
    <3>. QED
      BY <2>1, <2>3, <3>1 DEF Contract
  <2>5. effects'[e] = effects[e] + 1 /\ \A f \in Envelopes : f # e => effects'[f] = effects[f]
    BY <1>2, <1>6 DEF HookSign, TypeOK
  <2>6. /\ Signed(c)'
        /\ \A d \in Contracts : Exists(d)' <=> Exists(d)
        /\ \A d \in Contracts : d # c => /\ Signed(d)' <=> Signed(d)
                                         /\ NeedsEnvelope(d)' <=> NeedsEnvelope(d)
        /\ \A d \in Contracts, f \in Envelopes : Recorded(d, f)' <=> Recorded(d, f)
    BY <2>1, <2>2, <2>4 DEF Recorded, Signed, Exists, NeedsEnvelope
  <2>7. \A d \in Contracts : SentTwice(d)' <=> SentTwice(d)
    BY <1>4 DEF SentTwice
  <2>8. sentFor[e] = c
    BY <1>1, <1>2 DEF AckInv, OneRowEach
  <2>9. contracts[c].envelope \in Envelopes
    BY <1>6, <2>1 DEF AckInv, SentOrSigned, Marks, Contract
  <2>10. contracts[c].envelope = e \/ SentTwice(c)
    <3>1. sentFor[contracts[c].envelope] = c
      BY <2>1, <2>9 DEF AckInv, OneRowEach, Recorded
    <3>. QED
      BY <2>8, <2>9, <3>1 DEF SentTwice
  <2>11. RowsKnown'
    BY <1>3, <1>4, <2>6 DEF RowsKnown
  <2>12. SignsBareRow'
    <3>. SUFFICES ASSUME NEW r \in Handlers, r \notin overtaken', req'[r].op = "sign",
                         Exists(req[r].contract)'
                  PROVE  NeedsEnvelope(req[r].contract)'
      BY DEF SignsBareRow
    <3>1. r # h /\ req'[r] = req[r] /\ req[r].contract \in Contracts /\ r \notin overtaken
      BY <1>3, <1>4, InHand
    <3>2. PICK d \in Contracts : d = req[r].contract
      BY <3>1
    <3>3. Exists(d)'
      BY <3>1, <3>2 DEF Exists
    <3>4. NeedsEnvelope(d)
      BY <2>6, <3>1, <3>2, <3>3 DEF SignsBareRow
    <3>5. d # c
      BY <2>9, <3>4, EngagementAssumption DEF NeedsEnvelope
    <3>6. NeedsEnvelope(d)'
      BY <2>6, <3>4, <3>5
    <3>. QED
      BY <3>1, <3>2, <3>6 DEF NeedsEnvelope
  <2>13. EffectInItsRow'
    <3>. SUFFICES ASSUME NEW d \in Contracts, NEW f \in Envelopes, Recorded(d, f)',
                         effects'[f] # 0, d # c
                  PROVE  Signed(d)'
      BY <2>6 DEF EffectInItsRow
    <3>1. f # e
      BY <2>6, <2>8 DEF AckInv, OneRowEach
    <3>. QED
      BY <2>5, <2>6, <3>1 DEF EffectInItsRow
  <2>14. OneDocument'
    <3>1. contracts'[c].document = contracts'[c].envelope \/ SentTwice(c)'
      BY <2>4, <2>7, <2>10
    <3>. QED
      BY <2>2, <2>6, <2>7, <3>1 DEF OneDocument
  <2>15. SignsOnce'
    <3>1. effects'[e] > 1 => SentTwice(c)
      <4>1. contracts[c].envelope = e => effects[e] = 0
        BY <2>1 DEF EffectInItsRow, Recorded
      <4>. QED
        BY <2>5, <2>10, <4>1
    <3>. QED
      BY <1>4, <2>5, <2>7, <2>8, <3>1 DEF SignsOnce
  <2>. QED
    BY <2>2, <2>4, <2>6, <2>11, <2>12, <2>13, <2>14, <2>15
<1>. QED
  BY <1>5, <1>6

LEMMA ResetRow ==
    ASSUME TypeOK, RowInv, NEW a \in Admins, ResetBegin(a) \/ ResetDelete(a)
    PROVE  RowInv'
<1>. USE DEF RowInv
<1>1. a \in Handlers
  BY DEF Handlers
<1>2. UNCHANGED <<created, effects, sentFor, overtaken>>
  BY DEF ResetBegin, ResetDelete, history
<1>3. \A r \in Handlers : req'[r].op = "sign" => req'[r] = req[r]
  BY <1>1, OthersWait, IdleType DEF ResetBegin, ResetDelete
<1>4. CASE contracts' = contracts
  <2>1. \A r \in Handlers : GoesOn(r)
    BY <1>2, <1>3 DEF GoesOn
  <2>. QED
    BY <1>2, <1>4, <2>1, QuietRow
<1>5. CASE contracts' = [c \in Contracts |-> Null]
  <2>1. \A c \in Contracts : ~Exists(c)' /\ ~Signed(c)' /\ \A e : ~Recorded(c, e)'
    BY <1>5 DEF Exists, Signed, Recorded
  <2>2. RowsKnown'
    BY <1>2, <1>3, <2>1 DEF RowsKnown
  <2>3. \A r \in Handlers : req'[r].op = "sign" => ~Exists(req[r].contract)'
    BY <1>3, <1>5, InHand DEF Exists
  <2>4. SignsBareRow'
    BY <2>3 DEF SignsBareRow
  <2>5. EffectInItsRow' /\ OneDocument' /\ SignsOnce'
    BY <1>2, <2>1 DEF EffectInItsRow, OneDocument, SignsOnce, SentTwice
  <2>. QED
    BY <2>2, <2>4, <2>5
<1>. QED
  BY <1>4, <1>5 DEF ResetBegin, ResetDelete

\* The other steps neither write a row nor take up work.
LEMMA OtherRow ==
    ASSUME TypeOK, RowInv,
           \/ \E k \in Clicks : CreateBegin(k) \/ CreateLink(k)
           \/ \E e \in Envelopes : Complete(e) \/ HookAnswer(e)
           \/ \E r \in Handlers : Abort(r)
           \/ UNCHANGED vars
    PROVE  RowInv' /\ contracts' = contracts
<1>1. UNCHANGED <<contracts, created, effects, sentFor>>
  BY DEF CreateBegin, CreateLink, Complete, HookAnswer, Abort, vars, history
<1>2. \A r \in Handlers : GoesOn(r)
  <2>1. ASSUME NEW k \in Clicks, CreateBegin(k) \/ CreateLink(k)
        PROVE  \A r \in Handlers : GoesOn(r)
    <3>1. k \in Handlers
      BY DEF Handlers
    <3>2. /\ \A r \in Handlers : r # k => req'[r] = req[r]
          /\ req'[k].op # "sign"
      BY <2>1, <3>1, OthersWait, IdleType DEF CreateBegin, CreateLink
    <3>. QED
      BY <2>1, <3>2 DEF CreateBegin, CreateLink, history, GoesOn
  <2>2. ASSUME NEW r \in Handlers, Abort(r)
        PROVE  \A s \in Handlers : GoesOn(s)
    BY <2>2, OthersWait, IdleType DEF Abort, GoesOn
  <2>3. CASE (\E e \in Envelopes : Complete(e) \/ HookAnswer(e)) \/ UNCHANGED vars
    BY <2>3 DEF Complete, HookAnswer, vars, history, GoesOn
  <2>. QED
    BY <2>1, <2>2, <2>3
<1>. QED
  BY <1>1, <1>2, QuietRow

\* In this step the row c loses its envelope or its signature, and stays.
Loses(c) ==
    /\ Exists(c) /\ Exists(c)'
    /\ \/ Signed(c) /\ ~Signed(c)'
       \/ contracts[c].envelope # Null /\ contracts'[c].envelope # contracts[c].envelope

\* Every step keeps the invariant, and no row loses anything but to a late click.
LEMMA NextRow ==
    ASSUME TypeOK, AckInv, RowInv, [Next]_vars
    PROVE  RowInv' /\ \A c \in Contracts : Loses(c) => RecordedLate(c)
<1>1. \A c \in Contracts : contracts'[c] = contracts[c] => ~Loses(c)
  BY DEF Loses, Signed, Exists
<1>2. \A c \in Contracts : NeedsEnvelope(c) => ~Loses(c)
  BY DEF Loses, Signed, NeedsEnvelope
<1>3. ASSUME NEW k \in Clicks, CreateInsert(k) \/ SignRecord(k)
      PROVE  RowInv' /\ \A c \in Contracts : Loses(c) => RecordedLate(c)
  <2>1. CASE CreateInsert(k)
    BY <1>1, <2>1, CreateInsertRow DEF Loses
  <2>2. CASE SignRecord(k)
    BY <1>1, <1>2, <2>2, SignRecordRow
  <2>. QED
    BY <1>3, <2>1, <2>2
<1>4. ASSUME NEW k \in Clicks, SignBegin(k) \/ SignCreate(k) \/ SignDistribute(k)
      PROVE  RowInv' /\ \A c \in Contracts : Loses(c) => RecordedLate(c)
  BY <1>1, <1>4, SignBeginRow, SignPrepareRow DEF SignBegin, SignCreate, SignDistribute
<1>5. ASSUME NEW h \in Hooks,
             (\E e \in Envelopes : HookBegin(h, e)) \/ HookPersist(h) \/ HookSign(h)
      PROVE  RowInv' /\ \A c \in Contracts : Loses(c) => RecordedLate(c)
  <2>1. CASE (\E e \in Envelopes : HookBegin(h, e)) \/ HookPersist(h)
    BY <1>1, <2>1, HookPrepareRow DEF HookBegin, HookPersist
  <2>2. CASE HookSign(h)
    BY <2>2, HookSignRow DEF Loses
  <2>. QED
    BY <1>5, <2>1, <2>2
<1>6. ASSUME NEW a \in Admins, ResetBegin(a) \/ ResetDelete(a)
      PROVE  RowInv' /\ \A c \in Contracts : Loses(c) => RecordedLate(c)
  <2>1. contracts' = contracts \/ \A c \in Contracts : ~Exists(c)'
    BY <1>6 DEF ResetBegin, ResetDelete, Exists
  <2>. QED
    BY <1>1, <1>6, <2>1, ResetRow DEF Loses
<1>7. CASE \/ \E k \in Clicks : CreateBegin(k) \/ CreateLink(k)
           \/ \E e \in Envelopes : Complete(e) \/ HookAnswer(e)
           \/ \E r \in Handlers : Abort(r)
           \/ UNCHANGED vars
  BY <1>1, <1>7, OtherRow
<1>. QED
  BY <1>3, <1>4, <1>5, <1>6, <1>7 DEF Next, Click

-----------------------------------------------------------------------------
\* #39: an envelope signs its contract once, before its completion is acknowledged,
\* however clicks race and however often and at whatever time its completion is
\* delivered; only where a slower click gave the contract a second envelope may it
\* be signed more often.
THEOREM SignedOnce == Spec => []EffectiveOnce
<1>1. TypeOK /\ AckInv /\ RowInv /\ [Next]_vars => RowInv'
  BY NextRow
<1>2. AckInv /\ RowInv => EffectiveOnce
  BY DEF AckInv, RowInv, EffectiveOnce
<1>. QED
  BY <1>1, <1>2, InitRow, InitAck, NextAck, TypeCorrect, PTL DEF Spec

\* The two downloads of a signed contract give the same document, unless the slower
\* of two clicks gave the contract a second envelope.
THEOREM DownloadsAgree == Spec => []OneDocument
<1>1. TypeOK /\ AckInv /\ RowInv /\ [Next]_vars => RowInv'
  BY NextRow
<1>2. RowInv => OneDocument
  BY DEF RowInv
<1>. QED
  BY <1>1, <1>2, InitRow, InitAck, NextAck, TypeCorrect, PTL DEF Spec

\* A contract loses its envelope or its signature only in one kind of step: a click
\* records its envelope after another one that read the row as it did.
THEOREM SignatureStays == Spec => SignedForGood
<1>1. TypeOK /\ AckInv /\ RowInv /\ [Next]_vars => RowInv'
  BY NextRow
<1>2. TypeOK /\ AckInv /\ RowInv /\ [Next]_vars =>
         [\A c \in Contracts : Loses(c) => RecordedLate(c)]_vars
  BY NextRow
<1>3. [\A c \in Contracts : Loses(c) => RecordedLate(c)]_vars =>
         [\A c \in Contracts :
            /\ Exists(c) /\ Exists(c)'
            /\ \/ Signed(c) /\ ~Signed(c)'
               \/ contracts[c].envelope # Null /\ contracts'[c].envelope # contracts[c].envelope
            => RecordedLate(c)]_vars
  BY DEF Loses
<1>. QED
  BY <1>1, <1>2, <1>3, InitRow, InitAck, NextAck, TypeCorrect, PTL DEF Spec, SignedForGood

-----------------------------------------------------------------------------
\* The rows implement the ledger of signatures.

\* The row whose draft a click has seen; the substitution for seen.
SeenBy(r) == IF req[r].op = "sign" THEN req[r].contract ELSE Null
Seen == [r \in Handlers |-> SeenBy(r)]

\* The envelopes that the artist signed; the substitution for completed.
Completed == {e \in Envelopes : envelopes[e] = "completed"}

LEMMA LedgerRow ==
    /\ Ledger!Entry = Contract
    /\ Ledger!Draft = [status |-> "draft", envelope |-> Null, document |-> Null]
    /\ \A row \in Contract :
          row.status = "draft" /\ row.envelope = Null /\ row.document = Null => row = Ledger!Draft
<1>1. Ledger!Draft \in Contract
  BY DEF Ledger!Draft, Contract
<1>2. \A r, s \in Contract :
         r.status = s.status /\ r.envelope = s.envelope /\ r.document = s.document => r = s
  BY DEF Contract
<1>. QED
  BY <1>1, <1>2 DEF Ledger!Entry, Ledger!Draft, Contract

\* What the requests have seen changes with the request that goes on.
LEMMA SeenFollows ==
    ASSUME NEW k \in Handlers, \A r \in Handlers : r # k => req'[r] = req[r]
    PROVE  /\ Seen' = [Seen EXCEPT ![k] = SeenBy(k)']
           /\ SeenBy(k)' = SeenBy(k) => Seen' = Seen
<1>1. \A r \in Handlers : r # k => SeenBy(r)' = SeenBy(r)
  BY DEF SeenBy
<1>. QED
  BY <1>1 DEF Seen

LEMMA SeenSame ==
    ASSUME \A r \in Handlers : SeenBy(r)' = SeenBy(r)
    PROVE  Seen' = Seen
  BY DEF Seen

LEMMA InitLedger == Init => Ledger!Init
<1>. SUFFICES ASSUME Init PROVE Ledger!Init
  OBVIOUS
<1>1. 1 .. created = {} /\ Completed = {}
  BY DEF Init, Completed
<1>2. Seen = [k \in Handlers |-> Null]
  BY DEF Init, Seen, SeenBy, Idle
<1>. QED
  BY <1>1, <1>2 DEF Init, Ledger!Init, Completed, Seen, SeenBy

\* Nothing the ledger knows of has changed.
LEMMA Stutters ==
    ASSUME UNCHANGED <<contracts, created, sentFor>>, Completed' = Completed, Seen' = Seen
    PROVE  UNCHANGED Ledger!state
  BY DEF Ledger!state, Completed, Seen, SeenBy

\* A new row is a new entry.
LEMMA InsertOpens ==
    ASSUME TypeOK, NEW k \in Clicks, CreateInsert(k)
    PROVE  Ledger!Next
<1>1. k \in Handlers /\ created \in Nat /\ created + 1 \in Contracts
  BY EngagementAssumption DEF CreateInsert, TypeOK, Contracts, Handlers
<1>2. created + 1 \notin 1 .. created /\ 1 .. created' = (1 .. created) \cup {created + 1}
  BY <1>1 DEF CreateInsert
<1>3. contracts' = [contracts EXCEPT ![created + 1] = Ledger!Draft]
  BY LedgerRow DEF CreateInsert
<1>4. UNCHANGED sentFor /\ Completed' = Completed
  BY DEF CreateInsert, history, Completed
<1>5. Seen' = Seen
  <2>1. SeenBy(k) = Null /\ SeenBy(k)' = Null
    BY <1>1, OthersWait DEF CreateInsert, At, SeenBy
  <2>2. \A r \in Handlers : r # k => req'[r] = req[r]
    BY <1>1, OthersWait DEF CreateInsert
  <2>. QED
    BY <1>1, <2>1, <2>2, SeenFollows
<1>6. Ledger!Open(created + 1)
  BY <1>2, <1>3, <1>4, <1>5 DEF Ledger!Open, Completed, Seen, SeenBy
<1>. QED
  BY <1>1, <1>6 DEF Ledger!Next

\* The click that takes up a row sees a draft.
LEMMA BeginSees ==
    ASSUME TypeOK, AckInv, NEW k \in Clicks, SignBegin(k)
    PROVE  Ledger!Next
<1>1. k \in Handlers
  BY DEF Handlers
<1>2. PICK c \in Contracts :
         /\ Exists(c) /\ NeedsEnvelope(c)
         /\ Continue(k, [op |-> "sign", pc |-> "create", contract |-> c])
  BY DEF SignBegin, Latest
<1>3. /\ \A r \in Handlers : r # k => req'[r] = req[r]
      /\ req'[k].op = "sign" /\ req'[k].contract = c /\ req[k].op = "none"
  BY <1>1, <1>2, OthersWait, IdleType DEF SignBegin
<1>4. Seen[k] = Null /\ Seen' = [Seen EXCEPT ![k] = c]
  <2>1. SeenBy(k) = Null /\ SeenBy(k)' = c
    BY <1>3 DEF SeenBy
  <2>. QED
    BY <1>1, <1>3, <2>1, SeenFollows DEF Seen
<1>5. contracts[c] = Ledger!Draft
  <2>1. contracts[c] \in Contract
    BY <1>2 DEF TypeOK, Exists
  <2>. QED
    BY <1>2, <2>1, LedgerRow DEF AckInv, SentOrSigned, NeedsEnvelope
<1>6. UNCHANGED <<contracts, created, sentFor>> /\ Completed' = Completed
  BY DEF SignBegin, history, Completed
<1>7. Ledger!See(k, c)
  BY <1>4, <1>5, <1>6 DEF Ledger!See, Completed, Seen, SeenBy
<1>. QED
  BY <1>1, <1>7 DEF Ledger!Next

\* A fresh envelope is recorded in the row that the click saw, or the row is gone.
LEMMA RecordSends ==
    ASSUME TypeOK, AckInv, NEW k \in Clicks, SignRecord(k)
    PROVE  Ledger!Next
<1>1. k \in Handlers /\ Prepares(k) /\ req[k].op = "sign"
  BY DEF Handlers, SignRecord, Prepares, At
<1>2. PICK c \in Contracts, e \in Envelopes : c = req[k].contract /\ e = req[k].envelope
  BY <1>1, InHand
<1>3. /\ \A r \in Handlers : r # k => req'[r] = req[r]
      /\ req'[k].op = "none"
  BY <1>1, OthersWait, IdleType DEF SignRecord
<1>4. Seen[k] = c /\ Seen' = [Seen EXCEPT ![k] = Null]
  <2>1. SeenBy(k) = c /\ SeenBy(k)' = Null
    BY <1>1, <1>2, <1>3 DEF SeenBy
  <2>. QED
    BY <1>1, <1>3, <2>1, SeenFollows DEF Seen
<1>5. UNCHANGED created /\ Completed' = Completed
  BY DEF SignRecord, Completed
<1>6. CASE ~Exists(c)
  <2>1. UNCHANGED <<contracts, sentFor>>
    BY <1>2, <1>6 DEF SignRecord
  <2>2. Ledger!Leave(k)
    BY <1>4, <1>5, <2>1 DEF Ledger!Leave, Completed, Seen, SeenBy
  <2>. QED
    BY <1>1, <2>2 DEF Ledger!Next
<1>7. CASE Exists(c)
  <2>1. sentFor[e] = Null
    BY <1>1, <1>2 DEF AckInv, FreshUntilRecorded, Fresh
  <2>2. /\ contracts' = [contracts EXCEPT ![c] = [@ EXCEPT
                            !.status = "pending_signature", !.envelope = e]]
        /\ sentFor' = [sentFor EXCEPT ![e] = c]
    BY <1>2, <1>7 DEF SignRecord
  <2>3. Ledger!Send(k, c, e)
    BY <1>4, <1>5, <1>7, <2>1, <2>2 DEF Ledger!Send, Exists, Completed, Seen, SeenBy
  <2>. QED
    BY <1>1, <2>3 DEF Ledger!Next
<1>. QED
  BY <1>6, <1>7

\* The transaction signs an entry with an envelope that was sent for it, or nothing.
LEMMA DeliverySigns ==
    ASSUME IndInv, AckInv, NEW h \in Hooks, HookSign(h)
    PROVE  [Ledger!Next]_(Ledger!state)
<1>1. h \in Handlers /\ TypeOK /\ req[h].op = "hook"
  BY DEF Handlers, IndInv, HookSign, At
<1>2. PICK c \in Contracts, e \in Envelopes : c = req[h].contract /\ e = req[h].envelope
  BY <1>1, InHand
<1>3. UNCHANGED <<created, sentFor>> /\ Completed' = Completed
  BY DEF HookSign, Completed
<1>4. Seen' = Seen
  <2>1. \A r \in Handlers : r # h => req'[r] = req[r]
    BY <1>1, OthersWait DEF HookSign
  <2>2. SeenBy(h) = Null /\ SeenBy(h)' = Null
    BY <1>1, OthersWait, IdleType DEF HookSign, SeenBy
  <2>. QED
    BY <1>1, <2>1, <2>2, SeenFollows
<1>5. CASE ~Marks(c)
  BY <1>2, <1>3, <1>4, <1>5, Stutters DEF HookSign
<1>6. CASE Marks(c)
  <2>1. e \in Completed /\ sentFor[e] = c
    BY <1>1, <1>2 DEF IndInv, DeliveriesSigned, AckInv, OneRowEach, Completed
  <2>2. contracts' = [contracts EXCEPT ![c] = [@ EXCEPT !.status = "signed", !.document = e]]
    BY <1>2, <1>6 DEF HookSign
  <2>3. Ledger!Sign(c, e)
    BY <1>3, <1>4, <1>6, <2>1, <2>2
       DEF Ledger!Sign, Marks, Exists, Completed, Seen, SeenBy
  <2>. QED
    BY <2>3 DEF Ledger!Next
<1>. QED
  BY <1>5, <1>6

\* No envelope that is prepared counts as completed, and the artist's signature does.
LEMMA OnlyCompletes ==
    ASSUME IndInv
    PROVE  /\ \A k \in Clicks : SignCreate(k) \/ SignDistribute(k) => UNCHANGED Ledger!state
           /\ \A e \in Envelopes : Complete(e) => Ledger!Next
<1>1. TypeOK /\ envelopes \in [Envelopes -> EnvelopeState]
  BY DEF IndInv, TypeOK
<1>2. ASSUME NEW k \in Clicks, SignCreate(k) \/ SignDistribute(k)
      PROVE  UNCHANGED Ledger!state
  <2>1. k \in Handlers /\ req[k].op = "sign" /\ req[k] \in Preparing \cup Signing
    BY <1>1, <1>2, RequestVariants DEF SignCreate, SignDistribute, At, Handlers, TypeOK
  <2>2. PICK e \in Envelopes, st \in {"created", "distributed"} :
           envelopes[e] # "completed" /\ envelopes' = [envelopes EXCEPT ![e] = st]
    <3>1. CASE SignCreate(k)
      BY <3>1 DEF SignCreate
    <3>2. CASE SignDistribute(k)
      <4>1. req[k].envelope \in Envelopes
        BY <1>1, <2>1, <3>2, InHand DEF SignDistribute, Prepares
      <4>2. envelopes[req[k].envelope] = "created"
        BY <2>1, <3>2 DEF SignDistribute, IndInv, InPreparation
      <4>. QED
        BY <3>2, <4>1, <4>2 DEF SignDistribute
    <3>. QED
      BY <1>2, <3>1, <3>2
  <2>3. Completed' = Completed
    BY <1>1, <2>2 DEF Completed
  <2>4. req'[k].op = "sign" /\ req'[k].contract = req[k].contract
    <3>1. CASE SignCreate(k)
      BY <1>1, <2>1, <3>1, OthersWait DEF SignCreate
    <3>2. CASE SignDistribute(k)
      <4>1. req[k] \in Signing
        BY <1>1, <2>1, <3>2, RequestVariants DEF SignDistribute, At, TypeOK
      <4>. QED
        BY <1>1, <2>1, <3>2, <4>1, OthersWait DEF SignDistribute, Signing
    <3>. QED
      BY <1>2, <3>1, <3>2
  <2>5. \A r \in Handlers : r # k => req'[r] = req[r]
    BY <1>1, <1>2, <2>1, OthersWait DEF SignCreate, SignDistribute
  <2>6. SeenBy(k)' = SeenBy(k)
    BY <2>1, <2>4 DEF SeenBy
  <2>7. Seen' = Seen
    BY <2>1, <2>5, <2>6, SeenFollows
  <2>. QED
    BY <1>2, <2>3, <2>7, Stutters DEF SignCreate, SignDistribute, history
<1>3. ASSUME NEW e \in Envelopes, Complete(e)
      PROVE  Ledger!Next
  <2>1. Completed' = Completed \cup {e} /\ Seen' = Seen
    BY <1>1, <1>3 DEF Complete, Completed, Seen, SeenBy
  <2>2. Ledger!Complete(e)
    BY <1>3, <2>1 DEF Complete, history, Ledger!Complete, Completed, Seen, SeenBy
  <2>. QED
    BY <2>2 DEF Ledger!Next
<1>. QED
  BY <1>2, <1>3

\* A reset empties the ledger or leaves it; so does a request that fails.
LEMMA ResetOrLeave ==
    ASSUME TypeOK
    PROVE  /\ \A a \in Admins :
                 ResetBegin(a) \/ ResetDelete(a) => [Ledger!Next]_(Ledger!state)
           /\ \A r \in Handlers : Abort(r) => Ledger!Next
<1>1. ASSUME NEW a \in Admins, ResetBegin(a) \/ ResetDelete(a)
      PROVE  [Ledger!Next]_(Ledger!state)
  <2>1. UNCHANGED <<created, sentFor>> /\ Completed' = Completed
    BY <1>1 DEF ResetBegin, ResetDelete, history, Completed
  <2>2. Seen' = Seen
    <3>1. a \in Handlers /\ SeenBy(a) = Null /\ SeenBy(a)' = Null
      BY <1>1, OthersWait, IdleType DEF ResetBegin, ResetDelete, At, Handlers, SeenBy
    <3>2. \A r \in Handlers : r # a => req'[r] = req[r]
      BY <1>1, <3>1, OthersWait DEF ResetBegin, ResetDelete
    <3>. QED
      BY <3>1, <3>2, SeenFollows
  <2>3. CASE contracts' = contracts
    BY <2>1, <2>2, <2>3, Stutters
  <2>4. CASE contracts' = [c \in Contracts |-> Null]
    <3>1. Ledger!Reset
      BY <2>1, <2>2, <2>4 DEF Ledger!Reset, Completed, Seen, SeenBy
    <3>. QED
      BY <3>1 DEF Ledger!Next
  <2>. QED
    BY <1>1, <2>3, <2>4 DEF ResetBegin, ResetDelete
<1>2. ASSUME NEW r \in Handlers, Abort(r)
      PROVE  Ledger!Next
  <2>1. SeenBy(r)' = Null /\ \A s \in Handlers : s # r => req'[s] = req[s]
    BY <1>2, OthersWait, IdleType DEF Abort, SeenBy
  <2>2. Seen' = [Seen EXCEPT ![r] = Null]
    BY <2>1, SeenFollows
  <2>3. Completed' = Completed
    BY <1>2 DEF Abort, Completed
  <2>4. Ledger!Leave(r)
    BY <1>2, <2>2, <2>3 DEF Abort, Ledger!Leave, Completed, Seen, SeenBy
  <2>. QED
    BY <2>4 DEF Ledger!Next
<1>. QED
  BY <1>1, <1>2

\* Every other step leaves the ledger alone.
LEMMA QuietLedger ==
    ASSUME TypeOK,
           \/ \E k \in Clicks : CreateBegin(k) \/ CreateLink(k)
           \/ \E h \in Hooks : (\E e \in Envelopes : HookBegin(h, e)) \/ HookPersist(h)
           \/ \E e \in Envelopes : HookAnswer(e)
           \/ UNCHANGED vars
    PROVE  UNCHANGED Ledger!state
<1>1. UNCHANGED <<contracts, created, sentFor>> /\ Completed' = Completed
  BY DEF CreateBegin, CreateLink, HookBegin, HookPersist, HookAnswer, vars, history, Completed
<1>2. Seen' = Seen
  <2>1. ASSUME NEW k \in Clicks, CreateBegin(k) \/ CreateLink(k) PROVE Seen' = Seen
    <3>1. k \in Handlers /\ req[k].op # "sign" /\ req'[k].op # "sign"
      BY <2>1, OthersWait, IdleType DEF CreateBegin, CreateLink, At, Handlers
    <3>2. \A r \in Handlers : r # k => req'[r] = req[r]
      BY <2>1, <3>1, OthersWait DEF CreateBegin, CreateLink
    <3>. QED
      BY <3>1, <3>2, SeenFollows DEF SeenBy
  <2>2. ASSUME NEW h \in Hooks, (\E e \in Envelopes : HookBegin(h, e)) \/ HookPersist(h)
        PROVE  Seen' = Seen
    <3>1. h \in Handlers /\ req[h].op # "sign"
      BY <2>2, IdleType DEF HookBegin, HookPersist, At, Handlers
    <3>2. req'[h].op # "sign" /\ \A r \in Handlers : r # h => req'[r] = req[r]
      <4>1. CASE \E e \in Envelopes : HookBegin(h, e)
        BY <3>1, <4>1, OthersWait DEF HookBegin
      <4>2. CASE HookPersist(h)
        <5>1. req[h] \in Receiving
          BY <3>1, <4>2, RequestVariants DEF HookPersist, At, TypeOK
        <5>. QED
          BY <3>1, <4>2, <5>1, OthersWait DEF HookPersist, Receiving
      <4>. QED
        BY <2>2, <4>1, <4>2
    <3>. QED
      BY <3>1, <3>2, SeenFollows DEF SeenBy
  <2>3. CASE UNCHANGED req
    BY <2>3 DEF Seen, SeenBy
  <2>. QED
    BY <2>1, <2>2, <2>3 DEF HookAnswer, vars
<1>. QED
  BY <1>1, <1>2, Stutters

LEMMA StepOfLedger ==
    ASSUME IndInv, AckInv, [Next]_vars
    PROVE  [Ledger!Next]_(Ledger!state)
<1>1. TypeOK
  BY DEF IndInv
<1>. QED
  BY <1>1, InsertOpens, BeginSees, RecordSends, DeliverySigns, OnlyCompletes, ResetOrLeave,
     QuietLedger DEF Next, Click

\* Whatever clicks, deliveries, resets and failures do to the rows is what the ledger
\* allows.
THEOREM Refinement == Spec => ImplementsLedger
<1>1. IndInv /\ AckInv /\ [Next]_vars => [Ledger!Next]_(Ledger!state)
  BY StepOfLedger
<1>. QED
  BY <1>1, InitLedger, InitAck, NextAck, TypeCorrect, Invariance, PTL
     DEF Spec, ImplementsLedger, Ledger!Spec

-----------------------------------------------------------------------------
\* What the ledger promises.

LEMMA LedgerStarts == Ledger!Init => Ledger!TypeInv /\ Ledger!OwnEnvelopes
  BY DEF Ledger!Init, Ledger!TypeInv, Ledger!OwnEnvelopes

\* The two updates of an entry.
LEMMA EntryUpdates ==
    ASSUME NEW row \in Ledger!Entry, NEW e \in Envelopes
    PROVE  /\ LET sent == [row EXCEPT !.status = "pending_signature", !.envelope = e]
              IN  /\ sent \in Ledger!Entry
                  /\ sent.status = "pending_signature" /\ sent.envelope = e
                  /\ sent.document = row.document
           /\ LET signed == [row EXCEPT !.status = "signed", !.document = e]
              IN  /\ signed \in Ledger!Entry
                  /\ signed.status = "signed" /\ signed.document = e
                  /\ signed.envelope = row.envelope
  BY DEF Ledger!Entry

LEMMA LedgerTyped ==
    ASSUME Ledger!TypeInv, [Ledger!Next]_(Ledger!state)
    PROVE  Ledger!TypeInv'
<1>. DEFINE typed(rows, sent) == /\ rows \in [Contracts -> Ledger!Entry \cup {Null}]
                                 /\ sent \in [Envelopes -> Contracts \cup {Null}]
<1>1. CASE \E i \in Contracts : Ledger!Open(i)
  BY <1>1, LedgerRow DEF Ledger!Open, Ledger!TypeInv, Contract
<1>2. ASSUME NEW k \in Handlers, NEW i \in Contracts, NEW e \in Envelopes, Ledger!Send(k, i, e)
      PROVE  Ledger!TypeInv'
  <2>1. contracts[i] \in Ledger!Entry
    BY <1>2 DEF Ledger!Send, Ledger!TypeInv
  <2>. DEFINE row == [contracts[i] EXCEPT !.status = "pending_signature", !.envelope = e]
  <2>2. row \in Ledger!Entry
    BY <2>1, EntryUpdates
  <2>3. contracts' = [contracts EXCEPT ![i] = row]
    BY <1>2 DEF Ledger!Send
  <2>. HIDE DEF row
  <2>4. typed(contracts', sentFor')
    BY <1>2, <2>2, <2>3 DEF Ledger!Send, Ledger!TypeInv
  <2>5. Seen' \in [Handlers -> Contracts \cup {Null}]
    <3>1. Seen \in [Handlers -> Contracts \cup {Null}]
      BY DEF Ledger!TypeInv, Seen, SeenBy
    <3>2. Seen' = [Seen EXCEPT ![k] = Null]
      BY <1>2 DEF Ledger!Send, Seen, SeenBy
    <3>. QED
      BY <3>1, <3>2
  <2>6. UNCHANGED <<1 .. created, Completed>>
    BY <1>2 DEF Ledger!Send, Completed
  <2>. QED
    BY <2>4, <2>5, <2>6 DEF Ledger!TypeInv, Seen, SeenBy, Completed
<1>3. ASSUME NEW i \in Contracts, NEW e \in Envelopes, Ledger!Sign(i, e)
      PROVE  Ledger!TypeInv'
  <2>1. contracts[i] \in Ledger!Entry
    BY <1>3 DEF Ledger!Sign, Ledger!TypeInv
  <2>. DEFINE row == [contracts[i] EXCEPT !.status = "signed", !.document = e]
  <2>2. row \in Ledger!Entry
    BY <2>1, EntryUpdates
  <2>3. contracts' = [contracts EXCEPT ![i] = row]
    BY <1>3 DEF Ledger!Sign
  <2>. HIDE DEF row
  <2>4. typed(contracts', sentFor')
    BY <1>3, <2>2, <2>3 DEF Ledger!Sign, Ledger!TypeInv
  <2>. QED
    BY <1>3, <2>4 DEF Ledger!Sign, Ledger!TypeInv
<1>4. CASE \/ \E k \in Handlers : Ledger!Leave(k)
           \/ \E k \in Handlers, i \in Contracts : Ledger!See(k, i)
           \/ \E e \in Envelopes : Ledger!Complete(e)
           \/ Ledger!Reset
           \/ UNCHANGED Ledger!state
  BY <1>4 DEF Ledger!Leave, Ledger!See, Ledger!Complete, Ledger!Reset, Ledger!state,
              Ledger!TypeInv
<1>. QED
  BY <1>1, <1>2, <1>3, <1>4 DEF Ledger!Next

LEMMA LedgerOwns ==
    ASSUME Ledger!TypeInv, Ledger!OwnEnvelopes, [Ledger!Next]_(Ledger!state)
    PROVE  Ledger!OwnEnvelopes'
<1>. DEFINE own(row, i, sent, done) ==
                /\ row.status = "draft" => row = Ledger!Draft
                /\ row.status # "draft" => row.envelope # Null /\ sent[row.envelope] = i
                /\ row.status = "signed" => row.document # Null
                /\ row.document # Null => row.document \in done /\ sent[row.document] = i
            Owns(rows, sent, done) ==
                \A i \in Contracts : rows[i] # Null => own(rows[i], i, sent, done)
<1>1. Ledger!OwnEnvelopes <=> Owns(contracts, sentFor, Completed)
  BY DEF Ledger!OwnEnvelopes, Completed
<1>2. Owns(contracts', sentFor', Completed') => Ledger!OwnEnvelopes'
  BY DEF Ledger!OwnEnvelopes, Completed
<1>3. /\ contracts \in [Contracts -> Ledger!Entry \cup {Null}]
      /\ sentFor \in [Envelopes -> Contracts \cup {Null}]
      /\ Ledger!Entry = Contract /\ Null \notin Ledger!Entry /\ Null \notin Contracts
  BY LedgerRow, EngagementAssumption DEF Ledger!TypeInv
<1>4. \A i \in Contracts : contracts[i] # Null =>
         /\ contracts[i] \in Contract
         /\ contracts[i].envelope \in Envelopes \cup {Null}
         /\ contracts[i].document \in Envelopes \cup {Null}
  BY <1>3 DEF Contract
<1>5. ASSUME NEW i \in Contracts, Ledger!Open(i)
      PROVE  Ledger!OwnEnvelopes'
  <2>1. /\ contracts' = [contracts EXCEPT ![i] = Ledger!Draft]
        /\ sentFor' = sentFor /\ Completed' = Completed
    BY <1>5 DEF Ledger!Open, Completed
  <2>2. own(Ledger!Draft, i, sentFor, Completed)
    BY LedgerRow
  <2>3. Owns(contracts', sentFor', Completed')
    BY <1>1, <1>3, <2>1, <2>2
  <2>. QED
    BY <1>2, <2>3
<1>6. ASSUME NEW k \in Handlers, NEW i \in Contracts, NEW e \in Envelopes, Ledger!Send(k, i, e)
      PROVE  Ledger!OwnEnvelopes'
  <2>. DEFINE row == [contracts[i] EXCEPT !.status = "pending_signature", !.envelope = e]
  <2>1. /\ contracts[i] # Null /\ sentFor[e] = Null
        /\ contracts' = [contracts EXCEPT ![i] = row]
        /\ sentFor' = [sentFor EXCEPT ![e] = i] /\ Completed' = Completed
    BY <1>6 DEF Ledger!Send, Completed
  <2>2. /\ row.status = "pending_signature" /\ row.envelope = e
        /\ row.document = contracts[i].document
    <3>1. contracts[i] \in Ledger!Entry
      BY <1>3, <2>1
    <3>. QED
      BY <3>1 DEF Ledger!Entry
  <2>. HIDE DEF row
  <2>3. e # Null /\ \A f \in Envelopes : sentFor'[f] = IF f = e THEN i ELSE sentFor[f]
    BY <1>3, <2>1, EngagementAssumption
  <2>4. own(row, i, sentFor', Completed')
    BY <1>1, <1>3, <1>4, <2>1, <2>2, <2>3
  <2>5. \A j \in Contracts : j # i /\ contracts[j] # Null =>
           own(contracts[j], j, sentFor', Completed')
    BY <1>1, <1>3, <1>4, <2>1, <2>3
  <2>6. Owns(contracts', sentFor', Completed')
    BY <1>3, <2>1, <2>4, <2>5
  <2>. QED
    BY <1>2, <2>6
<1>7. ASSUME NEW i \in Contracts, NEW e \in Envelopes, Ledger!Sign(i, e)
      PROVE  Ledger!OwnEnvelopes'
  <2>. DEFINE row == [contracts[i] EXCEPT !.status = "signed", !.document = e]
  <2>1. /\ contracts[i] # Null /\ contracts[i].status = "pending_signature"
        /\ sentFor[e] = i /\ e \in Completed
        /\ contracts' = [contracts EXCEPT ![i] = row]
        /\ sentFor' = sentFor /\ Completed' = Completed
    BY <1>7 DEF Ledger!Sign, Completed
  <2>2. /\ row.status = "signed" /\ row.document = e
        /\ row.envelope = contracts[i].envelope
    <3>1. contracts[i] \in Ledger!Entry
      BY <1>3, <2>1
    <3>. QED
      BY <3>1 DEF Ledger!Entry
  <2>. HIDE DEF row
  <2>3. own(row, i, sentFor, Completed)
    BY <1>1, <1>3, <2>1, <2>2, EngagementAssumption
  <2>4. Owns(contracts', sentFor', Completed')
    BY <1>1, <1>3, <2>1, <2>3
  <2>. QED
    BY <1>2, <2>4
<1>8. ASSUME NEW e \in Envelopes, Ledger!Complete(e)
      PROVE  Ledger!OwnEnvelopes'
  <2>1. contracts' = contracts /\ sentFor' = sentFor /\ Completed \subseteq Completed'
    BY <1>8 DEF Ledger!Complete, Completed
  <2>2. Owns(contracts', sentFor', Completed')
    BY <1>1, <2>1
  <2>. QED
    BY <1>2, <2>2
<1>9. CASE \/ \E k \in Handlers : Ledger!Leave(k)
           \/ \E k \in Handlers, i \in Contracts : Ledger!See(k, i)
           \/ UNCHANGED Ledger!state
  <2>1. contracts' = contracts /\ sentFor' = sentFor /\ Completed' = Completed
    BY <1>9 DEF Ledger!Leave, Ledger!See, Ledger!state, Completed
  <2>2. Owns(contracts', sentFor', Completed')
    BY <1>1, <2>1
  <2>. QED
    BY <1>2, <2>2
<1>10. CASE Ledger!Reset
  BY <1>10 DEF Ledger!Reset, Ledger!OwnEnvelopes
<1>. QED
  BY <1>5, <1>6, <1>7, <1>8, <1>9, <1>10 DEF Ledger!Next

\* The promise itself: any behaviour of the ledger keeps the envelope and the document
\* of an entry to those sent for this very entry, and the document to one that the
\* artist signed, and so do the rows.
THEOREM LedgerSafe ==
    /\ Ledger!Spec => []Ledger!OwnEnvelopes
    /\ Spec => []Ledger!OwnEnvelopes
<1>1. Ledger!Spec => []Ledger!OwnEnvelopes
  <2>1. Ledger!TypeInv /\ Ledger!OwnEnvelopes /\ [Ledger!Next]_(Ledger!state) =>
           Ledger!TypeInv' /\ Ledger!OwnEnvelopes'
    BY LedgerTyped, LedgerOwns
  <2>. QED
    BY <2>1, LedgerStarts, PTL DEF Ledger!Spec
<1>. QED
  BY <1>1, Refinement, PTL DEF ImplementsLedger
=============================================================================
