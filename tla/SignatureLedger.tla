--------------------------- MODULE SignatureLedger ---------------------------
(***************************************************************************)
(* What the engagement contracts of an artist promise, whatever clicks,    *)
(* deliveries, resets and failed calls implement it: a ledger in which an  *)
(* entry is opened once, sent by those who saw it as a draft, each time    *)
(* with an envelope of its own, and signed by an envelope that was sent    *)
(* for this very entry, after the artist signed that one.                  *)
(***************************************************************************)
CONSTANTS Ids, Envelopes, Senders, None

Entry == [status : {"draft", "pending_signature", "signed"},
          envelope : Envelopes \cup {None}, document : Envelopes \cup {None}]

Draft == [status |-> "draft", envelope |-> None, document |-> None]

VARIABLES
    ledger,     \* the entries, None where there is none
    opened,     \* the entries there ever were
    completed,  \* the envelopes that the artist signed
    sentFor,    \* the entry that each envelope was sent for
    seen        \* the entry that each sender saw as a draft and has not sent yet

state == <<ledger, opened, completed, sentFor, seen>>

TypeInv ==
    /\ ledger \in [Ids -> Entry \cup {None}]
    /\ opened \subseteq Ids
    /\ completed \subseteq Envelopes
    /\ sentFor \in [Envelopes -> Ids \cup {None}]
    /\ seen \in [Senders -> Ids \cup {None}]

Init ==
    /\ ledger = [i \in Ids |-> None]
    /\ opened = {}
    /\ completed = {}
    /\ sentFor = [e \in Envelopes |-> None]
    /\ seen = [k \in Senders |-> None]

\* A new entry; none comes back after a reset.
Open(i) ==
    /\ i \notin opened
    /\ opened' = opened \cup {i}
    /\ ledger' = [ledger EXCEPT ![i] = Draft]
    /\ UNCHANGED <<completed, sentFor, seen>>

\* A sender sees a draft.
See(k, i) ==
    /\ seen[k] = None
    /\ ledger[i] = Draft
    /\ seen' = [seen EXCEPT ![k] = i]
    /\ UNCHANGED <<ledger, opened, completed, sentFor>>

\* The entry is sent, with an envelope that was nobody's.  A second sender who saw
\* the draft sends it again, also when it is signed by now.
Send(k, i, e) ==
    /\ seen[k] = i
    /\ ledger[i] # None
    /\ sentFor[e] = None
    /\ ledger' = [ledger EXCEPT ![i] = [@ EXCEPT !.status = "pending_signature",
                                                 !.envelope = e]]
    /\ sentFor' = [sentFor EXCEPT ![e] = i]
    /\ seen' = [seen EXCEPT ![k] = None]
    /\ UNCHANGED <<opened, completed>>

\* A sender fails, or finds no entry any more.
Leave(k) ==
    /\ seen' = [seen EXCEPT ![k] = None]
    /\ UNCHANGED <<ledger, opened, completed, sentFor>>

\* The artist signs an envelope, also before its entry counts as sent.
Complete(e) ==
    /\ completed' = completed \cup {e}
    /\ UNCHANGED <<ledger, opened, sentFor, seen>>

\* The entry is signed, by an envelope that it was sent with.
Sign(i, e) ==
    /\ ledger[i] # None
    /\ ledger[i].status = "pending_signature"
    /\ sentFor[e] = i
    /\ e \in completed
    /\ ledger' = [ledger EXCEPT ![i] = [@ EXCEPT !.status = "signed", !.document = e]]
    /\ UNCHANGED <<opened, completed, sentFor, seen>>

\* The agency starts over.
Reset ==
    /\ ledger' = [i \in Ids |-> None]
    /\ UNCHANGED <<opened, completed, sentFor, seen>>

Next ==
    \/ \E i \in Ids : Open(i)
    \/ \E k \in Senders : Leave(k)
    \/ \E k \in Senders, i \in Ids : See(k, i)
    \/ \E k \in Senders, i \in Ids, e \in Envelopes : Send(k, i, e)
    \/ \E i \in Ids, e \in Envelopes : Sign(i, e)
    \/ \E e \in Envelopes : Complete(e)
    \/ Reset

Spec == Init /\ [][Next]_state

\* The envelope and the document of an entry were sent for this very entry, and
\* the document is one that the artist signed, whoever sent in between and
\* whatever was reset.
OwnEnvelopes ==
    \A i \in Ids : ledger[i] # None =>
        LET entry == ledger[i] IN
        /\ entry.status = "draft" => entry = Draft
        /\ entry.status # "draft" => entry.envelope # None /\ sentFor[entry.envelope] = i
        /\ entry.status = "signed" => entry.document # None
        /\ entry.document # None => entry.document \in completed /\ sentFor[entry.document] = i
=============================================================================
