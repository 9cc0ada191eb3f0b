\* Two clicks, two deliveries and a reset race.
SPECIFICATION FairSpec
CONSTANTS
    Clicks = {k1, k2}
    Hooks = {h1, h2}
    Admins = {a1}
    Envelopes = {e1, e2}
    MaxContracts = 2
    Null = Null
INVARIANTS
    SignedHasDocument
    EffectiveOnce
PROPERTIES
    SignedForGood
    SignatureCounts
    ImplementsLedger
CHECK_DEADLOCK FALSE
