CONSTANTS
    NoAttr = NoAttr
    Docs <- DocsDuplicateKey

INIT Init
NEXT Next

INVARIANT NoDuplicateIdentifier

CHECK_DEADLOCK FALSE
