CONSTANTS
    NoAttr = NoAttr
    Docs <- DocsFatal

INIT Init
NEXT Next

INVARIANT NoOutputOnFatal

CHECK_DEADLOCK FALSE
