CONSTANTS
    NoAttr = NoAttr
    Docs <- DocsLengthLocation

INIT Init
NEXT Next

INVARIANT LengthLocationPerSpec

CHECK_DEADLOCK FALSE
