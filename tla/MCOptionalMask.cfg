CONSTANTS
    NoAttr = NoAttr
    Docs <- DocsOptionalMask

INIT Init
NEXT Next

INVARIANT OptionalMaskEmitted

CHECK_DEADLOCK FALSE
