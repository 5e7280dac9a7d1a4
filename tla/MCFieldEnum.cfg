CONSTANTS
    NoAttr = NoAttr
    Docs <- DocsFieldEnum

INIT Init
NEXT Next

INVARIANT FieldEnumIndicesSequential

CHECK_DEADLOCK FALSE
