CONSTANTS
    NoAttr = NoAttr
    Docs <- DocsForwardRef

INIT Init
NEXT Next

INVARIANT DeclaredBeforeUse

CHECK_DEADLOCK FALSE
