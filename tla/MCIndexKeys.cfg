CONSTANTS
    NoAttr = NoAttr
    Docs <- DocsIndexKeys

INIT Init
NEXT Next

INVARIANT IndexesOrderedByKey

CHECK_DEADLOCK FALSE
