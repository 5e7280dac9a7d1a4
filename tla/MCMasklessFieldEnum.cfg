CONSTANTS
    NoAttr = NoAttr
    Docs <- DocsMasklessFieldEnum

INIT Init
NEXT Next

INVARIANT DeclaredBeforeUse

CHECK_DEADLOCK FALSE
