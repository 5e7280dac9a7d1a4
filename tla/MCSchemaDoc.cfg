CONSTANTS
    Inputs <- MCInputs
SPECIFICATION Spec
INVARIANTS
    TypeOK
    RefsResolve
    AnchorsUniqueWhenPlain
    ConditionIsGoverningIf
CHECK_DEADLOCK FALSE
