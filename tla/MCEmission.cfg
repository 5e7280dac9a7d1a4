CONSTANTS
    NoAttr = NoAttr
    Docs <- DocsEmission

INIT Init
NEXT Next

INVARIANTS
    ReferencesStayInCommand
    ObsoleteNeverEmitted
    IndexesOrderedByKey

PROPERTY
    ImplementsCFile

\* The script is a batch job: it stops after the last index, or on a fatal error.
CHECK_DEADLOCK FALSE
