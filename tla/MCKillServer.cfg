CONSTANTS
    RebootPhrase = RebootPhrase
    Payloads = {RebootPhrase, OtherPayload}
    PyMajor = 2
    MaxSends = 4
    MaxCopies = 2
    BufCap = 2

SPECIFICATION Spec

PROPERTY
    ImplementsRebootService

\* Once every datagram is consumed the loop waits in recvfrom for ever.
CHECK_DEADLOCK FALSE
