\* Two events, texts of up to two parts, two attempts; the credential is
\* replaced once or Core is restored or pruned once.
SPECIFICATION Spec
CONSTANTS
    MaxAttempts = 2
    BatchSize = 2
    MaxParts = 2
    MaxEvents = 2
    MaxChanges = 1
INVARIANTS
    AtMostOnce
    LedgerInv
PROPERTIES
    EventuallySettled
