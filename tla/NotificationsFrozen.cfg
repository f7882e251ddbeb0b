\* Two events; Core is restored from a backup once.
SPECIFICATION Spec
CONSTANTS
    MaxAttempts = 1
    BatchSize = 1
    MaxParts = 2
    MaxEvents = 2
    MaxChanges = 1
INVARIANT
    OneText
