\* Changes of the sources, failed runs and edits between the change and its alert.
SPECIFICATION Spec
CONSTANTS
    Cves = {1, 2}
    OldCves = {2}
    NoRow = NoRow
    NoAlert = NoAlert
    Limit = 1
    MaxFetches = 3
    MaxFaults = 1
    MaxEdits = 1
INVARIANTS
    EvaluationInv
    RiseIsTold
PROPERTIES
    InitialStage
