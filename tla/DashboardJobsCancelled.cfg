\* A cancelled queued job against the worker's busy branch.
SPECIFICATION Spec
CONSTANTS
    NumJobs = 1
    MaxPending = 1
    MaxFaults = 0
PROPERTIES
    CancelledIsFinal
