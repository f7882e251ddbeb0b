\* Two jobs, cancellations, shutdowns, crashes and outages.  Cancellations and
\* shutdowns end although a child need not; a living worker records the outcomes
\* when commands do end.
SPECIFICATION FairSpec
CONSTANTS
    NumJobs = 2
    MaxPending = 2
    MaxFaults = 2

    
PROPERTIES
    FinishedIsFinal
    JobsEnd
