\* Changes of the sources, failed runs and edits between the change and its alert.
SPECIFICATION Spec
CONSTANTS
    Cves = {1}
    OldCves = {}
    NoRow = NoRow
    NoAlert = NoAlert
    Limit = 1
    MaxFetches = 4
    MaxFaults = 0
    MaxEdits = 1
PROPERTIES
    LaterRiseAlerts
