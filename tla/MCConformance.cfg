SPECIFICATION LaneSpec
CONSTANTS
    Rows <- MCRows
    Cases <- MCCases
    Entries <- MCEntries
    MaxWire = 2
    Checked <- MCChecked
    Fitting <- MCFitting
    Blank <- MCBlank
INVARIANTS
    Honest
    NoFalseAlarm
CHECK_DEADLOCK FALSE
