\* Three subagents under a cap that moves between one, two and three, perhaps for ever.
SPECIFICATION Spec
CONSTANTS
    Subagents <- MCSubagents
    Limits = {1, 2, 3}
    MaxQueue = 1
INVARIANTS SeatsExact NoIdleSeat
PROPERTIES ParkedNotOvertaken ParkedResumes OverrunEnds
\* A settled run may stop for good.
CHECK_DEADLOCK FALSE
