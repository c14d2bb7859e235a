\* Three lives, caps raised and lowered, stops, crashes and a call that diverges.
SPECIFICATION FairSpec
CONSTANTS
    Asks <- MCAsks
    Actors <- MCActors
    ActorOf <- MCActorOf
    ActorOrder <- MCActorOrder
    After <- MCAfter
    Needed <- MCNeeded
    TypedAsks <- MCTyped
    Diverging <- MCDiverging
    Caps = {1, 2}
    RepairAttempts = 1
    NudgeAttempts = 1
    MaxLives = 3
INVARIANTS SlotsExact WorkConserving TurnHasOwner HeardIsRecorded
PROPERTIES TranscriptKept AskServed
\* A settled run may stop for good.
CHECK_DEADLOCK FALSE
