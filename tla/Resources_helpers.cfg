CONSTANTS
    Clients = {owner, other}
    Owner = owner
    MaxAttempts = 2
    OldRules <- MCOldRules
    NewRules = {"new"}
SPECIFICATION MCSpec
INVARIANTS
    CreatedAsAsked
    UpdateHolds
    ListAsAsked
CONSTRAINT Bounds
CHECK_DEADLOCK FALSE
