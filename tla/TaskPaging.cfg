CONSTANTS
    MaxId = 5
    Limit = 2
    Title = {"a"}
SPECIFICATION Spec
INVARIANTS MissesOnlyForDeletes RepeatsOnlyForInserts
CHECK_DEADLOCK FALSE
