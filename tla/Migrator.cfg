SPECIFICATION LiveSpec
CONSTANTS
    old = old
    new = new
    Proc = {old, new}
    NoProc = NoProc
    Newest <- TwoRevisions
    Commands <- AllCommands
    ForceVersions = {0, 1, 2}
    MaxCommands = 4
INVARIANTS
    TypeOK
    SchemaMatchesVersion
    OkMeansDone
PROPERTY
    OneMigrationAtATime
    NobodyWaitsForever
