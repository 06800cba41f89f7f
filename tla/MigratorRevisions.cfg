SPECIFICATION Spec
CONSTANTS
    old = old
    new = new
    Proc = {old, new}
    NoProc = NoProc
    Newest <- TwoRevisions
    Commands <- Boot
    ForceVersions = {}
    MaxCommands = 2
INVARIANT
    RevisionStartsAreSafe
