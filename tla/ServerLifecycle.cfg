SPECIFICATION LiveSpec
CONSTANTS
    Request = {r1, r2}
    Roles <- MCRoles
INVARIANTS
    TypeOK
    NothingLeaks
    ClosedUnderHandler
    CleanExit
    IInv
PROPERTY
    StopsWhenTold
