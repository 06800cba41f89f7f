SPECIFICATION Spec
CONSTANTS
    Text <- MCText
    Docs <- MCDocs
    BatchRows = 2
    MaxReadings = 4
INVARIANTS
    TypeOK
    EmitsReadingsInOrder
    BatchesAreBounded
    AcceptsExactlyLegal
