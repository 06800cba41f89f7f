CONSTANTS
    Request <- MCRequest
    Call <- MCCall
    MaxConns = 2
    MaxId = 2
    Title = {"a", "b"}
CONSTRAINT Named
SPECIFICATION Spec
INVARIANTS TypeOK IInv
PROPERTIES Contract EveryoneAnswered
