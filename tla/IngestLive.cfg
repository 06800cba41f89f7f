SPECIFICATION LiveSpec
CONSTANTS
    k1 = k1
    k2 = k2
    good = good
    twin = twin
    fix = fix
    torn = torn
    cut = cut
    garbled = garbled
    oversize = oversize
    alien = alien
    empty = empty
    Message = {twin}
    Key = {k1, k2}
    MaxPublished = 1
    MaxAttempts = 2
    Doc <- MCDoc
PROPERTIES
    EverySettles
    EveryRunEnds
