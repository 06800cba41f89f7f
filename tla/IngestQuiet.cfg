SPECIFICATION QuietSpec
CONSTANTS
    k1 = k1
    k2 = k2
    good = good
    twin = twin
    fix = fix
    torn = torn
    cut = cut
    garbled = garbled
    oversize = oversize
    alien = alien
    empty = empty
    Message = {twin, fix}
    Key = {k1, k2}
    MaxPublished = 2
    MaxAttempts = 2
    Doc <- MCDoc
INVARIANT
    QuietCorrectionWins
