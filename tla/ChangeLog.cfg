\* One device of the reader; two transactions open at a time; a page holds one
\* change, so every backlog of two takes two answers.
SPECIFICATION Spec
CONSTANTS
    Address <- Slugs
    Message <- Ns
    Writer = {w1, w2}
    Device = {d}
    From <- FromOne
    To <- ToOne
    Owner <- OwnerReader
    SyncBatch = 1
    MaxVersion <- Versions21
    NoWriter = NoWriter
INVARIANTS NothingMissed LogMatches NoCircle
PROPERTIES ChangesLandAhead DevicesGoForward
SYMMETRY WriterSymmetry
