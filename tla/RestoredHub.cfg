\* One transaction at a time; one device of the reader; one restore.
SPECIFICATION RSpec
CONSTANTS
    Address <- Slugs
    Message <- Ns
    Writer = {w1}
    Device = {d}
    From <- FromOne
    To <- ToOne
    Owner <- OwnerReader
    SyncBatch = 1
    MaxVersion <- Versions1
    NoWriter = NoWriter
    MaxRestores = 1
INVARIANTS ResetRebuilds
