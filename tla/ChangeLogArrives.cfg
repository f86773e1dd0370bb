\* One transaction at a time, so that the device's calls, losses and waits are
\* what varies; two messages in pages of one.
SPECIFICATION FairSpec
CONSTANTS
    Address <- Slugs
    Message <- Ns
    Writer = {w1}
    Device = {d}
    From <- FromOne
    To <- ToOne
    Owner <- OwnerReader
    SyncBatch = 1
    MaxVersion <- Versions1
    NoWriter = NoWriter
PROPERTIES EveryChangeArrives
