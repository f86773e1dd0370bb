\* A writer, and a request that acts on what it read before.  The run may end:
\* the upload is complete or closed.
SPECIFICATION FairSpec
CONSTANTS
    r1 = r1  r2 = r2
    Request = {r1, r2}
    Sweeper = Sweeper  NoOne = NoOne
    Total = 2
    MaxLate = 1
INVARIANTS ConfirmedIsKept PublishedIsWhole ClosedLeavesNothing
PROPERTIES AloneOnDisk KeepsPromise UploadEnds
CHECK_DEADLOCK FALSE
