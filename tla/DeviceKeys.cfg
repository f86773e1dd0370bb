\* Two devices that enrol and may change their keys, one of them syncing, and
\* a third with the shared secret; the address is registered once.
SPECIFICATION Spec
CONSTANTS
    d1 = d1  d2 = d2  d3 = d3  k1 = k1  k2 = k2
    Device = {d1, d2, d3}
    PublicKey = {k1, k2}
    Made <- TwoChange
    Syncing = {d1}
    MaxAsked = 2
    DevicesMax = 2
    MaxVersion = 2
    MaxLives = 1
    NoKey = NoKey  NoIdentity = NoIdentity  NoRow = NoRow
INVARIANTS NoneLockedOut NothingAfterSignOut ParkedIsWoken
PROPERTIES SignedOutStaysOut
SYMMETRY KeySymmetry
CHECK_DEADLOCK FALSE
