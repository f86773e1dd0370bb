\* One more device than DEVICES_MAX; the address leaves and registers again.
SPECIFICATION Spec
CONSTANTS
    d1 = d1  d2 = d2  d3 = d3  k1 = k1  k2 = k2
    Device = {d1, d2, d3}
    PublicKey = {k1, k2}
    Made <- OneEach
    Syncing = {}
    MaxAsked = 2
    DevicesMax = 2
    MaxVersion = 1
    MaxLives = 2
    NoKey = NoKey  NoIdentity = NoIdentity  NoRow = NoRow
INVARIANTS CopiesAreCurrent
SYMMETRY DeviceSymmetry
CHECK_DEADLOCK FALSE
