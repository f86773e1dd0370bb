\* Two calls of the other address; one change of the log.
SPECIFICATION Spec
CONSTANTS
    MaxParked = 2
    MaxLog = 1
    None = None
INVARIANTS HearsItsOwn HearsTyping HearsPresence ShowsWhatItEchoes
