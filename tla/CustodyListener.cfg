CONSTANTS
    Mail = {m1, m2}
    Laptop = Laptop
    Phone = Phone
    Desk1 = Desk1
    Desk2 = Desk2
    Poller = {Laptop}
    Device = {}
    Address <- Addresses
    From <- FromS
    To <- ToR
    Owner <- ROwns
    PollBatch = 2
    RingSize = 1
    MaxN = 2
    Late = 0
    NoMail = NoMail
    Rung = {}
SPECIFICATION FairSpec
PROPERTIES SurfacedOnce RetryAnswersOriginal QueueDrains
