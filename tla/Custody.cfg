CONSTANTS
    Mail = {m1}
    Laptop = Laptop
    Phone = Phone
    Desk1 = Desk1
    Desk2 = Desk2
    Poller = {Desk1, Desk2}
    Device = {Phone}
    Address <- Addresses
    From <- FromS
    To <- ToR
    Owner <- ROwns
    PollBatch = 1
    RingSize = 2
    MaxN = 1
    Late = 1
    NoMail = NoMail
    Rung = {"read"}
SPECIFICATION Spec
INVARIANTS CustodyIsHeld ReceiptsAccounted ReceiptsToldOnce ToldTheTruth
PROPERTIES KeepsMailPromise
SYMMETRY DeskSymmetry
