CONSTANTS
    Inventory <- TwoCards
    Gpus = {0, 1}
    Seats = {0, 1, 2, 3}
    StartSeats = 1
    SeatTargets = {1, 2}
    Creators = {poll}
    Destroyers = {d1, d2}
    scaler = scaler
    MaxChanges = 1
    MaxHints = 1
    Hubs = {h1, h2}
    OtherHubs = {h2}
    NoSeat = NoSeat
    StartKept = {}
    MaxPlugs = 3
SPECIFICATION HotFairSpec
INVARIANTS HotTypeOK EncoderBooks NoIdleRestart
PROPERTIES PopsItsOwn HubServedTogether SeatCountConverges
