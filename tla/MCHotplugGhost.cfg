CONSTANTS
    Inventory <- TwoCards
    Gpus = {0, 1}
    Seats = {0, 1, 2}
    StartSeats = 1
    SeatTargets = {2}
    Creators = {poll}
    Destroyers = {d1, d2}
    scaler = scaler
    MaxChanges = 0
    MaxHints = 0
    Hubs = {h1, h2}
    OtherHubs = {}
    NoSeat = NoSeat
    StartKept = {1}
    MaxPlugs = 4
SPECIFICATION HotSpec
INVARIANTS NoGhostSeat
