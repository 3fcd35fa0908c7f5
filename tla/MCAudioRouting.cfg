CONSTANTS
    Nodes = {n1, n2}
    MdnsNodes = {n1, n2}
    DirectNodes = {n1, n2}
    StaleIntervals = 2
    DirectFactor = 3
    NoNode = NoNode
    MaxQueue = 2
    Calls = {k1, k2}
SPECIFICATION AudioFairSpec
INVARIANTS AudioTypeOK OneMachineHeard DisabledIsSilent
PROPERTIES AudioCatchesUp
