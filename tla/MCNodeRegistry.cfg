CONSTANTS
    Nodes = {n1, n2}
    MdnsNodes = {n1, n2}
    DirectNodes = {n2}
    StaleIntervals = 2
    DirectFactor = 2
    NoNode = NoNode
SPECIFICATION RegistryFairSpec
INVARIANTS NodeTypeOK FocusIsRegistered NoStaleRecord
PROPERTIES SilentNodeLeaves
