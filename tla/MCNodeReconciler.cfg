CONSTANTS
    h1 = h1
    h2 = h2
    s1 = s1
    s2 = s2
    o1 = o1
    Nodes = {h1, h2, s1, s2, o1}
    Hardware = {h1, h2}
    Software = {s1, s2}
    Reported <- MCReported
    Colocated <- MCColocated
    SameHost <- MCSameHost
    None = None
SPECIFICATION ReconcilerSpec
INVARIANTS ReconcilerTypeOK EveryNodeListed
PROPERTIES PartnerKept
