CONSTANTS
    Nodes = {n1, n2}
    SoloNodes = {}
    BusyNodes = {}
    MaxJobs = 3
    CampIds = {c1}
    Tasks = {t1, t2}
    Requeuer = requeuer
    MaxNow = 0
    NewDeadlines = {0}
    MaxCrashes = 1
    Reports = {}
    NoCamp = NoCamp
    NoNode = NoNode
SPECIFICATION Spec
SYMMETRY NodeSymmetry
INVARIANTS TypeOK ChildSlots CampaignsDurable PendingIsOwed
PROPERTY KeepsCampaigns
