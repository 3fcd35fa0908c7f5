CONSTANTS
    Nodes = {n1}
    SoloNodes = {n1}
    BusyNodes = {n1}
    MaxJobs = 2
    CampIds = {}
    Tasks = {t1, t2}
    Requeuer = requeuer
    MaxNow = 0
    NewDeadlines = {0}
    Reports = {"ack", "progress", "completed", "failed"}
    MaxCrashes = 0
    NoCamp = NoCamp
    NoNode = NoNode
SPECIFICATION Spec
INVARIANT ConnectedIsReachable
