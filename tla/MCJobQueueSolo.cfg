CONSTANTS
    Nodes = {n1}
    SoloNodes = {n1}
    BusyNodes = {n1}
    MaxJobs = 2
    CampIds = {}
    Tasks = {t1, t2}
    Requeuer = requeuer
    MaxNow = 1
    NewDeadlines = {1}
    MaxCrashes = 0
    Reports = {"ack", "progress", "failed"}
    NoCamp = NoCamp
    NoNode = NoNode
SPECIFICATION FairSpec
INVARIANT PendingIsOwed
PROPERTIES ReopenedOnlyByLateSend PendingServed ExpiredSettles
