CONSTANTS
    Nodes = {n1}
    Inits = {i1, i2}
    Replies = {r1, r2, r3}
    NoKey = NoKey
    NoReply = NoReply
    NoInit = NoInit
    Size = 2
    MaxCounter = 2
    MaxRestarts = 1
SPECIFICATION ChannelFairSpec
INVARIANTS ChannelTypeOK AdmitsExactly NoReplay SessionsMatch
PROPERTIES KeepsPromise SessionInTheEnd
