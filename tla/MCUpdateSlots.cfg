CONSTANT MaxAttempts = 3
SPECIFICATION UpdSpec
INVARIANTS UpdTypeOK ActiveAccounted
PROPERTIES OnlyPendingRolledBack
