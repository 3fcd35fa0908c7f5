----------------------------- MODULE MCJobQueue -----------------------------
EXTENDS JobQueue, TLC

\* Nodes are interchangeable: nothing orders them and no property names one.
NodeSymmetry == Permutations(Nodes) \cup Permutations(Tasks)
=============================================================================
