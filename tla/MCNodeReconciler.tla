-------------------------- MODULE MCNodeReconciler --------------------------
EXTENDS NodeReconciler, TLC

CONSTANTS h1, h2, s1, s2, o1

\* Two machines on one address (behind NAT); s2 names its hardware node, s1's
\* USB shows its one.  o1 has neither capability.
MCReported == {<<h2, s2>>}
MCColocated == {<<h1, s1>>}
MCSameHost == {h1, h2} \X {s1, s2}
=============================================================================
