------------------------- MODULE NodeRegistryProofs -------------------------
(***************************************************************************)
(* For any set of nodes and any patience: the registry is typed, the focus *)
(* is on a registered node or on none, and no record is older than its     *)
(* kind allows.                                                            *)
(***************************************************************************)
EXTENDS NodeRegistry, TLAPS

Kinds == {"out", "mdns", "direct"}

\* An mDNS record's patience, too, is within the range that age is kept in.
LEMMA PatienceRange ==
    ASSUME NEW k \in Kinds
    PROVE  Patience(k) \in 0 .. StaleIntervals * DirectFactor
<1>1. StaleIntervals * DirectFactor \in Nat
  BY RegistryAssumption
<1>2. StaleIntervals <= StaleIntervals * DirectFactor
  BY RegistryAssumption
<1>. QED  BY <1>1, <1>2, RegistryAssumption DEF Patience

\* add_node leaves a fresh record of the given kind and touches no other.
LEMMA AddNodeFacts ==
    ASSUME NodeTypeOK, NEW n \in Nodes, NEW k \in {"mdns", "direct"}, AddNode(n, k)
    PROVE  /\ kind' \in [Nodes -> Kinds]
           /\ age' \in [Nodes -> 0 .. StaleIntervals * DirectFactor]
           /\ kind'[n] = k /\ age'[n] = 0
           /\ \A m \in Nodes \ {n} : kind'[m] = kind[m] /\ age'[m] = age[m]
<1>1. 0 \in 0 .. StaleIntervals * DirectFactor
  BY RegistryAssumption
<1>. QED  BY <1>1 DEF NodeTypeOK, AddNode, Kinds

\* remove_node takes the records of S out, leaves the others alone, and takes
\* the focus off a node that it removes.
LEMMA RemoveNodesFacts ==
    ASSUME NodeTypeOK, NEW S \in SUBSET Nodes, RemoveNodes(S)
    PROVE  /\ kind' \in [Nodes -> Kinds]
           /\ active' \in Nodes \cup {NoNode}
           /\ \A n \in S : kind'[n] = "out"
           /\ \A n \in Nodes \ S : kind'[n] = kind[n]
           /\ active' \notin S
           /\ active' # NoNode => active' = active
BY RegistryAssumption DEF NodeTypeOK, RemoveNodes, Kinds

\* What an eviction pass leaves registered was young enough to stay.
LEMMA RequeryFacts ==
    ASSUME NodeTypeOK, NoStaleRecord, RequeryAll
    PROVE  /\ NodeTypeOK' /\ NoStaleRecord'
           /\ FocusIsRegistered => FocusIsRegistered'
<1>. DEFINE stale == {n \in Registered : age[n] >= Patience(kind[n])}
<1>1. stale \in SUBSET Nodes
  BY DEF Registered
<1>2. RemoveNodes(stale)
  BY DEF RequeryAll
<1>3. /\ kind' \in [Nodes -> Kinds]
      /\ active' \in Nodes \cup {NoNode}
      /\ \A n \in stale : kind'[n] = "out"
      /\ \A n \in Nodes \ stale : kind'[n] = kind[n]
      /\ active' \notin stale
      /\ active' # NoNode => active' = active
  <2>. HIDE DEF stale
  <2>. QED  BY <1>1, <1>2, RemoveNodesFacts
<1>4. age' = [n \in Nodes |-> IF n \in Registered \ stale THEN age[n] + 1 ELSE 0]
  BY DEF RequeryAll
<1>5. ASSUME NEW n \in Nodes, n \in Registered \ stale
      PROVE  age[n] + 1 \in 0 .. Patience(kind[n])
  <2>1. kind[n] \in Kinds
    BY DEF NodeTypeOK, Kinds
  <2>2. Patience(kind[n]) \in 0 .. StaleIntervals * DirectFactor
    BY <2>1, PatienceRange
  <2>3. StaleIntervals * DirectFactor \in Nat
    BY RegistryAssumption
  <2>4. age[n] \in 0 .. StaleIntervals * DirectFactor
    BY DEF NodeTypeOK
  <2>5. ~ (age[n] >= Patience(kind[n]))
    BY <1>5
  <2>. QED  BY <2>2, <2>3, <2>4, <2>5
<1>6. age' \in [Nodes -> 0 .. StaleIntervals * DirectFactor]
  <2>1. ASSUME NEW n \in Nodes
        PROVE  (IF n \in Registered \ stale THEN age[n] + 1 ELSE 0)
                   \in 0 .. StaleIntervals * DirectFactor
    <3>1. StaleIntervals * DirectFactor \in Nat
      BY RegistryAssumption
    <3>2. CASE n \in Registered \ stale
      <4>1. kind[n] \in Kinds
        BY DEF NodeTypeOK, Kinds
      <4>. QED  BY <3>1, <3>2, <4>1, <1>5, PatienceRange
    <3>3. CASE n \notin Registered \ stale
      BY <3>1, <3>3
    <3>. QED  BY <3>2, <3>3
  <2>. QED  BY <1>4, <2>1
<1>7. requery' \subseteq Nodes
  BY DEF RequeryAll, Registered
<1>8. NodeTypeOK'
  BY <1>3, <1>6, <1>7 DEF NodeTypeOK, RequeryAll, Kinds
<1>9. ASSUME NEW n \in Nodes, kind'[n] # "out"
      PROVE  age'[n] <= Patience(kind'[n])
  <2>1. n \notin stale /\ kind'[n] = kind[n]
    BY <1>3, <1>9
  <2>2. n \in Registered
    BY <2>1, <1>9 DEF Registered
  <2>3. age'[n] = age[n] + 1
    BY <1>4, <2>1, <2>2
  <2>. QED  BY <1>5, <2>1, <2>2, <2>3
<1>10. NoStaleRecord'
  BY <1>9 DEF NoStaleRecord, Registered
<1>11. FocusIsRegistered => FocusIsRegistered'
  BY <1>3 DEF FocusIsRegistered, Registered
<1>. QED  BY <1>8, <1>10, <1>11

-----------------------------------------------------------------------------
\* NoStaleRecord is inductive with the type invariant, and so is
\* FocusIsRegistered.
RegistryInv == NodeTypeOK /\ NoStaleRecord /\ FocusIsRegistered

LEMMA RegistryInit == NodeInit => RegistryInv
<1>1. StaleIntervals * DirectFactor \in Nat
  BY RegistryAssumption
<1>. QED
  BY <1>1 DEF NodeInit, RegistryInv, NodeTypeOK, NoStaleRecord,
              FocusIsRegistered, Registered

\* Adding a node disturbs neither the focus nor the other records.
LEMMA AddNodeStep ==
    ASSUME RegistryInv, NEW n \in Nodes, NEW k \in {"mdns", "direct"}, AddNode(n, k),
           active' = active, alive' = alive, cached' = cached,
           resolving' \in SUBSET resolving, requery' \in SUBSET requery
    PROVE  RegistryInv'
<1>. USE DEF RegistryInv
<1>1. /\ kind' \in [Nodes -> Kinds]
      /\ age' \in [Nodes -> 0 .. StaleIntervals * DirectFactor]
      /\ kind'[n] = k /\ age'[n] = 0
      /\ \A m \in Nodes \ {n} : kind'[m] = kind[m] /\ age'[m] = age[m]
  BY AddNodeFacts
<1>2. NodeTypeOK'
  BY <1>1 DEF NodeTypeOK, Kinds
<1>3. 0 <= Patience(k)
  <2>1. StaleIntervals * DirectFactor \in Nat
    BY RegistryAssumption
  <2>. QED  BY <2>1, PatienceRange DEF Kinds
<1>4. NoStaleRecord'
  BY <1>1, <1>3 DEF NoStaleRecord, Registered
<1>5. FocusIsRegistered'
  BY <1>1 DEF FocusIsRegistered, Registered
<1>. QED  BY <1>2, <1>4, <1>5

LEMMA RegistryStep == RegistryInv /\ [RegistryNext]_nodeVars => RegistryInv'
<1>. SUFFICES ASSUME RegistryInv, [RegistryNext]_nodeVars
              PROVE  RegistryInv'
  OBVIOUS
<1>. USE DEF RegistryInv
<1>1. ASSUME NEW n \in Nodes, Register(n)
      PROVE  RegistryInv'
  BY <1>1, AddNodeStep DEF Register
<1>2. ASSUME NEW n \in Nodes, Heartbeat(n)
      PROVE  RegistryInv'
  <2>1. /\ age' = [age EXCEPT ![n] = 0]
        /\ UNCHANGED <<kind, active, resolving, requery, alive, cached>>
    BY <1>2 DEF Heartbeat
  <2>2. 0 \in 0 .. StaleIntervals * DirectFactor
    BY RegistryAssumption
  <2>3. NodeTypeOK'
    BY <2>1, <2>2 DEF NodeTypeOK
  <2>4. 0 <= Patience(kind[n])
    <3>1. StaleIntervals * DirectFactor \in Nat
      BY RegistryAssumption
    <3>. QED  BY <3>1, PatienceRange DEF NodeTypeOK, Kinds
  <2>5. NoStaleRecord'
    BY <2>1, <2>4 DEF NoStaleRecord, NodeTypeOK, Registered
  <2>6. FocusIsRegistered'
    BY <2>1 DEF FocusIsRegistered, Registered
  <2>. QED  BY <2>3, <2>5, <2>6
<1>3. ASSUME NEW n \in Nodes, Announce(n)
      PROVE  RegistryInv'
  BY <1>3 DEF Announce, NodeTypeOK, NoStaleRecord, FocusIsRegistered, Registered
<1>4. ASSUME NEW n \in Nodes, Goodbye(n)
      PROVE  RegistryInv'
  <2>1. /\ kind' \in [Nodes -> Kinds]
        /\ active' \in Nodes \cup {NoNode}
        /\ kind'[n] = "out"
        /\ \A m \in Nodes \ {n} : kind'[m] = kind[m]
        /\ active' # n
        /\ active' # NoNode => active' = active
    BY <1>4, RemoveNodesFacts, {n} \in SUBSET Nodes DEF Goodbye
  <2>2. UNCHANGED <<age, resolving, requery, alive>> /\ cached' = cached \ {n}
    BY <1>4 DEF Goodbye
  <2>3. NodeTypeOK'
    BY <2>1, <2>2 DEF NodeTypeOK, Kinds
  <2>4. NoStaleRecord'
    BY <2>1, <2>2 DEF NoStaleRecord, Registered
  <2>5. FocusIsRegistered'
    BY <2>1 DEF FocusIsRegistered, Registered
  <2>. QED  BY <2>3, <2>4, <2>5
<1>5. ASSUME NEW n \in Nodes, Resolved(n)
      PROVE  RegistryInv'
  BY <1>5, AddNodeStep DEF Resolved
<1>6. ASSUME NEW n \in Nodes, Unresolved(n)
      PROVE  RegistryInv'
  BY <1>6 DEF Unresolved, NodeTypeOK, NoStaleRecord, FocusIsRegistered, Registered
<1>7. CASE RequeryAll
  BY <1>7, RequeryFacts
<1>8. ASSUME NEW n \in Nodes, NEW got \in BOOLEAN, Requeried(n, got)
      PROVE  RegistryInv'
  <2>1. CASE got
    BY <1>8, <2>1, AddNodeStep DEF Requeried
  <2>2. CASE ~ got
    BY <1>8, <2>2 DEF Requeried, NodeTypeOK, NoStaleRecord, FocusIsRegistered,
                      Registered
  <2>. QED  BY <2>1, <2>2
<1>9. ASSUME NEW n \in Nodes, Dies(n) \/ Boots(n) \/ RecordsExpire(n)
      PROVE  RegistryInv'
  BY <1>9 DEF Dies, Boots, RecordsExpire, NodeTypeOK, NoStaleRecord,
              FocusIsRegistered, Registered
<1>10. ASSUME NEW n \in Nodes, ActivateNode(n)
       PROVE  RegistryInv'
  BY <1>10 DEF ActivateNode, SetActive, NodeTypeOK, NoStaleRecord,
               FocusIsRegistered, Registered
<1>11. CASE UNCHANGED nodeVars
  BY <1>11 DEF nodeVars, NodeTypeOK, NoStaleRecord, FocusIsRegistered, Registered
<1>. QED
  BY <1>1, <1>2, <1>3, <1>4, <1>5, <1>6, <1>7, <1>8, <1>9, <1>10, <1>11
     DEF RegistryNext, NodeNext, Resolves

\* Every variable of the registry keeps its type, in particular age stays below
\* the longest patience.
THEOREM RegistryTyped == RegistrySpec => []NodeTypeOK
<1>1. RegistryInv => NodeTypeOK
  BY DEF RegistryInv
<1>. QED  BY <1>1, RegistryInit, RegistryStep, PTL DEF RegistrySpec

\* No record outlives the passes its kind may be silent for.
THEOREM RecordsFresh == RegistrySpec => []NoStaleRecord
<1>1. RegistryInv => NoStaleRecord
  BY DEF RegistryInv
<1>. QED  BY <1>1, RegistryInit, RegistryStep, PTL DEF RegistrySpec

\* The input focus is never on a node that is not registered, whichever of a
\* goodbye, an eviction, a late resolution and an activation come in between.
THEOREM FocusRegistered == RegistrySpec => []FocusIsRegistered
<1>1. RegistryInv => FocusIsRegistered
  BY DEF RegistryInv
<1>. QED  BY <1>1, RegistryInit, RegistryStep, PTL DEF RegistrySpec
=============================================================================
