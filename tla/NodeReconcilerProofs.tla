------------------------ MODULE NodeReconcilerProofs ------------------------
(***************************************************************************)
(* What a pass of the reconciler keeps, for all nodes and signals.  The    *)
(* argument is about one pass: no two of its merges are for the same       *)
(* hardware node, since each strategy looks only at nodes that the         *)
(* stronger ones left free.                                                *)
(***************************************************************************)
EXTENDS NodeReconciler, TLAPS

\* A record has a software node only if it is listed.
RecordsFit == \A h \in Hardware : ~reconciled[h].listed => reconciled[h].sw = None

ReconcilerInv == ReconcilerTypeOK /\ RecordsFit /\ EveryNodeListed

LEMMA PicksMatch ==
    ASSUME NEW signal, NEW free, NEW m \in Picks(signal, free)
    PROVE  /\ m \subseteq Hardware \X Software
           /\ Ends(m) \subseteq free
           /\ \A p, q \in m : p[1] = q[1] => p = q
BY DEF Picks, Ends

LEMMA InEnds ==
    ASSUME NEW m, NEW p \in m
    PROVE  p[1] \in Ends(m) /\ p[2] \in Ends(m)
BY DEF Ends

LEMMA ByOfPairs ==
    ASSUME NEW m, NEW h, NEW method, NEW r \in By(m, h, method)
    PROVE  \E p \in m : p[1] = h /\ r = Merged(p[2], method)
BY DEF By

\* All that a pass does to the records.
LEMMA PassFacts ==
    ASSUME ReconcilerTypeOK, RecordsFit, NEW bindings, Pass(bindings)
    PROVE  \E merges \in SUBSET (Hardware \X Software) :
        /\ \A p \in merges : reconciled'[p[1]].sw = p[2] /\ reconciled'[p[1]].listed
        /\ \A p \in merges : reconciled[p[1]].listed => p[2] = bindings[p[1]]
        /\ \A h \in Hardware : (\A p \in merges : p[1] # h) =>
              \/ reconciled'[h] = reconciled[h] /\ (h \in nodes => reconciled[h].listed)
              \/ reconciled'[h] = HardwareOnly /\ ~reconciled[h].listed
        /\ \A h \in Hardware : reconciled'[h] \in Records
        /\ DOMAIN reconciled' = Hardware
        /\ reconciled' = [h \in Hardware |-> reconciled'[h]]
        /\ alone' = alone \cup
              {s \in Software \cap nodes :
                  s \notin Ends(merges) /\ \A h \in Hardware : reconciled'[h].sw # s}
        /\ passed' = nodes
<1> DEFINE explicit == Explicit(bindings)
           free == Free(explicit)
<1> DEFINE Recorded(reports, usb, hosts) ==
        /\ reconciled' = [h \in Hardware |->
              LET new == By(explicit, h, "explicit") \cup By(reports, h, "self_report")
                            \cup By(usb, h, "usb") \cup By(hosts, h, "ip")
              IN  IF new # {} THEN CHOOSE r \in new : TRUE
                  ELSE IF h \in nodes /\ ~reconciled[h].listed THEN HardwareOnly
                  ELSE reconciled[h]]
        /\ alone' = alone \cup Strays(Ends(explicit \cup reports \cup usb \cup hosts))
        /\ passed' = nodes
<1>0. \E reports \in Picks(Reported, free) :
      \E usb \in Picks(Colocated, free \ Ends(reports)) :
      \E hosts \in Picks(SameHost, free \ Ends(reports \cup usb)) :
          Recorded(reports, usb, hosts)
  BY DEF Pass
<1>a. PICK reports \in Picks(Reported, free) :
        \E usb \in Picks(Colocated, free \ Ends(reports)) :
        \E hosts \in Picks(SameHost, free \ Ends(reports \cup usb)) :
            Recorded(reports, usb, hosts)
  BY <1>0
<1>b. PICK usb \in Picks(Colocated, free \ Ends(reports)) :
        \E hosts \in Picks(SameHost, free \ Ends(reports \cup usb)) :
            Recorded(reports, usb, hosts)
  BY <1>a
<1>1. PICK hosts \in Picks(SameHost, free \ Ends(reports \cup usb)) :
            Recorded(reports, usb, hosts)
  BY <1>b
<1> DEFINE merges == explicit \cup reports \cup usb \cup hosts
           new(h) == By(explicit, h, "explicit") \cup By(reports, h, "self_report")
                        \cup By(usb, h, "usb") \cup By(hosts, h, "ip")
<1>2. \A h \in Hardware : reconciled'[h] = IF new(h) # {} THEN CHOOSE r \in new(h) : TRUE
                  ELSE IF h \in nodes /\ ~reconciled[h].listed THEN HardwareOnly
                  ELSE reconciled[h]
  BY <1>1
<1>3. /\ explicit \subseteq Hardware \X Software
      /\ \A p \in explicit : bindings[p[1]] = p[2]
  BY DEF Explicit
<1>4. /\ reports \subseteq Hardware \X Software /\ Ends(reports) \subseteq free
      /\ \A p, q \in reports : p[1] = q[1] => p = q
  BY PicksMatch
<1>5. /\ usb \subseteq Hardware \X Software /\ Ends(usb) \subseteq free \ Ends(reports)
      /\ \A p, q \in usb : p[1] = q[1] => p = q
  BY PicksMatch
<1>6. /\ hosts \subseteq Hardware \X Software
      /\ Ends(hosts) \subseteq free \ Ends(reports \cup usb)
      /\ \A p, q \in hosts : p[1] = q[1] => p = q
  <2> DEFINE left == free \ Ends(reports \cup usb)
  <2>1. hosts \in Picks(SameHost, left)
    OBVIOUS
  <2> HIDE DEF left
  <2>2. /\ hosts \subseteq Hardware \X Software /\ Ends(hosts) \subseteq left
        /\ \A p, q \in hosts : p[1] = q[1] => p = q
    BY <2>1, PicksMatch
  <2> QED
    BY <2>2 DEF left
<1>7. /\ \A p \in explicit : p[1] \in Ends(explicit)
      /\ \A p \in reports : p[1] \in Ends(reports) /\ p[1] \in Ends(reports \cup usb)
      /\ \A p \in usb : p[1] \in Ends(usb) /\ p[1] \in Ends(reports \cup usb)
      /\ \A p \in hosts : p[1] \in Ends(hosts)
  <2> HIDE DEF explicit, free
  <2>1. \A p \in explicit : p[1] \in Ends(explicit)
    BY InEnds
  <2>2. \A p \in hosts : p[1] \in Ends(hosts)
    BY InEnds
  <2>3. \A p \in reports : p[1] \in Ends(reports) /\ p[1] \in Ends(reports \cup usb)
    BY DEF Ends
  <2>4. \A p \in usb : p[1] \in Ends(usb) /\ p[1] \in Ends(reports \cup usb)
    BY DEF Ends
  <2> QED
    BY <2>1, <2>2, <2>3, <2>4
<1>8. \A h \in free : h \notin Ends(explicit) /\ (h \in Hardware => ~reconciled[h].listed)
  BY DEF Free
<1>9. merges \in SUBSET (Hardware \X Software)
  BY <1>3, <1>4, <1>5, <1>6
<1>10. \A h \in Hardware : \A r \in new(h) :
          \E p \in merges : p[1] = h /\ r.sw = p[2] /\ r.listed /\ r \in Records
  <2>1. \A s \in Software, m \in Methods :
            Merged(s, m).sw = s /\ Merged(s, m).listed /\ Merged(s, m) \in Records
    BY DEF Merged, Records
  <2>2. {"explicit", "self_report", "usb", "ip"} \subseteq Methods
    BY DEF Methods
  <2> QED
    BY <1>9, <2>1, <2>2, ByOfPairs
<1>11. \A p \in merges : new(p[1]) # {}
  BY DEF By
<1> HIDE DEF explicit, free, new
<1>12. \A p, q \in merges : p[1] = q[1] => p[2] = q[2]
  BY <1>3, <1>4, <1>5, <1>6, <1>7, <1>8
<1>13. \A p \in merges : reconciled[p[1]].listed => p[2] = bindings[p[1]]
  BY <1>3, <1>4, <1>5, <1>6, <1>7, <1>8
<1> HIDE DEF merges
<1>14. \A h \in Hardware : new(h) # {} => reconciled'[h] \in new(h)
  BY <1>2
<1>15. \A p \in merges : reconciled'[p[1]].sw = p[2] /\ reconciled'[p[1]].listed
  <2> SUFFICES ASSUME NEW p \in merges
               PROVE  reconciled'[p[1]].sw = p[2] /\ reconciled'[p[1]].listed
    OBVIOUS
  <2>1. p[1] \in Hardware
    BY <1>9
  <2>2. PICK q \in merges : q[1] = p[1] /\ reconciled'[p[1]].sw = q[2]
                                        /\ reconciled'[p[1]].listed
    BY <1>10, <1>11, <1>14, <2>1
  <2> QED
    BY <1>12, <2>2
<1>16. ASSUME NEW h \in Hardware, \A p \in merges : p[1] # h
       PROVE  \/ reconciled'[h] = reconciled[h] /\ (h \in nodes => reconciled[h].listed)
              \/ reconciled'[h] = HardwareOnly /\ ~reconciled[h].listed
  <2>1. new(h) = {}
    BY <1>10, <1>16
  <2> QED
    BY <1>2, <2>1
<1>17. ASSUME NEW h \in Hardware PROVE reconciled'[h] \in Records
  <2>1. HardwareOnly \in Records /\ reconciled[h] \in Records
    BY DEF HardwareOnly, Records, Methods, ReconcilerTypeOK
  <2> QED
    BY <1>2, <1>10, <1>14, <2>1
<1>18. DOMAIN reconciled' = Hardware /\ reconciled' = [h \in Hardware |-> reconciled'[h]]
  BY <1>1
<1>19. alone' = alone \cup
              {s \in Software \cap nodes :
                  s \notin Ends(merges) /\ \A h \in Hardware : reconciled'[h].sw # s}
  BY <1>1 DEF merges, Strays
<1> QED
  BY <1>1, <1>9, <1>13, <1>15, <1>16, <1>17, <1>18, <1>19

LEMMA PassKeeps ==
    ASSUME ReconcilerInv, NEW b, Pass(b)
    PROVE  /\ reconciled' \in [Hardware -> Records]
           /\ alone' \subseteq Software
           /\ passed' \subseteq Nodes
           /\ RecordsFit'
           /\ EveryNodeListed'
           /\ \A h \in Hardware :
                reconciled[h].sw # None /\ reconciled'[h].sw # reconciled[h].sw =>
                    reconciled'[h].sw = b[h]
<1> USE DEF ReconcilerInv
<1>1. PICK merges \in SUBSET (Hardware \X Software) :
        /\ \A p \in merges : reconciled'[p[1]].sw = p[2] /\ reconciled'[p[1]].listed
        /\ \A p \in merges : reconciled[p[1]].listed => p[2] = b[p[1]]
        /\ \A h \in Hardware : (\A p \in merges : p[1] # h) =>
              \/ reconciled'[h] = reconciled[h] /\ (h \in nodes => reconciled[h].listed)
              \/ reconciled'[h] = HardwareOnly /\ ~reconciled[h].listed
        /\ \A h \in Hardware : reconciled'[h] \in Records
        /\ DOMAIN reconciled' = Hardware
        /\ reconciled' = [h \in Hardware |-> reconciled'[h]]
        /\ alone' = alone \cup
              {s \in Software \cap nodes :
                  s \notin Ends(merges) /\ \A h \in Hardware : reconciled'[h].sw # s}
        /\ passed' = nodes
  BY PassFacts
<1>2. HardwareOnly.listed /\ HardwareOnly.sw = None
  BY DEF HardwareOnly
<1>3. reconciled' \in [Hardware -> Records]
  BY <1>1
<1>4. alone' \subseteq Software /\ passed' \subseteq Nodes
  BY <1>1 DEF ReconcilerTypeOK
<1>5. RecordsFit'
  <2> SUFFICES ASSUME NEW h \in Hardware, ~reconciled'[h].listed
               PROVE  reconciled'[h].sw = None
    BY DEF RecordsFit
  <2> QED
    BY <1>1, <1>2 DEF RecordsFit
<1>6. ASSUME NEW h \in Hardware \cap nodes PROVE reconciled'[h].listed
  BY <1>1, <1>2
<1>7. ASSUME NEW s \in Software \cap nodes
      PROVE  Listed(s)'
  <2>1. CASE s \in Ends(merges)
    <3>1. PICK p \in merges : s = p[1] \/ s = p[2]
      BY <2>1 DEF Ends
    <3>2. p[1] \in Hardware /\ reconciled'[p[1]].sw = p[2] /\ reconciled'[p[1]].listed
      BY <1>1
    <3> QED
      BY <3>1, <3>2 DEF Listed
  <2>2. CASE \E h \in Hardware : reconciled'[h].sw = s
    BY <2>2 DEF Listed
  <2>3. CASE s \notin Ends(merges) /\ \A h \in Hardware : reconciled'[h].sw # s
    BY <1>1, <2>3 DEF Listed
  <2> QED
    BY <2>1, <2>2, <2>3
<1>8. EveryNodeListed'
  <2> SUFFICES ASSUME NEW n \in nodes
               PROVE  Listed(n)' <=> n \in Hardware \cup Software
    BY <1>1 DEF EveryNodeListed
  <2>1. CASE n \in Hardware
    BY <2>1, <1>6 DEF Listed
  <2>2. CASE n \in Software
    BY <2>2, <1>7
  <2>3. CASE n \notin Hardware \cup Software
    <3>1. n \in Nodes
      BY DEF ReconcilerTypeOK
    <3>2. n \notin alone' /\ \A h \in Hardware : reconciled'[h].sw # n
      BY <1>3, <1>4, <2>3, <3>1, ReconcilerAssumption DEF Records, ReconcilerAssumption
    <3> QED
      BY <2>3, <3>2 DEF Listed
  <2> QED
    BY <2>1, <2>2, <2>3
<1>9. ASSUME NEW h \in Hardware, reconciled[h].sw # None,
             reconciled'[h].sw # reconciled[h].sw
      PROVE  reconciled'[h].sw = b[h]
  <2>1. reconciled[h].listed
    BY <1>9 DEF RecordsFit
  <2>2. PICK p \in merges : p[1] = h
    BY <1>1, <1>9, <2>1
  <2> QED
    BY <1>1, <2>1, <2>2
<1> QED
  BY <1>3, <1>4, <1>5, <1>8, <1>9

LEMMA InitInv == ReconcilerInit => ReconcilerInv
<1> SUFFICES ASSUME ReconcilerInit PROVE ReconcilerInv
  OBVIOUS
<1> USE DEF ReconcilerInit
<1>1. Unlisted \in Records /\ Unlisted.sw = None
  BY DEF Unlisted, Records, Methods
<1>2. ReconcilerTypeOK
  BY <1>1 DEF ReconcilerTypeOK
<1>3. RecordsFit
  BY <1>1 DEF RecordsFit
<1>4. EveryNodeListed
  BY DEF EveryNodeListed
<1> QED
  BY <1>2, <1>3, <1>4 DEF ReconcilerInv

LEMMA StepInv ==
    ASSUME ReconcilerInv, [ReconcilerNext]_vars
    PROVE  /\ ReconcilerInv'
           /\ \A h \in Hardware :
                reconciled[h].sw # None /\ reconciled'[h].sw # reconciled[h].sw =>
                    reconciled'[h].sw = explicit_bindings'[h]
<1> USE DEF ReconcilerInv
<1>1. ASSUME UNCHANGED <<explicit_bindings, reconciled, alone, passed>>,
             nodes' \subseteq Nodes
      PROVE  /\ ReconcilerInv'
             /\ \A h \in Hardware : reconciled'[h] = reconciled[h]
  BY <1>1 DEF ReconcilerTypeOK, RecordsFit, EveryNodeListed, Listed
<1>2. CASE UNCHANGED vars
  <2>1. nodes' \subseteq Nodes
    BY <1>2 DEF vars, ReconcilerTypeOK
  <2> QED
    BY <1>1, <1>2, <2>1 DEF vars
<1>3. ASSUME NEW n \in Nodes, Arrives(n) \/ Leaves(n)
      PROVE  /\ ReconcilerInv'
             /\ \A h \in Hardware : reconciled'[h] = reconciled[h]
  <2>1. nodes' \subseteq Nodes
    BY <1>3 DEF Arrives, Leaves, ReconcilerTypeOK
  <2> QED
    BY <1>1, <1>3, <2>1 DEF Arrives, Leaves
<1>4. ASSUME NEW b, Pass(b), b = explicit_bindings', nodes' = nodes,
             explicit_bindings' \in [Hardware -> Software \cup {None}]
      PROVE  /\ ReconcilerInv'
             /\ \A h \in Hardware :
                  reconciled[h].sw # None /\ reconciled'[h].sw # reconciled[h].sw =>
                      reconciled'[h].sw = explicit_bindings'[h]
  BY <1>4, PassKeeps DEF ReconcilerTypeOK
<1>5. ASSUME NEW h \in Hardware, NEW s \in Software, Bind(h, s)
      PROVE  Pass(explicit_bindings') /\ nodes' = nodes
             /\ explicit_bindings' \in [Hardware -> Software \cup {None}]
  BY <1>5 DEF Bind, ReconcilerTypeOK
<1>6. CASE ReconcileLoop
  <2>1. PICK b : b = explicit_bindings
    OBVIOUS
  <2>2. Pass(b) /\ nodes' = nodes /\ b = explicit_bindings'
    BY <1>6, <2>1 DEF ReconcileLoop
  <2>3. explicit_bindings' \in [Hardware -> Software \cup {None}]
    BY <2>1, <2>2 DEF ReconcilerTypeOK
  <2> QED
    BY <1>4, <2>2, <2>3
<1>7. ASSUME NEW h \in Hardware, NEW s \in Software, Bind(h, s)
      PROVE  /\ ReconcilerInv'
             /\ \A k \in Hardware :
                  reconciled[k].sw # None /\ reconciled'[k].sw # reconciled[k].sw =>
                      reconciled'[k].sw = explicit_bindings'[k]
  <2>1. PICK b : b = explicit_bindings'
    OBVIOUS
  <2>2. Pass(b)
    BY <1>5, <1>7, <2>1
  <2> QED
    BY <1>4, <1>5, <1>7, <2>1, <2>2
<1> HIDE DEF ReconcilerInv
<1>8. CASE \E n \in Nodes : Arrives(n) \/ Leaves(n)
  BY <1>3, <1>8
<1>9. CASE \E h \in Hardware, s \in Software : Bind(h, s)
  BY <1>7, <1>9
<1> QED
  BY <1>2, <1>6, <1>8, <1>9 DEF ReconcilerNext

\* The state of the reconciler is typed: a record has a software node of the
\* nodes there can be and a method that a strategy gives.
THEOREM ReconcilerTyped == ReconcilerSpec => []ReconcilerTypeOK
<1>1. ReconcilerInit => ReconcilerInv
  BY InitInv
<1>2. ReconcilerInv /\ [ReconcilerNext]_vars => ReconcilerInv'
  BY StepInv
<1>3. ReconcilerInv => ReconcilerTypeOK
  BY DEF ReconcilerInv
<1> QED
  BY <1>1, <1>2, <1>3, PTL DEF ReconcilerSpec

\* Of the nodes that the last pass saw, list_reconciled leaves out no hardware
\* and no software node, whatever nodes come and go and whatever the operator
\* binds; the nodes that are neither, it leaves out.
THEOREM NodesListed == ReconcilerSpec => []EveryNodeListed
<1>1. ReconcilerInit => ReconcilerInv
  BY InitInv
<1>2. ReconcilerInv /\ [ReconcilerNext]_vars => ReconcilerInv'
  BY StepInv
<1>3. ReconcilerInv => EveryNodeListed
  BY DEF ReconcilerInv
<1> QED
  BY <1>1, <1>2, <1>3, PTL DEF ReconcilerSpec

\* Only an explicit binding takes its software node from a hardware node.
THEOREM PartnersKept == ReconcilerSpec => PartnerKept
<1>1. ReconcilerInit => ReconcilerInv
  BY InitInv
<1>2. ReconcilerInv /\ [ReconcilerNext]_vars => ReconcilerInv'
  BY StepInv
<1>3. ReconcilerInv /\ [ReconcilerNext]_vars =>
        [\A h \in Hardware :
            reconciled[h].sw # None /\ reconciled'[h].sw # reconciled[h].sw =>
                reconciled'[h].sw = explicit_bindings'[h]]_vars
  BY StepInv
<1> QED
  BY <1>1, <1>2, <1>3, PTL DEF ReconcilerSpec, PartnerKept
=============================================================================
