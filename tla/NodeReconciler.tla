--------------------------- MODULE NodeReconciler ---------------------------
(***************************************************************************)
(* controller/node_reconciler.py: the hardware node and the software node  *)
(* of one machine are merged into one logical node.  Every 5 s, and when   *)
(* the operator binds two nodes, a pass over the registered nodes merges   *)
(* those that an explicit binding or one of three signals pairs, the       *)
(* strongest first, and lists the others alone.                            *)
(*                                                                         *)
(* A pass does not suspend.  It goes through dicts in the order in which   *)
(* nodes registered; here any order will do, so that a strategy picks any  *)
(* maximal matching of the pairs it looks at.  What a record says of       *)
(* capabilities and routing follows from its nodes and is left out.        *)
(***************************************************************************)
EXTENDS FiniteSets

CONSTANTS
    Nodes,       \* all that may register, nodes with no such capability too
    Hardware,    \* nodes with the capability "hid" or "qmp"
    Software,    \* nodes with the capability "softnode"
    Reported,    \* pairs <<h, s>> in which s names h as its hw_node
    Colocated,   \* ... s sees h's serial number on its USB
    SameHost,    \* ... h and s have the same address
    None

ASSUME ReconcilerAssumption == Hardware \cup Software \subseteq Nodes /\ None \notin Nodes

VARIABLES
    nodes,              \* state.nodes
    explicit_bindings,  \* the software node bound to each hardware node
    reconciled,         \* the record of each hardware node
    alone,              \* software nodes with a record of their own
    passed              \* the nodes that the last pass saw

vars == <<nodes, explicit_bindings, reconciled, alone, passed>>

Methods == {"", "explicit", "self_report", "usb", "ip"}
Unlisted == [listed |-> FALSE, sw |-> None, by |-> ""]
HardwareOnly == [listed |-> TRUE, sw |-> None, by |-> ""]
Merged(s, method) == [listed |-> TRUE, sw |-> s, by |-> method]
Records == [listed : BOOLEAN, sw : Software \cup {None}, by : Methods]

ReconcilerTypeOK ==
    /\ nodes \subseteq Nodes
    /\ explicit_bindings \in [Hardware -> Software \cup {None}]
    /\ reconciled \in [Hardware -> Records]
    /\ alone \subseteq Software
    /\ passed \subseteq Nodes

ReconcilerInit ==
    /\ nodes = {}
    /\ explicit_bindings = [h \in Hardware |-> None]
    /\ reconciled = [h \in Hardware |-> Unlisted]
    /\ alone = {}
    /\ passed = {}

-----------------------------------------------------------------------------
Ends(m) == {p[1] : p \in m} \cup {p[2] : p \in m}

\* What one strategy may merge: pairs of the signal between free nodes, each
\* node once, and none left out whose two nodes remain.
Picks(signal, free) ==
    LET pairs == {p \in signal \cap (Hardware \X Software) :
                    p[1] \in free /\ p[2] \in free} IN
    {m \in SUBSET pairs :
        /\ \A p, q \in m : p = q \/ (p[1] # q[1] /\ p[2] # q[2])
        /\ \A p \in pairs : p[1] \in Ends(m) \/ p[2] \in Ends(m)}

\* Explicit bindings whose two nodes are registered.
Explicit(bindings) ==
    {p \in Hardware \X Software :
        p[1] \in nodes /\ p[2] \in nodes /\ bindings[p[1]] = p[2]}

\* The record that the merges m of one strategy make for h.
By(m, h, method) == {Merged(p[2], method) : p \in {q \in m : q[1] = h}}

\* Mutant of Free: the nodes merged by earlier passes are merged again.
FreeAgain(explicit) == nodes \ Ends(explicit)

\* Whom the strategies after the first look at: no hardware node that has a
\* record, of this pass or an earlier one, and no software node bound in this
\* pass; bound_sw does not know those of earlier passes.
Free(explicit) == (nodes \ {h \in Hardware : reconciled[h].listed}) \ Ends(explicit)

\* Mutants of Strays: hardware nodes too; by the records before the pass.
StraysOfAll(bound) ==
    {n \in nodes : n \notin bound /\ \A h \in Hardware : reconciled'[h].sw # n}
StraysOfOld(bound) ==
    {s \in Software \cap nodes : s \notin bound /\ \A h \in Hardware : reconciled[h].sw # s}

\* The software nodes that get a record of their own at the end of a pass.
Strays(bound) ==
    {s \in Software \cap nodes : s \notin bound /\ \A h \in Hardware : reconciled'[h].sw # s}

\* _do_reconcile.
Pass(bindings) ==
    LET explicit == Explicit(bindings)
        free == Free(explicit)
    IN
    \E reports \in Picks(Reported, free) :
    \E usb \in Picks(Colocated, free \ Ends(reports)) :
    \E hosts \in Picks(SameHost, free \ Ends(reports \cup usb)) :
        /\ reconciled' = [h \in Hardware |->
              LET new == By(explicit, h, "explicit") \cup By(reports, h, "self_report")
                            \cup By(usb, h, "usb") \cup By(hosts, h, "ip")
              IN  IF new # {} THEN CHOOSE r \in new : TRUE
                  ELSE IF h \in nodes /\ ~reconciled[h].listed THEN HardwareOnly
                  ELSE reconciled[h]]
        /\ alone' = alone \cup Strays(Ends(explicit \cup reports \cup usb \cup hosts))
        /\ passed' = nodes

Arrives(n) ==
    /\ nodes' = nodes \cup {n}
    /\ UNCHANGED <<explicit_bindings, reconciled, alone, passed>>

\* Nothing is taken out of the records.
Leaves(n) ==
    /\ nodes' = nodes \ {n}
    /\ UNCHANGED <<explicit_bindings, reconciled, alone, passed>>

Bind(h, s) ==
    /\ explicit_bindings' = [explicit_bindings EXCEPT ![h] = s]
    /\ Pass(explicit_bindings')
    /\ nodes' = nodes

ReconcileLoop == Pass(explicit_bindings) /\ UNCHANGED <<nodes, explicit_bindings>>

ReconcilerNext ==
    \/ \E n \in Nodes : Arrives(n) \/ Leaves(n)
    \/ \E h \in Hardware, s \in Software : Bind(h, s)
    \/ ReconcileLoop

ReconcilerSpec == ReconcilerInit /\ [][ReconcilerNext]_vars
-----------------------------------------------------------------------------
Listed(n) ==
    \/ n \in Hardware /\ reconciled[n].listed
    \/ n \in alone
    \/ \E h \in Hardware : reconciled[h].sw = n

\* Of the nodes registered at the last pass list_reconciled misses no hardware
\* and no software node, though records were merged, replaced by a binding of
\* another node, or made for nodes that have left; and it misses all others: a
\* node with neither capability is in no record.
EveryNodeListed == \A n \in passed : Listed(n) <=> n \in Hardware \cup Software

\* Only the operator takes a partner from a hardware node: no pass replaces the
\* software node of a record but by an explicit binding.
PartnerKept ==
    [][\A h \in Hardware :
          reconciled[h].sw # None /\ reconciled'[h].sw # reconciled[h].sw =>
              reconciled'[h].sw = explicit_bindings'[h]]_vars
=============================================================================
