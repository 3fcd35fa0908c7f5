---------------------------- MODULE NodeRegistry ----------------------------
(***************************************************************************)
(* controller/state.py (AppState's node registry and the node that has the *)
(* input focus), controller/discovery.py (mDNS resolution and eviction of  *)
(* silent nodes) and the REST registration in controller/api.py.           *)
(*                                                                         *)
(* AppState._lock is held over no await, so its critical sections are      *)
(* single steps.  The one await that suspends is an mDNS resolution, which *)
(* takes up to 3 s and then adds the node whatever happened meanwhile.     *)
(***************************************************************************)
EXTENDS Integers, FiniteSets

CONSTANTS
    Nodes,           \* node ids
    MdnsNodes,       \* those that announce themselves on mDNS
    DirectNodes,     \* those that register over REST
    StaleIntervals,  \* requery intervals of silence allowed (2 in the code)
    DirectFactor,    \* how many times more for direct nodes (3 in the code)
    NoNode

ASSUME RegistryAssumption ==
    /\ MdnsNodes \subseteq Nodes /\ DirectNodes \subseteq Nodes
    /\ StaleIntervals \in Nat /\ DirectFactor \in Nat \ {0}
    /\ NoNode \notin Nodes

VARIABLES
    kind,       \* state.nodes: "out", or how the node's record was made
    age,        \* requery passes since last_seen
    active,     \* active_node_id
    resolving,  \* nodes a _resolve_and_add is suspended on
    requery,    \* nodes _requery_all has still to resolve in this pass
    alive,      \* the nodes that run
    cached      \* the nodes that mDNS still has records of

nodeVars == <<kind, age, active, resolving, requery, alive, cached>>

Registered == {n \in Nodes : kind[n] # "out"}
\* Mutant of Patience: one pass too many for every node.
PatienceLonger(k) == StaleIntervals * DirectFactor + 1

\* How many passes a node of this kind may be silent for.
Patience(k) == IF k = "direct" THEN StaleIntervals * DirectFactor
               ELSE StaleIntervals

NodeTypeOK ==
    /\ kind \in [Nodes -> {"out", "mdns", "direct"}]
    /\ age \in [Nodes -> 0 .. StaleIntervals * DirectFactor]
    /\ active \in Nodes \cup {NoNode}
    /\ resolving \subseteq Nodes
    /\ requery \subseteq Nodes
    /\ alive \subseteq Nodes
    /\ cached \subseteq Nodes

NodeInit ==
    /\ kind = [n \in Nodes |-> "out"]
    /\ age = [n \in Nodes |-> 0]
    /\ active = NoNode
    /\ resolving = {}
    /\ requery = {}
    /\ alive = Nodes
    /\ cached = {}

-----------------------------------------------------------------------------
(* AppState.                                                               *)

\* Mutant of AddNode: last_seen is merged from the old record.
AddKeepsAge(n, k) ==
    /\ kind' = [kind EXCEPT ![n] = k]
    /\ age' = age

\* add_node: the incoming record replaces the old one.  Its merge keeps many
\* optional fields but not direct_registered, so an mDNS sighting makes a
\* direct node an mDNS node.
AddNode(n, k) ==
    /\ kind' = [kind EXCEPT ![n] = k]
    /\ age' = [age EXCEPT ![n] = 0]

\* Mutant of RemoveNodes: the focus stays on the removed node.
RemoveKeepsFocus(S) ==
    /\ kind' = [n \in Nodes |-> IF n \in S THEN "out" ELSE kind[n]]
    /\ active' = active

\* remove_node, on each node of S.
RemoveNodes(S) ==
    /\ kind' = [n \in Nodes |-> IF n \in S THEN "out" ELSE kind[n]]
    /\ active' = IF active \in S THEN NoNode ELSE active

\* set_active_node raises KeyError for a node that is not registered.
SetActive(n) ==
    active' = IF n \in Registered THEN n ELSE active

\* POST /nodes/{id}/activate
ActivateNode(n) ==
    /\ n \in Registered
    /\ SetActive(n)
    /\ UNCHANGED <<kind, age, resolving, requery, alive, cached>>

-----------------------------------------------------------------------------
(* REST registration: the node answers for itself.                         *)

Register(n) ==
    /\ n \in DirectNodes \cap alive
    /\ AddNode(n, "direct")
    /\ UNCHANGED <<active, resolving, requery, alive, cached>>

Heartbeat(n) ==
    /\ n \in DirectNodes \cap alive \cap Registered
    /\ age' = [age EXCEPT ![n] = 0]
    /\ UNCHANGED <<kind, active, resolving, requery, alive, cached>>

-----------------------------------------------------------------------------
(* mDNS.                                                                   *)

\* The service record appears or changes: a task starts to resolve it.
Announce(n) ==
    /\ n \in MdnsNodes \cap alive
    /\ cached' = cached \cup {n}
    /\ resolving' = resolving \cup {n}
    /\ UNCHANGED <<kind, age, active, requery, alive>>

\* The service record is withdrawn or expires: remove_node at once.  A
\* resolution under way is not cancelled.
Goodbye(n) ==
    /\ n \in MdnsNodes /\ (n \in cached \/ n \in Registered)
    /\ cached' = cached \ {n}
    /\ RemoveNodes({n})
    /\ UNCHANGED <<age, resolving, requery, alive>>

\* A resolution started by an announcement ends, with the records that mDNS
\* has by then; they may have been fetched before a goodbye.
Resolved(n) ==
    /\ n \in resolving
    /\ resolving' = resolving \ {n}
    /\ AddNode(n, "mdns")
    /\ UNCHANGED <<active, requery, alive, cached>>

Unresolved(n) ==
    /\ n \in resolving
    /\ resolving' = resolving \ {n}
    /\ UNCHANGED <<kind, age, active, requery, alive, cached>>

\* _requery_all up to its first await: every record older than its kind allows
\* goes, and the mDNS nodes left are to be resolved again.  A pass starts one
\* interval after the last one ended.
RequeryAll ==
    LET stale == {n \in Registered : age[n] >= Patience(kind[n])} IN
    /\ requery = {}
    /\ age' = [n \in Nodes |-> IF n \in Registered \ stale THEN age[n] + 1 ELSE 0]
    /\ RemoveNodes(stale)
    /\ requery' = {n \in Registered \ stale : kind[n] = "mdns"}
    /\ UNCHANGED <<resolving, alive, cached>>

\* Mutant of Requeried: a resolution without an address adds the node too.
RequeriedBlindly(n, got) ==
    /\ n \in requery
    /\ requery' = requery \ {n}
    /\ AddNode(n, "mdns")
    /\ UNCHANGED <<active, resolving, alive, cached>>

\* Each resolution of the pass: an answer, from the node or from the cache,
\* refreshes the node, and adds it again if it went in the meantime.
Requeried(n, got) ==
    /\ n \in requery
    /\ got => n \in cached \cup alive
    /\ requery' = requery \ {n}
    /\ IF got THEN AddNode(n, "mdns") ELSE UNCHANGED <<kind, age>>
    /\ UNCHANGED <<active, resolving, alive, cached>>

-----------------------------------------------------------------------------
(* The nodes themselves: they stop without a word, and come back.          *)

Dies(n) ==
    /\ n \in alive
    /\ alive' = alive \ {n}
    /\ UNCHANGED <<kind, age, active, resolving, requery, cached>>

Boots(n) ==
    /\ n \notin alive
    /\ alive' = alive \cup {n}
    /\ UNCHANGED <<kind, age, active, resolving, requery, cached>>

\* The address records of a silent node reach their time to live.
RecordsExpire(n) ==
    /\ n \in cached \ alive
    /\ cached' = cached \ {n}
    /\ UNCHANGED <<kind, age, active, resolving, requery, alive>>

-----------------------------------------------------------------------------
Resolves(n) == Resolved(n) \/ Unresolved(n)

\* What nodes and mDNS do, without the operator.
NodeNext ==
    \/ \E n \in Nodes : Register(n) \/ Heartbeat(n)
    \/ \E n \in Nodes : Announce(n) \/ Goodbye(n) \/ Resolves(n)
    \/ RequeryAll
    \/ \E n \in Nodes, got \in BOOLEAN : Requeried(n, got)
    \/ \E n \in Nodes : Dies(n) \/ Boots(n) \/ RecordsExpire(n)

RegistryNext == NodeNext \/ \E n \in Nodes : ActivateNode(n)

RegistrySpec == NodeInit /\ [][RegistryNext]_nodeVars

\* The requery loop and the resolutions it awaits run for ever; a resolution
\* times out after 3 s; a record's time to live is finite.
RegistryFairness ==
    /\ WF_nodeVars(RequeryAll)
    /\ \A n \in Nodes : /\ WF_nodeVars(Resolves(n))
                        /\ WF_nodeVars(\E got \in BOOLEAN : Requeried(n, got))
                        /\ WF_nodeVars(RecordsExpire(n))

RegistryFairSpec == RegistrySpec /\ RegistryFairness

-----------------------------------------------------------------------------
(* Properties.                                                             *)

\* Input is routed to a node the registry knows, or to none: no removal, by a
\* goodbye or by age, and no late resolution leaves the focus on a record that
\* is gone.
FocusIsRegistered == active = NoNode \/ active \in Registered

\* A registration is as fresh as its kind demands: no record outlives the
\* passes its kind may be silent for, also when an mDNS sighting turned a
\* direct registration, with its longer patience, into an mDNS one.
NoStaleRecord == \A n \in Registered : age[n] <= Patience(kind[n])

\* A node that stopped for good leaves the registry for good, although each
\* pass asks mDNS for it again and a resolution may add it back.
SilentNodeLeaves ==
    \A n \in Nodes : <>[](n \notin alive) => <>[](n \notin Registered)
=============================================================================
