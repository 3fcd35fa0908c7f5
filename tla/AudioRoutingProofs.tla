------------------------- MODULE AudioRoutingProofs -------------------------
(***************************************************************************)
(* For any nodes and any number of queued switches: when nothing is under  *)
(* way, no machine is heard but the routed one, and a disabled output is   *)
(* silent.  The invariant says at each step of the lock's holder what may  *)
(* be linked: up to the step that unlinks, the source that it unlinks, and *)
(* nothing from then on to the step that links.                            *)
(***************************************************************************)
EXTENDS AudioRouting, NodeRegistryProofs

\* The lock is not held with nobody waiting for it, and the place beyond
\* MaxQueue is for the one task of the watcher.
QueueFits ==
    /\ lockQ = <<>> => step = "begin"
    /\ Len(lockQ) > MaxQueue => \E i \in DOMAIN lockQ : lockQ[i].op = "source"
    /\ \A k \in Calls : outOp[k].op = "none" => outOp[k] = NoOp

\* What is linked while no output was changed in the middle of a switch, and
\* none was enabled and disabled by calls that overlap.
InStep ==
    /\ \A k \in Calls : outOp[k] # NoOp =>
            lockQ = <<>> /\ outOp[k].src = source /\ (outOp[k].op = "link" <=> enabled)
    /\ linked \subseteq {IF step = "replacing" THEN old ELSE source}
    /\ step = "dropping" => old = source
    /\ step # "begin" => enabled
    /\ step \in {"replacing", "linking"} => goal = source
    /\ step = "linking" => linked = {}
    /\ step = "begin" /\ OutputsIdle /\ ~enabled => linked = {}

AudioInv == RegistryInv /\ AudioTypeOK /\ QueueFits /\ (~overlapped => InStep)

\* The types of what the lock's holder writes.
HolderTyped ==
    /\ source \in MaybeNode /\ old \in MaybeNode /\ goal \in MaybeNode
    /\ lockQ \in Seq(TaskRecs) /\ Len(lockQ) <= MaxQueue + 1
    /\ step \in {"begin", "dropping", "replacing", "linking"}

LEMMA ReleaseFits ==
    ASSUME lockQ \in Seq(TaskRecs), Len(lockQ) <= MaxQueue + 1, lockQ # <<>>, Release
    PROVE  /\ lockQ' \in Seq(TaskRecs) /\ Len(lockQ') <= MaxQueue
           /\ step' = "begin" /\ old' \in MaybeNode /\ goal' \in MaybeNode
<1>1. /\ Tail(lockQ) \in Seq(TaskRecs)
      /\ Len(Tail(lockQ)) = Len(lockQ) - 1
  OBVIOUS
<1>. QED  BY <1>1, AudioAssumption DEF Release, MaybeNode

\* The steps up to a pw-link or to the end of the switch, when src was the
\* active source: whatever is linked then is src, and is unlinked next.
LEMMA ProceedKeeps ==
    ASSUME AudioTypeOK, QueueFits, lockQ # <<>>,
           NEW g \in MaybeNode, NEW src \in MaybeNode,
           Proceed(g, src) \/ ConnectSource(g, src),
           outOp' = outOp, enabled' = enabled, linked' \in SUBSET Nodes
    PROVE  /\ HolderTyped' /\ QueueFits'
           /\ OutputsIdle /\ linked' \subseteq {src} /\ (~enabled => linked' = {})
                => InStep'
<1>1. CASE source' = src /\ Release
  <2>1. /\ lockQ' \in Seq(TaskRecs) /\ Len(lockQ') <= MaxQueue
        /\ step' = "begin" /\ old' \in MaybeNode /\ goal' \in MaybeNode
    BY <1>1, ReleaseFits DEF AudioTypeOK
  <2>2. HolderTyped' /\ QueueFits'
    BY <1>1, <2>1, AudioAssumption DEF HolderTyped, QueueFits
  <2>3. ASSUME OutputsIdle, linked' \subseteq {src}, ~enabled => linked' = {}
        PROVE  InStep'
    BY <1>1, <2>1, <2>3 DEF InStep, OutputsIdle
  <2>. QED  BY <2>2, <2>3
<1>2. CASE source' = g /\ ~enabled /\ Release
  <2>1. /\ lockQ' \in Seq(TaskRecs) /\ Len(lockQ') <= MaxQueue
        /\ step' = "begin" /\ old' \in MaybeNode /\ goal' \in MaybeNode
    BY <1>2, ReleaseFits DEF AudioTypeOK
  <2>2. HolderTyped' /\ QueueFits'
    BY <1>2, <2>1, AudioAssumption DEF HolderTyped, QueueFits
  <2>3. ASSUME OutputsIdle, linked' \subseteq {src}, ~enabled => linked' = {}
        PROVE  InStep'
    BY <1>2, <2>1, <2>3 DEF InStep, OutputsIdle
  <2>. QED  BY <2>2, <2>3
<1>3. CASE source' = g /\ enabled /\ src # NoNode /\ Awaits("replacing", src, g)
  <2>1. HolderTyped' /\ QueueFits'
    BY <1>3 DEF HolderTyped, QueueFits, Awaits, AudioTypeOK
  <2>2. ASSUME OutputsIdle, linked' \subseteq {src}
        PROVE  InStep'
    BY <1>3, <2>2 DEF InStep, OutputsIdle, Awaits
  <2>. QED  BY <2>1, <2>2
<1>4. CASE source' = g /\ enabled /\ src = NoNode /\ Awaits("linking", NoNode, g)
  <2>1. HolderTyped' /\ QueueFits'
    BY <1>4 DEF HolderTyped, QueueFits, Awaits, AudioTypeOK, MaybeNode
  <2>2. ASSUME OutputsIdle, linked' \subseteq {src}
        PROVE  InStep'
    <3>1. linked' = {}
      BY <1>4, <2>2, RegistryAssumption
    <3>. QED  BY <1>4, <2>2, <3>1 DEF InStep, OutputsIdle, Awaits
  <2>. QED  BY <2>1, <2>2
<1>. QED  BY <1>1, <1>2, <1>3, <1>4 DEF Proceed, ConnectSource

\* What a step of the holder has to show.
LEMMA HolderStep ==
    ASSUME AudioInv, HolderTyped', QueueFits', ~overlapped => InStep',
           UNCHANGED <<nodeVars, up, enabled, outOp, requested, overlapped>>,
           audioNode' \in MaybeNode, linked' \in SUBSET up
    PROVE  AudioInv'
<1>1. RegistryInv'
  BY RegistryStep DEF AudioInv
<1>2. AudioTypeOK'
  BY <1>1 DEF AudioInv, AudioTypeOK, HolderTyped, RegistryInv
<1>. QED  BY <1>1, <1>2 DEF AudioInv

\* What holds when a task gets the lock.
LEMMA HolderBegins ==
    ASSUME AudioInv, NEW op, Begins(op)
    PROVE  /\ lockQ # <<>> /\ lockQ[1].node \in MaybeNode
           /\ ~overlapped => OutputsIdle /\ linked \subseteq {source}
                             /\ (~enabled => linked = {})
<1>1. lockQ \in Seq(TaskRecs) /\ lockQ # <<>> /\ step = "begin"
  BY DEF AudioInv, AudioTypeOK, Begins
<1>2. lockQ[1] \in TaskRecs
  BY <1>1
<1>. QED  BY <1>1, <1>2 DEF TaskRecs, AudioInv, InStep, OutputsIdle

LEMMA SwitchBeginsKeeps == ASSUME AudioInv, SwitchBegins PROVE AudioInv'
<1>. DEFINE new == lockQ[1].node
            g == IF new \in Registered THEN new ELSE NoNode
<1>1. /\ lockQ # <<>> /\ new \in MaybeNode
      /\ ~overlapped => OutputsIdle /\ linked \subseteq {source}
                        /\ (~enabled => linked = {})
  BY HolderBegins DEF SwitchBegins
<1>2. /\ audioNode' = new /\ linked' = linked
      /\ UNCHANGED <<nodeVars, up, enabled, outOp, requested, overlapped>>
  BY DEF SwitchBegins
<1>3. g \in MaybeNode /\ source \in MaybeNode /\ NoNode \in MaybeNode
  BY <1>1 DEF AudioInv, AudioTypeOK, MaybeNode
<1>4. linked \in SUBSET up /\ up \in SUBSET Nodes /\ AudioTypeOK /\ QueueFits
  BY DEF AudioInv, AudioTypeOK
<1>5. ASSUME NEW h \in MaybeNode, Proceed(h, source) PROVE AudioInv'
  <2>1. /\ HolderTyped' /\ QueueFits'
        /\ OutputsIdle /\ linked' \subseteq {source} /\ (~enabled => linked' = {})
             => InStep'
    BY <1>1, <1>2, <1>3, <1>4, <1>5, ProceedKeeps
  <2>. QED  BY <1>1, <1>2, <1>4, <2>1, HolderStep
<1>6. ASSUME NEW h \in MaybeNode, Proceed(h, NoNode), ~enabled \/ source = NoNode
      PROVE  AudioInv'
  <2>1. /\ HolderTyped' /\ QueueFits'
        /\ OutputsIdle /\ linked' \subseteq {NoNode} /\ (~enabled => linked' = {})
             => InStep'
    BY <1>1, <1>2, <1>3, <1>4, <1>6, ProceedKeeps
  <2>. QED  BY <1>1, <1>2, <1>4, <1>6, <2>1, HolderStep
<1>7. CASE enabled /\ source' = source /\ Awaits("dropping", source, g)
  <2>1. HolderTyped' /\ QueueFits'
    BY <1>1, <1>3, <1>4, <1>7, <1>2 DEF HolderTyped, QueueFits, Awaits, AudioTypeOK
  <2>2. ASSUME ~overlapped PROVE InStep'
    BY <1>1, <1>2, <1>7, <2>2 DEF InStep, OutputsIdle, Awaits
  <2>. QED  BY <1>1, <1>2, <1>4, <2>1, <2>2, HolderStep
<1>8. CASE source' = source /\ Release
  BY <1>3, <1>5, <1>8 DEF Proceed
<1>. QED  BY <1>3, <1>5, <1>6, <1>7, <1>8 DEF SwitchBegins

LEMMA DroppedKeeps == ASSUME AudioInv, Dropped PROVE AudioInv'
<1>1. /\ step = "dropping" /\ linked' = linked \ {old} /\ Proceed(goal, NoNode)
      /\ audioNode' = audioNode
      /\ UNCHANGED <<nodeVars, up, enabled, outOp, requested, overlapped>>
  BY DEF Dropped
<1>2. /\ lockQ # <<>> /\ AudioTypeOK /\ QueueFits /\ linked \in SUBSET up
      /\ up \in SUBSET Nodes /\ goal \in MaybeNode /\ NoNode \in MaybeNode
      /\ audioNode \in MaybeNode
  BY <1>1 DEF AudioInv, AudioTypeOK, QueueFits, MaybeNode
<1>3. ~overlapped => OutputsIdle /\ linked' = {}
  BY <1>1, <1>2 DEF AudioInv, InStep, OutputsIdle
<1>4. /\ HolderTyped' /\ QueueFits'
      /\ OutputsIdle /\ linked' \subseteq {NoNode} /\ (~enabled => linked' = {})
           => InStep'
  BY <1>1, <1>2, ProceedKeeps
<1>. QED  BY <1>1, <1>2, <1>3, <1>4, HolderStep

LEMMA ReplacedKeeps == ASSUME AudioInv, Replaced PROVE AudioInv'
<1>1. /\ step = "replacing" /\ linked' = linked \ {old}
      /\ audioNode' = audioNode /\ source' = source
      /\ UNCHANGED <<nodeVars, up, enabled, outOp, requested, overlapped>>
  BY DEF Replaced
<1>2. /\ lockQ # <<>> /\ AudioTypeOK /\ QueueFits /\ linked \in SUBSET up
      /\ audioNode \in MaybeNode
  BY <1>1 DEF AudioInv, AudioTypeOK, QueueFits
<1>3. ~overlapped => OutputsIdle /\ linked' = {} /\ enabled /\ goal = source
  BY <1>1, <1>2 DEF AudioInv, InStep, OutputsIdle
<1>4. CASE enabled /\ Awaits("linking", NoNode, goal)
  <2>1. HolderTyped' /\ QueueFits'
    BY <1>1, <1>2, <1>4 DEF HolderTyped, QueueFits, Awaits, AudioTypeOK, MaybeNode
  <2>2. ASSUME ~overlapped PROVE InStep'
    BY <1>1, <1>3, <1>4, <2>2 DEF InStep, OutputsIdle, Awaits
  <2>. QED  BY <1>1, <1>2, <2>1, <2>2, HolderStep
<1>5. CASE ~enabled /\ Release
  <2>1. /\ lockQ' \in Seq(TaskRecs) /\ Len(lockQ') <= MaxQueue
        /\ step' = "begin" /\ old' \in MaybeNode /\ goal' \in MaybeNode
    BY <1>2, <1>5, ReleaseFits DEF AudioTypeOK
  <2>2. HolderTyped' /\ QueueFits'
    BY <1>1, <1>2, <2>1, AudioAssumption DEF HolderTyped, QueueFits, AudioTypeOK
  <2>3. overlapped
    BY <1>3, <1>5
  <2>. QED  BY <1>1, <1>2, <2>2, <2>3, HolderStep
<1>. QED  BY <1>4, <1>5 DEF Replaced

LEMMA LinkedKeeps == ASSUME AudioInv, Linked PROVE AudioInv'
<1>1. /\ step = "linking" /\ linked' = linked \cup ({goal} \cap up) /\ Release
      /\ audioNode' = audioNode /\ source' = source
      /\ UNCHANGED <<nodeVars, up, enabled, outOp, requested, overlapped>>
  BY DEF Linked
<1>2. /\ lockQ # <<>> /\ AudioTypeOK /\ QueueFits /\ linked' \in SUBSET up
      /\ audioNode \in MaybeNode
  BY <1>1 DEF AudioInv, AudioTypeOK, QueueFits
<1>3. /\ lockQ' \in Seq(TaskRecs) /\ Len(lockQ') <= MaxQueue
      /\ step' = "begin" /\ old' \in MaybeNode /\ goal' \in MaybeNode
  BY <1>1, <1>2, ReleaseFits DEF AudioTypeOK
<1>4. HolderTyped' /\ QueueFits'
  BY <1>1, <1>2, <1>3, AudioAssumption DEF HolderTyped, QueueFits, AudioTypeOK
<1>5. ASSUME ~overlapped PROVE InStep'
  <2>1. OutputsIdle /\ linked = {} /\ enabled /\ goal = source
    BY <1>1, <1>2, <1>5 DEF AudioInv, InStep, OutputsIdle
  <2>. QED  BY <1>1, <1>3, <2>1 DEF InStep, OutputsIdle
<1>. QED  BY <1>1, <1>2, <1>4, <1>5, HolderStep

LEMMA SourceBeginsKeeps == ASSUME AudioInv, SourceBegins PROVE AudioInv'
<1>. DEFINE g == lockQ[1].node
<1>1. /\ lockQ # <<>> /\ g \in MaybeNode
      /\ ~overlapped => OutputsIdle /\ linked \subseteq {source}
                        /\ (~enabled => linked = {})
  BY HolderBegins DEF SourceBegins
<1>2. /\ ConnectSource(g, source) /\ audioNode' = audioNode /\ linked' = linked
      /\ UNCHANGED <<nodeVars, up, enabled, outOp, requested, overlapped>>
  BY DEF SourceBegins
<1>3. /\ AudioTypeOK /\ QueueFits /\ linked \in SUBSET up /\ up \in SUBSET Nodes
      /\ source \in MaybeNode /\ audioNode \in MaybeNode
  BY DEF AudioInv, AudioTypeOK
<1>. HIDE DEF g
<1>4. /\ HolderTyped' /\ QueueFits'
      /\ OutputsIdle /\ linked' \subseteq {source} /\ (~enabled => linked' = {})
           => InStep'
  BY <1>1, <1>2, <1>3, ProceedKeeps
<1>. QED  BY <1>1, <1>2, <1>3, <1>4, HolderStep

-----------------------------------------------------------------------------
(* The steps of everybody else.                                            *)

LEMMA AudioInitInv == AudioInit => AudioInv
<1>. SUFFICES ASSUME AudioInit PROVE AudioInv
  OBVIOUS
<1>1. RegistryInv
  BY RegistryInit DEF AudioInit
<1>2. AudioTypeOK
  <2>1. outOp \in [Calls -> OutOps]
    BY DEF AudioInit, OutOps, NoOp, MaybeNode
  <2>2. <<>> \in Seq(TaskRecs) /\ Len(<<>>) = 0
    OBVIOUS
  <2>3. lockQ \in Seq(TaskRecs) /\ Len(lockQ) <= MaxQueue + 1
    BY <2>2, AudioAssumption DEF AudioInit
  <2>4. NoNode \in MaybeNode
    BY DEF MaybeNode
  <2>. QED
    BY <1>1, <2>1, <2>3, <2>4 DEF AudioInit, AudioTypeOK, RegistryInv
<1>3. QueueFits /\ InStep
  BY AudioAssumption DEF AudioInit, QueueFits, InStep, OutputsIdle, NoOp
<1>. QED  BY <1>1, <1>2, <1>3 DEF AudioInv

\* A task that joins the queue while no output is being set finds what its
\* predecessors left.
LEMMA QueuedKeeps ==
    ASSUME AudioInv, RegistryInv', NEW t \in TaskRecs,
           lockQ' = Append(lockQ, t), overlapped' = (overlapped \/ ~ OutputsIdle),
           Len(lockQ) < MaxQueue \/ (Len(lockQ) <= MaxQueue /\ t.op = "source"),
           up' \in SUBSET Nodes, up \subseteq up', requested' \in MaybeNode,
           UNCHANGED <<audioNode, source, linked, enabled, step, old, goal, outOp>>
    PROVE  AudioInv'
<1>. USE DEF AudioInv
<1>1. /\ lockQ' \in Seq(TaskRecs) /\ lockQ' # <<>>
      /\ Len(lockQ') = Len(lockQ) + 1 /\ lockQ'[Len(lockQ) + 1] = t
      /\ Len(lockQ) \in Nat
  BY DEF AudioTypeOK
<1>2. Len(lockQ') > MaxQueue => \E i \in DOMAIN lockQ' : lockQ'[i].op = "source"
  <2>. SUFFICES ASSUME Len(lockQ') > MaxQueue
                PROVE  \E i \in DOMAIN lockQ' : lockQ'[i].op = "source"
    OBVIOUS
  <2>1. t.op = "source"
    BY <1>1, AudioAssumption
  <2>2. Len(lockQ) + 1 \in DOMAIN lockQ'
    BY <1>1
  <2>. QED  BY <1>1, <2>1, <2>2
<1>3. AudioTypeOK'
  BY <1>1, AudioAssumption DEF AudioTypeOK, RegistryInv
<1>4. QueueFits'
  BY <1>1, <1>2 DEF QueueFits
<1>5. ASSUME ~overlapped' PROVE InStep'
  BY <1>5 DEF InStep, OutputsIdle
<1>. QED  BY <1>3, <1>4, <1>5

LEMMA ScenarioKeeps ==
    ASSUME AudioInv, NEW n \in MaybeNode, ActivateScenario(n) PROVE AudioInv'
<1>1. active' = active \/ active' \in Registered
  BY DEF ActivateScenario, SetActive
<1>2. RegistryInv'
  BY <1>1 DEF ActivateScenario, AudioInv, RegistryInv, NodeTypeOK, NoStaleRecord,
              FocusIsRegistered, Registered
<1>3. [op |-> "switch", node |-> n] \in TaskRecs
  BY DEF TaskRecs
<1>4. up \in SUBSET Nodes
  BY DEF AudioInv, AudioTypeOK
<1>. QED  BY <1>2, <1>3, <1>4, QueuedKeeps DEF ActivateScenario

LEMMA SourceAppearsKeeps ==
    ASSUME AudioInv, NEW n \in Nodes, SourceAppears(n) PROVE AudioInv'
<1>1. RegistryInv'
  BY RegistryStep DEF AudioInv, SourceAppears
<1>2. up' \in SUBSET Nodes /\ up \subseteq up' /\ requested' \in MaybeNode
  BY DEF AudioInv, AudioTypeOK, SourceAppears
<1>3. CASE n = audioNode /\ n \in Registered
  <2>1. [op |-> "source", node |-> n] \in TaskRecs
    BY DEF TaskRecs, MaybeNode
  <2>2. Len(lockQ) <= MaxQueue
    BY AudioAssumption DEF AudioInv, AudioTypeOK, QueueFits, SourceAppears
  <2>. QED  BY <1>1, <1>2, <1>3, <2>1, <2>2, QueuedKeeps DEF SourceAppears
<1>4. CASE UNCHANGED <<lockQ, overlapped>>
  BY <1>1, <1>2, <1>4
  DEF AudioInv, AudioTypeOK, RegistryInv, QueueFits, InStep, OutputsIdle, SourceAppears
<1>. QED  BY <1>3, <1>4 DEF SourceAppears

LEMMA SourceGoesKeeps ==
    ASSUME AudioInv, NEW n \in Nodes, SourceGoes(n) PROVE AudioInv'
<1>1. RegistryInv'
  BY RegistryStep DEF AudioInv, SourceGoes
<1>2. AudioTypeOK'
  BY <1>1 DEF AudioInv, AudioTypeOK, RegistryInv, SourceGoes
<1>3. QueueFits'
  BY DEF AudioInv, QueueFits, SourceGoes
<1>4. ASSUME ~overlapped PROVE InStep'
  BY <1>4 DEF AudioInv, InStep, OutputsIdle, SourceGoes
<1>. QED  BY <1>1, <1>2, <1>3, <1>4 DEF AudioInv, SourceGoes

LEMMA SetOutputKeeps ==
    ASSUME AudioInv, NEW k \in Calls, NEW on \in BOOLEAN, SetOutput(k, on)
    PROVE  AudioInv'
<1>. DEFINE o == [op |-> PwLink(on), src |-> source]
<1>1. RegistryInv'
  BY RegistryStep DEF AudioInv, SetOutput
<1>2. /\ source \in MaybeNode /\ linked \subseteq Nodes /\ outOp[k] = NoOp
      /\ outOp \in [Calls -> OutOps] /\ enabled' = on
      /\ outOp' = IF source = NoNode THEN outOp ELSE [outOp EXCEPT ![k] = o]
      /\ UNCHANGED <<audioNode, source, linked, up, lockQ, step, old, goal, requested>>
  BY DEF AudioInv, AudioTypeOK, SetOutput
<1>3. /\ o \in OutOps /\ o.src = source /\ (o.op = "link" <=> on)
      /\ o.op # "none" /\ NoOp.op = "none" /\ o # NoOp
  <2>1. o \in OutOps /\ o.src = source /\ (o.op = "link" <=> on) /\ o.op # "none"
    BY <1>2 DEF OutOps, PwLink
  <2>2. NoOp.op = "none"
    BY DEF NoOp
  <2>. QED  BY <2>1, <2>2
<1>. HIDE DEF o
<1>4. AudioTypeOK'
  BY <1>1, <1>2, <1>3 DEF AudioInv, AudioTypeOK, RegistryInv, SetOutput
<1>5. QueueFits'
  BY <1>2, <1>3 DEF AudioInv, QueueFits
<1>6. ASSUME ~overlapped' PROVE InStep'
  <2>1. /\ lockQ = <<>> /\ step = "begin" /\ linked \subseteq {source}
        /\ \A c \in Calls : outOp[c] # NoOp => outOp[c].src = source
    BY <1>6 DEF AudioInv, QueueFits, InStep, SetOutput
  <2>2. source = NoNode => linked = {}
    BY <1>2, <2>1, RegistryAssumption
  <2>3. \A c \in Calls : outOp[c] # NoOp => (outOp[c].op = "link" <=> on)
    <3>1. \A c \in Calls : outOp[c].op # PwLink(~ on)
      BY <1>6 DEF SetOutput
    <3>2. \A c \in Calls : outOp[c] # NoOp => outOp[c].op \in {"link", "unlink"}
      BY <1>2 DEF AudioInv, QueueFits, OutOps
    <3>. QED  BY <3>1, <3>2 DEF PwLink
  <2>4. \A c \in Calls : outOp'[c] # NoOp =>
            outOp'[c].src = source /\ (outOp'[c].op = "link" <=> on)
    BY <1>2, <1>3, <2>1, <2>3
  <2>5. source # NoNode => ~ OutputsIdle'
    BY <1>2, <1>3 DEF OutputsIdle
  <2>6. /\ lockQ' = <<>> /\ step' = "begin" /\ linked' \subseteq {source'}
        /\ OutputsIdle' => linked' = {}
    BY <1>2, <2>1, <2>2, <2>5
  <2>7. \A c \in Calls : outOp'[c] # NoOp =>
            lockQ' = <<>> /\ outOp'[c].src = source' /\ (outOp'[c].op = "link" <=> enabled')
    BY <1>2, <2>4, <2>6
  <2>. QED  BY <2>6, <2>7 DEF InStep
<1>. QED  BY <1>1, <1>4, <1>5, <1>6 DEF AudioInv

LEMMA OutputSetKeeps == ASSUME AudioInv, NEW k \in Calls, OutputSet(k) PROVE AudioInv'
<1>1. RegistryInv'
  BY RegistryStep DEF AudioInv, OutputSet
<1>2. linked' \subseteq up /\ outOp \in [Calls -> OutOps]
  BY DEF AudioInv, AudioTypeOK, OutputSet
<1>3. NoOp \in OutOps
  BY DEF OutOps, NoOp, MaybeNode
<1>4. AudioTypeOK'
  BY <1>1, <1>2, <1>3 DEF AudioInv, AudioTypeOK, RegistryInv, OutputSet
<1>5. QueueFits'
  BY <1>2 DEF AudioInv, QueueFits, OutputSet
<1>6. ASSUME ~overlapped PROVE InStep'
  <2>1. /\ lockQ = <<>> /\ step = "begin" /\ linked \subseteq {source}
        /\ \A c \in Calls : outOp[c] # NoOp =>
                outOp[c].src = source /\ (outOp[c].op = "link" <=> enabled)
    BY <1>6 DEF AudioInv, QueueFits, InStep, OutputSet
  <2>2. linked' \subseteq {source} /\ (~enabled => linked' = {})
    BY <2>1 DEF OutputSet
  <2>. QED  BY <1>2, <1>6, <2>1, <2>2 DEF InStep, OutputSet
<1>. QED  BY <1>1, <1>4, <1>5, <1>6 DEF AudioInv, OutputSet

LEMMA AudioStep == AudioInv /\ [AudioNext]_allVars => AudioInv'
<1>. SUFFICES ASSUME AudioInv, [AudioNext]_allVars
              PROVE  AudioInv'
  OBVIOUS
<1>1. ASSUME [RegistryNext]_nodeVars, UNCHANGED audioVars
      PROVE  AudioInv'
  <2>1. RegistryInv'
    BY <1>1, RegistryStep DEF AudioInv
  <2>. QED
    BY <1>1, <2>1
    DEF AudioInv, audioVars, AudioTypeOK, RegistryInv, QueueFits, InStep, OutputsIdle
<1>2. ASSUME NEW n \in Nodes, Register(n) \/ Goodbye(n),
             UNCHANGED audioVars
      PROVE  AudioInv'
  BY <1>1, <1>2 DEF RegistryNext, NodeNext
<1>3. ASSUME NEW n \in MaybeNode, ActivateScenario(n)
      PROVE  AudioInv'
  BY <1>3, ScenarioKeeps
<1>4. CASE LockStep
  BY <1>4, SwitchBeginsKeeps, DroppedKeeps, ReplacedKeeps, LinkedKeeps,
     SourceBeginsKeeps DEF LockStep
<1>5. ASSUME NEW n \in Nodes, SourceAppears(n) \/ SourceGoes(n)
      PROVE  AudioInv'
  BY <1>5, SourceAppearsKeeps, SourceGoesKeeps
<1>6. ASSUME NEW k \in Calls, NEW on \in BOOLEAN, SetOutput(k, on)
      PROVE  AudioInv'
  BY <1>6, SetOutputKeeps
<1>7. ASSUME NEW k \in Calls, OutputSet(k)
      PROVE  AudioInv'
  BY <1>7, OutputSetKeeps
<1>8. CASE UNCHANGED allVars
  BY <1>1, <1>8 DEF allVars
<1>. QED  BY <1>2, <1>3, <1>4, <1>5, <1>6, <1>7, <1>8 DEF AudioNext

-----------------------------------------------------------------------------
\* The router, the outputs and the lock's queue keep their types; the queue
\* never holds more than MaxQueue switches and one appearing source.
THEOREM AudioTyped == AudioSpec => []AudioTypeOK
<1>1. AudioInv => AudioTypeOK
  BY DEF AudioInv
<1>. QED  BY <1>1, AudioInitInv, AudioStep, PTL DEF AudioSpec

\* When no switch and no output change is under way, only the routed machine is
\* heard, whatever the lock's holders, the sources and the nodes did before, as
\* long as no output change overlapped a switch or a contrary one.
THEOREM OneHeard == AudioSpec => []OneMachineHeard
<1>1. AudioInv => OneMachineHeard
  BY DEF AudioInv, QueueFits, InStep, OneMachineHeard, Quiet, OutputsIdle
<1>. QED  BY <1>1, AudioInitInv, AudioStep, PTL DEF AudioSpec

\* A disabled output stays silent through every later switch, as long as no
\* output change overlapped a switch or a contrary one.
THEOREM SilentWhenDisabled == AudioSpec => []DisabledIsSilent
<1>1. AudioInv => DisabledIsSilent
  BY DEF AudioInv, QueueFits, InStep, DisabledIsSilent, Quiet
<1>. QED  BY <1>1, AudioInitInv, AudioStep, PTL DEF AudioSpec
=============================================================================
