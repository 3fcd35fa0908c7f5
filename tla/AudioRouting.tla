---------------------------- MODULE AudioRouting ----------------------------
(***************************************************************************)
(* Activating a scenario (controller/scenarios.py) moves the input focus   *)
(* to its node and then the audio: controller/audio.py links the node's    *)
(* PipeWire source to the outputs of controller/audio_outputs.py.  The     *)
(* audio switches are tasks that take _switch_lock in the order of their   *)
(* creation; each link or unlink is a pw-link process that is awaited, and *)
(* acts when it ends.  Outputs are enabled and disabled by API calls that  *)
(* take no lock: they overlap the switches and each other.  pw-link mode;  *)
(* one output without delay; a node has one source; pw-link does not fail  *)
(* to unlink.                                                              *)
(***************************************************************************)
EXTENDS NodeRegistry, Sequences

CONSTANTS
    MaxQueue,   \* bound: switches at the lock
    Calls       \* bound: the API calls that may be under way at once

ASSUME AudioAssumption == MaxQueue \in Nat

VARIABLES
    audioNode,   \* AudioRouter._active_node_id
    source,      \* AudioOutputManager._active_source
    linked,      \* the sources linked to the output in PipeWire
    up,          \* the sources that exist in PipeWire
    enabled,     \* output.enabled
    lockQ,       \* the tasks at _switch_lock; the first one holds it
    step,        \* begin, or the pw-link that the holder awaits
    old, goal,   \* the sources that it unlinks, and links at the end
    outOp,       \* the pw-link that each enable_output or disable_output awaits
    requested,   \* the node of the last activated scenario
    overlapped   \* an output was enabled or disabled during a switch, or enabled
                 \* and disabled by calls that were under way together

audioVars == <<audioNode, source, linked, up, enabled, lockQ, step, old, goal,
               outOp, requested, overlapped>>
allVars == <<nodeVars, audioVars>>

MaybeNode == Nodes \cup {NoNode}
TaskRecs == [op : {"switch", "source"}, node : MaybeNode]
OutOps == [op : {"none", "link", "unlink"}, src : MaybeNode]
NoOp == [op |-> "none", src |-> NoNode]

AudioTypeOK ==
    /\ NodeTypeOK
    /\ audioNode \in MaybeNode /\ requested \in MaybeNode
    /\ source \in MaybeNode /\ old \in MaybeNode /\ goal \in MaybeNode
    /\ linked \subseteq up /\ up \subseteq Nodes
    /\ enabled \in BOOLEAN
    /\ lockQ \in Seq(TaskRecs) /\ Len(lockQ) <= MaxQueue + 1
    /\ step \in {"begin", "dropping", "replacing", "linking"}
    /\ outOp \in [Calls -> OutOps]
    /\ overlapped \in BOOLEAN

AudioInit ==
    /\ NodeInit
    /\ audioNode = NoNode /\ requested = NoNode
    /\ source = NoNode /\ old = NoNode /\ goal = NoNode
    /\ linked = {} /\ up = {}
    /\ enabled = TRUE
    /\ lockQ = <<>>
    /\ step = "begin"
    /\ outOp = [k \in Calls |-> NoOp]
    /\ overlapped = FALSE

OutputsIdle == \A k \in Calls : outOp[k] = NoOp

\* ScenarioManager._activate of a scenario bound to n, or to no node: the focus
\* stays where it is when n is not online; the audio task is created anyway.
ActivateScenario(n) ==
    /\ Len(lockQ) < MaxQueue
    /\ IF n = NoNode THEN active' = active ELSE SetActive(n)
    /\ lockQ' = Append(lockQ, [op |-> "switch", node |-> n])
    /\ requested' = n
    /\ overlapped' = (overlapped \/ ~ OutputsIdle)
    /\ UNCHANGED <<kind, age, resolving, requery, alive, cached>>
    /\ UNCHANGED <<audioNode, source, linked, up, enabled, step, old, goal, outOp>>

-----------------------------------------------------------------------------
(* The holder of the lock.                                                 *)

Begins(op) == lockQ # <<>> /\ step = "begin" /\ lockQ[1].op = op

Release ==
    /\ lockQ' = Tail(lockQ) /\ step' = "begin"
    /\ old' = NoNode /\ goal' = NoNode

Awaits(pwLink, o, g) ==
    /\ step' = pwLink /\ old' = o /\ goal' = g
    /\ lockQ' = lockQ

\* Mutant of ConnectSource: the old source stays linked.
ConnectBeside(g, src) ==
    /\ source' = g
    /\ IF enabled THEN Awaits("linking", NoNode, g) ELSE Release

\* Mutant of ConnectSource: a disabled output is linked too.
ConnectDisabled(g, src) ==
    /\ source' = g
    /\ IF src # NoNode THEN Awaits("replacing", src, g)
       ELSE Awaits("linking", NoNode, g)

\* connect_source(g) up to its first pw-link, when src is the active source.
ConnectSource(g, src) ==
    /\ source' = g
    /\ IF ~ enabled THEN Release
       ELSE IF src # NoNode THEN Awaits("replacing", src, g)
       ELSE Awaits("linking", NoNode, g)

\* The rest of a switch once the previous node was dealt with.
Proceed(g, src) ==
    IF g = NoNode THEN source' = src /\ Release ELSE ConnectSource(g, src)

\* Mutant of SwitchBegins: a switch to an offline node changes nothing.
SwitchBeginsIfOnline ==
    LET new == lockQ[1].node IN
    /\ Begins("switch")
    /\ IF new = audioNode \/ new \notin Registered
       THEN Release /\ UNCHANGED <<audioNode, source>>
       ELSE audioNode' = new /\ Proceed(new, source)
    /\ UNCHANGED <<nodeVars, linked, up, enabled, outOp, requested, overlapped>>

\* on_scenario_activated with the lock, up to its first pw-link.  Both nodes
\* are looked up in the registry; a previous node that left it is not
\* disconnected, a new one that is not in it is not connected.
SwitchBegins ==
    LET new == lockQ[1].node
        g == IF new \in Registered THEN new ELSE NoNode
    IN
    /\ Begins("switch")
    /\ audioNode' = new
    /\ IF audioNode = new THEN source' = source /\ Release
       ELSE IF audioNode \notin Registered THEN Proceed(g, source)
       ELSE IF enabled /\ source # NoNode
            THEN source' = source /\ Awaits("dropping", source, g)
       ELSE Proceed(g, NoNode)
    /\ UNCHANGED <<nodeVars, linked, up, enabled, outOp, requested, overlapped>>

\* disconnect_all returns: the source is forgotten after it was unlinked.
Dropped ==
    /\ step = "dropping"
    /\ linked' = linked \ {old}
    /\ Proceed(goal, NoNode)
    /\ UNCHANGED <<nodeVars, audioNode, up, enabled, outOp, requested, overlapped>>

\* connect_source unlinked the old source; the output may be disabled by now.
Replaced ==
    /\ step = "replacing"
    /\ linked' = linked \ {old}
    /\ IF enabled THEN Awaits("linking", NoNode, goal) ELSE Release
    /\ UNCHANGED <<nodeVars, audioNode, source, up, enabled, outOp, requested,
                   overlapped>>

\* Mutant of Linked: the source counts as linked though it went meanwhile.
LinkedBlindly ==
    /\ step = "linking"
    /\ linked' = linked \cup {goal}
    /\ Release
    /\ UNCHANGED <<nodeVars, audioNode, source, up, enabled, outOp, requested,
                   overlapped>>

\* A link to a source that PipeWire does not have fails and is logged.
Linked ==
    /\ step = "linking"
    /\ linked' = linked \cup ({goal} \cap up)
    /\ Release
    /\ UNCHANGED <<nodeVars, audioNode, source, up, enabled, outOp, requested,
                   overlapped>>

\* _on_pw_event with the lock connects the node that was active when it began
\* to wait, whichever is active now.
SourceBegins ==
    /\ Begins("source")
    /\ ConnectSource(lockQ[1].node, source)
    /\ UNCHANGED <<nodeVars, audioNode, linked, up, enabled, outOp, requested,
                   overlapped>>

LockStep == SwitchBegins \/ Dropped \/ Replaced \/ Linked \/ SourceBegins

-----------------------------------------------------------------------------
(* PipeWire, and the outputs' API.                                         *)

\* A source appears; if it is the active node's, _on_pw_event waits for the
\* lock.  The watcher awaits its callback: one such task at a time.
SourceAppears(n) ==
    /\ n \notin up
    /\ \A i \in DOMAIN lockQ : lockQ[i].op # "source"
    /\ up' = up \cup {n}
    /\ IF n = audioNode /\ n \in Registered
       THEN /\ lockQ' = Append(lockQ, [op |-> "source", node |-> n])
            /\ overlapped' = (overlapped \/ ~ OutputsIdle)
       ELSE UNCHANGED <<lockQ, overlapped>>
    /\ UNCHANGED <<nodeVars, audioNode, source, linked, enabled, step, old, goal,
                   outOp, requested>>

SourceGoes(n) ==
    /\ n \in up
    /\ up' = up \ {n}
    /\ linked' = linked \ {n}
    /\ UNCHANGED <<nodeVars, audioNode, source, enabled, lockQ, step, old, goal,
                   outOp, requested, overlapped>>

PwLink(on) == IF on THEN "link" ELSE "unlink"

\* The call k of enable_output or disable_output up to the pw-link it awaits, if
\* there is an active source.
SetOutput(k, on) ==
    /\ outOp[k] = NoOp
    /\ enabled' = on
    /\ outOp' = IF source = NoNode THEN outOp
                ELSE [outOp EXCEPT ![k] = [op |-> PwLink(on), src |-> source]]
    /\ overlapped' = (overlapped \/ lockQ # <<>>
                        \/ \E c \in Calls : outOp[c].op = PwLink(~ on))
    /\ UNCHANGED <<nodeVars, audioNode, source, linked, up, lockQ, step, old, goal,
                   requested>>

\* The pw-link of call k ends, before or after that of an earlier call.
OutputSet(k) ==
    /\ outOp[k] # NoOp
    /\ linked' = IF outOp[k].op = "link" THEN linked \cup ({outOp[k].src} \cap up)
                 ELSE linked \ {outOp[k].src}
    /\ outOp' = [outOp EXCEPT ![k] = NoOp]
    /\ UNCHANGED <<nodeVars, audioNode, source, up, enabled, lockQ, step, old, goal,
                   requested, overlapped>>

-----------------------------------------------------------------------------
\* Of the registry's steps, one way for a node to come and one to go suffice:
\* the audio only asks who is registered.
AudioNext ==
    \/ \E n \in Nodes : /\ Register(n) \/ Goodbye(n)
                        /\ UNCHANGED audioVars
    \/ \E n \in MaybeNode : ActivateScenario(n)
    \/ LockStep
    \/ \E n \in Nodes : SourceAppears(n) \/ SourceGoes(n)
    \/ \E k \in Calls, on \in BOOLEAN : SetOutput(k, on)
    \/ \E k \in Calls : OutputSet(k)

AudioSpec == AudioInit /\ [][AudioNext]_allVars

\* Every pw-link process ends or is given up after a timeout.
AudioFairSpec == AudioSpec /\ WF_allVars(LockStep)

-----------------------------------------------------------------------------
(* Properties.                                                             *)

Quiet == lockQ = <<>> /\ OutputsIdle

\* When nothing is under way, no machine is heard but the one the outputs
\* manager takes for the routed one, however switches, appearing sources,
\* repeated enables and disables and departures followed each other.  The code
\* keeps this only while no output is changed in the middle of a switch, nor
\* enabled and disabled by calls that overlap: nothing orders their pw-links,
\* and what such an enable links beside a disabled output no switch unlinks.
OneMachineHeard == Quiet /\ ~ overlapped => linked \subseteq {source}

\* "Disable an output (stop routing audio to it)": it is silent once nothing is
\* under way, whichever source was routed when it was disabled and whatever was
\* switched and disabled since, with the same two exceptions.
DisabledIsSilent == Quiet /\ ~ overlapped /\ ~ enabled => linked = {}

\* A switch takes effect: unless scenarios are activated for ever, the router
\* ends up with the node of the last activation; switches are not lost or
\* reordered by the lock, and nothing holds it for ever.
AudioCatchesUp ==
    \/ []<><<requested' # requested>>_requested
    \/ []<>(audioNode = requested)

\* "On scenario switch: Disconnect old node's audio source from output": when
\* nothing is under way, no machine is heard but that of the active scenario.
AudioFollowsScenario == Quiet /\ ~ overlapped => linked \subseteq {requested}
=============================================================================
