--------------------------- MODULE SecureChannel ---------------------------
(***************************************************************************)
(* How the controller comes to talk to its paired nodes under keys that    *)
(* only the two know, and what a node does with the packets: pairing.py    *)
(* (who is trusted), the session monitor of main.py (one request at a time *)
(* to one node, given up after a timeout), session.py (the key agreement), *)
(* transport.py (counters and the replay window) and hid.py (_send_udp).   *)
(*                                                                         *)
(* A session is the pair of ephemeral keys that each end derives its keys  *)
(* from, the controller's and the node's; the node's is random, so that a  *)
(* pair is new.  UDP loses, repeats and reorders packets; requests and     *)
(* replies are lost or late.  Certificates and signatures are taken to     *)
(* verify.  Packets of one stream are modelled (HID: the controller sends  *)
(* nothing else); sending in the clear to a node without a session is not. *)
(***************************************************************************)
EXTENDS Integers, FiniteSets

CONSTANTS
    Nodes,
    Inits,        \* the controller's ephemeral keys
    Replies,      \* the nodes' ephemeral keys
    NoInit, NoReply, NoKey,
    Size,         \* the replay window's size
    MaxCounter,   \* bound: packets of one session
    MaxRestarts   \* bound: restarts, of the nodes and of the controller

ASSUME ChannelAssumption ==
    /\ Size \in Nat \ {0}
    /\ MaxCounter \in Nat
    /\ MaxRestarts \in Nat
    /\ NoInit \notin Inits /\ NoReply \notin Replies
    /\ NoKey \notin Inits \X Replies

VARIABLES
    paired, revoked,   \* the mesh CA's nodes and revocations
    listed,            \* the nodes of state.nodes that have an api_port
    session,           \* the controller's session with each node
    counter,           \* its send counter
    asking,            \* the monitor's request: to whom, and the two keys
    posts,             \* requests that a node may yet handle
    nodeKey,           \* each node's session
    window,            \* its replay window
    net,               \* the packets sent to it: UDP brings it any, at any time
    restarts,          \* for the bound
    taken,             \* history: how often the window let each counter pass
    applied, again,    \* ... the packets applied, the nodes that repeated one
    unsure             \* ... nodes that changed session since they answered

ctrlVars == <<paired, revoked, listed, session, counter, asking>>
vars == <<ctrlVars, posts, nodeKey, window, net, restarts, taken, applied, again, unsure>>

Counters == 0 .. MaxCounter
Keys == Inits \X Replies
Packets == [key : Keys, ctr : Counters]
Windows == [highest : Counters, bits : SUBSET Counters]
NotAsking == [node |-> {}, init |-> NoInit, reply |-> NoReply]

ChannelTypeOK ==
    /\ paired \subseteq Nodes /\ revoked \subseteq Nodes /\ listed \subseteq Nodes
    /\ session \in [Nodes -> Keys \cup {NoKey}]
    /\ counter \in [Nodes -> 0 .. MaxCounter + 1]
    /\ asking \in [node : {{}} \cup {{n} : n \in Nodes}, init : Inits \cup {NoInit},
                   reply : Replies \cup {NoReply}]
    /\ posts \subseteq [node : Nodes, init : Inits]
    /\ nodeKey \in [Nodes -> Keys \cup {NoKey}]
    /\ window \in [Nodes -> Windows]
    /\ net \in [Nodes -> SUBSET Packets]
    /\ restarts \in 0 .. MaxRestarts
    /\ taken \in [Nodes -> [Counters -> Nat]]
    /\ applied \in [Nodes -> SUBSET Packets]
    /\ again \subseteq Nodes
    /\ unsure \subseteq Nodes

-----------------------------------------------------------------------------
\* ReplayWindow: bit b says that counter highest - b was seen.

Promise == INSTANCE ReplayPromise WITH Streams <- Nodes, seen <- taken

NewWindow == [highest |-> 0, bits |-> {}]

\* Mutant of Admits: a counter exactly Size behind is looked up, not refused.
AdmitsOneMore(w, c) ==
    \/ c > w.highest
    \/ w.highest - c <= Size /\ w.highest - c \notin w.bits

Admits(w, c) ==
    \/ c > w.highest
    \/ w.highest - c < Size /\ w.highest - c \notin w.bits

\* Mutant of Shifted: one place too far.
ShiftedTooFar(bits, by) == {b + by + 1 : b \in bits} \cup {0}

Shifted(bits, by) == {b + by : b \in bits} \cup {0}

\* Mutant of Advanced: the bitmap is not shifted by a jump of Size - 1.
AdvancedShort(w, c) ==
    IF c > w.highest
    THEN [highest |-> c,
          bits |-> IF c - w.highest < Size - 1 THEN Shifted(w.bits, c - w.highest) ELSE {0}]
    ELSE [w EXCEPT !.bits = @ \cup {w.highest - c}]

Advanced(w, c) ==
    IF c > w.highest
    THEN [highest |-> c,
          bits |-> IF c - w.highest < Size THEN Shifted(w.bits, c - w.highest) ELSE {0}]
    ELSE [w EXCEPT !.bits = @ \cup {w.highest - c}]

-----------------------------------------------------------------------------
ChannelInit ==
    /\ paired = {} /\ revoked = {} /\ listed = {}
    /\ session = [n \in Nodes |-> NoKey]
    /\ counter = [n \in Nodes |-> 0]
    /\ asking = NotAsking
    /\ posts = {}
    /\ nodeKey = [n \in Nodes |-> NoKey]
    /\ window = [n \in Nodes |-> NewWindow]
    /\ net = [n \in Nodes |-> {}]
    /\ restarts = 0
    /\ taken = [n \in Nodes |-> Promise!Unseen]
    /\ applied = [n \in Nodes |-> {}]
    /\ again = {}
    /\ unsure = {}

\* is_node_trusted: a node approved again after a revocation stays revoked.
Trusted == paired \ revoked

ApproveNode(n) ==
    /\ paired' = paired \cup {n}
    /\ UNCHANGED <<revoked, listed, session, counter, asking, posts, nodeKey, window, net,
                   restarts, taken, applied, again, unsure>>

\* revoke_node leaves a session that the node has.
RevokeNode(n) ==
    /\ n \in paired
    /\ paired' = paired \ {n}
    /\ revoked' = revoked \cup {n}
    /\ UNCHANGED <<listed, session, counter, asking, posts, nodeKey, window, net, restarts,
                   taken, applied, again, unsure>>

\* The node registers with an api_port, or leaves the registry (or registers
\* again without a port).
List(n) ==
    /\ listed' = listed \cup {n}
    /\ UNCHANGED <<paired, revoked, session, counter, asking, posts, nodeKey, window,
                   net, restarts, taken, applied, again, unsure>>

Unlist(n) ==
    /\ n \in listed
    /\ listed' = listed \ {n}
    /\ UNCHANGED <<paired, revoked, session, counter, asking, posts, nodeKey, window,
                   net, restarts, taken, applied, again, unsure>>

-----------------------------------------------------------------------------
\* The session monitor.

\* It goes through the registered nodes, and looks the node up once more for
\* its port when it posts the request.
Askable(n) == n \in Trusted \cap listed /\ session[n] = NoKey

\* create_session_init: an ephemeral key of its own for every request.
StartSession(n) ==
    /\ asking = NotAsking
    /\ Askable(n)
    /\ \E i \in Inits :
          /\ \A p \in posts : p.init # i
          /\ asking' = [node |-> {n}, init |-> i, reply |-> NoReply]
          /\ posts' = posts \cup {[node |-> n, init |-> i]}
    /\ UNCHANGED <<paired, revoked, listed, session, counter, nodeKey, window, net, restarts,
                   taken, applied, again, unsure>>

\* Mutant of Waited: the answer to an earlier request of the node will do.
WaitedByAny(p) == asking.node = {p.node} /\ asking.reply = NoReply

Waited(p) == asking.node = {p.node} /\ asking.init = p.init /\ asking.reply = NoReply

\* A random key is none of those in use.
Fresh(r) ==
    \A n \in Nodes, i \in Inits :
        /\ <<i, r>> # session[n] /\ <<i, r>> # nodeKey[n] /\ r # asking.reply
        /\ \A p \in net[n] : p.key # <<i, r>>

\* handle_session_init, on the node; the monitor may have given the request up.
AnswerInit(p) ==
    /\ p \in posts
    /\ \E r \in Replies :
          /\ Fresh(r)
          /\ nodeKey' = [nodeKey EXCEPT ![p.node] = <<p.init, r>>]
          /\ asking' = IF Waited(p) THEN [asking EXCEPT !.reply = r] ELSE asking
    /\ unsure' = IF Waited(p) THEN unsure \ {p.node} ELSE unsure \cup {p.node}
    /\ posts' = posts \ {p}
    /\ window' = [window EXCEPT ![p.node] = NewWindow]
    /\ taken' = [taken EXCEPT ![p.node] = Promise!Unseen]
    /\ UNCHANGED <<paired, revoked, listed, session, counter, net, restarts, applied, again>>

Agreed == <<asking.init, asking.reply>>

\* complete_session: a new SessionState, whose counter starts at 0.
CompleteSession ==
    /\ asking.reply # NoReply
    /\ session' = [n \in Nodes |-> IF n \in asking.node THEN Agreed ELSE session[n]]
    /\ counter' = [n \in Nodes |-> IF n \in asking.node THEN 0 ELSE counter[n]]
    /\ asking' = NotAsking
    /\ UNCHANGED <<paired, revoked, listed, posts, nodeKey, window, net, restarts, taken,
                   applied, again, unsure>>

\* Mutant of GiveUp: the request has no timeout, only a bad reply ends it.
GiveUpOnReply ==
    /\ asking.reply # NoReply
    /\ asking' = NotAsking
    /\ UNCHANGED <<paired, revoked, listed, session, counter, posts, nodeKey, window, net,
                   restarts, taken, applied, again, unsure>>

\* The request or its reply is lost, or later than the timeout of 5 s.
GiveUp ==
    /\ asking # NotAsking
    /\ asking' = NotAsking
    /\ UNCHANGED <<paired, revoked, listed, session, counter, posts, nodeKey, window, net,
                   restarts, taken, applied, again, unsure>>

\* A request that is refused, or too old for the tolerance on its timestamp.
Refuse(p) ==
    /\ p \in posts
    /\ posts' = posts \ {p}
    /\ UNCHANGED <<ctrlVars, nodeKey, window, net, restarts, taken, applied, again, unsure>>

-----------------------------------------------------------------------------
\* SessionState.encrypt, and decrypt on the node.

Send(n) ==
    /\ session[n] # NoKey
    /\ counter[n] <= MaxCounter
    /\ net' = [net EXCEPT ![n] = @ \cup {[key |-> session[n], ctr |-> counter[n]]}]
    /\ counter' = [counter EXCEPT ![n] = @ + 1]
    /\ UNCHANGED <<paired, revoked, listed, session, asking, posts, nodeKey, window, restarts,
                   taken, applied, again, unsure>>

\* The window is advanced before the packet is authenticated.
Receive(n, p) ==
    /\ p \in net[n] /\ nodeKey[n] # NoKey
    /\ Admits(window[n], p.ctr)
    /\ window' = [window EXCEPT ![n] = Advanced(@, p.ctr)]
    /\ taken' = [taken EXCEPT ![n][p.ctr] = @ + 1]
    /\ IF p.key = nodeKey[n]
       THEN /\ applied' = [applied EXCEPT ![n] = @ \cup {p}]
            /\ again' = IF p \in applied[n] THEN again \cup {n} ELSE again
       ELSE UNCHANGED <<applied, again>>
    /\ UNCHANGED <<ctrlVars, posts, nodeKey, net, restarts, unsure>>

-----------------------------------------------------------------------------
NodeRestarts(n) ==
    /\ restarts < MaxRestarts
    /\ restarts' = restarts + 1
    /\ nodeKey' = [nodeKey EXCEPT ![n] = NoKey]
    /\ window' = [window EXCEPT ![n] = NewWindow]
    /\ taken' = [taken EXCEPT ![n] = Promise!Unseen]
    /\ unsure' = unsure \cup {n}
    /\ UNCHANGED <<ctrlVars, posts, net, applied, again>>

\* Pairings are kept on disk, sessions and registered nodes are not.
ControllerRestarts ==
    /\ restarts < MaxRestarts
    /\ restarts' = restarts + 1
    /\ session' = [n \in Nodes |-> NoKey]
    /\ counter' = [n \in Nodes |-> 0]
    /\ asking' = NotAsking
    /\ listed' = {}
    /\ UNCHANGED <<paired, revoked, posts, nodeKey, window, net, taken, applied, again, unsure>>

ChannelNext ==
    \/ \E n \in Nodes : ApproveNode(n) \/ RevokeNode(n) \/ List(n) \/ Unlist(n)
    \/ \E n \in Nodes : StartSession(n)
    \/ \E p \in posts : AnswerInit(p) \/ Refuse(p)
    \/ CompleteSession \/ GiveUp \/ ControllerRestarts
    \/ \E n \in Nodes : Send(n) \/ NodeRestarts(n)
    \/ \E n \in Nodes : \E p \in net[n] : Receive(n, p)

ChannelSpec == ChannelInit /\ [][ChannelNext]_vars

\* The monitor goes round every 3 s; a request of its own is answered in time,
\* and the reply received, if it is made again and again; the node does not
\* keep an old request for ever.
ChannelFairness ==
    /\ \A n \in Nodes : WF_vars(StartSession(n))
    /\ SF_vars(\E p \in posts : Waited(p) /\ AnswerInit(p))
    /\ WF_vars(\E p \in posts : AnswerInit(p) \/ Refuse(p))
    /\ SF_vars(CompleteSession)
    /\ WF_vars(GiveUp \/ CompleteSession)

ChannelFairSpec == ChannelSpec /\ ChannelFairness
-----------------------------------------------------------------------------
\* A window admits a counter exactly if it was not taken before and is not too
\* old, whatever the order, the gaps and the repetitions in which they come:
\* the bitmap and its shifts lose nothing and invent nothing.
AdmitsExactly ==
    \A n \in Nodes, c \in Counters :
        Admits(window[n], c) <=> taken[n][c] = 0 /\ ~Promise!TooOld(n, c)

\* Each window implements what its docstring says: whatever happens to the
\* session and the packets, it takes no counter that is too old or seen.
KeepsPromise == Promise!Spec

\* decrypt returns the payload of no packet twice, though the network repeats
\* it, the session changes and either end restarts.
NoReplay == again = {}

\* A node that has not changed session since it answered the monitor has the
\* session that the controller has with it, if the controller has one.
SessionsMatch ==
    \A n \in Nodes \ unsure :
        /\ session[n] # NoKey => nodeKey[n] = session[n]
        /\ asking.node = {n} /\ asking.reply # NoReply => nodeKey[n] = Agreed

\* The controller ends up with a session for every paired node that stays
\* registered with a port, whatever requests and replies were lost or late and
\* however often it left before.  That the node still has this session is
\* another matter: SessionsMatch.
SessionInTheEnd ==
    \A n \in Nodes :
        <>[](n \in Trusted \cap listed) => <>[](session[n] # NoKey)
=============================================================================
