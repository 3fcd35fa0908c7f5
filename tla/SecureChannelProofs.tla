------------------------ MODULE SecureChannelProofs ------------------------
(***************************************************************************)
(* For every number of nodes, window size and bound: the replay window is  *)
(* exact, it implements its promise, no packet is applied twice and the    *)
(* two ends of a session have the same keys.                               *)
(***************************************************************************)
EXTENDS SecureChannel, TLAPS

\* The bitmap and the counters taken say the same of every counter that is
\* not too old, and no bit is of a counter below 0.
WindowInv ==
    \A n \in Nodes :
        /\ \A b \in window[n].bits : b <= window[n].highest
        /\ window[n].highest # 0 => taken[n][window[n].highest] > 0
        /\ \A c \in Counters : taken[n][c] > 0 => c <= window[n].highest
        /\ \A c \in Counters :
              c <= window[n].highest /\ window[n].highest - c < Size =>
                  (taken[n][c] > 0 <=> window[n].highest - c \in window[n].bits)

\* What was applied was sent, and is still counted in the session it was for.
AppliedInv ==
    \A n \in Nodes :
        /\ applied[n] \subseteq net[n]
        /\ \A p \in applied[n] : p.key = nodeKey[n] => taken[n][p.ctr] > 0

\* The monitor asks for a session where there is none.
AskingInv ==
    /\ asking.node # {} => asking.init \in Inits
    /\ asking.node = {} => asking = NotAsking
    /\ \A n \in Nodes : asking.node = {n} => session[n] = NoKey

ChannelInv ==
    /\ ChannelTypeOK
    /\ WindowInv
    /\ AppliedInv
    /\ AskingInv
    /\ SessionsMatch
    /\ NoReplay

USE DEF Counters, Keys, Packets, Windows

-----------------------------------------------------------------------------
\* Advancing a window keeps it a window.
LEMMA AdvancedTyped ==
    ASSUME NEW w \in Windows, NEW c \in Counters, \A b \in w.bits : b <= w.highest
    PROVE  /\ Advanced(w, c) \in Windows
           /\ \A b \in Advanced(w, c).bits : b <= Advanced(w, c).highest
<1>1. CASE c > w.highest
  <2> DEFINE by == c - w.highest
  <2>1. \A b \in Shifted(w.bits, by) : b \in Counters /\ b <= c
    BY <1>1, ChannelAssumption DEF Shifted, ChannelAssumption
  <2>2. Advanced(w, c) =
          [highest |-> c, bits |-> IF by < Size THEN Shifted(w.bits, by) ELSE {0}]
    BY <1>1 DEF Advanced
  <2>3. \A b \in {0} : b \in Counters /\ b <= c
    BY ChannelAssumption DEF ChannelAssumption
  <2> QED
    BY <2>1, <2>2, <2>3
<1>2. CASE ~(c > w.highest)
  <2>1. Advanced(w, c) = [w EXCEPT !.bits = @ \cup {w.highest - c}]
    BY <1>2 DEF Advanced
  <2>2. w.highest - c \in Counters /\ w.highest - c <= w.highest
    BY <1>2, ChannelAssumption DEF ChannelAssumption
  <2> QED
    BY <2>1, <2>2
<1> QED
  BY <1>1, <1>2

\* After the window is advanced by a counter its bits say what they said of
\* the other counters that are not too old, and that this one was taken.
LEMMA AdvancedExact ==
    ASSUME NEW w \in Windows, NEW c \in Counters, \A b \in w.bits : b <= w.highest,
           NEW d \in Counters,
           d <= Advanced(w, c).highest, Advanced(w, c).highest - d < Size
    PROVE  Advanced(w, c).highest - d \in Advanced(w, c).bits
              <=> \/ d = c
                  \/ d <= w.highest /\ w.highest - d < Size /\ w.highest - d \in w.bits
<1>1. CASE c > w.highest /\ c - w.highest < Size
  <2> DEFINE by == c - w.highest
  <2>1. Advanced(w, c) = [highest |-> c, bits |-> Shifted(w.bits, by)]
    BY <1>1 DEF Advanced
  <2>2. c - d \in Shifted(w.bits, by) <=> c - d = 0 \/ \E b \in w.bits : c - d = b + by
    BY DEF Shifted
  <2>3. \A b \in w.bits : c - d = b + by <=> b = w.highest - d
    BY <1>1
  <2>4. (\E b \in w.bits : c - d = b + by) <=> w.highest - d \in w.bits
    BY <2>3
  <2>5. w.highest - d \in w.bits => d <= w.highest /\ w.highest - d < Size
    <3>1. w.highest \in Int /\ c \in Int /\ d \in Int /\ c - d < Size
      BY <2>1
    <3>2. w.highest - d \in w.bits => w.highest - d \in Nat
      BY DEF Windows
    <3>3. w.highest < c /\ Size \in Int
      BY <1>1, ChannelAssumption DEF ChannelAssumption
    <3> QED
      BY <3>1, <3>2, <3>3
  <2>6. c - d = 0 <=> d = c
    OBVIOUS
  <2>7. Advanced(w, c).highest - d = c - d /\ Advanced(w, c).bits = Shifted(w.bits, by)
    BY <2>1
  <2> HIDE DEF by
  <2> QED
    BY <2>2, <2>4, <2>5, <2>6, <2>7
<1>2. CASE c > w.highest /\ ~(c - w.highest < Size)
  <2>1. Advanced(w, c) = [highest |-> c, bits |-> {0}]
    BY <1>2 DEF Advanced
  <2>2. d > w.highest
    BY <1>2, <2>1, ChannelAssumption DEF ChannelAssumption
  <2> QED
    BY <2>1, <2>2
<1>3. CASE ~(c > w.highest)
  <2>1. Advanced(w, c) = [w EXCEPT !.bits = @ \cup {w.highest - c}]
    BY <1>3 DEF Advanced
  <2>2. w.highest - d = w.highest - c <=> d = c
    OBVIOUS
  <2> QED
    BY <2>1, <2>2
<1> QED
  BY <1>1, <1>2, <1>3

\* WindowInv says what AdmitsExactly needs of a window.
LEMMA ExactWindow ==
    ASSUME ChannelTypeOK, WindowInv
    PROVE  AdmitsExactly
<1> SUFFICES ASSUME NEW n \in Nodes, NEW c \in Counters
             PROVE  Admits(window[n], c) <=> taken[n][c] = 0 /\ ~Promise!TooOld(n, c)
  BY DEF AdmitsExactly
<1> DEFINE h == window[n].highest
<1>1. /\ h \in Counters
      /\ \A t \in Counters : taken[n][t] \in Nat
  BY DEF ChannelTypeOK
<1>2. /\ h # 0 => taken[n][h] > 0
      /\ \A t \in Counters : taken[n][t] > 0 => t <= h
      /\ c <= h /\ h - c < Size => (taken[n][c] > 0 <=> h - c \in window[n].bits)
  BY DEF WindowInv
<1>3. Promise!TooOld(n, c) <=> \E t \in Counters : taken[n][t] > 0 /\ c + Size <= t
  BY DEF Promise!TooOld
<1>4. Promise!TooOld(n, c) <=> c + Size <= h
  BY <1>1, <1>2, <1>3, ChannelAssumption DEF ChannelAssumption
<1>5. Admits(window[n], c) <=>
         c > h \/ (h - c < Size /\ h - c \notin window[n].bits)
  BY DEF Admits
<1>6. CASE c > h
  BY <1>1, <1>2, <1>4, <1>5, <1>6, ChannelAssumption DEF ChannelAssumption
<1>7. CASE c <= h
  BY <1>1, <1>2, <1>4, <1>5, <1>7, ChannelAssumption DEF ChannelAssumption
<1> QED
  BY <1>1, <1>6, <1>7

-----------------------------------------------------------------------------
LEMMA InitInv == ChannelInit => ChannelInv
<1> SUFFICES ASSUME ChannelInit PROVE ChannelInv
  OBVIOUS
<1> USE ChannelAssumption DEF ChannelAssumption, ChannelInit
<1>1. ChannelTypeOK
  BY DEF ChannelTypeOK, NewWindow, NotAsking, Promise!Unseen
<1>2. WindowInv
  BY DEF WindowInv, NewWindow, Promise!Unseen
<1>3. AppliedInv
  BY DEF AppliedInv
<1>4. AskingInv
  BY DEF AskingInv, NotAsking
<1>5. SessionsMatch
  BY DEF SessionsMatch, NotAsking
<1> QED
  BY <1>1, <1>2, <1>3, <1>4, <1>5 DEF ChannelInv, NoReplay

\* The controller's own steps touch neither the windows nor the packets.
LEMMA NodesUntouched ==
    ASSUME WindowInv, AppliedInv, NoReplay,
           UNCHANGED <<window, taken, applied, net, nodeKey, again>>
    PROVE  WindowInv' /\ AppliedInv' /\ NoReplay'
<1>1. WindowInv'
  BY DEF WindowInv
<1>2. AppliedInv'
  BY DEF AppliedInv
<1> QED
  BY <1>1, <1>2 DEF NoReplay

LEMMA StepApprove ==
    ASSUME ChannelInv, NEW n \in Nodes,
           ApproveNode(n) \/ RevokeNode(n) \/ List(n) \/ Unlist(n)
    PROVE  ChannelInv'
<1> USE DEF ChannelInv, ApproveNode, RevokeNode, List, Unlist
<1>1. ChannelTypeOK'
  BY DEF ChannelTypeOK
<1>2. WindowInv' /\ AppliedInv' /\ NoReplay'
  BY NodesUntouched
<1>3. AskingInv' /\ SessionsMatch'
  BY DEF AskingInv, SessionsMatch, Agreed
<1> QED
  BY <1>1, <1>2, <1>3

LEMMA StepStart ==
    ASSUME ChannelInv, NEW n \in Nodes, StartSession(n)
    PROVE  ChannelInv'
<1> USE DEF ChannelInv
<1>0. PICK i \in Inits :
        /\ asking' = [node |-> {n}, init |-> i, reply |-> NoReply]
        /\ posts' = posts \cup {[node |-> n, init |-> i]}
  BY DEF StartSession
<1>1. ChannelTypeOK'
  <2>1. asking' \in [node : {{}} \cup {{m} : m \in Nodes}, init : Inits \cup {NoInit},
                     reply : Replies \cup {NoReply}]
    BY <1>0
  <2>2. posts' \subseteq [node : Nodes, init : Inits]
    BY <1>0 DEF ChannelTypeOK
  <2> QED
    BY <2>1, <2>2 DEF ChannelTypeOK, StartSession
<1>2. WindowInv' /\ AppliedInv' /\ NoReplay'
  BY NodesUntouched DEF StartSession
<1>3. AskingInv'
  BY <1>0 DEF AskingInv, StartSession, Askable
<1>4. SessionsMatch'
  BY <1>0 DEF SessionsMatch, StartSession
<1> QED
  BY <1>1, <1>2, <1>3, <1>4

LEMMA StepComplete ==
    ASSUME ChannelInv, CompleteSession
    PROVE  ChannelInv'
<1> USE DEF ChannelInv
<1>1. asking.node # {} /\ Agreed \in Keys
  BY DEF CompleteSession, AskingInv, Agreed, ChannelTypeOK, NotAsking
<1>2. ChannelTypeOK'
  <2>1. session' \in [Nodes -> Keys \cup {NoKey}]
    <3>1. session \in [Nodes -> Keys \cup {NoKey}]
      BY DEF ChannelTypeOK
    <3> QED
      BY <1>1, <3>1 DEF CompleteSession
  <2>2. counter' \in [Nodes -> 0 .. MaxCounter + 1]
    <3>1. counter \in [Nodes -> 0 .. MaxCounter + 1]
      BY DEF ChannelTypeOK
    <3> QED
      BY <3>1, ChannelAssumption DEF CompleteSession, ChannelAssumption
  <2>3. asking' \in [node : {{}} \cup {{m} : m \in Nodes}, init : Inits \cup {NoInit},
                     reply : Replies \cup {NoReply}]
    BY DEF CompleteSession, NotAsking
  <2> QED
    BY <2>1, <2>2, <2>3 DEF ChannelTypeOK, CompleteSession
<1>3. WindowInv' /\ AppliedInv' /\ NoReplay'
  BY NodesUntouched DEF CompleteSession
<1>4. AskingInv'
  BY DEF AskingInv, CompleteSession, NotAsking
<1>5. SessionsMatch'
  <2> SUFFICES ASSUME NEW n \in Nodes \ unsure, session'[n] # NoKey
               PROVE  nodeKey[n] = session'[n]
    BY DEF SessionsMatch, CompleteSession, NotAsking
  <2>1. CASE n \in asking.node
    <3>1. asking.node = {n} /\ session'[n] = Agreed
      BY <2>1 DEF CompleteSession, ChannelTypeOK
    <3> QED
      BY <3>1 DEF SessionsMatch, CompleteSession
  <2>2. CASE n \notin asking.node
    BY <2>2 DEF SessionsMatch, CompleteSession
  <2> QED
    BY <2>1, <2>2
<1> QED
  BY <1>2, <1>3, <1>4, <1>5

LEMMA StepGiveUp ==
    ASSUME ChannelInv, GiveUp \/ \E p \in posts : Refuse(p)
    PROVE  ChannelInv'
<1> USE DEF ChannelInv, GiveUp, Refuse, ctrlVars
<1>1. ChannelTypeOK'
  <2>1. (asking' = asking \/ asking' = NotAsking) /\ posts' \subseteq posts
    OBVIOUS
  <2>2. UNCHANGED <<paired, revoked, listed, session, counter, nodeKey, window, net, restarts,
                    taken, applied, again, unsure>>
    OBVIOUS
  <2> HIDE DEF GiveUp, Refuse
  <2>3. posts' \subseteq [node : Nodes, init : Inits]
    BY <2>1 DEF ChannelTypeOK
  <2>4. asking' \in [node : {{}} \cup {{n} : n \in Nodes}, init : Inits \cup {NoInit},
                     reply : Replies \cup {NoReply}]
    <3>1. NotAsking \in [node : {{}} \cup {{n} : n \in Nodes}, init : Inits \cup {NoInit},
                         reply : Replies \cup {NoReply}]
      BY DEF NotAsking
    <3> QED
      BY <2>1, <3>1 DEF ChannelTypeOK
  <2> QED
    BY <2>2, <2>3, <2>4 DEF ChannelTypeOK
<1>2. WindowInv' /\ AppliedInv' /\ NoReplay'
  BY NodesUntouched
<1>3. AskingInv' /\ SessionsMatch'
  BY DEF AskingInv, SessionsMatch, Agreed, NotAsking
<1> QED
  BY <1>1, <1>2, <1>3

LEMMA StepControllerRestarts ==
    ASSUME ChannelInv, ControllerRestarts
    PROVE  ChannelInv'
<1> USE DEF ChannelInv, ControllerRestarts
<1>1. ChannelTypeOK'
  <2>1. counter' \in [Nodes -> 0 .. MaxCounter + 1]
    BY ChannelAssumption DEF ChannelAssumption
  <2>2. session' \in [Nodes -> Keys \cup {NoKey}]
    OBVIOUS
  <2>3. asking' \in [node : {{}} \cup {{n} : n \in Nodes}, init : Inits \cup {NoInit},
                     reply : Replies \cup {NoReply}]
    BY DEF NotAsking
  <2>4. restarts' \in 0 .. MaxRestarts
    BY ChannelAssumption DEF ChannelTypeOK, ChannelAssumption
  <2> QED
    BY <2>1, <2>2, <2>3, <2>4 DEF ChannelTypeOK
<1>2. WindowInv' /\ AppliedInv' /\ NoReplay'
  BY NodesUntouched
<1>3. AskingInv' /\ SessionsMatch'
  BY DEF AskingInv, SessionsMatch, NotAsking
<1> QED
  BY <1>1, <1>2, <1>3

\* A new window of one node, and the old ones of the others.
LEMMA WindowReset ==
    ASSUME ChannelTypeOK, WindowInv, NEW m \in Nodes,
           window' = [window EXCEPT ![m] = NewWindow],
           taken' = [taken EXCEPT ![m] = Promise!Unseen]
    PROVE  WindowInv'
<1> SUFFICES ASSUME NEW n \in Nodes
             PROVE  /\ \A b \in window'[n].bits : b <= window'[n].highest
                    /\ window'[n].highest # 0 => taken'[n][window'[n].highest] > 0
                    /\ \A c \in Counters : taken'[n][c] > 0 => c <= window'[n].highest
                    /\ \A c \in Counters :
                          c <= window'[n].highest /\ window'[n].highest - c < Size =>
                            (taken'[n][c] > 0
                                <=> window'[n].highest - c \in window'[n].bits)
  BY DEF WindowInv
<1>1. CASE n = m
  <2>1. window'[n] = NewWindow /\ taken'[n] = Promise!Unseen
    BY <1>1 DEF ChannelTypeOK
  <2>2. window'[n].highest = 0 /\ window'[n].bits = {}
    BY <2>1 DEF NewWindow
  <2>3. \A c \in Counters : taken'[n][c] = 0
    BY <2>1 DEF Promise!Unseen
  <2> QED
    BY <2>2, <2>3
<1>2. CASE n # m
  <2>1. window'[n] = window[n] /\ taken'[n] = taken[n]
    BY <1>2 DEF ChannelTypeOK
  <2> QED
    BY <2>1 DEF WindowInv
<1> QED
  BY <1>1, <1>2

\* A node's new key is under no packet that was sent.
LEMMA StepAnswer ==
    ASSUME ChannelInv, NEW p \in posts, AnswerInit(p)
    PROVE  ChannelInv'
<1> USE DEF ChannelInv
<1>0. p.node \in Nodes /\ p.init \in Inits
  BY DEF ChannelTypeOK
<1>1. PICK r \in Replies :
        /\ Fresh(r)
        /\ nodeKey' = [nodeKey EXCEPT ![p.node] = <<p.init, r>>]
        /\ asking' = IF Waited(p) THEN [asking EXCEPT !.reply = r] ELSE asking
  BY DEF AnswerInit
<1>2. Waited(p) => asking' = [node |-> {p.node}, init |-> p.init, reply |-> r]
  BY <1>1 DEF Waited, ChannelTypeOK
<1>3. ChannelTypeOK'
  <2>1. NewWindow \in Windows /\ Promise!Unseen \in [Counters -> Nat]
    BY ChannelAssumption DEF NewWindow, Promise!Unseen, ChannelAssumption
  <2>2. asking' \in [node : {{}} \cup {{n} : n \in Nodes}, init : Inits \cup {NoInit},
                     reply : Replies \cup {NoReply}]
    BY <1>0, <1>1, <1>2 DEF ChannelTypeOK
  <2>3. nodeKey' \in [Nodes -> Keys \cup {NoKey}]
    BY <1>0, <1>1 DEF ChannelTypeOK
  <2>4. unsure' \subseteq Nodes
    BY <1>0 DEF ChannelTypeOK, AnswerInit
  <2> QED
    BY <2>1, <2>2, <2>3, <2>4 DEF ChannelTypeOK, AnswerInit
<1>4. WindowInv'
  BY <1>0, WindowReset DEF AnswerInit
<1>5. AppliedInv'
  <2> SUFFICES ASSUME NEW n \in Nodes, NEW q \in applied[n]
               PROVE  /\ q \in net[n]
                      /\ q.key = nodeKey'[n] => taken'[n][q.ctr] > 0
    BY DEF AppliedInv, AnswerInit
  <2>1. q \in net[n]
    BY DEF AppliedInv
  <2>2. CASE n = p.node
    <3>1. nodeKey'[n] = <<p.init, r>>
      BY <1>1, <2>2 DEF ChannelTypeOK
    <3> QED
      BY <1>0, <1>1, <2>1, <3>1 DEF Fresh
  <2>3. CASE n # p.node
    <3>1. nodeKey'[n] = nodeKey[n] /\ taken'[n] = taken[n]
      BY <1>1, <2>3 DEF ChannelTypeOK, AnswerInit
    <3> QED
      BY <2>1, <3>1 DEF AppliedInv
  <2> QED
    BY <2>2, <2>3
<1>6. AskingInv'
  BY <1>0, <1>1, <1>2 DEF AskingInv, AnswerInit, Waited
<1>7. SessionsMatch'
  <2> SUFFICES ASSUME NEW n \in Nodes \ unsure'
               PROVE  /\ session[n] # NoKey => nodeKey'[n] = session[n]
                      /\ asking'.node = {n} /\ asking'.reply # NoReply
                            => nodeKey'[n] = Agreed'
    BY DEF SessionsMatch, AnswerInit
  <2>1. CASE n = p.node
    <3>1. Waited(p)
      BY <2>1 DEF AnswerInit
    <3>2. session[n] = NoKey
      BY <2>1, <3>1 DEF AskingInv, Waited
    <3>3. nodeKey'[n] = <<p.init, r>> /\ Agreed' = <<p.init, r>>
      BY <1>1, <1>2, <2>1, <3>1 DEF ChannelTypeOK, Agreed
    <3> QED
      BY <3>2, <3>3
  <2>2. CASE n # p.node
    <3>1. nodeKey'[n] = nodeKey[n] /\ n \notin unsure
      BY <1>1, <2>2 DEF ChannelTypeOK, AnswerInit
    <3>2. asking'.node = {n} => ~Waited(p)
      BY <1>2, <2>2
    <3> QED
      BY <1>1, <3>1, <3>2 DEF SessionsMatch, Agreed
  <2> QED
    BY <2>1, <2>2
<1>8. NoReplay'
  BY DEF NoReplay, AnswerInit
<1> QED
  BY <1>3, <1>4, <1>5, <1>6, <1>7, <1>8

LEMMA StepNodeRestarts ==
    ASSUME ChannelInv, NEW m \in Nodes, NodeRestarts(m)
    PROVE  ChannelInv'
<1> USE DEF ChannelInv, ctrlVars
<1>1. ChannelTypeOK'
  <2>1. NewWindow \in Windows /\ Promise!Unseen \in [Counters -> Nat]
    BY ChannelAssumption DEF NewWindow, Promise!Unseen, ChannelAssumption
  <2>2. restarts' \in 0 .. MaxRestarts
    BY ChannelAssumption DEF ChannelTypeOK, NodeRestarts, ChannelAssumption
  <2> QED
    BY <2>1, <2>2 DEF ChannelTypeOK, NodeRestarts
<1>2. WindowInv'
  BY WindowReset DEF NodeRestarts
<1>3. AppliedInv'
  <2> SUFFICES ASSUME NEW n \in Nodes, NEW q \in applied[n]
               PROVE  /\ q \in net[n]
                      /\ q.key = nodeKey'[n] => taken'[n][q.ctr] > 0
    BY DEF AppliedInv, NodeRestarts
  <2>1. q \in net[n] /\ q.key \in Keys
    BY DEF AppliedInv, ChannelTypeOK
  <2>2. CASE n = m
    BY <2>1, <2>2, ChannelAssumption DEF ChannelTypeOK, NodeRestarts, ChannelAssumption
  <2>3. CASE n # m
    BY <2>1, <2>3 DEF AppliedInv, ChannelTypeOK, NodeRestarts
  <2> QED
    BY <2>2, <2>3
<1>4. AskingInv'
  BY DEF AskingInv, NodeRestarts
<1>5. SessionsMatch'
  BY DEF SessionsMatch, NodeRestarts, ChannelTypeOK, Agreed
<1>6. NoReplay'
  BY DEF NoReplay, NodeRestarts
<1> QED
  BY <1>1, <1>2, <1>3, <1>4, <1>5, <1>6

LEMMA StepSend ==
    ASSUME ChannelInv, NEW n \in Nodes, Send(n)
    PROVE  ChannelInv'
<1> USE DEF ChannelInv
<1>0. [key |-> session[n], ctr |-> counter[n]] \in Packets
  BY ChannelAssumption DEF Send, ChannelTypeOK, ChannelAssumption
<1>1. ChannelTypeOK'
  <2>1. net' \in [Nodes -> SUBSET Packets]
    BY <1>0 DEF ChannelTypeOK, Send
  <2>2. counter' \in [Nodes -> 0 .. MaxCounter + 1]
    <3>1. counter \in [Nodes -> 0 .. MaxCounter + 1]
      BY DEF ChannelTypeOK
    <3> QED
      BY <3>1, ChannelAssumption DEF Send, ChannelAssumption
  <2> QED
    BY <2>1, <2>2 DEF ChannelTypeOK, Send
<1>2. WindowInv'
  BY DEF WindowInv, Send
<1>3. AppliedInv'
  BY DEF AppliedInv, Send, ChannelTypeOK
<1>4. AskingInv' /\ SessionsMatch' /\ NoReplay'
  BY DEF AskingInv, SessionsMatch, NoReplay, Send, Agreed
<1> QED
  BY <1>1, <1>2, <1>3, <1>4

LEMMA CountedUp ==
    ASSUME NEW f \in [Counters -> Nat], NEW c \in Counters
    PROVE  /\ [f EXCEPT ![c] = f[c] + 1] \in [Counters -> Nat]
           /\ \A d \in Counters :
                 [f EXCEPT ![c] = f[c] + 1][d] > 0 <=> d = c \/ f[d] > 0
<1> DEFINE g == [f EXCEPT ![c] = f[c] + 1]
<1>1. f[c] + 1 \in Nat /\ f[c] + 1 > 0
  OBVIOUS
<1>2. \A d \in Counters : g[d] = IF d = c THEN f[c] + 1 ELSE f[d]
  OBVIOUS
<1> QED
  BY <1>1, <1>2

\* The window of the node that receives a packet.
LEMMA WindowAdvances ==
    ASSUME ChannelTypeOK, WindowInv, NEW m \in Nodes, NEW c \in Counters,
           Admits(window[m], c),
           window' = [window EXCEPT ![m] = Advanced(@, c)],
           taken' = [taken EXCEPT ![m][c] = @ + 1]
    PROVE  /\ window' \in [Nodes -> Windows]
           /\ taken' \in [Nodes -> [Counters -> Nat]]
           /\ WindowInv'
<1> DEFINE w == window[m]
           v == Advanced(w, c)
<1>1. w \in Windows /\ \A b \in w.bits : b <= w.highest
  BY DEF ChannelTypeOK, WindowInv
<1>2. v \in Windows /\ \A b \in v.bits : b <= v.highest
  BY <1>1, AdvancedTyped
<1>3. taken[m] \in [Counters -> Nat]
  BY DEF ChannelTypeOK
<1>4. /\ taken'[m] = [taken[m] EXCEPT ![c] = taken[m][c] + 1]
      /\ taken' = [taken EXCEPT ![m] = taken'[m]]
      /\ \A n \in Nodes \ {m} : taken'[n] = taken[n]
  <2>1. taken \in [Nodes -> [Counters -> Nat]]
    BY DEF ChannelTypeOK
  <2> DEFINE f == [taken[m] EXCEPT ![c] = taken[m][c] + 1]
  <2>2. taken' = [taken EXCEPT ![m] = f]
    OBVIOUS
  <2> HIDE DEF f
  <2>3. taken'[m] = f /\ \A n \in Nodes \ {m} : taken'[n] = taken[n]
    BY <2>1, <2>2
  <2> QED
    BY <2>2, <2>3 DEF f
<1>5. /\ taken'[m] \in [Counters -> Nat]
      /\ \A d \in Counters : taken'[m][d] > 0 <=> d = c \/ taken[m][d] > 0
  <2> DEFINE f == taken[m]
             g == [f EXCEPT ![c] = f[c] + 1]
  <2>1. f \in [Counters -> Nat] /\ taken'[m] = g
    BY <1>3, <1>4
  <2>2. g \in [Counters -> Nat] /\ \A d \in Counters : g[d] > 0 <=> d = c \/ f[d] > 0
    <3> HIDE DEF f
    <3> QED
      BY <2>1, CountedUp
  <2> HIDE DEF g
  <2> QED
    BY <2>1, <2>2
<1>6. window' \in [Nodes -> Windows] /\ taken' \in [Nodes -> [Counters -> Nat]]
  <2>1. taken' \in [Nodes -> [Counters -> Nat]]
    BY <1>4, <1>5 DEF ChannelTypeOK
  <2>2. window' \in [Nodes -> Windows]
    BY <1>2 DEF ChannelTypeOK
  <2> QED
    BY <2>1, <2>2
<1>7. window'[m] = v /\ \A n \in Nodes \ {m} : window'[n] = window[n]
  BY DEF ChannelTypeOK
<1>9. v.highest = IF c > w.highest THEN c ELSE w.highest
  BY <1>1 DEF Advanced
<1>10. /\ w.highest # 0 => taken[m][w.highest] > 0
       /\ \A d \in Counters : taken[m][d] > 0 => d <= w.highest
       /\ \A d \in Counters : d <= w.highest /\ w.highest - d < Size =>
              (taken[m][d] > 0 <=> w.highest - d \in w.bits)
  BY DEF WindowInv
<1> HIDE DEF w, v
<1>11. w.highest \in Counters /\ v.highest \in Counters /\ Counters \subseteq Nat
  BY <1>1, <1>2, ChannelAssumption DEF ChannelAssumption
<1>12. v.highest # 0 => taken'[m][v.highest] > 0
  BY <1>5, <1>9, <1>10, <1>11
<1>13. \A d \in Counters : taken'[m][d] > 0 => d <= v.highest
  BY <1>5, <1>9, <1>10, <1>11
<1>14. ASSUME NEW d \in Counters, d <= v.highest, v.highest - d < Size
       PROVE  taken'[m][d] > 0 <=> v.highest - d \in v.bits
  <2>1. v.highest - d \in v.bits
          <=> \/ d = c
              \/ d <= w.highest /\ w.highest - d < Size /\ w.highest - d \in w.bits
    BY <1>1, <1>14, AdvancedExact DEF v
  <2>2. taken[m][d] > 0 /\ d # c
          => d <= w.highest /\ w.highest - d < Size /\ w.highest - d \in w.bits
    BY <1>9, <1>10, <1>11, <1>14, ChannelAssumption DEF ChannelAssumption
  <2>3. d <= w.highest /\ w.highest - d < Size /\ w.highest - d \in w.bits
          => taken[m][d] > 0
    BY <1>10
  <2> QED
    BY <1>5, <2>1, <2>2, <2>3
<1>15. WindowInv'
  <2> SUFFICES ASSUME NEW n \in Nodes
               PROVE  /\ \A b \in window'[n].bits : b <= window'[n].highest
                      /\ window'[n].highest # 0 => taken'[n][window'[n].highest] > 0
                      /\ \A d \in Counters : taken'[n][d] > 0 => d <= window'[n].highest
                      /\ \A d \in Counters :
                            d <= window'[n].highest /\ window'[n].highest - d < Size =>
                              (taken'[n][d] > 0
                                  <=> window'[n].highest - d \in window'[n].bits)
    BY DEF WindowInv
  <2>1. CASE n = m
    BY <1>2, <1>7, <1>12, <1>13, <1>14, <2>1
  <2>2. CASE n # m
    <3>1. window'[n] = window[n] /\ taken'[n] = taken[n]
      BY <1>4, <1>7, <2>2
    <3> QED
      BY <3>1 DEF WindowInv
  <2> QED
    BY <2>1, <2>2
<1> QED
  BY <1>6, <1>15

LEMMA StepReceive ==
    ASSUME ChannelInv, NEW m \in Nodes, NEW p \in net[m], Receive(m, p)
    PROVE  ChannelInv'
<1> USE DEF ChannelInv
<1>1. p \in Packets /\ p.ctr \in Counters
  BY DEF ChannelTypeOK
<1>2. /\ window' \in [Nodes -> Windows]
      /\ taken' \in [Nodes -> [Counters -> Nat]]
      /\ WindowInv'
  BY <1>1, WindowAdvances DEF Receive
<1>3. taken[m][p.ctr] = 0
  BY <1>1, ExactWindow DEF AdmitsExactly, Receive
<1>4. again' = again
  <2>1. ~(p.key = nodeKey[m] /\ p \in applied[m])
    BY <1>3 DEF AppliedInv
  <2> QED
    BY <2>1 DEF Receive
<1>5. ChannelTypeOK'
  <2>1. applied' \in [Nodes -> SUBSET Packets]
    <3>1. applied' = applied \/ applied' = [applied EXCEPT ![m] = @ \cup {p}]
      BY DEF Receive
    <3>2. applied \in [Nodes -> SUBSET Packets] /\ applied[m] \cup {p} \in SUBSET Packets
      BY <1>1 DEF ChannelTypeOK
    <3> QED
      BY <3>1, <3>2
  <2> QED
    BY <1>2, <1>4, <2>1 DEF ChannelTypeOK, Receive, ctrlVars
<1>6. AppliedInv'
  <2> SUFFICES ASSUME NEW n \in Nodes, NEW q \in applied'[n]
               PROVE  /\ q \in net[n]
                      /\ q.key = nodeKey[n] => taken'[n][q.ctr] > 0
    BY DEF AppliedInv, Receive
  <2>1. q \in applied[n] \/ (n = m /\ q = p)
    BY DEF Receive, ChannelTypeOK
  <2>2. q \in Packets
    BY <1>1, <2>1 DEF ChannelTypeOK
  <2>3. /\ \A d \in Counters : taken[n][d] \in Nat
        /\ n = m => taken'[n][p.ctr] = taken[n][p.ctr] + 1
        /\ \A d \in Counters : n # m \/ d # p.ctr => taken'[n][d] = taken[n][d]
    <3>1. taken \in [Nodes -> [Counters -> Nat]] /\ p.ctr \in Counters
      BY <1>1 DEF ChannelTypeOK
    <3>2. taken' = [taken EXCEPT ![m][p.ctr] = @ + 1]
      BY DEF Receive
    <3> QED
      BY <3>1, <3>2
  <2>4. taken[n][q.ctr] > 0 \/ (n = m /\ q = p) => taken'[n][q.ctr] > 0
    BY <2>2, <2>3
  <2> QED
    BY <2>1, <2>4 DEF AppliedInv
<1>7. AskingInv' /\ SessionsMatch'
  BY DEF AskingInv, SessionsMatch, Receive, ctrlVars, Agreed
<1>8. NoReplay'
  BY <1>4 DEF NoReplay
<1> QED
  BY <1>2, <1>5, <1>6, <1>7, <1>8

-----------------------------------------------------------------------------
LEMMA StepInv == ChannelInv /\ [ChannelNext]_vars => ChannelInv'
<1> SUFFICES ASSUME ChannelInv, [ChannelNext]_vars
             PROVE  ChannelInv'
  OBVIOUS
<1>1. ASSUME NEW n \in Nodes, ApproveNode(n) \/ RevokeNode(n) \/ List(n) \/ Unlist(n)
      PROVE  ChannelInv'
  BY <1>1, StepApprove
<1>2. ASSUME NEW n \in Nodes, StartSession(n) PROVE ChannelInv'
  BY <1>2, StepStart
<1>3. ASSUME NEW p \in posts, AnswerInit(p) PROVE ChannelInv'
  BY <1>3, StepAnswer
<1>4. ASSUME NEW p \in posts, Refuse(p) PROVE ChannelInv'
  BY <1>4, StepGiveUp
<1>5. CASE CompleteSession
  BY <1>5, StepComplete
<1>6. CASE GiveUp
  BY <1>6, StepGiveUp
<1>7. CASE ControllerRestarts
  BY <1>7, StepControllerRestarts
<1>8. ASSUME NEW n \in Nodes, Send(n) PROVE ChannelInv'
  BY <1>8, StepSend
<1>9. ASSUME NEW n \in Nodes, NodeRestarts(n) PROVE ChannelInv'
  BY <1>9, StepNodeRestarts
<1>10. ASSUME NEW n \in Nodes, NEW p \in net[n], Receive(n, p) PROVE ChannelInv'
  BY <1>10, StepReceive
<1>11. CASE UNCHANGED vars
  <2>1. UNCHANGED <<paired, revoked, listed, session, counter, asking, posts, nodeKey, window, net,
                    restarts, taken, applied, again, unsure>>
    BY <1>11 DEF vars, ctrlVars
  <2>2. ChannelTypeOK'
    BY <2>1 DEF ChannelInv, ChannelTypeOK
  <2>3. WindowInv' /\ AppliedInv' /\ NoReplay'
    BY <2>1, NodesUntouched DEF ChannelInv
  <2>4. AskingInv' /\ SessionsMatch'
    BY <2>1 DEF ChannelInv, AskingInv, SessionsMatch, Agreed
  <2> QED
    BY <2>2, <2>3, <2>4 DEF ChannelInv
<1> QED
  BY <1>1, <1>2, <1>3, <1>4, <1>5, <1>6, <1>7, <1>8, <1>9, <1>10, <1>11 DEF ChannelNext

LEMMA ChannelInvariant == ChannelSpec => []ChannelInv
BY InitInv, StepInv, PTL DEF ChannelSpec

\* The state of the channel is always well formed: in particular the bitmap of
\* ReplayWindow (transport.py) never holds a counter that cannot have come.
THEOREM ChannelTyped == ChannelSpec => []ChannelTypeOK
BY ChannelInvariant, PTL DEF ChannelInv

\* ReplayWindow.check_and_advance admits a counter exactly if it has not been
\* taken in this session and is less than Size behind the highest that was.
THEOREM WindowIsExact == ChannelSpec => []AdmitsExactly
<1>1. ChannelInv => AdmitsExactly
  BY ExactWindow DEF ChannelInv
<1> QED
  BY <1>1, ChannelInvariant, PTL

\* No node applies a packet twice, whatever UDP repeats, however often either
\* end restarts and the session changes.
THEOREM NeverReplayed == ChannelSpec => []NoReplay
BY ChannelInvariant, PTL DEF ChannelInv

\* What complete_session and handle_session_init derive is the same, for every
\* interleaving of requests given up and answered late.
THEOREM KeysAgreed == ChannelSpec => []SessionsMatch
BY ChannelInvariant, PTL DEF ChannelInv

\* The windows of SessionState implement the promise of ReplayWindow's
\* docstring: every step of the channel is a step of it or leaves it alone.
THEOREM WindowsImplementPromise == ChannelSpec => KeepsPromise
<1>1. ChannelInit => Promise!Init
  BY DEF ChannelInit, Promise!Init
<1>2. ASSUME ChannelInv, [ChannelNext]_vars
      PROVE  [Promise!Next]_taken
  <2>1. ASSUME NEW p \in posts, AnswerInit(p) PROVE Promise!Next
    <3>1. p.node \in Nodes /\ Promise!Restart(p.node)
      BY <1>2, <2>1 DEF ChannelInv, ChannelTypeOK, AnswerInit, Promise!Restart
    <3> QED
      BY <3>1 DEF Promise!Next
  <2>2. ASSUME NEW n \in Nodes, NodeRestarts(n) PROVE Promise!Next
    <3>1. Promise!Restart(n)
      BY <2>2 DEF NodeRestarts, Promise!Restart
    <3> QED
      BY <3>1 DEF Promise!Next
  <2>3. ASSUME NEW n \in Nodes, NEW p \in net[n], Receive(n, p) PROVE Promise!Next
    <3>1. p.ctr \in Counters
      BY <1>2 DEF ChannelInv, ChannelTypeOK
    <3>2. taken[n][p.ctr] = 0 /\ ~Promise!TooOld(n, p.ctr)
      BY <1>2, <2>3, <3>1, ExactWindow DEF ChannelInv, AdmitsExactly, Receive
    <3>3. Promise!Accept(n, p.ctr)
      BY <2>3, <3>2 DEF Receive, Promise!Accept
    <3> QED
      BY <3>1, <3>3 DEF Promise!Next
  <2>4. CASE \/ \E n \in Nodes : \/ ApproveNode(n) \/ RevokeNode(n) \/ List(n) \/ Unlist(n)
                                \/ StartSession(n) \/ Send(n)
             \/ \E p \in posts : Refuse(p)
             \/ CompleteSession \/ GiveUp \/ ControllerRestarts
             \/ UNCHANGED vars
    BY <2>4 DEF ApproveNode, RevokeNode, List, Unlist, StartSession, Send, Refuse,
                CompleteSession, GiveUp, ControllerRestarts, vars
  <2> QED
    BY <1>2, <2>1, <2>2, <2>3, <2>4 DEF ChannelNext
<1> QED
  BY <1>1, <1>2, ChannelInvariant, PTL DEF ChannelSpec, KeepsPromise, Promise!Spec
=============================================================================
