--------------------------- MODULE ReplayPromise ---------------------------
(***************************************************************************)
(* What controller/transport.py promises of its replay windows: a window   *)
(* "rejects packets with counter <= (highest - window_size) or already     *)
(* seen", and takes the other ones in any order.  A new session starts its *)
(* window afresh.                                                          *)
(***************************************************************************)
EXTENDS Integers

CONSTANTS Streams, Counters, Size

VARIABLE seen   \* how often each stream has taken each counter

Unseen == [c \in Counters |-> 0]

TooOld(s, c) == \E t \in Counters : seen[s][t] > 0 /\ c + Size <= t

Accept(s, c) ==
    /\ seen[s][c] = 0
    /\ ~TooOld(s, c)
    /\ seen' = [seen EXCEPT ![s][c] = @ + 1]

Restart(s) == seen' = [seen EXCEPT ![s] = Unseen]

Init == seen = [s \in Streams |-> Unseen]
Next == \E s \in Streams : Restart(s) \/ \E c \in Counters : Accept(s, c)
Spec == Init /\ [][Next]_seen
=============================================================================
