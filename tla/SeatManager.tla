---------------------------- MODULE SeatManager ----------------------------
(***************************************************************************)
(* agent/multiseat/seat_manager.py: the seats of one machine, created and  *)
(* destroyed by coroutines of one event loop.  A task runs to its next     *)
(* await in one step:                                                      *)
(*   scaler     _apply_seat_config, called by the loop that polls the      *)
(*              controller for the number of seats it wants;               *)
(*   Creators   create_hotplug_seat, called by a scan of the hubs;         *)
(*   Destroyers destroy_hotplug_seat, called when a grace period is over.  *)
(*                                                                         *)
(* Displays, sinks, isolation and the seats' own tasks are left out: they  *)
(* are made and unmade beside the seat and decide nothing here.  So are    *)
(* games: the manager builds its GameLauncher without the argument that it *)
(* requires and goes on without one, so that no destruction waits for a    *)
(* game and the GPU of a seat's game is known from a seat's configuration  *)
(* or from the controller only.                                            *)
(***************************************************************************)
EXTENDS EncoderAllocator

CONSTANTS
    StartSeats,      \* the seats made at start-up
    SeatTargets,     \* the numbers of seats a controller may ask for
    Creators, Destroyers, scaler,
    MaxChanges,      \* bound: changes of the number wanted
    MaxHints         \* bound: hints about the GPU of a seat's game, at start-up and later

ASSUME SeatAssumption ==
    /\ StartSeats \in Nat \ {0}
    /\ Seats \subseteq Nat
    /\ 0 .. StartSeats - 1 \subseteq Seats
    /\ SeatTargets \subseteq 1 .. 8
    /\ \A k \in SeatTargets : 0 .. k - 1 \subseteq Seats
    /\ scaler \notin Creators \cup Destroyers
    /\ Creators \cap Destroyers = {}
    /\ MaxChanges \in Nat /\ MaxHints \in Nat

VARIABLES
    seats,     \* _seats: the name of each, and whether it is being stopped
    books,     \* the encoder allocator's sessions and counters
    co,        \* where each task is suspended, and its local variables
    want,      \* the number of seats the controller wants, 0 until it answers
    missed,    \* history: a pop by a position that others had shifted
    spent      \* what the bounds have let pass

seatVars == <<seats, books, co, want, missed, spent>>

Tasks == {scaler} \cup Creators \cup Destroyers

\* seat and pos are the locals of the handlers; "to" is _scale_up's and
\* _scale_down's target; shifted says that the list changed below pos since.
Idle == [pc |-> "idle", seat |-> 0, pos |-> 0, to |-> 0, shifted |-> FALSE]
Frames == [pc : {"idle", "sink", "stop", "unsink"}, seat : Seats,
           pos : Nat, to : Nat, shifted : BOOLEAN]

SeatTypeOK ==
    /\ seats \in Seq([name : Seats, closing : BOOLEAN])
    /\ BooksTypeOK(books)
    /\ co \in [Tasks -> Frames]
    /\ want \in SeatTargets \cup {0}
    /\ missed \in BOOLEAN
    /\ spent \in [changes : 0 .. MaxChanges, hints : 0 .. MaxHints]

\* The books after each of the seats made at start-up, with the GPUs that
\* their configuration names.
Started(gaming) ==
    LET after[n \in 0 .. StartSeats] ==
            IF n = 0 THEN NoBooks ELSE Allocated(after[n - 1], n - 1, gaming[n])
    IN after

SeatInit ==
    /\ seats = [i \in 1 .. StartSeats |-> [name |-> i - 1, closing |-> FALSE]]
    /\ \E gaming \in [1 .. StartSeats -> Hints] :
          /\ books = Started(gaming)[StartSeats]
          /\ spent = [changes |-> 0, hints |-> Cardinality({i \in 1 .. StartSeats :
                                                              gaming[i] # NoGpu})]
    /\ spent.hints <= MaxHints
    /\ co = [t \in Tasks |-> Idle]
    /\ want = 0
    /\ missed = FALSE

-----------------------------------------------------------------------------
\* Creation: everything up to create_sink, then the rest.

BeginCreate(t, n, to) ==
    /\ books' = Allocated(books, n, NoGpu)
    /\ co' = [co EXCEPT ![t] = [Idle EXCEPT !.pc = "sink", !.seat = n, !.to = to]]

Listed(n) == Append(seats, [name |-> n, closing |-> FALSE])

-----------------------------------------------------------------------------
\* Destruction of the seat at pos: the seat is stopped; the encoder is
\* released; the sink is destroyed; the seat is popped at pos.

BeginDestroy(t, pos, to) ==
    /\ seats' = [seats EXCEPT ![pos].closing = TRUE]
    /\ co' = [co EXCEPT ![t] = [Idle EXCEPT !.pc = "stop", !.seat = seats[pos].name,
                                            !.pos = pos, !.to = to]]

EndStop(t) ==
    /\ co[t].pc = "stop"
    /\ books' = Released(books, co[t].seat)
    /\ co' = [co EXCEPT ![t].pc = "unsink"]
    /\ UNCHANGED <<seats, want, missed, spent>>

\* Mutant of Popped: pop() without the position.
PoppedLast(pos) == RemoveAt(seats, Len(seats))

\* _seats.pop(pos), and what the other tasks' positions mean after it.
Popped(pos) == RemoveAt(seats, pos)
ShiftedBy(pos) ==
    [t \in Tasks |-> IF co[t].pc \in {"stop", "unsink"} /\ pos <= co[t].pos
                     THEN [co[t] EXCEPT !.shifted = TRUE] ELSE co[t]]

\* The pop fails with an IndexError when the list has become too short.
EndDestroy(t) ==
    /\ co[t].pc = "unsink" /\ t \in Destroyers
    /\ IF co[t].pos <= Len(seats)
       THEN /\ seats' = Popped(co[t].pos)
            /\ co' = [ShiftedBy(co[t].pos) EXCEPT ![t] = Idle]
       ELSE /\ UNCHANGED seats
            /\ co' = [co EXCEPT ![t] = Idle]
    /\ missed' = (missed \/ co[t].shifted)
    /\ UNCHANGED <<books, want, spent>>

-----------------------------------------------------------------------------
\* _apply_seat_config: one seat at a time until the target is reached.

\* Mutant of ConfigPoll: seats are added and never taken away.
ConfigPollGrows ==
    /\ co[scaler].pc = "idle"
    /\ want > Len(seats)
    /\ BeginCreate(scaler, Len(seats), want)
    /\ UNCHANGED <<seats, want, missed, spent>>

ConfigPoll ==
    /\ co[scaler].pc = "idle"
    /\ want \notin {0, Len(seats)}
    /\ IF want > Len(seats)
       THEN /\ BeginCreate(scaler, Len(seats), want)
            /\ UNCHANGED seats
       ELSE /\ BeginDestroy(scaler, Len(seats), want)
            /\ UNCHANGED books
    /\ UNCHANGED <<want, missed, spent>>

ScaleUpStep ==
    LET f == co[scaler] IN
    /\ f.pc = "sink"
    /\ seats' = Listed(f.seat)
    /\ IF f.seat + 1 < f.to
       THEN BeginCreate(scaler, f.seat + 1, f.to)
       ELSE co' = [co EXCEPT ![scaler] = Idle] /\ UNCHANGED books
    /\ UNCHANGED <<want, missed, spent>>

\* After the pop of seat pos comes seat pos - 1, unless the target is reached.
\* A pop that fails (IndexError) ends the call; the poll goes on.
ScaleDownStep ==
    LET f == co[scaler]
        rest == Popped(f.pos)
        next == f.pos - 1
    IN
    /\ f.pc = "unsink"
    /\ IF f.pos > Len(seats)
       THEN /\ co' = [co EXCEPT ![scaler] = Idle]
            /\ UNCHANGED seats
       ELSE IF next > f.to
       THEN /\ seats' = [rest EXCEPT ![next].closing = TRUE]
            /\ co' = [ShiftedBy(f.pos) EXCEPT ![scaler] =
                         [Idle EXCEPT !.pc = "stop", !.seat = rest[next].name,
                                      !.pos = next, !.to = f.to]]
       ELSE /\ seats' = rest
            /\ co' = [ShiftedBy(f.pos) EXCEPT ![scaler] = Idle]
    /\ missed' = (missed \/ f.shifted)
    /\ UNCHANGED <<books, want, spent>>

\* The controller is told another number of seats, and serves it where the
\* agent polls.
NewTarget(k) ==
    /\ spent.changes < MaxChanges
    /\ k # want
    /\ want' = k
    /\ spent' = [spent EXCEPT !.changes = @ + 1]
    /\ UNCHANGED <<seats, books, co, missed>>

-----------------------------------------------------------------------------
\* The poll of the controller brings an encoder_hint: the GPU of a seat's game.
EncoderHint(n, g) ==
    /\ spent.hints < MaxHints
    /\ co[scaler].pc = "idle"
    /\ books' = Hinted(books, n, g)
    /\ spent' = [spent EXCEPT !.hints = @ + 1]
    /\ UNCHANGED <<seats, co, want, missed>>

\* POST /api/v1/encoders/rebalance
Rebalance ==
    /\ books' = Rebalanced(books)
    /\ books' # books
    /\ UNCHANGED <<seats, co, want, missed, spent>>

SeatNext ==
    \/ ConfigPoll \/ ScaleUpStep \/ ScaleDownStep \/ Rebalance
    \/ \E k \in SeatTargets : NewTarget(k)
    \/ \E n \in Seats, g \in Gpus : EncoderHint(n, g)
    \/ \E t \in Tasks : EndStop(t) \/ EndDestroy(t)
=============================================================================
