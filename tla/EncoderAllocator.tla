-------------------------- MODULE EncoderAllocator --------------------------
(***************************************************************************)
(* agent/multiseat/encoder_allocator.py: which encoder each seat of a      *)
(* multi-seat machine uses.  The allocator's methods do not suspend, so    *)
(* they are operators on its books: the sessions in the order of the       *)
(* dictionary that keeps them, and the counter of sessions per encoder     *)
(* that is kept beside it.                                                 *)
(*                                                                         *)
(* All seats ask for the same codec and prefer latency to quality, the     *)
(* defaults of EncoderHints; the encoders of another codec are left out.   *)
(***************************************************************************)
EXTENDS Integers, Sequences, FiniteSets, SequencesExt

CONSTANTS
    Inventory,   \* the encoders found, in order: their GPU, whether it is an
                 \* integrated one, session limit (0 is none) and latency
    Gpus,        \* the indices of the GPUs
    Seats        \* the seat names, which are indices

NoGpu == -1      \* the software encoder's GPU, and the hint of no game

ASSUME InventoryAssumption ==
    /\ Gpus \subseteq Nat
    /\ Inventory \in Seq([gpu : Gpus \cup {NoGpu}, igpu : BOOLEAN,
                          max : Nat, latency : 0 .. 10])
    \* discover ends with libx264, which takes any number of sessions.  Where it
    \* fails before, the allocator may find no encoder at all and raise, which
    \* is not modelled.
    /\ \E i \in DOMAIN Inventory : Inventory[i].gpu = NoGpu /\ Inventory[i].max = 0

Encoders == DOMAIN Inventory
Hints == Gpus \cup {NoGpu}
Sessions == [seat : Seats, enc : Encoders, gaming : Hints]
NoBooks == [list |-> <<>>, used |-> [e \in Encoders |-> 0]]

Least(S) == CHOOSE x \in S : \A y \in S : x <= y

Base(e, gaming) ==
    CASE Inventory[e].gpu = NoGpu -> 20
      [] Inventory[e].gpu # NoGpu /\ Inventory[e].igpu -> 100
      [] Inventory[e].gpu # NoGpu /\ ~Inventory[e].igpu ->
             IF gaming = NoGpu THEN 70
             ELSE IF Inventory[e].gpu = gaming THEN 60 ELSE 80

Headroom(books, e) ==
    IF Inventory[e].max = 0 THEN 10
    ELSE Least({2 * (Inventory[e].max - books.used[e]), 10})

Score(books, e, gaming) ==
    Base(e, gaming) + (10 - Inventory[e].latency) + Headroom(books, e)

\* Mutant of Candidates: one more session than the limit.
CandidatesAtLimit(books) ==
    {e \in Encoders : Inventory[e].max > 0 => books.used[e] <= Inventory[e].max}

Candidates(books) ==
    {e \in Encoders : Inventory[e].max > 0 => books.used[e] < Inventory[e].max}

\* The sort is stable: the first of the best.
Best(books, gaming) ==
    Least({e \in Candidates(books) : \A f \in Candidates(books) :
               Score(books, e, gaming) >= Score(books, f, gaming)})

Holds(books, seat) == \E i \in DOMAIN books.list : books.list[i].seat = seat
PlaceOf(books, seat) == CHOOSE i \in DOMAIN books.list : books.list[i].seat = seat
SessionOf(books, seat) == books.list[PlaceOf(books, seat)]

\* Mutant of Released: the counter of another encoder goes down.
ReleasedElsewhere(books, seat) ==
    IF ~Holds(books, seat) THEN books
    ELSE [list |-> RemoveAt(books.list, PlaceOf(books, seat)),
          used |-> [books.used EXCEPT ![1] = @ - 1]]

Released(books, seat) ==
    IF ~Holds(books, seat) THEN books
    ELSE [list |-> RemoveAt(books.list, PlaceOf(books, seat)),
          used |-> [books.used EXCEPT ![SessionOf(books, seat).enc] =
                                          IF @ > 0 THEN @ - 1 ELSE 0]]

Granted(books, seat, gaming) ==
    LET best == Best(books, gaming)
    IN [list |-> Append(books.list, [seat |-> seat, enc |-> best, gaming |-> gaming]),
        used |-> [books.used EXCEPT ![best] = @ + 1]]

Allocated(books, seat, gaming) == Granted(Released(books, seat), seat, gaming)

\* Mutant of Better: any gain is worth a restart of the capture.
BetterAtAll(books, s) ==
    Score(books, Best(books, s.gaming), s.gaming) > Score(books, s.enc, s.gaming)

Better(books, s) ==
    Score(books, Best(books, s.gaming), s.gaming) > Score(books, s.enc, s.gaming) + 20

\* The one-element set names the books so that they are evaluated once.
Moved(books, s) ==
    CHOOSE after \in
        {IF Better(b, s) THEN Allocated(b, s.seat, s.gaming) ELSE b : b \in {books}} : TRUE

\* rebalance walks the sessions it found when it was called: the books after
\* each of them.
Walked(books) ==
    LET after[n \in 0 .. Len(books.list)] ==
            IF n = 0 THEN books ELSE Moved(after[n - 1], books.list[n])
    IN after

Rebalanced(books) == Walked(books)[Len(books.list)]

\* rebalance_encoders, with a new gaming GPU for a seat.
Hinted(books, seat, gaming) ==
    Rebalanced([books EXCEPT !.list =
        [i \in DOMAIN @ |-> IF @[i].seat = seat THEN [@[i] EXCEPT !.gaming = gaming]
                            ELSE @[i]]])

BooksTypeOK(books) ==
    books \in [list : Seq(Sessions), used : [Encoders -> Nat]]

\* The counters agree with the sessions, no encoder runs more sessions than
\* its driver allows, and no seat has two.
BooksBalance(books) ==
    /\ \A e \in Encoders :
          /\ books.used[e] = Cardinality({i \in DOMAIN books.list : books.list[i].enc = e})
          /\ Inventory[e].max > 0 => books.used[e] <= Inventory[e].max
    /\ \A i, j \in DOMAIN books.list :
          books.list[i].seat = books.list[j].seat => i = j

\* A session that is given up for a better encoder does not get its own back:
\* the room that it frees itself is not the gain.
MovesPay(books) ==
    \A i \in DOMAIN books.list :
        LET s == books.list[i]
        IN Better(books, s) => SessionOf(Moved(books, s), s.seat).enc # s.enc

\* Two rebalances on end do not take a seat to another encoder and back.
NoReturn(books) ==
    LET once == Rebalanced(books)
        twice == Rebalanced(once)
    IN \A i \in DOMAIN books.list :
          LET s == books.list[i]
          IN SessionOf(twice, s.seat).enc = s.enc => SessionOf(once, s.seat).enc = s.enc
=============================================================================
