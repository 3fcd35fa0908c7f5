--------------------------- MODULE HotplugMonitor ---------------------------
(***************************************************************************)
(* agent/multiseat/hotplug.py: a scan compares the USB hubs with those of  *)
(* the scan before; a hub that appears with a keyboard or a mouse gets a   *)
(* seat, one that disappears or loses both loses its seat after a grace    *)
(* period.                                                                 *)
(*                                                                         *)
(* A scan reads the hubs in a thread, then runs in the event loop and is   *)
(* suspended again at every seat it creates.  Creators are the scans that  *)
(* may be under way together: one for the monitor that polls; with pyudev  *)
(* every udev event may start one.  Destroyers are the tasks that          *)
(* _on_group_removed starts: each waits out a grace period, unless a scan  *)
(* cancels it, and then destroys the seat that it was started for.         *)
(***************************************************************************)
EXTENDS SeatManager

CONSTANTS
    Hubs,
    OtherHubs,   \* those that can also hold devices of another kind alone
    NoSeat,
    StartKept,   \* bound: seats that may be kept on disk at the start
    MaxPlugs     \* bound: times that devices are plugged or unplugged

ASSUME HubAssumption ==
    /\ OtherHubs \subseteq Hubs /\ NoSeat \notin Seats
    /\ StartKept \subseteq Seats /\ MaxPlugs \in Nat

VARIABLES
    plug,     \* what each hub holds: nothing, a keyboard or mouse, or others
    known,    \* _known_groups
    hubSeat,  \* _hub_to_seat
    grace,    \* _pending_removals: the task that waits for each hub
    timer,    \* that task's hub and seat name, and whether its wait has timed out
    kept,     \* the seat names kept on disk, by hub
    scan,     \* each scan's result, the hubs left to look at, the one it creates for
    tooLate,  \* history: hubs whose return a scan noted after the timeout
    plugs     \* for the bound

hotVars == <<plug, known, hubSeat, grace, timer, kept, scan, tooLate, plugs>>
vars == <<seatVars, hotVars>>

Held == {"none", "input", "other"}
NoTimer == [hub |-> {}, seat |-> {}, over |-> FALSE]
NoScan == [on |-> FALSE, seen |-> [h \in Hubs |-> "none"], left |-> {}, for |-> {}]

HotTypeOK ==
    /\ plug \in [Hubs -> Held]
    /\ known \in [Hubs -> Held]
    /\ hubSeat \in [Hubs -> Seats \cup {NoSeat}]
    /\ grace \in [Hubs -> SUBSET Destroyers]
    /\ timer \in [Destroyers -> [hub : SUBSET Hubs, seat : SUBSET Seats, over : BOOLEAN]]
    /\ kept \in [Hubs -> Seats \cup {NoSeat}]
    /\ scan \in [Creators -> [on : BOOLEAN, seen : [Hubs -> Held],
                              left : SUBSET Hubs, for : SUBSET Hubs]]
    /\ tooLate \subseteq Hubs
    /\ plugs \in 0 .. MaxPlugs
    /\ SeatTypeOK

\* start: the seats kept on disk are loaded, and a first scan makes the hubs
\* that are plugged in already known; it gives them no seat.
HotInit ==
    /\ SeatInit
    /\ plug \in [Hubs -> Held] /\ \A h \in Hubs \ OtherHubs : plug[h] # "other"
    /\ known = plug
    /\ hubSeat = [h \in Hubs |-> NoSeat]
    /\ grace = [h \in Hubs |-> {}]
    /\ timer = [d \in Destroyers |-> NoTimer]
    /\ kept \in [Hubs -> StartKept \cup {NoSeat}]
    /\ tooLate = {}
    /\ scan = [s \in Creators |-> NoScan]
    /\ plugs = 0

-----------------------------------------------------------------------------
Plug(h) ==
    /\ plugs < MaxPlugs
    /\ \E d \in Held \ {plug[h]} :
          /\ d = "other" => h \in OtherHubs
          /\ plug' = [plug EXCEPT ![h] = d]
    /\ plugs' = plugs + 1
    /\ UNCHANGED <<seatVars, known, hubSeat, grace, timer, kept, scan, tooLate>>

\* A task resumes in the turn of the loop after its timeout: no scan that was
\* not under way by then gets in between.
ScanHubs(s) ==
    /\ ~scan[s].on
    /\ \A d \in Destroyers : ~timer[d].over
    /\ scan' = [scan EXCEPT ![s] =
                   [on |-> TRUE, seen |-> plug, left |-> Hubs, for |-> {}]]
    /\ UNCHANGED <<seatVars, plug, known, hubSeat, grace, timer, kept, tooLate, plugs>>

\* The hubs that the walk finds to have come, and those it needs a seat for.
Appeared(s) == {h \in scan[s].left : known[h] = "none" /\ scan[s].seen[h] = "input"}
Unseated(s) == {h \in Appeared(s) : hubSeat[h] = NoSeat}

\* Mutant of Returned: a hub that comes back is left to its grace period.
ReturnedNever(hs) == {}

\* Those among hs whose removal is pending, which is cancelled.
Returned(hs) == {h \in hs : grace[h] # {}}

\* _pending_removals and the tasks once the removal of hs is cancelled.  A task
\* that is cancelled after its timeout goes on: it looks at neither again.
Withdrawn(hs) == [h \in Hubs |-> IF h \in hs THEN {} ELSE grace[h]]
Cancelled(hs) ==
    [d \in Destroyers |-> IF ~timer[d].over /\ \E h \in hs : d \in grace[h]
                          THEN NoTimer ELSE timer[d]]
TooLate(hs) == {h \in hs : \E d \in grace[h] : timer[d].over}

\* _on_group_added, up to the await of create_hotplug_seat.
NameFor(h) ==
    IF kept[h] # NoSeat THEN kept[h]
    ELSE Least({n \in 0 .. Len(seats) : \A i \in DOMAIN seats : seats[i].name # n})

\* The walk over the hubs that appeared, in any order, up to the first that
\* needs a seat.
ScanCreates(s) ==
    /\ scan[s].on /\ co[s].pc = "idle"
    /\ \E h \in Unseated(s), before \in SUBSET (scan[s].left \ Unseated(s)) :
          /\ NameFor(h) \in Seats
          /\ LET back == Returned(before \cap Appeared(s)) IN
                /\ grace' = Withdrawn(back)
                /\ timer' = Cancelled(back)
                /\ tooLate' = tooLate \cup TooLate(back)
          /\ scan' = [scan EXCEPT ![s].left = @ \ (before \cup {h}), ![s].for = {h}]
          /\ BeginCreate(s, NameFor(h), 0)
    /\ UNCHANGED <<seats, want, missed, spent, plug, known, hubSeat, kept, plugs>>

\* The rest of create_hotplug_seat and of _on_group_added.
SeatCreated(s) ==
    /\ co[s].pc = "sink" /\ s \in Creators
    /\ seats' = Listed(co[s].seat)
    /\ hubSeat' = [h \in Hubs |-> IF h \in scan[s].for THEN co[s].seat ELSE hubSeat[h]]
    /\ kept' = [h \in Hubs |-> IF h \in scan[s].for THEN co[s].seat ELSE kept[h]]
    /\ scan' = [scan EXCEPT ![s].for = {}]
    /\ co' = [co EXCEPT ![s] = Idle]
    /\ UNCHANGED <<books, want, missed, spent, plug, known, grace, timer, tooLate, plugs>>

\* The hubs that have gone, or that lost keyboard and mouse.
Lost(seen) ==
    {h \in Hubs : hubSeat[h] # NoSeat /\ known[h] # "none" /\ seen[h] # "input"}

\* A new task for each of hs; which of those that do nothing is all the same.
Unused == {d \in Destroyers : timer[d] = NoTimer /\ co[d].pc = "idle"}
NewTasks(hs) == {task \in [hs -> Unused] : \A g, h \in hs : task[g] = task[h] => g = h}

\* No hub needs a seat any more: the end of the walk, a grace period for each
\* hub that is gone and has none, and the new _known_groups.
ScanEnds(s) ==
    LET seen == scan[s].seen
        back == Returned(Appeared(s))
        gone == {h \in Lost(seen) : Withdrawn(back)[h] = {}}
        task == CHOOSE t \in NewTasks(gone) : TRUE
    IN
    /\ NewTasks(gone) # {}
    /\ scan[s].on /\ co[s].pc = "idle"
    /\ Unseated(s) = {}
    /\ grace' = [h \in Hubs |-> IF h \in gone THEN {task[h]} ELSE Withdrawn(back)[h]]
    /\ timer' = [d \in Destroyers |->
                    LET mine == {h \in gone : task[h] = d}
                    IN  IF mine = {} THEN Cancelled(back)[d]
                        ELSE [hub |-> mine, seat |-> {hubSeat[h] : h \in mine},
                              over |-> FALSE]]
    /\ tooLate' = {h \in tooLate \cup TooLate(back) : seen[h] # "none"}
    /\ known' = seen
    /\ scan' = [scan EXCEPT ![s] = NoScan]
    /\ UNCHANGED <<seatVars, plug, hubSeat, kept, plugs>>

\* _grace_period_destroy: the wait for the cancel event times out.
TimesOut(d) ==
    /\ timer[d].hub # {} /\ ~timer[d].over
    /\ timer' = [timer EXCEPT ![d].over = TRUE]
    /\ UNCHANGED <<seatVars, plug, known, hubSeat, grace, kept, scan, tooLate, plugs>>

\* ... and what it does when it resumes, up to the first await of
\* destroy_hotplug_seat, which returns at once when no seat has the name.
GraceExpires(d) ==
    LET found == {i \in DOMAIN seats : seats[i].name \in timer[d].seat} IN
    /\ timer[d].over /\ co[d].pc = "idle"
    /\ grace' = Withdrawn(timer[d].hub)
    /\ hubSeat' = [h \in Hubs |-> IF h \in timer[d].hub THEN NoSeat ELSE hubSeat[h]]
    /\ timer' = [timer EXCEPT ![d] = NoTimer]
    /\ IF found # {} THEN BeginDestroy(d, Least(found), 0)
                     ELSE UNCHANGED <<seats, co>>
    /\ UNCHANGED <<books, want, missed, spent, plug, known, kept, scan, tooLate, plugs>>

HotNext ==
    \/ SeatNext /\ UNCHANGED hotVars
    \/ \E h \in Hubs : Plug(h)
    \/ \E s \in Creators : ScanHubs(s) \/ ScanCreates(s) \/ SeatCreated(s) \/ ScanEnds(s)
    \/ \E d \in Destroyers : TimesOut(d) \/ GraceExpires(d)

HotSpec == HotInit /\ [][HotNext]_vars

\* The monitor that polls goes on scanning for as long as the agent runs (with
\* pyudev a scan follows an event only), and so does the loop that polls the
\* number of seats; a timer expires and an awaited call returns.
HotFairness ==
    /\ \A s \in Creators :
          /\ WF_vars(ScanHubs(s)) /\ WF_vars(ScanCreates(s))
          /\ WF_vars(SeatCreated(s)) /\ WF_vars(ScanEnds(s))
    /\ \A d \in Destroyers : WF_vars(TimesOut(d)) /\ WF_vars(GraceExpires(d))
    /\ \A t \in Tasks : WF_vars((EndStop(t) \/ EndDestroy(t)) /\ UNCHANGED hotVars)
    /\ WF_vars((ConfigPoll \/ ScaleUpStep \/ ScaleDownStep) /\ UNCHANGED hotVars)

HotFairSpec == HotSpec /\ HotFairness
-----------------------------------------------------------------------------
\* The allocator's counters agree with its sessions and stay within each
\* encoder's limit, however creation, destruction, hints and rebalances
\* interleave.
EncoderBooks == BooksBalance(books)

\* "to avoid unnecessary capture restarts": a seat that a rebalance reassigns
\* gets another encoder, and the next rebalance does not take it back.
NoIdleRestart == MovesPay(books) /\ NoReturn(books)

\* A task that destroys a seat removes that very seat from the list, unless
\* another task removed one below it since it looked the seat up.
PopsItsOwn ==
    [][\A t \in Tasks :
          co[t].pc = "unsink" /\ ~co[t].shifted /\ co'[t] # co[t] /\ co'[t].pc # "unsink"
              => /\ co[t].pos <= Len(seats) /\ seats[co[t].pos].name = co[t].seat
                 /\ Len(seats') = Len(seats) - 1
                 /\ \A i \in DOMAIN seats' :
                       seats'[i].name = seats[IF i < co[t].pos THEN i ELSE i + 1].name]_vars

\* A hub has a seat that is in the list and not being stopped.
Served(h) == \E i \in DOMAIN seats : seats[i].name = hubSeat[h] /\ ~seats[i].closing

\* Where no controller scales the seats, a hub that in the end holds a keyboard
\* or a mouse ends up with a seat that runs, however its devices came and went
\* within and beyond the grace periods.  The code does not keep this for a hub
\* that is plugged in at the start and stays (it is known, and gets no seat),
\* for one that can hold devices of another kind alone (they make it known),
\* for one whose return was noted between the timeout and the destruction of
\* its seat, and where a destruction popped another's seat.
HubServedTogether ==
    \A h \in Hubs \ OtherHubs :
        /\ <>(known[h] = "none")
        /\ [](want = 0 /\ ~missed)
        /\ <>[](plug[h] = "input" /\ h \notin tooLate)
        => <>[]Served(h)

\* The list ends up with the number of seats that the controller wants, whatever
\* hubs come and go meanwhile; and they all run, unless a destruction popped
\* another's seat and left its own in the list (NoGhostSeat).
SeatCountConverges ==
    \A k \in SeatTargets :
        <>[](want = k) => <>[](/\ Len(seats) = k
                               /\ ~missed => \A i \in DOMAIN seats : ~seats[i].closing)

\* "After 5s grace period: destroy the seat": a seat that is being stopped is
\* in the hands of a task that will remove it.
NoGhostSeat ==
    \A i \in DOMAIN seats : seats[i].closing =>
        \E t \in Tasks : co[t].pc \in {"stop", "unsink"} /\ co[t].seat = seats[i].name
=============================================================================
