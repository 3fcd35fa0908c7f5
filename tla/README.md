# Ozma: TLA+ models of the controller

Ozma is a software KVM and desk controller. One *controller* (Python, asyncio,
`src/controller/`) holds the registry of *nodes* (hardware or software agents in
front of machines), decides which node has the keyboard and mouse, routes audio
with the same switch, keeps encrypted sessions with its nodes, sends management
jobs to the agents, and updates itself on an appliance with two root partitions.
Around it are agents (Python and Rust; one of them turns a machine into several
seats), a cloud service, mobile and web clients and firmware.

This directory holds specifications of the parts of the controller and of the
multi-seat agent where the order of steps matters, TLC runs of them, and TLAPS
proofs. Definitions are translated from the source; `PROJECT.json` maps each to
its lines.

## Inventory

| Part | State | Operations | Talks to | What is hard | What makes it correct |
|---|---|---|---|---|---|
| Job queue `job_queue.py` | `_jobs`, `_campaigns`, jobs.json, campaigns.json | create, campaign, retry, cancel, ack/progress/result, deadline and requeue loops, load | agents over config sockets, REST | every send suspends; late and repeated reports; restart between two files | no pending job forgotten; terminal is final; campaigns list one live child per node |
| Config sockets `api.py` | `_node_config_ws`: one socket per node | connect, replace, push seat config, disconnect | job queue, agents | replacement awaits a close; a stale failure removes a new entry | connected agents are reachable |
| Node registry `state.py` | `nodes`, `active_node_id` | add (merge), remove, set active | discovery, REST, HID, scenarios | additions and removals from several tasks | the focus is on a registered node |
| Discovery `discovery.py` | zeroconf cache, resolutions under way | announce, goodbye, resolve, requery | registry | results that arrive late | dead nodes leave, records are fresh |
| Scenarios `scenarios.py` | active scenario | activate, bind, transitions | registry, audio, RGB | fire-and-forget tasks | focus and audio follow the last activation |
| Audio `audio.py`, `audio_outputs.py` | active audio node, active source, links, enabled outputs | switch, PipeWire events, enable/disable | pw-link | awaits under and outside the switch lock | one machine heard; disabled is silent |
| A/B update `update_manager.py` | ozma-boot.json, syslinux default, two partitions; a copy of the file per process | apply, health check, rollback | boot loader, init system | two writers with stale copies; power loss | what the file calls active is confirmed or under validation; a rollback is possible |
| Failover `failover.py` | mode, status file | offer, hand-off, delta | Connect service | restart in a transient mode | exactly one controller leads |
| Transport `transport.py` | session state: keys, send counter, replay windows | encrypt, decrypt, admit | HID, nodes | the window's edges and shifts; packets repeated and reordered | the window takes exactly what its docstring says; no packet is applied twice |
| Sessions and pairing `session.py`, `pairing.py`, `main.py` | paired and revoked nodes, sessions, the request under way | approve, revoke, request, answer, complete | transport, nodes | requests and replies lost or late; restarts of either end | both ends hold the same keys; a paired node gets a session |
| Multi-seat agent: seats `seat_manager.py` | list of seats, tasks that create and destroy | scale, create, destroy, gaming hint | allocator, hotplug, controller | positions in a list kept across awaits; two writers, one lock | a destruction removes its own seat; the number wanted is reached |
| Encoder allocator `encoder_allocator.py` | sessions, a counter per encoder | allocate, release, rebalance | seats | counters beside a dict; scores that include the seat itself | counters agree, limits hold, no move back and forth |
| Hotplug `hotplug.py` | known hubs, seat of each, grace timers, seats kept on disk | scan, come, go, return | seats | a return races the timer; scans suspended in the middle | a hub with input ends up with a seat |
| Node reconciler `node_reconciler.py` | records, explicit bindings | bind, pass with four strategies | registry | records of earlier passes; nodes that register in any order | every hardware and software node is listed; partners are kept |
| HID `hid.py`, `edge_crossing.py` | pressed keys, pointer | forward, cross | registry, nodes | focus moves between press and release | no key left down |
| Clipboard ring, routing engine | ring; graph and path cache | push/pin; search | nodes | bounds, cache invalidation | not modelled |

The other parts (streaming, backups, managed-service features, network
appliance, UI, billing, mobile, firmware, hardware, Proxmox plugin) are record
keeping, wrappers of other programs, or separate programs; `PROJECT.json` lists
them with the reason they are not modelled.

## Modules

| Module | Models | Builds on |
|---|---|---|
| `CampaignPromise` | abstract: what a campaign promises of its child list | |
| `JobQueue` | job queue and config sockets | refines `CampaignPromise` (`INSTANCE ... WITH slots <- Children(camps), file <- Children(disk)`) |
| `JobQueueProofs` | its theorems | `JobQueue` |
| `CampaignProofs` | the theorems about campaigns | `JobQueueProofs` (the queue's invariant is a conjunct) |
| `NodeRegistry` | registry and discovery | |
| `NodeRegistryProofs` | its theorems | `NodeRegistry` |
| `AudioRouting` | scenario activation, audio router, outputs | `NodeRegistry`, composed by EXTENDS: the audio steps read `Registered` and activation calls `SetActive` |
| `UpdateSlots` | A/B updates | |
| `UpdateSlotsProofs` | its theorems | `UpdateSlots` |
| `AudioRoutingProofs` | the theorems of `AudioRouting` | `AudioRouting`, `NodeRegistryProofs` (the registry's invariant is a conjunct) |
| `EncoderAllocator` | the encoders of a multi-seat machine: operators on the allocator's books | |
| `SeatManager` | seats created and destroyed by tasks, gaming hints | `EncoderAllocator`: every step that calls it changes `books` by its operators |
| `HotplugMonitor` | scans of the hubs, grace periods; the whole agent | `SeatManager`, composed by EXTENDS: scans and timers are the tasks that create and destroy |
| `SeatProofs` | the theorems about the seats and their encoders | `HotplugMonitor` |
| `ReplayPromise` | abstract: what a replay window promises | |
| `SecureChannel` | pairing, session monitor, key agreement, packets, windows | refines `ReplayPromise` (`INSTANCE ... WITH seen <- taken`) |
| `SecureChannelProofs` | its theorems and the refinement | `SecureChannel` |
| `NodeReconciler` | merging hardware and software nodes | |
| `NodeReconcilerProofs` | its theorems | `NodeReconciler` |
| `MC*` | values and symmetry for TLC | the module they are named after |

Definitions whose comment begins with "Mutant of" are wrong variants that show a
property can fail: replacing the definition they name by one makes TLC find the
property violated. They are not part of any specification.

### JobQueue

The controller is one event loop: a coroutine runs without interruption until an
await that suspends. In this component those are the send on a WebSocket and the
close of a socket that is being replaced, so one action is one run of a
coroutine between such points. `co` holds the suspended coroutines: API calls
and `on_node_connected` tasks in `Tasks`, and `_requeue_loop` as `Requeuer`. The
deadline loop never suspends and is the single action `DeadlinePass`.

* `Walk` is what all senders share: go through a list of jobs, skip those not
  `Sendable`, mark expired ones SKIPPED (`Settled`), suspend in the first send.
  `ResumeLoop` and `ResumeCampaign` continue after it, writing DISPATCHED
  whatever the job's state is by then, as the code does.
* `create_campaign` creates and sends child after child. `CampaignRun` takes as
  many children as can be created without suspending in one step, and
  campaigns.json is written only at its end.
* `retry_job` lists the new attempt in the old one's place and writes
  campaigns.json before jobs.json; `CrashInRetry` stops in between. jobs.json is
  otherwise always what memory is, so only `jobsTorn` is kept of it; `disk` is
  campaigns.json.
* `CampaignPromise` knows the lists in memory and in the file only. A step may
  put jobs that no list has behind a list (`Extend`), give one place to a new
  attempt and write that at once (`Retry`), or go back to the file (`Restart`),
  which is as it was, cut, or one retry ahead. What is suspended, who builds and
  what the jobs' states are, is left to `JobQueue`.
* `Connect`, `Replaces`/`Closed`, `Disconnect`, `PushFails` are
  `node_config_ws`. `reg` is the dictionary the code asks, `live` whether the
  newest socket is really open. Sockets have no identity in the model: a
  suspended send whose socket was closed or replaced is marked `old`, and may
  fail; a send that succeeds on an orphaned socket is allowed too.
* Reports come at any time once a job was sent, over either channel.

Left out: the parameters and results of jobs, event and audit records, listing
endpoints, the elapsed 120 s of the requeue loop (any DISPATCHED job may be that
old), and failing file writes (logged and ignored by the code).

### NodeRegistry

`kind` and `age` are a node's record: how it was registered and how many requery
intervals ago it was last seen. `_lock` is held over no await that suspends, so
`add_node`, `remove_node` and `set_active_node` are single steps. A resolution
(`resolving`, `requery`) is suspended up to 3 s and then adds its node whatever
happened. Nodes stop without a word (`Dies`), and zeroconf keeps their records
until they expire (`cached`). The merge of descriptive fields is left out; that
`direct_registered` is not merged is kept, because eviction depends on it.

### AudioRouting

Activation sets the focus and creates a task; tasks queue at the switch lock
(`lockQ`). The holder of the lock is at `step`, one for each pw-link it awaits.
The API calls that enable or disable an output take no lock; each of the `Calls`
that may be under way has its own pw-link (`outOp`), and they end in any order.
Modelled is pw-link mode with one output and no delay: `linked` are the sources really
linked, `source` is `_active_source`, `audioNode` is `_active_node_id`. pw-link
to a source that is not there fails; unlinking does not. `requested` is the
scenario's node and `overlapped` records that an output change overlapped a
switch, or an enable a disable; both only serve properties. The registry takes part with one way in
and one way out, since audio only asks who is registered.

### UpdateSlots

`file` is ozma-boot.json, `ctl` and `hc` the controller and the health check,
each with the copy of the file it loaded when it started. Between deciding and
writing there is a `saving` step, so the two processes interleave and power can
be cut (`PowerCut`) between syslinux and file or in the middle of a write
(`torn`). An image answers the health check, starts without answering, or does
not start. The code counts boots on without a bound, for as long as rollbacks are
refused; counts above `MaxAttempts` are one value here, because it compares them
with `>` and `>=` `MaxAttempts` only. `ActiveAccounted` is about the file: which
slot really runs is `running`, and the two may differ after a power cut (see
"Seen while modelling").

### EncoderAllocator, SeatManager, HotplugMonitor

The agent is one event loop; the allocator never suspends, so its methods are
operators: `books` holds the sessions in the dict's order and the counter that is
kept beside them. `Allocated`, `Released`, `Rebalanced` and `Hinted` are
allocate, release, rebalance and the change of a gaming hint. Scores are the
code's numbers. `rebalance` looks at one session after the other: `Walked` is the
books after each of them, `PlaceOf` a seat's place in the dict's order. All are
written so that the proofs can speak of them: no folds, no RECURSIVE operators.

`co` says where each task is suspended, with its locals: `sink` is the
`await create_sink` of a creation; `stop` and `unsink` are the two awaits of a
destruction, which looks the position up before the first and pops it after the
last. The `scaler` is `_apply_seat_config`, one seat after the other
under the lock that hotplug does not take; a creator is a scan's
`create_hotplug_seat`, a destroyer a timer's `destroy_hotplug_seat`. `closing`
says that a seat's own task was stopped. `shifted` records that the list changed
below a task's position, and `missed` that such a task popped; they only serve
properties. Which GPU a seat's games use is known from the seats' configuration
at the start (`Started`) and from the controller (`EncoderHint`). There are no
games: `start()` calls `GameLauncher()` without the argument that it requires
(`seat_manager.py:288`, `game_launcher.py:429`), catches the `TypeError` and goes
on without a launcher.

A scan takes its picture of the hubs in a thread (`ScanHubs`), walks over what
has appeared, suspended at each seat it creates (`ScanCreates`, `SeatCreated`),
and then starts the timers of the hubs lost and takes the picture as
`_known_groups` (`ScanEnds`). `kept` is the file with the seat of each hub, loaded
at the start, when the hubs that are plugged in become known without getting a
seat (`HotInit`). A timer is a task of its own (`timer`): it times out
(`TimesOut`) and destroys the seat in its next step (`GraceExpires`), without
looking at `_pending_removals` or its cancel event again, so a scan that notes
the hub's return in between comes too late (`tooLate`, history).

Left out: displays, sinks, isolation, input routing, encoders of other codecs,
the stop of the whole agent. All seats prefer latency and one codec, the
defaults.

### SecureChannel and ReplayPromise

The session monitor asks one node at a time (`asking`); a request lives in
`posts` until its node answers or refuses it, long after the monitor gave it up.
A session is the pair of the two ephemeral keys; the node's is random, hence new.
`net` is everything sent to a node, and `Receive` takes any of it at any time, so
packets are repeated, lost and reordered. `window` is the highest counter and the
bitmap as the set of its bits; a wrong key advances it, as in the code, before
the authentication fails. `taken`, `applied`, `again` and `unsure` are history.
The monitor only asks nodes that are registered with an API port (`listed`,
changed by `List` and `Unlist` for `add_node` and `remove_node`).
`ReplayPromise` is the docstring of `ReplayWindow` as a specification: it counts
how often each counter was taken.

No program in the repository answers `/session/init`, so the node's side is
`handle_session_init` as `session.py` has it. Cryptography and clocks are taken
to work. Packets in the clear to nodes without a session are left out.

### NodeReconciler

A pass does not suspend and is one action. Python's dicts decide the order in
which pairs are looked at; here a strategy picks any maximal matching of its
pairs (`Picks`), which covers every order. `Free` is whom the strategies after
the first may look at: no hardware node with a record, but software nodes of
earlier merges too, since `bound_sw` is local to a pass. The signals are constant
relations between nodes, and so are the capabilities: `Nodes` also has some with
neither, which a pass skips. Capability and routing fields of the records follow
from the merged nodes and are left out.

## Runs

| Run | Configuration | Question | Answer |
|---|---|---|---|
| `jobs` | 2 nodes that connect and disconnect, a campaign over one or both, 3 jobs, cancels and retries, 2 tasks and the requeuer, 1 restart; no reports, no deadlines | `TypeOK`, `ChildSlots`, `CampaignsDurable`, `PendingIsOwed`, `KeepsCampaigns` | hold |
| `jobs_solo` | 1 node that may reconnect over an open socket, 2 single jobs with a deadline, late and repeated reports, no campaign, no restart, fairness | `PendingIsOwed`, `ReopenedOnlyByLateSend`, `PendingServed`, `ExpiredSettles` | hold |
| `jobs_sockets` | 1 node | `ConnectedIsReachable` | violated, see findings |
| `registry` | 2 mDNS nodes, one of them also registering directly, eviction after 2 and 4 passes, fairness | `NodeTypeOK`, `FocusIsRegistered`, `NoStaleRecord`, `SilentNodeLeaves` | hold |
| `audio` | 2 nodes, up to 2 queued switches, 1 output, 2 API calls at once, fairness | `AudioTypeOK`, `OneMachineHeard`, `DisabledIsSilent`, `AudioCatchesUp` | hold |
| `audio_follows` | as `audio` | `AudioFollowsScenario` | violated, see findings |
| `update` | 3 attempts; updates, reboots and power cuts without bound | `UpdTypeOK`, `ActiveAccounted`, `OnlyPendingRolledBack` | hold |
| `update_stale` | as `update` | `ConfirmationLasts` | violated, see findings |
| `seats` | 2 hubs, plugged in or not at the start, 1 polling scan, 2 destroyers, 1 to 2 seats wanted, 1 change of that, 1 hint, 3 plugs, 2 graphics cards and the CPU, fairness | `HotTypeOK`, `EncoderBooks`, `NoIdleRestart`, `PopsItsOwn`, `HubServedTogether`, `SeatCountConverges` | hold |
| `seats_ghost` | 2 hubs, 2 destroyers, a seat kept on disk or none | `NoGhostSeat` | violated, see findings |
| `channel` | 1 node that comes and goes, 2 controller and 3 node keys, window of 2, counters 0 to 2, 1 restart of either end, fairness | `ChannelTypeOK`, `AdmitsExactly`, `NoReplay`, `SessionsMatch`, `KeepsPromise`, `SessionInTheEnd` | hold |
| `reconciler` | 2 hardware and 2 software nodes at one address, and a node that is neither | `ReconcilerTypeOK`, `EveryNodeListed`, `PartnerKept` | hold |

**Bounds.** In `jobs`, three jobs are the two children of a campaign and a retry,
while the campaign is suspended in a send as well as after it (`RetryJob` takes
an id beyond those that `Reserved` keeps for the campaign), or a job beside them.
Reports and deadlines are left to `jobs_solo` (`Reports`, `NewDeadlines`), since
a campaign's list does not depend on how a job came to be retryable: there it is
cancelled. In `jobs_solo` two jobs are the smallest case in which a walk has
something left after a send. Two tasks
are two API calls, or a call and a connect, suspended at once, next to the
requeuer. One restart is enough to load what any prefix of steps has left on
disk; a second one starts from a loaded state again. `MaxNow` has one instant
before and one after a deadline. `SoloNodes` and `BusyNodes` name what the
operator and the agents do in a configuration; they restrict inputs, and every
action fires in some passing run. In the registry, 2 intervals and a factor of 2
give direct nodes a longer patience than mDNS nodes (the code has 2 and 3). For
audio, two waiting tasks suffice for one that was overtaken while waiting, and
two calls for an enable and a disable whose pw-links end in the other order.
`UpdateSlots` has no bound but `MaxAttempts`, which is the code's.
`jobs_solo` leaves out what its properties meet in `jobs` (restarts, campaigns);
`ReopenedOnlyByLateSend` is proved with them. Seats: two hubs are enough for a
destruction to meet a creation, a scale-down, another destruction or the return of
a hub; three plugs let a hub that was plugged in go, come back and go again.
`StartKept` is empty in `seats` (a seat of an earlier hub is kept by then anyway)
and one seat in `seats_ghost`. The channel's window of 2 with three
counters has a shift within the window, a jump of exactly its size and a counter
exactly its size behind; the theorems hold for any size. Three node keys are the
controller's, the node's and a new one; one restart leaves either end with what
the other has forgotten. The reconciler has no bound.

**Fairness.** Jobs: a suspended send ends (the server's ping timeout closes dead
sockets), a created task runs, and the two loops visit every job in every pass,
so an action for a job that is enabled again and again is taken (strong
fairness). Registry: the requery loop runs for ever, a resolution times out after
3 s, an mDNS record has a finite time to live. Audio: whoever holds the lock
proceeds, since each pw-link has a timeout of 5 s; nothing is assumed of
PipeWire, nodes or the operator. Seats: scans and the polling loop run for as
long as the agent does, a timer expires, an awaited stop or sink call returns;
nothing is assumed of plugs and hints. That scans go on holds of the monitor
that polls; with pyudev a scan follows an event only. Channel: the monitor goes
round every 3 s and gives up after 5 s (weak fairness); that a request made again
and again is at some time answered in time and its reply received is an
assumption on the network and the node (strong fairness), without which no
session can come about. Reports, connects and user actions are never assumed to
happen.

**Deadlock** is checked in every run; none switches the check off.

### Findings

* `jobs_sockets`: a send on a replaced socket that fails removes the entry of the
  new one; the agent stays connected and unreachable until it reconnects.
* `audio_follows`: a switch away from a node that has left the registry
  disconnects nothing; the old machine is heard on. The clean-up method
  `_on_node_offline` has no caller.
* `update_stale`: the controller starts before the health check confirms its
  slot, so its copy says "pending, not healthy" for as long as it runs. The next
  update writes this back, and a rollback from that update is refused because
  the slot to return to is not healthy.
* `seats_ghost`: two hubs unplugged together: both destructions look their
  position up, await, and pop it; the second pops another seat, or none, and the
  seat that it stopped stays in the list.

Seen while modelling, without a run of their own, because no line of the
repository says otherwise clearly enough or because the effect is outside the
model:

* A job that was delivered can be marked SKIPPED ("never connected"): a requeue
  makes it pending again and the deadline passes while its agent runs it.
* A hardware node that a pass listed alone is not merged by a signal afterwards,
  and a software node can be merged with two hardware nodes in two passes. The
  fields of the second and third signal do not exist on `NodeInfo`.
* `drop_session` has no caller: after a restart of a node the controller keeps
  the dead session. A node approved again after a revocation stays untrusted.
* The window advances before the packet is authenticated, and its bitmap is never
  masked, so it grows by a bit for every packet in order.
* The agent never has a game launcher: `GameLauncher()` lacks the argument that its
  constructor requires (`seat_manager.py:288`, `game_launcher.py:429`), so games
  do not start from it and none are modelled.
* The agent asks for its seats with HTTP GET `/api/v1/nodes/{id}/config`
  (`seat_manager.py:407`); the controller serves that path as a web socket only
  (`/config/ws`, `api.py:1130`). `NewTarget` and `EncoderHint` stand for a
  controller that answers.
* A controller that wants fewer seats than there are takes the last ones, so a
  hub's seat may go while the hub stays recorded; `HubServedTogether` therefore
  speaks of executions in which no target is set. Hubs that are plugged in when
  the agent starts get no seat at all.
* A hub's return noted between the end of its grace period and the destruction
  does not stop the destruction (`tooLate`).
* An output enabled and disabled in two overlapping calls, or during a switch,
  can stay linked although disabled; the audio properties leave such executions
  out (`overlapped`).
* A power cut after syslinux is written and before the file is boots the new slot
  under a file that still calls the old one healthy: the health check stops at
  once, and the update runs without having been checked.
* A hub that is already known for other devices is not looked at when it gets a
  keyboard (`HubServedTogether` therefore leaves such hubs out).
* With pyudev scans overlap and can create a hub's seat twice; `Creators` may
  hold two scans, but that instance is beyond a short run.

## Proofs

All theorems hold for every value of the constants that satisfies the named
assumptions of the module.

`JobQueueProofs` (assumption `ConstantsAssumption`): `QueueTyped`,
`PendingOwed` and `OnlyLateSendReopens`. `PendingIsOwed` is not inductive: that a failed send leaves
nothing behind depends on the entry going with it, and that a new entry comes
with a task that lists the node's jobs. The invariant `IInv` adds to `TypeOK`
that records sit where their ids are allocated (`Placed`), that ids still needed
by campaigns being built are reserved (`Counted`, `Builders`), that a coroutine
in a send sends a job of its node (`SendsItsJob`), and that sockets are only
registered with the dispatch function set (`RegIsWired`). `Walk` and
`CampaignRun` have a lemma each; the step lemma has one case per action.
`OnlyLateSendReopens` is about steps and uses the same invariant: a new job takes
an id that no job has, and what a coroutine in a send delivers is the job it sent.

`CampaignProofs` (the same assumption): `SlotsStayInStep`, `CampaignsStayOnDisk`
and the refinement `QueueKeepsCampaigns`. The invariant `CampInv` beside `IInv`
says of the lists in memory and on disk that their ids were given out, once each
(`SlotsOf`), so that a job created later never appears in an old list; that the
job create_campaign waits for is the one for the next node and is not listed yet
(`NextChild`), whatever is retried in the meantime; and what a campaign nobody
builds looks like (`Finished`). Steps that leave the campaigns alone share one
lemma (`QuietPreserves`), runs of create_campaign's loop another (`RunCamp`),
restarts a third (`ReloadCamp`). The refinement adds that a campaign nobody
created lists nothing (`Unmade`), and maps runs of the loop to `Extend`
(`RunKeeps`), a retry of a listed job to `Retry` (`RetryKeeps`), restarts to
`Restart` (`ReloadKeeps`) and all else to a stutter. That what a run appends is
in no list has two reasons: ids just given out are in none (`NewIsUnlisted`),
and the child whose send was awaited is a job of this campaign, not listed there
yet (`NextIsUnlisted`).

`NodeRegistryProofs` (assumption `RegistryAssumption`): `RegistryTyped`,
`RecordsFresh`, `FocusRegistered`, from the invariant that is the conjunction of
the three properties; ages are bounded only because eviction and the change of
kind reset them, which is why they are proved together.

`UpdateSlotsProofs` (assumption `AttemptsAssumption`): `UpdateAccounted` and
`RollbackOfPending`, beside the type invariant, which bounds no count of boots
(those beyond `MaxAttempts` are one value of the model). Neither process reads the file again, so the invariant
`UpdInv` speaks of the copies: what is about to be saved is accounted for, and
as long as the health check judges or has to save, the active slot in the file
is pending, whichever process wrote last.

`AudioRoutingProofs` (assumptions `RegistryAssumption`, `AudioAssumption`):
`AudioTyped`, `OneHeard`, `SilentWhenDisabled`. The properties speak of the quiet
states only, and of executions in which no enable or disable overlapped a switch
or another one, for which the code promises nothing; the invariant `InStep` says for each step of the lock's holder what
may be linked: up to the pw-link that unlinks, the source that it unlinks, and
nothing from then on to the pw-link that links. `QueueFits` says that nobody
holds an empty queue's lock. Both need the registry's invariant beside them.

`SecureChannelProofs` (assumption `ChannelAssumption`): `ChannelTyped`,
`WindowIsExact`, `NeverReplayed`, `KeysAgreed` and the refinement
`WindowsImplementPromise`. `NoReplay` is not inductive: a packet could be applied
again under a window that forgot it. The invariant says that what was applied
under the node's present key was taken by its present window, and that it was
sent, so that a new key is not one of those applied before; the bitmap is related to the counters taken by one lemma for
the shift and one for a bit within the window. The refinement's step lemma maps
`Receive` to `Accept`, answers and restarts to `Restart`, all else to a stutter.

`SeatProofs` (assumptions `InventoryAssumption`, `SeatAssumption`,
`HubAssumption`): `HotTyped`, `BooksAgree`, `RestartsPay` and
`DestructionsPopTheirOwn`, from one invariant `HotInv`, which TLC checked on the
instance of `seats` before it was proved. Beside types it says that the counter
of each encoder is the number of sessions on it (`BooksBalance`, through the
cardinality of `Slots`, as one session comes, goes or moves), that the scaler's
target is one the operator may set, and that until the list changes below a
position the seat found there is still there (`PlacedAt`); only a position that
was overtaken (`shifted`) can pop another seat, which is what `seats_ghost`
finds. The books after a whole rebalance follow from those after each of its
sessions by induction over the places 0..n, done with least elements
(`NatLessThanWellFounded`), since the induction rules take an operator as a
parameter; the same argument shows that the recursive functions `Walked` and
`Started` exist. `RestartsPay` is about what rebalance would do to the books at
any time: a session that it moves gains more than 20 in score, of which at most
10 is headroom, and its own release can only have added headroom where it was;
so the encoder it moves to is worth more than 10 more in itself (`Worth`), and
two rebalances under the same hint cannot lead back.

`NodeReconcilerProofs` (assumption `ReconcilerAssumption`): `ReconcilerTyped`,
`NodesListed` (after a pass a registered node is in a record exactly when it has
one of the capabilities) and `PartnersKept`, from the lemma `PassFacts` about what one pass does to the
records, and the invariant that a record with a partner is listed (`RecordsFit`).

Only model-checked: the liveness properties (`PendingServed`, `ExpiredSettles`,
`SilentNodeLeaves`, `AudioCatchesUp`, `HubServedTogether`, `SeatCountConverges`,
`SessionInTheEnd`), which need fairness and ENABLED and are beyond the prover.
Every safety and action property of a passing run is proved.

## Not modelled

* Failover: its modes follow the answers of the Connect service, whose code is
  not in the repository; what is left is a loop of HTTP calls.
* HID forwarding: reports are built from evdev events and sent to whoever has the
  focus. Its two stale states (keys pressed before a switch to a VNC node, paths
  of unplugged keyboards) are listed as a hazard.
* The clipboard ring, the routing engine and its cache, automation and macros are
  sequential data structures and drivers of modelled operations.
* Streaming, backups, managed-service features and the appliance wrap other
  programs and services; UI, billing, mobile, firmware, hardware and the Proxmox
  plugin are separate programs.

## Plan

In this order; what is done is marked.

1. [done] `JobQueue`, its runs and its first three theorems.
2. [done] `NodeRegistry` with proofs; `AudioRouting` composed with it.
3. [done] `UpdateSlots` with proofs.
4. [done] Proofs of the audio invariants and of `UpdTypeOK`.
5. [done] The agent's seats: `EncoderAllocator`, `SeatManager`, `HotplugMonitor`.
6. [done] `SecureChannel` as a refinement of `ReplayPromise`, with proofs.
7. [done] `NodeReconciler` with proofs.
8. [done] Proofs of `ChildSlots` and `CampaignsDurable`.
9. [done] Proofs about the seats and the encoder allocator.
10. Key state of forwarded input on `NodeRegistry`; the clipboard ring.
11. Overlapping scans: a smaller composition of hubs and seats for two creators.

Runs stay at small instances (two or three actors, one or two items each);
unbounded counters get a bound in a guard, named in the CONSTANTS.
