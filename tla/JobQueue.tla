------------------------------ MODULE JobQueue ------------------------------
(***************************************************************************)
(* controller/job_queue.py and its wiring in controller/api.py: jobs sent  *)
(* to agents over one config WebSocket per node, campaigns that fan a job  *)
(* out to many nodes, offline deferral, retry, deadlines, requeue, and the *)
(* two JSON files the queue reloads after a restart.                       *)
(*                                                                         *)
(* The controller is one asyncio loop: a coroutine runs without            *)
(* interruption up to an await that suspends.  Those are the send on a     *)
(* WebSocket and the close of a replaced one, so an action here is one run *)
(* of a coroutine from a resumption to the next of these, with everything  *)
(* it changes on the way.                                                  *)
(***************************************************************************)
EXTENDS Integers, FiniteSets, Sequences, FiniteSetsExt

CONSTANTS
    Nodes,       \* the agents' nodes, registered in state.nodes
    SoloNodes,   \* bound: the nodes that single jobs are created for
    BusyNodes,   \* bound: nodes that reconnect while a socket is registered
    MaxJobs,     \* bound: job ids ever allocated
    CampIds,     \* bound: campaign ids ever allocated
    Tasks,       \* bound: coroutines of API calls and connects alive at once
    Requeuer,    \* the coroutine of _requeue_loop
    MaxNow,      \* bound: the last instant of the clock
    NewDeadlines, \* bound: the deadlines that jobs and campaigns are given
    MaxCrashes,  \* bound: restarts of the controller
    Reports,     \* bound: what the agents report; acks, progress, results
    NoCamp, NoNode

ASSUME ConstantsAssumption ==
    /\ IsFiniteSet(Nodes)
    /\ SoloNodes \subseteq Nodes /\ BusyNodes \subseteq Nodes
    /\ MaxJobs \in Nat /\ MaxNow \in Nat /\ MaxCrashes \in Nat
    /\ NewDeadlines \subseteq 0 .. MaxNow
    /\ Reports \subseteq {"ack", "progress", "completed", "failed"}
    /\ Requeuer \notin Tasks
    /\ NoCamp \notin CampIds
    /\ NoNode \notin Nodes

VARIABLES
    jobs,     \* _jobs: the record of each id; "absent" when there is none
    used,     \* how many ids were allocated (uuid4 in the code)
    camps,    \* _campaigns
    disk,     \* campaigns.json
    jobsTorn, \* jobs.json was cut by a crash and does not parse; then _jobs is
              \* empty until a job is saved
    co,       \* the coroutines suspended in the queue
    reg,      \* reg[n]: _node_config_ws has a socket for n
    live,     \* live[n]: n's agent has its newest socket open and accepted
    pushing,  \* nodes whose seat config is being sent on a replaced socket
    wired,    \* _dispatch_fn is set
    now,      \* time.time()
    sent,     \* sent[j]: job j was written to a socket at least once
    crashes

qvars == <<jobs, used, camps, disk, jobsTorn>>
evars == <<now, sent, crashes>>
wvars == <<reg, live, pushing, wired>>
vars == <<jobs, used, camps, disk, jobsTorn, co, reg, live, pushing, wired, now,
          sent, crashes>>

JobIds == 1 .. MaxJobs
Coros == Tasks \cup {Requeuer}
NoJob == 0
NoDeadline == 0       \* None, or 0.0, which the code takes for None
Deadlines == 0 .. MaxNow

Results == {"completed", "failed"}
Terminal == {"completed", "failed", "cancelled", "timed_out", "skipped"}
States == Terminal \cup {"absent", "pending", "dispatched", "running"}
Retryable == {"failed", "cancelled", "timed_out", "skipped"}

JobRecs == [state : States, node : Nodes \cup {NoNode},
            camp : CampIds \cup {NoCamp}, deadline : Deadlines]
CampRecs == [made : BOOLEAN, nodes : Seq(Nodes), kids : Seq(JobIds),
             deadline : Deadlines]
\* pc: idle; closing, a handler that closes the socket it replaces; spawned, a
\* created task that has not run; sending, suspended in the send of `job`, with
\* `todo` after it.  old: its socket was closed or replaced.
CoRecs == [pc : {"idle", "closing", "spawned", "sending"}, node : Nodes \cup {NoNode},
           job : JobIds \cup {NoJob}, todo : SUBSET JobIds, old : BOOLEAN,
           camp : CampIds \cup {NoCamp}]

Absent == [state |-> "absent", node |-> NoNode, camp |-> NoCamp,
           deadline |-> NoDeadline]
NoCampaign == [made |-> FALSE, nodes |-> <<>>, kids |-> <<>>,
               deadline |-> NoDeadline]
Idle == [pc |-> "idle", node |-> NoNode, job |-> NoJob, todo |-> {},
         old |-> FALSE, camp |-> NoCamp]

TypeOK ==
    /\ jobs \in [JobIds -> JobRecs]
    /\ used \in 0 .. MaxJobs
    /\ camps \in [CampIds -> CampRecs]
    /\ disk \in [CampIds -> CampRecs]
    /\ jobsTorn \in BOOLEAN
    /\ co \in [Coros -> CoRecs]
    /\ reg \in [Nodes -> BOOLEAN]
    /\ live \in [Nodes -> BOOLEAN]
    /\ pushing \subseteq Nodes
    /\ wired \in BOOLEAN
    /\ now \in 1 .. MaxNow + 1
    /\ sent \in [JobIds -> BOOLEAN]
    /\ crashes \in 0 .. MaxCrashes

Init ==
    /\ jobs = [j \in JobIds |-> Absent]
    /\ used = 0
    /\ camps = [c \in CampIds |-> NoCampaign]
    /\ disk = [c \in CampIds |-> NoCampaign]
    /\ jobsTorn = FALSE
    /\ co = [t \in Coros |-> Idle]
    /\ reg = [n \in Nodes |-> FALSE]
    /\ live = [n \in Nodes |-> FALSE]
    /\ pushing = {}
    /\ wired = FALSE
    /\ now = 1
    /\ sent = [j \in JobIds |-> FALSE]
    /\ crashes = 0

-----------------------------------------------------------------------------
(* Dispatch: _try_dispatch and _dispatch_job up to the suspended send.     *)

Exists(j) == jobs[j].state # "absent"
Expired(deadline) == deadline # NoDeadline /\ now > deadline

\* Mutant of Sendable: the deadline is not looked at before a send.
SendableLate(js, rg, j) ==
    /\ js[j].state = "pending"
    /\ js[j].node \in Nodes
    /\ rg[js[j].node]

\* _try_dispatch on j reaches the send: PENDING, in time, socket registered.
Sendable(js, rg, j) ==
    /\ js[j].state = "pending"
    /\ ~ Expired(js[j].deadline)
    /\ js[j].node \in Nodes
    /\ rg[js[j].node]

\* The jobs of S after _try_dispatch on each of them sent none.
Settled(js, S) ==
    [j \in JobIds |->
        IF j \in S /\ js[j].state = "pending" /\ wired /\ Expired(js[j].deadline)
        THEN [js[j] EXCEPT !.state = "skipped"] ELSE js[j]]

Ready(js, rg, S) == {j \in S : Sendable(js, rg, j)}
\* A coroutine in the send of j to node n, in create_campaign of c if c # NoCamp.
Sending(j, n, todo, c) ==
    [pc |-> "sending", node |-> n, job |-> j, todo |-> todo, old |-> FALSE,
     camp |-> c]

\* The coroutine t reaches the end of its list S: no job of it can be sent.
WalkEnds(t, js, rg, S) ==
    /\ Ready(js, rg, S) = {}
    /\ jobs' = Settled(js, S)
    /\ co' = [co EXCEPT ![t] = Idle]
    /\ sent' = sent

\* It suspends in the send of j.
WalkSends(j, js, rg, S) ==
    /\ \A r \in Ready(js, rg, S) : j <= r
    /\ jobs' = Settled(js, {k \in S : k < j})
    /\ sent' = [sent EXCEPT ![j] = TRUE]

\* Mutant of Walk: the coroutine forgets the jobs after the first it sends.
WalkFirst(t, js, rg, S) ==
    \/ WalkEnds(t, js, rg, S)
    \/ \E j \in Ready(js, rg, S) :
            /\ WalkSends(j, js, rg, S)
            /\ co' = [co EXCEPT ![t] = Sending(j, js[j].node, {}, NoCamp)]

\* A coroutine goes through the jobs of S in creation order, up to the first
\* send or the end of the list.
Walk(t, js, rg, S) ==
    \/ WalkEnds(t, js, rg, S)
    \/ \E j \in Ready(js, rg, S) :
            /\ WalkSends(j, js, rg, S)
            /\ co' = [co EXCEPT ![t] =
                        Sending(j, js[j].node, {k \in S : k > j}, NoCamp)]

-----------------------------------------------------------------------------
(* Creating jobs and campaigns.                                            *)

NewJob(n, c, d) == [state |-> "pending", node |-> n, camp |-> c, deadline |-> d]

Building == {c \in CampIds : \E t \in Tasks : co[t].camp = c}
\* Ids the campaigns under construction still need, so that MaxJobs does not
\* stop one half way; the child that one is sending has its id.
Reserved == MapThenSumSet(LAMBDA c : Len(camps[c].nodes) - Len(camps[c].kids) - 1,
                          Building)
HasRoom(k) == used + k <= MaxJobs /\ used + k + Reserved <= MaxJobs

CreateJob(t, n, d) ==
    /\ co[t].pc = "idle"
    /\ HasRoom(1)
    /\ used' = used + 1
    /\ jobsTorn' = FALSE
    /\ Walk(t, [jobs EXCEPT ![used + 1] = NewJob(n, NoCamp, d)], reg, {used + 1})
    /\ UNCHANGED <<camps, disk, wvars, now, crashes>>

\* Mutant of SaveCampaigns: the file is not written.
SkipCampaigns == disk' = disk

\* Mutant of SaveCampaigns: it is written before the lists are changed.
SaveCampaignsFirst == disk' = camps

SaveCampaigns == disk' = camps'

\* js with the next k children of campaign c created, and cs with k of them
\* listed.
Born(js, cs, c, k) ==
    [j \in JobIds |->
        IF j \in used + 1 .. used + k
        THEN NewJob(cs[c].nodes[Len(cs[c].kids) + (j - used)], c, cs[c].deadline)
        ELSE js[j]]
Grown(cs, c, k) ==
    [cs EXCEPT ![c].kids = @ \o [i \in 1 .. k |-> used + i]]

\* The loop of create_campaign creates a child for each remaining node, k in
\* all, and none of them is sent; then campaigns.json is written.
CampaignEnds(t, js, cs, c) ==
    LET k == Len(cs[c].nodes) - Len(cs[c].kids) IN
    /\ used + k <= MaxJobs /\ used' = used + k
    /\ jobsTorn' = (jobsTorn /\ k = 0)
    /\ jobs' = Settled(Born(js, cs, c, k), used + 1 .. used + k)
    /\ camps' = Grown(cs, c, k)
    /\ SaveCampaigns
    /\ co' = [co EXCEPT ![t] = Idle]
    /\ sent' = sent

\* The k-th child's send suspends it.  A child is listed only after its
\* create_job returned.
CampaignSends(t, js, cs, c, k) ==
    LET born == Born(js, cs, c, k) IN
    /\ used + k <= MaxJobs /\ used' = used + k
    /\ jobsTorn' = FALSE
    /\ jobs' = Settled(born, used + 1 .. used + k - 1)
    /\ camps' = Grown(cs, c, k - 1)
    /\ disk' = disk
    /\ co' = [co EXCEPT ![t] =
                Sending(used + k, born[used + k].node, {}, c)]
    /\ sent' = [sent EXCEPT ![used + k] = TRUE]

CampaignRun(t, js, rg, cs, c) ==
    LET left == 1 .. Len(cs[c].nodes) - Len(cs[c].kids)
        stops == {k \in left : rg[cs[c].nodes[Len(cs[c].kids) + k]]
                               /\ ~ Expired(cs[c].deadline)}
    IN
    \/ stops = {} /\ CampaignEnds(t, js, cs, c)
    \/ \E k \in stops : (\A s \in stops : k <= s)
                        /\ CampaignSends(t, js, cs, c, k)

CreateCampaign(t, c, ns, d) ==
    /\ co[t].pc = "idle"
    /\ ~ camps[c].made /\ ~ disk[c].made /\ \A j \in JobIds : jobs[j].camp # c
    /\ HasRoom(Len(ns))
    /\ CampaignRun(t, jobs, reg,
                   [camps EXCEPT ![c] = [made |-> TRUE, nodes |-> ns,
                                         kids |-> <<>>, deadline |-> d]], c)
    /\ UNCHANGED <<wvars, now, crashes>>

\* Mutant of Delivered: a state that is none of JobState.
DeliveredUnknown(j, ok) ==
    IF ok THEN [jobs EXCEPT ![j].state = "sent"] ELSE jobs

\* _dispatch_job when the send returned: DISPATCHED, whatever state the job
\* reached while the send was suspended.
Delivered(j, ok) ==
    IF ok THEN [jobs EXCEPT ![j].state = "dispatched"] ELSE jobs

\* _jq_dispatch on an exception drops the node's entry, whichever socket is
\* there by now.
RegAfter(n, ok) == IF ok THEN reg ELSE [reg EXCEPT ![n] = FALSE]

\* A send fails once its socket was closed or replaced.
SendEnds(t, ok) == co[t].pc = "sending" /\ (ok \/ co[t].old)

ResumeLoop(t, ok) ==
    /\ SendEnds(t, ok) /\ co[t].camp = NoCamp
    /\ reg' = RegAfter(co[t].node, ok)
    /\ Walk(t, Delivered(co[t].job, ok), reg', co[t].todo)
    /\ UNCHANGED <<used, camps, disk, jobsTorn, live, pushing, wired, now, crashes>>

ResumeCampaign(t, ok) ==
    LET c == co[t].camp IN
    /\ SendEnds(t, ok) /\ c # NoCamp
    /\ reg' = RegAfter(co[t].node, ok)
    /\ CampaignRun(t, Delivered(co[t].job, ok), reg',
                   [camps EXCEPT ![c].kids = Append(@, co[t].job)], c)
    /\ UNCHANGED <<live, pushing, wired, now, crashes>>

\* Mutant of Relisted: the new attempt is listed beside the old one.
RelistedTwice(j, new) ==
    [c \in CampIds |->
        IF c = jobs[j].camp
        THEN [camps[c] EXCEPT !.kids = Append(@, new)] ELSE camps[c]]

\* The child list in which the retry `new` takes the place of job j.
Relisted(j, new) ==
    [c \in CampIds |->
        IF c = jobs[j].camp
        THEN [camps[c] EXCEPT !.kids =
                [i \in DOMAIN @ |-> IF @[i] = j THEN new ELSE @[i]]]
        ELSE camps[c]]

\* retry_job: campaigns.json is written before jobs.json.
RetryJob(t, j) ==
    LET r == jobs[j] IN
    /\ co[t].pc = "idle"
    /\ r.state \in Retryable
    /\ HasRoom(1)
    /\ used' = used + 1
    /\ camps' = Relisted(j, used + 1)
    /\ IF camps' = camps THEN disk' = disk ELSE SaveCampaigns
    /\ Walk(t, [jobs EXCEPT ![used + 1] = NewJob(r.node, r.camp, r.deadline)],
            reg, {used + 1})
    /\ UNCHANGED <<jobsTorn, wvars, now, crashes>>

-----------------------------------------------------------------------------
(* Reports of the agent, on its socket or over REST: late, repeated and in *)
(* any order, with either result, once the job was sent.                   *)

HandleAck(j) ==
    /\ sent[j]
    /\ jobs[j].state \in {"pending", "dispatched"}
    /\ jobs' = [jobs EXCEPT ![j].state = "dispatched"]
    /\ UNCHANGED <<used, camps, disk, jobsTorn, co, wvars, evars>>

\* Mutant of HandleProgress: late progress is not refused.
HandleProgressAny(j) ==
    /\ sent[j] /\ Exists(j)
    /\ jobs' = [jobs EXCEPT ![j].state = "running"]
    /\ UNCHANGED <<used, camps, disk, jobsTorn, co, wvars, evars>>

HandleProgress(j) ==
    /\ sent[j]
    /\ Exists(j) /\ jobs[j].state \notin Terminal
    /\ jobs' = [jobs EXCEPT ![j].state = "running"]
    /\ UNCHANGED <<used, camps, disk, jobsTorn, co, wvars, evars>>

HandleResult(j, r) ==
    /\ sent[j]
    /\ Exists(j) /\ jobs[j].state \notin Terminal
    /\ jobs' = [jobs EXCEPT ![j].state = r]
    /\ UNCHANGED <<used, camps, disk, jobsTorn, co, wvars, evars>>

-----------------------------------------------------------------------------
(* Operator control and the two periodic loops.                            *)

Cancelled(S) ==
    [j \in JobIds |->
        IF j \in S /\ jobs[j].state \in {"pending", "dispatched", "running"}
        THEN [jobs[j] EXCEPT !.state = "cancelled"] ELSE jobs[j]]

CancelJob(j) ==
    /\ Exists(j) /\ jobs[j].state \notin Terminal
    /\ jobs' = Cancelled({j})
    /\ UNCHANGED <<used, camps, disk, jobsTorn, co, wvars, evars>>

CancelCampaign(c) ==
    /\ camps[c].made
    /\ jobs' = Cancelled({camps[c].kids[i] : i \in DOMAIN camps[c].kids})
    /\ UNCHANGED <<used, camps, disk, jobsTorn, co, wvars, evars>>

\* One pass of _deadline_loop; it does not ask whether a send is under way.
DeadlinePass ==
    LET late == {j \in JobIds : jobs[j].state = "pending"
                                /\ Expired(jobs[j].deadline)} IN
    /\ late # {}
    /\ jobs' = [j \in JobIds |-> IF j \in late
                                 THEN [jobs[j] EXCEPT !.state = "skipped"]
                                 ELSE jobs[j]]
    /\ UNCHANGED <<used, camps, disk, jobsTorn, co, wvars, evars>>

\* _requeue_loop on one job dispatched more than 120 s ago, acknowledged or
\* not.  Any dispatched job may be that old: elapsed time is not modelled.
RequeueJob(j) ==
    /\ co[Requeuer].pc = "idle"
    /\ jobs[j].state = "dispatched"
    /\ Walk(Requeuer, [jobs EXCEPT ![j].state = "pending"], reg, {j})
    /\ UNCHANGED <<used, camps, disk, jobsTorn, wvars, now, crashes>>

-----------------------------------------------------------------------------
(* Config WebSockets, time and restarts.                                   *)

\* The suspended sends to n lose their socket.
Cut(n) ==
    [u \in Coros |-> IF co[u].pc = "sending" /\ co[u].node = n
                     THEN [co[u] EXCEPT !.old = TRUE] ELSE co[u]]

\* node_config_ws registers the socket, over one that came meanwhile, and
\* creates the task on_node_connected.
Registers(t, n) ==
    /\ reg' = [reg EXCEPT ![n] = TRUE]
    /\ live' = [live EXCEPT ![n] = TRUE]
    /\ wired' = TRUE
    /\ co' = [Cut(n) EXCEPT ![t] = [Idle EXCEPT !.pc = "spawned", !.node = n]]
    /\ UNCHANGED <<qvars, pushing, evars>>

Connect(t, n) ==
    /\ co[t].pc = "idle" /\ ~ reg[n]
    /\ Registers(t, n)

\* It takes a registered socket out and closes it, before it registers its own.
\* A seat config may be under way on the old one.
Replaces(t, n) ==
    /\ n \in BusyNodes
    /\ co[t].pc = "idle" /\ reg[n]
    /\ reg' = [reg EXCEPT ![n] = FALSE]
    /\ live' = [live EXCEPT ![n] = FALSE]
    /\ pushing' \in {pushing, pushing \cup {n}}
    /\ co' = [Cut(n) EXCEPT ![t] = [Idle EXCEPT !.pc = "closing", !.node = n]]
    /\ UNCHANGED <<qvars, wired, evars>>

Closed(t) == co[t].pc = "closing" /\ Registers(t, co[t].node)

\* The send of a seat config on a replaced socket fails, and drops the entry of
\* the socket that is there by now.
PushFails(n) ==
    /\ n \in pushing
    /\ pushing' = pushing \ {n}
    /\ reg' = [reg EXCEPT ![n] = FALSE]
    /\ UNCHANGED <<qvars, co, live, wired, evars>>

\* The task runs: it lists the node's PENDING jobs and dispatches them in turn.
NodeConnected(t) ==
    /\ co[t].pc = "spawned"
    /\ Walk(t, jobs, reg, {j \in JobIds : jobs[j].state = "pending"
                                          /\ jobs[j].node = co[t].node})
    /\ UNCHANGED <<used, camps, disk, jobsTorn, wvars, now, crashes>>

\* The newest socket closes; the handler drops its entry if it is still it.
Disconnect(n) ==
    /\ live[n]
    /\ live' = [live EXCEPT ![n] = FALSE]
    /\ reg' = [reg EXCEPT ![n] = FALSE]
    /\ co' = Cut(n)
    /\ UNCHANGED <<qvars, pushing, wired, evars>>

Tick ==
    /\ now <= MaxNow
    /\ now' = now + 1
    /\ UNCHANGED <<qvars, co, wvars, sent, crashes>>

\* What _load makes of the files: jobs first; a file that does not parse
\* ends the load.
Reload(js, cs, torn) ==
    /\ jobs' = IF torn THEN [j \in JobIds |-> Absent] ELSE js
    /\ camps' = IF torn THEN [c \in CampIds |-> NoCampaign] ELSE cs
    /\ disk' = cs
    /\ jobsTorn' = torn
    /\ co' = [t \in Coros |-> Idle]
    /\ reg' = [n \in Nodes |-> FALSE]
    /\ live' = [n \in Nodes |-> FALSE]
    /\ pushing' = {}
    /\ wired' = FALSE
    /\ crashes < MaxCrashes /\ crashes' = crashes + 1
    /\ UNCHANGED <<now, sent>>

\* The controller stops and restarts: between two writes, or in the middle of
\* write_text on jobs.json (tornJobs) or campaigns.json (tornCamps).
Crash(tornJobs, tornCamps) ==
    /\ used' = used
    /\ Reload(jobs, IF tornCamps THEN [c \in CampIds |-> NoCampaign] ELSE disk,
              jobsTorn \/ tornJobs)

\* It stops in retry_job after campaigns.json and before jobs.json.
CrashInRetry(j) ==
    /\ jobs[j].state \in Retryable
    /\ HasRoom(1)
    /\ Relisted(j, used + 1) # camps
    /\ used' = used + 1
    /\ Reload(jobs, Relisted(j, used + 1), jobsTorn)

-----------------------------------------------------------------------------
\* The scopes of a campaign resolve to nodes in the order of state.nodes.
TargetLists == UNION {[1 .. k -> Nodes] : k \in 0 .. Cardinality(Nodes)}
Scopes == {ns \in TargetLists : \A i, k \in DOMAIN ns : ns[i] = ns[k] => i = k}

Resume(t) == \E ok \in BOOLEAN : ResumeLoop(t, ok) \/ ResumeCampaign(t, ok)

Next ==
    \/ \E t \in Tasks, n \in SoloNodes, d \in NewDeadlines : CreateJob(t, n, d)
    \/ \E t \in Tasks, c \in CampIds, ns \in Scopes, d \in NewDeadlines :
            CreateCampaign(t, c, ns, d)
    \/ \E t \in Tasks, j \in JobIds : RetryJob(t, j)
    \/ \E t \in Coros : Resume(t)
    \/ \E j \in JobIds : \/ "ack" \in Reports /\ HandleAck(j)
                         \/ "progress" \in Reports /\ HandleProgress(j)
                         \/ CancelJob(j)
    \/ \E j \in JobIds, r \in Results \cap Reports : HandleResult(j, r)
    \/ \E c \in CampIds : CancelCampaign(c)
    \/ DeadlinePass
    \/ \E j \in JobIds : RequeueJob(j)
    \/ \E t \in Tasks, n \in Nodes : Connect(t, n) \/ Replaces(t, n)
    \/ \E t \in Tasks : Closed(t) \/ NodeConnected(t)
    \/ \E n \in Nodes : PushFails(n) \/ Disconnect(n)
    \/ Tick
    \/ \E a, b \in BOOLEAN : Crash(a, b)
    \/ \E j \in JobIds : CrashInRetry(j)

Spec == Init /\ [][Next]_vars

\* A suspended send ends (the server's ping timeout closes a dead socket), a
\* created task runs, and the two loops visit every job again and again: each
\* of their passes looks at all of them, whatever the others do in between.
Fairness ==
    /\ \A t \in Coros : WF_vars(Resume(t))
    /\ \A t \in Tasks : WF_vars(NodeConnected(t))
    /\ SF_vars(DeadlinePass)
    /\ \A j \in JobIds : SF_vars(RequeueJob(j))

FairSpec == Spec /\ Fairness

-----------------------------------------------------------------------------
(* Properties.                                                             *)

Slots(cs, c) ==
    /\ Len(cs[c].kids) <= Len(cs[c].nodes)
    /\ \A i, k \in DOMAIN cs[c].kids :
            cs[c].kids[i] = cs[c].kids[k] => i = k
    /\ \A i \in DOMAIN cs[c].kids :
            LET j == cs[c].kids[i] IN
            Exists(j) => jobs[j].camp = c /\ jobs[j].node = cs[c].nodes[i]

\* The i-th child a campaign lists, in memory and in campaigns.json, is a job
\* of this campaign for its i-th resolved node, whatever retries replaced the
\* child, in whatever order its creation, its retries and restarts came; and
\* without a restart a created campaign lists a child for every node.
ChildSlots ==
    \A c \in CampIds :
        /\ Slots(camps, c) /\ Slots(disk, c)
        /\ crashes = 0 /\ c \notin Building =>
                Len(camps[c].kids) = Len(camps[c].nodes)

\* Once create_campaign returned, campaigns.json says what memory says, through
\* every retry, so a restart that can read the files loses no campaign and no
\* replaced child.
CampaignsDurable ==
    crashes = 0 => \A c \in CampIds \ Building : disk[c] = camps[c]

\* "all connected targets receive their jobs immediately": a node whose agent
\* holds its config WebSocket open has an entry that dispatch finds.
ConnectedIsReachable == \A n \in Nodes : live[n] => reg[n]

\* The coroutine t will come to job j, or has come to it.
Owes(t, j) ==
    \/ co[t].pc = "spawned" /\ co[t].node = jobs[j].node
    \/ co[t].pc = "sending" /\ (co[t].job = j \/ j \in co[t].todo)

\* "dispatches all PENDING jobs for that node": a job that is PENDING while its
\* node has a registered socket is always in the hands of some coroutine that
\* sends it or will try to; none is forgotten between a connect, a failed send,
\* a requeue, a retry and the creation of other jobs.
PendingIsOwed ==
    \A j \in JobIds :
        jobs[j].state = "pending" /\ reg[jobs[j].node] =>
            \E t \in Coros : Owes(t, j)

\* A job leaves a terminal state only when a send of it that was suspended
\* before it got there returns and _dispatch_job writes DISPATCHED; no report,
\* cancel, deadline or requeue reopens a job.
ReopenedOnlyByLateSend ==
    [][\A j \in JobIds :
        jobs[j].state \in Terminal /\ jobs'[j].state # jobs[j].state =>
            \/ \E t \in Coros : co[t].pc = "sending" /\ co[t].job = j
                               /\ jobs'[j].state = "dispatched"
            \/ crashes' # crashes]_vars

\* A job pending for a node with a registered socket is not left there: it is
\* dispatched or otherwise settled, or the node's entry goes.
PendingServed ==
    \A j \in JobIds :
        (jobs[j].state = "pending" /\ reg[jobs[j].node])
            ~> (jobs[j].state # "pending" \/ ~ reg[jobs[j].node])

\* Deadlines close the books: once its deadline has passed, a job ends up in a
\* terminal state for good, or running on its node.
ExpiredSettles ==
    \A j \in JobIds :
        <>[](Expired(jobs[j].deadline) =>
                jobs[j].state \in Terminal \cup {"running", "absent"})

Children(cs) == [c \in CampIds |-> cs[c].kids]

Promise == INSTANCE CampaignPromise WITH
    Campaigns <- CampIds, Jobs <- JobIds,
    slots <- Children(camps), file <- Children(disk)

\* A campaign that create_campaign fills and retry_job edits, each suspended
\* while the other runs, keeps what CampaignPromise says: a child's place is its
\* own and its retries', no job is listed twice, a retry is on disk with the
\* step that lists it, and a restart goes back to the file.
KeepsCampaigns == Promise!Spec
=============================================================================
