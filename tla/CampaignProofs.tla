--------------------------- MODULE CampaignProofs ---------------------------
(***************************************************************************)
(* For any number of nodes, jobs, campaigns, coroutines and restarts: the  *)
(* child lists of the campaigns stay in step with the jobs and with the    *)
(* nodes they were resolved to, and campaigns.json says what memory says.  *)
(***************************************************************************)
EXTENDS JobQueueProofs

\* The i-th child that c lists is one of the first k ids, listed once, and if it
\* is in js, it is a job of c for c's i-th node.
SlotsAt(cs, c, js, k) ==
    /\ Len(cs[c].kids) <= Len(cs[c].nodes)
    /\ \A i, h \in DOMAIN cs[c].kids : cs[c].kids[i] = cs[c].kids[h] => i = h
    /\ \A i \in DOMAIN cs[c].kids :
            /\ cs[c].kids[i] \in 1 .. k
            /\ js[cs[c].kids[i]].state # "absent" =>
                  /\ js[cs[c].kids[i]].camp = c
                  /\ js[cs[c].kids[i]].node = cs[c].nodes[i]

SlotsOf(cs, js, k) == \A c \in CampIds : SlotsAt(cs, c, js, k)

\* The job that create_campaign waits for is the next child of its campaign.
NextChild(u) ==
    co[u].camp # NoCamp =>
        LET c == co[u].camp
            j == co[u].job IN
        /\ jobs[j].camp = c
        /\ jobs[j].node = camps[c].nodes[Len(camps[c].kids) + 1]
        /\ \A i \in DOMAIN camps[c].kids : camps[c].kids[i] # j

\* Without a restart, a campaign that nobody builds is complete and on disk.
Finished ==
    crashes = 0 => \A c \in CampIds \ Building :
                        /\ Len(camps[c].kids) = Len(camps[c].nodes)
                        /\ disk[c] = camps[c]

CampInv ==
    /\ SlotsOf(camps, jobs, used)
    /\ SlotsOf(disk, jobs, used)
    /\ \A u \in Coros : NextChild(u)
    /\ Finished
    /\ co[Requeuer].camp = NoCamp

CInv == IInv /\ CampInv

-----------------------------------------------------------------------------
(* Steps that leave the campaigns alone.                                   *)

\* The jobs of js are the first `used` ones of _jobs, but for their states.
SameJobs(js) ==
    \A j \in 1 .. used :
        /\ js[j].camp = jobs[j].camp /\ js[j].node = jobs[j].node
        /\ js[j].state = "absent" <=> jobs[j].state = "absent"

\* The child lists only care for the first ids, and not for states.
LEMMA SlotsKept ==
    ASSUME NEW cs, SlotsOf(cs, jobs, used), NEW js, NEW k \in Nat, used \in Nat,
           used <= k, SameJobs(js)
    PROVE  SlotsOf(cs, js, k)
<1>. SUFFICES ASSUME NEW c \in CampIds PROVE SlotsAt(cs, c, js, k)
  BY DEF SlotsOf
<1>1. SlotsAt(cs, c, jobs, used)
  BY DEF SlotsOf
<1>2. \A j \in 1 .. used : j \in 1 .. k
  OBVIOUS
<1>. QED  BY <1>1, <1>2 DEF SlotsAt, SameJobs

\* The coroutines that build a campaign go on waiting for the same child.
SameBuilders ==
    \A u \in Coros :
        /\ co'[u].camp = co[u].camp
        /\ co[u].camp # NoCamp => co'[u].job = co[u].job

LEMMA QuietPreserves ==
    ASSUME CInv, UNCHANGED <<camps, disk, crashes>>,
           used' \in Nat, used <= used', SameJobs(jobs'), SameBuilders
    PROVE  CampInv'
<1>1. used \in Nat
  BY DEF CInv, IInv, TypeOK
<1>2. SlotsOf(camps, jobs, used)' /\ SlotsOf(disk, jobs, used)'
  <2>1. SlotsOf(camps, jobs', used') /\ SlotsOf(disk, jobs', used')
    BY <1>1, SlotsKept DEF CInv, CampInv
  <2>. QED  BY <2>1
<1>3. ASSUME NEW u \in Coros
      PROVE  NextChild(u)'
  <2>1. CASE co[u].camp = NoCamp
    BY <2>1 DEF NextChild, SameBuilders
  <2>2. CASE co[u].camp # NoCamp
    <3>1. co[u].job \in 1 .. used
      BY <2>2 DEF CInv, IInv, Builders, SendsItsJob
    <3>2. co'[u].camp = co[u].camp /\ co'[u].job = co[u].job
      BY <2>2 DEF SameBuilders
    <3>3. /\ jobs'[co[u].job].camp = jobs[co[u].job].camp
          /\ jobs'[co[u].job].node = jobs[co[u].job].node
      BY <3>1 DEF SameJobs
    <3>4. NextChild(u)
      BY DEF CInv, CampInv
    <3>. QED  BY <2>2, <3>2, <3>3, <3>4 DEF NextChild
  <2>. QED  BY <2>1, <2>2
<1>4. Building' = Building
  BY DEF Building, SameBuilders, Coros
<1>5. Finished'
  BY <1>4 DEF CInv, CampInv, Finished
<1>6. co'[Requeuer].camp = NoCamp
  BY DEF CInv, CampInv, SameBuilders, Coros
<1>. QED  BY <1>2, <1>3, <1>5, <1>6 DEF CampInv

\* A walk changes nothing of a job but its state.
LEMMA WalkKeeps ==
    ASSUME NEW t, NEW js \in JobsType, NEW rg, NEW S, Walk(t, js, rg, S)
    PROVE  \A j \in JobIds :
                /\ jobs'[j].camp = js[j].camp /\ jobs'[j].node = js[j].node
                /\ jobs'[j].state = "absent" <=> js[j].state = "absent"
<1>1. PICK R : jobs' = Settled(js, R)
  <2>1. CASE WalkEnds(t, js, rg, S)
    BY <2>1 DEF WalkEnds
  <2>2. ASSUME NEW j, WalkSends(j, js, rg, S)
        PROVE  \E R : jobs' = Settled(js, R)
    BY <2>2 DEF WalkSends
  <2>. QED  BY <2>1, <2>2 DEF Walk
<1>2. "skipped" \in States
  BY DEF States, Terminal
<1>3. ASSUME NEW j \in JobIds
      PROVE  /\ jobs'[j].camp = js[j].camp /\ jobs'[j].node = js[j].node
             /\ jobs'[j].state = "absent" <=> js[j].state = "absent"
  <2>1. CASE jobs'[j] = js[j]
    BY <2>1
  <2>2. CASE jobs'[j] = [js[j] EXCEPT !.state = "skipped"] /\ js[j].state = "pending"
    BY <1>2, <2>2, StateSet
  <2>. QED  BY <1>1, <2>1, <2>2 DEF Settled
<1>. QED  BY <1>3

\* A coroutine that builds no campaign walks, and builds none afterwards.
LEMMA WalkBuilds ==
    ASSUME co \in [Coros -> CoRecs], NEW t \in Coros, co[t].camp = NoCamp,
           NEW js, NEW rg, NEW S, Walk(t, js, rg, S)
    PROVE  SameBuilders
<1>1. co'[t].camp = NoCamp /\ \A u \in Coros \ {t} : co'[u] = co[u]
  <2>1. CASE WalkEnds(t, js, rg, S)
    BY <2>1 DEF WalkEnds, Idle
  <2>2. ASSUME NEW j, NEW n, NEW R,
               co' = [co EXCEPT ![t] = Sending(j, n, R, NoCamp)]
        PROVE  co'[t].camp = NoCamp /\ \A u \in Coros \ {t} : co'[u] = co[u]
    BY <2>2 DEF Sending
  <2>. QED  BY <2>1, <2>2 DEF Walk
<1>. QED  BY <1>1 DEF SameBuilders

\* Only a suspended send builds a campaign.
LEMMA NotBuilding ==
    ASSUME IInv, NEW u \in Coros, co[u].pc # "sending"
    PROVE  co[u].camp = NoCamp
BY DEF IInv, Builders

\* A step that gives nobody a new id, changes no campaign and ends in a walk.
LEMMA WalkQuiet ==
    ASSUME CInv, NEW t \in Coros, co[t].camp = NoCamp,
           NEW js \in JobsType, SameJobs(js), NEW rg, NEW S, Walk(t, js, rg, S),
           UNCHANGED <<camps, disk, crashes>>, used' \in Nat, used <= used'
    PROVE  CampInv'
<1>1. /\ co \in [Coros -> CoRecs] /\ used \in 0 .. MaxJobs /\ MaxJobs \in Nat
  BY ConstantsAssumption DEF CInv, IInv, TypeOK
<1>2. SameBuilders
  BY <1>1, WalkBuilds
<1>3. \A j \in 1 .. used : j \in JobIds
  BY <1>1 DEF JobIds
<1>4. SameJobs(jobs')
  BY <1>3, WalkKeeps DEF SameJobs
<1>. QED  BY <1>2, <1>4, QuietPreserves

\* A step that changes jobs' states only.
LEMMA StatesQuiet ==
    ASSUME CInv, SameJobs(jobs'), UNCHANGED <<used, camps, disk, co, crashes>>
    PROVE  CampInv'
<1>1. used \in Nat /\ SameBuilders
  BY DEF CInv, IInv, TypeOK, SameBuilders
<1>. QED  BY <1>1, QuietPreserves

LEMMA CreateJobCamp ==
    ASSUME CInv, NEW t \in Tasks, NEW n \in Nodes, NEW d \in Deadlines,
           CreateJob(t, n, d)
    PROVE  CampInv'
<1>. DEFINE js == [jobs EXCEPT ![used + 1] = NewJob(n, NoCamp, d)]
<1>1. /\ co[t].pc = "idle" /\ used + 1 <= MaxJobs /\ used' = used + 1
      /\ Walk(t, js, reg, {used + 1})
      /\ UNCHANGED <<camps, disk, crashes>>
      /\ t \in Coros /\ IInv
  BY DEF CreateJob, HasRoom, Coros, CInv
<1>2. js \in JobsType
  BY <1>1, NewJobFacts
<1>3. used \in Nat /\ MaxJobs \in Nat /\ jobs \in [JobIds -> JobRecs]
  BY <1>1, ConstantsAssumption DEF IInv, TypeOK
<1>4. SameJobs(js)
  <2>1. \A j \in 1 .. used : j \in JobIds /\ j # used + 1
    BY <1>1, <1>3 DEF JobIds
  <2>. QED  BY <1>3, <2>1 DEF SameJobs
<1>5. co[t].camp = NoCamp
  BY <1>1, NotBuilding
<1>. HIDE DEF js
<1>. QED  BY <1>1, <1>2, <1>3, <1>4, <1>5, WalkQuiet

\* What _dispatch_job writes when a send returned keeps the jobs what they are.
LEMMA DeliveredSame ==
    ASSUME IInv, NEW t \in Coros, NEW ok \in BOOLEAN, SendEnds(t, ok)
    PROVE  /\ Delivered(co[t].job, ok) \in JobsType
           /\ SameJobs(Delivered(co[t].job, ok))
<1>. DEFINE i == co[t].job
<1>1. /\ jobs \in JobsType /\ used \in 0 .. MaxJobs /\ MaxJobs \in Nat
      /\ "dispatched" \in States
  BY ConstantsAssumption DEF IInv, TypeOK, JobsType, States
<1>2. i \in 1 .. used /\ jobs[i].state # "absent"
  BY DEF IInv, SendsItsJob, SendEnds
<1>3. \A j \in 1 .. used : j \in JobIds
  BY <1>1 DEF JobIds
<1>. HIDE DEF i
<1>4. CASE ok
  <2>1. Delivered(i, ok) = [jobs EXCEPT ![i].state = "dispatched"]
    BY <1>4 DEF Delivered
  <2>2. [jobs EXCEPT ![i].state = "dispatched"] \in JobsType
    BY <1>1, <1>2, <1>3, StateSet
  <2>3. ASSUME NEW j \in 1 .. used
        PROVE  LET js == [jobs EXCEPT ![i].state = "dispatched"] IN
               /\ js[j].camp = jobs[j].camp /\ js[j].node = jobs[j].node
               /\ js[j].state = "absent" <=> jobs[j].state = "absent"
    BY <1>1, <1>2, <1>3 DEF JobsType, JobRecs
  <2>4. SameJobs([jobs EXCEPT ![i].state = "dispatched"])
    BY <2>3 DEF SameJobs
  <2>. QED  BY <2>1, <2>2, <2>4 DEF i
<1>5. CASE ~ ok
  <2>1. Delivered(i, ok) = jobs
    BY <1>5 DEF Delivered
  <2>. QED  BY <1>1, <2>1 DEF SameJobs, i
<1>. QED  BY <1>4, <1>5

LEMMA ResumeLoopCamp ==
    ASSUME CInv, NEW t \in Coros, NEW ok \in BOOLEAN, ResumeLoop(t, ok)
    PROVE  CampInv'
<1>. DEFINE js == Delivered(co[t].job, ok)
<1>1. /\ SendEnds(t, ok) /\ co[t].camp = NoCamp
      /\ Walk(t, js, reg', co[t].todo)
      /\ UNCHANGED <<used, camps, disk, crashes>>
      /\ IInv /\ used \in Nat
  BY DEF ResumeLoop, CInv, IInv, TypeOK
<1>2. js \in JobsType /\ SameJobs(js)
  BY <1>1, DeliveredSame
<1>. HIDE DEF js
<1>. QED  BY <1>1, <1>2, WalkQuiet

\* Reports, cancels and the deadline's pass.
LEMMA ReportCamp ==
    ASSUME CInv, NEW j \in JobIds, NEW r \in Results,
           HandleAck(j) \/ HandleProgress(j) \/ HandleResult(j, r)
    PROVE  CampInv'
<1>1. PICK s \in States \ {"absent"} :
        /\ jobs[j].state # "absent"
        /\ jobs' = [jobs EXCEPT ![j].state = s]
        /\ UNCHANGED <<used, camps, disk, jobsTorn, co, wvars, evars>>
  <2>1. {r, "dispatched", "running"} \subseteq States \ {"absent"}
    BY DEF Results, States, Terminal
  <2>. QED  BY <2>1 DEF HandleAck, HandleProgress, HandleResult, Exists
<1>2. jobs \in [JobIds -> JobRecs] /\ used \in 0 .. MaxJobs /\ MaxJobs \in Nat
  BY ConstantsAssumption DEF CInv, IInv, TypeOK
<1>3. \A i \in 1 .. used : i \in JobIds
  BY <1>2 DEF JobIds
<1>4. SameJobs(jobs')
  BY <1>1, <1>2, <1>3 DEF SameJobs, JobRecs
<1>. QED  BY <1>1, <1>4, StatesQuiet DEF evars

\* CancelJob, CancelCampaign and the deadline's pass give the jobs of a set,
\* none of them absent, a terminal state.
LEMMA CloseQuiet ==
    ASSUME CInv, NEW S, NEW s \in {"cancelled", "skipped"},
           \A j \in S : jobs[j].state # "absent",
           jobs' = [j \in JobIds |-> IF j \in S
                                    THEN [jobs[j] EXCEPT !.state = s]
                                    ELSE jobs[j]],
           UNCHANGED <<used, camps, disk, jobsTorn, co, wvars, evars>>
    PROVE  CampInv'
<1>1. jobs \in [JobIds -> JobRecs] /\ used \in 0 .. MaxJobs /\ MaxJobs \in Nat
  BY ConstantsAssumption DEF CInv, IInv, TypeOK
<1>2. ASSUME NEW i \in 1 .. used
      PROVE  /\ jobs'[i].camp = jobs[i].camp /\ jobs'[i].node = jobs[i].node
             /\ jobs'[i].state = "absent" <=> jobs[i].state = "absent"
  <2>1. i \in JobIds
    BY <1>1 DEF JobIds
  <2>2. CASE i \in S
    <3>1. jobs'[i] = [jobs[i] EXCEPT !.state = s]
      BY <2>1, <2>2
    <3>2. s # "absent" /\ jobs[i].state # "absent" /\ jobs[i] \in JobRecs
      BY <1>1, <2>1, <2>2
    <3>. QED  BY <3>1, <3>2 DEF JobRecs
  <2>3. CASE i \notin S
    BY <2>1, <2>3
  <2>. QED  BY <2>2, <2>3
<1>3. SameJobs(jobs')
  BY <1>2 DEF SameJobs
<1>. QED  BY <1>3, StatesQuiet DEF evars

LEMMA CloseCamp ==
    ASSUME CInv,
           \/ \E j \in JobIds : CancelJob(j)
           \/ \E c \in CampIds : CancelCampaign(c)
           \/ DeadlinePass
    PROVE  CampInv'
<1>1. ASSUME NEW T, jobs' = Cancelled(T),
             UNCHANGED <<used, camps, disk, jobsTorn, co, wvars, evars>>
      PROVE  CampInv'
  <2>. DEFINE S == {j \in JobIds : j \in T /\
                      jobs[j].state \in {"pending", "dispatched", "running"}}
  <2>1. jobs' = [j \in JobIds |-> IF j \in S
                                 THEN [jobs[j] EXCEPT !.state = "cancelled"]
                                 ELSE jobs[j]]
    BY <1>1 DEF Cancelled
  <2>2. \A j \in S : jobs[j].state # "absent"
    OBVIOUS
  <2>. HIDE DEF S
  <2>. QED  BY <1>1, <2>1, <2>2, CloseQuiet
<1>2. CASE DeadlinePass
  <2>. DEFINE S == {j \in JobIds : jobs[j].state = "pending"
                                  /\ Expired(jobs[j].deadline)}
  <2>1. /\ jobs' = [j \in JobIds |-> IF j \in S
                                 THEN [jobs[j] EXCEPT !.state = "skipped"]
                                 ELSE jobs[j]]
        /\ UNCHANGED <<used, camps, disk, jobsTorn, co, wvars, evars>>
    BY <1>2 DEF DeadlinePass
  <2>2. \A j \in S : jobs[j].state # "absent"
    OBVIOUS
  <2>. HIDE DEF S
  <2>. QED  BY <2>1, <2>2, CloseQuiet
<1>. QED  BY <1>1, <1>2 DEF CancelJob, CancelCampaign

LEMMA LoopCamp ==
    ASSUME CInv,
           \/ \E j \in JobIds : RequeueJob(j)
           \/ \E t \in Tasks : NodeConnected(t)
    PROVE  CampInv'
<1>1. /\ jobs \in JobsType /\ used \in 0 .. MaxJobs /\ MaxJobs \in Nat
      /\ used \in Nat /\ "pending" \in States /\ IInv
  BY ConstantsAssumption DEF CInv, IInv, TypeOK, JobsType, States
<1>2. ASSUME NEW i \in JobIds, RequeueJob(i)
      PROVE  CampInv'
  <2>. DEFINE js == [jobs EXCEPT ![i].state = "pending"]
  <2>1. /\ Walk(Requeuer, js, reg, {i}) /\ Requeuer \in Coros
        /\ UNCHANGED <<used, camps, disk, crashes>>
        /\ co[Requeuer].camp = NoCamp /\ jobs[i].state = "dispatched"
    BY <1>2 DEF RequeueJob, Coros, CInv, CampInv
  <2>2. js \in JobsType
    BY <1>1, StateSet
  <2>3. \A j \in 1 .. used : j \in JobIds
    BY <1>1 DEF JobIds
  <2>4. SameJobs(js)
    BY <1>1, <2>1, <2>3 DEF SameJobs, JobsType, JobRecs
  <2>. HIDE DEF js
  <2>. QED  BY <1>1, <2>1, <2>2, <2>4, WalkQuiet
<1>3. ASSUME NEW t \in Tasks, NodeConnected(t)
      PROVE  CampInv'
  <2>. DEFINE S == {j \in JobIds : jobs[j].state = "pending"
                                  /\ jobs[j].node = co[t].node}
  <2>1. /\ co[t].pc = "spawned" /\ t \in Coros /\ Walk(t, jobs, reg, S)
        /\ UNCHANGED <<used, camps, disk, crashes>>
    BY <1>3 DEF NodeConnected, Coros
  <2>. HIDE DEF S
  <2>2. SameJobs(jobs) /\ co[t].camp = NoCamp
    BY <1>1, <2>1, NotBuilding DEF SameJobs
  <2>. QED  BY <1>1, <2>1, <2>2, WalkQuiet
<1>. QED  BY <1>2, <1>3

\* The config WebSockets and time.
LEMMA SocketCamp ==
    ASSUME CInv,
           \/ \E t \in Tasks, n \in Nodes : Connect(t, n) \/ Replaces(t, n)
           \/ \E t \in Tasks : Closed(t)
           \/ \E n \in Nodes : PushFails(n) \/ Disconnect(n)
           \/ Tick
    PROVE  CampInv'
<1>1. co \in [Coros -> CoRecs] /\ used \in Nat /\ IInv /\ SameJobs(jobs)
  BY DEF CInv, IInv, TypeOK, SameJobs
<1>2. /\ UNCHANGED <<jobs, used, camps, disk, crashes>>
  BY DEF Connect, Replaces, Closed, Registers, PushFails, Disconnect, Tick,
         qvars, evars
<1>3. ASSUME NEW t \in Coros, NEW n \in Nodes \cup {NoNode},
             co[t].pc \in {"idle", "closing"}, NEW pc \in {"closing", "spawned"},
             co' = [Cut(n) EXCEPT ![t] = [Idle EXCEPT !.pc = pc, !.node = n]]
      PROVE  SameBuilders
  <2>1. co'[t].camp = NoCamp /\ \A u \in Coros \ {t} : SameSend(u)
    BY <1>1, <1>3, HandlerFacts
  <2>2. co[t].camp = NoCamp
    BY <1>1, <1>3, NotBuilding
  <2>. QED  BY <2>1, <2>2 DEF SameBuilders, SameSend
<1>4. ASSUME NEW t \in Coros, NEW n \in Nodes \cup {NoNode},
             co[t].pc \in {"idle", "closing"}, Registers(t, n)
      PROVE  SameBuilders
  BY <1>3, <1>4 DEF Registers
<1>5. SameBuilders
  <2>1. ASSUME NEW t \in Tasks, NEW n \in Nodes, Connect(t, n) \/ Replaces(t, n)
        PROVE  SameBuilders
    <3>1. t \in Coros /\ co[t].pc = "idle" /\ n \in Nodes \cup {NoNode}
      BY <2>1 DEF Coros, Connect, Replaces
    <3>2. CASE Connect(t, n)
      BY <1>4, <3>1, <3>2 DEF Connect
    <3>3. CASE Replaces(t, n)
      BY <1>3, <3>1, <3>3 DEF Replaces
    <3>. QED  BY <2>1, <3>2, <3>3
  <2>2. ASSUME NEW t \in Tasks, Closed(t)
        PROVE  SameBuilders
    <3>1. t \in Coros /\ co[t].pc = "closing" /\ Registers(t, co[t].node)
      BY <2>2 DEF Coros, Closed
    <3>2. co[t].node \in Nodes \cup {NoNode}
      BY <1>1, <3>1 DEF CoRecs
    <3>. QED  BY <1>4, <3>1, <3>2
  <2>3. ASSUME NEW n \in Nodes, co' = Cut(n)
        PROVE  SameBuilders
    BY <1>1, <2>3, CutFacts DEF SameBuilders, SameSend
  <2>4. co' = co => SameBuilders
    BY DEF SameBuilders
  <2>. QED  BY <2>1, <2>2, <2>3, <2>4 DEF PushFails, Disconnect, Tick, qvars
<1>. QED  BY <1>1, <1>2, <1>5, QuietPreserves

-----------------------------------------------------------------------------
(* Restarts.                                                               *)

\* A restart loads campaigns.json, whose lists are in step with jobs.json, or
\* loads nothing.
LEMMA ReloadCamp ==
    ASSUME CInv, NEW cs, NEW torn \in BOOLEAN, SlotsOf(cs, jobs, used'),
           used' \in 0 .. MaxJobs, Reload(jobs, cs, torn)
    PROVE  CampInv'
<1>1. /\ jobs' = IF torn THEN [j \in JobIds |-> Absent] ELSE jobs
      /\ camps' = IF torn THEN [c \in CampIds |-> NoCampaign] ELSE cs
      /\ disk' = cs
      /\ co' = [t \in Coros |-> Idle]
      /\ crashes' = crashes + 1 /\ crashes \in Nat
  BY DEF Reload, CInv, IInv, TypeOK
<1>2. \A j \in 1 .. used' : j \in JobIds
  BY ConstantsAssumption DEF JobIds
<1>3. SlotsOf(cs, jobs', used')
  <2>1. CASE torn
    <3>1. \A j \in 1 .. used' : jobs'[j].state = "absent"
      BY <1>1, <1>2, <2>1 DEF Absent
    <3>. QED  BY <3>1 DEF SlotsOf, SlotsAt
  <2>2. CASE ~ torn
    BY <1>1, <2>2
  <2>. QED  BY <2>1, <2>2
<1>4. SlotsOf(camps', jobs', used')
  <2>1. CASE torn
    <3>1. \A c \in CampIds : camps'[c].kids = <<>> /\ camps'[c].nodes = <<>>
      BY <1>1, <2>1 DEF NoCampaign
    <3>2. Len(<<>>) <= Len(<<>>) /\ DOMAIN <<>> = {}
      OBVIOUS
    <3>. QED  BY <3>1, <3>2 DEF SlotsOf, SlotsAt
  <2>2. CASE ~ torn
    BY <1>1, <1>3, <2>2
  <2>. QED  BY <2>1, <2>2
<1>5. \A u \in Coros : co'[u].camp = NoCamp
  BY <1>1 DEF Idle
<1>6. \A u \in Coros : NextChild(u)'
  BY <1>5 DEF NextChild
<1>7. Finished'
  BY <1>1 DEF Finished
<1>. QED  BY <1>1, <1>3, <1>4, <1>5, <1>6, <1>7 DEF CampInv, Coros

LEMMA CrashCamp ==
    ASSUME CInv, NEW a \in BOOLEAN, NEW b \in BOOLEAN, Crash(a, b)
    PROVE  CampInv'
<1>. DEFINE cs == IF b THEN [c \in CampIds |-> NoCampaign] ELSE disk
            torn == jobsTorn \/ a
<1>1. /\ used' = used /\ Reload(jobs, cs, torn) /\ used \in 0 .. MaxJobs
      /\ torn \in BOOLEAN /\ SlotsOf(disk, jobs, used)
  BY DEF Crash, CInv, CampInv, IInv, TypeOK
<1>2. SlotsOf(cs, jobs, used')
  <2>1. CASE b
    <3>1. \A c \in CampIds : cs[c].kids = <<>> /\ cs[c].nodes = <<>>
      BY <2>1 DEF NoCampaign
    <3>2. Len(<<>>) <= Len(<<>>) /\ DOMAIN <<>> = {}
      OBVIOUS
    <3>. HIDE DEF cs
    <3>. QED  BY <3>1, <3>2 DEF SlotsOf, SlotsAt
  <2>2. CASE ~ b
    BY <1>1, <2>2
  <2>. QED  BY <2>1, <2>2
<1>. HIDE DEF cs, torn
<1>. QED  BY <1>1, <1>2, ReloadCamp

-----------------------------------------------------------------------------
(* Retries.                                                                *)

\* A retry takes the slot of its job: same campaign, same node, and every other
\* slot is as it was.  In js the new id is that of the retry, or of no job.
LEMMA RelistedSlots ==
    ASSUME CInv, NEW j \in JobIds, jobs[j].state # "absent", used + 1 \in JobIds,
           NEW js, SameJobs(js),
           js[used + 1].state # "absent" =>
                /\ js[used + 1].camp = jobs[j].camp
                /\ js[used + 1].node = jobs[j].node
    PROVE  /\ SlotsOf(Relisted(j, used + 1), js, used + 1)
           /\ \A c \in CampIds, k \in 1 .. used :
                (\A i \in DOMAIN camps[c].kids : camps[c].kids[i] # k) =>
                \A i \in DOMAIN Relisted(j, used + 1)[c].kids :
                    Relisted(j, used + 1)[c].kids[i] # k
<1>. DEFINE new == used + 1
            cs == Relisted(j, new)
<1>1. used \in Nat /\ j \in 1 .. used /\ IInv /\ SlotsOf(camps, jobs, used)
  BY DEF CInv, CampInv, IInv, TypeOK, Counted
<1>2. \A k \in 1 .. used : k \in 1 .. new /\ k # new
  BY <1>1
<1>3. new \in 1 .. new
  BY <1>1
<1>4. \A c \in CampIds : /\ cs[c].nodes = camps[c].nodes
                         /\ Len(cs[c].kids) = Len(camps[c].kids)
  BY <1>1, RelistedFacts
<1>5. camps \in [CampIds -> CampRecs]
  BY <1>1 DEF IInv, TypeOK
<1>6. ASSUME NEW c \in CampIds
      PROVE  cs[c].kids = IF c = jobs[j].camp
                          THEN [i \in DOMAIN camps[c].kids |->
                                  IF camps[c].kids[i] = j THEN new
                                  ELSE camps[c].kids[i]]
                          ELSE camps[c].kids
  <2>1. camps[c] \in CampRecs
    BY <1>5
  <2>. QED  BY <2>1 DEF Relisted, CampRecs
<1>. HIDE DEF cs, new
<1>7. ASSUME NEW c \in CampIds
      PROVE  /\ DOMAIN cs[c].kids = DOMAIN camps[c].kids
             /\ \A i \in DOMAIN camps[c].kids :
                  \/ cs[c].kids[i] = camps[c].kids[i]
                  \/ c = jobs[j].camp /\ camps[c].kids[i] = j /\ cs[c].kids[i] = new
  BY <1>6
<1>8. ASSUME NEW c \in CampIds
      PROVE  SlotsAt(cs, c, js, new)
  <2>1. SlotsAt(camps, c, jobs, used)
    BY <1>1 DEF SlotsOf
  <2>2. Len(cs[c].kids) <= Len(cs[c].nodes)
    BY <1>4, <2>1 DEF SlotsAt
  <2>3. ASSUME NEW i \in DOMAIN cs[c].kids
        PROVE  /\ cs[c].kids[i] \in 1 .. new
               /\ js[cs[c].kids[i]].state # "absent" =>
                    /\ js[cs[c].kids[i]].camp = c
                    /\ js[cs[c].kids[i]].node = cs[c].nodes[i]
    <3>1. /\ i \in DOMAIN camps[c].kids /\ camps[c].kids[i] \in 1 .. used
          /\ jobs[camps[c].kids[i]].state # "absent" =>
               /\ jobs[camps[c].kids[i]].camp = c
               /\ jobs[camps[c].kids[i]].node = camps[c].nodes[i]
      BY <1>7, <2>1 DEF SlotsAt
    <3>2. CASE cs[c].kids[i] = camps[c].kids[i]
      BY <1>2, <1>4, <3>1, <3>2 DEF SameJobs
    <3>3. CASE c = jobs[j].camp /\ camps[c].kids[i] = j /\ cs[c].kids[i] = new
      BY <1>3, <1>4, <3>1, <3>3 DEF new
    <3>. QED  BY <1>7, <3>1, <3>2, <3>3
  <2>4. ASSUME NEW i \in DOMAIN cs[c].kids, NEW h \in DOMAIN cs[c].kids,
               cs[c].kids[i] = cs[c].kids[h]
        PROVE  i = h
    <3>1. i \in DOMAIN camps[c].kids /\ h \in DOMAIN camps[c].kids
          /\ camps[c].kids[i] \in 1 .. used /\ camps[c].kids[h] \in 1 .. used
      BY <1>7, <2>1 DEF SlotsAt
    <3>2. camps[c].kids[i] = camps[c].kids[h]
      BY <1>2, <1>7, <2>4, <3>1
    <3>. QED  BY <2>1, <3>1, <3>2 DEF SlotsAt
  <2>. QED  BY <2>2, <2>3, <2>4 DEF SlotsAt
<1>9. ASSUME NEW c \in CampIds, NEW k \in 1 .. used,
             \A i \in DOMAIN camps[c].kids : camps[c].kids[i] # k,
             NEW i \in DOMAIN cs[c].kids
      PROVE  cs[c].kids[i] # k
  BY <1>2, <1>7, <1>9
<1>10. SlotsOf(cs, js, new)
  BY <1>8 DEF SlotsOf
<1>. QED  BY <1>9, <1>10 DEF cs, new

LEMMA CrashInRetryCamp ==
    ASSUME CInv, NEW j \in JobIds, CrashInRetry(j)
    PROVE  CampInv'
<1>1. /\ used + 1 <= MaxJobs /\ used' = used + 1 /\ jobsTorn \in BOOLEAN
      /\ jobs[j].state # "absent"
      /\ Reload(jobs, Relisted(j, used + 1), jobsTorn)
  BY DEF CrashInRetry, HasRoom, Retryable, CInv, IInv, TypeOK
<1>2. used \in Nat /\ MaxJobs \in Nat
  BY ConstantsAssumption DEF CInv, IInv, TypeOK
<1>3. used + 1 \in JobIds /\ used' \in 0 .. MaxJobs /\ used + 1 \notin 1 .. used
  BY <1>1, <1>2 DEF JobIds
<1>4. jobs[used + 1].state = "absent" /\ SameJobs(jobs)
  BY <1>3 DEF CInv, IInv, Counted, SameJobs
<1>5. SlotsOf(Relisted(j, used + 1), jobs, used')
  BY <1>1, <1>3, <1>4, RelistedSlots
<1>. QED  BY <1>1, <1>3, <1>5, ReloadCamp

LEMMA RetryJobCamp ==
    ASSUME CInv, NEW t \in Tasks, NEW i \in JobIds, RetryJob(t, i)
    PROVE  CampInv'
<1>. DEFINE r == jobs[i]
            js == [jobs EXCEPT ![used + 1] = NewJob(r.node, r.camp, r.deadline)]
<1>1. /\ co[t].pc = "idle" /\ used + 1 <= MaxJobs /\ used' = used + 1
      /\ camps' = Relisted(i, used + 1)
      /\ IF camps' = camps THEN disk' = disk ELSE disk' = camps'
      /\ r.state # "absent" /\ Walk(t, js, reg, {used + 1})
      /\ crashes' = crashes /\ t \in Coros /\ IInv /\ TypeOK
  BY DEF RetryJob, HasRoom, Coros, CInv, IInv, SaveCampaigns, Retryable
<1>2. r.node \in Nodes /\ r.camp \in CampIds \cup {NoCamp}
      /\ r.deadline \in Deadlines
  BY <1>1 DEF IInv, Placed, TypeOK, JobRecs
<1>3. /\ used + 1 \in JobIds /\ used + 1 \notin 1 .. used /\ js \in JobsType
      /\ used \in Nat /\ MaxJobs \in Nat /\ jobs \in [JobIds -> JobRecs]
      /\ co \in [Coros -> CoRecs]
  <2>1. used \in Nat /\ MaxJobs \in Nat /\ jobs \in [JobIds -> JobRecs]
        /\ co \in [Coros -> CoRecs]
    BY <1>1, ConstantsAssumption DEF TypeOK
  <2>2. used + 1 \in JobIds /\ used + 1 \notin 1 .. used /\ js \in JobsType
    BY <1>1, <1>2, NewJobFacts
  <2>. QED  BY <2>1, <2>2
<1>4. \A j \in 1 .. used : j \in JobIds /\ j # used + 1
  BY <1>1, <1>3 DEF JobIds
<1>5. SameJobs(js) /\ js[used + 1].camp = r.camp /\ js[used + 1].node = r.node
  BY <1>3, <1>4 DEF SameJobs, NewJob
<1>. HIDE DEF js, r
<1>6. /\ SameJobs(jobs')
      /\ jobs'[used + 1].camp = r.camp /\ jobs'[used + 1].node = r.node
  BY <1>3, <1>4, <1>5, WalkKeeps, <1>1 DEF SameJobs
<1>7. /\ SlotsOf(camps', jobs', used + 1)
      /\ \A c \in CampIds, k \in 1 .. used :
           (\A h \in DOMAIN camps[c].kids : camps[c].kids[h] # k) =>
              \A h \in DOMAIN camps'[c].kids : camps'[c].kids[h] # k
  BY <1>1, <1>3, <1>6, RelistedSlots DEF r
<1>8. SlotsOf(disk', jobs', used + 1)
  <2>1. SlotsOf(disk, jobs', used + 1)
    BY <1>3, <1>6, SlotsKept DEF CInv, CampInv
  <2>. QED  BY <1>1, <1>7, <2>1
<1>9. SameBuilders
  BY <1>1, <1>3, NotBuilding, WalkBuilds
<1>10. \A c \in CampIds : /\ camps'[c].nodes = camps[c].nodes
                          /\ Len(camps'[c].kids) = Len(camps[c].kids)
  BY <1>1, <1>3, RelistedFacts
<1>11. ASSUME NEW u \in Coros, co'[u].camp # NoCamp
       PROVE  NextChild(u)'
  <2>1. co[u].camp = co'[u].camp /\ co[u].job = co'[u].job
    BY <1>9, <1>11 DEF SameBuilders
  <2>2. co[u].job \in 1 .. used /\ co[u].camp \in CampIds
    BY <1>1, <1>3, <1>11, <2>1 DEF IInv, Builders, SendsItsJob, CoRecs
  <2>3. NextChild(u)
    BY DEF CInv, CampInv
  <2>4. /\ jobs'[co[u].job].camp = jobs[co[u].job].camp
        /\ jobs'[co[u].job].node = jobs[co[u].job].node
    BY <1>6, <2>2 DEF SameJobs
  <2>5. \A h \in DOMAIN camps'[co[u].camp].kids :
            camps'[co[u].camp].kids[h] # co[u].job
    BY <1>7, <1>11, <2>1, <2>2, <2>3 DEF NextChild
  <2>. QED  BY <1>10, <1>11, <2>1, <2>2, <2>3, <2>4, <2>5 DEF NextChild
<1>12. Building' = Building
  BY <1>9 DEF Building, SameBuilders, Coros
<1>13. Finished'
  BY <1>1, <1>10, <1>12 DEF CInv, CampInv, Finished
<1>14. co'[Requeuer].camp = NoCamp
  BY <1>9 DEF CInv, CampInv, SameBuilders, Coros
<1>. QED  BY <1>1, <1>7, <1>8, <1>11, <1>13, <1>14 DEF CampInv, NextChild

-----------------------------------------------------------------------------
(* Runs of create_campaign's loop.                                         *)

\* A run of the loop by t creates k children of c and lists m of them: all, and
\* then the campaign is saved; or all but the last, whose send suspends t.
Ran(t, js, cs, c, k, m) ==
    /\ Len(cs[c].kids) + k <= Len(cs[c].nodes)
    /\ used + k <= MaxJobs /\ used' = used + k
    /\ jobs' = Settled(Born(js, cs, c, k), used + 1 .. used + m)
    /\ camps' = Grown(cs, c, m)
    /\ \/ /\ m = k /\ Len(cs[c].kids) + k = Len(cs[c].nodes)
          /\ disk' = camps'
          /\ co' = [co EXCEPT ![t] = Idle]
       \/ /\ m + 1 = k
          /\ disk' = disk
          /\ co' = [co EXCEPT ![t] =
                      Sending(used + k, Born(js, cs, c, k)[used + k].node, {}, c)]

LEMMA RunShape ==
    ASSUME used \in Nat, NEW t, NEW js, NEW rg, NEW cs \in CampsType,
           NEW c \in CampIds, Len(cs[c].kids) <= Len(cs[c].nodes),
           CampaignRun(t, js, rg, cs, c)
    PROVE  \E k, m \in Nat : Ran(t, js, cs, c, k, m)
<1>1. Len(cs[c].kids) \in Nat /\ Len(cs[c].nodes) \in Nat
  <2>1. cs[c].kids \in Seq(JobIds) /\ cs[c].nodes \in Seq(Nodes)
    BY DEF CampsType, CampRecs
  <2>. QED  BY <2>1, LenProperties
<1>2. CASE CampaignEnds(t, js, cs, c)
  <2>. DEFINE k == Len(cs[c].nodes) - Len(cs[c].kids)
  <2>1. k \in Nat /\ Len(cs[c].kids) + k = Len(cs[c].nodes)
    BY <1>1
  <2>2. /\ used + k <= MaxJobs /\ used' = used + k
        /\ jobs' = Settled(Born(js, cs, c, k), used + 1 .. used + k)
        /\ camps' = Grown(cs, c, k) /\ disk' = camps'
        /\ co' = [co EXCEPT ![t] = Idle]
    BY <1>2 DEF CampaignEnds, SaveCampaigns
  <2>. HIDE DEF k
  <2>3. Len(cs[c].kids) + k <= Len(cs[c].nodes)
    BY <1>1, <2>1
  <2>4. Ran(t, js, cs, c, k, k)
    BY <2>1, <2>2, <2>3 DEF Ran
  <2>. QED  BY <2>1, <2>4
<1>3. ASSUME NEW k \in 1 .. Len(cs[c].nodes) - Len(cs[c].kids),
             CampaignSends(t, js, cs, c, k)
      PROVE  \E h, m \in Nat : Ran(t, js, cs, c, h, m)
  <2>. DEFINE m == k - 1
  <2>1. /\ k \in Nat /\ m \in Nat /\ m + 1 = k /\ used + k - 1 = used + m
        /\ Len(cs[c].kids) + k <= Len(cs[c].nodes)
    BY <1>1
  <2>2. /\ used + k <= MaxJobs /\ used' = used + k
        /\ jobs' = Settled(Born(js, cs, c, k), used + 1 .. used + m)
        /\ camps' = Grown(cs, c, m) /\ disk' = disk
        /\ co' = [co EXCEPT ![t] =
                    Sending(used + k, Born(js, cs, c, k)[used + k].node, {}, c)]
    BY <1>3, <2>1 DEF CampaignSends
  <2>. HIDE DEF m
  <2>3. Ran(t, js, cs, c, k, m)
    BY <2>1, <2>2 DEF Ran
  <2>. QED  BY <2>1, <2>3
<1>. QED  BY <1>2, <1>3 DEF CampaignRun

\* The new children are jobs of c for its next nodes; the others stay.
NewChildren(js, cs, c, k) ==
    /\ \A j \in 1 .. used :
        /\ jobs'[j].camp = js[j].camp /\ jobs'[j].node = js[j].node
        /\ jobs'[j].state = "absent" <=> js[j].state = "absent"
    /\ \A i \in 1 .. k :
        /\ jobs'[used + i].camp = c
        /\ jobs'[used + i].node = cs[c].nodes[Len(cs[c].kids) + i]

LEMMA RunJobs ==
    ASSUME CInv, NEW t, NEW js \in JobsType, NEW cs \in CampsType,
           NEW c \in CampIds, NEW k \in Nat, NEW m \in Nat,
           Ran(t, js, cs, c, k, m)
    PROVE  NewChildren(js, cs, c, k)
<1>. DEFINE born == Born(js, cs, c, k)
            S == used + 1 .. used + m
<1>0. /\ Len(cs[c].kids) + k <= Len(cs[c].nodes) /\ used + k <= MaxJobs /\ m <= k
      /\ jobs' = Settled(Born(js, cs, c, k), used + 1 .. used + m)
  BY DEF Ran
<1>1. used \in Nat /\ MaxJobs \in Nat /\ TypeOK
  BY ConstantsAssumption DEF CInv, IInv, TypeOK
<1>2. born \in JobsType
  BY <1>0, <1>1, BornFacts
<1>3. \A j \in JobIds : born[j] =
        IF j \in used + 1 .. used + k
        THEN NewJob(cs[c].nodes[Len(cs[c].kids) + (j - used)], c, cs[c].deadline)
        ELSE js[j]
  BY DEF Born
<1>4. S \in SUBSET JobIds
  BY <1>0, <1>1 DEF JobIds
<1>. HIDE DEF born, S
<1>5. \A j \in JobIds :
        /\ jobs'[j].node = born[j].node /\ jobs'[j].camp = born[j].camp
        /\ jobs'[j].state = "absent" <=> born[j].state = "absent"
  <2>1. jobs' = Settled(born, S)
    BY <1>0 DEF born, S
  <2>. QED  BY <1>2, <1>4, <2>1, SettledFacts
<1>6. ASSUME NEW j \in 1 .. used
      PROVE  /\ jobs'[j].camp = js[j].camp /\ jobs'[j].node = js[j].node
             /\ jobs'[j].state = "absent" <=> js[j].state = "absent"
  <2>1. j \in JobIds /\ j \notin used + 1 .. used + k
    BY <1>0, <1>1 DEF JobIds
  <2>. QED  BY <1>3, <1>5, <2>1
<1>7. ASSUME NEW i \in 1 .. k
      PROVE  /\ jobs'[used + i].camp = c
             /\ jobs'[used + i].node = cs[c].nodes[Len(cs[c].kids) + i]
  <2>1. /\ used + i \in JobIds /\ used + i \in used + 1 .. used + k
        /\ (used + i) - used = i
    BY <1>0, <1>1 DEF JobIds
  <2>2. born[used + i] =
          NewJob(cs[c].nodes[Len(cs[c].kids) + i], c, cs[c].deadline)
    BY <1>3, <2>1
  <2>. QED  BY <1>5, <2>1, <2>2 DEF NewJob
<1>. QED  BY <1>6, <1>7 DEF NewChildren

\* The list of c with the ids of m new children behind it.
LEMMA GrownKids ==
    ASSUME used \in Nat, NEW cs \in CampsType, NEW c \in CampIds, NEW m \in Nat,
           used + m <= MaxJobs
    PROVE  /\ Len(cs[c].kids) \in Nat
           /\ DOMAIN cs[c].kids = 1 .. Len(cs[c].kids)
           /\ DOMAIN Grown(cs, c, m)[c].kids = 1 .. Len(cs[c].kids) + m
           /\ \A i \in 1 .. Len(cs[c].kids) :
                Grown(cs, c, m)[c].kids[i] = cs[c].kids[i]
           /\ \A i \in Len(cs[c].kids) + 1 .. Len(cs[c].kids) + m :
                Grown(cs, c, m)[c].kids[i] = used + (i - Len(cs[c].kids))
<1>. DEFINE more == [i \in 1 .. m |-> used + i]
            kids == cs[c].kids
<1>1. kids \in Seq(JobIds)
  BY DEF CampsType, CampRecs
<1>2. more \in Seq(JobIds) /\ Len(more) = m /\ \A i \in 1 .. m : more[i] = used + i
  <2>1. \A i \in 1 .. m : used + i \in JobIds
    BY ConstantsAssumption DEF JobIds
  <2>. QED  BY <2>1
<1>3. Grown(cs, c, m)[c].kids = kids \o more
  BY DEF Grown, CampsType, CampRecs
<1>. HIDE DEF more, kids
<1>4. Len(kids) \in Nat /\ DOMAIN kids = 1 .. Len(kids)
  BY <1>1, LenProperties
<1>5. /\ kids \o more \in Seq(JobIds) /\ Len(kids \o more) = Len(kids) + m
      /\ \A i \in 1 .. Len(kids) + m :
            (kids \o more)[i] = IF i <= Len(kids) THEN kids[i]
                                                  ELSE more[i - Len(kids)]
  BY <1>1, <1>2, ConcatProperties
<1>6. DOMAIN (kids \o more) = 1 .. Len(kids) + m
  BY <1>5, LenProperties
<1>7. ASSUME NEW i \in 1 .. Len(kids)
      PROVE  (kids \o more)[i] = kids[i]
  BY <1>4, <1>5
<1>8. ASSUME NEW i \in Len(kids) + 1 .. Len(kids) + m
      PROVE  (kids \o more)[i] = used + (i - Len(kids))
  <2>1. i \in 1 .. Len(kids) + m /\ ~ (i <= Len(kids)) /\ i - Len(kids) \in 1 .. m
    BY <1>4
  <2>. QED  BY <1>2, <1>5, <2>1
<1>. QED  BY <1>3, <1>4, <1>6, <1>7, <1>8 DEF kids

\* What a run of the loop for c is given: t alone builds c, if anybody does,
\* and the campaigns cs differ from those in memory in c at most.
RunInput(t, js, cs, c) ==
    /\ js \in JobsType /\ SameJobs(js)
    /\ cs \in CampsType /\ SlotsAt(cs, c, js, used)
    /\ \A d \in CampIds \ {c} : cs[d] = camps[d]
    /\ \A u \in Coros \ {t} : co[u].camp # c
    /\ co[t].camp \in {c, NoCamp}
    /\ crashes' = crashes

LEMMA RunSlots ==
    ASSUME CInv, NEW t \in Tasks, NEW js, NEW cs, NEW c \in CampIds,
           RunInput(t, js, cs, c), NEW k \in Nat, NEW m \in Nat,
           Ran(t, js, cs, c, k, m)
    PROVE  /\ SlotsOf(camps, jobs, used)'
           /\ SlotsOf(disk, jobs, used)'
           /\ \A i \in DOMAIN camps'[c].kids : camps'[c].kids[i] \in 1 .. used + m
           /\ SameJobs(jobs')
<1>. DEFINE L == Len(cs[c].kids)
            N == Len(cs[c].nodes)
            kids == camps'[c].kids
<1>1. /\ js \in JobsType /\ cs \in CampsType /\ TypeOK
      /\ camps' = Grown(cs, c, m)
      /\ jobs' = Settled(Born(js, cs, c, k), used + 1 .. used + m)
  BY DEF RunInput, Ran, CInv, IInv
<1>2. L \in Nat /\ N \in Nat
  <2>1. cs[c].kids \in Seq(JobIds) /\ cs[c].nodes \in Seq(Nodes)
    BY <1>1 DEF CampsType, CampRecs
  <2>. QED  BY <2>1, LenProperties
<1>3. /\ used \in Nat /\ MaxJobs \in Nat /\ used' = used + k
      /\ L + k <= N /\ used + k <= MaxJobs /\ (m = k \/ m + 1 = k)
  BY ConstantsAssumption DEF Ran, CInv, IInv, TypeOK
<1>4. /\ m <= k /\ used + m <= MaxJobs /\ L + m <= N
      /\ used' \in Nat /\ used <= used'
  <2>. HIDE DEF L, N
  <2>. QED  BY <1>2, <1>3
<1>5. /\ \A j \in 1 .. used :
           /\ jobs'[j].camp = js[j].camp /\ jobs'[j].node = js[j].node
           /\ jobs'[j].state = "absent" <=> js[j].state = "absent"
      /\ \A i \in 1 .. k :
           /\ jobs'[used + i].camp = c
           /\ jobs'[used + i].node = cs[c].nodes[L + i]
  <2>1. js \in JobsType /\ cs \in CampsType
    BY <1>1
  <2>2. NewChildren(js, cs, c, k)
    BY <2>1, RunJobs
  <2>. QED  BY <2>2 DEF NewChildren
<1>6. SameJobs(jobs')
  BY <1>5 DEF RunInput, SameJobs
<1>7. SlotsOf(disk, jobs', used') /\ SlotsOf(camps, jobs', used')
  BY <1>3, <1>4, <1>6, SlotsKept DEF CInv, CampInv
<1>8. /\ camps'[c].nodes = cs[c].nodes
      /\ Len(kids) = L + m
      /\ \A d \in CampIds \ {c} : camps'[d] = cs[d]
  BY <1>1, <1>4, GrownFacts
<1>9. /\ DOMAIN cs[c].kids = 1 .. L
      /\ DOMAIN kids = 1 .. L + m
      /\ \A i \in 1 .. L : kids[i] = cs[c].kids[i]
      /\ \A i \in L + 1 .. L + m : kids[i] = used + (i - L)
  <2>1. /\ used \in Nat /\ cs \in CampsType /\ used + m <= MaxJobs
    BY <1>1, <1>3, <1>4
  <2>2. /\ DOMAIN cs[c].kids = 1 .. Len(cs[c].kids)
        /\ DOMAIN Grown(cs, c, m)[c].kids = 1 .. Len(cs[c].kids) + m
        /\ \A i \in 1 .. Len(cs[c].kids) :
             Grown(cs, c, m)[c].kids[i] = cs[c].kids[i]
        /\ \A i \in Len(cs[c].kids) + 1 .. Len(cs[c].kids) + m :
             Grown(cs, c, m)[c].kids[i] = used + (i - Len(cs[c].kids))
    BY <2>1, GrownKids, Zenon
  <2>3. kids = Grown(cs, c, m)[c].kids
    BY <1>1
  <2>. HIDE DEF kids
  <2>. QED  BY <2>2, <2>3 DEF L
<1>10. /\ \A i, h \in 1 .. L : cs[c].kids[i] = cs[c].kids[h] => i = h
       /\ \A i \in 1 .. L :
            /\ cs[c].kids[i] \in 1 .. used
            /\ js[cs[c].kids[i]].state # "absent" =>
                 /\ js[cs[c].kids[i]].camp = c
                 /\ js[cs[c].kids[i]].node = cs[c].nodes[i]
  BY <1>9 DEF RunInput, SlotsAt
<1>. HIDE DEF L, N, kids
<1>11. ASSUME NEW i \in 1 .. L
       PROVE  /\ kids[i] \in 1 .. used /\ kids[i] \in 1 .. used'
              /\ jobs'[kids[i]].state # "absent" =>
                   /\ jobs'[kids[i]].camp = c
                   /\ jobs'[kids[i]].node = cs[c].nodes[i]
  <2>1. cs[c].kids[i] \in 1 .. used /\ kids[i] = cs[c].kids[i]
    BY <1>9, <1>10
  <2>2. cs[c].kids[i] \in 1 .. used'
    BY <1>3, <1>4, <2>1
  <2>. QED  BY <1>5, <1>10, <2>1, <2>2
<1>12. ASSUME NEW i \in L + 1 .. L + m
       PROVE  /\ kids[i] = used + (i - L)
              /\ kids[i] \notin 1 .. used /\ kids[i] \in 1 .. used + m
              /\ kids[i] \in 1 .. used'
              /\ jobs'[kids[i]].camp = c
              /\ jobs'[kids[i]].node = cs[c].nodes[i]
  <2>1. kids[i] = used + (i - L)
    BY <1>9
  <2>2. i - L \in 1 .. m /\ i - L \in 1 .. k /\ L + (i - L) = i
    BY <1>2, <1>4
  <2>3. /\ used + (i - L) \notin 1 .. used
        /\ used + (i - L) \in 1 .. used + m /\ used + (i - L) \in 1 .. used'
    BY <1>3, <2>2
  <2>4. /\ jobs'[used + (i - L)].camp = c
        /\ jobs'[used + (i - L)].node = cs[c].nodes[L + (i - L)]
    BY <1>5, <2>2
  <2>. QED  BY <2>1, <2>2, <2>3, <2>4
<1>13. \A i \in 1 .. L + m : i \in 1 .. L \/ i \in L + 1 .. L + m
  BY <1>2
<1>14. ASSUME NEW i \in 1 .. L + m, NEW h \in 1 .. L + m, kids[i] = kids[h]
       PROVE  i = h
  <2>1. CASE i \in 1 .. L /\ h \in 1 .. L
    <3>1. cs[c].kids[i] = cs[c].kids[h]
      BY <1>9, <1>14, <2>1
    <3>. QED  BY <1>10, <2>1, <3>1
  <2>2. CASE i \in L + 1 .. L + m /\ h \in L + 1 .. L + m
    <3>1. used + (i - L) = used + (h - L)
      BY <1>12, <1>14, <2>2
    <3>. QED  BY <1>2, <1>3, <3>1
  <2>3. CASE i \in 1 .. L /\ h \in L + 1 .. L + m
    BY <1>11, <1>12, <1>14, <2>3
  <2>4. CASE i \in L + 1 .. L + m /\ h \in 1 .. L
    BY <1>11, <1>12, <1>14, <2>4
  <2>. QED  BY <1>13, <2>1, <2>2, <2>3, <2>4
<1>15. SlotsAt(camps', c, jobs', used')
  <2>1. Len(kids) <= Len(camps'[c].nodes)
    BY <1>4, <1>8 DEF N
  <2>2. \A i \in 1 .. L + m :
          /\ kids[i] \in 1 .. used'
          /\ jobs'[kids[i]].state # "absent" =>
               jobs'[kids[i]].camp = c /\ jobs'[kids[i]].node = cs[c].nodes[i]
    BY <1>11, <1>12, <1>13
  <2>. QED  BY <1>8, <1>9, <1>14, <2>1, <2>2 DEF SlotsAt, kids
<1>16. ASSUME NEW d \in CampIds \ {c}
       PROVE  SlotsAt(camps', d, jobs', used')
  <2>1. SlotsAt(camps, d, jobs', used') /\ camps'[d] = camps[d]
    BY <1>7, <1>8 DEF SlotsOf, RunInput
  <2>. QED  BY <2>1 DEF SlotsAt
<1>17. SlotsOf(camps', jobs', used')
  BY <1>15, <1>16 DEF SlotsOf
<1>18. \A i \in DOMAIN kids : kids[i] \in 1 .. used + m
  <2>1. 1 .. used \subseteq 1 .. used + m
    BY <1>3
  <2>. QED  BY <1>9, <1>11, <1>12, <1>13, <2>1
<1>19. SlotsOf(disk', jobs', used')
  BY <1>7, <1>17 DEF Ran
<1>. QED  BY <1>6, <1>17, <1>18, <1>19 DEF kids

LEMMA RunCamp ==
    ASSUME CInv, NEW t \in Tasks, NEW js, NEW cs, NEW c \in CampIds,
           RunInput(t, js, cs, c), NEW k \in Nat, NEW m \in Nat,
           Ran(t, js, cs, c, k, m)
    PROVE  CampInv'
<1>1. /\ SlotsOf(camps, jobs, used)' /\ SlotsOf(disk, jobs, used)'
      /\ \A i \in DOMAIN camps'[c].kids : camps'[c].kids[i] \in 1 .. used + m
      /\ SameJobs(jobs')
  BY RunSlots
<1>2. /\ used \in Nat /\ co \in [Coros -> CoRecs] /\ TypeOK /\ IInv
      /\ js \in JobsType /\ cs \in CampsType /\ t \in Coros /\ MaxJobs \in Nat
      /\ c # NoCamp /\ Requeuer \in Coros /\ Requeuer # t
  BY ConstantsAssumption DEF CInv, IInv, TypeOK, RunInput, Coros
<1>3. /\ camps'[c].nodes = cs[c].nodes
      /\ Len(camps'[c].kids) = Len(cs[c].kids) + m
      /\ \A d \in CampIds \ {c} : camps'[d] = camps[d]
  <2>1. used + m <= MaxJobs /\ camps' = Grown(cs, c, m)
    BY <1>2 DEF Ran
  <2>2. \A d \in CampIds \ {c} : camps'[d] = cs[d]
    BY <1>2, <2>1, GrownFacts
  <2>. QED  BY <1>2, <2>1, <2>2, GrownFacts DEF RunInput
<1>4. NewChildren(js, cs, c, k)
  BY <1>2, RunJobs
<1>5. \/ /\ m = k /\ Len(cs[c].kids) + k = Len(cs[c].nodes)
         /\ disk' = camps' /\ co'[t].camp = NoCamp
         /\ \A u \in Coros \ {t} : co'[u] = co[u]
      \/ /\ m + 1 = k /\ disk' = disk
         /\ co'[t].camp = c /\ co'[t].job = used + k
         /\ \A u \in Coros \ {t} : co'[u] = co[u]
  BY <1>2 DEF Ran, Idle, Sending
<1>6. \A u \in Coros \ {t} : co'[u] = co[u] /\ co[u].camp # c
  BY <1>5 DEF RunInput
<1>7. ASSUME NEW u \in Coros, co'[u].camp # NoCamp
      PROVE  NextChild(u)'
  <2>1. CASE u = t
    <3>1. /\ m + 1 = k /\ co'[t].camp = c /\ co'[t].job = used + k
      BY <1>5, <1>7, <2>1
    <3>2. Len(cs[c].kids) \in Nat
      <4>1. cs[c].kids \in Seq(JobIds)
        BY <1>2 DEF CampsType, CampRecs
      <4>. QED  BY <4>1, LenProperties
    <3>3. k \in 1 .. k /\ Len(cs[c].kids) + k = Len(camps'[c].kids) + 1
      BY <1>3, <3>1, <3>2
    <3>4. /\ jobs'[used + k].camp = c
          /\ jobs'[used + k].node = camps'[c].nodes[Len(camps'[c].kids) + 1]
      BY <1>3, <1>4, <3>3 DEF NewChildren
    <3>5. used + k \notin 1 .. used + m
      BY <1>2, <3>1
    <3>. QED  BY <1>1, <2>1, <3>1, <3>4, <3>5 DEF NextChild
  <2>2. CASE u # t
    <3>1. co'[u] = co[u] /\ co[u].camp # c /\ co[u].camp # NoCamp
      BY <1>6, <1>7, <2>2
    <3>2. co[u].camp \in CampIds /\ co[u].job \in 1 .. used
      BY <1>2, <3>1 DEF IInv, Builders, SendsItsJob, CoRecs
    <3>3. camps'[co[u].camp] = camps[co[u].camp]
      BY <1>3, <3>1, <3>2
    <3>4. /\ jobs'[co[u].job].camp = jobs[co[u].job].camp
          /\ jobs'[co[u].job].node = jobs[co[u].job].node
      BY <1>1, <3>2 DEF SameJobs
    <3>5. NextChild(u)
      BY DEF CInv, CampInv
    <3>. QED  BY <3>1, <3>3, <3>4, <3>5 DEF NextChild
  <2>. QED  BY <2>1, <2>2
<1>8. ASSUME crashes' = 0, NEW d \in CampIds, d \notin Building'
      PROVE  Len(camps'[d].kids) = Len(camps'[d].nodes) /\ disk'[d] = camps'[d]
  <2>1. CASE d = c
    <3>1. co'[t].camp # c
      BY <1>8, <2>1 DEF Building
    <3>2. /\ m = k /\ Len(cs[c].kids) + k = Len(cs[c].nodes)
          /\ disk' = camps'
      BY <1>5, <3>1
    <3>. QED  BY <1>3, <2>1, <3>2
  <2>2. CASE d # c
    <3>1. d \notin Building
      <4>1. ASSUME NEW u \in Tasks, co[u].camp = d
            PROVE  FALSE
        <5>1. u # t
          BY <1>2, <2>2, <4>1, ConstantsAssumption DEF RunInput
        <5>2. co'[u].camp = d
          BY <1>6, <4>1, <5>1 DEF Coros
        <5>. QED  BY <1>8, <5>2 DEF Building
      <4>. QED  BY <4>1 DEF Building
    <3>2. Len(camps[d].kids) = Len(camps[d].nodes) /\ disk[d] = camps[d]
      BY <1>8, <3>1 DEF CInv, CampInv, Finished, RunInput
    <3>3. camps'[d] = camps[d]
      BY <1>3, <2>2
    <3>. QED  BY <1>5, <3>2, <3>3
  <2>. QED  BY <2>1, <2>2
<1>9. Finished'
  BY <1>8 DEF Finished
<1>10. co'[Requeuer].camp = NoCamp
  BY <1>2, <1>6 DEF CInv, CampInv
<1>11. \A u \in Coros : NextChild(u)'
  BY <1>7 DEF NextChild
<1>. QED  BY <1>1, <1>9, <1>10, <1>11 DEF CampInv

\* create_campaign's first run starts from an empty list.
LEMMA CreateRuns ==
    ASSUME CInv, NEW t \in Tasks, NEW c \in CampIds, NEW ns \in Scopes,
           NEW d \in Deadlines, CreateCampaign(t, c, ns, d)
    PROVE  \E cs :
              /\ RunInput(t, jobs, cs, c)
              /\ cs[c].made /\ cs[c].kids = <<>>
              /\ \E k, m \in Nat : Ran(t, jobs, cs, c, k, m)
<1>. DEFINE cs == [camps EXCEPT ![c] = [made |-> TRUE, nodes |-> ns,
                                        kids |-> <<>>, deadline |-> d]]
<1>1. /\ co[t].pc = "idle" /\ ~ camps[c].made
      /\ CampaignRun(t, jobs, reg, cs, c)
      /\ crashes' = crashes /\ used \in Nat
      /\ t \in Coros /\ IInv /\ camps \in CampsType /\ jobs \in JobsType
  BY DEF CreateCampaign, Coros, CInv, IInv, TypeOK, CampsType, JobsType
<1>2. ns \in Seq(Nodes) /\ <<>> \in Seq(JobIds)
      /\ Len(<<>>) = 0 /\ Len(ns) \in Nat /\ DOMAIN <<>> = {}
  BY ScopesAreSequences, LenProperties, EmptySeq
<1>3. /\ cs \in CampsType /\ cs[c].kids = <<>> /\ cs[c].made
      /\ Len(cs[c].kids) <= Len(cs[c].nodes)
      /\ \A e \in CampIds \ {c} : cs[e] = camps[e]
  BY <1>1, <1>2 DEF CampsType, CampRecs
<1>. HIDE DEF cs
<1>4. \A u \in Coros : co[u].camp # c
  BY <1>1, ConstantsAssumption DEF IInv, Builders
<1>5. co[t].camp = NoCamp
  BY <1>1, NotBuilding
<1>6. SlotsAt(cs, c, jobs, used)
  BY <1>2, <1>3 DEF SlotsAt
<1>7. SameJobs(jobs)
  BY DEF SameJobs
<1>8. RunInput(t, jobs, cs, c)
  BY <1>1, <1>3, <1>4, <1>5, <1>6, <1>7 DEF RunInput
<1>9. PICK k \in Nat, m \in Nat : Ran(t, jobs, cs, c, k, m)
  BY <1>1, <1>3, RunShape
<1>. QED  BY <1>3, <1>8, <1>9

LEMMA CreateCampaignCamp ==
    ASSUME CInv, NEW t \in Tasks, NEW c \in CampIds, NEW ns \in Scopes,
           NEW d \in Deadlines, CreateCampaign(t, c, ns, d)
    PROVE  CampInv'
BY CreateRuns, RunCamp

\* A later run starts from the list with the child that was sent behind it.
LEMMA ResumeRuns ==
    ASSUME CInv, NEW t \in Coros, NEW ok \in BOOLEAN, ResumeCampaign(t, ok)
    PROVE  /\ t \in Tasks /\ co[t].camp \in CampIds
           /\ \E js, cs :
                /\ RunInput(t, js, cs, co[t].camp)
                /\ cs[co[t].camp].made
                /\ cs[co[t].camp].kids = Append(camps[co[t].camp].kids, co[t].job)
                /\ \E k, m \in Nat : Ran(t, js, cs, co[t].camp, k, m)
<1>. DEFINE js == Delivered(co[t].job, ok)
            c == co[t].camp
            i == co[t].job
            old == camps[c].kids
            more == Append(old, i)
            cs == [camps EXCEPT ![c].kids = more]
<1>1. /\ SendEnds(t, ok) /\ CampaignRun(t, js, reg', cs, c)
      /\ crashes' = crashes /\ c # NoCamp /\ used \in Nat /\ MaxJobs \in Nat
      /\ co \in [Coros -> CoRecs] /\ IInv /\ camps \in CampsType
      /\ used <= MaxJobs
  BY ConstantsAssumption DEF ResumeCampaign, CInv, IInv, TypeOK, CampsType
<1>2. /\ c \in CampIds /\ i \in 1 .. used /\ jobs[i].state # "absent"
      /\ Len(old) < Len(camps[c].nodes)
      /\ \A u \in Coros : co[u].camp = c => u = t
  BY <1>1 DEF IInv, Builders, SendsItsJob, CoRecs
<1>3. t \in Tasks
  BY <1>1 DEF CInv, CampInv, Coros
<1>4. i \in JobIds
  BY <1>1, <1>2 DEF JobIds
<1>5. js \in JobsType /\ SameJobs(js)
  BY <1>1, DeliveredSame
<1>6. /\ jobs[i].camp = c /\ jobs[i].node = camps[c].nodes[Len(old) + 1]
      /\ \A h \in DOMAIN old : old[h] # i
  BY <1>1 DEF CInv, CampInv, NextChild
<1>7. SlotsAt(camps, c, jobs, used)
  BY <1>2 DEF CInv, CampInv, SlotsOf
<1>8. old \in Seq(JobIds) /\ camps[c].nodes \in Seq(Nodes)
  BY <1>1, <1>2 DEF CampsType, CampRecs
<1>. HIDE DEF js, c, i, old
<1>9. /\ Len(old) \in Nat /\ DOMAIN old = 1 .. Len(old)
      /\ Len(camps[c].nodes) \in Nat
  BY <1>8, LenProperties
<1>10. /\ more \in Seq(JobIds) /\ Len(more) = Len(old) + 1
       /\ \A h \in 1 .. Len(old) : more[h] = old[h]
       /\ more[Len(old) + 1] = i
  BY <1>4, <1>8, AppendProperties
<1>11. DOMAIN more = 1 .. Len(old) + 1
  BY <1>10, LenProperties
<1>. HIDE DEF more
<1>12. /\ cs \in CampsType
       /\ cs[c].kids = more /\ cs[c].nodes = camps[c].nodes
       /\ cs[c].made = camps[c].made
       /\ \A e \in CampIds \ {c} : cs[e] = camps[e]
  BY <1>1, <1>2, <1>10 DEF CampsType, CampRecs
<1>. HIDE DEF cs
<1>13. /\ Len(more) <= Len(camps[c].nodes)
       /\ \A h \in 1 .. Len(old) + 1 : h \in 1 .. Len(old) \/ h = Len(old) + 1
  BY <1>2, <1>9, <1>10 DEF old
<1>14. \A h \in 1 .. Len(old) :
          /\ old[h] \in 1 .. used
          /\ jobs[old[h]].state # "absent" =>
               jobs[old[h]].camp = c /\ jobs[old[h]].node = camps[c].nodes[h]
  BY <1>7, <1>9 DEF SlotsAt, old
<1>15. ASSUME NEW h \in 1 .. Len(old) + 1
       PROVE  /\ more[h] \in 1 .. used
              /\ js[more[h]].state # "absent" =>
                   js[more[h]].camp = c /\ js[more[h]].node = camps[c].nodes[h]
  <2>1. CASE h \in 1 .. Len(old)
    BY <1>5, <1>10, <1>14, <2>1 DEF SameJobs
  <2>2. CASE h = Len(old) + 1
    BY <1>2, <1>5, <1>6, <1>10, <2>2 DEF SameJobs
  <2>. QED  BY <1>13, <2>1, <2>2
<1>16. ASSUME NEW h \in 1 .. Len(old) + 1, NEW g \in 1 .. Len(old) + 1,
              more[h] = more[g]
       PROVE  h = g
  <2>1. CASE h \in 1 .. Len(old) /\ g \in 1 .. Len(old)
    <3>1. old[h] = old[g]
      BY <1>10, <1>16, <2>1
    <3>. QED  BY <1>7, <1>9, <2>1, <3>1 DEF SlotsAt, old
  <2>2. CASE h = Len(old) + 1 \/ g = Len(old) + 1
    BY <1>6, <1>9, <1>10, <1>13, <1>16, <2>2
  <2>. QED  BY <1>13, <2>1, <2>2
<1>17. SlotsAt(cs, c, js, used)
  BY <1>11, <1>12, <1>13, <1>15, <1>16 DEF SlotsAt
<1>18. \A u \in Coros \ {t} : co[u].camp # c
  BY <1>2
<1>19. RunInput(t, js, cs, c)
  BY <1>1, <1>5, <1>12, <1>17, <1>18 DEF RunInput, c
<1>20. Len(cs[c].kids) <= Len(cs[c].nodes)
  BY <1>12, <1>13
<1>21. PICK k \in Nat, m \in Nat : Ran(t, js, cs, c, k, m)
  <2>1. CampaignRun(t, js, reg', cs, c)
    BY <1>1 DEF js, cs, c, more, old, i
  <2>. QED  BY <1>1, <1>2, <1>12, <1>20, <2>1, RunShape
<1>22. camps[c].made
  BY <1>1 DEF IInv, Builders, c
<1>. QED  BY <1>2, <1>3, <1>12, <1>19, <1>21, <1>22 DEF c, more, old, i

LEMMA ResumeCampaignCamp ==
    ASSUME CInv, NEW t \in Coros, NEW ok \in BOOLEAN, ResumeCampaign(t, ok)
    PROVE  CampInv'
BY ResumeRuns, RunCamp

-----------------------------------------------------------------------------
(* The theorems.                                                           *)

LEMMA InitCamp == Init => CInv
<1>. SUFFICES ASSUME Init PROVE CampInv
  BY InitInvariant DEF CInv
<1>1. /\ \A c \in CampIds : camps[c] = NoCampaign /\ disk[c] = NoCampaign
      /\ \A u \in Coros : co[u].camp = NoCamp
  BY DEF Init, Idle
<1>2. /\ NoCampaign.kids = <<>> /\ NoCampaign.nodes = <<>>
      /\ Len(<<>>) <= Len(<<>>) /\ DOMAIN <<>> = {}
  BY DEF NoCampaign
<1>. HIDE DEF NoCampaign
<1>3. SlotsOf(camps, jobs, used) /\ SlotsOf(disk, jobs, used)
  BY <1>1, <1>2 DEF SlotsOf, SlotsAt
<1>4. Finished /\ \A u \in Coros : NextChild(u)
  BY <1>1, <1>2 DEF Finished, NextChild
<1>. QED  BY <1>1, <1>3, <1>4 DEF CampInv, Coros

LEMMA NextCamp == CInv /\ [Next]_vars => CInv'
<1>. SUFFICES ASSUME CInv, [Next]_vars PROVE CampInv'
  BY NextInvariant DEF CInv
<1>1. ASSUME NEW t \in Tasks, NEW n \in SoloNodes, NEW d \in Deadlines,
             CreateJob(t, n, d)
      PROVE  CampInv'
  BY <1>1, CreateJobCamp, ConstantsAssumption
<1>2. ASSUME NEW t \in Tasks, NEW c \in CampIds, NEW ns \in Scopes,
             NEW d \in Deadlines, CreateCampaign(t, c, ns, d)
      PROVE  CampInv'
  BY <1>2, CreateCampaignCamp
<1>3. ASSUME NEW t \in Tasks, NEW j \in JobIds, RetryJob(t, j)
      PROVE  CampInv'
  BY <1>3, RetryJobCamp
<1>4. ASSUME NEW t \in Coros, Resume(t)
      PROVE  CampInv'
  BY <1>4, ResumeLoopCamp, ResumeCampaignCamp DEF Resume
<1>5. ASSUME NEW j \in JobIds, HandleAck(j) \/ HandleProgress(j)
      PROVE  CampInv'
  <2>1. "completed" \in Results
    BY DEF Results
  <2>. QED  BY <1>5, <2>1, ReportCamp
<1>6. ASSUME NEW j \in JobIds, NEW r \in Results, HandleResult(j, r)
      PROVE  CampInv'
  BY <1>6, ReportCamp
<1>7. ASSUME NEW a \in BOOLEAN, NEW b \in BOOLEAN, Crash(a, b)
      PROVE  CampInv'
  BY <1>7, CrashCamp
<1>8. ASSUME NEW j \in JobIds, CrashInRetry(j)
      PROVE  CampInv'
  BY <1>8, CrashInRetryCamp
<1>9. CASE UNCHANGED vars
  <2>1. UNCHANGED <<jobs, used, camps, disk, co, crashes>>
    BY <1>9 DEF vars
  <2>2. SameJobs(jobs')
    BY <2>1 DEF SameJobs
  <2>. QED  BY <2>1, <2>2, StatesQuiet
<1>. QED
  BY NewInRange, <1>1, <1>2, <1>3, <1>4, <1>5, <1>6, <1>7, <1>8, <1>9,
     CloseCamp, LoopCamp, SocketCamp DEF Next

LEMMA CampaignInvariant == Spec => []CInv
BY InitCamp, NextCamp, PTL DEF Spec

\* Of create_campaign, retry_job and _load: the i-th child a campaign lists, in
\* memory and on disk, is a job of it for its i-th node or a job that is gone,
\* and a created campaign lists one for every node until a restart.
THEOREM SlotsStayInStep == Spec => []ChildSlots
<1>1. CInv => ChildSlots
  <2>. SUFFICES ASSUME CInv PROVE ChildSlots
    OBVIOUS
  <2>1. ASSUME NEW c \in CampIds
        PROVE  Slots(camps, c) /\ Slots(disk, c)
    BY DEF CInv, CampInv, SlotsOf, SlotsAt, Slots, Exists
  <2>. QED  BY <2>1 DEF CInv, CampInv, Finished, ChildSlots
<1>. QED  BY <1>1, CampaignInvariant, PTL

\* Of _save_campaigns, called at the end of create_campaign and in retry_job:
\* the file holds every finished campaign as it is in memory.
THEOREM CampaignsStayOnDisk == Spec => []CampaignsDurable
<1>1. CInv => CampaignsDurable
  BY DEF CInv, CampInv, Finished, CampaignsDurable
<1>. QED  BY <1>1, CampaignInvariant, PTL
-----------------------------------------------------------------------------
(* The queue keeps what CampaignPromise says.                              *)

\* What nobody created lists nothing.
Unmade(cs) == \A c \in CampIds : ~ cs[c].made => cs[c].kids = <<>>

PInv == CInv /\ Unmade(camps) /\ Unmade(disk)

\* A step keeps the promise, and PInv with it.
KeepsPromise ==
    /\ \/ Promise!Next
       \/ camps' = camps /\ disk' = disk
    /\ Unmade(camps') /\ Unmade(disk')

\* No campaign lists j.
Unlisted(j) == \A d \in CampIds : \A h \in DOMAIN camps[d].kids : camps[d].kids[h] # j

\* In the words of the abstract specification.
LEMMA UnlistedIs ==
    ASSUME NEW j, Unlisted(j)
    PROVE  j \notin Promise!Listed
<1>1. \A d \in CampIds : Children(camps)[d] = camps[d].kids
  BY DEF Children
<1>2. \A d \in CampIds : j \notin Promise!Range(Children(camps)[d])
  BY <1>1 DEF Unlisted, Promise!Range
<1>. QED  BY <1>2 DEF Promise!Listed

\* An id that was not given out is in no list.
LEMMA NewIsUnlisted ==
    ASSUME CInv, NEW j, j \notin 1 .. used
    PROVE  Unlisted(j)
BY DEF CInv, CampInv, SlotsOf, SlotsAt, Unlisted

\* Nor is the child that create_campaign waits for: it is a job of this
\* campaign, and not listed there yet.
LEMMA NextIsUnlisted ==
    ASSUME CInv, NEW t \in Coros, co[t].camp # NoCamp
    PROVE  Unlisted(co[t].job)
<1>. DEFINE c == co[t].camp
            j == co[t].job
<1>1. /\ jobs[j].camp = c /\ jobs[j].state # "absent"
      /\ \A h \in DOMAIN camps[c].kids : camps[c].kids[h] # j
  BY DEF CInv, CampInv, NextChild, IInv, Builders, SendsItsJob
<1>2. ASSUME NEW d \in CampIds, d # c, NEW h \in DOMAIN camps[d].kids
      PROVE  camps[d].kids[h] # j
  <2>1. jobs[camps[d].kids[h]].state # "absent" => jobs[camps[d].kids[h]].camp = d
    BY DEF CInv, CampInv, SlotsOf, SlotsAt
  <2>. QED  BY <1>1, <1>2, <2>1
<1>. QED  BY <1>1, <1>2 DEF Unlisted

\* The list that a run starts from: the present one, and unlisted jobs.
Added(cs, c) ==
    /\ DOMAIN camps[c].kids \subseteq DOMAIN cs[c].kids
    /\ \A i \in DOMAIN camps[c].kids : cs[c].kids[i] = camps[c].kids[i]
    /\ \A i \in DOMAIN cs[c].kids \ DOMAIN camps[c].kids : Unlisted(cs[c].kids[i])

\* A run of create_campaign's loop puts new children behind the list.
LEMMA RunKeeps ==
    ASSUME PInv, NEW t \in Tasks, NEW js, NEW cs, NEW c \in CampIds,
           RunInput(t, js, cs, c), Added(cs, c), cs[c].made,
           NEW k \in Nat, NEW m \in Nat, Ran(t, js, cs, c, k, m)
    PROVE  KeepsPromise
<1>. DEFINE kids == camps'[c].kids
            old == camps[c].kids
            L == Len(cs[c].kids)
<1>1. /\ CInv /\ TypeOK /\ cs \in CampsType /\ camps' = Grown(cs, c, m)
      /\ disk' \in {disk, camps'}
      /\ \A d \in CampIds \ {c} : cs[d] = camps[d]
  BY DEF PInv, CInv, IInv, RunInput, Ran
<1>2. /\ used \in Nat /\ MaxJobs \in Nat /\ used + m <= MaxJobs
  BY <1>1, ConstantsAssumption DEF TypeOK, Ran
<1>3. /\ camps' \in CampsType /\ camps'[c].made
      /\ \A d \in CampIds \ {c} : camps'[d] = camps[d]
  BY <1>1, <1>2, GrownFacts
<1>4. /\ L \in Nat /\ DOMAIN cs[c].kids = 1 .. L /\ DOMAIN kids = 1 .. L + m
      /\ \A i \in 1 .. L : kids[i] = cs[c].kids[i]
      /\ \A i \in L + 1 .. L + m : kids[i] = used + (i - L)
  <2>1. kids = Grown(cs, c, m)[c].kids
    BY <1>1
  <2>2. /\ Len(cs[c].kids) \in Nat
        /\ DOMAIN cs[c].kids = 1 .. Len(cs[c].kids)
        /\ DOMAIN Grown(cs, c, m)[c].kids = 1 .. Len(cs[c].kids) + m
        /\ \A i \in 1 .. Len(cs[c].kids) :
             Grown(cs, c, m)[c].kids[i] = cs[c].kids[i]
        /\ \A i \in Len(cs[c].kids) + 1 .. Len(cs[c].kids) + m :
             Grown(cs, c, m)[c].kids[i] = used + (i - Len(cs[c].kids))
    BY <1>1, <1>2, GrownKids, Zenon
  <2>. HIDE DEF kids
  <2>. QED  BY <2>1, <2>2 DEF L
<1>5. IsInjective(kids)
  <2>1. SlotsOf(camps, jobs, used)'
    BY <1>1, RunSlots
  <2>. QED  BY <2>1 DEF SlotsOf, SlotsAt, IsInjective
<1>6. kids \in Seq(JobIds)
  BY <1>3 DEF CampsType, CampRecs
<1>. HIDE DEF kids, L
<1>7. /\ DOMAIN old \subseteq DOMAIN kids
      /\ \A i \in DOMAIN old : kids[i] = old[i]
  BY <1>2, <1>4 DEF Added
<1>8. ASSUME NEW i \in DOMAIN kids \ DOMAIN old
      PROVE  Unlisted(kids[i])
  <2>1. CASE i \in 1 .. L
    BY <1>4, <2>1 DEF Added
  <2>2. CASE i \in L + 1 .. L + m
    <3>1. used + (i - L) \notin 1 .. used
      BY <1>2, <1>4, <2>2
    <3>. QED  BY <1>1, <1>4, <2>2, <3>1, NewIsUnlisted
  <2>. QED  BY <1>2, <1>4, <2>1, <2>2
<1>9. Promise!Extend(c)
  <2>1. Children(camps') = [Children(camps) EXCEPT ![c] = kids]
    BY <1>3 DEF kids, Children
  <2>2. Children(disk') \in {Children(disk), Children(camps')}
    BY <1>1
  <2>3. \A i \in DOMAIN kids \ DOMAIN old : kids[i] \notin Promise!Listed
    BY <1>8, UnlistedIs
  <2>4. Children(camps')[c] = kids /\ Children(camps)[c] = old
    BY DEF kids, Children
  <2>5. Promise!IsInjective(kids)
    BY <1>5 DEF IsInjective, Promise!IsInjective
  <2>6. Children(camps)' = Children(camps') /\ Children(disk)' = Children(disk')
    BY DEF Children
  <2>. HIDE DEF old
  <2>. QED  BY <1>6, <1>7, <2>1, <2>2, <2>3, <2>4, <2>5, <2>6 DEF Promise!Extend
<1>10. Unmade(camps') /\ Unmade(disk')
  <2>1. Unmade(camps')
    BY <1>3 DEF Unmade, PInv
  <2>. QED  BY <1>1, <2>1 DEF PInv
<1>. QED  BY <1>9, <1>10 DEF KeepsPromise, Promise!Next

\* A retry changes one place of one list, or nothing.
LEMMA RelistedIs ==
    ASSUME CInv, Unmade(camps), NEW j \in JobIds, NEW new
    PROVE  /\ \/ Relisted(j, new) = camps
              \/ \E c \in CampIds : \E i \in DOMAIN Children(camps)[c] :
                    Children(Relisted(j, new)) = Promise!Retried(c, i, new)
           /\ Unmade(Relisted(j, new))
<1>. DEFINE cs == Relisted(j, new)
            c == jobs[j].camp
            put(s) == [i \in DOMAIN s |-> IF s[i] = j THEN new ELSE s[i]]
<1>1. camps \in [CampIds -> CampRecs]
  BY DEF CInv, IInv, TypeOK
<1>2. ASSUME NEW d \in CampIds
      PROVE  /\ camps[d].kids \in Seq(JobIds)
             /\ cs[d] = IF d = c THEN [camps[d] EXCEPT !.kids = put(camps[d].kids)]
                                 ELSE camps[d]
  <2>1. camps[d] \in CampRecs
    BY <1>1
  <2>. QED  BY <2>1 DEF Relisted, CampRecs
<1>3. ASSUME NEW d \in CampIds
      PROVE  /\ cs[d].kids = IF d = c THEN put(camps[d].kids) ELSE camps[d].kids
             /\ cs[d].made = camps[d].made
  <2>1. camps[d] \in CampRecs
    BY <1>1
  <2>. QED  BY <1>2, <2>1 DEF CampRecs
<1>4. cs = [d \in CampIds |-> cs[d]]
  BY DEF Relisted
<1>. HIDE DEF cs
<1>5. Unmade(cs)
  <2>1. put(<<>>) = <<>>
    OBVIOUS
  <2>. HIDE DEF put
  <2>. QED  BY <1>3, <2>1 DEF Unmade
<1>6. CASE c \in CampIds /\ \E i \in DOMAIN camps[c].kids : camps[c].kids[i] = j
  <2>1. PICK i \in DOMAIN camps[c].kids : camps[c].kids[i] = j
    BY <1>6
  <2>2. \A h \in DOMAIN camps[c].kids : camps[c].kids[h] = j => h = i
    BY <1>6, <2>1 DEF CInv, CampInv, SlotsOf, SlotsAt
  <2>3. put(camps[c].kids) = [camps[c].kids EXCEPT ![i] = new]
    BY <1>2, <1>6, <2>1, <2>2
  <2>4. /\ Children(camps) = [d \in CampIds |-> camps[d].kids]
        /\ Children(cs) = [d \in CampIds |-> cs[d].kids]
    BY DEF Children
  <2>. HIDE DEF put, c
  <2>5. Children(cs) = [Children(camps) EXCEPT ![c] = [camps[c].kids EXCEPT ![i] = new]]
    BY <1>3, <1>6, <2>3, <2>4
  <2>6. i \in DOMAIN Children(camps)[c] /\ Children(camps)[c] = camps[c].kids
    BY <1>6, <2>1, <2>4
  <2>7. Children(cs) = Promise!Retried(c, i, new)
    BY <2>5, <2>6 DEF Promise!Retried
  <2>. QED  BY <1>5, <1>6, <2>6, <2>7 DEF cs
<1>7. CASE ~ (c \in CampIds /\ \E i \in DOMAIN camps[c].kids : camps[c].kids[i] = j)
  <2>1. ASSUME NEW d \in CampIds
        PROVE  cs[d] = camps[d]
    <3>1. CASE d = c
      <4>1. \A i \in DOMAIN camps[d].kids : camps[d].kids[i] # j
        BY <1>7, <3>1
      <4>2. put(camps[d].kids) = camps[d].kids
        <5>1. camps[d].kids \in Seq(JobIds)
          BY <1>2
        <5>2. \A s : s \in Seq(JobIds) /\ (\A i \in DOMAIN s : s[i] # j) => put(s) = s
          OBVIOUS
        <5>. HIDE DEF put, c
        <5>. QED  BY <4>1, <5>1, <5>2
      <4>3. camps[d] \in CampRecs
        BY <1>1
      <4>. HIDE DEF put, c
      <4>. QED  BY <1>2, <4>2, <4>3 DEF CampRecs
    <3>. QED  BY <1>2, <3>1
  <2>2. cs = camps
    BY <1>1, <1>4, <2>1
  <2>. QED  BY <1>5, <2>2 DEF cs
<1>. QED  BY <1>6, <1>7

\* The id of a retry is in no list.
LEMMA NextIdUnlisted ==
    ASSUME CInv, HasRoom(1)
    PROVE  used + 1 \in JobIds \ Promise!Listed
<1>1. used \in Nat /\ MaxJobs \in Nat /\ used + 1 <= MaxJobs
  <2>1. used + 1 <= MaxJobs
    BY DEF HasRoom
  <2>. QED  BY <2>1, ConstantsAssumption DEF CInv, IInv, TypeOK
<1>2. used + 1 \in JobIds /\ used + 1 \notin 1 .. used
  BY <1>1 DEF JobIds
<1>. QED  BY <1>2, NewIsUnlisted, UnlistedIs

\* retry_job takes a place and writes the file, or leaves the lists alone.
LEMMA RetryKeeps ==
    ASSUME PInv, NEW t \in Tasks, NEW j \in JobIds, RetryJob(t, j)
    PROVE  KeepsPromise
<1>1. /\ CInv /\ HasRoom(1) /\ camps' = Relisted(j, used + 1)
      /\ IF camps' = camps THEN disk' = disk ELSE disk' = camps'
  BY DEF PInv, RetryJob, SaveCampaigns
<1>2. used + 1 \in JobIds \ Promise!Listed
  BY <1>1, NextIdUnlisted
<1>3. Unmade(camps') /\ Unmade(disk')
  <2>1. Unmade(camps')
    BY <1>1, RelistedIs DEF PInv
  <2>. QED  BY <1>1, <2>1 DEF PInv
<1>4. CASE camps' = camps
  BY <1>1, <1>3, <1>4 DEF KeepsPromise
<1>5. CASE camps' # camps
  <2>1. PICK c \in CampIds : \E i \in DOMAIN Children(camps)[c] :
            Children(camps') = Promise!Retried(c, i, used + 1)
    BY <1>1, <1>5, RelistedIs DEF PInv
  <2>2. PICK i \in DOMAIN Children(camps)[c] :
            Children(camps') = Promise!Retried(c, i, used + 1)
    BY <2>1
  <2>3. Children(camps)' = Children(camps') /\ Children(disk)' = Children(camps')
    BY <1>1, <1>5 DEF Children
  <2>4. Promise!Retry(c, i, used + 1)
    BY <2>2, <2>3 DEF Promise!Retry
  <2>. QED  BY <1>2, <1>3, <2>4 DEF KeepsPromise, Promise!Next
<1>. QED  BY <1>4, <1>5

\* What a restart makes of the file `cs`.
LEMMA ReloadKeeps ==
    ASSUME PInv, NEW cs, NEW torn \in BOOLEAN, Reload(jobs, cs, torn), Unmade(cs),
           \/ cs = disk
           \/ cs = [c \in CampIds |-> NoCampaign]
           \/ \E c \in CampIds, j \in JobIds \ Promise!Listed :
                 \E i \in DOMAIN Children(camps)[c] :
                    Children(cs) = Promise!Retried(c, i, j)
    PROVE  KeepsPromise
<1>1. /\ camps' = IF torn THEN [c \in CampIds |-> NoCampaign] ELSE cs
      /\ disk' = cs
  BY DEF Reload
<1>2. /\ Children([c \in CampIds |-> NoCampaign]) = Promise!None
      /\ Unmade([c \in CampIds |-> NoCampaign])
  BY DEF Children, NoCampaign, Promise!None, Unmade
<1>3. Children(camps)' = Children(camps') /\ Children(disk)' = Children(cs)
  BY <1>1 DEF Children
<1>4. Children(camps') \in {Children(cs), Promise!None}
  BY <1>1, <1>2
<1>5. \/ Children(cs) \in {Children(disk), Promise!None}
      \/ \E c \in CampIds, j \in JobIds \ Promise!Listed :
            \E i \in DOMAIN Children(camps)[c] :
               Children(cs) = Promise!Retried(c, i, j)
  BY <1>2
<1>6. Promise!Restart
  BY <1>3, <1>4, <1>5 DEF Promise!Restart
<1>7. Unmade(camps') /\ Unmade(disk')
  BY <1>1, <1>2
<1>. QED  BY <1>6, <1>7 DEF KeepsPromise, Promise!Next

\* A stop between two steps, or in the middle of a write.
LEMMA CrashKeeps ==
    ASSUME PInv, NEW a \in BOOLEAN, NEW b \in BOOLEAN, Crash(a, b)
    PROVE  KeepsPromise
<1>. DEFINE cs == IF b THEN [c \in CampIds |-> NoCampaign] ELSE disk
            torn == jobsTorn \/ a
<1>1. Reload(jobs, cs, torn) /\ torn \in BOOLEAN
  BY DEF Crash, PInv, CInv, IInv, TypeOK
<1>2. Unmade(cs)
  <2>1. Unmade([c \in CampIds |-> NoCampaign])
    BY DEF Unmade, NoCampaign
  <2>. QED  BY <2>1 DEF PInv
<1>3. cs = disk \/ cs = [c \in CampIds |-> NoCampaign]
  OBVIOUS
<1>. HIDE DEF cs, torn
<1>. QED  BY <1>1, <1>2, <1>3, ReloadKeeps

\* A stop in retry_job leaves one retry in the file that memory never had.
LEMMA CrashInRetryKeeps ==
    ASSUME PInv, NEW j \in JobIds, CrashInRetry(j)
    PROVE  KeepsPromise
<1>1. /\ CInv /\ HasRoom(1) /\ Relisted(j, used + 1) # camps
      /\ Reload(jobs, Relisted(j, used + 1), jobsTorn) /\ jobsTorn \in BOOLEAN
  BY DEF CrashInRetry, PInv, CInv, IInv, TypeOK
<1>2. used + 1 \in JobIds \ Promise!Listed
  BY <1>1, NextIdUnlisted
<1>3. /\ \E c \in CampIds : \E i \in DOMAIN Children(camps)[c] :
            Children(Relisted(j, used + 1)) = Promise!Retried(c, i, used + 1)
      /\ Unmade(Relisted(j, used + 1))
  BY <1>1, RelistedIs DEF PInv
<1>. QED  BY <1>1, <1>2, <1>3, ReloadKeeps

\* create_campaign starts with an empty list: nobody filled it before.
LEMMA CreateKeeps ==
    ASSUME PInv, NEW t \in Tasks, NEW c \in CampIds, NEW ns \in Scopes,
           NEW d \in Deadlines, CreateCampaign(t, c, ns, d)
    PROVE  KeepsPromise
<1>1. PICK cs : /\ RunInput(t, jobs, cs, c)
                /\ cs[c].made /\ cs[c].kids = <<>>
                /\ \E k, m \in Nat : Ran(t, jobs, cs, c, k, m)
  BY CreateRuns DEF PInv
<1>2. camps[c].kids = <<>>
  BY DEF CreateCampaign, PInv, Unmade
<1>3. Added(cs, c)
  BY <1>1, <1>2 DEF Added
<1>. QED  BY <1>1, <1>3, RunKeeps

\* It goes on with the child whose send has ended behind the list.
LEMMA ResumeKeeps ==
    ASSUME PInv, NEW t \in Coros, NEW ok \in BOOLEAN, ResumeCampaign(t, ok)
    PROVE  KeepsPromise
<1>. DEFINE c == co[t].camp
            old == camps[c].kids
<1>1. CInv /\ c # NoCamp /\ t \in Tasks /\ c \in CampIds
  BY ResumeRuns DEF PInv, ResumeCampaign
<1>2. PICK js, cs :
        /\ RunInput(t, js, cs, c) /\ cs[c].made
        /\ cs[c].kids = Append(old, co[t].job)
        /\ \E k, m \in Nat : Ran(t, js, cs, c, k, m)
  BY ResumeRuns DEF PInv
<1>3. Unlisted(co[t].job)
  BY <1>1, NextIsUnlisted
<1>4. old \in Seq(JobIds) /\ co[t].job \in JobIds
  <2>1. camps[c] \in CampRecs
    BY <1>1 DEF CInv, IInv, TypeOK
  <2>2. co[t].job \in 1 .. used /\ used \in 0 .. MaxJobs
    BY <1>1 DEF CInv, IInv, TypeOK, Builders, SendsItsJob
  <2>3. co[t].job \in JobIds
    BY <2>2, ConstantsAssumption DEF JobIds
  <2>. QED  BY <2>1, <2>3 DEF CampRecs
<1>. HIDE DEF c, old
<1>5. /\ Len(old) \in Nat /\ DOMAIN old = 1 .. Len(old)
      /\ DOMAIN cs[c].kids = 1 .. Len(old) + 1
      /\ \A i \in 1 .. Len(old) : cs[c].kids[i] = old[i]
      /\ cs[c].kids[Len(old) + 1] = co[t].job
  BY <1>2, <1>4, AppendProperties, LenProperties
<1>6. \A i \in 1 .. Len(old) + 1 : i \in 1 .. Len(old) \/ i = Len(old) + 1
  BY <1>5
<1>7. Added(cs, c)
  <2>1. \A i \in 1 .. Len(old) : i \in 1 .. Len(old) + 1
    BY <1>5
  <2>2. camps[c].kids = old
    BY DEF old
  <2>. QED  BY <1>3, <1>5, <1>6, <2>1, <2>2 DEF Added
<1>. QED  BY <1>1, <1>2, <1>7, RunKeeps

\* The other steps leave the campaigns alone.
LEMMA QuietKeeps ==
    ASSUME PInv, UNCHANGED <<camps, disk>>
    PROVE  KeepsPromise
BY DEF PInv, KeepsPromise

\* Nothing is listed at first.
LEMMA InitPromise == Init => PInv /\ Promise!Init
<1>. SUFFICES ASSUME Init PROVE PInv /\ Promise!Init
  OBVIOUS
<1>1. /\ CInv
      /\ camps = [c \in CampIds |-> NoCampaign] /\ disk = [c \in CampIds |-> NoCampaign]
  BY InitCamp DEF Init
<1>2. /\ Children([c \in CampIds |-> NoCampaign]) = Promise!None
      /\ Unmade([c \in CampIds |-> NoCampaign])
  BY DEF Children, NoCampaign, Promise!None, Unmade
<1>. QED  BY <1>1, <1>2 DEF PInv, Promise!Init

\* Every step keeps the promise.
LEMMA NextPromise == PInv /\ [Next]_vars => KeepsPromise
<1>. SUFFICES ASSUME PInv, [Next]_vars PROVE KeepsPromise
  OBVIOUS
<1>1. ASSUME NEW t \in Tasks, NEW c \in CampIds, NEW ns \in Scopes,
             NEW d \in Deadlines, CreateCampaign(t, c, ns, d)
      PROVE  KeepsPromise
  BY <1>1, CreateKeeps
<1>2. ASSUME NEW t \in Tasks, NEW j \in JobIds, RetryJob(t, j)
      PROVE  KeepsPromise
  BY <1>2, RetryKeeps
<1>3. ASSUME NEW t \in Coros, Resume(t)
      PROVE  KeepsPromise
  BY <1>3, ResumeKeeps, QuietKeeps DEF Resume, ResumeLoop
<1>4. ASSUME NEW a \in BOOLEAN, NEW b \in BOOLEAN, Crash(a, b)
      PROVE  KeepsPromise
  BY <1>4, CrashKeeps
<1>5. ASSUME NEW j \in JobIds, CrashInRetry(j)
      PROVE  KeepsPromise
  BY <1>5, CrashInRetryKeeps
<1>6. ASSUME NEW t \in Tasks, NEW n \in SoloNodes, NEW d \in Deadlines,
             CreateJob(t, n, d)
      PROVE  KeepsPromise
  BY <1>6, QuietKeeps DEF CreateJob
<1>7. ASSUME NEW j \in JobIds, HandleAck(j) \/ HandleProgress(j) \/ CancelJob(j)
      PROVE  KeepsPromise
  BY <1>7, QuietKeeps DEF HandleAck, HandleProgress, CancelJob
<1>8. ASSUME NEW j \in JobIds, NEW r \in Results, HandleResult(j, r)
      PROVE  KeepsPromise
  BY <1>8, QuietKeeps DEF HandleResult
<1>9. ASSUME NEW c \in CampIds, CancelCampaign(c)
      PROVE  KeepsPromise
  BY <1>9, QuietKeeps DEF CancelCampaign
<1>10. CASE DeadlinePass
  BY <1>10, QuietKeeps DEF DeadlinePass
<1>11. ASSUME NEW j \in JobIds, RequeueJob(j)
       PROVE  KeepsPromise
  BY <1>11, QuietKeeps DEF RequeueJob
<1>12. ASSUME NEW t \in Tasks, NEW n \in Nodes, Connect(t, n) \/ Replaces(t, n)
       PROVE  KeepsPromise
  BY <1>12, QuietKeeps DEF Connect, Registers, Replaces, qvars
<1>13. ASSUME NEW t \in Tasks, Closed(t) \/ NodeConnected(t)
       PROVE  KeepsPromise
  BY <1>13, QuietKeeps DEF Closed, Registers, NodeConnected, qvars
<1>14. ASSUME NEW n \in Nodes, PushFails(n) \/ Disconnect(n)
       PROVE  KeepsPromise
  BY <1>14, QuietKeeps DEF PushFails, Disconnect, qvars
<1>15. CASE Tick \/ UNCHANGED vars
  BY <1>15, QuietKeeps DEF Tick, qvars, vars
<1>. QED
  BY NewInRange, <1>1, <1>2, <1>3, <1>4, <1>5, <1>6, <1>7, <1>8, <1>9, <1>10,
     <1>11, <1>12, <1>13, <1>14, <1>15 DEF Next

\* Of create_campaign, retry_job and _load together: seen through the lists in
\* memory and on disk alone, the queue is CampaignPromise.
THEOREM QueueKeepsCampaigns == Spec => KeepsCampaigns
<1>1. Init => PInv /\ Promise!Init
  BY InitPromise
<1>2. PInv /\ [Next]_vars =>
        PInv' /\ [Promise!Next]_<<Children(camps), Children(disk)>>
  <2>. SUFFICES ASSUME PInv, [Next]_vars
                PROVE  PInv' /\ [Promise!Next]_<<Children(camps), Children(disk)>>
    OBVIOUS
  <2>1. CInv' /\ KeepsPromise
    BY NextCamp, NextPromise DEF PInv
  <2>2. (Unmade(camps))' = Unmade(camps') /\ (Unmade(disk))' = Unmade(disk')
    BY DEF Unmade
  <2>3. camps' = camps => Children(camps)' = Children(camps)
    BY DEF Children
  <2>4. disk' = disk => Children(disk)' = Children(disk)
    BY DEF Children
  <2>. QED  BY <2>1, <2>2, <2>3, <2>4 DEF PInv, KeepsPromise
<1>. QED  BY <1>1, <1>2, PTL DEF Spec, KeepsCampaigns, Promise!Spec

=============================================================================
