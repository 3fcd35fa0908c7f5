--------------------------- MODULE JobQueueProofs ---------------------------
(***************************************************************************)
(* For any number of nodes, jobs, campaigns, coroutines and restarts: the  *)
(* queue's state is typed, a job that is PENDING while its node has a      *)
(* registered socket is in the hands of a coroutine, and only a send that  *)
(* was suspended reopens a job.                                            *)
(***************************************************************************)
EXTENDS JobQueue, FiniteSetTheorems, SequenceTheorems, TLAPS

JobsType == [JobIds -> JobRecs]
CampsType == [CampIds -> CampRecs]

\* Every job there is has a node.
Placed(js) == \A j \in JobIds : js[j].state # "absent" => js[j].node \in Nodes

\* The first k ids were given out.
Counted(js, k) == \A j \in JobIds : js[j].state # "absent" => j \in 1 .. k

\* Two coroutines never build the same campaign, and the one that builds it
\* has a child to list: what keeps used below MaxJobs.
Builders(cs, cp) ==
    \A t \in Coros :
        cs[t].camp # NoCamp =>
            /\ cs[t].pc = "sending" /\ cs[t].todo = {} /\ cp[cs[t].camp].made
            /\ Len(cp[cs[t].camp].kids) < Len(cp[cs[t].camp].nodes)
            /\ \A u \in Coros : cs[u].camp = cs[t].camp => u = t

\* A coroutine in a send has sent a job that was created, to its node, and
\* will go on to such jobs.
SendsItsJob(u, js, cs) ==
    cs[u].pc = "sending" =>
        /\ cs[u].job \in 1 .. used /\ js[cs[u].job].state # "absent"
        /\ cs[u].node = js[cs[u].job].node
        /\ cs[u].todo \subseteq 1 .. used

\* A registered socket wired the queue to the registry.
RegIsWired == \A n \in Nodes : reg[n] => wired

IInv ==
    /\ TypeOK
    /\ Placed(jobs) /\ Counted(jobs, used)
    /\ Builders(co, camps)
    /\ \A u \in Coros : SendsItsJob(u, jobs, co)
    /\ RegIsWired
    /\ PendingIsOwed

-----------------------------------------------------------------------------
(* Dispatch.                                                               *)

\* Setting the state of a job keeps it a job.
LEMMA StateSet ==
    ASSUME NEW js \in JobsType, NEW j \in JobIds, NEW s \in States
    PROVE  /\ [js[j] EXCEPT !.state = s] \in JobRecs
           /\ [js[j] EXCEPT !.state = s].state = s
           /\ [js[j] EXCEPT !.state = s].node = js[j].node
           /\ [js[j] EXCEPT !.state = s].camp = js[j].camp
           /\ [js EXCEPT ![j].state = s] \in JobsType
BY DEF JobsType, JobRecs

\* _try_dispatch without a send only skips PENDING jobs that are too late.
LEMMA SettledFacts ==
    ASSUME NEW js \in JobsType, NEW S \in SUBSET JobIds
    PROVE  /\ Settled(js, S) \in JobsType
           /\ \A j \in JobIds :
                /\ Settled(js, S)[j].node = js[j].node
                /\ Settled(js, S)[j].camp = js[j].camp
                /\ Settled(js, S)[j].state \in {js[j].state, "skipped"}
                /\ Settled(js, S)[j].state = "absent" <=> js[j].state = "absent"
                /\ j \notin S => Settled(js, S)[j] = js[j]
                /\ j \in S /\ Settled(js, S)[j].state = "pending" /\ wired =>
                        ~ Expired(js[j].deadline)
<1>1. "skipped" \in States
  BY DEF States, Terminal
<1>2. \A j \in JobIds :
        Settled(js, S)[j] =
          IF j \in S /\ js[j].state = "pending" /\ wired /\ Expired(js[j].deadline)
          THEN [js[j] EXCEPT !.state = "skipped"] ELSE js[j]
  BY DEF Settled
<1>3. Settled(js, S) \in JobsType
  BY <1>1, StateSet DEF Settled, JobsType
<1>4. ASSUME NEW j \in JobIds
      PROVE  /\ Settled(js, S)[j].node = js[j].node
             /\ Settled(js, S)[j].camp = js[j].camp
             /\ Settled(js, S)[j].state \in {js[j].state, "skipped"}
             /\ Settled(js, S)[j].state = "absent" <=> js[j].state = "absent"
             /\ j \notin S => Settled(js, S)[j] = js[j]
             /\ j \in S /\ Settled(js, S)[j].state = "pending" /\ wired =>
                     ~ Expired(js[j].deadline)
  <2>1. CASE j \in S /\ js[j].state = "pending" /\ wired /\ Expired(js[j].deadline)
    <3>1. Settled(js, S)[j] = [js[j] EXCEPT !.state = "skipped"]
      BY <1>2, <2>1
    <3>. QED  BY <1>1, <2>1, <3>1, StateSet
  <2>2. CASE ~ (j \in S /\ js[j].state = "pending" /\ wired
                /\ Expired(js[j].deadline))
    <3>1. Settled(js, S)[j] = js[j]
      BY <1>2, <2>2
    <3>. QED  BY <2>2, <3>1
  <2>. QED  BY <2>1, <2>2
<1>. QED  BY <1>3, <1>4

\* A walk through S: it changes jobs of S only, by skipping; the jobs of S
\* that stay PENDING while a socket is registered are in the hands of t.
LEMMA WalkFacts ==
    ASSUME TypeOK, NEW t \in Coros, NEW js \in JobsType, Placed(js),
           NEW rg \in [Nodes -> BOOLEAN], NEW S \in SUBSET JobIds,
           \A n \in Nodes : rg[n] => wired,
           Walk(t, js, rg, S)
    PROVE  /\ jobs' \in JobsType /\ co' \in [Coros -> CoRecs]
           /\ sent' \in [JobIds -> BOOLEAN]
           /\ \A u \in Coros \ {t} : co'[u] = co[u]
           /\ co'[t].camp = NoCamp
           /\ co'[t].pc \in {"idle", "sending"}
           /\ co'[t].pc = "sending" =>
                /\ co'[t].job \in S /\ co'[t].node = js[co'[t].job].node
                /\ co'[t].todo \subseteq S /\ js[co'[t].job].state # "absent"
           /\ \A j \in JobIds :
                /\ jobs'[j].node = js[j].node
                /\ jobs'[j].state = "absent" <=> js[j].state = "absent"
                /\ j \notin S => jobs'[j] = js[j]
                /\ jobs'[j].state = "pending" => js[j].state = "pending"
                /\ j \in S /\ jobs'[j].state = "pending" /\ rg[js[j].node] =>
                     co'[t].pc = "sending" /\ (co'[t].job = j \/ j \in co'[t].todo)
<1>. DEFINE R == Ready(js, rg, S)
<1>1. co \in [Coros -> CoRecs] /\ sent \in [JobIds -> BOOLEAN]
  BY DEF TypeOK
<1>2. R \subseteq S
  BY DEF Ready
<1>3. \A j \in S : j \notin R /\ js[j].state = "pending" /\ rg[js[j].node]
                    => Expired(js[j].deadline) /\ wired
  BY DEF Ready, Sendable, Placed
<1>4. CASE WalkEnds(t, js, rg, S)
  <2>1. jobs' = Settled(js, S) /\ co' = [co EXCEPT ![t] = Idle] /\ sent' = sent
        /\ R = {}
    BY <1>4 DEF WalkEnds
  <2>2. co' \in [Coros -> CoRecs] /\ co'[t] = Idle
        /\ \A u \in Coros \ {t} : co'[u] = co[u]
    BY <1>1, <2>1 DEF Idle, CoRecs, NoJob
  <2>3. ASSUME NEW j \in S, jobs'[j].state = "pending", rg[js[j].node]
        PROVE  FALSE
    <3>1. js[j].state = "pending"
      BY <2>1, <2>3, SettledFacts
    <3>. QED  BY <1>3, <2>1, <2>3, <3>1, SettledFacts
  <2>. QED
    BY <1>1, <2>1, <2>2, <2>3, SettledFacts DEF Idle
<1>5. ASSUME NEW i \in R, WalkSends(i, js, rg, S),
             co' = [co EXCEPT ![t] =
                        Sending(i, js[i].node, {k \in S : k > i}, NoCamp)]
      PROVE  /\ jobs' \in JobsType /\ co' \in [Coros -> CoRecs]
             /\ sent' \in [JobIds -> BOOLEAN]
             /\ \A u \in Coros \ {t} : co'[u] = co[u]
             /\ co'[t].camp = NoCamp
             /\ co'[t].pc = "sending"
             /\ co'[t].job \in S /\ co'[t].node = js[co'[t].job].node
             /\ co'[t].todo \subseteq S /\ js[co'[t].job].state # "absent"
             /\ \A j \in JobIds :
                  /\ jobs'[j].node = js[j].node
                  /\ jobs'[j].state = "absent" <=> js[j].state = "absent"
                  /\ j \notin S => jobs'[j] = js[j]
                  /\ jobs'[j].state = "pending" => js[j].state = "pending"
                  /\ j \in S /\ jobs'[j].state = "pending" /\ rg[js[j].node] =>
                       co'[t].job = j \/ j \in co'[t].todo
  <2>. DEFINE P == {k \in S : k < i}
  <2>1. i \in S /\ i \in JobIds /\ P \in SUBSET JobIds
    BY <1>2, <1>5
  <2>2. jobs' = Settled(js, P) /\ sent' = [sent EXCEPT ![i] = TRUE]
        /\ \A r \in R : i <= r
    BY <1>5 DEF WalkSends
  <2>3. /\ co' \in [Coros -> CoRecs]
        /\ \A u \in Coros \ {t} : co'[u] = co[u]
        /\ co'[t].pc = "sending" /\ co'[t].job = i /\ co'[t].node = js[i].node
        /\ co'[t].camp = NoCamp /\ co'[t].todo = {k \in S : k > i}
    <3>1. {k \in S : k > i} \in SUBSET JobIds
      OBVIOUS
    <3>2. js[i].node \in Nodes \cup {NoNode}
      BY <2>1 DEF JobsType, JobRecs
    <3>3. Sending(i, js[i].node, {k \in S : k > i}, NoCamp) \in CoRecs
      BY <2>1, <3>1, <3>2 DEF Sending, CoRecs
    <3>4. co'[t] = Sending(i, js[i].node, {k \in S : k > i}, NoCamp)
      BY <1>1, <1>5
    <3>. QED  BY <1>1, <1>5, <3>3, <3>4 DEF Sending
  <2>4. ASSUME NEW j \in S, jobs'[j].state = "pending", rg[js[j].node],
               ~ (j > i), j # i
        PROVE  FALSE
    <3>1. j \in Nat /\ i \in Nat
      BY <2>1 DEF JobIds
    <3>2. j \in P
      BY <2>4, <3>1
    <3>3. j \notin R
      BY <2>2, <2>4, <3>1
    <3>4. js[j].state = "pending"
      BY <2>1, <2>2, <2>4, SettledFacts
    <3>. QED  BY <1>3, <2>1, <2>2, <2>4, <3>2, <3>3, <3>4, SettledFacts
  <2>5. jobs' \in JobsType
        /\ \A j \in JobIds :
             /\ jobs'[j].node = js[j].node
             /\ jobs'[j].state = "absent" <=> js[j].state = "absent"
             /\ j \notin S => jobs'[j] = js[j]
             /\ jobs'[j].state = "pending" => js[j].state = "pending"
    <3>1. \A j \in JobIds : j \notin S => j \notin P
      OBVIOUS
    <3>. HIDE DEF P
    <3>. QED  BY <2>1, <2>2, <3>1, SettledFacts
  <2>6. sent' \in [JobIds -> BOOLEAN]
    BY <1>1, <2>1, <2>2
  <2>7. js[i].state # "absent"
    BY <1>5 DEF Ready, Sendable
  <2>. HIDE DEF P, R
  <2>. QED  BY <2>1, <2>3, <2>4, <2>5, <2>6, <2>7
<1>6. Walk(t, js, rg, S) <=>
        \/ WalkEnds(t, js, rg, S)
        \/ \E i \in R :
             /\ WalkSends(i, js, rg, S)
             /\ co' = [co EXCEPT ![t] =
                         Sending(i, js[i].node, {k \in S : k > i}, NoCamp)]
  BY DEF Walk
<1>. HIDE DEF R
<1>. QED  BY <1>4, <1>5, <1>6

\* t' or a coroutine of cs other than it will come to job j of node n.
OwedTo(cs, u, j, n) ==
    \/ cs[u].pc = "spawned" /\ cs[u].node = n
    \/ cs[u].pc = "sending" /\ (cs[u].job = j \/ j \in cs[u].todo)

\* What a step that ends in a walk of t through S is given: the rest of the new
\* state, and the other coroutines, which keep to their jobs and serve every
\* PENDING job that is not in S.
WalkInput(t, js, S) ==
    /\ js \in JobsType /\ Placed(js) /\ Counted(js, used')
    /\ S \in SUBSET JobIds /\ S \subseteq 1 .. used'
    /\ used' \in 0 .. MaxJobs
    /\ camps' \in CampsType /\ disk' \in CampsType /\ jobsTorn' \in BOOLEAN
    /\ reg' \in [Nodes -> BOOLEAN] /\ wired' = wired
    /\ \A n \in Nodes : reg'[n] => wired
    /\ live' \in [Nodes -> BOOLEAN] /\ pushing' \subseteq Nodes
    /\ now' = now /\ crashes' = crashes
    /\ \A u \in Coros \ {t} :
         co[u].camp # NoCamp =>
           /\ co[u].pc = "sending" /\ co[u].todo = {}
           /\ camps'[co[u].camp].made
           /\ Len(camps'[co[u].camp].kids) < Len(camps'[co[u].camp].nodes)
           /\ \A v \in Coros \ {t} : co[v].camp = co[u].camp => v = u
    /\ \A u \in Coros \ {t} :
         co[u].pc = "sending" =>
           /\ co[u].job \in 1 .. used' /\ co[u].node = js[co[u].job].node
           /\ co[u].todo \subseteq 1 .. used' /\ js[co[u].job].state # "absent"
    /\ \A j \in JobIds \ S :
         js[j].state = "pending" /\ reg'[js[j].node] =>
           \E u \in Coros \ {t} : OwedTo(co, u, j, js[j].node)

\* A step that ends in a walk preserves the invariant.
LEMMA WalkPreserves ==
    ASSUME TypeOK, NEW t \in Coros, NEW js, NEW S,
           WalkInput(t, js, S), Walk(t, js, reg', S)
    PROVE  IInv'
<1>. USE DEF WalkInput
<1>1. /\ jobs' \in JobsType /\ co' \in [Coros -> CoRecs]
      /\ sent' \in [JobIds -> BOOLEAN]
      /\ \A u \in Coros \ {t} : co'[u] = co[u]
      /\ co'[t].camp = NoCamp
      /\ co'[t].pc \in {"idle", "sending"}
      /\ co'[t].pc = "sending" =>
           /\ co'[t].job \in S /\ co'[t].node = js[co'[t].job].node
           /\ co'[t].todo \subseteq S /\ js[co'[t].job].state # "absent"
      /\ \A j \in JobIds :
           /\ jobs'[j].node = js[j].node
           /\ jobs'[j].state = "absent" <=> js[j].state = "absent"
           /\ j \notin S => jobs'[j] = js[j]
           /\ jobs'[j].state = "pending" => js[j].state = "pending"
           /\ j \in S /\ jobs'[j].state = "pending" /\ reg'[js[j].node] =>
                co'[t].pc = "sending" /\ (co'[t].job = j \/ j \in co'[t].todo)
  BY WalkFacts
<1>2. TypeOK'
  BY <1>1 DEF TypeOK, JobsType, CampsType
<1>3. Placed(jobs)' /\ Counted(jobs, used)'
  BY <1>1 DEF Placed, Counted
<1>4. Builders(co, camps)'
  BY <1>1 DEF Builders
<1>5. \A j \in 1 .. used' : j \in JobIds
  BY ConstantsAssumption DEF JobIds
<1>6. ASSUME NEW u \in Coros
      PROVE  SendsItsJob(u, jobs, co)'
  <2>1. CASE u = t
    BY <1>1, <2>1 DEF SendsItsJob
  <2>2. CASE u # t
    BY <1>1, <1>5, <2>2 DEF SendsItsJob
  <2>. QED  BY <2>1, <2>2
<1>7. RegIsWired'
  BY DEF RegIsWired
<1>8. ASSUME NEW j \in JobIds, jobs'[j].state = "pending", reg'[jobs'[j].node]
      PROVE  \E u \in Coros : Owes(u, j)'
  <2>1. CASE j \in S
    <3>1. Owes(t, j)'
      BY <1>1, <1>8, <2>1 DEF Owes
    <3>. QED  BY <3>1
  <2>2. CASE j \notin S
    <3>1. PICK u \in Coros \ {t} : OwedTo(co, u, j, js[j].node)
      BY <1>1, <1>8, <2>2
    <3>2. Owes(u, j)'
      BY <1>1, <3>1 DEF Owes, OwedTo
    <3>. QED  BY <3>2
  <2>. QED  BY <2>1, <2>2
<1>9. PendingIsOwed'
  BY <1>8 DEF PendingIsOwed
<1>. QED  BY <1>2, <1>3, <1>4, <1>6, <1>7, <1>9 DEF IInv

-----------------------------------------------------------------------------
(* Creating campaigns.                                                     *)

\* The next k children of a campaign are jobs of its nodes, and the other jobs
\* stay.
LEMMA BornFacts ==
    ASSUME TypeOK, NEW js \in JobsType, NEW cs \in CampsType, NEW c \in CampIds,
           NEW k \in Nat, Len(cs[c].kids) + k <= Len(cs[c].nodes)
    PROVE  /\ Born(js, cs, c, k) \in JobsType
           /\ \A j \in JobIds :
                IF j \in used + 1 .. used + k
                THEN /\ Born(js, cs, c, k)[j].state = "pending"
                     /\ Born(js, cs, c, k)[j].deadline = cs[c].deadline
                     /\ Born(js, cs, c, k)[j].node \in Nodes
                     /\ Born(js, cs, c, k)[j].node =
                            cs[c].nodes[Len(cs[c].kids) + (j - used)]
                ELSE Born(js, cs, c, k)[j] = js[j]
<1>1. /\ cs[c].nodes \in Seq(Nodes) /\ cs[c].kids \in Seq(JobIds)
      /\ cs[c].deadline \in Deadlines /\ used \in Nat
  BY DEF CampsType, CampRecs, TypeOK
<1>2. Len(cs[c].nodes) \in Nat /\ Len(cs[c].kids) \in Nat
  BY <1>1, LenProperties
<1>3. ASSUME NEW j \in JobIds, j \in used + 1 .. used + k
      PROVE  /\ cs[c].nodes[Len(cs[c].kids) + (j - used)] \in Nodes
             /\ NewJob(cs[c].nodes[Len(cs[c].kids) + (j - used)], c,
                       cs[c].deadline) \in JobRecs
  <2>1. Len(cs[c].kids) + (j - used) \in 1 .. Len(cs[c].nodes)
    BY <1>1, <1>2, <1>3
  <2>2. cs[c].nodes[Len(cs[c].kids) + (j - used)] \in Nodes
    BY <1>1, <2>1, ElementOfSeq
  <2>. QED  BY <1>1, <2>2 DEF NewJob, JobRecs, States
<1>. QED  BY <1>3 DEF Born, JobsType, NewJob

\* Listing k children lengthens one child list by k.
LEMMA GrownFacts ==
    ASSUME TypeOK, NEW cs \in CampsType, NEW c \in CampIds, NEW k \in Nat,
           used + k <= MaxJobs
    PROVE  /\ Grown(cs, c, k) \in CampsType
           /\ Grown(cs, c, k)[c].made = cs[c].made
           /\ Grown(cs, c, k)[c].nodes = cs[c].nodes
           /\ Len(Grown(cs, c, k)[c].kids) = Len(cs[c].kids) + k
           /\ \A d \in CampIds \ {c} : Grown(cs, c, k)[d] = cs[d]
<1>. DEFINE more == [i \in 1 .. k |-> used + i]
<1>1. cs[c].kids \in Seq(JobIds) /\ used \in Nat
  BY DEF CampsType, CampRecs, TypeOK
<1>2. more \in Seq(JobIds) /\ Len(more) = k
  <2>1. \A i \in 1 .. k : used + i \in JobIds
    BY <1>1, ConstantsAssumption DEF JobIds
  <2>. QED  BY <2>1
<1>3. cs[c].kids \o more \in Seq(JobIds)
      /\ Len(cs[c].kids \o more) = Len(cs[c].kids) + k
  <2>. HIDE DEF more
  <2>. QED  BY <1>1, <1>2, ConcatProperties
<1>4. Grown(cs, c, k) = [cs EXCEPT ![c].kids = cs[c].kids \o more]
  BY DEF Grown, CampsType
<1>. HIDE DEF more
<1>. QED  BY <1>3, <1>4 DEF CampsType, CampRecs

\* What a step that runs create_campaign's loop for c is given: jobs js and
\* campaigns cs, of which only c has room to grow, and the other coroutines
\* build other campaigns, keep to their jobs and serve every PENDING job.
LoopInput(t, js, cs, c) ==
    /\ js \in JobsType /\ Placed(js) /\ Counted(js, used)
    /\ cs \in CampsType /\ cs[c].made
    /\ reg' \in [Nodes -> BOOLEAN] /\ wired' = wired
    /\ \A n \in Nodes : reg'[n] => wired
    /\ live' \in [Nodes -> BOOLEAN] /\ pushing' \subseteq Nodes
    /\ now' = now /\ crashes' = crashes
    /\ \A u \in Coros \ {t} :
         co[u].camp # NoCamp =>
           /\ co[u].pc = "sending" /\ co[u].todo = {}
           /\ co[u].camp # c /\ cs[co[u].camp].made
           /\ Len(cs[co[u].camp].kids) < Len(cs[co[u].camp].nodes)
           /\ \A v \in Coros \ {t} : co[v].camp = co[u].camp => v = u
    /\ \A u \in Coros \ {t} :
         co[u].pc = "sending" =>
           /\ co[u].job \in 1 .. used /\ co[u].node = js[co[u].job].node
           /\ co[u].todo \subseteq 1 .. used /\ js[co[u].job].state # "absent"
    /\ \A j \in JobIds :
         js[j].state = "pending" /\ reg'[js[j].node] =>
           \E u \in Coros \ {t} : OwedTo(co, u, j, js[j].node)

\* A run of create_campaign's loop by t that creates k children, of which the
\* first m are settled and the others, at most the last one, is in t's hands.
LEMMA ChildrenPreserve ==
    ASSUME TypeOK, NEW t \in Coros, NEW js, NEW cs, NEW c \in CampIds,
           LoopInput(t, js, cs, c),
           NEW k \in Nat, NEW m \in {k, k - 1}, m \in Nat,
           Len(cs[c].kids) + k <= Len(cs[c].nodes),
           used + k <= MaxJobs, used' = used + k,
           jobs' = Settled(Born(js, cs, c, k), used + 1 .. used + m),
           camps' = Grown(cs, c, m),
           disk' \in CampsType, jobsTorn' \in BOOLEAN,
           sent' \in [JobIds -> BOOLEAN],
           \A i \in 1 .. m : reg'[cs[c].nodes[Len(cs[c].kids) + i]] =>
                               Expired(cs[c].deadline),
           co' = [co EXCEPT ![t] =
                    IF m = k THEN Idle
                    ELSE Sending(used + k, Born(js, cs, c, k)[used + k].node, {}, c)]
    PROVE  IInv'
<1>. DEFINE born == Born(js, cs, c, k)
            S == used + 1 .. used + m
<1>a. js \in JobsType /\ Placed(js) /\ Counted(js, used) /\ cs \in CampsType /\ cs[c].made
  BY DEF LoopInput
<1>b. /\ reg' \in [Nodes -> BOOLEAN] /\ wired' = wired
      /\ \A n \in Nodes : reg'[n] => wired
      /\ live' \in [Nodes -> BOOLEAN] /\ pushing' \subseteq Nodes
      /\ now' = now /\ crashes' = crashes
  BY DEF LoopInput
<1>c. m <= k /\ (m # k => k >= 1 /\ m + 1 = k)
  OBVIOUS
<1>1. /\ used \in Nat /\ MaxJobs \in Nat /\ t \in Coros
      /\ Len(cs[c].kids) \in Nat /\ Len(cs[c].nodes) \in Nat
      /\ co \in [Coros -> CoRecs]
  <2>1. cs[c].kids \in Seq(JobIds) /\ cs[c].nodes \in Seq(Nodes)
    BY <1>a DEF CampsType, CampRecs
  <2>2. Len(cs[c].kids) \in Nat /\ Len(cs[c].nodes) \in Nat
    BY <2>1, LenProperties
  <2>3. used \in Nat /\ MaxJobs \in Nat /\ co \in [Coros -> CoRecs]
    BY ConstantsAssumption DEF TypeOK
  <2>. QED  BY <2>2, <2>3
<1>2. S \in SUBSET JobIds /\ used + 1 .. used + k \subseteq JobIds
      /\ S \subseteq used + 1 .. used + k
  BY <1>1, <1>c DEF JobIds
<1>3. /\ born \in JobsType
      /\ \A j \in JobIds :
           IF j \in used + 1 .. used + k
           THEN /\ born[j].state = "pending"
                /\ born[j].deadline = cs[c].deadline
                /\ born[j].node \in Nodes
                /\ born[j].node = cs[c].nodes[Len(cs[c].kids) + (j - used)]
           ELSE born[j] = js[j]
  BY <1>a, BornFacts
<1>4. /\ jobs' \in JobsType
      /\ \A j \in JobIds :
           /\ jobs'[j].node = born[j].node
           /\ jobs'[j].state \in {born[j].state, "skipped"}
           /\ jobs'[j].state = "absent" <=> born[j].state = "absent"
           /\ j \notin S => jobs'[j] = born[j]
           /\ j \in S /\ jobs'[j].state = "pending" /\ wired =>
                ~ Expired(born[j].deadline)
  <2>. HIDE DEF born, S
  <2>. jobs' = Settled(born, S)
    BY DEF born, S
  <2>. QED  BY <1>2, <1>3, SettledFacts
<1>5. /\ camps' \in CampsType
      /\ camps'[c].made /\ camps'[c].nodes = cs[c].nodes
      /\ Len(camps'[c].kids) = Len(cs[c].kids) + m
      /\ \A d \in CampIds \ {c} : camps'[d] = cs[d]
  <2>1. used + m <= MaxJobs
    BY <1>1, <1>c
  <2>. QED  BY <1>a, <2>1, GrownFacts
<1>6. /\ co' \in [Coros -> CoRecs]
      /\ \A u \in Coros \ {t} : co'[u] = co[u]
      /\ m = k => co'[t] = Idle
      /\ m # k => /\ k >= 1 /\ used + k \in JobIds
                  /\ co'[t] = Sending(used + k, born[used + k].node, {}, c)
  <2>1. m # k => k >= 1 /\ used + k \in used + 1 .. used + k
    BY <1>1, <1>c
  <2>2. Idle \in CoRecs
    BY DEF Idle, CoRecs, NoJob
  <2>3. m # k => Sending(used + k, born[used + k].node, {}, c) \in CoRecs
    BY <1>2, <1>3, <2>1 DEF Sending, CoRecs
  <2>. QED  BY <1>1, <1>2, <2>1, <2>2, <2>3
<1>7. TypeOK'
  <2>1. used' \in 0 .. MaxJobs
    BY <1>1
  <2>. QED  BY <1>b, <1>4, <1>5, <1>6, <2>1 DEF TypeOK, JobsType, CampsType
<1>8. Placed(jobs)' /\ Counted(jobs, used)'
  <2>1. \A j \in JobIds : j \in 1 .. used \/ j \in used + 1 .. used + k => j \in 1 .. used'
    BY <1>1
  <2>. QED  BY <1>a, <1>3, <1>4, <2>1 DEF Placed, Counted
<1>9. Builders(co, camps)'
  <2>1. ASSUME NEW u \in Coros, co'[u].camp # NoCamp
        PROVE  /\ co'[u].pc = "sending" /\ co'[u].todo = {}
               /\ camps'[co'[u].camp].made
               /\ Len(camps'[co'[u].camp].kids) < Len(camps'[co'[u].camp].nodes)
               /\ \A v \in Coros : co'[v].camp = co'[u].camp => v = u
    <3>1. CASE u = t
      <4>1. m # k /\ co'[t].pc = "sending" /\ co'[t].todo = {}
                  /\ co'[t].camp = c
        BY <1>6, <2>1, <3>1 DEF Idle, Sending
      <4>2. Len(camps'[c].kids) < Len(camps'[c].nodes)
        <5>0. m # k
          BY <4>1
        <5>1. Len(cs[c].kids) + m < Len(cs[c].nodes)
          BY <1>1, <1>c, <5>0
        <5>2. Len(camps'[c].nodes) = Len(cs[c].nodes)
          BY <1>5
        <5>. QED  BY <1>5, <5>1, <5>2
      <4>3. \A v \in Coros \ {t} : co'[v].camp # c
        <5>1. \A v \in Coros \ {t} : co[v].camp # NoCamp => co[v].camp # c
          BY DEF LoopInput
        <5>2. c # NoCamp
          BY ConstantsAssumption
        <5>. QED  BY <1>6, <5>1, <5>2
      <4>. QED  BY <1>a, <1>5, <3>1, <4>1, <4>2, <4>3
    <3>2. CASE u # t
      <4>1. co'[u] = co[u] /\ co[u].camp # c /\ co[u].camp \in CampIds
        BY <1>1, <1>6, <2>1, <3>2 DEF CoRecs, LoopInput
      <4>2. camps'[co[u].camp] = cs[co[u].camp]
        BY <1>5, <4>1
      <4>3. co'[t].camp \in {c, NoCamp}
        BY <1>6 DEF Idle, Sending
      <4>. QED  BY <1>6, <2>1, <3>2, <4>1, <4>2, <4>3 DEF LoopInput
    <3>. QED  BY <3>1, <3>2
  <2>. QED  BY <2>1 DEF Builders
<1>10. ASSUME NEW u \in Coros
       PROVE  SendsItsJob(u, jobs, co)'
  <2>1. CASE u = t
    <3>1. CASE m = k
      <4>1. co'[t].pc = "idle"
        BY <1>6, <3>1 DEF Idle
      <4>. QED  BY <2>1, <4>1 DEF SendsItsJob
    <3>2. CASE m # k
      <4>1. /\ co'[t].job = used + k /\ co'[t].node = born[used + k].node
            /\ co'[t].todo = {}
        BY <1>6, <3>2 DEF Sending
      <4>2. /\ used + k \in 1 .. used' /\ used + k \in JobIds
            /\ used + k \in used + 1 .. used + k
        BY <1>1, <1>6, <3>2
      <4>3. jobs'[used + k].state # "absent"
            /\ jobs'[used + k].node = born[used + k].node
        BY <1>3, <1>4, <4>2
      <4>. QED  BY <2>1, <4>1, <4>2, <4>3 DEF SendsItsJob
    <3>. QED  BY <3>1, <3>2
  <2>2. CASE u # t /\ co'[u].pc = "sending"
    <3>1. co'[u] = co[u] /\ co[u].job \in 1 .. used
          /\ co[u].node = js[co[u].job].node /\ co[u].todo \subseteq 1 .. used
          /\ js[co[u].job].state # "absent"
      BY <1>6, <2>2 DEF LoopInput
    <3>2. co[u].job \in JobIds /\ co[u].job \notin used + 1 .. used + k
          /\ 1 .. used \subseteq 1 .. used'
      BY <1>1, <3>1 DEF JobIds
    <3>3. jobs'[co[u].job].node = js[co[u].job].node
          /\ jobs'[co[u].job].state # "absent"
      BY <1>3, <1>4, <3>1, <3>2
    <3>. QED  BY <3>1, <3>2, <3>3 DEF SendsItsJob
  <2>. QED  BY <2>1, <2>2 DEF SendsItsJob
<1>11. RegIsWired'
  BY <1>b DEF RegIsWired
<1>12. ASSUME NEW j \in JobIds, jobs'[j].state = "pending", reg'[jobs'[j].node]
       PROVE  \E u \in Coros : Owes(u, j)'
  <2>1. CASE j \notin used + 1 .. used + k
    <3>1. jobs'[j] = js[j]
      BY <1>2, <1>3, <1>4, <2>1
    <3>2. PICK u \in Coros \ {t} : OwedTo(co, u, j, js[j].node)
      BY <1>12, <3>1 DEF LoopInput
    <3>3. Owes(u, j)'
      BY <1>6, <3>1, <3>2 DEF Owes, OwedTo
    <3>. QED  BY <3>3
  <2>2. CASE j \in S
    <3>1. wired
      BY <1>b, <1>2, <1>3, <1>4, <1>12, <2>2
    <3>2. ~ Expired(cs[c].deadline)
      BY <1>2, <1>3, <1>4, <1>12, <2>2, <3>1
    <3>3. j - used \in 1 .. m
      BY <1>1, <2>2
    <3>4. reg'[cs[c].nodes[Len(cs[c].kids) + (j - used)]]
      BY <1>2, <1>3, <1>4, <1>12, <2>2
    <3>. QED  BY <3>2, <3>3, <3>4
  <2>3. CASE j \in used + 1 .. used + k /\ j \notin S
    <3>1. m # k /\ j = used + k
      <4>1. m = k \/ m = k - 1
        OBVIOUS
      <4>2. ~ (used + 1 <= j /\ j <= used + m)
        BY <1>1, <2>3
      <4>. QED  BY <1>1, <2>3, <4>1, <4>2
    <3>2. co'[t].pc = "sending" /\ co'[t].job = j
      BY <1>6, <3>1 DEF Sending
    <3>. QED  BY <1>1, <3>2 DEF Owes
  <2>. QED  BY <2>1, <2>2, <2>3
<1>13. PendingIsOwed'
  BY <1>12 DEF PendingIsOwed
<1>. QED  BY <1>7, <1>8, <1>9, <1>10, <1>11, <1>13 DEF IInv

\* An action that ends in a run of create_campaign's loop preserves the
\* invariant, when t alone builds c and has no other job in its hands.
LEMMA CampaignPreserves ==
    ASSUME TypeOK, NEW t \in Coros, NEW js, NEW cs, NEW c \in CampIds,
           LoopInput(t, js, cs, c),
           Len(cs[c].kids) <= Len(cs[c].nodes),
           CampaignRun(t, js, reg', cs, c)
    PROVE  IInv'
<1>. DEFINE left == 1 .. Len(cs[c].nodes) - Len(cs[c].kids)
            stops == {k \in left : reg'[cs[c].nodes[Len(cs[c].kids) + k]]
                                   /\ ~ Expired(cs[c].deadline)}
<1>1. /\ used \in Nat /\ MaxJobs \in Nat
      /\ Len(cs[c].kids) \in Nat /\ Len(cs[c].nodes) \in Nat
      /\ disk \in CampsType /\ jobsTorn \in BOOLEAN
      /\ sent \in [JobIds -> BOOLEAN]
  <2>1. cs[c].kids \in Seq(JobIds) /\ cs[c].nodes \in Seq(Nodes)
    BY DEF LoopInput, CampsType, CampRecs
  <2>. QED  BY <2>1, LenProperties, ConstantsAssumption DEF TypeOK, CampsType
<1>2. CASE stops = {} /\ CampaignEnds(t, js, cs, c)
  <2>. DEFINE k == Len(cs[c].nodes) - Len(cs[c].kids)
  <2>1. k \in Nat /\ Len(cs[c].kids) + k <= Len(cs[c].nodes)
    BY <1>1
  <2>2. /\ used + k <= MaxJobs /\ used' = used + k
        /\ jobsTorn' \in BOOLEAN
        /\ jobs' = Settled(Born(js, cs, c, k), used + 1 .. used + k)
        /\ camps' = Grown(cs, c, k)
        /\ disk' = camps'
        /\ co' = [co EXCEPT ![t] = Idle]
        /\ sent' = sent
    BY <1>1, <1>2 DEF CampaignEnds, SaveCampaigns
  <2>3. \A i \in 1 .. k : reg'[cs[c].nodes[Len(cs[c].kids) + i]] =>
                            Expired(cs[c].deadline)
    BY <1>2
  <2>. HIDE DEF k, stops
  <2>4. disk' \in CampsType
    BY <2>1, <2>2, GrownFacts DEF LoopInput
  <2>5. k \in {k, k - 1}
    OBVIOUS
  <2>6. co' = [co EXCEPT ![t] =
                 IF k = k THEN Idle
                 ELSE Sending(used + k, Born(js, cs, c, k)[used + k].node, {}, c)]
    BY <2>2
  <2>7. sent' \in [JobIds -> BOOLEAN]
    BY <1>1, <2>2
  <2>. QED  BY <2>1, <2>2, <2>3, <2>4, <2>5, <2>6, <2>7, ChildrenPreserve
<1>3. ASSUME NEW k \in stops, \A s \in stops : k <= s,
             CampaignSends(t, js, cs, c, k)
      PROVE  IInv'
  <2>. DEFINE m == k - 1
  <2>0. k \in left
    BY <1>3
  <2>1. /\ k \in Nat /\ m \in Nat /\ k # m
        /\ Len(cs[c].kids) + k <= Len(cs[c].nodes)
    BY <1>1, <2>0
  <2>2. used + k - 1 = used + m
    BY <1>1, <2>1
  <2>3. /\ used + k <= MaxJobs /\ used' = used + k
        /\ jobsTorn' \in BOOLEAN
        /\ jobs' = Settled(Born(js, cs, c, k), used + 1 .. used + m)
        /\ camps' = Grown(cs, c, m)
        /\ disk' = disk
        /\ co' = [co EXCEPT ![t] =
                    Sending(used + k, Born(js, cs, c, k)[used + k].node, {}, c)]
        /\ sent' = [sent EXCEPT ![used + k] = TRUE]
    BY <1>1, <1>3, <2>2 DEF CampaignSends
  <2>4. \A i \in 1 .. m : reg'[cs[c].nodes[Len(cs[c].kids) + i]] =>
                            Expired(cs[c].deadline)
    <3>. DEFINE room == Len(cs[c].nodes) - Len(cs[c].kids)
    <3>0. room \in Int
      <4>1. Len(cs[c].kids) \in Nat /\ Len(cs[c].nodes) \in Nat
        BY <1>1
      <4>. QED  BY <4>1
    <3>. HIDE DEF room
    <3>1. \A i \in 1 .. m : i \in 1 .. room /\ ~ (k <= i)
      <4>1. k \in 1 .. room
        BY <2>0 DEF room
      <4>. QED  BY <3>0, <4>1
    <3>2. \A i \in 1 .. m : i \notin stops
      BY <1>3, <3>1
    <3>. QED  BY <3>1, <3>2 DEF room
  <2>5. m \in {k, k - 1}
    OBVIOUS
  <2>. HIDE DEF m, stops
  <2>6. co' = [co EXCEPT ![t] =
                 IF m = k THEN Idle
                 ELSE Sending(used + k, Born(js, cs, c, k)[used + k].node, {}, c)]
    BY <2>1, <2>3
  <2>7. disk' \in CampsType /\ sent' \in [JobIds -> BOOLEAN]
    BY <1>1, <2>3
  <2>. QED  BY <2>1, <2>3, <2>4, <2>5, <2>6, <2>7, ChildrenPreserve
<1>. QED  BY <1>2, <1>3 DEF CampaignRun

-----------------------------------------------------------------------------
(* The actions.                                                            *)

\* What the invariant says of the coroutines but t.
LEMMA OthersFacts ==
    ASSUME IInv, NEW t \in Coros
    PROVE  /\ \A u \in Coros \ {t} :
                co[u].camp # NoCamp =>
                  /\ co[u].pc = "sending" /\ co[u].todo = {}
                  /\ camps[co[u].camp].made
                  /\ co[u].camp \in CampIds
                  /\ Len(camps[co[u].camp].kids) < Len(camps[co[u].camp].nodes)
                  /\ co[t].camp # co[u].camp
                  /\ \A v \in Coros \ {t} : co[v].camp = co[u].camp => v = u
           /\ \A u \in Coros \ {t} :
                co[u].pc = "sending" =>
                  /\ co[u].job \in 1 .. used /\ co[u].job \in JobIds
                  /\ co[u].node = jobs[co[u].job].node
                  /\ co[u].todo \subseteq 1 .. used
                  /\ jobs[co[u].job].state # "absent"
           /\ \A j \in JobIds :
                jobs[j].state = "pending" /\ reg[jobs[j].node] /\ ~ Owes(t, j) =>
                  \E u \in Coros \ {t} : OwedTo(co, u, j, jobs[j].node)
<1>1. ASSUME NEW u \in Coros \ {t}, co[u].camp # NoCamp
      PROVE  /\ co[u].pc = "sending" /\ co[u].todo = {}
             /\ camps[co[u].camp].made
             /\ co[u].camp \in CampIds
             /\ Len(camps[co[u].camp].kids) < Len(camps[co[u].camp].nodes)
             /\ co[t].camp # co[u].camp
             /\ \A v \in Coros \ {t} : co[v].camp = co[u].camp => v = u
  BY <1>1 DEF IInv, Builders, TypeOK, CoRecs
<1>2. ASSUME NEW u \in Coros \ {t}, co[u].pc = "sending"
      PROVE  /\ co[u].job \in 1 .. used /\ co[u].job \in JobIds
             /\ co[u].node = jobs[co[u].job].node
             /\ co[u].todo \subseteq 1 .. used
             /\ jobs[co[u].job].state # "absent"
  <2>1. used \in 0 .. MaxJobs /\ MaxJobs \in Nat
    BY ConstantsAssumption DEF IInv, TypeOK
  <2>. QED  BY <1>2, <2>1 DEF IInv, SendsItsJob, JobIds
<1>3. ASSUME NEW j \in JobIds,
             jobs[j].state = "pending", reg[jobs[j].node], ~ Owes(t, j)
      PROVE  \E u \in Coros \ {t} : OwedTo(co, u, j, jobs[j].node)
  BY <1>3 DEF IInv, PendingIsOwed, Owes, OwedTo
<1>. QED  BY <1>1, <1>2, <1>3

\* A new job is one, and takes no other's place.
LEMMA NewJobFacts ==
    ASSUME IInv, used + 1 <= MaxJobs, NEW n \in Nodes,
           NEW c \in CampIds \cup {NoCamp}, NEW d \in Deadlines
    PROVE  /\ used + 1 \in JobIds /\ {used + 1} \subseteq 1 .. used + 1
           /\ used + 1 \in 0 .. MaxJobs /\ 1 .. used \subseteq 1 .. used + 1
           /\ used + 1 \notin 1 .. used
           /\ [jobs EXCEPT ![used + 1] = NewJob(n, c, d)] \in JobsType
           /\ Placed([jobs EXCEPT ![used + 1] = NewJob(n, c, d)])
           /\ Counted([jobs EXCEPT ![used + 1] = NewJob(n, c, d)], used + 1)
<1>1. used \in Nat /\ MaxJobs \in Nat
  BY ConstantsAssumption DEF IInv, TypeOK
<1>2. /\ used + 1 \in JobIds /\ {used + 1} \subseteq 1 .. used + 1
      /\ used + 1 \in 0 .. MaxJobs /\ 1 .. used \subseteq 1 .. used + 1
      /\ used + 1 \notin 1 .. used
  BY <1>1 DEF JobIds
<1>3. NewJob(n, c, d) \in JobRecs /\ NewJob(n, c, d).node = n
  BY DEF NewJob, JobRecs, States
<1>. QED  BY <1>2, <1>3 DEF IInv, TypeOK, JobsType, Placed, Counted

LEMMA CreateJobStep ==
    ASSUME IInv, NEW t \in Tasks, NEW n \in Nodes, NEW d \in Deadlines,
           CreateJob(t, n, d)
    PROVE  IInv'
<1>. DEFINE js == [jobs EXCEPT ![used + 1] = NewJob(n, NoCamp, d)]
<1>1. /\ co[t].pc = "idle" /\ used + 1 <= MaxJobs /\ used' = used + 1
      /\ jobsTorn' = FALSE /\ Walk(t, js, reg, {used + 1})
      /\ UNCHANGED <<camps, disk, reg, live, pushing, wired, now, crashes>>
      /\ t \in Coros /\ TypeOK
  BY DEF CreateJob, HasRoom, wvars, Coros, IInv
<1>2. /\ used + 1 \in JobIds /\ {used + 1} \subseteq 1 .. used + 1
      /\ used + 1 \in 0 .. MaxJobs /\ 1 .. used \subseteq 1 .. used + 1
      /\ used + 1 \notin 1 .. used
      /\ js \in JobsType /\ Placed(js) /\ Counted(js, used + 1)
  BY <1>1, NewJobFacts
<1>3. \A j \in JobIds \ {used + 1} : js[j] = jobs[j]
  BY DEF IInv, TypeOK
<1>. HIDE DEF js
<1>4. \A j \in JobIds \ {used + 1} :
        js[j].state = "pending" /\ reg'[js[j].node] =>
          \E u \in Coros \ {t} : OwedTo(co, u, j, js[j].node)
  BY <1>1, <1>3, OthersFacts DEF Owes
<1>5. \A u \in Coros \ {t} :
        co[u].pc = "sending" =>
          /\ co[u].job \in 1 .. used' /\ co[u].node = js[co[u].job].node
          /\ co[u].todo \subseteq 1 .. used' /\ js[co[u].job].state # "absent"
  BY <1>1, <1>2, <1>3, OthersFacts
<1>6. WalkInput(t, js, {used + 1})
  BY <1>1, <1>2, <1>4, <1>5, OthersFacts
     DEF WalkInput, TypeOK, IInv, RegIsWired, CampsType
<1>. QED  BY <1>1, <1>6, WalkPreserves

\* Putting a retry in the place of its job changes no campaign's length.
LEMMA RelistedFacts ==
    ASSUME IInv, NEW j \in JobIds, NEW new \in JobIds
    PROVE  /\ Relisted(j, new) \in CampsType
           /\ \A c \in CampIds :
                /\ Relisted(j, new)[c].made = camps[c].made
                /\ Relisted(j, new)[c].nodes = camps[c].nodes
                /\ Len(Relisted(j, new)[c].kids) = Len(camps[c].kids)
<1>1. camps \in CampsType
  BY DEF IInv, TypeOK, CampsType
<1>2. ASSUME NEW c \in CampIds
      PROVE  /\ Relisted(j, new)[c] \in CampRecs
             /\ Relisted(j, new)[c].made = camps[c].made
             /\ Relisted(j, new)[c].nodes = camps[c].nodes
             /\ Len(Relisted(j, new)[c].kids) = Len(camps[c].kids)
  <2>. DEFINE kids == camps[c].kids
              other == [i \in DOMAIN kids |-> IF kids[i] = j THEN new ELSE kids[i]]
  <2>1. kids \in Seq(JobIds)
    BY <1>1 DEF CampsType, CampRecs
  <2>2. Len(kids) \in Nat /\ DOMAIN kids = 1 .. Len(kids)
        /\ \A i \in 1 .. Len(kids) : kids[i] \in JobIds
    <3>. HIDE DEF kids
    <3>. QED  BY <2>1, LenProperties, ElementOfSeq
  <2>3. other \in [1 .. Len(kids) -> JobIds]
    BY <2>2
  <2>4. other \in Seq(JobIds) /\ Len(other) = Len(kids)
    <3>. HIDE DEF other, kids
    <3>1. other \in Seq(JobIds)
      BY <2>2, <2>3, SeqDef
    <3>. QED  BY <2>2, <2>3, <3>1, LenProperties
  <2>5. Relisted(j, new)[c] =
          IF c = jobs[j].camp THEN [camps[c] EXCEPT !.kids = other] ELSE camps[c]
    BY DEF Relisted
  <2>6. camps[c] \in CampRecs
    BY <1>1 DEF CampsType
  <2>. HIDE DEF other
  <2>7. CASE c = jobs[j].camp
    <3>1. Relisted(j, new)[c] = [camps[c] EXCEPT !.kids = other]
      BY <2>5, <2>7
    <3>2. [camps[c] EXCEPT !.kids = other] \in CampRecs
      BY <2>4, <2>6 DEF CampRecs
    <3>3. /\ [camps[c] EXCEPT !.kids = other].kids = other
          /\ [camps[c] EXCEPT !.kids = other].made = camps[c].made
          /\ [camps[c] EXCEPT !.kids = other].nodes = camps[c].nodes
      BY <2>6 DEF CampRecs
    <3>. QED  BY <2>4, <3>1, <3>2, <3>3
  <2>8. CASE c # jobs[j].camp
    BY <2>5, <2>6, <2>8
  <2>. QED  BY <2>7, <2>8
<1>3. Relisted(j, new) \in CampsType
  BY <1>2 DEF Relisted, CampsType
<1>. QED  BY <1>2, <1>3

LEMMA RetryJobStep ==
    ASSUME IInv, NEW t \in Tasks, NEW i \in JobIds, RetryJob(t, i)
    PROVE  IInv'
<1>. DEFINE r == jobs[i]
            js == [jobs EXCEPT ![used + 1] = NewJob(r.node, r.camp, r.deadline)]
<1>1. /\ co[t].pc = "idle" /\ used + 1 <= MaxJobs /\ used' = used + 1
      /\ camps' = Relisted(i, used + 1)
      /\ disk' \in {disk, camps'}
      /\ r.state \in Retryable /\ Walk(t, js, reg, {used + 1})
      /\ UNCHANGED <<jobsTorn, reg, live, pushing, wired, now, crashes>>
      /\ t \in Coros /\ TypeOK
  BY DEF RetryJob, HasRoom, wvars, Coros, IInv, SaveCampaigns
<1>2. r.node \in Nodes /\ r.camp \in CampIds \cup {NoCamp}
      /\ r.deadline \in Deadlines
  BY <1>1 DEF IInv, Placed, Retryable, TypeOK, JobRecs
<1>3. /\ used + 1 \in JobIds /\ {used + 1} \subseteq 1 .. used + 1
      /\ used + 1 \in 0 .. MaxJobs /\ 1 .. used \subseteq 1 .. used + 1
      /\ used + 1 \notin 1 .. used
      /\ js \in JobsType /\ Placed(js) /\ Counted(js, used + 1)
  BY <1>1, <1>2, NewJobFacts
<1>4. \A j \in JobIds \ {used + 1} : js[j] = jobs[j]
  BY DEF IInv, TypeOK
<1>. HIDE DEF js, r
<1>5. /\ camps' \in CampsType /\ disk' \in CampsType
      /\ \A c \in CampIds :
           /\ camps'[c].made = camps[c].made
           /\ camps'[c].nodes = camps[c].nodes
           /\ Len(camps'[c].kids) = Len(camps[c].kids)
  BY <1>1, <1>3, RelistedFacts DEF TypeOK, CampsType
<1>6. \A j \in JobIds \ {used + 1} :
        js[j].state = "pending" /\ reg'[js[j].node] =>
          \E u \in Coros \ {t} : OwedTo(co, u, j, js[j].node)
  BY <1>1, <1>4, OthersFacts DEF Owes
<1>7. \A u \in Coros \ {t} :
        co[u].pc = "sending" =>
          /\ co[u].job \in 1 .. used' /\ co[u].node = js[co[u].job].node
          /\ co[u].todo \subseteq 1 .. used' /\ js[co[u].job].state # "absent"
  BY <1>1, <1>3, <1>4, OthersFacts
<1>8. \A u \in Coros \ {t} :
        co[u].camp # NoCamp =>
          /\ co[u].pc = "sending" /\ co[u].todo = {} /\ camps'[co[u].camp].made
          /\ Len(camps'[co[u].camp].kids) < Len(camps'[co[u].camp].nodes)
          /\ \A v \in Coros \ {t} : co[v].camp = co[u].camp => v = u
  BY <1>1, <1>5, OthersFacts
<1>9. WalkInput(t, js, {used + 1})
  BY <1>1, <1>3, <1>5, <1>6, <1>7, <1>8
     DEF WalkInput, TypeOK, IInv, RegIsWired
<1>. QED  BY <1>1, <1>9, WalkPreserves

\* What a campaign can be made for is a sequence of nodes.
LEMMA ScopesAreSequences == Scopes \subseteq Seq(Nodes)
<1>1. Cardinality(Nodes) \in Nat
  BY FS_CardinalityType, ConstantsAssumption
<1>2. ASSUME NEW k \in 0 .. Cardinality(Nodes)
      PROVE  [1 .. k -> Nodes] \subseteq Seq(Nodes)
  BY <1>1, SeqDef
<1>3. TargetLists \subseteq Seq(Nodes)
  BY <1>2 DEF TargetLists
<1>. QED  BY <1>3 DEF Scopes

LEMMA CreateCampaignStep ==
    ASSUME IInv, NEW t \in Tasks, NEW c \in CampIds, NEW ns \in Scopes,
           NEW d \in Deadlines, CreateCampaign(t, c, ns, d)
    PROVE  IInv'
<1>. DEFINE cs == [camps EXCEPT ![c] = [made |-> TRUE, nodes |-> ns,
                                        kids |-> <<>>, deadline |-> d]]
<1>1. /\ co[t].pc = "idle" /\ ~ camps[c].made
      /\ CampaignRun(t, jobs, reg, cs, c)
      /\ UNCHANGED <<reg, live, pushing, wired, now, crashes>>
      /\ t \in Coros /\ TypeOK
      /\ camps \in CampsType
  BY DEF CreateCampaign, wvars, Coros, IInv, TypeOK, CampsType
<1>2. ns \in Seq(Nodes) /\ <<>> \in Seq(JobIds)
      /\ Len(<<>>) = 0 /\ Len(ns) \in Nat
  BY ScopesAreSequences, LenProperties, EmptySeq
<1>3. /\ cs \in CampsType /\ cs[c].made
      /\ Len(cs[c].kids) <= Len(cs[c].nodes)
      /\ \A e \in CampIds \ {c} : cs[e] = camps[e]
  BY <1>1, <1>2 DEF CampsType, CampRecs
<1>. HIDE DEF cs
<1>4. \A u \in Coros \ {t} :
        co[u].camp # NoCamp =>
          /\ co[u].pc = "sending" /\ co[u].todo = {}
          /\ co[u].camp # c /\ cs[co[u].camp].made
          /\ Len(cs[co[u].camp].kids) < Len(cs[co[u].camp].nodes)
          /\ \A v \in Coros \ {t} : co[v].camp = co[u].camp => v = u
  <2>1. \A u \in Coros \ {t} : co[u].camp # NoCamp => co[u].camp \in CampIds \ {c}
    BY <1>1, OthersFacts
  <2>. QED  BY <1>1, <1>3, <2>1, OthersFacts
<1>5. \A j \in JobIds :
        jobs[j].state = "pending" /\ reg'[jobs[j].node] =>
          \E u \in Coros \ {t} : OwedTo(co, u, j, jobs[j].node)
  BY <1>1, OthersFacts DEF Owes
<1>6. LoopInput(t, jobs, cs, c)
  BY <1>1, <1>3, <1>4, <1>5, OthersFacts
     DEF LoopInput, TypeOK, IInv, RegIsWired, JobsType
<1>. QED  BY <1>1, <1>3, <1>6, CampaignPreserves

\* The end of a send makes no job PENDING, and leaves a PENDING job that was
\* being sent without a registered socket.
LEMMA SendEndFacts ==
    ASSUME IInv, NEW t \in Coros, NEW ok \in BOOLEAN, SendEnds(t, ok),
           reg' = RegAfter(co[t].node, ok)
    PROVE  /\ Delivered(co[t].job, ok) \in JobsType
           /\ Placed(Delivered(co[t].job, ok))
           /\ Counted(Delivered(co[t].job, ok), used)
           /\ reg' \in [Nodes -> BOOLEAN]
           /\ \A n \in Nodes : reg'[n] => wired
           /\ \A u \in Coros \ {t} :
                co[u].pc = "sending" =>
                  /\ co[u].job \in 1 .. used
                  /\ co[u].node = Delivered(co[t].job, ok)[co[u].job].node
                  /\ co[u].todo \subseteq 1 .. used
                  /\ Delivered(co[t].job, ok)[co[u].job].state # "absent"
           /\ \A j \in JobIds :
                /\ j \notin co[t].todo
                /\ Delivered(co[t].job, ok)[j].state = "pending"
                /\ reg'[Delivered(co[t].job, ok)[j].node]
                => \E u \in Coros \ {t} :
                     OwedTo(co, u, j, Delivered(co[t].job, ok)[j].node)
<1>. DEFINE i == co[t].job
            js == Delivered(i, ok)
<1>1. /\ TypeOK /\ jobs \in JobsType /\ reg \in [Nodes -> BOOLEAN]
      /\ co \in [Coros -> CoRecs]
      /\ used \in Nat /\ MaxJobs \in Nat /\ used <= MaxJobs
  BY ConstantsAssumption DEF IInv, TypeOK, JobsType
<1>2. /\ co[t].pc = "sending" /\ i \in 1 .. used
      /\ co[t].node = jobs[i].node /\ jobs[i].state # "absent"
  BY DEF IInv, SendsItsJob, SendEnds
<1>3. i \in JobIds /\ "dispatched" \in States
  BY <1>1, <1>2 DEF JobIds, States
<1>. HIDE DEF i
<1>4. /\ js \in JobsType
      /\ \A j \in JobIds :
           /\ js[j].node = jobs[j].node
           /\ js[j].state = "absent" <=> jobs[j].state = "absent"
           /\ js[j].state = "pending" => jobs[j].state = "pending" /\ ~ (ok /\ j = i)
  <2>1. CASE ok
    <3>1. js = [jobs EXCEPT ![i].state = "dispatched"]
      BY <2>1 DEF Delivered
    <3>2. js \in JobsType
      BY <1>1, <1>3, <3>1 DEF JobsType, JobRecs
    <3>3. js[i] = [jobs[i] EXCEPT !.state = "dispatched"]
          /\ \A j \in JobIds \ {i} : js[j] = jobs[j]
      BY <1>1, <1>3, <3>1 DEF JobsType
    <3>4. js[i].state = "dispatched" /\ js[i].node = jobs[i].node
      BY <1>1, <1>3, <3>3, StateSet
    <3>. QED  BY <1>2, <3>2, <3>3, <3>4
  <2>2. CASE ~ ok
    <3>1. js = jobs
      BY <2>2 DEF Delivered
    <3>. QED  BY <1>1, <2>2, <3>1
  <2>. QED  BY <2>1, <2>2
<1>. HIDE DEF js
<1>5. Placed(js) /\ Counted(js, used)
  BY <1>4 DEF IInv, Placed, Counted
<1>6. /\ reg' \in [Nodes -> BOOLEAN]
      /\ \A n \in Nodes : reg'[n] => reg[n]
      /\ ~ ok => ~ reg'[co[t].node]
  <2>1. CASE ok
    BY <1>1, <2>1 DEF RegAfter
  <2>2. CASE ~ ok
    <3>1. reg' = [reg EXCEPT ![co[t].node] = FALSE]
      BY <2>2 DEF RegAfter
    <3>2. co[t].node \in Nodes
      BY <1>2, <1>3 DEF IInv, Placed
    <3>. QED  BY <1>1, <3>1, <3>2
  <2>. QED  BY <2>1, <2>2
<1>7. \A n \in Nodes : reg'[n] => wired
  BY <1>6 DEF IInv, RegIsWired
<1>8. \A u \in Coros \ {t} :
        co[u].pc = "sending" =>
          /\ co[u].job \in 1 .. used /\ co[u].node = js[co[u].job].node
          /\ co[u].todo \subseteq 1 .. used /\ js[co[u].job].state # "absent"
  BY <1>4, OthersFacts
<1>9. ASSUME NEW j \in JobIds, j \notin co[t].todo,
             js[j].state = "pending", reg'[js[j].node]
      PROVE  \E u \in Coros \ {t} : OwedTo(co, u, j, js[j].node)
  <2>1. jobs[j].state = "pending" /\ js[j].node = jobs[j].node
        /\ jobs[j].node \in Nodes
    BY <1>4, <1>9 DEF IInv, Placed
  <2>2. j # i
    BY <1>2, <1>4, <1>6, <1>9, <2>1
  <2>3. ~ Owes(t, j)
    BY <1>2, <1>9, <2>2 DEF Owes, i
  <2>. QED  BY <1>6, <1>9, <2>1, <2>3, OthersFacts
<1>. QED  BY <1>4, <1>5, <1>6, <1>7, <1>8, <1>9 DEF i, js

LEMMA ResumeLoopStep ==
    ASSUME IInv, NEW t \in Coros, NEW ok \in BOOLEAN, ResumeLoop(t, ok)
    PROVE  IInv'
<1>. DEFINE js == Delivered(co[t].job, ok)
            S == co[t].todo
<1>1. /\ SendEnds(t, ok) /\ reg' = RegAfter(co[t].node, ok)
      /\ Walk(t, js, reg', S)
      /\ UNCHANGED <<used, camps, disk, jobsTorn, live, pushing, wired, now, crashes>>
      /\ TypeOK
  BY DEF ResumeLoop, IInv
<1>2. S \subseteq 1 .. used /\ S \in SUBSET JobIds
  BY <1>1 DEF IInv, SendsItsJob, SendEnds, TypeOK, CoRecs
<1>3. /\ js \in JobsType /\ Placed(js) /\ Counted(js, used)
      /\ reg' \in [Nodes -> BOOLEAN]
      /\ \A n \in Nodes : reg'[n] => wired
      /\ \A u \in Coros \ {t} :
           co[u].pc = "sending" =>
             /\ co[u].job \in 1 .. used /\ co[u].node = js[co[u].job].node
             /\ co[u].todo \subseteq 1 .. used /\ js[co[u].job].state # "absent"
      /\ \A j \in JobIds :
           j \notin S /\ js[j].state = "pending" /\ reg'[js[j].node] =>
             \E u \in Coros \ {t} : OwedTo(co, u, j, js[j].node)
  BY <1>1, SendEndFacts
<1>. HIDE DEF js, S
<1>4. WalkInput(t, js, S)
  BY <1>1, <1>2, <1>3, OthersFacts DEF WalkInput, TypeOK, CampsType
<1>. QED  BY <1>1, <1>4, WalkPreserves

LEMMA ResumeCampaignStep ==
    ASSUME IInv, NEW t \in Coros, NEW ok \in BOOLEAN, ResumeCampaign(t, ok)
    PROVE  IInv'
<1>. DEFINE js == Delivered(co[t].job, ok)
            c == co[t].camp
            i == co[t].job
            cs == [camps EXCEPT ![c].kids = Append(@, i)]
<1>1. /\ SendEnds(t, ok) /\ reg' = RegAfter(co[t].node, ok)
      /\ CampaignRun(t, js, reg', cs, c)
      /\ UNCHANGED <<live, pushing, wired, now, crashes>>
      /\ TypeOK /\ c # NoCamp /\ camps \in CampsType
  BY DEF ResumeCampaign, IInv, TypeOK, CampsType
<1>2. /\ c \in CampIds /\ camps[c].made /\ co[t].todo = {}
      /\ Len(camps[c].kids) < Len(camps[c].nodes)
  BY <1>1 DEF IInv, Builders, TypeOK, CoRecs
<1>3. i \in JobIds
  <2>1. used \in 0 .. MaxJobs /\ MaxJobs \in Nat /\ i \in 1 .. used
    BY <1>1, ConstantsAssumption DEF IInv, TypeOK, SendsItsJob, SendEnds
  <2>. QED  BY <2>1 DEF JobIds
<1>4. /\ js \in JobsType /\ Placed(js) /\ Counted(js, used)
      /\ reg' \in [Nodes -> BOOLEAN]
      /\ \A n \in Nodes : reg'[n] => wired
      /\ \A u \in Coros \ {t} :
           co[u].pc = "sending" =>
             /\ co[u].job \in 1 .. used /\ co[u].node = js[co[u].job].node
             /\ co[u].todo \subseteq 1 .. used /\ js[co[u].job].state # "absent"
      /\ \A j \in JobIds :
           js[j].state = "pending" /\ reg'[js[j].node] =>
             \E u \in Coros \ {t} : OwedTo(co, u, j, js[j].node)
  BY <1>1, <1>2, SendEndFacts
<1>. HIDE DEF js, c, i
<1>5. /\ cs \in CampsType /\ cs[c].made
      /\ Len(cs[c].kids) <= Len(cs[c].nodes)
      /\ \A e \in CampIds \ {c} : cs[e] = camps[e]
  <2>. DEFINE old == camps[c].kids
              more == Append(old, i)
  <2>1. old \in Seq(JobIds) /\ camps[c].nodes \in Seq(Nodes)
    BY <1>1, <1>2 DEF CampsType, CampRecs
  <2>. HIDE DEF old
  <2>2. more \in Seq(JobIds) /\ Len(more) = Len(old) + 1
    BY <1>3, <2>1, AppendProperties
  <2>3. Len(old) \in Nat /\ Len(camps[c].nodes) \in Nat
    BY <2>1, LenProperties
  <2>. HIDE DEF more
  <2>4. Len(more) <= Len(camps[c].nodes)
    BY <1>2, <2>2, <2>3 DEF old
  <2>5. cs = [camps EXCEPT ![c].kids = more]
    BY DEF more, old
  <2>. HIDE DEF cs
  <2>6. cs \in CampsType
    BY <1>1, <1>2, <2>2, <2>5 DEF CampsType, CampRecs
  <2>7. cs[c].made = camps[c].made /\ cs[c].nodes = camps[c].nodes
        /\ cs[c].kids = more
    BY <1>1, <1>2, <2>5 DEF CampsType, CampRecs
  <2>8. \A e \in CampIds \ {c} : cs[e] = camps[e]
    BY <1>1, <2>5 DEF CampsType
  <2>. QED  BY <1>2, <2>4, <2>6, <2>7, <2>8
<1>. HIDE DEF cs
<1>6. \A u \in Coros \ {t} :
        co[u].camp # NoCamp =>
          /\ co[u].pc = "sending" /\ co[u].todo = {}
          /\ co[u].camp # c /\ cs[co[u].camp].made
          /\ Len(cs[co[u].camp].kids) < Len(cs[co[u].camp].nodes)
          /\ \A v \in Coros \ {t} : co[v].camp = co[u].camp => v = u
  <2>1. \A u \in Coros \ {t} : co[u].camp # NoCamp => co[u].camp \in CampIds \ {c}
    BY OthersFacts DEF c
  <2>. QED  BY <1>5, <2>1, OthersFacts
<1>7. LoopInput(t, js, cs, c)
  BY <1>1, <1>4, <1>5, <1>6 DEF LoopInput, TypeOK
<1>. QED  BY <1>1, <1>2, <1>5, <1>7, CampaignPreserves

-----------------------------------------------------------------------------
(* The actions that only change the states of jobs.                        *)

\* A step that makes and unmakes no job, moves none and makes none PENDING
\* preserves the invariant.
LEMMA StatesPreserve ==
    ASSUME IInv, jobs' \in JobsType,
           \A j \in JobIds :
                /\ jobs'[j].node = jobs[j].node
                /\ jobs'[j].state = "absent" <=> jobs[j].state = "absent"
                /\ jobs'[j].state = "pending" => jobs[j].state = "pending",
           UNCHANGED <<used, camps, disk, jobsTorn, co, wvars, evars>>
    PROVE  IInv'
<1>1. /\ used' = used /\ camps' = camps /\ disk' = disk /\ jobsTorn' = jobsTorn
      /\ co' = co /\ reg' = reg /\ live' = live /\ wired' = wired
      /\ pushing' = pushing
      /\ now' = now /\ sent' = sent /\ crashes' = crashes
  BY DEF wvars, evars
<1>2. TypeOK'
  BY <1>1 DEF IInv, TypeOK, JobsType
<1>3. Placed(jobs)' /\ Counted(jobs, used)' /\ Builders(co, camps)' /\ RegIsWired'
  BY <1>1 DEF IInv, Placed, Counted, Builders, RegIsWired
<1>4. \A u \in Coros : SendsItsJob(u, jobs, co)'
  <2>1. used \in 0 .. MaxJobs /\ MaxJobs \in Nat
    BY ConstantsAssumption DEF IInv, TypeOK
  <2>2. \A j \in 1 .. used : j \in JobIds
    BY <2>1 DEF JobIds
  <2>. QED  BY <1>1, <2>2 DEF IInv, SendsItsJob
<1>5. PendingIsOwed'
  BY <1>1 DEF IInv, PendingIsOwed, Owes
<1>. QED  BY <1>2, <1>3, <1>4, <1>5 DEF IInv

\* The acknowledgement, progress or result of a job.
LEMMA ReportStep ==
    ASSUME IInv, NEW j \in JobIds, NEW r \in Results,
           HandleAck(j) \/ HandleProgress(j) \/ HandleResult(j, r)
    PROVE  IInv'
<1>1. PICK s \in States \ {"absent", "pending"} :
        /\ jobs[j].state # "absent"
        /\ jobs' = [jobs EXCEPT ![j].state = s]
        /\ UNCHANGED <<used, camps, disk, jobsTorn, co, wvars, evars>>
  <2>1. /\ r \in States \ {"absent", "pending"}
        /\ {"dispatched", "running"} \subseteq States \ {"absent", "pending"}
    BY DEF Results, States, Terminal
  <2>. QED  BY <2>1 DEF HandleAck, HandleProgress, HandleResult, Exists
<1>2. jobs \in JobsType
  BY DEF IInv, TypeOK, JobsType
<1>3. /\ jobs'[j].state = s /\ jobs'[j].node = jobs[j].node
      /\ \A k \in JobIds \ {j} : jobs'[k] = jobs[k]
      /\ jobs' \in JobsType
  BY <1>1, <1>2 DEF JobsType, JobRecs
<1>. QED  BY <1>1, <1>3, StatesPreserve

\* CancelJob, CancelCampaign and the deadline's pass give the jobs of a set,
\* none of them absent, a terminal state.
LEMMA CloseStep ==
    ASSUME IInv, NEW S, NEW s \in {"cancelled", "skipped"},
           \A j \in S : jobs[j].state # "absent",
           jobs' = [j \in JobIds |-> IF j \in S
                                    THEN [jobs[j] EXCEPT !.state = s]
                                    ELSE jobs[j]],
           UNCHANGED <<used, camps, disk, jobsTorn, co, wvars, evars>>
    PROVE  IInv'
<1>1. jobs \in JobsType /\ s \in States /\ s # "absent" /\ s # "pending"
  BY DEF IInv, TypeOK, JobsType, States, Terminal
<1>2. ASSUME NEW j \in JobIds
      PROVE  /\ jobs'[j] \in JobRecs
             /\ jobs'[j].node = jobs[j].node
             /\ jobs'[j].state = "absent" <=> jobs[j].state = "absent"
             /\ jobs'[j].state = "pending" => jobs[j].state = "pending"
  <2>1. CASE j \in S
    <3>1. jobs'[j] = [jobs[j] EXCEPT !.state = s]
      BY <2>1
    <3>2. jobs'[j] \in JobRecs /\ jobs'[j].state = s /\ jobs'[j].node = jobs[j].node
      BY <1>1, <3>1 DEF JobsType, JobRecs
    <3>3. jobs[j].state # "absent"
      BY <2>1
    <3>. QED  BY <1>1, <3>2, <3>3
  <2>2. CASE j \notin S
    BY <1>1, <2>2 DEF JobsType
  <2>. QED  BY <2>1, <2>2
<1>3. jobs' \in JobsType
  BY <1>2 DEF JobsType
<1>. QED  BY <1>2, <1>3, StatesPreserve

LEMMA CancelStep ==
    ASSUME IInv, NEW T, jobs' = Cancelled(T),
           UNCHANGED <<used, camps, disk, jobsTorn, co, wvars, evars>>
    PROVE  IInv'
<1>. DEFINE S == {j \in JobIds : j \in T /\
                      jobs[j].state \in {"pending", "dispatched", "running"}}
<1>1. jobs' = [j \in JobIds |-> IF j \in S
                               THEN [jobs[j] EXCEPT !.state = "cancelled"]
                               ELSE jobs[j]]
  BY DEF Cancelled
<1>2. \A j \in S : jobs[j].state # "absent"
  OBVIOUS
<1>. HIDE DEF S
<1>. QED  BY <1>1, <1>2, CloseStep

LEMMA DeadlineStep ==
    ASSUME IInv, DeadlinePass
    PROVE  IInv'
<1>. DEFINE S == {j \in JobIds : jobs[j].state = "pending"
                                /\ Expired(jobs[j].deadline)}
<1>1. /\ jobs' = [j \in JobIds |-> IF j \in S
                               THEN [jobs[j] EXCEPT !.state = "skipped"]
                               ELSE jobs[j]]
      /\ UNCHANGED <<used, camps, disk, jobsTorn, co, wvars, evars>>
  BY DEF DeadlinePass
<1>2. \A j \in S : jobs[j].state # "absent"
  OBVIOUS
<1>. HIDE DEF S
<1>. QED  BY <1>1, <1>2, CloseStep

-----------------------------------------------------------------------------
(* Requeue, the config WebSockets, time and restarts.                      *)

LEMMA RequeueJobStep ==
    ASSUME IInv, NEW i \in JobIds, RequeueJob(i)
    PROVE  IInv'
<1>. DEFINE js == [jobs EXCEPT ![i].state = "pending"]
<1>1. /\ co[Requeuer].pc = "idle" /\ jobs[i].state = "dispatched"
      /\ Walk(Requeuer, js, reg, {i})
      /\ UNCHANGED <<used, camps, disk, jobsTorn, reg, live, pushing, wired, now, crashes>>
      /\ Requeuer \in Coros /\ TypeOK /\ jobs \in JobsType
  BY DEF RequeueJob, wvars, Coros, IInv, TypeOK, JobsType
<1>2. /\ js \in JobsType /\ js[i].node = jobs[i].node /\ js[i].state = "pending"
      /\ \A j \in JobIds \ {i} : js[j] = jobs[j]
  BY <1>1 DEF JobsType, JobRecs, States
<1>. HIDE DEF js
<1>3. Placed(js) /\ Counted(js, used) /\ {i} \subseteq 1 .. used
  BY <1>1, <1>2 DEF IInv, Placed, Counted
<1>4. \A u \in Coros \ {Requeuer} :
        co[u].pc = "sending" =>
          /\ co[u].job \in 1 .. used /\ co[u].node = js[co[u].job].node
          /\ co[u].todo \subseteq 1 .. used /\ js[co[u].job].state # "absent"
  BY <1>1, <1>2, OthersFacts
<1>5. \A j \in JobIds \ {i} :
        js[j].state = "pending" /\ reg'[js[j].node] =>
          \E u \in Coros \ {Requeuer} : OwedTo(co, u, j, js[j].node)
  BY <1>1, <1>2, OthersFacts DEF Owes
<1>6. WalkInput(Requeuer, js, {i})
  BY <1>1, <1>2, <1>3, <1>4, <1>5, OthersFacts
     DEF WalkInput, TypeOK, IInv, RegIsWired, CampsType
<1>. QED  BY <1>1, <1>6, WalkPreserves

LEMMA NodeConnectedStep ==
    ASSUME IInv, NEW t \in Tasks, NodeConnected(t)
    PROVE  IInv'
<1>. DEFINE S == {j \in JobIds : jobs[j].state = "pending"
                                /\ jobs[j].node = co[t].node}
<1>1. /\ co[t].pc = "spawned" /\ Walk(t, jobs, reg, S)
      /\ UNCHANGED <<used, camps, disk, jobsTorn, reg, live, pushing, wired, now, crashes>>
      /\ t \in Coros /\ TypeOK
  BY DEF NodeConnected, wvars, Coros, IInv
<1>2. S \in SUBSET JobIds /\ S \subseteq 1 .. used
  BY DEF IInv, Counted
<1>3. \A j \in JobIds \ S :
        jobs[j].state = "pending" /\ reg'[jobs[j].node] =>
          \E u \in Coros \ {t} : OwedTo(co, u, j, jobs[j].node)
  BY <1>1, OthersFacts DEF Owes
<1>. HIDE DEF S
<1>4. WalkInput(t, jobs, S)
  BY <1>1, <1>2, <1>3, OthersFacts
     DEF WalkInput, TypeOK, IInv, RegIsWired, CampsType, JobsType
<1>. QED  BY <1>1, <1>4, WalkPreserves

\* What a coroutine is after its socket was cut, but for its old mark.
SameSend(u) ==
    /\ co'[u].pc = co[u].pc /\ co'[u].node = co[u].node
    /\ co'[u].job = co[u].job /\ co'[u].todo = co[u].todo
    /\ co'[u].camp = co[u].camp

LEMMA CutFacts ==
    ASSUME co \in [Coros -> CoRecs], NEW n \in Nodes \cup {NoNode}
    PROVE  /\ Cut(n) \in [Coros -> CoRecs]
           /\ \A u \in Coros : co'[u] = Cut(n)[u] => SameSend(u)
<1>1. ASSUME NEW u \in Coros
      PROVE  Cut(n)[u] \in CoRecs /\ (co'[u] = Cut(n)[u] => SameSend(u))
  <2>1. co[u] \in CoRecs
    OBVIOUS
  <2>2. CASE Cut(n)[u] = co[u]
    BY <2>1, <2>2 DEF SameSend
  <2>3. CASE Cut(n)[u] = [co[u] EXCEPT !.old = TRUE]
    BY <2>1, <2>3 DEF SameSend, CoRecs
  <2>. QED  BY <2>2, <2>3 DEF Cut
<1>. QED  BY <1>1 DEF Cut

\* A step on the sockets of n by an idle or closing t, or by no coroutine, that
\* registers n at most for t, which comes to look for the jobs of n then.
SocketInput(n) ==
    /\ jobs' = jobs /\ used' = used /\ camps' = camps /\ disk' = disk
    /\ jobsTorn' = jobsTorn /\ now' = now /\ sent' = sent /\ crashes' = crashes
    /\ co' \in [Coros -> CoRecs] /\ reg' \in [Nodes -> BOOLEAN]
    /\ live' \in [Nodes -> BOOLEAN] /\ pushing' \subseteq Nodes
    /\ wired' = wired \/ wired' = TRUE
    /\ \A m \in Nodes : reg'[m] => reg[m] \/ (m = n /\ wired' = TRUE)
    /\ \A u \in Coros :
         \/ SameSend(u)
         \/ /\ co[u].pc \in {"idle", "closing"}
            /\ co'[u].pc \in {"closing", "spawned"} /\ co'[u].camp = NoCamp
    /\ n \in Nodes /\ reg'[n] =>
         \/ reg[n]
         \/ \E t \in Coros : co'[t].pc = "spawned" /\ co'[t].node = n

LEMMA SocketPreserves ==
    ASSUME IInv, NEW n \in Nodes \cup {NoNode}, SocketInput(n)
    PROVE  IInv'
<1>1. TypeOK'
  BY DEF IInv, TypeOK, SocketInput
<1>2. Placed(jobs)' /\ Counted(jobs, used)' /\ RegIsWired'
  BY DEF IInv, Placed, Counted, RegIsWired, SocketInput
<1>3. Builders(co, camps)'
  BY DEF IInv, Builders, SameSend, SocketInput
<1>4. \A u \in Coros : SendsItsJob(u, jobs, co)'
  BY DEF IInv, SendsItsJob, SameSend, SocketInput
<1>5. ASSUME NEW j \in JobIds, jobs[j].state = "pending", reg'[jobs[j].node]
      PROVE  \E u \in Coros : Owes(u, j)'
  <2>1. jobs[j].node \in Nodes
    BY <1>5 DEF IInv, Placed
  <2>2. CASE reg[jobs[j].node]
    <3>1. PICK u \in Coros : Owes(u, j)
      BY <1>5, <2>2 DEF IInv, PendingIsOwed
    <3>2. SameSend(u)
      BY <3>1 DEF Owes, SocketInput
    <3>3. Owes(u, j)'
      BY <3>1, <3>2 DEF Owes, SameSend, SocketInput
    <3>. QED  BY <3>3
  <2>3. CASE ~ reg[jobs[j].node]
    <3>1. jobs[j].node = n
      BY <1>5, <2>1, <2>3 DEF SocketInput
    <3>2. PICK t \in Coros : co'[t].pc = "spawned" /\ co'[t].node = n
      BY <1>5, <2>1, <2>3, <3>1 DEF SocketInput
    <3>3. Owes(t, j)'
      BY <3>1, <3>2 DEF Owes, SocketInput
    <3>. QED  BY <3>3
  <2>. QED  BY <2>2, <2>3
<1>6. PendingIsOwed'
  BY <1>5 DEF PendingIsOwed, SocketInput
<1>. QED  BY <1>1, <1>2, <1>3, <1>4, <1>6 DEF IInv

\* A handler that comes to be `new` while the sends to n are cut.
LEMMA HandlerFacts ==
    ASSUME IInv, NEW t \in Coros, NEW n \in Nodes \cup {NoNode},
           co[t].pc \in {"idle", "closing"}, NEW pc \in {"closing", "spawned"},
           co' = [Cut(n) EXCEPT ![t] = [Idle EXCEPT !.pc = pc, !.node = n]]
    PROVE  /\ co' \in [Coros -> CoRecs]
           /\ co'[t].pc = pc /\ co'[t].node = n /\ co'[t].camp = NoCamp
           /\ \A u \in Coros \ {t} : SameSend(u)
<1>. DEFINE new == [Idle EXCEPT !.pc = pc, !.node = n]
<1>1. /\ new \in CoRecs /\ new.pc = pc /\ new.node = n
      /\ new.camp = NoCamp
  BY DEF Idle, CoRecs, NoJob
<1>. HIDE DEF new
<1>2. co \in [Coros -> CoRecs]
  BY DEF IInv, TypeOK
<1>3. Cut(n) \in [Coros -> CoRecs]
      /\ \A u \in Coros : co'[u] = Cut(n)[u] => SameSend(u)
  BY <1>2, CutFacts
<1>4. co' = [Cut(n) EXCEPT ![t] = new]
  BY DEF new
<1>. QED  BY <1>1, <1>3, <1>4

LEMMA RegistersStep ==
    ASSUME IInv, NEW t \in Coros, NEW n \in Nodes \cup {NoNode},
           co[t].pc \in {"idle", "closing"}, Registers(t, n)
    PROVE  IInv'
<1>1. /\ co' \in [Coros -> CoRecs]
      /\ co'[t].pc = "spawned" /\ co'[t].node = n /\ co'[t].camp = NoCamp
      /\ \A u \in Coros \ {t} : SameSend(u)
  BY HandlerFacts DEF Registers
<1>2. SocketInput(n)
  BY <1>1 DEF SocketInput, Registers, qvars, evars, IInv, TypeOK
<1>. QED  BY <1>2, SocketPreserves

LEMMA ConnectStep ==
    ASSUME IInv, NEW t \in Tasks, NEW n \in Nodes,
           Connect(t, n) \/ Replaces(t, n)
    PROVE  IInv'
<1>1. t \in Coros
  BY DEF Coros
<1>2. CASE Connect(t, n)
  BY <1>1, <1>2, RegistersStep DEF Connect
<1>3. CASE Replaces(t, n)
  <2>1. /\ co' \in [Coros -> CoRecs]
        /\ co'[t].pc = "closing" /\ co'[t].camp = NoCamp
        /\ \A u \in Coros \ {t} : SameSend(u)
    BY <1>1, <1>3, HandlerFacts DEF Replaces
  <2>2. SocketInput(n)
    BY <1>1, <1>3, <2>1 DEF SocketInput, Replaces, qvars, evars, IInv, TypeOK
  <2>. QED  BY <2>2, SocketPreserves
<1>. QED  BY <1>2, <1>3

LEMMA ClosedStep ==
    ASSUME IInv, NEW t \in Tasks, Closed(t)
    PROVE  IInv'
<1>1. t \in Coros /\ co[t].pc = "closing" /\ Registers(t, co[t].node)
  BY DEF Closed, Coros
<1>2. co[t].node \in Nodes \cup {NoNode}
  BY <1>1 DEF IInv, TypeOK, CoRecs
<1>. QED  BY <1>1, <1>2, RegistersStep

LEMMA PushFailsStep ==
    ASSUME IInv, NEW n \in Nodes, PushFails(n)
    PROVE  IInv'
<1>1. \A u \in Coros : SameSend(u)
  BY DEF PushFails, SameSend
<1>2. SocketInput(n)
  BY <1>1 DEF SocketInput, PushFails, qvars, evars, IInv, TypeOK
<1>. QED  BY <1>2, SocketPreserves

LEMMA DisconnectStep ==
    ASSUME IInv, NEW n \in Nodes, Disconnect(n)
    PROVE  IInv'
<1>1. co' \in [Coros -> CoRecs] /\ \A u \in Coros : SameSend(u)
  BY CutFacts DEF Disconnect, IInv, TypeOK
<1>2. SocketInput(n)
  BY <1>1 DEF SocketInput, Disconnect, qvars, evars, IInv, TypeOK
<1>. QED  BY <1>2, SocketPreserves

\* A restart leaves no coroutine and no socket.
LEMMA ReloadPreserves ==
    ASSUME IInv, NEW js \in JobsType, NEW cs \in CampsType, NEW torn \in BOOLEAN,
           used' \in 0 .. MaxJobs, Placed(js), Counted(js, used'),
           Reload(js, cs, torn)
    PROVE  IInv'
<1>1. /\ jobs' = IF torn THEN [j \in JobIds |-> Absent] ELSE js
      /\ camps' = IF torn THEN [c \in CampIds |-> NoCampaign] ELSE cs
      /\ disk' = cs /\ jobsTorn' = torn
      /\ co' = [t \in Coros |-> Idle]
      /\ reg' = [n \in Nodes |-> FALSE] /\ live' = [n \in Nodes |-> FALSE]
      /\ pushing' = {} /\ wired' = FALSE /\ now' = now /\ sent' = sent
      /\ crashes < MaxCrashes /\ crashes' = crashes + 1
  BY DEF Reload
<1>2. Idle \in CoRecs /\ Idle.pc = "idle" /\ Idle.camp = NoCamp
  BY DEF Idle, CoRecs, NoJob
<1>3. Absent \in JobRecs /\ Absent.state = "absent"
  BY ConstantsAssumption DEF Absent, JobRecs, States, Deadlines, NoDeadline
<1>4. NoCampaign \in CampRecs
  BY ConstantsAssumption, EmptySeq
     DEF NoCampaign, CampRecs, Deadlines, NoDeadline
<1>. HIDE DEF Absent, Idle, NoCampaign
<1>5. jobs' \in JobsType /\ Placed(jobs)' /\ Counted(jobs, used)'
  <2>1. CASE torn
    BY <1>1, <1>3, <2>1 DEF JobsType, Placed, Counted
  <2>2. CASE ~ torn
    BY <1>1, <2>2 DEF Placed, Counted
  <2>. QED  BY <2>1, <2>2
<1>6. camps' \in CampsType
  <2>1. CASE torn
    BY <1>1, <1>4, <2>1 DEF CampsType
  <2>2. CASE ~ torn
    BY <1>1, <2>2
  <2>. QED  BY <2>1, <2>2
<1>7. crashes' \in 0 .. MaxCrashes
  BY <1>1, ConstantsAssumption DEF IInv, TypeOK
<1>8. co' \in [Coros -> CoRecs] /\ \A u \in Coros : co'[u] = Idle
  BY <1>1, <1>2
<1>9. TypeOK'
  BY <1>1, <1>5, <1>6, <1>7, <1>8 DEF IInv, TypeOK, JobsType, CampsType
<1>10. Builders(co, camps)' /\ \A u \in Coros : SendsItsJob(u, jobs, co)'
  BY <1>2, <1>8 DEF Builders, SendsItsJob
<1>11. \A n \in Nodes : ~ reg'[n]
  BY <1>1
<1>12. RegIsWired' /\ PendingIsOwed'
  BY <1>5, <1>11 DEF RegIsWired, PendingIsOwed, Placed
<1>. QED  BY <1>5, <1>9, <1>10, <1>12 DEF IInv

LEMMA CrashStep ==
    ASSUME IInv, NEW a \in BOOLEAN, NEW b \in BOOLEAN, Crash(a, b)
    PROVE  IInv'
<1>. DEFINE cs == IF b THEN [c \in CampIds |-> NoCampaign] ELSE disk
            torn == jobsTorn \/ a
<1>1. used' = used /\ Reload(jobs, cs, torn)
  BY DEF Crash
<1>2. NoCampaign \in CampRecs
  BY ConstantsAssumption, EmptySeq
     DEF NoCampaign, CampRecs, Deadlines, NoDeadline
<1>3. cs \in CampsType
  <2>1. CASE b
    BY <1>2, <2>1 DEF CampsType
  <2>2. CASE ~ b
    BY <2>2 DEF IInv, TypeOK, CampsType
  <2>. QED  BY <2>1, <2>2
<1>4. /\ torn \in BOOLEAN /\ jobs \in JobsType /\ used' \in 0 .. MaxJobs
      /\ Placed(jobs) /\ Counted(jobs, used')
  BY <1>1 DEF IInv, TypeOK, JobsType
<1>. HIDE DEF cs, torn
<1>. QED  BY <1>1, <1>3, <1>4, ReloadPreserves

LEMMA CrashInRetryStep ==
    ASSUME IInv, NEW j \in JobIds, CrashInRetry(j)
    PROVE  IInv'
<1>1. /\ used + 1 <= MaxJobs /\ used' = used + 1
      /\ Reload(jobs, Relisted(j, used + 1), jobsTorn)
  BY DEF CrashInRetry, HasRoom
<1>2. used \in Nat /\ MaxJobs \in Nat
  BY ConstantsAssumption DEF IInv, TypeOK
<1>3. used' \in 0 .. MaxJobs /\ used + 1 \in JobIds
      /\ 1 .. used \subseteq 1 .. used'
  BY <1>1, <1>2 DEF JobIds
<1>4. Relisted(j, used + 1) \in CampsType
  BY <1>3, RelistedFacts
<1>5. /\ jobs \in JobsType /\ Placed(jobs) /\ Counted(jobs, used')
      /\ jobsTorn \in BOOLEAN
  BY <1>3 DEF IInv, TypeOK, JobsType, Counted
<1>. QED  BY <1>1, <1>3, <1>4, <1>5, ReloadPreserves

LEMMA TickStep ==
    ASSUME IInv, Tick
    PROVE  IInv'
<1>1. /\ now' \in 1 .. MaxNow + 1
      /\ UNCHANGED <<jobs, used, camps, disk, jobsTorn, co, reg, live, pushing,
                     wired, sent, crashes>>
  BY ConstantsAssumption DEF Tick, qvars, wvars, IInv, TypeOK
<1>2. TypeOK'
  BY <1>1 DEF IInv, TypeOK
<1>3. /\ Placed(jobs)' /\ Counted(jobs, used)' /\ Builders(co, camps)'
      /\ RegIsWired' /\ PendingIsOwed'
      /\ \A u \in Coros : SendsItsJob(u, jobs, co)'
  BY <1>1 DEF IInv, Placed, Counted, Builders, RegIsWired, PendingIsOwed, Owes,
              SendsItsJob
<1>. QED  BY <1>2, <1>3 DEF IInv

-----------------------------------------------------------------------------
(* The theorems.                                                           *)

LEMMA InitInvariant == Init => IInv
<1>. SUFFICES ASSUME Init PROVE IInv
  OBVIOUS
<1>1. Idle \in CoRecs /\ Idle.pc = "idle" /\ Idle.camp = NoCamp
  BY DEF Idle, CoRecs, NoJob
<1>2. Absent \in JobRecs /\ Absent.state = "absent"
  BY ConstantsAssumption DEF Absent, JobRecs, States, Deadlines, NoDeadline
<1>3. NoCampaign \in CampRecs
  BY ConstantsAssumption, EmptySeq
     DEF NoCampaign, CampRecs, Deadlines, NoDeadline
<1>4. 0 \in 0 .. MaxJobs /\ 0 \in 0 .. MaxCrashes /\ 1 \in 1 .. MaxNow + 1
  BY ConstantsAssumption
<1>. HIDE DEF Absent, Idle, NoCampaign
<1>5. TypeOK
  BY <1>1, <1>2, <1>3, <1>4 DEF Init, TypeOK
<1>6. /\ Placed(jobs) /\ Counted(jobs, used) /\ Builders(co, camps)
      /\ \A u \in Coros : SendsItsJob(u, jobs, co)
      /\ RegIsWired /\ PendingIsOwed
  BY <1>1, <1>2 DEF Init, Placed, Counted, Builders, SendsItsJob, RegIsWired,
                    PendingIsOwed
<1>. QED  BY <1>5, <1>6 DEF IInv

LEMMA StutterStep ==
    ASSUME IInv, UNCHANGED vars
    PROVE  IInv'
<1>1. UNCHANGED <<jobs, used, camps, disk, jobsTorn, co, reg, live, pushing, wired, now,
                  sent, crashes>>
  BY DEF vars
<1>2. TypeOK'
  BY <1>1 DEF IInv, TypeOK
<1>3. /\ Placed(jobs)' /\ Counted(jobs, used)' /\ Builders(co, camps)'
      /\ RegIsWired' /\ PendingIsOwed'
      /\ \A u \in Coros : SendsItsJob(u, jobs, co)'
  BY <1>1 DEF IInv, Placed, Counted, Builders, RegIsWired, PendingIsOwed, Owes,
              SendsItsJob
<1>. QED  BY <1>2, <1>3 DEF IInv

LEMMA NewInRange == NewDeadlines \subseteq Deadlines
BY ConstantsAssumption DEF Deadlines

LEMMA NextInvariant == IInv /\ [Next]_vars => IInv'
<1>. SUFFICES ASSUME IInv, [Next]_vars PROVE IInv'
  OBVIOUS
<1>1. ASSUME NEW t \in Tasks, NEW n \in SoloNodes, NEW d \in Deadlines,
             CreateJob(t, n, d)
      PROVE  IInv'
  BY <1>1, CreateJobStep, ConstantsAssumption
<1>2. ASSUME NEW t \in Tasks, NEW c \in CampIds, NEW ns \in Scopes,
             NEW d \in Deadlines, CreateCampaign(t, c, ns, d)
      PROVE  IInv'
  BY <1>2, CreateCampaignStep
<1>3. ASSUME NEW t \in Tasks, NEW j \in JobIds, RetryJob(t, j)
      PROVE  IInv'
  BY <1>3, RetryJobStep
<1>4. ASSUME NEW t \in Coros, Resume(t)
      PROVE  IInv'
  BY <1>4, ResumeLoopStep, ResumeCampaignStep DEF Resume
<1>5. ASSUME NEW j \in JobIds, HandleAck(j) \/ HandleProgress(j)
      PROVE  IInv'
  <2>1. "completed" \in Results
    BY DEF Results
  <2>. QED  BY <1>5, <2>1, ReportStep
<1>6. ASSUME NEW j \in JobIds, NEW r \in Results, HandleResult(j, r)
      PROVE  IInv'
  BY <1>6, ReportStep
<1>7. ASSUME NEW j \in JobIds, CancelJob(j)
      PROVE  IInv'
  BY <1>7, CancelStep DEF CancelJob
<1>8. ASSUME NEW c \in CampIds, CancelCampaign(c)
      PROVE  IInv'
  BY <1>8, CancelStep DEF CancelCampaign
<1>9. CASE DeadlinePass
  BY <1>9, DeadlineStep
<1>10. ASSUME NEW j \in JobIds, RequeueJob(j)
       PROVE  IInv'
  BY <1>10, RequeueJobStep
<1>11. ASSUME NEW t \in Tasks, NEW n \in Nodes, Connect(t, n) \/ Replaces(t, n)
       PROVE  IInv'
  BY <1>11, ConnectStep
<1>12. ASSUME NEW t \in Tasks, Closed(t) \/ NodeConnected(t)
       PROVE  IInv'
  BY <1>12, ClosedStep, NodeConnectedStep
<1>13. ASSUME NEW n \in Nodes, PushFails(n) \/ Disconnect(n)
       PROVE  IInv'
  BY <1>13, PushFailsStep, DisconnectStep
<1>14. CASE Tick
  BY <1>14, TickStep
<1>15. ASSUME NEW a \in BOOLEAN, NEW b \in BOOLEAN, Crash(a, b)
       PROVE  IInv'
  BY <1>15, CrashStep
<1>16. ASSUME NEW j \in JobIds, CrashInRetry(j)
       PROVE  IInv'
  BY <1>16, CrashInRetryStep
<1>17. CASE UNCHANGED vars
  BY <1>17, StutterStep
<1>. QED
  BY NewInRange, <1>1, <1>2, <1>3, <1>4, <1>5, <1>6, <1>7, <1>8, <1>9, <1>10,
     <1>11, <1>12, <1>13, <1>14, <1>15, <1>16, <1>17 DEF Next

LEMMA QueueInvariant == Spec => []IInv
BY InitInvariant, NextInvariant, PTL DEF Spec

\* Of JobQueue._jobs and its coroutines: whatever the interleaving of calls,
\* reports, sockets and restarts, every record stays a record of its type, and
\* create_campaign never allocates beyond the ids reserved for it.
THEOREM QueueTyped == Spec => []TypeOK
<1>1. IInv => TypeOK
  BY DEF IInv
<1>. QED  BY <1>1, QueueInvariant, PTL

\* Of _try_dispatch, on_node_connected and _jq_dispatch: a job that is PENDING
\* while its node has a registered socket is in the hands of a coroutine that
\* will send it or try to.
THEOREM PendingOwed == Spec => []PendingIsOwed
<1>1. IInv => PendingIsOwed
  BY DEF IInv
<1>. QED  BY <1>1, QueueInvariant, PTL

-----------------------------------------------------------------------------
(* What reopens a job.                                                     *)

\* Job j leaves a terminal state because a send of it returns.
LateSend(j) ==
    \E t \in Coros : co[t].pc = "sending" /\ co[t].job = j
                     /\ jobs'[j].state = "dispatched"

\* The body of ReopenedOnlyByLateSend.
Reopening ==
    \A j \in JobIds :
        jobs[j].state \in Terminal /\ jobs'[j].state # jobs[j].state =>
            LateSend(j) \/ crashes' # crashes

LEMMA LiveStates ==
    {"absent", "pending", "dispatched", "running"} \cap Terminal = {}
BY DEF Terminal

LEMMA SettledCloses ==
    ASSUME NEW js \in JobsType, NEW S
    PROVE  \A j \in JobIds : js[j].state # "pending" =>
                                Settled(js, S)[j].state = js[j].state
BY DEF Settled

\* A walk from js changes no state but PENDING.
LEMMA WalkCloses ==
    ASSUME NEW t, NEW js \in JobsType, NEW rg, NEW S, Walk(t, js, rg, S)
    PROVE  \A j \in JobIds : js[j].state # "pending" =>
                                jobs'[j].state = js[j].state
<1>1. \E R : jobs' = Settled(js, R)
  <2>1. CASE WalkEnds(t, js, rg, S)
    BY <2>1 DEF WalkEnds
  <2>2. ASSUME NEW j, WalkSends(j, js, rg, S)
        PROVE  \E R : jobs' = Settled(js, R)
    BY <2>2 DEF WalkSends
  <2>. QED  BY <2>1, <2>2 DEF Walk
<1>. QED  BY <1>1, SettledCloses

\* The children that a campaign creates take ids that no job has.
LEMMA CampaignCloses ==
    ASSUME TypeOK, NEW js \in JobsType, Counted(js, used), NEW t, NEW rg,
           NEW cs, NEW c, CampaignRun(t, js, rg, cs, c)
    PROVE  \A j \in JobIds :
                js[j].state \notin {"absent", "pending"} =>
                    jobs'[j].state = js[j].state
<1>1. used \in Nat
  BY DEF TypeOK
<1>2. PICK k, S : jobs' = Settled(Born(js, cs, c, k), S)
  BY DEF CampaignRun, CampaignEnds, CampaignSends
<1>. SUFFICES ASSUME NEW j \in JobIds, js[j].state \notin {"absent", "pending"}
              PROVE  jobs'[j].state = js[j].state
  OBVIOUS
<1>3. j \in 1 .. used
  BY DEF Counted
<1>4. Born(js, cs, c, k)[j] = js[j]
  <2>1. j \notin used + 1 .. used + k
    BY <1>1, <1>3
  <2>. QED  BY <2>1 DEF Born
<1>. QED  BY <1>2, <1>4 DEF Settled

\* _dispatch_job changes the job whose send returned, and makes it DISPATCHED.
LEMMA DeliveredCloses ==
    ASSUME TypeOK, NEW t \in Coros, NEW ok \in BOOLEAN, NEW j \in JobIds,
           co[t].job \in JobIds
    PROVE  LET js == Delivered(co[t].job, ok) IN
           /\ js \in JobsType
           /\ js[j].state # jobs[j].state =>
                j = co[t].job /\ js[j].state = "dispatched"
<1>1. jobs \in JobsType /\ "dispatched" \in States
  BY DEF TypeOK, JobsType, States
<1>. QED  BY <1>1, StateSet DEF Delivered, JobsType

LEMMA ResumeReopens ==
    ASSUME IInv, NEW t \in Coros, Resume(t)
    PROVE  Reopening
<1>. SUFFICES ASSUME NEW j \in JobIds, jobs[j].state \in Terminal,
                     jobs'[j].state # jobs[j].state
              PROVE  LateSend(j)
  BY DEF Reopening
<1>1. PICK ok \in BOOLEAN : ResumeLoop(t, ok) \/ ResumeCampaign(t, ok)
  BY DEF Resume
<1>. DEFINE js == Delivered(co[t].job, ok)
<1>2. TypeOK /\ co[t].pc = "sending" /\ co[t].job \in 1 .. used
      /\ jobs[co[t].job].state # "absent"
  <2>1. TypeOK /\ SendsItsJob(t, jobs, co)
    BY DEF IInv
  <2>2. co[t].pc = "sending"
    BY <1>1 DEF ResumeLoop, ResumeCampaign, SendEnds
  <2>. QED  BY <2>1, <2>2 DEF SendsItsJob
<1>3. co[t].job \in JobIds
  BY <1>2, ConstantsAssumption DEF TypeOK, JobIds
<1>4. js \in JobsType
  BY <1>2, <1>3, DeliveredCloses
<1>5. \A i \in JobIds : js[i].state # jobs[i].state =>
                            i = co[t].job /\ js[i].state = "dispatched"
  BY <1>2, <1>3, DeliveredCloses
<1>6. Counted(js, used)
  BY <1>2, <1>5 DEF Counted, IInv
<1>7. js[j].state \notin {"absent", "pending"}
  BY <1>5, LiveStates
<1>8. jobs'[j].state = js[j].state
  <2>1. CASE ResumeLoop(t, ok)
    BY <1>4, <1>7, <2>1, WalkCloses DEF ResumeLoop
  <2>2. CASE ResumeCampaign(t, ok)
    BY <1>2, <1>4, <1>6, <1>7, <2>2, CampaignCloses DEF ResumeCampaign
  <2>. QED  BY <1>1, <2>1, <2>2
<1>. QED  BY <1>2, <1>5, <1>8 DEF LateSend

\* A call that gives a new job the next id and walks it.
LEMMA NewJobReopens ==
    ASSUME IInv, NEW t, NEW r \in JobRecs, used + 1 \in JobIds,
           Walk(t, [jobs EXCEPT ![used + 1] = r], reg, {used + 1})
    PROVE  Reopening
<1>. DEFINE js == [jobs EXCEPT ![used + 1] = r]
<1>1. jobs \in JobsType /\ used \in Nat
  BY DEF IInv, TypeOK, JobsType
<1>2. js \in JobsType
  BY <1>1 DEF JobsType
<1>3. jobs[used + 1].state = "absent"
  BY <1>1 DEF IInv, Counted
<1>4. ASSUME NEW j \in JobIds, jobs[j].state \in Terminal
      PROVE  jobs'[j].state = jobs[j].state
  <2>1. js[j] = jobs[j] /\ js[j].state # "pending"
    BY <1>1, <1>3, <1>4, LiveStates DEF JobsType
  <2>. QED  BY <1>2, <2>1, WalkCloses
<1>. QED  BY <1>4 DEF Reopening

LEMMA CallReopens ==
    ASSUME IInv,
           \/ \E t \in Tasks, n \in SoloNodes, d \in Deadlines : CreateJob(t, n, d)
           \/ \E t \in Tasks, c \in CampIds, ns \in Scopes, d \in Deadlines :
                    CreateCampaign(t, c, ns, d)
           \/ \E t \in Tasks, j \in JobIds : RetryJob(t, j)
    PROVE  Reopening
<1>0. TypeOK /\ jobs \in JobsType /\ used \in 0 .. MaxJobs /\ MaxJobs \in Nat
  BY ConstantsAssumption DEF IInv, TypeOK, JobsType
<1>1. ASSUME NEW t \in Tasks, NEW n \in SoloNodes, NEW d \in Deadlines,
             CreateJob(t, n, d)
      PROVE  Reopening
  <2>1. NewJob(n, NoCamp, d) \in JobRecs
    BY ConstantsAssumption DEF NewJob, JobRecs, States
  <2>2. used + 1 \in JobIds
    BY <1>0, <1>1 DEF CreateJob, HasRoom, JobIds
  <2>. QED  BY <1>1, <2>1, <2>2, NewJobReopens DEF CreateJob
<1>2. ASSUME NEW t \in Tasks, NEW c \in CampIds, NEW ns \in Scopes,
             NEW d \in Deadlines, CreateCampaign(t, c, ns, d)
      PROVE  Reopening
  <2>1. Counted(jobs, used)
    BY DEF IInv
  <2>2. \A j \in JobIds : jobs[j].state \in Terminal =>
                            jobs'[j].state = jobs[j].state
    BY <1>0, <1>2, <2>1, CampaignCloses, LiveStates DEF CreateCampaign
  <2>. QED  BY <2>2 DEF Reopening
<1>3. ASSUME NEW t \in Tasks, NEW j \in JobIds, RetryJob(t, j)
      PROVE  Reopening
  <2>. DEFINE r == jobs[j]
  <2>1. NewJob(r.node, r.camp, r.deadline) \in JobRecs
    BY <1>0 DEF NewJob, JobRecs, JobsType, States
  <2>2. used + 1 \in JobIds
    BY <1>0, <1>3 DEF RetryJob, HasRoom, JobIds
  <2>. QED  BY <1>3, <2>1, <2>2, NewJobReopens DEF RetryJob
<1>. QED  BY <1>1, <1>2, <1>3

\* Reports, cancels, deadlines and the loops.
LEMMA ReportReopens ==
    ASSUME IInv,
           \/ \E j \in JobIds : HandleAck(j) \/ HandleProgress(j) \/ CancelJob(j)
           \/ \E j \in JobIds, r \in Results : HandleResult(j, r)
           \/ \E c \in CampIds : CancelCampaign(c)
           \/ DeadlinePass
    PROVE  Reopening
<1>0. jobs \in [JobIds -> JobRecs]
  BY DEF IInv, TypeOK
<1>1. ASSUME NEW j \in JobIds, HandleAck(j) \/ HandleProgress(j)
      PROVE  Reopening
  BY <1>0, <1>1, LiveStates DEF HandleAck, HandleProgress, Reopening
<1>2. ASSUME NEW j \in JobIds, NEW r \in Results, HandleResult(j, r)
      PROVE  Reopening
  BY <1>0, <1>2 DEF HandleResult, Reopening
<1>3. ASSUME NEW S, jobs' = Cancelled(S)
      PROVE  Reopening
  BY <1>0, <1>3, LiveStates DEF Cancelled, Reopening
<1>4. CASE DeadlinePass
  BY <1>0, <1>4, LiveStates DEF DeadlinePass, Reopening
<1>. QED  BY <1>1, <1>2, <1>3, <1>4 DEF CancelJob, CancelCampaign

LEMMA LoopReopens ==
    ASSUME IInv,
           \/ \E j \in JobIds : RequeueJob(j)
           \/ \E t \in Tasks : NodeConnected(t)
    PROVE  Reopening
<1>0. jobs \in JobsType
  BY DEF IInv, TypeOK, JobsType
<1>1. ASSUME NEW i \in JobIds, RequeueJob(i)
      PROVE  Reopening
  <2>. DEFINE js == [jobs EXCEPT ![i].state = "pending"]
  <2>1. js \in JobsType
    BY <1>0, StateSet DEF States
  <2>2. jobs[i].state = "dispatched" /\ Walk(Requeuer, js, reg, {i})
    BY <1>1 DEF RequeueJob
  <2>3. ASSUME NEW j \in JobIds, jobs[j].state \in Terminal
        PROVE  jobs'[j].state = jobs[j].state
    <3>1. js[j] = jobs[j] /\ js[j].state # "pending"
      BY <1>0, <2>2, <2>3, LiveStates DEF JobsType
    <3>. QED  BY <2>1, <2>2, <3>1, WalkCloses
  <2>. QED  BY <2>3 DEF Reopening
<1>2. ASSUME NEW t \in Tasks, NodeConnected(t)
      PROVE  Reopening
  BY <1>0, <1>2, WalkCloses, LiveStates DEF NodeConnected, Reopening
<1>. QED  BY <1>1, <1>2

\* Of _dispatch_job, and of all that reports, cancels, requeues and expires: the
\* one way out of a terminal state, short of a restart, is a send of the job
\* that was suspended when it got there.
THEOREM OnlyLateSendReopens == Spec => ReopenedOnlyByLateSend
<1>1. ASSUME IInv, [Next]_vars
      PROVE  Reopening
  <2>1. CASE \E t \in Coros : Resume(t)
    BY <1>1, <2>1, ResumeReopens
  <2>2. ASSUME \/ \E t \in Tasks, n \in Nodes : Connect(t, n) \/ Replaces(t, n)
               \/ \E t \in Tasks : Closed(t)
               \/ \E n \in Nodes : PushFails(n) \/ Disconnect(n)
               \/ Tick
               \/ UNCHANGED vars
        PROVE  Reopening
    <3>1. jobs' = jobs
      BY <2>2 DEF Connect, Replaces, Closed, Registers, PushFails, Disconnect,
                  Tick, qvars, vars
    <3>. QED  BY <3>1 DEF Reopening
  <2>3. ASSUME \/ \E a, b \in BOOLEAN : Crash(a, b)
               \/ \E j \in JobIds : CrashInRetry(j)
        PROVE  Reopening
    <3>1. crashes \in Nat /\ crashes' = crashes + 1
      BY <1>1, <2>3 DEF Crash, CrashInRetry, Reload, IInv, TypeOK
    <3>. QED  BY <3>1 DEF Reopening
  <2>. QED  BY <1>1, <2>1, <2>2, <2>3, CallReopens, ReportReopens, LoopReopens,
               NewInRange DEF Next
<1>2. IInv /\ [Next]_vars =>
        [\A j \in JobIds :
            jobs[j].state \in Terminal /\ jobs'[j].state # jobs[j].state =>
                \/ \E t \in Coros : co[t].pc = "sending" /\ co[t].job = j
                                   /\ jobs'[j].state = "dispatched"
                \/ crashes' # crashes]_vars
  BY <1>1 DEF Reopening, LateSend
<1>. QED  BY <1>2, QueueInvariant, PTL DEF Spec, ReopenedOnlyByLateSend
=============================================================================
