--------------------------- MODULE CampaignPromise ---------------------------
(***************************************************************************)
(* What a campaign of controller/job_queue.py promises of its children,    *)
(* whatever sends, reports and other calls come in between: the place that *)
(* a job has in the list is kept by it and by the attempts that replace    *)
(* it, no job is listed twice, a replacement is on disk with the step that *)
(* makes it, and a restart goes back to what the file says.                *)
(***************************************************************************)
EXTENDS Sequences, Functions

CONSTANTS Campaigns, Jobs

VARIABLES
    slots,   \* the children of each campaign
    file     \* those that campaigns.json has

None == [c \in Campaigns |-> <<>>]

Listed == UNION {Range(slots[c]) : c \in Campaigns}

\* New children come behind the present ones, and the file may be written.
Extend(c) ==
    /\ slots' = [slots EXCEPT ![c] = slots'[c]]
    /\ slots'[c] \in Seq(Jobs)
    /\ DOMAIN slots[c] \subseteq DOMAIN slots'[c]
    /\ \A i \in DOMAIN slots[c] : slots'[c][i] = slots[c][i]
    /\ \A i \in DOMAIN slots'[c] \ DOMAIN slots[c] : slots'[c][i] \notin Listed
    /\ IsInjective(slots'[c])
    /\ file' \in {file, slots'}

Retried(c, i, job) == [slots EXCEPT ![c][i] = job]

\* The attempt `job` takes the place of the i-th child, and the file has it.
Retry(c, i, job) ==
    /\ slots' = Retried(c, i, job)
    /\ file' = slots'

\* The file survives, is cut, or has one retry more than memory had; memory
\* takes what it says, or nothing when either file does not parse.
Restart ==
    /\ slots' \in {file', None}
    /\ \/ file' \in {file, None}
       \/ \E c \in Campaigns, job \in Jobs \ Listed :
             \E i \in DOMAIN slots[c] : file' = Retried(c, i, job)

Init == slots = None /\ file = None
Next ==
    \/ Restart
    \/ \E c \in Campaigns : Extend(c)
    \/ \E c \in Campaigns, job \in Jobs \ Listed :
          \E i \in DOMAIN slots[c] : Retry(c, i, job)
Spec == Init /\ [][Next]_<<slots, file>>
=============================================================================
