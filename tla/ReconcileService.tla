-------------------------- MODULE ReconcileService --------------------------
(***************************************************************************)
(* What POST /reconcile, GET /reconcile/{job_id} and the stored runs show  *)
(* to the clients, whatever fails: a request opens at most one job and is  *)
(* answered at most once, with the job it opened or with an older one; a   *)
(* job starts after its own client has been told of it, stores its run     *)
(* once, and ends once and for all, as complete only when its run is       *)
(* there.  A request may never be answered, and a job may never start or   *)
(* end.                                                                    *)
(***************************************************************************)
EXTENDS Naturals

CONSTANT Requests   \* the numbers of the requests, in the order they came

VARIABLES jobs,      \* the status of the job each request opened
          runs,      \* the jobs whose run is stored
          replies    \* the answers

shown == <<jobs, runs, replies>>

Answered(n) == \E r \in replies : r.n = n

Reply(n, j) == [n |-> n, job |-> j, code |-> 202]

Becomes(j, status) == jobs' = [jobs EXCEPT ![j] = status]

Init ==
    /\ jobs = [n \in Requests |-> "none"]
    /\ runs = {} /\ replies = {}

(* The request opens a job.                                                *)
Open(n) ==
    /\ jobs[n] = "none" /\ ~Answered(n)
    /\ Becomes(n, "queued")
    /\ UNCHANGED <<runs, replies>>

(* It is answered with a job that is there.                                *)
Answer(n, j) ==
    /\ ~Answered(n)
    /\ jobs[j] # "none"
    /\ j <= n /\ (jobs[n] # "none" => j = n)
    /\ replies' = replies \cup {Reply(n, j)}
    /\ UNCHANGED <<jobs, runs>>

Start(j) ==
    /\ jobs[j] = "queued" /\ Reply(j, j) \in replies
    /\ Becomes(j, "running")
    /\ UNCHANGED <<runs, replies>>

StoreRun(j) ==
    /\ jobs[j] = "running" /\ j \notin runs
    /\ runs' = runs \cup {j}
    /\ UNCHANGED <<jobs, replies>>

End(j, outcome) ==
    /\ jobs[j] = "running"
    /\ outcome = "complete" => j \in runs
    /\ Becomes(j, outcome)
    /\ UNCHANGED <<runs, replies>>

Next ==
    \E n \in Requests :
        \/ Open(n) \/ Start(n) \/ StoreRun(n)
        \/ \E j \in Requests : Answer(n, j)
        \/ \E outcome \in {"complete", "failed"} : End(n, outcome)

Spec == Init /\ [][Next]_shown
=============================================================================
