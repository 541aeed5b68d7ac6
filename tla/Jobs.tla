-------------------------------- MODULE Jobs --------------------------------
(***************************************************************************)
(* Reconciliation jobs of api/main.py: POST /reconcile, which enqueues a   *)
(* job or answers with the one in progress, and the background task that   *)
(* runs the pipeline for it.  Everything runs in one server process over   *)
(* one database; the process may die and is then started again.            *)
(*                                                                         *)
(* A job is named after the request that created it: queued_at is the time *)
(* the transaction of that request began.                                  *)
(***************************************************************************)
EXTENDS Naturals, FiniteSets

CONSTANTS Clients,           \* sequential callers of POST /reconcile
          MaxRequests,       \* bound: requests in a behaviour
          PipelineMayRaise,  \* whether a run of the pipeline may raise
          DatabaseMayRaise,  \* whether a commit may raise
          MayCrash           \* whether the server process may die

ASSUME RequestsAssumption ==
    /\ IsFiniteSet(Clients)
    /\ MaxRequests \in Nat
    /\ {PipelineMayRaise, DatabaseMayRaise, MayCrash} \subseteq BOOLEAN

VARIABLES
    jobs,       \* reconciliation_jobs: the status of each job
    runs,       \* the jobs whose pipeline run is in reconciliation_runs
    request,    \* the request each client is in
    task,       \* the background task of each job
    replies,    \* what POST /reconcile has answered
    begun       \* requests so far

vars == <<jobs, runs, request, task, replies, begun>>

Requests == 1..MaxRequests

ActiveStatus == {"queued", "running"}

Idle == [at |-> "idle", n |-> 0, job |-> 0]

-----------------------------------------------------------------------------
(* POST /reconcile *)

(* Mutation of ActiveJobs: a job that has not started is not looked for. *)
RunningJobs == {j \in Requests : jobs[j] = "running"}
ActiveJobs == {j \in Requests : jobs[j] \in ActiveStatus}

(* The SELECT of _create_job: the newest active job, if there is one. *)
NewestActive == {j \in ActiveJobs : \A k \in ActiveJobs : k <= j}

(* _create_job, first statement. *)
SelectActive(c) ==
    LET n == begun + 1
        Leads(at, job) == request' = [request EXCEPT ![c] = [at |-> at, n |-> n, job |-> job]]
    IN  /\ request[c].at = "idle"
        /\ begun < MaxRequests
        /\ begun' = n
        /\ \/ \E j \in NewestActive : Leads("reply", j)
           \/ ActiveJobs = {} /\ Leads("insert", n)
        /\ UNCHANGED <<jobs, runs, task, replies>>

(* Mutation of InsertJob: that the INSERT raised goes unnoticed. *)
InsertJobUnchecked(c) ==
    /\ request[c].at = "insert"
    /\ \/ jobs' = [jobs EXCEPT ![request[c].job] = "queued"]
       \/ DatabaseMayRaise /\ UNCHANGED jobs
    /\ request' = [request EXCEPT ![c].at = "reply"]
    /\ UNCHANGED <<runs, task, replies, begun>>

(* _create_job, second statement: a job of its own; if that raises the     *)
(* request fails.                                                          *)
InsertJob(c) ==
    /\ request[c].at = "insert"
    /\ \/ /\ jobs' = [jobs EXCEPT ![request[c].job] = "queued"]
          /\ request' = [request EXCEPT ![c].at = "reply"]
       \/ /\ DatabaseMayRaise
          /\ request' = [request EXCEPT ![c] = Idle]
          /\ UNCHANGED jobs
    /\ UNCHANGED <<runs, task, replies, begun>>

(* Mutation of Reply: a task is added for a job that was found, too. *)
ReplyAlwaysAdds(c) ==
    /\ request[c].at = "reply"
    /\ replies' = replies \cup {[n |-> request[c].n, job |-> request[c].job, code |-> 202]}
    /\ task' = [task EXCEPT ![request[c].job] = "added"]
    /\ request' = [request EXCEPT ![c] = Idle]
    /\ UNCHANGED <<jobs, runs, begun>>

(* The response is sent; a job this request created gets its task. *)
Reply(c) ==
    LET created == request[c].job = request[c].n IN
    /\ request[c].at = "reply"
    /\ replies' = replies \cup {[n |-> request[c].n, job |-> request[c].job, code |-> 202]}
    /\ task' = [task EXCEPT ![request[c].job] = IF created THEN "added" ELSE @]
    /\ request' = [request EXCEPT ![c] = Idle]
    /\ UNCHANGED <<jobs, runs, begun>>

-----------------------------------------------------------------------------
(* _run_reconcile_job *)

TaskGoesTo(j, at) == task' = [task EXCEPT ![j] = at]

(* The job is marked running; if that raises the task is over, without an  *)
(* outcome.                                                                *)
MarkRunning(j) ==
    /\ task[j] = "added"
    /\ \/ /\ jobs' = [jobs EXCEPT ![j] = "running"]
          /\ TaskGoesTo(j, "pipeline")
       \/ /\ DatabaseMayRaise
          /\ TaskGoesTo(j, "lost")
          /\ UNCHANGED jobs
    /\ UNCHANGED <<runs, request, replies, begun>>

(* The pipeline runs to its end and is in reconciliation_runs. *)
PipelineCompletes(j) ==
    /\ task[j] = "pipeline"
    /\ runs' = runs \cup {j}
    /\ TaskGoesTo(j, "complete")
    /\ UNCHANGED <<jobs, request, replies, begun>>

(* Mutation of PipelineRaises: the exception ends the task. *)
PipelineRaisesUncaught(j) ==
    /\ PipelineMayRaise
    /\ task[j] = "pipeline"
    /\ TaskGoesTo(j, "over")
    /\ UNCHANGED <<jobs, runs, request, replies, begun>>

PipelineRaises(j) ==
    /\ PipelineMayRaise
    /\ task[j] = "pipeline"
    /\ TaskGoesTo(j, "failed")
    /\ UNCHANGED <<jobs, runs, request, replies, begun>>

(* Mutation of FinishJob: complete is written whatever happened. *)
FinishComplete(j) ==
    /\ task[j] \in {"complete", "failed"}
    /\ jobs' = [jobs EXCEPT ![j] = "complete"]
    /\ TaskGoesTo(j, "over")
    /\ UNCHANGED <<runs, request, replies, begun>>

(* _finish_job writes the outcome; if writing "complete" raises, the same  *)
(* except branch writes "failed", and if that raises there is no outcome.  *)
FinishJob(j) ==
    /\ task[j] \in {"complete", "failed"}
    /\ \/ /\ jobs' = [jobs EXCEPT ![j] = task[j]]
          /\ TaskGoesTo(j, "over")
       \/ /\ DatabaseMayRaise
          /\ TaskGoesTo(j, IF task[j] = "complete" THEN "failed" ELSE "lost")
          /\ UNCHANGED jobs
    /\ UNCHANGED <<runs, request, replies, begun>>

-----------------------------------------------------------------------------
(* The process dies: requests and tasks are gone, nothing resumes them,    *)
(* nor starts the task of a job whose request was not answered yet.        *)
Crash ==
    /\ MayCrash
    /\ \/ \E c \in Clients : request[c] # Idle
       \/ \E j \in Requests : task[j] \notin {"none", "over", "lost"}
    /\ request' = [c \in Clients |-> Idle]
    /\ task' = [j \in Requests |->
                   IF jobs[j] = "none" \/ task[j] = "over" THEN task[j] ELSE "lost"]
    /\ UNCHANGED <<jobs, runs, replies, begun>>

(* Every request is answered or lost and every task has ended. *)
Done ==
    /\ begun = MaxRequests
    /\ \A c \in Clients : request[c] = Idle
    /\ \A j \in Requests : task[j] \in {"none", "over", "lost"}
    /\ UNCHANGED vars

Init ==
    /\ jobs = [j \in Requests |-> "none"]
    /\ runs = {}
    /\ request = [c \in Clients |-> Idle]
    /\ task = [j \in Requests |-> "none"]
    /\ replies = {}
    /\ begun = 0

Handle(c) == InsertJob(c) \/ Reply(c)

Work(j) == MarkRunning(j) \/ PipelineCompletes(j) \/ PipelineRaises(j) \/ FinishJob(j)

Next ==
    \/ \E c \in Clients : SelectActive(c) \/ Handle(c)
    \/ \E j \in Requests : Work(j)
    \/ Crash
    \/ Done

Spec == Init /\ [][Next]_vars

(* The thread pool runs requests and tasks alike; nobody has to send a     *)
(* request.                                                                *)
FairSpec ==
    /\ Spec
    /\ \A c \in Clients : WF_vars(Handle(c))
    /\ \A j \in Requests : WF_vars(Work(j))

-----------------------------------------------------------------------------
(* Properties *)

JobStatus == {"none", "queued", "running", "complete", "failed"}

TypeOK ==
    /\ jobs \in [Requests -> JobStatus]
    /\ runs \subseteq Requests
    /\ request \in [Clients -> [at : {"idle", "insert", "reply"}, n : 0..MaxRequests,
                                job : 0..MaxRequests]]
    /\ task \in [Requests -> {"none", "added", "pipeline", "complete", "failed", "over", "lost"}]
    /\ replies \subseteq [n : Requests, job : Requests, code : {202}]
    /\ begun \in 0..MaxRequests

(* At most one pipeline is in progress: what _create_job looks for the     *)
(* active job for.                                                         *)
OnePipeline ==
    \A j, k \in Requests : task[j] = "pipeline" /\ task[k] = "pipeline" => j = k

(* A job called complete has its run in reconciliation_runs, and a run in  *)
(* reconciliation_runs belongs to a job that has been started: polling     *)
(* never shows a result that is not there.                                 *)
CompleteMeansRan ==
    /\ \A j \in Requests : jobs[j] = "complete" => j \in runs
    /\ \A j \in runs : jobs[j] \in {"running", "complete", "failed"}

(* The pipeline of a job is started once, however many requests were       *)
(* answered with the job and whatever failed.                              *)
StartedOnce ==
    [][\A j \in Requests :
          task[j] # "pipeline" /\ task'[j] = "pipeline" => jobs[j] = "queued"]_vars

(* A client has no two pipelines in progress, whatever it sends and        *)
(* whatever fails: n clients have n pipelines at the most.                 *)
OnePipelineEach ==
    Cardinality({j \in Requests : task[j] = "pipeline"}) <= Cardinality(Clients)

(* Jobs, runs and answers implement the abstract service: jobs never go    *)
(* back or end twice, an answer names a job that is there, and no pipeline *)
(* starts before the client that opened its job has the answer.            *)
Service == INSTANCE ReconcileService
ServiceIsKept == Service!Spec

(* Every accepted request gets a result to poll: its job, its own or the   *)
(* one it was answered with, ends; unless its process died or the database *)
(* refused to take the outcome.                                            *)
AcceptedEnds ==
    \A j \in Requests :
        (\E reply \in replies : reply.job = j) ~>
            jobs[j] \in {"complete", "failed"} \/ task[j] = "lost"
=============================================================================
