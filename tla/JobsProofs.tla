----------------------------- MODULE JobsProofs -----------------------------
(***************************************************************************)
(* What POST /reconcile guarantees for every number of clients and         *)
(* requests, whatever fails: a job that reads complete has its run, a job  *)
(* is started once, n clients never have more than n pipelines, and what   *)
(* the clients see is the abstract ReconcileService.                       *)
(***************************************************************************)
EXTENDS Jobs, TLAPS, FiniteSetTheorems

(* A task and its job agree about how far they are. *)
TaskAgrees ==
    \A j \in Requests :
        /\ task[j] = "added" => jobs[j] = "queued"
        /\ task[j] \in {"pipeline", "complete", "failed"} => jobs[j] = "running"
        /\ task[j] = "complete" => j \in runs
        /\ task[j] # "none" => jobs[j] # "none"
        /\ jobs[j] # "none" => j <= begun

(* The requests in progress have numbers of their own, and the job a       *)
(* request is about to insert or has inserted is known to no task.         *)
RequestAgrees ==
    /\ \A c \in Clients :
          /\ request[c].at # "idle" => /\ request[c].n \in 1..begun
                                       /\ request[c].job \in Requests
          /\ request[c].at = "insert" => /\ request[c].job = request[c].n
                                         /\ jobs[request[c].n] = "none"
          /\ request[c].at = "reply" /\ request[c].job = request[c].n =>
                jobs[request[c].n] = "queued" /\ task[request[c].n] = "none"
    /\ \A c, d \in Clients :
          request[c].at # "idle" /\ request[d].at # "idle" /\ c # d =>
              request[c].n # request[d].n

JobsInv == TypeOK /\ CompleteMeansRan /\ TaskAgrees /\ RequestAgrees

LEMMA JobsInit == Init => JobsInv
  BY RequestsAssumption
  DEF Init, JobsInv, TypeOK, CompleteMeansRan, TaskAgrees, RequestAgrees, Requests,
      Idle, JobStatus

LEMMA SelectKeeps ==
  ASSUME JobsInv, NEW c \in Clients, SelectActive(c)
  PROVE  JobsInv'
<1> DEFINE n == begun + 1
<1>1. /\ begun \in 0..MaxRequests /\ begun < MaxRequests /\ MaxRequests \in Nat
      /\ n \in Requests /\ begun' = n
      /\ UNCHANGED <<jobs, runs, task, replies>>
  BY RequestsAssumption DEF JobsInv, TypeOK, SelectActive, Requests
<1>2. PICK at \in {"insert", "reply"}, job \in Requests :
         /\ request' = [request EXCEPT ![c] = [at |-> at, n |-> n, job |-> job]]
         /\ at = "insert" => job = n
         /\ at = "reply" => job <= begun
  <2>1. CASE ActiveJobs = {}
    BY <1>1, <2>1 DEF SelectActive, NewestActive
  <2>2. CASE ActiveJobs # {}
    <3>1. PICK j \in NewestActive :
             request' = [request EXCEPT ![c] = [at |-> "reply", n |-> n, job |-> j]]
      BY <2>2 DEF SelectActive
    <3>2. j \in Requests /\ j <= begun
      BY DEF NewestActive, ActiveJobs, ActiveStatus, JobsInv, TaskAgrees
    <3> QED BY <3>1, <3>2
  <2> QED BY <2>1, <2>2
<1>3. jobs[n] = "none" /\ n > begun
  BY <1>1 DEF JobsInv, TaskAgrees, Requests
<1>4. TypeOK'
  BY <1>1, <1>2 DEF JobsInv, TypeOK, Requests
<1>5. CompleteMeansRan' /\ TaskAgrees'
  BY <1>1 DEF JobsInv, TypeOK, CompleteMeansRan, TaskAgrees, Requests
<1>6. RequestAgrees'
  BY <1>1, <1>2, <1>3 DEF JobsInv, TypeOK, RequestAgrees, Requests
<1> QED BY <1>4, <1>5, <1>6 DEF JobsInv

LEMMA HandleKeeps ==
  ASSUME JobsInv, NEW c \in Clients, Handle(c)
  PROVE  JobsInv'
<1>1. CASE InsertJob(c)
  <2>1. CASE /\ jobs' = [jobs EXCEPT ![request[c].job] = "queued"]
             /\ request' = [request EXCEPT ![c].at = "reply"]
    BY <1>1, <2>1, RequestsAssumption
    DEF InsertJob, JobsInv, TypeOK, CompleteMeansRan, TaskAgrees, RequestAgrees,
        Requests, JobStatus
  <2>2. CASE request' = [request EXCEPT ![c] = Idle] /\ UNCHANGED jobs
    BY <1>1, <2>2, RequestsAssumption
    DEF InsertJob, JobsInv, TypeOK, CompleteMeansRan, TaskAgrees, RequestAgrees,
        Requests, JobStatus, Idle
  <2> QED BY <1>1, <2>1, <2>2 DEF InsertJob
<1>2. CASE Reply(c)
  BY <1>2, RequestsAssumption
  DEF Reply, JobsInv, TypeOK, CompleteMeansRan, TaskAgrees, RequestAgrees,
      Requests, JobStatus, Idle
<1> QED BY <1>1, <1>2 DEF Handle

LEMMA WorkKeeps ==
  ASSUME JobsInv, NEW j \in Requests, Work(j)
  PROVE  JobsInv'
<1> USE DEF JobsInv, TypeOK, CompleteMeansRan, TaskAgrees, RequestAgrees, JobStatus,
            TaskGoesTo
<1>1. CASE MarkRunning(j)
  BY <1>1 DEF MarkRunning
<1>2. CASE PipelineCompletes(j)
  BY <1>2 DEF PipelineCompletes
<1>3. CASE PipelineRaises(j)
  BY <1>3 DEF PipelineRaises
<1>4. CASE FinishJob(j)
  BY <1>4 DEF FinishJob
<1> QED BY <1>1, <1>2, <1>3, <1>4 DEF Work

LEMMA CrashKeeps ==
  ASSUME JobsInv, Crash
  PROVE  JobsInv'
  BY RequestsAssumption
  DEF Crash, JobsInv, TypeOK, CompleteMeansRan, TaskAgrees, RequestAgrees, JobStatus,
      Idle, Requests

LEMMA JobsStep == JobsInv /\ [Next]_vars => JobsInv'
<1> SUFFICES ASSUME JobsInv, [Next]_vars PROVE JobsInv'
  OBVIOUS
<1>1. CASE UNCHANGED vars
  BY <1>1 DEF vars, JobsInv, TypeOK, CompleteMeansRan, TaskAgrees, RequestAgrees
<1>2. CASE Next
  BY <1>1, <1>2, SelectKeeps, HandleKeeps, WorkKeeps, CrashKeeps DEF Next, Done
<1> QED BY <1>1, <1>2

LEMMA JobsInvariance == Spec => []JobsInv
<1> QED BY JobsInit, JobsStep, PTL DEF Spec

(* Jobs, requests and tasks keep the states the code gives them, and a     *)
(* task and a request belong to a job that was sent.                       *)
THEOREM JobsTyped == Spec => []TypeOK
<1>1. JobsInv => TypeOK
  BY DEF JobsInv
<1> QED BY <1>1, JobsInvariance, PTL

(* A job that GET /reconcile/{job_id} shows as complete has its run in     *)
(* reconciliation_runs, whatever raised and whenever the process died, and *)
(* no run belongs to a job that was not started.                           *)
THEOREM CompleteMeansRanAlways == Spec => []CompleteMeansRan
<1>1. JobsInv => CompleteMeansRan
  BY DEF JobsInv
<1> QED BY <1>1, JobsInvariance, PTL

(* The pipeline of a job is started once: it is queued when it starts, and *)
(* no request answered with it starts it again.                            *)
THEOREM StartedOnceAlways == Spec => StartedOnce
<1>1. ASSUME JobsInv, [Next]_vars
      PROVE  [\A j \in Requests :
                 task[j] # "pipeline" /\ task'[j] = "pipeline" => jobs[j] = "queued"]_vars
  <2> SUFFICES ASSUME Next, NEW j \in Requests,
                      task[j] # "pipeline", task'[j] = "pipeline"
               PROVE  jobs[j] = "queued"
    BY <1>1
  <2>1. \A c \in Clients : ~SelectActive(c) /\ ~InsertJob(c)
    BY DEF SelectActive, InsertJob
  <2>2. ASSUME NEW c \in Clients, Reply(c) PROVE FALSE
    BY <1>1, <2>2 DEF Reply, JobsInv, TypeOK, RequestAgrees
  <2>3. ~Crash /\ ~Done
    BY <1>1 DEF Crash, Done, vars, JobsInv, TypeOK
  <2>4. PICK k \in Requests : Work(k)
    BY <2>1, <2>2, <2>3 DEF Next, Handle
  <2>5. task[j] = "added"
    BY <1>1, <2>4 DEF Work, MarkRunning, PipelineCompletes, PipelineRaises, FinishJob,
                      TaskGoesTo, JobsInv, TypeOK
  <2> QED BY <1>1, <2>5 DEF JobsInv, TaskAgrees
<1> QED BY <1>1, JobsInvariance, PTL DEF Spec, StartedOnce

-----------------------------------------------------------------------------
(* As many pipelines as clients *)

Inserting == {c \in Clients : request[c].at = "insert"}

(* A request goes on to insert a job only when no job was active, and      *)
(* inserts one: the active jobs and the jobs about to be inserted are      *)
(* never more than the clients.                                            *)
JobsCounted ==
    Cardinality(ActiveJobs) + Cardinality(Inserting) <= Cardinality(Clients)

LEMMA CountsAreNumbers ==
  /\ IsFiniteSet(ActiveJobs) /\ Cardinality(ActiveJobs) \in Nat
  /\ IsFiniteSet(Inserting) /\ Cardinality(Inserting) \in Nat
  /\ Cardinality(Clients) \in Nat
  /\ Cardinality(Inserting) <= Cardinality(Clients)
<1>1. IsFiniteSet(Requests)
  BY RequestsAssumption, FS_Interval DEF Requests
<1>2. ActiveJobs \in SUBSET Requests /\ Inserting \in SUBSET Clients
  BY DEF ActiveJobs, Inserting
<1>3. IsFiniteSet(ActiveJobs) /\ IsFiniteSet(Inserting)
  BY <1>1, <1>2, FS_Subset, RequestsAssumption
<1> QED BY <1>2, <1>3, FS_Subset, FS_CardinalityType, RequestsAssumption

(* The same of the next state. *)
LEMMA NextCountsAreNumbers ==
  /\ IsFiniteSet(ActiveJobs') /\ Cardinality(ActiveJobs') \in Nat
  /\ IsFiniteSet(Inserting') /\ Cardinality(Inserting') \in Nat
  /\ Cardinality(Inserting') <= Cardinality(Clients)
<1>1. IsFiniteSet(Requests)
  BY RequestsAssumption, FS_Interval DEF Requests
<1>2. ActiveJobs' \in SUBSET Requests /\ Inserting' \in SUBSET Clients
  BY DEF ActiveJobs, Inserting
<1>3. IsFiniteSet(ActiveJobs') /\ IsFiniteSet(Inserting')
  BY <1>1, <1>2, FS_Subset, RequestsAssumption
<1> QED BY <1>2, <1>3, FS_Subset, FS_CardinalityType, RequestsAssumption

LEMMA CountedInit == Init => JobsCounted
<1> SUFFICES ASSUME Init PROVE JobsCounted
  OBVIOUS
<1>1. ActiveJobs = {} /\ Inserting = {}
  BY DEF Init, ActiveJobs, ActiveStatus, Inserting, Idle
<1> QED BY <1>1, FS_EmptySet, CountsAreNumbers DEF JobsCounted

(* A step that ends jobs and requests, and begins none, keeps the count.   *)
LEMMA FewerCounted ==
  ASSUME JobsCounted, ActiveJobs' \subseteq ActiveJobs, Inserting' \subseteq Inserting
  PROVE  JobsCounted'
<1>1. Cardinality(ActiveJobs') <= Cardinality(ActiveJobs)
  BY CountsAreNumbers, FS_Subset
<1>2. Cardinality(Inserting') <= Cardinality(Inserting)
  BY CountsAreNumbers, FS_Subset
<1> QED BY <1>1, <1>2, CountsAreNumbers, NextCountsAreNumbers DEF JobsCounted

LEMMA CountedStep == JobsInv /\ JobsCounted /\ [Next]_vars => JobsCounted'
<1> SUFFICES ASSUME JobsInv, JobsCounted, [Next]_vars PROVE JobsCounted'
  OBVIOUS
<1>1. CASE UNCHANGED vars
  BY <1>1, FewerCounted DEF vars, ActiveJobs, Inserting
<1>2. ASSUME NEW c \in Clients, SelectActive(c) PROVE JobsCounted'
  <2>1. ActiveJobs' = ActiveJobs
    BY <1>2 DEF SelectActive, ActiveJobs
  <2>2. CASE ActiveJobs = {}
    <3>1. Cardinality(ActiveJobs') = 0
      BY <2>1, <2>2, FS_EmptySet
    <3> QED BY <3>1, NextCountsAreNumbers, CountsAreNumbers DEF JobsCounted
  <2>3. CASE ActiveJobs # {}
    <3>1. Inserting' \subseteq Inserting
      BY <1>2, <2>3 DEF SelectActive, Inserting, JobsInv, TypeOK
    <3> QED BY <2>1, <3>1, FewerCounted
  <2> QED BY <2>2, <2>3
<1>3. ASSUME NEW c \in Clients, InsertJob(c) PROVE JobsCounted'
  <2>1. c \in Inserting /\ Inserting' = Inserting \ {c}
    <3>1. request[c].at = "insert" /\ request'[c].at # "insert"
      BY <1>3 DEF InsertJob, JobsInv, TypeOK, Idle
    <3>2. \A d \in Clients \ {c} : request'[d] = request[d]
      BY <1>3 DEF InsertJob, JobsInv, TypeOK
    <3> QED BY <3>1, <3>2 DEF Inserting
  <2>2. Cardinality(Inserting') = Cardinality(Inserting) - 1
    BY <2>1, CountsAreNumbers, FS_RemoveElement
  <2>3. ActiveJobs' \subseteq ActiveJobs \cup {request[c].job}
    BY <1>3 DEF InsertJob, ActiveJobs, ActiveStatus, JobsInv, TypeOK
  <2>4. Cardinality(ActiveJobs \cup {request[c].job}) <= Cardinality(ActiveJobs) + 1
        /\ IsFiniteSet(ActiveJobs \cup {request[c].job})
    <3>1. /\ IsFiniteSet(ActiveJobs \cup {request[c].job})
          /\ Cardinality(ActiveJobs \cup {request[c].job})
                = IF request[c].job \in ActiveJobs THEN Cardinality(ActiveJobs)
                                                   ELSE Cardinality(ActiveJobs) + 1
      BY CountsAreNumbers, FS_AddElement
    <3> QED BY <3>1, CountsAreNumbers
  <2>5. Cardinality(ActiveJobs') <= Cardinality(ActiveJobs \cup {request[c].job})
    BY <2>3, <2>4, FS_Subset
  <2>6. Cardinality(ActiveJobs \cup {request[c].job}) \in Nat
    BY <2>4, FS_CardinalityType
  <2> QED BY <2>2, <2>4, <2>5, <2>6, CountsAreNumbers, NextCountsAreNumbers DEF JobsCounted
<1>4. ASSUME NEW c \in Clients, Reply(c) PROVE JobsCounted'
  BY <1>4, FewerCounted DEF Reply, ActiveJobs, Inserting, JobsInv, TypeOK, Idle
<1>5. ASSUME NEW j \in Requests, Work(j) PROVE JobsCounted'
  <2>1. ActiveJobs' \subseteq ActiveJobs /\ UNCHANGED request
    BY <1>5 DEF Work, MarkRunning, PipelineCompletes, PipelineRaises, FinishJob,
                TaskGoesTo, ActiveJobs, ActiveStatus, JobsInv, TypeOK, TaskAgrees
  <2> QED BY <2>1, FewerCounted DEF Inserting
<1>6. CASE Crash
  BY <1>6, FewerCounted DEF Crash, ActiveJobs, Inserting, Idle
<1>7. CASE Done
  BY <1>1, <1>7 DEF Done
<1> QED BY <1>1, <1>2, <1>3, <1>4, <1>5, <1>6, <1>7 DEF Next, Handle

(* n clients, each of which waits for its answers, never have more than n  *)
(* pipelines to run at once, even across crashes: one client never has     *)
(* two.  The check of _create_job cannot promise more: two clients do get  *)
(* two pipelines (OnePipeline, in the run jobs_two_pipelines).             *)
THEOREM OnePipelineEachAlways == Spec => []OnePipelineEach
<1>1. ASSUME JobsInv, JobsCounted PROVE OnePipelineEach
  <2> DEFINE Running == {j \in Requests : task[j] = "pipeline"}
  <2>1. Running \subseteq ActiveJobs
    BY <1>1 DEF ActiveJobs, ActiveStatus, JobsInv, TaskAgrees
  <2>2. Cardinality(Running) <= Cardinality(ActiveJobs) /\ Cardinality(Running) \in Nat
    BY <2>1, CountsAreNumbers, FS_Subset, FS_CardinalityType
  <2> QED BY <1>1, <2>2, CountsAreNumbers DEF JobsCounted, OnePipelineEach
<1> QED BY <1>1, CountedInit, CountedStep, JobsInvariance, PTL DEF Spec

OneClient == Cardinality(Clients) <= 1
OneClientInv == OneClient /\ JobsInv /\ JobsCounted

(* A client that waits for its answers and is alone never overlaps         *)
(* pipelines: what the runs of the pipeline module that nobody overlaps    *)
(* rest on.                                                                *)
THEOREM OneClientOnePipeline == OneClient /\ Spec => []OnePipeline
<1>1. OneClient /\ Init => OneClientInv
  BY JobsInit, CountedInit DEF OneClientInv
<1>2. OneClientInv /\ [Next]_vars => OneClientInv'
  BY JobsStep, CountedStep DEF OneClientInv, OneClient
<1>3. OneClientInv => OnePipeline
  <2> SUFFICES ASSUME JobsInv, JobsCounted, OneClient PROVE OnePipeline
    BY DEF OneClientInv
  <2>1. ASSUME NEW j \in Requests, NEW k \in Requests,
               task[j] = "pipeline", task[k] = "pipeline", j # k
        PROVE  FALSE
    <3>1. j \in ActiveJobs /\ k \in ActiveJobs
      BY <2>1 DEF ActiveJobs, ActiveStatus, JobsInv, TaskAgrees
    <3>2. IsFiniteSet({j}) /\ Cardinality({j}) = 1
      BY FS_Singleton
    <3> DEFINE both == {j} \cup {k}
    <3>3. Cardinality(both) = 2 /\ both \in SUBSET ActiveJobs
      BY <2>1, <3>1, <3>2, FS_AddElement
    <3> HIDE DEF both
    <3>4. Cardinality(both) <= Cardinality(ActiveJobs)
      BY <3>3, CountsAreNumbers, FS_Subset
    <3> QED BY <3>3, <3>4, CountsAreNumbers DEF JobsCounted, OneClient
  <2> QED BY <2>1 DEF OnePipeline
<1> QED BY <1>1, <1>2, <1>3, PTL DEF Spec

-----------------------------------------------------------------------------
(* The service the clients see *)

(* What a step of the service asks of the answers: a request in progress   *)
(* has none yet, and is about to name a job that is there, its own if it   *)
(* has opened one; a task was added by the answer to its request; and the  *)
(* run of a pipeline that is in progress is not stored.                    *)
AnswersAgree ==
    /\ \A r \in replies : r.n <= begun
    /\ \A c \in Clients : request[c].at # "idle" =>
          \A r \in replies : r.n # request[c].n
    /\ \A c \in Clients : request[c].at = "reply" =>
          /\ jobs[request[c].job] # "none" /\ request[c].job <= request[c].n
          /\ jobs[request[c].n] # "none" => request[c].job = request[c].n
    /\ \A j \in Requests :
          /\ task[j] = "added" => Service!Reply(j, j) \in replies
          /\ task[j] = "pipeline" => j \notin runs

LEMMA AnswersInit == Init => AnswersAgree
  BY DEF Init, AnswersAgree, Idle

LEMMA AnswersStep == JobsInv /\ AnswersAgree /\ [Next]_vars => AnswersAgree'
<1> SUFFICES ASSUME JobsInv, AnswersAgree, [Next]_vars PROVE AnswersAgree'
  OBVIOUS
<1> USE RequestsAssumption
<1>1. CASE UNCHANGED vars
  BY <1>1 DEF vars, AnswersAgree, Service!Reply
<1>2. ASSUME NEW c \in Clients, SelectActive(c) PROVE AnswersAgree'
  <2> DEFINE n == begun + 1
  <2>1. /\ begun \in Nat /\ n \in Requests /\ begun' = n /\ jobs[n] = "none"
        /\ UNCHANGED <<jobs, runs, task, replies>>
    BY <1>2 DEF SelectActive, JobsInv, TypeOK, TaskAgrees, Requests
  <2>2. PICK at \in {"insert", "reply"}, job \in Requests :
           /\ request' = [request EXCEPT ![c] = [at |-> at, n |-> n, job |-> job]]
           /\ at = "reply" => job <= begun /\ jobs[job] # "none"
    <3>1. CASE ActiveJobs = {}
      BY <1>2, <2>1, <3>1 DEF SelectActive, NewestActive
    <3>2. CASE ActiveJobs # {}
      <4>1. PICK j \in NewestActive :
               request' = [request EXCEPT ![c] = [at |-> "reply", n |-> n, job |-> j]]
        BY <1>2, <3>2 DEF SelectActive
      <4>2. j \in Requests /\ j <= begun /\ jobs[j] # "none"
        BY DEF NewestActive, ActiveJobs, ActiveStatus, JobsInv, TaskAgrees
      <4> QED BY <4>1, <4>2
    <3> QED BY <3>1, <3>2
  <2>3. /\ request'[c] = [at |-> at, n |-> n, job |-> job]
        /\ \A d \in Clients \ {c} : request'[d] = request[d]
    BY <2>2 DEF JobsInv, TypeOK
  <2>4. \A r \in replies : r.n \in Nat /\ r.n <= begun
    BY DEF JobsInv, TypeOK, AnswersAgree, Requests
  <2>5. \A j \in Requests : j \in Nat
    BY DEF Requests
  <2> HIDE DEF n
  <2>6. n \in Nat /\ n = begun + 1
    BY <2>1 DEF n
  <2> QED BY <2>1, <2>2, <2>3, <2>4, <2>5, <2>6 DEF AnswersAgree, Service!Reply
<1>3. ASSUME NEW c \in Clients, InsertJob(c) PROVE AnswersAgree'
  <2>1. /\ request[c].at = "insert" /\ request[c].job = request[c].n
        /\ request[c].n \in Requests /\ UNCHANGED <<runs, task, replies, begun>>
        /\ \A d \in Clients \ {c} : request'[d] = request[d]
        /\ \A d \in Clients \ {c} : request[d].at # "idle" => request[d].n # request[c].n
    BY <1>3 DEF InsertJob, JobsInv, TypeOK, RequestAgrees
  <2>2. CASE /\ jobs' = [jobs EXCEPT ![request[c].job] = "queued"]
             /\ request' = [request EXCEPT ![c].at = "reply"]
    <3>1. /\ request'[c].at = "reply" /\ request'[c].n = request[c].n
          /\ request'[c].job = request[c].n
          /\ jobs'[request[c].n] = "queued"
          /\ \A j \in Requests : j # request[c].n => jobs'[j] = jobs[j]
      BY <2>1, <2>2 DEF JobsInv, TypeOK
    <3>2. request[c].n \in Nat /\ request[c].n <= request[c].n
      BY <2>1 DEF Requests
    <3>3. \A d \in Clients : request[d].at # "idle" =>
             request[d].n \in Requests /\ request[d].job \in Requests
      BY DEF JobsInv, TypeOK, RequestAgrees, Requests
    <3> QED BY <2>1, <3>1, <3>2, <3>3 DEF AnswersAgree, Service!Reply
  <2>3. CASE request' = [request EXCEPT ![c] = Idle] /\ UNCHANGED jobs
    <3>1. request'[c].at = "idle"
      BY <2>3 DEF Idle, JobsInv, TypeOK
    <3> QED BY <2>1, <2>3, <3>1 DEF AnswersAgree, Service!Reply
  <2> QED BY <1>3, <2>2, <2>3 DEF InsertJob
<1>4. ASSUME NEW c \in Clients, Reply(c) PROVE AnswersAgree'
  <2>1. /\ request[c].at = "reply" /\ request[c].n \in 1..begun /\ request[c].job \in Requests
        /\ UNCHANGED <<jobs, runs, begun>>
        /\ request'[c].at = "idle"
        /\ \A d \in Clients \ {c} : request'[d] = request[d]
        /\ \A d \in Clients \ {c} : request[d].at # "idle" => request[d].n # request[c].n
    BY <1>4 DEF Reply, JobsInv, TypeOK, RequestAgrees, Idle
  <2>2. /\ replies' = replies \cup {Service!Reply(request[c].n, request[c].job)}
        /\ \A j \in Requests : \/ task'[j] = task[j]
                               \/ /\ j = request[c].job /\ request[c].job = request[c].n
                                  /\ task'[j] = "added"
    BY <1>4 DEF Reply, Service!Reply, JobsInv, TypeOK
  <2>3. Service!Reply(request[c].n, request[c].job).n = request[c].n
    BY DEF Service!Reply
  <2>4. begun \in Nat /\ request[c].n <= begun
    BY <2>1 DEF JobsInv, TypeOK
  <2>5. \A j : Service!Reply(j, j)' = Service!Reply(j, j)
    BY DEF Service!Reply
  <2> QED BY <2>1, <2>2, <2>3, <2>4, <2>5 DEF AnswersAgree
<1>5. ASSUME NEW j \in Requests, Work(j) PROVE AnswersAgree'
  <2>1. /\ UNCHANGED <<request, replies, begun>>
        /\ \A k \in Requests : jobs[k] # "none" <=> jobs'[k] # "none"
        /\ \A k \in Requests : k # j => task'[k] = task[k] /\ (k \in runs <=> k \in runs')
        /\ task'[j] # "added"
        /\ task'[j] = "pipeline" => task[j] = "added" /\ UNCHANGED runs
    BY <1>5 DEF Work, MarkRunning, PipelineCompletes, PipelineRaises, FinishJob, TaskGoesTo,
       JobsInv, TypeOK, TaskAgrees
  <2>2. task[j] = "added" => j \notin runs
    BY DEF JobsInv, TaskAgrees, CompleteMeansRan
  <2>3. \A d \in Clients : request[d].at # "idle" =>
           request[d].n \in Requests /\ request[d].job \in Requests
    BY DEF JobsInv, TypeOK, RequestAgrees, Requests
  <2> QED BY <2>1, <2>2, <2>3 DEF AnswersAgree, Service!Reply
<1>6. CASE Crash
  <2>1. /\ UNCHANGED <<jobs, runs, replies, begun>>
        /\ \A c \in Clients : request'[c].at = "idle"
        /\ \A j \in Requests : task'[j] \in {task[j], "lost"}
    BY <1>6 DEF Crash, Idle
  <2> QED BY <2>1 DEF AnswersAgree, Service!Reply
<1>7. CASE Done
  BY <1>1, <1>7 DEF Done
<1> QED BY <1>1, <1>2, <1>3, <1>4, <1>5, <1>6, <1>7 DEF Next, Handle

LEMMA StepOfService ==
    JobsInv /\ AnswersAgree /\ [Next]_vars => [Service!Next]_(Service!shown)
<1> SUFFICES ASSUME JobsInv, AnswersAgree, [Next]_vars
             PROVE  [Service!Next]_(Service!shown)
  OBVIOUS
<1> USE RequestsAssumption DEF Service!shown
<1>1. ASSUME NEW c \in Clients, InsertJob(c) PROVE [Service!Next]_(Service!shown)
  <2> DEFINE n == request[c].n
  <2>1. /\ n \in Requests /\ jobs[n] = "none" /\ request[c].job = n
        /\ UNCHANGED <<runs, replies>> /\ \A r \in replies : r.n # n
    BY <1>1 DEF InsertJob, JobsInv, RequestAgrees, AnswersAgree
  <2>2. CASE jobs' = [jobs EXCEPT ![n] = "queued"]
    BY <2>1, <2>2 DEF Service!Open, Service!Answered, Service!Becomes, Service!Next
  <2> QED BY <1>1, <2>1, <2>2 DEF InsertJob
<1>2. ASSUME NEW c \in Clients, Reply(c) PROVE [Service!Next]_(Service!shown)
  <2> DEFINE n == request[c].n
             j == request[c].job
  <2>1. /\ n \in 1..begun /\ j \in Requests /\ begun \in 0..MaxRequests
        /\ jobs[j] # "none" /\ j <= n /\ (jobs[n] # "none" => j = n)
        /\ \A r \in replies : r.n # n
        /\ UNCHANGED <<jobs, runs>>
    BY <1>2 DEF Reply, JobsInv, TypeOK, RequestAgrees, AnswersAgree
  <2>2. n \in Requests
    BY <2>1 DEF Requests
  <2>3. replies' = replies \cup {Service!Reply(n, j)}
    BY <1>2 DEF Reply, Service!Reply
  <2> HIDE DEF n, j
  <2> QED BY <2>1, <2>2, <2>3 DEF Service!Answer, Service!Answered, Service!Next
<1>3. ASSUME NEW j \in Requests, Work(j) PROVE [Service!Next]_(Service!shown)
  <2>1. CASE MarkRunning(j)
    BY <1>3, <2>1 DEF MarkRunning, JobsInv, TaskAgrees, AnswersAgree, Service!Start,
       Service!Becomes, Service!Next
  <2>2. CASE PipelineCompletes(j)
    BY <1>3, <2>2 DEF PipelineCompletes, JobsInv, TaskAgrees, AnswersAgree,
       Service!StoreRun, Service!Next
  <2>3. CASE PipelineRaises(j)
    BY <2>3 DEF PipelineRaises
  <2>4. CASE FinishJob(j)
    <3>1. /\ task[j] \in {"complete", "failed"} /\ jobs[j] = "running"
          /\ task[j] = "complete" => j \in runs
          /\ UNCHANGED <<runs, replies>>
      BY <2>4 DEF FinishJob, JobsInv, TaskAgrees
    <3>2. CASE jobs' = [jobs EXCEPT ![j] = task[j]]
      BY <3>1, <3>2 DEF Service!End, Service!Becomes, Service!Next
    <3> QED BY <2>4, <3>1, <3>2 DEF FinishJob
  <2> QED BY <1>3, <2>1, <2>2, <2>3, <2>4 DEF Work
<1>4. CASE (\E c \in Clients : SelectActive(c)) \/ Crash \/ Done \/ UNCHANGED vars
  BY <1>4 DEF SelectActive, Crash, Done, vars
<1> QED BY <1>1, <1>2, <1>3, <1>4 DEF Next, Handle

(* What the clients see of POST /reconcile is the abstract service: a job  *)
(* opens once, is told to its client before it starts, stores its run once *)
(* and ends once, as complete only with its run; an answer names the job   *)
(* the request opened or an older one (_create_job, _run_reconcile_job and *)
(* _finish_job, whatever raises and whenever the process dies).            *)
THEOREM ServiceIsAlwaysKept == Spec => ServiceIsKept
<1>1. Init => Service!Init
  BY DEF Init, Service!Init
<1> QED BY <1>1, AnswersInit, AnswersStep, StepOfService, JobsInvariance, PTL
        DEF Spec, ServiceIsKept, Service!Spec
=============================================================================
