------------------------------ MODULE PerfPool ------------------------------
(***************************************************************************)
(* ClusterPerf.jam_attempt_impl and makedata_runner                        *)
(* (arangodb/starter/deployments/cluster_perf.py): the main thread queues  *)
(* db_count_chunks jobs, starts `parallelity` worker threads one after the *)
(* other, then takes messages from a result queue until it has counted as  *)
(* many as there are workers, and joins the workers.  A worker runs job    *)
(* after job in its arangosh, puts a message per job, and one more when it *)
(* finds the queue empty; after a failed job it puts a message and stops.  *)
(*                                                                         *)
(* The run of one job is create_test_data, hence a call of                 *)
(* MonitoredShell: it succeeds, it fails, or it raises what the callback   *)
(* result_line or the process launch raised.                               *)
(***************************************************************************)
EXTENDS Integers, Sequences

CONSTANTS
    Chunks,       \* scenario.db_count_chunks: jobs that are queued
    Parallelity,  \* scenario.parallelity: worker threads
    DbCount,      \* scenario.db_count: databases one job creates
    DbOffset,     \* scenario.db_offset: chunks other clients create
    MayFail,      \* may a job fail?
    MayRaise      \* may a job's arangosh call raise?

ASSUME ChunksAssumption == Chunks \in Nat
ASSUME ParallelityAssumption == Parallelity \in Nat
ASSUME DbAssumption == DbCount \in Nat \ {0} /\ DbOffset \in Nat
ASSUME FailureAssumption == MayFail \in BOOLEAN /\ MayRaise \in BOOLEAN

Workers == 1..Parallelity
Jobs == 0..(Chunks - 1)
NoJob == -1

VARIABLES
    nextJob,   \* the queue `jobs` holds nextJob..(Chunks - 1), oldest first
    worker,    \* worker[w]: where thread w is, or how it ended
    job,       \* job[w]: the job thread w runs, else NoJob
    succeeded, \* the jobs that were run to success
    failed,    \* the jobs whose run failed or raised
    resultq,   \* messages put and not yet taken
    pc,        \* the main thread
    tcount     \* messages it counted

vars == <<nextJob, worker, job, succeeded, failed, resultq, pc, tcount>>

jobVars == <<succeeded, failed>>

Messages == {"result", "gave_up", "no_more_work"}

Ended == {"gave_up", "no_more_work", "raised"}

(* The databases job i creates: numberOfDBs of them from countOffset on. *)
CountOffset(i) == (i + DbOffset) * DbCount + 1
Databases(i) == CountOffset(i)..(CountOffset(i) + DbCount - 1)

TypeOK ==
    /\ nextJob \in 0..Chunks
    /\ worker \in [Workers -> {"unstarted", "polling", "running"} \cup Ended]
    /\ job \in [Workers -> Jobs \cup {NoJob}]
    /\ succeeded \in SUBSET Jobs
    /\ failed \in SUBSET Jobs
    /\ resultq \in Seq(Messages)
    /\ pc \in {"starting", "counting", "joining", "returned"}
    /\ tcount \in 0..Parallelity

Init ==
    /\ nextJob = 0
    /\ worker = [w \in Workers |-> "unstarted"]
    /\ job = [w \in Workers |-> NoJob]
    /\ succeeded = {}
    /\ failed = {}
    /\ resultq = <<>>
    /\ pc = "starting"
    /\ tcount = 0

-----------------------------------------------------------------------------
(* makedata_runner, thread w. *)

(* Mutant: two workers look at the head of the queue before one removes it. *)
MutantTakeJob(w) ==
    /\ worker[w] = "polling"
    /\ nextJob < Chunks
    /\ \E peeked \in {nextJob, IF nextJob = 0 THEN 0 ELSE nextJob - 1} :
         job' = [job EXCEPT ![w] = peeked]
    /\ nextJob' = nextJob + 1
    /\ worker' = [worker EXCEPT ![w] = "running"]
    /\ UNCHANGED <<jobVars, resultq, pc, tcount>>

TakeJob(w) ==
    /\ worker[w] = "polling"
    /\ nextJob < Chunks
    /\ job' = [job EXCEPT ![w] = nextJob]
    /\ nextJob' = nextJob + 1
    /\ worker' = [worker EXCEPT ![w] = "running"]
    /\ UNCHANGED <<jobVars, resultq, pc, tcount>>

JobSucceeds(w) ==
    /\ worker[w] = "running"
    /\ succeeded' = succeeded \cup {job[w]}
    /\ resultq' = Append(resultq, "result")
    /\ worker' = [worker EXCEPT ![w] = "polling"]
    /\ job' = [job EXCEPT ![w] = NoJob]
    /\ UNCHANGED <<nextJob, failed, pc, tcount>>

(* Mutant: a worker that gives up says nothing. *)
MutantJobFails(w) ==
    /\ MayFail
    /\ worker[w] = "running"
    /\ failed' = failed \cup {job[w]}
    /\ worker' = [worker EXCEPT ![w] = "gave_up"]
    /\ job' = [job EXCEPT ![w] = NoJob]
    /\ UNCHANGED <<nextJob, succeeded, resultq, pc, tcount>>

JobFails(w) ==
    /\ MayFail
    /\ worker[w] = "running"
    /\ failed' = failed \cup {job[w]}
    /\ resultq' = Append(resultq, "gave_up")
    /\ worker' = [worker EXCEPT ![w] = "gave_up"]
    /\ job' = [job EXCEPT ![w] = NoJob]
    /\ UNCHANGED <<nextJob, succeeded, pc, tcount>>

(* Only Empty is caught: any other exception ends the thread unannounced. *)
JobRaises(w) ==
    /\ MayRaise
    /\ worker[w] = "running"
    /\ failed' = failed \cup {job[w]}
    /\ worker' = [worker EXCEPT ![w] = "raised"]
    /\ job' = [job EXCEPT ![w] = NoJob]
    /\ UNCHANGED <<nextJob, succeeded, resultq, pc, tcount>>

NoMoreWork(w) ==
    /\ worker[w] = "polling"
    /\ nextJob = Chunks
    /\ resultq' = Append(resultq, "no_more_work")
    /\ worker' = [worker EXCEPT ![w] = "no_more_work"]
    /\ UNCHANGED <<nextJob, job, jobVars, pc, tcount>>

Worker(w) ==
    \/ TakeJob(w)
    \/ JobSucceeds(w)
    \/ JobFails(w)
    \/ JobRaises(w)
    \/ NoMoreWork(w)

-----------------------------------------------------------------------------
(* jam_attempt_impl, the main thread. *)

(* Threads are started in list order, launch_delay apart. *)
StartWorker(w) ==
    /\ pc = "starting"
    /\ worker[w] = "unstarted"
    /\ \A v \in 1..(w - 1) : worker[v] # "unstarted"
    /\ worker' = [worker EXCEPT ![w] = "polling"]
    /\ UNCHANGED <<nextJob, job, jobVars, resultq, pc, tcount>>

AllStarted ==
    /\ pc = "starting"
    /\ \A w \in Workers : worker[w] # "unstarted"
    /\ pc' = "counting"
    /\ UNCHANGED <<nextJob, worker, job, jobVars, resultq, tcount>>

(* Mutant: one message too many is awaited. *)
MutantCountMessage ==
    /\ pc = "counting"
    /\ tcount <= Parallelity
    /\ resultq # <<>>
    /\ resultq' = Tail(resultq)
    /\ tcount' = tcount + 1
    /\ UNCHANGED <<nextJob, worker, job, jobVars, pc>>

(* No message is a bytes object, so every one of them is counted as the    *)
(* end of a thread, the results of jobs included.                          *)
CountMessage ==
    /\ pc = "counting"
    /\ tcount < Parallelity
    /\ resultq # <<>>
    /\ resultq' = Tail(resultq)
    /\ tcount' = tcount + 1
    /\ UNCHANGED <<nextJob, worker, job, jobVars, pc>>

AllCounted ==
    /\ pc = "counting"
    /\ tcount >= Parallelity
    /\ pc' = "joining"
    /\ UNCHANGED <<nextJob, worker, job, jobVars, resultq, tcount>>

(* Mutant: the counting is taken for the end of the threads. *)
MutantJoinWorkers ==
    /\ pc = "joining"
    /\ pc' = "returned"
    /\ UNCHANGED <<nextJob, worker, job, jobVars, resultq, tcount>>

JoinWorkers ==
    /\ pc = "joining"
    /\ \A w \in Workers : worker[w] \in Ended
    /\ pc' = "returned"
    /\ UNCHANGED <<nextJob, worker, job, jobVars, resultq, tcount>>

Main ==
    \/ \E w \in Workers : StartWorker(w)
    \/ AllStarted
    \/ CountMessage
    \/ AllCounted
    \/ JoinWorkers

Returned == pc = "returned" /\ UNCHANGED vars

Next ==
    \/ Main
    \/ \E w \in Workers : Worker(w)
    \/ Returned

Spec == Init /\ [][Next]_vars

(* The interpreter schedules its threads, and create_test_data returns:    *)
(* run_script_monitored kills an arangosh that falls silent.               *)
FairSpec ==
    /\ Spec
    /\ WF_vars(Main)
    /\ \A w \in Workers : WF_vars(Worker(w))

-----------------------------------------------------------------------------
(* The databases some worker has created or is creating for job i. *)
Touched(i) == i \in succeeded \cup failed \/ \E w \in Workers : job[w] = i

(* No chunk is run twice, whatever two workers do at the same time, and no *)
(* two chunks create the same database, so none fails on "duplicate name". *)
NoDatabaseTwice ==
    /\ \A v, w \in Workers : v # w /\ job[v] # NoJob => job[v] # job[w]
    /\ \A w \in Workers : job[w] \notin succeeded \cup failed
    /\ succeeded \cap failed = {}
    /\ \A i, k \in Jobs :
         Touched(i) /\ Touched(k) /\ i # k => Databases(i) \cap Databases(k) = {}

(* The main thread never waits for a message that nobody will put: while   *)
(* it waits on an empty queue some worker is alive, or has raised.  Every  *)
(* worker but one that raised announces its end.                           *)
SomebodyWillSpeak ==
    pc = "counting" /\ tcount < Parallelity /\ resultq = <<>> =>
        \E w \in Workers : worker[w] \in {"polling", "running", "raised"}

(* jam_attempt_impl keeps the promise of a pool of jobs: each is handed out *)
(* once and to one worker, and the return to a runner that shuts the       *)
(* deployment down next comes after the last of them, although the message *)
(* count that leads to it counts the results of jobs too.                  *)
Pool == INSTANCE JobPool WITH
    waiting <- {i \in Jobs : i >= nextJob},
    lost <- {w \in Workers : worker[w] \in {"gave_up", "raised"}},
    over <- pc = "returned"

ImplementsJobPool == Pool!Spec

(* The data stress ends, whichever jobs fail, unless a worker raised: the  *)
(* workers put at least as many messages as the main thread waits for.     *)
StressEnds == <>(pc = "returned" \/ \E w \in Workers : worker[w] = "raised")
=============================================================================
