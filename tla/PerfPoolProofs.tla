--------------------------- MODULE PerfPoolProofs ---------------------------
(***************************************************************************)
(* Theorems about PerfPool, for every number of jobs and worker threads,   *)
(* with failing jobs and raising workers: its invariants, that it          *)
(* implements JobPool, and the two halves of its termination, that nobody  *)
(* waits in vain and that every step leaves less to do.                    *)
(***************************************************************************)
EXTENDS PerfPool, FiniteSetTheorems, TLAPS

(* A worker has a job exactly while it runs one, and no two have the same. *)
JobsInHand ==
    /\ \A w \in Workers : job[w] # NoJob <=> worker[w] = "running"
    /\ \A v, w \in Workers : v # w /\ job[v] # NoJob => job[v] # job[w]
    /\ \A w \in Workers : job[w] \notin succeeded \cup failed
    /\ succeeded \cap failed = {}

(* The jobs taken from the queue are those done, failed or in hand. *)
JobsTaken ==
    \A i \in Jobs :
        i < nextJob <=> i \in succeeded \cup failed \/ \E w \in Workers : job[w] = i

ThreadsKnow ==
    /\ \A w \in Workers : worker[w] = "no_more_work" => nextJob = Chunks
    /\ pc # "starting" => \A w \in Workers : worker[w] # "unstarted"
    /\ pc = "returned" => \A w \in Workers : worker[w] \in Ended

IInv ==
    /\ TypeOK
    /\ JobsInHand
    /\ JobsTaken
    /\ ThreadsKnow

-----------------------------------------------------------------------------
(* Equally long ranges that start one length apart, or more, are disjoint. *)
LEMMA DistributeOverStep ==
    ASSUME NEW a \in Nat, NEW b \in Nat, NEW n \in Nat, a < b
    PROVE  a * n + n <= b * n
<1>1. PICK d \in Nat : b = a + 1 + d
  <2>1. b - a - 1 \in Nat /\ b = a + 1 + (b - a - 1)
    OBVIOUS
  <2> QED BY <2>1
<1>2. b * n = a * n + n + d * n
  BY <1>1
<1>3. d * n \in Nat /\ a * n \in Nat
  OBVIOUS
<1> QED BY <1>2, <1>3

LEMMA DatabasesDisjoint ==
    ASSUME NEW i \in Jobs, NEW k \in Jobs, i # k
    PROVE  Databases(i) \cap Databases(k) = {}
<1>1. i \in Nat /\ k \in Nat /\ DbCount \in Nat /\ DbOffset \in Nat
  BY ChunksAssumption, DbAssumption DEF Jobs
<1>2. ASSUME NEW x \in Nat, NEW y \in Nat, x < y
      PROVE  Databases(x) \cap Databases(y) = {}
  <2>1. x + DbOffset \in Nat /\ y + DbOffset \in Nat /\ x + DbOffset < y + DbOffset
    BY <1>1, <1>2
  <2>2. (x + DbOffset) * DbCount + DbCount <= (y + DbOffset) * DbCount
    BY <1>1, <2>1, DistributeOverStep
  <2>3. CountOffset(x) \in Nat /\ CountOffset(y) \in Nat
    BY <1>1, <2>1 DEF CountOffset
  <2>4. CountOffset(x) + DbCount <= CountOffset(y)
    <3> DEFINE p == (x + DbOffset) * DbCount
               q == (y + DbOffset) * DbCount
    <3>1. p \in Nat /\ q \in Nat /\ p + DbCount <= q
      BY <1>1, <2>1, <2>2
    <3>2. CountOffset(x) = p + 1 /\ CountOffset(y) = q + 1
      BY DEF CountOffset
    <3> HIDE DEF p, q
    <3> QED BY <1>1, <3>1, <3>2
  <2> QED BY <1>1, <2>3, <2>4 DEF Databases
<1>3. i < k \/ k < i
  BY <1>1
<1> QED BY <1>1, <1>2, <1>3

(* What the threads and the main thread do to the result queue. *)
LEMMA QueueTyped ==
    ASSUME NEW M, NEW q \in Seq(M)
    PROVE  /\ \A m \in M : Append(q, m) \in Seq(M)
           /\ q # <<>> => Tail(q) \in Seq(M)
  OBVIOUS

LEMMA JobRange == \A i \in Jobs : i < Chunks /\ i # NoJob
  BY ChunksAssumption DEF Jobs, NoJob

LEMMA InitIInv == Init => IInv
  BY ChunksAssumption, ParallelityAssumption
     DEF Init, IInv, TypeOK, JobsInHand, JobsTaken, ThreadsKnow, Jobs, NoJob,
         Ended, Workers

(* One worker's step changes the record of at most its own job. *)
LEMMA WorkerStep ==
    ASSUME IInv, NEW w \in Workers, Worker(w)
    PROVE  IInv'
<1> USE DEF IInv
<1> USE ChunksAssumption, ParallelityAssumption
<1>0. nextJob \in 0..Chunks
  BY DEF TypeOK
<1>1. nextJob \in Nat /\ NoJob \notin Jobs
  BY <1>0 DEF Jobs, NoJob
<1>2. CASE TakeJob(w)
  <2>1. /\ worker[w] = "polling" /\ nextJob < Chunks
        /\ job' = [job EXCEPT ![w] = nextJob]
        /\ nextJob' = nextJob + 1
        /\ worker' = [worker EXCEPT ![w] = "running"]
        /\ UNCHANGED <<succeeded, failed, resultq, pc, tcount>>
    BY <1>2 DEF TakeJob, jobVars
  <2>2. nextJob \in Jobs /\ nextJob' \in 0..Chunks
    BY <1>0, <2>1 DEF Jobs
  <2>3. job[w] = NoJob
    BY <2>1 DEF JobsInHand
  <2>4. nextJob \notin succeeded \cup failed /\ \A v \in Workers : job[v] # nextJob
    <3>1. ~(nextJob < nextJob)
      BY <1>1
    <3> QED BY <2>2, <3>1 DEF JobsTaken
  <2>5. /\ job'[w] = nextJob /\ worker'[w] = "running"
        /\ \A v \in Workers : v # w => job'[v] = job[v] /\ worker'[v] = worker[v]
    BY <2>1 DEF TypeOK
  <2>6. TypeOK'
    BY <2>1, <2>2 DEF TypeOK
  <2>7. JobsInHand'
    BY <1>1, <2>1, <2>2, <2>4, <2>5 DEF JobsInHand
  <2>8. JobsTaken'
    <3> SUFFICES ASSUME NEW i \in Jobs
                 PROVE  i < nextJob + 1 <=>
                          \/ i \in succeeded \cup failed
                          \/ \E v \in Workers : job'[v] = i
      BY <2>1 DEF JobsTaken
    <3>1. i \in Nat /\ (i < nextJob + 1 <=> i < nextJob \/ i = nextJob)
      BY <1>1 DEF Jobs
    <3>2. (\E v \in Workers : job'[v] = i) <=>
            i = nextJob \/ \E v \in Workers : job[v] = i
      BY <1>1, <2>3, <2>5
    <3> QED BY <3>1, <3>2 DEF JobsTaken
  <2>9. ThreadsKnow'
    <3>1. nextJob # Chunks
      BY <1>1, <2>1
    <3>2. \A v \in Workers : worker'[v] # "no_more_work"
      BY <2>5, <3>1 DEF ThreadsKnow
    <3>3. pc # "returned"
      BY <2>1 DEF ThreadsKnow, Ended
    <3>4. pc' # "starting" => \A v \in Workers : worker'[v] # "unstarted"
      BY <2>1, <2>5 DEF ThreadsKnow
    <3> QED BY <2>1, <3>2, <3>3, <3>4 DEF ThreadsKnow
  <2> QED BY <2>6, <2>7, <2>8, <2>9
<1>3. CASE JobSucceeds(w) \/ JobFails(w) \/ JobRaises(w)
  <2>1. /\ worker[w] = "running"
        /\ job' = [job EXCEPT ![w] = NoJob]
        /\ UNCHANGED <<nextJob, pc, tcount>>
        /\ worker'[w] \in {"polling", "gave_up", "raised"}
        /\ worker' = [worker EXCEPT ![w] = worker'[w]]
        /\ \E m \in Messages : resultq' \in {resultq, Append(resultq, m)}
        /\ \/ succeeded' = succeeded \cup {job[w]} /\ failed' = failed
           \/ failed' = failed \cup {job[w]} /\ succeeded' = succeeded
    <3>1. DOMAIN worker = Workers
      BY DEF TypeOK
    <3>2. CASE JobSucceeds(w)
      BY <3>1, <3>2 DEF JobSucceeds, Messages
    <3>3. CASE JobFails(w)
      BY <3>1, <3>3 DEF JobFails, Messages
    <3>4. CASE JobRaises(w)
      BY <3>1, <3>4 DEF JobRaises, jobVars, Messages
    <3> QED BY <1>3, <3>2, <3>3, <3>4
  <2>2. job[w] \in Jobs /\ job[w] # NoJob
    BY <2>1 DEF JobsInHand, TypeOK
  <2>3. /\ job'[w] = NoJob
        /\ \A v \in Workers : v # w => job'[v] = job[v] /\ worker'[v] = worker[v]
    BY <2>1 DEF TypeOK
  <2>4. succeeded' \cup failed' = succeeded \cup failed \cup {job[w]}
    BY <2>1
  <2>5. TypeOK'
    <3>1. PICK m \in Messages : resultq' \in {resultq, Append(resultq, m)}
      BY <2>1
    <3>2. resultq \in Seq(Messages)
      BY DEF TypeOK
    <3>3. resultq' \in Seq(Messages)
      BY <3>1, <3>2, QueueTyped
    <3> QED BY <2>1, <2>2, <3>3 DEF TypeOK, Ended
  <2>6. JobsInHand'
    <3>1. \A v \in Workers : job'[v] # NoJob <=> worker'[v] = "running"
      BY <2>1, <2>3 DEF JobsInHand
    <3>2. \A u, v \in Workers : u # v /\ job'[u] # NoJob => job'[u] # job'[v]
      BY <2>3 DEF JobsInHand
    <3>3. \A v \in Workers : job'[v] \notin succeeded' \cup failed'
      <4>1. NoJob \notin succeeded' \cup failed'
        BY <1>1, <2>2, <2>4 DEF TypeOK
      <4>2. \A v \in Workers : v # w => job[v] # job[w]
        BY <2>2 DEF JobsInHand
      <4> QED BY <2>3, <2>4, <4>1, <4>2 DEF JobsInHand
    <3>4. succeeded' \cap failed' = {}
      BY <2>1 DEF JobsInHand
    <3> QED BY <3>1, <3>2, <3>3, <3>4 DEF JobsInHand
  <2>7. JobsTaken'
    <3> SUFFICES ASSUME NEW i \in Jobs
                 PROVE  i < nextJob <=>
                          \/ i \in succeeded \cup failed \cup {job[w]}
                          \/ \E v \in Workers : job'[v] = i
      BY <2>1, <2>4 DEF JobsTaken
    <3>1. (i = job[w] \/ \E v \in Workers : job'[v] = i) <=>
            \E v \in Workers : job[v] = i
      BY <1>1, <2>3
    <3> QED BY <3>1 DEF JobsTaken
  <2>8. ThreadsKnow'
    BY <2>1, <2>3 DEF ThreadsKnow, Ended
  <2> QED BY <2>5, <2>6, <2>7, <2>8
<1>4. CASE NoMoreWork(w)
  <2>1. /\ worker[w] = "polling" /\ nextJob = Chunks
        /\ worker' = [worker EXCEPT ![w] = "no_more_work"]
        /\ resultq' = Append(resultq, "no_more_work")
        /\ UNCHANGED <<nextJob, job, succeeded, failed, pc, tcount>>
    BY <1>4 DEF NoMoreWork, jobVars
  <2>2. /\ worker'[w] = "no_more_work"
        /\ \A v \in Workers : v # w => worker'[v] = worker[v]
    BY <2>1 DEF TypeOK
  <2>3. TypeOK'
    <3>1. resultq' \in Seq(Messages)
      BY <2>1, QueueTyped DEF TypeOK, Messages
    <3> QED BY <2>1, <3>1 DEF TypeOK, Ended
  <2>4. JobsInHand'
    BY <2>1, <2>2 DEF JobsInHand
  <2>5. JobsTaken' /\ ThreadsKnow'
    BY <2>1, <2>2 DEF JobsTaken, ThreadsKnow, Ended
  <2> QED BY <2>3, <2>4, <2>5
<1> QED BY <1>2, <1>3, <1>4 DEF Worker

(* The main thread starts, counts and joins; it never touches a job. *)
LEMMA MainStep == IInv /\ Main => IInv'
<1> SUFFICES ASSUME IInv, Main PROVE IInv'
  OBVIOUS
<1> USE DEF IInv
<1>1. UNCHANGED <<nextJob, job, succeeded, failed>>
  BY DEF Main, StartWorker, AllStarted, CountMessage, AllCounted, JoinWorkers,
         jobVars
<1>2. JobsTaken'
  BY <1>1 DEF JobsTaken
<1>3. ASSUME NEW w \in Workers, StartWorker(w) PROVE IInv'
  <2>1. /\ pc = "starting" /\ worker[w] = "unstarted"
        /\ worker' = [worker EXCEPT ![w] = "polling"]
        /\ UNCHANGED <<resultq, pc, tcount>>
    BY <1>3 DEF StartWorker
  <2>2. /\ worker'[w] = "polling"
        /\ \A v \in Workers : v # w => worker'[v] = worker[v]
    BY <2>1 DEF TypeOK
  <2> QED BY <1>1, <1>2, <2>1, <2>2 DEF TypeOK, JobsInHand, ThreadsKnow
<1>4. CASE CountMessage
  <2>1. /\ UNCHANGED <<worker, pc>>
        /\ tcount' \in 0..Parallelity
        /\ resultq' \in Seq(Messages)
    <3>1. /\ UNCHANGED <<worker, pc>>
          /\ tcount < Parallelity /\ tcount' = tcount + 1
          /\ resultq # <<>> /\ resultq' = Tail(resultq)
      BY <1>4 DEF CountMessage
    <3>2. tcount \in 0..Parallelity /\ resultq \in Seq(Messages)
      BY DEF TypeOK
    <3>3. tcount' \in 0..Parallelity
      BY <3>1, <3>2, ParallelityAssumption
    <3> QED BY <3>1, <3>2, <3>3, QueueTyped
  <2> QED BY <1>1, <1>2, <2>1 DEF TypeOK, JobsInHand, ThreadsKnow
<1>5. CASE AllStarted \/ AllCounted \/ JoinWorkers
  BY <1>1, <1>2, <1>5
     DEF AllStarted, AllCounted, JoinWorkers, TypeOK, JobsInHand, ThreadsKnow
<1> QED BY <1>3, <1>4, <1>5 DEF Main

LEMMA StutterStep == IInv /\ UNCHANGED vars => IInv'
  BY DEF IInv, vars, TypeOK, JobsInHand, JobsTaken, ThreadsKnow

LEMMA SpecIInv == Spec => []IInv
<1>1. IInv /\ [Next]_vars => IInv'
  BY WorkerStep, MainStep, StutterStep DEF Next, Returned
<1> QED BY InitIInv, <1>1, PTL DEF Spec

-----------------------------------------------------------------------------
(* Every variable keeps its type: tcount never passes the thread count. *)
THEOREM TypeCorrect == Spec => []TypeOK
<1>1. IInv => TypeOK
  BY DEF IInv
<1> QED BY <1>1, SpecIInv, PTL

(* No chunk is run by two workers and no database is created by two chunks.*)
THEOREM DatabasesCreatedOnce == Spec => []NoDatabaseTwice
<1>1. IInv => NoDatabaseTwice
  BY DatabasesDisjoint DEF IInv, JobsInHand, NoDatabaseTwice
<1> QED BY <1>1, SpecIInv, PTL

-----------------------------------------------------------------------------
(* How many workers are at one of these places, and how a step of one of   *)
(* them changes the number.                                                *)
At(places) == {w \in Workers : worker[w] \in places}

LEMMA WorkersFinite == IsFiniteSet(Workers) /\ Cardinality(Workers) = Parallelity
<1>1. Parallelity \in Int /\ 1 \in Int /\ Parallelity \in Nat
  BY ParallelityAssumption
<1>2. /\ IsFiniteSet(1..Parallelity)
      /\ Cardinality(1..Parallelity) = IF 1 > Parallelity THEN 0 ELSE Parallelity - 1 + 1
  BY <1>1, FS_Interval
<1> QED BY <1>1, <1>2 DEF Workers

LEMMA CountTyped == \A places : IsFiniteSet(At(places)) /\ Cardinality(At(places)) \in Nat
<1> TAKE places
<1>1. IsFiniteSet(At(places))
  BY WorkersFinite, FS_Subset DEF At
<1> QED BY <1>1, FS_CardinalityType

In(place, places) == IF place \in places THEN 1 ELSE 0

LEMMA CountMoves ==
    ASSUME TypeOK, NEW w \in Workers, NEW to, NEW places,
           worker' = [worker EXCEPT ![w] = to]
    PROVE  Cardinality(At(places)') =
             Cardinality(At(places)) + In(to, places) - In(worker[w], places)
<1>1. /\ worker'[w] = to
      /\ \A v \in Workers : v # w => worker'[v] = worker[v]
  BY DEF TypeOK
<1>2. IsFiniteSet(At(places)) /\ Cardinality(At(places)) \in Nat
  BY CountTyped
<1>3. At(places)' = {v \in Workers : worker'[v] \in places}
  BY DEF At, Workers
<1>4. CASE (worker[w] \in places) <=> (to \in places)
  <2>1. At(places)' = At(places)
    BY <1>1, <1>3, <1>4 DEF At
  <2> QED BY <1>2, <1>4, <2>1 DEF In
<1>5. CASE worker[w] \notin places /\ to \in places
  <2>1. At(places)' = At(places) \cup {w} /\ w \notin At(places)
    BY <1>1, <1>3, <1>5 DEF At
  <2>2. Cardinality(At(places) \cup {w}) = Cardinality(At(places)) + 1
    BY <1>2, <2>1, FS_AddElement
  <2> QED BY <1>2, <1>5, <2>1, <2>2 DEF In
<1>6. CASE worker[w] \in places /\ to \notin places
  <2>1. At(places)' = At(places) \ {w} /\ w \in At(places)
    BY <1>1, <1>3, <1>6 DEF At
  <2>2. Cardinality(At(places) \ {w}) = Cardinality(At(places)) - 1
    BY <1>2, <2>1, FS_RemoveElement
  <2> QED BY <1>2, <1>6, <2>1, <2>2 DEF In
<1> QED BY <1>4, <1>5, <1>6

LEMMA CountStays ==
    ASSUME UNCHANGED worker, NEW places
    PROVE  Cardinality(At(places)') = Cardinality(At(places))
  BY DEF At, Workers

(* The length of the queue after one more message, and after one less. *)
LEMMA QueueLength ==
    ASSUME NEW q \in Seq(Messages)
    PROVE  /\ Len(q) \in Nat
           /\ \A m \in Messages : Len(Append(q, m)) = Len(q) + 1
           /\ q # <<>> => Len(Tail(q)) = Len(q) - 1 /\ Len(q) > 0
           /\ q = <<>> <=> Len(q) = 0
  OBVIOUS

-----------------------------------------------------------------------------
(* No announcement is lost: it is counted or still in the queue, where it  *)
(* may be one of many messages. *)
Announced == {"gave_up", "no_more_work"}
AllAnnounced == Cardinality(At(Announced)) <= tcount + Len(resultq)

LEMMA AnnouncedStep ==
    ASSUME IInv, AllAnnounced, [Next]_vars
    PROVE  AllAnnounced'
<1> USE DEF IInv
<1>0. /\ TypeOK /\ tcount \in Nat /\ Len(resultq) \in Nat
      /\ Cardinality(At(Announced)) \in Nat
  BY ParallelityAssumption, CountTyped, QueueLength DEF TypeOK
<1>1. ASSUME NEW w \in Workers, TakeJob(w) \/ StartWorker(w) \/ JobRaises(w)
      PROVE  AllAnnounced'
  <2>1. /\ \E to \in {"running", "polling", "raised"} :
              worker' = [worker EXCEPT ![w] = to]
        /\ worker[w] \in {"polling", "unstarted", "running"}
        /\ UNCHANGED <<resultq, tcount>>
    BY <1>1 DEF TakeJob, StartWorker, JobRaises
  <2>2. PICK to \in {"running", "polling", "raised"} :
            worker' = [worker EXCEPT ![w] = to]
    BY <2>1
  <2>3. Cardinality(At(Announced)') =
          Cardinality(At(Announced)) + In(to, Announced) - In(worker[w], Announced)
    BY <1>0, <2>2, CountMoves
  <2>4. In(to, Announced) = 0 /\ In(worker[w], Announced) = 0
    BY <2>1 DEF In, Announced
  <2>5. Cardinality(At(Announced)') = Cardinality(At(Announced))
    BY <1>0, <2>3, <2>4
  <2> QED BY <2>1, <2>5 DEF AllAnnounced, Announced
<1>2. ASSUME NEW w \in Workers, JobSucceeds(w) \/ JobFails(w) \/ NoMoreWork(w)
      PROVE  AllAnnounced'
  <2>1. /\ \E to \in {"polling", "gave_up", "no_more_work"} :
              worker' = [worker EXCEPT ![w] = to]
        /\ worker[w] \in {"polling", "running"}
        /\ \E m \in Messages : resultq' = Append(resultq, m)
        /\ UNCHANGED tcount
    BY <1>2 DEF JobSucceeds, JobFails, NoMoreWork, Messages
  <2>2. PICK to \in {"polling", "gave_up", "no_more_work"} :
            worker' = [worker EXCEPT ![w] = to]
    BY <2>1
  <2>3. Cardinality(At(Announced)') =
          Cardinality(At(Announced)) + In(to, Announced) - In(worker[w], Announced)
    BY <1>0, <2>2, CountMoves
  <2>4. In(to, Announced) \in {0, 1} /\ In(worker[w], Announced) = 0
    BY <2>1 DEF In, Announced
  <2>5. Cardinality(At(Announced)') <= Cardinality(At(Announced)) + 1
    BY <1>0, <2>3, <2>4
  <2>6. Len(resultq') = Len(resultq) + 1
    BY <2>1, QueueLength DEF TypeOK
  <2>7. Cardinality(At(Announced)') \in Nat
    BY <1>0, <2>3, <2>4
  <2> HIDE DEF Announced
  <2> QED BY <1>0, <2>1, <2>5, <2>6, <2>7 DEF AllAnnounced
<1>3. CASE CountMessage
  <2>1. /\ tcount' = tcount + 1 /\ Len(resultq') = Len(resultq) - 1
        /\ UNCHANGED worker
    BY <1>3, QueueLength DEF CountMessage, TypeOK
  <2>2. Cardinality(At(Announced)') = Cardinality(At(Announced))
    BY <2>1, CountStays
  <2> QED BY <1>0, <2>1, <2>2 DEF AllAnnounced, Announced
<1>4. CASE AllStarted \/ AllCounted \/ JoinWorkers \/ UNCHANGED vars
  <2>1. UNCHANGED <<worker, tcount, resultq>>
    BY <1>4 DEF AllStarted, AllCounted, JoinWorkers, vars
  <2> QED BY <2>1, CountStays DEF AllAnnounced, Announced
<1> QED BY <1>1, <1>2, <1>3, <1>4 DEF Next, Main, Worker, Returned

LEMMA SpecAnnounced == Spec => []AllAnnounced
<1>1. Init => AllAnnounced
  <2> SUFFICES ASSUME Init PROVE AllAnnounced
    OBVIOUS
  <2>1. At(Announced) = {} /\ Len(resultq) = 0 /\ tcount = 0
    BY DEF Init, At, Announced
  <2> QED BY <2>1, FS_EmptySet DEF AllAnnounced
<1> QED BY <1>1, AnnouncedStep, SpecIInv, PTL DEF Spec

(* The safety half of "the data stress ends": the main thread is never     *)
(* left waiting, whatever the number of workers and of failing jobs.       *)
THEOREM NobodyWaitsInVain == Spec => []SomebodyWillSpeak
<1>1. ASSUME IInv, AllAnnounced PROVE SomebodyWillSpeak
  <2> USE <1>1 DEF IInv
  <2> SUFFICES ASSUME pc = "counting", tcount < Parallelity, resultq = <<>>,
                      \A w \in Workers : worker[w] \notin {"polling", "running", "raised"}
               PROVE  FALSE
    BY DEF SomebodyWillSpeak
  <2>1. At(Announced) = Workers
    BY DEF At, Announced, TypeOK, ThreadsKnow, Ended
  <2>2. Parallelity <= tcount + Len(resultq)
    BY <2>1, WorkersFinite DEF AllAnnounced
  <2>3. Len(resultq) = 0 /\ tcount \in Nat
    BY QueueLength, ParallelityAssumption DEF TypeOK
  <2> QED BY <2>2, <2>3, ParallelityAssumption
<1> QED BY <1>1, SpecIInv, SpecAnnounced, PTL

-----------------------------------------------------------------------------
(* The work that is left: what each queued job, each worker and each       *)
(* message can still give rise to. *)
Working == {"unstarted", "polling", "running"}
MainSteps == IF pc = "starting" THEN 3 ELSE IF pc = "counting" THEN 2
             ELSE IF pc = "joining" THEN 1 ELSE 0

WorkLeft ==
    3 * (Chunks - nextJob)
      + 2 * Cardinality(At({"running"})) + 2 * Cardinality(At(Working))
      + Cardinality(At({"unstarted"})) + Len(resultq) + MainSteps

LEMMA Weights ==
    /\ \A p \in {"unstarted", "polling", "gave_up", "no_more_work", "raised"} :
         In(p, {"running"}) = 0
    /\ In("running", {"running"}) = 1
    /\ \A p \in {"unstarted", "polling", "running"} : In(p, Working) = 1
    /\ \A p \in {"gave_up", "no_more_work", "raised"} : In(p, Working) = 0
    /\ \A p \in {"polling", "running", "gave_up", "no_more_work", "raised"} :
         In(p, {"unstarted"}) = 0
    /\ In("unstarted", {"unstarted"}) = 1
  BY DEF In, Working

LEMMA WorkTyped == ASSUME IInv PROVE WorkLeft \in Nat
<1>1. /\ Cardinality(At({"running"})) \in Nat /\ Cardinality(At(Working)) \in Nat
      /\ Cardinality(At({"unstarted"})) \in Nat
  BY CountTyped
<1>2. nextJob \in 0..Chunks /\ Len(resultq) \in Nat
  BY QueueLength DEF IInv, TypeOK
<1>3. MainSteps \in Nat
  BY DEF MainSteps
<1> QED BY <1>1, <1>2, <1>3, ChunksAssumption DEF WorkLeft

(* The other half: every step leaves less to do, so the data stress takes  *)
(* no more than 3 * Chunks + 3 * Parallelity + 3 steps.                    *)
THEOREM EveryStepCounts ==
    Spec => [](WorkLeft \in Nat) /\ [][WorkLeft' < WorkLeft]_vars
<1>1. ASSUME IInv, Next, ~UNCHANGED vars PROVE WorkLeft' < WorkLeft
  <2> USE <1>1 DEF IInv
  <2> DEFINE r == Cardinality(At({"running"}))
             a == Cardinality(At(Working))
             u == Cardinality(At({"unstarted"}))
  <2>0. /\ nextJob \in 0..Chunks /\ Chunks \in Nat /\ Len(resultq) \in Nat
        /\ r \in Nat /\ a \in Nat /\ u \in Nat /\ MainSteps \in Nat
    BY CountTyped, QueueLength, ChunksAssumption DEF TypeOK, MainSteps
  <2>1. /\ WorkLeft = 3 * (Chunks - nextJob) + 2 * r + 2 * a + u + Len(resultq) + MainSteps
        /\ WorkLeft' = 3 * (Chunks - nextJob') + 2 * r' + 2 * a' + u' + Len(resultq') + MainSteps'
    BY DEF WorkLeft
  <2>2. ASSUME NEW w \in Workers, TakeJob(w) PROVE WorkLeft' < WorkLeft
    <3>1. /\ worker[w] = "polling" /\ worker' = [worker EXCEPT ![w] = "running"]
          /\ nextJob' = nextJob + 1 /\ UNCHANGED <<resultq, pc>>
      BY <2>2 DEF TakeJob
    <3>2. r' = r + 1 /\ a' = a /\ u' = u
      <4>1. \A places : Cardinality(At(places)') = Cardinality(At(places))
                          + In("running", places) - In("polling", places)
        BY <3>1, CountMoves
      <4> QED BY <2>0, <4>1, Weights
    <3>3. MainSteps' = MainSteps
      BY <3>1 DEF MainSteps
    <3> HIDE DEF r, a, u
    <3> QED BY <2>0, <2>1, <3>1, <3>2, <3>3
  <2>3. ASSUME NEW w \in Workers, JobSucceeds(w) \/ JobFails(w) \/ JobRaises(w)
        PROVE  WorkLeft' < WorkLeft
    <3>1. /\ worker[w] = "running"
          /\ \E to \in {"polling", "gave_up", "raised"} :
                worker' = [worker EXCEPT ![w] = to]
          /\ \E m \in Messages : resultq' \in {resultq, Append(resultq, m)}
          /\ UNCHANGED <<nextJob, pc>>
      BY <2>3 DEF JobSucceeds, JobFails, JobRaises, Messages
    <3>2. r' = r - 1 /\ a' \in {a, a - 1} /\ u' = u
      <4>1. PICK to \in {"polling", "gave_up", "raised"} :
                worker' = [worker EXCEPT ![w] = to]
        BY <3>1
      <4>2. \A places : Cardinality(At(places)') = Cardinality(At(places))
                          + In(to, places) - In(worker[w], places)
        BY <4>1, CountMoves
      <4> QED BY <2>0, <3>1, <4>2, Weights
    <3>3. Len(resultq') \in {Len(resultq), Len(resultq) + 1}
      BY <3>1, QueueLength DEF TypeOK
    <3>4. MainSteps' = MainSteps
      BY <3>1 DEF MainSteps
    <3> HIDE DEF r, a, u
    <3> QED BY <2>0, <2>1, <3>1, <3>2, <3>3, <3>4
  <2>4. ASSUME NEW w \in Workers, NoMoreWork(w) PROVE WorkLeft' < WorkLeft
    <3>1. /\ worker[w] = "polling" /\ worker' = [worker EXCEPT ![w] = "no_more_work"]
          /\ resultq' = Append(resultq, "no_more_work") /\ UNCHANGED <<nextJob, pc>>
      BY <2>4 DEF NoMoreWork
    <3>2. r' = r /\ a' = a - 1 /\ u' = u
      <4>1. \A places : Cardinality(At(places)') = Cardinality(At(places))
                          + In("no_more_work", places) - In("polling", places)
        BY <3>1, CountMoves
      <4> QED BY <2>0, <4>1, Weights
    <3>3. Len(resultq') = Len(resultq) + 1
      BY <3>1, QueueLength DEF TypeOK, Messages
    <3>4. MainSteps' = MainSteps
      BY <3>1 DEF MainSteps
    <3> HIDE DEF r, a, u
    <3> QED BY <2>0, <2>1, <3>1, <3>2, <3>3, <3>4
  <2>5. ASSUME NEW w \in Workers, StartWorker(w) PROVE WorkLeft' < WorkLeft
    <3>1. /\ worker[w] = "unstarted" /\ worker' = [worker EXCEPT ![w] = "polling"]
          /\ UNCHANGED <<nextJob, resultq, pc>>
      BY <2>5 DEF StartWorker
    <3>2. r' = r /\ a' = a /\ u' = u - 1
      <4>1. \A places : Cardinality(At(places)') = Cardinality(At(places))
                          + In("polling", places) - In("unstarted", places)
        BY <3>1, CountMoves
      <4> QED BY <2>0, <4>1, Weights
    <3>3. MainSteps' = MainSteps
      BY <3>1 DEF MainSteps
    <3> HIDE DEF r, a, u
    <3> QED BY <2>0, <2>1, <3>1, <3>2, <3>3
  <2>6. CASE AllStarted \/ CountMessage \/ AllCounted \/ JoinWorkers
    <3>1. /\ UNCHANGED <<nextJob, worker>>
          /\ \/ Len(resultq') = Len(resultq) - 1 /\ MainSteps' = MainSteps
             \/ Len(resultq') = Len(resultq) /\ MainSteps' = MainSteps - 1
      BY <2>6, QueueLength
         DEF AllStarted, CountMessage, AllCounted, JoinWorkers, MainSteps, TypeOK
    <3>2. r' = r /\ a' = a /\ u' = u
      BY <3>1, CountStays
    <3> HIDE DEF r, a, u
    <3> QED BY <2>0, <2>1, <3>1, <3>2
  <2> QED BY <2>2, <2>3, <2>4, <2>5, <2>6 DEF Next, Main, Worker, Returned
<1>2. IInv /\ [Next]_vars => [WorkLeft' < WorkLeft]_vars
  BY <1>1
<1>3. IInv => WorkLeft \in Nat
  BY WorkTyped
<1> QED BY <1>2, <1>3, SpecIInv, PTL DEF Spec

-----------------------------------------------------------------------------
(* The jobs waiting are those still queued, the lost workers those whose   *)
(* job failed or raised: how a step changes them. *)
Waiting == {i \in Jobs : i >= nextJob}
Lost == {w \in Workers : worker[w] \in {"gave_up", "raised"}}

LEMMA OneLessWaits ==
    ASSUME TypeOK, nextJob < Chunks, nextJob' = nextJob + 1
    PROVE  nextJob \in Waiting /\ Waiting' = Waiting \ {nextJob}
<1>1. nextJob \in Nat /\ Jobs \subseteq Nat /\ nextJob \in Jobs
  BY ChunksAssumption DEF TypeOK, Jobs
<1>2. /\ nextJob >= nextJob
      /\ \A i \in Jobs : i >= nextJob + 1 <=> i >= nextJob /\ i # nextJob
  BY <1>1
<1>3. Waiting' = {i \in Jobs : i >= nextJob + 1}
  BY DEF Waiting, Jobs
<1> QED BY <1>1, <1>2, <1>3 DEF Waiting

LEMMA LostFollowsWorker ==
    ASSUME TypeOK, NEW w \in Workers, NEW how \in {"polling", "running"} \cup Ended,
           worker[w] \notin {"gave_up", "raised"},
           worker' = [worker EXCEPT ![w] = how]
    PROVE  /\ how \in {"gave_up", "raised"} => Lost' = Lost \cup {w}
           /\ how \notin {"gave_up", "raised"} => Lost' = Lost
<1>1. /\ worker'[w] = how
      /\ \A v \in Workers : v # w => worker'[v] = worker[v]
  BY DEF TypeOK
<1> QED BY <1>1 DEF Lost, Workers

(* The main thread passes the message count, and joins, only when nobody   *)
(* has a job and no job waits that somebody could take.                    *)
LEMMA ReturnIsTheEnd ==
    ASSUME IInv, JoinWorkers
    PROVE  /\ \A w \in Workers : job[w] = NoJob
           /\ Waiting = {} \/ Lost = Workers
<1> USE DEF IInv
<1>1. \A w \in Workers : worker[w] \in Ended
  BY DEF JoinWorkers
<1>2. \A w \in Workers : job[w] = NoJob
  BY <1>1 DEF JobsInHand, Ended
<1>3. ASSUME NEW w \in Workers, worker[w] = "no_more_work"
      PROVE  Waiting = {}
  <2>1. nextJob = Chunks
    BY <1>3 DEF ThreadsKnow
  <2>2. \A i \in Jobs : i \in Nat /\ i < Chunks
    BY ChunksAssumption DEF Jobs
  <2>3. \A i \in Jobs : ~(i >= nextJob)
    BY <2>1, <2>2, ChunksAssumption
  <2> QED BY <2>3 DEF Waiting
<1>4. (\A w \in Workers : worker[w] # "no_more_work") => Lost = Workers
  BY <1>1 DEF Lost, Ended
<1> QED BY <1>2, <1>3, <1>4

(* The data stress implements JobPool: the steps on the result queue, the  *)
(* thread starts and the counting are invisible, whatever they count.      *)
THEOREM PoolImplemented == Spec => ImplementsJobPool
<1>1. Init => Pool!Init
  <2>1. \A i \in Jobs : i >= 0
    BY ChunksAssumption DEF Jobs
  <2> QED BY <2>1 DEF Init, Pool!Init
<1>2. ASSUME IInv, Next PROVE [Pool!Next]_Pool!vars
  <2> USE <1>2 DEF IInv
  <2>0. UNCHANGED <<Waiting, job, succeeded, failed, Lost, pc>>
          => UNCHANGED Pool!vars
    BY DEF Pool!vars, Waiting, Lost
  <2>1. ASSUME NEW w \in Workers, TakeJob(w) PROVE Pool!Next
    <3>1. /\ worker[w] = "polling" /\ nextJob < Chunks
          /\ job' = [job EXCEPT ![w] = nextJob]
          /\ nextJob' = nextJob + 1
          /\ worker' = [worker EXCEPT ![w] = "running"]
          /\ UNCHANGED <<succeeded, failed, pc>>
      BY <2>1 DEF TakeJob, jobVars
    <3>2. nextJob \in Waiting /\ Waiting' = Waiting \ {nextJob}
      BY <3>1, OneLessWaits
    <3>3. Lost' = Lost
      BY <3>1, LostFollowsWorker DEF Ended
    <3>4. pc # "returned" /\ w \notin Lost /\ job[w] = NoJob
      BY <3>1 DEF ThreadsKnow, Ended, Lost, JobsInHand
    <3>5. Pool!Take(w)
      BY <3>1, <3>2, <3>3, <3>4 DEF Pool!Take, Waiting, Lost
    <3> QED BY <3>5 DEF Pool!Next
  <2>2. ASSUME NEW w \in Workers, JobSucceeds(w) PROVE Pool!Next
    <3>1. /\ worker[w] = "running"
          /\ worker' = [worker EXCEPT ![w] = "polling"]
          /\ job' = [job EXCEPT ![w] = NoJob]
          /\ succeeded' = succeeded \cup {job[w]}
          /\ UNCHANGED <<nextJob, failed, pc>>
      BY <2>2 DEF JobSucceeds
    <3>2. Lost' = Lost /\ Waiting' = Waiting
      BY <3>1, LostFollowsWorker DEF Waiting, Ended
    <3>3. pc # "returned" /\ job[w] # NoJob
      BY <3>1 DEF ThreadsKnow, Ended, JobsInHand
    <3>4. Pool!Succeed(w)
      BY <3>1, <3>2, <3>3 DEF Pool!Succeed, Waiting, Lost
    <3> QED BY <3>4 DEF Pool!Next
  <2>3. ASSUME NEW w \in Workers, JobFails(w) \/ JobRaises(w) PROVE Pool!Next
    <3>1. /\ worker[w] = "running"
          /\ \E how \in {"gave_up", "raised"} : worker' = [worker EXCEPT ![w] = how]
          /\ job' = [job EXCEPT ![w] = NoJob]
          /\ failed' = failed \cup {job[w]}
          /\ UNCHANGED <<nextJob, succeeded, pc>>
      BY <2>3 DEF JobFails, JobRaises, jobVars
    <3>2. Lost' = Lost \cup {w} /\ Waiting' = Waiting
      BY <3>1, LostFollowsWorker DEF Waiting, Ended
    <3>3. pc # "returned" /\ job[w] # NoJob
      BY <3>1 DEF ThreadsKnow, Ended, JobsInHand
    <3>4. Pool!Fail(w)
      BY <3>1, <3>2, <3>3 DEF Pool!Fail, Waiting, Lost
    <3> QED BY <3>4 DEF Pool!Next
  <2>4. ASSUME NEW w \in Workers, NoMoreWork(w) \/ StartWorker(w)
        PROVE  UNCHANGED Pool!vars
    <3>1. /\ \E how \in {"no_more_work", "polling"} :
               worker' = [worker EXCEPT ![w] = how]
          /\ worker[w] \in {"polling", "unstarted"}
          /\ UNCHANGED <<nextJob, job, succeeded, failed, pc>>
      BY <2>4 DEF NoMoreWork, StartWorker, jobVars
    <3>2. Lost' = Lost
      BY <3>1, LostFollowsWorker DEF Ended
    <3> QED BY <2>0, <3>1, <3>2 DEF Waiting
  <2>5. CASE JoinWorkers
    <3>1. /\ pc = "joining" /\ pc' = "returned"
          /\ UNCHANGED <<nextJob, worker, job, succeeded, failed>>
      BY <2>5 DEF JoinWorkers, jobVars
    <3>2. Pool!Return
      BY <2>5, <3>1, ReturnIsTheEnd DEF Pool!Return, Waiting, Lost
    <3> QED BY <3>2 DEF Pool!Next
  <2>6. CASE AllStarted \/ CountMessage \/ AllCounted \/ Returned
    <3>1. /\ UNCHANGED <<nextJob, worker, job, succeeded, failed>>
          /\ \/ pc' # "returned" /\ pc # "returned"
             \/ pc' = pc
      BY <2>6 DEF AllStarted, CountMessage, AllCounted, Returned, vars, jobVars
    <3> QED BY <3>1 DEF Pool!vars
  <2> QED BY <2>1, <2>2, <2>3, <2>4, <2>5, <2>6 DEF Next, Main, Worker
<1>3. UNCHANGED vars => UNCHANGED Pool!vars
  BY DEF vars, Pool!vars
<1>4. Spec => Pool!Spec
  BY <1>1, <1>2, <1>3, SpecIInv, PTL DEF Spec, Pool!Spec
<1> QED BY <1>4 DEF ImplementsJobPool
=============================================================================
