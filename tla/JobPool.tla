------------------------------ MODULE JobPool ------------------------------
(***************************************************************************)
(* What the runner of a data stress relies on (ClusterPerf.jam_attempt     *)
(* behind Runner.run): every job is handed to at most one worker, once,    *)
(* and is not handed out again when it failed; a worker that failed takes  *)
(* no other job; and the stress is over when nobody works any more and     *)
(* either no job waits or no worker is left to take one.  How a worker     *)
(* learns that there is no work, and how the main thread learns that a     *)
(* worker is gone, is not part of it.                                      *)
(***************************************************************************)

CONSTANTS
    Workers,
    Jobs,
    NoJob

VARIABLES
    waiting,   \* the jobs nobody has taken
    job,       \* job[w]: the job w works on, else NoJob
    succeeded,
    failed,
    lost,      \* the workers that failed
    over       \* has the caller been told that the stress is over?

vars == <<waiting, job, succeeded, failed, lost, over>>

Init ==
    /\ waiting = Jobs
    /\ job = [w \in Workers |-> NoJob]
    /\ succeeded = {}
    /\ failed = {}
    /\ lost = {}
    /\ over = FALSE

Take(w) ==
    /\ ~over
    /\ w \notin lost
    /\ job[w] = NoJob
    /\ \E i \in waiting :
         /\ job' = [job EXCEPT ![w] = i]
         /\ waiting' = waiting \ {i}
    /\ UNCHANGED <<succeeded, failed, lost, over>>

Succeed(w) ==
    /\ ~over
    /\ job[w] # NoJob
    /\ succeeded' = succeeded \cup {job[w]}
    /\ job' = [job EXCEPT ![w] = NoJob]
    /\ UNCHANGED <<waiting, failed, lost, over>>

Fail(w) ==
    /\ ~over
    /\ job[w] # NoJob
    /\ failed' = failed \cup {job[w]}
    /\ lost' = lost \cup {w}
    /\ job' = [job EXCEPT ![w] = NoJob]
    /\ UNCHANGED <<waiting, succeeded, over>>

Return ==
    /\ ~over
    /\ \A w \in Workers : job[w] = NoJob
    /\ waiting = {} \/ lost = Workers
    /\ over' = TRUE
    /\ UNCHANGED <<waiting, job, succeeded, failed, lost>>

Next ==
    \/ \E w \in Workers : Take(w) \/ Succeed(w) \/ Fail(w)
    \/ Return

Spec == Init /\ [][Next]_vars
=============================================================================
