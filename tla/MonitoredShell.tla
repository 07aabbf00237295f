--------------------------- MODULE MonitoredShell ---------------------------
(***************************************************************************)
(* ArangoshExecutor.run_script_monitored (arangodb/sh.py): a child         *)
(* arangosh, two reader threads that copy its stdout and stderr, line by   *)
(* line, into one unbounded queue, and the calling thread, which polls the *)
(* queue with a one second timeout, counts consecutive empty polls, kills  *)
(* the child when there were too many, and joins everything.               *)
(*                                                                         *)
(* A line is a record: the stream it was written to and its number there.  *)
(* The text of a line is abstracted, and so is the filter for lines that   *)
(* start with '#', which no line passed as str(bytes) ever matches.        *)
(***************************************************************************)
EXTENDS Integers, Sequences, FiniteSets

CONSTANTS
    MaxLines,        \* bound: lines ever written to one stream
    Timeout,         \* empty polls in a row after which the child is killed
    Descendants,     \* may the script start processes that inherit its pipes?
    CallbackRaises   \* may the caller's result_line() raise?

ASSUME MaxLinesAssumption == MaxLines \in Nat
ASSUME TimeoutAssumption == Timeout \in Nat \ {0}
ASSUME FlagsAssumption == Descendants \in BOOLEAN /\ CallbackRaises \in BOOLEAN

Streams == {"stdout", "stderr"}

VARIABLES
    exit,        \* the child: "running", or how it ended
    holders,     \* who holds the write ends of the pipes
    written,     \* written[s]: lines written to stream s so far
    fetched,     \* fetched[s]: how many of them reader s has put in the queue
    reader,      \* reader[s]: the reader thread, "reading" or "ended"
    queue,       \* the queue.Queue both readers put into
    pc,          \* the calling thread
    tcount,      \* empty polls in a row
    haveTimeout,
    closeCount,  \* end markers taken from the queue
    closed,      \* history: the streams they came from (the code only counts)
    result,      \* lines collected for the answer
    answer       \* what the call returned, NoAnswer before

vars == <<exit, holders, written, fetched, reader, queue, pc, tcount,
          haveTimeout, closeCount, closed, result, answer>>

childVars  == <<exit, holders, written>>
threadVars == <<fetched, reader>>
callerVars == <<pc, tcount, haveTimeout, closeCount, closed, result, answer>>

Line(s, n) == [stream |-> s, no |-> n]

(* The -1 a reader puts at end of file.  It sorts after every line of its  *)
(* stream; the stream is a ghost, the caller never looks at it.            *)
Marker(s) == Line(s, MaxLines + 1)
IsMarker(e) == e.no = MaxLines + 1

Lines == [stream : Streams, no : 1..MaxLines]
Elements == [stream : Streams, no : 1..(MaxLines + 1)]

NoAnswer == [done |-> FALSE, success |-> FALSE, text |-> <<>>]

PipeOpen == holders # {}

TypeOK ==
    /\ exit \in {"running", "ok", "failed", "killed"}
    /\ holders \in SUBSET {"child", "descendant"}
    /\ written \in [Streams -> 0..MaxLines]
    /\ fetched \in [Streams -> 0..MaxLines]
    /\ reader \in [Streams -> {"reading", "ended"}]
    /\ queue \in Seq(Elements)
    /\ pc \in {"loop", "kill", "wait", "join", "returned", "raised"}
    /\ tcount \in 0..Timeout
    /\ haveTimeout \in BOOLEAN
    /\ closeCount \in 0..2
    /\ closed \in SUBSET Streams
    /\ result \in Seq(Lines)
    /\ answer \in [done : BOOLEAN, success : BOOLEAN, text : Seq(Lines)]

Init ==
    /\ exit = "running"
    /\ holders = {"child"}
    /\ written = [s \in Streams |-> 0]
    /\ fetched = [s \in Streams |-> 0]
    /\ reader = [s \in Streams |-> "reading"]
    /\ queue = <<>>
    /\ pc = "loop"
    /\ tcount = 0
    /\ haveTimeout = FALSE
    /\ closeCount = 0
    /\ closed = {}
    /\ result = <<>>
    /\ answer = NoAnswer

-----------------------------------------------------------------------------
(* The child and its descendants: the environment.  run_in_arangosh starts *)
(* arangosh with --javascript.allow-external-process-control, so a script  *)
(* may leave processes behind that keep stdout and stderr open.            *)

WriteLine(s) ==
    /\ PipeOpen
    /\ written[s] < MaxLines
    /\ written' = [written EXCEPT ![s] = @ + 1]
    /\ UNCHANGED <<exit, holders, threadVars, queue, callerVars>>

SpawnDescendant ==
    /\ Descendants
    /\ exit = "running"
    /\ holders' = holders \cup {"descendant"}
    /\ UNCHANGED <<exit, written, threadVars, queue, callerVars>>

DescendantExits ==
    /\ "descendant" \in holders
    /\ holders' = holders \ {"descendant"}
    /\ UNCHANGED <<exit, written, threadVars, queue, callerVars>>

ChildExits(rc) ==
    /\ exit = "running"
    /\ exit' = rc
    /\ holders' = holders \ {"child"}
    /\ UNCHANGED <<written, threadVars, queue, callerVars>>

-----------------------------------------------------------------------------
(* enqueue_stdout and enqueue_stderr. *)

ReadLine(s) ==
    /\ reader[s] = "reading"
    /\ fetched[s] < written[s]
    /\ fetched' = [fetched EXCEPT ![s] = @ + 1]
    /\ queue' = Append(queue, Line(s, fetched[s] + 1))
    /\ UNCHANGED <<childVars, reader, callerVars>>

(* readline() returns b'' once nobody holds the write end any more. *)
ReadEnd(s) ==
    /\ reader[s] = "reading"
    /\ fetched[s] = written[s]
    /\ ~PipeOpen
    /\ reader' = [reader EXCEPT ![s] = "ended"]
    /\ queue' = Append(queue, Marker(s))
    /\ UNCHANGED <<childVars, fetched, callerVars>>

-----------------------------------------------------------------------------
(* The calling thread. *)

(* queue.get() returned a tuple and result_line() came back. *)
GetLine ==
    /\ pc = "loop"
    /\ queue # <<>>
    /\ ~IsMarker(Head(queue))
    /\ queue' = Tail(queue)
    /\ tcount' = 0
    /\ result' = Append(result, Head(queue))
    /\ UNCHANGED <<childVars, threadVars, pc, haveTimeout, closeCount, closed,
                   answer>>

(* result_line() raised: nothing is killed or joined. *)
CallbackFails ==
    /\ CallbackRaises
    /\ pc = "loop"
    /\ queue # <<>>
    /\ ~IsMarker(Head(queue))
    /\ queue' = Tail(queue)
    /\ pc' = "raised"
    /\ UNCHANGED <<childVars, threadVars, tcount, haveTimeout, closeCount,
                   closed, result, answer>>

(* Mutant: the loop ends at the first marker instead of the second. *)
MutantGetMarker ==
    /\ pc = "loop"
    /\ queue # <<>>
    /\ IsMarker(Head(queue))
    /\ queue' = Tail(queue)
    /\ tcount' = 0
    /\ closeCount' = closeCount + 1
    /\ closed' = closed \cup {Head(queue).stream}
    /\ pc' = IF closeCount' = 1 THEN "wait" ELSE "loop"
    /\ UNCHANGED <<childVars, threadVars, haveTimeout, result, answer>>

GetMarker ==
    /\ pc = "loop"
    /\ queue # <<>>
    /\ IsMarker(Head(queue))
    /\ queue' = Tail(queue)
    /\ tcount' = 0
    /\ closeCount' = closeCount + 1
    /\ closed' = closed \cup {Head(queue).stream}
    /\ pc' = IF closeCount' = 2 THEN "wait" ELSE "loop"
    /\ UNCHANGED <<childVars, threadVars, haveTimeout, result, answer>>

(* Mutant: one empty poll more than the limit. *)
MutantPollTimesOut ==
    /\ pc = "loop"
    /\ queue = <<>>
    /\ tcount' = tcount + 1
    /\ haveTimeout' = (tcount' > Timeout)
    /\ pc' = IF haveTimeout' THEN "kill" ELSE "loop"
    /\ UNCHANGED <<childVars, threadVars, queue, closeCount, closed, result,
                   answer>>

(* queue.get(timeout=1) raised Empty. *)
PollTimesOut ==
    /\ pc = "loop"
    /\ queue = <<>>
    /\ tcount' = tcount + 1
    /\ haveTimeout' = (tcount' >= Timeout)
    /\ pc' = IF haveTimeout' THEN "kill" ELSE "loop"
    /\ UNCHANGED <<childVars, threadVars, queue, closeCount, closed, result,
                   answer>>

(* Mutant: the timeout ends the loop, and nobody kills the child. *)
MutantKill ==
    /\ pc = "kill"
    /\ pc' = "wait"
    /\ UNCHANGED <<childVars, threadVars, queue, tcount, haveTimeout,
                   closeCount, closed, result, answer>>

(* process.kill() reaches the child alone, and only while it runs. *)
Kill ==
    /\ pc = "kill"
    /\ exit' = IF exit = "running" THEN "killed" ELSE exit
    /\ holders' = holders \ {"child"}
    /\ pc' = "wait"
    /\ UNCHANGED <<written, threadVars, queue, tcount, haveTimeout,
                   closeCount, closed, result, answer>>

(* process.wait() *)
Wait ==
    /\ pc = "wait"
    /\ exit # "running"
    /\ pc' = "join"
    /\ UNCHANGED <<childVars, threadVars, queue, tcount, haveTimeout,
                   closeCount, closed, result, answer>>

(* Mutant: a killed child's partial output is handed out as a success. *)
MutantJoinAndReturn ==
    /\ pc = "join"
    /\ \A s \in Streams : reader[s] = "ended"
    /\ answer' = [done |-> TRUE, success |-> (exit # "failed"), text |-> result]
    /\ pc' = "returned"
    /\ UNCHANGED <<childVars, threadVars, queue, tcount, haveTimeout,
                   closeCount, closed, result>>

(* thread1.join(), thread2.join(), and the return statements. *)
JoinAndReturn ==
    /\ pc = "join"
    /\ \A s \in Streams : reader[s] = "ended"
    /\ answer' = [done |-> TRUE,
                  success |-> ~haveTimeout /\ exit = "ok",
                  text |-> result]
    /\ pc' = "returned"
    /\ UNCHANGED <<childVars, threadVars, queue, tcount, haveTimeout,
                   closeCount, closed, result>>

-----------------------------------------------------------------------------
Child ==
    \/ \E s \in Streams : WriteLine(s)
    \/ SpawnDescendant
    \/ DescendantExits
    \/ \E rc \in {"ok", "failed"} : ChildExits(rc)

Reader(s) == ReadLine(s) \/ ReadEnd(s)

Caller ==
    \/ GetLine
    \/ CallbackFails
    \/ GetMarker
    \/ PollTimesOut
    \/ Kill
    \/ Wait
    \/ JoinAndReturn

(* The call is over: the child and the readers may still move. *)
CallOver == pc \in {"returned", "raised"}
Finished == CallOver /\ UNCHANGED vars

Next ==
    \/ Child
    \/ \E s \in Streams : Reader(s)
    \/ Caller
    \/ Finished

Spec == Init /\ [][Next]_vars

(* The interpreter schedules its threads; nothing is promised of the child. *)
FairSpec ==
    /\ Spec
    /\ WF_vars(Caller)
    /\ \A s \in Streams : WF_vars(Reader(s))

-----------------------------------------------------------------------------
Occurs(e, seq) == \E i \in 1..Len(seq) : seq[i] = e

(* Elements of one stream appear in the order they were written. *)
InOrder(seq) ==
    \A i, j \in 1..Len(seq) :
        i < j /\ seq[i].stream = seq[j].stream => seq[i].no < seq[j].no

(* A call that reports success hands out every line of both streams: the   *)
(* loop leaves only after both end markers, and a stream's marker is the   *)
(* last thing its reader puts.  Callers parse the text of a successful     *)
(* call, so a missing tail would be a silently wrong measurement.          *)
SuccessIsComplete ==
    answer.success =>
        \A s \in Streams : \A n \in 1..written[s] : Occurs(Line(s, n), answer.text)

(* Whatever the call hands out, also after a timeout or a failure, keeps   *)
(* every stream in order and has no gap: it is a prefix of each stream.    *)
AnswerIsPrefix ==
    /\ InOrder(answer.text)
    /\ \A s \in Streams : \A n \in 1..MaxLines : \A m \in 1..n :
         Occurs(Line(s, n), answer.text) => Occurs(Line(s, m), answer.text)

(* No line is lost between a reader and the answer: until a callback       *)
(* raises, every line a reader has fetched is in the queue or collected.   *)
NothingLost ==
    pc # "raised" =>
        \A s \in Streams : \A n \in 1..fetched[s] :
            Occurs(Line(s, n), queue) \/ Occurs(Line(s, n), result)

(* What the callers rely on, stated without threads, queue or polling. *)
Promise == INSTANCE ScriptCall WITH ended <- exit

(* run_script_monitored implements that promise step by step. *)
ImplementsScriptCall == Promise!Spec

(* What is true of it: the call is over, also for a script that hangs,     *)
(* unless a process the script left behind holds its pipes for ever.       *)
CallReturnsOrHeld == <>(CallOver \/ [](pc = "join" /\ "descendant" \in holders))
=============================================================================
