----------------------------- MODULE ScriptCall -----------------------------
(***************************************************************************)
(* What the callers of ArangoshExecutor.run_script_monitored rely on       *)
(* (Runner.make_data_impl, check_data_impl_sh, LeaderFollower.test_setup   *)
(* and the workers of ClusterPerf): the script writes lines and ends; the  *)
(* call answers once, after the script has ended, with success and all of  *)
(* its output, or with failure and a prefix of it.                         *)
(***************************************************************************)
EXTENDS Integers, Sequences

CONSTANT MaxLines

VARIABLES ended, written, answer

vars == <<ended, written, answer>>

Streams == {"stdout", "stderr"}

Line(s, n) == [stream |-> s, no |-> n]
Lines == [stream : Streams, no : 1..MaxLines]
NoAnswer == [done |-> FALSE, success |-> FALSE, text |-> <<>>]

Occurs(e, seq) == \E i \in 1..Len(seq) : seq[i] = e

(* Per stream the text is a prefix of what was written, in its order. *)
PrefixOfOutput(text) ==
    /\ \A i \in 1..Len(text) : text[i].no <= written[text[i].stream]
    /\ \A i, j \in 1..Len(text) :
         i < j /\ text[i].stream = text[j].stream => text[i].no < text[j].no
    /\ \A s \in Streams : \A n \in 1..MaxLines : \A m \in 1..n :
         Occurs(Line(s, n), text) => Occurs(Line(s, m), text)

WholeOutput(text) ==
    \A s \in Streams : \A n \in 1..written[s] : Occurs(Line(s, n), text)

Init ==
    /\ ended = "running"
    /\ written = [s \in Streams |-> 0]
    /\ answer = NoAnswer

(* Nothing more is written once the call has reported success. *)
Write(s) ==
    /\ ~answer.success
    /\ written[s] < MaxLines
    /\ written' = [written EXCEPT ![s] = @ + 1]
    /\ UNCHANGED <<ended, answer>>

(* The script exits, or is killed: only a call that is still open kills. *)
End(how) ==
    /\ ended = "running"
    /\ how = "killed" => ~answer.done
    /\ ended' = how
    /\ UNCHANGED <<written, answer>>

Answer(success, text) ==
    /\ ~answer.done
    /\ ended # "running"
    /\ PrefixOfOutput(text)
    /\ success => ended = "ok" /\ WholeOutput(text)
    /\ answer' = [done |-> TRUE, success |-> success, text |-> text]
    /\ UNCHANGED <<ended, written>>

Next ==
    \/ \E s \in Streams : Write(s)
    \/ \E how \in {"ok", "failed", "killed"} : End(how)
    \/ \E success \in BOOLEAN : Answer(success, answer'.text)

Spec == Init /\ [][Next]_vars
=============================================================================
