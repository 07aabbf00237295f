--------------------------- MODULE ActiveFailover ---------------------------
(***************************************************************************)
(* The life of the active failover test (Runner.run with the hooks of      *)
(* ActiveFailover, arangodb/starter/deployments/activefailover.py) next to *)
(* the deployment it drives: a few arangod servers, each behind a starter, *)
(* of which one leads.  The driver learns who leads in two ways: from the  *)
(* leadership lines of arangod.log, which also tell of the past, and by    *)
(* asking the servers.  In between it works with what it remembers.        *)
(*                                                                         *)
(* StarterManager.terminate_instance moves the log files away; a restart   *)
(* by restore or by the rolling upgrade appends to them.                   *)
(*                                                                         *)
(* The servers are external: what they do is what the driver waits for.    *)
(***************************************************************************)
EXTENDS Naturals, FiniteSets

CONSTANTS
    Nodes,   \* starter_instances
    NoNode   \* None

ASSUME NodesAssumption == IsFiniteSet(Nodes) /\ Cardinality(Nodes) > 1
ASSUME NoNodeAssumption == NoNode \notin Nodes

(* What the run was started to do: are hot backups tested, and is there a  *)
(* new installer, whose packages the deployment is, or was, upgraded to?    *)
Flows == [hotBackup : BOOLEAN, upgrade : {"none", "planned", "done"}]

VARIABLES
    \* the deployment
    server,      \* server[n]: the arangod of node n
    leads,       \* the node whose arangod leads, or NoNode
    ledLog,      \* ledLog[n]: does its arangod.log hold a leadership line?
    followsLog,  \* followsLog[n]: has its starter logged "up and running as follower"?
    toRestart,   \* the nodes the rolling upgrade still has to restart
    \* the driver
    pc,
    flow,
    known,       \* starters with a detected frontend (all_instances)
    isLeader,    \* isLeader[n]: the flag is_leader of starter n
    leader,
    firstLeader, \* also the only element of makedata_instances
    newLeader,
    followerNodes,
    success

serverVars == <<server, leads, ledLog, followsLog, toRestart>>
nodeVars   == <<leader, firstLeader, newLeader, followerNodes>>
vars == <<serverVars, pc, flow, known, isLeader, nodeVars, success>>

(* run() ended with an exception. *)
Aborted == {"no_frontend_found", "command_failed"}

TypeOK ==
    /\ server \in [Nodes -> {"down", "booting", "up"}]
    /\ leads \in Nodes \cup {NoNode}
    /\ ledLog \in [Nodes -> BOOLEAN]
    /\ followsLog \in [Nodes -> BOOLEAN]
    /\ toRestart \in SUBSET Nodes
    /\ pc \in {"start", "detect", "find_leader", "make_data", "backup",
               "restore", "await_restore", "check_data", "upgrade",
               "await_upgrade", "test_setup", "jam", "find_new_leader",
               "ask_new_leader", "respawn", "detect_old_leader",
               "await_follower", "ask_old_leader", "shutdown", "done"} \cup Aborted
    /\ flow \in Flows
    /\ known \in SUBSET Nodes
    /\ isLeader \in [Nodes -> BOOLEAN]
    /\ {leader, firstLeader, newLeader} \subseteq Nodes \cup {NoNode}
    /\ NoNode \in {leader, firstLeader} <=> pc \in {"start", "detect", "find_leader"}
    /\ followerNodes \in SUBSET Nodes
    /\ success \in BOOLEAN

Init ==
    /\ server = [n \in Nodes |-> "down"]
    /\ leads = NoNode
    /\ ledLog = [n \in Nodes |-> FALSE]
    /\ followsLog = [n \in Nodes |-> FALSE]
    /\ toRestart = {}
    /\ pc = "start"
    /\ flow \in Flows
    /\ flow.upgrade # "done"
    /\ known = {}
    /\ isLeader = [n \in Nodes |-> FALSE]
    /\ leader = NoNode
    /\ firstLeader = NoNode
    /\ newLeader = NoNode
    /\ followerNodes = {}
    /\ success = TRUE

-----------------------------------------------------------------------------
(* The deployment (external). *)

driverVars == <<pc, flow, known, isLeader, nodeVars, success>>

WithoutLeader(n) == IF leads = n THEN NoNode ELSE leads

Boot(n) ==
    /\ server[n] = "booting"
    /\ server' = [server EXCEPT ![n] = "up"]
    /\ UNCHANGED <<leads, ledLog, followsLog, toRestart, driverVars>>

Elect(n) ==
    /\ leads = NoNode
    /\ server[n] = "up"
    /\ leads' = n
    /\ ledLog' = [ledLog EXCEPT ![n] = TRUE]
    /\ UNCHANGED <<server, followsLog, toRestart, driverVars>>

ReportFollower(n) ==
    /\ server[n] = "up"
    /\ leads \notin {n, NoNode}
    /\ ~followsLog[n]
    /\ followsLog' = [followsLog EXCEPT ![n] = TRUE]
    /\ UNCHANGED <<server, leads, ledLog, toRestart, driverVars>>

(* The starters restart their servers one at a time. *)
RollingRestart(n) ==
    /\ n \in toRestart
    /\ \A m \in Nodes : server[m] = "up"
    /\ server' = [server EXCEPT ![n] = "booting"]
    /\ leads' = WithoutLeader(n)
    /\ toRestart' = toRestart \ {n}
    /\ UNCHANGED <<ledLog, followsLog, driverVars>>

Deployment ==
    \E n \in Nodes : Boot(n) \/ Elect(n) \/ ReportFollower(n) \/ RollingRestart(n)

(* HTTP 200 comes from the leader alone, every other server answers 503. *)
AnswersAsLeader(n) == leads = n

-----------------------------------------------------------------------------
(* Setting up: starter_run_impl, finish_setup_impl, make_data_impl. *)

RunStarters ==
    /\ pc = "start"
    /\ server' = [n \in Nodes |-> "booting"]
    /\ pc' = "detect"
    /\ UNCHANGED <<leads, ledLog, followsLog, toRestart, flow, known,
                   isLeader, nodeVars, success>>

(* detect_instances waits until the server is ready for business; that     *)
(* subsumes the wait before it, which ends when any starter is up.         *)
DetectInstances(n) ==
    /\ pc = "detect"
    /\ n \notin known
    /\ server[n] = "up"
    /\ known' = known \cup {n}
    /\ pc' = IF known' = Nodes THEN "find_leader" ELSE "detect"
    /\ UNCHANGED <<serverVars, flow, isLeader, nodeVars, success>>

(* detect_leader of every node, until one was found.  The inner loop does  *)
(* not stop there: were there two, the later one would count.              *)
FinishSetup(n) ==
    /\ pc = "find_leader"
    /\ ledLog[n]
    /\ isLeader' = ledLog
    /\ leader' = n
    /\ firstLeader' = n
    /\ followerNodes' = {m \in Nodes : ~ledLog[m]}
    /\ pc' = "make_data"
    /\ UNCHANGED <<serverVars, flow, known, newLeader, success>>

(* The runner uses the first of makedata_instances that is flagged leader; *)
(* a script or arangobackup run against a server that does not lead fails. *)
OnLeader(next) ==
    pc' = IF ~isLeader[firstLeader] THEN "no_frontend_found"
          ELSE IF ~AnswersAsLeader(firstLeader) THEN "command_failed"
          ELSE next

AfterCheck == IF flow.upgrade = "planned" THEN "upgrade" ELSE "test_setup"

AfterSetup == IF flow.hotBackup THEN "backup" ELSE AfterCheck

(* make_data_impl does not look at the flag. *)
MakeData ==
    /\ pc = "make_data"
    /\ pc' = IF AnswersAsLeader(firstLeader) THEN AfterSetup ELSE "command_failed"
    /\ UNCHANGED <<serverVars, flow, known, isLeader, nodeVars, success>>

-----------------------------------------------------------------------------
(* The hot backup section of run(), before and after the upgrade. *)

(* Create (once), list, upload, delete, download. *)
BackupCommands ==
    /\ pc = "backup"
    /\ OnLeader("restore")
    /\ UNCHANGED <<serverVars, flow, known, isLeader, nodeVars, success>>

(* The restored server restarts and leadership is open. *)
RestoreBackup ==
    /\ pc = "restore"
    /\ OnLeader("await_restore")
    /\ IF pc' = "await_restore"
       THEN /\ server' = [server EXCEPT ![firstLeader] = "booting"]
            /\ leads' = WithoutLeader(firstLeader)
       ELSE UNCHANGED <<server, leads>>
    /\ UNCHANGED <<ledLog, followsLog, toRestart, flow, known, isLeader,
                   nodeVars, success>>

(* Mutant: the end of the election is not awaited, None not noticed. *)
MutantWaitForRestore ==
    /\ pc = "await_restore"
    /\ server[firstLeader] = "up"
    /\ isLeader' = [n \in Nodes |-> n \in known /\ AnswersAsLeader(n)]
    /\ leader' = leads
    /\ pc' = "check_data"
    /\ UNCHANGED <<serverVars, flow, known, firstLeader, newLeader,
                   followerNodes, success>>

(* Mutant: the node that was restored is awaited as the leader. *)
MutantWaitForFirstLeader ==
    /\ pc = "await_restore"
    /\ server[firstLeader] = "up"
    /\ leads = firstLeader
    /\ isLeader' = [n \in Nodes |-> n \in known /\ AnswersAsLeader(n)]
    /\ leader' = leads
    /\ pc' = "check_data"
    /\ UNCHANGED <<serverVars, flow, known, firstLeader, newLeader,
                   followerNodes, success>>

(* detect_restore_restart waits for the restored server and for the end of *)
(* the election; then probe_leader asks every node.                        *)
WaitForRestore ==
    /\ pc = "await_restore"
    /\ server[firstLeader] = "up"
    /\ leads # NoNode
    /\ isLeader' = [n \in Nodes |-> n \in known /\ AnswersAsLeader(n)]
    /\ leader' = leads
    /\ pc' = "check_data"
    /\ UNCHANGED <<serverVars, flow, known, firstLeader, newLeader,
                   followerNodes, success>>

(* Mutant: the outcome of the script is ignored. *)
MutantCheckData ==
    /\ pc = "check_data"
    /\ pc' = AfterCheck
    /\ UNCHANGED <<serverVars, flow, known, isLeader, nodeVars, success>>

(* check_data_impl and check_non_backup_data. *)
CheckData ==
    /\ pc = "check_data"
    /\ OnLeader(AfterCheck)
    /\ UNCHANGED <<serverVars, flow, known, isLeader, nodeVars, success>>

-----------------------------------------------------------------------------
(* upgrade_arangod_version_impl *)

(* The starters are killed and respawned; their servers live on. *)
CommandUpgrade ==
    /\ pc = "upgrade"
    /\ toRestart' = Nodes
    /\ pc' = "await_upgrade"
    /\ UNCHANGED <<server, leads, ledLog, followsLog, flow, known, isLeader,
                   nodeVars, success>>

WaitForUpgrade ==
    /\ pc = "await_upgrade"
    /\ toRestart = {}
    /\ \A n \in Nodes : server[n] = "up"
    /\ flow' = [flow EXCEPT !.upgrade = "done"]
    /\ pc' = IF flow.hotBackup THEN "backup" ELSE "check_data"
    /\ UNCHANGED <<serverVars, known, isLeader, nodeVars, success>>

-----------------------------------------------------------------------------
(* test_setup_impl and jam_attempt_impl *)

TestSetup ==
    /\ pc = "test_setup"
    /\ success' = /\ AnswersAsLeader(leader)
                  /\ \A n \in followerNodes : ~AnswersAsLeader(n)
    /\ pc' = "jam"
    /\ UNCHANGED <<serverVars, flow, known, isLeader, nodeVars>>

(* Mutant: the flag and the instances of a stopped starter stay. *)
MutantStop(n) ==
    /\ server' = [server EXCEPT ![n] = "down"]
    /\ leads' = WithoutLeader(n)
    /\ ledLog' = [ledLog EXCEPT ![n] = FALSE]
    /\ followsLog' = [followsLog EXCEPT ![n] = FALSE]
    /\ isLeader' = isLeader
    /\ known' = known \ {n}

(* terminate_instance: the starter takes its server with it, the logs of   *)
(* both are renamed, the flag and the instances forgotten.                 *)
Stop(n) ==
    /\ server' = [server EXCEPT ![n] = "down"]
    /\ leads' = WithoutLeader(n)
    /\ ledLog' = [ledLog EXCEPT ![n] = FALSE]
    /\ followsLog' = [followsLog EXCEPT ![n] = FALSE]
    /\ isLeader' = [isLeader EXCEPT ![n] = FALSE]
    /\ known' = known \ {n}

TerminateFirstLeader ==
    /\ pc = "jam"
    /\ Stop(firstLeader)
    /\ newLeader' = NoNode
    /\ pc' = "find_new_leader"
    /\ UNCHANGED <<toRestart, flow, leader, firstLeader, followerNodes, success>>

(* Mutant: any follower is taken for the new leader. *)
MutantPollFollower(n) ==
    /\ pc = "find_new_leader"
    /\ n \in followerNodes
    /\ newLeader' = n
    /\ leader' = n
    /\ pc' = "ask_new_leader"
    /\ UNCHANGED <<serverVars, flow, known, isLeader, firstLeader,
                   followerNodes, success>>

(* detect_leader of one follower after the other, round after round; the   *)
(* order within a round is left open.                                      *)
PollFollower(n) ==
    /\ pc = "find_new_leader"
    /\ n \in followerNodes
    /\ isLeader' = [isLeader EXCEPT ![n] = ledLog[n]]
    /\ IF ledLog[n]
       THEN newLeader' = n /\ leader' = n /\ pc' = "ask_new_leader"
       ELSE UNCHANGED <<newLeader, leader, pc>>
    /\ UNCHANGED <<serverVars, flow, known, firstLeader, followerNodes, success>>

(* Mutant: the reply's status is not looked at. *)
MutantAskNewLeader ==
    /\ pc = "ask_new_leader"
    /\ success' = success
    /\ pc' = "respawn"
    /\ UNCHANGED <<serverVars, flow, known, isLeader, nodeVars>>

(* Then the prompt: "The leader failover has happened." *)
AskNewLeader ==
    /\ pc = "ask_new_leader"
    /\ success' = (success /\ AnswersAsLeader(newLeader))
    /\ pc' = "respawn"
    /\ UNCHANGED <<serverVars, flow, known, isLeader, nodeVars>>

RespawnFirstLeader ==
    /\ pc = "respawn"
    /\ server' = [server EXCEPT ![firstLeader] = "booting"]
    /\ pc' = "detect_old_leader"
    /\ UNCHANGED <<leads, ledLog, followsLog, toRestart, flow, known,
                   isLeader, nodeVars, success>>

DetectFirstLeader ==
    /\ pc = "detect_old_leader"
    /\ server[firstLeader] = "up"
    /\ known' = known \cup {firstLeader}
    /\ pc' = "await_follower"
    /\ UNCHANGED <<serverVars, flow, isLeader, nodeVars, success>>

(* active_failover_detect_host_now_follower, polled without end. *)
WaitForFollower ==
    /\ pc = "await_follower"
    /\ followsLog[firstLeader]
    /\ pc' = "ask_old_leader"
    /\ UNCHANGED <<serverVars, flow, known, isLeader, nodeVars, success>>

AskOldLeader ==
    /\ pc = "ask_old_leader"
    /\ success' = (success /\ ~AnswersAsLeader(firstLeader))
    /\ pc' = "shutdown"
    /\ UNCHANGED <<serverVars, flow, known, isLeader, nodeVars>>

(* shutdown_impl, one starter after the other. *)
ShutDown(n) ==
    /\ pc = "shutdown"
    /\ n \in known
    /\ Stop(n)
    /\ pc' = IF known' = {} THEN "done" ELSE "shutdown"
    /\ UNCHANGED <<toRestart, flow, nodeVars, success>>

-----------------------------------------------------------------------------
Driver ==
    \/ RunStarters
    \/ \E n \in Nodes : \/ DetectInstances(n)
                        \/ FinishSetup(n)
                        \/ PollFollower(n)
                        \/ ShutDown(n)
    \/ MakeData
    \/ BackupCommands
    \/ RestoreBackup
    \/ WaitForRestore
    \/ CheckData
    \/ CommandUpgrade
    \/ WaitForUpgrade
    \/ TestSetup
    \/ TerminateFirstLeader
    \/ AskNewLeader
    \/ RespawnFirstLeader
    \/ DetectFirstLeader
    \/ WaitForFollower
    \/ AskOldLeader

RunOver == pc \in {"done"} \cup Aborted

Finished == RunOver /\ UNCHANGED vars

Next == Driver \/ Deployment \/ Finished

Spec == Init /\ [][Next]_vars

(* The driver never stops of itself.  Servers boot, elect a leader, log    *)
(* what they are and get upgraded: a deployment that does not is broken.   *)
FairSpec ==
    /\ Spec
    /\ WF_vars(Driver)
    /\ WF_vars(\E n \in Nodes : Elect(n))
    /\ \A n \in Nodes : WF_vars(Boot(n)) /\ WF_vars(ReportFollower(n))
    /\ WF_vars(\E n \in Nodes : RollingRestart(n))

-----------------------------------------------------------------------------
(* The jam attempt is about the loss of the leader: whatever backup,       *)
(* restore and rolling upgrade did to the leadership meanwhile, the node   *)
(* terminate_instance is called on leads when it is.  first_leader is      *)
(* never looked up again; it is the data checks that stop every other run. *)
JamKillsLeader == pc = "jam" => leads = firstLeader

(* "The leader failover has happened": the prompt comes when another node  *)
(* leads, the one the driver takes for the new leader.                     *)
FailoverHappened == pc = "respawn" => newLeader # firstLeader /\ leads = newLeader

(* What the run reports at its end ("state of this test is: Success") is   *)
(* true: it saw the node it calls leader lead, and the old one follow.     *)
SuccessIsFailover ==
    pc = "shutdown" /\ known = Nodes /\ success =>
        newLeader # firstLeader /\ leads = newLeader

(* A starter flagged as leader has a frontend to talk to: get_frontend     *)
(* asserts it, and set_frontend_instances publishes it to the user.        *)
FlaggedHaveFrontend ==
    /\ \A n \in Nodes : isLeader[n] => n \in known
    /\ pc \in {"test_setup", "ask_new_leader"} => {leader} \cup followerNodes \subseteq known

(* Without an upgrade the leadership lines are of the present, so the      *)
(* failover has happened, and the old leader, which is respawned and       *)
(* waited for, cannot come back as the leader: it must show up following.  *)
OldLeaderMustFollow ==
    flow.upgrade = "none" /\ pc \in {"respawn", "detect_old_leader", "await_follower"} =>
        newLeader # firstLeader /\ leads = newLeader

(* The polling loops for a leader, for a restore, for the upgrade and for  *)
(* the old leader to follow all end, and the run does, unless the node     *)
(* that is waited for as a follower leads again.                           *)
RunEnds == <>(RunOver \/ (pc = "await_follower" /\ leads = firstLeader))
=============================================================================
