----------------------------- MODULE ClusterRun -----------------------------
(***************************************************************************)
(* The life of the cluster test (Runner.run with the hooks of Cluster,     *)
(* arangodb/starter/deployments/cluster.py, and of ClusterPerf) next to    *)
(* the deployment it drives: three starters, each of which runs an agent,  *)
(* a coordinator and a dbserver.                                           *)
(*                                                                         *)
(* What the driver knows of the servers (StarterManager.all_instances with *)
(* a process id each, basecfg.frontends) is looked up at a few points of   *)
(* the run and is old in between: the rolling upgrade replaces every       *)
(* process without anybody looking again.  The data stress of ClusterPerf  *)
(* is PerfPool, the hot backup of a cluster is HotBackup.                  *)
(***************************************************************************)
EXTENDS Naturals, FiniteSets

CONSTANTS
    Starters,  \* number of starter_instances
    Kinds,     \* the deployments that are run
    Tries,     \* rounds of detect_instances: 10 * expect_instance_count, which is 1
    MaxPolls,  \* polls of the starter without the secret before the test gives up: 40
    MayFail    \* may starters and servers fail to come up?

ASSUME StartersAssumption == Starters \in Nat /\ Starters >= 3
ASSUME KindsAssumption == Kinds \subseteq {"cluster", "perf", "remote_perf"}
ASSUME BoundsAssumption == Tries \in Nat \ {0} /\ MaxPolls \in Nat
ASSUME MayFailAssumption == MayFail \in BOOLEAN

Nodes == 1..Starters
Commander == 2   \* starter_instances[1] commands the upgrade
Jammed == 3      \* starter_instances[2] is stopped by the jam
Roles == {"agent", "coordinator", "dbserver"}
Servers == Nodes \X Roles

(* self.cfg: which deployment, is it upgraded, under arangobench's load?   *)
Flows == {f \in [kind : Kinds, upgrade : BOOLEAN, stress : BOOLEAN] :
             /\ f.upgrade => f.kind = "cluster"
             /\ f.stress => f.upgrade}

VARIABLES
    \* the deployment
    starter,   \* starter[n]: the arangodb process of node n
    up,        \* up[n]: the servers of node n that are ready for business
    toRestart, \* the servers the rolling upgrade still has to restart
    stranger,  \* the starter without the secret
    bench,     \* the nodes an arangobench is running against
    \* the driver
    pc,
    flow,
    at,        \* the node a loop over the starters is at
    tries,     \* rounds detect_instances has left
    polls,
    known,     \* known[n]: all_instances of starter n
    stale,     \* the known servers whose process id is of an ended process
    isLeader,  \* isLeader[n]: the flag is_leader of starter n
    frontends  \* the nodes whose coordinator is in basecfg.frontends

deploymentVars == <<starter, up, toRestart, stranger, bench>>
loopVars == <<at, tries, polls>>
knowledge == <<known, stale, isLeader, frontends>>
vars == <<deploymentVars, pc, flow, loopVars, knowledge>>

Aborted == {"starter_gone", "no_frontend", "servers_missing", "raised"}
RunOver == pc \in {"done"} \cup Aborted

TypeOK ==
    /\ starter \in [Nodes -> {"none", "running", "gone", "ended"}]
    /\ up \in [Nodes -> SUBSET Roles]
    /\ toRestart \in SUBSET Servers
    /\ stranger \in {"none", "running", "exited"}
    /\ bench \in SUBSET Nodes
    /\ pc \in {"run_starters", "await_starters", "detect", "finish_setup",
               "make_data", "upgrade", "replace", "still_alive", "await_upgrade",
               "await_bench", "check_data", "jam", "respawn", "await_third",
               "detect_third", "stranger", "await_stranger", "shutdown",
               "done"} \cup Aborted
    /\ flow \in Flows
    /\ at \in Nodes
    /\ tries \in 1..Tries
    /\ polls \in 0..(MaxPolls + 1)
    /\ known \in [Nodes -> SUBSET Roles]
    /\ stale \in SUBSET Servers
    /\ isLeader \in [Nodes -> BOOLEAN]
    /\ frontends \in SUBSET Nodes

(* starter_prepare_env_impl flags every starter as a leader.  A remote     *)
(* deployment is there already: its starters are no processes of ours and  *)
(* know one coordinator each.                                              *)
Init ==
    /\ flow \in Flows
    /\ starter = [n \in Nodes |-> "none"]
    /\ up = [n \in Nodes |-> IF flow.kind = "remote_perf" THEN Roles ELSE {}]
    /\ toRestart = {}
    /\ stranger = "none"
    /\ bench = {}
    /\ pc = "run_starters"
    /\ at = 1
    /\ tries = Tries
    /\ polls = 0
    /\ known = [n \in Nodes |-> IF flow.kind = "remote_perf" THEN {"coordinator"} ELSE {}]
    /\ stale = {}
    /\ isLeader = [n \in Nodes |-> TRUE]
    /\ frontends = {}

-----------------------------------------------------------------------------
(* The deployment (external). *)

driverVars == <<pc, flow, loopVars, known, isLeader, frontends>>

(* A starter launches its agent first, the others need one. *)
Boot(n, r) ==
    /\ starter[n] = "running"
    /\ r \notin up[n]
    /\ r # "agent" => "agent" \in up[n]
    /\ up' = [up EXCEPT ![n] = @ \cup {r}]
    /\ UNCHANGED <<starter, toRestart, stranger, bench, stale, driverVars>>

(* A starter may end by itself while its servers are waited for. *)
StarterDies(n) ==
    /\ MayFail
    /\ pc \in {"await_starters", "await_third"}
    /\ starter[n] = "running"
    /\ starter' = [starter EXCEPT ![n] = "gone"]
    /\ UNCHANGED <<up, toRestart, stranger, bench, stale, driverVars>>

(* One server after the other gets the new binary, hence a new process.    *)
RollingRestart(n, r) ==
    /\ <<n, r>> \in toRestart
    /\ \A m \in Nodes : up[m] = Roles
    /\ toRestart' = toRestart \ {<<n, r>>}
    /\ up' = [up EXCEPT ![n] = @ \ {r}]
    /\ stale' = stale \cup {<<n, s>> : s \in known[n] \cap {r}}
    /\ UNCHANGED <<starter, stranger, bench, driverVars>>

StrangerExits ==
    /\ stranger = "running"
    /\ stranger' = "exited"
    /\ UNCHANGED <<starter, up, toRestart, bench, stale, driverVars>>

BenchEnds(n) ==
    /\ n \in bench
    /\ bench' = bench \ {n}
    /\ UNCHANGED <<starter, up, toRestart, stranger, stale, driverVars>>

Deployment ==
    \/ \E n \in Nodes, r \in Roles : Boot(n, r) \/ RollingRestart(n, r)
    \/ \E n \in Nodes : StarterDies(n) \/ BenchEnds(n)
    \/ StrangerExits

-----------------------------------------------------------------------------
(* starter_run_impl, finish_setup_impl and the data *)

(* The loop over the starters: next node, or on to the next phase.         *)
Advance(here, next) ==
    /\ at' = IF at < Starters THEN at + 1 ELSE 1
    /\ pc' = IF at < Starters THEN here ELSE next

(* run_starter returns when the log file is there, else it raises.         *)
RunStarter ==
    /\ pc = "run_starters"
    /\ starter' = IF flow.kind = "remote_perf" THEN starter
                  ELSE [starter EXCEPT ![at] = "running"]
    /\ \/ Advance("run_starters", "await_starters")
       \/ MayFail /\ flow.kind # "remote_perf" /\ pc' = "raised" /\ at' = at
    /\ UNCHANGED <<up, toRestart, stranger, bench, flow, tries, polls, knowledge>>

(* "... up and running" in the starter's log, of any server but the agent. *)
IsInstanceUp(n) == up[n] \ {"agent"} # {}

(* is_instance_up, polled; a starter that is gone ends the process with    *)
(* exit(0), if it is noticed: one nobody waited for may count as running.  *)
(* The starters are asked from the last to the first.                      *)
AwaitStarter ==
    /\ pc = "await_starters"
    /\ LET n == Starters + 1 - at
       IN  \/ /\ starter[n] = "gone"
              /\ pc' = "starter_gone"
              /\ at' = at
           \/ /\ IsInstanceUp(n)
              /\ Advance("await_starters", "detect")
    /\ UNCHANGED <<deploymentVars, flow, tries, polls, knowledge>>

(* Mutant: a server that is missing is searched without end. *)
MutantDetectRound(n, here, Found) ==
    /\ known' = [known EXCEPT ![n] = up[n]]
    /\ stale' = {s \in stale : s[1] # n}
    /\ IF up[n] = Roles
       THEN tries' = Tries /\ Found
       ELSE tries' = tries /\ pc' = here /\ at' = at

(* A round of detect_instances.  When the tries are used up the servers    *)
(* found so far will do, provided there is a frontend among them.          *)
DetectRound(n, here, Found) ==
    /\ known' = [known EXCEPT ![n] = up[n]]
    /\ stale' = {s \in stale : s[1] # n}
    /\ \/ /\ up[n] = Roles \/ (tries = 1 /\ "coordinator" \in up[n])
          /\ tries' = Tries
          /\ Found
       \/ /\ up[n] # Roles
          /\ tries > 1
          /\ tries' = tries - 1
          /\ pc' = here
          /\ at' = at
       \/ /\ \/ tries = 1 /\ "coordinator" \notin up[n]
             \/ MayFail /\ up[n] # Roles  \* a log that stays silent
          /\ tries' = tries
          /\ pc' = "no_frontend"
          /\ at' = at

(* detect_instances and detect_instance_pids of one starter; of the remote *)
(* ones the arangosh alone is looked up.                                   *)
Detect ==
    /\ pc = "detect"
    /\ IF flow.kind = "remote_perf"
       THEN Advance("detect", "finish_setup") /\ UNCHANGED <<known, stale, tries>>
       ELSE DetectRound(at, "detect", Advance("detect", "finish_setup"))
    /\ UNCHANGED <<deploymentVars, flow, polls, isLeader, frontends>>

(* get_frontend_instances *)
Frontends(leader, instances) ==
    {n \in Nodes : leader[n] /\ "coordinator" \in instances[n]}

FinishSetup ==
    /\ pc = "finish_setup"
    /\ frontends' = IF flow.kind = "cluster" THEN Frontends(isLeader, known) ELSE frontends
    /\ pc' = "make_data"
    /\ UNCHANGED <<deploymentVars, flow, loopVars, known, stale, isLeader>>

(* The scripts run in the arangosh of every starter in turn. *)
MakeData ==
    /\ pc = "make_data"
    /\ pc' = IF flow.upgrade THEN "upgrade" ELSE "jam"
    /\ UNCHANGED <<deploymentVars, flow, loopVars, knowledge>>

-----------------------------------------------------------------------------
(* upgrade_arangod_version_impl *)

LaunchBench ==
    /\ pc = "upgrade"
    /\ bench' = IF flow.stress THEN {1, Commander} ELSE {}
    /\ pc' = "replace"
    /\ UNCHANGED <<starter, up, toRestart, stranger, flow, loopVars, knowledge>>

(* detect_instance_pids_still_alive *)
StillAlive(n) == \A r \in known[n] : r \in up[n] /\ <<n, r>> \notin stale

(* replace_binary_for_upgrade: the starter is killed and respawned, its    *)
(* servers live on.                                                        *)
ReplaceBinary ==
    /\ pc = "replace"
    /\ IF StillAlive(at)
       THEN Advance("replace", "still_alive") /\ UNCHANGED starter
       ELSE /\ starter' = [starter EXCEPT ![at] = "ended"]
            /\ pc' = "servers_missing"
            /\ at' = at
    /\ UNCHANGED <<up, toRestart, stranger, bench, flow, tries, polls, knowledge>>

(* Mutant: the nodes are checked when the starters have been told. *)
MutantCommandUpgrade ==
    /\ pc = "still_alive"
    /\ toRestart' = Servers
    /\ IF ~StillAlive(at) THEN pc' = "servers_missing" /\ at' = at
       ELSE Advance("still_alive", "await_upgrade")
    /\ UNCHANGED <<starter, up, stranger, bench, flow, tries, polls, knowledge>>

(* All nodes are checked, then command_upgrade tells the starters. *)
CommandUpgrade ==
    /\ pc = "still_alive"
    /\ IF \A n \in Nodes : StillAlive(n)
       THEN toRestart' = Servers /\ pc' = "await_upgrade"
       ELSE UNCHANGED toRestart /\ pc' = "servers_missing"
    /\ UNCHANGED <<starter, up, stranger, bench, flow, loopVars, knowledge>>

WaitForUpgrade ==
    /\ pc = "await_upgrade"
    /\ \/ toRestart = {} /\ (\A n \in Nodes : up[n] = Roles) /\ pc' = "await_bench"
       \/ MayFail /\ pc' = "raised"
    /\ UNCHANGED <<deploymentVars, flow, loopVars, knowledge>>

(* How arangobench ended is not looked at. *)
WaitForBench ==
    /\ pc = "await_bench"
    /\ bench = {}
    /\ pc' = "check_data"
    /\ UNCHANGED <<deploymentVars, flow, loopVars, knowledge>>

(* check_data_impl: the first starter that is flagged leader. *)
CheckData ==
    /\ pc = "check_data"
    /\ pc' = IF \E n \in Nodes : isLeader[n] THEN "jam" ELSE "raised"
    /\ UNCHANGED <<deploymentVars, flow, loopVars, knowledge>>

-----------------------------------------------------------------------------
(* jam_attempt_impl *)

(* terminate_instance: the servers go with their starter, the flag and the *)
(* instances are forgotten.                                                *)
Terminate(n) ==
    /\ starter' = [starter EXCEPT ![n] = "ended"]
    /\ up' = [up EXCEPT ![n] = {}]
    /\ known' = [known EXCEPT ![n] = {}]
    /\ stale' = {s \in stale : s[1] # n}
    /\ isLeader' = [isLeader EXCEPT ![n] = FALSE]

(* ClusterPerf's jam is the data stress. *)
DataStress ==
    /\ pc = "jam"
    /\ flow.kind # "cluster"
    /\ pc' = "shutdown"
    /\ UNCHANGED <<deploymentVars, flow, loopVars, knowledge>>

(* Mutant: the list of frontends is not brought up to date. *)
MutantTerminateThird ==
    /\ pc = "jam"
    /\ flow.kind = "cluster"
    /\ Terminate(Jammed)
    /\ pc' = "respawn"
    /\ UNCHANGED <<toRestart, stranger, bench, flow, loopVars, frontends>>

TerminateThird ==
    /\ pc = "jam"
    /\ flow.kind = "cluster"
    /\ Terminate(Jammed)
    /\ frontends' = Frontends(isLeader', known')
    /\ pc' = "respawn"
    /\ UNCHANGED <<toRestart, stranger, bench, flow, loopVars>>

RespawnThird ==
    /\ pc = "respawn"
    /\ starter' = [starter EXCEPT ![Jammed] = "running"]
    /\ frontends' = Frontends(isLeader, known)
    /\ pc' = "await_third"
    /\ UNCHANGED <<up, toRestart, stranger, bench, flow, loopVars, known, stale, isLeader>>

AwaitThird ==
    /\ pc = "await_third"
    /\ \/ starter[Jammed] = "gone" /\ pc' = "starter_gone"
       \/ IsInstanceUp(Jammed) /\ pc' = "detect_third"
    /\ UNCHANGED <<deploymentVars, flow, loopVars, knowledge>>

(* Detected anew and found alive, it stays without the flag is_leader, so  *)
(* its coordinator does not get back into the list of frontends.           *)
DetectThird ==
    /\ pc = "detect_third"
    /\ DetectRound(Jammed, "detect_third", pc' = "stranger" /\ at' = at)
    /\ frontends' = IF pc' = "stranger" THEN Frontends(isLeader, known') ELSE frontends
    /\ UNCHANGED <<deploymentVars, flow, polls, isLeader>>

RunStranger ==
    /\ pc = "stranger"
    /\ stranger' = "running"
    /\ pc' \in {"await_stranger"} \cup (IF MayFail THEN {"raised"} ELSE {})
    /\ UNCHANGED <<starter, up, toRestart, bench, flow, loopVars, knowledge>>

(* Mutant: the polls are counted, but never run out. *)
MutantPollStranger ==
    /\ pc = "await_stranger"
    /\ \/ stranger = "exited" /\ pc' = "shutdown" /\ polls' = polls
       \/ stranger = "running" /\ pc' = pc /\ polls' = polls + 1
    /\ UNCHANGED <<deploymentVars, flow, at, tries, knowledge>>

(* is_instance_running waits for the process, so an end is noticed here.   *)
PollStranger ==
    /\ pc = "await_stranger"
    /\ \/ stranger = "exited" /\ pc' = "shutdown" /\ polls' = polls
       \/ stranger = "running" /\ polls > MaxPolls /\ pc' = "raised" /\ polls' = polls
       \/ stranger = "running" /\ polls <= MaxPolls /\ pc' = pc /\ polls' = polls + 1
    /\ UNCHANGED <<deploymentVars, flow, at, tries, knowledge>>

(* The starter object of a remote node holds no process to terminate.      *)
ShutDown ==
    /\ pc = "shutdown"
    /\ IF flow.kind = "remote_perf"
       THEN pc' = "raised" /\ UNCHANGED <<starter, up, known, stale, isLeader, at>>
       ELSE Terminate(at) /\ Advance("shutdown", "done")
    /\ UNCHANGED <<toRestart, stranger, bench, flow, tries, polls, frontends>>

-----------------------------------------------------------------------------
Driver ==
    \/ RunStarter \/ AwaitStarter \/ Detect \/ FinishSetup \/ MakeData
    \/ LaunchBench \/ ReplaceBinary \/ CommandUpgrade \/ WaitForUpgrade
    \/ WaitForBench \/ CheckData \/ DataStress
    \/ TerminateThird \/ RespawnThird \/ AwaitThird \/ DetectThird
    \/ RunStranger \/ PollStranger \/ ShutDown

Finished == RunOver /\ UNCHANGED vars

Next == Driver \/ Deployment \/ Finished

Spec == Init /\ [][Next]_vars

(* The driver goes on, the upgrade command ends one way or the other and   *)
(* arangobench has a fixed load.  A starter that runs gets one server up;  *)
(* the others may stay away for ever, as may the starter without the       *)
(* secret: for those the driver counts its tries.                          *)
FairSpec ==
    /\ Spec
    /\ WF_vars(Driver)
    /\ \A n \in Nodes : WF_vars(~IsInstanceUp(n) /\ \E r \in Roles : Boot(n, r))
    /\ \A n \in Nodes : WF_vars(BenchEnds(n))

-----------------------------------------------------------------------------
(* Whoever uses basecfg.frontends, the data scripts before the upgrade,    *)
(* the user or the browser at the prompts of the jam, finds a coordinator  *)
(* that runs behind every entry.                                           *)
FrontendsServe ==
    pc \in {"make_data", "upgrade", "check_data", "jam", "respawn",
            "await_third", "detect_third", "stranger", "await_stranger"} =>
        \A n \in frontends : "coordinator" \in up[n]

(* The run is never aborted for "Not all instances are alive" because the  *)
(* driver's process ids are old: after the upgrade they all are, yet every *)
(* check that follows comes after a new detection.                         *)
NeverMissing == pc # "servers_missing"

(* The run ends, whatever fails, unless it waits for a starter that died.  *)
RunEnds == <>(RunOver \/ \E n \in Nodes : starter[n] = "gone")
=============================================================================
