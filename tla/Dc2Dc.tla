------------------------------- MODULE Dc2Dc -------------------------------
(***************************************************************************)
(* The life of the datacenter replication test (Runner.run with the hooks  *)
(* of Dc2Dc, arangodb/starter/deployments/dc2dc.py): two clusters, a       *)
(* starter each, with arangosync processes that copy what is written to    *)
(* the first to the second.  SyncManager (arangodb/sync.py) configures the *)
(* synchronisation and asks whether it has caught up.                      *)
(*                                                                         *)
(* What is written to the first cluster is counted: the new password, the  *)
(* data of makedata, the data of the fuzzing test.  The second cluster has *)
(* a prefix of it.  The hot backup is left out (see HotBackup).            *)
(***************************************************************************)
EXTENDS Naturals

CONSTANTS
    MaxPolls,  \* unanswered polls of check_sync before test_setup_impl gives up: 20
    MayFail    \* may commands fail and the upgrade break the synchronisation?

ASSUME MaxPollsAssumption == MaxPolls \in Nat
ASSUME MayFailAssumption == MayFail \in BOOLEAN

Clusters == 1..2
Password == 1
Data == 2
FuzzData == 3

VARIABLES
    \* the deployment
    servers,    \* servers[c]: the version of c's arangods
    syncers,    \* syncers[c]: c's arangosync processes, by whose children they are
    commanded,  \* the starters that were told to upgrade
    link,       \* the synchronisation
    written,    \* what was last written to the first cluster
    replicated, \* what the second one has of it
    \* the driver
    pc,
    upgrade,    \* is there a new installer?
    canCheck,   \* is arangosync new enough for check_sync, 1.0.0 that is?
    at,         \* the cluster a sequence of two calls is at
    polls,
    known,      \* the clusters whose living syncers the driver has process ids of
    missed      \* those of them of which a detection did without some syncers

deploymentVars == <<servers, syncers, commanded, link, written, replicated>>
driverVars == <<pc, upgrade, canCheck, at, polls, known, missed>>
vars == <<deploymentVars, driverVars>>

RunOver == pc \in {"done", "raised", "servers missing", "unidentified"}

TypeOK ==
    /\ servers \in [Clusters -> {"none", "booting", "old", "new"}]
    /\ syncers \in [Clusters -> {"none", "starter's", "orphaned", "killed"}]
    /\ commanded \in SUBSET Clusters
    /\ link \in {"none", "on", "broken"}
    /\ written \in 0..FuzzData
    /\ replicated \in 0..FuzzData
    /\ pc \in {"run starter", "detect", "await syncers", "configure",
               "make data", "replace", "still alive", "kill syncers",
               "await upgrade", "detect again",
               "check first", "poll sync", "check second", "fuzz", "await fuzz",
               "check sync", "shutdown", "done", "raised", "servers missing",
               "unidentified"}
    /\ <<upgrade, canCheck>> \in BOOLEAN \X BOOLEAN
    /\ at \in Clusters
    /\ polls \in 0..(MaxPolls + 1)
    /\ {known, missed} \subseteq SUBSET Clusters

Init ==
    /\ servers = [c \in Clusters |-> "none"]
    /\ syncers = [c \in Clusters |-> "none"]
    /\ commanded = {}
    /\ link = "none"
    /\ written = 0 /\ replicated = 0
    /\ pc = "run starter"
    /\ upgrade \in BOOLEAN
    /\ canCheck \in BOOLEAN
    /\ at = 1
    /\ polls = 0
    /\ known = {} /\ missed = {}

-----------------------------------------------------------------------------
(* The deployment (external). *)

Boot(c) ==
    /\ servers[c] = "booting"
    /\ servers' = [servers EXCEPT ![c] = "old"]
    /\ UNCHANGED <<syncers, commanded, link, written, replicated, driverVars>>

(* The starter launches them when its servers are up. *)
LaunchSyncers(c) ==
    /\ servers[c] = "old"
    /\ syncers[c] = "none"
    /\ syncers' = [syncers EXCEPT ![c] = "starter's"]
    /\ UNCHANGED <<servers, commanded, link, written, replicated, driverVars>>

Replicate ==
    /\ link = "on"
    /\ \A c \in Clusters : syncers[c] \in {"starter's", "orphaned"}
    /\ replicated < written
    /\ replicated' = replicated + 1
    /\ UNCHANGED <<servers, syncers, commanded, link, written, driverVars>>

(* The rolling upgrade does not restart the syncers.  They may not get on  *)
(* with the new servers.                                                   *)
UpgradeServers(c) ==
    /\ c \in commanded
    /\ servers[c] = "old"
    /\ servers' = [servers EXCEPT ![c] = "new"]
    /\ link' \in {link} \cup (IF MayFail THEN {"broken"} ELSE {})
    /\ UNCHANGED <<syncers, commanded, written, replicated, driverVars>>

RespawnSyncers(c) ==
    /\ syncers[c] = "killed"
    /\ syncers' = [syncers EXCEPT ![c] = "starter's"]
    /\ UNCHANGED <<servers, commanded, link, written, replicated, driverVars>>

Deployment ==
    \/ \E c \in Clusters :
         Boot(c) \/ LaunchSyncers(c) \/ UpgradeServers(c) \/ RespawnSyncers(c)
    \/ Replicate

-----------------------------------------------------------------------------
(* The two clusters are treated one after the other. *)
Advance(here, next) ==
    \/ at = 1 /\ at' = 2 /\ pc' = here
    \/ at = 2 /\ at' = 1 /\ pc' = next

Raise == MayFail /\ pc' = "raised" /\ at' = at /\ UNCHANGED <<deploymentVars, known>>

RunStarter ==
    /\ pc = "run starter"
    /\ \/ /\ servers' = [servers EXCEPT ![at] = "booting"]
          /\ pc' = "detect"
          /\ UNCHANGED <<at, syncers, commanded, link, written, replicated,
                         known>>
       \/ Raise
    /\ UNCHANGED <<upgrade, canCheck, missed, polls>>

(* detect_instances: when the tries are used up a frontend is enough, and  *)
(* the syncers that are missing are never added to all_instances.          *)
Detect ==
    /\ pc = "detect"
    /\ \/ /\ \/ syncers[at] = "starter's" /\ UNCHANGED missed
             \/ /\ MayFail /\ servers[at] = "old" /\ syncers[at] = "none"
                /\ missed' = missed \cup {at}
          /\ known' = known \cup {at}
          /\ pc' = "await syncers"
          /\ UNCHANGED <<deploymentVars, at>>
       \/ Raise /\ UNCHANGED missed
    /\ UNCHANGED <<upgrade, canCheck, polls>>

(* get_sync_master_port waits for the lines of three syncworkers. *)
GetSyncMasterPort ==
    /\ pc = "await syncers"
    /\ \/ /\ syncers[at] = "starter's"
          /\ Advance("run starter", "configure")
          /\ UNCHANGED <<deploymentVars, known>>
       \/ Raise
    /\ UNCHANGED <<upgrade, canCheck, missed, polls>>

(* run_syncer; set_passvoid writes to the first cluster only. *)
ConfigureSync ==
    /\ pc = "configure"
    /\ \/ /\ link' = "on"
          /\ written' = Password
          /\ pc' = "make data"
          /\ UNCHANGED <<at, servers, syncers, commanded, replicated, known>>
       \/ Raise
    /\ UNCHANGED <<upgrade, canCheck, missed, polls>>

MakeData ==
    /\ pc = "make data"
    /\ \/ /\ written' = Data
          /\ pc' = IF upgrade THEN "replace" ELSE "check first"
          /\ UNCHANGED <<at, servers, syncers, commanded, link, replicated,
                         known>>
       \/ Raise
    /\ UNCHANGED <<upgrade, canCheck, missed, polls>>

-----------------------------------------------------------------------------
(* upgrade_arangod_version_impl *)

(* The starter is killed and a new one respawned.  The arangosyncs live on *)
(* as children of nobody.                                                  *)
ReplaceBinary ==
    /\ pc = "replace"
    /\ IF at \in known
       THEN /\ syncers' = [syncers EXCEPT ![at] = "orphaned"]
            /\ Advance("replace", "still alive")
       ELSE pc' = "servers missing" /\ UNCHANGED <<syncers, at>>
    /\ UNCHANGED <<servers, commanded, link, written, replicated, upgrade,
                   canCheck, missed, polls, known>>

CommandUpgrade ==
    /\ pc = "still alive"
    /\ IF Clusters \subseteq known
       THEN commanded' = Clusters /\ pc' = "kill syncers"
       ELSE pc' = "servers missing" /\ UNCHANGED commanded
    /\ UNCHANGED <<servers, syncers, link, written, replicated, upgrade,
                   canCheck, missed, at, polls, known>>

(* Mutant: those of the second cluster are forgotten. *)
MutantKillSyncProcesses ==
    /\ pc = "kill syncers"
    /\ syncers' = IF 1 \in missed THEN syncers ELSE [syncers EXCEPT ![1] = "killed"]
    /\ known' = known \ {1}
    /\ pc' = "await upgrade"
    /\ UNCHANGED <<servers, commanded, link, written, replicated, upgrade,
                   canCheck, missed, at, polls>>

(* "workaround: kill the sync'ers by hand, the starter doesn't", while the *)
(* upgrades are running: those that were detected.                         *)
KillSyncProcesses ==
    /\ pc = "kill syncers"
    /\ syncers' = IF at \in missed THEN syncers ELSE [syncers EXCEPT ![at] = "killed"]
    /\ known' = known \ {at}
    /\ Advance("kill syncers", "await upgrade")
    /\ UNCHANGED <<servers, commanded, link, written, replicated, upgrade,
                   canCheck, missed, polls>>

WaitForUpgrade ==
    /\ pc = "await upgrade"
    /\ \/ /\ servers[at] = "new"
          /\ Advance("await upgrade", "detect again")
          /\ UNCHANGED <<deploymentVars, known>>
       \/ Raise
    /\ UNCHANGED <<upgrade, canCheck, missed, polls>>

(* SyncInstance.detect_pid takes none but a child of the new starter for   *)
(* its process, for 300 tries.  Nobody looks at how the four commands that *)
(* ask for the state of the synchronisation afterwards end.                *)
DetectAgain ==
    /\ pc = "detect again"
    /\ \/ /\ syncers[at] = "starter's"
          /\ known' = known \cup {at}
          /\ Advance("detect again", "check first")
          /\ UNCHANGED deploymentVars
       \/ /\ syncers[at] = "orphaned"
          /\ pc' = "unidentified"
          /\ UNCHANGED <<deploymentVars, at, known>>
       \/ Raise
    /\ UNCHANGED <<upgrade, canCheck, missed, polls>>

-----------------------------------------------------------------------------
(* test_setup_impl *)

(* check_test_data on the first cluster, whose answer counts only if there *)
(* was an upgrade (check_data_impl).                                       *)
CheckFirst ==
    /\ pc = "check first"
    /\ \/ pc' = "poll sync" /\ at' = at /\ UNCHANGED <<deploymentVars, known>>
       \/ upgrade /\ Raise
    /\ UNCHANGED <<upgrade, canCheck, missed, polls>>

(* The answers check_sync may give: an old arangosync is not even asked.   *)
CheckSync ==
    IF ~canCheck THEN {TRUE}
    ELSE {link = "on" /\ replicated = written} \cup (IF MayFail THEN {FALSE} ELSE {})

(* Mutant: there is no limit. *)
MutantPollSync ==
    /\ pc = "poll sync"
    /\ \/ TRUE \in CheckSync /\ pc' = "check second" /\ polls' = polls
       \/ FALSE \in CheckSync /\ pc' = pc /\ polls' = polls + 1
    /\ UNCHANGED <<deploymentVars, upgrade, canCheck, missed, at, known>>

PollSync ==
    /\ pc = "poll sync"
    /\ \/ TRUE \in CheckSync /\ pc' = "check second" /\ polls' = polls
       \/ /\ FALSE \in CheckSync
          /\ polls <= MaxPolls
          /\ pc' = pc
          /\ polls' = polls + 1
       \/ FALSE \in CheckSync /\ polls > MaxPolls /\ pc' = "raised" /\ polls' = polls
    /\ UNCHANGED <<deploymentVars, upgrade, canCheck, missed, at, known>>

CheckSecond ==
    /\ pc = "check second"
    /\ pc' \in {IF replicated >= Data THEN "fuzz" ELSE "raised"}
           \cup (IF MayFail THEN {"raised"} ELSE {})
    /\ UNCHANGED <<deploymentVars, upgrade, canCheck, missed, at, polls,
                   known>>

StartFuzzing ==
    /\ pc = "fuzz"
    /\ written' = FuzzData
    /\ pc' = "await fuzz"
    /\ UNCHANGED <<servers, syncers, commanded, link, replicated, upgrade,
                   canCheck, missed, at, polls, known>>

(* Mutant: the fuzzing test's answer is not looked at. *)
MutantEndFuzzing ==
    /\ pc = "await fuzz"
    /\ pc' = "check sync"
    /\ UNCHANGED <<deploymentVars, upgrade, canCheck, missed, at, polls,
                   known>>

(* It succeeds when the second cluster has what it wrote. *)
EndFuzzing ==
    /\ pc = "await fuzz"
    /\ \/ replicated = written /\ pc' = "check sync"
       \/ (link = "broken" \/ MayFail) /\ pc' = "raised"
    /\ UNCHANGED <<deploymentVars, upgrade, canCheck, missed, at, polls,
                   known>>

CheckSyncAgain ==
    /\ pc = "check sync"
    /\ \/ TRUE \in CheckSync /\ pc' = "shutdown"
       \/ FALSE \in CheckSync /\ pc' = "raised"
    /\ UNCHANGED <<deploymentVars, upgrade, canCheck, missed, at, polls,
                   known>>

ShutDown ==
    /\ pc = "shutdown"
    /\ servers' = [servers EXCEPT ![at] = "none"]
    /\ syncers' = [syncers EXCEPT ![at] = "none"]
    /\ known' = known \ {at}
    /\ Advance("shutdown", "done")
    /\ UNCHANGED <<commanded, link, written, replicated, upgrade, canCheck,
                   missed, polls>>

-----------------------------------------------------------------------------
Driver ==
    \/ RunStarter \/ Detect \/ GetSyncMasterPort \/ ConfigureSync \/ MakeData
    \/ ReplaceBinary \/ CommandUpgrade \/ KillSyncProcesses \/ WaitForUpgrade
    \/ DetectAgain
    \/ CheckFirst \/ PollSync \/ CheckSecond \/ StartFuzzing \/ EndFuzzing
    \/ CheckSyncAgain \/ ShutDown

Finished == RunOver /\ UNCHANGED vars

Next == Driver \/ Deployment \/ Finished

Spec == Init /\ [][Next]_vars

-----------------------------------------------------------------------------
(* A test that passes has a synchronisation that works, also when the      *)
(* upgrade broke it, which the upgrade does not notice, and when arangosync *)
(* is too old to be asked (Dc2Dc.test_setup_impl).                         *)
PassedMeansReplicated ==
    pc \in {"shutdown", "done"} => link = "on" /\ replicated = written

(* The workaround works, however the two upgrades and the kills interleave, *)
(* unless a detection had done without some of the syncers: otherwise none *)
(* is met afterwards that is not its starter's child, and no process is    *)
(* missed because its id is old (kill_sync_processes, detect_instances).   *)
SyncersIdentified ==
    pc # "servers missing" /\ (pc = "unidentified" => at \in missed)
=============================================================================
