--------------------------- MODULE LeaderFollower ---------------------------
(***************************************************************************)
(* The life of the leader-follower test (Runner.run with the hooks of      *)
(* LeaderFollower, arangodb/starter/deployments/leaderfollower.py): two    *)
(* single servers behind a starter each, the second of which replicates    *)
(* the first asynchronously.                                               *)
(*                                                                         *)
(* The test saves a document, starts the replication, saves another one    *)
(* (the sentinel it will look for on the follower) and lets makedata write *)
(* DataOps operations more.  The leader's operations are numbered in the   *)
(* order they are written, and the follower has applied a prefix.          *)
(*                                                                         *)
(* The names every specification has carry an LF here: ScenarioProofs      *)
(* EXTENDS this module next to UpgradeRun and HotBackup.                   *)
(***************************************************************************)
EXTENDS Naturals

CONSTANTS
    DataOps,  \* operations of makedata
    Tries,    \* polls of test_setup_impl, one per second: 30
    MayBreak  \* may commands fail, and the replication stop?

ASSUME DataOpsAssumption == DataOps \in Nat \ {0}
ASSUME TriesAssumption == Tries \in Nat
ASSUME MayBreakAssumption == MayBreak \in BOOLEAN

Leader == 1
Follower == 2
Nodes == {Leader, Follower}

Before == 1             \* the operations beforeReplJS and afterReplJS
After == 2
Total == After + DataOps

VARIABLES
    \* the deployment
    arangod,     \* arangod[n]: the server of node n
    version,     \* version[n]: the version it runs, or ran last
    commanded,   \* the starters that were told to upgrade
    doneLog,     \* doneLog[n]: does the starter's log hold "Upgrading done."?
    replicating,
    written,     \* operations on the leader
    saved,       \* those of Before and After that succeeded
    applied,     \* operations on the follower
    \* the driver
    phase,
    upgrade,     \* is there a new installer?
    node,        \* the node a loop over the two starters is at
    tries,
    known        \* known[n]: the process whose id the driver has, by its version

serverVars == <<arangod, version, commanded, doneLog>>
dataVars == <<replicating, written, saved, applied>>
testVars == <<phase, upgrade, node, tries, known>>
lfVars == <<serverVars, dataVars, testVars>>

Aborted == {"command_failed", "replication_failed", "has_data_failed", "not_terminated"}
LFRunOver == phase \in {"done"} \cup Aborted

LFTypeOK ==
    /\ arangod \in [Nodes -> {"none", "booting", "up", "stopped"}]
    /\ version \in [Nodes -> {"old", "new"}]
    /\ commanded \in SUBSET Nodes
    /\ doneLog \in [Nodes -> BOOLEAN]
    /\ replicating \in {"off", "on", "broken"}
    /\ written \in 0..Total
    /\ saved \in SUBSET {Before, After}
    /\ applied \in 0..written
    /\ phase \in {"start", "detect", "before", "replicate", "after", "make_data",
               "replace", "command", "await_upgrade", "await_done",
               "await_shutdown", "detect_new", "check_data", "sentinel",
               "follower_data", "jam", "shutdown", "done"} \cup Aborted
    /\ upgrade \in BOOLEAN
    /\ node \in Nodes
    /\ tries \in 0..(Tries + 1)
    /\ known \in [Nodes -> {"none", "old", "new"}]

LFInit ==
    /\ arangod = [n \in Nodes |-> "none"]
    /\ version = [n \in Nodes |-> "old"]
    /\ commanded = {}
    /\ doneLog = [n \in Nodes |-> FALSE]
    /\ replicating = "off"
    /\ written = 0
    /\ saved = {}
    /\ applied = 0
    /\ phase = "start"
    /\ upgrade \in BOOLEAN
    /\ node = Leader
    /\ tries = Tries + 1
    /\ known = [n \in Nodes |-> "none"]

-----------------------------------------------------------------------------
(* The deployment (external). *)

Boot(n) ==
    /\ arangod[n] = "booting"
    /\ arangod' = [arangod EXCEPT ![n] = "up"]
    /\ UNCHANGED <<version, commanded, doneLog, dataVars, testVars>>

(* The commanding process ends before the upgrade it asked for: the server *)
(* stops, its database is upgraded, the new one starts, and some time      *)
(* after the stop the starter logs "Upgrading done.".                      *)
StopForUpgrade(n) ==
    /\ n \in commanded
    /\ arangod[n] = "up" /\ version[n] = "old"
    /\ arangod' = [arangod EXCEPT ![n] = "stopped"]
    /\ UNCHANGED <<version, commanded, doneLog, dataVars, testVars>>

StartNew(n) ==
    /\ arangod[n] = "stopped"
    /\ arangod' = [arangod EXCEPT ![n] = "booting"]
    /\ version' = [version EXCEPT ![n] = "new"]
    /\ UNCHANGED <<commanded, doneLog, dataVars, testVars>>

LogDone(n) ==
    /\ n \in commanded
    /\ arangod[n] = "stopped" \/ version[n] = "new"
    /\ ~doneLog[n]
    /\ doneLog' = [doneLog EXCEPT ![n] = TRUE]
    /\ UNCHANGED <<arangod, version, commanded, dataVars, testVars>>

Replicate ==
    /\ replicating = "on"
    /\ \A n \in Nodes : arangod[n] = "up"
    /\ applied < written
    /\ applied' = applied + 1
    /\ UNCHANGED <<serverVars, replicating, written, saved, testVars>>

Break ==
    /\ MayBreak
    /\ replicating = "on"
    /\ replicating' = "broken"
    /\ UNCHANGED <<serverVars, written, saved, applied, testVars>>

Server(n) == Boot(n) \/ StopForUpgrade(n) \/ StartNew(n) \/ LogDone(n)

-----------------------------------------------------------------------------
(* starter_run_impl, finish_setup_impl and make_data_impl *)

(* The loop over leader and follower: next node, or on to the next phase. *)
Advance(here, next) ==
    /\ node' = IF node = Leader THEN Follower ELSE Leader
    /\ phase' = IF node = Leader THEN here ELSE next

Goto(next) == phase' = next /\ node' = node

RunStarters ==
    /\ phase = "start"
    /\ arangod' = [n \in Nodes |-> "booting"]
    /\ Goto("detect")
    /\ UNCHANGED <<version, commanded, doneLog, dataVars, upgrade, tries, known>>

(* detect_instances returns when the server is ready for business.         *)
Found(n) ==
    /\ arangod[n] = "up"
    /\ known' = [known EXCEPT ![n] = version[n]]

Detect ==
    /\ phase = "detect"
    /\ Found(node)
    /\ Advance("detect", "before")
    /\ UNCHANGED <<serverVars, dataVars, upgrade, tries>>

(* Whether the document could be saved is logged, nothing else. *)
Save(op, here, next) ==
    /\ phase = here
    /\ written' = op
    /\ saved' \in {saved \cup {op}} \cup (IF MayBreak THEN {saved} ELSE {})
    /\ Goto(next)
    /\ UNCHANGED <<serverVars, replicating, applied, upgrade, tries, known>>

SaveBefore == Save(Before, "before", "replicate")

(* setupReplicationGlobal returns after a first synchronisation. *)
StartReplication ==
    /\ phase = "replicate"
    /\ \/ replicating' = "on" /\ applied' = written /\ Goto("after")
       \/ MayBreak /\ UNCHANGED <<replicating, applied>> /\ Goto("command_failed")
    /\ UNCHANGED <<serverVars, written, saved, upgrade, tries, known>>

SaveAfter == Save(After, "after", "make_data")

(* Mutant: one operation too many. *)
MutantMakeData ==
    /\ phase = "make_data"
    /\ written' = written + 1
    /\ Goto(IF written' <= Total THEN "make_data"
            ELSE IF upgrade THEN "replace" ELSE "sentinel")
    /\ UNCHANGED <<serverVars, replicating, saved, applied, upgrade, tries, known>>

(* makedata and checkdata on the leader, the only one so far. *)
MakeData ==
    /\ phase = "make_data"
    /\ written' = written + 1
    /\ Goto(IF written' < Total THEN "make_data"
            ELSE IF upgrade THEN "replace" ELSE "sentinel")
    /\ UNCHANGED <<serverVars, replicating, saved, applied, upgrade, tries, known>>

-----------------------------------------------------------------------------
(* upgrade_arangod_version_impl *)

(* The starters are killed and respawned; their servers live on. *)
ReplaceBinary ==
    /\ phase = "replace"
    /\ Advance("replace", "command")
    /\ UNCHANGED <<serverVars, dataVars, upgrade, tries, known>>

CommandUpgrade ==
    /\ phase = "command"
    /\ commanded' = commanded \cup {node}
    /\ Goto("await_upgrade")
    /\ UNCHANGED <<arangod, version, doneLog, dataVars, upgrade, tries, known>>

(* Mutant: the end of the commanding process is taken for the end. *)
MutantWaitForUpgrade ==
    /\ phase = "await_upgrade"
    /\ Advance("command", "detect_new")
    /\ UNCHANGED <<serverVars, dataVars, upgrade, tries, known>>

WaitForUpgrade ==
    /\ phase = "await_upgrade"
    /\ \/ Goto("await_done")
       \/ MayBreak /\ Goto("command_failed")
    /\ UNCHANGED <<serverVars, dataVars, upgrade, tries, known>>

(* wait_for_upgrade_done_in_log: the line first, ...  *)
WaitForDone ==
    /\ phase = "await_done"
    /\ doneLog[node]
    /\ Goto("await_shutdown")
    /\ UNCHANGED <<serverVars, dataVars, upgrade, tries, known>>

(* ... then the end of the process whose id was detected. *)
WaitForShutdown ==
    /\ phase = "await_shutdown"
    /\ arangod[node] # "up" \/ version[node] # known[node]
    /\ Advance("command", "detect_new")
    /\ UNCHANGED <<serverVars, dataVars, upgrade, tries, known>>

(* detect_instances, wait_for_version_reply *)
DetectNew ==
    /\ phase = "detect_new"
    /\ Found(node)
    /\ Advance("detect_new", "check_data")
    /\ UNCHANGED <<serverVars, dataVars, upgrade, tries>>

CheckData ==
    /\ phase = "check_data"
    /\ Goto("sentinel")
    /\ UNCHANGED <<serverVars, dataVars, upgrade, tries, known>>

-----------------------------------------------------------------------------
(* test_setup_impl, jam_attempt_impl, shutdown_impl *)

OnFollower(op) == op \in saved /\ op <= applied

(* Mutant: the last check is not looked at. *)
MutantCheckSentinel ==
    /\ phase = "sentinel"
    /\ tries' = IF tries > 0 THEN tries - 1 ELSE tries
    /\ Goto(IF (OnFollower(Before) /\ OnFollower(After)) \/ tries = 0
            THEN "follower_data" ELSE "sentinel")
    /\ UNCHANGED <<serverVars, dataVars, upgrade, known>>

(* checkReplJS: once, Tries times, and once more. *)
CheckSentinel ==
    /\ phase = "sentinel"
    /\ IF OnFollower(Before) /\ OnFollower(After)
       THEN Goto("follower_data") /\ tries' = tries
       ELSE IF tries > 0 THEN Goto("sentinel") /\ tries' = tries - 1
       ELSE Goto("replication_failed") /\ tries' = tries
    /\ UNCHANGED <<serverVars, dataVars, upgrade, known>>

(* make_data once more, now with the follower: it is read only, and the    *)
(* data is there already, so both are checked, at once.                    *)
CheckFollowerData ==
    /\ phase = "follower_data"
    /\ Goto(IF applied = Total THEN "jam" ELSE "has_data_failed")
    /\ UNCHANGED <<serverVars, dataVars, upgrade, tries, known>>

(* The replication fuzzing test, run on the leader against the follower. *)
Jam ==
    /\ phase = "jam"
    /\ \E next \in {"shutdown"} \cup (IF MayBreak THEN {"command_failed"} ELSE {}) : Goto(next)
    /\ UNCHANGED <<serverVars, dataVars, upgrade, tries, known>>

(* terminate_instance of both; processes found afterwards are an error. *)
ShutDown ==
    /\ phase = "shutdown"
    /\ arangod' = [arangod EXCEPT ![node] = "none"]
    /\ IF node = Leader THEN Advance("shutdown", "done")
       ELSE Goto(IF \E n \in Nodes : arangod'[n] # "none" THEN "not_terminated" ELSE "done")
    /\ UNCHANGED <<version, commanded, doneLog, dataVars, upgrade, tries, known>>

-----------------------------------------------------------------------------
LFDriver ==
    \/ RunStarters \/ Detect \/ SaveBefore \/ StartReplication \/ SaveAfter
    \/ MakeData \/ ReplaceBinary \/ CommandUpgrade \/ WaitForUpgrade
    \/ WaitForDone \/ WaitForShutdown \/ DetectNew \/ CheckData
    \/ CheckSentinel \/ CheckFollowerData \/ Jam \/ ShutDown

LFFinished == LFRunOver /\ UNCHANGED lfVars

LFNext ==
    \/ LFDriver
    \/ \E n \in Nodes : Server(n)
    \/ Replicate
    \/ Break
    \/ LFFinished

LFSpec == LFInit /\ [][LFNext]_lfVars

-----------------------------------------------------------------------------
(* What is checked after an upgrade is the new version: from the first     *)
(* check on both servers run it, are up, and are the processes the driver  *)
(* knows, although the commanding process ended long before.               *)
UpgradedWhenChecked ==
    upgrade /\ phase \in {"check_data", "sentinel", "follower_data", "jam"} =>
        \A n \in Nodes : arangod[n] = "up" /\ version[n] = "new" /\ known[n] = "new"

(* A run that passes has seen every document it meant to write on the      *)
(* follower, also if saving one failed, which nobody looks at then.        *)
PassedMeansReplicated ==
    phase \in {"jam", "shutdown", "done"} => saved = {Before, After} /\ applied = Total

=============================================================================
