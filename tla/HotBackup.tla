----------------------------- MODULE HotBackup -----------------------------
(***************************************************************************)
(* The hot backup section of Runner.run on a cluster, once before and once *)
(* after the upgrade: create a backup, add data it does not hold, upload,  *)
(* delete and download it, restore it, and look at the data.  Every        *)
(* command is an arangobackup (HotBackupManager, arangodb/backup.py) that  *)
(* talks to a coordinator; the work is done by the dbservers, each at its  *)
(* own pace, and has to be waited for: by polling the status of a transfer *)
(* and by reading each dbserver's log for its restart                      *)
(* (ArangodInstance.detect_restore_restart).                               *)
(*                                                                         *)
(* The names every specification has carry an HB here: ScenarioProofs      *)
(* EXTENDS this module next to UpgradeRun and LeaderFollower.              *)
(***************************************************************************)
EXTENDS Naturals, Sequences

CONSTANTS
    DBServers,  \* number of dbservers
    MayFail     \* may commands and transfers fail?

ASSUME DBServersAssumption == DBServers \in Nat \ {0}
ASSUME MayFailAssumption == MayFail \in BOOLEAN

Servers == 1..DBServers

VARIABLES
    \* the deployment
    local,    \* local[d]: the backup on dbserver d
    remote,   \* remote[d]: has d's part been uploaded?
    transfer, \* transfer[d][dir]: the last upload and the last download of d
    server,   \* server[d]: dbserver d, as far as the restore goes
    process,  \* process[d]: 1 is the process it was started as, 2 the upgraded one
    log,      \* log[d]: what arangod.log tells of starts and restores, by process
    extra,    \* is there data that is not in the backup?
    \* the driver
    step,
    cycle,    \* 1 before, 2 after the upgrade
    at        \* the dbserver the loop of wait_for_restore_impl is at

deploymentVars == <<local, remote, transfer, server, process, log, extra>>
driverVars == <<step, cycle, at>>
hbVars == <<deploymentVars, driverVars>>

Directions == {"up", "down"}
Status == {"none", "STARTED", "COMPLETED", "FAILED"}
Entries == [process : 1..2, line : {"ready", "restarting"}]
RunOver == step \in {"done", "raised"}

HBTypeOK ==
    /\ local \in [Servers -> {"none", "created", "downloaded"}]
    /\ remote \in [Servers -> BOOLEAN]
    /\ transfer \in [Servers -> [Directions -> Status]]
    /\ server \in [Servers -> {"up", "told", "restarting"}]
    /\ process \in [Servers -> 1..2]
    /\ log \in [Servers -> Seq(Entries)]
    /\ extra \in BOOLEAN
    /\ step \in {"create", "add_data", "upload", "poll_upload", "delete",
               "download", "poll_download", "restore", "await_restore",
               "check", "add_data_again", "upgrade", "done", "raised"}
    /\ cycle \in 1..2
    /\ at \in Servers

HBInit ==
    /\ local = [d \in Servers |-> "none"]
    /\ remote = [d \in Servers |-> FALSE]
    /\ transfer = [d \in Servers |-> [dir \in Directions |-> "none"]]
    /\ server = [d \in Servers |-> "up"]
    /\ process = [d \in Servers |-> 1]
    /\ log = [d \in Servers |-> <<[process |-> 1, line |-> "ready"]>>]
    /\ extra = FALSE
    /\ step = "create"
    /\ cycle = 1
    /\ at = 1

-----------------------------------------------------------------------------
(* The dbservers (external). *)

Logged(d, text) == log' = [log EXCEPT ![d] = Append(@, [process |-> process[d], line |-> text])]

(* A transfer ends; it fails when what it copies is not there.             *)
TransferEnds(d, dir) ==
    LET there == IF dir = "up" THEN local[d] # "none" ELSE remote[d]
    IN  /\ transfer[d][dir] = "STARTED"
        /\ \/ /\ there
              /\ transfer' = [transfer EXCEPT ![d][dir] = "COMPLETED"]
              /\ remote' = [remote EXCEPT ![d] = @ \/ dir = "up"]
              /\ local' = [local EXCEPT ![d] = IF dir = "down" THEN "downloaded" ELSE @]
           \/ /\ ~there \/ MayFail
              /\ transfer' = [transfer EXCEPT ![d][dir] = "FAILED"]
              /\ UNCHANGED <<local, remote>>
        /\ UNCHANGED <<server, process, log, extra, driverVars>>

(* The server executes itself anew: its process id stays. *)
Restart(d) ==
    /\ server[d] = "told"
    /\ server' = [server EXCEPT ![d] = "restarting"]
    /\ Logged(d, "restarting")
    /\ UNCHANGED <<local, remote, transfer, process, extra, driverVars>>

ComeBack(d) ==
    /\ server[d] = "restarting"
    /\ server' = [server EXCEPT ![d] = "up"]
    /\ Logged(d, "ready")
    /\ UNCHANGED <<local, remote, transfer, process, extra, driverVars>>

Work(d) == Restart(d) \/ ComeBack(d) \/ \E dir \in Directions : TransferEnds(d, dir)

(* What arangobackup list shows: a backup that some dbservers have may be  *)
(* listed or not.                                                          *)
ListResults ==
    {present \in BOOLEAN : /\ present => \E d \in Servers : local[d] # "none"
                           /\ ~present => \E d \in Servers : local[d] = "none"}

-----------------------------------------------------------------------------
(* The commands.  run_backup raises when arangobackup fails.               *)

Fails == MayFail /\ step' = "raised" /\ UNCHANGED deploymentVars

CreateBackup ==
    /\ step = "create"
    /\ \/ /\ local' = [d \in Servers |-> "created"]
          /\ step' = "add_data"
          /\ UNCHANGED <<remote, transfer, server, process, log, extra>>
       \/ Fails
    /\ UNCHANGED <<cycle, at>>

(* create_non_backup_data, for the restore of this cycle or of the next.   *)
(* When arangosh fails a run that is not interactive goes on without it.   *)
CreateNonBackupData ==
    /\ step \in {"add_data", "add_data_again"}
    /\ \/ /\ extra' = TRUE \/ (MayFail /\ extra' = extra)
          /\ step' = IF step = "add_data" THEN "upload" ELSE "upgrade"
          /\ UNCHANGED <<local, remote, transfer, server, process, log>>
       \/ Fails
    /\ UNCHANGED <<cycle, at>>

Start(dir) ==
    /\ transfer' = [d \in Servers |-> [transfer[d] EXCEPT ![dir] = "STARTED"]]
    /\ UNCHANGED <<local, remote, server, process, log, extra>>

(* list_backup and the upload of its first element. *)
UploadBackup ==
    /\ step = "upload"
    /\ \/ TRUE \in ListResults /\ Start("up") /\ step' = "poll_upload"
       \/ FALSE \in ListResults /\ step' = "raised" /\ UNCHANGED deploymentVars
       \/ Fails
    /\ UNCHANGED <<cycle, at>>

(* upload_status, which is asked of downloads, too: there is a line per    *)
(* dbserver, and the first COMPLETED or FAILED among them decides.         *)
PollTransfer(here, dir, next) ==
    /\ step = here
    /\ \/ /\ \E d \in Servers : transfer[d][dir] = "COMPLETED"
          /\ step' = next
       \/ /\ \E d \in Servers : transfer[d][dir] = "FAILED"
          /\ step' = "raised"
       \/ Fails
    /\ UNCHANGED <<deploymentVars, cycle, at>>

(* Mutant: the status is polled until it is COMPLETED everywhere, however  *)
(* it went.                                                                *)
MutantPollUpload ==
    /\ step = "poll_upload"
    /\ \A d \in Servers : transfer[d]["up"] = "COMPLETED"
    /\ step' = "delete"
    /\ UNCHANGED <<deploymentVars, cycle, at>>

PollUpload == PollTransfer("poll_upload", "up", "delete")

(* Mutant: the local copy stays, and the list is not looked at. *)
MutantDeleteBackup ==
    /\ step = "delete"
    /\ step' = "download"
    /\ UNCHANGED <<deploymentVars, cycle, at>>

(* The list must be empty afterwards, and it is. *)
DeleteBackup ==
    /\ step = "delete"
    /\ \/ /\ local' = [d \in Servers |-> "none"]
          /\ step' = "download"
          /\ UNCHANGED <<remote, transfer, server, process, log, extra>>
       \/ Fails
    /\ UNCHANGED <<cycle, at>>

DownloadBackup ==
    /\ step = "download"
    /\ \/ Start("down") /\ step' = "poll_download"
       \/ Fails
    /\ UNCHANGED <<cycle, at>>

PollDownload == PollTransfer("poll_download", "down", "restore")

(* The list must show the backup; the restore is refused when a dbserver   *)
(* does not have it, otherwise every dbserver is told to restart with it.  *)
RestoreBackup ==
    /\ step = "restore"
    /\ \/ /\ \A d \in Servers : local[d] # "none"
          /\ server' = [d \in Servers |-> "told"]
          /\ extra' = FALSE
          /\ step' = "await_restore"
          /\ UNCHANGED <<local, remote, transfer, process, log>>
       \/ /\ \E d \in Servers : local[d] = "none"
          /\ step' = "raised"
          /\ UNCHANGED deploymentVars
       \/ Fails
    /\ UNCHANGED <<cycle, at>>

(* Mutant: the line about the restore is searched in the whole log. *)
MutantSawRestart(entries) ==
    LET last == entries[Len(entries)].process
    IN  \E i, j \in DOMAIN entries :
            /\ i < j
            /\ entries[i].line = "restarting"
            /\ entries[j] = [process |-> last, line |-> "ready"]

(* detect_restore_restart: from the first line on of the process that      *)
(* wrote the last one there is the line about the restore, and after that  *)
(* detect_pid finds the same process ready for business.                   *)
SawRestart(entries) ==
    LET last == entries[Len(entries)].process
    IN  \E start, i, j \in DOMAIN entries :
            /\ start <= i /\ i < j
            /\ entries[start].process = last
            /\ entries[i].line = "restarting"
            /\ entries[j] = [process |-> last, line |-> "ready"]

(* Mutant: the loop runs past the last dbserver. *)
MutantWaitForRestore(d) ==
    /\ step = "await_restore"
    /\ d = at
    /\ SawRestart(log[d])
    /\ at' = d + 1
    /\ step' = IF d < DBServers THEN step ELSE "check"
    /\ UNCHANGED <<deploymentVars, cycle>>

(* wait_for_restore_impl: one dbserver after the other. *)
WaitForRestore(d) ==
    /\ step = "await_restore"
    /\ d = at
    /\ SawRestart(log[d])
    /\ at' = IF d < DBServers THEN d + 1 ELSE 1
    /\ step' = IF d < DBServers THEN step ELSE "check"
    /\ UNCHANGED <<deploymentVars, cycle>>

(* detect_pid looks for that second line 40 times, and ends the test when  *)
(* the dbserver takes longer to come back.                                 *)
GiveUpWaiting(d) ==
    /\ step = "await_restore" /\ MayFail
    /\ d = at
    /\ log[d][Len(log[d])].line = "restarting"
    /\ step' = "raised"
    /\ UNCHANGED <<deploymentVars, cycle, at>>

(* check_data_impl and check_non_backup_data *)
Check ==
    /\ step = "check"
    /\ \/ /\ ~extra
          /\ step' = IF cycle = 1 THEN "add_data_again" ELSE "done"
       \/ /\ extra \/ MayFail
          /\ step' = "raised"
    /\ UNCHANGED <<deploymentVars, cycle, at>>

(* The rolling upgrade: new processes write to the same logs.  Without an  *)
(* upgrade the run is over after the first cycle.                          *)
Upgrade ==
    /\ step = "upgrade"
    /\ \/ /\ process' = [d \in Servers |-> 2]
          /\ log' = [d \in Servers |-> Append(log[d], [process |-> 2, line |-> "ready"])]
          /\ step' = "upload"
          /\ cycle' = 2
       \/ /\ step' = "done"
          /\ UNCHANGED <<process, log, cycle>>
    /\ UNCHANGED <<local, remote, transfer, server, extra, at>>

-----------------------------------------------------------------------------
Driver ==
    \/ CreateBackup \/ CreateNonBackupData \/ UploadBackup \/ PollUpload
    \/ DeleteBackup \/ DownloadBackup \/ PollDownload \/ RestoreBackup
    \/ \E d \in Servers : WaitForRestore(d) \/ GiveUpWaiting(d)
    \/ Check \/ Upgrade

Finished == RunOver /\ UNCHANGED hbVars

HBNext ==
    \/ Driver
    \/ \E d \in Servers : Work(d)
    \/ Finished

HBSpec == HBInit /\ [][HBNext]_hbVars

(* The driver polls without a limit: its dbservers must get on with it.    *)
FairSpec ==
    /\ HBSpec
    /\ WF_hbVars(Driver)
    /\ \A d \in Servers : WF_hbVars(Work(d))

-----------------------------------------------------------------------------
(* While a restore is waited for the log tells exactly who has come back,  *)
(* also after the upgrade, when the logs already tell of the restore       *)
(* before it: the driver neither goes on too early nor waits for a line    *)
(* that will not be written any more.  So when the data is checked every   *)
(* dbserver has the restored one.                                          *)
RestoreAwaited ==
    /\ step = "await_restore" =>
         \A d \in Servers : SawRestart(log[d]) <=> server[d] = "up"
    /\ step = "check" => \A d \in Servers : server[d] = "up"

(* A restore tests the way through the remote directory: what is restored  *)
(* has been uploaded and downloaded on every dbserver, although a transfer *)
(* is taken for done when the first of them is.                            *)
RestoreIsTested ==
    step \in {"await_restore", "check"} =>
        \A d \in Servers : local[d] = "downloaded" /\ remote[d]

(* The section ends, however the transfers of the dbservers go.            *)
RunEnds == <>RunOver
=============================================================================
