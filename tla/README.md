# A model of the release test automation

The repository installs ArangoDB packages on a host, starts deployments with
the `arangodb` starter, feeds them data, upgrades them, provokes a failure and
looks whether the deployment survives it. It is a program *about* a distributed
system: threads that read from pipes, polling loops that wait for servers which
elect leaders meanwhile, log files that tell of the past, and files that one
invocation leaves for the next. The modules in this directory model that
program; the servers it drives appear as its environment.

All source paths are relative to `src/release_tester/`.

## 1. Inventory

| Component | State | Operations | What is hard | What makes it correct |
|---|---|---|---|---|
| **Script execution** `arangodb/sh.py` | child process, two pipes, two reader threads, one queue, empty-poll counter | `run_script_monitored`: poll, collect, kill, join | three threads and a child interleave; timeout against exit; pipes outlive the child | no line lost or reordered, success means complete output, the call returns |
| **Parallel data stress** `.../cluster_perf.py` | job queue, result queue, worker threads | `makedata_runner`, `jam_attempt_impl` | counting messages instead of threads; exceptions in workers | every chunk once, no two chunks in one database, no thread outlives the jam |
| **Active failover** `.../activefailover.py`, with `runner.py`, `manager.py`, `instance.py` | the flags and instances of each starter, remembered leaders, followers | the hooks of `Runner.run` | leadership moves while the driver works with what it remembers; logs of the past | the jam stops the leader, a reported failover has happened, the run ends |
| **Nightly upgrade job** `full_download_upgrade_test.py`, `acquire_packages.py` | version state directory, package directory | fetch source info, decide, download, test, record | crashes between any two steps; builds published meanwhile | what is recorded was tested |
| **Test flow and host cleanup** `test.py`, `cleanup.py`, `runner.py`, `installers/deb.py` | packages, `/tmp/config.yml`, system service, processes, directories | the modes of `test.py`, `cleanup.py` | one invocation starts where a failed one has stopped | what was installed is removed, ports are free, nothing is left running |
| **Upgrade flow** `upgrade.py`, `runner.py:167-209` | old and new package, debug package | swap of the packages under a running deployment | partial failure between the package steps | the test starts on the old version and ends on the new one; what was installed is removed |
| **Starter manager, instance detection** `manager.py`, `instance.py` | process ids, instances, log offsets | `detect_instances`, `detect_pid`, `respawn_instance`, `upgrade` | directories and logs are read while the starter writes them | every process is found once, a dead starter is noticed |
| **Hot backup** `backup.py`, `runner.py:539-605` | backups on each dbserver and in the remote directory | create, list, upload, delete, download, restore | dbservers transfer and restart each at its own pace; logs tell of earlier restores | the data is checked when all are back, on copies that were remote |
| **Leader-follower** `leaderfollower.py` | two starters, replication | replicate, upgrade, check, fuzz | the upgrade command returns early; failures are only logged | the follower holds what the leader was meant to write; the new version is what is checked |
| **Cluster** `cluster.py` | three starters, what the driver knows of their servers, the frontends | start, rolling upgrade under load, jam, a starter without secret | process ids and frontends of the past; detection with tries | the frontends in use serve; old process ids abort nothing; the run ends |
| **Datacenter replication** `dc2dc.py`, `sync.py` | two clusters, their arangosyncs, the synchronisation | configure, upgrade with syncers killed by hand, poll, fuzz | kills race two rolling upgrades; exit codes nobody reads | a run that passes has a working synchronisation |
| **Process cleanup** `tools/killall.py` | the process list | kill by name | the list is a snapshot | no process of a test survives |
| Installers rpm, tar, nsis, mac, docker | packages of the platform | as `deb.py` | dialogues with the package manager | as `deb.py` |
| Selenium tests | a browser session | clicks, with retries | pages that load late | - |
| Benchmark client `bench.py`, performance driver `perf.py`, console helpers, test data in JavaScript, machine setup, containers, CI, attic | - | - | - | - |

How they interact. `test.py`, `upgrade.py` and `perf.py` make one `Runner` per
scenario and call `run()`, which calls the installer (packages, service), the
hooks of the scenario, and the starter managers. Hooks call
`run_script_monitored` for the scripts in `test_data`. The nightly job calls
`run_upgrade` of `upgrade.py`. `cleanup.py` is run by hand after a failure. The
runners of one invocation share the installer's configuration (copied by each
of them); invocations share `/tmp/config.yml` and the host.

## 2. Modules

| Module | Models | Proofs |
|---|---|---|
| `ScriptCall` | what callers of `run_script_monitored` rely on (abstract) | |
| `MonitoredShell` | `run_script_monitored` with its threads; implements `ScriptCall` | `MonitoredShellProofs` |
| `JobPool` | what the jam of the data stress relies on: a pool of jobs (abstract) | |
| `PerfPool` | the worker pool of the data stress; implements `JobPool` | `PerfPoolProofs` |
| `ActiveFailover` | the life of the active failover test next to its deployment | `ActiveFailoverProofs` |
| `TestRun` | invocations of `test.py` and `cleanup.py` on one host | `TestRunProofs` |
| `NightlyUpgrade` | the nightly job | `NightlyUpgradeProofs` |
| `UpgradeRun` | invocations of `upgrade.py` on one host, with the rpm, deb, tar or nsis installer | `ScenarioProofs` |
| `ClusterRun` | the life of the cluster test and of the perf cluster next to its starters | `ClusterRunProofs` |
| `Dc2Dc` | the life of the datacenter replication test next to two clusters | `Dc2DcProofs` |
| `LeaderFollower` | the life of the leader-follower test next to two servers | `ScenarioProofs` |
| `HotBackup` | the hot backup section of `Runner.run` on a cluster | `ScenarioProofs` |

`ScenarioProofs` holds the proofs of three modules. It extends all of them, and
they have not one variable or definition in common: those of `LeaderFollower`
and `HotBackup` that would clash are called `LFInit`, `HBInit`, `LFTypeOK` and so
on, and the program counter is `phase` in the one and `step` in the other.

The modules do not share variables: they meet at calls. `PerfPool` treats the
run of one job as a call that succeeds, fails or raises, which is what
`ScriptCall` promises and `MonitoredShell` is proved to keep; `ActiveFailover`
treats its scripts the same way. `TestRun` treats the life of a deployment
(`ActiveFailover`, `ClusterRun`, `LeaderFollower` and `Dc2Dc` are such lives) as
the pair `Deploy`, `ShutDown`, and so does `UpgradeRun`, with the rolling upgrade
as a third step; `NightlyUpgrade` treats an upgrade run (`UpgradeRun`) as one
step that passes or raises. `ClusterRun` leaves the data stress to `PerfPool`
(`DataStress`) and the hot backup to `HotBackup`, which in turn has the rolling
upgrade as one step.

### MonitoredShell

`WriteLine`, `SpawnDescendant`, `DescendantExits` and `ChildExits` are the
script, which may write on after its parent has died as long as somebody holds
the pipes. `ReadLine` and `ReadEnd` are `enqueue_stdout`/`enqueue_stderr`: a line
or, at end of file, a marker goes into the queue. The caller takes a line
(`GetLine`), a marker (`GetMarker`), or nothing for a second (`PollTimesOut`),
and goes on to `Kill`, `Wait` and `JoinAndReturn`; an exception of `result_line`
ends it at once (`CallbackFails`). One action per critical section: `queue.Queue`
is its own lock, and nothing else is shared. `PollTimesOut` may happen whenever
the queue is empty, because a second may pass between any two steps. A line is
its stream and number. The filter for lines starting with `#` is left out:
it looks at `str(bytes)`, which starts with `b'`. `closed` and the stream of a
marker are ghosts: the code only counts markers.

### PerfPool

`TakeJob`, `JobSucceeds`, `JobFails`, `JobRaises` and `NoMoreWork` are the
branches of `makedata_runner`; `StartWorker`, `AllStarted`, `CountMessage`,
`AllCounted` and `JoinWorkers` are `jam_attempt_impl`. All jobs are queued
before the first worker starts and nothing is added later, so an empty poll of
0.1 s means an empty queue. A message is only its kind; `CountMessage` counts
each of them, also the result of a job, as the code does. The choice of an
arangosh for a worker and the text files are left out. `ImplementsJobPool` maps
the two queues, the workers and the counting main thread to `JobPool`: `waiting`
is the set of jobs still in the queue, `lost` those of workers that failed, and
the pool is `over` when the main thread has joined the workers.

### ActiveFailover

One action per hook, or per iteration of a hook that polls. `flow` says what
the run was started to do. `server`, `leads`, `ledLog`, `followsLog`,
`toRestart` are the deployment: servers boot, elect a leader when there is none,
log what they are, and are restarted one at a time by the starters during an
upgrade. `known`, `isLeader`, `leader`, `firstLeader`, `newLeader` and
`followerNodes` are what the driver remembers, with the names of the source.
Leadership is learned in two ways that must not be confused: `detect_leader`
reads `arangod.log` (`ledLog`), which keeps a line of the past until
`terminate_instance` renames the log; `get_afo_state` and `probe_leader` ask the
server (`AnswersAsLeader`). `tcp_ping_all_nodes` does nothing, as in the code
(`check_version_request` compares the wrong way round and never asks). A
detection that gives up calls `sys.exit` or raises; here it keeps waiting, so
the runs without progress are runs in which the code would give up or wait for
ever. Two servers never lead at once: that is the environment's part.

### TestRun

A sequence of invocations, one at a time. `package`, `debug`, `config`,
`service`, `processes`, `residue` and `testDir` are the host; the other
variables are the invocation, which `StartTest` and `StartCleanup` begin
afresh. `MakeRunner` is `Runner.__init__` (the copy of `inst.cfg` and the removal
of old directories), `KillBeforeInstall` to `StopService` are `Runner.install`,
`PurgeDebugPackage` to `RemoveResidue` are `Runner.uninstall`, `KillAll` is the
end of the loop in `run_test`. `StopService` may leave the service running, which
`deb.py` does not notice when the command ends. `kill_all_processes` is two
steps, `ListProcesses` and the kill of what was listed (`KillListed`, in
`KillBeforeInstall`, `KillAll` and `StopEverything`), with `SpawnServer` in
between: a server that a starter launches after the list was taken survives
both. `processes` tells starters from servers and those of this scenario from
what an earlier one or a failed invocation has left; `cleanup.py` kills twice.
`Fail` ends an invocation at any point, also with its starters launched, or a
kill half done. A package is its edition: this is what `dpkg` tells apart when
versions agree.
The scenarios are those of `--starter-mode all` without DC2DC, which needs a
second set of hosts. The directory of a scenario is a flag.

### NightlyUpgrade

One action per file operation of the job: reading the state, fetching the two
source infos, the decision to leave, opening a package for download (which
truncates it), finishing it, the upgrade test, and for each state file opening
it, which truncates it as well, and writing it. `Die` ends the job anywhere.
`Publish` replaces a build on the
server. The packages of one line and edition are one package.

### UpgradeRun

A sequence of invocations of `run_upgrade`. `there`, `debug`, `service`,
`residue` and `deployment` are the host: the versions whose files are installed,
the version of the debug package, what the service and the starters' servers run.
`cfgDir` and `newCfgDir` are the two configurations of the runner, each pointing
to the paths of a version; what a starter gets from there is `Binaries`: rpm and
deb share the paths (`InPlace`), so it is whatever is installed, tar and nsis
have a directory per version. There is one action per installer where they
differ (`InstallRPM`, `UpgradeDeb`, ...) and one where they do not. `rpm -i`
refuses what is installed already, so after a failed run the next ones raise
until somebody cleans up. `UpgradeDeb` always raises: the comparison with an
unbound variable at `deb.py:103` is the first thing that happens while dpkg
runs. `SetDirectories` includes `un_install_package_for_upgrade`, which no
installer fills. An uninstallation may fail without anybody hearing of it
(`FailsUnnoticed`): `rpm -e` and `Uninstall.exe` have exit codes nobody reads, and
a missing `Uninstall.exe` is passed over. `survived` is history: which
uninstallations of the scenario did. `Fail` ends an invocation anywhere.

### ClusterRun

`starter`, `up`, `toRestart`, `stranger` and `bench` are the deployment;
`known` is `all_instances` of each starter, `stale` says which process ids in it
are of processes that have ended, `frontends` is `basecfg.frontends`. Loops over
the starters take one node at a time (`at`). `DetectRound` is one round of
`detect_instances`, with its tries and the early acceptance of a set that has a
frontend; both the setup and the jam use it. `StillAlive` is
`detect_instance_pids_still_alive`. `StarterDies` makes a starter end while the
driver waits: for the one it waits for, the process exits (`starter gone`); one
nobody waited for stays a zombie that counts as running. The third starter is
terminated, respawned and detected anew, and never flagged a leader again.

### LeaderFollower

The leader's operations are numbered; `saved` are the two sentinel documents
that were really stored, `applied` is the prefix on the follower. `CheckSentinel`
is the polling of `test_setup_impl` with its one try before and after. The
upgrade of a single server goes on after the command that asked for it has ended
(`StopForUpgrade`, `StartNew`, `LogDone`), which is why the driver waits for a log
line and for the end of the process it knows (`WaitForDone`, `WaitForShutdown`).

### HotBackup

One action per command of the driver and one per step of a dbserver
(`TransferEnds`, `Restart`, `ComeBack`), so that they differ in pace and outcome.
`PollTransfer` is `upload_status`, which takes the first COMPLETED or FAILED it
reads. `CreateNonBackupData` may fail and the section goes on: the prompt after a
failed creation has "continue" for its default, and `runner.py` ignores the
answer. `log` holds what a dbserver's log tells of starts and restores by process:
a restore executes the server anew under the same id, an upgrade starts a new
process in the same log. `WaitForRestore` reads it as `detect_restore_restart`
does, from the first line of the last process on, and `GiveUpWaiting` is
`detect_pid`, which exits when its tries are used up.

### Dc2Dc

What is written to the first cluster is counted (password, data, fuzzing data);
the second has a prefix. `syncers` says whose children the arangosyncs of a
cluster are. The starter launches them after its servers (`LaunchSyncers`), and
`Detect` may be early: when the tries of `detect_instances` are used up it accepts
any set that has a frontend, and the cluster is `missed`. `GetSyncMasterPort` waits
for the syncers all the same, but those that were missed are never added to what
the driver knows. `ReplaceBinary` kills the starter and makes them orphans,
`KillSyncProcesses` ends those that are known, `RespawnSyncers` is the new starter. `DetectAgain`
accepts none but the starter's children, as `SyncInstance.detect_pid` does, and
raises otherwise. `UpgradeServers` may break the synchronisation. `CheckSync`
is the set of answers `check_sync` may give: an arangosync older than 1.0.0 is
not asked.

## 3. Runs

| Run | Checks | Shows |
|---|---|---|
| `shell_run` | `TypeOK`, `SuccessIsComplete`, `CallReturnsOrHeld`, `ImplementsScriptCall` | with timeouts, descendants and raising callbacks, the answer is complete on success; the call implements `ScriptCall`, and returns unless a descendant holds the pipes for ever |
| `perf_run` | `TypeOK`, `NoDatabaseTwice`, `SomebodyWillSpeak`, `ImplementsJobPool`, `StressEnds` | the pool is right although it counts results as ends of threads: it implements `JobPool`, never waits for a message nobody will put, and ends unless a worker raised |
| `afo_run` | `TypeOK`, `JamKillsLeader`, `SuccessIsFailover`, `FlaggedHaveFrontend`, `OldLeaderMustFollow`, `RunEnds` | all four flows (hot backup or not, upgrade or not) in one run: the initial state chooses |
| `afo_stalelog` | `FailoverHappened` (violated) | after a rolling upgrade an old line is taken for a failover |
| `nightly_quiet` | `TypeOK`, `RecordedWasTested`, `TestsWhatItFetched` | crashes anywhere, also in the middle of a write, never make the job remember what was not tested, nor test a truncated package |
| `nightly_skip` | `SkipsOnlyTested` (violated) | "we already tested this version" is said when both are new |
| `testrun_history` | `TypeOK`, `AllRunUninstalls`, `AllRunDeploysAlone`, `NothingLeftRunning`, `CleanupFindsPackage` | any history of invocations of both editions, any modes, failing anywhere, with starters that spawn servers while they are being killed |
| `upgrade_run` | `TypeOK`, `UpgradesOldToNew`, `LeavesAtMostOld` | any history of upgrade runs failing anywhere, with each of four installers: the deployment runs the old version before and the new one after the upgrade; an invocation that ends leaves more than the old version only if both uninstallations of the package failed |
| `cluster_run` | `TypeOK`, `FrontendsServe`, `NeverMissing`, `RunEnds` | cluster runs with and without upgrade and load, local and remote perf runs: the frontends that are used serve, process ids that the rolling upgrade made old abort nothing, the run ends |
| `lf_run` | `LFTypeOK`, `UpgradedWhenChecked`, `PassedMeansReplicated` | what is checked after the upgrade is the new version; what passes has been seen on the follower |
| `hb_run` | `HBTypeOK`, `RestoreAwaited`, `RestoreIsTested`, `RunEnds` | three dbservers at three paces, before and after the upgrade: what the log tells of a restore is true, the check comes after every restart, on copies that went through the remote directory, whether or not there was data for the restore to remove; the section ends |
| `dc2dc_run` | `TypeOK`, `PassedMeansReplicated`, `SyncersIdentified` | a broken synchronisation never passes; killing the syncers by hand confuses the second detection only if the first one did without some of them |

`afo_run` and `perf_run` do not check for deadlock: the driver may poll for
ever for a follower that leads, and the main thread may wait for ever for a
message of a worker that raised. Both are what `RunEnds` and `StressEnds`
except, and no more. `MonitoredShell` and `ActiveFailover` have an action
`Finished`, as the four scenarios and `HotBackup` have, `PerfPool` an action
`Returned`, that stutters when the call or run is over.

### Bounds

- `MonitoredShell`: `MaxLines` = 2 lines per stream, so a line can be missing
  before, between and after others and two streams interleave; `Timeout` = 2, so
  that the counter is reset halfway. The liveness properties are about scripts
  with finitely many lines of output: a script that never stops writing is
  never killed, by design of the dynamic timeout. The theorems have no bound.
- `PerfPool`: four chunks for three workers, so that some worker gets two and
  the result messages outnumber the workers while jobs are still queued.
- `ActiveFailover`: three nodes, the number `starter_prepare_env_impl` makes. A
  second follower is needed for a leader that is neither the old one nor the
  first one asked. There are no counters.
- `NightlyUpgrade`: `MaxBuild` = 3 builds of a line: remembered, tested, and
  published meanwhile.
- `TestRun`: two scenarios, one that installs and one that uninstalls (with one,
  both are the same; a third would only be in between: it neither installs nor
  uninstalls); two editions; one process of a kind stands for all of them. The
  number of invocations is not bounded.
- `UpgradeRun`: three scenarios, what `upgrade.py` runs for the community
  edition, each of which starts from what the one before it left. The number of
  invocations is not bounded.
- `ClusterRun`: three starters, the number the code makes, of which the jam names
  the third and the upgrade the second; the three kinds of deployment in one run.
  Two tries of a detection (ten in the code) and one poll of the starter without
  secret (40): with two and one each, a counter has a first, a last and an
  exceeded value, and nothing else depends on it.
- `LeaderFollower`: two data operations, so that the follower may have part of
  the data, and three tries.
- `HotBackup`: three dbservers, so that one can be done, one at work and one
  failed at the same time; two cycles, as in the code.
- `Dc2Dc`: `MaxPolls` = 20, the number of the code.

### Fairness

- `MonitoredShell`, `PerfPool`: weak fairness of each thread, since the
  interpreter and the operating system schedule all runnable threads. Nothing is
  assumed of the script or its descendants: it may hang, which is what the
  timeout is for. In `PerfPool` the end of a job is fair, since it is a call of
  `run_script_monitored`, which ends for a silent script (`CallReturnsOrHeld`).
- `ActiveFailover`: weak fairness of the driver, one sequential program that
  never blocks but in its polls, and of the deployment's boot, election, report
  of a follower and rolling restart. A deployment that lacks these is broken,
  and to find that out is the purpose of the test, not a fault of it.
- `ClusterRun`: weak fairness of the driver, of the end of an arangobench, which
  has a fixed load, and of the first server of a starter that runs, without which
  `is_instance_up` polls for ever. The other servers and the starter without
  secret may hang: for those the driver counts. `RunEnds` excepts runs in which a
  starter has died, since one nobody has waited for counts as running.
- `HotBackup`: weak fairness of the driver and of each dbserver's work: the driver
  polls both without a limit.
- `TestRun`, `UpgradeRun`, `NightlyUpgrade`: none, no liveness is claimed: an
  operator starts the invocations. `LeaderFollower`, `Dc2Dc`: none, their polls
  are bounded or wait for servers only.

## 4. What is proved

All theorems hold for every value of the constants that the named assumptions
allow: any number of lines and any timeout, of chunks, workers and databases,
of nodes (two at least, three starters of a cluster), of scenarios, of builds, of
tries and polls, of dbservers. Each proof shows an invariant (`IInv`, `LFInv`, `HBInv`) that
is implied by `Init` and preserved by every step, one lemma per actor and one
step per action.

- `MonitoredShellProofs`. `SuccessIsComplete` alone is not inductive: it says
  nothing until the call returns. The strengthening says where each line is at
  each moment: what a reader has fetched is in queue or result, in order and
  without a gap; a marker is in the queue or counted exactly if its reader has
  ended; a reader ends only when nobody can write any more. From two counted
  markers it follows that both streams are closed and everything written is
  collected. Theorems: `TypeCorrect`, `NoLineLost`, `SuccessfulCallIsComplete`,
  `AnswerIsGapless`, and `Implementation`: every step is a step of `ScriptCall`
  or invisible to it.
- `PerfPoolProofs`. The strengthening partitions the jobs into queued, running
  (by exactly one worker), succeeded and failed, says that databases of
  different jobs are disjoint intervals, and counts: the announcements of workers
  that have ended are in the queue or among the messages counted
  (`AllAnnounced`). The code counts results too, so the count may be reached
  early, never late. Theorems: `TypeCorrect`, `DatabasesCreatedOnce`,
  `NobodyWaitsInVain` (`SomebodyWillSpeak`), and `PoolImplemented`, the
  refinement of `JobPool`: that the jam returns only when nobody works any more
  follows from the join and not from the count.
- `ActiveFailoverProofs`. The strengthening follows what the driver knows from
  phase to phase: which starters have a detected frontend (`Frontends`), that the
  new leader is one of the followers and the old one is not (`Cast`), that no
  restart is outstanding outside the upgrade (`Calm`), and that a question
  answered with yes stays answered (`Leadership`, `Witnessed`): a server that
  leads goes on leading until the driver stops, restores or upgrades it.
  Without an upgrade, moreover, the logs are honest (`HonestLogs`): only the
  server that leads has a leadership line in its log, since the jam renames the
  log of the one it stops (during a restore the first leader may have one too).
  This gives `OldLeaderFollows`; with an upgrade the logs are not honest, which
  is what `afo_stalelog` shows. Theorems: `TypeCorrect`,
  `LeaderIsKilled`, `SuccessIsTrue`, `FrontendsExist`, `OldLeaderFollows`.
- `TestRunProofs`. None of the properties is inductive: each looks at one moment
  of an invocation and depends on what earlier runners, or earlier invocations,
  have done. The strengthening says that config.yml tells of the installed
  edition unless the write is outstanding or was lost (`Recorded`), which
  processes there may be after the first kill and after the second (`Alone`), that
  the knowledge of the debug package has reached `inst.cfg` and the current runner
  (`DebugKnown`), and what is gone by
  which step of the uninstallation (`Uninstalled`). One kill is not enough to
  leave nothing, since servers spawned after its list was taken survive; but it
  ends every starter, so that whatever is there at the second kill is either of
  the scenario in between, whose list is taken when its own deployment has been
  shut down, or such a server, and cannot spawn: the second list is complete.
  Theorems: `TypeCorrect`, `AllRunsUninstall`, `AllRunsDeployAlone`,
  `NothingRunsAfterwards`, `CleanupCleans`.
- `NightlyUpgradeProofs`. What is remembered is written long after it was
  tested, and the packages lie in a directory that crashes may leave in any
  state. The strengthening says that the source info and the version state in
  memory are those of server and directory (`FreshInfo`, `ContentRead`), that the
  packages of a remembered build stay complete until there is a newer one
  (`PackagesKept`: this is why a crash during a download does no harm, the next
  run sees the line changed and fetches again), and what the rounds so far have
  fetched and passed (`RoundFetched`, `RoundsPassed`). `TypeCorrect` is
  unconditional. The others assume `PublishDuringRun = FALSE`: without it
  `RecordedWasTested` is false (`full_download_upgrade_test.py:73` below).
  `MemoryAdvances` says what may happen to a file of the version state: only a
  run that has tested the build now offered in both editions touches it, and what
  it writes is at least as new as whatever any run has tested
  (`TestedWasOffered`). It does not say that the memory never goes back: opening
  a file truncates it, and a job that dies then has forgotten the build.
- `ScenarioProofs`, `UpgradeRun`. The properties look at single moments. The strengthening
  follows the files and configurations through the run (`FilesMatch`: which
  versions must be there at which step, and where both configurations point),
  the knowledge of the debug package (`DebugKnown`), and what the first and the
  second uninstallation have removed unless they failed (`Removed`). Theorems:
  `TypeCorrect`, `UpgradeIsOldToNew`, `AtMostOldIsLeft`.
- `ScenarioProofs`, `LeaderFollower`. Not even the types are inductive: that the
  follower holds nothing that was not written depends on how much has been written
  in which phase (`WrittenByPhase`). `CheckedIsUpgraded` needs to know what the
  line "Upgrading done." means, which is written while the old server still runs
  (`UpgradeLogged`): once it is there the server is stopped or is the new one,
  and the driver has seen the line of the leader before it looks for the
  follower's. `PassedIsOnFollower` needs the documents the polling has seen
  (`DocumentsSeen`). Theorems: `LFTypeCorrect`, `CheckedIsUpgraded`,
  `PassedIsOnFollower`.
- `ScenarioProofs`, `HotBackup`. The log is a sequence that grows over two
  processes and, for each, restarts; `detect_restore_restart` reads it from the
  first line of the last process. The strengthening says that the last line is of
  the process that runs (`LogsByProcess`), that a dbserver which has yet to
  restart shows nothing that could be taken for its restart (`RestoreInLog`) and
  one that has come back shows it (`ReturnInLog`), and that a copy which is there
  after the deletion is a downloaded one (`CopiesAreRemote`). Theorems:
  `HBTypeCorrect`, `AllCameBack`, `RestoreTestsTransfer`.
- `ClusterRunProofs`. `NeverMissing` needs that no process id is old before the
  upgrade (`NothingStale`) and that what is known is up while nothing is being
  restarted (`KnownUp`, `RestartsDone`); `FrontendsServe` needs in addition that
  every frontend is of a coordinator that is known (`FrontendsKnown`). Theorems:
  `TypeCorrect`, `FrontendsAreUp`, `NoneIsMissing`.
- `Dc2DcProofs`. Two invariants in turn. `SyncInv` follows whose syncers are
  known, missed or orphans and gives `SyncersAreIdentified`: the second
  detection meets orphans of no cluster but those of which the first one has
  missed the syncers. `LinkInv` says that no server is upgraded, hence no
  synchronisation broken, once the checks have begun (`ServersSettle`), and what
  the fuzzing test's success implies (`FuzzedLast`): it is this test, and not the
  polling, that makes `PassedIsReplicated` true when arangosync is too old to be
  asked.

### Termination without fairness

TLAPS has no fairness and no ENABLED, so the five liveness properties
(`CallReturnsOrHeld`, `StressEnds`, the three `RunEnds`) are only model-checked.
What they rest on apart from fairness is proved, for every value of the
constants, as two theorems each.

One says that nobody waits for what will not come: until the end, or the
exception the property makes, one of the actions that the fairness is about can
be taken. Their guards are written out as state predicates. The other says that
every step decreases a measure in the naturals, lexicographic where the amount of
work of one kind is reset by progress of another. A behaviour that satisfies both
and is fair to these actions ends.

| Module | Nobody waits in vain | Every step counts | Measure |
|---|---|---|---|
| `MonitoredShell` | `OnlyHeldBlocks` | `CallShrinks` | lines and markers still to be read or collected, then empty polls and the steps to the return; the script's steps leave both alone |
| `PerfPool` | `NobodyWaitsInVain` | `EveryStepCounts` | jobs, workers and messages, weighted: `3 * Chunks + 3 * Parallelity + 3` steps at most |
| `ActiveFailover` | `SomebodyActs` | `RunShrinks` | phases (the upgrade leads back once), starters of a loop, then the deployment's boots, elections, reports and restarts |
| `ClusterRun` | `SomebodyActs` | `RunShrinks` | phases, starter of a loop, tries, polls, then the deployment's tasks |
| `HotBackup` | `SomebodyActs` | `SectionShrinks` | commands and loop of both cycles, then transfers and restarts |

This needs invariants of its own. `OnlyHeldBlocks` needs that `process.wait()`
is only called on a child that has ended (`WaitReturns`): killed after the
timeout, or gone because both pipes have reached their end. In `ActiveFailover`
it needs that a server which leads has logged it (`LeaderLogged`), that all but
the first leader are polled (`OthersFollow`), and that a poll which finds nothing
changes nothing (`OneFlag`); in `ClusterRun` that the starters waited for were
started (`StartersRun`); in `HotBackup` that what was started has a status
(`TransfersStarted`).

Every invariant that a run checks is also a theorem, and so are both
refinements; apart from fairness nothing is left to TLC alone.

## 5. Findings

1. `afo_stalelog` (`manager.py:731`): a leadership line from before a rolling
   upgrade is reported as the failover.
2. `nightly_skip` (`full_download_upgrade_test.py:57`): the job leaves exactly
   when both versions are new.

Seen while modelling and part of the actions, without a run of their own:

- `sh.py:225`: after the timeout the call waits without a limit for readers whose
  pipes a descendant of the script holds; `CallReturnsOrHeld` excepts exactly this.
- `cluster_perf.py:266`: a worker that raises sends no message, and the main
  thread waits for it for ever; `StressEnds` excepts exactly this.
- `activefailover.py:139`: the leader is looked up after a restore,
  `makedata_instances` is not, so a run with a new leader ends with "no frontend
  found."
- `full_download_upgrade_test.py:73`: the last fetched source info is remembered,
  not the tested one; a build published during a run is remembered untested
  (`PublishDuringRun = TRUE`). The file is truncated before it is written, so a
  job that dies in between leaves an empty one; the next run tests again.
- `sh.py:339`: `ask_continue_or_exit` has "continue" for its default, so without
  a terminal a failed creation of the data that a restore should remove is passed
  over (`runner.py:135` and `runner.py:160` ignore the answer): the check after the
  restore then shows nothing about it. `RestoreIsTested` claims no more than that
  the copies are remote ones.
- `killall.py:45`: the processes are listed once, then killed; what a starter
  spawns in between survives. An invocation that kills twice and
  comes to its end leaves nothing (`NothingLeftRunning`); `--mode tests` and `--mode uninstall` of one scenario
  kill once.
- `deb.py:85`: a `service arangodb3 stop` that ends without effect is not noticed, and the
  service keeps the ports of the deployment that comes next.
- `manager.py:125` and `manager.py:648`: the expected number of instances is reset
  to one, so the detection of a starter with many is no more patient than of one
  with few, and after ten tries a set with a frontend is enough. The arangosyncs
  that are missing then are not killed by hand during the upgrade, and the
  detection after it raises at orphans; `SyncersIdentified` excepts exactly this.
- `runner.py:316`: `--mode uninstall` does not know of the debug package that
  `--mode install` installed.
- `runner.py:93`: the system service's frontend makes a deployment look remote,
  and its directory is not removed before the next run.
- `runner.py:221`: `run()` ends in `self.selenium.disconnect()`, and without a
  webdriver this raises (`DisconnectSelenium`), so that an invocation with several
  scenarios stops after the first.
- `instance.py:192`: `check_version_request` never asks a server.
- `deb.py:103`: the upgrade of a deb package always raises; `mac.py:71`: the
  installation of a mac package does.
- `base.py:239`: no installer fills `un_install_package_for_upgrade`, so the old
  version of a tar or nsis package stays; `rpm.py:251` and `upgrade.py:112`:
  neither the exit code of `rpm -e` nor the answer of `check_uninstall_cleanup` is
  looked at, and `nsis.py:133` and `nsis.py:143` pass over an uninstaller that is
  missing or fails. The second uninstallation makes up for it unless it fails too
  (`LeavesAtMostOld`).
- `sync.py:49`: `replace_binary_for_upgrade` sets a member nobody reads, so the
  old arangosync goes on being used; `dc2dc.py:189` and `dc2dc.py:241`: the first
  check's answer and the exit codes after the upgrade are ignored. The fuzzing
  test catches what they would have told.
- `leaderfollower.py:137`: both sentinels are on the follower long before an
  upgrade, so a replication that the upgrade breaks is noticed by the fuzzing
  test alone; and they are older than the data, so the follower's data is checked
  without any patience.
- `backup.py:188`: a transfer counts as done when the first dbserver is; the
  restore command refuses what is incomplete.
- `manager.py:386`: the starter object of a remote perf deployment holds no
  process, so its shutdown raises after the data stress has passed.
- `cluster.py:145`: the respawned starter is never flagged a leader again, so its
  coordinator does not get back into the list of frontends.

## 6. Not modelled, and why

Process exit codes (the codes are constants on all paths that were read), prompts
and console output, the text of log lines (only whether a line is there), the
browser tests, the JavaScript test data (a script succeeds, fails, hangs, or
leaves processes), the drivers that only parse a command line, machine setup and
containers (straight-line scripts), the attic.

- `ArangodInstance.detect_pid` is a search over command lines and log positions
  that either goes on or finds the process; its matching is data to the models.
- `killall.py` is two steps in `TestRun` only; in `UpgradeRun` it is one.
- The pids that `respawn_instance` has just detected are taken for those of living
  processes: the still-alive check of the third starter of the cluster does not
  exit there.
- `run_command`, `run_script` and `js_version_check` of `sh.py` wait for a process
  without threads; `run_testing` is `run_script_monitored` without its callback.
- The mac and docker installers (one always raises, the other does nothing), and
  `test.py` with an installer other than deb.
- Hot backup on the datacenter replication: its hooks are empty, so it is
  `HotBackup` on the first cluster. `dc2dc_endurance` cannot be constructed.
- `--starter-mode none` of `upgrade.py`, which makes no runner.

## 7. Plan

Done: the core (`MonitoredShell`, `PerfPool`, `ActiveFailover`, `TestRun`,
`NightlyUpgrade`), the four scenarios, the upgrade flow and the hot backup, proofs
of every invariant, two refinements, and termination but for fairness. What
would come next, most useful first:

1. `InstanceDetection`: `detect_instances` and `detect_pid` against a starter that
   writes directories and logs meanwhile, as an implementation of `DetectRound`.
2. An abstract deployment that all four scenarios implement, so that
   `UpgradeRun` can be composed with them.
3. `TestRun` with the installers of `UpgradeRun`, and the list of `killall.py` in
   `UpgradeRun`.
4. For `NightlyUpgrade`, what still holds of the memory when builds are published
   during a run.
