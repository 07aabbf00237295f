------------------------------- MODULE TestRun -------------------------------
(***************************************************************************)
(* test.py and cleanup.py on one host: a sequence of invocations, one at a *)
(* time, each of which may fail at any step.  What one leaves behind (the  *)
(* packages, /tmp/config.yml, the system service, processes, directories)  *)
(* the next one starts from; what the runner of one scenario learns, the   *)
(* next one gets through the installer's configuration inst.cfg, which     *)
(* every Runner copies when it is made.  tools/killall.py ends the         *)
(* processes of a list it takes before: what a starter spawns in between   *)
(* is not in the list and survives the starter.                            *)
(*                                                                         *)
(* The scenarios are those of `--starter-mode all` without DC2DC; the life *)
(* of a deployment (see ActiveFailover for one) is the pair of actions     *)
(* Deploy and ShutDown.  The packages are those of the deb installer, that *)
(* is what dpkg does to the host.                                          *)
(***************************************************************************)
EXTENDS Naturals

CONSTANTS
    NumScenarios, \* len(starter_mode)
    Modes,        \* the values of --mode that are used
    MayFail       \* may an operation fail that could succeed?

ASSUME NumScenariosAssumption == NumScenarios \in Nat \ {0}
ASSUME FailureAssumption == MayFail \in BOOLEAN
ASSUME ModesAssumption == Modes \subseteq {"all", "install", "system", "tests", "uninstall"}

Scenarios == 1..NumScenarios
Editions == {"community", "enterprise"}
None == "none"

(* The starters and the servers they spawned: those of the scenario that   *)
(* runs, those an earlier one or a failed invocation left, and a server    *)
(* that has been spawned since the list was taken.                         *)
Starters == {"starter", "left starter"}
Servers == {"server", "left server", "late server"}
Left(ps) == {"left starter" : p \in ps \cap Starters}
            \cup {"left server" : p \in ps \cap Servers}

VARIABLES
    \* the host
    package,    \* edition of the server package that is installed, or None
    debug,      \* edition of the debug package, or None
    config,     \* edition /tmp/config.yml tells of, None without the file
    service,    \* does the system's arangod run?
    processes,  \* the processes of starter deployments that run
    residue,    \* do the package's log, database, app or config directories exist?
    testDir,    \* testDir[s]: does the directory of scenario s exist?
    \* the invocation
    pc,
    listing,    \* has the kill_all_processes that goes on taken its list?
    mode,       \* --mode, or "cleanup" for cleanup.py
    selenium,   \* is a webdriver given with --selenium?
    edition,    \* inst.cfg.enterprise
    scenario,   \* count
    instDebug,  \* inst.cfg.have_debug_package
    frontends,  \* is inst.cfg.frontends filled?
    runDebug,   \* the runner's copy of have_debug_package
    lostConfig  \* history: did an invocation end between installing and saving?

hostVars == <<package, debug, config, service, processes, residue, testDir>>
instVars == <<mode, selenium, edition, instDebug, frontends>>
vars == <<hostVars, pc, listing, instVars, scenario, runDebug, lostConfig>>

TypeOK ==
    /\ {package, debug, config} \subseteq Editions \cup {None}
    /\ {service, residue} \subseteq BOOLEAN
    /\ processes \subseteq Starters \cup Servers
    /\ testDir \in [Scenarios -> BOOLEAN]
    /\ pc \in {"idle", "make runner", "kill", "install", "save", "bind",
               "install debug", "restart", "stop service", "deploy", "deployed",
               "purge debug", "purge", "remove residue", "disconnect", "kill all",
               "done", "raised", "stop", "stop again", "clean dirs", "cleaned"}
    /\ mode \in Modes \cup {"cleanup"}
    /\ edition \in Editions \cup {None}
    /\ scenario \in Scenarios
    /\ {listing, selenium, instDebug, frontends, runDebug, lostConfig}
         \subseteq BOOLEAN

Init ==
    /\ package = None /\ debug = None /\ config = None
    /\ service = FALSE /\ processes = {} /\ residue = FALSE
    /\ testDir = [s \in Scenarios |-> FALSE]
    /\ pc = "idle" /\ listing = FALSE
    /\ mode = "cleanup"
    /\ selenium = FALSE
    /\ edition = None
    /\ scenario = 1
    /\ instDebug = FALSE /\ frontends = FALSE /\ runDebug = FALSE
    /\ lostConfig = FALSE

NotRunning == pc \in {"idle", "done", "raised", "cleaned"}

DoInstall == scenario = 1 /\ mode \in {"all", "install"}
DoSystemTest == mode \in {"all", "system"}
DoStarterTest == mode \in {"all", "tests"}
DoUninstall == scenario = NumScenarios /\ mode \in {"all", "uninstall"}

(* Where run() goes on after the installation, and after the tests. *)
AfterTests == IF ~DoUninstall THEN "disconnect"
              ELSE IF runDebug' THEN "purge debug" ELSE "purge"
AfterInstall == IF DoStarterTest THEN "deploy" ELSE AfterTests

-----------------------------------------------------------------------------
(* kill_all_processes *)

(* get_all_processes: process_iter over everything that runs now. *)
ListProcesses ==
    /\ pc \in {"kill", "kill all", "stop", "stop again"}
    /\ ~listing
    /\ listing' = TRUE
    /\ processes' = Left(processes)
    /\ UNCHANGED <<package, debug, config, service, residue, testDir, pc,
                   instVars, scenario, runDebug, lostConfig>>

(* A starter launches its servers, or one of them again, until it is       *)
(* killed itself.                                                          *)
SpawnServer ==
    /\ listing
    /\ processes \cap Starters # {}
    /\ processes' = processes \cup {"late server"}
    /\ UNCHANGED <<package, debug, config, service, residue, testDir, pc,
                   listing, instVars, scenario, runDebug, lostConfig>>

(* The starters first, then the servers; it goes by name, so that the      *)
(* system's arangod dies too.                                              *)
KillListed ==
    /\ listing
    /\ listing' = FALSE
    /\ processes' = processes \cap {"late server"}
    /\ service' = FALSE

-----------------------------------------------------------------------------
(* run_test of test.py *)

StartTest(m, e, driver) ==
    /\ NotRunning
    /\ mode' = m
    /\ selenium' = driver
    /\ edition' = e
    /\ scenario' = 1
    /\ instDebug' = FALSE
    /\ frontends' = FALSE
    /\ runDebug' = FALSE
    /\ pc' = "make runner"
    /\ processes' = Left(processes)
    /\ UNCHANGED <<package, debug, config, service, residue, testDir, listing,
                   lostConfig>>

(* Mutant: every runner is made from the configuration test.py began with. *)
MutantMakeRunner ==
    /\ pc = "make runner"
    /\ runDebug' = FALSE
    /\ testDir' = IF frontends THEN testDir ELSE [testDir EXCEPT ![scenario] = FALSE]
    /\ pc' = IF DoInstall \/ DoSystemTest THEN "kill" ELSE AfterInstall
    /\ UNCHANGED <<package, debug, config, service, processes, residue,
                   listing, instVars, scenario, lostConfig>>

(* Runner.__init__ copies inst.cfg; one with frontends is taken for that   *)
(* of a remote deployment, which has no directory to clean up.             *)
MakeRunner ==
    /\ pc = "make runner"
    /\ runDebug' = instDebug
    /\ testDir' = IF frontends THEN testDir ELSE [testDir EXCEPT ![scenario] = FALSE]
    /\ pc' = IF DoInstall \/ DoSystemTest THEN "kill" ELSE AfterInstall
    /\ UNCHANGED <<package, debug, config, service, processes, residue,
                   listing, instVars, scenario, lostConfig>>

-----------------------------------------------------------------------------
(* Runner.install *)

(* Mutant: the processes of earlier invocations are left alone. *)
MutantKillBeforeInstall ==
    /\ pc = "kill"
    /\ ~listing
    /\ pc' = IF DoInstall THEN "install" ELSE "restart"
    /\ UNCHANGED <<hostVars, listing, instVars, scenario, runDebug,
                   lostConfig>>

KillBeforeInstall ==
    /\ pc = "kill"
    /\ KillListed
    /\ pc' = IF DoInstall THEN "install" ELSE "restart"
    /\ UNCHANGED <<package, debug, config, residue, testDir, instVars,
                   scenario, runDebug, lostConfig>>

(* dpkg -i starts the service; the two editions conflict. *)
InstallPackage ==
    /\ pc = "install"
    /\ package \in {None, edition}
    /\ package' = edition
    /\ service' = TRUE
    /\ residue' = TRUE
    /\ pc' = "save"
    /\ UNCHANGED <<debug, config, processes, testDir, listing, instVars,
                   scenario, runDebug, lostConfig>>

(* Mutant: a configuration that is there is kept. *)
MutantSaveConfig ==
    /\ pc = "save"
    /\ config' = IF config = None THEN edition ELSE config
    /\ pc' = "bind"
    /\ UNCHANGED <<package, debug, service, processes, residue, testDir,
                   listing, instVars, scenario, runDebug, lostConfig>>

SaveConfig ==
    /\ pc = "save"
    /\ config' = edition
    /\ pc' = "bind"
    /\ UNCHANGED <<package, debug, service, processes, residue, testDir,
                   listing, instVars, scenario, runDebug, lostConfig>>

(* The service is stopped, bound to all interfaces and started again; the  *)
(* installer's configuration gets the service's frontend.                  *)
BroadcastBind ==
    /\ pc = "bind"
    /\ frontends' = TRUE
    /\ service' = TRUE
    /\ pc' = "install debug"
    /\ UNCHANGED <<package, debug, config, processes, residue, testDir,
                   listing, mode, selenium, edition, instDebug, scenario,
                   runDebug, lostConfig>>

InstallDebugPackage ==
    /\ pc = "install debug"
    /\ debug' = edition
    /\ instDebug' = TRUE
    /\ runDebug' = TRUE
    /\ pc' = "restart"
    /\ UNCHANGED <<package, config, service, processes, residue, testDir,
                   listing, mode, selenium, edition, frontends, scenario,
                   lostConfig>>

RestartService ==
    /\ pc = "restart"
    /\ package # None
    /\ service' = TRUE
    /\ residue' = TRUE
    /\ runDebug' = runDebug
    /\ pc' = IF DoSystemTest THEN "stop service" ELSE AfterInstall
    /\ UNCHANGED <<package, debug, config, processes, testDir, listing,
                   instVars, scenario, lostConfig>>

(* "stop system service to make ports available for starter": the exit     *)
(* status of a stop that has ended is not looked at.                       *)
StopService ==
    /\ pc = "stop service"
    /\ service' = FALSE \/ (MayFail /\ UNCHANGED service)
    /\ runDebug' = runDebug
    /\ pc' = AfterInstall
    /\ UNCHANGED <<package, debug, config, processes, residue, testDir,
                   listing, instVars, scenario, lostConfig>>

-----------------------------------------------------------------------------
(* Runner.run, from starter_prepare_env to starter_shutdown *)

Deploy ==
    /\ pc = "deploy"
    /\ package # None
    /\ processes' = processes \cup {"starter", "server"}
    /\ testDir' = [testDir EXCEPT ![scenario] = TRUE]
    /\ pc' = "deployed"
    /\ UNCHANGED <<package, debug, config, service, residue, listing, instVars,
                   scenario, runDebug, lostConfig>>

ShutDown ==
    /\ pc = "deployed"
    /\ processes' = processes \ {"starter", "server"}
    /\ runDebug' = runDebug
    /\ pc' = AfterTests
    /\ UNCHANGED <<package, debug, config, service, residue, testDir, listing,
                   instVars, scenario, lostConfig>>

-----------------------------------------------------------------------------
(* Runner.uninstall, and the same calls at the end of cleanup.py.  dpkg    *)
(* says "which isn't installed" of a package of the other edition.         *)

PurgeDebugPackage ==
    /\ pc = "purge debug"
    /\ debug' = IF debug = edition THEN None ELSE debug
    /\ pc' = "purge"
    /\ UNCHANGED <<package, config, service, processes, residue, testDir,
                   listing, instVars, scenario, runDebug, lostConfig>>

PurgePackage ==
    /\ pc = "purge"
    /\ IF package = edition THEN package' = None /\ service' = FALSE
                            ELSE UNCHANGED <<package, service>>
    /\ pc' = "remove residue"
    /\ UNCHANGED <<debug, config, processes, residue, testDir, listing,
                   instVars, scenario, runDebug, lostConfig>>

(* cleanup_system *)
RemoveResidue ==
    /\ pc = "remove residue"
    /\ residue' = FALSE
    /\ pc' = IF mode = "cleanup" THEN "cleaned" ELSE "disconnect"
    /\ UNCHANGED <<package, debug, config, service, processes, testDir,
                   listing, instVars, scenario, runDebug, lostConfig>>

-----------------------------------------------------------------------------
(* The end of run(), and of the loop in run_test *)

(* self.selenium is None without a webdriver, and has no disconnect(). *)
DisconnectSelenium ==
    /\ pc = "disconnect"
    /\ pc' = IF selenium THEN "kill all" ELSE "raised"
    /\ UNCHANGED <<hostVars, listing, instVars, scenario, runDebug,
                   lostConfig>>

(* Mutant: one scenario too many. *)
MutantKillAll ==
    /\ pc = "kill all"
    /\ KillListed
    /\ IF scenario <= NumScenarios
       THEN scenario' = scenario + 1 /\ pc' = "make runner"
       ELSE scenario' = scenario /\ pc' = "done"
    /\ UNCHANGED <<package, debug, config, residue, testDir, instVars,
                   runDebug, lostConfig>>

KillAll ==
    /\ pc = "kill all"
    /\ KillListed
    /\ IF scenario < NumScenarios
       THEN scenario' = scenario + 1 /\ pc' = "make runner"
       ELSE scenario' = scenario /\ pc' = "done"
    /\ UNCHANGED <<package, debug, config, residue, testDir, instVars,
                   runDebug, lostConfig>>

-----------------------------------------------------------------------------
(* cleanup.py *)

(* The configuration file tells the edition; without it there is none. *)
StartCleanup ==
    /\ NotRunning
    /\ mode' = "cleanup"
    /\ selenium' = FALSE
    /\ edition' = config
    /\ scenario' = 1
    /\ instDebug' = FALSE
    /\ frontends' = FALSE
    /\ runDebug' = FALSE
    /\ pc' = "stop"
    /\ processes' = Left(processes)
    /\ UNCHANGED <<package, debug, config, service, residue, testDir, listing,
                   lostConfig>>

(* Mutant: the processes are killed once. *)
MutantStopEverything ==
    /\ pc = "stop"
    /\ KillListed
    /\ pc' = "clean dirs"
    /\ UNCHANGED <<package, debug, config, residue, testDir, instVars,
                   scenario, runDebug, lostConfig>>

(* kill_all_processes, twice; the stop_service before it is included. *)
StopEverything ==
    /\ pc \in {"stop", "stop again"}
    /\ KillListed
    /\ pc' = IF pc = "stop" THEN "stop again" ELSE "clean dirs"
    /\ UNCHANGED <<package, debug, config, residue, testDir, instVars,
                   scenario, runDebug, lostConfig>>

(* Runner.cleanup of every scenario, below the base_test_dir of config.yml *)
(* or, without one, below "/", where no test ever put its directory.       *)
CleanDirs ==
    /\ pc = "clean dirs"
    /\ testDir' = IF edition = None THEN testDir ELSE [s \in Scenarios |-> FALSE]
    /\ pc' = IF edition = None THEN "remove residue" ELSE "purge debug"
    /\ UNCHANGED <<package, debug, config, service, processes, residue,
                   listing, instVars, scenario, runDebug, lostConfig>>

-----------------------------------------------------------------------------
(* No package to start, or one of the other edition in the way. *)
CannotSucceed ==
    \/ pc \in {"restart", "deploy"} /\ package = None
    \/ pc = "install" /\ package \notin {None, edition}

(* An operation raises, or the invocation is killed.  Nothing catches.     *)
(* The starters may be launched by then, or a kill have come half way.     *)
Fail ==
    /\ MayFail \/ CannotSucceed
    /\ ~NotRunning
    /\ pc' = "idle"
    /\ listing' = FALSE
    /\ lostConfig' = (lostConfig \/ pc = "save")
    /\ \/ UNCHANGED <<processes, testDir>>
       \/ /\ pc = "deploy" /\ package # None
          /\ processes' = processes \cup {"starter"}
          /\ testDir' = [testDir EXCEPT ![scenario] = TRUE]
       \/ /\ listing
          /\ processes' = processes \ Starters
          /\ UNCHANGED testDir
    /\ UNCHANGED <<package, debug, config, service, residue, instVars,
                   scenario, runDebug>>

Next ==
    \/ \E m \in Modes, e \in Editions, driver \in BOOLEAN : StartTest(m, e, driver)
    \/ ListProcesses
    \/ SpawnServer
    \/ MakeRunner
    \/ KillBeforeInstall
    \/ InstallPackage
    \/ SaveConfig
    \/ BroadcastBind
    \/ InstallDebugPackage
    \/ RestartService
    \/ StopService
    \/ Deploy
    \/ ShutDown
    \/ PurgeDebugPackage
    \/ PurgePackage
    \/ RemoveResidue
    \/ DisconnectSelenium
    \/ KillAll
    \/ StartCleanup
    \/ StopEverything
    \/ CleanDirs
    \/ Fail

Spec == Init /\ [][Next]_vars

-----------------------------------------------------------------------------
(* "only uninstall after the last test": an `all` run that no operation    *)
(* failed in has removed what it installed, the debug package included,    *)
(* which the first runner installed and the last one has to know of.       *)
(* Without a webdriver only the disconnect after the last test may raise.  *)
AllRunUninstalls ==
    mode = "all" /\ scenario = NumScenarios /\ pc \in {"done", "raised"} =>
        package # edition /\ debug # edition /\ ~residue

(* In an `all` run no starter of an earlier scenario or of an invocation   *)
(* that failed is there when a scenario deploys, and from the second       *)
(* scenario on no server either: one that the first kill did not know of   *)
(* dies with the second, and no scenario leaves one.                       *)
AllRunDeploysAlone ==
    mode = "all" /\ pc = "deploy" =>
        processes \cap Starters = {} /\ (scenario > 1 => processes = {})

(* Whatever ran on the host when it began, an invocation that comes to its *)
(* end leaves nothing behind, because it has killed twice with no starter  *)
(* launched and left in between: cleanup.py, a test.py that installs or    *)
(* tests the system, and one of several scenarios.                         *)
NothingLeftRunning ==
    \/ pc = "done" /\ (mode \in {"all", "install", "system"} \/ NumScenarios > 1)
    \/ pc = "cleaned"
    => processes = {} /\ ~service

(* cleanup.py gets the server package off the host, whatever combination   *)
(* of editions and failures led there, unless some invocation failed after *)
(* dpkg and before the configuration was saved.                            *)
CleanupFindsPackage == pc = "cleaned" => package = None \/ lostConfig
=============================================================================
