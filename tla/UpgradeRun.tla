----------------------------- MODULE UpgradeRun -----------------------------
(***************************************************************************)
(* upgrade.py on one host: for every scenario the old version is installed, *)
(* a deployment is started from it, the new version is installed over it or *)
(* next to it, the deployment is upgraded, tested and shut down, and what   *)
(* was installed is removed.  Invocations follow each other (the nightly    *)
(* job starts one per edition and package type), each may raise anywhere,   *)
(* and starts from what the last one left.                                  *)
(*                                                                          *)
(* make_installer chooses the installer.  The packages of rpm and deb share *)
(* their paths and bring a system service, tar and nsis have a directory    *)
(* per version, nsis has a service, too.  The runner follows the binaries   *)
(* through two configurations, which set_directories points to a version.   *)
(***************************************************************************)
EXTENDS Naturals

CONSTANTS
    NumScenarios, \* len(starter_mode)
    Kinds         \* the installers that are considered

ASSUME NumScenariosAssumption == NumScenarios \in Nat \ {0}
ASSUME KindsAssumption == Kinds \subseteq {"rpm", "deb", "tar", "nsis"}

Versions == {"old", "new"}
None == "none"
Optional == Versions \cup {None}
Uninstallations == {"uninstall debug", "uninstall", "uninstall again"}

VARIABLES
    \* the host
    kind,       \* which installer it takes
    there,      \* the versions whose files are installed
    debug,      \* the version of the debug package
    service,    \* the version the system service runs
    residue,    \* do the service's database, log and config directories exist?
    deployment, \* the version the starters' servers run
    survived,   \* history: the uninstallations of this scenario nobody saw fail
    \* the invocation
    pc,
    scenario,
    selenium,   \* is there a webdriver?
    cfgDir,     \* the version whose paths Runner.cfg holds
    newCfgDir,  \* the same for Runner.new_cfg
    haveDebug   \* Runner.cfg.have_debug_package

hostVars == <<kind, there, debug, service, residue, deployment, survived>>
runnerVars == <<scenario, selenium, cfgDir, newCfgDir, haveDebug>>
vars == <<hostVars, pc, runnerVars>>

NotRunning == pc \in {"idle", "done", "raised"}

TypeOK ==
    /\ kind \in Kinds
    /\ there \subseteq Versions
    /\ <<debug, service, deployment>> \in Optional \X Optional \X Optional
    /\ <<cfgDir, newCfgDir>> \in Optional \X Optional
    /\ residue \in BOOLEAN
    /\ survived \subseteq Uninstallations
    /\ <<selenium, haveDebug>> \in BOOLEAN \X BOOLEAN
    /\ scenario \in 1..NumScenarios
    /\ pc \in {"idle", "make runner", "install", "check files", "service", "deploy",
               "upgrade package", "install debug", "set directories",
               "rolling upgrade", "tests", "uninstall debug", "uninstall", "clean",
               "disconnect", "uninstall again", "clean again", "done", "raised"}

Init ==
    /\ kind \in Kinds
    /\ there = {}
    /\ debug = None /\ service = None /\ deployment = None
    /\ residue = FALSE
    /\ survived = {}
    /\ pc = "idle"
    /\ scenario = 1
    /\ selenium = FALSE
    /\ cfgDir = None /\ newCfgDir = None
    /\ haveDebug = FALSE

InPlace == kind \in {"rpm", "deb"}

(* The versions a starter may get when it is taken from paths of version d. *)
Binaries(d) == IF InPlace THEN there ELSE there \cap {d}

-----------------------------------------------------------------------------
(* run_upgrade: every scenario has its own configurations, installers and  *)
(* runner.  Only the tar installer does not know its paths from the start. *)

StartRun(driver) ==
    /\ NotRunning
    /\ selenium' = driver
    /\ scenario' = 1
    /\ pc' = "make runner"
    /\ UNCHANGED <<hostVars, cfgDir, newCfgDir, haveDebug>>

MakeRunner ==
    /\ pc = "make runner"
    /\ service' = None
    /\ deployment' = None
    /\ cfgDir' = IF kind = "tar" THEN None ELSE "old"
    /\ newCfgDir' = IF kind = "tar" THEN None ELSE "new"
    /\ haveDebug' = FALSE
    /\ survived' = {}
    /\ pc' = "install"
    /\ UNCHANGED <<kind, there, debug, residue, scenario, selenium>>

-----------------------------------------------------------------------------
(* install_package of the old version, and Runner.install around it *)

Installed(versions, running) ==
    /\ pc = "install"
    /\ there' = versions
    /\ service' = running
    /\ residue' = (residue \/ running # None)
    /\ cfgDir' = "old"
    /\ pc' = "check files"
    /\ UNCHANGED <<kind, debug, deployment, survived, scenario, selenium,
                   newCfgDir, haveDebug>>

(* rpm -i refuses to install a package a second time, or an older one. *)
InstallRPM == kind = "rpm" /\ there = {} /\ Installed({"old"}, "old")

(* dpkg -i replaces what is there. *)
InstallDeb == kind = "deb" /\ Installed({"old"}, "old")

InstallTAR == kind = "tar" /\ Installed(there \cup {"old"}, service)

InstallW == kind = "nsis" /\ Installed(there \cup {"old"}, "old")

(* check_installed_files raises for some binaries that are missing (Fail). *)
CheckInstalledFiles ==
    /\ pc = "check files"
    /\ pc' = "service"
    /\ UNCHANGED <<hostVars, runnerVars>>

(* The service is stopped and started twice, tested, and stopped.  No debug *)
(* package is installed for the old version.                                *)
RestartService ==
    /\ pc = "service"
    /\ service' = None
    /\ pc' = "deploy"
    /\ UNCHANGED <<kind, there, debug, residue, deployment, survived, runnerVars>>

-----------------------------------------------------------------------------
(* The deployment, as far as the packages go *)

Deploy ==
    /\ pc = "deploy"
    /\ deployment' \in Binaries(cfgDir)
    /\ pc' = "upgrade package"
    /\ UNCHANGED <<kind, there, debug, service, residue, survived, runnerVars>>

(* upgrade_arangod_version: the starters are replaced by those of new_cfg  *)
(* and restart their servers.                                              *)
RollingUpgrade ==
    /\ pc = "rolling upgrade"
    /\ deployment' \in Binaries(newCfgDir)
    /\ pc' = "tests"
    /\ UNCHANGED <<kind, there, debug, service, residue, survived, runnerVars>>

TestAndShutDown ==
    /\ pc = "tests"
    /\ deployment' = None
    /\ pc' = "uninstall debug"
    /\ UNCHANGED <<kind, there, debug, service, residue, survived, runnerVars>>

-----------------------------------------------------------------------------
(* The packages are upgraded, under the running deployment. *)

(* A debug package of the old version goes first. *)
Upgraded(versions, running) ==
    /\ pc = "upgrade package"
    /\ debug' = IF haveDebug THEN None ELSE debug
    /\ there' = versions
    /\ service' \in running
    /\ UNCHANGED <<kind, residue, deployment, survived, runnerVars>>

(* The package's scripts may start the service. *)
UpgradeRPM == kind = "rpm" /\ Upgraded({"new"}, {None, "new"}) /\ pc' = "install debug"

(* The comparison with an unbound variable raises as soon as dpkg runs. *)
UpgradeDeb ==
    /\ kind = "deb"
    /\ \E versions \in SUBSET Versions \ {{}} : Upgraded(versions, {None, "old", "new"})
    /\ pc' = "raised"

UpgradeTAR == kind = "tar" /\ Upgraded(there \cup {"new"}, {service}) /\ pc' = "install debug"

UpgradeW == kind = "nsis" /\ Upgraded(there \cup {"new"}, {"new"}) /\ pc' = "install debug"

(* install_debug_package; the installers without one return nothing. *)
InstallDebugPackage ==
    /\ pc = "install debug"
    /\ debug' = IF InPlace THEN "new" ELSE debug
    /\ haveDebug' = InPlace
    /\ pc' = "set directories"
    /\ UNCHANGED <<kind, there, service, residue, deployment, survived, scenario,
                   selenium, cfgDir, newCfgDir>>

(* Mutant: both configurations are set from the wrong installer. *)
MutantSetDirectories ==
    /\ pc = "set directories"
    /\ service' = None
    /\ cfgDir' = "old" /\ newCfgDir' = "old"
    /\ pc' = "rolling upgrade"
    /\ UNCHANGED <<kind, there, debug, residue, deployment, survived, scenario,
                   selenium, haveDebug>>

(* stop_service, set_directories twice and un_install_package_for_upgrade, *)
(* a hook that no installer fills: the old version stays.                  *)
SetDirectories ==
    /\ pc = "set directories"
    /\ service' = None
    /\ cfgDir' = "new" /\ newCfgDir' = "new"
    /\ pc' = "rolling upgrade"
    /\ UNCHANGED <<kind, there, debug, residue, deployment, survived, scenario,
                   selenium, haveDebug>>

-----------------------------------------------------------------------------
(* Runner.uninstall of the new version, and the same calls after run() *)

(* Nobody looks at the exit codes of rpm -e and of Uninstall.exe. *)
FailsUnnoticed == survived' = survived \cup {pc}

UnInstallDebugPackage ==
    /\ pc = "uninstall debug"
    /\ \/ /\ debug' = IF haveDebug THEN None ELSE debug
          /\ UNCHANGED survived
       \/ haveDebug /\ FailsUnnoticed /\ UNCHANGED debug
    /\ pc' = "uninstall"
    /\ UNCHANGED <<kind, there, service, residue, deployment, runnerVars>>

(* Mutant: the runner leaves the uninstallation to the loop. *)
MutantUninstalled(versions, running) ==
    /\ IF pc = "uninstall"
       THEN pc' = "clean" /\ UNCHANGED <<there, service>>
       ELSE /\ pc = "uninstall again" /\ pc' = "clean again"
            /\ there' = versions /\ service' = running
    /\ UNCHANGED <<kind, debug, residue, deployment, runnerVars>>

Uninstalled(versions, running) ==
    /\ there' = versions
    /\ service' = running
    /\ \/ pc = "uninstall" /\ pc' = "clean"
       \/ pc = "uninstall again" /\ pc' = "clean again"
    /\ UNCHANGED <<kind, debug, residue, deployment, runnerVars>>

UnInstallRPM ==
    /\ kind = "rpm"
    /\ \/ Uninstalled({}, None) /\ UNCHANGED survived
       \/ Uninstalled(there, service) /\ there # {} /\ FailsUnnoticed

UnInstallTAR ==
    kind = "tar" /\ Uninstalled(there \ {"new"}, service) /\ UNCHANGED survived

(* An uninstaller that is not there is skipped. *)
UnInstallW ==
    /\ kind = "nsis"
    /\ \/ Uninstalled(there \ {"new"}, None) /\ UNCHANGED survived
       \/ Uninstalled(there, service) /\ "new" \in there /\ FailsUnnoticed

(* Where the loop goes on after cleanup_system, for the first and for the  *)
(* second time; mutant: one scenario too many.                             *)
MutantAfterCleanup ==
    \/ pc = "clean" /\ pc' = "disconnect" /\ scenario' = scenario
    \/ pc = "clean again" /\ scenario <= NumScenarios
         /\ pc' = "make runner" /\ scenario' = scenario + 1

AfterCleanup ==
    \/ pc = "clean" /\ pc' = "disconnect" /\ scenario' = scenario
    \/ pc = "clean again" /\ scenario < NumScenarios
         /\ pc' = "make runner" /\ scenario' = scenario + 1
    \/ pc = "clean again" /\ scenario = NumScenarios
         /\ pc' = "done" /\ scenario' = scenario

(* check_uninstall_cleanup, whose answer is not used, and cleanup_system *)
CleanupSystem ==
    /\ AfterCleanup
    /\ residue' = FALSE
    /\ UNCHANGED <<kind, there, debug, service, deployment, survived, selenium,
                   cfgDir, newCfgDir, haveDebug>>

(* There is nothing to disconnect without a webdriver. *)
DisconnectSelenium ==
    /\ pc = "disconnect"
    /\ selenium
    /\ pc' = "uninstall again"
    /\ UNCHANGED <<hostVars, runnerVars>>

(* Any step may raise or leave the process, and nobody tidies up. *)
Fail ==
    /\ ~NotRunning
    /\ pc' = "raised"
    /\ UNCHANGED <<hostVars, runnerVars>>

-----------------------------------------------------------------------------
Next ==
    \/ \E driver \in BOOLEAN : StartRun(driver)
    \/ MakeRunner
    \/ InstallRPM \/ InstallDeb \/ InstallTAR \/ InstallW
    \/ CheckInstalledFiles \/ RestartService
    \/ Deploy \/ RollingUpgrade \/ TestAndShutDown
    \/ UpgradeRPM \/ UpgradeDeb \/ UpgradeTAR \/ UpgradeW
    \/ InstallDebugPackage \/ SetDirectories
    \/ UnInstallDebugPackage \/ UnInstallRPM \/ UnInstallTAR \/ UnInstallW
    \/ CleanupSystem \/ DisconnectSelenium
    \/ Fail

Spec == Init /\ [][Next]_vars

-----------------------------------------------------------------------------
(* What is called an upgrade test is one: whatever earlier invocations left *)
(* the deployment starts on the old version and is tested on the new one,   *)
(* and the system service is not in its way (Runner.run, set_directories).  *)
UpgradesOldToNew ==
    /\ pc = "upgrade package" => deployment = "old"
    /\ pc = "tests" => deployment = "new"
    /\ pc \in {"deploy", "rolling upgrade"} => service = None

(* The package is uninstalled twice, by the runner and by run_upgrade after *)
(* it, so an uninstallation that fails without anybody hearing of it is     *)
(* made up for, whatever earlier scenarios and invocations left: only when  *)
(* both of the last scenario fail an invocation that comes to its end       *)
(* leaves more than the old version where versions are kept apart.  There   *)
(* is one try at the debug package.                                         *)
LeavesAtMostOld ==
    pc = "done" =>
        /\ {"uninstall", "uninstall again"} \subseteq survived
             \/ there \subseteq (IF InPlace THEN {} ELSE {"old"})
        /\ "uninstall debug" \in survived \/ debug = None
=============================================================================
