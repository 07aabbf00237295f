--------------------------- MODULE ScenarioProofs ---------------------------
(***************************************************************************)
(* Type correctness and the invariants of the upgrade flow, for every      *)
(* value of the constants: the loop over the scenarios (UpgradeRun), one   *)
(* of them with its rolling upgrade (LeaderFollower), and the section      *)
(* that another runs before and after its upgrade (HotBackup).             *)
(***************************************************************************)
EXTENDS UpgradeRun, LeaderFollower, HotBackup, FiniteSetTheorems, TLAPS

-----------------------------------------------------------------------------
(* UpgradeRun: types *)

LEMMA FirstScenario == 1 \in 1..NumScenarios
  BY NumScenariosAssumption

LEMMA NextScenario ==
    ASSUME NEW n \in 1..NumScenarios, n < NumScenarios
    PROVE  n + 1 \in 1..NumScenarios
  BY NumScenariosAssumption

LEMMA InPlaceIsBoolean == InPlace \in BOOLEAN
  BY DEF InPlace

LEMMA TypeInit == Init => TypeOK
  BY FirstScenario DEF Init, TypeOK, Versions, Optional, None

LEMMA TypeStep == TypeOK /\ [Next]_vars => TypeOK'
<1> SUFFICES ASSUME TypeOK, [Next]_vars
             PROVE  TypeOK'
  OBVIOUS
<1> USE NumScenariosAssumption DEF TypeOK, Versions, Optional, None, hostVars, runnerVars
<1>1. ASSUME NEW driver \in BOOLEAN, StartRun(driver)
      PROVE  TypeOK'
  BY <1>1, FirstScenario DEF StartRun
<1>2. CASE MakeRunner
  BY <1>2 DEF MakeRunner
<1>3. CASE InstallRPM \/ InstallDeb \/ InstallTAR \/ InstallW
  BY <1>3 DEF InstallRPM, InstallDeb, InstallTAR, InstallW, Installed
<1>4. CASE CheckInstalledFiles \/ RestartService
  BY <1>4 DEF CheckInstalledFiles, RestartService
<1>5. CASE Deploy \/ RollingUpgrade \/ TestAndShutDown
  BY <1>5 DEF Deploy, RollingUpgrade, TestAndShutDown, Binaries
<1>6. CASE UpgradeRPM \/ UpgradeDeb \/ UpgradeTAR \/ UpgradeW
  <2>1. CASE UpgradeRPM
    BY <2>1 DEF UpgradeRPM, Upgraded
  <2>2. CASE UpgradeDeb
    BY <2>2 DEF UpgradeDeb, Upgraded
  <2>3. CASE UpgradeTAR
    BY <2>3 DEF UpgradeTAR, Upgraded
  <2>4. CASE UpgradeW
    BY <2>4 DEF UpgradeW, Upgraded
  <2> QED
    BY <1>6, <2>1, <2>2, <2>3, <2>4
<1>7. CASE InstallDebugPackage \/ SetDirectories
  <2>2. CASE InstallDebugPackage
    BY InPlaceIsBoolean, <2>2 DEF InstallDebugPackage
  <2>3. CASE SetDirectories
    BY <2>3 DEF SetDirectories
  <2> QED
    BY <1>7, <2>2, <2>3
<1>8. CASE UnInstallDebugPackage
  BY <1>8 DEF UnInstallDebugPackage, FailsUnnoticed, Uninstallations
<1>9. CASE UnInstallRPM \/ UnInstallTAR \/ UnInstallW
  <2>1. CASE UnInstallRPM
    BY <2>1 DEF UnInstallRPM, Uninstalled, FailsUnnoticed, Uninstallations
  <2>2. CASE UnInstallTAR
    BY <2>2 DEF UnInstallTAR, Uninstalled
  <2>3. CASE UnInstallW
    BY <2>3 DEF UnInstallW, Uninstalled, FailsUnnoticed, Uninstallations
  <2> QED
    BY <1>9, <2>1, <2>2, <2>3
<1>10. CASE CleanupSystem
  <2>1. scenario' \in 1..NumScenarios
    BY <1>10, NextScenario DEF CleanupSystem, AfterCleanup
  <2>2. pc' \in {"disconnect", "make runner", "done"}
    BY <1>10 DEF CleanupSystem, AfterCleanup
  <2> QED
    BY <1>10, <2>1, <2>2 DEF CleanupSystem
<1>11. CASE DisconnectSelenium \/ Fail
  BY <1>11 DEF DisconnectSelenium, Fail
<1>12. CASE UNCHANGED vars
  BY <1>12 DEF vars
<1> QED
  BY <1>1, <1>2, <1>3, <1>4, <1>5, <1>6, <1>7, <1>8, <1>9, <1>10, <1>11, <1>12 DEF Next

(* The variables of host and invocation keep their types. *)
THEOREM TypeCorrect == Spec => []TypeOK
<1>1. Init => TypeOK
  BY TypeInit
<1>2. TypeOK /\ [Next]_vars => TypeOK'
  BY TypeStep
<1> QED
  BY <1>1, <1>2, PTL DEF Spec

-----------------------------------------------------------------------------
(* The inductive invariant.  UpgradesOldToNew needs that the files a        *)
(* configuration leads to are of the version it stands for: in place        *)
(* nothing but that version is there, side by side the paths name it.       *)

Starting == {"check files", "service", "deploy"}
AfterUpgrade == {"install debug", "set directories", "rolling upgrade"}

FilesMatch ==
    /\ pc \in Starting => cfgDir = "old" /\ (InPlace => there = {"old"})
    /\ pc \in AfterUpgrade => (InPlace => there = {"new"})
    /\ pc = "rolling upgrade" => newCfgDir = "new"

(* LeavesAtMostOld needs the way of the debug package: only the packages    *)
(* that are installed in place have one, and the runner knows.              *)
Removing == {"uninstall", "clean", "disconnect", "uninstall again", "clean again", "done"}

DebugKnown ==
    /\ debug # None => InPlace
    /\ pc \in {"set directories", "rolling upgrade", "tests", "uninstall debug"} =>
         haveDebug = InPlace
    /\ pc \in Removing => "uninstall debug" \in survived \/ debug = None

(* A package that is there when it is uninstalled for the second time was   *)
(* there after the first.                                                   *)
AtMostOld == there \subseteq (IF InPlace THEN {} ELSE {"old"})

Removed ==
    /\ pc \in {"clean", "disconnect", "uninstall again", "clean again", "done"} =>
         "uninstall" \in survived \/ AtMostOld
    /\ pc \in {"clean again", "done"} =>
         {"uninstall", "uninstall again"} \subseteq survived \/ AtMostOld

IInv == TypeOK /\ FilesMatch /\ UpgradesOldToNew /\ DebugKnown /\ Removed

LEMMA InvInit == Init => IInv
  BY TypeInit DEF Init, IInv, AtMostOld, FilesMatch, UpgradesOldToNew, DebugKnown, Removed,
                  Removing, Starting, AfterUpgrade

LEMMA InvStep == IInv /\ [Next]_vars => IInv'
<1> SUFFICES ASSUME IInv, [Next]_vars
             PROVE  IInv'
  OBVIOUS
<1>0. TypeOK'
  BY TypeStep DEF IInv
<1> USE <1>0 DEF IInv, FilesMatch, UpgradesOldToNew, DebugKnown, Removed, Removing, Starting,
                AfterUpgrade, hostVars, runnerVars, InPlace, None, AtMostOld, FailsUnnoticed
<1>1. ASSUME NEW driver \in BOOLEAN, StartRun(driver)
      PROVE  IInv'
  BY <1>1 DEF StartRun
<1>2. CASE MakeRunner
  BY <1>2 DEF MakeRunner
<1>3. CASE InstallRPM \/ InstallDeb \/ InstallTAR \/ InstallW
  BY <1>3 DEF InstallRPM, InstallDeb, InstallTAR, InstallW, Installed
<1>4. CASE CheckInstalledFiles \/ RestartService
  BY <1>4 DEF CheckInstalledFiles, RestartService
<1>5. CASE Deploy
  BY <1>5 DEF Deploy, Binaries
<1>6. CASE RollingUpgrade
  BY <1>6 DEF RollingUpgrade, Binaries
<1>7. CASE TestAndShutDown
  BY <1>7 DEF TestAndShutDown
<1>8. CASE UpgradeRPM \/ UpgradeDeb \/ UpgradeTAR \/ UpgradeW
  BY <1>8 DEF UpgradeRPM, UpgradeDeb, UpgradeTAR, UpgradeW, Upgraded
<1>9. CASE InstallDebugPackage
  BY <1>9 DEF InstallDebugPackage
<1>10. CASE SetDirectories
  BY <1>10 DEF SetDirectories
<1>11. CASE UnInstallDebugPackage
  BY <1>11 DEF UnInstallDebugPackage
<1>12. CASE UnInstallRPM
  BY <1>12 DEF UnInstallRPM, Uninstalled
<1>13. CASE UnInstallTAR \/ UnInstallW
  <2>1. there \ {"new"} \subseteq {"old"}
    BY DEF TypeOK, Versions
  <2> QED
    BY <1>13, <2>1 DEF UnInstallTAR, UnInstallW, Uninstalled
<1>14. CASE CleanupSystem
  BY <1>14 DEF CleanupSystem, AfterCleanup
<1>15. CASE DisconnectSelenium \/ Fail
  BY <1>15 DEF DisconnectSelenium, Fail
<1>16. CASE UNCHANGED vars
  BY <1>16 DEF vars
<1> QED
  BY <1>1, <1>2, <1>3, <1>4, <1>5, <1>6, <1>7, <1>8, <1>9, <1>10, <1>11, <1>12, <1>13,
     <1>14, <1>15, <1>16 DEF Next

(* Every upgrade test goes from the old to the new version, whatever the    *)
(* invocations before it left on the host.                                  *)
THEOREM UpgradeIsOldToNew == Spec => []UpgradesOldToNew
<1>1. Init => IInv
  BY InvInit
<1>2. IInv /\ [Next]_vars => IInv'
  BY InvStep
<1>3. IInv => UpgradesOldToNew
  BY DEF IInv
<1> QED
  BY <1>1, <1>2, <1>3, PTL DEF Spec

(* An invocation that comes to its end leaves at most the old version,      *)
(* unless both uninstallations of its last scenario failed unnoticed.       *)
THEOREM AtMostOldIsLeft == Spec => []LeavesAtMostOld
<1>1. Init => IInv
  BY InvInit
<1>2. IInv /\ [Next]_vars => IInv'
  BY InvStep
<1>3. IInv => LeavesAtMostOld
  BY DEF IInv, Removed, AtMostOld, DebugKnown, Removing, LeavesAtMostOld
<1> QED
  BY <1>1, <1>2, <1>3, PTL DEF Spec
-----------------------------------------------------------------------------
(* LeaderFollower.  The types are not inductive alone: what the follower   *)
(* has applied is bounded by what was written, and that depends on the     *)
(* phase.                                                                  *)

WrittenByPhase ==
    /\ phase \in {"start", "detect", "before"} => written = 0
    /\ phase \in {"replicate", "after"} => written = Before
    /\ phase = "make_data" => After <= written /\ written < Total
    /\ phase \in {"jam", "shutdown", "done"} => written = Total

(* The sentinel was found with the first document, and nothing can follow  *)
(* the last operation.                                                     *)
DocumentsSeen ==
    /\ phase = "follower_data" => saved = {Before, After}
    /\ PassedMeansReplicated

(* The line "Upgrading done." is not the end of the upgrade, but from then *)
(* on the server cannot be the old one: once it is up it is the new one,   *)
(* and nothing stops that.                                                 *)
Upgrading == {"command", "await_upgrade", "await_done", "await_shutdown"}

Ready(n) == arangod[n] = "up" /\ version[n] = "new" /\ known[n] = "new"

UpgradeLogged ==
    /\ phase = "start" => commanded = {}
    /\ \A n \in Nodes : doneLog[n] => n \in commanded
    /\ phase \notin {"shutdown", "done", "not_terminated"} =>
         \A n \in Nodes : doneLog[n] => arangod[n] = "stopped" \/ version[n] = "new"
    /\ phase = "await_shutdown" => doneLog[node]
    /\ phase \in Upgrading /\ node = Follower => doneLog[Leader]
    /\ phase = "detect_new" => \A n \in Nodes : doneLog[n]
    /\ phase = "detect_new" /\ node = Follower => Ready(Leader)
    /\ UpgradedWhenChecked

LFInv == LFTypeOK /\ WrittenByPhase /\ DocumentsSeen /\ UpgradeLogged

LEMMA TotalIsLast == Total \in Nat /\ After < Total
  BY DataOpsAssumption DEF Total, After

LEMMA TryCounts ==
    /\ Tries + 1 \in 0..(Tries + 1)
    /\ \A k \in 0..(Tries + 1) : k > 0 => k - 1 \in 0..(Tries + 1)
  BY TriesAssumption

LEMMA LFInvInit == LFInit => LFInv
  BY TotalIsLast, TryCounts
  DEF LFInit, LFInv, LFTypeOK, WrittenByPhase, DocumentsSeen, PassedMeansReplicated,
      UpgradeLogged, UpgradedWhenChecked, Upgrading, Nodes, Leader, Follower

(* Each step keeps the types; what is written needs to know the phase.     *)
LEMMA LFTypeStep == LFInv /\ [LFNext]_lfVars => LFTypeOK'
<1> SUFFICES ASSUME LFInv, [LFNext]_lfVars
             PROVE  LFTypeOK'
  OBVIOUS
<1> USE TotalIsLast DEF LFInv, LFTypeOK, Aborted, serverVars, dataVars, testVars,
                        Nodes, Leader, Follower, Before, After
<1>1. CASE RunStarters \/ Detect \/ DetectNew
  <2>1. CASE RunStarters
    BY <2>1 DEF RunStarters, Goto
  <2>2. CASE Detect
    BY <2>2 DEF Detect, Found, Advance
  <2>3. CASE DetectNew
    BY <2>3 DEF DetectNew, Found, Advance
  <2> QED
    BY <1>1, <2>1, <2>2, <2>3
<1>2. CASE SaveBefore \/ SaveAfter
  <2>1. CASE SaveBefore
    BY <2>1 DEF SaveBefore, Save, Goto, WrittenByPhase
  <2>2. CASE SaveAfter
    BY <2>2 DEF SaveAfter, Save, Goto, WrittenByPhase
  <2> QED
    BY <1>2, <2>1, <2>2
<1>3. CASE StartReplication
  BY <1>3 DEF StartReplication, Goto
<1>4. CASE MakeData
  BY <1>4 DEF MakeData, Goto, WrittenByPhase
<1>5. CASE ReplaceBinary \/ CommandUpgrade \/ WaitForUpgrade
  BY <1>5 DEF ReplaceBinary, CommandUpgrade, WaitForUpgrade, Advance, Goto
<1>6. CASE WaitForDone \/ WaitForShutdown \/ CheckData
  BY <1>6 DEF WaitForDone, WaitForShutdown, CheckData, Advance, Goto
<1>7. CASE CheckSentinel
  BY <1>7, TryCounts DEF CheckSentinel, Goto
<1>8. CASE CheckFollowerData \/ Jam
  BY <1>8 DEF CheckFollowerData, Jam, Goto
<1>9. CASE ShutDown
  BY <1>9 DEF ShutDown, Advance, Goto
<1>10. ASSUME NEW n \in Nodes, Server(n)
       PROVE  LFTypeOK'
  <2>1. CASE Boot(n)
    BY <2>1 DEF Boot
  <2>2. CASE StopForUpgrade(n)
    BY <2>2 DEF StopForUpgrade
  <2>3. CASE StartNew(n)
    BY <2>3 DEF StartNew
  <2>4. CASE LogDone(n)
    BY <2>4 DEF LogDone
  <2> QED
    BY <1>10, <2>1, <2>2, <2>3, <2>4 DEF Server
<1>11. CASE Replicate \/ Break
  <2>1. CASE Replicate
    <3>1. applied' \in 0..written'
      BY <2>1 DEF Replicate
    <3> QED
      BY <2>1, <3>1 DEF Replicate
  <2>2. CASE Break
    BY <2>2 DEF Break
  <2> QED
    BY <1>11, <2>1, <2>2
<1>12. CASE UNCHANGED lfVars
  BY <1>12 DEF lfVars
<1> QED
  BY <1>1, <1>2, <1>3, <1>4, <1>5, <1>6, <1>7, <1>8, <1>9, <1>10, <1>11, <1>12
  DEF LFNext, LFDriver, LFFinished

(* How many operations there are in which phase. *)
LEMMA WrittenStep == LFInv /\ [LFNext]_lfVars => WrittenByPhase'
<1> SUFFICES ASSUME LFInv, [LFNext]_lfVars
             PROVE  WrittenByPhase'
  OBVIOUS
<1> USE TotalIsLast DEF WrittenByPhase, Before, After
<1>0. written \in 0..Total /\ applied \in 0..written /\ WrittenByPhase
  BY DEF LFInv, LFTypeOK
<1>1. CASE RunStarters \/ Detect \/ StartReplication
  BY <1>0, <1>1 DEF RunStarters, Detect, Advance, StartReplication, Goto, dataVars
<1>2. CASE SaveBefore \/ SaveAfter
  BY <1>0, <1>2 DEF SaveBefore, SaveAfter, Save, Goto
<1>3. CASE MakeData
  BY <1>0, <1>3 DEF MakeData, Goto
<1>4. CASE ReplaceBinary \/ CommandUpgrade \/ WaitForUpgrade \/ WaitForDone \/ WaitForShutdown
  BY <1>0, <1>4 DEF ReplaceBinary, CommandUpgrade, WaitForUpgrade, WaitForDone,
                    WaitForShutdown, Advance, Goto, dataVars
<1>5. CASE DetectNew \/ CheckData
  BY <1>0, <1>5 DEF DetectNew, CheckData, Advance, Goto, dataVars
<1>6. CASE CheckSentinel
  BY <1>0, <1>6 DEF CheckSentinel, Goto, dataVars
<1>7. CASE CheckFollowerData
  BY <1>0, <1>7 DEF CheckFollowerData, Goto, dataVars
<1>8. CASE Jam \/ ShutDown
  BY <1>0, <1>8 DEF Jam, ShutDown, Advance, Goto, dataVars
<1>9. ASSUME NEW n \in Nodes, Server(n)
      PROVE  WrittenByPhase'
  BY <1>0, <1>9 DEF Server, Boot, StopForUpgrade, StartNew, LogDone, dataVars, testVars
<1>10. CASE Replicate \/ Break \/ UNCHANGED lfVars
  BY <1>0, <1>10 DEF Replicate, Break, lfVars, dataVars, testVars
<1> QED
  BY <1>1, <1>2, <1>3, <1>4, <1>5, <1>6, <1>7, <1>8, <1>9, <1>10
  DEF LFNext, LFDriver, LFFinished

(* The sentinel is looked for in full, and the last operation is the last. *)
LEMMA DocumentsStep == LFInv /\ [LFNext]_lfVars => DocumentsSeen'
<1> SUFFICES ASSUME LFInv, [LFNext]_lfVars
             PROVE  DocumentsSeen'
  OBVIOUS
<1> USE DEF DocumentsSeen, PassedMeansReplicated, Before, After
<1>0. /\ written \in 0..Total /\ applied \in 0..written /\ saved \subseteq {Before, After}
      /\ WrittenByPhase /\ DocumentsSeen
  BY DEF LFInv, LFTypeOK
<1>1. CASE CheckSentinel
  BY <1>0, <1>1 DEF CheckSentinel, OnFollower, Goto, dataVars
<1>2. CASE CheckFollowerData
  BY <1>0, <1>2 DEF CheckFollowerData, Goto, dataVars
<1>3. CASE Jam \/ ShutDown
  BY <1>0, <1>3 DEF Jam, ShutDown, Advance, Goto, dataVars
<1>4. CASE Replicate
  BY <1>0, <1>4, TotalIsLast DEF Replicate, testVars, WrittenByPhase
<1>5. CASE SaveBefore \/ SaveAfter \/ StartReplication \/ MakeData
  BY <1>0, <1>5 DEF SaveBefore, SaveAfter, Save, StartReplication, MakeData, Goto
<1>6. CASE RunStarters \/ Detect \/ ReplaceBinary \/ CommandUpgrade \/ WaitForUpgrade
  BY <1>6 DEF RunStarters, Detect, ReplaceBinary, CommandUpgrade, WaitForUpgrade, Advance, Goto
<1>7. CASE WaitForDone \/ WaitForShutdown \/ DetectNew \/ CheckData
  BY <1>7 DEF WaitForDone, WaitForShutdown, DetectNew, CheckData, Advance, Goto
<1>8. CASE Break \/ UNCHANGED lfVars
  BY <1>0, <1>8 DEF Break, lfVars, dataVars, testVars
<1>9. ASSUME NEW n \in Nodes, Server(n)
      PROVE  DocumentsSeen'
  BY <1>0, <1>9 DEF Server, Boot, StopForUpgrade, StartNew, LogDone, dataVars, testVars
<1> QED
  BY <1>1, <1>2, <1>3, <1>4, <1>5, <1>6, <1>7, <1>8, <1>9 DEF LFNext, LFDriver, LFFinished

(* The steps of the servers: an old one that was told to upgrade may stop, *)
(* but none of those the driver has to do with again.                      *)
LEMMA UpgradeServerStep ==
    ASSUME LFInv, NEW n \in Nodes, Server(n)
    PROVE  UpgradeLogged'
<1> USE DEF LFInv, UpgradeLogged, UpgradedWhenChecked, Ready, LFTypeOK
<1>1. CASE Boot(n)
  BY <1>1 DEF Boot, testVars
<1>2. CASE StopForUpgrade(n)
  BY <1>2 DEF StopForUpgrade, testVars
<1>3. CASE StartNew(n)
  BY <1>3 DEF StartNew, testVars
<1>4. CASE LogDone(n)
  BY <1>4 DEF LogDone, testVars
<1> QED
  BY <1>1, <1>2, <1>3, <1>4 DEF Server

LEMMA UpgradeStep == LFInv /\ [LFNext]_lfVars => UpgradeLogged'
<1> SUFFICES ASSUME LFInv, [LFNext]_lfVars
             PROVE  UpgradeLogged'
  OBVIOUS
<1> USE DEF LFInv, UpgradeLogged, UpgradedWhenChecked, Ready, Upgrading, LFTypeOK,
            Nodes, Leader, Follower
<1>1. CASE RunStarters
  BY <1>1 DEF RunStarters, Goto
<1>2. CASE Detect
  BY <1>2 DEF Detect, Found, Advance, serverVars
<1>3. CASE SaveBefore \/ SaveAfter \/ StartReplication \/ MakeData
  BY <1>3 DEF SaveBefore, SaveAfter, Save, StartReplication, MakeData, Goto, serverVars
<1>4. CASE ReplaceBinary
  BY <1>4 DEF ReplaceBinary, Advance, serverVars
<1>5. CASE CommandUpgrade
  BY <1>5 DEF CommandUpgrade, Goto
<1>6. CASE WaitForUpgrade \/ WaitForDone
  BY <1>6 DEF WaitForUpgrade, WaitForDone, Goto, serverVars
<1>7. CASE WaitForShutdown
  BY <1>7 DEF WaitForShutdown, Advance, serverVars
<1>8. CASE DetectNew
  BY <1>8 DEF DetectNew, Found, Advance, serverVars
<1>9. CASE CheckData \/ CheckSentinel \/ CheckFollowerData \/ Jam
  BY <1>9 DEF CheckData, CheckSentinel, CheckFollowerData, Jam, Goto, serverVars
<1>10. CASE ShutDown
  BY <1>10 DEF ShutDown, Advance, Goto
<1>11. CASE Replicate \/ Break \/ UNCHANGED lfVars
  <2>1. UNCHANGED <<serverVars, testVars>>
    BY <1>11 DEF Replicate, Break, lfVars
  <2> QED
    BY <2>1 DEF serverVars, testVars
<1>12. CASE \E n \in Nodes : Server(n)
  BY <1>12, UpgradeServerStep
<1> QED
  BY <1>1, <1>2, <1>3, <1>4, <1>5, <1>6, <1>7, <1>8, <1>9, <1>10, <1>11, <1>12
  DEF LFNext, LFDriver, LFFinished

LEMMA SpecLFInv == LFSpec => []LFInv
<1>1. LFInv /\ [LFNext]_lfVars => LFInv'
  BY LFTypeStep, WrittenStep, DocumentsStep, UpgradeStep DEF LFInv
<1> QED
  BY LFInvInit, <1>1, PTL DEF LFSpec

(* The variables of servers and test keep their types; the follower never  *)
(* holds an operation its leader has not written.                          *)
THEOREM LFTypeCorrect == LFSpec => []LFTypeOK
<1>1. LFInv => LFTypeOK
  BY DEF LFInv
<1> QED
  BY SpecLFInv, <1>1, PTL

(* What is checked after an upgrade is the new version, on both nodes.     *)
THEOREM CheckedIsUpgraded == LFSpec => []UpgradedWhenChecked
<1>1. LFInv => UpgradedWhenChecked
  BY DEF LFInv, UpgradeLogged
<1> QED
  BY SpecLFInv, <1>1, PTL

(* A run that passes has seen every document on the follower.              *)
THEOREM PassedIsOnFollower == LFSpec => []PassedMeansReplicated
<1>1. LFInv => PassedMeansReplicated
  BY DEF LFInv, DocumentsSeen
<1> QED
  BY SpecLFInv, <1>1, PTL

-----------------------------------------------------------------------------
(* HotBackup.  The restore is awaited in the logs, so the invariant says   *)
(* what they tell: the last line is of the process that runs, no line is   *)
(* of a later one, and as long as a dbserver has a restore to do its log   *)
(* does not show one that the driver could take for it.                    *)

LogsByProcess ==
    \A d \in Servers :
        /\ process[d] = cycle
        /\ log[d] # <<>>
        /\ log[d][Len(log[d])].process = cycle
        /\ \A i \in DOMAIN log[d] : log[d][i].process <= cycle

BeforeRestore == {"create", "add_data", "upload", "poll_upload", "delete",
                  "download", "poll_download", "restore"}

RestoreInLog ==
    /\ step \notin {"await_restore", "raised"} => at = 1
    /\ step \in {"add_data_again", "upgrade"} => cycle = 1
    /\ step \in BeforeRestore =>
         \A d \in Servers : server[d] = "up" /\ ~SawRestart(log[d])
    /\ \A d \in Servers : server[d] # "up" => ~SawRestart(log[d])
    /\ step = "await_restore" => \A d \in Servers : d < at => server[d] = "up"
    /\ step \in {"check", "add_data_again", "upgrade"} =>
         \A d \in Servers : server[d] = "up"

(* The restore takes the downloaded copies because the others are deleted: *)
(* a dbserver has none until its own download is through.                  *)
CopiesAreRemote ==
    /\ \A d \in Servers : local[d] = "downloaded" => remote[d]
    /\ step \in {"download", "poll_download", "restore", "await_restore", "check"} =>
         \A d \in Servers : local[d] # "created"
    /\ step \in {"await_restore", "check"} => \A d \in Servers : local[d] # "none"

(* The process that runs has logged that it restarts. *)
RestartLogged(entries) ==
    LET last == entries[Len(entries)].process
    IN  \E start, i \in DOMAIN entries :
            /\ start <= i
            /\ entries[start].process = last
            /\ entries[i].line = "restarting"

(* Whoever came back after the restore has logged both lines. *)
ReturnInLog ==
    step = "await_restore" =>
        \A d \in Servers :
            /\ server[d] = "restarting" => RestartLogged(log[d])
            /\ server[d] = "up" => SawRestart(log[d])

HBInv == HBTypeOK /\ LogsByProcess /\ RestoreInLog /\ CopiesAreRemote /\ ReturnInLog

(* The first dbserver, and the next one of the loop. *)
LEMMA FirstServer == 1 \in Servers
  BY DBServersAssumption DEF Servers

LEMMA NextServer == \A d \in Servers : d < DBServers => d + 1 \in Servers
  BY DBServersAssumption DEF Servers

(* What a log looks like with one more line. *)
LEMMA OneMoreLine ==
    ASSUME NEW s \in Seq(Entries), NEW e \in Entries
    PROVE  /\ Append(s, e) \in Seq(Entries)
           /\ Append(s, e) # <<>>
           /\ Len(Append(s, e)) = Len(s) + 1
           /\ DOMAIN Append(s, e) = 1..(Len(s) + 1)
           /\ Append(s, e)[Len(s) + 1] = e
           /\ \A i \in 1..Len(s) : Append(s, e)[i] = s[i]
  OBVIOUS

(* The line about the restore alone does not end the waiting: the line of  *)
(* the return has to follow.                                               *)
LEMMA RestartIsNotReturn ==
    ASSUME NEW s \in Seq(Entries), s # <<>>, ~SawRestart(s),
           NEW e \in Entries, e.process = s[Len(s)].process, e.line = "restarting"
    PROVE  ~SawRestart(Append(s, e))
<1> SUFFICES ASSUME SawRestart(Append(s, e))
             PROVE  FALSE
  OBVIOUS
<1> DEFINE t == Append(s, e)
<1>1. /\ Len(t) = Len(s) + 1 /\ DOMAIN t = 1..(Len(s) + 1) /\ t[Len(s) + 1] = e
      /\ \A i \in 1..Len(s) : t[i] = s[i]
      /\ Len(s) \in Nat /\ DOMAIN s = 1..Len(s)
  BY OneMoreLine
<1>2. PICK start, i, j \in DOMAIN t :
        /\ start <= i /\ i < j
        /\ t[start].process = e.process
        /\ t[i].line = "restarting"
        /\ t[j] = [process |-> e.process, line |-> "ready"]
  BY <1>1 DEF SawRestart
<1>3. j # Len(s) + 1
  BY <1>1, <1>2
<1>4. start \in 1..Len(s) /\ i \in 1..Len(s) /\ j \in 1..Len(s)
  BY <1>1, <1>2, <1>3
<1>5. SawRestart(s)
  BY <1>1, <1>2, <1>4 DEF SawRestart
<1> QED
  BY <1>5

(* A new process starts without a restore: the lines about the restores of *)
(* the process before it are above its first one.                          *)
LEMMA NewProcessIsQuiet ==
    ASSUME NEW s \in Seq(Entries), NEW e \in Entries,
           \A i \in DOMAIN s : s[i].process # e.process
    PROVE  ~SawRestart(Append(s, e))
<1> SUFFICES ASSUME SawRestart(Append(s, e))
             PROVE  FALSE
  OBVIOUS
<1> DEFINE t == Append(s, e)
<1>1. /\ Len(t) = Len(s) + 1 /\ DOMAIN t = 1..(Len(s) + 1) /\ t[Len(s) + 1] = e
      /\ \A i \in 1..Len(s) : t[i] = s[i]
      /\ Len(s) \in Nat /\ DOMAIN s = 1..Len(s)
  BY OneMoreLine
<1>2. PICK start, i, j \in DOMAIN t :
        start <= i /\ i < j /\ t[start].process = e.process
  BY <1>1 DEF SawRestart
<1>3. start = Len(s) + 1
  BY <1>1, <1>2
<1> QED
  BY <1>1, <1>2, <1>3

(* One line cannot tell of a restart. *)
LEMMA OneLineIsQuiet ==
    ASSUME NEW e \in Entries
    PROVE  ~SawRestart(<<e>>)
  BY DEF SawRestart

LEMMA HBInvInit == HBInit => HBInv
<1> SUFFICES ASSUME HBInit
             PROVE  HBInv
  OBVIOUS
<1> DEFINE e == [process |-> 1, line |-> "ready"]
<1>1. e \in Entries /\ e.process = 1
  BY DEF Entries
<1>2. /\ <<e>> \in Seq(Entries) /\ <<e>> # <<>> /\ Len(<<e>>) = 1
      /\ DOMAIN <<e>> = {1} /\ <<e>>[1] = e /\ ~SawRestart(<<e>>)
  BY <1>1, OneLineIsQuiet
<1>3. \A d \in Servers : log[d] = <<e>>
  BY DEF HBInit
<1>4. HBTypeOK
  <2>1. log \in [Servers -> Seq(Entries)]
    BY <1>2 DEF HBInit
  <2>2. transfer \in [Servers -> [Directions -> Status]]
    BY DEF HBInit, Status
  <2>3. /\ local \in [Servers -> {"none", "created", "downloaded"}]
        /\ remote \in [Servers -> BOOLEAN]
        /\ server \in [Servers -> {"up", "told", "restarting"}]
        /\ process \in [Servers -> 1..2]
    BY DEF HBInit
  <2>4. extra = FALSE /\ step = "create" /\ cycle = 1 /\ at = 1
    BY DEF HBInit
  <2>5. cycle \in 1..2 /\ at \in Servers
    BY <2>4, FirstServer
  <2>6. extra \in BOOLEAN
    BY <2>4
  <2> QED
    BY <2>1, <2>2, <2>3, <2>4, <2>5, <2>6 DEF HBTypeOK
<1>5. LogsByProcess
  BY <1>1, <1>2, <1>3 DEF HBInit, LogsByProcess
<1>6. RestoreInLog /\ CopiesAreRemote /\ ReturnInLog
  BY <1>2, <1>3 DEF HBInit, RestoreInLog, CopiesAreRemote, ReturnInLog
<1> QED
  BY <1>4, <1>5, <1>6 DEF HBInv

(* The lines the dbservers write are entries of their logs. *)
LEMMA LoggedType ==
    ASSUME HBTypeOK, NEW d \in Servers, NEW text \in {"ready", "restarting"}, Logged(d, text)
    PROVE  log' \in [Servers -> Seq(Entries)]
<1>1. [process |-> process[d], line |-> text] \in Entries
  BY DEF HBTypeOK, Entries
<1>2. Append(log[d], [process |-> process[d], line |-> text]) \in Seq(Entries)
  BY <1>1 DEF HBTypeOK
<1> QED
  BY <1>2 DEF Logged, HBTypeOK

LEMMA WorkTypes == ASSUME HBTypeOK, NEW d \in Servers, Work(d) PROVE HBTypeOK'
<1>1. CASE Restart(d)
  <2>1. log' \in [Servers -> Seq(Entries)]
    BY <1>1, LoggedType DEF Restart
  <2> QED
    BY <1>1, <2>1 DEF HBTypeOK, Restart, driverVars
<1>2. CASE ComeBack(d)
  <2>1. log' \in [Servers -> Seq(Entries)]
    BY <1>2, LoggedType DEF ComeBack
  <2> QED
    BY <1>2, <2>1 DEF HBTypeOK, ComeBack, driverVars
<1>3. ASSUME NEW dir \in Directions, TransferEnds(d, dir)
      PROVE  HBTypeOK'
  <2>1. transfer' \in [Servers -> [Directions -> Status]]
    <3>1. PICK end \in Status : transfer' = [transfer EXCEPT ![d][dir] = end]
      BY <1>3 DEF TransferEnds, Status
    <3> QED
      BY <3>1 DEF HBTypeOK
  <2>2. /\ local' \in [Servers -> {"none", "created", "downloaded"}]
        /\ remote' \in [Servers -> BOOLEAN]
    BY <1>3 DEF HBTypeOK, TransferEnds
  <2> QED
    BY <1>3, <2>1, <2>2 DEF HBTypeOK, TransferEnds, driverVars
<1> QED
  BY <1>1, <1>2, <1>3 DEF Work

LEMMA StartTypes ==
    ASSUME HBTypeOK, NEW dir \in Directions, Start(dir)
    PROVE  transfer' \in [Servers -> [Directions -> Status]]
  BY DEF HBTypeOK, Start, Status

LEMMA HBTypeStep == HBTypeOK /\ [HBNext]_hbVars => HBTypeOK'
<1> SUFFICES ASSUME HBTypeOK, [HBNext]_hbVars
             PROVE  HBTypeOK'
  OBVIOUS
<1> USE DEF HBTypeOK, deploymentVars, Fails
<1>1. CASE CreateBackup \/ DeleteBackup
  BY <1>1 DEF CreateBackup, DeleteBackup
<1>2. CASE CreateNonBackupData
  BY <1>2 DEF CreateNonBackupData
<1>3. CASE UploadBackup
  <2>1. CASE UNCHANGED deploymentVars
    BY <1>3, <2>1 DEF UploadBackup
  <2>2. CASE Start("up") /\ step' = "poll_upload"
    BY <1>3, <2>2, StartTypes DEF UploadBackup, Start, Directions
  <2> QED
    BY <1>3, <2>1, <2>2 DEF UploadBackup
<1>4. CASE DownloadBackup
  <2>1. CASE UNCHANGED deploymentVars
    BY <1>4, <2>1 DEF DownloadBackup
  <2>2. CASE Start("down") /\ step' = "poll_download"
    BY <1>4, <2>2, StartTypes DEF DownloadBackup, Start, Directions
  <2> QED
    BY <1>4, <2>1, <2>2 DEF DownloadBackup
<1>5. CASE PollUpload \/ PollDownload
  BY <1>5 DEF PollUpload, PollDownload, PollTransfer
<1>6. CASE RestoreBackup
  BY <1>6 DEF RestoreBackup
<1>7. ASSUME NEW d \in Servers, WaitForRestore(d)
      PROVE  HBTypeOK'
  BY <1>7, FirstServer, NextServer DEF WaitForRestore
<1>8. CASE Check
  BY <1>8 DEF Check
<1>9. CASE Upgrade
  <2>1. [process |-> 2, line |-> "ready"] \in Entries
    BY DEF Entries
  <2>2. \A d \in Servers : Append(log[d], [process |-> 2, line |-> "ready"]) \in Seq(Entries)
    BY <2>1
  <2>3. log' \in [Servers -> Seq(Entries)]
    BY <1>9, <2>2 DEF Upgrade
  <2> QED
    BY <1>9, <2>3 DEF Upgrade
<1>10. ASSUME NEW d \in Servers, Work(d)
       PROVE  HBTypeOK'
  BY <1>10, WorkTypes
<1>11. CASE UNCHANGED hbVars
  BY <1>11 DEF hbVars, driverVars
<1>12. ASSUME NEW d \in Servers, GiveUpWaiting(d)
       PROVE  HBTypeOK'
  BY <1>12 DEF GiveUpWaiting
<1> QED
  BY <1>1, <1>2, <1>3, <1>4, <1>5, <1>6, <1>7, <1>8, <1>9, <1>10, <1>11, <1>12
  DEF HBNext, Driver, Finished

(* The lines of a log are of the processes so far, the last of the one     *)
(* that runs.                                                              *)
LEMMA LogsStep == HBInv /\ [HBNext]_hbVars => LogsByProcess'
<1> SUFFICES ASSUME HBInv, [HBNext]_hbVars
             PROVE  LogsByProcess'
  OBVIOUS
<1>0. HBTypeOK /\ LogsByProcess
  BY DEF HBInv
<1>1. ASSUME NEW d \in Servers, NEW text \in {"ready", "restarting"}, Logged(d, text),
             UNCHANGED <<process, cycle>>
      PROVE  LogsByProcess'
  <2> DEFINE e == [process |-> cycle, line |-> text]
  <2>1. e \in Entries /\ log[d] \in Seq(Entries) /\ cycle \in 1..2
    BY <1>0 DEF HBTypeOK, Entries
  <2>2. log' = [log EXCEPT ![d] = Append(log[d], e)]
    BY <1>0, <1>1 DEF Logged, LogsByProcess
  <2>3. /\ log'[d] = Append(log[d], e)
        /\ \A x \in Servers \ {d} : log'[x] = log[x]
    BY <1>0, <2>2 DEF HBTypeOK
  <2>4. /\ log'[d] # <<>> /\ log'[d][Len(log'[d])].process = cycle
        /\ \A i \in DOMAIN log'[d] : log'[d][i].process <= cycle
    <3> HIDE DEF e
    <3>1. /\ Append(log[d], e) # <<>>
          /\ Append(log[d], e)[Len(Append(log[d], e))] = e
          /\ \A i \in DOMAIN Append(log[d], e) :
               Append(log[d], e)[i] = e \/ (i \in DOMAIN log[d] /\ Append(log[d], e)[i] = log[d][i])
      BY <2>1, OneMoreLine
    <3>2. e.process = cycle
      BY DEF e
    <3> QED
      BY <1>0, <2>1, <2>3, <3>1, <3>2 DEF LogsByProcess
  <2> QED
    BY <1>0, <1>1, <2>3, <2>4 DEF LogsByProcess
<1>2. ASSUME NEW d \in Servers, Work(d)
      PROVE  LogsByProcess'
  <2>1. CASE Restart(d)
    BY <1>1, <2>1 DEF Restart, driverVars
  <2>2. CASE ComeBack(d)
    BY <1>1, <2>2 DEF ComeBack, driverVars
  <2>3. ASSUME NEW dir \in Directions, TransferEnds(d, dir)
        PROVE  LogsByProcess'
    BY <1>0, <2>3 DEF TransferEnds, LogsByProcess, driverVars
  <2> QED
    BY <1>2, <2>1, <2>2, <2>3 DEF Work
<1>3. CASE Upgrade
  <2>1. CASE UNCHANGED <<process, log, cycle>>
    BY <1>0, <2>1 DEF LogsByProcess
  <2>2. CASE cycle' = 2 /\ process' = [d \in Servers |-> 2]
             /\ log' = [d \in Servers |-> Append(log[d], [process |-> 2, line |-> "ready"])]
    <3> DEFINE e == [process |-> 2, line |-> "ready"]
    <3>1. e \in Entries /\ e.process = 2
      BY DEF Entries
    <3> HIDE DEF e
    <3>2. SUFFICES ASSUME NEW d \in Servers
                   PROVE  /\ log'[d] # <<>> /\ log'[d][Len(log'[d])].process = 2
                          /\ \A i \in DOMAIN log'[d] : log'[d][i].process <= 2
      BY <2>2 DEF LogsByProcess
    <3>3. log'[d] = Append(log[d], e) /\ log[d] \in Seq(Entries)
      BY <1>0, <2>2 DEF HBTypeOK, e
    <3>4. /\ Append(log[d], e) # <<>>
          /\ Append(log[d], e)[Len(Append(log[d], e))] = e
          /\ \A i \in DOMAIN Append(log[d], e) :
               Append(log[d], e)[i] = e \/ (i \in DOMAIN log[d] /\ Append(log[d], e)[i] = log[d][i])
      BY <3>1, <3>3, OneMoreLine
    <3>5. \A i \in DOMAIN log[d] : log[d][i].process <= 2
      <4>1. \A i \in DOMAIN log[d] : log[d][i] \in Entries
        BY <3>3
      <4> QED
        BY <4>1 DEF Entries
    <3> QED
      BY <3>1, <3>3, <3>4, <3>5
  <2> QED
    BY <1>3, <2>1, <2>2 DEF Upgrade
<1>4. CASE UNCHANGED <<process, log, cycle>>
  BY <1>0, <1>4 DEF LogsByProcess
<1>5. UNCHANGED <<process, log, cycle>> \/ Upgrade \/ \E d \in Servers : Work(d)
  BY DEF HBNext, Driver, Finished, CreateBackup, CreateNonBackupData, UploadBackup, Start,
         DeleteBackup, DownloadBackup, PollUpload, PollDownload, PollTransfer, RestoreBackup,
         WaitForRestore, GiveUpWaiting, Check, Fails, hbVars, deploymentVars, driverVars
<1> QED
  BY <1>2, <1>3, <1>4, <1>5

(* A dbserver at work: only its return can be seen in its log. *)
LEMMA RestoreWorkStep ==
    ASSUME HBInv, NEW d \in Servers, Work(d)
    PROVE  RestoreInLog'
<1>0. HBTypeOK /\ LogsByProcess /\ RestoreInLog
  BY DEF HBInv
<1>1. CASE Restart(d)
  <2> DEFINE e == [process |-> process[d], line |-> "restarting"]
  <2>1. e \in Entries /\ log[d] \in Seq(Entries) /\ log[d] # <<>>
        /\ e.process = log[d][Len(log[d])].process /\ e.line = "restarting"
    BY <1>0 DEF HBTypeOK, Entries, LogsByProcess
  <2>2. ~SawRestart(log[d]) /\ step \notin BeforeRestore
    BY <1>0, <1>1 DEF Restart, RestoreInLog
  <2>3. ~SawRestart(Append(log[d], e))
    BY <2>1, <2>2, RestartIsNotReturn
  <2>4. log' = [log EXCEPT ![d] = Append(log[d], e)]
    BY <1>1 DEF Restart, Logged
  <2>5. ~SawRestart(log'[d]) /\ \A x \in Servers \ {d} : log'[x] = log[x]
    BY <1>0, <2>3, <2>4 DEF HBTypeOK
  <2> HIDE DEF e
  <2>6. /\ server[d] = "told" /\ \A x \in Servers \ {d} : server'[x] = server[x]
        /\ UNCHANGED <<step, cycle, at>>
    BY <1>0, <1>1 DEF Restart, HBTypeOK, driverVars
  <2> QED
    BY <1>0, <2>2, <2>5, <2>6 DEF RestoreInLog
<1>2. CASE ComeBack(d)
  <2>1. step \notin BeforeRestore
    BY <1>0, <1>2 DEF ComeBack, RestoreInLog
  <2>2. /\ server'[d] = "up" /\ \A x \in Servers \ {d} : server'[x] = server[x]
        /\ UNCHANGED <<step, cycle, at>>
    BY <1>0, <1>2 DEF ComeBack, HBTypeOK, driverVars
  <2>3. \A x \in Servers \ {d} : log'[x] = log[x]
    BY <1>0, <1>2 DEF ComeBack, Logged, HBTypeOK
  <2> QED
    BY <1>0, <2>1, <2>2, <2>3 DEF RestoreInLog
<1>3. ASSUME NEW dir \in Directions, TransferEnds(d, dir)
      PROVE  RestoreInLog'
  BY <1>0, <1>3 DEF TransferEnds, RestoreInLog, driverVars
<1> QED
  BY <1>1, <1>2, <1>3 DEF Work

(* After an upgrade there are new processes, whose logs start anew. *)
LEMMA UpgradeIsQuiet ==
    ASSUME HBInv, Upgrade, cycle' = 2
    PROVE  \A d \in Servers : ~SawRestart(log'[d])
<1> DEFINE e == [process |-> 2, line |-> "ready"]
<1> SUFFICES ASSUME NEW d \in Servers
             PROVE  ~SawRestart(log'[d])
  OBVIOUS
<1>1. e \in Entries /\ log[d] \in Seq(Entries)
  BY DEF HBInv, HBTypeOK, Entries
<1>2. cycle = 1 /\ log'[d] = Append(log[d], e)
  BY DEF HBInv, RestoreInLog, Upgrade
<1>3. \A i \in DOMAIN log[d] : log[d][i] \in Entries /\ log[d][i].process <= 1
  BY <1>1, <1>2 DEF HBInv, LogsByProcess
<1>4. \A i \in DOMAIN log[d] : log[d][i].process # e.process
  BY <1>3 DEF Entries
<1> QED
  BY <1>1, <1>2, <1>4, NewProcessIsQuiet

(* The driver goes on to the next dbserver only when it has seen this one  *)
(* come back.                                                              *)
LEMMA RestoreStep == HBInv /\ [HBNext]_hbVars => RestoreInLog'
<1> SUFFICES ASSUME HBInv, [HBNext]_hbVars
             PROVE  RestoreInLog'
  OBVIOUS
<1>0. HBTypeOK /\ LogsByProcess /\ RestoreInLog
  BY DEF HBInv
<1> USE DEF Fails, deploymentVars
<1>1. CASE CreateBackup \/ CreateNonBackupData
  BY <1>0, <1>1 DEF CreateBackup, CreateNonBackupData, RestoreInLog, BeforeRestore
<1>2. CASE UploadBackup \/ DeleteBackup \/ DownloadBackup
  BY <1>0, <1>2 DEF UploadBackup, DeleteBackup, DownloadBackup, Start, RestoreInLog,
                    BeforeRestore
<1>3. CASE PollUpload \/ PollDownload
  BY <1>0, <1>3 DEF PollUpload, PollDownload, PollTransfer, RestoreInLog, BeforeRestore
<1>4. CASE RestoreBackup
  <2>1. at = 1 /\ \A d \in Servers : ~SawRestart(log[d]) /\ ~(d < at)
    BY <1>0, <1>4 DEF RestoreBackup, RestoreInLog, BeforeRestore, Servers
  <2> QED
    BY <1>0, <1>4, <2>1 DEF RestoreBackup, RestoreInLog, BeforeRestore
<1>5. ASSUME NEW d \in Servers, WaitForRestore(d)
      PROVE  RestoreInLog'
  <2>1. server[d] = "up"
    BY <1>0, <1>5 DEF WaitForRestore, RestoreInLog
  <2>2. \A x \in Servers : x < d + 1 => server[x] = "up"
    BY <1>0, <1>5, <2>1 DEF WaitForRestore, RestoreInLog, Servers
  <2>3. CASE d < DBServers
    BY <1>0, <1>5, <2>2, <2>3 DEF WaitForRestore, RestoreInLog, BeforeRestore
  <2>4. CASE ~(d < DBServers)
    <3>1. \A x \in Servers : server[x] = "up"
      BY <2>2, <2>4, DBServersAssumption DEF Servers
    <3> QED
      BY <1>0, <1>5, <2>4, <3>1 DEF WaitForRestore, RestoreInLog, BeforeRestore
  <2> QED
    BY <2>3, <2>4
<1>6. CASE Check
  BY <1>0, <1>6 DEF Check, RestoreInLog, BeforeRestore
<1>7. CASE Upgrade
  <2>1. CASE cycle' = 2
    BY <1>0, <1>7, <2>1, UpgradeIsQuiet DEF Upgrade, RestoreInLog, BeforeRestore
  <2>2. CASE UNCHANGED <<process, log, cycle>> /\ step' = "done"
    BY <1>0, <1>7, <2>2 DEF Upgrade, RestoreInLog, BeforeRestore
  <2> QED
    BY <1>7, <2>1, <2>2 DEF Upgrade
<1>8. ASSUME NEW d \in Servers, Work(d)
      PROVE  RestoreInLog'
  BY <1>8, RestoreWorkStep
<1>9. CASE UNCHANGED hbVars
  BY <1>0, <1>9 DEF hbVars, driverVars, RestoreInLog
<1>10. ASSUME NEW d \in Servers, GiveUpWaiting(d)
       PROVE  RestoreInLog'
  BY <1>0, <1>10 DEF GiveUpWaiting, RestoreInLog, BeforeRestore
<1> QED
  BY <1>1, <1>2, <1>3, <1>4, <1>5, <1>6, <1>7, <1>8, <1>9, <1>10 DEF HBNext, Driver, Finished

(* The copies a dbserver has. *)
LEMMA CopiesStep == HBInv /\ [HBNext]_hbVars => CopiesAreRemote'
<1> SUFFICES ASSUME HBInv, [HBNext]_hbVars
             PROVE  CopiesAreRemote'
  OBVIOUS
<1>0. HBTypeOK /\ CopiesAreRemote
  BY DEF HBInv
<1> USE DEF Fails, deploymentVars
<1>1. CASE CreateBackup
  BY <1>0, <1>1 DEF CreateBackup, CopiesAreRemote
<1>2. CASE CreateNonBackupData \/ UploadBackup
  BY <1>0, <1>2 DEF CreateNonBackupData, UploadBackup, Start, CopiesAreRemote
<1>3. CASE DeleteBackup
  BY <1>0, <1>3 DEF DeleteBackup, CopiesAreRemote
<1>4. CASE DownloadBackup \/ PollUpload \/ PollDownload
  BY <1>0, <1>4 DEF DownloadBackup, PollUpload, PollDownload, PollTransfer, Start,
                    CopiesAreRemote
<1>5. CASE RestoreBackup
  BY <1>0, <1>5 DEF RestoreBackup, CopiesAreRemote
<1>6. ASSUME NEW d \in Servers, WaitForRestore(d)
      PROVE  CopiesAreRemote'
  BY <1>0, <1>6 DEF WaitForRestore, CopiesAreRemote
<1>7. CASE Check \/ Upgrade
  BY <1>0, <1>7 DEF Check, Upgrade, CopiesAreRemote
<1>8. ASSUME NEW d \in Servers, Work(d)
      PROVE  CopiesAreRemote'
  <2>1. CASE Restart(d) \/ ComeBack(d)
    BY <1>0, <2>1 DEF Restart, ComeBack, CopiesAreRemote, driverVars
  <2>2. ASSUME NEW dir \in Directions, TransferEnds(d, dir)
        PROVE  CopiesAreRemote'
    BY <1>0, <2>2 DEF TransferEnds, CopiesAreRemote, HBTypeOK, driverVars, Directions
  <2> QED
    BY <1>8, <2>1, <2>2 DEF Work
<1>9. CASE UNCHANGED hbVars
  BY <1>0, <1>9 DEF hbVars, driverVars, CopiesAreRemote
<1>10. ASSUME NEW d \in Servers, GiveUpWaiting(d)
       PROVE  CopiesAreRemote'
  BY <1>0, <1>10 DEF GiveUpWaiting, CopiesAreRemote
<1> QED
  BY <1>1, <1>2, <1>3, <1>4, <1>5, <1>6, <1>7, <1>8, <1>9, <1>10 DEF HBNext, Driver, Finished

(* The line about the restore, and the line about the return after it, are *)
(* found by whoever reads the log then. *)
LEMMA RestartIsLogged ==
    ASSUME NEW s \in Seq(Entries), NEW e \in Entries, e.line = "restarting"
    PROVE  RestartLogged(Append(s, e))
<1> DEFINE t == Append(s, e)
<1>1. /\ Len(t) = Len(s) + 1 /\ DOMAIN t = 1..(Len(s) + 1) /\ t[Len(s) + 1] = e
      /\ Len(s) \in Nat
  BY OneMoreLine
<1> QED
  BY <1>1 DEF RestartLogged

LEMMA ReturnIsLogged ==
    ASSUME NEW s \in Seq(Entries), s # <<>>, RestartLogged(s),
           NEW e \in Entries, e = [process |-> s[Len(s)].process, line |-> "ready"]
    PROVE  SawRestart(Append(s, e))
<1> DEFINE t == Append(s, e)
<1>1. /\ Len(t) = Len(s) + 1 /\ DOMAIN t = 1..(Len(s) + 1) /\ t[Len(s) + 1] = e
      /\ \A i \in 1..Len(s) : t[i] = s[i]
      /\ Len(s) \in Nat /\ DOMAIN s = 1..Len(s)
  BY OneMoreLine
<1>2. PICK start, i \in 1..Len(s) :
        /\ start <= i
        /\ s[start].process = s[Len(s)].process
        /\ s[i].line = "restarting"
  BY <1>1 DEF RestartLogged
<1>3. /\ start \in DOMAIN t /\ i \in DOMAIN t /\ Len(s) + 1 \in DOMAIN t
      /\ i < Len(s) + 1 /\ t[start] = s[start] /\ t[i] = s[i]
  BY <1>1, <1>2
<1>4. t[Len(t)].process = s[Len(s)].process
  BY <1>1
<1> QED
  BY <1>1, <1>2, <1>3, <1>4 DEF SawRestart

(* A dbserver at work logs what it does; the driver does not look away. *)
LEMMA ReturnStep == HBInv /\ [HBNext]_hbVars => ReturnInLog'
<1> SUFFICES ASSUME HBInv, [HBNext]_hbVars
             PROVE  ReturnInLog'
  OBVIOUS
<1>0. HBTypeOK /\ LogsByProcess /\ ReturnInLog
  BY DEF HBInv
<1>1. ASSUME NEW d \in Servers, Restart(d)
      PROVE  ReturnInLog'
  <2> DEFINE e == [process |-> process[d], line |-> "restarting"]
  <2>1. e \in Entries /\ log[d] \in Seq(Entries) /\ e.line = "restarting"
    BY <1>0 DEF HBTypeOK, Entries
  <2>2. log' = [log EXCEPT ![d] = Append(log[d], e)]
    BY <1>1 DEF Restart, Logged
  <2>3. RestartLogged(log'[d]) /\ \A x \in Servers \ {d} : log'[x] = log[x]
    BY <1>0, <2>1, <2>2, RestartIsLogged DEF HBTypeOK
  <2> HIDE DEF e
  <2>4. /\ server'[d] = "restarting" /\ \A x \in Servers \ {d} : server'[x] = server[x]
        /\ UNCHANGED step
    BY <1>0, <1>1 DEF Restart, HBTypeOK, driverVars
  <2> QED
    BY <1>0, <2>3, <2>4 DEF ReturnInLog
<1>2. ASSUME NEW d \in Servers, ComeBack(d)
      PROVE  ReturnInLog'
  <2> DEFINE e == [process |-> process[d], line |-> "ready"]
  <2>1. e \in Entries /\ log[d] \in Seq(Entries) /\ log[d] # <<>>
        /\ e = [process |-> log[d][Len(log[d])].process, line |-> "ready"]
    BY <1>0 DEF HBTypeOK, Entries, LogsByProcess
  <2>2. log' = [log EXCEPT ![d] = Append(log[d], e)]
    BY <1>2 DEF ComeBack, Logged
  <2>3. /\ log'[d] = Append(log[d], e)
        /\ \A x \in Servers \ {d} : log'[x] = log[x]
    BY <1>0, <2>2 DEF HBTypeOK
  <2> HIDE DEF e
  <2>4. /\ server[d] = "restarting" /\ server'[d] = "up"
        /\ \A x \in Servers \ {d} : server'[x] = server[x]
        /\ UNCHANGED step
    BY <1>0, <1>2 DEF ComeBack, HBTypeOK, driverVars
  <2>5. step = "await_restore" => SawRestart(log'[d])
    BY <1>0, <2>1, <2>3, <2>4, ReturnIsLogged DEF ReturnInLog
  <2> QED
    BY <1>0, <2>3, <2>4, <2>5 DEF ReturnInLog
<1>3. ASSUME NEW d \in Servers, NEW dir \in Directions, TransferEnds(d, dir)
      PROVE  ReturnInLog'
  BY <1>0, <1>3 DEF TransferEnds, ReturnInLog, driverVars
<1>4. CASE RestoreBackup
  BY <1>0, <1>4 DEF RestoreBackup, ReturnInLog, Fails, deploymentVars
<1>5. ASSUME NEW d \in Servers, WaitForRestore(d)
      PROVE  ReturnInLog'
  BY <1>0, <1>5 DEF WaitForRestore, ReturnInLog, deploymentVars
<1>6. CASE \/ CreateBackup \/ CreateNonBackupData \/ UploadBackup \/ PollUpload
           \/ DeleteBackup \/ DownloadBackup \/ PollDownload \/ Check \/ Upgrade
           \/ \E d \in Servers : GiveUpWaiting(d)
  <2>1. step' # "await_restore"
    BY <1>6 DEF CreateBackup, CreateNonBackupData, UploadBackup, PollUpload, DeleteBackup,
                DownloadBackup, PollDownload, PollTransfer, Check, Upgrade, GiveUpWaiting,
                Fails
  <2> QED
    BY <2>1 DEF ReturnInLog
<1>7. CASE UNCHANGED hbVars
  BY <1>0, <1>7 DEF hbVars, deploymentVars, driverVars, ReturnInLog
<1> QED
  BY <1>1, <1>2, <1>3, <1>4, <1>5, <1>6, <1>7 DEF HBNext, Driver, Work, Finished

LEMMA SpecHBInv == HBSpec => []HBInv
<1>1. HBInv /\ [HBNext]_hbVars => HBInv'
  BY HBTypeStep, LogsStep, RestoreStep, CopiesStep, ReturnStep DEF HBInv
<1> QED
  BY HBInvInit, <1>1, PTL DEF HBSpec

(* The variables of dbservers and driver keep their types; the loop over   *)
(* the dbservers stays inside them.                                        *)
THEOREM HBTypeCorrect == HBSpec => []HBTypeOK
<1>1. HBInv => HBTypeOK
  BY DEF HBInv
<1> QED
  BY SpecHBInv, <1>1, PTL

(* The log tells who has come back from a restore, and when the data is    *)
(* checked every dbserver has.                                             *)
THEOREM AllCameBack == HBSpec => []RestoreAwaited
<1>1. HBInv => RestoreAwaited
  <2> SUFFICES ASSUME HBInv
               PROVE  RestoreAwaited
    OBVIOUS
  <2>1. step = "await_restore" =>
          \A d \in Servers : SawRestart(log[d]) <=> server[d] = "up"
    BY DEF HBInv, RestoreInLog, ReturnInLog
  <2> QED
    BY <2>1 DEF HBInv, RestoreInLog, RestoreAwaited
<1> QED
  BY SpecHBInv, <1>1, PTL

(* The copies a restore uses went through the remote directory, on every   *)
(* dbserver, although the first transfer that is through ends the polling. *)
THEOREM RestoreTestsTransfer == HBSpec => []RestoreIsTested
<1>1. HBInv => RestoreIsTested
  BY DEF HBInv, HBTypeOK, CopiesAreRemote, RestoreIsTested
<1> QED
  BY SpecHBInv, <1>1, PTL


-----------------------------------------------------------------------------
(* That the section ends needs fairness, but its two halves do not: nobody *)
(* waits for what cannot come any more, and every step leaves less to do.  *)

(* What was started has a status. *)
TransfersStarted ==
    /\ step = "poll_upload" => \A d \in Servers : transfer[d]["up"] # "none"
    /\ step = "poll_download" => \A d \in Servers : transfer[d]["down"] # "none"

(* The driver finds what it polls for, or need not poll. *)
DriverGoesOn ==
    /\ step = "poll_upload" =>
         \E d \in Servers : transfer[d]["up"] \in {"COMPLETED", "FAILED"}
    /\ step = "poll_download" =>
         \E d \in Servers : transfer[d]["down"] \in {"COMPLETED", "FAILED"}
    /\ step = "await_restore" => SawRestart(log[at])

Busy(d) == server[d] # "up" \/ \E dir \in Directions : transfer[d][dir] = "STARTED"

LEMMA TransfersStep == HBInv /\ TransfersStarted /\ [HBNext]_hbVars => TransfersStarted'
<1> SUFFICES ASSUME HBInv, TransfersStarted, [HBNext]_hbVars
             PROVE  TransfersStarted'
  OBVIOUS
<1>0. transfer \in [Servers -> [Directions -> Status]]
  BY DEF HBInv, HBTypeOK
<1>1. CASE UploadBackup \/ DownloadBackup
  <2>1. ASSUME NEW dir \in Directions, Start(dir)
        PROVE  \A d \in Servers : transfer'[d][dir] # "none"
    BY <1>0, <2>1 DEF Start
  <2>2. step' = "poll_upload" => Start("up")
    BY <1>1 DEF UploadBackup, DownloadBackup, Fails
  <2>3. step' = "poll_download" => Start("down")
    BY <1>1 DEF UploadBackup, DownloadBackup, Fails
  <2> QED
    BY <2>1, <2>2, <2>3 DEF TransfersStarted, Directions
<1>2. ASSUME NEW d \in Servers, NEW dir \in Directions, TransferEnds(d, dir)
      PROVE  TransfersStarted'
  <2>1. PICK end \in {"COMPLETED", "FAILED"} : transfer' = [transfer EXCEPT ![d][dir] = end]
    BY <1>2 DEF TransferEnds
  <2>2. \A x \in Servers : \A y \in Directions :
          transfer[x][y] # "none" => transfer'[x][y] # "none"
    BY <1>0, <2>1
  <2>3. UNCHANGED step
    BY <1>2 DEF TransferEnds, driverVars
  <2> QED
    BY <2>2, <2>3 DEF TransfersStarted, Directions
<1>3. CASE \/ CreateBackup \/ CreateNonBackupData \/ PollUpload \/ DeleteBackup
           \/ PollDownload \/ RestoreBackup \/ (\E d \in Servers : WaitForRestore(d))
           \/ (\E d \in Servers : GiveUpWaiting(d)) \/ Check \/ Upgrade
  <2>1. step' \notin {"poll_upload", "poll_download"}
    BY <1>3 DEF CreateBackup, CreateNonBackupData, PollUpload, DeleteBackup, PollDownload,
                PollTransfer, RestoreBackup, WaitForRestore, GiveUpWaiting, Check, Upgrade,
                Fails
  <2> QED
    BY <2>1 DEF TransfersStarted
<1>4. ASSUME NEW d \in Servers, Restart(d) \/ ComeBack(d)
      PROVE  TransfersStarted'
  BY <1>4 DEF Restart, ComeBack, TransfersStarted, driverVars
<1>5. CASE UNCHANGED hbVars
  BY <1>5 DEF hbVars, deploymentVars, driverVars, TransfersStarted
<1> QED
  BY <1>1, <1>2, <1>3, <1>4, <1>5 DEF HBNext, Driver, Work, Finished

(* As long as the section is not over, the driver finds what it waits for  *)
(* or some dbserver is still at work.                                      *)
THEOREM SomebodyActs == HBSpec => [](RunOver \/ DriverGoesOn \/ \E d \in Servers : Busy(d))
<1>1. HBInv /\ TransfersStarted => DriverGoesOn \/ \E d \in Servers : Busy(d)
  <2> SUFFICES ASSUME HBInv, TransfersStarted, \A d \in Servers : ~Busy(d)
               PROVE  DriverGoesOn
    OBVIOUS
  <2>1. \A d \in Servers : /\ server[d] = "up"
                           /\ \A dir \in Directions : transfer[d][dir] # "STARTED"
    BY DEF Busy
  <2>2. step = "await_restore" => SawRestart(log[at])
    BY <2>1 DEF HBInv, HBTypeOK, ReturnInLog
  <2>3. \A dir \in Directions : transfer[1][dir] \in Status \ {"STARTED"}
    BY <2>1, FirstServer DEF HBInv, HBTypeOK
  <2> QED
    BY <2>2, <2>3, FirstServer DEF DriverGoesOn, TransfersStarted, Status, Directions
<1>2. HBInit => TransfersStarted
  BY DEF HBInit, TransfersStarted
<1> QED
  BY <1>1, <1>2, TransfersStep, SpecHBInv, PTL DEF HBSpec

(* The steps of the driver up to the end of the section, but for the loop  *)
(* over the dbservers, and what is left of that loop. *)
Place(s) ==
    CASE s = "create" -> 10
      [] s = "add_data" -> 9
      [] s = "upload" -> 8
      [] s = "poll_upload" -> 7
      [] s = "delete" -> 6
      [] s = "download" -> 5
      [] s = "poll_download" -> 4
      [] s = "restore" -> 3
      [] s = "await_restore" -> 2
      [] s = "check" -> 1
      [] s = "add_data_again" -> 0
      [] OTHER -> -1

LoopLeft ==
    (IF step = "await_restore" THEN DBServers - at
     ELSE IF step \in BeforeRestore THEN DBServers ELSE 0)
      + (IF cycle = 1 THEN DBServers ELSE 0)

DriverLeft ==
    IF RunOver THEN 0
    ELSE Place(step) + LoopLeft + (IF cycle = 1 THEN 10 ELSE 0)

(* What the dbservers have been told and have not done. *)
Told == {d \in Servers : server[d] = "told"}
Restarting == {d \in Servers : server[d] = "restarting"}
Transferring == {x \in Servers \X Directions : transfer[x[1]][x[2]] = "STARTED"}
ServersLeft == 2 * Cardinality(Told) + Cardinality(Restarting) + Cardinality(Transferring)

LEMMA LoopTyped ==
    ASSUME HBInv
    PROVE  /\ DBServers \in Nat /\ DBServers >= 1
           /\ at \in Nat /\ 1 <= at /\ at <= DBServers
           /\ LoopLeft \in Nat
<1>1. DBServers \in Nat /\ DBServers >= 1
  BY DBServersAssumption
<1>2. at \in Nat /\ 1 <= at /\ at <= DBServers
  BY <1>1 DEF HBInv, HBTypeOK, Servers
<1> QED
  BY <1>1, <1>2 DEF LoopLeft

LEMMA DriverLeftTyped ==
    ASSUME HBInv
    PROVE  /\ DriverLeft \in Nat
           /\ ~RunOver => DriverLeft >= 1
<1>1. CASE RunOver
  BY <1>1 DEF DriverLeft
<1>2. CASE ~RunOver
  <2>1. DriverLeft = Place(step) + LoopLeft + (IF cycle = 1 THEN 10 ELSE 0)
    BY <1>2 DEF DriverLeft
  <2>2. CASE step \in {"add_data_again", "upgrade"}
    <3>1. cycle = 1 /\ Place(step) \in {0, -1}
      BY <2>2 DEF HBInv, RestoreInLog, Place
    <3> QED
      BY <1>2, <2>1, <3>1, LoopTyped
  <2>3. CASE step \notin {"add_data_again", "upgrade"}
    <3>1. Place(step) \in 1..10
      BY <1>2, <2>3 DEF HBInv, HBTypeOK, RunOver, Place
    <3> QED
      BY <1>2, <2>1, <3>1, LoopTyped
  <2> QED
    BY <2>2, <2>3
<1> QED
  BY <1>1, <1>2

(* Where the driver goes on to, it has less before it. *)
LEMMA DriverStep == ASSUME HBInv, HBInv', Driver PROVE DriverLeft' < DriverLeft
<1>0. /\ ~RunOver /\ DriverLeft >= 1 /\ DriverLeft \in Nat
      /\ DBServers \in Nat /\ DBServers >= 1
  <2>1. ~RunOver
    BY DEF Driver, CreateBackup, CreateNonBackupData, UploadBackup, PollUpload, DeleteBackup,
           DownloadBackup, PollDownload, PollTransfer, RestoreBackup, WaitForRestore,
           GiveUpWaiting, Check, Upgrade, RunOver
  <2> QED
    BY <2>1, LoopTyped, DriverLeftTyped
<1>1. CASE step' \in {"raised", "done"}
  <2>1. DriverLeft' = 0
    BY <1>1 DEF DriverLeft, RunOver
  <2> QED
    BY <1>0, <2>1
<1>2. ASSUME step' \notin {"raised", "done"}
      PROVE  /\ DriverLeft = Place(step) + LoopLeft + (IF cycle = 1 THEN 10 ELSE 0)
             /\ DriverLeft' = Place(step') + LoopLeft' + (IF cycle' = 1 THEN 10 ELSE 0)
  BY <1>0, <1>2 DEF DriverLeft, RunOver
<1>3. /\ LoopLeft \in Nat /\ LoopLeft' \in Nat /\ at \in Nat /\ at' \in Nat
      /\ 1 <= at /\ at <= DBServers /\ cycle \in 1..2
  <2>1. at' \in Nat /\ at' <= DBServers
    BY <1>0 DEF HBInv, HBTypeOK, Servers
  <2>2. LoopLeft' \in Nat
    <3>1. DBServers - at' \in Nat
      <4>1. \A a, b \in Nat : a <= b => b - a \in Nat
        OBVIOUS
      <4> QED
        BY <2>1, <4>1, DBServersAssumption
    <3>2. LoopLeft' = (IF step' = "await_restore" THEN DBServers - at'
                       ELSE IF step' \in BeforeRestore THEN DBServers ELSE 0)
                        + (IF cycle' = 1 THEN DBServers ELSE 0)
      BY DEF LoopLeft, BeforeRestore
    <3> QED
      BY <1>0, <3>1, <3>2
  <2> QED
    BY <2>1, <2>2, LoopTyped DEF HBInv, HBTypeOK
<1>4. ASSUME step' \notin {"raised", "done"}, UNCHANGED <<cycle, at>>,
             \/ step = "create" /\ step' = "add_data"
             \/ step = "add_data" /\ step' = "upload"
             \/ step = "add_data_again" /\ step' = "upgrade"
             \/ step = "upload" /\ step' = "poll_upload"
             \/ step = "poll_upload" /\ step' = "delete"
             \/ step = "delete" /\ step' = "download"
             \/ step = "download" /\ step' = "poll_download"
             \/ step = "poll_download" /\ step' = "restore"
             \/ step = "restore" /\ step' = "await_restore"
             \/ step = "check" /\ step' = "add_data_again"
      PROVE  DriverLeft' < DriverLeft
  <2>1. LoopLeft' <= LoopLeft
    BY <1>0, <1>3, <1>4 DEF LoopLeft, BeforeRestore
  <2>2. Place(step) \in Int /\ Place(step') = Place(step) - 1
    BY <1>4 DEF Place
  <2> QED
    BY <1>2, <1>3, <1>4, <2>1, <2>2
<1>5. ASSUME NEW d \in Servers, WaitForRestore(d)
      PROVE  DriverLeft' < DriverLeft
  <2>1. /\ step = "await_restore" /\ d = at /\ UNCHANGED cycle
        /\ \/ d < DBServers /\ at' = d + 1 /\ step' = "await_restore"
           \/ ~(d < DBServers) /\ step' = "check"
    BY <1>5 DEF WaitForRestore
  <2>2. CASE d < DBServers
    <3>1. LoopLeft' = LoopLeft - 1 /\ Place(step') = 2 /\ Place(step) = 2
      BY <1>0, <1>3, <2>1, <2>2 DEF LoopLeft, Place
    <3> QED
      BY <1>2, <1>3, <2>1, <2>2, <3>1
  <2>3. CASE ~(d < DBServers)
    <3>1. LoopLeft' <= LoopLeft /\ Place(step') = 1 /\ Place(step) = 2
      BY <1>0, <1>3, <2>1, <2>3 DEF LoopLeft, Place, BeforeRestore
    <3> QED
      BY <1>2, <1>3, <2>1, <2>3, <3>1
  <2> QED
    BY <2>2, <2>3
<1>6. ASSUME Upgrade, step' \notin {"raised", "done"}
      PROVE  DriverLeft' < DriverLeft
  <2>1. step = "upgrade" /\ cycle = 1 /\ step' = "upload" /\ cycle' = 2 /\ at' = at
    BY <1>6 DEF Upgrade, HBInv, RestoreInLog
  <2>2. LoopLeft' = LoopLeft /\ Place(step') = 8 /\ Place(step) = -1
    BY <1>0, <2>1 DEF LoopLeft, Place, BeforeRestore
  <2> QED
    BY <1>2, <1>3, <1>6, <2>1, <2>2
<1>7. CASE \/ CreateBackup \/ CreateNonBackupData \/ UploadBackup \/ PollUpload
           \/ DeleteBackup \/ DownloadBackup \/ PollDownload \/ RestoreBackup \/ Check
  BY <1>1, <1>4, <1>7
  DEF CreateBackup, CreateNonBackupData, UploadBackup, PollUpload, PollTransfer, DeleteBackup,
      DownloadBackup, PollDownload, RestoreBackup, Check, Fails
<1>8. ASSUME NEW d \in Servers, GiveUpWaiting(d)
      PROVE  DriverLeft' < DriverLeft
  BY <1>1, <1>8 DEF GiveUpWaiting
<1> QED
  BY <1>1, <1>5, <1>6, <1>7, <1>8 DEF Driver

LEMMA ServersLeftTyped ==
    ASSUME HBTypeOK
    PROVE  /\ IsFiniteSet(Told) /\ IsFiniteSet(Restarting) /\ IsFiniteSet(Transferring)
           /\ Cardinality(Told) \in Nat /\ Cardinality(Restarting) \in Nat
           /\ Cardinality(Transferring) \in Nat
<1>1. IsFiniteSet(Servers)
  BY FS_Interval, DBServersAssumption DEF Servers
<1>2. IsFiniteSet(Directions)
  <2>1. Directions = {"up"} \cup {"down"}
    BY DEF Directions
  <2> QED
    BY <2>1, FS_EmptySet, FS_AddElement, FS_Singleton, FS_Union
<1>3. IsFiniteSet(Servers \X Directions)
  BY <1>1, <1>2, FS_Product
<1>4. IsFiniteSet(Told) /\ IsFiniteSet(Restarting) /\ IsFiniteSet(Transferring)
  BY <1>1, <1>3, FS_Subset DEF Told, Restarting, Transferring
<1> QED
  BY <1>4, FS_CardinalityType

(* What a dbserver does, it has not to do any more. *)
LEMMA WorkShrinks ==
    ASSUME HBTypeOK, NEW d \in Servers, Work(d)
    PROVE  ServersLeft' < ServersLeft
<1> USE ServersLeftTyped
<1>1. CASE Restart(d)
  <2>1. /\ server[d] = "told" /\ server' = [server EXCEPT ![d] = "restarting"]
        /\ UNCHANGED transfer
    BY <1>1 DEF Restart
  <2>2. /\ d \in Told /\ Told' = Told \ {d}
        /\ d \notin Restarting /\ Restarting' = Restarting \cup {d}
        /\ Transferring' = Transferring
    BY <2>1 DEF HBTypeOK, Told, Restarting, Transferring, Servers, Directions
  <2>3. /\ Cardinality(Told') = Cardinality(Told) - 1
        /\ Cardinality(Restarting') = Cardinality(Restarting) + 1
    BY <2>2, FS_RemoveElement, FS_AddElement
  <2> QED
    BY <2>2, <2>3 DEF ServersLeft
<1>2. CASE ComeBack(d)
  <2>1. /\ server[d] = "restarting" /\ server' = [server EXCEPT ![d] = "up"]
        /\ UNCHANGED transfer
    BY <1>2 DEF ComeBack
  <2>2. /\ Told' = Told /\ Transferring' = Transferring
        /\ d \in Restarting /\ Restarting' = Restarting \ {d}
    BY <2>1 DEF HBTypeOK, Told, Restarting, Transferring, Servers, Directions
  <2>3. Cardinality(Restarting') = Cardinality(Restarting) - 1
    BY <2>2, FS_RemoveElement
  <2> QED
    BY <2>2, <2>3 DEF ServersLeft
<1>3. ASSUME NEW dir \in Directions, TransferEnds(d, dir)
      PROVE  ServersLeft' < ServersLeft
  <2>1. PICK end \in {"COMPLETED", "FAILED"} : transfer' = [transfer EXCEPT ![d][dir] = end]
    BY <1>3 DEF TransferEnds
  <2>2. transfer[d][dir] = "STARTED" /\ UNCHANGED server
    BY <1>3 DEF TransferEnds
  <2>3. \A x \in Servers \X Directions :
          transfer'[x[1]][x[2]] = IF x = <<d, dir>> THEN end ELSE transfer[x[1]][x[2]]
    BY <2>1 DEF HBTypeOK
  <2>4. <<d, dir>> \in Transferring /\ Transferring' = Transferring \ {<<d, dir>>}
    BY <2>2, <2>3 DEF Transferring, Servers, Directions
  <2>5. Cardinality(Transferring') = Cardinality(Transferring) - 1
    BY <2>4, FS_RemoveElement
  <2>6. Told' = Told /\ Restarting' = Restarting
    BY <2>2 DEF Told, Restarting, Servers
  <2> QED
    BY <2>5, <2>6 DEF ServersLeft
<1> QED
  BY <1>1, <1>2, <1>3 DEF Work

(* Every step brings the driver nearer to the end of the section, or leaves *)
(* it where it is and the dbservers with less to do: no run of the section  *)
(* is endless.                                                              *)
THEOREM SectionShrinks ==
    HBSpec =>
      /\ [](DriverLeft \in Nat /\ ServersLeft \in Nat)
      /\ [][\/ DriverLeft' < DriverLeft
            \/ DriverLeft' = DriverLeft /\ ServersLeft' < ServersLeft]_hbVars
<1>1. HBInv => DriverLeft \in Nat /\ ServersLeft \in Nat
  <2> SUFFICES ASSUME HBInv
               PROVE  DriverLeft \in Nat /\ ServersLeft \in Nat
    OBVIOUS
  <2>1. HBTypeOK
    BY DEF HBInv
  <2> QED
    BY <2>1, DriverLeftTyped, ServersLeftTyped DEF ServersLeft
<1>2. HBInv /\ HBInv' /\ [HBNext]_hbVars =>
        [\/ DriverLeft' < DriverLeft
         \/ DriverLeft' = DriverLeft /\ ServersLeft' < ServersLeft]_hbVars
  <2> SUFFICES ASSUME HBInv, HBInv', HBNext, ~UNCHANGED hbVars
               PROVE  \/ DriverLeft' < DriverLeft
                      \/ DriverLeft' = DriverLeft /\ ServersLeft' < ServersLeft
    OBVIOUS
  <2>1. CASE Driver
    BY <2>1, DriverStep
  <2>2. ASSUME NEW d \in Servers, Work(d)
        PROVE  DriverLeft' = DriverLeft /\ ServersLeft' < ServersLeft
    <3>1. UNCHANGED <<step, cycle, at>>
      BY <2>2 DEF Work, Restart, ComeBack, TransferEnds, driverVars
    <3>2. DriverLeft' = DriverLeft
      BY <3>1 DEF DriverLeft, LoopLeft, RunOver, Place
    <3>3. HBTypeOK
      BY DEF HBInv
    <3> QED
      BY <2>2, <3>2, <3>3, WorkShrinks
  <2> QED
    BY <2>1, <2>2 DEF HBNext, Finished
<1> QED
  BY <1>1, <1>2, SpecHBInv, PTL DEF HBSpec
=============================================================================
