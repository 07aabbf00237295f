---------------------------- MODULE TestRunProofs ----------------------------
(***************************************************************************)
(* Theorems about TestRun, for any number of scenarios, any choice of      *)
(* modes, and with operations that may or may not fail.                    *)
(***************************************************************************)
EXTENDS TestRun, TLAPS

(* Between the installation of the debug package and the tests, and from   *)
(* there to the end of a scenario. *)
Testing == {"restart", "stop service", "deploy", "deployed"}
Leaving == {"purge debug", "purge", "remove residue", "disconnect", "kill all"}

(* Only cleanup.py works without knowing an edition; it has steps of its   *)
(* own and shares those of the uninstallation.                             *)
Editioned ==
    /\ mode # "cleanup" => edition \in Editions
    /\ pc \in {"stop", "stop again", "clean dirs"} => mode = "cleanup"
    /\ mode = "cleanup" =>
         pc \in {"idle", "stop", "stop again", "clean dirs", "purge debug", "purge",
                "remove residue", "cleaned"}

(* The file tells of the package, except where the code has not come to    *)
(* write it; cleanup.py works with what the file says.                     *)
Recorded ==
    /\ pc = "save" => package = edition
    /\ package \in {None, config} \/ lostConfig \/ pc = "save"
    /\ mode = "cleanup" =>
         /\ pc \in {"stop", "stop again", "clean dirs", "purge debug", "purge"}
              => edition = config
         /\ pc = "remove residue" => package = None \/ lostConfig

(* The modes of test.py that kill before the first scenario. *)
Killing == {"all", "install", "system"}
Going == pc \notin {"idle", "raised"}

(* Has the invocation killed the processes of a list? *)
Once ==
    \/ scenario > 1
    \/ mode \in Killing /\ pc \notin {"make runner", "kill"}
    \/ mode = "cleanup" /\ pc # "stop"

Own == IF pc = "deployed" THEN {"starter", "server"} ELSE {}

(* The first kill ends the starters; what they spawned late is in the list *)
(* of the second one, where no starter spawns any more.                    *)
Alone ==
    /\ listing => pc \in {"kill", "kill all", "stop", "stop again"}
    /\ Going /\ Once => processes \cap Starters \subseteq Own
    /\ Going /\ Once /\ listing => "late server" \notin processes
    /\ Going /\ mode \in Killing /\ scenario > 1 => processes \subseteq Own
    /\ mode = "cleanup" /\ pc \notin {"idle", "stop", "stop again"} =>
         processes = {} /\ ~service

(* The knowledge of the debug package travels from the runner that         *)
(* installs it through inst.cfg to each later one.                         *)
DebugKnown ==
    mode = "all" =>
        /\ scenario > 1 \/ pc \in Testing \cup Leaving => instDebug
        /\ (scenario > 1 /\ pc = "kill") \/ pc \in Testing => runDebug

Uninstalled ==
    mode = "all" =>
        /\ pc \in {"purge", "remove residue"} => debug # edition
        /\ pc = "remove residue" => package # edition
        /\ scenario = NumScenarios /\ pc \in {"disconnect", "kill all"} =>
             package # edition /\ debug # edition /\ ~residue

IInv ==
    /\ TypeOK
    /\ Editioned
    /\ Recorded
    /\ Alone
    /\ DebugKnown
    /\ Uninstalled
    /\ AllRunUninstalls
    /\ NothingLeftRunning
    /\ CleanupFindsPackage

-----------------------------------------------------------------------------
LEMMA FirstScenario == NumScenarios \in Nat /\ 1 \in Scenarios
  BY NumScenariosAssumption DEF Scenarios

LEMMA FirstIsNotLater == \A n \in Nat : n = 1 => ~(n > 1)
  OBVIOUS

(* The loop counts up to the last scenario. *)
LEMMA NextScenario ==
    \A s \in Scenarios : s < NumScenarios => s + 1 \in Scenarios
  BY NumScenariosAssumption DEF Scenarios

LEMMA InitIInv == Init => IInv
<1> SUFFICES ASSUME Init PROVE IInv
  OBVIOUS
<1>1. TypeOK
  BY FirstScenario DEF Init, TypeOK, Editions, None
<1>2. Editioned /\ Recorded
  BY DEF Init, Editioned, Recorded
<1>3. Alone /\ DebugKnown /\ Uninstalled
  BY DEF Init, Alone, Going, DebugKnown, Uninstalled
<1>4. AllRunUninstalls /\ NothingLeftRunning /\ CleanupFindsPackage
  BY DEF Init, AllRunUninstalls, NothingLeftRunning, CleanupFindsPackage
<1> QED BY <1>1, <1>2, <1>3, <1>4 DEF IInv

(* Every operation keeps the types. *)
LEMMA LeftIsRunning ==
    /\ \A ps : Left(ps) \subseteq {"left starter", "left server"}
    /\ Left({}) = {}
    /\ \A ps : ps \cap Starters = {} => Left(ps) \cap Starters = {}
  BY DEF Left, Starters, Servers

LEMMA TypeStep == TypeOK /\ Next => TypeOK'
<1> SUFFICES ASSUME TypeOK, Next PROVE TypeOK'
  OBVIOUS
<1> USE DEF TypeOK, hostVars, instVars, Editions, None, Starters, Servers
<1>1. ASSUME NEW m \in Modes, NEW e \in Editions, NEW d \in BOOLEAN,
             StartTest(m, e, d)
      PROVE  TypeOK'
  <2>1. /\ UNCHANGED <<package, debug, config, service, residue, testDir>>
        /\ UNCHANGED <<listing, lostConfig>>
    BY <1>1 DEF StartTest
  <2>2. /\ mode' = m /\ edition' = e /\ selenium' = d /\ scenario' = 1
        /\ pc' = "make runner"
        /\ instDebug' = FALSE /\ frontends' = FALSE /\ runDebug' = FALSE
        /\ processes' = Left(processes)
    BY <1>1 DEF StartTest
  <2> QED BY FirstScenario, LeftIsRunning, <2>1, <2>2, <1>1
<1>2. CASE MakeRunner
  BY <1>2 DEF MakeRunner, AfterInstall, AfterTests
<1>3. CASE KillBeforeInstall
  BY <1>3 DEF KillBeforeInstall, KillListed
<1>4. CASE InstallPackage
  BY <1>4 DEF InstallPackage
<1>5. CASE SaveConfig
  BY <1>5 DEF SaveConfig
<1>6. CASE BroadcastBind
  BY <1>6 DEF BroadcastBind
<1>7. CASE InstallDebugPackage
  BY <1>7 DEF InstallDebugPackage
<1>8. CASE RestartService
  BY <1>8 DEF RestartService, AfterInstall, AfterTests
<1>9. CASE StopService
  BY <1>9 DEF StopService, AfterInstall, AfterTests
<1>10. CASE Deploy
  BY <1>10 DEF Deploy
<1>11. CASE ShutDown
  BY <1>11 DEF ShutDown, AfterTests
<1>12. CASE PurgeDebugPackage
  BY <1>12 DEF PurgeDebugPackage
<1>13. CASE PurgePackage
  BY <1>13 DEF PurgePackage
<1>14. CASE RemoveResidue
  BY <1>14 DEF RemoveResidue
<1>15. CASE DisconnectSelenium
  BY <1>15 DEF DisconnectSelenium
<1>16. CASE KillAll
  <2>1. scenario' \in Scenarios /\ pc' \in {"make runner", "done"}
    <3>1. CASE scenario < NumScenarios
      BY <3>1, <1>16, NextScenario DEF KillAll
    <3>2. CASE ~(scenario < NumScenarios)
      BY <3>2, <1>16 DEF KillAll
    <3> QED BY <3>1, <3>2
  <2>2. /\ service' = FALSE /\ listing' = FALSE
        /\ processes' = processes \cap {"late server"}
        /\ UNCHANGED <<package, debug, config, residue, testDir, mode, edition>>
        /\ UNCHANGED <<selenium, instDebug, frontends, runDebug, lostConfig>>
    BY <1>16 DEF KillAll, KillListed
  <2> QED BY <2>1, <2>2
<1>17. CASE StartCleanup
  <2>1. /\ UNCHANGED <<package, debug, config, service, residue, testDir>>
        /\ UNCHANGED <<listing, lostConfig>>
    BY <1>17 DEF StartCleanup
  <2>2. /\ mode' = "cleanup" /\ edition' = config /\ selenium' = FALSE
        /\ scenario' = 1 /\ pc' = "stop"
        /\ instDebug' = FALSE /\ frontends' = FALSE /\ runDebug' = FALSE
        /\ processes' = Left(processes)
    BY <1>17 DEF StartCleanup
  <2> QED BY FirstScenario, LeftIsRunning, <2>1, <2>2
<1>18. CASE StopEverything
  BY <1>18 DEF StopEverything, KillListed
<1>19. CASE CleanDirs
  BY <1>19 DEF CleanDirs
<1>20. CASE Fail
  BY <1>20 DEF Fail, NotRunning
<1>21. CASE ListProcesses
  BY <1>21, LeftIsRunning DEF ListProcesses
<1>22. CASE SpawnServer
  BY <1>22 DEF SpawnServer
<1> QED BY <1>1, <1>2, <1>3, <1>4, <1>5, <1>6, <1>7, <1>8, <1>9, <1>10,
           <1>11, <1>12, <1>13, <1>14, <1>15, <1>16, <1>17,
           <1>18, <1>19, <1>20, <1>21, <1>22 DEF Next

LEMMA FirstOrLater == \A s \in Scenarios : s = 1 \/ s > 1
  BY NumScenariosAssumption DEF Scenarios

(* The loop leaves when the last scenario is over. *)
LEMMA LastScenario ==
    \A s \in Scenarios : ~(s < NumScenarios) => s = NumScenarios
  BY NumScenariosAssumption DEF Scenarios

(* Only kill_all_processes can tell what else runs, and it leaves no more  *)
(* than the argument above allows. *)
LEMMA AloneStep ==
    IInv /\ Next => Alone' /\ NothingLeftRunning'
<1> SUFFICES ASSUME IInv, Next PROVE Alone' /\ NothingLeftRunning'
  OBVIOUS
<1> USE DEF IInv, Editioned, Alone, NothingLeftRunning, Once, Going, Killing, Own,
            Starters, Servers, hostVars, instVars, DoInstall, DoSystemTest,
            DoStarterTest, DoUninstall
<1>0. processes \subseteq Starters \cup Servers
  BY DEF TypeOK
<1>1. ASSUME NEW m \in Modes, NEW e \in Editions, NEW d \in BOOLEAN,
             StartTest(m, e, d)
      PROVE  Alone' /\ NothingLeftRunning'
  <2>1. m # "cleanup"
    BY <1>1, ModesAssumption
  <2>2. mode' = m /\ scenario' = 1 /\ pc' = "make runner" /\ ~listing'
    BY <1>1 DEF StartTest, NotRunning
  <2>3. ~(scenario' > 1)
    BY <2>2, FirstIsNotLater
  <2> QED BY <2>1, <2>2, <2>3
<1>2. CASE MakeRunner
  <2>1. scenario = 1 \/ scenario > 1
    BY FirstOrLater DEF TypeOK
  <2>2. /\ pc = "make runner" /\ mode # "cleanup" /\ ~listing /\ ~listing'
        /\ UNCHANGED <<processes, mode, scenario, service>>
    BY <1>2 DEF MakeRunner
  <2>3. mode \in Killing /\ ~(scenario > 1) => pc' = "kill"
    BY <1>2, <2>1 DEF MakeRunner
  <2>4. pc' \in {"kill", "deploy", "disconnect", "purge debug", "purge"}
    BY <1>2 DEF MakeRunner, AfterInstall, AfterTests
  <2>5. Alone'
    BY <2>2, <2>3, <2>4
  <2> QED BY <2>4, <2>5
<1>3. CASE KillBeforeInstall
  BY <1>0, <1>3 DEF KillBeforeInstall, KillListed
<1>4. CASE InstallPackage
  BY <1>0, <1>4 DEF InstallPackage
<1>5. CASE SaveConfig
  BY <1>0, <1>5 DEF SaveConfig
<1>6. CASE BroadcastBind
  BY <1>0, <1>6 DEF BroadcastBind
<1>7. CASE InstallDebugPackage
  BY <1>0, <1>7 DEF InstallDebugPackage
<1>8. CASE RestartService
  BY <1>0, <1>8 DEF RestartService, AfterInstall, AfterTests
<1>9. CASE StopService
  BY <1>0, <1>9 DEF StopService, AfterInstall, AfterTests
<1>10. CASE Deploy
  BY <1>0, <1>10 DEF Deploy
<1>11. CASE ShutDown
  BY <1>0, <1>11 DEF ShutDown, AfterTests
<1>12. CASE PurgeDebugPackage
  BY <1>0, <1>12 DEF PurgeDebugPackage
<1>13. CASE PurgePackage
  BY <1>0, <1>13 DEF PurgePackage
<1>14. CASE RemoveResidue
  BY <1>0, <1>14 DEF RemoveResidue
<1>15. CASE DisconnectSelenium
  BY <1>0, <1>15 DEF DisconnectSelenium
<1>16. CASE KillAll
  <2>1. /\ Going /\ mode # "cleanup" /\ listing /\ ~listing'
        /\ mode' = mode /\ pc' \in {"make runner", "done"}
        /\ processes' = processes \cap {"late server"} /\ ~service'
    BY <1>16 DEF KillAll, KillListed
  <2>2. mode \in Killing \/ scenario > 1 => processes' = {}
    BY <2>1, <1>16 DEF KillAll
  <2>3. pc' = "done" => scenario = NumScenarios
    BY <1>16, LastScenario DEF KillAll, TypeOK
  <2>4. pc' = "done" /\ NumScenarios > 1 => scenario > 1
    BY <2>3
  <2>5. Alone'
    BY <2>1, <2>2
  <2>6. NothingLeftRunning'
    BY <2>1, <2>2, <2>4
  <2> QED BY <2>5, <2>6
<1>17. CASE StartCleanup
  <2>1. mode' = "cleanup" /\ scenario' = 1 /\ pc' = "stop" /\ ~listing'
    BY <1>17 DEF StartCleanup, NotRunning
  <2>2. ~(scenario' > 1)
    BY <2>1, FirstIsNotLater
  <2> QED BY <2>1, <2>2
<1>18. CASE StopEverything
  BY <1>0, <1>18 DEF StopEverything, KillListed
<1>19. CASE CleanDirs
  BY <1>0, <1>19 DEF CleanDirs
<1>20. CASE Fail
  BY <1>0, <1>20 DEF Fail, NotRunning
<1>21. CASE ListProcesses
  BY <1>0, <1>21, LeftIsRunning DEF ListProcesses
<1>22. CASE SpawnServer
  BY <1>0, <1>22 DEF SpawnServer
<1> QED BY <1>1, <1>2, <1>3, <1>4, <1>5, <1>6, <1>7, <1>8, <1>9, <1>10,
           <1>11, <1>12, <1>13, <1>14, <1>15, <1>16, <1>17,
           <1>18, <1>19, <1>20, <1>21, <1>22 DEF Next

(* What is installed, recorded and known does not depend on what runs. *)
Installed == Editioned /\ Recorded /\ DebugKnown /\ Uninstalled
             /\ AllRunUninstalls /\ CleanupFindsPackage

LEMMA InstalledStep == IInv /\ Next => Installed'
<1> SUFFICES ASSUME IInv, Next PROVE Installed'
  OBVIOUS
<1>0. TypeOK'
  BY TypeStep DEF IInv
<1> USE <1>0, FirstScenario
<1> USE DEF IInv, Installed, Editioned, Recorded, DebugKnown, Uninstalled,
            AllRunUninstalls, CleanupFindsPackage,
            TypeOK, hostVars, instVars, Scenarios, Testing, Leaving, Editions,
            None, DoInstall, DoSystemTest, DoStarterTest, DoUninstall
<1>1. ASSUME NEW m \in Modes, NEW e \in Editions, NEW d \in BOOLEAN,
             StartTest(m, e, d)
      PROVE  Installed'
  <2>1. /\ mode' = m /\ edition' = e /\ scenario' = 1 /\ pc' = "make runner"
        /\ UNCHANGED <<package, debug, config, lostConfig>>
        /\ pc # "save"
    BY <1>1 DEF StartTest, NotRunning
  <2>2. m # "cleanup"
    BY <1>1, ModesAssumption
  <2>3. Editioned' /\ Recorded'
    BY <1>1, <2>1, <2>2 DEF Editioned, Recorded
  <2>4. Uninstalled'
    BY <2>1 DEF Uninstalled
  <2>5. DebugKnown'
    <3>1. scenario' = 1
      BY <2>1
    <3>2. pc' \notin Testing \cup Leaving
      BY <2>1 DEF Testing, Leaving
    <3> QED BY <3>1, <3>2, FirstIsNotLater DEF DebugKnown, Testing
  <2>6. AllRunUninstalls' /\ CleanupFindsPackage'
    BY <2>1 DEF AllRunUninstalls, CleanupFindsPackage
  <2> QED BY <2>3, <2>4, <2>5, <2>6 DEF Installed
<1>2. CASE MakeRunner
  BY <1>2 DEF MakeRunner, AfterInstall, AfterTests
<1>3. CASE KillBeforeInstall
  BY <1>3 DEF KillBeforeInstall
<1>4. CASE InstallPackage
  BY <1>4 DEF InstallPackage
<1>5. CASE SaveConfig
  BY <1>5 DEF SaveConfig
<1>6. CASE BroadcastBind
  BY <1>6 DEF BroadcastBind
<1>7. CASE InstallDebugPackage
  BY <1>7 DEF InstallDebugPackage
<1>8. CASE RestartService
  BY <1>8 DEF RestartService, AfterInstall, AfterTests
<1>9. CASE StopService
  BY <1>9 DEF StopService, AfterInstall, AfterTests
<1>10. CASE Deploy
  BY <1>10 DEF Deploy
<1>11. CASE ShutDown
  BY <1>11 DEF ShutDown, AfterTests
<1>12. CASE PurgeDebugPackage
  BY <1>12 DEF PurgeDebugPackage
<1>13. CASE PurgePackage
  BY <1>13 DEF PurgePackage
<1>14. CASE RemoveResidue
  BY <1>14 DEF RemoveResidue
<1>15. CASE DisconnectSelenium
  BY <1>15 DEF DisconnectSelenium
<1>16. CASE KillAll
  BY <1>16 DEF KillAll
<1>17. CASE StartCleanup
  BY <1>17 DEF StartCleanup, NotRunning
<1>18. CASE StopEverything
  BY <1>18 DEF StopEverything
<1>19. CASE CleanDirs
  BY <1>19 DEF CleanDirs
<1>20. CASE Fail
  BY <1>20 DEF Fail, NotRunning
<1>21. CASE ListProcesses
  BY <1>21 DEF ListProcesses
<1>22. CASE SpawnServer
  BY <1>22, ZenonT(60) DEF SpawnServer
<1> QED BY <1>1, <1>2, <1>3, <1>4, <1>5, <1>6, <1>7, <1>8, <1>9, <1>10,
           <1>11, <1>12, <1>13, <1>14, <1>15, <1>16, <1>17,
           <1>18, <1>19, <1>20, <1>21, <1>22 DEF Next

LEMMA IInvStep == IInv /\ Next => IInv'
  BY TypeStep, InstalledStep, AloneStep DEF IInv, Installed

LEMMA SpecIInv == Spec => []IInv
<1>1. IInv /\ UNCHANGED vars => IInv'
  <2> SUFFICES ASSUME IInv, UNCHANGED vars PROVE IInv'
    OBVIOUS
  <2>1. /\ UNCHANGED <<package, debug, config, service, processes, residue>>
        /\ UNCHANGED <<testDir, pc, listing, mode, selenium, edition, instDebug>>
        /\ UNCHANGED <<frontends, scenario, runDebug, lostConfig>>
    BY DEF vars, hostVars, instVars
  <2>2. TypeOK'
    BY <2>1 DEF IInv, TypeOK
  <2>3. Editioned' /\ Recorded' /\ Alone'
    BY <2>1 DEF IInv, Editioned, Recorded, Alone, Going, Once, Own
  <2>4. DebugKnown' /\ Uninstalled'
    BY <2>1 DEF IInv, DebugKnown, Uninstalled
  <2>5. AllRunUninstalls' /\ NothingLeftRunning' /\ CleanupFindsPackage'
    BY <2>1 DEF IInv, AllRunUninstalls, NothingLeftRunning, CleanupFindsPackage
  <2> QED BY <2>2, <2>3, <2>4, <2>5 DEF IInv
<1>2. IInv /\ [Next]_vars => IInv'
  BY <1>1, IInvStep
<1> QED BY InitIInv, <1>2, PTL DEF Spec

-----------------------------------------------------------------------------
(* Host and invocation keep their types; no scenario is counted past the   *)
(* last one. *)
THEOREM TypeCorrect == Spec => []TypeOK
<1>1. IInv => TypeOK
  BY DEF IInv
<1> QED BY <1>1, SpecIInv, PTL

(* An `all` run that comes through has removed what it installed, after    *)
(* any history of the host. *)
THEOREM AllRunsUninstall == Spec => []AllRunUninstalls
<1>1. IInv => AllRunUninstalls
  BY DEF IInv
<1> QED BY <1>1, SpecIInv, PTL

(* An `all` run deploys next to no other starter, and from its second      *)
(* scenario on next to no process at all, whatever earlier invocations     *)
(* left and a kill did not list.                                           *)
THEOREM AllRunsDeployAlone == Spec => []AllRunDeploysAlone
<1>1. IInv => AllRunDeploysAlone
  BY DEF IInv, Alone, Going, Once, Own, Killing, AllRunDeploysAlone
<1> QED BY <1>1, SpecIInv, PTL

(* What a first kill misses the second one finds: no process survives an   *)
(* invocation that kills twice.                                            *)
THEOREM NothingRunsAfterwards == Spec => []NothingLeftRunning
<1>1. IInv => NothingLeftRunning
  BY DEF IInv
<1> QED BY <1>1, SpecIInv, PTL

(* cleanup.py removes the server package unless its edition was never      *)
(* recorded. *)
THEOREM CleanupCleans == Spec => []CleanupFindsPackage
<1>1. IInv => CleanupFindsPackage
  BY DEF IInv
<1> QED BY <1>1, SpecIInv, PTL
=============================================================================
