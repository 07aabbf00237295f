------------------------ MODULE ActiveFailoverProofs ------------------------
(***************************************************************************)
(* Theorems about ActiveFailover, for every set of nodes and every flow of the run.   *)
(***************************************************************************)
EXTENDS ActiveFailover, FiniteSetTheorems, TLAPS

(* The phases in which every starter is detected, and those in which the   *)
(* first leader's is not. *)
Complete == {"find_leader", "make_data", "backup", "restore", "await_restore",
             "check_data", "upgrade", "await_upgrade", "test_setup", "jam"}
Bereft == {"find_new_leader", "ask_new_leader", "respawn", "detect_old_leader"}

Afterwards == {"respawn", "detect_old_leader", "await_follower", "ask_old_leader"}

Frontends ==
    /\ pc \in Complete => known = Nodes
    /\ pc \in Bereft => known = Nodes \ {firstLeader}
    /\ \A n \in Nodes : isLeader[n] => n \in known

Cast ==
    /\ firstLeader \notin followerNodes
    /\ pc \in Afterwards \cup {"ask_new_leader", "shutdown"} =>
         newLeader \in followerNodes
    /\ pc = "ask_new_leader" => leader = newLeader

(* Only the rolling upgrade restarts servers that are not asked to. *)
Calm == toRestart # {} => pc = "await_upgrade"

Leadership == pc \in {"test_setup", "jam"} => leads = firstLeader

Witnessed == pc \in Afterwards /\ success => leads = newLeader

IInv ==
    /\ TypeOK
    /\ Frontends
    /\ Cast
    /\ Calm
    /\ Leadership
    /\ Witnessed
    /\ SuccessIsFailover

-----------------------------------------------------------------------------
LEMMA InitIInv == Init => IInv
  BY NodesAssumption, NoNodeAssumption
     DEF Init, IInv, TypeOK, Frontends, Cast, Calm, Leadership, Witnessed,
         SuccessIsFailover, Complete, Bereft, Afterwards, Aborted

LEMMA FlowDone == \A f \in Flows : [f EXCEPT !.upgrade = "done"] \in Flows
  BY DEF Flows

LEMMA DeploymentType == TypeOK /\ Deployment => TypeOK'
<1> SUFFICES ASSUME TypeOK, NEW n \in Nodes,
                    Boot(n) \/ Elect(n) \/ ReportFollower(n) \/ RollingRestart(n)
             PROVE  TypeOK'
  BY DEF Deployment
<1> QED BY DEF TypeOK, Boot, Elect, ReportFollower, RollingRestart, driverVars,
               nodeVars, WithoutLeader

LEMMA DriverType == TypeOK /\ Driver => TypeOK'
<1> SUFFICES ASSUME TypeOK, Driver PROVE TypeOK'
  OBVIOUS
<1> USE NoNodeAssumption
<1> USE DEF TypeOK, serverVars, nodeVars, Aborted
<1>1. CASE RunStarters
  BY <1>1 DEF RunStarters
<1>2. ASSUME NEW n \in Nodes, DetectInstances(n) PROVE TypeOK'
  BY <1>2 DEF DetectInstances
<1>3. ASSUME NEW n \in Nodes, FinishSetup(n) PROVE TypeOK'
  BY <1>3 DEF FinishSetup
<1>4. ASSUME NEW n \in Nodes, PollFollower(n) PROVE TypeOK'
  BY <1>4 DEF PollFollower
<1>5. ASSUME NEW n \in Nodes, ShutDown(n) PROVE TypeOK'
  BY <1>5 DEF ShutDown, Stop, WithoutLeader
<1>6. CASE MakeData
  BY <1>6 DEF MakeData, AfterSetup, AfterCheck
<1>7. CASE BackupCommands
  BY <1>7 DEF BackupCommands, OnLeader
<1>8. CASE RestoreBackup
  BY <1>8 DEF RestoreBackup, OnLeader, WithoutLeader
<1>9. CASE WaitForRestore
  BY <1>9 DEF WaitForRestore
<1>10. CASE CheckData
  BY <1>10 DEF CheckData, OnLeader, AfterCheck
<1>11. CASE CommandUpgrade \/ WaitForUpgrade
  BY <1>11, FlowDone DEF CommandUpgrade, WaitForUpgrade
<1>12. CASE TestSetup
  BY <1>12 DEF TestSetup
<1>13. CASE TerminateFirstLeader
  BY <1>13 DEF TerminateFirstLeader, Stop, WithoutLeader
<1>14. CASE AskNewLeader \/ AskOldLeader
  BY <1>14 DEF AskNewLeader, AskOldLeader
<1>15. CASE RespawnFirstLeader \/ DetectFirstLeader \/ WaitForFollower
  BY <1>15 DEF RespawnFirstLeader, DetectFirstLeader, WaitForFollower
<1> QED BY <1>1, <1>2, <1>3, <1>4, <1>5, <1>6, <1>7, <1>8, <1>9, <1>10, <1>11,
           <1>12, <1>13, <1>14, <1>15 DEF Driver

(* While nobody has to restart, servers only join in. *)
LEMMA DeploymentStep == IInv /\ Deployment => IInv'
<1> SUFFICES ASSUME IInv, NEW n \in Nodes,
                    Boot(n) \/ Elect(n) \/ ReportFollower(n) \/ RollingRestart(n)
             PROVE  IInv'
  BY DEF Deployment
<1>1. TypeOK'
  BY DeploymentType DEF Deployment, IInv
<1>2. UNCHANGED driverVars
  BY DEF Boot, Elect, ReportFollower, RollingRestart
<1>3. Frontends' /\ Cast'
  BY <1>2 DEF IInv, Frontends, Cast, driverVars, nodeVars
<1>4. Calm'
  BY <1>2 DEF IInv, Calm, Boot, Elect, ReportFollower, RollingRestart, driverVars
<1>5. leads' = leads \/ leads = NoNode \/ pc = "await_upgrade"
  BY DEF IInv, Calm, Boot, Elect, ReportFollower, RollingRestart
<1>6. firstLeader # NoNode \/ pc \notin {"test_setup", "jam"}
  BY DEF IInv, TypeOK
<1>7. Leadership'
  BY <1>2, <1>5, <1>6 DEF IInv, Leadership, driverVars, nodeVars
<1>8. pc \in Afterwards \cup {"shutdown"} => newLeader # NoNode
  BY NoNodeAssumption DEF IInv, TypeOK, Cast
<1>9. Witnessed' /\ SuccessIsFailover'
  BY <1>2, <1>5, <1>8
     DEF IInv, Witnessed, SuccessIsFailover, Afterwards, driverVars, nodeVars
<1> QED BY <1>1, <1>3, <1>4, <1>7, <1>9 DEF IInv

LEMMA DriverStep == IInv /\ Driver => IInv'
<1> SUFFICES ASSUME IInv, Driver PROVE IInv'
  OBVIOUS
<1>0. TypeOK'
  BY DriverType DEF IInv
<1> USE NoNodeAssumption
<1> USE DEF IInv, TypeOK, Frontends, Cast, Calm, Leadership, Witnessed,
            SuccessIsFailover, Complete, Bereft, Afterwards, serverVars,
            nodeVars, Aborted
<1>1. CASE RunStarters
  BY <1>0, <1>1 DEF RunStarters
<1>2. ASSUME NEW n \in Nodes, DetectInstances(n) PROVE IInv'
  BY <1>0, <1>2 DEF DetectInstances
<1>3. ASSUME NEW n \in Nodes, FinishSetup(n) PROVE IInv'
  BY <1>0, <1>3 DEF FinishSetup
<1>4. ASSUME NEW n \in Nodes, PollFollower(n) PROVE IInv'
  BY <1>0, <1>4 DEF PollFollower
<1>5. ASSUME NEW n \in Nodes, ShutDown(n) PROVE IInv'
  BY <1>0, <1>5 DEF ShutDown, Stop, WithoutLeader
<1>6. CASE MakeData
  BY <1>0, <1>6 DEF MakeData, AfterSetup, AfterCheck, AnswersAsLeader
<1>7. CASE BackupCommands
  BY <1>0, <1>7 DEF BackupCommands, OnLeader
<1>8. CASE RestoreBackup
  BY <1>0, <1>8 DEF RestoreBackup, OnLeader, WithoutLeader
<1>9. CASE WaitForRestore
  BY <1>0, <1>9 DEF WaitForRestore
<1>10. CASE CheckData
  BY <1>0, <1>10 DEF CheckData, OnLeader, AfterCheck, AnswersAsLeader
<1>11. CASE CommandUpgrade \/ WaitForUpgrade
  BY <1>0, <1>11 DEF CommandUpgrade, WaitForUpgrade
<1>12. CASE TestSetup
  BY <1>0, <1>12 DEF TestSetup
<1>13. CASE TerminateFirstLeader
  <2>1. firstLeader \in Nodes /\ known = Nodes
    BY <1>13 DEF TerminateFirstLeader
  <2>2. /\ known' = Nodes \ {firstLeader}
        /\ \A n \in Nodes : isLeader'[n] => n # firstLeader
    BY <1>13, <2>1 DEF TerminateFirstLeader, Stop
  <2>3. /\ pc' = "find_new_leader"
        /\ UNCHANGED <<toRestart, firstLeader, followerNodes>>
    BY <1>13 DEF TerminateFirstLeader
  <2>4. Frontends'
    BY <2>2, <2>3 DEF Frontends
  <2>5. toRestart' = {}
    BY <1>13 DEF TerminateFirstLeader
  <2>6. Cast' /\ Calm' /\ Leadership' /\ Witnessed' /\ SuccessIsFailover'
    BY <2>3, <2>5
  <2> QED BY <1>0, <2>4, <2>6
<1>14. CASE AskNewLeader \/ AskOldLeader
  BY <1>0, <1>14 DEF AskNewLeader, AskOldLeader, AnswersAsLeader
<1>15. CASE RespawnFirstLeader \/ DetectFirstLeader \/ WaitForFollower
  BY <1>0, <1>15 DEF RespawnFirstLeader, DetectFirstLeader, WaitForFollower
<1> QED BY <1>1, <1>2, <1>3, <1>4, <1>5, <1>6, <1>7, <1>8, <1>9, <1>10, <1>11,
           <1>12, <1>13, <1>14, <1>15 DEF Driver

LEMMA SpecIInv == Spec => []IInv
<1>1. IInv /\ UNCHANGED vars => IInv'
  <2> SUFFICES ASSUME IInv, UNCHANGED vars PROVE IInv'
    OBVIOUS
  <2>1. UNCHANGED serverVars /\ UNCHANGED nodeVars
        /\ UNCHANGED <<pc, flow, known, isLeader, success>>
    BY DEF vars
  <2>2. TypeOK'
    BY <2>1 DEF IInv, TypeOK, serverVars, nodeVars
  <2>3. Frontends' /\ Cast' /\ Calm'
    BY <2>1 DEF IInv, Frontends, Cast, Calm, serverVars, nodeVars
  <2>4. Leadership' /\ Witnessed' /\ SuccessIsFailover'
    BY <2>1 DEF IInv, Leadership, Witnessed, SuccessIsFailover, serverVars, nodeVars
  <2> QED BY <2>2, <2>3, <2>4 DEF IInv
<1>2. IInv /\ [Next]_vars => IInv'
  BY <1>1, DriverStep, DeploymentStep DEF Next, Finished
<1> QED BY InitIInv, <1>2, PTL DEF Spec

-----------------------------------------------------------------------------
(* Without an upgrade the logs tell the truth: a server whose log holds a  *)
(* leadership line leads, but for the first leader during a restore; the   *)
(* data check lets the run go on only if that one leads again.             *)
Settled == {"start", "detect", "find_leader", "make_data", "backup", "restore",
            "test_setup", "jam", "find_new_leader"}
Restoring == {"await_restore", "check_data"}
FailedOver == {"ask_new_leader", "respawn", "detect_old_leader", "await_follower"}

HonestLogs ==
    flow.upgrade = "none" =>
        /\ pc \notin {"upgrade", "await_upgrade"}
        /\ pc \in Settled => \A n \in Nodes : ledLog[n] => leads = n
        /\ pc \in Restoring =>
             \A n \in Nodes : ledLog[n] => leads = n \/ n = firstLeader
        /\ pc \in FailedOver => newLeader # firstLeader /\ leads = newLeader

LEMMA HonestInit == Init => HonestLogs
  BY DEF Init, HonestLogs, Settled, Restoring, FailedOver

(* A server is elected only when none leads, and restarted unasked only in *)
(* an upgrade. *)
LEMMA HonestDeployment == IInv /\ HonestLogs /\ Deployment => HonestLogs'
<1> SUFFICES ASSUME IInv, HonestLogs, flow.upgrade = "none", NEW n \in Nodes,
                    Boot(n) \/ Elect(n) \/ ReportFollower(n) \/ RollingRestart(n)
             PROVE  HonestLogs'
  BY DEF Deployment, HonestLogs, Boot, Elect, ReportFollower, RollingRestart,
         driverVars
<1>1. UNCHANGED driverVars
  BY DEF Boot, Elect, ReportFollower, RollingRestart
<1>2. toRestart = {}
  BY DEF IInv, Calm, HonestLogs
<1>3. CASE Elect(n)
  <2>1. /\ leads = NoNode /\ leads' = n
        /\ \A m \in Nodes : ledLog'[m] = (m = n \/ ledLog[m])
    BY <1>3 DEF Elect, IInv, TypeOK
  <2>2. pc \notin FailedOver
    BY <2>1, NoNodeAssumption
       DEF HonestLogs, FailedOver, IInv, TypeOK, Cast, Afterwards
  <2> QED BY <1>1, <2>1, <2>2, NoNodeAssumption
          DEF HonestLogs, driverVars, nodeVars
<1>4. CASE Boot(n) \/ ReportFollower(n)
  BY <1>1, <1>4 DEF Boot, ReportFollower, HonestLogs, driverVars, nodeVars
<1>5. ~RollingRestart(n)
  BY <1>2 DEF RollingRestart
<1> QED BY <1>3, <1>4, <1>5

LEMMA HonestDriver == IInv /\ HonestLogs /\ Driver => HonestLogs'
<1> SUFFICES ASSUME IInv, HonestLogs, Driver PROVE HonestLogs'
  OBVIOUS
<1> USE NoNodeAssumption
<1> USE DEF IInv, TypeOK, Cast, Leadership, Afterwards, HonestLogs, Settled,
            Restoring, FailedOver, Aborted, serverVars, nodeVars
<1>1. CASE RunStarters
  BY <1>1 DEF RunStarters
<1>2. ASSUME NEW n \in Nodes, DetectInstances(n) PROVE HonestLogs'
  BY <1>2 DEF DetectInstances
<1>3. ASSUME NEW n \in Nodes, FinishSetup(n) PROVE HonestLogs'
  BY <1>3 DEF FinishSetup
<1>4. ASSUME NEW n \in Nodes, PollFollower(n) PROVE HonestLogs'
  BY <1>4 DEF PollFollower
<1>5. ASSUME NEW n \in Nodes, ShutDown(n) PROVE HonestLogs'
  BY <1>5 DEF ShutDown, Stop, WithoutLeader
<1>6. CASE MakeData
  BY <1>6 DEF MakeData, AfterSetup, AfterCheck
<1>7. CASE BackupCommands
  BY <1>7 DEF BackupCommands, OnLeader
<1>8. CASE RestoreBackup
  BY <1>8 DEF RestoreBackup, OnLeader, WithoutLeader
<1>9. CASE WaitForRestore
  BY <1>9 DEF WaitForRestore, AnswersAsLeader
<1>10. CASE CheckData
  BY <1>10 DEF CheckData, OnLeader, AfterCheck, AnswersAsLeader
<1>11. CASE CommandUpgrade \/ WaitForUpgrade
  BY <1>11 DEF CommandUpgrade, WaitForUpgrade, Flows
<1>12. CASE TestSetup
  BY <1>12 DEF TestSetup
<1>13. CASE TerminateFirstLeader
  BY <1>13 DEF TerminateFirstLeader, Stop, WithoutLeader
<1>14. CASE AskNewLeader \/ AskOldLeader
  BY <1>14 DEF AskNewLeader, AskOldLeader
<1>15. CASE RespawnFirstLeader \/ DetectFirstLeader \/ WaitForFollower
  BY <1>15 DEF RespawnFirstLeader, DetectFirstLeader, WaitForFollower
<1> QED BY <1>1, <1>2, <1>3, <1>4, <1>5, <1>6, <1>7, <1>8, <1>9, <1>10, <1>11,
           <1>12, <1>13, <1>14, <1>15 DEF Driver

LEMMA SpecHonestLogs == Spec => []HonestLogs
<1>1. HonestLogs /\ UNCHANGED vars => HonestLogs'
  BY DEF HonestLogs, vars, serverVars, nodeVars
<1>2. IInv /\ HonestLogs /\ [Next]_vars => HonestLogs'
  BY <1>1, HonestDriver, HonestDeployment DEF Next, Finished
<1> QED BY HonestInit, SpecIInv, <1>2, PTL DEF Spec

-----------------------------------------------------------------------------
(* Every variable keeps its type, and the leader is known from the end of  *)
(* the setup on. *)
THEOREM TypeCorrect == Spec => []TypeOK
<1>1. IInv => TypeOK
  BY DEF IInv
<1> QED BY <1>1, SpecIInv, PTL

(* What jam_attempt_impl terminates is the leading server, whatever backup *)
(* and upgrade did before. *)
THEOREM LeaderIsKilled == Spec => []JamKillsLeader
<1>1. IInv => JamKillsLeader
  BY DEF IInv, Leadership, JamKillsLeader
<1> QED BY <1>1, SpecIInv, PTL

(* A run that reports success has seen the leadership pass on. *)
THEOREM SuccessIsTrue == Spec => []SuccessIsFailover
<1>1. IInv => SuccessIsFailover
  BY DEF IInv
<1> QED BY <1>1, SpecIInv, PTL

(* The driver never asks a starter without instances for its frontend. *)
THEOREM FrontendsExist == Spec => []FlaggedHaveFrontend
<1>1. IInv => FlaggedHaveFrontend
  BY DEF IInv, TypeOK, Frontends, Cast, Complete, Bereft, FlaggedHaveFrontend
<1> QED BY <1>1, SpecIInv, PTL

(* Without an upgrade the reported failover has happened, and the old      *)
(* leader cannot come back as the leader. *)
THEOREM OldLeaderFollows == Spec => []OldLeaderMustFollow
<1>1. HonestLogs => OldLeaderMustFollow
  BY DEF HonestLogs, FailedOver, OldLeaderMustFollow
<1> QED BY <1>1, SpecHonestLogs, PTL

-----------------------------------------------------------------------------
(* The run ends: what can be said of it without fairness.                   *)

Early == {"start", "detect", "find_leader"}

(* A server that leads is up and has logged it; until the driver reads the  *)
(* logs no other server has.                                                *)
LeaderLogged ==
    /\ \A n \in Nodes : leads = n => ledLog[n] /\ server[n] = "up"
    /\ pc \in Early => \A n \in Nodes : ledLog[n] => leads = n

(* Only the jam and the end of the run stop servers. *)
ServersRun ==
    /\ pc = "start" => \A n \in Nodes : server[n] = "down"
    /\ pc = "detect" => \A n \in known : server[n] = "up"
    /\ pc = "find_leader" => \A n \in Nodes : server[n] = "up"
    /\ pc \in {"find_new_leader", "ask_new_leader", "respawn"} =>
         \A n \in Nodes : server[n] = "down" <=> n = firstLeader
    /\ pc \notin {"start", "find_new_leader", "ask_new_leader", "respawn", "shutdown", "done"} =>
         \A n \in Nodes : server[n] # "down"

(* Every node but the first leader is a follower. *)
OthersFollow == pc \notin Early => followerNodes = Nodes \ {firstLeader}

(* One starter at most is flagged, and none when the first leader is gone.  *)
OneFlag ==
    /\ pc \in Early => \A n \in Nodes : ~isLeader[n]
    /\ pc \in Complete => \A m, n \in Nodes : isLeader[m] /\ isLeader[n] => m = n
    /\ pc \in {"make_data", "test_setup", "jam"} => isLeader[firstLeader]
    /\ pc = "find_new_leader" => \A n \in Nodes : ~isLeader[n]

(* The loops over the starters have something to do. *)
LoopsWork ==
    /\ pc = "start" => known = {}
    /\ pc = "detect" => known # Nodes
    /\ pc \in {"await_follower", "ask_old_leader", "shutdown"} => known # {}

(* The upgrade is run when it is planned, and afterwards it is done. *)
UpgradeOnce == pc \in {"upgrade", "await_upgrade"} => flow.upgrade = "planned"

ActInv == LeaderLogged /\ ServersRun /\ OthersFollow /\ OneFlag /\ LoopsWork /\ UpgradeOnce

(* The driver finds what it waits for, or need not wait. *)
DriverGoesOn ==
    /\ ~RunOver
    /\ pc = "detect" => \E n \in Nodes \ known : server[n] = "up"
    /\ pc = "find_leader" => \E n \in Nodes : ledLog[n]
    /\ pc = "await_restore" => server[firstLeader] = "up" /\ leads # NoNode
    /\ pc = "await_upgrade" => toRestart = {} /\ \A n \in Nodes : server[n] = "up"
    /\ pc = "find_new_leader" => \E n \in followerNodes : ledLog[n]
    /\ pc = "detect_old_leader" => server[firstLeader] = "up"
    /\ pc = "await_follower" => followsLog[firstLeader]

Boots(n) == server[n] = "booting"
IsElected(n) == leads = NoNode /\ server[n] = "up"
Reports(n) == server[n] = "up" /\ leads \notin {n, NoNode} /\ ~followsLog[n]
Restarts(n) == n \in toRestart /\ \A m \in Nodes : server[m] = "up"

SomebodyMoves ==
    \/ RunOver
    \/ DriverGoesOn
    \/ \E n \in Nodes : Boots(n) \/ IsElected(n) \/ Reports(n) \/ Restarts(n)
    \/ pc = "await_follower" /\ leads = firstLeader

(* How far the driver is from its end; the upgrade leads back once. *)
Place(s) ==
    CASE s = "start" -> 22
      [] s = "detect" -> 21
      [] s = "find_leader" -> 20
      [] s = "make_data" -> 19
      [] s = "backup" -> 18
      [] s = "restore" -> 17
      [] s = "await_restore" -> 16
      [] s = "check_data" -> 15
      [] s = "upgrade" -> 14
      [] s = "await_upgrade" -> 13
      [] s = "test_setup" -> 12
      [] s = "jam" -> 11
      [] s = "find_new_leader" -> 10
      [] s = "ask_new_leader" -> 9
      [] s = "respawn" -> 8
      [] s = "detect_old_leader" -> 7
      [] s = "await_follower" -> 6
      [] s = "ask_old_leader" -> 5
      [] s = "shutdown" -> 4
      [] OTHER -> 0
DriverLeft == Place(pc) + (IF flow.upgrade = "planned" THEN 10 ELSE 0)

(* The starters that are still to be detected, or to be shut down. *)
Undone == IF pc = "shutdown" THEN known ELSE Nodes \ known

DriverProgress ==
    \/ DriverLeft' < DriverLeft
    \/ pc' = pc /\ DriverLeft' = DriverLeft /\ Cardinality(Undone') < Cardinality(Undone)

(* What the deployment can do while the driver waits: a restart costs a     *)
(* boot and perhaps an election.                                            *)
Booting == {n \in Nodes : server[n] = "booting"}
Silent == {n \in Nodes : ~followsLog[n]}
DeploymentLeft ==
    3 * Cardinality(toRestart) + Cardinality(Booting) + Cardinality(Silent)
      + (IF leads = NoNode THEN 1 ELSE 0)

LEMMA SomeNode == Nodes # {} /\ \A n \in Nodes : \E m \in Nodes : m # n
<1>1. Cardinality({}) = 0
  BY FS_EmptySet
<1>2. \A n \in Nodes : Cardinality({n}) = 1
  BY FS_Singleton
<1>3. Nodes # {} /\ \A n \in Nodes : Nodes # {n}
  BY <1>1, <1>2, NodesAssumption
<1> QED
  BY <1>3

LEMMA ActInit == Init => ActInv
  BY NoNodeAssumption
     DEF Init, ActInv, LeaderLogged, ServersRun, OthersFollow, OneFlag, LoopsWork, UpgradeOnce, Early, Complete

LEMMA ActDeployment == IInv /\ ActInv /\ Deployment => ActInv'
<1> SUFFICES ASSUME IInv, ActInv, NEW n \in Nodes,
                    Boot(n) \/ Elect(n) \/ ReportFollower(n) \/ RollingRestart(n)
             PROVE  ActInv'
  BY DEF Deployment
<1>1. UNCHANGED driverVars
  BY DEF Boot, Elect, ReportFollower, RollingRestart
<1>2. OthersFollow' /\ OneFlag' /\ LoopsWork' /\ UpgradeOnce'
  BY <1>1 DEF ActInv, OthersFollow, OneFlag, LoopsWork, UpgradeOnce, driverVars, nodeVars
<1>3. LeaderLogged'
  <2> USE <1>1, NoNodeAssumption DEF ActInv, LeaderLogged, IInv, TypeOK, driverVars, nodeVars
  <2>1. CASE Boot(n) \/ ReportFollower(n)
    BY <2>1 DEF Boot, ReportFollower
  <2>2. CASE Elect(n)
    BY <2>2 DEF Elect
  <2>3. CASE RollingRestart(n)
    <3>1. pc \notin Early
      BY <2>3 DEF RollingRestart, Calm, Early
    <3> QED
      BY <2>3, <3>1 DEF RollingRestart, WithoutLeader
  <2> QED
    BY <2>1, <2>2, <2>3
<1>4. ServersRun'
  <2>1. RollingRestart(n) => pc = "await_upgrade"
    BY DEF RollingRestart, IInv, Calm
  <2> QED
    BY <1>1, <2>1
       DEF ActInv, ServersRun, IInv, TypeOK, Boot, Elect, ReportFollower, RollingRestart,
           driverVars, nodeVars
<1> QED
  BY <1>2, <1>3, <1>4 DEF ActInv

LEMMA ActDriver == IInv /\ ActInv /\ Driver => ActInv'
<1> SUFFICES ASSUME IInv, ActInv, Driver
             PROVE  ActInv'
  OBVIOUS
<1> USE NoNodeAssumption
<1> USE DEF IInv, TypeOK, Frontends, ActInv, LeaderLogged, ServersRun, OthersFollow, OneFlag,
            LoopsWork, UpgradeOnce, Early, Complete, Aborted, serverVars, nodeVars
<1>1. CASE RunStarters
  BY <1>1, SomeNode DEF RunStarters
<1>2. ASSUME NEW n \in Nodes, DetectInstances(n) PROVE ActInv'
  BY <1>2 DEF DetectInstances
<1>3. ASSUME NEW n \in Nodes, FinishSetup(n) PROVE ActInv'
  <2>1. \A m \in Nodes : ledLog[m] <=> m = n
    BY <1>3 DEF FinishSetup
  <2> QED
    BY <1>3, <2>1 DEF FinishSetup
<1>4. ASSUME NEW n \in Nodes, PollFollower(n) PROVE ActInv'
  BY <1>4 DEF PollFollower
<1>5. ASSUME NEW n \in Nodes, ShutDown(n) PROVE ActInv'
  BY <1>5 DEF ShutDown, Stop, WithoutLeader
<1>6. CASE MakeData
  BY <1>6 DEF MakeData, AfterSetup, AfterCheck
<1>7. CASE BackupCommands
  BY <1>7 DEF BackupCommands, OnLeader
<1>8. CASE RestoreBackup
  BY <1>8 DEF RestoreBackup, OnLeader, WithoutLeader
<1>9. CASE WaitForRestore
  BY <1>9 DEF WaitForRestore, AnswersAsLeader
<1>10. CASE CheckData
  BY <1>10 DEF CheckData, OnLeader, AfterCheck
<1>11. CASE CommandUpgrade \/ WaitForUpgrade
  BY <1>11 DEF CommandUpgrade, WaitForUpgrade
<1>12. CASE TestSetup
  BY <1>12 DEF TestSetup
<1>13. CASE TerminateFirstLeader
  BY <1>13 DEF TerminateFirstLeader, Stop, WithoutLeader
<1>14. CASE AskNewLeader \/ AskOldLeader
  BY <1>14 DEF AskNewLeader, AskOldLeader
<1>15. CASE RespawnFirstLeader
  BY <1>15 DEF RespawnFirstLeader
<1>16. CASE DetectFirstLeader \/ WaitForFollower
  BY <1>16 DEF DetectFirstLeader, WaitForFollower
<1> QED BY <1>1, <1>2, <1>3, <1>4, <1>5, <1>6, <1>7, <1>8, <1>9, <1>10, <1>11,
           <1>12, <1>13, <1>14, <1>15, <1>16 DEF Driver

LEMMA SpecActInv == Spec => []ActInv
<1>1. ActInv /\ UNCHANGED vars => ActInv'
  BY DEF ActInv, LeaderLogged, ServersRun, OthersFollow, OneFlag, LoopsWork, UpgradeOnce, vars,
         serverVars, nodeVars
<1>2. IInv /\ ActInv /\ [Next]_vars => ActInv'
  BY <1>1, ActDriver, ActDeployment DEF Next, Finished
<1> QED
  BY <1>2, ActInit, SpecIInv, PTL DEF Spec

(* Until the run is over the driver can go on, or a server boots, is        *)
(* elected, reports or is restarted: the polls for a leader, a restore, the *)
(* upgrade and a follower wait for something that comes, but for a follower *)
(* that leads.                                                              *)
THEOREM SomebodyActs == Spec => []SomebodyMoves
<1>1. IInv /\ ActInv => SomebodyMoves
  <2> SUFFICES ASSUME IInv, ActInv, ~RunOver, ~(pc = "await_follower" /\ leads = firstLeader),
                      \A n \in Nodes : ~Boots(n) /\ ~IsElected(n) /\ ~Reports(n) /\ ~Restarts(n)
               PROVE  DriverGoesOn
    BY DEF SomebodyMoves
  <2> USE NoNodeAssumption
  <2> USE DEF IInv, TypeOK, ActInv, Boots, IsElected
  <2>1. \A n \in Nodes : server[n] \in {"up", "down"}
    OBVIOUS
  <2>2. pc = "detect" => \E n \in Nodes \ known : server[n] = "up"
    BY <2>1 DEF ServersRun, LoopsWork
  <2>3. pc = "find_leader" => \E n \in Nodes : ledLog[n]
    BY SomeNode DEF ServersRun, LeaderLogged
  <2>4. pc = "await_restore" => server[firstLeader] = "up" /\ leads # NoNode
    BY <2>1 DEF ServersRun
  <2>5. pc = "await_upgrade" => toRestart = {} /\ \A n \in Nodes : server[n] = "up"
    BY <2>1 DEF ServersRun, Restarts
  <2>6. pc = "find_new_leader" => \E n \in followerNodes : ledLog[n]
    <3> SUFFICES ASSUME pc = "find_new_leader"
                 PROVE  \E n \in followerNodes : ledLog[n]
      OBVIOUS
    <3>1. firstLeader \in Nodes /\ followerNodes = Nodes \ {firstLeader}
      BY DEF OthersFollow, Early
    <3>2. \A n \in followerNodes : server[n] = "up"
      BY <2>1, <3>1 DEF ServersRun
    <3>3. leads \in Nodes
      BY <3>1, <3>2, SomeNode
    <3>4. leads # firstLeader /\ ledLog[leads]
      BY <3>1, <3>3 DEF ServersRun, LeaderLogged
    <3> QED
      BY <3>1, <3>3, <3>4
  <2>7. pc = "detect_old_leader" => server[firstLeader] = "up"
    BY <2>1 DEF ServersRun
  <2>8. pc = "await_follower" => followsLog[firstLeader]
    BY <2>1 DEF ServersRun, Reports
  <2> QED
    BY <2>2, <2>3, <2>4, <2>5, <2>6, <2>7, <2>8 DEF DriverGoesOn
<1> QED
  BY <1>1, SpecIInv, SpecActInv, PTL

LEMMA DriverLeftTyped == ASSUME TypeOK PROVE DriverLeft \in Nat
  BY DEF DriverLeft, Place

(* Every step of the driver but a poll that finds nothing. *)
LEMMA DriverShrinks == IInv /\ ActInv /\ Driver => DriverProgress \/ UNCHANGED vars
<1> SUFFICES ASSUME IInv, ActInv, Driver
             PROVE  DriverProgress \/ UNCHANGED vars
  OBVIOUS
<1>0. TypeOK /\ IsFiniteSet(Nodes) /\ known \subseteq Nodes
  BY NodesAssumption DEF IInv, TypeOK
<1>1. ASSUME NEW n \in Nodes, DetectInstances(n)
      PROVE  DriverProgress
  <2>1. CASE pc' = "find_leader"
    BY <1>1, <2>1 DEF DetectInstances, DriverProgress, DriverLeft, Place
  <2>2. CASE pc' = "detect"
    <3>1. n \in Nodes \ known /\ Nodes \ known' = (Nodes \ known) \ {n}
      BY <1>1 DEF DetectInstances
    <3>2. IsFiniteSet(Nodes \ known)
      BY <1>0, FS_Subset
    <3>3. Cardinality((Nodes \ known) \ {n}) = Cardinality(Nodes \ known) - 1
      BY <3>1, <3>2, FS_RemoveElement
    <3>4. Cardinality(Nodes \ known) \in Nat
      BY <3>2, FS_CardinalityType
    <3>5. pc = "detect" /\ pc' = "detect" /\ flow' = flow
      BY <1>1, <2>2 DEF DetectInstances
    <3>6. Undone = Nodes \ known /\ Undone' = (Nodes \ known) \ {n}
      BY <3>1, <3>5 DEF Undone
    <3>7. DriverLeft' = DriverLeft
      BY <3>5 DEF DriverLeft
    <3> QED
      BY <3>3, <3>4, <3>5, <3>6, <3>7 DEF DriverProgress
  <2> QED
    BY <1>1, <2>1, <2>2 DEF DetectInstances
<1>2. ASSUME NEW n \in Nodes, ShutDown(n)
      PROVE  DriverProgress
  <2>1. CASE pc' = "done"
    BY <1>2, <2>1 DEF ShutDown, DriverProgress, DriverLeft, Place
  <2>2. CASE pc' = "shutdown"
    <3>1. n \in known /\ known' = known \ {n}
      BY <1>2 DEF ShutDown, Stop
    <3>2. IsFiniteSet(known)
      BY <1>0, FS_Subset
    <3>3. Cardinality(known \ {n}) = Cardinality(known) - 1
      BY <3>1, <3>2, FS_RemoveElement
    <3>4. Cardinality(known) \in Nat
      BY <3>2, FS_CardinalityType
    <3>5. pc = "shutdown" /\ pc' = "shutdown" /\ flow' = flow
      BY <1>2, <2>2 DEF ShutDown
    <3>6. Undone = known /\ Undone' = known \ {n}
      BY <3>1, <3>5 DEF Undone
    <3>7. DriverLeft' = DriverLeft
      BY <3>5 DEF DriverLeft
    <3> QED
      BY <3>3, <3>4, <3>5, <3>6, <3>7 DEF DriverProgress
  <2> QED
    BY <1>2, <2>1, <2>2 DEF ShutDown
<1>3. ASSUME NEW n \in Nodes, PollFollower(n)
      PROVE  DriverProgress \/ UNCHANGED vars
  <2>1. CASE ledLog[n]
    BY <1>3, <2>1 DEF PollFollower, DriverProgress, DriverLeft, Place
  <2>2. CASE ~ledLog[n]
    <3>1. pc = "find_new_leader" /\ isLeader' = [isLeader EXCEPT ![n] = FALSE]
      BY <1>0, <1>3, <2>2 DEF PollFollower, TypeOK
    <3>2. isLeader' = isLeader
      BY <1>0, <3>1 DEF ActInv, OneFlag, TypeOK
    <3> QED
      BY <1>3, <2>2, <3>2 DEF PollFollower, vars, nodeVars
  <2> QED
    BY <2>1, <2>2
<1>4. ASSUME NEW n \in Nodes, FinishSetup(n)
      PROVE  DriverProgress
  BY <1>4 DEF FinishSetup, DriverProgress, DriverLeft, Place
<1>5. CASE RunStarters \/ MakeData
  BY <1>5 DEF RunStarters, MakeData, AfterSetup, AfterCheck, DriverProgress, DriverLeft, Place
<1>6. CASE BackupCommands \/ RestoreBackup \/ WaitForRestore \/ CheckData
  BY <1>6 DEF BackupCommands, RestoreBackup, WaitForRestore, CheckData, OnLeader, AfterCheck,
              DriverProgress, DriverLeft, Place
<1>7. CASE CommandUpgrade
  BY <1>7 DEF CommandUpgrade, DriverProgress, DriverLeft, Place
<1>8. CASE WaitForUpgrade
  <2>1. flow \in Flows /\ flow.upgrade = "planned" /\ flow'.upgrade = "done"
    BY <1>0, <1>8 DEF WaitForUpgrade, ActInv, UpgradeOnce, TypeOK, Flows
  <2>2. DriverLeft = 23
    BY <1>8, <2>1 DEF WaitForUpgrade, DriverLeft, Place
  <2>3. DriverLeft' = 18 \/ DriverLeft' = 15
    BY <1>8, <2>1 DEF WaitForUpgrade, DriverLeft, Place
  <2> QED
    BY <2>2, <2>3 DEF DriverProgress
<1>9. CASE TestSetup \/ TerminateFirstLeader \/ AskNewLeader \/ RespawnFirstLeader
  <2>1. \/ pc = "test_setup" /\ pc' = "jam"
        \/ pc = "jam" /\ pc' = "find_new_leader"
        \/ pc = "ask_new_leader" /\ pc' = "respawn"
        \/ pc = "respawn" /\ pc' = "detect_old_leader"
    BY <1>9 DEF TestSetup, TerminateFirstLeader, AskNewLeader, RespawnFirstLeader
  <2>2. flow' = flow
    BY <1>9 DEF TestSetup, TerminateFirstLeader, AskNewLeader, RespawnFirstLeader
  <2> QED
    BY <2>1, <2>2 DEF DriverProgress, DriverLeft, Place
<1>10. CASE DetectFirstLeader \/ WaitForFollower \/ AskOldLeader
  BY <1>10 DEF DetectFirstLeader, WaitForFollower, AskOldLeader, DriverProgress, DriverLeft,
               Place
<1> QED
  BY <1>1, <1>2, <1>3, <1>4, <1>5, <1>6, <1>7, <1>8, <1>9, <1>10 DEF Driver

(* The deployment's tasks can be counted. *)
LEMMA TasksFinite ==
    ASSUME TypeOK
    PROVE  /\ IsFiniteSet(toRestart) /\ IsFiniteSet(Booting) /\ IsFiniteSet(Silent)
           /\ Cardinality(toRestart) \in Nat /\ Cardinality(Booting) \in Nat
           /\ Cardinality(Silent) \in Nat
           /\ DeploymentLeft \in Nat
<1>1. /\ toRestart \subseteq Nodes /\ Booting \subseteq Nodes /\ Silent \subseteq Nodes
  BY DEF TypeOK, Booting, Silent
<1>2. IsFiniteSet(toRestart) /\ IsFiniteSet(Booting) /\ IsFiniteSet(Silent)
  BY <1>1, NodesAssumption, FS_Subset
<1>3. /\ Cardinality(toRestart) \in Nat /\ Cardinality(Booting) \in Nat
      /\ Cardinality(Silent) \in Nat
  BY <1>2, FS_CardinalityType
<1>4. \A a, b, c \in Nat : 3 * a + b + c + 1 \in Nat /\ 3 * a + b + c + 0 \in Nat
  OBVIOUS
<1> QED
  BY <1>2, <1>3, <1>4 DEF DeploymentLeft

(* Every step of the deployment is one of its tasks. *)
LEMMA DeploymentShrinks ==
    TypeOK /\ Deployment => UNCHANGED driverVars /\ DeploymentLeft' < DeploymentLeft
<1> SUFFICES ASSUME TypeOK, NEW n \in Nodes,
                    Boot(n) \/ Elect(n) \/ ReportFollower(n) \/ RollingRestart(n)
             PROVE  UNCHANGED driverVars /\ DeploymentLeft' < DeploymentLeft
  BY DEF Deployment
<1> DEFINE R == Cardinality(toRestart)
<1> DEFINE B == Cardinality(Booting)
<1> DEFINE S == Cardinality(Silent)
<1> DEFINE L == IF leads = NoNode THEN 1 ELSE 0
<1>0. R \in Nat /\ B \in Nat /\ S \in Nat /\ L \in 0..1 /\ L' \in 0..1
  BY TasksFinite
<1>1. UNCHANGED driverVars
  BY DEF Boot, Elect, ReportFollower, RollingRestart
<1>2. DeploymentLeft = 3 * R + B + S + L /\ DeploymentLeft' = 3 * R' + B' + S' + L'
  BY DEF DeploymentLeft
<1>3. CASE Boot(n)
  <2>1. n \in Booting /\ Booting' = Booting \ {n}
    BY <1>3 DEF Boot, Booting, TypeOK
  <2>2. R' = R /\ B' = B - 1 /\ S' = S /\ L' = L
    BY <1>3, <2>1, TasksFinite, FS_RemoveElement DEF Boot, Silent
  <2> HIDE DEF R, B, S, L
  <2> QED
    BY <1>0, <1>1, <1>2, <2>2
<1>4. CASE Elect(n)
  <2>1. R' = R /\ B' = B /\ S' = S /\ L = 1 /\ L' = 0
    BY <1>4, NoNodeAssumption DEF Elect, Booting, Silent
  <2> HIDE DEF R, B, S, L
  <2> QED
    BY <1>0, <1>1, <1>2, <2>1
<1>5. CASE ReportFollower(n)
  <2>1. n \in Silent /\ Silent' = Silent \ {n}
    BY <1>5 DEF ReportFollower, Silent, TypeOK
  <2>2. R' = R /\ B' = B /\ S' = S - 1 /\ L' = L
    BY <1>5, <2>1, TasksFinite, FS_RemoveElement DEF ReportFollower, Booting
  <2> HIDE DEF R, B, S, L
  <2> QED
    BY <1>0, <1>1, <1>2, <2>2
<1>6. CASE RollingRestart(n)
  <2>1. /\ n \in toRestart /\ toRestart' = toRestart \ {n}
        /\ n \notin Booting /\ Booting' = Booting \cup {n}
    BY <1>6 DEF RollingRestart, Booting, TypeOK
  <2>2. R' = R - 1 /\ B' = B + 1 /\ S' = S
    BY <1>6, <2>1, TasksFinite, FS_RemoveElement, FS_AddElement DEF RollingRestart, Silent
  <2>3. \A r, b, s \in Nat : \A l, k \in 0..1 :
          3 * (r - 1) + (b + 1) + s + k < 3 * r + b + s + l
    OBVIOUS
  <2> HIDE DEF R, B, S, L
  <2>4. 3 * (R - 1) + (B + 1) + S + L' < 3 * R + B + S + L
    BY <1>0, <2>3
  <2> QED
    BY <1>1, <1>2, <2>2, <2>4
<1> QED
  BY <1>3, <1>4, <1>5, <1>6

(* Each step brings the driver nearer to the end of the run, or leaves it   *)
(* where it is and the deployment with less to do: whatever moves the       *)
(* leadership, the run goes through its phases and at most once back, from  *)
(* the upgrade to the hot backup.                                           *)
THEOREM RunShrinks ==
    Spec => /\ [](/\ DriverLeft \in Nat /\ Cardinality(Undone) \in Nat
                  /\ DeploymentLeft \in Nat)
            /\ [][\/ DriverProgress
                  \/ UNCHANGED driverVars /\ DeploymentLeft' < DeploymentLeft]_vars
<1>1. IInv => /\ DriverLeft \in Nat /\ Cardinality(Undone) \in Nat
              /\ DeploymentLeft \in Nat
  <2> SUFFICES ASSUME TypeOK
               PROVE  DriverLeft \in Nat /\ Cardinality(Undone) \in Nat /\ DeploymentLeft \in Nat
    BY DEF IInv
  <2>1. Undone \subseteq Nodes
    BY DEF Undone, TypeOK
  <2>2. Cardinality(Undone) \in Nat
    BY <2>1, NodesAssumption, FS_Subset, FS_CardinalityType
  <2> QED
    BY <2>2, DriverLeftTyped, TasksFinite
<1>2. IInv /\ ActInv /\ [Next]_vars =>
        [\/ DriverProgress
         \/ UNCHANGED driverVars /\ DeploymentLeft' < DeploymentLeft]_vars
  BY DriverShrinks, DeploymentShrinks DEF IInv, Next, Finished
<1> QED
  BY <1>1, <1>2, SpecIInv, SpecActInv, PTL DEF Spec

=============================================================================
