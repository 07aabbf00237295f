-------------------------- MODULE ClusterRunProofs --------------------------
(***************************************************************************)
(* Type correctness and the two invariants of ClusterRun, for any number   *)
(* of starters, tries and polls and every kind of deployment.              *)
(***************************************************************************)
EXTENDS ClusterRun, FiniteSetTheorems, TLAPS

LEMMA TheNodes == 1 \in Nodes /\ Commander \in Nodes /\ Jammed \in Nodes
  BY StartersAssumption DEF Nodes, Commander, Jammed

LEMMA NextNode == \A n \in Nodes : n < Starters => n + 1 \in Nodes
  BY StartersAssumption DEF Nodes

LEMMA TryBounds ==
    /\ Tries \in 1..Tries
    /\ \A n \in 1..Tries : n > 1 => n - 1 \in 1..Tries
  BY BoundsAssumption

LEMMA PollBounds ==
    /\ 0 \in 0..(MaxPolls + 1)
    /\ \A n \in 0..(MaxPolls + 1) : n <= MaxPolls => n + 1 \in 0..(MaxPolls + 1)
  BY BoundsAssumption

LEMMA StaleServers ==
    ASSUME NEW n \in Nodes, NEW r \in Roles, NEW S
    PROVE  {<<n, s>> : s \in S \cap {r}} \subseteq Servers
  BY DEF Servers

-----------------------------------------------------------------------------
(* Types *)

LEMMA TypeInit == Init => TypeOK
<1> SUFFICES ASSUME Init
             PROVE  TypeOK
  OBVIOUS
<1> USE DEF Init
<1>1. Roles \subseteq Roles /\ {"coordinator"} \subseteq Roles /\ {} \subseteq Roles
  BY DEF Roles
<1>2. up \in [Nodes -> SUBSET Roles] /\ known \in [Nodes -> SUBSET Roles]
  BY <1>1
<1>3. /\ starter \in [Nodes -> {"none", "running", "gone", "ended"}]
      /\ isLeader \in [Nodes -> BOOLEAN]
  OBVIOUS
<1> QED
  BY <1>2, <1>3, TheNodes, TryBounds, PollBounds DEF TypeOK

(* A round of the detection keeps the types of what it assigns. *)
LEMMA RoundTypes ==
    ASSUME TypeOK, NEW n \in Nodes, NEW here, NEW ACTION Found,
           DetectRound(n, here, Found)
    PROVE  /\ known' = [known EXCEPT ![n] = up[n]]
           /\ stale' \subseteq stale
           /\ tries' \in 1..Tries
           /\ Found \/ (pc' = here /\ at' = at) \/ (pc' = "no_frontend" /\ at' = at)
  BY TryBounds DEF DetectRound, TypeOK

LEMMA TypeStep == TypeOK /\ [Next]_vars => TypeOK'
<1> SUFFICES ASSUME TypeOK, [Next]_vars
             PROVE  TypeOK'
  OBVIOUS
<1> USE TheNodes DEF TypeOK, deploymentVars, driverVars, loopVars, knowledge, Aborted
<1>1. ASSUME NEW n \in Nodes, NEW r \in Roles, Boot(n, r)
      PROVE  TypeOK'
  BY <1>1 DEF Boot
<1>2. ASSUME NEW n \in Nodes, NEW r \in Roles, RollingRestart(n, r)
      PROVE  TypeOK'
  BY <1>2, StaleServers DEF RollingRestart
<1>3. ASSUME NEW n \in Nodes, StarterDies(n) \/ BenchEnds(n)
      PROVE  TypeOK'
  BY <1>3 DEF StarterDies, BenchEnds
<1>4. CASE StrangerExits
  BY <1>4 DEF StrangerExits
<1>5. CASE RunStarter
  BY <1>5, NextNode DEF RunStarter, Advance
<1>6. CASE AwaitStarter
  BY <1>6, NextNode DEF AwaitStarter, Advance
<1>7. CASE Detect
  <2>1. CASE flow.kind = "remote_perf"
    BY <1>7, <2>1, NextNode DEF Detect, Advance
  <2>2. CASE flow.kind # "remote_perf"
    BY <1>7, <2>2, NextNode, RoundTypes DEF Detect, Advance
  <2> QED
    BY <2>1, <2>2
<1>8. CASE FinishSetup
  BY <1>8 DEF FinishSetup, Frontends
<1>9. CASE MakeData \/ LaunchBench
  BY <1>9 DEF MakeData, LaunchBench
<1>10. CASE ReplaceBinary
  BY <1>10, NextNode DEF ReplaceBinary, Advance
<1>11. CASE CommandUpgrade
  BY <1>11 DEF CommandUpgrade
<1>12. CASE WaitForUpgrade \/ WaitForBench \/ CheckData
  BY <1>12 DEF WaitForUpgrade, WaitForBench, CheckData
<1>13. CASE DataStress \/ RunStranger
  BY <1>13 DEF DataStress, RunStranger
<1>14. CASE TerminateThird
  BY <1>14 DEF TerminateThird, Terminate, Frontends
<1>15. CASE RespawnThird \/ AwaitThird
  BY <1>15 DEF RespawnThird, AwaitThird, Frontends
<1>16. CASE DetectThird
  BY <1>16, RoundTypes DEF DetectThird, Frontends
<1>17. CASE PollStranger
  BY <1>17, PollBounds DEF PollStranger
<1>18. CASE ShutDown
  BY <1>18, NextNode DEF ShutDown, Terminate, Advance
<1>19. CASE UNCHANGED vars
  BY <1>19 DEF vars
<1> QED
  BY <1>1, <1>2, <1>3, <1>4, <1>5, <1>6, <1>7, <1>8, <1>9, <1>10, <1>11, <1>12, <1>13,
     <1>14, <1>15, <1>16, <1>17, <1>18, <1>19 DEF Next, Driver, Deployment, Finished

(* The variables of the deployment and of the driver keep their types. *)
THEOREM TypeCorrect == Spec => []TypeOK
<1>1. Init => TypeOK
  BY TypeInit
<1>2. TypeOK /\ [Next]_vars => TypeOK'
  BY TypeStep
<1> QED
  BY <1>1, <1>2, PTL DEF Spec

-----------------------------------------------------------------------------
(* The inductive invariant: what the driver knows is true except while the  *)
(* upgrade runs, and old process ids come up in no other phase.            *)

BeforeUpgrade == {"run_starters", "await_starters", "detect", "finish_setup", "make_data",
                  "upgrade", "replace", "still_alive"}

RestartsDone == pc \notin {"await_upgrade"} \cup Aborted => toRestart = {}

KnownUp ==
    pc \notin {"await_upgrade"} \cup Aborted => \A n \in Nodes : known[n] \subseteq up[n]

NothingStale == pc \in BeforeUpgrade => stale = {}

FrontendsKnown ==
    pc \notin {"shutdown", "done"} \cup Aborted =>
        \A n \in frontends : n \in Nodes /\ "coordinator" \in known[n]

IInv ==
    /\ TypeOK
    /\ RestartsDone
    /\ KnownUp
    /\ NothingStale
    /\ FrontendsKnown
    /\ NeverMissing

LEMMA InvInit == Init => IInv
<1> SUFFICES ASSUME Init
             PROVE  IInv
  OBVIOUS
<1>1. TypeOK
  BY TypeInit
<1>2. KnownUp
  BY DEF Init, KnownUp, Roles
<1>3. RestartsDone /\ NothingStale /\ FrontendsKnown /\ NeverMissing
  BY DEF Init, RestartsDone, NothingStale, FrontendsKnown, NeverMissing
<1> QED
  BY <1>1, <1>2, <1>3 DEF IInv

(* A round of the detection of n only adds to what the driver knows. *)
LEMMA RoundInv ==
    ASSUME IInv, TypeOK', NEW n \in Nodes, NEW here, NEW ACTION Found,
           DetectRound(n, here, Found), UNCHANGED deploymentVars,
           pc \notin {"await_upgrade"} \cup Aborted
    PROVE  /\ \A m \in Nodes : known[m] \subseteq known'[m] /\ known'[m] \subseteq up'[m]
           /\ stale = {} => stale' = {}
           /\ toRestart' = {}
<1>1. known' = [known EXCEPT ![n] = up[n]] /\ stale' \subseteq stale
  BY RoundTypes DEF IInv
<1>2. \A m \in Nodes : known[m] \subseteq up[m]
  BY DEF IInv, KnownUp
<1>3. up' = up /\ toRestart' = toRestart /\ toRestart = {}
  BY DEF deploymentVars, IInv, RestartsDone
<1> QED
  BY <1>1, <1>2, <1>3 DEF IInv, TypeOK

LEMMA InvStep == IInv /\ [Next]_vars => IInv'
<1> SUFFICES ASSUME IInv, [Next]_vars
             PROVE  IInv'
  OBVIOUS
<1>0. TypeOK /\ TypeOK'
  BY TypeStep DEF IInv
<1> USE <1>0, TheNodes DEF IInv, RestartsDone, KnownUp, NothingStale, FrontendsKnown,
        NeverMissing, BeforeUpgrade, Aborted, TypeOK, deploymentVars, driverVars, loopVars,
        knowledge
<1>1. ASSUME NEW n \in Nodes, NEW r \in Roles, Boot(n, r)
      PROVE  IInv'
  BY <1>1 DEF Boot
<1>2. ASSUME NEW n \in Nodes, NEW r \in Roles, RollingRestart(n, r)
      PROVE  IInv'
  <2>1. pc \in {"await_upgrade"} \cup Aborted
    BY <1>2 DEF RollingRestart
  <2> QED
    BY <1>2, <2>1 DEF RollingRestart
<1>3. ASSUME NEW n \in Nodes, StarterDies(n) \/ BenchEnds(n)
      PROVE  IInv'
  BY <1>3 DEF StarterDies, BenchEnds
<1>4. CASE StrangerExits
  BY <1>4 DEF StrangerExits
<1>5. CASE RunStarter
  BY <1>5 DEF RunStarter, Advance
<1>6. CASE AwaitStarter
  BY <1>6 DEF AwaitStarter, Advance
<1>7. CASE Detect
  <2>1. CASE flow.kind = "remote_perf"
    BY <1>7, <2>1 DEF Detect, Advance
  <2>2. CASE flow.kind # "remote_perf"
    <3>1. DetectRound(at, "detect", Advance("detect", "finish_setup"))
      BY <1>7, <2>2 DEF Detect
    <3>2. pc = "detect" /\ UNCHANGED <<deploymentVars, flow, isLeader, frontends>>
      BY <1>7 DEF Detect
    <3>3. /\ \A m \in Nodes : known[m] \subseteq known'[m] /\ known'[m] \subseteq up'[m]
          /\ stale = {} => stale' = {}
          /\ toRestart' = {}
      BY <3>1, <3>2, RoundInv
    <3>4. pc' \in {"detect", "finish_setup", "no_frontend"}
      BY <3>1, RoundTypes DEF Advance
    <3> QED
      BY <3>2, <3>3, <3>4
  <2> QED
    BY <2>1, <2>2
<1>8. CASE FinishSetup
  BY <1>8 DEF FinishSetup, Frontends
<1>9. CASE MakeData \/ LaunchBench
  BY <1>9 DEF MakeData, LaunchBench
<1>10. CASE ReplaceBinary
  <2>1. StillAlive(at)
    BY <1>10 DEF ReplaceBinary, StillAlive
  <2> QED
    BY <1>10, <2>1 DEF ReplaceBinary, Advance
<1>11. CASE CommandUpgrade
  <2>1. \A n \in Nodes : StillAlive(n)
    BY <1>11 DEF CommandUpgrade, StillAlive
  <2> QED
    BY <1>11, <2>1 DEF CommandUpgrade
<1>12. CASE WaitForUpgrade
  BY <1>12 DEF WaitForUpgrade
<1>13. CASE WaitForBench \/ CheckData
  BY <1>13 DEF WaitForBench, CheckData
<1>14. CASE DataStress \/ RunStranger
  BY <1>14 DEF DataStress, RunStranger
<1>15. CASE TerminateThird
  BY <1>15 DEF TerminateThird, Terminate, Frontends
<1>16. CASE RespawnThird
  BY <1>16 DEF RespawnThird, Frontends
<1>17. CASE AwaitThird
  BY <1>17 DEF AwaitThird
<1>18. CASE DetectThird
  <2>1. DetectRound(Jammed, "detect_third", pc' = "stranger" /\ at' = at)
    BY <1>18 DEF DetectThird
  <2>2. pc = "detect_third" /\ UNCHANGED <<deploymentVars, flow, isLeader>>
    BY <1>18 DEF DetectThird
  <2>3. /\ \A m \in Nodes : known[m] \subseteq known'[m] /\ known'[m] \subseteq up'[m]
        /\ toRestart' = {}
    BY <2>1, <2>2, RoundInv
  <2>4. pc' \in {"detect_third", "stranger", "no_frontend"}
    BY <2>1, RoundTypes
  <2>5. frontends' = frontends \/ frontends' = Frontends(isLeader, known')
    BY <1>18 DEF DetectThird
  <2> QED
    BY <2>2, <2>3, <2>4, <2>5 DEF Frontends
<1>19. CASE PollStranger
  BY <1>19 DEF PollStranger
<1>20. CASE ShutDown
  BY <1>20 DEF ShutDown, Terminate, Advance
<1>21. CASE UNCHANGED vars
  BY <1>21 DEF vars
<1> QED
  BY <1>1, <1>2, <1>3, <1>4, <1>5, <1>6, <1>7, <1>8, <1>9, <1>10, <1>11, <1>12, <1>13,
     <1>14, <1>15, <1>16, <1>17, <1>18, <1>19, <1>20, <1>21
  DEF Next, Driver, Deployment, Finished

(* Behind every entry of basecfg.frontends there is a coordinator that runs *)
(* whenever somebody uses the list.                                        *)
THEOREM FrontendsAreUp == Spec => []FrontendsServe
<1>1. Init => IInv
  BY InvInit
<1>2. IInv /\ [Next]_vars => IInv'
  BY InvStep
<1>3. IInv => FrontendsServe
  BY DEF IInv, KnownUp, FrontendsKnown, FrontendsServe, Aborted
<1> QED
  BY <1>1, <1>2, <1>3, PTL DEF Spec

(* No process is missed because the driver's ids are those of the past. *)
THEOREM NoneIsMissing == Spec => []NeverMissing
<1>1. Init => IInv
  BY InvInit
<1>2. IInv /\ [Next]_vars => IInv'
  BY InvStep
<1>3. IInv => NeverMissing
  BY DEF IInv
<1> QED
  BY <1>1, <1>2, <1>3, PTL DEF Spec

-----------------------------------------------------------------------------
(* The run ends: what can be said of it without fairness.                   *)

UpgradePhases == {"upgrade", "replace", "still_alive", "await_upgrade", "await_bench",
                  "check_data"}

(* Every local starter that the driver waits for was started. *)
StartersRun ==
    flow.kind # "remote_perf" =>
      /\ pc = "run_starters" => \A n \in Nodes : n < at => starter[n] = "running"
      /\ pc \in UpgradePhases \cup {"await_starters", "detect", "finish_setup", "make_data",
                "jam", "await_third", "detect_third", "stranger", "await_stranger"} =>
           \A n \in Nodes : starter[n] \in {"running", "gone"}
      /\ pc = "respawn" => \A n \in Nodes \ {Jammed} : starter[n] \in {"running", "gone"}

(* A remote deployment runs and is not upgraded. *)
RemoteRuns ==
    /\ pc \in UpgradePhases => flow.upgrade
    /\ ~flow.upgrade => toRestart = {}
    /\ flow.kind = "remote_perf" => \A n \in Nodes : up[n] = Roles

StrangerStarted == pc = "await_stranger" => stranger # "none"

ActInv == StartersRun /\ RemoteRuns /\ StrangerStarted

(* The driver finds what it waits for, or need not wait. *)
DriverGoesOn ==
    /\ ~RunOver
    /\ pc = "await_starters" =>
         starter[Starters + 1 - at] = "gone" \/ IsInstanceUp(Starters + 1 - at)
    /\ pc = "await_third" => starter[Jammed] = "gone" \/ IsInstanceUp(Jammed)
    /\ pc = "await_upgrade" =>
         MayFail \/ (toRestart = {} /\ \A n \in Nodes : up[n] = Roles)
    /\ pc = "await_bench" => bench = {}

(* A starter is about to launch its first server. *)
FirstServerComes(n) == starter[n] = "running" /\ ~IsInstanceUp(n)

(* The rolling upgrade restarts a server, or one it has restarted comes up. *)
UpgradeGoesOn ==
    /\ pc = "await_upgrade"
    /\ \/ toRestart # {} /\ \A n \in Nodes : up[n] = Roles
       \/ \E n \in Nodes : starter[n] = "running" /\ up[n] # Roles

BenchRuns == pc = "await_bench" /\ \E n \in Nodes : n \in bench

SomebodyMoves ==
    \/ RunOver
    \/ DriverGoesOn
    \/ \E n \in Nodes : FirstServerComes(n)
    \/ UpgradeGoesOn
    \/ BenchRuns
    \/ \E n \in Nodes : starter[n] = "gone"

(* How far the driver is from its end. *)
Place(s) ==
    CASE s = "run_starters" -> 19
      [] s = "await_starters" -> 18
      [] s = "detect" -> 17
      [] s = "finish_setup" -> 16
      [] s = "make_data" -> 15
      [] s = "upgrade" -> 14
      [] s = "replace" -> 13
      [] s = "still_alive" -> 12
      [] s = "await_upgrade" -> 11
      [] s = "await_bench" -> 10
      [] s = "check_data" -> 9
      [] s = "jam" -> 8
      [] s = "respawn" -> 7
      [] s = "await_third" -> 6
      [] s = "detect_third" -> 5
      [] s = "stranger" -> 4
      [] s = "await_stranger" -> 3
      [] s = "shutdown" -> 2
      [] OTHER -> 0

(* A step nearer to the end, to the next starter, or to giving up. *)
DriverProgress ==
    \/ Place(pc') < Place(pc)
    \/ pc' = pc /\ at' > at
    \/ pc' = pc /\ at' = at /\ tries' < tries
    \/ pc' = pc /\ at' = at /\ tries' = tries /\ polls' > polls

(* What the deployment can do while the driver waits. *)
Missing == {x \in Servers : x[2] \notin up[x[1]]}
Running == {n \in Nodes : starter[n] = "running"}
DeploymentLeft ==
    2 * Cardinality(toRestart) + Cardinality(Missing) + Cardinality(Running)
      + Cardinality(bench) + (IF stranger = "running" THEN 1 ELSE 0)

DriverBounds ==
    Place(pc) \in 0..19 /\ at \in 1..Starters /\ tries \in 1..Tries /\ polls \in 0..(MaxPolls + 1)

LEMMA SpecIInv == Spec => []IInv
  BY InvInit, InvStep, PTL DEF Spec

LEMMA ActStep == IInv /\ ActInv /\ [Next]_vars => ActInv'
<1> SUFFICES ASSUME IInv, ActInv, [Next]_vars
             PROVE  ActInv'
  OBVIOUS
<1>0. TypeOK /\ (flow.upgrade => flow.kind = "cluster")
  BY DEF IInv, TypeOK, Flows
<1> USE <1>0, TheNodes DEF ActInv, StartersRun, RemoteRuns, StrangerStarted, UpgradePhases,
        Aborted, TypeOK, deploymentVars, driverVars, loopVars, knowledge
<1>1. ASSUME NEW n \in Nodes, NEW r \in Roles, Boot(n, r)
      PROVE  ActInv'
  BY <1>1 DEF Boot
<1>2. ASSUME NEW n \in Nodes, NEW r \in Roles, RollingRestart(n, r)
      PROVE  ActInv'
  <2>1. flow.upgrade
    BY <1>2 DEF RollingRestart
  <2> QED
    BY <1>2, <2>1 DEF RollingRestart
<1>3. ASSUME NEW n \in Nodes, StarterDies(n) \/ BenchEnds(n)
      PROVE  ActInv'
  BY <1>3 DEF StarterDies, BenchEnds
<1>4. CASE StrangerExits
  BY <1>4 DEF StrangerExits
<1>5. CASE RunStarter
  <2>1. CASE flow.kind = "remote_perf"
    BY <1>5, <2>1 DEF RunStarter, Advance
  <2>2. CASE flow.kind # "remote_perf"
    <3>1. /\ pc = "run_starters" /\ starter' = [starter EXCEPT ![at] = "running"]
          /\ UNCHANGED <<up, toRestart, stranger, flow>>
      BY <1>5, <2>2 DEF RunStarter
    <3>2. \A n \in Nodes : n < at \/ n = at => starter'[n] = "running"
      BY <2>2, <3>1
    <3>3. \/ pc' = "run_starters" /\ at' = at + 1
          \/ pc' = "await_starters" /\ at = Starters
          \/ pc' = "raised"
      <4>1. Advance("run_starters", "await_starters") \/ pc' = "raised"
        BY <1>5 DEF RunStarter
      <4>2. at < Starters \/ at = Starters
        BY StartersAssumption DEF Nodes
      <4> QED
        BY <4>1, <4>2, StartersAssumption DEF Advance
    <3>4. \A n \in Nodes : /\ n < at + 1 => n < at \/ n = at
                           /\ at = Starters => n < at \/ n = at
      BY StartersAssumption DEF Nodes
    <3>5. StartersRun'
      <4>1. CASE pc' = "run_starters" /\ at' = at + 1
        BY <2>2, <3>1, <3>2, <3>4, <4>1
      <4>2. CASE pc' = "await_starters" /\ at = Starters
        BY <2>2, <3>1, <3>2, <3>4, <4>2
      <4>3. CASE pc' = "raised"
        BY <4>3
      <4> QED
        BY <3>3, <4>1, <4>2, <4>3
    <3> QED
      BY <3>1, <3>3, <3>5
  <2> QED
    BY <2>1, <2>2
<1>6. CASE AwaitStarter
  BY <1>6 DEF AwaitStarter, Advance
<1>7. CASE Detect
  <2>1. pc' \in {"detect", "finish_setup", "no_frontend"}
    BY <1>7 DEF Detect, DetectRound, Advance
  <2>2. pc = "detect" /\ UNCHANGED <<deploymentVars, flow>>
    BY <1>7 DEF Detect
  <2> QED
    BY <2>1, <2>2
<1>8. CASE FinishSetup \/ MakeData
  BY <1>8 DEF FinishSetup, MakeData
<1>9. CASE LaunchBench
  BY <1>9 DEF LaunchBench
<1>10. CASE ReplaceBinary
  BY <1>10 DEF ReplaceBinary, Advance
<1>11. CASE CommandUpgrade
  BY <1>11 DEF CommandUpgrade
<1>12. CASE WaitForUpgrade \/ WaitForBench \/ CheckData
  BY <1>12 DEF WaitForUpgrade, WaitForBench, CheckData
<1>13. CASE DataStress \/ RunStranger
  BY <1>13 DEF DataStress, RunStranger
<1>14. CASE TerminateThird
  BY <1>14 DEF TerminateThird, Terminate
<1>15. CASE RespawnThird
  BY <1>15 DEF RespawnThird
<1>16. CASE AwaitThird
  BY <1>16 DEF AwaitThird
<1>17. CASE DetectThird
  <2>1. pc' \in {"detect_third", "stranger", "no_frontend"}
    BY <1>17 DEF DetectThird, DetectRound
  <2>2. pc = "detect_third" /\ UNCHANGED <<deploymentVars, flow>>
    BY <1>17 DEF DetectThird
  <2> QED
    BY <2>1, <2>2
<1>18. CASE PollStranger
  BY <1>18 DEF PollStranger
<1>19. CASE ShutDown
  BY <1>19 DEF ShutDown, Terminate, Advance
<1>20. CASE UNCHANGED vars
  BY <1>20 DEF vars
<1> QED
  BY <1>1, <1>2, <1>3, <1>4, <1>5, <1>6, <1>7, <1>8, <1>9, <1>10, <1>11, <1>12, <1>13,
     <1>14, <1>15, <1>16, <1>17, <1>18, <1>19, <1>20
  DEF Next, Driver, Deployment, Finished

LEMMA SpecActInv == Spec => []ActInv
<1>1. Init => ActInv
  BY StartersAssumption
     DEF Init, ActInv, StartersRun, RemoteRuns, StrangerStarted, UpgradePhases, Nodes
<1> QED
  BY <1>1, ActStep, SpecIInv, PTL DEF Spec

(* Until the run is over the driver can go on, or a starter is about to     *)
(* launch a server it waits for, the upgrade goes on or arangobench runs,   *)
(* unless a starter has died: no wait but that one is in vain.              *)
THEOREM SomebodyActs == Spec => []SomebodyMoves
<1>1. IInv /\ ActInv => SomebodyMoves
  <2> SUFFICES ASSUME IInv, ActInv, ~RunOver, \A n \in Nodes : starter[n] # "gone",
                      \A n \in Nodes : ~FirstServerComes(n), ~UpgradeGoesOn, ~BenchRuns
               PROVE  DriverGoesOn
    BY DEF SomebodyMoves
  <2> USE DEF ActInv, IInv, TypeOK
  <2>1. ASSUME NEW n \in Nodes, pc \in {"await_starters", "await_third"}
        PROVE  IsInstanceUp(n)
    <3>1. CASE flow.kind = "remote_perf"
      BY <3>1 DEF RemoteRuns, IsInstanceUp, Roles
    <3>2. CASE flow.kind # "remote_perf"
      BY <2>1, <3>2 DEF StartersRun, FirstServerComes
    <3> QED
      BY <3>1, <3>2
  <2>2. Starters + 1 - at \in Nodes
    BY StartersAssumption DEF Nodes
  <2>3. ASSUME pc = "await_upgrade"
        PROVE  toRestart = {} /\ \A n \in Nodes : up[n] = Roles
    <3>1. \A n \in Nodes : up[n] = Roles
      <4>1. flow.kind = "cluster"
        BY <2>3 DEF RemoteRuns, UpgradePhases, Flows
      <4> QED
        BY <2>3, <4>1 DEF StartersRun, UpgradePhases, UpgradeGoesOn
    <3> QED
      BY <2>3, <3>1 DEF UpgradeGoesOn
  <2>4. pc = "await_bench" => bench = {}
    BY DEF BenchRuns
  <2> QED
    BY <2>1, <2>2, <2>3, <2>4, TheNodes DEF DriverGoesOn
<1> QED
  BY <1>1, SpecIInv, SpecActInv, PTL

(* Every step of the driver. *)
LEMMA DriverStep == IInv /\ Driver => DriverProgress
<1> SUFFICES ASSUME IInv, Driver
             PROVE  DriverProgress
  OBVIOUS
<1>0. at \in 1..Starters /\ tries \in 1..Tries /\ polls \in 0..(MaxPolls + 1)
  BY DEF IInv, TypeOK, Nodes
<1>1. ASSUME NEW here \in {"run_starters", "await_starters", "detect", "replace", "shutdown"},
             NEW next, pc = here, Advance(here, next), Place(next) < Place(here)
      PROVE  DriverProgress
  BY <1>0, <1>1 DEF Advance, DriverProgress
<1>2. ASSUME NEW n \in Nodes, NEW here, NEW ACTION Found, pc = here,
             here \in {"detect", "detect_third"}, DetectRound(n, here, Found)
      PROVE  Found \/ DriverProgress
  BY <1>0, <1>2, BoundsAssumption DEF DetectRound, DriverProgress, Place
<1>3. CASE RunStarter
  <2>1. CASE pc' = "raised"
    BY <1>3, <2>1 DEF RunStarter, DriverProgress, Place
  <2>2. CASE Advance("run_starters", "await_starters")
    BY <1>1, <1>3, <2>2 DEF RunStarter, Place
  <2> QED
    BY <1>3, <2>1, <2>2 DEF RunStarter
<1>4. CASE AwaitStarter
  <2>1. CASE pc' = "starter_gone"
    BY <1>4, <2>1 DEF AwaitStarter, DriverProgress, Place
  <2>2. CASE Advance("await_starters", "detect")
    BY <1>1, <1>4, <2>2 DEF AwaitStarter, Place
  <2> QED
    BY <1>4, <2>1, <2>2 DEF AwaitStarter
<1>5. CASE Detect
  <2>1. Advance("detect", "finish_setup") => DriverProgress
    BY <1>1, <1>5 DEF Detect, Place
  <2> QED
    BY <1>2, <1>5, <2>1 DEF Detect, IInv, TypeOK
<1>6. CASE ReplaceBinary
  <2>1. CASE pc' = "servers_missing"
    BY <1>6, <2>1 DEF ReplaceBinary, DriverProgress, Place
  <2>2. CASE Advance("replace", "still_alive")
    BY <1>1, <1>6, <2>2 DEF ReplaceBinary, Place
  <2> QED
    BY <1>6, <2>1, <2>2 DEF ReplaceBinary
<1>7. CASE DetectThird
  <2>1. pc' = "stranger" /\ pc = "detect_third" => DriverProgress
    BY DEF DriverProgress, Place
  <2> QED
    BY <1>2, <1>7, <2>1, TheNodes DEF DetectThird
<1>8. CASE PollStranger
  BY <1>0, <1>8 DEF PollStranger, DriverProgress, Place
<1>9. CASE ShutDown
  <2>1. CASE pc' = "raised"
    BY <1>9, <2>1 DEF ShutDown, DriverProgress, Place
  <2>2. CASE Advance("shutdown", "done")
    BY <1>1, <1>9, <2>2 DEF ShutDown, Place
  <2> QED
    BY <1>9, <2>1, <2>2 DEF ShutDown
<1>10. CASE \/ FinishSetup \/ MakeData \/ LaunchBench \/ CommandUpgrade
            \/ WaitForUpgrade \/ WaitForBench \/ CheckData
  BY <1>10 DEF FinishSetup, MakeData, LaunchBench, CommandUpgrade, WaitForUpgrade,
               WaitForBench, CheckData, DriverProgress, Place
<1>11. CASE \/ DataStress \/ TerminateThird \/ RespawnThird \/ AwaitThird \/ RunStranger
  BY <1>11 DEF DataStress, TerminateThird, RespawnThird, AwaitThird, RunStranger,
               DriverProgress, Place
<1> QED
  BY <1>3, <1>4, <1>5, <1>6, <1>7, <1>8, <1>9, <1>10, <1>11 DEF Driver

(* The deployment's tasks can be counted. *)
LEMMA TasksFinite ==
    ASSUME TypeOK
    PROVE  /\ IsFiniteSet(toRestart) /\ IsFiniteSet(Missing)
           /\ IsFiniteSet(Running) /\ IsFiniteSet(bench)
           /\ DeploymentLeft \in Nat
<1>1. IsFiniteSet(Nodes)
  BY FS_Interval, StartersAssumption DEF Nodes
<1>2. IsFiniteSet(Roles)
  <2>1. IsFiniteSet({})
    BY FS_EmptySet
  <2>2. IsFiniteSet({} \cup {"agent"} \cup {"coordinator"} \cup {"dbserver"})
    BY <2>1, FS_AddElement
  <2>3. {} \cup {"agent"} \cup {"coordinator"} \cup {"dbserver"} = Roles
    BY DEF Roles
  <2> QED
    BY <2>2, <2>3
<1>3. IsFiniteSet(Servers)
  BY <1>1, <1>2, FS_Product DEF Servers
<1>4. /\ toRestart \subseteq Servers /\ Missing \subseteq Servers
      /\ Running \subseteq Nodes /\ bench \subseteq Nodes
  BY DEF TypeOK, Missing, Running
<1>5. /\ IsFiniteSet(toRestart) /\ IsFiniteSet(Missing)
      /\ IsFiniteSet(Running) /\ IsFiniteSet(bench)
  BY <1>1, <1>3, <1>4, FS_Subset
<1>6. /\ Cardinality(toRestart) \in Nat /\ Cardinality(Missing) \in Nat
      /\ Cardinality(Running) \in Nat /\ Cardinality(bench) \in Nat
  BY <1>5, FS_CardinalityType
<1>7. \A a, b, c, d \in Nat : /\ 2 * a + b + c + d + 1 \in Nat
                              /\ 2 * a + b + c + d + 0 \in Nat
  OBVIOUS
<1> QED
  BY <1>5, <1>6, <1>7 DEF DeploymentLeft

(* Every step of the deployment is one of its tasks. *)
LEMMA DeploymentStep ==
    TypeOK /\ Deployment => UNCHANGED <<pc, loopVars>> /\ DeploymentLeft' < DeploymentLeft
<1> SUFFICES ASSUME TypeOK, Deployment
             PROVE  UNCHANGED <<pc, loopVars>> /\ DeploymentLeft' < DeploymentLeft
  OBVIOUS
<1> DEFINE R == Cardinality(toRestart)
<1> DEFINE M == Cardinality(Missing)
<1> DEFINE U == Cardinality(Running)
<1> DEFINE B == Cardinality(bench)
<1>0. R \in Nat /\ M \in Nat /\ U \in Nat /\ B \in Nat
  BY TasksFinite, FS_CardinalityType
<1>1. ASSUME NEW n \in Nodes, NEW r \in Roles, Boot(n, r)
      PROVE  UNCHANGED <<pc, loopVars>> /\ DeploymentLeft' < DeploymentLeft
  <2>1. UNCHANGED <<pc, loopVars, starter, toRestart, stranger, bench>>
    BY <1>1 DEF Boot, driverVars
  <2>2. <<n, r>> \in Missing /\ Missing' = Missing \ {<<n, r>>}
    BY <1>1 DEF Boot, Missing, Servers, TypeOK
  <2>3. M' = M - 1
    BY <2>2, TasksFinite, FS_RemoveElement
  <2>4. R' = R /\ U' = U /\ B' = B
    BY <2>1 DEF Running
  <2> HIDE DEF R, M, U, B
  <2>5. DeploymentLeft = 2 * R + M + U + B + (IF stranger = "running" THEN 1 ELSE 0)
    BY DEF DeploymentLeft, R, M, U, B
  <2>6. DeploymentLeft' = 2 * R + (M - 1) + U + B + (IF stranger = "running" THEN 1 ELSE 0)
    BY <2>1, <2>3, <2>4 DEF DeploymentLeft, R, M, U, B
  <2> QED
    BY <1>0, <2>1, <2>5, <2>6
<1>2. ASSUME NEW n \in Nodes, NEW r \in Roles, RollingRestart(n, r)
      PROVE  UNCHANGED <<pc, loopVars>> /\ DeploymentLeft' < DeploymentLeft
  <2>1. UNCHANGED <<pc, loopVars, starter, stranger, bench>>
    BY <1>2 DEF RollingRestart, driverVars
  <2>2. <<n, r>> \in toRestart /\ toRestart' = toRestart \ {<<n, r>>}
    BY <1>2 DEF RollingRestart
  <2>3. <<n, r>> \notin Missing /\ Missing' = Missing \cup {<<n, r>>}
    BY <1>2 DEF RollingRestart, Missing, Servers, TypeOK
  <2>4. R' = R - 1 /\ M' = M + 1 /\ U' = U /\ B' = B
    BY <2>1, <2>2, <2>3, TasksFinite, FS_RemoveElement, FS_AddElement DEF Running
  <2> HIDE DEF R, M, U, B
  <2>5. DeploymentLeft = 2 * R + M + U + B + (IF stranger = "running" THEN 1 ELSE 0)
    BY DEF DeploymentLeft, R, M, U, B
  <2>6. DeploymentLeft' = 2 * (R - 1) + (M + 1) + U + B
                            + (IF stranger = "running" THEN 1 ELSE 0)
    BY <2>1, <2>4 DEF DeploymentLeft, R, M, U, B
  <2> QED
    BY <1>0, <2>1, <2>5, <2>6
<1>3. ASSUME NEW n \in Nodes, StarterDies(n)
      PROVE  UNCHANGED <<pc, loopVars>> /\ DeploymentLeft' < DeploymentLeft
  <2>1. UNCHANGED <<pc, loopVars, up, toRestart, stranger, bench>>
    BY <1>3 DEF StarterDies, driverVars
  <2>2. n \in Running /\ Running' = Running \ {n}
    BY <1>3 DEF StarterDies, Running, TypeOK
  <2>3. R' = R /\ M' = M /\ U' = U - 1 /\ B' = B
    BY <2>1, <2>2, TasksFinite, FS_RemoveElement DEF Missing
  <2> HIDE DEF R, M, U, B
  <2>5. DeploymentLeft = 2 * R + M + U + B + (IF stranger = "running" THEN 1 ELSE 0)
    BY DEF DeploymentLeft, R, M, U, B
  <2>6. DeploymentLeft' = 2 * R + M + (U - 1) + B + (IF stranger = "running" THEN 1 ELSE 0)
    BY <2>1, <2>3 DEF DeploymentLeft, R, M, U, B
  <2> QED
    BY <1>0, <2>1, <2>5, <2>6
<1>4. ASSUME NEW n \in Nodes, BenchEnds(n)
      PROVE  UNCHANGED <<pc, loopVars>> /\ DeploymentLeft' < DeploymentLeft
  <2>1. UNCHANGED <<pc, loopVars, starter, up, toRestart, stranger>>
    BY <1>4 DEF BenchEnds, driverVars
  <2>2. n \in bench /\ bench' = bench \ {n}
    BY <1>4 DEF BenchEnds
  <2>3. R' = R /\ M' = M /\ U' = U /\ B' = B - 1
    BY <2>1, <2>2, TasksFinite, FS_RemoveElement DEF Missing, Running
  <2> HIDE DEF R, M, U, B
  <2>5. DeploymentLeft = 2 * R + M + U + B + (IF stranger = "running" THEN 1 ELSE 0)
    BY DEF DeploymentLeft, R, M, U, B
  <2>6. DeploymentLeft' = 2 * R + M + U + (B - 1) + (IF stranger = "running" THEN 1 ELSE 0)
    BY <2>1, <2>3 DEF DeploymentLeft, R, M, U, B
  <2> QED
    BY <1>0, <2>1, <2>5, <2>6
<1>5. CASE StrangerExits
  <2>1. UNCHANGED <<pc, loopVars, starter, up, toRestart, bench>>
    BY <1>5 DEF StrangerExits, driverVars
  <2>2. R' = R /\ M' = M /\ U' = U /\ B' = B
    BY <2>1 DEF Missing, Running
  <2> HIDE DEF R, M, U, B
  <2>3. DeploymentLeft = 2 * R + M + U + B + 1
    BY <1>5 DEF StrangerExits, DeploymentLeft, R, M, U, B
  <2>4. DeploymentLeft' = 2 * R + M + U + B + 0
    BY <1>5, <2>2 DEF StrangerExits, DeploymentLeft, R, M, U, B
  <2> QED
    BY <1>0, <2>1, <2>3, <2>4
<1> QED
  BY <1>1, <1>2, <1>3, <1>4, <1>5 DEF Deployment

(* The driver never comes back to where it was, however the tries of the    *)
(* detection and the polls go, and between two of its steps the deployment  *)
(* runs out of things to do: no run of the test is endless.                 *)
THEOREM RunShrinks ==
    Spec => /\ [](DriverBounds /\ DeploymentLeft \in Nat)
            /\ [][\/ DriverProgress
                  \/ UNCHANGED <<pc, loopVars>> /\ DeploymentLeft' < DeploymentLeft]_vars
<1>1. IInv => DriverBounds /\ DeploymentLeft \in Nat
  BY TasksFinite DEF IInv, DriverBounds, Place, TypeOK, Nodes
<1>2. IInv /\ [Next]_vars =>
        [\/ DriverProgress
         \/ UNCHANGED <<pc, loopVars>> /\ DeploymentLeft' < DeploymentLeft]_vars
  BY DriverStep, DeploymentStep DEF IInv, Next, Finished
<1> QED
  BY <1>1, <1>2, SpecIInv, PTL DEF Spec

=============================================================================
