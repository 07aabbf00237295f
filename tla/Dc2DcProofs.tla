----------------------------- MODULE Dc2DcProofs -----------------------------
(***************************************************************************)
(* Type correctness and the two invariants of Dc2Dc, for every number of   *)
(* polls, with and without failures.                                       *)
(***************************************************************************)
EXTENDS Dc2Dc, TLAPS

LEMMA TheClusters == Clusters = {1, 2}
  BY DEF Clusters

LEMMA OneIsNotTwo == 1 # 2
  OBVIOUS

LEMMA BothAreKnown ==
    \A k \in SUBSET Clusters : 1 \in k /\ 2 \in k => k = Clusters
  BY TheClusters

LEMMA FirstPoll == 0 \in 0..(MaxPolls + 1)
  BY MaxPollsAssumption

LEMMA NextPoll ==
    ASSUME NEW n \in 0..(MaxPolls + 1), n <= MaxPolls
    PROVE  n + 1 \in 0..(MaxPolls + 1)
  BY MaxPollsAssumption

LEMMA Amounts == {0, Password, Data, FuzzData} \subseteq 0..FuzzData
  BY DEF Password, Data, FuzzData

LEMMA AmountsDiffer == 0 # FuzzData /\ Password # FuzzData /\ Data # FuzzData
  BY DEF Password, Data, FuzzData

LEMMA MoreReplicated ==
    ASSUME NEW w \in 0..FuzzData, NEW r \in 0..FuzzData, r < w
    PROVE  /\ r + 1 \in 0..FuzzData
           /\ r # w
           /\ w # FuzzData => r + 1 # FuzzData
  BY DEF FuzzData

-----------------------------------------------------------------------------
(* Types *)

LEMMA TypeInit == Init => TypeOK
  BY FirstPoll, Amounts, TheClusters DEF Init, TypeOK

LEMMA TypeStep == TypeOK /\ [Next]_vars => TypeOK'
<1> SUFFICES ASSUME TypeOK, [Next]_vars
             PROVE  TypeOK'
  OBVIOUS
<1> USE TheClusters DEF TypeOK, deploymentVars, driverVars
<1>1. ASSUME NEW c \in Clusters, Boot(c) \/ LaunchSyncers(c) \/ UpgradeServers(c) \/ RespawnSyncers(c)
      PROVE  TypeOK'
  <2>1. CASE Boot(c)
    BY <2>1 DEF Boot
  <2>2. CASE LaunchSyncers(c)
    BY <2>2 DEF LaunchSyncers
  <2>3. CASE UpgradeServers(c)
    BY <2>3 DEF UpgradeServers
  <2>4. CASE RespawnSyncers(c)
    BY <2>4 DEF RespawnSyncers
  <2> QED
    BY <1>1, <2>1, <2>2, <2>3, <2>4
<1>2. CASE Replicate
  BY <1>2, MoreReplicated DEF Replicate
<1>3. CASE RunStarter \/ Detect \/ GetSyncMasterPort
  BY <1>3 DEF RunStarter, Detect, GetSyncMasterPort, Advance, Raise
<1>4. CASE ConfigureSync \/ MakeData
  BY <1>4, Amounts DEF ConfigureSync, MakeData, Raise
<1>5. CASE ReplaceBinary \/ CommandUpgrade
  BY <1>5 DEF ReplaceBinary, CommandUpgrade, Advance
<1>6. CASE KillSyncProcesses \/ WaitForUpgrade
  BY <1>6 DEF KillSyncProcesses, WaitForUpgrade, Advance, Raise
<1>7. CASE DetectAgain
  BY <1>7 DEF DetectAgain, Advance, Raise
<1>8. CASE CheckFirst \/ CheckSyncAgain
  BY <1>8 DEF CheckFirst, CheckSyncAgain, Raise
<1>9. CASE PollSync
  BY <1>9, NextPoll DEF PollSync
<1>10. CASE CheckSecond
  BY <1>10 DEF CheckSecond
<1>11. CASE StartFuzzing \/ EndFuzzing
  BY <1>11, Amounts DEF StartFuzzing, EndFuzzing
<1>12. CASE ShutDown
  BY <1>12 DEF ShutDown, Advance
<1>13. CASE UNCHANGED vars
  BY <1>13 DEF vars
<1> QED
  BY <1>1, <1>2, <1>3, <1>4, <1>5, <1>6, <1>7, <1>8, <1>9, <1>10, <1>11, <1>12, <1>13
  DEF Next, Driver, Deployment, Finished

(* The variables of the deployment and of the driver keep their types. *)
THEOREM TypeCorrect == Spec => []TypeOK
<1>1. Init => TypeOK
  BY TypeInit
<1>2. TypeOK /\ [Next]_vars => TypeOK'
  BY TypeStep
<1> QED
  BY <1>1, <1>2, PTL DEF Spec

-----------------------------------------------------------------------------
(* Why no arangosync is met that is not its starter's child, if none was    *)
(* missed: the driver knows all processes when it replaces the starters,   *)
(* and kills those the starters leave behind before it looks for them      *)
(* again.                                                                  *)

BeforeUpgrade == {"run starter", "detect", "await syncers", "configure", "make data",
                  "replace", "still alive"}

AllKnown ==
    /\ pc \in {"run starter", "detect", "await syncers"} /\ at = 2 => 1 \in known
    /\ pc = "await syncers" => at \in known
    /\ pc \in {"configure", "make data", "replace", "still alive"} => known = Clusters
    /\ pc = "still alive" => at = 1

NoOrphans ==
    /\ pc = "kill syncers" /\ at = 2 /\ 1 \notin missed =>
         syncers[1] \in {"killed", "starter's"}
    /\ pc \in {"await upgrade", "detect again"} =>
         \A c \in Clusters \ missed : syncers[c] \in {"killed", "starter's"}

SyncInv == TypeOK /\ AllKnown /\ NoOrphans /\ SyncersIdentified

LEMMA SyncInvInit == Init => SyncInv
  BY TypeInit, OneIsNotTwo DEF Init, SyncInv, AllKnown, NoOrphans, SyncersIdentified

LEMMA SyncInvStep == SyncInv /\ [Next]_vars => SyncInv'
<1> SUFFICES ASSUME SyncInv, [Next]_vars
             PROVE  SyncInv'
  OBVIOUS
<1>0. TypeOK /\ TypeOK'
  BY TypeStep DEF SyncInv
<1> USE <1>0, TheClusters, OneIsNotTwo DEF SyncInv, AllKnown, NoOrphans, SyncersIdentified, TypeOK,
        deploymentVars, driverVars
<1>1. ASSUME NEW c \in Clusters, Boot(c) \/ LaunchSyncers(c) \/ UpgradeServers(c) \/ RespawnSyncers(c)
      PROVE  SyncInv'
  <2>1. CASE Boot(c)
    BY <2>1 DEF Boot
  <2>2. CASE LaunchSyncers(c)
    BY <2>2 DEF LaunchSyncers
  <2>3. CASE UpgradeServers(c)
    BY <2>3 DEF UpgradeServers
  <2>4. CASE RespawnSyncers(c)
    BY <2>4 DEF RespawnSyncers
  <2> QED
    BY <1>1, <2>1, <2>2, <2>3, <2>4
<1>2. CASE Replicate
  BY <1>2 DEF Replicate
<1>3. CASE RunStarter
  BY <1>3 DEF RunStarter, Raise
<1>4. CASE Detect \/ GetSyncMasterPort
  <2>1. CASE Detect
    BY <2>1 DEF Detect, Raise
  <2>2. CASE GetSyncMasterPort
    <3>1. known \in SUBSET Clusters
      OBVIOUS
    <3>2. pc = "await syncers"
      BY <2>2 DEF GetSyncMasterPort
    <3>3. at = 2 => 1 \in known /\ 2 \in known
      BY <3>2
    <3>4. at = 2 => known = Clusters
      BY <3>1, <3>3, BothAreKnown
    <3>5. UNCHANGED <<deploymentVars, known, missed>> /\ pc = "await syncers"
      BY <2>2 DEF GetSyncMasterPort, Raise
    <3>6. \/ at = 1 /\ at' = 2 /\ pc' = "run starter"
          \/ at = 2 /\ at' = 1 /\ pc' = "configure"
          \/ pc' = "raised"
      BY <2>2 DEF GetSyncMasterPort, Advance, Raise
    <3> QED
      BY <3>4, <3>5, <3>6
  <2> QED
    BY <1>4, <2>1, <2>2
<1>5. CASE ConfigureSync \/ MakeData
  BY <1>5 DEF ConfigureSync, MakeData, Raise
<1>6. CASE ReplaceBinary
  BY <1>6 DEF ReplaceBinary, Advance
<1>7. CASE CommandUpgrade
  <2>1. pc' = "kill syncers" /\ at' = 1
    BY <1>7 DEF CommandUpgrade
  <2> QED
    BY <1>7, <2>1
<1>8. CASE KillSyncProcesses
  <2>1. \/ at = 1 /\ at' = 2 /\ pc' = "kill syncers"
        \/ at = 2 /\ at' = 1 /\ pc' = "await upgrade"
    BY <1>8 DEF KillSyncProcesses, Advance
  <2>2. missed' = missed /\ pc = "kill syncers"
    BY <1>8 DEF KillSyncProcesses
  <2>3. at \notin missed => syncers' = [syncers EXCEPT ![at] = "killed"]
    BY <1>8 DEF KillSyncProcesses
  <2>4. \A c \in Clusters : c # at => syncers'[c] = syncers[c]
    BY <1>8 DEF KillSyncProcesses
  <2>5. at \notin missed => syncers'[at] = "killed"
    BY <2>3
  <2>6. AllKnown' /\ SyncersIdentified'
    BY <2>1, <2>2
  <2>7. CASE at = 1
    <3>1. pc' = "kill syncers" /\ at' = 2
      BY <2>1, <2>7
    <3>2. 1 \notin missed' => syncers'[1] = "killed"
      BY <2>2, <2>5, <2>7
    <3> QED
      BY <2>6, <3>1, <3>2
  <2>8. CASE at = 2
    <3>1. pc' = "await upgrade" /\ at' = 1
      BY <2>1, <2>8
    <3>2. 2 \notin missed' => syncers'[2] = "killed"
      BY <2>2, <2>5, <2>8
    <3>3. 1 \notin missed => syncers[1] \in {"killed", "starter's"}
      BY <2>2, <2>8
    <3>4. 1 \notin missed' => syncers'[1] \in {"killed", "starter's"}
      BY <2>2, <2>4, <2>8, <3>3
    <3>5. NoOrphans'
      BY <3>1, <3>2, <3>4
    <3> QED
      BY <2>6, <3>5
  <2> QED
    BY <2>7, <2>8
<1>9. CASE WaitForUpgrade
  BY <1>9 DEF WaitForUpgrade, Advance, Raise
<1>10. CASE DetectAgain
  BY <1>10 DEF DetectAgain, Advance, Raise
<1>11. CASE CheckFirst \/ PollSync \/ CheckSecond
  BY <1>11 DEF CheckFirst, PollSync, CheckSecond, Raise
<1>12. CASE StartFuzzing \/ EndFuzzing \/ CheckSyncAgain
  BY <1>12 DEF StartFuzzing, EndFuzzing, CheckSyncAgain
<1>13. CASE ShutDown
  BY <1>13 DEF ShutDown, Advance
<1>14. CASE UNCHANGED vars
  BY <1>14 DEF vars
<1> QED
  BY <1>1, <1>2, <1>3, <1>4, <1>5, <1>6, <1>7, <1>8, <1>9, <1>10, <1>11, <1>12, <1>13,
     <1>14 DEF Next, Driver, Deployment, Finished

(* The workaround that kills the syncers by hand works unless a detection   *)
(* did without some of them: otherwise none is met that has another parent, *)
(* and no process is looked for by an id that is old.                       *)
THEOREM SyncersAreIdentified == Spec => []SyncersIdentified
<1>1. Init => SyncInv
  BY SyncInvInit
<1>2. SyncInv /\ [Next]_vars => SyncInv'
  BY SyncInvStep
<1>3. SyncInv => SyncersIdentified
  BY DEF SyncInv
<1> QED
  BY <1>1, <1>2, <1>3, PTL DEF Spec

-----------------------------------------------------------------------------
(* Why a test that passes has a synchronisation that works: no server is   *)
(* upgraded any more when the fuzzing starts, so nothing breaks the link   *)
(* from then on; and what is written then gets over a link that works only. *)

AfterUpgrade == {"check first", "poll sync", "check second", "fuzz", "await fuzz",
                 "check sync", "shutdown", "done"}
Unfuzzed == {"kill syncers", "await upgrade", "detect again", "check first", "poll sync",
             "check second", "fuzz"}
Compared == {"check sync", "shutdown", "done"}

(* A server that was commanded is not upgraded twice. *)
Running == \A c \in Clusters : syncers[c] # "none" => servers[c] \in {"old", "new"}

Unstarted ==
    /\ pc = "run starter" => servers[at] = "none" /\ syncers[at] = "none"
    /\ pc \in {"run starter", "detect", "await syncers"} /\ at = 1 =>
         servers[2] = "none" /\ syncers[2] = "none"
    /\ pc \in {"run starter", "detect", "await syncers"} /\ at = 2 => syncers[1] # "none"
    /\ pc \in {"configure", "make data", "replace", "still alive", "kill syncers"} =>
         \A c \in Clusters : syncers[c] # "none"

Commanded ==
    /\ pc \in BeforeUpgrade => commanded = {}
    /\ commanded # {} => \A c \in Clusters : servers[c] # "booting"
    /\ pc = "await upgrade" /\ at = 2 => servers[1] = "new"
    /\ pc \in AfterUpgrade \cup {"detect again"} =>
         \A c \in commanded : servers[c] \in {"new", "none"}

ServersSettle == Running /\ Unstarted /\ Commanded

FuzzedLast ==
    /\ pc \in BeforeUpgrade \cup Unfuzzed => written # FuzzData
    /\ written # FuzzData => replicated # FuzzData
    /\ pc \in {"await fuzz"} \cup Compared => written = FuzzData
    /\ pc = "await fuzz" /\ link # "on" => replicated # FuzzData
    /\ pc \in Compared => link = "on" /\ replicated = FuzzData

LinkInv == SyncInv /\ ServersSettle /\ FuzzedLast

LEMMA LinkInvInit == Init => LinkInv
  BY SyncInvInit, TheClusters, OneIsNotTwo, AmountsDiffer
  DEF Init, LinkInv, ServersSettle, Running, Unstarted, Commanded, FuzzedLast, BeforeUpgrade, AfterUpgrade, Unfuzzed, Compared

LEMMA ServersStep == LinkInv /\ [Next]_vars => ServersSettle'
<1> SUFFICES ASSUME LinkInv, [Next]_vars
             PROVE  ServersSettle'
  OBVIOUS
<1>0. TypeOK /\ TypeOK' /\ ServersSettle /\ AllKnown
  BY TypeStep DEF LinkInv, SyncInv
<1> USE <1>0, TheClusters, OneIsNotTwo DEF ServersSettle, Running, Unstarted, Commanded, AllKnown, TypeOK, BeforeUpgrade, AfterUpgrade,
        deploymentVars, driverVars
<1>1. ASSUME NEW c \in Clusters, Boot(c) \/ LaunchSyncers(c) \/ UpgradeServers(c) \/ RespawnSyncers(c)
      PROVE  ServersSettle'
  <2>1. CASE Boot(c)
    <3>1. /\ servers[c] = "booting"
          /\ servers' = [servers EXCEPT ![c] = "old"]
          /\ UNCHANGED <<syncers, commanded, pc, at>>
      BY <2>1 DEF Boot
    <3>2. Running'
      BY <3>1
    <3>3. Unstarted'
      BY <3>1
    <3>4. Commanded'
      BY <3>1, ZenonT(60)
    <3> QED
      BY <3>2, <3>3, <3>4
  <2>2. CASE LaunchSyncers(c)
    <3>1. /\ servers[c] = "old"
          /\ syncers' = [syncers EXCEPT ![c] = "starter's"]
          /\ UNCHANGED <<servers, commanded, pc, at>>
      BY <2>2 DEF LaunchSyncers
    <3>2. Running'
      BY <3>1
    <3>3. Unstarted'
      BY <3>1, ZenonT(60)
    <3>4. Commanded'
      BY <3>1, ZenonT(60)
    <3> QED
      BY <3>2, <3>3, <3>4
  <2>3. CASE UpgradeServers(c)
    <3>1. /\ c \in commanded
          /\ servers[c] = "old"
          /\ servers' = [servers EXCEPT ![c] = "new"]
          /\ UNCHANGED <<syncers, commanded, pc, at>>
      BY <2>3 DEF UpgradeServers
    <3>2. Running'
      BY <3>1
    <3>3. Unstarted'
      BY <3>1
    <3>4. Commanded'
      BY <3>1, ZenonT(60)
    <3> QED
      BY <3>2, <3>3, <3>4
  <2>4. CASE RespawnSyncers(c)
    <3>1. /\ syncers[c] = "killed"
          /\ syncers' = [syncers EXCEPT ![c] = "starter's"]
          /\ UNCHANGED <<servers, commanded, pc, at>>
      BY <2>4 DEF RespawnSyncers
    <3>2. Running'
      BY <3>1
    <3>3. Unstarted'
      BY <3>1, ZenonT(60)
    <3>4. Commanded'
      BY <3>1, ZenonT(60)
    <3> QED
      BY <3>2, <3>3, <3>4
  <2> QED
    BY <1>1, <2>1, <2>2, <2>3, <2>4
<1>2. CASE Replicate
  BY <1>2 DEF Replicate
<1>3. CASE RunStarter
  <2>1. CASE pc' = "detect"
    <3>1. /\ servers' = [servers EXCEPT ![at] = "booting"]
          /\ UNCHANGED <<at, syncers, commanded, known>>
          /\ pc = "run starter"
      BY <1>3, <2>1 DEF RunStarter, Raise
    <3>2. Running'
      BY <3>1
    <3>3. Unstarted'
      BY <2>1, <3>1
    <3> QED
      BY <2>1, <3>1, <3>2, <3>3
  <2>2. CASE pc' = "raised"
    BY <1>3, <2>2 DEF RunStarter, Raise
  <2> QED
    BY <1>3, <2>1, <2>2 DEF RunStarter, Raise
<1>4. CASE Detect
  BY <1>4 DEF Detect, Raise
<1>15. CASE GetSyncMasterPort
  <2>1. CASE pc' # "raised"
    <3>1. syncers[at] = "starter's" /\ UNCHANGED deploymentVars
      BY <1>15, <2>1 DEF GetSyncMasterPort, Raise
    <3>2. \/ at = 1 /\ at' = 2 /\ pc' = "run starter" /\ pc = "await syncers"
          \/ at = 2 /\ at' = 1 /\ pc' = "configure" /\ pc = "await syncers"
      BY <1>15, <2>1 DEF GetSyncMasterPort, Advance, Raise
    <3>3. Running'
      BY <3>1, <3>2
    <3>4. Unstarted'
      BY <3>1, <3>2
    <3> QED
      BY <3>1, <3>2, <3>3, <3>4
  <2>2. CASE pc' = "raised"
    BY <1>15, <2>2 DEF GetSyncMasterPort, Advance, Raise
  <2> QED
    BY <2>1, <2>2
<1>5. CASE ConfigureSync \/ MakeData
  BY <1>5 DEF ConfigureSync, MakeData, Raise
<1>6. CASE ReplaceBinary
  <2>1. at \in known
    BY <1>6 DEF ReplaceBinary
  <2>2. /\ syncers' = [syncers EXCEPT ![at] = "orphaned"]
        /\ UNCHANGED <<servers, commanded, known>>
        /\ pc = "replace" /\ pc' \in {"replace", "still alive"}
    BY <1>6, <2>1 DEF ReplaceBinary, Advance
  <2> QED
    BY <2>1, <2>2
<1>7. CASE CommandUpgrade
  BY <1>7 DEF CommandUpgrade
<1>8. CASE KillSyncProcesses
  BY <1>8 DEF KillSyncProcesses, Advance
<1>9. CASE WaitForUpgrade
  <2>1. CASE pc' # "raised"
    <3>1. /\ pc = "await upgrade" /\ servers[at] = "new"
          /\ UNCHANGED <<servers, syncers, commanded>>
          /\ \/ at = 1 /\ at' = 2 /\ pc' = "await upgrade"
             \/ at = 2 /\ at' = 1 /\ pc' = "detect again"
      BY <1>9, <2>1 DEF WaitForUpgrade, Advance, Raise
    <3>2. Running'
      BY <3>1
    <3>3. Unstarted'
      BY <3>1
    <3>4. Commanded'
      BY <3>1, ZenonT(60)
    <3> QED
      BY <3>2, <3>3, <3>4
  <2>2. CASE pc' = "raised"
    BY <1>9, <2>2 DEF WaitForUpgrade, Advance, Raise
  <2> QED
    BY <2>1, <2>2
<1>10. CASE DetectAgain
  BY <1>10 DEF DetectAgain, Advance, Raise
<1>11. CASE CheckFirst \/ PollSync \/ CheckSecond
  BY <1>11 DEF CheckFirst, PollSync, CheckSecond, Raise
<1>12. CASE StartFuzzing \/ EndFuzzing \/ CheckSyncAgain
  BY <1>12 DEF StartFuzzing, EndFuzzing, CheckSyncAgain
<1>13. CASE ShutDown
  <2>1. CASE at = 1
    BY <1>13, <2>1 DEF ShutDown, Advance
  <2>2. CASE at = 2
    BY <1>13, <2>2 DEF ShutDown, Advance
  <2> QED
    BY <2>1, <2>2
<1>14. CASE UNCHANGED vars
  BY <1>14 DEF vars
<1> QED
  BY <1>1, <1>2, <1>3, <1>4, <1>5, <1>6, <1>7, <1>8, <1>9, <1>10, <1>11, <1>12, <1>13,
     <1>14, <1>15 DEF Next, Driver, Deployment, Finished

LEMMA FuzzedStep == LinkInv /\ [Next]_vars => FuzzedLast'
<1> SUFFICES ASSUME LinkInv, [Next]_vars
             PROVE  FuzzedLast'
  OBVIOUS
<1>0. TypeOK /\ TypeOK' /\ ServersSettle /\ FuzzedLast
  BY TypeStep DEF LinkInv, SyncInv
<1> USE <1>0, AmountsDiffer DEF FuzzedLast, TypeOK, BeforeUpgrade, Unfuzzed, Compared, deploymentVars, driverVars
<1>1. ASSUME NEW c \in Clusters, Boot(c) \/ LaunchSyncers(c) \/ RespawnSyncers(c)
      PROVE  FuzzedLast'
  BY <1>1 DEF Boot, LaunchSyncers, RespawnSyncers
<1>2. ASSUME NEW c \in Clusters, UpgradeServers(c)
      PROVE  FuzzedLast'
  <2>1. pc \notin AfterUpgrade
    BY <1>2 DEF UpgradeServers, ServersSettle, Commanded
  <2> QED
    BY <1>2, <2>1 DEF UpgradeServers, AfterUpgrade
<1>3. CASE Replicate
  <2>1. written \in 0..FuzzData /\ replicated \in 0..FuzzData
    OBVIOUS
  <2>2. link = "on" /\ replicated < written /\ replicated' = replicated + 1
    BY <1>3 DEF Replicate
  <2>3. UNCHANGED <<pc, link, written>>
    BY <1>3 DEF Replicate
  <2>4. replicated # written /\ (written # FuzzData => replicated' # FuzzData)
    BY <2>1, <2>2, MoreReplicated
  <2> QED
    BY <2>2, <2>3, <2>4
<1>4. CASE RunStarter \/ Detect \/ GetSyncMasterPort
  BY <1>4 DEF RunStarter, Detect, GetSyncMasterPort, Advance, Raise
<1>5. CASE ConfigureSync \/ MakeData
  BY <1>5 DEF ConfigureSync, MakeData, Raise
<1>6. CASE ReplaceBinary \/ CommandUpgrade \/ KillSyncProcesses
  BY <1>6 DEF ReplaceBinary, CommandUpgrade, KillSyncProcesses, Advance
<1>7. CASE WaitForUpgrade \/ DetectAgain
  BY <1>7 DEF WaitForUpgrade, DetectAgain, Advance, Raise
<1>8. CASE CheckFirst \/ PollSync \/ CheckSecond
  BY <1>8 DEF CheckFirst, PollSync, CheckSecond, Raise
<1>9. CASE StartFuzzing
  BY <1>9 DEF StartFuzzing
<1>10. CASE EndFuzzing
  BY <1>10 DEF EndFuzzing
<1>11. CASE CheckSyncAgain
  BY <1>11 DEF CheckSyncAgain
<1>12. CASE ShutDown
  BY <1>12 DEF ShutDown, Advance
<1>13. CASE UNCHANGED vars
  BY <1>13 DEF vars
<1> QED
  BY <1>1, <1>2, <1>3, <1>4, <1>5, <1>6, <1>7, <1>8, <1>9, <1>10, <1>11, <1>12, <1>13
  DEF Next, Driver, Deployment, Finished

(* A test that passes has a synchronisation that works, whatever the        *)
(* upgrade did to it.                                                       *)
THEOREM PassedIsReplicated == Spec => []PassedMeansReplicated
<1>1. Init => LinkInv
  BY LinkInvInit
<1>2. LinkInv /\ [Next]_vars => LinkInv'
  BY SyncInvStep, ServersStep, FuzzedStep DEF LinkInv
<1>3. LinkInv => PassedMeansReplicated
  BY DEF LinkInv, FuzzedLast, Compared, PassedMeansReplicated
<1> QED
  BY <1>1, <1>2, <1>3, PTL DEF Spec
=============================================================================
