------------------------ MODULE NightlyUpgradeProofs ------------------------
(***************************************************************************)
(* Theorems about NightlyUpgrade, for any number of builds.  What is said  *)
(* about the version state holds as long as no build is published during a *)
(* run, but wherever a run dies.                                           *)
(***************************************************************************)
EXTENDS NightlyUpgrade, TLAPS

Recording == {"open_old", "write_old", "open_new", "write_new"}
FetchedNew == {"decide", "skip", "get_old", "download_old", "get_new",
               "download_new", "test"} \cup Recording
FetchedOld == {"info_new"} \cup FetchedNew

(* The source info is that of the build the server still offers. *)
FreshInfo ==
    /\ pc \in FetchedOld => fresh["old"] = published["old"]
    /\ pc \in FetchedNew => fresh["new"] = published["new"]

(* The content to compare it with is that of the version state. *)
ContentRead ==
    /\ pc = "read_state" =>
         \A l \in Lines : content[l] \in {Absent, recorded[l]}
    /\ pc \notin {"idle", "read_state", "write_old", "open_new", "write_new"} =>
         \A l \in Lines : content[l] = recorded[l]

(* Nobody remembers the future, and the packages of a build that is        *)
(* remembered stay until there is a newer one.                             *)
PackagesKept ==
    \A l \in Lines :
        /\ recorded[l] <= published[l]
        /\ recorded[l] = published[l] =>
             \A e \in Editions : cache[l][e] = published[l]

(* The packages of this round. *)
RoundFetched ==
    /\ pc \in {"get_new", "download_new", "test"} =>
         cache["old"][Edition(round)] = published["old"]
    /\ pc = "test" => cache["new"][Edition(round)] = published["new"]

Passed(e) ==
    \A l \in Lines : /\ <<l, e, published[l]>> \in tested
                     /\ cache[l][e] = published[l]

(* The earlier rounds of this run, and all of them at the end. *)
RoundsPassed ==
    /\ pc # "idle" /\ round = 3 => Passed("Enterprise")
    /\ pc \in Recording => round = 3 /\ Passed("Community")

IInv ==
    /\ TypeOK
    /\ FreshInfo
    /\ ContentRead
    /\ PackagesKept
    /\ RoundFetched
    /\ RoundsPassed
    /\ RecordedWasTested

-----------------------------------------------------------------------------
LEMMA EditionType == \A r \in 1..3 : Edition(r) \in Editions
  BY DEF Edition, Editions

LEMMA Rounds ==
    /\ 1 \in 1..3 /\ 1 # 3 /\ 2 # 3
    /\ \A r \in 1..3 : /\ r = 1 \/ r = 2 \/ r = 3
                       /\ r = 1 => r < 3 /\ r + 1 = 2
                       /\ r = 2 => r < 3 /\ r + 1 = 3
                       /\ r = 3 => ~(r < 3)
                       /\ r < 3 => r + 1 \in 1..3
  OBVIOUS

(* What a download does to the package directory. *)
LEMMA CacheUpdate ==
    ASSUME TypeOK, NEW l \in Lines, NEW v \in Packages,
           cache' = [cache EXCEPT ![l][Edition(round)] = v]
    PROVE  /\ cache' \in [Lines -> [Editions -> Packages]]
           /\ cache'[l][Edition(round)] = v
           /\ \A k \in Lines, e \in Editions :
                k # l \/ e # Edition(round) => cache'[k][e] = cache[k][e]
  BY EditionType DEF TypeOK

LEMMA PackageTypes ==
    /\ \A b \in Builds : b \in Packages /\ b # Absent
    /\ Absent \in Packages /\ Partial \in Packages
    /\ \A s \in States : s \in Packages /\ s \in Int
    /\ \A b \in Builds : b \in States
    /\ Absent \in States /\ Partial \in States
    /\ 1 \in Builds
    /\ \A b \in Builds : b < MaxBuild => b + 1 \in Builds
  BY MaxBuildAssumption DEF Packages, States, Builds, Absent, Partial

LEMMA TypedState ==
    ASSUME TypeOK
    PROVE  /\ round \in 1..3 /\ Edition(round) \in Editions
           /\ \A l \in Lines : /\ published[l] \in Nat /\ published[l] \in Packages
                              /\ recorded[l] \in Int
<1>1. \A b \in Builds : b \in Nat /\ b \in Packages
  BY MaxBuildAssumption DEF Builds, Packages
<1> QED BY <1>1, PackageTypes, EditionType DEF TypeOK

LEMMA InitIInv == Init => IInv
<1> SUFFICES ASSUME Init PROVE IInv
  OBVIOUS
<1>1. TypeOK
  <2>1. published \in [Lines -> Builds]
    BY PackageTypes DEF Init
  <2>2. /\ recorded \in [Lines -> States]
        /\ cache \in [Lines -> [Editions -> Packages]]
    BY PackageTypes DEF Init
  <2>3. Lines \X Editions \X {1} \in SUBSET Trials
    BY PackageTypes DEF Trials
  <2>4. tested \in SUBSET Trials
    BY <2>3 DEF Init
  <2>5. /\ content \in [Lines -> States]
        /\ fresh \in [Lines -> Builds \cup {Absent}]
    BY PackageTypes DEF Init
  <2>6. pc = "idle" /\ force \in BOOLEAN /\ round \in 1..3
    BY Rounds DEF Init
  <2> QED BY <2>1, <2>2, <2>4, <2>5, <2>6 DEF TypeOK
<1>2. FreshInfo /\ ContentRead /\ RoundFetched /\ RoundsPassed
  BY DEF Init, FreshInfo, ContentRead, RoundFetched, RoundsPassed, FetchedOld,
         FetchedNew, Recording
<1>3. PackagesKept /\ RecordedWasTested
  BY PackageTypes DEF Init, PackagesKept, RecordedWasTested, Absent, Builds
<1> QED BY <1>1, <1>2, <1>3 DEF IInv

LEMMA TypeStep == TypeOK /\ Next => TypeOK'
<1> SUFFICES ASSUME TypeOK, Next PROVE TypeOK'
  OBVIOUS
<1> USE PackageTypes
<1>1. ASSUME NEW l \in Lines, Publish(l) PROVE TypeOK'
  <2>1. published' \in [Lines -> Builds]
    BY <1>1 DEF Publish, TypeOK
  <2> QED BY <1>1, <2>1 DEF Publish, TypeOK
<1>2. ASSUME NEW f \in BOOLEAN, StartRun(f) PROVE TypeOK'
  <2>1. /\ content' \in [Lines -> States]
        /\ fresh' \in [Lines -> Builds \cup {Absent}]
    BY <1>2 DEF StartRun
  <2>2. pc' = "read_state" /\ force' \in BOOLEAN /\ round' \in 1..3
    BY <1>2, Rounds DEF StartRun
  <2>3. UNCHANGED <<published, cache, recorded, tested>>
    BY <1>2 DEF StartRun
  <2> QED BY <2>1, <2>2, <2>3 DEF TypeOK
<1>3. CASE ReadState
  BY <1>3 DEF ReadState, TypeOK
<1>4. ASSUME NEW l \in Lines, NEW here, NEW next \in {"info_new", "decide"},
             FetchInfo(l, here, next)
      PROVE  TypeOK'
  BY <1>4 DEF FetchInfo, TypeOK
<1>5. CASE Decide \/ LeaveUntested
  BY <1>5 DEF Decide, LeaveUntested, TypeOK
<1>6. ASSUME NEW l \in Lines, NEW here,
             NEW download \in {"download_old", "download_new"},
             NEW next \in {"get_new", "test"},
             \/ GetPackage(l, here, download, next)
             \/ FinishDownload(l, here, next)
      PROVE  TypeOK'
  <2>0. published[l] \in Packages
    BY TypedState
  <2>1. \/ cache' = cache
        \/ cache' = [cache EXCEPT ![l][Edition(round)] = Partial]
        \/ cache' = [cache EXCEPT ![l][Edition(round)] = published[l]]
    BY <1>6 DEF GetPackage, FinishDownload
  <2>2. cache' \in [Lines -> [Editions -> Packages]]
    BY <2>0, <2>1, CacheUpdate DEF TypeOK
  <2> QED BY <1>6, <2>2 DEF GetPackage, FinishDownload, TypeOK
<1>7. CASE RunUpgrade
  <2>1. round \in 1..3 /\ round' \in 1..3
    <3>1. round \in 1..3
      BY DEF TypeOK
    <3>2. (round' = round + 1 /\ round < 3) \/ round' = round
      BY <1>7 DEF RunUpgrade
    <3> QED BY <3>1, <3>2, Rounds
  <2>2. Used \in SUBSET Trials
    <3>1. \A l \in Lines : cache[l][Edition(round)] \in Packages
      BY <2>1, EditionType DEF TypeOK
    <3> QED BY <2>1, <3>1, EditionType DEF Used, Trials
  <2>3. tested' \in SUBSET Trials
    BY <1>7, <2>2 DEF RunUpgrade, TypeOK
  <2> QED BY <1>7, <2>1, <2>3 DEF RunUpgrade, TypeOK
<1>8. ASSUME NEW l \in Lines, NEW here,
             NEW next \in {"write_old", "open_new", "write_new", "idle"},
             OpenState(l, here, next) \/ WriteState(l, here, next)
      PROVE  TypeOK'
  <2>1. fresh[l] \in States
    BY DEF TypeOK, States
  <2>2. recorded' \in [Lines -> States]
    BY <1>8, <2>1 DEF OpenState, WriteState, TypeOK
  <2> QED BY <1>8, <2>2 DEF OpenState, WriteState, TypeOK
<1>9. CASE Die
  BY <1>9 DEF Die, TypeOK
<1> QED BY <1>1, <1>2, <1>3, <1>4, <1>5, <1>6, <1>7, <1>8, <1>9 DEF Next, Lines

(* The hypothesis is about the server alone: the job may die anywhere. *)
LEMMA IInvStep ==
    ASSUME PublishDuringRun = FALSE, IInv, Next
    PROVE  IInv'
<1>0. TypeOK'
  BY TypeStep DEF IInv
<1> USE <1>0 DEF IInv
<1>1. ASSUME NEW l \in Lines, Publish(l) PROVE IInv'
  <2>1. /\ pc = "idle"
        /\ UNCHANGED <<cache, recorded, pc, force, round, content, fresh, tested>>
        /\ published'[l] = published[l] + 1
        /\ \A k \in Lines : k # l => published'[k] = published[k]
    BY <1>1 DEF Publish, TypeOK
  <2>2. PackagesKept'
    <3> SUFFICES ASSUME NEW k \in Lines
                 PROVE  /\ recorded[k] <= published'[k]
                        /\ recorded[k] = published'[k] =>
                             \A e \in Editions : cache[k][e] = published'[k]
      BY <2>1 DEF PackagesKept
    <3>1. published[k] \in Nat /\ recorded[k] \in Int
      BY TypedState
    <3>2. published'[k] = published[k] \/ published'[k] = published[k] + 1
      BY <2>1
    <3>3. recorded[k] <= published[k]
      BY DEF PackagesKept
    <3>4. CASE published'[k] = published[k]
      BY <3>4 DEF PackagesKept
    <3>5. CASE published'[k] = published[k] + 1
      BY <3>1, <3>3, <3>5
    <3> QED BY <3>2, <3>4, <3>5
  <2>3. FreshInfo' /\ ContentRead' /\ RoundFetched' /\ RoundsPassed'
    BY <2>1 DEF FreshInfo, ContentRead, RoundFetched, RoundsPassed, FetchedOld,
                FetchedNew, Recording
  <2>4. RecordedWasTested'
    BY <2>1 DEF RecordedWasTested
  <2> QED BY <2>2, <2>3, <2>4
<1>2. ASSUME NEW f \in BOOLEAN, StartRun(f) PROVE IInv'
  <2>1. /\ UNCHANGED <<published, cache, recorded, tested>>
        /\ pc' = "read_state" /\ round' = 1
        /\ \A l \in Lines : content'[l] = Absent
    BY <1>2 DEF StartRun
  <2>2. FreshInfo' /\ ContentRead' /\ RoundFetched'
    BY <2>1 DEF FreshInfo, ContentRead, RoundFetched, FetchedOld, FetchedNew, Recording
  <2>3. RoundsPassed'
    BY <2>1, Rounds DEF RoundsPassed, Recording
  <2>4. PackagesKept' /\ RecordedWasTested'
    BY <2>1 DEF PackagesKept, RecordedWasTested
  <2> QED BY <2>2, <2>3, <2>4
<1>3. CASE ReadState
  <2>1. /\ UNCHANGED <<published, cache, recorded, round, fresh, tested>>
        /\ pc = "read_state" /\ pc' = "info_old"
        /\ \A l \in Lines :
             content'[l] = IF recorded[l] # Absent THEN recorded[l] ELSE content[l]
    BY <1>3 DEF ReadState
  <2>2. ContentRead'
    BY <2>1 DEF ContentRead
  <2>3. FreshInfo' /\ RoundFetched' /\ RoundsPassed'
    BY <2>1 DEF FreshInfo, RoundFetched, RoundsPassed, Passed, FetchedOld,
                FetchedNew, Recording
  <2>4. PackagesKept' /\ RecordedWasTested'
    BY <2>1 DEF PackagesKept, RecordedWasTested
  <2> QED BY <2>2, <2>3, <2>4
<1>4. ASSUME \/ FetchInfo("old", "info_old", "info_new")
             \/ FetchInfo("new", "info_new", "decide")
      PROVE  IInv'
  <2>1. UNCHANGED <<published, cache, recorded, round, content, tested>>
    BY <1>4 DEF FetchInfo
  <2>2. \/ /\ pc = "info_old" /\ pc' = "info_new"
           /\ fresh'["old"] = published["old"]
        \/ /\ pc = "info_new" /\ pc' = "decide"
           /\ fresh'["new"] = published["new"]
           /\ fresh'["old"] = fresh["old"]
    BY <1>4 DEF FetchInfo, TypeOK, Lines
  <2>3. FreshInfo' /\ ContentRead'
    BY <2>1, <2>2 DEF FreshInfo, ContentRead, FetchedOld, FetchedNew, Recording
  <2>4. RoundFetched' /\ RoundsPassed'
    BY <2>1, <2>2 DEF RoundFetched, RoundsPassed, Passed, Recording
  <2>5. PackagesKept' /\ RecordedWasTested'
    BY <2>1 DEF PackagesKept, RecordedWasTested
  <2> QED BY <2>3, <2>4, <2>5
<1>5. CASE Decide \/ LeaveUntested
  <2>1. /\ UNCHANGED <<published, cache, recorded, round, content, fresh, tested>>
        /\ \/ pc = "decide" /\ pc' \in {"skip", "get_old"}
           \/ pc = "skip" /\ pc' = "idle"
    BY <1>5 DEF Decide, LeaveUntested
  <2>2. FreshInfo' /\ ContentRead'
    BY <2>1 DEF FreshInfo, ContentRead, FetchedOld, FetchedNew
  <2>3. RoundFetched' /\ RoundsPassed'
    BY <2>1 DEF RoundFetched, RoundsPassed, Passed, Recording
  <2>4. PackagesKept' /\ RecordedWasTested'
    BY <2>1 DEF PackagesKept, RecordedWasTested
  <2> QED BY <2>2, <2>3, <2>4
<1>6. ASSUME NEW l \in Lines, NEW here, NEW download, NEW next,
             \/ l = "old" /\ here = "get_old" /\ download = "download_old"
                /\ next = "get_new"
             \/ l = "new" /\ here = "get_new" /\ download = "download_new"
                /\ next = "test",
             \/ GetPackage(l, here, download, next)
             \/ FinishDownload(l, download, next)
      PROVE  IInv'
  <2>1. UNCHANGED <<published, recorded, round, content, fresh, tested>>
    BY <1>6 DEF GetPackage, FinishDownload
  <2>2. /\ pc \in {here, download} /\ pc' \in {download, next}
        /\ fresh[l] = published[l] /\ content[l] = recorded[l]
    BY <1>6 DEF GetPackage, FinishDownload, FreshInfo, ContentRead, FetchedOld,
                FetchedNew
  <2>3. FreshInfo' /\ ContentRead'
    BY <1>6, <2>1, <2>2 DEF FreshInfo, ContentRead, FetchedOld, FetchedNew
  <2>4. RecordedWasTested'
    BY <2>1 DEF RecordedWasTested
  <2>5. Edition(round) \in Editions
    BY EditionType DEF TypeOK
  <2>6. CASE cache' = cache /\ pc' = next /\ recorded[l] = published[l]
    <3>1. cache[l][Edition(round)] = published[l]
      BY <2>5, <2>6 DEF PackagesKept
    <3>2. RoundFetched'
      BY <1>6, <2>1, <2>2, <2>6, <3>1 DEF RoundFetched
    <3>3. RoundsPassed'
      BY <1>6, <2>1, <2>2, <2>6 DEF RoundsPassed, Passed, Recording
    <3>4. PackagesKept'
      BY <2>1, <2>6 DEF PackagesKept
    <3> QED BY <2>3, <2>4, <3>2, <3>3, <3>4
  <2>7. ASSUME NEW v \in Packages,
               cache' = [cache EXCEPT ![l][Edition(round)] = v],
               \/ pc' = next /\ v = published[l]
               \/ pc' = download /\ recorded[l] # published[l]
        PROVE  IInv'
    <3>1. /\ cache'[l][Edition(round)] = v
          /\ \A k \in Lines, e \in Editions :
               k # l \/ e # Edition(round) => cache'[k][e] = cache[k][e]
      BY <2>7, CacheUpdate
    <3>2. RoundFetched'
      BY <1>6, <2>1, <2>2, <2>5, <2>7, <3>1 DEF RoundFetched, Lines
    <3>3. round = 3 => \A k \in Lines :
                         cache'[k]["Enterprise"] = cache[k]["Enterprise"]
      BY <3>1 DEF Edition, Editions
    <3>4. RoundsPassed'
      BY <1>6, <2>1, <2>2, <3>3 DEF RoundsPassed, Passed, Recording
    <3>5. PackagesKept'
      BY <2>1, <2>7, <3>1 DEF PackagesKept
    <3> QED BY <2>3, <2>4, <3>2, <3>4, <3>5
  <2>8. CASE GetPackage(l, here, download, next)
    <3>1. CASE cache[l][Edition(round)] # Absent /\ ~Changed(l)
      <4>1. recorded[l] = published[l]
        BY <2>2, <3>1 DEF Changed
      <4>2. pc' = next /\ cache' = cache
        BY <2>8, <3>1 DEF GetPackage
      <4> QED BY <2>6, <4>1, <4>2
    <3>2. CASE ~(cache[l][Edition(round)] # Absent /\ ~Changed(l))
      <4>1. recorded[l] # published[l]
        <5>1. published[l] # Absent
          BY PackageTypes DEF TypeOK
        <5>2. recorded[l] = published[l] => cache[l][Edition(round)] = published[l]
          BY <2>5 DEF PackagesKept
        <5> QED BY <2>2, <3>2, <5>1, <5>2 DEF Changed
      <4>2. pc' = download /\ cache' = [cache EXCEPT ![l][Edition(round)] = Partial]
        BY <2>8, <3>2 DEF GetPackage
      <4>3. Partial \in Packages
        BY PackageTypes
      <4> QED BY <2>7, <4>1, <4>2, <4>3
    <3> QED BY <3>1, <3>2
  <2>9. CASE FinishDownload(l, download, next)
    <3>1. published[l] \in Packages
      BY PackageTypes DEF TypeOK
    <3> QED BY <2>7, <2>9, <3>1 DEF FinishDownload
  <2> QED BY <1>6, <2>8, <2>9
<1>7. CASE RunUpgrade
  <2>1. /\ UNCHANGED <<published, cache, recorded, content, fresh>>
        /\ pc = "test" /\ tested' = tested \cup Used
        /\ round < 3 => round' = round + 1 /\ pc' = "read_state"
        /\ ~(round < 3) => round' = round /\ pc' \in {"idle", "open_old"}
    BY <1>7 DEF RunUpgrade
  <2>2. \A l \in Lines : /\ cache[l][Edition(round)] = published[l]
                         /\ <<l, Edition(round), published[l]>> \in tested'
    BY <2>1 DEF RoundFetched, Used, Lines
  <2>3. /\ round = 1 \/ round = 2 \/ round = 3
        /\ round = 2 => Edition(round) = "Enterprise"
        /\ round = 3 => Edition(round) = "Community"
    BY TypedState DEF Edition
  <2>4. RoundsPassed'
    <3>0. round \in 1..3
      BY TypedState
    <3>1. CASE round = 1
      <4>1. round' # 3 /\ pc' = "read_state"
        BY <2>1, <3>0, <3>1, Rounds
      <4> QED BY <4>1 DEF RoundsPassed, Recording
    <3>2. CASE round = 2
      <4>1. pc' = "read_state"
        BY <2>1, <3>0, <3>2, Rounds
      <4>2. Passed("Enterprise")'
        BY <2>1, <2>2, <2>3, <3>2 DEF Passed
      <4> QED BY <4>1, <4>2 DEF RoundsPassed, Recording
    <3>3. CASE round = 3
      BY <2>1, <2>2, <2>3, <3>3 DEF RoundsPassed, Passed, Recording
    <3> QED BY <2>3, <3>1, <3>2, <3>3
  <2>5. FreshInfo' /\ ContentRead' /\ RoundFetched'
    BY <2>1, <2>3 DEF FreshInfo, ContentRead, RoundFetched, FetchedOld, FetchedNew, Recording
  <2>6. PackagesKept' /\ RecordedWasTested'
    BY <2>1 DEF PackagesKept, RecordedWasTested
  <2> QED BY <2>4, <2>5, <2>6
<1>8. ASSUME NEW l \in Lines, NEW here, NEW next, NEW v,
             \/ here = "open_old" /\ next = "write_old" /\ v = Partial
             \/ l = "old" /\ here = "write_old" /\ next = "open_new" /\ v = fresh[l]
             \/ here = "open_new" /\ next = "write_new" /\ v = Partial
             \/ l = "new" /\ here = "write_new" /\ next = "idle" /\ v = fresh[l],
             pc = here, pc' = next,
             recorded' = [recorded EXCEPT ![l] = v],
             UNCHANGED <<published, cache, round, content, fresh, tested>>
      PROVE  IInv'
  <2>1. /\ recorded'[l] = v
        /\ \A k \in Lines : k # l => recorded'[k] = recorded[k]
    BY <1>8 DEF TypeOK
  <2>2. /\ v \in {Partial, published[l]}
        /\ pc \in Recording /\ round = 3 /\ pc # "idle"
        /\ Passed("Enterprise") /\ Passed("Community")
    BY <1>8 DEF FreshInfo, RoundsPassed, FetchedOld, FetchedNew, Recording
  <2>3. \A e \in Editions : /\ cache[l][e] = published[l]
                            /\ <<l, e, published[l]>> \in tested
    BY <2>2 DEF Passed, Editions
  <2>4. published[l] \in Nat /\ Partial \notin Builds /\ Partial < published[l]
    BY TypedState, MaxBuildAssumption DEF Builds, Partial
  <2>5. PackagesKept'
    <3> SUFFICES ASSUME NEW k \in Lines
                 PROVE  /\ recorded'[k] <= published[k]
                        /\ recorded'[k] = published[k] =>
                             \A e \in Editions : cache[k][e] = published[k]
      BY <1>8 DEF PackagesKept
    <3>1. CASE k = l
      <4>1. recorded'[k] = Partial \/ recorded'[k] = published[k]
        BY <2>1, <2>2, <3>1
      <4>2. recorded'[k] <= published[k]
        BY <2>4, <3>1, <4>1 DEF Partial
      <4> QED BY <2>3, <3>1, <4>2
    <3>2. CASE k # l
      BY <2>1, <3>2 DEF PackagesKept
    <3> QED BY <3>1, <3>2
  <2>6. RecordedWasTested'
    <3>1. recorded'[l] \in Builds => recorded'[l] = published[l]
      BY <2>1, <2>2, <2>4
    <3> QED BY <1>8, <2>1, <2>3, <3>1 DEF RecordedWasTested
  <2>7. FreshInfo' /\ ContentRead' /\ RoundFetched'
    BY <1>8, <2>1, <2>2
       DEF FreshInfo, ContentRead, RoundFetched, FetchedOld, FetchedNew, Recording
  <2>8. RoundsPassed'
    BY <1>8, <2>2 DEF RoundsPassed, Passed
  <2> QED BY <2>5, <2>6, <2>7, <2>8
<1>9. CASE Die
  <2>1. /\ UNCHANGED <<published, cache, recorded, round, content, fresh, tested>>
        /\ pc' = "idle"
    BY <1>9 DEF Die
  <2>2. FreshInfo' /\ ContentRead' /\ RoundFetched' /\ RoundsPassed'
    BY <2>1 DEF FreshInfo, ContentRead, RoundFetched, RoundsPassed, FetchedOld,
                FetchedNew, Recording
  <2>3. PackagesKept' /\ RecordedWasTested'
    BY <2>1 DEF PackagesKept, RecordedWasTested
  <2> QED BY <2>2, <2>3
<1>10. "old" \in Lines /\ "new" \in Lines
  BY DEF Lines
<1>11. CASE \/ OpenState("old", "open_old", "write_old")
            \/ OpenState("new", "open_new", "write_new")
  BY <1>8, <1>10, <1>11 DEF OpenState
<1>12. CASE \/ WriteState("old", "write_old", "open_new")
            \/ WriteState("new", "write_new", "idle")
  BY <1>8, <1>10, <1>12 DEF WriteState
<1> QED BY <1>1, <1>2, <1>3, <1>4, <1>5, <1>6, <1>7, <1>9, <1>10, <1>11, <1>12 DEF Next

LEMMA StutterIInv == IInv /\ UNCHANGED vars => IInv'
<1> SUFFICES ASSUME IInv, UNCHANGED vars PROVE IInv'
  OBVIOUS
<1>1. TypeOK' /\ FreshInfo' /\ ContentRead' /\ PackagesKept'
  BY DEF IInv, TypeOK, FreshInfo, ContentRead, PackagesKept, vars
<1>2. RoundFetched' /\ RoundsPassed' /\ RecordedWasTested'
  BY DEF IInv, RoundFetched, RoundsPassed, Passed, RecordedWasTested, vars
<1> QED BY <1>1, <1>2 DEF IInv

LEMMA SpecIInv ==
    ASSUME PublishDuringRun = FALSE
    PROVE  Spec => []IInv
<1>1. IInv /\ [Next]_vars => IInv'
  BY IInvStep, StutterIInv
<1> QED BY InitIInv, <1>1, PTL DEF Spec

-----------------------------------------------------------------------------
(* The job's variables and files keep their types, with builds published   *)
(* at any time. *)
THEOREM TypeCorrect == Spec => []TypeOK
<1>1. Init => TypeOK
  BY InitIInv DEF IInv
<1>2. TypeOK /\ UNCHANGED vars => TypeOK'
  BY DEF TypeOK, vars
<1>3. TypeOK /\ [Next]_vars => TypeOK'
  BY <1>2, TypeStep
<1> QED BY <1>1, <1>3, PTL DEF Spec

(* What the version state directory remembers was tested in both editions, *)
(* wherever earlier runs have died. *)
THEOREM RememberedWasTested ==
    ASSUME PublishDuringRun = FALSE
    PROVE  Spec => []RecordedWasTested
<1>1. IInv => RecordedWasTested
  BY DEF IInv
<1> QED BY <1>1, SpecIInv, PTL

(* Every upgrade test runs on complete packages of the builds whose source *)
(* info was fetched for it. *)
THEOREM TestedWasFetched ==
    ASSUME PublishDuringRun = FALSE
    PROVE  Spec => []TestsWhatItFetched
<1>1. IInv => TestsWhatItFetched
  BY DEF IInv, FreshInfo, RoundFetched, TestsWhatItFetched, FetchedOld,
         FetchedNew, Lines
<1> QED BY <1>1, SpecIInv, PTL

-----------------------------------------------------------------------------
(* Nothing was tested that the server has not offered. *)
TestedWasOffered ==
    \A l \in Lines, e \in Editions, b \in Builds :
        <<l, e, b>> \in tested => b <= published[l]

LEMMA OfferedStep == IInv /\ TestedWasOffered /\ [Next]_vars => TestedWasOffered'
<1> SUFFICES ASSUME IInv, TestedWasOffered, [Next]_vars
             PROVE  TestedWasOffered'
  OBVIOUS
<1>0. TypeOK /\ RoundFetched /\ \A l \in Lines : published[l] \in Nat
  BY TypedState DEF IInv
<1>1. ASSUME NEW l \in Lines, Publish(l)
      PROVE  TestedWasOffered'
  <2>1. /\ \A k \in Lines : published'[k] = published[k] \/ published'[k] = published[k] + 1
        /\ tested' = tested
    BY <1>0, <1>1 DEF Publish, TypeOK
  <2>2. \A k \in Lines, b \in Nat : b <= published[k] => b <= published'[k]
    BY <1>0, <2>1
  <2>3. Builds \subseteq Nat
    BY MaxBuildAssumption DEF Builds
  <2> QED
    BY <2>1, <2>2, <2>3 DEF TestedWasOffered
<1>2. CASE RunUpgrade
  <2>1. \A l \in Lines : cache[l][Edition(round)] = published[l]
    BY <1>0, <1>2 DEF RunUpgrade, RoundFetched, Lines
  <2>2. ASSUME NEW l \in Lines, NEW e \in Editions, NEW b \in Builds,
               <<l, e, b>> \in tested'
        PROVE  b <= published'[l]
    <3>1. published' = published /\ tested' = tested \cup Used
      BY <1>2 DEF RunUpgrade
    <3>2. CASE <<l, e, b>> \in Used
      <4>1. b = published[l]
        BY <2>1, <3>2 DEF Used
      <4> QED
        BY <1>0, <3>1, <4>1
    <3> QED
      BY <2>2, <3>1, <3>2 DEF TestedWasOffered
  <2> QED
    BY <2>2 DEF TestedWasOffered
<1>3. CASE UNCHANGED <<published, tested>>
  BY <1>3 DEF TestedWasOffered
<1> QED
  BY <1>1, <1>2, <1>3
     DEF Next, vars, StartRun, ReadState, FetchInfo, Decide, LeaveUntested, GetPackage,
         FinishDownload, OpenState, WriteState, Die

(* A file of the version state is touched only by a run that has tested    *)
(* the build now offered in both editions.  A job that dies between the    *)
(* truncation and the write loses the build that was remembered, and then  *)
(* the packages are tested again; what is written is never older than a    *)
(* build that any run has tested.                                          *)
THEOREM MemoryAdvances ==
    ASSUME PublishDuringRun = FALSE
    PROVE  Spec => [][\A l \in Lines : recorded'[l] # recorded[l] =>
                        /\ \A e \in Editions : <<l, e, published[l]>> \in tested
                        /\ \/ recorded'[l] = Partial
                           \/ \A e \in Editions, b \in Builds :
                                <<l, e, b>> \in tested => b <= recorded'[l]]_recorded
<1>1. Init => TestedWasOffered
  <2> SUFFICES ASSUME Init, NEW l \in Lines, NEW e \in Editions, NEW b \in Builds,
                      <<l, e, b>> \in tested
               PROVE  b <= published[l]
    BY DEF TestedWasOffered
  <2>1. published[l] = 1 /\ b = 1
    BY DEF Init
  <2> QED
    BY <2>1
<1>2. ASSUME IInv, TestedWasOffered, [Next]_vars, NEW k \in Lines, recorded'[k] # recorded[k]
      PROVE  /\ \A e \in Editions : <<k, e, published[k]>> \in tested
             /\ \/ recorded'[k] = Partial
                \/ \A e \in Editions, b \in Builds :
                     <<k, e, b>> \in tested => b <= recorded'[k]
  <2>1. TypeOK /\ FreshInfo /\ RoundsPassed
    BY <1>2 DEF IInv
  <2>2. pc \in Recording /\ (recorded'[k] = Partial \/ recorded'[k] = fresh[k])
    <3>1. ASSUME NEW l \in Lines, NEW here \in Recording, NEW next,
                 OpenState(l, here, next) \/ WriteState(l, here, next)
          PROVE  pc \in Recording /\ (recorded'[k] = Partial \/ recorded'[k] = fresh[k])
      BY <1>2, <2>1, <3>1 DEF OpenState, WriteState, TypeOK
    <3> QED
      BY <1>2, <3>1
         DEF Next, Publish, StartRun, ReadState, FetchInfo, Decide, LeaveUntested,
             GetPackage, FinishDownload, RunUpgrade, Die, vars, Lines, Recording
  <2>3. fresh[k] = published[k] /\ round = 3 /\ pc # "idle"
    BY <2>1, <2>2 DEF FreshInfo, RoundsPassed, FetchedOld, FetchedNew, Recording, Lines
  <2>4. Passed("Enterprise") /\ Passed("Community")
    BY <2>1, <2>2, <2>3 DEF RoundsPassed
  <2> QED
    BY <1>2, <2>2, <2>3, <2>4 DEF Passed, Editions, TestedWasOffered
<1>3. IInv /\ TestedWasOffered /\ [Next]_vars
        => [\A l \in Lines : recorded'[l] # recorded[l] =>
              /\ \A e \in Editions : <<l, e, published[l]>> \in tested
              /\ \/ recorded'[l] = Partial
                 \/ \A e \in Editions, b \in Builds :
                      <<l, e, b>> \in tested => b <= recorded'[l]]_recorded
  BY <1>2
<1> QED
  BY <1>1, <1>3, OfferedStep, SpecIInv, PTL DEF Spec

=============================================================================
