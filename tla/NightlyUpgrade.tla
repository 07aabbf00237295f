--------------------------- MODULE NightlyUpgrade ---------------------------
(***************************************************************************)
(* The nightly job: full_download_upgrade_test.upgrade_package_test with   *)
(* AcquirePackages (acquire_packages.py).  For each edition it fetches the *)
(* source info of the old and of the new line, compares it with what the   *)
(* version state directory remembers, gets the packages, runs the upgrade  *)
(* test, and at the end remembers what it fetched last.  The build server  *)
(* publishes builds under unchanging names; the job may die at any point   *)
(* and is started again later.                                             *)
(*                                                                         *)
(* A build is its number; the server, client and debug package of one line *)
(* and edition are one package.                                            *)
(***************************************************************************)
EXTENDS Integers

CONSTANTS
    MaxBuild,         \* bound: builds of one line
    PublishDuringRun  \* may a build be published while the job runs?

ASSUME MaxBuildAssumption == MaxBuild \in Nat \ {0}
ASSUME PublishAssumption == PublishDuringRun \in BOOLEAN

Lines == {"old", "new"}
Editions == {"Enterprise", "Community"}
Builds == 1..MaxBuild

Absent == 0    \* no file
Partial == -1  \* a file that was opened and not written to its end
Packages == Builds \cup {Absent, Partial}
States == Builds \cup {Absent, Partial}
Trials == Lines \X Editions \X Packages

(* (True, True), (True, False), (False, False); encryption at rest does    *)
(* not change the package.                                                 *)
Edition(r) == IF r = 3 THEN "Community" ELSE "Enterprise"

VARIABLES
    published, \* published[l]: the build the server offers
    cache,     \* cache[l][e]: the package in package_dir
    recorded,  \* recorded[l]: the <version>_sourceInfo.log
    pc,
    force,
    round,     \* iteration of the loop over the editions
    content,   \* content[l]: old_version_content, new_version_content
    fresh,     \* fresh[l]: fresh_old_content, fresh_new_content
    tested     \* history: the <<line, edition, build>> run_upgrade has passed

vars == <<published, cache, recorded, pc, force, round, content, fresh, tested>>

TypeOK ==
    /\ published \in [Lines -> Builds]
    /\ cache \in [Lines -> [Editions -> Packages]]
    /\ recorded \in [Lines -> States]
    /\ pc \in {"idle", "read_state", "info_old", "info_new", "decide", "skip",
               "get_old", "download_old", "get_new", "download_new", "test",
               "open_old", "write_old", "open_new", "write_new"}
    /\ force \in BOOLEAN
    /\ round \in 1..3
    /\ content \in [Lines -> States]
    /\ fresh \in [Lines -> Builds \cup {Absent}]
    /\ tested \in SUBSET Trials

(* The state directory is empty, or somebody has put the state there that  *)
(* belongs to the packages that were tested.                               *)
Init ==
    /\ published = [l \in Lines |-> 1]
    /\ \/ /\ recorded = [l \in Lines |-> Absent]
          /\ cache = [l \in Lines |-> [e \in Editions |-> Absent]]
          /\ tested = {}
       \/ /\ recorded = [l \in Lines |-> 1]
          /\ cache = [l \in Lines |-> [e \in Editions |-> 1]]
          /\ tested = Lines \X Editions \X {1}
    /\ pc = "idle"
    /\ force = FALSE
    /\ round = 1
    /\ content = [l \in Lines |-> Absent]
    /\ fresh = [l \in Lines |-> Absent]

-----------------------------------------------------------------------------
(* The build server (external). *)
Publish(l) ==
    /\ pc = "idle" \/ PublishDuringRun
    /\ published[l] < MaxBuild
    /\ published' = [published EXCEPT ![l] = @ + 1]
    /\ UNCHANGED <<cache, recorded, pc, force, round, content, fresh, tested>>

-----------------------------------------------------------------------------
StartRun(f) ==
    /\ pc = "idle"
    /\ force' = f
    /\ round' = 1
    /\ content' = [l \in Lines |-> Absent]
    /\ fresh' = [l \in Lines |-> Absent]
    /\ pc' = "read_state"
    /\ UNCHANGED <<published, cache, recorded, tested>>

(* An empty file is read as well, and its content is no build's. *)
ReadState ==
    /\ pc = "read_state"
    /\ content' = [l \in Lines |-> IF recorded[l] # Absent THEN recorded[l]
                                                           ELSE content[l]]
    /\ pc' = "info_old"
    /\ UNCHANGED <<published, cache, recorded, force, round, fresh, tested>>

(* get_version_info; sourceInfo.json is always fetched. *)
FetchInfo(l, here, next) ==
    /\ pc = here
    /\ fresh' = [fresh EXCEPT ![l] = published[l]]
    /\ pc' = next
    /\ UNCHANGED <<published, cache, recorded, force, round, content, tested>>

Changed(l) == content[l] # fresh[l]

(* "we already tested this version. bye." *)
Decide ==
    /\ pc = "decide"
    /\ pc' = IF Changed("old") /\ Changed("new") /\ ~force THEN "skip" ELSE "get_old"
    /\ UNCHANGED <<published, cache, recorded, force, round, content, fresh, tested>>

LeaveUntested ==
    /\ pc = "skip"
    /\ pc' = "idle"
    /\ UNCHANGED <<published, cache, recorded, force, round, content, fresh, tested>>

(* Mutant: a package that is there is never fetched again. *)
MutantGetPackage(l, here, download, next) ==
    /\ pc = here
    /\ IF cache[l][Edition(round)] # Absent
       THEN pc' = next /\ cache' = cache
       ELSE /\ pc' = download
            /\ cache' = [cache EXCEPT ![l][Edition(round)] = Partial]
    /\ UNCHANGED <<published, recorded, force, round, content, fresh, tested>>

(* acquire_stage_ftp: a file that is there is kept unless the line has     *)
(* changed; opening it for the download truncates it.                      *)
GetPackage(l, here, download, next) ==
    /\ pc = here
    /\ IF cache[l][Edition(round)] # Absent /\ ~Changed(l)
       THEN pc' = next /\ cache' = cache
       ELSE /\ pc' = download
            /\ cache' = [cache EXCEPT ![l][Edition(round)] = Partial]
    /\ UNCHANGED <<published, recorded, force, round, content, fresh, tested>>

FinishDownload(l, here, next) ==
    /\ pc = here
    /\ cache' = [cache EXCEPT ![l][Edition(round)] = published[l]]
    /\ pc' = next
    /\ UNCHANGED <<published, recorded, force, round, content, fresh, tested>>

(* What run_upgrade installs and upgrades to. *)
Used == {<<l, Edition(round), cache[l][Edition(round)]>> : l \in Lines}

(* Mutant: one round too many. *)
MutantRunUpgrade ==
    /\ pc = "test"
    /\ tested' = tested \cup Used
    /\ round' = round + 1
    /\ pc' = IF round <= 3 THEN "read_state" ELSE IF force THEN "idle" ELSE "open_old"
    /\ UNCHANGED <<published, cache, recorded, force, content, fresh>>

RunUpgrade ==
    /\ pc = "test"
    /\ tested' = tested \cup Used
    /\ round' = IF round < 3 THEN round + 1 ELSE round
    /\ pc' = IF round < 3 THEN "read_state" ELSE IF force THEN "idle" ELSE "open_old"
    /\ UNCHANGED <<published, cache, recorded, force, content, fresh>>

(* write_text truncates the file when it opens it, and then writes. *)
OpenState(l, here, next) ==
    /\ pc = here
    /\ recorded' = [recorded EXCEPT ![l] = Partial]
    /\ pc' = next
    /\ UNCHANGED <<published, cache, force, round, content, fresh, tested>>

WriteState(l, here, next) ==
    /\ pc = here
    /\ recorded' = [recorded EXCEPT ![l] = fresh[l]]
    /\ pc' = next
    /\ UNCHANGED <<published, cache, force, round, content, fresh, tested>>

(* A download or a test raises, or the job is killed. *)
Die ==
    /\ pc # "idle"
    /\ pc' = "idle"
    /\ UNCHANGED <<published, cache, recorded, force, round, content, fresh, tested>>

Next ==
    \/ \E l \in Lines : Publish(l)
    \/ \E f \in BOOLEAN : StartRun(f)
    \/ ReadState
    \/ FetchInfo("old", "info_old", "info_new")
    \/ FetchInfo("new", "info_new", "decide")
    \/ Decide
    \/ LeaveUntested
    \/ GetPackage("old", "get_old", "download_old", "get_new")
    \/ FinishDownload("old", "download_old", "get_new")
    \/ GetPackage("new", "get_new", "download_new", "test")
    \/ FinishDownload("new", "download_new", "test")
    \/ RunUpgrade
    \/ OpenState("old", "open_old", "write_old")
    \/ WriteState("old", "write_old", "open_new")
    \/ OpenState("new", "open_new", "write_new")
    \/ WriteState("new", "write_new", "idle")
    \/ Die

Spec == Init /\ [][Next]_vars

-----------------------------------------------------------------------------
(* "directory to remember the tested version combination in": a build that *)
(* is remembered was tested in both editions.  The job may have died       *)
(* between two downloads, in a test, between the two writes or in one.     *)
RecordedWasTested ==
    \A l \in Lines : \A e \in Editions :
        recorded[l] \in Builds => <<l, e, recorded[l]>> \in tested

(* The packages an upgrade test runs on are those the source info tells    *)
(* of, complete, whatever earlier runs left in the package directory.      *)
TestsWhatItFetched ==
    pc = "test" => \A l \in Lines : cache[l][Edition(round)] = fresh[l]

(* "we already tested this version": a run that leaves early has nothing   *)
(* to test.                                                                *)
SkipsOnlyTested ==
    pc = "skip" => \A l \in Lines : \A e \in Editions : <<l, e, fresh[l]>> \in tested
=============================================================================
