------------------------------ MODULE Install ------------------------------
(***************************************************************************)
(* The post-install script: a wrapper that prepares a virtual environment, *)
(* then the script proper, which downloads, patches and checks the         *)
(* executors of the manifest and downloads their runners.  It may be       *)
(* killed anywhere and started again, with other flags, on what it left.   *)
(*                                                                         *)
(* A file is absent, torn (written in part) or whole.  A write is two      *)
(* steps, so a crash between them leaves a torn file.  A stage leaves the  *)
(* files it writes in writing and the runners it still has to look at in   *)
(* queue; the next stage starts when both are empty.                       *)
(***************************************************************************)
EXTENDS Integers, Sequences, SequencesExt, FiniteSets, FiniteSetsExt

CONSTANTS Manifest,    \* executor_versions of manifest.yaml, <<major, minor, patch>>, in the order
                       \* they are processed; vTEST, if it is there, as one that none follows
          Registry,    \* by version, the runners that its data/all.json names
          Flags,       \* the arguments a run may be given
          MaxRuns      \* bound: starts of the script

VARIABLES file, venv, flags, stage, ver, writing, queue, exit, runs

ivars == <<file, venv, flags, stage, ver, writing, queue, exit, runs>>

Exe(v)       == <<"bin/genvm", v>>
AllJson(v)   == <<"data/all.json", v>>
Runner(r)    == <<"runners", r>>
Modules      == <<"bin/genvm-modules", <<>>>>
Versions     == ToSet(Manifest)
Files        == {Modules} \cup {Exe(v) : v \in Versions} \cup {AllJson(v) : v \in Versions}
                \cup {Runner(r) : r \in UNION {ToSet(Registry[v]) : v \in Versions}}

Names == {"create_venv", "executor_download", "runners_download", "bin_patch", "bin_check", "precompile",
          "error_on_missing"}

(* The versions are the keys of a dictionary.                              *)
ASSUME InstallAssumption ==
  /\ Manifest \in Seq(Nat \X Nat \X Nat) /\ IsInjective(Manifest)
  /\ Versions \subseteq DOMAIN Registry /\ \A v \in Versions : Registry[v] \in Seq(ToSet(Registry[v]))
  /\ Flags \subseteq [Names -> BOOLEAN]

(* A version is passed over when the manifest has the next patch.          *)
Wanted(v) == <<v[1], v[2], v[3] + 1>> \notin Versions

-----------------------------------------------------------------------------
InstallInit == /\ file = [f \in Files |-> IF f = Modules THEN "whole" ELSE "absent"]
               /\ venv = "none" /\ flags \in Flags
               /\ stage = "off" /\ ver = 0 /\ writing = <<>> /\ queue = <<>>
               /\ exit = "none" /\ runs = 0

StartScript == /\ stage = "off" /\ runs < MaxRuns
               /\ flags' \in Flags
               /\ stage' = IF flags'.create_venv THEN "venv" ELSE "main"
               /\ ver' = 0 /\ exit' = "running" /\ runs' = runs + 1
               /\ UNCHANGED <<file, venv, writing, queue>>

(* The end of the process, with what it had still to do left undone.       *)
Stop(how) == stage' = "off" /\ writing' = <<>> /\ queue' = <<>> /\ exit' = how /\ UNCHANGED <<ver, flags, runs>>

(* The process is killed.                                                  *)
Crash == stage # "off" /\ Stop("killed") /\ UNCHANGED <<file, venv>>

InStage(s) == stage = s /\ writing = <<>> /\ queue = <<>>
Go(s)   == stage' = s /\ UNCHANGED <<ver, writing, queue, exit, flags, runs>>
Then(s, fs, rs) == stage' = s /\ writing' = fs /\ queue' = rs /\ UNCHANGED <<ver, exit, flags, runs>>
Fail    == Stop("error")
Disk    == UNCHANGED <<file, venv>>

-----------------------------------------------------------------------------
(* create_venv: what the check file holds decides.  It is written last.    *)
CheckVenv == /\ InStage("venv")
             /\ IF venv = "ready" THEN Go("main") /\ UNCHANGED venv ELSE venv' = "empty" /\ Go("pip")
             /\ UNCHANGED file
PipInstall == /\ InStage("pip") /\ UNCHANGED file
              /\ \/ venv' = "deps" /\ Go("mark")
                 \/ UNCHANGED venv /\ Fail
MarkVenv == InStage("mark") /\ venv' = "ready" /\ Go("main") /\ UNCHANGED file

(* The script proper, which begins with genvm-modules in the place of an   *)
(* executor; bin_patch imports lief, a dependency.                         *)
StartMain == InStage("main") /\ Go("patch") /\ Disk

Target == IF ver = 0 THEN Modules ELSE Exe(Manifest[ver])

(* On to the next version that is not passed over, or to the end.          *)
NextVersion ==
    LET later == {j \in 1..Len(Manifest) : j > ver /\ Wanted(Manifest[j])}
    IN  IF later = {} THEN Stop("ok")
        ELSE stage' = "fetch" /\ ver' = Min(later) /\ UNCHANGED <<writing, queue, exit, flags, runs>>

-----------------------------------------------------------------------------
(* Files are written in place, one after the other.                        *)
Open  == /\ writing # <<>> /\ file[Head(writing)] # "torn"
         /\ file' = [file EXCEPT ![Head(writing)] = "torn"]
         /\ UNCHANGED <<venv, flags, stage, ver, writing, queue, exit, runs>>
Close == /\ writing # <<>> /\ file[Head(writing)] = "torn"
         /\ file' = [file EXCEPT ![Head(writing)] = "whole"]
         /\ writing' = Tail(writing)
         /\ UNCHANGED <<venv, flags, stage, ver, queue, exit, runs>>

(* process_executor_version.  An executor that exists is not downloaded.   *)
(* The members of the archive come in any order.                           *)
Fetch == /\ InStage("fetch") /\ Disk
         /\ IF ~ flags.executor_download \/ file[Target] # "absent" THEN Go("exists")
            ELSE LET json == AllJson(Manifest[ver])
                 IN  (\E fs \in {<<Target, json>>, <<json, Target>>} : Then("exists", fs, <<>>)) \/ Fail

Exists == /\ InStage("exists") /\ Disk
          /\ IF file[Target] # "absent" \/ ~ (flags.executor_download \/ flags.bin_patch \/ flags.bin_check)
             THEN Go("patch")
             ELSE IF flags.error_on_missing THEN Fail ELSE NextVersion

(* patch_executable: nothing to do for an absent file, one that cannot be  *)
(* parsed is logged and left; without an interpreter the script exits.     *)
Patch == /\ InStage("patch") /\ Disk
         /\ IF ~ flags.bin_patch \/ file[Target] # "whole" THEN Go("check")
            ELSE Then("check", <<Target>>, <<>>) \/ Fail

(* run_check_command: a torn or absent program does not run.               *)
Runs(f) == file[f] = "whole"

CheckBin == /\ InStage("check") /\ Disk
            /\ \/ /\ flags.bin_check => Runs(Target)
                  /\ IF ver = 0 THEN NextVersion ELSE Go("runners")
               \/ flags.bin_check /\ Fail

(* download_runners_from_json.  A torn registry is not JSON.               *)
Runners == /\ InStage("runners") /\ Disk
           /\ LET json == file[AllJson(Manifest[ver])]
              IN  \/ ~ flags.runners_download /\ Go("precompile")
                  \/ flags.runners_download /\ json = "whole" /\ Then("precompile", <<>>, Registry[Manifest[ver]])
                  \/ flags.runners_download /\ json = "absent" /\ ~ flags.error_on_missing /\ Go("precompile")
                  \/ /\ flags.runners_download /\ Fail
                     /\ json = "torn" \/ (json = "absent" /\ flags.error_on_missing)

Precompile == /\ InStage("precompile") /\ Disk
              /\ \/ (flags.precompile => Runs(Target)) /\ NextVersion
                 \/ flags.precompile /\ Fail

-----------------------------------------------------------------------------
(* Mutant: a file that is there is taken for the runner.                   *)
ExistsIsEnough(data) == TRUE

(* runner_check_bytes: the name of a runner is the digest of its bytes.    *)
RunnerCheckBytes(data) == data = "whole"

(* A corrupted runner is removed first; the removal and the download are   *)
(* apart.                                                                  *)
CheckRunner == /\ queue # <<>> /\ writing = <<>>
               /\ LET f == Runner(Head(queue))
                  IN  /\ file[f] # "absent"
                      /\ IF RunnerCheckBytes(file[f]) THEN queue' = Tail(queue) /\ UNCHANGED file
                         ELSE file' = [file EXCEPT ![f] = "absent"] /\ UNCHANGED queue
               /\ UNCHANGED <<venv, flags, stage, ver, writing, exit, runs>>

(* From one of the templates, each tried five times, or from none; other   *)
(* bytes than asked for are refused before they are written.               *)
Download == /\ queue # <<>> /\ writing = <<>> /\ file[Runner(Head(queue))] = "absent" /\ Disk
            /\ \E data \in {"none", "torn", "whole"} :
                 IF data # "none" /\ RunnerCheckBytes(data)
                 THEN Then(stage, <<Runner(Head(queue))>>, Tail(queue)) ELSE Fail

InstallNext == \/ StartScript \/ Crash \/ CheckVenv \/ PipInstall \/ MarkVenv \/ StartMain
               \/ Open \/ Close \/ Fetch \/ Exists \/ Patch \/ CheckBin
               \/ Runners \/ Precompile \/ CheckRunner \/ Download
InstallSpec == InstallInit /\ [][InstallNext]_ivars

-----------------------------------------------------------------------------
(* What a run that was given the flags leaves of an executor wanted: with  *)
(* the check, one that is whole; with the runners step, runners that are.  *)
ExeReady(v)     == flags.bin_check /\ (flags.error_on_missing \/ file[Exe(v)] # "absent") => file[Exe(v)] = "whole"
RunnersReady(v) == flags.runners_download /\ flags.error_on_missing =>
                     /\ file[AllJson(v)] = "whole"
                     /\ \A r \in ToSet(Registry[v]) : file[Runner(r)] = "whole"

(* Whatever earlier runs were killed at whichever write, a run that ends   *)
(* well leaves what it was asked for, for every executor wanted.  The      *)
(* script proper never runs in a virtual environment that lacks a          *)
(* dependency (create_venv.py, __main__.py 434-544).                       *)
InstallSound ==
    /\ stage \notin {"off", "venv", "pip", "mark"} /\ flags.create_venv => venv = "ready"
    /\ exit = "ok" => \A v \in Versions : Wanted(v) => ExeReady(v) /\ RunnersReady(v)
=============================================================================
