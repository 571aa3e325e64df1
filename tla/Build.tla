------------------------------- MODULE Build -------------------------------
(***************************************************************************)
(* The life of a build directory: what ebuild/ebd.py, operations/format.py *)
(* and operations/domain.py do with ${PORTAGE_TMPDIR}/category/PF while    *)
(* packages are built by pmerge or by pebuild, merged from source or from  *)
(* a binary package over what is installed, unmerged and configured, one   *)
(* command after another, any of which may fail in a phase, be interrupted *)
(* and leave the directory as it is.  What a phase does is reduced to what *)
(* it leaves there: the saved environment (with whose it is and the phases *)
(* it went through), files of the image (with whose they are), the marks   *)
(* of the stages that are done, and the marker of eapply_user.  The files  *)
(* on the live filesystem are Merge's, the commands' choice of packages is *)
(* Pmerge's.  One command runs at a time: nothing locks a build directory. *)
(***************************************************************************)
EXTENDS Naturals, Sequences, FiniteSets
CONSTANTS PFs,      \* the packages, one slot's versions
          MaxRuns,  \* bound on the commands run
          MaxFaults, \* bound on the failures and kills
          None

Ids == PFs \X Nat                \* the builds: of which package, by which command
Phases == {"setup", "unpack", "prepare", "configure", "compile", "test", "install", "preinst", "postinst", "prerm", "postrm", "config"}
StageNames == Phases \cup {"start", "finalize", "engine", "transfer", "repo_add", "repo_remove", "finish"}
Items == Ids \X {"all", "part", "preinst"}     \* files of an image: whose, and of which phase
Envs == [id : Ids, phases : Seq(Phases)]
Dirs == [image : SUBSET Items, env : Envs \cup {None}, marks : SUBSET StageNames, patched : BOOLEAN]
ASSUME BuildAssumption == /\ MaxRuns \in Nat /\ MaxFaults \in Nat
                          /\ None \notin PFs \cup StageNames \cup Envs \cup Dirs

VARIABLES dir,        \* build directory to None or what it holds
          installed,  \* package to None or its entry
          job,        \* the command that runs, or None
          runs,       \* the commands started so far
          faults      \* the failures so far
vars == <<dir, installed, job, runs, faults>>

(* stage_depends of format.build and binpkg_localize, and of the           *)
(* operations of operations/domain.py: what a stage comes after.           *)
BuildNeeds == [start |-> None, setup |-> "start", unpack |-> "setup", prepare |-> "unpack", configure |-> "prepare",
               compile |-> "configure", test |-> "compile", install |-> "test", finalize |-> "install"]
LocalizeNeeds == [start |-> None, setup |-> "start", finalize |-> "setup"]
InstallNeeds == [engine |-> None, start |-> "engine", preinst |-> "start", transfer |-> "preinst", repo_add |-> "transfer",
                 postinst |-> "repo_add", finish |-> "postinst"]
ReplaceNeeds == [engine |-> None, start |-> "engine", preinst |-> "start", transfer |-> "preinst", repo_add |-> "transfer",
                 prerm |-> "repo_add", repo_remove |-> "prerm", postrm |-> "repo_remove", postinst |-> "postrm", finish |-> "postinst"]
UninstallNeeds == [start |-> None, prerm |-> "start", repo_remove |-> "prerm", postrm |-> "repo_remove", finish |-> "postrm"]
ConfigNeeds == [start |-> None, config |-> "start", finish |-> "config"]
\* what pebuild runs to get to a stage, if that is not marked already
UpTo(target) ==
    [s \in DOMAIN BuildNeeds \ (CASE target = "compile" -> {"test", "install", "finalize"}
                                  [] target = "install" -> {"finalize"}
                                  [] OTHER -> {}) |-> BuildNeeds[s]]
\* phases a package need not have; the others have a default
Optional == {"test", "preinst", "postinst", "prerm", "postrm"}

(* _set_op_vars: what is unmerged has a directory of its own. *)
BuildDir(pf) == <<pf, "">>
UnmergeDirShared(pf) == <<pf, "">>
UnmergeDir(pf) == <<pf, "unmerge">>
Places == PFs \X {"", "unmerge"}
Fresh == [image |-> {}, env |-> None, marks |-> {}, patched |-> FALSE]

Env(id, phases) == [id |-> id, phases |-> phases]
BinId(pf) == <<pf, 0>>      \* the binary package of pf was built before
BinEnv(pf) == Env(BinId(pf), <<"setup", "unpack", "prepare", "configure", "compile", "install">>)

Init == /\ dir = [p \in Places |-> None]
        /\ installed = [p \in PFs |-> None]
        /\ job = None
        /\ runs = 0 /\ faults = 0

-----------------------------------------------------------------------------
(* A command starts.  "needs" is what it has to run, "done" the stages its *)
(* operation takes for done, "old" the package it replaces or removes,     *)
(* "was" the build of it that is installed then, "loaded" whose            *)
(* environment the last phase loaded,                                      *)
(* "env" the environment it was handed, "stale" whether files of someone   *)
(* else were in the image when a binary package was unpacked.              *)
Job(what, pf, needs) ==
    [what |-> what, pf |-> pf, id |-> <<pf, runs + 1>>, needs |-> needs, done |-> {}, old |-> None, env |-> None,
     cset |-> {}, stale |-> FALSE, loaded |-> None, was |-> None, skipped |-> {}]
Begin(j) == /\ job = None /\ runs < MaxRuns
            /\ job' = j /\ runs' = runs + 1

\* pmerge, from source and from a binary package
Build(pf) == Begin(Job("build", pf, BuildNeeds)) /\ UNCHANGED <<dir, installed, faults>>
LocalizeBare(pf) == Begin([Job("localize", pf, LocalizeNeeds) EXCEPT !.id = BinId(pf)]) /\ UNCHANGED <<dir, installed, faults>>
Localize(pf) == Begin([Job("localize", pf, LocalizeNeeds) EXCEPT !.id = BinId(pf), !.env = BinEnv(pf)]) /\ UNCHANGED <<dir, installed, faults>>
Unmerge(pf) ==
    /\ installed[pf] # None
    /\ Begin([Job("unmerge", pf, UninstallNeeds) EXCEPT !.old = pf]) /\ UNCHANGED <<dir, installed, faults>>
Config(pf) ==
    /\ installed[pf] # None
    /\ Begin([Job("config", pf, ConfigNeeds) EXCEPT !.id = installed[pf].id]) /\ UNCHANGED <<dir, installed, faults>>
\* pebuild: cleans if it is told to, and believes the marks it finds
Pebuild(pf, target, clean) ==
    LET there == IF clean THEN None ELSE dir[BuildDir(pf)]
        marks == IF there = None THEN {} ELSE there.marks
    IN
    /\ dir' = [dir EXCEPT ![BuildDir(pf)] = there]
    /\ Begin([Job("pebuild", pf, IF target \in marks THEN <<>> ELSE UpTo(target)) EXCEPT !.done = marks])
    /\ UNCHANGED <<installed, faults>>

-----------------------------------------------------------------------------
(* Stages run in order, each once and only if all before it succeeded.     *)
Next_(stage) ==
    /\ job # None /\ stage \in DOMAIN job.needs \ job.done
    /\ job.needs[stage] # None => job.needs[stage] \in job.done
\* the stage is marked in the directory of the operation, if there is one
MarkIn(d, place, stage) == IF d[place] = None THEN d ELSE [d EXCEPT ![place].marks = @ \cup {stage}]
Done(stage) == [job EXCEPT !.done = @ \cup {stage}]
Fault == faults < MaxFaults /\ faults' = faults + 1
FailIgnored == Fault /\ \E p \in Phases \ {"setup"} : Next_(p) /\ job' = Done(p)
Fail == Fault /\ job' = None      \* an exception: nobody calls a cleanup for it

\* ebd.start: a clean start wipes what an earlier run has left
SetupWorkdirDirty(place, clean) == IF dir[place] = None THEN Fresh ELSE dir[place]
SetupWorkdir(place, clean) == IF clean \/ dir[place] = None THEN Fresh ELSE dir[place]
StartBuild ==
    /\ job.what \in {"build", "pebuild", "localize", "config"} /\ Next_("start")
    /\ LET place == BuildDir(job.pf)
           there == SetupWorkdir(place, job.what \in {"build", "config"})
           data == IF job.what = "config" THEN installed[job.pf].env ELSE job.env
       IN dir' = MarkIn([dir EXCEPT ![place] = [there EXCEPT !.env = IF data = None THEN @ ELSE data]], place, "start")
    /\ job' = Done("start")
    /\ UNCHANGED <<installed, runs, faults>>

\* the installing operation writes the environment it was handed into the
\* directory of the build, the one of the old package into its own
StartMerge ==
    /\ job.what \in {"merge", "unmerge"} /\ Next_("start")
    /\ LET mine == IF job.what = "unmerge" THEN dir
                   ELSE [dir EXCEPT ![BuildDir(job.pf)] = [SetupWorkdir(BuildDir(job.pf), FALSE) EXCEPT !.env = IF job.env = None THEN @ ELSE job.env]]
           theirs == UnmergeDir(job.old)
           there == IF mine[theirs] = None THEN Fresh ELSE mine[theirs]
       IN dir' = IF job.old = None THEN mine ELSE [mine EXCEPT ![theirs] = [there EXCEPT !.env = installed[job.old].env]]
    /\ job' = [Done("start") EXCEPT !.was = IF job.old = None THEN None ELSE installed[job.old].id]
    /\ UNCHANGED <<installed, runs, faults>>

(* A phase: the environment is loaded (or, by setup, made), the phase runs *)
(* and the environment is saved; a phase the package lacks is passed over, *)
(* and so, for want of a phase of that name, is the setup of a binary      *)
(* package (ebd.py:508 with ebd.py:381).                                   *)
PlaceOf(phase) == IF phase \in {"prerm", "postrm"} THEN UnmergeDir(job.old) ELSE BuildDir(job.pf)
Saved(phase, d) == CASE phase = "setup" -> Env(job.id, <<"setup">>)
                     [] phase = "postrm" -> d.env
                     [] OTHER -> [d.env EXCEPT !.phases = Append(@, phase)]
Leaves(phase, d, part) ==
    [d EXCEPT !.image = CASE phase = "install" -> @ \cup {<<job.id, part>>}
                          [] phase = "preinst" -> @ \cup {<<job.id, "preinst">>}
                          [] OTHER -> @,
              !.patched = @ \/ phase = "prepare"]
RunPhase(phase) ==
    LET place == PlaceOf(phase)
        d == dir[place]
    IN /\ Next_(phase) /\ phase \in Phases /\ ~(job.what = "localize" /\ phase = "setup")
       /\ d # None /\ (phase # "setup" => d.env # None)
       /\ dir' = MarkIn([dir EXCEPT ![place] = [Leaves(phase, d, "all") EXCEPT !.env = Saved(phase, d)]], place, phase)
       /\ job' = [Done(phase) EXCEPT !.loaded = IF phase = "setup" THEN None ELSE [env |-> d.env.id, of |-> IF phase \in {"prerm", "postrm"} THEN "old" ELSE "new"]]
       /\ UNCHANGED <<installed, runs, faults>>
PassOver(phase) ==
    /\ Next_(phase)
    /\ \/ phase \in Optional
       \/ job.what = "localize" /\ phase = "setup"
    /\ dir' = MarkIn(dir, PlaceOf(phase), phase)
    /\ job' = [Done(phase) EXCEPT !.skipped = @ \cup {phase}]
    /\ UNCHANGED <<installed, runs, faults>>
Cleaned(d, places) == [p \in Places |-> IF p \in places THEN None ELSE d[p]]
\* a phase dies: what it has done stays, the environment is not saved; a
\* failure of postrm or test that does not die may be passed over; the
\* configuration of a package cleans up whatever becomes of it
PhaseFails(phase) ==
    LET place == PlaceOf(phase)
    IN /\ Next_(phase) /\ phase \in Phases /\ ~(job.what = "localize" /\ phase = "setup")
       /\ dir' = IF job.what = "config" THEN Cleaned(dir, {place})
                 ELSE IF dir[place] = None THEN dir
                 ELSE [dir EXCEPT ![place] = [Leaves(phase, @, "part") EXCEPT !.patched = dir[place].patched]]
       /\ Fail \/ (phase \in {"postrm", "test"} /\ Fault /\ job' = [Done(phase) EXCEPT !.skipped = @ \cup {phase}])
       /\ UNCHANGED <<installed, runs>>
\* src_prepare has to have called eapply_user
PrepareUnpatched ==
    /\ Next_("prepare") /\ dir[BuildDir(job.pf)] # None /\ ~dir[BuildDir(job.pf)].patched
    /\ dir[BuildDir(job.pf)].env # None
    /\ dir' = [dir EXCEPT ![BuildDir(job.pf)].env = Saved("prepare", dir[BuildDir(job.pf)])]
    /\ Fail /\ UNCHANGED <<installed, runs>>

-----------------------------------------------------------------------------
(* What was built, or read from a binary package, is merged: by install if *)
(* nothing is installed, else by replace.                                  *)
Finalize ==
    /\ job.what \in {"build", "localize"} /\ Next_("finalize")
    /\ \E old \in {p \in PFs : installed[p] # None} \cup (IF \A p \in PFs : installed[p] = None THEN {None} ELSE {}) :
         job' = [job EXCEPT !.what = "merge", !.needs = IF old = None THEN InstallNeeds ELSE ReplaceNeeds, !.done = {}, !.old = old,
                            !.env = IF job.what = "localize" THEN dir[BuildDir(job.pf)].env ELSE None]
    /\ dir' = MarkIn(dir, BuildDir(job.pf), "finalize")
    /\ UNCHANGED <<installed, runs, faults>>
IsBinary == job.id = BinId(job.pf)
FinalizePebuild ==
    /\ job.what = "pebuild" /\ Next_("finalize")
    /\ dir' = MarkIn(dir, BuildDir(job.pf), "finalize") /\ job' = Done("finalize")
    /\ UNCHANGED <<installed, runs, faults>>

\* the engine takes the contents: of the image that was built, or of the
\* binary package, which is unpacked into the image
Unpacked(pf) == dir[BuildDir(pf)].image \cup {<<BinId(pf), "all">>}
Engine ==
    /\ job.what = "merge" /\ Next_("engine")
    /\ dir' = IF IsBinary THEN [dir EXCEPT ![BuildDir(job.pf)].image = Unpacked(job.pf)] ELSE dir
    /\ job' = [Done("engine") EXCEPT !.cset = IF IsBinary THEN {<<job.id, "all">>} ELSE dir[BuildDir(job.pf)].image,
                                     !.stale = IsBinary /\ dir[BuildDir(job.pf)].image # {}]
    /\ UNCHANGED <<installed, runs, faults>>
\* preinst_contents_reset: the image is scanned again if there is a preinst
Transfer ==
    /\ Next_("transfer")
    /\ job' = [Done("transfer") EXCEPT !.cset = IF "preinst" \in job.skipped THEN @ ELSE dir[BuildDir(job.pf)].image]
    /\ UNCHANGED <<dir, installed, runs, faults>>
\* the entry keeps the environment: the file of the build directory for what
\* was built here, what was read at the start for a binary package
Entry == [id |-> job.id, image |-> job.cset, env |-> IF job.env = None THEN dir[BuildDir(job.pf)].env ELSE job.env]
RepoAdd ==
    /\ Next_("repo_add")
    /\ installed' = [installed EXCEPT ![job.pf] = Entry]
    /\ job' = Done("repo_add") /\ UNCHANGED <<dir, runs, faults>>
RepoRemove ==
    /\ Next_("repo_remove")
    /\ installed' = IF job.what = "merge" /\ job.old = job.pf THEN installed ELSE [installed EXCEPT ![job.old] = None]
    /\ job' = Done("repo_remove") /\ UNCHANGED <<dir, runs, faults>>
\* uninstall_op.finish cleans its own directory, pmerge calls the cleanup of
\* what was built or localized, misc_operations its own
Finish ==
    /\ Next_("finish")
    /\ dir' = Cleaned(dir, (IF job.old = None THEN {} ELSE {UnmergeDir(job.old)})
                           \cup (IF job.what = "unmerge" THEN {} ELSE {BuildDir(job.pf)}))
    /\ job' = None /\ UNCHANGED <<installed, runs, faults>>
PebuildEnds ==
    /\ job # None /\ job.what = "pebuild" /\ DOMAIN job.needs \subseteq job.done
    /\ job' = None /\ UNCHANGED <<dir, installed, runs, faults>>

(* The command is killed, between two steps or while it wipes a directory. *)
Killed ==
    /\ job # None /\ Fail
    /\ UNCHANGED <<dir, installed, runs>>
KilledWiping ==
    /\ job # None /\ Next_("finish") /\ job.what # "unmerge" /\ dir[BuildDir(job.pf)] # None
    /\ \E gone \in SUBSET {"image", "env", "marks"} :
         dir' = [dir EXCEPT ![BuildDir(job.pf)] =
                   [image |-> IF "image" \in gone THEN {} ELSE @.image, env |-> IF "env" \in gone THEN None ELSE @.env,
                    marks |-> IF "marks" \in gone THEN {} ELSE @.marks, patched |-> @.patched /\ "env" \notin gone]]
    /\ Fail /\ UNCHANGED <<installed, runs>>

Commands == \E pf \in PFs : \/ Build(pf) \/ Localize(pf) \/ Unmerge(pf) \/ Config(pf)
                            \/ \E target \in {"compile", "install", "finalize"}, clean \in BOOLEAN : Pebuild(pf, target, clean)
Stages == \/ StartBuild \/ StartMerge \/ Finalize \/ FinalizePebuild \/ Engine \/ Transfer
          \/ RepoAdd \/ RepoRemove \/ Finish \/ PebuildEnds
          \/ \E p \in Phases : RunPhase(p) \/ PassOver(p)
Faults == (\E p \in Phases : PhaseFails(p)) \/ PrepareUnpatched \/ Killed \/ KilledWiping
Next == Commands \/ (job # None /\ (Stages \/ Faults))
Spec == Init /\ [][Next]_vars

-----------------------------------------------------------------------------
Files(id) == {<<id, "all">>, <<id, "preinst">>}

(* What is merged is one build: every file of what this command built, and *)
(* none of an earlier attempt that failed half way or of a pebuild, though *)
(* all of them share the directory; for a binary package only as long as   *)
(* nobody had left anything there, since it is unpacked over it.           *)
MergedIsOneBuild ==
    /\ \A p \in PFs : installed[p] # None =>
         LET i == installed[p] IN <<i.id, "all">> \in i.image /\ (i.image \subseteq Files(i.id) \/ i.id = BinId(p))
    /\ job # None /\ job.what = "merge" /\ "transfer" \in job.done /\ ~job.stale => job.cset \subseteq Files(job.id)

(* A phase runs in the environment of its own package: prerm and postrm in *)
(* the one saved when the old package was merged, even when the package is *)
(* replaced by itself, everything else in the one of this build.  pebuild  *)
(* is excepted: it goes on in whatever environment a command has left.     *)
OwnEnvironment ==
    /\ \A p \in PFs : installed[p] # None => installed[p].env.id = installed[p].id
    /\ job # None /\ job.what # "pebuild" /\ job.loaded # None => job.loaded.env = IF job.loaded.of = "new" THEN job.id ELSE job.was

(* What is installed went through every phase of its build, in their order *)
(* and each once, however many attempts went before.                       *)
Whole == {<<"setup", "unpack", "prepare", "configure", "compile", "install">>,
          <<"setup", "unpack", "prepare", "configure", "compile", "test", "install">>}
BuiltInOrder ==
    \A p \in PFs : installed[p] # None =>
        installed[p].env.phases \in Whole \cup {Append(w, "preinst") : w \in Whole}

(* Whatever the commands before it left or broke off, a command comes to   *)
(* no stage whose directory is gone or has no environment to load: what    *)
(* its stages put there is there until it ends.  Setup makes the           *)
(* environment, the engine needs the image only.  pebuild is excepted: it  *)
(* believes marks, which a command killed while it wiped may have left     *)
(* without the environment.                                                *)
NeedsDir == Phases \cup {"engine", "transfer", "repo_add"}
NothingMissing ==
    job # None /\ job.what # "pebuild" =>
        /\ \A s \in NeedsDir : Next_(s) =>
             /\ dir[PlaceOf(s)] # None
             /\ s \notin {"setup", "engine"} => dir[PlaceOf(s)].env # None
        /\ job.what = "localize" /\ Next_("finalize") =>
             dir[BuildDir(job.pf)] # None /\ dir[BuildDir(job.pf)].env # None
=============================================================================
