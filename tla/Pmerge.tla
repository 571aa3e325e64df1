------------------------------- MODULE Pmerge -------------------------------
(***************************************************************************)
(* A run of pmerge (scripts/pmerge.py) from its targets to its exit: the   *)
(* search is repeated without the targets that fail, packages are checked, *)
(* fetched (operations/format.py, fetch/), built phase by phase            *)
(* (ebuild/ebd.py), merged and recorded in the world file, one after the   *)
(* other, and what a build leaves behind is removed.                       *)
(*                                                                         *)
(* How a plan is found is in Resolver, what a merge does to the filesystem *)
(* in Merge, what a phase says to its daemon in EbdProtocol.               *)
(***************************************************************************)
EXTENDS Naturals, Sequences, SequencesExt

CONSTANTS
    OpSeq,      \* what may have to be done, in the order it would be done in
    Built,      \* packages that come built
    FilesOf,    \* [Pkgs -> Seq(Files)], its distfiles
    Uris,       \* [Files -> [mirrors |-> Nat, upstream |-> Nat]]
    Attempts,   \* FETCH_ATTEMPTS
    Settings,   \* options, what is installed, which targets cannot be resolved
    KeyOf,      \* the key of a package, all the world file keeps of it, whatever its slot
    None

\* desc: "install", "replace", or "keep" for an installed package the plan relies on;
\* old: the package that is replaced; by: the targets that call for it.
Ops == Range(OpSeq)
Pkgs == {op.pkg : op \in Ops} \cup UNION {s.live : s \in Settings}
Files == UNION {Range(FilesOf[p]) : p \in DOMAIN FilesOf}

\* Mandatory phases of a source package, in the order of stage_depends.
Phases == <<"setup", "unpack", "prepare", "configure", "compile", "test", "install">>

\* small: shorter than it should be; bad: too long, or of another checksum.
FileStates == {"missing", "small", "bad", "ok"}

\* The resolver replaces installed packages only, so none is in its plan twice.
ASSUME PmergeAssumption ==
    /\ Len(OpSeq) \in Nat /\ DOMAIN OpSeq = 1 .. Len(OpSeq)
    /\ \A i, j \in DOMAIN OpSeq : OpSeq[i].pkg = OpSeq[j].pkg => i = j
    /\ \A op \in Ops : op.desc \in {"install", "replace", "keep"}
    /\ DOMAIN FilesOf = Pkgs
    /\ \A p \in Built \cap Pkgs : FilesOf[p] = <<>>
    /\ Uris \in [Files -> [mirrors : Nat, upstream : Nat]]
    /\ Attempts \in Nat
    /\ \A s \in Settings :
         /\ s.mode \in {"merge", "unmerge", "clean"}
         /\ {s.ignore, s.oneshot, s.fetchonly, s.change} \subseteq BOOLEAN
         /\ s.insoluble \subseteq s.targets
         /\ IsFiniteSet(s.live)
         /\ \A op \in Ops : /\ op.desc = "replace" => op.old \in s.live
                           /\ op.desc = "keep" => op.pkg \in s.live

VARIABLES
    opts,      \* the member of Settings
    at,        \* where the program is
    atoms,     \* the targets that are left
    plan, pos, \* what is to be done, and how much was begun
    fetching,  \* the file in hand
    got,       \* verified_files of the package in hand
    missed,    \* its files that could not be had
    distdir,   \* [Files -> FileStates]
    dirs,      \* the build directories there are
    ran,       \* the phases that ran since a build directory was made
    cleanup,   \* build directories to be removed before the next package
    live,      \* the packages that are installed
    world,     \* the world file
    failed,    \* positions of the plan that failed
    merged,    \* packages this run installed
    passed     \* packages whose finish() came back false and that were taken for done

fetchvars == <<fetching, got, missed, distdir>>
buildvars == <<dirs, ran, cleanup>>
results == <<live, world, failed, merged, passed>>
vars == <<opts, at, atoms, plan, pos, fetchvars, buildvars, results>>

Init ==
    /\ opts \in Settings
    /\ at = IF opts.mode = "unmerge" THEN "unmerge" ELSE "resolve"
    /\ atoms = opts.targets
    /\ plan = <<>> /\ pos = 0
    /\ fetching = None /\ got = {} /\ missed = {}
    /\ distdir \in [Files -> FileStates]
    /\ dirs = {} /\ cleanup = {}
    /\ ran = [p \in Pkgs |-> <<>>]
    /\ live = opts.live
    /\ world = opts.world
    /\ failed = {} /\ merged = {} /\ passed = {}

Ends == {"end", "error", "aborted"}

-----------------------------------------------------------------------------
(* Before anything is done.                                                *)

\* Where in OpSeq the plan's operations are: what is kept matters to --clean only.
Wanted == {i \in DOMAIN OpSeq : /\ OpSeq[i].by \cap atoms # {}
                                /\ OpSeq[i].desc = "keep" => opts.mode = "clean"}

\* A target that fails is dropped and the search started again, or that was it.
Resolve ==
    /\ at = "resolve"
    /\ LET bad == atoms \cap opts.insoluble IN
         \/ /\ \E a \in bad : atoms' = atoms \ {a}
            /\ at' = IF opts.ignore THEN "resolve" ELSE "error"
            /\ UNCHANGED plan
         \/ /\ bad = {}
            /\ \E order \in [1 .. Cardinality(Wanted) -> Wanted] :
                 /\ \A i, j \in DOMAIN order : i < j => order[i] < order[j]
                 /\ plan' = [i \in DOMAIN order |-> OpSeq[order[i]]]
            /\ at' = IF opts.mode = "clean" THEN "wipe"
                     ELSE IF opts.fetchonly THEN "loop" ELSE "check"
            /\ UNCHANGED atoms
    /\ UNCHANGED <<opts, pos, fetchvars, buildvars, results>>

\* run_sanity_checks: REQUIRED_USE and pkg_pretend, of everything before anything.
Check ==
    /\ at = "check"
    /\ at' \in {"loop", IF opts.ignore THEN "loop" ELSE "error"}
    /\ UNCHANGED <<opts, atoms, plan, pos, fetchvars, buildvars, results>>

Removals(ps) == SetToSeq({[desc |-> "remove", pkg |-> p] : p \in ps})

\* --clean: what is installed and no part of the plan is unmerged.
Wipe ==
    /\ at = "wipe"
    /\ plan' = Removals(live \ {o.pkg : o \in Range(plan)})
    /\ at' = "unmerging"
    /\ UNCHANGED <<opts, atoms, pos, fetchvars, buildvars, results>>

\* -C: the installed packages that match.
Unmerge ==
    /\ at = "unmerge"
    /\ plan' = Removals(live \cap atoms)
    /\ at' = IF live \cap atoms = {} THEN "error" ELSE "unmerging"
    /\ UNCHANGED <<opts, atoms, pos, fetchvars, buildvars, results>>

Struck(p) == IF opts.oneshot THEN world ELSE world \ {KeyOf[p]}

\* do_unmerge: finish() is done, comes back false, or raises, which ends the run.  With
\* --ignore-failures a package that it came back false for is struck off like the others.
DoUnmerge ==
    /\ at = "unmerging"
    /\ IF pos = Len(plan) THEN at' = "end" /\ UNCHANGED <<pos, live, world, failed, passed>>
       ELSE LET p == plan[pos + 1].pkg IN
            /\ pos' = pos + 1
            /\ \/ /\ live' = live \ {p}
                  /\ world' = Struck(p)
                  /\ UNCHANGED <<failed, at, passed>>
               \/ /\ failed' = failed \cup {pos'}
                  /\ IF opts.ignore
                       THEN world' = Struck(p) /\ passed' = passed \cup {p} /\ UNCHANGED at
                       ELSE at' = "error" /\ UNCHANGED <<world, passed>>
                  /\ UNCHANGED live
               \/ /\ failed' = failed \cup {pos'}
                  /\ at' = "aborted"
                  /\ UNCHANGED <<live, world, passed>>
    /\ UNCHANGED <<opts, atoms, plan, fetchvars, buildvars, merged>>

-----------------------------------------------------------------------------
(* The loop over the plan.                                                 *)

Op == plan[pos]

\* A mistake: what the last package left stays.
NextOpOnly ==
    /\ at = "loop"
    /\ dirs' = IF pos = Len(plan) THEN dirs ELSE dirs \ cleanup
    /\ cleanup' = {}
    /\ IF pos = Len(plan) THEN at' = "end" /\ UNCHANGED <<pos, got, missed>>
       ELSE /\ pos' = pos + 1
            /\ got' = {} /\ missed' = {}
            /\ at' = "fetch"
    /\ UNCHANGED <<opts, atoms, plan, fetching, distdir, ran, results>>

\* What the last package left to be removed goes first.
NextOp ==
    /\ at = "loop"
    /\ dirs' = dirs \ cleanup
    /\ cleanup' = {}
    /\ IF pos = Len(plan) THEN at' = "end" /\ UNCHANGED <<pos, got, missed>>
       ELSE /\ pos' = pos + 1
            /\ got' = {} /\ missed' = {}
            /\ at' = "fetch"
    /\ UNCHANGED <<opts, atoms, plan, fetching, distdir, ran, results>>

\* An operation has failed: it is left, or the run is.
Failing == IF opts.ignore THEN "loop" ELSE "error"

-----------------------------------------------------------------------------
(* Fetching: fetch_all, fetch_one, and the fetcher's fetch.                *)

\* The places of the files that are still to be had.
Pending == {i \in DOMAIN FilesOf[Op.pkg] : FilesOf[Op.pkg][i] \notin got \cup missed}

\* Without URIs (only) the file has to be there.
Fetchable(f, uris, direct) ==
    [file |-> f, uris |-> uris, tries |-> 0, direct |-> direct, only |-> uris = 0]

FetchNext ==
    /\ at = "fetch"
    /\ fetching = None
    /\ \E i \in Pending :
         /\ \A j \in Pending : i =< j
         /\ LET f == FilesOf[Op.pkg][i] IN
              fetching' = Fetchable(f, Uris[f].mirrors + Uris[f].upstream, FALSE)
    /\ UNCHANGED <<opts, at, atoms, plan, pos, got, missed, distdir, buildvars, results>>

Had == /\ got' = got \cup {fetching.file}
       /\ fetching' = None
       /\ UNCHANGED <<at, missed, distdir>>

Missed == /\ missed' = missed \cup {fetching.file}
          /\ fetching' = None
          /\ UNCHANGED <<at, got, distdir>>

\* A mistake: the second try is not known for one.
PutAsideAgain ==
    LET file == fetching.file IN
    /\ distdir' = [distdir EXCEPT ![file] = "missing"]
    /\ fetching' = Fetchable(file, Uris[file].upstream, FALSE)
    /\ UNCHANGED <<at, got, missed>>

\* A file whose checksum fails is put aside and fetched once more, from upstream only;
\* when that fails too the error is nobody's.
PutAside ==
    LET f == fetching.file IN
    /\ distdir' = [distdir EXCEPT ![f] = "missing"]
    /\ IF fetching.direct
         THEN at' = "aborted" /\ fetching' = None
         ELSE /\ fetching' = Fetchable(f, Uris[f].upstream, TRUE)
              /\ UNCHANGED at
    /\ UNCHANGED <<got, missed>>

\* One more download, or a resumed one: what it leaves is looked at in the next
\* attempt, and what the last one leaves is not looked at.
Download ==
    /\ \E s \in IF distdir[fetching.file] = "missing" THEN FileStates ELSE FileStates \ {"missing"} :
         distdir' = [distdir EXCEPT ![fetching.file] = s]
    /\ fetching' = [fetching EXCEPT !.uris = @ - 1, !.tries = @ + 1]
    /\ UNCHANGED <<at, got, missed>>

Fetch ==
    /\ at = "fetch"
    /\ fetching # None
    /\ LET s == distdir[fetching.file] IN
         IF fetching.tries = Attempts /\ ~fetching.only THEN Missed
         ELSE IF s = "ok" THEN Had
         ELSE IF s = "bad" THEN PutAside
         ELSE IF fetching.only \/ fetching.uris = 0 THEN Missed
         ELSE Download
    /\ UNCHANGED <<opts, atoms, plan, pos, buildvars, results>>

\* A mistake: what is missing is left to the ebuild.
FetchedOrNot ==
    /\ at = "fetch"
    /\ fetching = None
    /\ Pending = {}
    /\ at' = IF opts.fetchonly THEN "loop"
             ELSE IF Op.pkg \in Built THEN "localize" ELSE "build"
    /\ UNCHANGED <<opts, atoms, plan, pos, fetchvars, buildvars, results>>

\* A FetchError is raised, and nobody here handles it.
Fetched ==
    /\ at = "fetch"
    /\ fetching = None
    /\ Pending = {}
    /\ at' = IF missed # {} THEN "aborted"
             ELSE IF opts.fetchonly THEN "loop"
             ELSE IF Op.pkg \in Built THEN "localize" ELSE "build"
    /\ UNCHANGED <<opts, atoms, plan, pos, fetchvars, buildvars, results>>

-----------------------------------------------------------------------------
(* Building: buildable's stages, each after the one it depends on.         *)

\* start: a build directory of an earlier run is removed first.
StartBuild ==
    /\ at = "build"
    /\ dirs' = dirs \cup {Op.pkg}
    /\ ran' = [ran EXCEPT ![Op.pkg] = <<>>]
    /\ at' = "phases"
    /\ UNCHANGED <<opts, atoms, plan, pos, fetchvars, cleanup, results>>

\* A phase ends well, with a BuildError, or with a die, which is no BuildError.
Phase ==
    /\ at = "phases"
    /\ LET p == Op.pkg
           phase == Phases[Len(ran[p]) + 1]
       IN \/ /\ ran' = [ran EXCEPT ![p] = Append(@, phase)]
             /\ IF Len(ran'[p]) = Len(Phases)
                  THEN at' = "merge" /\ cleanup' = cleanup \cup {p}
                  ELSE UNCHANGED <<at, cleanup>>
             /\ UNCHANGED failed
          \/ /\ failed' = failed \cup {pos}
             /\ at' \in {Failing, "aborted"}
             /\ UNCHANGED <<ran, cleanup>>
    /\ UNCHANGED <<opts, atoms, plan, pos, fetchvars, dirs, live, world, merged, passed>>

\* A built package has its environment unpacked and pkg_setup run.
Localize ==
    /\ at = "localize"
    /\ dirs' = dirs \cup {Op.pkg}
    /\ \/ at' = "merge" /\ cleanup' = cleanup \cup {Op.pkg}
       \/ at' = "aborted" /\ UNCHANGED cleanup
    /\ UNCHANGED <<opts, atoms, plan, pos, fetchvars, ran, results>>

-----------------------------------------------------------------------------
(* Merging.                                                                *)

\* A mistake: a dependency is recorded like a target.
RecordedDependency ==
    IF opts.oneshot \/ opts.change THEN world ELSE world \cup {KeyOf[Op.pkg]}

Recorded ==
    IF opts.oneshot \/ opts.change \/ Op.pkg \notin atoms THEN world
    ELSE world \cup {KeyOf[Op.pkg]}

\* finish of the operation: it is done, comes back false, which nobody looks at, a
\* trigger blocks it, or it raises something else, which ends the run; at what stage is
\* in Merge.
DoMerge ==
    /\ at = "merge"
    /\ \/ /\ live' = IF Op.desc = "replace" THEN (live \ {Op.old}) \cup {Op.pkg}
                     ELSE live \cup {Op.pkg}
          /\ merged' = merged \cup {Op.pkg}
          /\ world' = Recorded
          /\ at' = "loop"
          /\ UNCHANGED <<failed, passed>>
       \/ /\ passed' = passed \cup {Op.pkg}
          /\ world' = Recorded
          /\ at' = "loop"
          /\ UNCHANGED <<live, failed, merged>>
       \/ /\ failed' = failed \cup {pos}
          /\ at' \in {Failing, "aborted"}
          /\ UNCHANGED <<live, world, merged, passed>>
    /\ UNCHANGED <<opts, atoms, plan, pos, fetchvars, buildvars>>

Next ==
    \/ Resolve \/ Check \/ Wipe \/ Unmerge \/ DoUnmerge \/ NextOp
    \/ FetchNext \/ Fetch \/ Fetched \/ StartBuild \/ Phase \/ Localize \/ DoMerge

Spec == Init /\ [][Next]_vars

\* The program has one thread, and every download and phase ends.
FairSpec == Spec /\ WF_vars(Next)
-----------------------------------------------------------------------------
(* Properties.                                                             *)

\* A package that was merged had every file of it verified and, unless it came built,
\* went through every phase, the last time a build of it was begun.
MergedIsWhole ==
    \A p \in merged :
        /\ \A f \in Range(FilesOf[p]) : distdir[f] = "ok"
        /\ p \notin Built => ran[p] = Phases

\* What the world file is to be: with what this run installed of what was asked for, or
\* without what it unmerged, and otherwise as it was.  To the code, done is also what
\* finish() came back false for (passed).
WorldTold ==
    world = IF opts.oneshot THEN opts.world
            ELSE IF opts.mode # "merge"
              THEN opts.world \ {KeyOf[p] : p \in (opts.live \ live) \cup passed}
            ELSE IF opts.change THEN opts.world
            ELSE opts.world \cup {KeyOf[p] : p \in (merged \cup passed) \cap atoms}

\* What the run did is what it was told, whatever failed: without --ignore-failures
\* nothing is begun after a failure, with it a run that ends has tried everything that
\* the targets left call for; --clean spares what it could plan for; and at every moment
\* the world file is the old one without exactly the keys of what was unmerged, or with
\* exactly those of what was asked for and installed.  The exception is a finish() that
\* comes back false (passed): no stage of this repository's operations does, they raise,
\* but do_unmerge expects it and strikes the package off with --ignore-failures although
\* it is still there, and main does not look and records the package.
DoesAsTold ==
    /\ ~opts.ignore => failed \subseteq {pos}
    /\ at = "end" => pos = Len(plan)
    /\ at = "end" /\ opts.mode = "merge" =>
         \A i \in DOMAIN plan :
            opts.fetchonly \/ i \in failed \/ plan[i].pkg \in merged \cup passed
    /\ opts.mode = "clean" =>
         \A o \in Ops : o.desc = "keep" /\ o.by \cap atoms # {} => o.pkg \in live
    /\ WorldTold
    /\ opts.fetchonly /\ opts.mode = "merge" => live = opts.live

\* A build directory is there while its package is merged from it, and after a run that
\* ended well only those of failed builds are.
NothingLeftBuilt ==
    /\ at = "merge" => Op.pkg \in dirs
    /\ at = "end" => \A p \in dirs : \E i \in failed : plan[i].pkg = p /\ p \notin cleanup

\* The run ends.
RunEnds == <>(at \in Ends)
=============================================================================
