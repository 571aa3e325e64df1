------------------------------- MODULE Merge -------------------------------
(***************************************************************************)
(* Installing, replacing and removing packages on the live filesystem: the  *)
(* stages of pkgcore.operations.domain, the content sets and triggers of    *)
(* pkgcore.merge.engine and pkgcore.ebuild.triggers, the file operations of *)
(* pkgcore.fs.ops and the entries pkgcore.vdb.repo_ops keeps.               *)
(*                                                                         *)
(* A content set is a function from the names of regular files to their     *)
(* data.  Directories are left out, but for the aliases symbolic links to   *)
(* them give to files: Place maps a name to the file it leads to.  An        *)
(* operation may be cut at any stage, by an exception, a kill or a power      *)
(* loss; nothing in the code recovers from that but the next operation.     *)
(***************************************************************************)
EXTENDS Naturals, Functions

CONSTANTS
    Packages,
    SlotOf,        \* packages of one slot replace one another
    Files,         \* names of files
    Place,         \* the name by which a file is known to the filesystem
    Protected,     \* the names below CONFIG_PROTECT
    Image,         \* the content set a package brings
    Mine,          \* what the administrator writes into a file
    Absent,        \* no file, no entry
    None,          \* no package
    Torn,          \* an entry of the vdb that lost its CONTENTS
    Rules,         \* the features in use: "none", "owned", "collision"
    MaxUpdates,    \* bound: pending updates per configuration file
    MaxOps         \* bound: operations started

Updates == Protected \X (0 .. MaxUpdates - 1)   \* ._cfg0000_name, ...
Names == Files \cup Updates
Data == (UNION {Range(Image[p]) : p \in Packages}) \cup {Mine}
Csets == UNION {[S -> Data] : S \in SUBSET Files}

ASSUME PlaceAssumption ==
    /\ Place \in [Files -> Files]
    /\ \A f \in Files : Place[Place[f]] = Place[f]
    /\ Protected \subseteq Files
    /\ Files \cap Updates = {}
    \* A name below CONFIG_PROTECT leads to no other file; others may lead to its.
    /\ \A f \in Protected : Place[f] = f

ASSUME ImageAssumption == SlotOf \in [Packages -> Nat] /\ Image \in [Packages -> Csets]

ASSUME RuleAssumption == Rules \subseteq {"none", "owned", "collision"}

\* The number of a pending update is read back from four digits: the code gives one
\* beyond 9999 a name it does not recognise, which is out of the bound.
ASSUME BoundAssumption == MaxUpdates \in 0 .. 10000 /\ MaxOps \in Nat

ASSUME SentinelAssumption ==
    /\ Absent \notin Data
    /\ {Absent, Torn} \cap Csets = {} /\ Absent # Torn
    /\ None \notin Packages

VARIABLES
    disk,          \* what each place holds
    vdb,           \* the entry of each package: the recorded content set
    staged,        \* entries being written, under .tmp.<package>
    op,            \* the operation under way
    rule,
    started,       \* how many operations were started
    exposed,       \* configuration files the merge under way may write over
    interrupted    \* an operation has been cut

vars == <<disk, vdb, staged, op, rule, started, exposed, interrupted>>

Idle == [kind |-> "none", old |-> None, new |-> None, stage |-> "idle",
         install |-> <<>>, renames |-> <<>>, oldset |-> Absent, todo |-> {}]

At(n) == IF n \in Updates THEN n ELSE Place[n]
Installs == op.kind \in {"install", "replace"}
Removes == op.kind \in {"uninstall", "replace"}

Listed == {p \in Packages : vdb[p] # Absent}       \* what iterating the vdb shows
Recorded == {p \in Listed : vdb[p] # Torn}

-----------------------------------------------------------------------------
\* livefs.intersect: the names that exist, with what they hold on the disk.
OnDisk(names) == [n \in {m \in names : disk[At(m)] # Absent} |-> disk[At(n)]]

\* simple_chksum_compare
Differ(cset, other) == {n \in DOMAIN cset \cap DOMAIN other : cset[n] # other[n]}

\* Mutant: what the new package brings is removed with the old one.
UninstallAll(install, oldset) == oldset

\* get_remove_cset goes by names.
Uninstall(install, oldset) ==
    IF op.kind = "uninstall" THEN oldset
    ELSE Restrict(oldset, DOMAIN oldset \ DOMAIN install)

\* FileCollision: what is on the disk already, is not protected and was not the
\* old package's.
Colliding(new, oldset) ==
    (DOMAIN OnDisk(DOMAIN Image[new]) \ Protected) \ DOMAIN oldset

\* CollisionProtect blocks on any such file, ProtectOwned on one another package
\* has recorded; it cannot read an entry that is torn.
Blocked(new, oldset) ==
    LET files == Colliding(new, oldset) IN
    /\ files # {}
    /\ \/ rule = "collision"
       \/ rule = "owned" /\ \E p \in Listed : vdb[p] = Torn \/ DOMAIN vdb[p] \cap files # {}

-----------------------------------------------------------------------------
Init ==
    /\ disk = [n \in Names |-> Absent]
    /\ vdb = [p \in Packages |-> Absent]
    /\ staged = [p \in Packages |-> Absent]
    /\ op = Idle
    /\ rule \in Rules
    /\ started = 0
    /\ exposed = {}
    /\ interrupted = FALSE

Begin(kind, old, new, oldset) ==
    op' = [Idle EXCEPT !.kind = kind, !.old = old, !.new = new, !.stage = "started",
                       !.install = IF new = None THEN <<>> ELSE Image[new],
                       !.oldset = oldset]

\* base.start and the sanity_check hook.  A file collision, or an entry that
\* cannot be read when collisions are looked for, ends the operation there.
Start ==
    /\ op = Idle
    /\ started < MaxOps
    /\ started' = started + 1
    /\ \/ \E new \in Packages :
            /\ ~ \E p \in Listed : SlotOf[p] = SlotOf[new]
            /\ IF Blocked(new, <<>>) THEN op' = op ELSE Begin("install", None, new, Absent)
       \/ \E new \in Packages, old \in Listed :
            /\ SlotOf[old] = SlotOf[new]
            /\ IF rule = "none" THEN Begin("replace", old, new, Absent)
               ELSE IF vdb[old] = Torn THEN op' = op
               ELSE LET oldset == OnDisk(DOMAIN vdb[old]) IN
                    IF Blocked(new, oldset) THEN op' = op
                    ELSE Begin("replace", old, new, oldset)
       \/ \E old \in Listed : Begin("uninstall", old, None, Absent)
    /\ UNCHANGED <<disk, vdb, staged, rule, exposed, interrupted>>

-----------------------------------------------------------------------------
\* Mutant: the number of a pending update is taken again.
NextUpdateFirst(f) == 0

\* The number of the next ._cfg file: one more than the highest there is.
NextUpdate(f) ==
    LET taken == {u \in Updates : u[1] = f /\ disk[u] # Absent} IN
    CHOOSE n \in 0 .. MaxUpdates :
      (\A u \in taken : u[2] < n) /\ (n = 0 \/ <<f, n - 1>> \in taken)

\* Mutant: a file that is not what the package brings is not noticed.
EndangeredNever(install) == {}

\* The configuration files the package would change.
Endangered(install) == Differ(install, OnDisk(DOMAIN install)) \cap Protected

\* Those it brings under another name: only the name is matched.
Unmatched(install) == {Place[n] : n \in DOMAIN install \ Protected} \cap Protected

\* The pre_merge hook.  ConfigProtectInstall renames what would change a
\* configuration file.  Should it raise, on an unreadable file or a bad env.d
\* file, the exception is suppressed and the merge goes on with what was renamed.
PreMerge ==
    /\ Installs
    /\ op.stage = "started"
    /\ \E changed \in SUBSET Endangered(op.install) :
         LET moved == {<<f, NextUpdate(f)>> : f \in changed}
             names == (DOMAIN op.install \ changed) \cup moved
         IN  /\ moved \subseteq Updates
             /\ op' = [op EXCEPT
                  !.stage = "merge",
                  !.install = [n \in names |-> IF n \in moved THEN @[n[1]] ELSE @[n]],
                  !.renames = [u \in moved |-> u[1]],
                  !.todo = names]
             /\ exposed' = (Endangered(op.install) \ changed) \cup Unmatched(op.install)
    /\ UNCHANGED <<disk, vdb, staged, rule, started, interrupted>>

\* merge_contents: one file is copied, beside the old one and renamed over it.
MergeFile ==
    /\ op.stage = "merge"
    /\ \E n \in op.todo :
         /\ disk' = [disk EXCEPT ![At(n)] = op.install[n]]
         /\ op' = [op EXCEPT !.todo = @ \ {n}]
    /\ UNCHANGED <<vdb, staged, rule, started, exposed, interrupted>>

\* ConfigProtectInstall_restore
Original(install, renames) ==
    [f \in (DOMAIN install \ DOMAIN renames) \cup Range(renames) |->
       IF f \in DOMAIN install THEN install[f]
       ELSE install[CHOOSE u \in DOMAIN renames : renames[u] = f]]

PostMerge ==
    /\ op.stage = "merge"
    /\ op.todo = {}
    /\ op' = [op EXCEPT !.stage = "merged", !.renames = <<>>,
                        !.install = Original(@, op.renames)]
    /\ exposed' = {}
    /\ UNCHANGED <<disk, vdb, staged, rule, started, interrupted>>

\* create_repo_op and add_data: the entry is written where no reader looks; what
\* an interrupted operation left there is written over.
AddData ==
    /\ op.stage = "merged"
    /\ staged' = [staged EXCEPT ![op.new] = op.install]
    /\ op' = [op EXCEPT !.stage = "recorded"]
    /\ UNCHANGED <<disk, vdb, rule, started, exposed, interrupted>>

-----------------------------------------------------------------------------
\* ConfigProtectUninstall: the files to leave, those that are not what was
\* recorded of them.
Kept(existing, uninstall) == Differ(uninstall, existing) \cap Protected

\* prerm and the pre_unmerge hook.  What was recorded of the old package is read
\* unless a collision check had done so.  ConfigProtectUninstall is given the same
\* content set twice, and in a replacement a set that is computed anew afterwards.
PreUnmerge ==
    /\ Removes
    /\ op.stage = IF op.kind = "replace" THEN "recorded" ELSE "started"
    /\ vdb[op.old] # Torn
    /\ LET oldset == IF op.oldset = Absent THEN OnDisk(DOMAIN vdb[op.old]) ELSE op.oldset
           uninstall == Uninstall(op.install, oldset)
           kept == IF op.kind = "uninstall" THEN Kept(uninstall, uninstall) ELSE {}
       IN  op' = [op EXCEPT
             !.stage = "unmerge",
             !.oldset = Restrict(oldset, DOMAIN oldset \ kept),
             !.todo = DOMAIN uninstall \ kept]
    /\ UNCHANGED <<disk, vdb, staged, rule, started, exposed, interrupted>>

\* unmerge_contents: one file is unlinked, if it is there.
UnmergeFile ==
    /\ op.stage = "unmerge"
    /\ \E n \in op.todo :
         /\ disk' = [disk EXCEPT ![At(n)] = Absent]
         /\ op' = [op EXCEPT !.todo = @ \ {n}]
    /\ UNCHANGED <<vdb, staged, rule, started, exposed, interrupted>>

PostUnmerge ==
    /\ op.stage = "unmerge"
    /\ op.todo = {}
    /\ op' = [op EXCEPT !.stage = "unmerged"]
    /\ UNCHANGED <<disk, vdb, staged, rule, started, exposed, interrupted>>

-----------------------------------------------------------------------------
\* Mutant: the entry goes before the files.
TearEntryEarly ==
    /\ op.stage \in {"unmerge", "unmerged"}
    /\ vdb' = [vdb EXCEPT ![op.old] = Torn]
    /\ op' = [op EXCEPT !.stage = "removing", !.todo = {}]
    /\ UNCHANGED <<disk, staged, rule, started, exposed, interrupted>>

\* uninstall.finalize_data removes the entry file by file.
TearEntry ==
    /\ op.stage = "unmerged"
    /\ vdb' = [vdb EXCEPT ![op.old] = Torn]
    /\ op' = [op EXCEPT !.stage = "removing"]
    /\ UNCHANGED <<disk, staged, rule, started, exposed, interrupted>>

RemoveEntry ==
    /\ op.stage = "removing"
    /\ vdb' = [vdb EXCEPT ![op.old] = Absent]
    /\ op' = [op EXCEPT !.stage = IF op.kind = "replace" THEN "swap" ELSE "finalized"]
    /\ UNCHANGED <<disk, staged, rule, started, exposed, interrupted>>

\* Mutant: the new entry is in place before the old one is removed.
RenameEntryFirst ==
    /\ op.stage = IF op.kind = "replace" THEN "unmerged" ELSE "recorded"
    /\ Installs
    /\ vdb[op.new] = Absent
    /\ vdb' = [vdb EXCEPT ![op.new] = staged[op.new]]
    /\ staged' = [staged EXCEPT ![op.new] = Absent]
    /\ op' = [op EXCEPT !.stage = "finalized"]
    /\ UNCHANGED <<disk, rule, started, exposed, interrupted>>

\* install.finalize_data renames the entry into place.
RenameEntry ==
    /\ op.stage = IF op.kind = "replace" THEN "swap" ELSE "recorded"
    /\ Installs
    /\ vdb[op.new] = Absent
    /\ vdb' = [vdb EXCEPT ![op.new] = staged[op.new]]
    /\ staged' = [staged EXCEPT ![op.new] = Absent]
    /\ op' = [op EXCEPT !.stage = "finalized"]
    /\ UNCHANGED <<disk, rule, started, exposed, interrupted>>

\* postrm, postinst and finish
Finish ==
    /\ op.stage = "finalized"
    /\ op' = Idle
    /\ UNCHANGED <<disk, vdb, staged, rule, started, exposed, interrupted>>

\* A stage raises, or the process dies: what it held in memory is gone.  An
\* operation on a torn entry gets no further than its pre_unmerge hook.
Interrupt ==
    /\ op # Idle
    /\ op' = Idle
    /\ interrupted' = TRUE
    /\ exposed' = {}
    /\ UNCHANGED <<disk, vdb, staged, rule, started>>

-----------------------------------------------------------------------------
\* What the administrator does to f once the merge has compared the files, and
\* before it has copied f, the merge does not know of.
Touched(f) ==
    exposed' = IF op.stage = "merge" /\ f \in op.todo THEN exposed \cup {f} ELSE exposed

\* The administrator edits a configuration file.
Edit(f) ==
    /\ disk[f] \notin {Absent, Mine}
    /\ disk' = [disk EXCEPT ![f] = Mine]
    /\ Touched(f)
    /\ UNCHANGED <<vdb, staged, op, rule, started, interrupted>>

\* ... or takes a pending update, or throws it away.
Settle(u) ==
    /\ disk[u] # Absent
    /\ \/ disk' = [disk EXCEPT ![u] = Absent, ![u[1]] = disk[u]] /\ Touched(u[1])
       \/ disk' = [disk EXCEPT ![u] = Absent] /\ UNCHANGED exposed
    /\ UNCHANGED <<vdb, staged, op, rule, started, interrupted>>

Administrator == (\E f \in Protected : Edit(f)) \/ (\E u \in Updates : Settle(u))

Next ==
    \/ Start \/ PreMerge \/ MergeFile \/ PostMerge \/ AddData
    \/ PreUnmerge \/ UnmergeFile \/ PostUnmerge
    \/ TearEntry \/ RemoveEntry \/ RenameEntry \/ Finish \/ Interrupt
    \/ Administrator

Spec == Init /\ [][Next]_vars

-----------------------------------------------------------------------------
Stages == {"idle", "started", "merge", "merged", "recorded", "unmerge", "unmerged",
           "removing", "swap", "finalized"}
Renamed == UNION {[S -> Data] : S \in SUBSET Names}

Ops ==
    [kind : {"none", "install", "uninstall", "replace"}, stage : Stages,
     old : Packages \cup {None}, new : Packages \cup {None},
     install : Renamed, oldset : Csets \cup {Absent},
     renames : UNION {[S -> Protected] : S \in SUBSET Updates},
     todo : SUBSET Names]

\* The variables hold what the code puts there: an entry records names of the
\* package's, never those of pending updates.
TypeOK ==
    /\ disk \in [Names -> Data \cup {Absent}]
    /\ vdb \in [Packages -> Csets \cup {Absent, Torn}]
    /\ staged \in [Packages -> Csets \cup {Absent}]
    /\ op \in Ops
    /\ rule \in Rules
    /\ started \in 0 .. MaxOps
    /\ exposed \subseteq Protected
    /\ interrupted \in BOOLEAN

Aliased(f) == \E g \in Files \ {f} : Place[g] = Place[f]

\* A configuration file that is there, as the administrator or an earlier package
\* left it, is changed by no merge, but where the code does not see it: the file is
\* brought under a name that leads to it and is not protected; ConfigProtectInstall
\* raised before it had renamed what would change the file; or the administrator
\* touched it after the files were compared and before this one was copied.
\* (A removal is another matter: ConfigProtectUninstall compares nothing with what
\* is on the disk.)
EditsSurvive ==
    [][\A f \in Protected :
         disk[f] # Absent /\ disk'[f] # disk[f] =>
           op' = op \/ op.stage = "unmerge" \/ f \in exposed]_vars

\* A pending update is his to settle: no operation writes over it or removes it.
UpdatesKept ==
    [][op' # op => \A u \in Updates : disk[u] # Absent => disk'[u] = disk[u]]_vars

\* The database never shows two packages of one slot, whatever was cut short.
OnePerSlot ==
    \A p, q \in Listed : SlotOf[p] = SlotOf[q] => p = q

\* When an operation has recorded its package all the package brought is on the
\* disk, what came before it and was cut short notwithstanding.  A configuration
\* file may hold something else.  It is not so of a file the old package had
\* under another name, which is removed by that name.
NewVersionPresent ==
    op.stage = "finalized" /\ Installs =>
      \A f \in DOMAIN Image[op.new] :
        \/ disk[Place[f]] = Image[op.new][f]
        \/ Place[f] \in Protected /\ disk[Place[f]] # Absent
        \/ op.kind = "replace" /\ \E g \in DOMAIN op.oldset \ {f} : Place[g] = Place[f]

\* Where collisions are looked for and nothing was cut short, what a package
\* recorded stays on the disk as recorded until its own removal.
Intact == rule # "none" /\ ~interrupted

InstalledFilesPresent ==
    Intact =>
      \A p \in Recorded \ {op.old} : \A f \in DOMAIN vdb[p] \ Protected :
        ~Aliased(f) => disk[f] = vdb[p][f]

\* ... and no two packages record one file.  It is not so of a file that has a
\* second name: ProtectOwned looks for the name alone, and a removal by the other
\* name makes room where a package has its file recorded.
OneOwner ==
    Intact =>
      \A p, q \in Recorded : p # q =>
        \A f \in DOMAIN vdb[p] \cap DOMAIN vdb[q] : f \in Protected \/ Aliased(f)

\* Between operations every file on the disk belongs to a recorded package, if
\* none was cut short.
NothingLeftBehind ==
    op = Idle /\ ~interrupted =>
      \A f \in Files \ Protected : disk[f] # Absent =>
        \E p \in Recorded : \E g \in DOMAIN vdb[p] : Place[g] = f

\* The disk and the entries agree: the files of the package just merged, those of
\* the others, one owner each, and none without an owner.
FilesAndEntriesAgree ==
    NewVersionPresent /\ InstalledFilesPresent /\ OneOwner /\ NothingLeftBehind

\* An entry goes after its files: should the removal be cut short, the files that
\* are left are still recorded.  Apart: configuration files, and files the new version
\* brings as well, whose old entry is removed just before the new one is renamed
\* (repo_ops.py:150-158); cut short between the two they have none.
RecordOutlivesFiles ==
    [][\A p \in Recorded : vdb'[p] = Torn =>
         \A f \in DOMAIN vdb[p] :
           \/ Place[f] \in Protected
           \/ disk[Place[f]] = Absent
           \/ \E g \in DOMAIN op.install : Place[g] = Place[f]]_vars
=============================================================================
