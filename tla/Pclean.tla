-------------------------------- MODULE Pclean --------------------------------
(***************************************************************************)
(* The cleaning command (scripts/pclean.py): which distfiles, binary       *)
(* packages and build directories are removed, and which lines of the      *)
(* user's configuration are reported as unneeded.                          *)
(*                                                                         *)
(* A restriction is the set of the packages it matches, and All are those  *)
(* there may be.  A package is a record with its name and the files of its *)
(* sources.  A file is a record: `of' are the names whose pattern it fits, *)
(* in whatever case, `cased' says that it does in its own, and `stem' is   *)
(* the part before its version, None if it has not got the form.           *)
(***************************************************************************)
EXTENDS Naturals, Sequences, SequencesExt, FiniteSets, FiniteSetsExt

CONSTANTS None, All, InOrder(_, _)

-----------------------------------------------------------------------------
(* What the options name: sets of packages, asked for and not, packages to *)
(* leave alone, and targets.                                               *)

Excluded(o) == o.disabled \cup o.excludes
Restrictions(o) ==
    {UNION set : set \in o.enabled}
    \cup (IF Excluded(o) # {} THEN {All \ UNION Excluded(o)} ELSE {})
    \cup (IF o.targets # {} THEN {UNION o.targets} ELSE {})
Restricted(o) == Restrictions(o) # {}
Matched(o, repo) == {p \in repo : \A r \in Restrictions(o) : p \in r}

\* Only a file last touched before the time given and smaller than the size given.
FiltersRun(o, f) ==
    /\ o.modified # None => f.mtime < o.modified
    /\ o.size # None => f.size < o.size

-----------------------------------------------------------------------------
(* Distfiles.                                                              *)

FilesOf(pkgs) == UNION {p.files : p \in pkgs}

\* For whom everything that exists is saved: also for those who only asked to keep what
\* cannot be fetched.
Saved(o, repo, installed) ==
    LET all == o.fetch \/ (o.exists /\ ~Restricted(o)) IN
    (IF o.installed THEN FilesOf(installed) ELSE {})
    \cup (IF all THEN FilesOf(repo) ELSE {})
    \cup (IF Restricted(o) /\ o.exists THEN FilesOf(Matched(o, repo)) ELSE {})
    \cup FilesOf(repo \cap UNION Excluded(o))

\* The stems of the files of a package that do not fit the pattern of its name, nor that of
\* the stems found for it before.  Once any package has one, no stem stands for the empty one.
Fits(f, name, stems, some) ==
    \/ name \in f.of
    \/ some /\ f.stem # None /\ f.stem \in (IF stems = {} THEN {""} ELSE stems)
ExtraPrefixes(files) ==
    LET add(extra, i) ==
          LET name == files[i][1]
              f == files[i][2]
              own == {s[2] : s \in {e \in extra : e[1] = name}}
          IN IF Fits(f, name, own, extra # {}) \/ f.stem = None THEN extra
             ELSE extra \cup {<<name, f.stem>>}
    IN {e[2] : e \in FoldLeft(add, {}, [i \in 1..Len(files) |-> i])}

\* Those the packages that match have, by package and by name.
TargetFiles(o, repo) ==
    SetToSortSeq(UNION {{<<p.name, f>> : f \in p.files} : p \in Matched(o, repo)}, InOrder)
LooksTargeted(o, repo, f) ==
    \/ f.cased /\ \E p \in Matched(o, repo) : p.name \in f.of
    \/ f.stem # None /\ f.stem \in ExtraPrefixes(TargetFiles(o, repo))
Dist(o, repo, installed, distdir) ==
    {f \in distdir \ Saved(o, repo, installed) :
        FiltersRun(o, f) /\ (Restricted(o) => LooksTargeted(o, repo, f))}

-----------------------------------------------------------------------------
(* Binary packages.                                                        *)

Same(b, e) == b.name = e.name /\ b.ver = e.ver

\* Against the ebuild it was made from, if that is still there.
PkgChanged(b, repos, attrs) ==
    \E e \in {e \in repos : Same(b, e) /\ e.repo = b.repo} : \E a \in attrs : e.attrs[a] # b.attrs[a]

Pkg(o, binpkgs, repos, installed) ==
    {b \in Matched(o, binpkgs) :
        /\ o.bindist => b.bindist
        /\ o.changed # {} => PkgChanged(b, repos, o.changed)
        /\ o.installed => ~\E i \in installed : Same(b, i)
        /\ o.exists => ~\E e \in repos : Same(b, e)
        /\ o.fetch => ~b.fetch
        /\ o.source # None => o.source = b.repo
        /\ FiltersRun(o, b.path)}

-----------------------------------------------------------------------------
(* Build directories: [category, pf, ok], ok that the name is a package's, *)
(* in the directories of their categories.  st: [dirs, categories, ret].   *)

TmpTargets(o, st) == {d \in st.dirs : d.ok /\ \A r \in Restrictions(o) : d.pf \in r}
RemoveDirAndEmptyParent(st, d, failing) ==
    IF d \in failing THEN [st EXCEPT !.ret = 1]
    ELSE LET rest == st.dirs \ {d} IN
         [st EXCEPT !.dirs = rest,
                    !.categories = IF \E e \in rest : e.category = d.category THEN @ ELSE @ \ {d.category}]
\* All of a category, what cannot be removed and what comes after it in the way left.
RemoveCategory(st, c, failing) ==
    LET of == {d \in st.dirs : d.category = c} IN
    IF of \cap failing # {} THEN [st EXCEPT !.ret = 1]
    ELSE [st EXCEPT !.dirs = @ \ of, !.categories = @ \ {c}]

\* Removing is only done for a terminal, and goes on after what fails.
RemoveMain(o, st, failing) ==
    IF ~o.tty \/ o.pretend THEN st
    ELSE IF Restricted(o) /\ ~o.all
         THEN FoldSet(LAMBDA d, acc : RemoveDirAndEmptyParent(acc, d, failing), st, TmpTargets(o, st))
         ELSE FoldSet(LAMBDA c, acc : RemoveCategory(acc, c, failing), st, st.categories)

-----------------------------------------------------------------------------
(* The user's configuration: lines [name, restrict].  A package is visible *)
(* if it is not masked, or unmasked, and its keywords are accepted, for    *)
(* which lines of two kinds do alike; those that take one back are left    *)
(* out.                                                                    *)

Covered(lines, name) == UNION {l.restrict : l \in {k \in lines : k.name = name}}
VisibleWith(p, lines) ==
    /\ p \in Covered(lines, "pkg_masks") => p \in Covered(lines, "pkg_unmasks")
    /\ p.stable \/ p \in Covered(lines, "pkg_keywords") \cup Covered(lines, "pkg_accept_keywords")

\* What is reported of a line, unless what is left alone has it: without all the lines of
\* its kind the same of its packages are visible.
Changes(o, lines, pkgs, installed) ==
    LET without(l) == {k \in lines : k.name # l.name}
        of(l) ==
          IF (pkgs \cup installed) \cap l.restrict = {} THEN {"unavailable"}
          ELSE (IF installed \cap l.restrict = {} THEN {"uninstalled"} ELSE {})
               \cup (IF \A p \in pkgs \cap l.restrict : VisibleWith(p, lines) = VisibleWith(p, without(l)) THEN {"unnecessary"} ELSE {})
    IN [l \in {k \in lines : k.restrict \notin o.leave} |-> of(l)]

-----------------------------------------------------------------------------
\* Of the distfiles none goes that was to be kept, nor one that has nothing in common with a
\* target; and all of a target's own do, unless they are kept, are filtered out, or can not be
\* told by their names.
DistAgrees(o, repo, installed, distdir) ==
    LET gone == Dist(o, repo, installed, distdir)
        own == FilesOf(Matched(o, repo))
        kept == (IF o.installed THEN FilesOf(installed) ELSE {})
                \cup FilesOf({p \in repo : p \in UNION Excluded(o) \/ (o.fetch /\ p.fetch)
                                           \/ (o.exists /\ \A r \in Restrictions(o) : p \in r)})
        fits(f) == \E p \in Matched(o, repo) : p.name \in f.of
    IN /\ gone \cap kept = {}
       /\ Restricted(o) => \A f \in gone : fits(f) \/ \E g \in own : g.stem = f.stem /\ f.stem # None
       /\ ~o.fetch => \A f \in (own \cap distdir) \ kept :
            FiltersRun(o, f) /\ ((f.cased /\ fits(f)) \/ (~fits(f) /\ f.stem \notin {None, ""})) => f \in gone

\* Binary packages that differ from their ebuilds are not those whose ebuilds are gone.
PkgAgrees(o, binpkgs, repos, installed) ==
    LET gone == Pkg(o, binpkgs, repos, installed) IN
    /\ o.changed # {} /\ o.exists => gone = {}
    /\ \A b \in gone : b \notin UNION Excluded(o)

\* Whatever fails, what is not a target stays, and a category only if it has something left or
\* had nothing to remove.
TmpAgrees(o, st, failing) ==
    LET after == RemoveMain(o, st, failing)
        asked == IF ~o.tty \/ o.pretend THEN {} ELSE IF Restricted(o) /\ ~o.all THEN TmpTargets(o, st) ELSE st.dirs
        left(c) == \E d \in after.dirs : d.category = c
    IN /\ st.dirs \ asked \subseteq after.dirs
       /\ \A c \in {d.category : d \in asked} : c \in after.categories <=> left(c)
       /\ after.ret = 1 <=> asked \cap failing # {}

\* Without one of the lines reported as unnecessary, the others being there, the same packages
\* are visible; without all of them they need not be.
LinesAgree(o, lines, pkgs, installed) ==
    LET changes == Changes(o, lines, pkgs, installed) IN
    \A l \in DOMAIN changes : "unnecessary" \in changes[l] =>
        \A p \in pkgs : VisibleWith(p, lines) = VisibleWith(p, lines \ {l})
===============================================================================
