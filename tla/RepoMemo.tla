------------------------------ MODULE RepoMemo ------------------------------
(***************************************************************************)
(* The lazily filled memory of a repository on disk (repository/prototype, *)
(* vdb/ondisk, binpkg/repository) and the notifications by which the       *)
(* operations of operations/repo keep it true.                             *)
(*                                                                         *)
(* A repository remembers its categories, the packages of a category and   *)
(* the versions of a package, each read from the disk the first time it is *)
(* asked for.  Reading the packages of a category yields the versions too; *)
(* they are staged until someone asks for them.                            *)
(***************************************************************************)
EXTENDS Naturals, FiniteSets

CONSTANTS
    Entries,   \* what can be installed: category, package and version
    Keys,      \* category and package
    Cats,      \* categories
    KeyOf,     \* the key of an entry
    CatOf,     \* the category of a key
    Unread

ASSUME RepoAssumption ==
    /\ KeyOf \in [Entries -> Keys]
    /\ CatOf \in [Keys -> Cats]
    /\ \A S \in (SUBSET Entries) \cup (SUBSET Keys) \cup (SUBSET Cats) : S # Unread

VARIABLES
    kind,     \* "vdb" or "binpkg": the two repositories that can be written to
    entries,  \* what the disk holds
    dirs,     \* the directories of categories
    litter,   \* entries written under their temporary name
    memo,     \* what the repository remembers
    held,     \* packages a search returned: the only ones that are operated on
    op,       \* the operation under way
    raised,   \* whether a notification raised KeyError
    hidden    \* history: old packages of replacements that failed after notice

memoVars == <<kind, entries, dirs, litter, memo, held, op, raised, hidden>>

Cat(e) == CatOf[KeyOf[e]]
Of(k) == {e \in entries : KeyOf[e] = k}
KeysIn(c) == {KeyOf[e] : e \in {x \in entries : Cat(x) = c}}

NoMemo ==
    [cats   |-> Unread,
     pkgs   |-> [c \in Cats |-> Unread],
     vers   |-> [k \in Keys |-> Unread],
     staged |-> [k \in Keys |-> Unread]]

(***************************************************************************)
(* Lookups.  Each fills what it needs; Unread is left where KeyError        *)
(* would have been raised.                                                 *)
(***************************************************************************)
WithCats(m) == IF m.cats = Unread THEN [m EXCEPT !.cats = dirs] ELSE m

\* Mutant: the versions that come with the packages are not kept.
ReadPackagesOnly(m, c) == [m EXCEPT !.pkgs[c] = KeysIn(c)]

\* _get_packages: the packages of a category, with their versions on the side.
ReadPackages(m, c) ==
    [m EXCEPT !.pkgs[c] = KeysIn(c),
              !.staged = [k \in Keys |-> IF k \in KeysIn(c) THEN Of(k) ELSE @[k]]]

WithPkgs(m, c) ==
    IF m.pkgs[c] # Unread THEN m
    ELSE LET n == WithCats(m) IN
         IF c \in n.cats \cap dirs THEN ReadPackages(n, c) ELSE n

WithVers(m, k) ==
    IF m.vers[k] # Unread THEN m
    ELSE LET c == CatOf[k]
             n == WithPkgs(m, c)
         IN  IF n.pkgs[c] # Unread /\ k \in n.pkgs[c]
             THEN [n EXCEPT !.vers[k] = n.staged[k], !.staged[k] = Unread]
             ELSE n

\* Iterating over all versions, which is what a search of everything does.
\* It raises where the directory of a remembered category is gone, or where a
\* remembered package has no versions staged.
SeenCats(m) == WithCats(m).cats
SeenKeys(m) == UNION ({WithPkgs(m, c).pkgs[c] : c \in SeenCats(m)} \ {Unread})
View(m) == UNION ({WithVers(m, k).vers[k] : k \in SeenKeys(m)} \ {Unread})

SearchRaises(m) ==
    \/ \E c \in SeenCats(m) : WithPkgs(m, c).pkgs[c] = Unread
    \/ \E k \in SeenKeys(m) : WithVers(m, k).vers[k] = Unread

(***************************************************************************)
(* Notifications.                                                          *)
(***************************************************************************)
\* The lookups of notify_remove_package, in the order it makes them.
Consulted(m, e) ==
    LET k == KeyOf[e]
        a == IF kind = "vdb" THEN WithPkgs(m, Cat(e)) ELSE m
        b == WithVers(a, k)
    IN  IF b.vers[k] = Unread \/ b.vers[k] \ {e} # {} THEN b ELSE WithPkgs(b, Cat(e))

RemovalRaises(m, e) ==
    LET n == Consulted(m, e) IN
    \/ (kind = "vdb" /\ n.pkgs[Cat(e)] = Unread)
    \/ n.vers[KeyOf[e]] = Unread
    \/ (n.vers[KeyOf[e]] \subseteq {e} /\ n.pkgs[Cat(e)] = Unread)

\* prototype.tree.notify_remove_package
Removed(m, e) ==
    LET k == KeyOf[e]
        c == Cat(e)
        n == Consulted(m, e)
        left == n.vers[k] \ {e}
    IN  IF left # {} THEN [n EXCEPT !.vers[k] = left]
        ELSE [n EXCEPT !.vers[k] = Unread,
                       !.pkgs[c] = Unread,
                       !.cats = IF n.pkgs[c] = {k} THEN Unread ELSE @]

\* The directory goes with its last package; rmdir fails on one that is in use.
\* The vdb tries only if it knew of a single package.
RmDir(m, e) ==
    LET c == Cat(e) IN
    IF /\ \A x \in entries \cup litter : Cat(x) # c
       /\ kind = "vdb" => Cardinality(WithPkgs(m, c).pkgs[c]) = 1
    THEN dirs \ {c} ELSE dirs

\* Mutant: what was remembered of the category's packages stays.
AddedQuietly(m, e) ==
    LET n == WithVers(m, KeyOf[e])
        known == IF n.vers[KeyOf[e]] = Unread THEN {} ELSE n.vers[KeyOf[e]]
    IN  [n EXCEPT !.vers[KeyOf[e]] = known \cup {e}]

\* prototype.tree.notify_add_package
Added(m, e) ==
    LET n == WithVers(m, KeyOf[e])
        known == IF n.vers[KeyOf[e]] = Unread THEN {} ELSE n.vers[KeyOf[e]]
    IN  [n EXCEPT !.cats = Unread,
                  !.pkgs[Cat(e)] = Unread,
                  !.vers[KeyOf[e]] = known \cup {e}]

(***************************************************************************)
(* Searches, between operations.                                           *)
(***************************************************************************)
Idle == [kind |-> "none", old |-> Unread, new |-> Unread, stage |-> "idle"]

Quiet == op = Idle /\ ~raised

\* Filling the memory without looking at packages: `cat in repo.categories`.
LookAtCategories ==
    /\ Quiet
    /\ memo' = WithCats(memo)
    /\ UNCHANGED <<kind, entries, dirs, litter, held, op, raised, hidden>>

LookAtPackages(c) ==
    /\ Quiet
    /\ memo' = WithPkgs(memo, c)
    /\ UNCHANGED <<kind, entries, dirs, litter, held, op, raised, hidden>>

\* A match of one category and package; the caller keeps what it gets.
Match(k) ==
    /\ Quiet
    /\ memo' = WithVers(memo, k)
    /\ held' = held \cup (IF memo'.vers[k] = Unread THEN {} ELSE memo'.vers[k])
    /\ UNCHANGED <<kind, entries, dirs, litter, op, raised, hidden>>

(***************************************************************************)
(* Operations, stage by stage.                                             *)
(***************************************************************************)
\* add_data writes under a name that no search looks at.
BeginInstall(e) ==
    /\ Quiet
    /\ e \notin entries
    /\ op' = [kind |-> "install", old |-> Unread, new |-> e, stage |-> "add_data"]
    /\ dirs' = dirs \cup {Cat(e)}
    /\ litter' = litter \cup {e}
    /\ UNCHANGED <<kind, entries, memo, held, raised, hidden>>

BeginUninstall(e) ==
    /\ Quiet
    /\ e \in held \cap entries
    /\ op' = [kind |-> "uninstall", old |-> e, new |-> Unread, stage |-> "remove_data"]
    /\ UNCHANGED <<kind, entries, dirs, litter, memo, held, raised, hidden>>

\* A binary package is replaced by a build of itself, an installed one by any
\* version.
BeginReplace(e, n) ==
    /\ Quiet
    /\ e \in held \cap entries
    /\ KeyOf[n] = KeyOf[e]
    /\ n = e \/ (kind = "vdb" /\ n \notin entries)
    /\ op' = [kind |-> "replace", old |-> e, new |-> n, stage |-> "add_data"]
    /\ litter' = litter \cup {n}
    /\ UNCHANGED <<kind, entries, dirs, memo, held, raised, hidden>>

\* The stage that follows once the old package was given notice of.
AfterRemoval == IF op.kind = "replace" THEN [op EXCEPT !.stage = "noticed"] ELSE Idle

\* replace tells the repository before the data is gone, uninstall after.
NotifyRemove ==
    /\ \/ op.kind = "replace" /\ op.stage = "add_data"
       \/ op.kind = "uninstall" /\ op.stage = "finalized"
    /\ IF RemovalRaises(memo, op.old)
       THEN /\ raised' = TRUE
            /\ memo' = Consulted(memo, op.old)
            /\ op' = Idle
            /\ UNCHANGED dirs
       ELSE /\ memo' = Removed(memo, op.old)
            /\ dirs' = RmDir(memo, op.old)
            /\ op' = AfterRemoval
            /\ UNCHANGED raised
    /\ held' = held \ {op.old}
    /\ UNCHANGED <<kind, entries, litter, hidden>>

\* finalize_data of the vdb's uninstall, the first half of its replace.
RemoveOld ==
    /\ \/ op.kind = "uninstall" /\ op.stage = "remove_data"
       \/ op.kind = "replace" /\ op.stage = "noticed" /\ kind = "vdb"
    /\ entries' = entries \ {op.old}
    /\ op' = [op EXCEPT !.stage = IF op.kind = "replace" THEN "removed" ELSE "finalized"]
    /\ UNCHANGED <<kind, dirs, litter, memo, held, raised, hidden>>

\* finalize_data of install, the second half of the vdb's replace: a rename.
RenameNew ==
    /\ \/ op.kind = "install" /\ op.stage = "add_data"
       \/ op.kind = "replace" /\ op.stage = (IF kind = "vdb" THEN "removed" ELSE "noticed")
    /\ entries' = entries \cup {op.new}
    /\ litter' = litter \ {op.new}
    /\ op' = [op EXCEPT !.stage = "renamed"]
    /\ UNCHANGED <<kind, dirs, memo, held, raised, hidden>>

NotifyAdd ==
    /\ op.stage = "renamed"
    /\ memo' = Added(memo, op.new)
    /\ op' = Idle
    /\ UNCHANGED <<kind, entries, dirs, litter, held, raised, hidden>>

\* finalize_data, or what comes before it, fails: an exception ends the operation.
Fail ==
    /\ op # Idle
    /\ op.stage \in {"add_data", "remove_data", "noticed", "removed"}
    /\ op' = Idle
    /\ hidden' = IF op.stage = "noticed" THEN hidden \cup {op.old} ELSE hidden
    /\ UNCHANGED <<kind, entries, dirs, litter, memo, held, raised>>

MemoInit ==
    /\ kind \in {"vdb", "binpkg"}
    /\ entries \in SUBSET Entries
    /\ dirs = {Cat(e) : e \in entries}
    /\ litter = {}
    /\ memo = NoMemo
    /\ held = {}
    /\ op = Idle
    /\ raised = FALSE
    /\ hidden = {}

Search ==
    \/ LookAtCategories
    \/ \E c \in Cats : LookAtPackages(c)
    \/ \E k \in Keys : Match(k)

Operate ==
    \/ \E e \in Entries : BeginInstall(e) \/ BeginUninstall(e)
    \/ \E e, n \in Entries : BeginReplace(e, n)
    \/ NotifyRemove
    \/ RemoveOld
    \/ RenameNew
    \/ NotifyAdd
    \/ Fail

MemoNext == Search \/ Operate

MemoSpec == MemoInit /\ [][MemoNext]_memoVars
-----------------------------------------------------------------------------
Sets(S) == (SUBSET S) \cup {Unread}

Ops == [kind : {"none", "install", "uninstall", "replace"},
        old : Entries \cup {Unread}, new : Entries \cup {Unread},
        stage : {"idle", "add_data", "remove_data", "noticed", "removed", "renamed",
                 "finalized"}]

MemoTypeOK ==
    /\ kind \in {"vdb", "binpkg"}
    /\ entries \in SUBSET Entries
    /\ dirs \in SUBSET Cats
    /\ litter \in SUBSET Entries
    /\ memo \in [cats : Sets(Cats), pkgs : [Cats -> Sets(Keys)],
                 vers : [Keys -> Sets(Entries)], staged : [Keys -> Sets(Entries)]]
    /\ held \in SUBSET Entries
    /\ op \in Ops
    /\ raised \in BOOLEAN
    /\ hidden \in SUBSET Entries

\* Between operations a search shows what is on the disk, whatever was looked at
\* before, in whatever order, and whatever was installed or removed since.  One
\* thing can hide an entry: replace gives notice of a removal before it happens,
\* and when it fails then the other versions of the package are remembered.
ShowsTheDisk ==
    Quiet /\ ~SearchRaises(memo) =>
      View(memo) \subseteq entries /\ entries \ View(memo) \subseteq hidden

\* No notification fails to find what it was told of, and no search stumbles over
\* what it remembers.  (But for binary packages: notify_remove_package may read
\* the category again after its last package went, remember it as empty, and
\* remove its directory; a search of everything then raises.)
NeverRaises ==
    /\ ~raised
    /\ SearchRaises(memo) => kind = "binpkg" /\ memo.cats # Unread

=============================================================================
