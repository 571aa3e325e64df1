--------------------------- MODULE MetadataCache ---------------------------
(***************************************************************************)
(* The on-disk cache of package metadata (cache/, the metadata of          *)
(* ebuild/ebuild_src.py, ebuild/eclass_cache.py), used by several programs *)
(* at once while ebuilds and eclasses are edited, programs are killed, and *)
(* regenerations clean up what they take for leftovers.                    *)
(*                                                                         *)
(* A repository has read-only caches (the pregenerated one) before the one *)
(* that is written to.  An entry holds a checksum of the ebuild and one of *)
(* every eclass it inherits; it stands for the metadata of the versions    *)
(* that were sourced, which a correct entry's checksums are the checksums  *)
(* of.  Versions of a file are numbered; a checksum is the number.         *)
(***************************************************************************)
EXTENDS Naturals, FiniteSets

CONSTANTS
    Pkgs, Eclasses,
    Inherits,    \* [Pkgs -> [versions -> SUBSET Eclasses]]
    Sound,       \* [Pkgs -> the versions that can be sourced]
    Programs,
    MaxEdits,    \* bound: edits of all files together
    MaxCrashes,  \* bound: programs killed
    None

Files == Pkgs \cup Eclasses
Versions == 0 .. MaxEdits
Caches == {"pregenerated", "own"}

ASSUME CacheAssumption ==
    /\ Pkgs \cap Eclasses = {} /\ None \notin Nat \cup Pkgs /\ "own" \notin Programs
    /\ Inherits \in [Pkgs -> [Versions -> SUBSET Eclasses]]
    /\ Sound \in [Pkgs -> SUBSET Versions]
    /\ \A p \in Pkgs : 0 \in Sound[p]  \* a cache is only filled with what could be sourced
    /\ MaxEdits \in Nat /\ MaxCrashes \in Nat

VARIABLES
    ver,      \* what is in the tree: the version of each file
    tree,     \* the packages that are in the tree
    disk,     \* the caches: an entry, or None
    temps,    \* the files entries are written to before they are renamed
    prog,     \* the programs
    edits, crashes

vars == <<ver, tree, disk, temps, prog, edits, crashes>>

(***************************************************************************)
(* src and from: what was sourced, the ebuild and its eclasses; chf and    *)
(* ecl: the checksums.                                                     *)
(***************************************************************************)
Entry(src, from, chf, ecl) == [src |-> src, from |-> from, chf |-> chf, ecl |-> ecl]

\* The entry a program makes that nobody disturbs.
OwnEntry(p) ==
    LET from == [e \in Inherits[p][ver[p]] |-> ver[e]] IN Entry(ver[p], from, ver[p], from)

(***************************************************************************)
(* regen: it regenerates the cache, and cleans it, or only wants metadata; *)
(* memo: the checksums of eclasses the program has computed, each once;    *)
(* loaded: the eclasses its daemon has preloaded; start: the tree when it  *)
(* began; call: when it began with the package in hand; hash: the checksum *)
(* of that package's ebuild, once computed; old: what killed programs had  *)
(* left when it began.                                                     *)
(***************************************************************************)
Fresh(regen) ==
    [regen |-> regen, at |-> "next", pass |-> 1, todo |-> tree, passed |-> {}, pkg |-> None, cache |-> "own",
     held |-> None, hash |-> None, memo |-> [e \in Eclasses |-> None],
     loaded |-> [e \in Eclasses |-> None], start |-> ver, call |-> ver, listed |-> {},
     old |-> {t \in temps : prog[t[1]].at = "dead"}]

Init ==
    /\ ver = [f \in Files |-> 0]
    /\ tree \in (SUBSET Pkgs) \ {{}}
    /\ \E k \in SUBSET Caches :
         disk = [c \in Caches |-> [p \in Pkgs |-> IF c \in k THEN OwnEntry(p) ELSE None]]
    /\ temps = {}
    /\ prog = [a \in Programs |-> [at |-> "off"]]
    /\ edits = 0 /\ crashes = 0

Stand == <<ver, tree, edits, crashes>>

Begin(a) ==
    /\ prog[a].at = "off"
    /\ \E regen \in BOOLEAN : prog' = [prog EXCEPT ![a] = Fresh(regen)]
    /\ UNCHANGED <<Stand, disk, temps>>

\* The next package: its caches are asked one after the other.
Choose(a) ==
    /\ prog[a].at = "next"
    /\ \E p \in prog[a].todo :
         prog' = [prog EXCEPT ![a].at = "read", ![a].todo = @ \ {p}, ![a].pkg = p,
                              ![a].cache = "pregenerated", ![a].hash = None, ![a].call = ver]
    /\ UNCHANGED <<Stand, disk, temps>>

\* After the last cache the ebuild is sourced.
Onward(r) == IF r.cache = "own" THEN [r EXCEPT !.at = "source"]
             ELSE [r EXCEPT !.at = "read", !.cache = "own"]

Read(a) ==
    /\ prog[a].at = "read"
    /\ LET e == disk[prog[a].cache][prog[a].pkg] IN
         prog' = [prog EXCEPT ![a] = IF e = None THEN Onward(@)
                                     ELSE [@ EXCEPT !.at = "validate", !.held = e]]
    /\ UNCHANGED <<Stand, disk, temps>>

\* LazilyHashedPath: the checksum is computed once.
Memoised(memo, es) == [e \in Eclasses |-> IF e \in es /\ memo[e] = None THEN ver[e] ELSE memo[e]]
Hashed(r) == IF r.hash = None THEN ver[r.pkg] ELSE r.hash

\* Mutant: the eclasses are not compared.
ValidByEbuild(r) == r.held.chf = Hashed(r)

\* validate_entry; the eclasses are looked at when the ebuild's checksum fits, up to
\* the first that does not.
Valid(r) ==
    /\ r.held.chf = Hashed(r)
    /\ \A e \in DOMAIN r.held.ecl : r.held.ecl[e] = Memoised(r.memo, DOMAIN r.held.ecl)[e]

Looked(r) ==
    IF r.held.chf # Hashed(r) THEN {r.memo}
    ELSE {Memoised(r.memo, es) : es \in
            IF Valid(r) THEN {DOMAIN r.held.ecl}
            ELSE {s \in SUBSET DOMAIN r.held.ecl :
                    \E e \in s : r.held.ecl[e] # Memoised(r.memo, s)[e]}}

\* An entry that is not valid is deleted where it may be.
Validate(a) ==
    /\ prog[a].at = "validate"
    /\ LET r == prog[a] IN
         \E memo \in Looked(r) :
           prog' = [prog EXCEPT ![a].at = IF Valid(r) THEN "got" ELSE "delete",
                                ![a].hash = Hashed(r), ![a].memo = memo]
    /\ UNCHANGED <<Stand, disk, temps>>

\* What is deleted is what is there by now; nothing there is a KeyError, caught.
Delete(a) ==
    /\ prog[a].at = "delete"
    /\ disk' = IF prog[a].cache = "own" THEN [disk EXCEPT !.own[prog[a].pkg] = None] ELSE disk
    /\ prog' = [prog EXCEPT ![a] = Onward([@ EXCEPT !.held = None])]
    /\ UNCHANGED <<Stand, temps>>

\* The daemon sources the ebuild, and then the eclasses it inherits, or what it has
\* preloaded of them.
Source(a) ==
    /\ prog[a].at = "source"
    /\ LET v == ver[prog[a].pkg] IN
         prog' = [prog EXCEPT ![a].at = IF v \in Sound[prog[a].pkg] THEN "inherit" ELSE "bad",
                              ![a].held = Entry(v, <<>>, None, <<>>)]
    /\ UNCHANGED <<Stand, disk, temps>>

Preloads(r) == r.regen /\ r.pass = 1

Inherit(a) ==
    /\ prog[a].at = "inherit"
    /\ LET r == prog[a]
           es == Inherits[r.pkg][r.held.src]
           read == [e \in es |-> IF Preloads(r) THEN Memoised(r.loaded, es)[e] ELSE ver[e]]
       IN prog' = [prog EXCEPT ![a].at = IF Preloads(r) THEN "preload" ELSE "store",
                               ![a].held.from = read]
    /\ UNCHANGED <<Stand, disk, temps>>

\* The daemons of a regeneration's workers read those eclasses once more, to keep them.
Preload(a) ==
    /\ prog[a].at = "preload"
    /\ prog' = [prog EXCEPT ![a].at = "store",
                            ![a].loaded = Memoised(@, DOMAIN prog[a].held.from)]
    /\ UNCHANGED <<Stand, disk, temps>>

\* __setitem__ computes the checksums now, and writes to a file of its own.
Store(a) ==
    /\ prog[a].at = "store"
    /\ LET r == prog[a]
           es == DOMAIN r.held.from
           memo == Memoised(r.memo, es)
           e == Entry(r.held.src, r.held.from, ver[r.pkg], [k \in es |-> memo[k]])
       IN /\ temps' = temps \cup {<<a, r.pkg>>}
          /\ prog' = [prog EXCEPT ![a].at = "rename", ![a].held = e, ![a].memo = memo]
    /\ UNCHANGED <<Stand, disk>>

\* Mutant: the failure is not noticed.
RenameQuietly(a) ==
    /\ prog[a].at = "rename"
    /\ prog' = [prog EXCEPT ![a].at = "got"]
    /\ temps' = temps \ {<<a, prog[a].pkg>>}
    /\ disk' = IF <<a, prog[a].pkg>> \in temps
                 THEN [disk EXCEPT !.own[prog[a].pkg] = prog[a].held] ELSE disk
    /\ UNCHANGED Stand

\* Somebody may have cleaned that file away: then removing it raises what nobody
\* handles; a regeneration's workers report it, everybody else ends.
Rename(a) ==
    /\ prog[a].at = "rename"
    /\ LET r == prog[a] IN
         IF <<a, r.pkg>> \in temps
           THEN /\ temps' = temps \ {<<a, r.pkg>>}
                /\ disk' = [disk EXCEPT !.own[r.pkg] = r.held]
                /\ prog' = [prog EXCEPT ![a].at = "got"]
           ELSE /\ prog' = [prog EXCEPT ![a].at = IF r.regen /\ r.pass = 1 THEN "next"
                                                  ELSE "failed"]
                /\ UNCHANGED <<disk, temps>>
    /\ UNCHANGED Stand

\* The metadata is there, or the package has none and is masked.
Got(a) ==
    /\ prog[a].at \in {"got", "bad"}
    /\ prog' = [prog EXCEPT ![a].at = "next", ![a].held = None, ![a].pkg = None,
                  ![a].passed = IF prog[a].at = "got" THEN @ \cup {prog[a].pkg} ELSE @]
    /\ UNCHANGED <<Stand, disk, temps>>

\* The names of the files in the cache, as keys() lists them.
Names == temps \cup {<<"own", p>> : p \in {k \in Pkgs : disk.own[k] # None}}

\* A regeneration goes through the packages twice and then lists the cache, where the
\* files of others that are not yet renamed look like packages.
PassOver(a) ==
    /\ prog[a].at = "next"
    /\ prog[a].todo = {}
    /\ prog' = [prog EXCEPT ![a] =
         IF ~@.regen THEN [@ EXCEPT !.at = "done"]
         ELSE IF @.pass = 1 THEN [@ EXCEPT !.pass = 2, !.todo = tree, !.passed = {}]
         ELSE [@ EXCEPT !.at = "clean",
                 !.listed = {x \in Names : x[1] = "own" => x[2] \notin prog[a].passed}]]
    /\ UNCHANGED <<Stand, disk, temps>>

\* Every name listed is deleted; one that has gone is a KeyError, which ends the run.
Clean(a) ==
    /\ prog[a].at = "clean"
    /\ \/ /\ prog[a].listed = {}
          /\ prog' = [prog EXCEPT ![a].at = "done"]
          /\ UNCHANGED <<disk, temps>>
       \/ \E x \in prog[a].listed :
            /\ prog' = [prog EXCEPT ![a].listed = @ \ {x},
                                   ![a].at = IF x \in Names THEN "clean" ELSE "failed"]
            /\ temps' = temps \ {x}
            /\ disk' = IF x[1] = "own" THEN [disk EXCEPT !.own[x[2]] = None] ELSE disk
    /\ UNCHANGED Stand

-----------------------------------------------------------------------------
\* Somebody edits a file (external).
Edit ==
    /\ edits < MaxEdits
    /\ \E f \in Files : ver' = [ver EXCEPT ![f] = @ + 1]
    /\ edits' = edits + 1
    /\ UNCHANGED <<tree, disk, temps, prog, crashes>>

\* A program is killed (external).
Crash(a) ==
    /\ crashes < MaxCrashes
    /\ prog[a].at \notin {"off", "done", "failed", "dead"}
    /\ prog' = [prog EXCEPT ![a].at = "dead"]
    /\ crashes' = crashes + 1
    /\ UNCHANGED <<ver, tree, disk, temps, edits>>

Next ==
    \/ \E a \in Programs :
         \/ Begin(a) \/ Choose(a) \/ Read(a) \/ Validate(a) \/ Delete(a) \/ Source(a)
         \/ Inherit(a) \/ Preload(a) \/ Store(a) \/ Rename(a) \/ Got(a) \/ PassOver(a) \/ Clean(a) \/ Crash(a)
    \/ Edit

Spec == Init /\ [][Next]_vars

-----------------------------------------------------------------------------
\* The tree was edited between a sourcing and the checksums taken after it.
Raced(e) == e.chf # e.src \/ e.ecl # e.from

\* Metadata a program gets, from whichever cache or from its daemon, is never older
\* than the ebuild was when it asked and than the eclasses were when it began, except
\* where somebody edited one of them in the middle of its sourcing.
NoneOlder ==
    \A a \in Programs :
      prog[a].at = "got" /\ ~Raced(prog[a].held) =>
        /\ prog[a].held.src >= prog[a].call[prog[a].pkg]
        /\ DOMAIN prog[a].held.from = Inherits[prog[a].pkg][prog[a].held.src]
        /\ \A e \in DOMAIN prog[a].held.from : prog[a].held.from[e] >= prog[a].start[e]

Began == {a \in Programs : prog[a].at # "off"}
Done == {a \in Began : prog[a].at = "done"}
Cleaned == {a \in Done : prog[a].regen}

\* Nothing that makes the metadata of p was edited since the programs began.
Unedited(p) ==
    \A a \in Began : \A f \in {p} \cup Inherits[p][ver[p]] : prog[a].start[f] = ver[f]

\* When all programs have come to a good end, one of them a regeneration, there is a
\* valid entry for every package nobody edited, none of what is not in the tree or is
\* broken, and no file is left that was never renamed, whatever the programs did to
\* each other's entries; and one that ends well has removed what killed programs
\* had left behind.
QuietMeansComplete ==
    /\ Done = Began /\ Cleaned # {} =>
         /\ \A p \in tree : Unedited(p) /\ ver[p] \in Sound[p] =>
              OwnEntry(p) \in {disk[c][p] : c \in Caches}
         /\ \A p \in Pkgs : Unedited(p) /\ (p \in tree => ver[p] \notin Sound[p]) => disk.own[p] = None
         /\ temps = {}
    /\ \A a \in Cleaned : prog[a].old \cap temps = {}
=============================================================================
