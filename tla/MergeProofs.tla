---------------------------- MODULE MergeProofs ----------------------------
(***************************************************************************)
(* Proofs about Merge, for every set of packages, files and aliases.  What  *)
(* the properties rest on is what each stage of an operation may count on:  *)
(* a content set under merge holds no configuration file but as it is on    *)
(* the disk, or one that is exposed (NothingEndangered), and the entries   *)
(* of the slot that is worked on (SlotBook).                                *)
(***************************************************************************)
EXTENDS Merge, NaturalsInduction, WellFoundedInduction, TLAPS

\* What an operation of each kind works on.
Kinds ==
    /\ op.kind = "none" <=> op = Idle
    /\ Installs => op.new \in Packages
    /\ Removes => op.old \in Packages
    /\ op.stage \in {"merge", "merged", "recorded", "swap"} => Installs
    /\ op.stage \in {"unmerge", "unmerged", "removing"} => Removes
    /\ op.stage = "swap" => op.kind = "replace"
    /\ op.stage = "recorded" => Installs

\* What is known of the content set and of the entry being written.
Contents ==
    /\ Installs /\ op.stage # "merge" => op.install \in Csets
    /\ op.stage = "merge" =>
         /\ op.todo \subseteq DOMAIN op.install
         /\ DOMAIN op.install \cap Updates = DOMAIN op.renames
    /\ Installs /\ op.stage \in {"recorded", "unmerge", "unmerged", "removing", "swap"} =>
         staged[op.new] \in Csets

\* What is still to be merged leaves the configuration files as they are, but for
\* those that are exposed; one that is not is merged under its own name alone.
NothingEndangered ==
    op.stage = "merge" =>
      \A n \in op.todo : At(n) \in Protected =>
        \/ At(n) \in exposed
        \/ n = At(n) /\ disk[n] \in {Absent, op.install[n]}

\* The entries of the slot that is worked on.
SlotBook ==
    /\ op.kind = "install" /\ op.stage # "finalized" =>
         \A p \in Listed : SlotOf[p] # SlotOf[op.new]
    /\ op.kind = "replace" => SlotOf[op.old] = SlotOf[op.new]
    /\ Removes /\ op.stage \notin {"swap", "finalized"} => op.old \in Listed
    /\ op.stage = "swap" => \A p \in Listed : SlotOf[p] # SlotOf[op.new]

IInv ==
    /\ TypeOK
    /\ Kinds
    /\ Contents
    /\ NothingEndangered
    /\ OnePerSlot
    /\ SlotBook
-----------------------------------------------------------------------------
\* What the administrator writes is data, and not the mark of a missing file.
LEMMA MineIsData == Mine \in Data /\ Mine # Absent
<1> DEFINE brought == UNION {Range(Image[p]) : p \in Packages}
<1>1. Data = brought \cup {Mine}
  BY DEF Data
<1> HIDE DEF brought
<1>2. Mine \in Data
  BY <1>1
<1>3. QED BY <1>2, SentinelAssumption

\* A content set goes from names to data.
LEMMA CsetFunction ==
    ASSUME NEW c \in Csets
    PROVE  /\ DOMAIN c \subseteq Files
           /\ c \in [DOMAIN c -> Data]
           /\ c \in Renamed
BY DEF Csets, Renamed, Names

\* ... and so does one in which pending updates have taken the place of files.
LEMMA RenamedFunction ==
    ASSUME NEW c \in Renamed
    PROVE  DOMAIN c \subseteq Names /\ c \in [DOMAIN c -> Data]
BY DEF Renamed

\* Part of a content set is a content set.
LEMMA RestrictCset ==
    ASSUME NEW c \in Csets, NEW S, S \subseteq DOMAIN c
    PROVE  Restrict(c, S) \in Csets
<1>1. Restrict(c, S) \in [S -> Data] /\ S \in SUBSET Files
  BY CsetFunction DEF Restrict
<1>2. QED BY <1>1 DEF Csets

\* The name of a file leads to a place, and the name of a configuration file to
\* itself; that of a pending update leads to no configuration file.
LEMMA Places ==
    ASSUME NEW n \in Names
    PROVE  /\ At(n) \in Names
           /\ n \in Protected => n = At(n)
           /\ At(n) \in Protected => n \in Files /\ At(n) = Place[n]
<1>1. CASE n \in Updates
  <2>1. At(n) = n /\ n \notin Protected
    BY <1>1, PlaceAssumption DEF At
  <2>2. QED BY <1>1, <2>1
<1>2. CASE n \notin Updates
  <2>1. n \in Files /\ At(n) = Place[n] /\ Place[n] \in Files
    BY <1>2, PlaceAssumption DEF At, Names
  <2>2. QED BY <2>1, PlaceAssumption DEF Names
<1>3. QED BY <1>1, <1>2

\* What the disk holds of the names of a package is a content set.
LEMMA OnDiskCset ==
    ASSUME TypeOK, NEW S \in SUBSET Files
    PROVE  /\ OnDisk(S) \in Csets
           /\ DOMAIN OnDisk(S) \subseteq S
           /\ \A f \in S \cap Protected : disk[f] # Absent =>
                f \in DOMAIN OnDisk(S) /\ OnDisk(S)[f] = disk[f]
<1> DEFINE T == {m \in S : disk[At(m)] # Absent}
<1>1. OnDisk(S) = [n \in T |-> disk[At(n)]] /\ T \in SUBSET Files
  BY DEF OnDisk
<1>2. \A n \in T : disk[At(n)] \in Data
  BY Places DEF TypeOK, Names
<1>3. [n \in T |-> disk[At(n)]] \in [T -> Data]
  BY <1>2
<1>4. OnDisk(S) \in Csets
  BY <1>1, <1>3 DEF Csets
<1>5. \A f \in S \cap Protected : At(f) = f
  BY PlaceAssumption DEF At
<1>6. QED BY <1>1, <1>4, <1>5

\* Putting the names back makes the content set one of files again.
LEMMA OriginalCset ==
    ASSUME TypeOK, Contents, op.stage = "merge"
    PROVE  Original(op.install, op.renames) \in Csets
<1> DEFINE c == op.install
           r == op.renames
           S == (DOMAIN c \ DOMAIN r) \cup Range(r)
<1>1. c \in Renamed /\ DOMAIN r \subseteq Updates /\ r \in [DOMAIN r -> Protected]
  BY DEF TypeOK, Ops
<1>2. DOMAIN c \subseteq Names /\ c \in [DOMAIN c -> Data] /\ DOMAIN c \cap Updates = DOMAIN r
  BY <1>1, RenamedFunction DEF Contents
<1>3. S \subseteq Files
  BY <1>1, <1>2, PlaceAssumption DEF Names, Range
<1>4. \A f \in S : (IF f \in DOMAIN c THEN c[f]
                    ELSE c[CHOOSE u \in DOMAIN r : r[u] = f]) \in Data
  <2>1. SUFFICES ASSUME NEW f \in S, f \notin DOMAIN c
                 PROVE  c[CHOOSE u \in DOMAIN r : r[u] = f] \in Data
    BY <1>2
  <2>2. \E u \in DOMAIN r : r[u] = f
    BY <2>1 DEF Range
  <2>3. (CHOOSE u \in DOMAIN r : r[u] = f) \in DOMAIN r
    BY <2>2
  <2>4. QED BY <1>2, <2>3
<1>5. Original(c, r) \in [S -> Data]
  BY <1>4 DEF Original
<1>6. QED BY <1>3, <1>5 DEF Csets
-----------------------------------------------------------------------------
\* A new operation has the package's content set and nothing else under way.
LEMMA BeginOp ==
    ASSUME NEW kind \in {"install", "uninstall", "replace"},
           NEW old \in Packages \cup {None}, NEW new \in Packages \cup {None},
           NEW oldset \in Csets \cup {Absent}, Begin(kind, old, new, oldset),
           kind # "uninstall" => new \in Packages
    PROVE  /\ op' \in Ops
           /\ op'.kind = kind /\ op'.old = old /\ op'.new = new /\ op'.stage = "started"
           /\ kind # "uninstall" => op'.install \in Csets
<1> DEFINE install == IF new = None THEN <<>> ELSE Image[new]
           empty == [x \in {} |-> x]
<1>1. <<>> = empty
  OBVIOUS
<1>2. install \in Renamed /\ (kind # "uninstall" => install \in Csets)
  <2>1. CASE new = None
    <3>1. empty \in [{} -> Data] /\ {} \in SUBSET Names
      OBVIOUS
    <3>2. QED BY <1>1, <2>1, <3>1, SentinelAssumption DEF Renamed
  <2>2. CASE new # None
    <3>1. Image[new] \in Csets
      BY <2>2, ImageAssumption
    <3>2. QED BY <2>2, <3>1, CsetFunction
  <2>3. QED BY <2>1, <2>2
<1>3. empty \in UNION {[S -> Protected] : S \in SUBSET Updates}
  <2>1. empty \in [{} -> Protected] /\ {} \in SUBSET Updates
    OBVIOUS
  <2>2. QED BY <2>1
<1>4. op' = [kind |-> kind, old |-> old, new |-> new, stage |-> "started",
             install |-> install, renames |-> <<>>, oldset |-> oldset, todo |-> {}]
  BY DEF Begin, Idle
<1>5. QED BY <1>1, <1>2, <1>3, <1>4 DEF Ops, Stages

\* No operation is one of the records an operation may be.
LEMMA IdleOp == Idle \in Ops /\ Idle.kind = "none" /\ Idle.stage = "idle"
<1> DEFINE empty == [x \in {} |-> x]
<1>1. <<>> = empty
  OBVIOUS
<1>2. empty \in [{} -> Data] /\ empty \in [{} -> Protected]
  OBVIOUS
<1>3. empty \in Renamed /\ empty \in UNION {[S -> Protected] : S \in SUBSET Updates}
  BY <1>2 DEF Renamed
<1>4. QED BY <1>1, <1>3 DEF Idle, Ops, Stages

\* The three ways an operation starts, or does not.
LEMMA StartOp ==
    ASSUME IInv, Start
    PROVE  \/ op' = op
           \/ /\ op' \in Ops /\ op'.stage = "started"
              /\ \/ /\ op'.kind = "install" /\ op'.new \in Packages
                    /\ op'.install \in Csets
                    /\ \A p \in Listed : SlotOf[p] # SlotOf[op'.new]
                 \/ /\ op'.kind = "replace" /\ op'.new \in Packages /\ op'.old \in Listed
                    /\ op'.install \in Csets
                    /\ SlotOf[op'.old] = SlotOf[op'.new]
                 \/ op'.kind = "uninstall" /\ op'.old \in Listed
<1>1. Listed \subseteq Packages
  BY DEF Listed
<1>2. CASE \E new \in Packages :
             /\ ~ \E p \in Listed : SlotOf[p] = SlotOf[new]
             /\ Begin("install", None, new, Absent)
  BY <1>2, BeginOp
<1>3. CASE \E new \in Packages, old \in Listed :
             /\ SlotOf[old] = SlotOf[new]
             /\ Begin("replace", old, new, Absent)
  BY <1>1, <1>3, BeginOp
<1>4. CASE \E new \in Packages, old \in Listed :
             /\ SlotOf[old] = SlotOf[new]
             /\ vdb[old] # Torn
             /\ Begin("replace", old, new, OnDisk(DOMAIN vdb[old]))
  <2>1. PICK new \in Packages, old \in Listed :
               /\ SlotOf[old] = SlotOf[new]
               /\ vdb[old] # Torn
               /\ Begin("replace", old, new, OnDisk(DOMAIN vdb[old]))
    BY <1>4
  <2>2. vdb[old] \in Csets
    BY <1>1, <2>1 DEF IInv, TypeOK, Listed
  <2>3. OnDisk(DOMAIN vdb[old]) \in Csets
    BY <2>2, CsetFunction, OnDiskCset DEF IInv
  <2>4. QED BY <1>1, <2>1, <2>3, BeginOp
<1>5. CASE \E old \in Listed : Begin("uninstall", old, None, Absent)
  BY <1>1, <1>5, BeginOp
<1>6. QED BY <1>2, <1>3, <1>4, <1>5 DEF Start
-----------------------------------------------------------------------------
\* Renaming what is endangered gives a content set whose names of pending updates
\* are those renamed.
LEMMA PreMergeOp ==
    ASSUME IInv, PreMerge
    PROVE  /\ op' \in Ops /\ op'.stage = "merge" /\ op'.kind = op.kind
           /\ op'.old = op.old /\ op'.new = op.new
           /\ op'.todo = DOMAIN op'.install
           /\ DOMAIN op'.install \cap Updates = DOMAIN op'.renames
           /\ exposed' \subseteq Protected
           /\ NothingEndangered'
<1> DEFINE c == op.install
<1>1. /\ c \in Csets /\ op \in Ops /\ Installs /\ op.stage = "started"
      /\ DOMAIN c \subseteq Files /\ c \in [DOMAIN c -> Data]
  BY CsetFunction DEF IInv, Contents, TypeOK, PreMerge
<1>2. PICK changed \in SUBSET Endangered(c) :
         LET moved == {<<f, NextUpdate(f)>> : f \in changed}
             names == (DOMAIN c \ changed) \cup moved
         IN  /\ moved \subseteq Updates
             /\ op' = [op EXCEPT
                  !.stage = "merge",
                  !.install = [n \in names |-> IF n \in moved THEN c[n[1]] ELSE c[n]],
                  !.renames = [u \in moved |-> u[1]],
                  !.todo = names]
             /\ exposed' = (Endangered(c) \ changed) \cup Unmatched(c)
  BY DEF PreMerge
<1> DEFINE moved == {<<f, NextUpdate(f)>> : f \in changed}
           names == (DOMAIN c \ changed) \cup moved
           new == [n \in names |-> IF n \in moved THEN c[n[1]] ELSE c[n]]
           renames == [u \in moved |-> u[1]]
<1>3. /\ moved \subseteq Updates
      /\ op' = [op EXCEPT !.stage = "merge", !.install = new, !.renames = renames,
                          !.todo = names]
      /\ exposed' = (Endangered(c) \ changed) \cup Unmatched(c) /\ disk' = disk
  BY <1>2 DEF PreMerge
<1>4. changed \subseteq DOMAIN c \cap Protected
  BY DEF Endangered, Differ
<1>5. names \subseteq Names /\ names \cap Updates = moved
  BY <1>1, <1>3, PlaceAssumption DEF Names
<1>6. \A u \in moved : u[1] \in changed
  OBVIOUS
<1>7. new \in [names -> Data] /\ renames \in [moved -> Protected]
  BY <1>1, <1>4, <1>6
<1>8. new \in Renamed /\ renames \in UNION {[S -> Protected] : S \in SUBSET Updates}
  BY <1>3, <1>5, <1>7 DEF Renamed
<1>9. /\ op' \in Ops /\ op'.stage = "merge" /\ op'.kind = op.kind
      /\ op'.old = op.old /\ op'.new = op.new
      /\ op'.todo = names /\ op'.install = new /\ op'.renames = renames
  BY <1>1, <1>3, <1>5, <1>8 DEF Ops, Stages
<1>10. ASSUME NEW n \in names, At(n) \in Protected, At(n) \notin exposed'
       PROVE  n = At(n) /\ disk[n] \in {Absent, new[n]}
  <2>1. n \in Files /\ At(n) = Place[n] /\ n \notin Updates
    BY <1>5, <1>10, Places, PlaceAssumption
  <2>2. n \in DOMAIN c \ changed /\ new[n] = c[n]
    BY <1>3, <1>10, <2>1
  <2>3. n \in Protected
    BY <1>3, <1>10, <2>1, <2>2 DEF Unmatched
  <2>4. n = At(n) /\ n \notin Endangered(c)
    BY <1>3, <1>5, <1>10, <2>2, <2>3, Places
  <2>5. CASE disk[n] # Absent
    <3>1. TypeOK /\ DOMAIN c \in SUBSET Files /\ n \in DOMAIN c \cap Protected
      BY <1>1, <2>2, <2>3 DEF IInv
    <3>2. n \in DOMAIN OnDisk(DOMAIN c) /\ OnDisk(DOMAIN c)[n] = disk[n]
      BY <2>5, <3>1, OnDiskCset
    <3>3. n \notin Differ(c, OnDisk(DOMAIN c))
      BY <2>3, <2>4 DEF Endangered
    <3>4. QED BY <2>2, <2>4, <3>2, <3>3 DEF Differ
  <2>6. QED BY <2>4, <2>5
<1>11. NothingEndangered'
  <2>1. SUFFICES ASSUME NEW n \in names, At(n) \in Protected, At(n) \notin exposed'
                 PROVE  n = At(n) /\ disk[n] \in {Absent, new[n]}
    BY <1>3, <1>9 DEF NothingEndangered, At
  <2>2. QED BY <1>10, <2>1
<1>12. exposed' \subseteq Protected
  BY <1>3 DEF Endangered, Unmatched
<1>13. QED BY <1>3, <1>5, <1>9, <1>11, <1>12

\* What is left of the old package to remove.
LEMMA PreUnmergeOp ==
    ASSUME IInv, PreUnmerge
    PROVE  /\ op' \in Ops /\ op'.stage = "unmerge" /\ op'.kind = op.kind
           /\ op'.old = op.old /\ op'.new = op.new /\ op'.install = op.install
<1>1. /\ op \in Ops /\ Removes /\ vdb[op.old] # Torn /\ vdb[op.old] # Absent
      /\ op.old \in Packages
      /\ op.stage \in {"recorded", "started"}
  BY DEF IInv, TypeOK, PreUnmerge, Kinds, SlotBook, Listed
<1>2. vdb[op.old] \in Csets
  BY <1>1 DEF IInv, TypeOK
<1> DEFINE oldset == IF op.oldset = Absent THEN OnDisk(DOMAIN vdb[op.old]) ELSE op.oldset
           uninstall == Uninstall(op.install, oldset)
           kept == IF op.kind = "uninstall" THEN Kept(uninstall, uninstall) ELSE {}
<1>3. op' = [op EXCEPT !.stage = "unmerge",
                       !.oldset = Restrict(oldset, DOMAIN oldset \ kept),
                       !.todo = DOMAIN uninstall \ kept]
  BY DEF PreUnmerge
<1>4. oldset \in Csets
  BY <1>1, <1>2, CsetFunction, OnDiskCset DEF IInv, Ops
<1>5. Restrict(oldset, DOMAIN oldset \ kept) \in Csets
  BY <1>4, RestrictCset
<1>6. DOMAIN uninstall \subseteq Names
  <2>1. DOMAIN oldset \subseteq Names
    BY <1>4, CsetFunction DEF Names
  <2>2. QED BY <2>1 DEF Uninstall, Restrict
<1>7. QED BY <1>1, <1>3, <1>5, <1>6 DEF Ops, Stages
-----------------------------------------------------------------------------
\* The variables stay of their types, whatever the step.
LEMMA TypeStep == IInv /\ [Next]_vars => TypeOK'
<1> SUFFICES ASSUME IInv, [Next]_vars PROVE TypeOK'
  OBVIOUS
<1> USE DEF TypeOK
<1>0. /\ TypeOK /\ op \in Ops /\ op.old \in Packages \cup {None} /\ op.new \in Packages \cup {None}
      /\ Data \subseteq Data \cup {Absent}
  BY DEF IInv, Ops
<1>1. CASE Start
  <2>1. op' \in Ops
    BY <1>0, <1>1, StartOp
  <2>2. started' \in 0 .. MaxOps
    BY <1>0, <1>1, BoundAssumption DEF Start
  <2>3. QED BY <1>0, <1>1, <2>1, <2>2 DEF Start
<1>2. CASE PreMerge
  BY <1>0, <1>2, PreMergeOp DEF PreMerge
<1>3. CASE MergeFile
  <2>1. PICK n \in op.todo : /\ disk' = [disk EXCEPT ![At(n)] = op.install[n]]
                            /\ op' = [op EXCEPT !.todo = @ \ {n}]
    BY <1>3 DEF MergeFile
  <2>2. op.install[n] \in Data
    BY <1>0, <1>3, <2>1, RenamedFunction DEF IInv, Contents, Ops, MergeFile
  <2>3. op' \in Ops
    BY <1>0, <2>1 DEF Ops
  <2>4. QED BY <1>0, <1>3, <2>1, <2>2, <2>3 DEF MergeFile
<1>4. CASE PostMerge
  <2>1. Original(op.install, op.renames) \in Renamed
    BY <1>4, OriginalCset, CsetFunction DEF PostMerge, IInv
  <2>2. <<>> = [x \in {} |-> x] /\ [x \in {} |-> x] \in [{} -> Protected]
    OBVIOUS
  <2>3. <<>> \in UNION {[S -> Protected] : S \in SUBSET Updates}
    BY <2>2
  <2>4. op' \in Ops
    BY <1>0, <1>4, <2>1, <2>3 DEF PostMerge, Ops, Stages
  <2>5. QED BY <1>0, <1>4, <2>4 DEF PostMerge
<1>5. CASE AddData
  <2>1. op.install \in Csets /\ op' \in Ops
    BY <1>0, <1>5 DEF AddData, IInv, Kinds, Contents, Ops, Stages
  <2>2. QED BY <1>0, <1>5, <2>1 DEF AddData
<1>6. CASE PreUnmerge
  BY <1>0, <1>6, PreUnmergeOp DEF PreUnmerge
<1>7. CASE UnmergeFile
  <2>1. PICK n \in op.todo : /\ disk' = [disk EXCEPT ![At(n)] = Absent]
                            /\ op' = [op EXCEPT !.todo = @ \ {n}]
    BY <1>7 DEF UnmergeFile
  <2>2. op' \in Ops
    BY <1>0, <2>1 DEF Ops
  <2>3. QED BY <1>0, <1>7, <2>1, <2>2 DEF UnmergeFile
<1>8. CASE PostUnmerge
  BY <1>0, <1>8 DEF PostUnmerge, Ops, Stages
<1>9. CASE TearEntry
  BY <1>0, <1>9 DEF TearEntry, Ops, Stages
<1>10. CASE RemoveEntry
  BY <1>0, <1>10 DEF RemoveEntry, Ops, Stages
<1>11. CASE RenameEntry
  <2>1. staged[op.new] \in Csets
    BY <1>11 DEF RenameEntry, IInv, Contents, Kinds
  <2>2. op' \in Ops
    BY <1>0, <1>11 DEF RenameEntry, Ops, Stages
  <2>3. QED BY <1>0, <1>11, <2>1, <2>2 DEF RenameEntry
<1>12. CASE Finish
  BY <1>0, <1>12, IdleOp DEF Finish
<1>13. CASE Interrupt
  BY <1>0, <1>13, IdleOp DEF Interrupt
<1>14. CASE Administrator
  <2>1. CASE \E f \in Protected : Edit(f)
    BY <1>0, <2>1, MineIsData DEF Edit, Touched
  <2>2. CASE \E u \in Updates : Settle(u)
    <3>1. PICK u \in Updates : Settle(u)
      BY <2>2
    <3>2. disk[u] \in Data /\ exposed' \subseteq Protected
      BY <1>0, <3>1 DEF Settle, Touched, Names, Updates
    <3>3. disk' \in [Names -> Data \cup {Absent}]
      BY <1>0, <3>1, <3>2 DEF Settle
    <3>4. QED BY <1>0, <3>1, <3>2, <3>3 DEF Settle
  <2>3. QED BY <1>14, <2>1, <2>2 DEF Administrator
<1>15. CASE UNCHANGED vars
  BY <1>0, <1>15 DEF vars
<1>16. QED BY <1>1, <1>2, <1>3, <1>4, <1>5, <1>6, <1>7, <1>8, <1>9, <1>10, <1>11,
              <1>12, <1>13, <1>14, <1>15 DEF Next
-----------------------------------------------------------------------------
\* Each stage leaves to the next what that one counts on.
LEMMA StageStep == IInv /\ [Next]_vars => Kinds' /\ Contents'
<1> SUFFICES ASSUME IInv, [Next]_vars PROVE Kinds' /\ Contents'
  OBVIOUS
<1> USE DEF Kinds, Contents, Installs, Removes
<1>0. op \in Ops /\ Kinds /\ Contents /\ TypeOK
  BY DEF IInv, TypeOK
<1>1. CASE Start
  <2>1. CASE op' = op
    BY <1>0, <1>1, <2>1 DEF Start
  <2>2. CASE op' # op
    <3>1. Listed \subseteq Packages
      BY DEF Listed
    <3>2. QED BY <1>1, <2>2, <3>1, StartOp, IdleOp
  <2>3. QED BY <2>1, <2>2
<1>2. CASE PreMerge
  BY <1>0, <1>2, PreMergeOp, IdleOp DEF PreMerge
<1>3. CASE MergeFile
  BY <1>0, <1>3, IdleOp DEF MergeFile, Ops
<1>4. CASE PostMerge
  <2>1. Original(op.install, op.renames) \in Csets
    BY <1>0, <1>4, OriginalCset DEF PostMerge
  <2>2. QED BY <1>0, <1>4, <2>1, IdleOp DEF PostMerge, Ops
<1>5. CASE AddData
  <2>1. op.install \in Csets /\ op.new \in Packages
    BY <1>0, <1>5 DEF AddData
  <2>2. staged'[op.new] = op.install
    BY <1>0, <1>5, <2>1 DEF AddData, TypeOK
  <2>3. QED BY <1>0, <1>5, <2>1, <2>2, IdleOp DEF AddData, Ops
<1>6. CASE PreUnmerge
  <2>1. op.stage \in {"recorded", "started"} /\ (Installs => op.stage = "recorded")
    BY <1>0, <1>6 DEF PreUnmerge
  <2>2. QED BY <1>0, <1>6, <2>1, PreUnmergeOp, IdleOp DEF PreUnmerge
<1>7. CASE UnmergeFile
  BY <1>0, <1>7, IdleOp DEF UnmergeFile, Ops
<1>8. CASE PostUnmerge
  BY <1>0, <1>8, IdleOp DEF PostUnmerge, Ops
<1>9. CASE TearEntry
  BY <1>0, <1>9, IdleOp DEF TearEntry, Ops
<1>10. CASE RemoveEntry
  BY <1>0, <1>10, IdleOp DEF RemoveEntry, Ops
<1>11. CASE RenameEntry
  BY <1>0, <1>11, IdleOp DEF RenameEntry, Ops
<1>12. CASE Finish
  BY <1>12, IdleOp DEF Finish
<1>13. CASE Interrupt
  BY <1>13, IdleOp DEF Interrupt
<1>14. CASE Administrator
  BY <1>0, <1>14 DEF Administrator, Edit, Settle
<1>15. CASE UNCHANGED vars
  BY <1>0, <1>15 DEF vars
<1>16. QED BY <1>1, <1>2, <1>3, <1>4, <1>5, <1>6, <1>7, <1>8, <1>9, <1>10, <1>11,
              <1>12, <1>13, <1>14, <1>15 DEF Next

\* What is still to be merged endangers nothing but what is exposed.
LEMMA EditsStep == IInv /\ [Next]_vars => NothingEndangered'
<1> SUFFICES ASSUME IInv, [Next]_vars PROVE NothingEndangered'
  OBVIOUS
<1> USE DEF NothingEndangered
<1>0. /\ op \in Ops /\ TypeOK /\ NothingEndangered
      /\ Protected \subseteq Names /\ Protected \cap Updates = {}
      /\ \A n : At(n)' = At(n)
  BY PlaceAssumption DEF IInv, TypeOK, Names, At
<1>1. CASE Start
  <2>1. op' = op \/ op'.stage = "started"
    BY <1>1, StartOp
  <2>2. QED BY <1>0, <1>1, <2>1 DEF Start
<1>2. CASE PreMerge
  BY <1>2, PreMergeOp
<1>3. CASE MergeFile
  <2>1. PICK m \in op.todo : /\ disk' = [disk EXCEPT ![At(m)] = op.install[m]]
                            /\ op' = [op EXCEPT !.todo = @ \ {m}]
    BY <1>3 DEF MergeFile
  <2>2. op'.stage = op.stage /\ op'.install = op.install /\ op'.todo = op.todo \ {m}
        /\ exposed' = exposed /\ op.stage = "merge"
    BY <1>0, <1>3, <2>1 DEF MergeFile, Ops
  <2>3. SUFFICES ASSUME NEW n \in op.todo \ {m}, At(n) \in Protected, At(n) \notin exposed
                 PROVE  n = At(n) /\ disk'[n] \in {Absent, op.install[n]}
    BY <1>0, <2>2
  <2>4. n = At(n) /\ disk[n] \in {Absent, op.install[n]}
    BY <1>0, <2>2, <2>3
  <2>5. At(m) # n
    BY <1>0, <2>1, <2>2, <2>3, <2>4
  <2>6. QED BY <1>0, <2>1, <2>4, <2>5 DEF TypeOK
<1>4. CASE PostMerge
  BY <1>0, <1>4 DEF PostMerge, Ops
<1>5. CASE AddData
  BY <1>0, <1>5 DEF AddData, Ops
<1>6. CASE PreUnmerge
  BY <1>0, <1>6, PreUnmergeOp DEF PreUnmerge
<1>7. CASE UnmergeFile
  BY <1>0, <1>7 DEF UnmergeFile, Ops
<1>8. CASE PostUnmerge
  BY <1>0, <1>8 DEF PostUnmerge, Ops
<1>9. CASE TearEntry
  BY <1>0, <1>9 DEF TearEntry, Ops
<1>10. CASE RemoveEntry
  BY <1>0, <1>10 DEF RemoveEntry, Ops
<1>11. CASE RenameEntry
  BY <1>0, <1>11 DEF RenameEntry, Ops
<1>12. CASE Finish
  BY <1>0, <1>12, IdleOp DEF Finish
<1>13. CASE Interrupt
  BY <1>0, <1>13, IdleOp DEF Interrupt
<1>14. CASE Administrator
  <2>1. CASE \E f \in Protected : Edit(f)
    BY <1>0, <2>1 DEF Edit, Touched, TypeOK
  <2>2. CASE \E u \in Updates : Settle(u)
    <3>1. PICK u \in Updates : Settle(u)
      BY <2>2
    <3>2. u[1] \in Protected
      BY DEF Updates
    <3>3. op' = op /\ exposed \subseteq exposed'
          /\ (op.stage = "merge" /\ u[1] \in op.todo => u[1] \in exposed' \/ disk'[u[1]] = disk[u[1]])
          /\ \A f \in Protected : f # u[1] => disk'[f] = disk[f]
      BY <1>0, <3>1, <3>2 DEF Settle, Touched, TypeOK
    <3>4. QED BY <1>0, <3>3
  <2>3. QED BY <1>14, <2>1, <2>2 DEF Administrator
<1>15. CASE UNCHANGED vars
  BY <1>0, <1>15 DEF vars
<1>16. QED BY <1>1, <1>2, <1>3, <1>4, <1>5, <1>6, <1>7, <1>8, <1>9, <1>10, <1>11,
              <1>12, <1>13, <1>14, <1>15 DEF Next
-----------------------------------------------------------------------------
\* A package enters the database when its slot has been cleared.
LEMMA SlotStep == IInv /\ [Next]_vars => OnePerSlot' /\ SlotBook'
<1> SUFFICES ASSUME IInv, [Next]_vars PROVE OnePerSlot' /\ SlotBook'
  OBVIOUS
<1> USE DEF OnePerSlot, SlotBook, Listed, Installs, Removes
<1>0. /\ op \in Ops /\ TypeOK /\ Kinds /\ Contents /\ OnePerSlot /\ SlotBook
      /\ \A c \in Csets : c # Absent /\ c # Torn
      /\ Absent # Torn
  BY SentinelAssumption DEF IInv, TypeOK
<1>1. CASE Start
  <2>1. CASE op' = op
    BY <1>0, <1>1, <2>1 DEF Start
  <2>2. CASE op' # op
    BY <1>0, <1>1, <2>2, StartOp DEF Start
  <2>3. QED BY <2>1, <2>2
<1>2. CASE PreMerge
  BY <1>0, <1>2, PreMergeOp DEF PreMerge
<1>3. CASE MergeFile
  BY <1>0, <1>3 DEF MergeFile, Ops
<1>4. CASE PostMerge
  BY <1>0, <1>4 DEF PostMerge, Ops
<1>5. CASE AddData
  BY <1>0, <1>5 DEF AddData, Ops
<1>6. CASE PreUnmerge
  BY <1>0, <1>6, PreUnmergeOp DEF PreUnmerge
<1>7. CASE UnmergeFile
  BY <1>0, <1>7 DEF UnmergeFile, Ops
<1>8. CASE PostUnmerge
  BY <1>0, <1>8 DEF PostUnmerge, Ops
<1>9. CASE TearEntry
  <2>1. /\ op.old \in {p \in Packages : vdb[p] # Absent}
        /\ op'.kind = op.kind /\ op'.old = op.old /\ op'.new = op.new
        /\ op'.stage = "removing" /\ op.kind # "install"
    BY <1>0, <1>9 DEF TearEntry, Kinds, Ops
  <2>2. \A p \in Packages : vdb'[p] # Absent <=> vdb[p] # Absent
    BY <1>0, <1>9, <2>1 DEF TearEntry, TypeOK
  <2>3. QED BY <1>0, <2>1, <2>2
<1>10. CASE RemoveEntry
  <2>1. /\ op.old \in {p \in Packages : vdb[p] # Absent}
        /\ op'.kind = op.kind /\ op'.old = op.old /\ op'.new = op.new
        /\ op'.stage = IF op.kind = "replace" THEN "swap" ELSE "finalized"
        /\ op.kind \in {"replace", "uninstall"}
    BY <1>0, <1>10 DEF RemoveEntry, Kinds, Ops
  <2>2. \A p \in Packages : vdb'[p] # Absent <=> p # op.old /\ vdb[p] # Absent
    BY <1>0, <1>10, <2>1 DEF RemoveEntry, TypeOK
  <2>3. QED BY <1>0, <2>1, <2>2
<1>11. CASE RenameEntry
  <2>1. /\ op.new \in Packages
        /\ op'.kind = op.kind /\ op'.old = op.old /\ op'.new = op.new
        /\ op'.stage = "finalized"
        /\ \A p \in Packages : vdb[p] # Absent => SlotOf[p] # SlotOf[op.new]
    BY <1>0, <1>11 DEF RenameEntry, Kinds, Ops
  <2>2. \A p \in Packages : vdb'[p] # Absent => p = op.new \/ vdb[p] # Absent
    BY <1>0, <1>11, <2>1 DEF RenameEntry, TypeOK
  <2>3. QED BY <1>0, <2>1, <2>2
<1>12. CASE Finish
  BY <1>0, <1>12, IdleOp DEF Finish
<1>13. CASE Interrupt
  BY <1>0, <1>13, IdleOp DEF Interrupt
<1>14. CASE Administrator
  BY <1>0, <1>14 DEF Administrator, Edit, Settle
<1>15. CASE UNCHANGED vars
  BY <1>0, <1>15 DEF vars
<1>16. QED BY <1>1, <1>2, <1>3, <1>4, <1>5, <1>6, <1>7, <1>8, <1>9, <1>10, <1>11,
              <1>12, <1>13, <1>14, <1>15 DEF Next

-----------------------------------------------------------------------------
\* At the start nothing is on the disk and no operation is under way.
LEMMA IInvInit == Init => IInv
<1> SUFFICES ASSUME Init PROVE IInv
  OBVIOUS
<1>1. TypeOK
  <2>1. disk \in [Names -> Data \cup {Absent}]
    BY DEF Init
  <2>2. vdb \in [Packages -> Csets \cup {Absent, Torn}]
    BY DEF Init
  <2>3. staged \in [Packages -> Csets \cup {Absent}]
    BY DEF Init
  <2>4. op \in Ops
    BY IdleOp DEF Init
  <2>5. started \in 0 .. MaxOps
    BY BoundAssumption DEF Init
  <2>6. rule \in Rules /\ exposed \subseteq Protected /\ interrupted \in BOOLEAN
    BY DEF Init
  <2>7. QED BY <2>1, <2>2, <2>3, <2>4, <2>5, <2>6 DEF TypeOK
<1>2. op.kind = "none" /\ op.stage = "idle" /\ op = Idle /\ exposed = {}
      /\ \A p \in Packages : vdb[p] = Absent
  BY IdleOp DEF Init
<1>3. QED BY <1>1, <1>2 DEF IInv, Kinds, Contents, NothingEndangered,
                            OnePerSlot, SlotBook, Listed, Installs, Removes

\* The invariant the theorems rest on: what each stage may count on.
THEOREM Inductive == Spec => []IInv
<1>1. IInv /\ [Next]_vars => IInv'
  BY TypeStep, StageStep, EditsStep, SlotStep DEF IInv
<1>2. QED BY IInvInit, <1>1, PTL DEF Spec

\* TypeOK: the stages of every operation put into the variables what belongs there;
\* the entries of the vdb hold names of the packages' files only.
THEOREM TypeCorrect == Spec => []TypeOK
<1>1. IInv => TypeOK
  BY DEF IInv
<1>2. QED BY Inductive, <1>1, PTL

\* EditsSurvive: whatever aliases lead to it, and wherever the merge is cut short or
\* retried, a configuration file that is there is written over by no merge, but in
\* the cases the property names (exposed).
THEOREM EditsAreKept == Spec => EditsSurvive
<1> DEFINE Kept1 == \A f \in Protected : disk[f] # Absent /\ disk'[f] # disk[f] =>
                      op' = op \/ op.stage = "unmerge" \/ f \in exposed
<1>1. ASSUME IInv, [Next]_vars PROVE [Kept1]_vars
  <2>1. SUFFICES ASSUME NEW f \in Protected, disk[f] # Absent, disk'[f] # disk[f]
                 PROVE  op' = op \/ op.stage = "unmerge" \/ f \in exposed
    OBVIOUS
  <2>2. CASE MergeFile
    <3>1. PICK n \in op.todo : disk' = [disk EXCEPT ![At(n)] = op.install[n]]
      BY <2>2 DEF MergeFile
    <3>2. At(n) = f /\ op.install[n] # disk[f] /\ op.stage = "merge"
      BY <1>1, <2>1, <2>2, <3>1, PlaceAssumption DEF IInv, TypeOK, MergeFile, Names
    <3>3. QED BY <1>1, <2>1, <3>2 DEF IInv, NothingEndangered
  <2>3. CASE UnmergeFile
    BY <2>3 DEF UnmergeFile
  <2>4. CASE Administrator
    BY <2>4 DEF Administrator, Edit, Settle
  <2>5. CASE ~(MergeFile \/ UnmergeFile \/ Administrator)
    <3>1. disk' = disk
      BY <1>1, <2>5 DEF Next, vars, Start, PreMerge, PostMerge, AddData, PreUnmerge, PostUnmerge,
                        TearEntry, RemoveEntry, RenameEntry, Finish, Interrupt
    <3>2. QED BY <2>1, <3>1
  <2>6. QED BY <2>2, <2>3, <2>4, <2>5
<1>2. QED BY Inductive, <1>1, PTL DEF Spec, EditsSurvive

\* OnePerSlot: the vdb never lists two packages of one slot, whatever was cut short.
THEOREM SlotsAreKept == Spec => []OnePerSlot
<1>1. IInv => OnePerSlot
  BY DEF IInv
<1>2. QED BY Inductive, <1>1, PTL

-----------------------------------------------------------------------------
(***************************************************************************)
(* The files on the disk and the entries.  An operation holds on to what   *)
(* the new package brings (Brought) and to what the old one has left       *)
(* (OldBook); by these every file on the disk has an owner, recorded or    *)
(* about to be (OldFiles, Covered), what is to be merged is on its way or  *)
(* there (Written), and no other package claims it (NoClash).              *)
(***************************************************************************)
Merging == op.stage = "merge"
Unmerging == op.stage \in {"unmerge", "unmerged"}
Past == op.stage \in {"removing", "swap", "finalized"}   \* the old entry is no longer whole

\* The content set is the package's, but for the configuration files that were
\* renamed while it is merged, and it is what gets recorded.
Brought ==
    /\ Installs /\ ~Merging => op.install = Image[op.new]
    /\ Merging =>
         /\ \A u \in DOMAIN op.renames :
              /\ op.renames[u] = u[1] /\ u[1] \in DOMAIN Image[op.new]
              /\ op.install[u] = Image[op.new][u[1]]
              /\ disk[u[1]] # Absent
         /\ \A f \in Files :
              f \in DOMAIN op.install <=>
                f \in DOMAIN Image[op.new] /\ ~ \E u \in DOMAIN op.renames : u[1] = f
         /\ \A f \in Files \cap DOMAIN op.install : op.install[f] = Image[op.new][f]
    /\ Installs /\ (op.stage = "recorded" \/ Unmerging \/ op.stage \in {"removing", "swap"}) =>
         staged[op.new] = Image[op.new]
    /\ Installs /\ op.stage = "finalized" => vdb[op.new] = Image[op.new]

\* What was read of the old package is part of what it recorded, and what is
\* removed is part of that.
OldBook ==
    /\ op.oldset # Absent /\ ~Past =>
         Removes /\ vdb[op.old] \in Csets /\ DOMAIN op.oldset \subseteq DOMAIN vdb[op.old]
    /\ Unmerging =>
         /\ op.oldset # Absent
         /\ op.todo \subseteq DOMAIN op.oldset
         /\ Installs => op.todo \cap DOMAIN Image[op.new] = {}
    /\ op.stage = "unmerged" => op.todo = {}
    /\ Removes /\ Past => op.oldset # Absent
    /\ op.stage = "removing" => vdb[op.old] = Torn
    /\ op.kind = "install" => op.old = None
    /\ op.kind \in {"uninstall", "replace"} /\ op.stage = "finalized" =>
         vdb[op.old] = Absent \/ (op.kind = "replace" /\ op.old = op.new)

\* The new package brings the file, by this name or another.
CoveredNew(f) == Installs /\ \E n \in DOMAIN Image[op.new] : Place[n] = f

\* Names that lead to no configuration file.
Off(S) == {f \in S : Place[f] \notin Protected}

\* No file of the old package is forgotten.
OldFiles ==
    op.oldset # Absent /\ ~Past =>
      \A g \in Off(DOMAIN vdb[op.old]) :
        \/ disk[Place[g]] = Absent
        \/ CoveredNew(Place[g])
        \/ Unmerging /\ g \in op.todo
        \/ ~Unmerging /\ g \in DOMAIN op.oldset

Owned(f) == \E p \in Recorded : \E g \in DOMAIN vdb[p] : Place[g] = f

\* Every file on the disk belongs to a package, or to the one being merged.
Covered ==
    ~interrupted =>
      \A f \in Files \ Protected : disk[f] # Absent => CoveredNew(f) \/ Owned(f)

Present(f) ==
    disk[Place[f]] = Image[op.new][f] \/ (Place[f] \in Protected /\ disk[Place[f]] # Absent)

\* Two names of one file, both the new package's or one of them the old one's.
TwoNames(f) ==
    \/ \E g \in DOMAIN Image[op.new] \ {f} : Place[g] = Place[f]
    \/ /\ op.kind = "replace" /\ (Unmerging \/ Past)
       /\ \E g \in DOMAIN op.oldset \ {f} : Place[g] = Place[f]

\* What the new package brings is still to be merged, or there.
Written ==
    Installs /\ op.stage # "started" =>
      \A f \in DOMAIN Image[op.new] :
        (Merging /\ f \in op.todo) \/ Present(f) \/ TwoNames(f)

\* No other package has recorded what is being merged.
NoClash ==
    Intact /\ Installs /\ op.stage # "finalized" =>
      \A p \in Recorded \ {op.old} : \A f \in DOMAIN vdb[p] \cap DOMAIN Image[op.new] :
        f \in Protected \/ Aliased(f)

\* Where a pending update is to be written there is none.
Room == Merging => \A u \in op.todo \cap Updates : disk[u] = Absent

FInv ==
    /\ Brought
    /\ OldBook
    /\ OldFiles
    /\ Covered
    /\ Written
    /\ NoClash
    /\ InstalledFilesPresent
    /\ OneOwner
    /\ Room
-----------------------------------------------------------------------------
\* A file's name leads to its place, and one that leads to no configuration file is
\* not protected.
LEMMA PlaceOff ==
    ASSUME NEW f \in Files
    PROVE  /\ At(f) = Place[f] /\ f \in Names /\ Place[f] \in Files
           /\ Place[f] \notin Protected => f \notin Protected
BY PlaceAssumption DEF At, Names

\* ... and only such names lead to it.
LEMMA AtOff ==
    ASSUME NEW n \in Names, At(n) \in Files \ Protected
    PROVE  n \in Files \ Protected /\ Place[n] = At(n)
BY PlaceAssumption DEF At, Names

\* A name without an alias is its own place, and leads where no other name does.
LEMMA SoleName ==
    ASSUME NEW f \in Files, NEW n \in Files, ~Aliased(f), Place[n] = Place[f] \/ Place[n] = f
    PROVE  n = f /\ Place[f] = f
BY PlaceAssumption DEF Aliased

\* What a package brings is a content set.
LEMMA ImageCset ==
    ASSUME NEW p \in Packages
    PROVE  /\ Image[p] \in Csets /\ DOMAIN Image[p] \subseteq Files
           /\ Image[p] \in [DOMAIN Image[p] -> Data]
           /\ Image[p] # Absent /\ Image[p] # Torn
BY ImageAssumption, CsetFunction, SentinelAssumption

\* The administrator touches nothing but configuration files and their updates.
LEMMA AdministratorDoes ==
    ASSUME TypeOK, Administrator
    PROVE  /\ UNCHANGED <<vdb, staged, op, rule, interrupted>>
           /\ \A f \in Files \ Protected : disk'[f] = disk[f]
           /\ \A f \in Protected : disk[f] # Absent => disk'[f] # Absent
           /\ \A u \in Updates : disk[u] = Absent => disk'[u] = Absent
<1>1. CASE \E f \in Protected : Edit(f)
  <2>1. PICK f \in Protected : Edit(f)
    BY <1>1
  <2>2. f \in Names /\ f \notin Updates /\ Mine # Absent
    BY MineIsData, PlaceAssumption DEF Names
  <2>3. QED BY <2>1, <2>2 DEF Edit, TypeOK, Names
<1>2. CASE \E u \in Updates : Settle(u)
  <2>1. PICK u \in Updates : Settle(u)
    BY <1>2
  <2>2. u[1] \in Protected /\ u \notin Files /\ \A f \in Protected : f \in Files /\ f \notin Updates
    BY PlaceAssumption DEF Updates
  <2>3. \A f \in Files \ Protected : disk'[f] = disk[f]
    BY <2>1, <2>2 DEF Settle, TypeOK, Names
  <2>4. \A f \in Protected : disk[f] # Absent => disk'[f] # Absent
    BY <2>1, <2>2 DEF Settle, TypeOK, Names
  <2>5. \A v \in Updates : disk[v] = Absent => disk'[v] = Absent
    BY <2>1, <2>2 DEF Settle, TypeOK, Names
  <2>6. QED BY <2>1, <2>3, <2>4, <2>5 DEF Settle
<1>3. QED BY <1>1, <1>2 DEF Administrator

\* Data is never the mark of a missing file.
LEMMA DataPresent == \A d \in Data : d # Absent
BY SentinelAssumption

\* Merging a file puts it at its place and leaves all others.
LEMMA MergeFileDoes ==
    ASSUME IInv, MergeFile
    PROVE  \E n \in op.todo :
             /\ n \in Names /\ n \in DOMAIN op.install /\ op.install[n] \in Data
             /\ op.install[n] # Absent
             /\ disk' = [disk EXCEPT ![At(n)] = op.install[n]] /\ disk'[At(n)] = op.install[n]
             /\ \A m \in Names : m # At(n) => disk'[m] = disk[m]
             /\ op' = [op EXCEPT !.todo = op.todo \ {n}]
<1>1. PICK n \in op.todo : /\ disk' = [disk EXCEPT ![At(n)] = op.install[n]]
                          /\ op' = [op EXCEPT !.todo = op.todo \ {n}]
  BY DEF MergeFile
<1>2. n \in Names /\ n \in DOMAIN op.install /\ op.install[n] \in Data
  BY <1>1, RenamedFunction DEF IInv, TypeOK, Ops, Contents, MergeFile
<1>3. At(n) \in Names /\ disk \in [Names -> Data \cup {Absent}]
  BY <1>2, Places DEF IInv, TypeOK
<1>4. QED BY <1>1, <1>2, <1>3, DataPresent

\* Unmerging a file empties its place and leaves all others.
LEMMA UnmergeFileDoes ==
    ASSUME IInv, UnmergeFile
    PROVE  \E n \in op.todo :
             /\ n \in Names /\ disk'[At(n)] = Absent
             /\ \A m \in Names : m # At(n) => disk'[m] = disk[m]
             /\ op' = [op EXCEPT !.todo = op.todo \ {n}]
<1>1. PICK n \in op.todo : /\ disk' = [disk EXCEPT ![At(n)] = Absent]
                          /\ op' = [op EXCEPT !.todo = op.todo \ {n}]
  BY DEF UnmergeFile
<1>2. n \in Names
  BY <1>1 DEF IInv, TypeOK, Ops
<1>3. At(n) \in Names /\ disk \in [Names -> Data \cup {Absent}]
  BY <1>2, Places DEF IInv, TypeOK
<1>4. QED BY <1>1, <1>2, <1>3

\* What an operation starts with; a collision check has read the old entry.
LEMMA StartDoes ==
    ASSUME IInv, Start, op' # op
    PROVE  /\ UNCHANGED <<disk, vdb, staged, rule, exposed, interrupted>>
           /\ op = Idle /\ op' \in Ops
           /\ op'.stage = "started" /\ op'.todo = {}
           /\ \/ /\ op'.kind = "install" /\ op'.new \in Packages /\ op'.old = None
                 /\ op'.install = Image[op'.new] /\ op'.oldset = Absent
                 /\ \E new \in Packages : new = op'.new /\ ~Blocked(new, <<>>)
              \/ /\ op'.kind = "replace" /\ op'.new \in Packages /\ op'.old \in Listed
                 /\ op'.install = Image[op'.new]
                 /\ \/ rule = "none" /\ op'.oldset = Absent
                    \/ /\ vdb[op'.old] \in Csets
                       /\ \E new \in Packages, old \in Listed :
                            /\ new = op'.new /\ old = op'.old
                            /\ op'.oldset = OnDisk(DOMAIN vdb[old])
                            /\ ~Blocked(new, OnDisk(DOMAIN vdb[old]))
              \/ op'.kind = "uninstall" /\ op'.old \in Listed /\ op'.oldset = Absent
<1>1. Listed \subseteq Packages /\ None \notin Packages
  BY SentinelAssumption DEF Listed
<1>2. /\ UNCHANGED <<disk, vdb, staged, rule, exposed, interrupted>>
      /\ op = Idle /\ op' \in Ops /\ op'.stage = "started"
  BY StartOp DEF Start
<1>3. CASE \E new \in Packages : ~Blocked(new, <<>>) /\ Begin("install", None, new, Absent)
  BY <1>1, <1>2, <1>3 DEF Begin, Idle
<1>4. CASE \E new \in Packages, old \in Listed :
             rule = "none" /\ Begin("replace", old, new, Absent)
  BY <1>1, <1>2, <1>4 DEF Begin, Idle
<1>5. CASE \E new \in Packages, old \in Listed :
             /\ vdb[old] # Torn
             /\ ~Blocked(new, OnDisk(DOMAIN vdb[old]))
             /\ Begin("replace", old, new, OnDisk(DOMAIN vdb[old]))
  <2>1. PICK new \in Packages, old \in Listed :
             /\ vdb[old] # Torn
             /\ ~Blocked(new, OnDisk(DOMAIN vdb[old]))
             /\ Begin("replace", old, new, OnDisk(DOMAIN vdb[old]))
    BY <1>5
  <2>2. vdb[old] \in Csets
    BY <1>1, <2>1 DEF IInv, TypeOK, Listed
  <2>3. /\ op'.kind = "replace" /\ op'.new = new /\ op'.old = old /\ op'.todo = {}
        /\ op'.install = Image[new] /\ op'.oldset = OnDisk(DOMAIN vdb[old])
    BY <1>1, <2>1 DEF Begin, Idle
  <2>4. QED BY <1>2, <2>1, <2>2, <2>3
<1>6. CASE \E old \in Listed : Begin("uninstall", old, None, Absent)
  BY <1>1, <1>2, <1>6 DEF Begin, Idle
<1>7. QED BY <1>3, <1>4, <1>5, <1>6 DEF Start
\* The renamed content set, name by name.
LEMMA PreMergeDoes ==
    ASSUME IInv, FInv, PreMerge
    PROVE  /\ op.stage = "started" /\ Installs /\ op.new \in Packages
           /\ op'.stage = "merge" /\ op'.kind = op.kind /\ op'.old = op.old
           /\ op'.new = op.new /\ op'.oldset = op.oldset
           /\ op'.todo = DOMAIN op'.install
           /\ UNCHANGED <<disk, vdb, staged, rule, interrupted>>
           /\ \A u \in DOMAIN op'.renames :
                /\ u \in Updates /\ op'.renames[u] = u[1]
                /\ u[1] \in DOMAIN Image[op.new] \cap Protected
                /\ op'.install[u] = Image[op.new][u[1]]
                /\ disk[u[1]] # Absent
                /\ u[2] = NextUpdate(u[1])
           /\ DOMAIN op'.install \cap Updates = DOMAIN op'.renames
           /\ \A f \in Files :
                f \in DOMAIN op'.install <=>
                  f \in DOMAIN Image[op.new] /\ ~ \E u \in DOMAIN op'.renames : u[1] = f
           /\ \A f \in Files \cap DOMAIN op'.install : op'.install[f] = Image[op.new][f]
<1>0. op.stage = "started" /\ Installs /\ op.new \in Packages /\ op \in Ops
  BY DEF IInv, Kinds, PreMerge, TypeOK
<1> DEFINE c == Image[op.new]
<1>1. op.install = c /\ DOMAIN c \subseteq Files
  BY <1>0, ImageCset DEF FInv, Brought, Merging
<1>2. PICK changed \in SUBSET Endangered(c) :
         LET moved == {<<f, NextUpdate(f)>> : f \in changed}
             names == (DOMAIN c \ changed) \cup moved
         IN  /\ moved \subseteq Updates
             /\ op' = [op EXCEPT
                  !.stage = "merge",
                  !.install = [n \in names |-> IF n \in moved THEN c[n[1]] ELSE c[n]],
                  !.renames = [u \in moved |-> u[1]],
                  !.todo = names]
  BY <1>1 DEF PreMerge
<1> DEFINE moved == {<<f, NextUpdate(f)>> : f \in changed}
           names == (DOMAIN c \ changed) \cup moved
           new == [n \in names |-> IF n \in moved THEN c[n[1]] ELSE c[n]]
           renames == [u \in moved |-> u[1]]
<1>3. /\ moved \subseteq Updates
      /\ op' = [op EXCEPT !.stage = "merge", !.install = new, !.renames = renames,
                          !.todo = names]
  BY <1>2
<1>4. /\ op'.stage = "merge" /\ op'.kind = op.kind /\ op'.old = op.old
      /\ op'.new = op.new /\ op'.oldset = op.oldset
      /\ op'.todo = names /\ op'.install = new /\ op'.renames = renames
  BY <1>0, <1>3 DEF Ops
<1>5. \A f \in changed : f \in DOMAIN c \cap Protected /\ disk[f] # Absent
  <2>1. changed \subseteq DOMAIN OnDisk(DOMAIN c) \cap DOMAIN c \cap Protected
    BY DEF Endangered, Differ
  <2>2. \A f \in DOMAIN OnDisk(DOMAIN c) : disk[At(f)] # Absent
    BY DEF OnDisk
  <2>3. \A f \in Protected : At(f) = f
    BY PlaceAssumption DEF At
  <2>4. QED BY <2>1, <2>2, <2>3
<1>6. names \cap Updates = moved /\ names \cap Files = DOMAIN c \ changed
  BY <1>1, <1>3, PlaceAssumption
<1>7. ASSUME NEW u \in moved PROVE u[1] \in changed /\ u[2] = NextUpdate(u[1])
  <2>1. PICK f \in changed : u = <<f, NextUpdate(f)>>
    OBVIOUS
  <2>2. u[1] = f /\ u[2] = NextUpdate(f)
    BY <2>1
  <2>3. QED BY <2>2
<1>8. ASSUME NEW f \in changed PROVE \E u \in moved : u[1] = f
  <2>1. <<f, NextUpdate(f)>> \in moved /\ <<f, NextUpdate(f)>>[1] = f
    OBVIOUS
  <2>2. QED BY <2>1
<1>9. \A u \in moved : new[u] = c[u[1]] /\ renames[u] = u[1]
  OBVIOUS
<1>10. \A f \in names \cap Files : new[f] = c[f]
  BY <1>3, <1>6, PlaceAssumption
<1>11. DOMAIN new = names /\ DOMAIN renames = moved
  OBVIOUS
<1>12. UNCHANGED <<disk, vdb, staged, rule, interrupted>>
  BY DEF PreMerge
<1> HIDE DEF moved, names, new, renames
<1>13. /\ \A u \in DOMAIN renames :
                /\ u \in Updates /\ renames[u] = u[1]
                /\ u[1] \in DOMAIN c \cap Protected
                /\ new[u] = c[u[1]]
                /\ disk[u[1]] # Absent
                /\ u[2] = NextUpdate(u[1])
       /\ DOMAIN new \cap Updates = DOMAIN renames
       /\ \A f \in Files :
            f \in DOMAIN new <=> f \in DOMAIN c /\ ~ \E u \in DOMAIN renames : u[1] = f
       /\ \A f \in Files \cap DOMAIN new : new[f] = c[f]
  BY <1>3, <1>5, <1>6, <1>7, <1>8, <1>9, <1>10, <1>11
<1>14. QED BY <1>0, <1>4, <1>11, <1>12, <1>13

\* With the names put back it is the package's content set again.
LEMMA PostMergeDoes ==
    ASSUME IInv, FInv, PostMerge
    PROVE  /\ op' = [op EXCEPT !.stage = "merged", !.renames = <<>>,
                               !.install = Image[op.new]]
           /\ UNCHANGED <<disk, vdb, staged, rule, interrupted>>
           /\ Merging /\ Installs /\ op.new \in Packages /\ op.todo = {}
<1>1. Merging /\ Installs /\ op.new \in Packages /\ op \in Ops /\ op.todo = {}
  BY DEF IInv, Kinds, PostMerge, TypeOK, Merging
<1> DEFINE c == Image[op.new]
           i == op.install
           r == op.renames
           S == (DOMAIN i \ DOMAIN r) \cup Range(r)
           e(f) == IF f \in DOMAIN i THEN i[f] ELSE i[CHOOSE u \in DOMAIN r : r[u] = f]
<1>2. c \in [DOMAIN c -> Data] /\ DOMAIN c \subseteq Files
  BY <1>1, ImageCset
<1>3. /\ \A u \in DOMAIN r : r[u] = u[1] /\ u[1] \in DOMAIN c /\ i[u] = c[u[1]]
      /\ \A f \in Files : f \in DOMAIN i <=> f \in DOMAIN c /\ ~ \E u \in DOMAIN r : u[1] = f
      /\ \A f \in Files \cap DOMAIN i : i[f] = c[f]
  BY <1>1 DEF FInv, Brought
<1>4. DOMAIN i \subseteq Names /\ DOMAIN i \cap Updates = DOMAIN r
  BY <1>1, RenamedFunction DEF IInv, Contents, Merging, Ops
<1>5. DOMAIN i \ DOMAIN r = DOMAIN i \cap Files
  BY <1>4, PlaceAssumption DEF Names
<1>6. S = DOMAIN c
  <2>1. ASSUME NEW f \in S PROVE f \in DOMAIN c
    <3>1. CASE f \in DOMAIN i \ DOMAIN r
      BY <1>3, <1>5, <3>1
    <3>2. CASE f \in Range(r)
      BY <1>3, <3>2 DEF Range
    <3>3. QED BY <2>1, <3>1, <3>2
  <2>2. ASSUME NEW f \in DOMAIN c PROVE f \in S
    <3>1. CASE f \in DOMAIN i
      BY <1>2, <1>5, <3>1
    <3>2. CASE f \notin DOMAIN i
      <4>1. PICK u \in DOMAIN r : u[1] = f
        BY <1>2, <1>3, <3>2
      <4>2. r[u] = f
        BY <1>3, <4>1
      <4>3. QED BY <4>2 DEF Range
    <3>3. QED BY <3>1, <3>2
  <2>3. QED BY <2>1, <2>2
<1>7. ASSUME NEW f \in DOMAIN c PROVE e(f) = c[f]
  <2>1. CASE f \in DOMAIN i
    BY <1>2, <1>3, <2>1
  <2>2. CASE f \notin DOMAIN i
    <3>1. \E u \in DOMAIN r : r[u] = f
      BY <1>2, <1>3, <2>2
    <3>2. PICK u \in DOMAIN r : r[u] = f /\ u = CHOOSE v \in DOMAIN r : r[v] = f
      BY <3>1
    <3>3. e(f) = i[u]
      BY <2>2, <3>2
    <3>4. u[1] = f /\ i[u] = c[u[1]]
      BY <1>3, <3>2
    <3>5. i[u] = c[f]
      BY <3>4
    <3>6. QED BY <3>3, <3>5
  <2>3. QED BY <2>1, <2>2
<1>8. Original(i, r) = [f \in S |-> e(f)]
  BY DEF Original
<1>9. Original(i, r) = c
  BY <1>2, <1>6, <1>7, <1>8
<1>10. QED BY <1>1, <1>9 DEF PostMerge
\* Each stage hands on the content set, and it is recorded as it was brought.
LEMMA BroughtStep == IInv /\ FInv /\ [Next]_vars => Brought'
<1> SUFFICES ASSUME IInv, FInv, [Next]_vars PROVE Brought'
  OBVIOUS
<1> USE DEF Installs, Merging, Unmerging
<1>0. TypeOK /\ op \in Ops /\ Kinds /\ Brought
  BY DEF IInv, FInv, TypeOK
<1>1. CASE Start
  <2>1. CASE op' = op
    BY <1>0, <1>1, <2>1 DEF Start, Brought
  <2>2. CASE op' # op
    BY <1>1, <2>2, StartDoes DEF Brought
  <2>3. QED BY <2>1, <2>2
<1>2. CASE PreMerge
  BY <1>2, PreMergeDoes DEF Brought
<1>3. CASE MergeFile
  <2>1. PICK n \in op.todo :
             /\ op.install[n] # Absent
             /\ disk' = [disk EXCEPT ![At(n)] = op.install[n]] /\ disk'[At(n)] = op.install[n]
             /\ \A m \in Names : m # At(n) => disk'[m] = disk[m]
             /\ op' = [op EXCEPT !.todo = op.todo \ {n}]
    BY <1>3, MergeFileDoes
  <2>2. /\ op'.stage = "merge" /\ op'.kind = op.kind /\ op'.new = op.new
        /\ op'.install = op.install /\ op'.renames = op.renames /\ op.stage = "merge"
    BY <1>0, <1>3, <2>1 DEF Ops, MergeFile
  <2>3. \A m \in Names : disk[m] # Absent => disk'[m] # Absent
    BY <2>1
  <2>4. \A u \in DOMAIN op.renames : op.renames[u] \in Names
    BY <1>0, PlaceAssumption DEF Ops, Names
  <2>5. QED BY <1>0, <2>2, <2>3, <2>4 DEF Brought
<1>4. CASE PostMerge
  <2>1. op'.stage = "merged" /\ op'.install = Image[op.new] /\ op'.new = op.new
    BY <1>0, <1>4, PostMergeDoes DEF Ops
  <2>2. QED BY <2>1 DEF Brought
<1>5. CASE AddData
  <2>1. /\ Installs /\ op.new \in Packages
        /\ op'.stage = "recorded" /\ op'.kind = op.kind /\ op'.new = op.new
        /\ op'.install = op.install /\ op.install = Image[op.new]
    BY <1>0, <1>5 DEF AddData, Ops, Kinds, Brought
  <2>2. staged'[op.new] = op.install
    BY <1>0, <1>5, <2>1 DEF AddData, TypeOK
  <2>3. QED BY <2>1, <2>2 DEF Brought
<1>6. CASE PreUnmerge
  <2>1. op.stage \in {"recorded", "started"} /\ (Installs => op.stage = "recorded")
    BY <1>0, <1>6 DEF PreUnmerge, Removes
  <2>2. QED BY <1>0, <1>6, <2>1, PreUnmergeOp DEF PreUnmerge, Brought
<1>7. CASE UnmergeFile
  BY <1>0, <1>7 DEF UnmergeFile, Ops, Brought
<1>8. CASE PostUnmerge
  BY <1>0, <1>8 DEF PostUnmerge, Ops, Brought
<1>9. CASE TearEntry
  BY <1>0, <1>9 DEF TearEntry, Ops, Brought
<1>10. CASE RemoveEntry
  <2>1. /\ op.stage = "removing" /\ op'.kind = op.kind /\ op'.new = op.new
        /\ op'.install = op.install /\ Removes /\ staged' = staged
        /\ op'.stage = IF op.kind = "replace" THEN "swap" ELSE "finalized"
    BY <1>0, <1>10 DEF RemoveEntry, Ops, Kinds
  <2>2. QED BY <1>0, <2>1 DEF Brought, Removes
<1>11. CASE RenameEntry
  <2>1. /\ op.new \in Packages
        /\ op'.stage = "finalized" /\ op'.kind = op.kind /\ op'.new = op.new
        /\ op'.install = op.install /\ op.install = Image[op.new]
        /\ staged[op.new] = Image[op.new]
    BY <1>0, <1>11 DEF RenameEntry, Ops, Kinds, Brought
  <2>2. vdb'[op.new] = staged[op.new]
    BY <1>0, <1>11, <2>1 DEF RenameEntry, TypeOK
  <2>3. QED BY <2>1, <2>2 DEF Brought
<1>12. CASE Finish
  BY <1>12, IdleOp DEF Finish, Brought
<1>13. CASE Interrupt
  BY <1>13, IdleOp DEF Interrupt, Brought
<1>14. CASE Administrator
  <2>1. \A u \in DOMAIN op.renames : op.renames[u] \in Protected
    BY <1>0 DEF Ops
  <2>2. QED BY <1>0, <1>14, <2>1, AdministratorDoes DEF Brought
<1>15. CASE UNCHANGED vars
  BY <1>0, <1>15 DEF vars, Brought
<1>16. QED BY <1>1, <1>2, <1>3, <1>4, <1>5, <1>6, <1>7, <1>8, <1>9, <1>10, <1>11,
              <1>12, <1>13, <1>14, <1>15 DEF Next

\* What is removed of the old package, and what is known of it then.
LEMMA PreUnmergeDoes ==
    ASSUME IInv, FInv, PreUnmerge
    PROVE  /\ op'.stage = "unmerge" /\ op'.kind = op.kind /\ op'.old = op.old
           /\ op'.new = op.new /\ op'.install = op.install
           /\ Removes /\ op.old \in Packages /\ vdb[op.old] \in Csets
           /\ op.stage \in {"recorded", "started"} /\ (Installs => op.stage = "recorded")
           /\ UNCHANGED <<disk, vdb, staged, rule, interrupted>>
           /\ op'.oldset \in Csets
           /\ op'.oldset # Absent
           /\ op'.todo \subseteq DOMAIN op'.oldset
           /\ DOMAIN op'.oldset \subseteq DOMAIN vdb[op.old]
           /\ op'.todo \subseteq Files
           /\ Installs => op'.todo \cap DOMAIN Image[op.new] = {}
           /\ op.oldset # Absent => DOMAIN op'.oldset \subseteq DOMAIN op.oldset
           /\ \A g \in Off(DOMAIN vdb[op.old]) :
                /\ op.oldset = Absent => g \in DOMAIN op'.oldset \/ disk[Place[g]] = Absent
                /\ op.oldset # Absent /\ g \in DOMAIN op.oldset => g \in DOMAIN op'.oldset
                /\ g \in DOMAIN op'.oldset =>
                     g \in op'.todo \/ (Installs /\ g \in DOMAIN Image[op.new])
<1>1. /\ op \in Ops /\ Removes /\ vdb[op.old] # Torn /\ vdb[op.old] # Absent
      /\ op.old \in Packages
      /\ op.stage \in {"recorded", "started"} /\ (Installs => op.stage = "recorded")
  BY DEF IInv, TypeOK, PreUnmerge, Kinds, SlotBook, Listed, Removes, Installs
<1>2. vdb[op.old] \in Csets /\ DOMAIN vdb[op.old] \subseteq Files
  BY <1>1, CsetFunction DEF IInv, TypeOK
<1> DEFINE oldset == IF op.oldset = Absent THEN OnDisk(DOMAIN vdb[op.old]) ELSE op.oldset
           uninstall == Uninstall(op.install, oldset)
           kept == IF op.kind = "uninstall" THEN Kept(uninstall, uninstall) ELSE {}
           left == Restrict(oldset, DOMAIN oldset \ kept)
<1>3. op' = [op EXCEPT !.stage = "unmerge", !.oldset = left, !.todo = DOMAIN uninstall \ kept]
  BY DEF PreUnmerge
<1>4. oldset \in Csets /\ DOMAIN oldset \subseteq DOMAIN vdb[op.old]
  <2>1. CASE op.oldset = Absent
    BY <1>2, <2>1, OnDiskCset DEF IInv
  <2>2. CASE op.oldset # Absent
    BY <1>1, <2>2 DEF Ops, FInv, OldBook, Past
  <2>3. QED BY <2>1, <2>2
<1>5. ASSUME op.oldset = Absent, NEW g \in Off(DOMAIN vdb[op.old])
      PROVE  g \in DOMAIN oldset \/ disk[Place[g]] = Absent
  <2>1. At(g) = Place[g] /\ g \in DOMAIN vdb[op.old]
    BY <1>2, PlaceOff DEF Off
  <2>2. oldset = OnDisk(DOMAIN vdb[op.old])
    BY <1>5
  <2>3. QED BY <2>1, <2>2 DEF OnDisk
<1>6. kept \cap Off(DOMAIN vdb[op.old]) = {}
  BY <1>2, PlaceOff DEF Kept, Off
<1>7. DOMAIN left = DOMAIN oldset \ kept /\ left \in Csets
  BY <1>4, RestrictCset DEF Restrict
<1>8. DOMAIN uninstall = IF op.kind = "uninstall" THEN DOMAIN oldset
                         ELSE DOMAIN oldset \ DOMAIN op.install
  BY DEF Uninstall, Restrict
<1>9. Installs => op.install = Image[op.new] /\ op.kind # "uninstall"
  BY <1>1 DEF FInv, Brought, Merging, Installs
<1>10. op.kind = "uninstall" \/ Installs
  BY <1>1 DEF Removes, Installs
<1>11. /\ op'.stage = "unmerge" /\ op'.kind = op.kind /\ op'.old = op.old
       /\ op'.new = op.new /\ op'.install = op.install
       /\ op'.oldset = left /\ op'.todo = DOMAIN uninstall \ kept
  BY <1>1, <1>3 DEF Ops
<1> HIDE DEF uninstall, kept, left
<1>12. left # Absent
  BY <1>7, SentinelAssumption
<1>13. op.oldset # Absent => oldset = op.oldset
  OBVIOUS
<1> HIDE DEF oldset
<1>14. op'.todo \subseteq DOMAIN op'.oldset
  BY <1>7, <1>8, <1>11
<1>15. Installs => op'.todo \cap DOMAIN Image[op.new] = {}
  BY <1>8, <1>9, <1>11
<1>16. \A g \in Off(DOMAIN vdb[op.old]) :
         /\ op.oldset = Absent => g \in DOMAIN op'.oldset \/ disk[Place[g]] = Absent
         /\ op.oldset # Absent /\ g \in DOMAIN op.oldset => g \in DOMAIN op'.oldset
         /\ g \in DOMAIN op'.oldset =>
              g \in op'.todo \/ (Installs /\ g \in DOMAIN Image[op.new])
  BY <1>5, <1>6, <1>7, <1>8, <1>9, <1>10, <1>11, <1>13
<1>17. UNCHANGED <<disk, vdb, staged, rule, interrupted>>
  BY DEF PreUnmerge
<1>18. DOMAIN op'.oldset \subseteq DOMAIN vdb[op.old]
  BY <1>4, <1>7, <1>11
<1>19. op.oldset # Absent => DOMAIN op'.oldset \subseteq DOMAIN op.oldset
  BY <1>7, <1>11, <1>13
<1>20. op'.todo \subseteq Files
  BY <1>2, <1>14, <1>18
<1>21. QED BY <1>1, <1>2, <1>7, <1>11, <1>12, <1>14, <1>15, <1>16, <1>17, <1>18, <1>19, <1>20
\* What the three steps on an entry change.
LEMMA TearEntryDoes ==
    ASSUME IInv, FInv, TearEntry
    PROVE  /\ op.old \in Packages /\ op.stage = "unmerged" /\ op' = [op EXCEPT !.stage = "removing"]
           /\ op'.stage = "removing" /\ op'.kind = op.kind /\ op'.old = op.old /\ op'.new = op.new
           /\ op'.oldset = op.oldset
           /\ vdb[op.old] \in Csets /\ vdb'[op.old] = Torn
           /\ \A p \in Packages \ {op.old} : vdb'[p] = vdb[p]
           /\ UNCHANGED <<disk, staged, rule, interrupted>>
<1>1. op.old \in Packages /\ op \in Ops /\ op.stage = "unmerged" /\ Removes
  BY DEF IInv, TypeOK, Kinds, TearEntry
<1>2. vdb[op.old] \in Csets
  BY <1>1 DEF FInv, OldBook, Unmerging, Past
<1>3. QED BY <1>1, <1>2 DEF TearEntry, Ops, IInv, TypeOK

LEMMA RemoveEntryDoes ==
    ASSUME IInv, RemoveEntry
    PROVE  /\ op.old \in Packages /\ op.stage = "removing" /\ Removes
           /\ op'.stage = IF op.kind = "replace" THEN "swap" ELSE "finalized"
           /\ op'.kind = op.kind /\ op'.old = op.old /\ op'.new = op.new
           /\ op'.oldset = op.oldset
           /\ vdb'[op.old] = Absent
           /\ \A p \in Packages \ {op.old} : vdb'[p] = vdb[p]
           /\ UNCHANGED <<disk, staged, rule, interrupted>>
<1>1. op.old \in Packages /\ op \in Ops /\ op.stage = "removing" /\ Removes
  BY DEF IInv, TypeOK, Kinds, RemoveEntry
<1>2. QED BY <1>1 DEF RemoveEntry, Ops, IInv, TypeOK

LEMMA RenameEntryDoes ==
    ASSUME IInv, FInv, RenameEntry
    PROVE  /\ op.new \in Packages /\ Installs
           /\ op.stage = IF op.kind = "replace" THEN "swap" ELSE "recorded"
           /\ op'.stage = "finalized"
           /\ op'.kind = op.kind /\ op'.old = op.old /\ op'.new = op.new
           /\ op'.oldset = op.oldset
           /\ vdb[op.new] = Absent /\ vdb'[op.new] = Image[op.new]
           /\ \A p \in Packages \ {op.new} : vdb'[p] = vdb[p]
           /\ op.kind = "replace" => vdb[op.old] = Absent
           /\ UNCHANGED <<disk, rule, interrupted>>
<1>1. /\ op.new \in Packages /\ op \in Ops /\ Installs
      /\ op.stage = IF op.kind = "replace" THEN "swap" ELSE "recorded"
  BY DEF IInv, TypeOK, Kinds, RenameEntry
<1>2. staged[op.new] = Image[op.new]
  BY <1>1 DEF FInv, Brought
<1>3. op.kind = "replace" => vdb[op.old] = Absent
  BY <1>1 DEF IInv, SlotBook, Kinds, Removes, Listed
<1>4. QED BY <1>1, <1>2, <1>3 DEF RenameEntry, Ops, IInv, TypeOK

\* An operation knows of the old package what was recorded of it.
LEMMA OldBookStep == IInv /\ FInv /\ [Next]_vars => OldBook'
<1> SUFFICES ASSUME IInv, FInv, [Next]_vars PROVE OldBook'
  OBVIOUS
<1> USE DEF Installs, Unmerging, Past
<1>0. TypeOK /\ op \in Ops /\ Kinds /\ OldBook
  BY DEF IInv, FInv, TypeOK
<1>1. CASE Start
  <2>1. CASE op' = op
    BY <1>0, <1>1, <2>1 DEF Start, OldBook, Removes
  <2>2. CASE op' # op
    <3>1. \A old \in Packages : vdb[old] \in Csets =>
            DOMAIN OnDisk(DOMAIN vdb[old]) \subseteq DOMAIN vdb[old]
      BY <1>0, CsetFunction, OnDiskCset
    <3>2. QED BY <1>1, <2>2, <3>1, StartDoes DEF OldBook, Removes, Listed
  <2>3. QED BY <2>1, <2>2
<1>2. CASE PreMerge
  BY <1>0, <1>2, PreMergeDoes DEF OldBook, Removes
<1>3. CASE MergeFile
  BY <1>0, <1>3 DEF OldBook, Removes, MergeFile, Ops
<1>4. CASE PostMerge
  BY <1>0, <1>4 DEF OldBook, Removes, PostMerge, Ops
<1>5. CASE AddData
  BY <1>0, <1>5 DEF OldBook, Removes, AddData, Ops
<1>6. CASE PreUnmerge
  BY <1>0, <1>6, PreUnmergeDoes DEF OldBook, Removes
<1>7. CASE UnmergeFile
  <2>1. /\ op'.stage = op.stage /\ op'.kind = op.kind /\ op'.old = op.old /\ op'.new = op.new
        /\ op'.oldset = op.oldset /\ op'.todo \subseteq op.todo /\ vdb' = vdb
    BY <1>0, <1>7 DEF UnmergeFile, Ops
  <2>2. QED BY <1>0, <2>1 DEF OldBook, Removes
<1>8. CASE PostUnmerge
  BY <1>0, <1>8 DEF OldBook, Removes, PostUnmerge, Ops
<1>9. CASE TearEntry
  BY <1>0, <1>9, TearEntryDoes DEF OldBook
<1>10. CASE RemoveEntry
  BY <1>0, <1>10, RemoveEntryDoes DEF OldBook
<1>11. CASE RenameEntry
  BY <1>0, <1>11, RenameEntryDoes DEF OldBook, Kinds, Removes
<1>12. CASE Finish
  BY <1>12, IdleOp DEF Finish, OldBook, Idle
<1>13. CASE Interrupt
  BY <1>13, IdleOp DEF Interrupt, OldBook, Idle
<1>14. CASE Administrator
  BY <1>0, <1>14, AdministratorDoes DEF OldBook, Removes
<1>15. CASE UNCHANGED vars
  BY <1>0, <1>15 DEF vars, OldBook, Removes
<1>16. QED BY <1>1, <1>2, <1>3, <1>4, <1>5, <1>6, <1>7, <1>8, <1>9, <1>10, <1>11,
              <1>12, <1>13, <1>14, <1>15 DEF Next
\* What an operation brings depends on its kind and on its package.
LEMMA CoverKept ==
    ASSUME op'.kind = op.kind, op'.new = op.new
    PROVE  \A f \in Files : CoveredNew(f)' <=> CoveredNew(f)
BY DEF CoveredNew, Installs

\* What is recorded of the old package leads to places that are not protected.
LEMMA OldPlaces ==
    ASSUME NEW p \in Packages, vdb[p] \in Csets
    PROVE  /\ DOMAIN vdb[p] \subseteq Files
           /\ \A g \in Off(DOMAIN vdb[p]) :
                Place[g] \in Files \ Protected /\ At(g) = Place[g] /\ Place[g] \in Names
BY CsetFunction, PlaceOff DEF Names, Off

\* No step forgets a file of the old package.
LEMMA OldFilesStep == IInv /\ FInv /\ [Next]_vars => OldFiles'
<1> SUFFICES ASSUME IInv, FInv, [Next]_vars PROVE OldFiles'
  OBVIOUS
<1> USE DEF Unmerging, Past
<1>0. TypeOK /\ op \in Ops /\ Kinds /\ OldFiles /\ OldBook
  BY DEF IInv, FInv, TypeOK
<1>1. CASE Start
  <2>1. CASE op' = op
    BY <1>0, <1>1, <2>1, CoverKept, OldPlaces DEF Start, OldFiles, OldBook, Kinds
  <2>2. CASE op' # op
    <3>1. ASSUME op'.oldset # Absent,
                 NEW old \in Packages, old = op'.old, vdb[old] \in Csets,
                 op'.oldset = OnDisk(DOMAIN vdb[old]),
                 NEW g \in Off(DOMAIN vdb[old])
          PROVE  disk[Place[g]] = Absent \/ g \in DOMAIN op'.oldset
      BY <3>1, OldPlaces DEF OnDisk, Off
    <3>2. vdb' = vdb /\ disk' = disk /\ op'.stage = "started" /\ Listed \subseteq Packages
      BY <1>1, <2>2, StartDoes DEF Listed
    <3>3. op'.oldset # Absent =>
            \E old \in Packages : /\ old = op'.old /\ vdb[old] \in Csets
                                  /\ op'.oldset = OnDisk(DOMAIN vdb[old])
      BY <1>1, <2>2, <3>2, StartDoes
    <3>4. QED BY <3>1, <3>2, <3>3 DEF OldFiles
  <2>3. QED BY <2>1, <2>2
<1>2. CASE PreMerge
  <2>1. /\ op'.kind = op.kind /\ op'.new = op.new /\ op'.old = op.old /\ op'.oldset = op.oldset
        /\ vdb' = vdb /\ disk' = disk /\ op'.stage = "merge" /\ op.stage = "started"
    BY <1>2, PreMergeDoes
  <2>2. QED BY <1>0, <2>1, CoverKept, OldPlaces DEF OldFiles, OldBook, Kinds
<1>3. CASE MergeFile
  <2>1. PICK n \in op.todo :
             /\ n \in Names /\ n \in DOMAIN op.install
             /\ \A m \in Names : m # At(n) => disk'[m] = disk[m]
             /\ op' = [op EXCEPT !.todo = op.todo \ {n}]
    BY <1>3, MergeFileDoes
  <2>2. /\ op'.kind = op.kind /\ op'.new = op.new /\ op'.old = op.old /\ op'.oldset = op.oldset
        /\ vdb' = vdb /\ op'.stage = "merge" /\ op.stage = "merge" /\ Installs
    BY <1>0, <1>3, <2>1 DEF Ops, MergeFile, Kinds
  <2>3. SUFFICES ASSUME op.oldset # Absent, NEW g \in Off(DOMAIN vdb[op.old])
                 PROVE  \/ disk'[Place[g]] = Absent \/ CoveredNew(Place[g])
                        \/ g \in DOMAIN op.oldset
    BY <1>0, <2>2, CoverKept, OldPlaces DEF OldFiles, OldBook, Kinds
  <2>4. Place[g] \in Files \ Protected /\ Place[g] \in Names
    BY <1>0, <2>2, <2>3, OldPlaces DEF OldBook, Kinds
  <2>5. CASE Place[g] = At(n)
    <3>1. n \in Files /\ Place[n] = Place[g]
      BY <2>1, <2>4, <2>5, AtOff
    <3>2. n \in DOMAIN Image[op.new]
      BY <2>1, <2>2, <3>1 DEF FInv, Brought, Merging
    <3>3. QED BY <2>2, <3>1, <3>2 DEF CoveredNew
  <2>6. CASE Place[g] # At(n)
    BY <1>0, <2>1, <2>2, <2>3, <2>4, <2>6 DEF OldFiles
  <2>7. QED BY <2>5, <2>6
<1>4. CASE PostMerge
  <2>1. /\ op'.kind = op.kind /\ op'.new = op.new /\ op'.old = op.old /\ op'.oldset = op.oldset
        /\ vdb' = vdb /\ disk' = disk /\ op'.stage = "merged" /\ op.stage = "merge"
    BY <1>0, <1>4 DEF PostMerge, Ops
  <2>2. QED BY <1>0, <2>1, CoverKept, OldPlaces DEF OldFiles, OldBook, Kinds
<1>5. CASE AddData
  <2>1. /\ op'.kind = op.kind /\ op'.new = op.new /\ op'.old = op.old /\ op'.oldset = op.oldset
        /\ vdb' = vdb /\ disk' = disk /\ op'.stage = "recorded" /\ op.stage = "merged"
    BY <1>0, <1>5 DEF AddData, Ops
  <2>2. QED BY <1>0, <2>1, CoverKept, OldPlaces DEF OldFiles, OldBook, Kinds
<1>6. CASE PreUnmerge
  <2>1. /\ op'.kind = op.kind /\ op'.new = op.new /\ op'.old = op.old
        /\ vdb' = vdb /\ disk' = disk /\ op'.stage = "unmerge"
        /\ op.stage \in {"recorded", "started"} /\ op.old \in Packages /\ vdb[op.old] \in Csets
    BY <1>6, PreUnmergeDoes
  <2>2. SUFFICES ASSUME NEW g \in Off(DOMAIN vdb[op.old])
                 PROVE  \/ disk[Place[g]] = Absent \/ CoveredNew(Place[g]) \/ g \in op'.todo
    BY <2>1, CoverKept, OldPlaces DEF OldFiles
  <2>3. g \in DOMAIN op'.oldset => g \in op'.todo \/ CoveredNew(Place[g])
    BY <1>6, PreUnmergeDoes DEF CoveredNew
  <2>4. CASE op.oldset = Absent
    BY <1>6, <2>3, <2>4, PreUnmergeDoes
  <2>5. CASE op.oldset # Absent
    <3>1. disk[Place[g]] = Absent \/ CoveredNew(Place[g]) \/ g \in DOMAIN op.oldset
      BY <1>0, <2>1, <2>5 DEF OldFiles
    <3>2. QED BY <1>6, <2>3, <2>5, <3>1, PreUnmergeDoes
  <2>6. QED BY <2>4, <2>5
<1>7. CASE UnmergeFile
  <2>1. PICK n \in op.todo :
             /\ n \in Names /\ disk'[At(n)] = Absent
             /\ \A m \in Names : m # At(n) => disk'[m] = disk[m]
             /\ op' = [op EXCEPT !.todo = op.todo \ {n}]
    BY <1>7, UnmergeFileDoes
  <2>2. /\ op'.kind = op.kind /\ op'.new = op.new /\ op'.old = op.old /\ op'.oldset = op.oldset
        /\ vdb' = vdb /\ op'.stage = "unmerge" /\ op.stage = "unmerge"
        /\ op'.todo = op.todo \ {n} /\ op.oldset # Absent
    BY <1>0, <1>7, <2>1 DEF Ops, UnmergeFile, OldBook
  <2>3. SUFFICES ASSUME NEW g \in Off(DOMAIN vdb[op.old])
                 PROVE  \/ disk'[Place[g]] = Absent \/ CoveredNew(Place[g]) \/ g \in op.todo \ {n}
    BY <1>0, <2>2, CoverKept, OldPlaces DEF OldFiles, OldBook, Kinds
  <2>4. Place[g] \in Names /\ At(g) = Place[g]
    BY <1>0, <2>2, <2>3, OldPlaces DEF OldBook, Kinds
  <2>5. disk[Place[g]] = Absent \/ CoveredNew(Place[g]) \/ g \in op.todo
    BY <1>0, <2>2, <2>3 DEF OldFiles
  <2>6. QED BY <2>1, <2>4, <2>5
<1>8. CASE PostUnmerge
  <2>1. /\ op'.kind = op.kind /\ op'.new = op.new /\ op'.old = op.old /\ op'.oldset = op.oldset
        /\ vdb' = vdb /\ disk' = disk /\ op'.stage = "unmerged" /\ op.stage = "unmerge"
        /\ op'.todo = op.todo
    BY <1>0, <1>8 DEF PostUnmerge, Ops
  <2>2. QED BY <1>0, <2>1, CoverKept, OldPlaces DEF OldFiles, OldBook, Kinds
<1>9. CASE TearEntry
  BY <1>9, TearEntryDoes DEF OldFiles
<1>10. CASE RemoveEntry
  BY <1>10, RemoveEntryDoes DEF OldFiles
<1>11. CASE RenameEntry
  BY <1>11, RenameEntryDoes DEF OldFiles
<1>12. CASE Finish
  BY <1>12 DEF Finish, OldFiles, Idle
<1>13. CASE Interrupt
  BY <1>13 DEF Interrupt, OldFiles, Idle
<1>14. CASE Administrator
  <2>1. vdb' = vdb /\ op' = op /\ \A f \in Files \ Protected : disk'[f] = disk[f]
    BY <1>0, <1>14, AdministratorDoes
  <2>2. QED BY <1>0, <2>1, CoverKept, OldPlaces DEF OldFiles, OldBook, Kinds
<1>15. CASE UNCHANGED vars
  BY <1>0, <1>15, CoverKept, OldPlaces DEF vars, OldFiles, OldBook, Kinds
<1>16. QED BY <1>1, <1>2, <1>3, <1>4, <1>5, <1>6, <1>7, <1>8, <1>9, <1>10, <1>11,
              <1>12, <1>13, <1>14, <1>15 DEF Next
\* Where nothing was recorded or removed the owners are the same.
LEMMA OwnedKept ==
    ASSUME vdb' = vdb
    PROVE  \A f \in Files : Owned(f)' <=> Owned(f)
BY DEF Owned, Recorded, Listed

\* Merging a file changes what is known of it; it is one the package brings.
LEMMA MergedIsCovered ==
    ASSUME IInv, FInv, Merging, NEW n \in op.todo, At(n) \in Files \ Protected
    PROVE  /\ n \in DOMAIN Image[op.new] \ Protected /\ Place[n] = At(n)
           /\ op.install[n] = Image[op.new][n] /\ Installs
<1>1. n \in Names /\ n \in DOMAIN op.install /\ Installs
  BY DEF IInv, TypeOK, Ops, Contents, Kinds, Merging
<1>2. n \in Files \ Protected /\ Place[n] = At(n)
  BY <1>1, AtOff
<1>3. QED BY <1>1, <1>2 DEF FInv, Brought

\* No step leaves a file on the disk without an owner.
LEMMA CoveredStep == IInv /\ FInv /\ [Next]_vars => Covered'
<1> SUFFICES ASSUME IInv, FInv, [Next]_vars PROVE Covered'
  OBVIOUS
<1>0. /\ TypeOK /\ op \in Ops /\ Kinds /\ Covered /\ OldBook
      /\ \A f \in Files : f \in Names
  BY DEF IInv, FInv, TypeOK, Names
\* Steps that change neither the entries, nor the package, nor add a file.
<1>a. ASSUME vdb' = vdb, op'.kind = op.kind, op'.new = op.new, interrupted' = interrupted,
             \A f \in Files \ Protected : disk'[f] = disk[f] \/ disk'[f] = Absent
      PROVE  Covered'
  BY <1>0, <1>a, CoverKept, OwnedKept DEF Covered
<1>1. CASE Start
  <2>1. CASE op' = op
    BY <1>1, <1>a, <2>1 DEF Start
  <2>2. CASE op' # op
    <3>1. vdb' = vdb /\ disk' = disk /\ interrupted' = interrupted /\ op.kind = "none"
      BY <1>1, <2>2, StartDoes, IdleOp
    <3>2. \A f : ~CoveredNew(f)
      BY <3>1 DEF CoveredNew, Installs
    <3>3. QED BY <1>0, <3>1, <3>2, OwnedKept DEF Covered
  <2>3. QED BY <2>1, <2>2
<1>2. CASE PreMerge
  BY <1>2, <1>a, PreMergeDoes
<1>3. CASE MergeFile
  <2>1. PICK n \in op.todo :
             /\ \A m \in Names : m # At(n) => disk'[m] = disk[m]
             /\ op' = [op EXCEPT !.todo = op.todo \ {n}]
    BY <1>3, MergeFileDoes
  <2>2. /\ op'.kind = op.kind /\ op'.new = op.new /\ Merging
        /\ vdb' = vdb /\ interrupted' = interrupted
    BY <1>0, <1>3, <2>1 DEF Ops, MergeFile, Merging
  <2>3. ASSUME NEW f \in Files \ Protected, f = At(n) PROVE CoveredNew(f)
    BY <2>2, <2>3, MergedIsCovered DEF CoveredNew
  <2>4. ASSUME ~interrupted, NEW f \in Files \ Protected, disk'[f] # Absent
        PROVE  CoveredNew(f) \/ Owned(f)
    BY <1>0, <2>1, <2>3, <2>4 DEF Covered
  <2>5. QED BY <2>2, <2>4, CoverKept, OwnedKept DEF Covered
<1>4. CASE PostMerge
  BY <1>0, <1>4, <1>a DEF PostMerge, Ops
<1>5. CASE AddData
  BY <1>0, <1>5, <1>a DEF AddData, Ops
<1>6. CASE PreUnmerge
  BY <1>6, <1>a, PreUnmergeDoes
<1>7. CASE UnmergeFile
  <2>1. PICK n \in op.todo :
             /\ disk'[At(n)] = Absent
             /\ \A m \in Names : m # At(n) => disk'[m] = disk[m]
             /\ op' = [op EXCEPT !.todo = op.todo \ {n}]
    BY <1>7, UnmergeFileDoes
  <2>2. op'.kind = op.kind /\ op'.new = op.new /\ vdb' = vdb /\ interrupted' = interrupted
    BY <1>0, <1>7, <2>1 DEF Ops, UnmergeFile
  <2>3. \A f \in Files \ Protected : disk'[f] = disk[f] \/ disk'[f] = Absent
    BY <1>0, <2>1
  <2>4. QED BY <1>a, <2>2, <2>3
<1>8. CASE PostUnmerge
  BY <1>0, <1>8, <1>a DEF PostUnmerge, Ops
<1>9. CASE TearEntry
  <2>1. /\ op.old \in Packages /\ op.stage = "unmerged" /\ vdb[op.old] \in Csets
        /\ op'.kind = op.kind /\ op'.new = op.new /\ disk' = disk /\ interrupted' = interrupted
        /\ \A p \in Packages \ {op.old} : vdb'[p] = vdb[p]
    BY <1>9, TearEntryDoes
  <2>2. SUFFICES ASSUME ~interrupted, NEW f \in Files \ Protected, disk[f] # Absent,
                        ~CoveredNew(f)
                 PROVE  Owned(f)'
    BY <2>1, CoverKept DEF Covered
  <2>3. PICK p \in Recorded : \E g \in DOMAIN vdb[p] : Place[g] = f
    BY <1>0, <2>2 DEF Covered, Owned
  <2>4. PICK g \in DOMAIN vdb[p] : Place[g] = f
    BY <2>3
  <2>5. CASE p = op.old
    <3>1. g \in Off(DOMAIN vdb[op.old])
      BY <2>2, <2>4, <2>5 DEF Off
    <3>2. op.oldset # Absent /\ op.todo = {}
      BY <1>0, <2>1 DEF OldBook, Unmerging
    <3>3. disk[Place[g]] = Absent \/ CoveredNew(Place[g])
      BY <2>1, <3>1, <3>2 DEF FInv, OldFiles, Unmerging, Past
    <3>4. QED BY <2>2, <2>4, <3>3
  <2>6. CASE p # op.old
    BY <2>1, <2>3, <2>4, <2>6 DEF Owned, Recorded, Listed
  <2>7. QED BY <2>5, <2>6
<1>10. CASE RemoveEntry
  <2>1. /\ op.old \in Packages /\ vdb[op.old] = Torn
        /\ op'.kind = op.kind /\ op'.new = op.new /\ disk' = disk /\ interrupted' = interrupted
        /\ \A p \in Packages \ {op.old} : vdb'[p] = vdb[p]
    BY <1>0, <1>10, RemoveEntryDoes DEF OldBook
  <2>2. ASSUME NEW f \in Files, Owned(f) PROVE Owned(f)'
    BY <2>1, <2>2 DEF Owned, Recorded, Listed
  <2>3. QED BY <1>0, <2>1, <2>2, CoverKept DEF Covered
<1>11. CASE RenameEntry
  <2>1. /\ op.new \in Packages /\ vdb[op.new] = Absent
        /\ op'.kind = op.kind /\ op'.new = op.new /\ disk' = disk /\ interrupted' = interrupted
        /\ \A p \in Packages \ {op.new} : vdb'[p] = vdb[p]
    BY <1>11, RenameEntryDoes
  <2>2. ASSUME NEW f \in Files, Owned(f) PROVE Owned(f)'
    BY <2>1, <2>2 DEF Owned, Recorded, Listed
  <2>3. QED BY <1>0, <2>1, <2>2, CoverKept DEF Covered
<1>12. CASE Finish
  <2>1. vdb' = vdb /\ disk' = disk /\ interrupted' = interrupted
    BY <1>12 DEF Finish
  <2>2. ASSUME NEW f \in Files, CoveredNew(f) PROVE Owned(f)
    <3>1. Installs /\ op.new \in Packages /\ vdb[op.new] = Image[op.new]
      BY <1>0, <1>12, <2>2 DEF CoveredNew, Kinds, FInv, Brought, Finish
    <3>2. op.new \in Recorded
      BY <3>1, ImageCset DEF Recorded, Listed
    <3>3. QED BY <2>2, <3>1, <3>2 DEF CoveredNew, Owned
  <2>3. QED BY <1>0, <2>1, <2>2, OwnedKept DEF Covered
<1>13. CASE Interrupt
  BY <1>13 DEF Interrupt, Covered
<1>14. CASE Administrator
  BY <1>0, <1>14, <1>a, AdministratorDoes
<1>15. CASE UNCHANGED vars
  BY <1>15, <1>a DEF vars
<1>16. QED BY <1>1, <1>2, <1>3, <1>4, <1>5, <1>6, <1>7, <1>8, <1>9, <1>10, <1>11,
              <1>12, <1>13, <1>14, <1>15 DEF Next
\* The names of what is removed, and where they lead.
LEMMA UnmergedNames ==
    ASSUME IInv, FInv, Unmerging, NEW n \in op.todo
    PROVE  /\ n \in Files /\ n \in DOMAIN op.oldset /\ n \in DOMAIN vdb[op.old]
           /\ At(n) = Place[n] /\ At(n) \in Files
           /\ Removes /\ op.old \in Packages /\ vdb[op.old] \in Csets
           /\ Installs => n \notin DOMAIN Image[op.new] /\ op.kind = "replace"
<1>1. /\ Removes /\ vdb[op.old] \in Csets /\ n \in DOMAIN op.oldset /\ n \in DOMAIN vdb[op.old]
      /\ Installs => n \notin DOMAIN Image[op.new]
  BY DEF FInv, OldBook, Unmerging, Past
<1>2. n \in Files /\ op.old \in Packages
  BY <1>1, CsetFunction DEF IInv, Kinds
<1>3. At(n) = Place[n] /\ Place[n] \in Files
  BY <1>2, PlaceAssumption DEF At
<1>4. QED BY <1>1, <1>2, <1>3 DEF Installs, Removes

\* The names a file of a package may lead to a place by.
LEMMA Leading ==
    ASSUME NEW n \in Names, NEW f \in Files
    PROVE  /\ At(n) = Place[f] => n \in Files /\ Place[n] = Place[f]
           /\ f \in Protected => Place[f] = f
           /\ Place[f] \in Names /\ f \in Names
BY PlaceAssumption DEF At, Names

\* No step undoes what was merged, but for a file the old package had under
\* another name.
LEMMA WrittenStep == IInv /\ FInv /\ [Next]_vars => Written'
<1> SUFFICES ASSUME IInv, FInv, [Next]_vars PROVE Written'
  OBVIOUS
<1>0. TypeOK /\ op \in Ops /\ Kinds /\ Written
  BY DEF IInv, FInv, TypeOK
\* Steps once all is merged that leave the disk as it is.
<1>a. ASSUME disk' = disk, op'.new = op.new, op'.kind = op.kind, op.stage # "started",
             op'.oldset = op.oldset \/ ~(Unmerging \/ Past),
             Unmerging \/ Past => (Unmerging \/ Past)',
             Merging => op.todo = {}
      PROVE  Written'
  <2>1. ASSUME Installs, NEW f \in DOMAIN Image[op.new]
        PROVE  Present(f)' \/ TwoNames(f)'
    <3>1. Present(f) \/ TwoNames(f)
      BY <1>0, <1>a, <2>1 DEF Written
    <3>2. CASE Present(f)
      BY <1>a, <3>2 DEF Present
    <3>3. CASE TwoNames(f)
      BY <1>a, <3>3 DEF TwoNames
    <3>4. QED BY <3>1, <3>2, <3>3
  <2>2. Installs' <=> Installs
    BY <1>a DEF Installs
  <2>3. QED BY <1>a, <2>1, <2>2 DEF Written
<1>1. CASE Start
  <2>1. CASE op' = op
    BY <1>0, <1>1, <2>1 DEF Start, Written, Installs, Merging, Present, TwoNames, Unmerging, Past
  <2>2. CASE op' # op
    BY <1>1, <2>2, StartDoes DEF Written
  <2>3. QED BY <2>1, <2>2
<1>2. CASE PreMerge
  <2>1. op'.new = op.new /\ disk' = disk /\ op'.stage = "merge"
    BY <1>2, PreMergeDoes
  <2>2. ASSUME NEW f \in DOMAIN Image[op.new]
        PROVE  f \in op'.todo \/ (f \in Protected /\ Place[f] = f /\ disk[f] # Absent)
    <3>1. f \in Files
      BY <1>2, <2>2, PreMergeDoes, ImageCset
    <3>2. CASE \E u \in DOMAIN op'.renames : u[1] = f
      BY <1>2, <3>2, PreMergeDoes, PlaceAssumption
    <3>3. CASE ~ \E u \in DOMAIN op'.renames : u[1] = f
      BY <1>2, <2>2, <3>1, <3>3, PreMergeDoes
    <3>4. QED BY <3>2, <3>3
  <2>3. QED BY <2>1, <2>2 DEF Written, Merging, Present
<1>3. CASE MergeFile
  <2>1. PICK n \in op.todo :
             /\ n \in Names /\ n \in DOMAIN op.install
             /\ disk'[At(n)] = op.install[n]
             /\ \A m \in Names : m # At(n) => disk'[m] = disk[m]
             /\ op' = [op EXCEPT !.todo = op.todo \ {n}]
    BY <1>3, MergeFileDoes
  <2>2. /\ op'.kind = op.kind /\ op'.new = op.new /\ op'.oldset = op.oldset
        /\ op'.stage = "merge" /\ op.stage = "merge" /\ op'.todo = op.todo \ {n}
        /\ Installs /\ op.new \in Packages
    BY <1>0, <1>3, <2>1 DEF Ops, MergeFile, Kinds
  <2>3. SUFFICES ASSUME NEW f \in DOMAIN Image[op.new]
                 PROVE  f \in op.todo \ {n} \/ Present(f)' \/ TwoNames(f)'
    BY <2>2 DEF Written, Merging
  <2>4. f \in Files /\ f \in Names /\ Place[f] \in Names
    BY <2>1, <2>2, ImageCset, Leading
  <2>5. CASE f = n
    <3>1. op.install[f] = Image[op.new][f] /\ At(f) = Place[f]
      BY <2>1, <2>2, <2>4, <2>5, PlaceAssumption DEF FInv, Brought, Merging, At
    <3>2. QED BY <2>1, <2>2, <2>5, <3>1 DEF Present
  <2>6. CASE f # n /\ At(n) = Place[f]
    <3>1. n \in Files /\ Place[n] = Place[f]
      BY <2>1, <2>4, <2>6, Leading
    <3>2. n \in DOMAIN Image[op.new]
      BY <2>1, <2>2, <3>1 DEF FInv, Brought, Merging
    <3>3. QED BY <2>2, <2>6, <3>1, <3>2 DEF TwoNames
  <2>7. CASE f # n /\ At(n) # Place[f]
    <3>1. f \in op.todo \/ Present(f) \/ TwoNames(f)
      BY <1>0, <2>2 DEF Written
    <3>2. disk'[Place[f]] = disk[Place[f]] /\ (f \in Protected => Place[f] = f)
      BY <2>1, <2>4, <2>7, Leading
    <3>3. Present(f) => Present(f)'
      BY <2>2, <3>2 DEF Present
    <3>4. TwoNames(f) => TwoNames(f)'
      BY <2>2 DEF TwoNames, Unmerging, Past
    <3>5. QED BY <2>7, <3>1, <3>3, <3>4
  <2>8. QED BY <2>5, <2>6, <2>7
<1>4. CASE PostMerge
  <2>1. /\ disk' = disk /\ op'.new = op.new /\ op'.kind = op.kind /\ op.stage = "merge"
        /\ op.todo = {} /\ op'.oldset = op.oldset
    BY <1>0, <1>4 DEF PostMerge, Ops
  <2>2. QED BY <1>a, <2>1 DEF Unmerging, Past
<1>5. CASE AddData
  <2>1. /\ disk' = disk /\ op'.new = op.new /\ op'.kind = op.kind /\ op.stage = "merged"
        /\ op'.oldset = op.oldset
    BY <1>0, <1>5 DEF AddData, Ops
  <2>2. QED BY <1>a, <2>1 DEF Unmerging, Past, Merging
<1>6. CASE PreUnmerge
  <2>1. /\ disk' = disk /\ op'.new = op.new /\ op'.kind = op.kind
        /\ op.stage \in {"recorded", "started"} /\ (Installs => op.stage = "recorded")
    BY <1>6, PreUnmergeDoes
  <2>2. CASE Installs
    BY <1>a, <2>1, <2>2 DEF Unmerging, Past, Merging
  <2>3. CASE ~Installs
    BY <2>1, <2>3 DEF Written, Installs
  <2>4. QED BY <2>2, <2>3
<1>7. CASE UnmergeFile
  <2>1. PICK n \in op.todo :
             /\ n \in Names
             /\ \A m \in Names : m # At(n) => disk'[m] = disk[m]
             /\ op' = [op EXCEPT !.todo = op.todo \ {n}]
    BY <1>7, UnmergeFileDoes
  <2>2. /\ op'.kind = op.kind /\ op'.new = op.new /\ op'.oldset = op.oldset
        /\ op'.stage = "unmerge" /\ op.stage = "unmerge"
    BY <1>0, <1>7, <2>1 DEF Ops, UnmergeFile
  <2>3. SUFFICES ASSUME Installs, NEW f \in DOMAIN Image[op.new]
                 PROVE  Present(f)' \/ TwoNames(f)'
    BY <2>2 DEF Written, Installs
  <2>4. f \in Files /\ f \in Names /\ Place[f] \in Names
    BY <1>0, <2>1, <2>3, ImageCset, Leading DEF Kinds
  <2>5. CASE At(n) = Place[f]
    <3>1. n \in Files /\ Place[n] = Place[f] /\ n # f /\ n \in DOMAIN op.oldset
          /\ op.kind = "replace"
      BY <2>1, <2>2, <2>3, <2>4, <2>5, Leading, UnmergedNames DEF Unmerging
    <3>2. QED BY <2>2, <3>1 DEF TwoNames, Unmerging
  <2>6. CASE At(n) # Place[f]
    <3>1. Present(f) \/ TwoNames(f)
      BY <1>0, <2>2, <2>3 DEF Written, Merging
    <3>2. disk'[Place[f]] = disk[Place[f]] /\ (f \in Protected => Place[f] = f)
      BY <2>1, <2>4, <2>6, Leading
    <3>3. Present(f) => Present(f)'
      BY <2>2, <3>2 DEF Present
    <3>4. TwoNames(f) => TwoNames(f)'
      BY <2>2 DEF TwoNames, Unmerging, Past
    <3>5. QED BY <3>1, <3>3, <3>4
  <2>7. QED BY <2>5, <2>6
<1>8. CASE PostUnmerge
  <2>1. /\ disk' = disk /\ op'.new = op.new /\ op'.kind = op.kind /\ op.stage = "unmerge"
        /\ op'.oldset = op.oldset /\ op'.stage = "unmerged"
    BY <1>0, <1>8 DEF PostUnmerge, Ops
  <2>2. QED BY <1>a, <2>1 DEF Unmerging, Past, Merging
<1>9. CASE TearEntry
  BY <1>9, <1>a, TearEntryDoes DEF Unmerging, Past, Merging
<1>10. CASE RemoveEntry
  BY <1>10, <1>a, RemoveEntryDoes DEF Unmerging, Past, Merging
<1>11. CASE RenameEntry
  BY <1>11, <1>a, RenameEntryDoes DEF Unmerging, Past, Merging
<1>12. CASE Finish
  BY <1>12, IdleOp DEF Finish, Written, Installs
<1>13. CASE Interrupt
  BY <1>13, IdleOp DEF Interrupt, Written, Installs
<1>14. CASE Administrator
  <2>1. /\ op' = op /\ \A f \in Files \ Protected : disk'[f] = disk[f]
        /\ \A f \in Protected : disk[f] # Absent => disk'[f] # Absent
    BY <1>0, <1>14, AdministratorDoes
  <2>2. ASSUME Installs, NEW f \in DOMAIN Image[op.new], Present(f)
        PROVE  Present(f)'
    <3>1. f \in Files /\ Image[op.new][f] # Absent
      BY <1>0, <2>2, ImageCset, DataPresent DEF Kinds
    <3>2. CASE Place[f] \in Protected
      BY <2>1, <2>2, <3>1, <3>2, PlaceAssumption DEF Present
    <3>3. CASE Place[f] \notin Protected
      BY <2>1, <2>2, <3>1, <3>3, PlaceOff DEF Present
    <3>4. QED BY <3>2, <3>3
  <2>3. QED BY <1>0, <2>1, <2>2 DEF Written, Installs, Merging, TwoNames, Unmerging, Past
<1>15. CASE UNCHANGED vars
  BY <1>0, <1>15 DEF vars, Written, Installs, Merging, Present, TwoNames, Unmerging, Past
<1>16. QED BY <1>1, <1>2, <1>3, <1>4, <1>5, <1>6, <1>7, <1>8, <1>9, <1>10, <1>11,
              <1>12, <1>13, <1>14, <1>15 DEF Next
-----------------------------------------------------------------------------
\* A set of numbers that is not empty has a least one.
LEMMA Least ==
    ASSUME NEW T \in SUBSET Nat, T # {}
    PROVE  \E m \in T : \A k \in T : m =< k
<1>1. PICK m \in T : \A k \in T : <<k, m>> \notin OpToRel(<, Nat)
  BY WFMin, NatLessThanWellFounded, Zenon
<1>2. \A k \in T : ~ (k < m)
  BY <1>1, Zenon DEF OpToRel
<1>3. QED BY <1>2

\* The bound on pending updates is a number.
LEMMA BoundIsNatural == MaxUpdates \in Nat
<1>1. MaxUpdates \in 0 .. 10000
  BY BoundAssumption
<1>2. QED BY <1>1, SMT

\* The number NextUpdate gives is above all those taken.
LEMMA NextIsAbove ==
    ASSUME NEW f, NEW u \in Updates, u[1] = f, disk[u] # Absent
    PROVE  u[2] < NextUpdate(f)
<1> DEFINE taken == {v \in Updates : v[1] = f /\ disk[v] # Absent}
           above(n) == \A v \in taken : v[2] < n
           T == {n \in 0 .. MaxUpdates : above(n)}
<1>0. MaxUpdates \in Nat
  BY BoundIsNatural
<1>1. \A v \in taken : v[2] \in 0 .. MaxUpdates - 1 /\ v = <<f, v[2]>>
  BY <1>0 DEF Updates
<1>2. MaxUpdates \in T /\ T \in SUBSET Nat
  BY <1>0, <1>1
<1>3. PICK m \in T : \A k \in T : m =< k
  BY <1>2, Least
<1>4. m = 0 \/ <<f, m - 1>> \in taken
  <2>1. SUFFICES ASSUME m # 0 PROVE <<f, m - 1>> \in taken
    OBVIOUS
  <2>2. m - 1 \in 0 .. MaxUpdates /\ m - 1 \notin T
    BY <1>2, <1>3, <2>1, BoundIsNatural
  <2>3. PICK v \in taken : ~ (v[2] < m - 1)
    BY <2>2
  <2>4. v[2] < m
    BY <1>3
  <2>5. v[2] = m - 1
    BY <1>1, <1>2, <1>3, <2>3, <2>4
  <2>6. QED BY <1>1, <2>3, <2>5
<1>5. \E n \in 0 .. MaxUpdates :
        (\A v \in taken : v[2] < n) /\ (n = 0 \/ <<f, n - 1>> \in taken)
  BY <1>3, <1>4
<1>6. \A v \in taken : v[2] < NextUpdate(f)
  BY <1>5 DEF NextUpdate
<1>7. QED BY <1>6

\* An update is written where there is none.
LEMMA RoomStep == IInv /\ FInv /\ [Next]_vars => Room'
<1> SUFFICES ASSUME IInv, FInv, [Next]_vars PROVE Room'
  OBVIOUS
<1> USE DEF Merging
<1>0. TypeOK /\ op \in Ops /\ Room /\ Updates \subseteq Names
  BY DEF IInv, FInv, TypeOK, Names
<1>1. CASE Start
  <2>1. op' = op \/ op'.stage = "started"
    BY <1>1, StartDoes
  <2>2. QED BY <1>0, <1>1, <2>1 DEF Start, Room
<1>2. CASE PreMerge
  <2>1. ASSUME NEW u \in op'.todo \cap Updates PROVE disk[u] = Absent
    <3>1. u[2] = NextUpdate(u[1])
      BY <1>2, <2>1, PreMergeDoes
    <3>2. u[2] \in Nat
      BY <2>1 DEF Updates
    <3>3. disk[u] # Absent => u[2] < u[2]
      BY <2>1, <3>1, NextIsAbove
    <3>4. QED BY <3>2, <3>3
  <2>2. QED BY <1>2, <2>1, PreMergeDoes DEF Room
<1>3. CASE MergeFile
  <2>1. PICK n \in op.todo :
             /\ n \in Names
             /\ \A m \in Names : m # At(n) => disk'[m] = disk[m]
             /\ op' = [op EXCEPT !.todo = op.todo \ {n}]
    BY <1>3, MergeFileDoes
  <2>2. op'.todo = op.todo \ {n} /\ op.stage = "merge"
    BY <1>0, <1>3, <2>1 DEF Ops, MergeFile
  <2>3. ASSUME NEW u \in Updates, u # n PROVE At(n) # u
    BY <2>1, <2>3, PlaceAssumption DEF At, Names
  <2>4. QED BY <1>0, <2>1, <2>2, <2>3 DEF Room
<1>4. CASE PostMerge
  BY <1>0, <1>4 DEF PostMerge, Ops, Room
<1>5. CASE AddData
  BY <1>0, <1>5 DEF AddData, Ops, Room
<1>6. CASE PreUnmerge
  BY <1>6, PreUnmergeDoes DEF Room
<1>7. CASE UnmergeFile
  BY <1>0, <1>7 DEF UnmergeFile, Ops, Room
<1>8. CASE PostUnmerge
  BY <1>0, <1>8 DEF PostUnmerge, Ops, Room
<1>9. CASE TearEntry
  BY <1>9, TearEntryDoes DEF Room
<1>10. CASE RemoveEntry
  BY <1>10, RemoveEntryDoes DEF Room
<1>11. CASE RenameEntry
  BY <1>11, RenameEntryDoes DEF Room
<1>12. CASE Finish
  BY <1>12, IdleOp DEF Finish, Room
<1>13. CASE Interrupt
  BY <1>13, IdleOp DEF Interrupt, Room
<1>14. CASE Administrator
  BY <1>0, <1>14, AdministratorDoes DEF Room
<1>15. CASE UNCHANGED vars
  BY <1>0, <1>15 DEF vars, Room
<1>16. QED BY <1>1, <1>2, <1>3, <1>4, <1>5, <1>6, <1>7, <1>8, <1>9, <1>10, <1>11,
              <1>12, <1>13, <1>14, <1>15 DEF Next
-----------------------------------------------------------------------------
\* A merge that is not blocked brings no file another package has recorded, if
\* what is recorded is on the disk.
LEMMA NotBlocked ==
    ASSUME IInv, FInv, Intact, NEW new \in Packages, NEW oldset, ~Blocked(new, oldset),
           NEW p \in Recorded, NEW f \in DOMAIN vdb[p] \cap DOMAIN Image[new],
           f \notin Protected, ~Aliased(f), disk[f] = vdb[p][f]
    PROVE  f \in DOMAIN oldset
<1>1. p \in Packages /\ p \in Listed /\ vdb[p] \in Csets /\ f \in Files
  BY CsetFunction DEF IInv, TypeOK, Recorded, Listed
<1>2. vdb[p][f] # Absent
  BY <1>1, CsetFunction, DataPresent
<1>3. At(f) = f
  BY <1>1, SoleName, PlaceOff
<1>4. f \in DOMAIN OnDisk(DOMAIN Image[new])
  BY <1>2, <1>3 DEF OnDisk
<1>5. SUFFICES ASSUME f \notin DOMAIN oldset PROVE FALSE
  OBVIOUS
<1>6. f \in Colliding(new, oldset)
  BY <1>4, <1>5 DEF Colliding
<1>7. rule \in {"owned", "collision"}
  BY RuleAssumption DEF IInv, TypeOK, Intact
<1>8. Blocked(new, oldset)
  BY <1>1, <1>6, <1>7 DEF Blocked
<1>9. QED BY <1>8

\* A merge begins only where no other package has recorded what it brings.
LEMMA StartClash ==
    ASSUME IInv, FInv, Start, op' # op
    PROVE  NoClash'
<1>1. /\ UNCHANGED <<disk, vdb, rule, interrupted>> /\ op = Idle
  BY StartDoes
<1>2. SUFFICES ASSUME Intact, Installs', NEW p \in Recorded, p # op'.old,
                      NEW f \in DOMAIN vdb[p] \cap DOMAIN Image[op'.new],
                      f \notin Protected, ~Aliased(f)
               PROVE  FALSE
  BY <1>1 DEF NoClash, Intact, Recorded, Listed
<1>3. /\ op.old = None /\ None \notin Packages /\ Recorded \subseteq Listed
      /\ Listed \subseteq Packages
  BY <1>1, SentinelAssumption DEF Idle, Recorded, Listed
<1>4. disk[f] = vdb[p][f]
  BY <1>2, <1>3 DEF FInv, InstalledFilesPresent
<1>5. \A new \in Packages : \A oldset :
        new = op'.new /\ ~Blocked(new, oldset) => f \in DOMAIN oldset
  BY <1>2, <1>4, NotBlocked
<1>6. CASE op'.kind = "install"
  <2>1. f \in DOMAIN <<>>
    BY <1>5, <1>6, StartDoes
  <2>2. QED BY <2>1
<1>7. CASE op'.kind = "replace"
  <2>1. PICK new \in Packages, old \in Listed :
               /\ new = op'.new /\ old = op'.old
               /\ vdb[old] \in Csets
               /\ ~Blocked(new, OnDisk(DOMAIN vdb[old]))
    BY <1>2, <1>7, StartDoes DEF Intact
  <2>2. f \in DOMAIN OnDisk(DOMAIN vdb[old])
    BY <1>5, <2>1
  <2>3. f \in DOMAIN vdb[old] /\ old \in Recorded /\ old # p
    BY <1>2, <2>1, <2>2, SentinelAssumption DEF OnDisk, Recorded
  <2>4. QED BY <1>2, <2>3 DEF FInv, OneOwner
<1>8. QED BY <1>2, <1>6, <1>7 DEF Installs
\* ... and none comes to record it before the merge does.
LEMMA NoClashStep == IInv /\ FInv /\ [Next]_vars => NoClash'
<1> SUFFICES ASSUME IInv, FInv, [Next]_vars PROVE NoClash'
  OBVIOUS
<1> USE DEF Installs
<1>0. TypeOK /\ op \in Ops /\ Kinds /\ NoClash
  BY DEF IInv, FInv, TypeOK
\* Steps after which no more is recorded than before.
<1>a. ASSUME op'.kind = op.kind, op'.new = op.new, op'.old = op.old,
             op.stage # "finalized" \/ op'.stage = "finalized",
             rule' = rule, interrupted' = interrupted,
             \A p \in Packages : vdb'[p] = vdb[p] \/ vdb'[p] \in {Absent, Torn}
      PROVE  NoClash'
  BY <1>0, <1>a DEF NoClash, Intact, Recorded, Listed
<1>1. CASE Start
  <2>1. CASE op' = op
    BY <1>1, <1>a, <2>1 DEF Start
  <2>2. CASE op' # op
    BY <1>1, <2>2, StartClash
  <2>3. QED BY <2>1, <2>2
<1>2. CASE PreMerge
  BY <1>2, <1>a, PreMergeDoes
<1>3. CASE MergeFile
  BY <1>0, <1>3, <1>a DEF MergeFile, Ops
<1>4. CASE PostMerge
  BY <1>0, <1>4, <1>a DEF PostMerge, Ops
<1>5. CASE AddData
  BY <1>0, <1>5, <1>a DEF AddData, Ops
<1>6. CASE PreUnmerge
  BY <1>6, <1>a, PreUnmergeDoes
<1>7. CASE UnmergeFile
  BY <1>0, <1>7, <1>a DEF UnmergeFile, Ops
<1>8. CASE PostUnmerge
  BY <1>0, <1>8, <1>a DEF PostUnmerge, Ops
<1>9. CASE TearEntry
  BY <1>9, <1>a, TearEntryDoes
<1>10. CASE RemoveEntry
  BY <1>10, <1>a, RemoveEntryDoes
<1>11. CASE RenameEntry
  BY <1>11, RenameEntryDoes DEF NoClash
<1>12. CASE Finish
  BY <1>12, IdleOp DEF Finish, NoClash
<1>13. CASE Interrupt
  BY <1>13, IdleOp DEF Interrupt, NoClash
<1>14. CASE Administrator
  BY <1>0, <1>14, <1>a, AdministratorDoes
<1>15. CASE UNCHANGED vars
  BY <1>15, <1>a DEF vars
<1>16. QED BY <1>1, <1>2, <1>3, <1>4, <1>5, <1>6, <1>7, <1>8, <1>9, <1>10, <1>11,
              <1>12, <1>13, <1>14, <1>15 DEF Next

\* A file with one name, of a package merged and recorded, is as it was brought.
LEMMA NewIsPresent ==
    ASSUME IInv, FInv, Installs, op.stage \in {"recorded", "swap", "finalized"},
           NEW f \in DOMAIN Image[op.new], f \notin Protected, ~Aliased(f)
    PROVE  disk[f] = Image[op.new][f]
<1>1. op.new \in Packages /\ op \in Ops /\ DOMAIN Image[op.new] \subseteq Files
  BY ImageCset DEF IInv, TypeOK, Kinds
<1>2. op.kind = "replace" /\ (Unmerging \/ Past) => DOMAIN op.oldset \subseteq Files
  <2>1. op.kind = "replace" /\ (Unmerging \/ Past) => op.oldset \in Csets
    BY <1>1 DEF FInv, OldBook, Removes, Ops
  <2>2. QED BY <2>1, CsetFunction
<1>3. ~TwoNames(f)
  BY <1>1, <1>2, SoleName DEF TwoNames
<1>4. Present(f)
  BY <1>3 DEF FInv, Written, Merging
<1>5. Place[f] = f
  BY <1>1, SoleName
<1>6. QED BY <1>4, <1>5 DEF Present

\* No step takes a file from a package that has it recorded.
LEMMA InstalledStep == IInv /\ FInv /\ [Next]_vars => InstalledFilesPresent'
<1> SUFFICES ASSUME IInv, FInv, [Next]_vars PROVE InstalledFilesPresent'
  OBVIOUS
<1>0. /\ TypeOK /\ op \in Ops /\ Kinds /\ InstalledFilesPresent
      /\ Recorded \subseteq Packages
      /\ \A p \in Recorded : vdb[p] \in Csets /\ DOMAIN vdb[p] \subseteq Files
  <2>1. \A p \in Recorded : p \in Packages /\ vdb[p] \in Csets
    BY DEF IInv, TypeOK, Recorded, Listed
  <2>2. QED BY <2>1, CsetFunction DEF IInv, FInv, TypeOK
<1>x. \A f \in Files : f \in Names
  BY DEF Names
\* Steps that record no more and change no file of another package's.
<1>a. ASSUME op'.old = op.old, rule' = rule, interrupted' = interrupted,
             \A p \in Packages : vdb'[p] = vdb[p] \/ vdb'[p] \in {Absent, Torn},
             Intact => \A p \in Recorded \ {op.old} : \A f \in DOMAIN vdb[p] \ Protected :
                         ~Aliased(f) => disk'[f] = disk[f]
      PROVE  InstalledFilesPresent'
  BY <1>0, <1>a DEF InstalledFilesPresent, Intact, Recorded, Listed
<1>1. CASE Start
  <2>1. CASE op' = op
    BY <1>1, <1>a, <2>1 DEF Start
  <2>2. CASE op' # op
    <3>1. op = Idle /\ UNCHANGED <<disk, vdb, rule, interrupted>>
      BY <1>1, <2>2, StartDoes
    <3>2. op.old \notin Recorded
      BY <1>0, <3>1, SentinelAssumption DEF Idle
    <3>3. QED BY <1>0, <3>1, <3>2 DEF InstalledFilesPresent, Intact, Recorded, Listed
  <2>3. QED BY <2>1, <2>2
<1>2. CASE PreMerge
  BY <1>2, <1>a, PreMergeDoes
<1>3. CASE MergeFile
  <2>1. PICK n \in op.todo :
             /\ n \in Names /\ n \in DOMAIN op.install
             /\ \A m \in Names : m # At(n) => disk'[m] = disk[m]
             /\ op' = [op EXCEPT !.todo = op.todo \ {n}]
    BY <1>3, MergeFileDoes
  <2>2. /\ op'.old = op.old /\ op.stage = "merge" /\ Merging /\ Installs
        /\ vdb' = vdb /\ rule' = rule /\ interrupted' = interrupted
    BY <1>0, <1>3, <2>1 DEF Ops, MergeFile, Merging, Kinds
  <2>3. ASSUME Intact, NEW p \in Recorded \ {op.old}, NEW f \in DOMAIN vdb[p] \ Protected,
               ~Aliased(f)
        PROVE  disk'[f] = disk[f]
    <3>1. SUFFICES ASSUME At(n) = f PROVE FALSE
      BY <1>0, <1>x, <2>1
    <3>2. n \in DOMAIN Image[op.new] /\ n \in Files /\ Place[n] = f
      BY <1>0, <2>2, <2>3, <3>1, MergedIsCovered, <2>1, AtOff
    <3>3. n = f
      BY <1>0, <2>3, <3>2, SoleName
    <3>4. QED BY <2>2, <2>3, <3>2, <3>3 DEF FInv, NoClash
  <2>4. QED BY <1>a, <2>2, <2>3
<1>4. CASE PostMerge
  BY <1>0, <1>4, <1>a DEF PostMerge, Ops
<1>5. CASE AddData
  BY <1>0, <1>5, <1>a DEF AddData, Ops
<1>6. CASE PreUnmerge
  BY <1>6, <1>a, PreUnmergeDoes
<1>7. CASE UnmergeFile
  <2>1. PICK n \in op.todo :
             /\ n \in Names
             /\ \A m \in Names : m # At(n) => disk'[m] = disk[m]
             /\ op' = [op EXCEPT !.todo = op.todo \ {n}]
    BY <1>7, UnmergeFileDoes
  <2>2. /\ op'.old = op.old /\ Unmerging
        /\ vdb' = vdb /\ rule' = rule /\ interrupted' = interrupted
    BY <1>0, <1>7, <2>1 DEF Ops, UnmergeFile, Unmerging
  <2>3. ASSUME Intact, NEW p \in Recorded \ {op.old}, NEW f \in DOMAIN vdb[p] \ Protected,
               ~Aliased(f)
        PROVE  disk'[f] = disk[f]
    <3>1. SUFFICES ASSUME At(n) = f PROVE FALSE
      BY <1>0, <1>x, <2>1
    <3>2. /\ n \in Files /\ Place[n] = f /\ n \in DOMAIN vdb[op.old]
          /\ op.old \in Packages /\ vdb[op.old] \in Csets
      BY <2>2, <3>1, UnmergedNames
    <3>3. n = f
      BY <1>0, <2>3, <3>2, SoleName
    <3>4. op.old \in Recorded
      BY <3>2, SentinelAssumption DEF Recorded, Listed
    <3>5. QED BY <2>3, <3>2, <3>3, <3>4 DEF FInv, OneOwner
  <2>4. QED BY <1>a, <2>2, <2>3
<1>8. CASE PostUnmerge
  BY <1>0, <1>8, <1>a DEF PostUnmerge, Ops
<1>9. CASE TearEntry
  BY <1>9, <1>a, TearEntryDoes
<1>10. CASE RemoveEntry
  BY <1>10, <1>a, RemoveEntryDoes
<1>11. CASE RenameEntry
  <2>1. /\ op.new \in Packages /\ Installs /\ op.stage \in {"recorded", "swap"}
        /\ op'.old = op.old /\ vdb'[op.new] = Image[op.new]
        /\ \A p \in Packages \ {op.new} : vdb'[p] = vdb[p]
        /\ disk' = disk /\ rule' = rule /\ interrupted' = interrupted
    BY <1>11, RenameEntryDoes
  <2>2. ASSUME NEW f \in DOMAIN Image[op.new] \ Protected, ~Aliased(f)
        PROVE  disk[f] = Image[op.new][f]
    BY <2>1, <2>2, NewIsPresent
  <2>3. QED BY <1>0, <2>1, <2>2 DEF InstalledFilesPresent, Intact, Recorded, Listed
<1>12. CASE Finish
  <2>1. UNCHANGED <<disk, vdb, rule, interrupted>> /\ op.stage = "finalized"
    BY <1>12 DEF Finish
  <2>2. ASSUME op.old \in Recorded
        PROVE  Installs /\ op.new = op.old /\ vdb[op.old] = Image[op.new]
    <3>1. op.kind # "none" /\ op.kind # "install" /\ vdb[op.old] # Absent
      BY <1>0, <2>1, <2>2, SentinelAssumption, IdleOp DEF Kinds, FInv, OldBook, Recorded, Listed
    <3>2. op.kind = "replace" /\ op.old = op.new
      BY <1>0, <2>1, <3>1 DEF FInv, OldBook, Ops
    <3>3. QED BY <2>1, <3>2 DEF FInv, Brought, Installs
  <2>3. ASSUME op.old \in Recorded, NEW f \in DOMAIN vdb[op.old] \ Protected, ~Aliased(f)
        PROVE  disk[f] = vdb[op.old][f]
    BY <2>1, <2>2, <2>3, NewIsPresent
  <2>4. QED BY <1>0, <2>1, <2>3 DEF InstalledFilesPresent, Intact, Recorded, Listed
<1>13. CASE Interrupt
  BY <1>13 DEF Interrupt, InstalledFilesPresent, Intact
<1>14. CASE Administrator
  <2>1. /\ op' = op /\ vdb' = vdb /\ rule' = rule /\ interrupted' = interrupted
        /\ \A f \in Files \ Protected : disk'[f] = disk[f]
    BY <1>0, <1>14, AdministratorDoes
  <2>2. QED BY <1>0, <1>a, <2>1
<1>15. CASE UNCHANGED vars
  BY <1>15, <1>a DEF vars
<1>16. QED BY <1>1, <1>2, <1>3, <1>4, <1>5, <1>6, <1>7, <1>8, <1>9, <1>10, <1>11,
              <1>12, <1>13, <1>14, <1>15 DEF Next

\* A package is recorded when no other has recorded its files.
LEMMA OwnerStep == IInv /\ FInv /\ [Next]_vars => OneOwner'
<1> SUFFICES ASSUME IInv, FInv, [Next]_vars PROVE OneOwner'
  OBVIOUS
<1>0. TypeOK /\ OneOwner
  BY DEF IInv, FInv
<1>a. ASSUME rule' = rule, interrupted' = interrupted,
             \A p \in Packages : vdb'[p] = vdb[p] \/ vdb'[p] \in {Absent, Torn}
      PROVE  OneOwner'
  BY <1>0, <1>a DEF OneOwner, Intact, Recorded, Listed
<1>1. CASE Start \/ PreMerge \/ MergeFile \/ PostMerge \/ AddData
  BY <1>1, <1>a DEF Start, PreMerge, MergeFile, PostMerge, AddData
<1>2. CASE PreUnmerge \/ UnmergeFile \/ PostUnmerge \/ Finish
  BY <1>2, <1>a DEF PreUnmerge, UnmergeFile, PostUnmerge, Finish
<1>3. CASE TearEntry
  BY <1>3, <1>a, TearEntryDoes
<1>4. CASE RemoveEntry
  BY <1>4, <1>a, RemoveEntryDoes
<1>5. CASE RenameEntry
  <2>1. /\ op.new \in Packages /\ Installs /\ op.stage \in {"recorded", "swap"}
        /\ vdb'[op.new] = Image[op.new]
        /\ \A p \in Packages \ {op.new} : vdb'[p] = vdb[p]
        /\ rule' = rule /\ interrupted' = interrupted
        /\ op.kind = "replace" => vdb[op.old] = Absent
    BY <1>5, RenameEntryDoes
  <2>2. op.old \notin Recorded
    BY <2>1, SentinelAssumption DEF FInv, OldBook, Installs, Recorded, Listed
  <2>3. Intact => \A p \in Recorded : \A f \in DOMAIN vdb[p] \cap DOMAIN Image[op.new] :
                    f \in Protected \/ Aliased(f)
    BY <2>1, <2>2 DEF FInv, NoClash
  <2>4. QED BY <1>0, <2>1, <2>3 DEF OneOwner, Intact, Recorded, Listed
<1>6. CASE Interrupt
  BY <1>6 DEF Interrupt, OneOwner, Intact
<1>7. CASE Administrator
  BY <1>0, <1>7, <1>a, AdministratorDoes
<1>8. CASE UNCHANGED vars
  BY <1>8, <1>a DEF vars
<1>9. QED BY <1>1, <1>2, <1>3, <1>4, <1>5, <1>6, <1>7, <1>8 DEF Next
-----------------------------------------------------------------------------
\* At the start there is no operation, no entry and no file.
LEMMA FInvInit == Init => FInv
<1> SUFFICES ASSUME Init PROVE FInv
  OBVIOUS
<1>1. op = Idle /\ op.kind = "none" /\ op.stage = "idle" /\ op.oldset = Absent
  BY IdleOp DEF Init, Idle
<1>2. Listed = {} /\ \A f \in Files : disk[f] = Absent
  BY DEF Init, Listed, Names
<1>3. Brought /\ OldBook /\ OldFiles /\ Written /\ NoClash /\ Room
  BY <1>1 DEF Brought, OldBook, OldFiles, Written, NoClash, Room, Installs, Removes,
              Merging, Unmerging, Past
<1>4. Covered /\ InstalledFilesPresent /\ OneOwner
  BY <1>2 DEF Covered, InstalledFilesPresent, OneOwner, Recorded
<1>5. QED BY <1>3, <1>4 DEF FInv

\* The invariant the theorems on the files rest on.
THEOREM FilesInductive == Spec => [](IInv /\ FInv)
<1>1. IInv /\ FInv /\ [Next]_vars => IInv' /\ FInv'
  BY TypeStep, StageStep, EditsStep, SlotStep, BroughtStep, OldBookStep, OldFilesStep,
     CoveredStep, WrittenStep, NoClashStep, InstalledStep, OwnerStep, RoomStep DEF IInv, FInv
<1>2. QED BY IInvInit, FInvInit, <1>1, PTL DEF Spec

\* No package brings one file under two names.
OneName ==
    \A p \in Packages : \A f, g \in DOMAIN Image[p] : Place[f] = Place[g] => f = g

\* FilesAndEntriesAgree: where no package brings one file under two names, what a
\* merge has recorded is on the disk; what a package recorded stays there, its own
\* alone, where collisions are looked for; and no file is left without an owner.
THEOREM FilesAgree == OneName => (Spec => []FilesAndEntriesAgree)
<1> SUFFICES ASSUME OneName PROVE Spec => []FilesAndEntriesAgree
  OBVIOUS
<1>1. ASSUME IInv, FInv PROVE NewVersionPresent
  <2>1. SUFFICES ASSUME op.stage = "finalized", Installs, NEW f \in DOMAIN Image[op.new]
                 PROVE  \/ Present(f)
                        \/ op.kind = "replace" /\ \E g \in DOMAIN op.oldset \ {f} : Place[g] = Place[f]
    BY DEF NewVersionPresent, Present
  <2>2. Present(f) \/ TwoNames(f)
    BY <1>1, <2>1 DEF FInv, Written, Merging
  <2>3. op.new \in Packages
    BY <1>1, <2>1 DEF IInv, Kinds
  <2>4. QED BY <2>2, <2>3 DEF TwoNames, OneName
<1>2. ASSUME IInv, FInv PROVE NothingLeftBehind
  <2>1. op = Idle => \A f : ~CoveredNew(f)
    BY IdleOp DEF CoveredNew, Installs
  <2>2. QED BY <1>2, <2>1 DEF FInv, Covered, Owned, NothingLeftBehind
<1>3. IInv /\ FInv => FilesAndEntriesAgree
  BY <1>1, <1>2 DEF FilesAndEntriesAgree, FInv
<1>4. QED BY FilesInductive, <1>3, PTL
-----------------------------------------------------------------------------
\* A removal tears an entry when no file of it is left but what the new package
\* brings.
LEMMA EntryStep ==
    ASSUME IInv, FInv, [Next]_vars, NEW p \in Recorded, vdb'[p] = Torn,
           NEW f \in Off(DOMAIN vdb[p])
    PROVE  disk[Place[f]] = Absent \/ \E g \in DOMAIN op.install : Place[g] = Place[f]
<1>0. p \in Packages /\ vdb[p] # Torn /\ vdb[p] # Absent /\ Absent # Torn
  BY SentinelAssumption DEF Recorded, Listed
<1>1. CASE TearEntry
  <2>1. op.old \in Packages /\ op.stage = "unmerged" /\ p = op.old
    BY <1>0, <1>1, TearEntryDoes
  <2>2. op.oldset # Absent /\ op.todo = {} /\ (Installs => op.install = Image[op.new])
    BY <2>1 DEF FInv, OldBook, Brought, Unmerging, Merging
  <2>3. disk[Place[f]] = Absent \/ CoveredNew(Place[f])
    BY <2>1, <2>2 DEF FInv, OldFiles, Unmerging, Past
  <2>4. QED BY <2>2, <2>3 DEF CoveredNew
<1>2. CASE RemoveEntry
  BY <1>0, <1>2, RemoveEntryDoes
<1>3. CASE RenameEntry
  BY <1>0, <1>3, RenameEntryDoes, ImageCset
<1>4. CASE ~ (TearEntry \/ RemoveEntry \/ RenameEntry)
  <2>1. vdb' = vdb
    BY <1>4 DEF Next, vars, Start, PreMerge, MergeFile, PostMerge, AddData, PreUnmerge,
                UnmergeFile, PostUnmerge, Finish, Interrupt, Administrator, Edit, Settle
  <2>2. QED BY <1>0, <2>1
<1>5. QED BY <1>1, <1>2, <1>3, <1>4

\* RecordOutlivesFiles: an entry is torn when the files it records are gone or the
\* new package's, so that a removal cut short leaves no file unrecorded.
THEOREM RecordsOutliveFiles == Spec => RecordOutlivesFiles
<1>1. IInv /\ FInv /\ [Next]_vars =>
        [\A p \in Recorded : vdb'[p] = Torn =>
           \A f \in DOMAIN vdb[p] :
             \/ Place[f] \in Protected
             \/ disk[Place[f]] = Absent
             \/ \E g \in DOMAIN op.install : Place[g] = Place[f]]_vars
  BY EntryStep DEF Off
<1>2. QED BY FilesInductive, <1>1, PTL DEF Spec, RecordOutlivesFiles

\* A step of an operation leaves the pending updates as they are.
LEMMA UpdateStep ==
    ASSUME IInv, FInv, [Next]_vars, op' # op, NEW u \in Updates, disk[u] # Absent
    PROVE  disk'[u] = disk[u]
<1>0. u \in Names /\ u \notin Files /\ TypeOK /\ op \in Ops
  BY PlaceAssumption DEF Names, IInv, TypeOK
<1>1. CASE MergeFile
  <2>1. PICK n \in op.todo :
             /\ n \in Names
             /\ \A m \in Names : m # At(n) => disk'[m] = disk[m]
    BY <1>1, MergeFileDoes
  <2>2. ASSUME At(n) = u PROVE n = u
    BY <1>0, <2>1, <2>2, PlaceAssumption DEF At, Names
  <2>3. Merging
    BY <1>1 DEF MergeFile, Merging
  <2>4. At(n) # u
    BY <2>1, <2>2, <2>3 DEF FInv, Room
  <2>5. QED BY <1>0, <2>1, <2>4
<1>2. CASE UnmergeFile
  <2>1. PICK n \in op.todo :
             /\ n \in Names
             /\ \A m \in Names : m # At(n) => disk'[m] = disk[m]
    BY <1>2, UnmergeFileDoes
  <2>2. At(n) \in Files
    BY <1>2, UnmergedNames DEF UnmergeFile, Unmerging
  <2>3. QED BY <1>0, <2>1, <2>2
<1>3. CASE ~ (MergeFile \/ UnmergeFile)
  BY <1>3 DEF Next, vars, Start, PreMerge, PostMerge, AddData, PreUnmerge, PostUnmerge,
              TearEntry, RemoveEntry, RenameEntry, Finish, Interrupt, Administrator,
              Edit, Settle
<1>4. QED BY <1>1, <1>2, <1>3

\* UpdatesKept: the number of a pending update is above all there are, so that no
\* operation writes over one, or removes it.
THEOREM UpdatesAreKept == Spec => UpdatesKept
<1>1. IInv /\ FInv /\ [Next]_vars =>
        [op' # op => \A u \in Updates : disk[u] # Absent => disk'[u] = disk[u]]_vars
  BY UpdateStep
<1>2. QED BY FilesInductive, <1>1, PTL DEF Spec, UpdatesKept
=============================================================================
