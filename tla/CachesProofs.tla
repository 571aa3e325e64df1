----------------------------- MODULE CachesProofs ----------------------------
(***************************************************************************)
(* Proofs about the two memories that have to agree with what is on the    *)
(* disk: RepoMemo, of the contents of a repository, and MetadataCache, of  *)
(* the metadata of its packages.                                           *)
(*                                                                         *)
(* RepoMemo, for every set of entries, keys and categories.                *)
(* What a repository remembers lies between what it has to show and what   *)
(* it may show (Fits).  Between operations both are what the disk holds;   *)
(* within one they differ by the entry the repository was, or was not yet, *)
(* told of (Lo, Mid, Hi).  Reading the disk never leaves these bounds, and *)
(* each notification brings what is remembered to where the bounds move.   *)
(***************************************************************************)
EXTENDS RepoMemo, MetadataCache, FiniteSetTheorems, TLAPS

\* The entries of S that are versions of k, and the keys S has in category c.
VersIn(S, k) == {e \in S : KeyOf[e] = k}
KeysOf(S, c) == {KeyOf[e] : e \in {x \in S : Cat(x) = c}}

Memos == [cats : Sets(Cats), pkgs : [Cats -> Sets(Keys)],
          vers : [Keys -> Sets(Entries)], staged : [Keys -> Sets(Entries)]]

\* Versions of k that show all of lo and nothing that is not in hi.
Within(s, k, lo, hi) == s # Unread /\ VersIn(lo, k) \subseteq s /\ s \subseteq VersIn(hi, k)

\* A memory that shows the versions in lo, the packages and categories of mid, and
\* nothing that is not in hi.
Fits(m, lo, mid, hi) ==
    /\ m \in Memos
    /\ m.cats # Unread => \A e \in mid : Cat(e) \in m.cats
    /\ \A c \in Cats : m.pkgs[c] # Unread =>
         /\ KeysOf(mid, c) \subseteq m.pkgs[c]
         /\ m.pkgs[c] \subseteq KeysOf(hi, c)
         /\ \A k \in m.pkgs[c] : m.vers[k] = Unread => Within(m.staged[k], k, lo, hi)
    /\ \A k \in Keys : m.vers[k] # Unread => Within(m.vers[k], k, lo, hi)

\* What the repository was not told of yet: that it has come, that it has gone; and
\* what it was told is gone while it is still there.
Late == {e \in {op.new} : op.stage = "renamed"}
Gone == {e \in {op.old} : op.stage = "finalized"}
Noticed == {e \in {op.old} : op.stage = "noticed"}

Lo == entries \ (hidden \cup Noticed \cup Late)
Mid == entries \ Late
Hi == (entries \cup Gone) \ Noticed

\* The operations, as far as they have come.
Installing ==
    /\ op.kind = "install" /\ op.new \in Entries
    /\ op.stage \in {"add_data", "renamed"}
    /\ op.stage = "add_data" => op.new \in litter
    /\ op.stage = "renamed" => op.new \in entries
Uninstalling ==
    /\ op.kind = "uninstall" /\ op.old \in held
    /\ op.stage \in {"remove_data", "finalized"}
    /\ op.stage = "remove_data" <=> op.old \in entries
Replacing ==
    /\ op.kind = "replace" /\ op.new \in Entries /\ op.old \in Entries
    /\ KeyOf[op.new] = KeyOf[op.old]
    /\ op.stage \in {"add_data", "noticed", "removed", "renamed"}
    /\ op.stage # "renamed" => op.new \in litter
    /\ op.stage = "renamed" => op.new \in entries
    /\ op.stage = "add_data" => op.old \in held
    /\ op.stage \in {"add_data", "noticed"} => op.old \in entries
    /\ op.stage \in {"add_data", "noticed"} /\ kind = "binpkg" => op.new = op.old
OpOK == op = Idle \/ Installing \/ Uninstalling \/ Replacing

\* What is operated on is remembered.
Remembered(m, e) ==
    /\ m.vers[KeyOf[e]] # Unread /\ e \in m.vers[KeyOf[e]]
    /\ m.cats # Unread => Cat(e) \in m.cats

MemoInv ==
    /\ MemoTypeOK
    /\ ~raised
    /\ OpOK
    /\ \A e \in entries \cup litter \cup Gone : Cat(e) \in dirs
    /\ kind = "vdb" /\ memo.cats # Unread => memo.cats \subseteq dirs
    /\ \A e \in held : Remembered(memo, e)
    /\ Fits(memo, Lo, Mid, Hi)
-----------------------------------------------------------------------------
(* Reading the disk.                                                       *)

\* What is on the disk is within the bounds.
Readable(lo, mid, hi) ==
    /\ lo \subseteq entries /\ mid \subseteq entries /\ entries \subseteq hi
    /\ entries \subseteq Entries /\ hi \subseteq Entries /\ dirs \subseteq Cats
    /\ \A e \in entries : Cat(e) \in dirs

LEMMA Sorts ==
    /\ \A e \in Entries : KeyOf[e] \in Keys /\ Cat(e) \in Cats /\ Cat(e) = CatOf[KeyOf[e]]
    /\ \A S \in SUBSET Entries : S # Unread
    /\ \A S \in SUBSET Keys : S # Unread
    /\ \A S \in SUBSET Cats : S # Unread
<1>1. \A e \in Entries : KeyOf[e] \in Keys /\ Cat(e) \in Cats /\ Cat(e) = CatOf[KeyOf[e]]
  BY RepoAssumption DEF Cat
<1>2. ASSUME NEW S, S \in SUBSET Entries \/ S \in SUBSET Keys \/ S \in SUBSET Cats
      PROVE  S # Unread
  <2>1. S \in (SUBSET Entries) \cup (SUBSET Keys) \cup (SUBSET Cats)
    BY <1>2
  <2>2. QED BY <2>1, RepoAssumption
<1>3. QED BY <1>1, <1>2

\* What is remembered of anything is a set, if it is remembered.
LEMMA MemoSorts ==
    ASSUME NEW m \in Memos
    PROVE  /\ m.cats # Unread => m.cats \subseteq Cats
           /\ \A c \in Cats : m.pkgs[c] # Unread => m.pkgs[c] \subseteq Keys
           /\ \A k \in Keys : m.vers[k] # Unread => m.vers[k] \subseteq Entries
<1>1. ASSUME NEW S, NEW s \in Sets(S), s # Unread PROVE s \subseteq S
  BY <1>1 DEF Sets
<1>2. m.cats \in Sets(Cats)
  BY DEF Memos
<1>3. \A c \in Cats : m.pkgs[c] \in Sets(Keys)
  BY DEF Memos
<1>4. \A k \in Keys : m.vers[k] \in Sets(Entries)
  BY DEF Memos
<1>5. QED BY <1>1, <1>2, <1>3, <1>4

\* A memory that fits wider bounds.
LEMMA Widens ==
    ASSUME NEW m, NEW lo, NEW mid, NEW hi, NEW lo2, NEW mid2, NEW hi2, Fits(m, lo, mid, hi),
           lo2 \subseteq lo, mid2 \subseteq mid, hi \subseteq hi2
    PROVE  Fits(m, lo2, mid2, hi2)
<1>1. \A s, k : Within(s, k, lo, hi) => Within(s, k, lo2, hi2)
  BY DEF Within, VersIn
<1>2. \A c : KeysOf(mid2, c) \subseteq KeysOf(mid, c) /\ KeysOf(hi, c) \subseteq KeysOf(hi2, c)
  BY DEF KeysOf
<1>3. QED BY <1>1, <1>2 DEF Fits

\* _get_categories
LEMMA FillCats ==
    ASSUME NEW m, NEW lo, NEW mid, NEW hi, Readable(lo, mid, hi), Fits(m, lo, mid, hi)
    PROVE  /\ Fits(WithCats(m), lo, mid, hi)
           /\ WithCats(m).cats = (IF m.cats = Unread THEN dirs ELSE m.cats)
           /\ WithCats(m).cats # Unread /\ WithCats(m).cats \subseteq Cats
           /\ WithCats(m).pkgs = m.pkgs /\ WithCats(m).vers = m.vers
           /\ WithCats(m).staged = m.staged
<1>1. m \in Memos
  BY DEF Fits
<1>2. dirs \in SUBSET Cats /\ dirs # Unread /\ dirs \in Sets(Cats)
  BY Sorts DEF Readable, Sets
<1>3. CASE m.cats = Unread
  <2> DEFINE n == [m EXCEPT !.cats = dirs]
  <2>1. /\ n \in Memos /\ n.cats = dirs /\ n.pkgs = m.pkgs /\ n.vers = m.vers
        /\ n.staged = m.staged
    BY <1>1, <1>2 DEF Memos
  <2>2. \A e \in mid : Cat(e) \in n.cats
    BY <2>1 DEF Readable
  <2> HIDE DEF n
  <2>3. Fits(n, lo, mid, hi)
    BY <2>1, <2>2 DEF Fits
  <2>4. QED BY <1>2, <1>3, <2>1, <2>3 DEF WithCats, n
<1>4. CASE m.cats # Unread
  BY <1>1, <1>4, MemoSorts DEF WithCats
<1>5. QED BY <1>3, <1>4

\* _get_packages: the packages of a category are right, and so are the versions that
\* come with them.
LEMMA FillPkgs ==
    ASSUME NEW m, NEW lo, NEW mid, NEW hi, Readable(lo, mid, hi), Fits(m, lo, mid, hi),
           NEW c \in Cats
    PROVE  /\ Fits(WithPkgs(m, c), lo, mid, hi)
           /\ WithPkgs(m, c).vers = m.vers
           /\ WithPkgs(m, c).cats \in {m.cats, WithCats(m).cats}
           /\ m.pkgs[c] # Unread => WithPkgs(m, c) = m
           /\ WithPkgs(m, c).pkgs[c] = Unread => c \notin WithCats(m).cats \cap dirs
           /\ m.pkgs[c] = Unread /\ WithPkgs(m, c).pkgs[c] # Unread =>
                WithPkgs(m, c).pkgs[c] = KeysIn(c)
           /\ \A d \in Cats : d # c => WithPkgs(m, c).pkgs[d] = m.pkgs[d]
<1> DEFINE n == WithCats(m)
           keys == KeysIn(c)
           r == ReadPackages(n, c)
<1>1. /\ Fits(n, lo, mid, hi) /\ n.pkgs = m.pkgs /\ n.vers = m.vers /\ n.staged = m.staged
      /\ n \in Memos
  BY FillCats DEF Fits
<1>2. CASE m.pkgs[c] # Unread
  BY <1>2 DEF WithPkgs
<1>3. CASE m.pkgs[c] = Unread /\ c \notin n.cats \cap dirs
  <2>1. WithPkgs(m, c) = n
    BY <1>3 DEF WithPkgs
  <2>2. QED BY <1>1, <1>3, <2>1
<1>4. CASE m.pkgs[c] = Unread /\ c \in n.cats \cap dirs
  <2>1. WithPkgs(m, c) = r
    BY <1>4 DEF WithPkgs
  <2>2. keys = KeysOf(entries, c) /\ keys \in SUBSET Keys /\ keys # Unread
    BY Sorts DEF KeysIn, KeysOf, Readable
  <2>3. KeysOf(mid, c) \subseteq keys /\ keys \subseteq KeysOf(hi, c)
    BY <2>2 DEF KeysOf, Readable
  <2>4. \A k \in Keys : Of(k) = VersIn(entries, k) /\ Of(k) \in SUBSET Entries /\ Of(k) # Unread
    BY Sorts DEF Of, VersIn, Readable
  <2>5. \A k \in Keys : Within(Of(k), k, lo, hi)
    BY <2>4 DEF Within, VersIn, Readable
  <2> HIDE DEF keys, n
  <2>6. r = [n EXCEPT !.pkgs[c] = keys,
                      !.staged = [k \in Keys |-> IF k \in keys THEN Of(k) ELSE n.staged[k]]]
    BY <1>1 DEF ReadPackages, keys, Memos
  <2>7. [k \in Keys |-> IF k \in keys THEN Of(k) ELSE n.staged[k]] \in [Keys -> Sets(Entries)]
    BY <1>1, <2>4 DEF Memos, Sets
  <2>8. keys \in Sets(Keys)
    BY <2>2 DEF Sets
  <2>9. /\ r \in Memos /\ r.cats = n.cats /\ r.vers = n.vers
        /\ \A d \in Cats : r.pkgs[d] = IF d = c THEN keys ELSE n.pkgs[d]
        /\ \A k \in Keys : r.staged[k] = IF k \in keys THEN Of(k) ELSE n.staged[k]
    <3> DEFINE staged == [k \in Keys |-> IF k \in keys THEN Of(k) ELSE n.staged[k]]
    <3>1. \A k \in Keys : staged[k] = IF k \in keys THEN Of(k) ELSE n.staged[k]
      OBVIOUS
    <3> HIDE DEF staged
    <3>2. r = [n EXCEPT !.pkgs[c] = keys, !.staged = staged]
      BY <2>6 DEF staged
    <3>3. staged \in [Keys -> Sets(Entries)]
      BY <2>7 DEF staged
    <3>4. r \in Memos /\ r.cats = n.cats /\ r.vers = n.vers /\ r.staged = staged
      BY <1>1, <2>8, <3>2, <3>3 DEF Memos
    <3>5. \A d \in Cats : r.pkgs[d] = IF d = c THEN keys ELSE n.pkgs[d]
      BY <1>1, <3>2 DEF Memos
    <3>6. QED BY <3>1, <3>4, <3>5
  <2> HIDE DEF r
  <2>10. ASSUME NEW d \in Cats, r.pkgs[d] # Unread
         PROVE  /\ KeysOf(mid, d) \subseteq r.pkgs[d]
                /\ r.pkgs[d] \subseteq KeysOf(hi, d)
                /\ \A k \in r.pkgs[d] : r.vers[k] = Unread => Within(r.staged[k], k, lo, hi)
    <3>1. CASE d = c
      BY <2>2, <2>3, <2>5, <2>9, <3>1
    <3>2. CASE d # c
      <4>1. r.pkgs[d] = n.pkgs[d] /\ n.pkgs[d] # Unread
        BY <2>9, <2>10, <3>2
      <4>2. /\ KeysOf(mid, d) \subseteq n.pkgs[d]
            /\ n.pkgs[d] \subseteq KeysOf(hi, d)
            /\ \A k \in n.pkgs[d] : n.vers[k] = Unread => Within(n.staged[k], k, lo, hi)
        BY <1>1, <4>1 DEF Fits
      <4>3. n.pkgs[d] \subseteq Keys
        BY <1>1, <4>1, MemoSorts
      <4>4. QED BY <2>5, <2>9, <4>1, <4>2, <4>3
    <3>3. QED BY <3>1, <3>2
  <2>11. n.cats # Unread => \A e \in mid : Cat(e) \in n.cats
    BY <1>1 DEF Fits
  <2>12. \A k \in Keys : n.vers[k] # Unread => Within(n.vers[k], k, lo, hi)
    BY <1>1 DEF Fits
  <2>13. Fits(r, lo, mid, hi)
    BY <2>9, <2>10, <2>11, <2>12 DEF Fits
  <2>14. QED BY <1>1, <1>4, <2>1, <2>2, <2>9, <2>13 DEF n, keys
<1>5. QED BY <1>2, <1>3, <1>4

\* _get_versions: the versions of a package, that came with its category's packages.
LEMMA FillVers ==
    ASSUME NEW m, NEW lo, NEW mid, NEW hi, Readable(lo, mid, hi), Fits(m, lo, mid, hi),
           NEW k \in Keys
    PROVE  /\ Fits(WithVers(m, k), lo, mid, hi)
           /\ WithVers(m, k).cats \in {m.cats, WithCats(m).cats}
           /\ m.vers[k] # Unread => WithVers(m, k) = m
           /\ \A j \in Keys : j # k => WithVers(m, k).vers[j] = m.vers[j]
           /\ WithVers(m, k).vers[k] = Unread => VersIn(mid, k) = {}
           /\ WithPkgs(m, CatOf[k]).pkgs[CatOf[k]] # Unread
              /\ k \in WithPkgs(m, CatOf[k]).pkgs[CatOf[k]] => WithVers(m, k).vers[k] # Unread
<1> DEFINE c == CatOf[k]
           n == WithPkgs(m, c)
           r == [n EXCEPT !.vers[k] = n.staged[k], !.staged[k] = Unread]
<1>1. c \in Cats
  BY RepoAssumption
<1>2. /\ Fits(n, lo, mid, hi) /\ n \in Memos /\ n.vers = m.vers
      /\ n.cats \in {m.cats, WithCats(m).cats}
      /\ n.pkgs[c] = Unread => c \notin WithCats(m).cats \cap dirs
  <2>1. /\ Fits(n, lo, mid, hi) /\ n.vers = m.vers
        /\ n.cats \in {m.cats, WithCats(m).cats}
        /\ n.pkgs[c] = Unread => c \notin WithCats(m).cats \cap dirs
    BY <1>1, FillPkgs
  <2>2. QED BY <2>1 DEF Fits
<1>3. CASE m.vers[k] # Unread
  BY <1>3 DEF WithVers
<1>4. CASE m.vers[k] = Unread /\ ~(n.pkgs[c] # Unread /\ k \in n.pkgs[c])
  <2>1. WithVers(m, k) = n
    BY <1>4 DEF WithVers
  <2>2. ASSUME NEW e \in mid, KeyOf[e] = k PROVE FALSE
    <3>1. e \in Entries /\ Cat(e) = c /\ c \in dirs
      BY <2>2, Sorts DEF Readable
    <3>2. c \in WithCats(m).cats
      BY <3>1, FillCats DEF Fits
    <3>3. n.pkgs[c] # Unread
      BY <1>2, <3>1, <3>2
    <3>4. k \in KeysOf(mid, c)
      BY <2>2, <3>1 DEF KeysOf
    <3>5. QED BY <1>1, <1>2, <1>4, <3>3, <3>4 DEF Fits
  <2>3. VersIn(mid, k) = {}
    BY <2>2 DEF VersIn
  <2>4. QED BY <1>2, <1>4, <2>1, <2>3
<1>5. CASE m.vers[k] = Unread /\ n.pkgs[c] # Unread /\ k \in n.pkgs[c]
  <2>1. WithVers(m, k) = r
    BY <1>5 DEF WithVers
  <2>2. Within(n.staged[k], k, lo, hi) /\ n.staged[k] # Unread
    BY <1>1, <1>2, <1>5 DEF Fits, Within
  <2> HIDE DEF n
  <2>3. Unread \in Sets(Entries) /\ n.staged[k] \in Sets(Entries)
    BY <1>2 DEF Sets, Memos
  <2>4. /\ r \in Memos /\ r.cats = n.cats /\ r.pkgs = n.pkgs
        /\ \A j \in Keys : /\ r.vers[j] = IF j = k THEN n.staged[k] ELSE n.vers[j]
                           /\ r.staged[j] = IF j = k THEN Unread ELSE n.staged[j]
    BY <1>2, <2>3 DEF Memos
  <2> HIDE DEF r
  <2>5. ASSUME NEW d \in Cats, r.pkgs[d] # Unread
        PROVE  /\ KeysOf(mid, d) \subseteq r.pkgs[d]
               /\ r.pkgs[d] \subseteq KeysOf(hi, d)
               /\ \A j \in r.pkgs[d] : r.vers[j] = Unread => Within(r.staged[j], j, lo, hi)
    <3>1. /\ KeysOf(mid, d) \subseteq n.pkgs[d]
          /\ n.pkgs[d] \subseteq KeysOf(hi, d)
          /\ \A j \in n.pkgs[d] : n.vers[j] = Unread => Within(n.staged[j], j, lo, hi)
      BY <1>2, <2>4, <2>5 DEF Fits
    <3>2. n.pkgs[d] \subseteq Keys
      BY <1>2, <2>4, <2>5, MemoSorts
    <3>3. QED BY <2>2, <2>4, <3>1, <3>2
  <2>6. \A j \in Keys : r.vers[j] # Unread => Within(r.vers[j], j, lo, hi)
    BY <1>2, <2>2, <2>4 DEF Fits
  <2>7. n.cats # Unread => \A e \in mid : Cat(e) \in n.cats
    BY <1>2 DEF Fits
  <2>8. Fits(r, lo, mid, hi)
    BY <2>4, <2>5, <2>6, <2>7 DEF Fits
  <2>9. QED BY <1>2, <1>5, <2>1, <2>2, <2>4, <2>8
<1>6. QED BY <1>3, <1>4, <1>5

-----------------------------------------------------------------------------
(* What is seen.                                                           *)

\* Nothing is seen that may not be, and everything that has to be, where a search
\* comes to an end; and it comes to an end if every category has its directory.
LEMMA Seen ==
    ASSUME NEW m, NEW lo, NEW mid, NEW hi, Readable(lo, mid, hi), Fits(m, lo, mid, hi),
           lo \subseteq mid
    PROVE  /\ View(m) \subseteq hi
           /\ ~SearchRaises(m) => lo \subseteq View(m)
           /\ m.cats = Unread \/ m.cats \subseteq dirs => ~SearchRaises(m)
<1>1. SeenCats(m) = WithCats(m).cats /\ SeenCats(m) \subseteq Cats
  BY FillCats DEF SeenCats
<1>2. ASSUME NEW k \in SeenKeys(m)
      PROVE  \E c \in SeenCats(m) : WithPkgs(m, c).pkgs[c] # Unread /\ k \in WithPkgs(m, c).pkgs[c]
  BY <1>2 DEF SeenKeys
<1>3. ASSUME NEW k \in SeenKeys(m) PROVE k \in Keys /\ WithVers(m, k).vers[k] # Unread
  <2>1. PICK c \in SeenCats(m) : WithPkgs(m, c).pkgs[c] # Unread /\ k \in WithPkgs(m, c).pkgs[c]
    BY <1>2
  <2>2. c \in Cats
    BY <1>1
  <2>3. Fits(WithPkgs(m, c), lo, mid, hi)
    BY <2>2, FillPkgs
  <2>4. k \in KeysOf(hi, c)
    BY <2>1, <2>2, <2>3 DEF Fits
  <2>5. k \in Keys /\ CatOf[k] = c
    BY <2>4, Sorts DEF KeysOf, Readable
  <2>6. QED BY <2>1, <2>5, FillVers
<1>4. ASSUME NEW k \in SeenKeys(m)
      PROVE  Within(WithVers(m, k).vers[k], k, lo, hi)
  <2>1. k \in Keys /\ WithVers(m, k).vers[k] # Unread
    BY <1>3
  <2>2. Fits(WithVers(m, k), lo, mid, hi)
    BY <2>1, FillVers
  <2>3. QED BY <2>1, <2>2 DEF Fits
<1>5. View(m) \subseteq hi
  BY <1>4 DEF View, Within, VersIn
<1>6. ASSUME ~SearchRaises(m), NEW e \in lo PROVE e \in View(m)
  <2> DEFINE k == KeyOf[e]
             c == Cat(e)
  <2>1. e \in mid /\ e \in Entries /\ c \in Cats
    BY Sorts DEF Readable
  <2>2. c \in SeenCats(m)
    BY <1>1, <2>1, FillCats DEF Fits
  <2>3. WithPkgs(m, c).pkgs[c] # Unread
    BY <1>6, <2>2 DEF SearchRaises
  <2>4. k \in KeysOf(mid, c)
    BY <2>1 DEF KeysOf
  <2>5. k \in WithPkgs(m, c).pkgs[c]
    <3>1. Fits(WithPkgs(m, c), lo, mid, hi)
      BY <2>1, FillPkgs
    <3>2. QED BY <2>1, <2>3, <2>4, <3>1 DEF Fits
  <2>6. k \in SeenKeys(m)
    BY <2>2, <2>3, <2>5 DEF SeenKeys
  <2>7. e \in WithVers(m, k).vers[k]
    BY <1>4, <2>6 DEF Within, VersIn
  <2>8. WithVers(m, k).vers[k] # Unread
    BY <1>3, <2>6
  <2>9. QED BY <2>6, <2>7, <2>8 DEF View
<1>7. ASSUME m.cats = Unread \/ m.cats \subseteq dirs PROVE ~SearchRaises(m)
  <2>1. SeenCats(m) \subseteq dirs
    BY <1>1, <1>7, FillCats
  <2>2. \A c \in SeenCats(m) : WithPkgs(m, c).pkgs[c] # Unread
    BY <1>1, <2>1, FillPkgs
  <2>3. QED BY <1>3, <2>2 DEF SearchRaises
<1>8. QED BY <1>5, <1>6, <1>7
-----------------------------------------------------------------------------
(* Notifications.                                                          *)

\* What notify_remove_package looks up is there, also when the entry has gone from the
\* disk already: who removes it has matched it, so its versions are remembered.
LEMMA Consults ==
    ASSUME NEW m, NEW lo, NEW mid, NEW hi, Readable(lo, mid, hi), Fits(m, lo, mid, hi),
           NEW e \in Entries, Remembered(m, e), Cat(e) \in dirs
    PROVE  /\ Fits(Consulted(m, e), lo, mid, hi)
           /\ Consulted(m, e).vers = m.vers
           /\ Consulted(m, e).cats \in {m.cats, WithCats(m).cats}
           /\ kind = "vdb" => Consulted(m, e).pkgs[Cat(e)] = WithPkgs(m, Cat(e)).pkgs[Cat(e)]
           /\ ~RemovalRaises(m, e)
<1> DEFINE k == KeyOf[e]
           c == Cat(e)
           p == WithPkgs(m, c)
           a == IF kind = "vdb" THEN p ELSE m
           b == WithVers(a, k)
           n == Consulted(m, e)
<1>1. k \in Keys /\ c \in Cats
  BY Sorts
<1>2. Fits(p, lo, mid, hi) /\ p.vers = m.vers /\ p.cats \in {m.cats, WithCats(m).cats}
  BY <1>1, FillPkgs
<1>3. c \in WithCats(m).cats
  BY FillCats DEF Remembered
<1>4. p.pkgs[c] # Unread
  BY <1>1, <1>3, FillPkgs
<1>5. WithPkgs(p, c) = p
  BY <1>4 DEF WithPkgs
<1>6. Fits(a, lo, mid, hi) /\ a.vers = m.vers /\ a.cats \in {m.cats, WithCats(m).cats}
  BY <1>2
<1>7. a.vers[k] # Unread
  BY <1>6 DEF Remembered
<1>8. b = a
  BY <1>7 DEF WithVers
<1>9. WithPkgs(a, c) = p
  BY <1>5
<1>10. n = IF b.vers[k] = Unread \/ b.vers[k] \ {e} # {} THEN b ELSE WithPkgs(b, c)
  BY DEF Consulted
<1>11. n = IF a.vers[k] \ {e} # {} THEN a ELSE p
  BY <1>7, <1>8, <1>9, <1>10
<1>12. /\ Fits(n, lo, mid, hi) /\ n.vers = m.vers /\ n.cats \in {m.cats, WithCats(m).cats}
       /\ kind = "vdb" => n.pkgs[c] = p.pkgs[c]
  BY <1>2, <1>6, <1>11
<1>13. n.vers[k] \subseteq {e} => n.pkgs[c] # Unread
  BY <1>4, <1>6, <1>11, <1>12
<1>14. ~RemovalRaises(m, e)
  BY <1>4, <1>6, <1>7, <1>12, <1>13 DEF RemovalRaises
<1>15. QED BY <1>12, <1>14

LEMMA Updated ==
    ASSUME NEW S, NEW T, NEW f \in [S -> T], NEW x \in S, NEW v \in T,
           NEW g, g = [f EXCEPT ![x] = v]
    PROVE  g \in [S -> T] /\ \A y \in S : g[y] = IF y = x THEN v ELSE f[y]
OBVIOUS

\* What is remembered after the lookups of a removal.
Dropped(n, e) ==
    LET left == n.vers[KeyOf[e]] \ {e} IN
    IF left # {} THEN [n EXCEPT !.vers[KeyOf[e]] = left]
    ELSE [n EXCEPT !.vers[KeyOf[e]] = Unread,
                   !.pkgs[Cat(e)] = Unread,
                   !.cats = IF n.pkgs[Cat(e)] = {KeyOf[e]} THEN Unread ELSE @]

\* A removal: the entry is not shown any more, the package and its category are read
\* again if it was the last version.
LEMMA Removes ==
    ASSUME NEW n, NEW lo, NEW mid, NEW hi, Fits(n, lo, mid, hi), hi \subseteq Entries,
           NEW e \in Entries, Remembered(n, e), NEW r, r = Dropped(n, e)
    PROVE  /\ Fits(r, lo \ {e}, mid, hi \ {e})
           /\ r.cats \in {n.cats, Unread}
           /\ n.pkgs[Cat(e)] = {KeyOf[e]} /\ n.vers[KeyOf[e]] \subseteq {e} => r.cats = Unread
           /\ \A x \in Entries \ {e} : Remembered(n, x) => Remembered(r, x)
<1> DEFINE k == KeyOf[e]
           c == Cat(e)
           left == n.vers[k] \ {e}
           cats == IF n.pkgs[c] = {k} THEN Unread ELSE n.cats
<1>1. k \in Keys /\ c \in Cats /\ c = CatOf[k] /\ n \in Memos
  BY Sorts DEF Fits
<1>2. Within(n.vers[k], k, lo, hi) /\ n.vers[k] # Unread /\ e \in n.vers[k]
  BY <1>1 DEF Fits, Remembered
<1>3. \A j \in Keys : \A s : j # k /\ Within(s, j, lo, hi) => Within(s, j, lo \ {e}, hi \ {e})
  BY DEF Within, VersIn
<1>4. \A d \in Cats : d # c => KeysOf(hi, d) \subseteq KeysOf(hi \ {e}, d)
  BY DEF KeysOf
<1>5. \A d \in Cats : \A j \in KeysOf(hi, d) : j \in Keys /\ CatOf[j] = d
  BY Sorts DEF KeysOf
<1>6. CASE left # {}
  <2>1. left \in SUBSET Entries
    BY <1>1, <1>2, MemoSorts
  <2>2. left # Unread /\ left \in Sets(Entries)
    BY <2>1, Sorts DEF Sets
  <2>3. r = [n EXCEPT !.vers[k] = left]
    BY <1>6 DEF Dropped
  <2> HIDE DEF left
  <2>4. /\ r \in Memos /\ r.cats = n.cats /\ r.pkgs = n.pkgs /\ r.staged = n.staged
        /\ \A j \in Keys : r.vers[j] = IF j = k THEN left ELSE n.vers[j]
    <3>1. n.vers \in [Keys -> Sets(Entries)]
      BY <1>1 DEF Memos
    <3>2. r.vers = [n.vers EXCEPT ![k] = left] /\ r.cats = n.cats /\ r.pkgs = n.pkgs
          /\ r.staged = n.staged
      BY <1>1, <2>3 DEF Memos
    <3>3. \A j \in Keys : r.vers[j] = IF j = k THEN left ELSE n.vers[j]
      BY <1>1, <2>2, <3>1, <3>2, Updated
    <3>4. r.vers \in [Keys -> Sets(Entries)]
      BY <1>1, <2>2, <3>1, <3>2, Updated
    <3>5. r = [n EXCEPT !.vers = r.vers]
      BY <1>1, <2>3, <3>2 DEF Memos
    <3>6. QED BY <1>1, <3>2, <3>3, <3>4, <3>5 DEF Memos
  <2>5. Within(left, k, lo \ {e}, hi \ {e})
    BY <1>2, <2>2 DEF Within, VersIn, left
  <2>6. KeysOf(hi, c) \subseteq KeysOf(hi \ {e}, c)
    <3>1. PICK x \in left : TRUE
      BY <1>6
    <3>2. x \in hi \ {e} /\ KeyOf[x] = k /\ x \in Entries
      BY <2>5, <3>1 DEF Within, VersIn
    <3>3. Cat(x) = c
      BY <1>1, <3>2, Sorts
    <3>4. k \in KeysOf(hi \ {e}, c)
      BY <3>2, <3>3 DEF KeysOf
    <3>5. QED BY <3>4 DEF KeysOf
  <2>7. ASSUME NEW d \in Cats, r.pkgs[d] # Unread
        PROVE  /\ KeysOf(mid, d) \subseteq r.pkgs[d]
               /\ r.pkgs[d] \subseteq KeysOf(hi \ {e}, d)
               /\ \A j \in r.pkgs[d] : r.vers[j] = Unread =>
                    Within(r.staged[j], j, lo \ {e}, hi \ {e})
    <3>1. /\ KeysOf(mid, d) \subseteq n.pkgs[d] /\ n.pkgs[d] \subseteq KeysOf(hi, d)
          /\ \A j \in n.pkgs[d] : n.vers[j] = Unread => Within(n.staged[j], j, lo, hi)
      BY <2>4, <2>7 DEF Fits
    <3>2. n.pkgs[d] \subseteq Keys
      BY <1>1, <2>4, <2>7, MemoSorts
    <3>3. KeysOf(hi, d) \subseteq KeysOf(hi \ {e}, d)
      BY <1>4, <2>6
    <3>4. QED BY <1>3, <2>2, <2>4, <3>1, <3>2, <3>3
  <2>8. \A j \in Keys : r.vers[j] # Unread => Within(r.vers[j], j, lo \ {e}, hi \ {e})
    BY <1>3, <2>4, <2>5 DEF Fits
  <2>9. n.cats # Unread => \A x \in mid : Cat(x) \in n.cats
    BY DEF Fits
  <2>10. Fits(r, lo \ {e}, mid, hi \ {e})
    BY <2>4, <2>7, <2>8, <2>9 DEF Fits
  <2>11. \A x \in Entries \ {e} : Remembered(n, x) => Remembered(r, x)
    BY <2>2, <2>4, Sorts DEF Remembered, left
  <2>12. ~(n.vers[k] \subseteq {e})
    BY <1>6 DEF left
  <2>13. QED BY <2>4, <2>10, <2>11, <2>12
<1>7. CASE left = {}
  <2>1. r = [n EXCEPT !.vers[k] = Unread, !.pkgs[c] = Unread, !.cats = cats]
    BY <1>1, <1>7 DEF Memos, Dropped
  <2>2. Unread \in Sets(Entries) /\ Unread \in Sets(Keys) /\ Unread \in Sets(Cats) /\ cats \in {n.cats, Unread}
    BY DEF Sets
  <2>3. cats \in Sets(Cats)
    BY <1>1, <2>2 DEF Memos
  <2>4. n.pkgs[c] = {k} => cats = Unread
    OBVIOUS
  <2> HIDE DEF cats
  <2>5. /\ r \in Memos /\ r.cats = cats /\ r.staged = n.staged
        /\ \A d \in Cats : r.pkgs[d] = IF d = c THEN Unread ELSE n.pkgs[d]
        /\ \A j \in Keys : r.vers[j] = IF j = k THEN Unread ELSE n.vers[j]
    <3>1. n.vers \in [Keys -> Sets(Entries)] /\ n.pkgs \in [Cats -> Sets(Keys)]
      BY <1>1 DEF Memos
    <3>2. /\ r.vers = [n.vers EXCEPT ![k] = Unread] /\ r.pkgs = [n.pkgs EXCEPT ![c] = Unread]
          /\ r.cats = cats /\ r.staged = n.staged
      BY <1>1, <2>1 DEF Memos
    <3>3. /\ r.pkgs \in [Cats -> Sets(Keys)]
          /\ \A d \in Cats : r.pkgs[d] = IF d = c THEN Unread ELSE n.pkgs[d]
      BY <1>1, <2>2, <3>1, <3>2, Updated
    <3>4. /\ r.vers \in [Keys -> Sets(Entries)]
          /\ \A j \in Keys : r.vers[j] = IF j = k THEN Unread ELSE n.vers[j]
      BY <1>1, <2>2, <3>1, <3>2, Updated
    <3>5. r = [n EXCEPT !.vers = r.vers, !.pkgs = r.pkgs, !.cats = cats]
      BY <1>1, <2>1, <3>2 DEF Memos
    <3>6. QED BY <1>1, <2>3, <3>2, <3>3, <3>4, <3>5 DEF Memos
  <2>6. ASSUME NEW d \in Cats, r.pkgs[d] # Unread
        PROVE  /\ KeysOf(mid, d) \subseteq r.pkgs[d]
               /\ r.pkgs[d] \subseteq KeysOf(hi \ {e}, d)
               /\ \A j \in r.pkgs[d] : r.vers[j] = Unread =>
                    Within(r.staged[j], j, lo \ {e}, hi \ {e})
    <3>1. d # c /\ r.pkgs[d] = n.pkgs[d]
      BY <2>5, <2>6
    <3>2. /\ KeysOf(mid, d) \subseteq n.pkgs[d] /\ n.pkgs[d] \subseteq KeysOf(hi, d)
          /\ \A j \in n.pkgs[d] : n.vers[j] = Unread => Within(n.staged[j], j, lo, hi)
      BY <2>6, <3>1 DEF Fits
    <3>3. \A j \in n.pkgs[d] : j \in Keys /\ j # k
      BY <1>1, <1>5, <3>1, <3>2
    <3>4. QED BY <1>3, <1>4, <2>5, <3>1, <3>2, <3>3
  <2>7. \A j \in Keys : r.vers[j] # Unread => Within(r.vers[j], j, lo \ {e}, hi \ {e})
    BY <1>3, <2>5 DEF Fits
  <2>8. r.cats # Unread => \A x \in mid : Cat(x) \in r.cats
    BY <2>2, <2>5 DEF Fits
  <2>9. Fits(r, lo \ {e}, mid, hi \ {e})
    BY <2>5, <2>6, <2>7, <2>8 DEF Fits
  <2>10. ASSUME NEW x \in Entries \ {e}, Remembered(n, x) PROVE Remembered(r, x)
    <3>1. KeyOf[x] \in Keys /\ KeyOf[x] # k
      BY <1>7, <2>10, Sorts DEF Remembered
    <3>2. QED BY <2>2, <2>5, <2>10, <3>1 DEF Remembered
  <2>11. QED BY <2>2, <2>4, <2>5, <2>9, <2>10
<1>8. QED BY <1>6, <1>7

\* An addition: the entry is shown from now on, and its category is read again.
LEMMA Adds ==
    ASSUME NEW m, NEW lo, NEW mid, NEW hi, Readable(lo, mid, hi), Fits(m, lo, mid, hi),
           lo \subseteq mid, NEW e \in hi, NEW r, r = Added(m, e)
    PROVE  /\ Fits(r, lo \cup {e}, mid \cup {e}, hi)
           /\ r.cats = Unread
           /\ \A x \in Entries : Remembered(m, x) => Remembered(r, x)
<1> DEFINE k == KeyOf[e]
           c == Cat(e)
           n == WithVers(m, k)
           known == IF n.vers[k] = Unread THEN {} ELSE n.vers[k]
           all == known \cup {e}
<1>1. e \in Entries /\ k \in Keys /\ c \in Cats /\ c = CatOf[k]
  BY Sorts DEF Readable
<1>2. /\ Fits(n, lo, mid, hi)
      /\ \A j \in Keys : m.vers[j] # Unread => n.vers[j] = m.vers[j]
      /\ n.vers[k] = Unread => VersIn(mid, k) = {}
  BY <1>1, FillVers
<1>3. n \in Memos
  BY <1>2 DEF Fits
<1>4. n.vers[k] # Unread => Within(n.vers[k], k, lo, hi)
  BY <1>1, <1>2 DEF Fits
<1>5. VersIn(lo, k) \subseteq known /\ known \subseteq VersIn(hi, k)
  <2>1. CASE n.vers[k] = Unread
    BY <1>2, <2>1 DEF VersIn
  <2>2. CASE n.vers[k] # Unread
    BY <1>4, <2>2 DEF Within
  <2>3. QED BY <2>1, <2>2
<1>6. all \in SUBSET Entries /\ all # Unread /\ all \in Sets(Entries)
  <2>1. all \in SUBSET Entries
    BY <1>1, <1>5 DEF VersIn, Readable
  <2>2. QED BY <2>1, Sorts DEF Sets
<1>7. Within(all, k, lo \cup {e}, hi)
  BY <1>1, <1>5, <1>6 DEF Within, VersIn
<1>8. r = [n EXCEPT !.cats = Unread, !.pkgs[c] = Unread, !.vers[k] = all]
  BY DEF Added
<1>9. Unread \in Sets(Keys) /\ Unread \in Sets(Cats)
  BY DEF Sets
<1>10. \A x \in Entries : m.vers[KeyOf[x]] # Unread /\ x \in m.vers[KeyOf[x]] =>
         x \in n.vers[KeyOf[x]] /\ n.vers[KeyOf[x]] # Unread
  BY <1>2, Sorts
<1>11. \A x \in n.vers[k] : n.vers[k] # Unread => x \in all
  OBVIOUS
<1> HIDE DEF n, all, known
<1>12. /\ r \in Memos /\ r.cats = Unread /\ r.staged = n.staged
       /\ \A d \in Cats : r.pkgs[d] = IF d = c THEN Unread ELSE n.pkgs[d]
       /\ \A j \in Keys : r.vers[j] = IF j = k THEN all ELSE n.vers[j]
  <2>1. n.vers \in [Keys -> Sets(Entries)] /\ n.pkgs \in [Cats -> Sets(Keys)]
    BY <1>3 DEF Memos
  <2>2. /\ r.vers = [n.vers EXCEPT ![k] = all] /\ r.pkgs = [n.pkgs EXCEPT ![c] = Unread]
        /\ r.cats = Unread /\ r.staged = n.staged
    BY <1>3, <1>8 DEF Memos
  <2>3. /\ r.pkgs \in [Cats -> Sets(Keys)]
        /\ \A d \in Cats : r.pkgs[d] = IF d = c THEN Unread ELSE n.pkgs[d]
    BY <1>1, <1>9, <2>1, <2>2, Updated
  <2>4. /\ r.vers \in [Keys -> Sets(Entries)]
        /\ \A j \in Keys : r.vers[j] = IF j = k THEN all ELSE n.vers[j]
    BY <1>1, <1>6, <2>1, <2>2, Updated
  <2>5. r = [n EXCEPT !.vers = r.vers, !.pkgs = r.pkgs, !.cats = Unread]
    BY <1>3, <1>8, <2>2 DEF Memos
  <2>6. QED BY <1>3, <1>9, <2>2, <2>3, <2>4, <2>5 DEF Memos
<1>13. \A j \in Keys : \A s : j # k /\ Within(s, j, lo, hi) => Within(s, j, lo \cup {e}, hi)
  BY DEF Within, VersIn
<1>14. ASSUME NEW d \in Cats, r.pkgs[d] # Unread
       PROVE  /\ KeysOf(mid \cup {e}, d) \subseteq r.pkgs[d]
              /\ r.pkgs[d] \subseteq KeysOf(hi, d)
              /\ \A j \in r.pkgs[d] : r.vers[j] = Unread =>
                   Within(r.staged[j], j, lo \cup {e}, hi)
  <2>1. d # c /\ r.pkgs[d] = n.pkgs[d]
    BY <1>12, <1>14
  <2>2. /\ KeysOf(mid, d) \subseteq n.pkgs[d] /\ n.pkgs[d] \subseteq KeysOf(hi, d)
        /\ \A j \in n.pkgs[d] : n.vers[j] = Unread => Within(n.staged[j], j, lo, hi)
    BY <1>2, <1>14, <2>1 DEF Fits
  <2>3. KeysOf(mid \cup {e}, d) = KeysOf(mid, d)
    BY <2>1 DEF KeysOf
  <2>4. n.pkgs[d] \subseteq Keys
    BY <1>3, <1>14, <2>1, MemoSorts
  <2>5. QED BY <1>6, <1>12, <1>13, <2>1, <2>2, <2>3, <2>4
<1>15. \A j \in Keys : r.vers[j] # Unread => Within(r.vers[j], j, lo \cup {e}, hi)
  BY <1>2, <1>7, <1>12, <1>13 DEF Fits
<1>16. Fits(r, lo \cup {e}, mid \cup {e}, hi)
  BY <1>12, <1>14, <1>15 DEF Fits
<1>17. \A x \in Entries : Remembered(m, x) => Remembered(r, x)
  BY <1>6, <1>10, <1>11, <1>12, Sorts DEF Remembered
<1>18. QED BY <1>12, <1>16, <1>17

-----------------------------------------------------------------------------
(* The steps.                                                              *)

\* The bounds, by how far the operation has come.
LEMMA Bounds ==
    ASSUME MemoInv
    PROVE  /\ op.stage \in {"idle", "add_data", "remove_data", "removed"} =>
                Lo = entries \ hidden /\ Mid = entries /\ Hi = entries
           /\ op.stage = "finalized" =>
                Lo = entries \ hidden /\ Mid = entries /\ Hi = entries \cup {op.old}
           /\ op.stage = "noticed" =>
                /\ Lo = entries \ (hidden \cup {op.old}) /\ Mid = entries
                /\ Hi = entries \ {op.old}
           /\ op.stage = "renamed" =>
                /\ Lo = entries \ (hidden \cup {op.new}) /\ Mid = entries \ {op.new}
                /\ Hi = entries
BY DEF Lo, Mid, Hi, Late, Gone, Noticed

LEMMA CanRead ==
    ASSUME MemoInv, op.stage # "noticed"
    PROVE  Readable(Lo, Mid, Hi) /\ Lo \subseteq Mid
<1>1. Noticed = {}
  BY DEF Noticed
<1>2. Gone \subseteq Entries
  BY DEF Gone, MemoInv, OpOK, Idle, Installing, Uninstalling, Replacing, MemoTypeOK
<1>3. /\ entries \subseteq Entries /\ dirs \subseteq Cats
      /\ \A e \in entries : Cat(e) \in dirs
  BY DEF MemoInv, MemoTypeOK
<1>4. QED BY <1>1, <1>2, <1>3 DEF Readable, Lo, Mid, Hi

\* A step that neither looks nor tells.
LEMMA QuietStep ==
    ASSUME MemoInv, UNCHANGED <<kind, memo, held, raised>>,
           entries' \subseteq Entries, litter' \subseteq Entries, hidden' \subseteq Entries,
           dirs' \subseteq Cats, dirs \subseteq dirs',
           op' \in Ops, OpOK', \A e \in entries' \cup litter' \cup Gone' : Cat(e) \in dirs',
           Lo' \subseteq Lo, Mid' \subseteq Mid, Hi \subseteq Hi'
    PROVE  MemoInv'
<1>1. Fits(memo, Lo', Mid', Hi')
  BY Widens DEF MemoInv
<1>2. Fits(memo, Lo, Mid, Hi)'
  BY <1>1 DEF Fits, Within, VersIn, KeysOf, Cat
<1>4. MemoTypeOK'
  BY DEF MemoInv, MemoTypeOK, Ops, Sets
<1>5. \A e \in held' : Remembered(memo, e)'
  BY DEF MemoInv, Remembered, Cat
<1>6. (\A e \in entries \cup litter \cup Gone : Cat(e) \in dirs)'
  BY DEF Cat
<1>7. QED BY <1>2, <1>4, <1>5, <1>6 DEF MemoInv

\* An operation goes on to its next stage.
LEMMA StageOnly ==
    ASSUME op \in Ops, NEW s \in {"finalized", "removed", "renamed", "noticed"},
           op' = [op EXCEPT !.stage = s]
    PROVE  /\ op' \in Ops /\ op'.stage = s
           /\ op'.kind = op.kind /\ op'.old = op.old /\ op'.new = op.new
BY DEF Ops

\* Looking fills what is remembered, from a disk that is as it was told.
LEMMA LookStep ==
    ASSUME MemoInv, Quiet, UNCHANGED <<kind, entries, dirs, litter, op, raised, hidden>>,
           Fits(memo', Lo, Mid, Hi), memo'.cats \in {memo.cats, WithCats(memo).cats},
           held' \subseteq Entries,
           \A e \in held' : memo'.vers[KeyOf[e]] # Unread /\ e \in memo'.vers[KeyOf[e]]
    PROVE  MemoInv'
<1>1. op.stage = "idle"
  BY DEF Quiet, Idle
<1>2. Readable(Lo, Mid, Hi) /\ Fits(memo, Lo, Mid, Hi)
  BY <1>1, CanRead DEF MemoInv
<1>3. Lo' = Lo /\ Mid' = Mid /\ Hi' = Hi /\ Gone' = Gone
  BY DEF Lo, Mid, Hi, Late, Gone, Noticed
<1>4. Fits(memo', Lo', Mid', Hi')
  BY <1>3
<1>5. Fits(memo, Lo, Mid, Hi)'
  BY <1>4 DEF Fits, Within, VersIn, KeysOf, Cat
<1>6. memo'.cats \in {memo.cats, dirs}
  BY <1>2, FillCats
<1>7. kind = "vdb" /\ memo'.cats # Unread => memo'.cats \subseteq dirs
  BY <1>6 DEF MemoInv
<1>8. ASSUME NEW e \in held' PROVE Remembered(memo', e)
  <2>1. e \in Entries /\ KeyOf[e] \in Keys
    BY Sorts
  <2>2. Within(memo'.vers[KeyOf[e]], KeyOf[e], Lo, Hi)
    BY <2>1 DEF Fits
  <2>3. e \in Mid
    BY <1>1, <2>2, Bounds DEF Within, VersIn
  <2>4. memo'.cats # Unread => Cat(e) \in memo'.cats
    BY <2>3 DEF Fits
  <2>5. QED BY <2>4 DEF Remembered
<1>9. MemoTypeOK'
  BY <1>5 DEF MemoInv, MemoTypeOK, Fits, Memos
<1>10. OpOK'
  BY DEF MemoInv, OpOK, Quiet, Idle
<1>11. (\A e \in entries \cup litter \cup Gone : Cat(e) \in dirs)'
  BY <1>3 DEF MemoInv, Cat
<1>12. (\A e \in held : Remembered(memo, e))'
  BY <1>8 DEF Remembered, Cat
<1>13. QED BY <1>5, <1>7, <1>9, <1>10, <1>11, <1>12 DEF MemoInv

LEMMA SearchStep == ASSUME MemoInv, Search PROVE MemoInv'
<1>1. Quiet /\ UNCHANGED <<kind, entries, dirs, litter, op, raised, hidden>>
  BY DEF Search, LookAtCategories, LookAtPackages, Match
<1>2. Readable(Lo, Mid, Hi) /\ Fits(memo, Lo, Mid, Hi)
  BY <1>1, CanRead DEF MemoInv, Quiet, Idle
<1>3. \A e \in held : /\ e \in Entries /\ KeyOf[e] \in Keys
                      /\ memo.vers[KeyOf[e]] # Unread /\ e \in memo.vers[KeyOf[e]]
  BY Sorts DEF MemoInv, MemoTypeOK, Remembered
<1>4. CASE LookAtCategories
  <2>1. memo' = WithCats(memo) /\ held' = held
    BY <1>4 DEF LookAtCategories
  <2>2. Fits(memo', Lo, Mid, Hi) /\ memo'.vers = memo.vers
    BY <1>2, <2>1, FillCats
  <2>3. QED BY <1>1, <1>3, <2>1, <2>2, LookStep DEF MemoInv, MemoTypeOK
<1>5. ASSUME NEW c \in Cats, LookAtPackages(c) PROVE MemoInv'
  <2>1. memo' = WithPkgs(memo, c) /\ held' = held
    BY <1>5 DEF LookAtPackages
  <2>2. /\ Fits(memo', Lo, Mid, Hi) /\ memo'.vers = memo.vers
        /\ memo'.cats \in {memo.cats, WithCats(memo).cats}
    BY <1>2, <2>1, FillPkgs
  <2>3. QED BY <1>1, <1>3, <2>1, <2>2, LookStep DEF MemoInv, MemoTypeOK
<1>6. ASSUME NEW k \in Keys, Match(k) PROVE MemoInv'
  <2>1. /\ memo' = WithVers(memo, k)
        /\ held' = held \cup (IF memo'.vers[k] = Unread THEN {} ELSE memo'.vers[k])
    BY <1>6 DEF Match
  <2>2. /\ Fits(memo', Lo, Mid, Hi)
        /\ memo'.cats \in {memo.cats, WithCats(memo).cats}
        /\ \A j \in Keys : memo.vers[j] # Unread => memo'.vers[j] = memo.vers[j]
    BY <1>2, <2>1, FillVers
  <2>3. memo'.vers[k] # Unread => memo'.vers[k] \subseteq VersIn(Hi, k)
    BY <2>2 DEF Fits, Within
  <2>4. Hi \subseteq Entries
    BY <1>2 DEF Readable
  <2>5. \A e \in held' : /\ e \in Entries
                         /\ memo'.vers[KeyOf[e]] # Unread /\ e \in memo'.vers[KeyOf[e]]
    BY <1>3, <2>1, <2>2, <2>3, <2>4 DEF VersIn
  <2>6. held' \subseteq Entries
    BY <2>5
  <2>7. QED BY <1>1, <2>2, <2>5, <2>6, LookStep
<1>7. QED BY <1>4, <1>5, <1>6 DEF Search

LEMMA BeginStep ==
    ASSUME MemoInv, \/ \E e \in Entries : BeginInstall(e) \/ BeginUninstall(e)
                 \/ \E e, n \in Entries : BeginReplace(e, n)
    PROVE  MemoInv'
<1>1. op.stage = "idle"
  BY DEF BeginInstall, BeginUninstall, BeginReplace, Quiet, Idle
<1>2. Lo = entries \ hidden /\ Mid = entries /\ Hi = entries /\ Gone = {}
  BY <1>1, Bounds DEF Gone
<1>3. /\ entries \subseteq Entries /\ litter \subseteq Entries /\ hidden \subseteq Entries
      /\ dirs \subseteq Cats /\ \A e \in entries \cup litter : Cat(e) \in dirs
  BY DEF MemoInv, MemoTypeOK
<1>4. ASSUME NEW e \in Entries, BeginInstall(e) PROVE MemoInv'
  <2>1. /\ op' = [kind |-> "install", old |-> Unread, new |-> e, stage |-> "add_data"]
        /\ dirs' = dirs \cup {Cat(e)} /\ litter' = litter \cup {e}
        /\ UNCHANGED <<kind, entries, memo, held, raised, hidden>>
    BY <1>4 DEF BeginInstall
  <2>2. OpOK' /\ op' \in Ops
    BY <2>1 DEF OpOK, Installing, Ops
  <2>3. Lo' = Lo /\ Mid' = Mid /\ Hi' = Hi /\ Gone' = {}
    BY <1>2, <2>1 DEF Lo, Mid, Hi, Late, Gone, Noticed
  <2>4. \A x \in entries' \cup litter' \cup Gone' : Cat(x) \in dirs'
    BY <1>3, <2>1, <2>3
  <2>5. QED BY <1>3, <2>1, <2>2, <2>3, <2>4, Sorts, QuietStep
<1>5. ASSUME NEW e \in Entries, BeginUninstall(e) PROVE MemoInv'
  <2>1. /\ op' = [kind |-> "uninstall", old |-> e, new |-> Unread, stage |-> "remove_data"]
        /\ e \in held \cap entries
        /\ UNCHANGED <<kind, entries, dirs, litter, memo, held, raised, hidden>>
    BY <1>5 DEF BeginUninstall
  <2>2. OpOK' /\ op' \in Ops
    BY <2>1 DEF OpOK, Uninstalling, Ops
  <2>3. Lo' = Lo /\ Mid' = Mid /\ Hi' = Hi /\ Gone' = {}
    BY <1>2, <2>1 DEF Lo, Mid, Hi, Late, Gone, Noticed
  <2>4. \A x \in entries' \cup litter' \cup Gone' : Cat(x) \in dirs'
    BY <1>3, <2>1, <2>3
  <2>5. QED BY <1>3, <2>1, <2>2, <2>3, <2>4, QuietStep
<1>6. ASSUME NEW e \in Entries, NEW n \in Entries, BeginReplace(e, n) PROVE MemoInv'
  <2>1. /\ op' = [kind |-> "replace", old |-> e, new |-> n, stage |-> "add_data"]
        /\ e \in held \cap entries /\ KeyOf[n] = KeyOf[e] /\ (n = e \/ kind = "vdb")
        /\ litter' = litter \cup {n}
        /\ UNCHANGED <<kind, entries, dirs, memo, held, raised, hidden>>
    BY <1>6 DEF BeginReplace
  <2>2. OpOK' /\ op' \in Ops
    BY <2>1 DEF OpOK, Replacing, Ops
  <2>3. Lo' = Lo /\ Mid' = Mid /\ Hi' = Hi /\ Gone' = {}
    BY <1>2, <2>1 DEF Lo, Mid, Hi, Late, Gone, Noticed
  <2>4. Cat(n) = Cat(e)
    BY <2>1 DEF Cat
  <2>5. \A x \in entries' \cup litter' \cup Gone' : Cat(x) \in dirs'
    BY <1>3, <2>1, <2>3, <2>4
  <2>6. QED BY <1>3, <2>1, <2>2, <2>3, <2>5, QuietStep
<1>7. QED BY <1>4, <1>5, <1>6

LEMMA RemoveOldStep == ASSUME MemoInv, RemoveOld PROVE MemoInv'
<1>1. /\ entries' = entries \ {op.old}
      /\ UNCHANGED <<kind, dirs, litter, memo, held, raised, hidden>>
  BY DEF RemoveOld
<1>2. /\ entries \subseteq Entries /\ litter \subseteq Entries /\ hidden \subseteq Entries
      /\ dirs \subseteq Cats /\ op \in Ops
      /\ \A e \in entries \cup litter : Cat(e) \in dirs
  BY DEF MemoInv, MemoTypeOK
<1>3. CASE op.kind = "uninstall" /\ op.stage = "remove_data"
  <2>1. op' = [op EXCEPT !.stage = "finalized"] /\ Uninstalling
    BY <1>3 DEF RemoveOld, MemoInv, OpOK, Idle, Installing, Replacing
  <2>2. Lo = entries \ hidden /\ Mid = entries /\ Hi = entries
    BY <1>3, Bounds
  <2>3. op'.kind = "uninstall" /\ op'.stage = "finalized" /\ op'.old = op.old /\ op' \in Ops
    BY <1>2, <1>3, <2>1, StageOnly
  <2>4. OpOK'
    BY <1>1, <2>1, <2>3 DEF OpOK, Uninstalling
  <2>5. /\ Gone' = {op.old} /\ Lo' = entries' \ hidden /\ Mid' = entries'
        /\ Hi' = entries' \cup {op.old}
    BY <1>1, <2>3 DEF Lo, Mid, Hi, Late, Gone, Noticed
  <2>6. op.old \in entries
    BY <1>3, <2>1 DEF Uninstalling
  <2>7. QED BY <1>1, <1>2, <2>2, <2>3, <2>4, <2>5, <2>6, QuietStep
<1>4. CASE op.kind = "replace" /\ op.stage = "noticed" /\ kind = "vdb"
  <2>1. op' = [op EXCEPT !.stage = "removed"] /\ Replacing
    BY <1>4 DEF RemoveOld, MemoInv, OpOK, Idle, Installing, Uninstalling
  <2>2. /\ Lo = entries \ (hidden \cup {op.old}) /\ Mid = entries
        /\ Hi = entries \ {op.old}
    BY <1>4, Bounds
  <2>3. /\ op'.kind = "replace" /\ op'.stage = "removed" /\ op'.old = op.old
        /\ op'.new = op.new /\ op' \in Ops
    BY <1>2, <1>4, <2>1, StageOnly
  <2>4. OpOK'
    BY <1>1, <1>4, <2>1, <2>3 DEF OpOK, Replacing
  <2>5. Gone' = {} /\ Lo' = entries' \ hidden /\ Mid' = entries' /\ Hi' = entries'
    BY <1>1, <2>3 DEF Lo, Mid, Hi, Late, Gone, Noticed
  <2>6. QED BY <1>1, <1>2, <2>2, <2>3, <2>4, <2>5, QuietStep
<1>5. QED BY <1>3, <1>4 DEF RemoveOld

LEMMA RenameNewStep == ASSUME MemoInv, RenameNew PROVE MemoInv'
<1>1. /\ entries' = entries \cup {op.new} /\ litter' = litter \ {op.new}
      /\ UNCHANGED <<kind, dirs, memo, held, raised, hidden>>
      /\ op' = [op EXCEPT !.stage = "renamed"]
  BY DEF RenameNew
<1>2. /\ entries \subseteq Entries /\ litter \subseteq Entries /\ hidden \subseteq Entries
      /\ dirs \subseteq Cats /\ op \in Ops
      /\ \A e \in entries \cup litter : Cat(e) \in dirs
  BY DEF MemoInv, MemoTypeOK
<1>3. /\ op'.kind = op.kind /\ op'.stage = "renamed" /\ op'.old = op.old /\ op'.new = op.new
      /\ op' \in Ops
  BY <1>1, <1>2, StageOnly
<1>4. op.new \in Entries /\ op.new \in litter
  BY DEF RenameNew, MemoInv, OpOK, Idle, Installing, Uninstalling, Replacing
<1>5. OpOK'
  BY <1>1, <1>3, <1>4 DEF RenameNew, MemoInv, OpOK, Idle, Installing, Uninstalling, Replacing
<1>6. /\ Gone' = {} /\ Lo' = entries' \ (hidden \cup {op.new})
      /\ Mid' = entries' \ {op.new} /\ Hi' = entries'
  BY <1>1, <1>3 DEF Lo, Mid, Hi, Late, Gone, Noticed
<1>7. Lo' \subseteq Lo /\ Mid' \subseteq Mid /\ Hi \subseteq Hi'
  <2>1. CASE op.stage \in {"add_data", "removed"}
    BY <1>1, <1>6, <2>1, Bounds
  <2>2. CASE op.stage = "noticed"
    <3>1. op.new = op.old
      BY <2>2 DEF RenameNew, MemoInv, OpOK, Idle, Installing, Uninstalling, Replacing, MemoTypeOK
    <3>2. QED BY <1>1, <1>6, <2>2, <3>1, Bounds
  <2>3. QED BY <2>1, <2>2 DEF RenameNew
<1>8. QED BY <1>1, <1>2, <1>3, <1>4, <1>5, <1>6, <1>7, QuietStep

\* A failure leaves an entry hidden if the repository was told that it has gone.
LEMMA FailStep == ASSUME MemoInv, Fail PROVE MemoInv'
<1>1. /\ op.stage \in {"add_data", "remove_data", "noticed", "removed"} /\ op' = Idle
      /\ hidden' = (IF op.stage = "noticed" THEN hidden \cup {op.old} ELSE hidden)
      /\ UNCHANGED <<kind, entries, dirs, litter, memo, held, raised>>
  BY DEF Fail
<1>2. /\ entries \subseteq Entries /\ litter \subseteq Entries /\ hidden \subseteq Entries
      /\ dirs \subseteq Cats /\ \A e \in entries \cup litter : Cat(e) \in dirs
  BY DEF MemoInv, MemoTypeOK
<1>3. OpOK' /\ op' \in Ops
  BY <1>1 DEF OpOK, Idle, Ops
<1>4. Gone' = {} /\ Lo' = entries \ hidden' /\ Mid' = entries /\ Hi' = entries
  BY <1>1 DEF Lo, Mid, Hi, Late, Gone, Noticed, Idle
<1>5. Lo' \subseteq Lo /\ Mid' \subseteq Mid /\ Hi \subseteq Hi'
  BY <1>1, <1>4, Bounds
<1>6. op.stage = "noticed" => op.old \in Entries
  BY DEF MemoInv, OpOK, Idle, Installing, Uninstalling, Replacing
<1>7. hidden' \subseteq Entries
  BY <1>1, <1>2, <1>6
<1>8. QED BY <1>1, <1>2, <1>3, <1>4, <1>5, <1>7, QuietStep

LEMMA NotifyAddStep == ASSUME MemoInv, NotifyAdd PROVE MemoInv'
<1>1. /\ op.stage = "renamed" /\ memo' = Added(memo, op.new) /\ op' = Idle
      /\ UNCHANGED <<kind, entries, dirs, litter, held, raised, hidden>>
  BY DEF NotifyAdd
<1>2. /\ Lo = entries \ (hidden \cup {op.new}) /\ Mid = entries \ {op.new}
      /\ Hi = entries
  BY <1>1, Bounds
<1>3. Readable(Lo, Mid, Hi) /\ Lo \subseteq Mid /\ Fits(memo, Lo, Mid, Hi)
  BY <1>1, CanRead DEF MemoInv
<1>4. op.new \in entries
  BY <1>1 DEF MemoInv, OpOK, Idle, Installing, Uninstalling, Replacing
<1>5. /\ Fits(memo', Lo \cup {op.new}, Mid \cup {op.new}, Hi) /\ memo'.cats = Unread
      /\ \A x \in Entries : Remembered(memo, x) => Remembered(memo', x)
  <2> DEFINE e == op.new
             lo == Lo
             mid == Mid
             hi == Hi
  <2>1. /\ Readable(lo, mid, hi) /\ lo \subseteq mid /\ Fits(memo, lo, mid, hi)
        /\ memo' = Added(memo, e) /\ e \in hi
    BY <1>1, <1>2, <1>3, <1>4
  <2> HIDE DEF e, lo, mid, hi
  <2>2. /\ Fits(memo', lo \cup {e}, mid \cup {e}, hi) /\ memo'.cats = Unread
        /\ \A x \in Entries : Remembered(memo, x) => Remembered(memo', x)
    BY <2>1, Adds
  <2>3. QED BY <2>2 DEF e, lo, mid, hi
<1>6. Gone' = {} /\ Lo' = entries \ hidden /\ Mid' = entries /\ Hi' = entries
  BY <1>1 DEF Lo, Mid, Hi, Late, Gone, Noticed, Idle
<1>7. Lo' \subseteq Lo \cup {op.new} /\ Mid' \subseteq Mid \cup {op.new} /\ Hi \subseteq Hi'
  BY <1>2, <1>6
<1>8. Fits(memo', Lo', Mid', Hi')
  BY <1>5, <1>7, Widens
<1>9. Fits(memo, Lo, Mid, Hi)'
  BY <1>8 DEF Fits, Within, VersIn, KeysOf, Cat
<1>10. MemoTypeOK' /\ OpOK'
  BY <1>1, <1>9 DEF MemoInv, MemoTypeOK, Fits, Memos, OpOK, Idle, Ops
<1>11. (\A e \in held : Remembered(memo, e))'
  BY <1>1, <1>5 DEF MemoInv, MemoTypeOK, Remembered, Cat
<1>12. (\A e \in entries \cup litter \cup Gone : Cat(e) \in dirs)'
  BY <1>1, <1>6 DEF MemoInv, Cat
<1>13. QED BY <1>1, <1>5, <1>9, <1>10, <1>11, <1>12 DEF MemoInv

\* The directory that goes is that of a category the repository forgets.
LEMMA NotifyRemoveStep == ASSUME MemoInv, NotifyRemove PROVE MemoInv'
<1> DEFINE e == op.old
           c == Cat(e)
           n == Consulted(memo, e)
<1>1. /\ \/ op.kind = "replace" /\ op.stage = "add_data" /\ Replacing
         \/ op.kind = "uninstall" /\ op.stage = "finalized" /\ Uninstalling
      /\ held' = held \ {e}
      /\ UNCHANGED <<kind, entries, litter, hidden>>
  BY DEF NotifyRemove, MemoInv, OpOK, Idle, Installing, Uninstalling, Replacing
<1>2. /\ entries \subseteq Entries /\ litter \subseteq Entries /\ hidden \subseteq Entries
      /\ held \subseteq Entries /\ dirs \subseteq Cats /\ op \in Ops
      /\ \A x \in entries \cup litter \cup Gone : Cat(x) \in dirs
  BY DEF MemoInv, MemoTypeOK
<1>3. Readable(Lo, Mid, Hi) /\ Lo \subseteq Mid /\ Fits(memo, Lo, Mid, Hi)
  BY <1>1, CanRead DEF MemoInv
<1>4. /\ Lo = entries \ hidden /\ Mid = entries /\ Hi = entries \cup Gone
      /\ Hi \subseteq entries \cup {e}
  BY <1>1, Bounds DEF Gone
<1>5. e \in held /\ e \in Entries /\ Remembered(memo, e) /\ e \in Hi
  BY <1>1, <1>2, <1>4 DEF MemoInv, Replacing, Uninstalling, Gone
<1>6. KeyOf[e] \in Keys /\ c \in Cats /\ c \in dirs
  BY <1>2, <1>4, <1>5, Sorts
<1>7. /\ Fits(n, Lo, Mid, Hi) /\ n.vers = memo.vers
      /\ n.cats \in {memo.cats, WithCats(memo).cats}
      /\ kind = "vdb" => n.pkgs[c] = WithPkgs(memo, c).pkgs[c]
      /\ ~RemovalRaises(memo, e)
  BY <1>3, <1>5, <1>6, Consults
<1>8. memo' = Dropped(n, e) /\ dirs' = RmDir(memo, e) /\ op' = AfterRemoval /\ raised' = raised
  BY <1>7 DEF NotifyRemove, Removed, Dropped
<1>9. \A x \in held : Remembered(n, x)
  <2>1. n.cats \in {memo.cats, dirs}
    BY <1>3, <1>7, FillCats
  <2>2. ASSUME NEW x \in held PROVE Cat(x) \in dirs
    <3>1. x \in Entries /\ KeyOf[x] \in Keys /\ Remembered(memo, x)
      BY <1>2, Sorts DEF MemoInv
    <3>2. Within(memo.vers[KeyOf[x]], KeyOf[x], Lo, Hi) /\ x \in memo.vers[KeyOf[x]]
      BY <1>3, <3>1 DEF Fits, Remembered
    <3>3. x \in Hi
      BY <3>2 DEF Within, VersIn
    <3>4. QED BY <1>2, <1>4, <3>3
  <2>3. QED BY <1>7, <2>1, <2>2 DEF MemoInv, Remembered
<1>10. Hi \subseteq Entries
  BY <1>3 DEF Readable
<1>11. /\ Fits(memo', Lo \ {e}, Mid, Hi \ {e})
       /\ memo'.cats \in {n.cats, Unread}
       /\ n.pkgs[c] = {KeyOf[e]} /\ n.vers[KeyOf[e]] \subseteq {e} => memo'.cats = Unread
       /\ \A x \in Entries \ {e} : Remembered(n, x) => Remembered(memo', x)
  <2>1. Fits(n, Lo, Mid, Hi) /\ Remembered(n, e) /\ memo' = Dropped(n, e)
    BY <1>5, <1>7, <1>8, <1>9
  <2> DEFINE lo == Lo
             hi == Hi
  <2>2. /\ Fits(n, lo, Mid, hi) /\ hi \subseteq Entries /\ e \in Entries /\ Remembered(n, e)
        /\ memo' = Dropped(n, e)
    BY <2>1, <1>5, <1>10
  <2> HIDE DEF n, e, lo, hi
  <2>3. /\ Fits(memo', lo \ {e}, Mid, hi \ {e})
        /\ memo'.cats \in {n.cats, Unread}
        /\ n.pkgs[Cat(e)] = {KeyOf[e]} /\ n.vers[KeyOf[e]] \subseteq {e} => memo'.cats = Unread
        /\ \A x \in Entries \ {e} : Remembered(n, x) => Remembered(memo', x)
    BY <2>2, Removes
  <2>4. QED BY <2>3 DEF n, e, lo, hi
<1>12. /\ Gone' = {} /\ Lo' \subseteq Lo \ {e} /\ Mid' = Mid /\ Hi \ {e} \subseteq Hi'
       /\ op' \in Ops /\ OpOK'
  <2>1. CASE op.kind = "replace"
    <3>1. op' = [op EXCEPT !.stage = "noticed"]
      BY <1>8, <2>1 DEF AfterRemoval
    <3>2. /\ op' \in Ops /\ op'.stage = "noticed"
          /\ op'.kind = op.kind /\ op'.old = e /\ op'.new = op.new
      BY <1>2, <3>1, StageOnly
    <3>3. OpOK'
      BY <1>1, <2>1, <3>2 DEF OpOK, Replacing
    <3>4. /\ Gone' = {} /\ Lo' = entries \ (hidden \cup {e}) /\ Mid' = entries
          /\ Hi' = entries \ {e}
      BY <1>1, <3>2 DEF Lo, Mid, Hi, Late, Gone, Noticed
    <3>5. QED BY <1>4, <3>2, <3>3, <3>4
  <2>2. CASE op.kind = "uninstall"
    <3>1. op' = Idle
      BY <1>8, <2>2 DEF AfterRemoval
    <3>2. op' \in Ops /\ OpOK'
      BY <3>1 DEF OpOK, Idle, Ops
    <3>3. Gone' = {} /\ Lo' = entries \ hidden /\ Mid' = entries /\ Hi' = entries
      BY <1>1, <3>1 DEF Lo, Mid, Hi, Late, Gone, Noticed, Idle
    <3>4. e \notin entries
      BY <1>1, <2>2 DEF Uninstalling
    <3>5. QED BY <1>4, <3>2, <3>3, <3>4
  <2>3. QED BY <1>1, <2>1, <2>2
<1>13. Fits(memo', Lo', Mid', Hi')
  BY <1>11, <1>12, Widens
<1>14. Fits(memo, Lo, Mid, Hi)'
  BY <1>13 DEF Fits, Within, VersIn, KeysOf, Cat
<1>15. /\ dirs' \subseteq dirs
       /\ \A x \in entries \cup litter : Cat(x) \in dirs'
       /\ kind = "vdb" /\ dirs' # dirs =>
            /\ \A x \in entries : Cat(x) # c
            /\ Cardinality(WithPkgs(memo, c).pkgs[c]) = 1
  BY <1>2, <1>8 DEF RmDir
<1>16. ASSUME kind = "vdb", memo'.cats # Unread PROVE memo'.cats \subseteq dirs'
  <2>1. memo'.cats = n.cats /\ n.cats \subseteq dirs
    <3>1. n.cats \in {memo.cats, dirs}
      BY <1>3, <1>7, FillCats
    <3>2. QED BY <1>11, <1>16, <3>1 DEF MemoInv
  <2>2. ASSUME dirs' # dirs PROVE FALSE
    <3>1. KeysOf(Hi, c) \subseteq {KeyOf[e]} /\ VersIn(Hi, KeyOf[e]) \subseteq {e}
      <4>1. ASSUME NEW x \in Hi, Cat(x) = c PROVE x = e
        BY <1>4, <1>15, <1>16, <2>2, <4>1
      <4>2. \A x \in Hi : KeyOf[x] = KeyOf[e] => Cat(x) = c
        BY DEF Cat
      <4>3. QED BY <4>1, <4>2 DEF KeysOf, VersIn
    <3>2. n.pkgs[c] # Unread /\ Cardinality(n.pkgs[c]) = 1
      BY <1>7, <1>15, <1>16, <2>2 DEF RemovalRaises
    <3>3. n.pkgs[c] \subseteq {KeyOf[e]}
      BY <1>6, <1>7, <3>1, <3>2 DEF Fits
    <3>4. n.pkgs[c] # {}
      BY <3>2, FS_EmptySet
    <3>5. n.vers[KeyOf[e]] \subseteq {e}
      <4>1. n.vers[KeyOf[e]] # Unread
        BY <1>5, <1>9 DEF Remembered
      <4>2. QED BY <1>6, <1>7, <3>1, <4>1 DEF Fits, Within
    <3>6. QED BY <1>11, <1>16, <3>3, <3>4, <3>5
  <2>3. QED BY <2>1, <2>2
<1>17. raised' = FALSE /\ held' \subseteq Entries /\ dirs' \subseteq Cats
  BY <1>1, <1>2, <1>8, <1>15 DEF MemoInv, MemoTypeOK
<1>18. MemoTypeOK'
  BY <1>1, <1>2, <1>12, <1>14, <1>17 DEF MemoInv, MemoTypeOK, Fits, Memos
<1>19. \A x \in held' : Remembered(memo', x)
  BY <1>1, <1>2, <1>9, <1>11
<1>20. (\A x \in held : Remembered(memo, x))'
  BY <1>19 DEF Remembered, Cat
<1>21. (\A x \in entries \cup litter \cup Gone : Cat(x) \in dirs)'
  BY <1>1, <1>12, <1>15 DEF Cat
<1>22. QED BY <1>1, <1>12, <1>14, <1>16, <1>17, <1>18, <1>20, <1>21 DEF MemoInv

LEMMA StutterStep == ASSUME MemoInv, UNCHANGED memoVars PROVE MemoInv'
<1>1. UNCHANGED <<kind, entries, dirs, litter, memo, held, op, raised, hidden>>
  BY DEF memoVars
<1>2. Lo' = Lo /\ Mid' = Mid /\ Hi' = Hi /\ Gone' = Gone
  BY <1>1 DEF Lo, Mid, Hi, Late, Gone, Noticed
<1>3. OpOK'
  BY <1>1 DEF MemoInv, OpOK, Idle, Installing, Uninstalling, Replacing
<1>4. QED BY <1>1, <1>2, <1>3, QuietStep DEF MemoInv, MemoTypeOK

LEMMA MemoStepHolds == ASSUME MemoInv, [MemoNext]_memoVars PROVE MemoInv'
<1>1. CASE Operate
  BY <1>1, BeginStep, NotifyRemoveStep, RemoveOldStep, RenameNewStep, NotifyAddStep, FailStep
     DEF Operate
<1>2. QED BY <1>1, SearchStep, StutterStep DEF MemoNext

LEMMA MemoInitHolds == ASSUME MemoInit PROVE MemoInv
<1>1. NoMemo \in Memos
  BY DEF NoMemo, Memos, Sets
<1>2. entries \subseteq Entries /\ dirs \subseteq Cats /\ op \in Ops /\ OpOK
  BY Sorts DEF MemoInit, Idle, Ops, OpOK
<1>3. MemoTypeOK
  BY <1>1, <1>2 DEF MemoInit, MemoTypeOK, Memos
<1>4. Fits(memo, Lo, Mid, Hi)
  BY <1>1 DEF MemoInit, Fits, NoMemo
<1>5. \A e \in entries \cup litter \cup Gone : Cat(e) \in dirs
  BY DEF MemoInit, Gone, Idle
<1>6. ~raised /\ held = {} /\ memo.cats = Unread
  BY DEF MemoInit, NoMemo
<1>7. QED BY <1>2, <1>3, <1>4, <1>5, <1>6 DEF MemoInv

THEOREM Consistent == MemoSpec => []MemoInv
BY MemoInitHolds, MemoStepHolds, PTL DEF MemoSpec

\* Whatever was looked at, installed, replaced or removed, in whatever order: between
\* operations a search shows what is on the disk, but for what a failed replacement
\* had given notice of (prototype.tree and the operations of vdb and binpkg).
THEOREM SearchesShowTheDisk == MemoSpec => []ShowsTheDisk
<1>1. ASSUME MemoInv PROVE ShowsTheDisk
  <2> SUFFICES ASSUME Quiet, ~SearchRaises(memo)
               PROVE  View(memo) \subseteq entries /\ entries \ View(memo) \subseteq hidden
    BY DEF ShowsTheDisk
  <2>1. op.stage = "idle"
    BY DEF Quiet, Idle
  <2>2. Lo = entries \ hidden /\ Hi = entries
    BY <1>1, <2>1, Bounds
  <2>3. Readable(Lo, Mid, Hi) /\ Lo \subseteq Mid /\ Fits(memo, Lo, Mid, Hi)
    BY <1>1, <2>1, CanRead DEF MemoInv
  <2>4. View(memo) \subseteq Hi /\ Lo \subseteq View(memo)
    BY <2>3, Seen
  <2>5. QED BY <2>2, <2>4
<1>2. QED BY <1>1, Consistent, PTL

\* notify_remove_package finds what it is told of, and a search of the installed
\* packages never stumbles, not even in the middle of an operation.
THEOREM NothingRaises == MemoSpec => []NeverRaises
<1>1. ASSUME MemoInv PROVE NeverRaises
  <2> DEFINE hi == Hi \cup entries
  <2>1. Fits(memo, Lo, Mid, hi)
    BY <1>1, Widens DEF MemoInv
  <2>2. Gone \subseteq Entries
    BY <1>1 DEF Gone, MemoInv, OpOK, Idle, Installing, Uninstalling, Replacing, MemoTypeOK
  <2>3. Readable(Lo, Mid, hi) /\ Lo \subseteq Mid
    BY <1>1, <2>2 DEF MemoInv, MemoTypeOK, Readable, Lo, Mid, Hi
  <2>4. memo.cats = Unread \/ memo.cats \subseteq dirs => ~SearchRaises(memo)
    BY <2>1, <2>3, Seen
  <2>5. QED BY <1>1, <2>4 DEF MemoInv, MemoTypeOK, NeverRaises
<1>2. QED BY <1>1, Consistent, PTL

-----------------------------------------------------------------------------
(***************************************************************************)
(* MetadataCache, for every set of packages, eclasses and programs, and    *)
(* any number of edits and crashes.  What a program computes lies between  *)
(* the tree as it was when it began, or when it took up the package, and   *)
(* the tree as it is: ProgramOK says so of each thing that is computed, at *)
(* each place of the program; entries on the disk only have to be          *)
(* well-formed, as nothing is known of who wrote them, or when.            *)
(***************************************************************************)

Places == {"off", "next", "read", "validate", "delete", "source", "inherit", "preload",
           "store", "rename", "got", "bad", "clean", "done", "failed", "dead"}

Sums == UNION {[es -> Versions] : es \in SUBSET Eclasses}
AnyEntry == [src : Versions, from : Sums, chf : Versions \cup {None}, ecl : Sums]
Named == (Programs \cup {"own"}) \X Pkgs
EclassMemos == [Eclasses -> Versions \cup {None}]

Records ==
    [regen : BOOLEAN, at : Places, pass : {1, 2}, todo : SUBSET Pkgs, passed : SUBSET Pkgs,
     pkg : Pkgs \cup {None}, cache : Caches, held : AnyEntry \cup {None},
     hash : Versions \cup {None}, memo : EclassMemos, loaded : EclassMemos,
     start : [Files -> Versions], call : [Files -> Versions],
     listed : SUBSET Named, old : SUBSET Named]

\* An entry for p holds the checksums of the eclasses it was sourced from.
WellFormed(p, e) ==
    /\ e \in AnyEntry
    /\ DOMAIN e.from = Inherits[p][e.src]
    /\ DOMAIN e.ecl = DOMAIN e.from

\* Checksums computed since start.
Since(known, start, v) ==
    \A e \in Eclasses : known[e] # None => start[e] <= known[e] /\ known[e] <= v[e]

\* What was sourced since the program took up the package.
SourcedSince(r) == r.held \in AnyEntry /\ r.call[r.pkg] <= r.held.src
ReadSince(r) ==
    /\ DOMAIN r.held.from = Inherits[r.pkg][r.held.src]
    /\ \A e \in DOMAIN r.held.from : r.start[e] <= r.held.from[e]

\* NoneOlder, of one program.
Newer(r) ==
    ~Raced(r.held) =>
      /\ r.held.src >= r.call[r.pkg]
      /\ DOMAIN r.held.from = Inherits[r.pkg][r.held.src]
      /\ \A e \in DOMAIN r.held.from : r.held.from[e] >= r.start[e]

\* What is so of a program when the tree is v.
ProgramOK(r, v) ==
    /\ r \in Records
    /\ \A f \in Files : r.start[f] <= r.call[f] /\ r.call[f] <= v[f]
    /\ Since(r.memo, r.start, v)
    /\ Since(r.loaded, r.start, v)
    /\ r.at \in {"read", "validate", "delete", "source", "inherit", "preload", "store",
                 "rename", "got", "bad"} =>
         /\ r.pkg \in Pkgs
         /\ r.hash # None => r.call[r.pkg] <= r.hash
    /\ r.at = "validate" => WellFormed(r.pkg, r.held)
    /\ r.at \in {"inherit", "preload", "store", "rename"} => SourcedSince(r)
    /\ r.at \in {"preload", "store", "rename"} => ReadSince(r)
    /\ r.at = "rename" => WellFormed(r.pkg, r.held)
    /\ r.at = "got" => Newer(r)

TypeOK ==
    /\ ver \in [Files -> Versions]
    /\ tree \subseteq Pkgs
    /\ temps \subseteq Programs \X Pkgs
    /\ DOMAIN prog = Programs
    /\ edits \in 0 .. MaxEdits
    /\ \A f \in Files : ver[f] <= edits

DiskOK ==
    /\ disk \in [Caches -> [Pkgs -> AnyEntry \cup {None}]]
    /\ \A c \in Caches, p \in Pkgs : disk[c][p] # None => WellFormed(p, disk[c][p])

IInv ==
    /\ TypeOK
    /\ DiskOK
    /\ \A a \in Programs : prog[a].at = "off" \/ ProgramOK(prog[a], ver)
-----------------------------------------------------------------------------
\* Versions are numbers, and None is none of them.
LEMMA VersionsAreNumbers ==
    /\ Versions \subseteq Nat /\ None \notin Versions /\ 0 \in Versions
    /\ \A p \in Pkgs, v \in Versions : Inherits[p][v] \subseteq Eclasses
    /\ Pkgs \subseteq Files /\ Eclasses \subseteq Files
BY CacheAssumption DEF Versions, Files

\* The entry nobody disturbs is well-formed.
LEMMA OwnEntryFits ==
    ASSUME NEW p \in Pkgs, ver \in [Files -> Versions]
    PROVE  WellFormed(p, OwnEntry(p))
<1> DEFINE es == Inherits[p][ver[p]]
           from == [e \in es |-> ver[e]]
<1>1. es \subseteq Eclasses /\ ver[p] \in Versions
  BY VersionsAreNumbers
<1>2. from \in Sums /\ DOMAIN from = es
  <2>1. from \in [es -> Versions]
    BY <1>1, VersionsAreNumbers
  <2>2. QED BY <1>1, <2>1 DEF Sums
<1>3. OwnEntry(p) = [src |-> ver[p], from |-> from, chf |-> ver[p], ecl |-> from]
  BY DEF OwnEntry, Entry
<1> HIDE DEF from
<1>4. QED BY <1>1, <1>2, <1>3 DEF WellFormed, AnyEntry

\* A step of one program, that leaves the tree alone.
LEMMA StepSuffices ==
    ASSUME IInv, NEW a \in Programs, NEW r, prog' = [prog EXCEPT ![a] = r],
           ProgramOK(r, ver), UNCHANGED <<ver, tree, edits>>, DiskOK',
           temps' \subseteq Programs \X Pkgs
    PROVE  IInv'
<1>1. TypeOK'
  BY DEF IInv, TypeOK
<1>2. \A b \in Programs : prog[b].at = "off" \/ ProgramOK(prog[b], ver)
  BY DEF IInv
<1>3. \A b \in Programs : prog'[b] = IF b = a THEN r ELSE prog[b]
  BY DEF IInv, TypeOK
<1>4. \A b \in Programs : prog'[b].at = "off" \/ ProgramOK(prog'[b], ver)
  BY <1>2, <1>3
<1>5. ver' = ver
  OBVIOUS
<1>6. \A b \in Programs : prog'[b].at = "off" \/ ProgramOK(prog'[b], ver')
  BY <1>4, <1>5
<1>7. QED BY <1>1, <1>6 DEF IInv

LEMMA DiskRests == ASSUME DiskOK, UNCHANGED disk PROVE DiskOK'
BY DEF DiskOK

\* An entry is deleted.
LEMMA DiskLoses ==
    ASSUME DiskOK, NEW p, disk' = disk \/ disk' = [disk EXCEPT !.own[p] = None]
    PROVE  DiskOK'
<1>1. CASE disk' = disk
  BY <1>1 DEF DiskOK
<1>2. CASE disk' = [disk EXCEPT !.own[p] = None]
  BY <1>2 DEF DiskOK, Caches
<1>3. QED BY <1>1, <1>2

THEOREM InitHolds == Init => IInv
<1> SUFFICES ASSUME Init PROVE IInv
  OBVIOUS
<1>1. ver \in [Files -> Versions] /\ \A f \in Files : ver[f] = 0
  BY VersionsAreNumbers DEF Init
<1>2. TypeOK
  BY <1>1, CacheAssumption DEF Init, TypeOK
<1>3. DiskOK
  <2>1. PICK k \in SUBSET Caches :
          disk = [c \in Caches |-> [p \in Pkgs |-> IF c \in k THEN OwnEntry(p) ELSE None]]
    BY DEF Init
  <2>2. \A p \in Pkgs : WellFormed(p, OwnEntry(p)) /\ OwnEntry(p) \in AnyEntry
    BY <1>1, OwnEntryFits DEF WellFormed
  <2>3. QED BY <2>1, <2>2 DEF DiskOK
<1>4. \A a \in Programs : prog[a].at = "off"
  BY DEF Init
<1>5. QED BY <1>2, <1>3, <1>4 DEF IInv
-----------------------------------------------------------------------------
(* The checksums.                                                          *)

\* What is known to a program that has begun.
LEMMA Known ==
    ASSUME IInv, NEW a \in Programs, prog[a].at # "off"
    PROVE  ProgramOK(prog[a], ver) /\ prog[a] \in Records
BY DEF IInv, ProgramOK

\* A memo of checksums, with some of them computed now.
LEMMA MemoisedSince ==
    ASSUME ver \in [Files -> Versions], NEW known \in EclassMemos, NEW start \in [Files -> Versions],
           NEW es \in SUBSET Eclasses, Since(known, start, ver),
           \A f \in Files : start[f] <= ver[f]
    PROVE  /\ Memoised(known, es) \in EclassMemos
           /\ Since(Memoised(known, es), start, ver)
           /\ \A e \in es : /\ Memoised(known, es)[e] \in Versions
                            /\ start[e] <= Memoised(known, es)[e]
<1> DEFINE m == Memoised(known, es)
<1>1. \A e \in Eclasses : /\ m[e] = IF e \in es /\ known[e] = None THEN ver[e] ELSE known[e]
                          /\ ver[e] \in Versions /\ start[e] \in Versions
                          /\ known[e] \in Versions \cup {None}
                          /\ start[e] <= ver[e] /\ ver[e] <= ver[e]
  <2> SUFFICES ASSUME NEW e \in Eclasses
               PROVE  /\ m[e] = IF e \in es /\ known[e] = None THEN ver[e] ELSE known[e]
                      /\ ver[e] \in Versions /\ start[e] \in Versions
                      /\ known[e] \in Versions \cup {None}
                      /\ start[e] <= ver[e] /\ ver[e] <= ver[e]
    OBVIOUS
  <2>1. m[e] = IF e \in es /\ known[e] = None THEN ver[e] ELSE known[e]
    BY DEF Memoised
  <2>2. e \in Files
    BY VersionsAreNumbers
  <2>3. ver[e] \in Versions /\ start[e] \in Versions /\ start[e] <= ver[e]
    BY <2>2
  <2>4. known[e] \in Versions \cup {None}
    BY DEF EclassMemos
  <2>5. ver[e] <= ver[e]
    <3>1. ver[e] \in Nat
      BY <2>3, VersionsAreNumbers
    <3>2. QED BY <3>1
  <2>6. QED BY <2>1, <2>3, <2>4, <2>5
<1>2. m \in EclassMemos
  <2>1. m = [e \in Eclasses |-> m[e]]
    BY DEF Memoised
  <2>2. \A e \in Eclasses : m[e] \in Versions \cup {None}
    BY <1>1
  <2> HIDE DEF m
  <2>3. QED BY <2>1, <2>2 DEF EclassMemos
<1> HIDE DEF m
<1>3. Since(m, start, ver)
  BY <1>1 DEF Since
<1>4. \A e \in es : m[e] # None
  BY <1>1, VersionsAreNumbers
<1>5. \A e \in es : m[e] \in Versions /\ start[e] <= m[e]
  BY <1>1, <1>3, <1>4 DEF Since
<1>6. QED BY <1>2, <1>3, <1>5 DEF m

\* When a program began, when it took up the package, and now, are in order.
LEMMA InOrder ==
    ASSUME NEW q \in Records, ver \in [Files -> Versions], ProgramOK(q, ver)
    PROVE  \A f \in Files :
             /\ q.start[f] \in Versions /\ q.call[f] \in Versions /\ ver[f] \in Versions
             /\ q.start[f] <= ver[f] /\ q.call[f] <= ver[f]
<1> SUFFICES ASSUME NEW f \in Files
             PROVE  /\ q.start[f] \in Versions /\ q.call[f] \in Versions /\ ver[f] \in Versions
                    /\ q.start[f] <= ver[f] /\ q.call[f] <= ver[f]
  OBVIOUS
<1>1. q.start[f] \in Versions /\ q.call[f] \in Versions /\ ver[f] \in Versions
  BY DEF Records
<1>2. q.start[f] \in Nat /\ q.call[f] \in Nat /\ ver[f] \in Nat
  BY <1>1, VersionsAreNumbers
<1>3. q.start[f] <= q.call[f] /\ q.call[f] <= ver[f]
  BY DEF ProgramOK
<1>4. QED BY <1>1, <1>2, <1>3

-----------------------------------------------------------------------------
(* The steps of a program.                                                 *)

LEMMA ProgramBegins == ASSUME IInv, NEW a \in Programs, Begin(a) PROVE IInv'
<1>1. PICK regen \in BOOLEAN : prog' = [prog EXCEPT ![a] = Fresh(regen)]
  BY DEF Begin
<1> DEFINE r == Fresh(regen)
           old == {t \in temps : prog[t[1]].at = "dead"}
<1>2. old \in SUBSET Named
  BY DEF IInv, TypeOK, Named
<1>3. [e \in Eclasses |-> None] \in EclassMemos
  BY DEF EclassMemos
<1>4. /\ r \in Records /\ r.at = "next" /\ r.start = ver /\ r.call = ver
      /\ r.memo = [e \in Eclasses |-> None] /\ r.loaded = [e \in Eclasses |-> None]
  <2> HIDE DEF old
  <2>1. r = [regen |-> regen, at |-> "next", pass |-> 1, todo |-> tree, passed |-> {},
             pkg |-> None, cache |-> "own", held |-> None, hash |-> None,
             memo |-> [e \in Eclasses |-> None], loaded |-> [e \in Eclasses |-> None],
             start |-> ver, call |-> ver, listed |-> {}, old |-> old]
    BY DEF Fresh, old
  <2>2. tree \in SUBSET Pkgs /\ ver \in [Files -> Versions] /\ "own" \in Caches
    BY DEF IInv, TypeOK, Caches
  <2>3. QED BY <1>2, <1>3, <2>1, <2>2 DEF Records, Places
<1>5. Since(r.memo, r.start, ver) /\ Since(r.loaded, r.start, ver)
  BY <1>4 DEF Since
<1>6. \A f \in Files : ver[f] <= ver[f]
  BY VersionsAreNumbers DEF IInv, TypeOK
<1> HIDE DEF r
<1>7. ProgramOK(r, ver)
  BY <1>4, <1>5, <1>6 DEF ProgramOK
<1>8. UNCHANGED <<ver, tree, edits, disk, temps>>
  BY DEF Begin, Stand
<1>9. QED BY <1>1, <1>7, <1>8, StepSuffices, DiskRests DEF IInv, TypeOK, r

LEMMA ChooseStep == ASSUME IInv, NEW a \in Programs, Choose(a) PROVE IInv'
<1>1. PICK p \in prog[a].todo :
        prog' = [prog EXCEPT ![a].at = "read", ![a].todo = @ \ {p}, ![a].pkg = p,
                             ![a].cache = "pregenerated", ![a].hash = None, ![a].call = ver]
  BY DEF Choose
<1> DEFINE r == [prog[a] EXCEPT !.at = "read", !.todo = @ \ {p}, !.pkg = p,
                                !.cache = "pregenerated", !.hash = None, !.call = ver]
<1>2. prog' = [prog EXCEPT ![a] = r]
  BY <1>1 DEF IInv, TypeOK
<1>3. ProgramOK(prog[a], ver) /\ prog[a] \in Records
  BY Known DEF Choose
<1>4. p \in Pkgs /\ ver \in [Files -> Versions]
  BY <1>3 DEF Records, IInv, TypeOK
<1>5. /\ r \in Records
      /\ r.at = "read" /\ r.pkg = p /\ r.hash = None /\ r.call = ver
      /\ r.start = prog[a].start /\ r.memo = prog[a].memo /\ r.loaded = prog[a].loaded
  BY <1>3, <1>4 DEF Records, Places, Caches
<1>6. \A f \in Files : r.start[f] <= ver[f] /\ ver[f] <= ver[f]
  BY <1>3, <1>4, <1>5, VersionsAreNumbers DEF ProgramOK, Records
<1> HIDE DEF r
<1>7. ProgramOK(r, ver)
  BY <1>3, <1>4, <1>5, <1>6 DEF ProgramOK
<1>8. UNCHANGED <<ver, tree, edits, disk, temps>>
  BY DEF Choose, Stand
<1>9. QED BY <1>2, <1>7, <1>8, StepSuffices, DiskRests DEF IInv, TypeOK
\* Going on to where nothing is expected of what the program holds.
LEMMA GoesOn ==
    ASSUME NEW v, NEW q, ProgramOK(q, v), NEW r \in Records,
           r.start = q.start, r.call = q.call, r.memo = q.memo, r.loaded = q.loaded,
           \/ r.at \in {"next", "clean", "done", "failed", "dead"}
           \/ /\ r.at \in {"read", "delete", "source", "bad"}
              /\ q.at \in {"read", "validate", "delete", "source"}
              /\ r.pkg = q.pkg /\ r.hash = q.hash
    PROVE  ProgramOK(r, v)
BY DEF ProgramOK

\* After a cache that had nothing of use.
LEMMA OnwardStep ==
    ASSUME NEW q \in Records, NEW v, ProgramOK(q, v), q.at \in {"read", "delete"}
    PROVE  ProgramOK(Onward(q), v)
<1>1. CASE q.cache = "own"
  <2>1. Onward(q) = [q EXCEPT !.at = "source"]
    BY <1>1 DEF Onward
  <2>2. Onward(q) \in Records /\ Onward(q).at = "source"
    BY <2>1 DEF Records, Places
  <2>3. QED BY <2>1, <2>2, GoesOn DEF Records
<1>2. CASE q.cache # "own"
  <2>1. Onward(q) = [q EXCEPT !.at = "read", !.cache = "own"]
    BY <1>2 DEF Onward
  <2>2. Onward(q) \in Records /\ Onward(q).at = "read"
    BY <2>1 DEF Records, Places, Caches
  <2>3. QED BY <2>1, <2>2, GoesOn DEF Records
<1>3. QED BY <1>1, <1>2

LEMMA ReadStep == ASSUME IInv, NEW a \in Programs, Read(a) PROVE IInv'
<1> DEFINE q == prog[a]
           e == disk[q.cache][q.pkg]
<1>1. ProgramOK(q, ver) /\ q \in Records /\ q.at = "read"
  BY Known DEF Read
<1>2. q.pkg \in Pkgs /\ q.cache \in Caches
  BY <1>1 DEF ProgramOK, Records
<1>3. PICK r : prog' = [prog EXCEPT ![a] = r] /\ ProgramOK(r, ver)
  <2>1. CASE e = None
    <3>1. prog' = [prog EXCEPT ![a] = Onward(q)]
      BY <2>1 DEF Read, IInv, TypeOK
    <3>2. QED BY <1>1, <3>1, OnwardStep
  <2>2. CASE e # None
    <3> DEFINE r == [q EXCEPT !.at = "validate", !.held = e]
    <3>1. prog' = [prog EXCEPT ![a] = r]
      BY <2>2 DEF Read, IInv, TypeOK
    <3>2. WellFormed(q.pkg, e) /\ e \in AnyEntry
      BY <1>2, <2>2 DEF IInv, DiskOK, WellFormed
    <3> HIDE DEF e
    <3>3. /\ r \in Records /\ r.at = "validate" /\ r.held = e /\ r.pkg = q.pkg /\ r.hash = q.hash
          /\ r.start = q.start /\ r.call = q.call /\ r.memo = q.memo /\ r.loaded = q.loaded
      BY <1>1, <3>2 DEF Records, Places
    <3> HIDE DEF r
    <3>4. ProgramOK(r, ver)
      BY <1>1, <3>2, <3>3 DEF ProgramOK
    <3>5. QED BY <3>1, <3>4
  <2>3. QED BY <2>1, <2>2
<1>4. UNCHANGED <<ver, tree, edits, disk, temps>>
  BY DEF Read, Stand
<1>5. QED BY <1>3, <1>4, StepSuffices, DiskRests DEF IInv, TypeOK

\* What is valid was sourced from what is in the tree since, or was edited meanwhile.
LEMMA ValidateStep == ASSUME IInv, NEW a \in Programs, Validate(a) PROVE IInv'
<1> DEFINE q == prog[a]
<1>1. ProgramOK(q, ver) /\ q \in Records /\ q.at = "validate"
  BY Known DEF Validate
<1>2. PICK known \in Looked(q) :
        prog' = [prog EXCEPT ![a].at = IF Valid(q) THEN "got" ELSE "delete",
                             ![a].hash = Hashed(q), ![a].memo = known]
  BY DEF Validate
<1> DEFINE at == IF Valid(q) THEN "got" ELSE "delete"
           h == Hashed(q)
           r == [q EXCEPT !.at = at, !.hash = h, !.memo = known]
<1>3. prog' = [prog EXCEPT ![a] = r]
  BY <1>2 DEF IInv, TypeOK
<1>4. /\ ver \in [Files -> Versions] /\ q.pkg \in Pkgs /\ q.pkg \in Files
      /\ q.memo \in EclassMemos /\ q.start \in [Files -> Versions] /\ q.call \in [Files -> Versions]
      /\ Since(q.memo, q.start, ver)
      /\ q.held \in AnyEntry /\ q.held.ecl \in Sums
  BY <1>1, VersionsAreNumbers DEF ProgramOK, Records, IInv, TypeOK, WellFormed, AnyEntry
<1>5. \A f \in Files : /\ q.start[f] \in Versions /\ q.call[f] \in Versions /\ ver[f] \in Versions
                       /\ q.start[f] <= ver[f] /\ q.call[f] <= ver[f]
  BY <1>1, <1>4, InOrder
<1>6. DOMAIN q.held.ecl \in SUBSET Eclasses
  BY <1>4 DEF Sums
<1>7. known \in EclassMemos /\ Since(known, q.start, ver)
  <2>1. known = q.memo \/ \E es \in SUBSET Eclasses : known = Memoised(q.memo, es)
    BY <1>2, <1>6 DEF Looked
  <2>2. QED BY <2>1, <1>4, <1>5, MemoisedSince
<1>8. h \in Versions /\ q.call[q.pkg] <= h
  <2>1. q.hash # None => q.hash \in Versions /\ q.call[q.pkg] <= q.hash
    BY <1>1 DEF ProgramOK, Records
  <2>2. QED BY <2>1, <1>4, <1>5 DEF Hashed
<1>9. Valid(q) => Newer(q)
  <2> SUFFICES ASSUME Valid(q), ~Raced(q.held)
               PROVE  /\ q.held.src >= q.call[q.pkg]
                      /\ DOMAIN q.held.from = Inherits[q.pkg][q.held.src]
                      /\ \A e \in DOMAIN q.held.from : q.held.from[e] >= q.start[e]
    BY DEF Newer
  <2>1. q.held.src = q.held.chf /\ q.held.from = q.held.ecl
    BY DEF Raced
  <2>2. q.held.chf = h
    BY DEF Valid
  <2> DEFINE es == DOMAIN q.held.ecl
             m == Memoised(q.memo, es)
  <2>3. \A e \in es : q.held.ecl[e] = m[e]
    BY DEF Valid
  <2>4. \A e \in es : m[e] \in Versions /\ q.start[e] <= m[e]
    BY <1>4, <1>5, <1>6, MemoisedSince
  <2>5. \A e \in es : e \in Files
    BY <1>6, VersionsAreNumbers
  <2>6. DOMAIN q.held.from = Inherits[q.pkg][q.held.src]
    BY <1>1 DEF ProgramOK, WellFormed
  <2>7. q.held.src >= q.call[q.pkg]
    BY <2>1, <2>2, <1>8, <1>4, <1>5, VersionsAreNumbers
  <2> HIDE DEF m
  <2>8. \A e \in es : q.held.ecl[e] >= q.start[e]
    BY <2>3, <2>4, <2>5, <1>5, VersionsAreNumbers
  <2>9. QED BY <2>1, <2>6, <2>7, <2>8
<1>10. at \in {"got", "delete"} /\ (at = "got" => Newer(q))
  BY <1>9
<1> HIDE DEF h, at
<1>11. /\ r \in Records /\ r.at = at /\ r.held = q.held /\ r.pkg = q.pkg /\ r.hash = h
       /\ r.start = q.start /\ r.call = q.call /\ r.memo = known /\ r.loaded = q.loaded
  BY <1>1, <1>7, <1>8, <1>10 DEF Records, Places
<1> HIDE DEF r
<1>12. at = "got" => Newer(r)
  BY <1>10, <1>11 DEF Newer
<1>13. ProgramOK(r, ver)
  BY <1>1, <1>7, <1>8, <1>10, <1>11, <1>12 DEF ProgramOK
<1>14. UNCHANGED <<ver, tree, edits, disk, temps>>
  BY DEF Validate, Stand
<1>15. QED BY <1>3, <1>13, <1>14, StepSuffices, DiskRests DEF IInv, TypeOK
LEMMA DeleteStep == ASSUME IInv, NEW a \in Programs, Delete(a) PROVE IInv'
<1> DEFINE q == prog[a]
           r == [q EXCEPT !.held = None]
<1>1. ProgramOK(q, ver) /\ q \in Records /\ q.at = "delete"
  BY Known DEF Delete
<1>2. prog' = [prog EXCEPT ![a] = Onward(r)]
  BY DEF Delete, IInv, TypeOK
<1>3. /\ r \in Records /\ r.at = "delete" /\ r.pkg = q.pkg /\ r.hash = q.hash
      /\ r.start = q.start /\ r.call = q.call /\ r.memo = q.memo /\ r.loaded = q.loaded
  BY <1>1 DEF Records
<1> HIDE DEF r
<1>4. ProgramOK(Onward(r), ver)
  BY <1>1, <1>3, GoesOn, OnwardStep
<1>5. DiskOK'
  <2>1. disk' = disk \/ disk' = [disk EXCEPT !.own[q.pkg] = None]
    BY DEF Delete
  <2>2. QED BY <2>1, DiskLoses DEF IInv
<1>6. UNCHANGED <<ver, tree, edits, temps>>
  BY DEF Delete, Stand
<1>7. QED BY <1>2, <1>4, <1>5, <1>6, StepSuffices DEF IInv, TypeOK

LEMMA SourceStep == ASSUME IInv, NEW a \in Programs, Source(a) PROVE IInv'
<1> DEFINE q == prog[a]
           v == ver[q.pkg]
           at == IF v \in Sound[q.pkg] THEN "inherit" ELSE "bad"
           e == Entry(v, <<>>, None, <<>>)
           r == [q EXCEPT !.at = at, !.held = e]
<1>1. ProgramOK(q, ver) /\ q \in Records /\ q.at = "source"
  BY Known DEF Source
<1>2. prog' = [prog EXCEPT ![a] = r]
  BY DEF Source, IInv, TypeOK
<1>3. q.pkg \in Files /\ ver \in [Files -> Versions]
  BY <1>1, VersionsAreNumbers DEF ProgramOK, IInv, TypeOK
<1>4. v \in Versions /\ q.call[q.pkg] <= v
  BY <1>1, <1>3, InOrder
<1>5. e \in AnyEntry /\ e.src = v
  <2>1. <<>> \in [{} -> Versions]
    OBVIOUS
  <2>2. <<>> \in Sums
    BY <2>1 DEF Sums
  <2>3. QED BY <1>4, <2>2 DEF Entry, AnyEntry
<1>6. at \in {"inherit", "bad"}
  OBVIOUS
<1> HIDE DEF at, e
<1>7. /\ r \in Records /\ r.at = at /\ r.held = e /\ r.pkg = q.pkg /\ r.hash = q.hash
      /\ r.start = q.start /\ r.call = q.call /\ r.memo = q.memo /\ r.loaded = q.loaded
  BY <1>1, <1>5, <1>6 DEF Records, Places
<1> HIDE DEF r
<1>8. SourcedSince(r)
  BY <1>4, <1>5, <1>7 DEF SourcedSince
<1>9. ProgramOK(r, ver)
  BY <1>1, <1>6, <1>7, <1>8 DEF ProgramOK
<1>10. UNCHANGED <<ver, tree, edits, disk, temps>>
  BY DEF Source, Stand
<1>11. QED BY <1>2, <1>9, <1>10, StepSuffices, DiskRests DEF IInv, TypeOK

LEMMA InheritStep == ASSUME IInv, NEW a \in Programs, Inherit(a) PROVE IInv'
<1> DEFINE q == prog[a]
           es == Inherits[q.pkg][q.held.src]
           from == [e \in es |-> IF Preloads(q) THEN Memoised(q.loaded, es)[e] ELSE ver[e]]
           at == IF Preloads(q) THEN "preload" ELSE "store"
           r == [q EXCEPT !.at = at, !.held.from = from]
<1>1. ProgramOK(q, ver) /\ q \in Records /\ q.at = "inherit"
  BY Known DEF Inherit
<1>2. prog' = [prog EXCEPT ![a] = r]
  BY DEF Inherit, IInv, TypeOK
<1>3. /\ q.pkg \in Pkgs /\ ver \in [Files -> Versions] /\ SourcedSince(q)
      /\ q.held \in AnyEntry /\ q.loaded \in EclassMemos /\ q.start \in [Files -> Versions]
      /\ Since(q.loaded, q.start, ver)
  BY <1>1 DEF ProgramOK, IInv, TypeOK, SourcedSince, Records
<1>4. q.held.src \in Versions /\ es \in SUBSET Eclasses
  BY <1>3, VersionsAreNumbers DEF AnyEntry
<1>5. \A f \in Files : q.start[f] \in Versions /\ ver[f] \in Versions /\ q.start[f] <= ver[f]
  BY <1>1, <1>3, InOrder
<1>6. \A e \in es : /\ Memoised(q.loaded, es)[e] \in Versions
                    /\ q.start[e] <= Memoised(q.loaded, es)[e]
  BY <1>3, <1>4, <1>5, MemoisedSince
<1>7. \A e \in es : from[e] \in Versions /\ q.start[e] <= from[e]
  BY <1>4, <1>5, <1>6, VersionsAreNumbers
<1>8. DOMAIN from = es /\ from \in Sums
  <2>1. from \in [es -> Versions]
    BY <1>7
  <2>2. QED BY <1>4, <2>1 DEF Sums
<1>9. at \in {"preload", "store"}
  OBVIOUS
<1> DEFINE sourced == [q.held EXCEPT !.from = from]
<1> HIDE DEF from, at
<1>10. sourced \in AnyEntry /\ sourced.src = q.held.src /\ sourced.from = from
  BY <1>3, <1>8 DEF AnyEntry
<1>11. r = [q EXCEPT !.at = at, !.held = sourced]
  BY <1>1 DEF Records
<1> HIDE DEF r, sourced
<1>12. /\ r \in Records /\ r.at = at /\ r.held = sourced /\ r.pkg = q.pkg /\ r.hash = q.hash
       /\ r.start = q.start /\ r.call = q.call /\ r.memo = q.memo /\ r.loaded = q.loaded
  BY <1>1, <1>9, <1>10, <1>11 DEF Records, Places
<1>13. SourcedSince(r) /\ ReadSince(r)
  BY <1>3, <1>7, <1>8, <1>10, <1>12 DEF SourcedSince, ReadSince
<1>14. ProgramOK(r, ver)
  BY <1>1, <1>9, <1>12, <1>13 DEF ProgramOK
<1>15. UNCHANGED <<ver, tree, edits, disk, temps>>
  BY DEF Inherit, Stand
<1>16. QED BY <1>2, <1>14, <1>15, StepSuffices, DiskRests DEF IInv, TypeOK
LEMMA PreloadStep == ASSUME IInv, NEW a \in Programs, Preload(a) PROVE IInv'
<1> DEFINE q == prog[a]
           es == DOMAIN q.held.from
           m == Memoised(q.loaded, es)
           r == [q EXCEPT !.at = "store", !.loaded = m]
<1>1. ProgramOK(q, ver) /\ q \in Records /\ q.at = "preload"
  BY Known DEF Preload
<1>2. prog' = [prog EXCEPT ![a] = r]
  BY DEF Preload, IInv, TypeOK
<1>3. /\ ver \in [Files -> Versions] /\ SourcedSince(q) /\ ReadSince(q)
      /\ q.held \in AnyEntry /\ q.loaded \in EclassMemos /\ q.start \in [Files -> Versions]
      /\ Since(q.loaded, q.start, ver)
  BY <1>1 DEF ProgramOK, IInv, TypeOK, SourcedSince, Records
<1>4. es \in SUBSET Eclasses
  BY <1>3 DEF AnyEntry, Sums
<1>5. \A f \in Files : q.start[f] <= ver[f]
  BY <1>1, <1>3, InOrder
<1>6. m \in EclassMemos /\ Since(m, q.start, ver)
  BY <1>3, <1>4, <1>5, MemoisedSince
<1> HIDE DEF m
<1>7. /\ r \in Records /\ r.at = "store" /\ r.held = q.held /\ r.pkg = q.pkg /\ r.hash = q.hash
      /\ r.start = q.start /\ r.call = q.call /\ r.memo = q.memo /\ r.loaded = m
  BY <1>1, <1>6 DEF Records, Places
<1> HIDE DEF r
<1>8. SourcedSince(r) /\ ReadSince(r)
  BY <1>3, <1>7 DEF SourcedSince, ReadSince
<1>9. ProgramOK(r, ver)
  BY <1>1, <1>6, <1>7, <1>8 DEF ProgramOK
<1>10. UNCHANGED <<ver, tree, edits, disk, temps>>
  BY DEF Preload, Stand
<1>11. QED BY <1>2, <1>9, <1>10, StepSuffices, DiskRests DEF IInv, TypeOK

LEMMA StoreStep == ASSUME IInv, NEW a \in Programs, Store(a) PROVE IInv'
<1> DEFINE q == prog[a]
           es == DOMAIN q.held.from
           m == Memoised(q.memo, es)
           ecl == [k \in es |-> m[k]]
           e == Entry(q.held.src, q.held.from, ver[q.pkg], ecl)
           r == [q EXCEPT !.at = "rename", !.held = e, !.memo = m]
<1>1. ProgramOK(q, ver) /\ q \in Records /\ q.at = "store"
  BY Known DEF Store
<1>2. prog' = [prog EXCEPT ![a] = r]
  BY DEF Store, IInv, TypeOK
<1>3. /\ ver \in [Files -> Versions] /\ SourcedSince(q) /\ ReadSince(q) /\ q.pkg \in Pkgs
      /\ q.held \in AnyEntry /\ q.memo \in EclassMemos /\ q.start \in [Files -> Versions]
      /\ Since(q.memo, q.start, ver)
  BY <1>1 DEF ProgramOK, IInv, TypeOK, SourcedSince, Records
<1>4. es \in SUBSET Eclasses
  BY <1>3 DEF AnyEntry, Sums
<1>5. \A f \in Files : q.start[f] <= ver[f]
  BY <1>1, <1>3, InOrder
<1>6. m \in EclassMemos /\ Since(m, q.start, ver) /\ \A k \in es : m[k] \in Versions
  BY <1>3, <1>4, <1>5, MemoisedSince
<1> HIDE DEF m
<1>7. ecl \in Sums /\ DOMAIN ecl = es
  <2>1. ecl \in [es -> Versions]
    BY <1>6
  <2>2. QED BY <1>4, <2>1 DEF Sums
<1>8. ver[q.pkg] \in Versions
  BY <1>3, VersionsAreNumbers
<1> HIDE DEF ecl
<1>9. e \in AnyEntry /\ e.src = q.held.src /\ e.from = q.held.from /\ e.ecl = ecl
  BY <1>3, <1>7, <1>8 DEF Entry, AnyEntry
<1> HIDE DEF e
<1>10. /\ r \in Records /\ r.at = "rename" /\ r.held = e /\ r.pkg = q.pkg /\ r.hash = q.hash
       /\ r.start = q.start /\ r.call = q.call /\ r.memo = m /\ r.loaded = q.loaded
  BY <1>1, <1>6, <1>9 DEF Records, Places
<1> HIDE DEF r
<1>11. SourcedSince(r) /\ ReadSince(r) /\ WellFormed(r.pkg, r.held)
  BY <1>3, <1>7, <1>9, <1>10 DEF SourcedSince, ReadSince, WellFormed
<1>12. ProgramOK(r, ver)
  BY <1>1, <1>6, <1>10, <1>11 DEF ProgramOK
<1>13. UNCHANGED <<ver, tree, edits, disk>> /\ temps' = temps \cup {<<a, q.pkg>>}
  BY DEF Store, Stand
<1>14. temps' \subseteq Programs \X Pkgs
  BY <1>3, <1>13 DEF IInv, TypeOK
<1>15. QED BY <1>2, <1>12, <1>13, <1>14, StepSuffices, DiskRests DEF IInv

\* What was read since the program began is newer, whatever its checksums are.
LEMMA RenameStep == ASSUME IInv, NEW a \in Programs, Rename(a) PROVE IInv'
<1> DEFINE q == prog[a]
<1>1. ProgramOK(q, ver) /\ q \in Records /\ q.at = "rename"
  BY Known DEF Rename
<1>2. PICK at \in {"got", "next", "failed"} : prog' = [prog EXCEPT ![a].at = at]
  BY DEF Rename
<1> DEFINE r == [q EXCEPT !.at = at]
<1>3. prog' = [prog EXCEPT ![a] = r]
  BY <1>2 DEF IInv, TypeOK
<1>4. /\ r \in Records /\ r.at = at /\ r.held = q.held /\ r.pkg = q.pkg /\ r.hash = q.hash
      /\ r.start = q.start /\ r.call = q.call /\ r.memo = q.memo /\ r.loaded = q.loaded
  BY <1>1 DEF Records, Places
<1> HIDE DEF r
<1>5. SourcedSince(q) /\ ReadSince(q) /\ WellFormed(q.pkg, q.held) /\ q.pkg \in Pkgs
  BY <1>1 DEF ProgramOK
<1>6. Newer(r)
  <2>1. /\ q.call[q.pkg] \in Nat /\ q.held.src \in Nat
        /\ \A e \in DOMAIN q.held.from : q.start[e] \in Nat /\ q.held.from[e] \in Nat
    <3>1. q.pkg \in Files /\ q.call \in [Files -> Versions] /\ q.start \in [Files -> Versions]
      BY <1>1, <1>5, VersionsAreNumbers DEF Records
    <3>2. q.held.src \in Versions /\ q.held.from \in Sums
      BY <1>5 DEF WellFormed, AnyEntry
    <3>3. PICK es \in SUBSET Eclasses : q.held.from \in [es -> Versions]
      BY <3>2 DEF Sums
    <3>4. QED BY <3>1, <3>2, <3>3, VersionsAreNumbers
  <2>2. q.held.src >= q.call[q.pkg] /\ DOMAIN q.held.from = Inherits[q.pkg][q.held.src]
    BY <1>5, <2>1 DEF SourcedSince, ReadSince
  <2>3. \A e \in DOMAIN q.held.from : q.held.from[e] >= q.start[e]
    BY <1>5, <2>1 DEF ReadSince
  <2>4. QED BY <1>4, <2>2, <2>3 DEF Newer
<1>7. ProgramOK(r, ver)
  BY <1>1, <1>4, <1>6 DEF ProgramOK
<1>8. UNCHANGED <<ver, tree, edits>> /\ temps' \subseteq temps
  BY DEF Rename, Stand
<1>9. DiskOK'
  <2>1. disk' = disk \/ disk' = [disk EXCEPT !.own[q.pkg] = q.held]
    BY DEF Rename
  <2>2. CASE disk' = disk
    BY <2>2, DiskRests DEF IInv
  <2>3. CASE disk' = [disk EXCEPT !.own[q.pkg] = q.held]
    <3>1. q.held \in AnyEntry
      BY <1>5 DEF WellFormed
    <3>2. disk' \in [Caches -> [Pkgs -> AnyEntry \cup {None}]]
      BY <2>3, <3>1 DEF IInv, DiskOK, Caches
    <3>3. \A c \in Caches, p \in Pkgs :
            disk'[c][p] = IF c = "own" /\ p = q.pkg THEN q.held ELSE disk[c][p]
      BY <2>3 DEF IInv, DiskOK, Caches
    <3>4. QED BY <1>5, <3>2, <3>3 DEF IInv, DiskOK
  <2>4. QED BY <2>1, <2>2, <2>3
<1>10. temps' \subseteq Programs \X Pkgs
  BY <1>8 DEF IInv, TypeOK
<1>11. QED BY <1>3, <1>7, <1>8, <1>9, <1>10, StepSuffices
\* A step that only goes on to where nothing is expected.
LEMMA GoingOnSuffices ==
    ASSUME IInv, NEW a \in Programs, prog[a].at # "off", NEW r \in Records,
           prog' = [prog EXCEPT ![a] = r],
           r.at \in {"next", "clean", "done", "failed", "dead"},
           r.start = prog[a].start, r.call = prog[a].call,
           r.memo = prog[a].memo, r.loaded = prog[a].loaded,
           UNCHANGED <<ver, tree, edits>>, DiskOK', temps' \subseteq temps
    PROVE  IInv'
<1>1. ProgramOK(r, ver)
  BY Known, GoesOn
<1>2. temps' \subseteq Programs \X Pkgs
  BY DEF IInv, TypeOK
<1>3. QED BY <1>1, <1>2, StepSuffices

LEMMA GotStep == ASSUME IInv, NEW a \in Programs, Got(a) PROVE IInv'
<1> DEFINE q == prog[a]
           passed == IF q.at = "got" THEN q.passed \cup {q.pkg} ELSE q.passed
           r == [q EXCEPT !.at = "next", !.held = None, !.pkg = None, !.passed = passed]
<1>1. ProgramOK(q, ver) /\ q \in Records /\ q.at \in {"got", "bad"}
  BY Known DEF Got
<1>2. prog' = [prog EXCEPT ![a] = r]
  BY <1>1 DEF Got, IInv, TypeOK, Records
<1>3. passed \in SUBSET Pkgs
  BY <1>1 DEF ProgramOK, Records
<1> HIDE DEF passed
<1>4. /\ r \in Records /\ r.at = "next"
      /\ r.start = q.start /\ r.call = q.call /\ r.memo = q.memo /\ r.loaded = q.loaded
  BY <1>1, <1>3 DEF Records, Places
<1> HIDE DEF r
<1>5. UNCHANGED <<ver, tree, edits, disk, temps>>
  BY DEF Got, Stand
<1>6. QED BY <1>1, <1>2, <1>4, <1>5, GoingOnSuffices, DiskRests DEF IInv

LEMMA PassOverStep == ASSUME IInv, NEW a \in Programs, PassOver(a) PROVE IInv'
<1> DEFINE q == prog[a]
           listed == {x \in Names : x[1] = "own" => x[2] \notin q.passed}
<1>1. q \in Records /\ q.at = "next"
  BY Known DEF PassOver
<1>2. tree \in SUBSET Pkgs /\ listed \in SUBSET Named
  BY DEF IInv, TypeOK, Names, Named
<1> HIDE DEF listed
<1>3. PICK r \in Records :
        /\ prog' = [prog EXCEPT ![a] = r]
        /\ r.at \in {"next", "clean", "done"}
        /\ r.start = q.start /\ r.call = q.call /\ r.memo = q.memo /\ r.loaded = q.loaded
  <2>1. CASE ~q.regen
    <3> DEFINE r == [q EXCEPT !.at = "done"]
    <3>1. prog' = [prog EXCEPT ![a] = r]
      BY <2>1 DEF PassOver, IInv, TypeOK
    <3>2. /\ r \in Records /\ r.at = "done"
          /\ r.start = q.start /\ r.call = q.call /\ r.memo = q.memo /\ r.loaded = q.loaded
      BY <1>1 DEF Records, Places
    <3>3. QED BY <3>1, <3>2
  <2>2. CASE q.regen /\ q.pass = 1
    <3> DEFINE r == [q EXCEPT !.pass = 2, !.todo = tree, !.passed = {}]
    <3>1. prog' = [prog EXCEPT ![a] = r]
      BY <2>2 DEF PassOver, IInv, TypeOK
    <3>2. /\ r \in Records /\ r.at = "next"
          /\ r.start = q.start /\ r.call = q.call /\ r.memo = q.memo /\ r.loaded = q.loaded
      BY <1>1, <1>2 DEF Records, Places
    <3>3. QED BY <3>1, <3>2
  <2>3. CASE q.regen /\ q.pass # 1
    <3> DEFINE r == [q EXCEPT !.at = "clean", !.listed = listed]
    <3>1. prog' = [prog EXCEPT ![a] = r]
      BY <2>3 DEF PassOver, IInv, TypeOK, listed
    <3>2. /\ r \in Records /\ r.at = "clean"
          /\ r.start = q.start /\ r.call = q.call /\ r.memo = q.memo /\ r.loaded = q.loaded
      BY <1>1, <1>2 DEF Records, Places
    <3>3. QED BY <3>1, <3>2
  <2>4. QED BY <2>1, <2>2, <2>3
<1>4. UNCHANGED <<ver, tree, edits, disk, temps>>
  BY DEF PassOver, Stand
<1>5. QED BY <1>1, <1>3, <1>4, GoingOnSuffices, DiskRests DEF IInv

LEMMA CleanStep == ASSUME IInv, NEW a \in Programs, Clean(a) PROVE IInv'
<1> DEFINE q == prog[a]
<1>1. q \in Records /\ q.at = "clean"
  BY Known DEF Clean
<1>2. PICK r \in Records :
        /\ prog' = [prog EXCEPT ![a] = r]
        /\ r.at \in {"clean", "done", "failed"}
        /\ r.start = q.start /\ r.call = q.call /\ r.memo = q.memo /\ r.loaded = q.loaded
  <2>1. CASE prog' = [prog EXCEPT ![a].at = "done"]
    <3> DEFINE r == [q EXCEPT !.at = "done"]
    <3>1. prog' = [prog EXCEPT ![a] = r]
      BY <2>1 DEF IInv, TypeOK
    <3>2. /\ r \in Records /\ r.at = "done"
          /\ r.start = q.start /\ r.call = q.call /\ r.memo = q.memo /\ r.loaded = q.loaded
      BY <1>1 DEF Records, Places
    <3>3. QED BY <3>1, <3>2
  <2>2. CASE \E x \in q.listed :
               prog' = [prog EXCEPT ![a].listed = @ \ {x},
                                    ![a].at = IF x \in Names THEN "clean" ELSE "failed"]
    <3>1. PICK x \in q.listed, at \in {"clean", "failed"} :
            prog' = [prog EXCEPT ![a].listed = @ \ {x}, ![a].at = at]
      BY <2>2
    <3> DEFINE r == [q EXCEPT !.listed = @ \ {x}, !.at = at]
    <3>2. prog' = [prog EXCEPT ![a] = r]
      BY <3>1 DEF IInv, TypeOK
    <3>3. /\ r \in Records /\ r.at = at
          /\ r.start = q.start /\ r.call = q.call /\ r.memo = q.memo /\ r.loaded = q.loaded
      BY <1>1 DEF Records, Places
    <3>4. QED BY <3>2, <3>3
  <2>3. QED BY <2>1, <2>2 DEF Clean
<1>3. DiskOK'
  <2>1. \E p : disk' = disk \/ disk' = [disk EXCEPT !.own[p] = None]
    BY DEF Clean
  <2>2. QED BY <2>1, DiskLoses DEF IInv
<1>4. UNCHANGED <<ver, tree, edits>> /\ temps' \subseteq temps
  BY DEF Clean, Stand
<1>5. QED BY <1>1, <1>2, <1>3, <1>4, GoingOnSuffices

LEMMA CrashStep == ASSUME IInv, NEW a \in Programs, Crash(a) PROVE IInv'
<1> DEFINE q == prog[a]
           r == [q EXCEPT !.at = "dead"]
<1>1. q \in Records /\ q.at # "off"
  BY Known DEF Crash
<1>2. prog' = [prog EXCEPT ![a] = r]
  BY DEF Crash, IInv, TypeOK
<1>3. /\ r \in Records /\ r.at = "dead"
      /\ r.start = q.start /\ r.call = q.call /\ r.memo = q.memo /\ r.loaded = q.loaded
  BY <1>1 DEF Records, Places
<1> HIDE DEF r
<1>4. UNCHANGED <<ver, tree, edits, disk, temps>>
  BY DEF Crash
<1>5. QED BY <1>1, <1>2, <1>3, <1>4, GoingOnSuffices, DiskRests DEF IInv

\* An edit makes a file newer, and what was computed stays older than that.
LEMMA EditStep == ASSUME IInv, Edit PROVE IInv'
<1>1. PICK f \in Files : ver' = [ver EXCEPT ![f] = @ + 1]
  BY DEF Edit
<1>2. edits < MaxEdits /\ edits' = edits + 1 /\ UNCHANGED <<tree, disk, temps, prog>>
  BY DEF Edit
<1>3. \A g \in Files : ver[g] \in Nat /\ ver[g] <= edits
  BY VersionsAreNumbers DEF IInv, TypeOK
<1>4. edits \in Nat /\ MaxEdits \in Nat
  BY CacheAssumption DEF IInv, TypeOK
<1>5. \A g \in Files : ver'[g] = IF g = f THEN ver[g] + 1 ELSE ver[g]
  BY <1>1 DEF IInv, TypeOK
<1>6. \A g \in Files : ver'[g] \in Nat /\ ver[g] <= ver'[g] /\ ver'[g] <= edits'
  BY <1>2, <1>3, <1>4, <1>5
<1>7. ver' \in [Files -> Versions]
  <2>1. \A g \in Files : ver'[g] \in Versions
    BY <1>2, <1>4, <1>6 DEF Versions
  <2>2. DOMAIN ver' = Files /\ ver' = [g \in Files |-> ver'[g]]
    BY <1>1 DEF IInv, TypeOK
  <2>3. QED BY <2>1, <2>2
<1>8. TypeOK'
  BY <1>2, <1>4, <1>6, <1>7 DEF IInv, TypeOK
<1>9. DiskOK'
  BY <1>2, DiskRests DEF IInv
<1>10. ASSUME NEW r, ProgramOK(r, ver) PROVE ProgramOK(r, ver')
  <2>1. r \in Records
    BY <1>10 DEF ProgramOK
  <2>2. \A g \in Files : r.call[g] <= ver'[g]
    <3>1. \A g \in Files : r.call[g] \in Nat /\ r.call[g] <= ver[g]
      BY <1>10, <2>1, VersionsAreNumbers DEF ProgramOK, Records
    <3>2. QED BY <3>1, <1>3, <1>6
  <2>3. ASSUME NEW known \in EclassMemos, Since(known, r.start, ver) PROVE Since(known, r.start, ver')
    <3>1. \A e \in Eclasses : e \in Files /\ (known[e] # None => known[e] \in Nat)
      BY VersionsAreNumbers DEF EclassMemos
    <3>2. QED BY <1>3, <1>6, <2>3, <3>1 DEF Since
  <2>4. r.memo \in EclassMemos /\ r.loaded \in EclassMemos
    BY <2>1 DEF Records
  <2>5. QED BY <1>10, <2>1, <2>2, <2>3, <2>4 DEF ProgramOK
<1>11. \A a \in Programs : prog'[a].at = "off" \/ ProgramOK(prog'[a], ver')
  BY <1>2, <1>10 DEF IInv
<1>12. QED BY <1>8, <1>9, <1>11 DEF IInv

\* Every step of a program, or of who edits.
THEOREM StepHolds == IInv /\ [Next]_vars => IInv'
<1> SUFFICES ASSUME IInv, [Next]_vars PROVE IInv'
  OBVIOUS
<1>1. ASSUME NEW a \in Programs,
             \/ Begin(a) \/ Choose(a) \/ Read(a) \/ Validate(a) \/ Delete(a) \/ Source(a)
             \/ Inherit(a) \/ Preload(a) \/ Store(a) \/ Rename(a) \/ Got(a) \/ PassOver(a)
             \/ Clean(a) \/ Crash(a)
      PROVE  IInv'
  BY <1>1, ProgramBegins, ChooseStep, ReadStep, ValidateStep, DeleteStep, SourceStep, InheritStep,
     PreloadStep, StoreStep, RenameStep, GotStep, PassOverStep, CleanStep, CrashStep
<1>2. CASE Edit BY <1>2, EditStep
<1>3. CASE UNCHANGED vars
  <2>1. UNCHANGED <<ver, tree, disk, temps, prog, edits>>
    BY <1>3 DEF vars
  <2>2. QED BY <2>1 DEF IInv, TypeOK, DiskOK
<1>4. QED BY <1>1, <1>2, <1>3 DEF Next

\* The metadata a program gets is never older than the ebuild was when it asked and the
\* eclasses when it began, but for an edit in the middle of its sourcing: whatever is in
\* the caches, whoever edits, crashes, deletes or overwrites meanwhile.
THEOREM NoneIsOlder == Spec => []NoneOlder
<1>1. IInv => NoneOlder
  <2> SUFFICES ASSUME IInv, NEW a \in Programs, prog[a].at = "got" PROVE Newer(prog[a])
    BY DEF NoneOlder, Newer
  <2>1. ProgramOK(prog[a], ver)
    BY Known
  <2>2. QED BY <2>1 DEF ProgramOK
<1>2. QED BY InitHolds, StepHolds, <1>1, PTL DEF Spec

\* The entries on the disk name the eclasses their ebuild inherits, also when several
\* programs write and clean at once.
THEOREM EntriesFit == Spec => [](TypeOK /\ DiskOK)
<1>1. IInv => TypeOK /\ DiskOK
  BY DEF IInv
<1>2. QED BY InitHolds, StepHolds, <1>1, PTL DEF Spec
-----------------------------------------------------------------------------
(***************************************************************************)
(* The cache is complete when all is quiet.  The invariant follows one     *)
(* package p that nobody edits: every entry for it is the one a program    *)
(* makes that nobody disturbs, or was there from the start (Usable); each  *)
(* program is at a place where it has what Answers says; and once somebody    *)
(* regenerates the entry is there, or a program still has to make it, or   *)
(* failed to (Owes).  The last needs the others: what one program deletes  *)
(* because it read something invalid may have been valid since, but that   *)
(* program then goes on to make it anew.                                   *)
(***************************************************************************)
Working == {"read", "validate", "delete", "source", "inherit", "preload", "store", "rename",
            "got", "bad"}

\* The entry that is there from the start.
Original(p) == LET from == [e \in Inherits[p][0] |-> 0] IN Entry(0, from, 0, from)

\* The package is in the tree and can be sourced.
Kept(p) == p \in tree /\ ver[p] \in Sound[p]

Usable(p) == {Original(p)} \cup {e \in {OwnEntry(p)} : Kept(p)}

\* The program has to make the entry of p, or failed.
Owes(r, p) ==
    \/ r.at \in {"failed", "dead"}
    \/ r.regen /\ (r.pass = 1 \/ p \in r.todo)
    \/ /\ r.at \in {"read", "delete", "source", "inherit", "preload", "store", "rename"}
       /\ r.pkg = p
    \/ r.at = "validate" /\ r.pkg = p /\ r.held # OwnEntry(p)

\* What a program holds that has p in hand.
Holds(r, p) ==
    /\ r.hash \in {None, ver[p]}
    /\ r.at = "validate" => r.held \in Usable(p)
    /\ r.at \in {"inherit", "preload", "store"} => Kept(p) /\ r.held.src = ver[p]
    /\ r.at \in {"preload", "store"} => r.held.from = OwnEntry(p).from
    /\ r.at \in {"rename", "got"} => Kept(p) /\ r.held = OwnEntry(p)
    /\ r.at = "bad" => ~Kept(p)

\* d is the entry of p in the cache that is written to.
Answers(r, p, d) ==
    /\ r.at \in Working /\ r.pkg = p => Holds(r, p)
    /\ p \in r.passed => Kept(p)
    /\ r.regen /\ r.pass = 2 /\ r.at \notin {"failed", "dead"} /\ Kept(p) =>
         p \in r.todo \/ (r.at \in Working /\ r.pkg = p) \/ p \in r.passed
    /\ r.at = "clean" /\ Kept(p) => <<"own", p>> \notin r.listed
    /\ r.at = "clean" /\ ~Kept(p) /\ d # None => <<"own", p>> \in r.listed
    /\ r.at = "done" /\ r.regen /\ ~Kept(p) => d = None

Regenerating == \E a \in Began : prog[a].regen

\* An entry for p is there or will be.
Promised(p) ==
    \/ \E c \in Caches : disk[c][p] = OwnEntry(p)
    \/ \E a \in Began : Owes(prog[a], p)

Settled(p) ==
    /\ \A c \in Caches :
         disk[c][p] = None \/ disk[c][p] \in IF Began = {} THEN {Original(p)} ELSE Usable(p)
    /\ \A a \in Began : Answers(prog[a], p, disk.own[p])
    /\ Kept(p) /\ Regenerating => Promised(p)

\* A program works on what is in the tree; a cleaner still has to remove of the
\* leftovers it found what is there, and that ended well removed it.
Order(r, left) ==
    /\ r.todo \subseteq tree
    /\ r.at \in Working => r.pkg \in tree
    /\ r.at = "clean" => r.regen /\ r.old \cap left \subseteq r.listed
    /\ r.at \in {"clean", "done"} /\ r.regen => r.pass = 2 /\ r.todo = {}
    /\ r.at = "done" /\ r.regen => r.old \cap left = {}

\* A file that was not renamed is about to be, or its writer was killed.
Pending(t) == prog[t[1]].at = "dead" \/ (prog[t[1]].at = "rename" /\ prog[t[1]].pkg = t[2])

Orderly ==
    /\ \A t \in temps : Pending(t)
    /\ \A a \in Began :
       /\ Order(prog[a], temps)
       /\ \A t \in prog[a].old : t[1] \in Programs /\ prog[t[1]].at = "dead"

QInv == Orderly /\ \A p \in Pkgs : Unedited(p) => Settled(p)

\* The invariant in full.
FullInv == IInv /\ QInv
-----------------------------------------------------------------------------
\* The files that make the metadata of p are as they were when a program began.
LEMMA Now ==
    ASSUME IInv, NEW a \in Began, NEW p \in Pkgs, Unedited(p),
           NEW f \in {p} \cup Inherits[p][ver[p]]
    PROVE  /\ f \in Files /\ ver[f] \in Versions
           /\ prog[a].start[f] = ver[f] /\ prog[a].call[f] = ver[f]
<1>1. ver \in [Files -> Versions] /\ p \in Files
  BY VersionsAreNumbers DEF IInv, TypeOK
<1>2. f \in Files
  BY <1>1, VersionsAreNumbers
<1>3. ProgramOK(prog[a], ver) /\ prog[a] \in Records
  BY Known DEF Began
<1>4. prog[a].start[f] = ver[f]
  BY DEF Unedited
<1>5. prog[a].start[f] <= prog[a].call[f] /\ prog[a].call[f] <= ver[f]
  BY <1>2, <1>3 DEF ProgramOK
<1>6. prog[a].call[f] \in Nat /\ ver[f] \in Nat
  BY <1>1, <1>2, <1>3, VersionsAreNumbers DEF Records
<1>7. QED BY <1>1, <1>2, <1>4, <1>5, <1>6

\* So is a checksum of one of its eclasses that a program keeps.
LEMMA MemoIsNow ==
    ASSUME IInv, NEW a \in Began, NEW p \in Pkgs, Unedited(p),
           NEW known, known \in {prog[a].memo, prog[a].loaded},
           NEW es, NEW e \in Inherits[p][ver[p]], e \in es
    PROVE  Memoised(known, es)[e] = ver[e]
<1>1. e \in Eclasses /\ ver[p] \in Versions /\ p \in Files
  BY VersionsAreNumbers DEF IInv, TypeOK
<1>2. ProgramOK(prog[a], ver) /\ prog[a] \in Records
  BY Known DEF Began
<1>3. prog[a].start[e] = ver[e] /\ ver[e] \in Nat
  BY Now, VersionsAreNumbers
<1>4. known \in EclassMemos /\ Since(known, prog[a].start, ver)
  BY <1>2 DEF ProgramOK, Records
<1>5. known[e] # None => known[e] = ver[e]
  <2>1. known[e] # None => prog[a].start[e] <= known[e] /\ known[e] <= ver[e]
    BY <1>1, <1>4 DEF Since
  <2>2. known[e] # None => known[e] \in Nat
    BY <1>1, <1>4, VersionsAreNumbers DEF EclassMemos
  <2>3. QED BY <1>3, <2>1, <2>2
<1>6. Memoised(known, es)[e] = IF known[e] = None THEN ver[e] ELSE known[e]
  BY <1>1 DEF Memoised
<1>7. QED BY <1>5, <1>6

\* The fields of the two entries.
LEMMA EntryFields ==
    ASSUME NEW p \in Pkgs, ver \in [Files -> Versions]
    PROVE  /\ OwnEntry(p).src = ver[p] /\ OwnEntry(p).chf = ver[p]
           /\ OwnEntry(p).from = [e \in Inherits[p][ver[p]] |-> ver[e]]
           /\ OwnEntry(p).ecl = [e \in Inherits[p][ver[p]] |-> ver[e]]
           /\ Original(p).src = 0 /\ Original(p).chf = 0
           /\ Original(p).ecl = [e \in Inherits[p][0] |-> 0]
           /\ (ver[p] = 0 /\ \A e \in Inherits[p][0] : ver[e] = 0) => Original(p) = OwnEntry(p)
<1>1. (\A e \in Inherits[p][0] : ver[e] = 0) =>
        [e \in Inherits[p][0] |-> 0] = [e \in Inherits[p][0] |-> ver[e]]
  OBVIOUS
<1>2. QED BY <1>1 DEF OwnEntry, Original, Entry

\* What is valid for a program is the entry nobody disturbed.
LEMMA ValidIsOwn ==
    ASSUME IInv, NEW a \in Began, NEW p \in Pkgs, Unedited(p), p \in tree,
           prog[a].pkg = p, prog[a].hash \in {None, ver[p]},
           prog[a].held \in Usable(p), Valid(prog[a])
    PROVE  Kept(p) /\ prog[a].held = OwnEntry(p)
<1> DEFINE q == prog[a]
<1>1. ver \in [Files -> Versions] /\ 0 \in Sound[p] /\ p \in Files
  BY CacheAssumption, VersionsAreNumbers DEF IInv, TypeOK
<1>2. CASE q.held = OwnEntry(p) /\ Kept(p)
  BY <1>2
<1>3. CASE q.held = Original(p)
  <2>1. ver[p] = 0
    <3>1. Hashed(q) = ver[p]
      BY DEF Hashed
    <3>2. QED BY <1>1, <1>3, <3>1, EntryFields DEF Valid
  <2>2. ASSUME NEW e \in Inherits[p][0] PROVE ver[e] = 0
    <3>1. e \in DOMAIN q.held.ecl /\ q.held.ecl[e] = 0
      <4>1. q.held.ecl = [k \in Inherits[p][0] |-> 0]
        BY <1>1, <1>3, EntryFields
      <4>2. QED BY <4>1
    <3>2. Memoised(q.memo, DOMAIN q.held.ecl)[e] = 0
      BY <3>1 DEF Valid
    <3>3. Memoised(q.memo, DOMAIN q.held.ecl)[e] = ver[e]
      BY <2>1, <3>1, MemoIsNow
    <3>4. QED BY <3>2, <3>3
  <2>3. QED BY <1>1, <1>3, <2>1, <2>2, EntryFields DEF Kept
<1>4. QED BY <1>2, <1>3 DEF Usable

\* What is left of the invariant to show of a step of one program that had begun.
LEMMA ProgramStep ==
    ASSUME FullInv, NEW a \in Began, NEW r, prog' = [prog EXCEPT ![a] = r],
           r.at # "off", r.start = prog[a].start, r.old = prog[a].old, r.regen = prog[a].regen,
           prog[a].at # "dead", UNCHANGED <<ver, tree>>,
           Order(r, temps'),
           \A t \in temps' :
             \/ t \in temps /\ (t[1] # a \/ r.at = "dead")
             \/ t[1] = a /\ r.at = "rename" /\ r.pkg = t[2],
           \A p \in Pkgs : Unedited(p) =>
             /\ Answers(r, p, disk'.own[p])
             /\ \A c \in Caches :
                  \/ disk'[c][p] \in {None, disk[c][p]}
                  \/ disk'[c][p] = OwnEntry(p) /\ Kept(p)
             /\ Kept(p) =>
                  /\ \A c \in Caches : disk[c][p] = OwnEntry(p) =>
                       (\E d \in Caches : disk'[d][p] = OwnEntry(p)) \/ Owes(r, p)
                  /\ Owes(prog[a], p) =>
                       (\E d \in Caches : disk'[d][p] = OwnEntry(p)) \/ Owes(r, p)
    PROVE  QInv'
<1>1. \A b \in Programs : prog'[b] = IF b = a THEN r ELSE prog[b]
  BY DEF FullInv, IInv, TypeOK
<1>2. Began' = Began /\ Began \subseteq Programs
  BY <1>1 DEF Began
<1>3. ver' = ver /\ tree' = tree
  OBVIOUS
<1>4. Orderly'
  <2>1. \A t \in temps : Pending(t)
    BY DEF FullInv, QInv, Orderly
  <2>2. \A t \in temps' : t[1] \in Programs
    <3>1. \A t \in temps : t[1] \in Programs
      BY DEF FullInv, IInv, TypeOK
    <3>2. QED BY <1>2, <3>1
  <2>3. \A t \in temps' : Pending(t)'
    BY <1>1, <2>1, <2>2 DEF Pending
  <2>4. ASSUME NEW b \in Began, NEW t \in prog'[b].old
        PROVE  t[1] \in Programs /\ prog'[t[1]].at = "dead"
    <3>1. t \in prog[b].old
      BY <1>1, <1>2
    <3>2. t[1] \in Programs /\ prog[t[1]].at = "dead"
      BY <3>1 DEF FullInv, QInv, Orderly
    <3>3. QED BY <1>1, <3>2
  <2>5. ASSUME NEW b \in Began PROVE Order(prog'[b], temps')
    <3>1. CASE b = a
      BY <1>1, <1>2, <3>1
    <3>2. CASE b # a
      <4>1. prog'[b] = prog[b] /\ Order(prog[b], temps)
        BY <1>1, <1>2, <3>2 DEF FullInv, QInv, Orderly
      <4>2. prog[b].old \cap temps' \subseteq temps
        <5>1. \A t \in prog[b].old : t[1] # a
          BY DEF FullInv, QInv, Orderly
        <5>2. QED BY <5>1
      <4>3. QED BY <4>1, <4>2 DEF Order
    <3>3. QED BY <3>1, <3>2
  <2>6. QED BY <1>2, <1>3, <2>3, <2>4, <2>5 DEF Orderly, Order
<1>5. ASSUME NEW p \in Pkgs, Unedited(p)'
      PROVE  Settled(p)'
  <2>1. Unedited(p)
    BY <1>1, <1>2, <1>3, <1>5 DEF Unedited
  <2>2. Settled(p)
    BY <2>1 DEF FullInv, QInv
  <2>3. OwnEntry(p)' = OwnEntry(p) /\ Kept(p)' = Kept(p)
    BY <1>3 DEF OwnEntry, Kept
  <2>4. Usable(p)' = Usable(p)
    BY <2>3 DEF Usable
  <2>5. Original(p)' = Original(p)
    BY DEF Original
  <2>6. \A s, d : Answers(s, p, d)' <=> Answers(s, p, d)
    BY <1>3, <2>3, <2>4 DEF Answers, Holds
  <2>7. \A s : Owes(s, p)' <=> Owes(s, p)
    BY <2>3 DEF Owes
  <2>8. \A c \in Caches : disk'[c][p] = None \/ disk'[c][p] \in Usable(p)
    <3>1. \A c \in Caches : disk[c][p] = None \/ disk[c][p] \in Usable(p)
      BY <2>2 DEF Settled
    <3>2. QED BY <2>1, <3>1 DEF Usable
  <2>9. ASSUME NEW b \in Began PROVE Answers(prog'[b], p, disk'.own[p])
    <3>1. CASE b = a
      BY <1>1, <1>2, <2>1, <3>1
    <3>2. CASE b # a
      <4>1. prog'[b] = prog[b] /\ Answers(prog[b], p, disk.own[p])
        BY <1>1, <1>2, <2>2, <3>2 DEF Settled
      <4>2. ~Kept(p) /\ disk'.own[p] # None => disk.own[p] # None
        BY <2>1 DEF Caches, FullInv, IInv, DiskOK
      <4>3. QED BY <4>1, <4>2 DEF Answers
    <3>3. QED BY <3>1, <3>2
  <2>10. ASSUME Kept(p), Regenerating PROVE Promised(p)'
    <3>1. Promised(p)
      BY <2>2, <2>10 DEF Settled
    <3>2. (\E d \in Caches : disk'[d][p] = OwnEntry(p)) \/ \E b \in Began : Owes(prog'[b], p)
      BY <1>1, <1>2, <2>1, <2>10, <3>1 DEF Promised
    <3>3. QED BY <1>2, <2>3, <2>7, <3>2 DEF Promised
  <2>11. Regenerating' = Regenerating
    BY <1>1, <1>2 DEF Regenerating
  <2>12. \A c \in Caches : disk'[c][p] = None \/
           disk'[c][p] \in IF Began = {} THEN {Original(p)} ELSE Usable(p)
    BY <2>8
  <2>13. QED BY <1>2, <2>3, <2>4, <2>5, <2>6, <2>9, <2>10, <2>11, <2>12 DEF Settled
<1>6. QED BY <1>4, <1>5 DEF QInv

\* What the invariant says of a program that has begun.
LEMMA Inside ==
    ASSUME FullInv, NEW a \in Programs, prog[a].at # "off"
    PROVE  /\ a \in Began /\ prog[a] \in Records /\ ProgramOK(prog[a], ver)
           /\ Order(prog[a], temps)
           /\ \A p \in Pkgs : Unedited(p) =>
                /\ Answers(prog[a], p, disk.own[p])
                /\ \A c \in Caches : disk[c][p] = None \/ disk[c][p] \in Usable(p)
<1>1. a \in Began
  BY DEF Began
<1>2. prog[a] \in Records /\ ProgramOK(prog[a], ver) /\ Order(prog[a], temps)
  BY <1>1, Known DEF FullInv, QInv, Orderly
<1>3. ASSUME NEW p \in Pkgs, Unedited(p)
      PROVE  /\ Answers(prog[a], p, disk.own[p])
             /\ \A c \in Caches : disk[c][p] = None \/ disk[c][p] \in Usable(p)
  <2>1. Settled(p)
    BY <1>3 DEF FullInv, QInv
  <2>2. QED BY <1>1, <2>1 DEF Settled, Usable
<1>4. QED BY <1>1, <1>2, <1>3

\* A file that waits to be renamed belongs to a program that is at that, or was killed.
LEMMA OnlyPending ==
    ASSUME FullInv, NEW a \in Programs, NEW t \in temps, t[1] = a, prog[a].at # "dead"
    PROVE  prog[a].at = "rename" /\ t = <<a, prog[a].pkg>>
<1>1. Pending(t)
  BY DEF FullInv, QInv, Orderly
<1>2. t = <<t[1], t[2]>>
  BY DEF FullInv, IInv, TypeOK
<1>3. QED BY <1>1, <1>2 DEF Pending

\* A step that writes nothing.
LEMMA StillStep ==
    ASSUME FullInv, NEW a \in Began, NEW r, prog' = [prog EXCEPT ![a] = r],
           r.at # "off", r.start = prog[a].start, r.old = prog[a].old, r.regen = prog[a].regen,
           prog[a].at \notin {"dead", "rename"}, UNCHANGED <<ver, tree, disk, temps>>,
           Order(r, temps),
           \A p \in Pkgs : Unedited(p) =>
             /\ Answers(r, p, disk.own[p])
             /\ Kept(p) /\ Owes(prog[a], p) =>
                  (\E d \in Caches : disk[d][p] = OwnEntry(p)) \/ Owes(r, p)
    PROVE  QInv'
<1>1. a \in Programs
  BY DEF Began
<1>2. \A t \in temps : t[1] # a
  BY <1>1, OnlyPending
<1>3. QED BY <1>2, ProgramStep

LEMMA ChooseQuiet == ASSUME FullInv, NEW a \in Programs, Choose(a) PROVE QInv'
<1> DEFINE q == prog[a]
<1>1. PICK p0 \in q.todo :
        prog' = [prog EXCEPT ![a].at = "read", ![a].todo = @ \ {p0}, ![a].pkg = p0,
                             ![a].cache = "pregenerated", ![a].hash = None, ![a].call = ver]
  BY DEF Choose
<1> DEFINE r == [q EXCEPT !.at = "read", !.todo = @ \ {p0}, !.pkg = p0,
                          !.cache = "pregenerated", !.hash = None, !.call = ver]
<1>2. prog' = [prog EXCEPT ![a] = r]
  BY <1>1 DEF FullInv, IInv, TypeOK
<1>3. q.at = "next" /\ UNCHANGED <<ver, tree, disk, temps>>
  BY DEF Choose, Stand
<1>4. a \in Began /\ q \in Records /\ Order(q, temps)
  BY <1>3, Inside
<1>5. /\ r.at = "read" /\ r.todo = q.todo \ {p0} /\ r.pkg = p0 /\ r.hash = None
      /\ r.start = q.start /\ r.old = q.old /\ r.regen = q.regen /\ r.pass = q.pass
      /\ r.passed = q.passed
  BY <1>4 DEF Records
<1> HIDE DEF r
<1>6. Order(r, temps)
  BY <1>4, <1>5 DEF Order, Working
<1>7. ASSUME NEW p \in Pkgs, Unedited(p)
      PROVE  Answers(r, p, disk.own[p]) /\ (Owes(q, p) => Owes(r, p))
  <2>1. Answers(q, p, disk.own[p])
    BY <1>3, <1>7, Inside
  <2>2. Holds(r, p)
    BY <1>5 DEF Holds
  <2>3. Answers(r, p, disk.own[p])
    BY <1>3, <1>5, <2>1, <2>2 DEF Answers, Working
  <2>4. QED BY <1>3, <1>5, <2>3 DEF Owes
<1>8. QED BY <1>2, <1>3, <1>4, <1>5, <1>6, <1>7, StillStep

\* Going on from a cache that has nothing of use changes where the program is.
LEMMA OnwardFields ==
    ASSUME NEW q \in Records
    PROVE  /\ Onward(q).at = IF q.cache = "own" THEN "source" ELSE "read"
           /\ Onward(q).pkg = q.pkg /\ Onward(q).hash = q.hash /\ Onward(q).start = q.start
           /\ Onward(q).old = q.old /\ Onward(q).regen = q.regen /\ Onward(q).pass = q.pass
           /\ Onward(q).todo = q.todo /\ Onward(q).passed = q.passed
BY DEF Onward, Records

\* It still has to make the entry, if it had to.
LEMMA StillOwes ==
    ASSUME NEW q, NEW r, NEW p, NEW d,
           q.at \in {"read", "validate", "delete"}, r.at \in {"read", "delete", "source"},
           r.pkg = q.pkg, r.hash \in {q.hash, ver[p]}, r.regen = q.regen, r.pass = q.pass,
           r.todo = q.todo, r.passed = q.passed, Answers(q, p, d)
    PROVE  Answers(r, p, d) /\ Answers(r, p, None) /\ (Owes(q, p) => Owes(r, p))
           /\ (r.pkg = p => Owes(r, p))
<1>1. q.pkg = p => Holds(q, p)
  BY DEF Answers, Working
<1>2. r.pkg = p => Holds(r, p)
  BY <1>1 DEF Holds
<1>3. Answers(r, p, d) /\ Answers(r, p, None)
  BY <1>2 DEF Answers, Working
<1>4. QED BY <1>3 DEF Owes

LEMMA ReadQuiet == ASSUME FullInv, NEW a \in Programs, Read(a) PROVE QInv'
<1> DEFINE q == prog[a]
           e == disk[q.cache][q.pkg]
<1>1. q.at = "read" /\ UNCHANGED <<ver, tree, disk, temps>>
  BY DEF Read, Stand
<1>2. a \in Began /\ q \in Records /\ Order(q, temps) /\ q.cache \in Caches
  BY <1>1, Inside DEF Records
<1>3. CASE e = None
  <2> DEFINE r == Onward(q)
  <2>1. prog' = [prog EXCEPT ![a] = r]
    BY <1>3 DEF Read, FullInv, IInv, TypeOK
  <2>2. /\ r.at \in {"read", "source"} /\ r.pkg = q.pkg /\ r.hash = q.hash /\ r.start = q.start
        /\ r.old = q.old /\ r.regen = q.regen /\ r.pass = q.pass /\ r.todo = q.todo
        /\ r.passed = q.passed
    BY <1>2, OnwardFields
  <2> HIDE DEF r
  <2>3. Order(r, temps)
    BY <1>1, <1>2, <2>2 DEF Order, Working
  <2>4. ASSUME NEW p \in Pkgs, Unedited(p)
        PROVE  Answers(r, p, disk.own[p]) /\ (Owes(q, p) => Owes(r, p))
    <3>1. Answers(q, p, disk.own[p])
      BY <1>1, <2>4, Inside
    <3>2. QED BY <1>1, <2>2, <3>1, StillOwes
  <2>5. QED BY <1>1, <1>2, <2>1, <2>2, <2>3, <2>4, StillStep
<1>4. CASE e # None
  <2> DEFINE r == [q EXCEPT !.at = "validate", !.held = e]
  <2>1. prog' = [prog EXCEPT ![a] = r]
    BY <1>4 DEF Read, FullInv, IInv, TypeOK
  <2>2. /\ r.at = "validate" /\ r.held = e /\ r.pkg = q.pkg /\ r.hash = q.hash /\ r.start = q.start
        /\ r.old = q.old /\ r.regen = q.regen /\ r.pass = q.pass /\ r.todo = q.todo
        /\ r.passed = q.passed
    BY <1>2 DEF Records
  <2> HIDE DEF r
  <2>3. Order(r, temps)
    BY <1>1, <1>2, <2>2 DEF Order, Working
  <2>4. ASSUME NEW p \in Pkgs, Unedited(p)
        PROVE  /\ Answers(r, p, disk.own[p])
               /\ Owes(q, p) => (\E c \in Caches : disk[c][p] = OwnEntry(p)) \/ Owes(r, p)
    <3>1. Answers(q, p, disk.own[p]) /\ \A c \in Caches : disk[c][p] = None \/ disk[c][p] \in Usable(p)
      BY <1>1, <2>4, Inside
    <3>2. q.pkg = p => Holds(r, p)
      BY <1>1, <1>2, <1>4, <2>2, <3>1 DEF Answers, Holds, Working
    <3>3. Answers(r, p, disk.own[p])
      BY <1>1, <2>2, <3>1, <3>2 DEF Answers, Working
    <3>4. QED BY <1>1, <1>2, <2>2, <3>3 DEF Owes
  <2>5. QED BY <1>1, <1>2, <2>1, <2>2, <2>3, <2>4, StillStep
<1>5. QED BY <1>3, <1>4

LEMMA ValidateQuiet == ASSUME FullInv, NEW a \in Programs, Validate(a) PROVE QInv'
<1> DEFINE q == prog[a]
<1>1. PICK known \in Looked(q) :
        prog' = [prog EXCEPT ![a].at = IF Valid(q) THEN "got" ELSE "delete",
                             ![a].hash = Hashed(q), ![a].memo = known]
  BY DEF Validate
<1> DEFINE r == [q EXCEPT !.at = IF Valid(q) THEN "got" ELSE "delete",
                          !.hash = Hashed(q), !.memo = known]
<1>2. prog' = [prog EXCEPT ![a] = r]
  BY <1>1 DEF FullInv, IInv, TypeOK
<1>3. q.at = "validate" /\ UNCHANGED <<ver, tree, disk, temps>>
  BY DEF Validate, Stand
<1>4. a \in Began /\ q \in Records /\ Order(q, temps)
  BY <1>3, Inside
<1>5. /\ r.at = (IF Valid(q) THEN "got" ELSE "delete") /\ r.hash = Hashed(q) /\ r.held = q.held
      /\ r.pkg = q.pkg /\ r.start = q.start /\ r.old = q.old /\ r.regen = q.regen
      /\ r.pass = q.pass /\ r.todo = q.todo /\ r.passed = q.passed
  BY <1>4 DEF Records
<1> HIDE DEF r
<1>6. Order(r, temps)
  BY <1>3, <1>4, <1>5 DEF Order, Working
<1>7. ASSUME NEW p \in Pkgs, Unedited(p)
      PROVE  Answers(r, p, disk.own[p]) /\ (Owes(q, p) => Owes(r, p))
  <2>1. Answers(q, p, disk.own[p])
    BY <1>3, <1>7, Inside
  <2>2. q.pkg = p => q.hash \in {None, ver[p]} /\ q.held \in Usable(p) /\ p \in tree
    BY <1>3, <1>4, <2>1 DEF Answers, Holds, Working, Order
  <2>3. q.pkg = p => Hashed(q) = ver[p]
    BY <2>2 DEF Hashed
  <2>4. q.pkg = p /\ Valid(q) => Kept(p) /\ q.held = OwnEntry(p)
    BY <1>4, <1>7, <2>2, ValidIsOwn DEF FullInv
  <2>5. r.pkg = p => Holds(r, p)
    BY <1>5, <2>2, <2>3, <2>4 DEF Holds
  <2>6. Answers(r, p, disk.own[p])
    BY <1>3, <1>5, <2>1, <2>5 DEF Answers, Working
  <2>7. QED BY <1>3, <1>5, <2>4, <2>6 DEF Owes
<1>8. QED BY <1>2, <1>3, <1>4, <1>5, <1>6, <1>7, StillStep

\* What is deleted may be valid by now, but then this program makes it anew.
LEMMA DeleteQuiet == ASSUME FullInv, NEW a \in Programs, Delete(a) PROVE QInv'
<1> DEFINE q == prog[a]
           s == [q EXCEPT !.held = None]
           r == Onward(s)
<1>1. q.at = "delete" /\ UNCHANGED <<ver, tree, temps>>
  BY DEF Delete, Stand
<1>2. a \in Began /\ q \in Records /\ Order(q, temps)
  BY <1>1, Inside
<1>3. prog' = [prog EXCEPT ![a] = r]
  BY DEF Delete, FullInv, IInv, TypeOK
<1>4. s \in Records /\ s.cache = q.cache /\ s.pkg = q.pkg /\ s.hash = q.hash /\ s.start = q.start
      /\ s.old = q.old /\ s.regen = q.regen /\ s.pass = q.pass /\ s.todo = q.todo
      /\ s.passed = q.passed
  BY <1>2 DEF Records
<1> HIDE DEF s
<1>5. /\ r.at \in {"read", "source"} /\ r.pkg = q.pkg /\ r.hash = q.hash /\ r.start = q.start
      /\ r.old = q.old /\ r.regen = q.regen /\ r.pass = q.pass /\ r.todo = q.todo
      /\ r.passed = q.passed
  BY <1>4, OnwardFields
<1> HIDE DEF r
<1>6. Order(r, temps')
  BY <1>1, <1>2, <1>5 DEF Order, Working
<1>7. \A t \in temps' :
        \/ t \in temps /\ (t[1] # a \/ r.at = "dead")
        \/ t[1] = a /\ r.at = "rename" /\ r.pkg = t[2]
  BY <1>1, OnlyPending
<1>8. \A c \in Caches, p \in Pkgs :
        disk'[c][p] = disk[c][p] \/ (p = q.pkg /\ disk'[c][p] = None)
  BY DEF Delete, FullInv, IInv, DiskOK, Caches
<1>9. ASSUME NEW p \in Pkgs, Unedited(p)
      PROVE  /\ Answers(r, p, disk'.own[p])
             /\ \A c \in Caches : disk'[c][p] \in {None, disk[c][p]}
             /\ \A c \in Caches : disk[c][p] = OwnEntry(p) =>
                  (\E d \in Caches : disk'[d][p] = OwnEntry(p)) \/ Owes(r, p)
             /\ Owes(q, p) => Owes(r, p)
  <2>1. Answers(q, p, disk.own[p])
    BY <1>1, <1>9, Inside
  <2>2. /\ Answers(r, p, disk.own[p]) /\ Answers(r, p, None)
        /\ (Owes(q, p) => Owes(r, p)) /\ (r.pkg = p => Owes(r, p))
    BY <1>1, <1>5, <2>1, StillOwes
  <2>3. disk'.own[p] \in {None, disk.own[p]}
    BY <1>8 DEF Caches
  <2>4. QED BY <1>5, <1>8, <2>2, <2>3
<1>10. \A p \in Pkgs : Unedited(p) =>
         /\ Answers(r, p, disk'.own[p])
         /\ \A c \in Caches :
              \/ disk'[c][p] \in {None, disk[c][p]}
              \/ disk'[c][p] = OwnEntry(p) /\ Kept(p)
         /\ Kept(p) =>
              /\ \A c \in Caches : disk[c][p] = OwnEntry(p) =>
                   (\E d \in Caches : disk'[d][p] = OwnEntry(p)) \/ Owes(r, p)
              /\ Owes(q, p) => (\E d \in Caches : disk'[d][p] = OwnEntry(p)) \/ Owes(r, p)
  BY <1>9
<1>11. r.at # "off" /\ q.at # "dead"
  BY <1>1, <1>5
<1>12. QED BY <1>1, <1>2, <1>3, <1>5, <1>6, <1>7, <1>10, <1>11, ProgramStep

LEMMA SourceQuiet == ASSUME FullInv, NEW a \in Programs, Source(a) PROVE QInv'
<1> DEFINE q == prog[a]
           v == ver[q.pkg]
           r == [q EXCEPT !.at = IF v \in Sound[q.pkg] THEN "inherit" ELSE "bad",
                          !.held = Entry(v, <<>>, None, <<>>)]
<1>1. prog' = [prog EXCEPT ![a] = r]
  BY DEF Source, FullInv, IInv, TypeOK
<1>2. q.at = "source" /\ UNCHANGED <<ver, tree, disk, temps>>
  BY DEF Source, Stand
<1>3. a \in Began /\ q \in Records /\ Order(q, temps)
  BY <1>2, Inside
<1>4. /\ r.at = (IF v \in Sound[q.pkg] THEN "inherit" ELSE "bad") /\ r.held.src = v
      /\ r.pkg = q.pkg /\ r.hash = q.hash /\ r.start = q.start /\ r.old = q.old
      /\ r.regen = q.regen /\ r.pass = q.pass /\ r.todo = q.todo /\ r.passed = q.passed
  BY <1>3 DEF Records, Entry
<1> HIDE DEF r
<1>5. Order(r, temps) /\ q.pkg \in tree
  BY <1>2, <1>3, <1>4 DEF Order, Working
<1>6. ASSUME NEW p \in Pkgs, Unedited(p)
      PROVE  Answers(r, p, disk.own[p]) /\ (Kept(p) /\ Owes(q, p) => Owes(r, p))
  <2>1. Answers(q, p, disk.own[p])
    BY <1>2, <1>6, Inside
  <2>2. q.pkg = p => q.hash \in {None, ver[p]} /\ (Kept(p) <=> v \in Sound[q.pkg])
    BY <1>2, <1>5, <2>1 DEF Answers, Holds, Working, Kept
  <2>3. r.pkg = p => Holds(r, p)
    BY <1>4, <2>2 DEF Holds
  <2>4. Answers(r, p, disk.own[p])
    BY <1>2, <1>4, <2>1, <2>3 DEF Answers, Working
  <2>5. QED BY <1>2, <1>4, <2>2, <2>4 DEF Owes
<1>7. QED BY <1>1, <1>2, <1>3, <1>4, <1>5, <1>6, StillStep

\* The eclasses, read now or kept since the program began, are as they are.
LEMMA InheritQuiet == ASSUME FullInv, NEW a \in Programs, Inherit(a) PROVE QInv'
<1> DEFINE q == prog[a]
           es == Inherits[q.pkg][q.held.src]
           from == [e \in es |-> IF Preloads(q) THEN Memoised(q.loaded, es)[e] ELSE ver[e]]
           r == [q EXCEPT !.at = IF Preloads(q) THEN "preload" ELSE "store",
                          !.held.from = from]
<1>1. prog' = [prog EXCEPT ![a] = r]
  BY DEF Inherit, FullInv, IInv, TypeOK
<1>2. q.at = "inherit" /\ UNCHANGED <<ver, tree, disk, temps>>
  BY DEF Inherit, Stand
<1>3. a \in Began /\ q \in Records /\ Order(q, temps) /\ q.held \in AnyEntry
  BY <1>2, Inside DEF ProgramOK, SourcedSince
<1>4. /\ r.at \in {"preload", "store"} /\ r.held.src = q.held.src /\ r.held.from = from
      /\ r.pkg = q.pkg /\ r.hash = q.hash /\ r.start = q.start /\ r.old = q.old
      /\ r.regen = q.regen /\ r.pass = q.pass /\ r.todo = q.todo /\ r.passed = q.passed
  BY <1>3 DEF Records, AnyEntry
<1> HIDE DEF r
<1>5. Order(r, temps)
  BY <1>2, <1>3, <1>4 DEF Order, Working
<1>6. ver \in [Files -> Versions]
  BY DEF FullInv, IInv, TypeOK
<1>7. ASSUME NEW p \in Pkgs, Unedited(p)
      PROVE  Answers(r, p, disk.own[p]) /\ (Owes(q, p) => Owes(r, p))
  <2>1. Answers(q, p, disk.own[p])
    BY <1>2, <1>7, Inside
  <2>2. q.pkg = p => q.hash \in {None, ver[p]} /\ Kept(p) /\ q.held.src = ver[p]
    BY <1>2, <2>1 DEF Answers, Holds, Working
  <2>3. q.pkg = p => from = OwnEntry(p).from
    <3> SUFFICES ASSUME q.pkg = p PROVE from = OwnEntry(p).from
      OBVIOUS
    <3>1. es = Inherits[p][ver[p]]
      BY <2>2
    <3>2. \A e \in es : Memoised(q.loaded, es)[e] = ver[e]
      BY <1>3, <1>7, <3>1, MemoIsNow DEF FullInv
    <3>3. from = [e \in Inherits[p][ver[p]] |-> ver[e]]
      BY <3>1, <3>2
    <3>4. QED BY <1>6, <3>3, EntryFields
  <2> HIDE DEF from
  <2>4. r.pkg = p => Holds(r, p)
    BY <1>4, <2>2, <2>3 DEF Holds
  <2>5. Answers(r, p, disk.own[p])
    BY <1>2, <1>4, <2>1, <2>4 DEF Answers, Working
  <2>6. QED BY <1>2, <1>4, <2>5 DEF Owes
<1>8. QED BY <1>1, <1>2, <1>3, <1>4, <1>5, <1>7, StillStep

LEMMA PreloadQuiet == ASSUME FullInv, NEW a \in Programs, Preload(a) PROVE QInv'
<1> DEFINE q == prog[a]
           r == [q EXCEPT !.at = "store", !.loaded = Memoised(@, DOMAIN q.held.from)]
<1>1. prog' = [prog EXCEPT ![a] = r]
  BY DEF Preload, FullInv, IInv, TypeOK
<1>2. q.at = "preload" /\ UNCHANGED <<ver, tree, disk, temps>>
  BY DEF Preload, Stand
<1>3. a \in Began /\ q \in Records /\ Order(q, temps)
  BY <1>2, Inside
<1>4. /\ r.at = "store" /\ r.held = q.held /\ r.pkg = q.pkg /\ r.hash = q.hash
      /\ r.start = q.start /\ r.old = q.old /\ r.regen = q.regen /\ r.pass = q.pass
      /\ r.todo = q.todo /\ r.passed = q.passed
  BY <1>3 DEF Records
<1> HIDE DEF r
<1>5. Order(r, temps)
  BY <1>2, <1>3, <1>4 DEF Order, Working
<1>6. ASSUME NEW p \in Pkgs, Unedited(p)
      PROVE  Answers(r, p, disk.own[p]) /\ (Owes(q, p) => Owes(r, p))
  <2>1. Answers(q, p, disk.own[p])
    BY <1>2, <1>6, Inside
  <2>2. r.pkg = p => Holds(r, p)
    BY <1>2, <1>4, <2>1 DEF Answers, Holds, Working
  <2>3. Answers(r, p, disk.own[p])
    BY <1>2, <1>4, <2>1, <2>2 DEF Answers, Working
  <2>4. QED BY <1>2, <1>4, <2>3 DEF Owes
<1>7. QED BY <1>1, <1>2, <1>3, <1>4, <1>5, <1>6, StillStep

\* The checksums taken now, or kept, are of what was sourced.
LEMMA StoreQuiet == ASSUME FullInv, NEW a \in Programs, Store(a) PROVE QInv'
<1> DEFINE q == prog[a]
           es == DOMAIN q.held.from
           m == Memoised(q.memo, es)
           ecl == [k \in es |-> m[k]]
           e == Entry(q.held.src, q.held.from, ver[q.pkg], ecl)
           r == [q EXCEPT !.at = "rename", !.held = e, !.memo = m]
<1>1. prog' = [prog EXCEPT ![a] = r]
  BY DEF Store, FullInv, IInv, TypeOK
<1>2. q.at = "store" /\ UNCHANGED <<ver, tree, disk>> /\ temps' = temps \cup {<<a, q.pkg>>}
  BY DEF Store, Stand
<1>3. a \in Began /\ q \in Records /\ Order(q, temps)
  BY <1>2, Inside
<1>4. /\ r.at = "rename" /\ r.held = e /\ r.pkg = q.pkg /\ r.hash = q.hash
      /\ r.start = q.start /\ r.old = q.old /\ r.regen = q.regen /\ r.pass = q.pass
      /\ r.todo = q.todo /\ r.passed = q.passed
  BY <1>3 DEF Records
<1> HIDE DEF r
<1>5. Order(r, temps')
  BY <1>2, <1>3, <1>4 DEF Order, Working
<1>6. \A t \in temps' : (t \in temps /\ t[1] # a) \/ (t[1] = a /\ r.at = "rename" /\ r.pkg = t[2])
  BY <1>2, <1>4, OnlyPending
<1>7. ver \in [Files -> Versions]
  BY DEF FullInv, IInv, TypeOK
<1>8. ASSUME NEW p \in Pkgs, Unedited(p)
      PROVE  Answers(r, p, disk.own[p]) /\ (Owes(q, p) => Owes(r, p))
  <2>1. Answers(q, p, disk.own[p])
    BY <1>2, <1>8, Inside
  <2>2. q.pkg = p => /\ q.hash \in {None, ver[p]} /\ Kept(p) /\ q.held.src = ver[p]
                     /\ q.held.from = OwnEntry(p).from
    BY <1>2, <2>1 DEF Answers, Holds, Working
  <2>3. q.pkg = p => e = OwnEntry(p)
    <3> SUFFICES ASSUME q.pkg = p PROVE e = OwnEntry(p)
      OBVIOUS
    <3>1. q.held.from = [k \in Inherits[p][ver[p]] |-> ver[k]]
      BY <1>7, <2>2, EntryFields
    <3>2. es = Inherits[p][ver[p]]
      BY <3>1
    <3>3. \A k \in es : m[k] = ver[k]
      BY <1>3, <1>8, <3>2, MemoIsNow DEF FullInv
    <3>4. ecl = [k \in Inherits[p][ver[p]] |-> ver[k]]
      BY <3>2, <3>3
    <3> HIDE DEF ecl
    <3>5. QED BY <2>2, <3>1, <3>4 DEF OwnEntry, Entry
  <2> HIDE DEF e
  <2>4. r.pkg = p => Holds(r, p)
    BY <1>4, <2>2, <2>3 DEF Holds
  <2>5. Answers(r, p, disk.own[p])
    BY <1>2, <1>4, <2>1, <2>4 DEF Answers, Working
  <2>6. QED BY <1>2, <1>4, <2>5 DEF Owes
<1>9. QED BY <1>1, <1>2, <1>3, <1>4, <1>5, <1>6, <1>8, ProgramStep

\* The entry is in place, or its file was cleaned away and the program goes on or ends.
LEMMA RenameQuiet == ASSUME FullInv, NEW a \in Programs, Rename(a) PROVE QInv'
<1> DEFINE q == prog[a]
           t0 == <<a, q.pkg>>
<1>1. q.at = "rename" /\ UNCHANGED <<ver, tree>>
  BY DEF Rename, Stand
<1>2. a \in Began /\ q \in Records /\ Order(q, temps) /\ q.pkg \in Pkgs
  BY <1>1, Inside DEF ProgramOK
<1>3. PICK at : /\ prog' = [prog EXCEPT ![a].at = at]
                /\ \/ t0 \in temps /\ at = "got"
                   \/ t0 \notin temps /\ at = IF q.regen /\ q.pass = 1 THEN "next" ELSE "failed"
  BY DEF Rename
<1> DEFINE r == [q EXCEPT !.at = at]
<1>4. prog' = [prog EXCEPT ![a] = r]
  BY <1>3 DEF FullInv, IInv, TypeOK
<1>5. /\ r.at = at /\ r.held = q.held /\ r.pkg = q.pkg /\ r.hash = q.hash
      /\ r.start = q.start /\ r.old = q.old /\ r.regen = q.regen /\ r.pass = q.pass
      /\ r.todo = q.todo /\ r.passed = q.passed
  BY <1>2 DEF Records
<1> HIDE DEF r
<1>6. at \in {"got", "next", "failed"}
  BY <1>3
<1>7. Order(r, temps')
  BY <1>1, <1>2, <1>5, <1>6 DEF Order, Working
<1>8. temps' = temps \ {t0}
  BY DEF Rename
<1>9. \A t \in temps' :
        \/ t \in temps /\ (t[1] # a \/ r.at = "dead")
        \/ t[1] = a /\ r.at = "rename" /\ r.pkg = t[2]
  BY <1>1, <1>8, OnlyPending
<1>10. \A c \in Caches, p \in Pkgs :
         disk'[c][p] = IF at = "got" /\ c = "own" /\ p = q.pkg THEN q.held ELSE disk[c][p]
  <2>1. CASE t0 \in temps
    <3>1. disk' = [disk EXCEPT !.own[q.pkg] = q.held] /\ at = "got"
      BY <1>3, <2>1 DEF Rename
    <3>2. QED BY <3>1 DEF FullInv, IInv, DiskOK, Caches
  <2>2. CASE t0 \notin temps
    <3>1. disk' = disk /\ at # "got"
      BY <1>3, <2>2 DEF Rename
    <3>2. QED BY <3>1
  <2>3. QED BY <2>1, <2>2
<1>11. ASSUME NEW p \in Pkgs, Unedited(p)
       PROVE  /\ Answers(r, p, disk'.own[p])
              /\ \A c \in Caches :
                   \/ disk'[c][p] \in {None, disk[c][p]}
                   \/ disk'[c][p] = OwnEntry(p) /\ Kept(p)
              /\ Kept(p) =>
                   /\ \A c \in Caches : disk[c][p] = OwnEntry(p) =>
                        (\E d \in Caches : disk'[d][p] = OwnEntry(p)) \/ Owes(r, p)
                   /\ Owes(q, p) => (\E d \in Caches : disk'[d][p] = OwnEntry(p)) \/ Owes(r, p)
  <2>1. Answers(q, p, disk.own[p])
    BY <1>1, <1>11, Inside
  <2>2. q.pkg = p => Holds(q, p) /\ Kept(p) /\ q.held = OwnEntry(p)
    BY <1>1, <2>1 DEF Answers, Holds, Working
  <2>3. q.pkg = p /\ at = "got" => Holds(r, p)
    BY <1>5, <2>2 DEF Holds
  <2>4. Answers(r, p, disk'.own[p])
    BY <1>1, <1>3, <1>5, <2>1, <2>3 DEF Answers, Working
  <2>5. \A c \in Caches :
          \/ disk'[c][p] \in {None, disk[c][p]}
          \/ disk'[c][p] = OwnEntry(p) /\ Kept(p)
    BY <1>10, <2>2
  <2>6. \A c \in Caches : disk[c][p] = OwnEntry(p) => disk'[c][p] = OwnEntry(p)
    BY <1>10, <2>2
  <2>7. ASSUME Owes(q, p) PROVE (\E d \in Caches : disk'[d][p] = OwnEntry(p)) \/ Owes(r, p)
    <3>1. CASE q.pkg = p /\ at = "got"
      <4>1. disk'["own"][p] = OwnEntry(p) /\ "own" \in Caches
        BY <1>10, <2>2, <3>1 DEF Caches
      <4>2. QED BY <4>1
    <3>2. CASE ~(q.pkg = p /\ at = "got")
      <4>1. Owes(r, p)
        BY <1>1, <1>3, <1>5, <2>7, <3>2 DEF Owes
      <4>2. QED BY <4>1
    <3>3. QED BY <3>1, <3>2
  <2>8. QED BY <2>4, <2>5, <2>6, <2>7
<1>12. r.at # "off" /\ q.at # "dead"
  BY <1>1, <1>5, <1>6
<1>13. QED BY <1>1, <1>2, <1>4, <1>5, <1>7, <1>9, <1>11, <1>12, ProgramStep

LEMMA GotQuiet == ASSUME FullInv, NEW a \in Programs, Got(a) PROVE QInv'
<1> DEFINE q == prog[a]
           passed == IF q.at = "got" THEN q.passed \cup {q.pkg} ELSE q.passed
           r == [q EXCEPT !.at = "next", !.held = None, !.pkg = None, !.passed = passed]
<1>1. q.at \in {"got", "bad"} /\ UNCHANGED <<ver, tree, disk, temps>>
  BY DEF Got, Stand
<1>2. a \in Began /\ q \in Records /\ Order(q, temps)
  BY <1>1, Inside
<1>3. prog' = [prog EXCEPT ![a] = r]
  BY <1>2 DEF Got, FullInv, IInv, TypeOK, Records
<1>4. /\ r.at = "next" /\ r.start = q.start /\ r.old = q.old /\ r.regen = q.regen
      /\ r.pass = q.pass /\ r.todo = q.todo /\ r.passed = passed
  BY <1>2 DEF Records
<1> HIDE DEF r
<1>5. Order(r, temps)
  BY <1>2, <1>4 DEF Order, Working
<1>6. ASSUME NEW p \in Pkgs, Unedited(p)
      PROVE  Answers(r, p, disk.own[p]) /\ (Owes(q, p) => Owes(r, p))
  <2>1. Answers(q, p, disk.own[p])
    BY <1>1, <1>6, Inside
  <2>2. q.pkg = p => (q.at = "got" <=> Kept(p))
    BY <1>1, <2>1 DEF Answers, Holds, Working
  <2>3. Answers(r, p, disk.own[p])
    BY <1>1, <1>4, <2>1, <2>2 DEF Answers, Working
  <2>4. QED BY <1>1, <1>4, <2>3 DEF Owes
<1>7. r.at # "off" /\ q.at \notin {"dead", "rename"}
  BY <1>1, <1>4
<1>8. QED BY <1>1, <1>2, <1>3, <1>4, <1>5, <1>6, <1>7, StillStep

\* The second pass has to come to every package that is kept; what it passed, and only
\* that, is not listed for removal.
LEMMA PassOverQuiet == ASSUME FullInv, NEW a \in Programs, PassOver(a) PROVE QInv'
<1> DEFINE q == prog[a]
           listed == {x \in Names : x[1] = "own" => x[2] \notin q.passed}
<1>1. q.at = "next" /\ q.todo = {} /\ UNCHANGED <<ver, tree, disk, temps>>
  BY DEF PassOver, Stand
<1>2. a \in Began /\ q \in Records /\ Order(q, temps) /\ q.pass \in {1, 2}
  BY <1>1, Inside DEF Records
<1>3. CASE ~q.regen
  <2> DEFINE r == [q EXCEPT !.at = "done"]
  <2>1. prog' = [prog EXCEPT ![a] = r]
    BY <1>3 DEF PassOver, FullInv, IInv, TypeOK
  <2>2. /\ r.at = "done" /\ r.start = q.start /\ r.old = q.old /\ r.regen = q.regen
        /\ r.pass = q.pass /\ r.todo = q.todo /\ r.passed = q.passed
    BY <1>2 DEF Records
  <2> HIDE DEF r
  <2>3. Order(r, temps)
    BY <1>2, <1>3, <2>2 DEF Order, Working
  <2>4. ASSUME NEW p \in Pkgs, Unedited(p) PROVE Answers(r, p, disk.own[p]) /\ ~Owes(q, p)
    <3>1. Answers(q, p, disk.own[p])
      BY <1>1, <2>4, Inside
    <3>2. QED BY <1>1, <1>3, <2>2, <3>1 DEF Answers, Working, Owes
  <2>5. QED BY <1>1, <1>2, <2>1, <2>2, <2>3, <2>4, StillStep
<1>4. CASE q.regen /\ q.pass = 1
  <2> DEFINE r == [q EXCEPT !.pass = 2, !.todo = tree, !.passed = {}]
  <2>1. prog' = [prog EXCEPT ![a] = r]
    BY <1>4 DEF PassOver, FullInv, IInv, TypeOK
  <2>2. /\ r.at = "next" /\ r.start = q.start /\ r.old = q.old /\ r.regen = q.regen
        /\ r.pass = 2 /\ r.todo = tree /\ r.passed = {}
    BY <1>1, <1>2 DEF Records
  <2> HIDE DEF r
  <2>3. Order(r, temps)
    BY <2>2 DEF Order, Working
  <2>4. ASSUME NEW p \in Pkgs
        PROVE  Answers(r, p, disk.own[p]) /\ (Kept(p) => Owes(r, p))
    BY <1>4, <2>2 DEF Answers, Working, Owes, Kept
  <2>5. QED BY <1>1, <1>2, <2>1, <2>2, <2>3, <2>4, StillStep
<1>5. CASE q.regen /\ q.pass # 1
  <2> DEFINE r == [q EXCEPT !.at = "clean", !.listed = listed]
  <2>1. prog' = [prog EXCEPT ![a] = r]
    BY <1>5 DEF PassOver, FullInv, IInv, TypeOK
  <2>2. /\ r.at = "clean" /\ r.start = q.start /\ r.old = q.old /\ r.regen = q.regen
        /\ r.pass = 2 /\ r.todo = {} /\ r.passed = q.passed /\ r.listed = listed
    BY <1>1, <1>2, <1>5 DEF Records
  <2> HIDE DEF r
  <2>3. temps \subseteq listed
    <3>1. \A t \in temps : t[1] # "own"
      BY CacheAssumption DEF FullInv, IInv, TypeOK
    <3>2. QED BY <3>1 DEF Names
  <2>4. \A p \in Pkgs : <<"own", p>> \in listed <=> disk.own[p] # None /\ p \notin q.passed
    <3>1. \A p \in Pkgs : <<"own", p>> \notin temps
      BY CacheAssumption DEF FullInv, IInv, TypeOK
    <3>2. \A p \in Pkgs : <<"own", p>> \in Names <=> disk.own[p] # None
      BY <3>1 DEF Names
    <3>3. QED BY <3>2
  <2> HIDE DEF listed
  <2>5. Order(r, temps)
    BY <1>5, <2>2, <2>3 DEF Order, Working
  <2>6. ASSUME NEW p \in Pkgs, Unedited(p) PROVE Answers(r, p, disk.own[p]) /\ ~Owes(q, p)
    <3>1. Answers(q, p, disk.own[p])
      BY <1>1, <2>6, Inside
    <3>2. Kept(p) <=> p \in q.passed
      BY <1>1, <1>2, <1>5, <3>1 DEF Answers, Working
    <3>3. Answers(r, p, disk.own[p])
      BY <1>5, <2>2, <2>4, <3>2 DEF Answers, Working
    <3>4. QED BY <1>1, <1>5, <3>3 DEF Owes
  <2>7. QED BY <1>1, <1>2, <2>1, <2>2, <2>5, <2>6, StillStep
<1>6. QED BY <1>3, <1>4, <1>5

LEMMA CleanQuiet == ASSUME FullInv, NEW a \in Programs, Clean(a) PROVE QInv'
<1> DEFINE q == prog[a]
<1>1. q.at = "clean" /\ UNCHANGED <<ver, tree>>
  BY DEF Clean, Stand
<1>2. a \in Began /\ q \in Records /\ Order(q, temps) /\ q.regen /\ q.pass = 2 /\ q.todo = {}
  BY <1>1, Inside DEF Order
<1>3. \A p \in Pkgs : ~Owes(q, p)
  BY <1>1, <1>2 DEF Owes
<1>4. CASE /\ q.listed = {}
           /\ prog' = [prog EXCEPT ![a].at = "done"]
           /\ UNCHANGED <<disk, temps>>
  <2> DEFINE r == [q EXCEPT !.at = "done"]
  <2>1. prog' = [prog EXCEPT ![a] = r]
    BY <1>4 DEF FullInv, IInv, TypeOK
  <2>2. /\ r.at = "done" /\ r.start = q.start /\ r.old = q.old /\ r.regen = q.regen
        /\ r.pass = q.pass /\ r.todo = q.todo /\ r.passed = q.passed
    BY <1>2 DEF Records
  <2> HIDE DEF r
  <2>3. Order(r, temps)
    BY <1>1, <1>2, <1>4, <2>2 DEF Order, Working
  <2>4. ASSUME NEW p \in Pkgs, Unedited(p) PROVE Answers(r, p, disk.own[p])
    <3>1. Answers(q, p, disk.own[p])
      BY <1>1, <2>4, Inside
    <3>2. QED BY <1>1, <1>4, <2>2, <3>1 DEF Answers, Working
  <2>5. QED BY <1>1, <1>2, <1>3, <1>4, <2>1, <2>2, <2>3, <2>4, StillStep
<1>5. ASSUME NEW x \in q.listed,
             prog' = [prog EXCEPT ![a].listed = @ \ {x},
                                  ![a].at = IF x \in Names THEN "clean" ELSE "failed"],
             temps' = temps \ {x},
             disk' = IF x[1] = "own" THEN [disk EXCEPT !.own[x[2]] = None] ELSE disk
      PROVE  QInv'
  <2> DEFINE at == IF x \in Names THEN "clean" ELSE "failed"
             r == [q EXCEPT !.listed = @ \ {x}, !.at = at]
  <2>1. prog' = [prog EXCEPT ![a] = r]
    BY <1>5 DEF FullInv, IInv, TypeOK
  <2>2. /\ r.at = at /\ r.start = q.start /\ r.old = q.old /\ r.regen = q.regen
        /\ r.pass = q.pass /\ r.todo = q.todo /\ r.passed = q.passed /\ r.listed = q.listed \ {x}
    BY <1>2 DEF Records
  <2>3. at \in {"clean", "failed"}
    OBVIOUS
  <2> HIDE DEF r, at
  <2>4. Order(r, temps')
    BY <1>1, <1>2, <1>5, <2>2, <2>3 DEF Order, Working
  <2>5. \A t \in temps' :
          \/ t \in temps /\ (t[1] # a \/ r.at = "dead")
          \/ t[1] = a /\ r.at = "rename" /\ r.pkg = t[2]
    BY <1>1, <1>5, OnlyPending
  <2>6. x = <<x[1], x[2]>> /\ x[2] \in Pkgs
    BY <1>2 DEF Records, Named
  <2>7. \A c \in Caches, p \in Pkgs :
          disk'[c][p] = IF c = "own" /\ x = <<"own", p>> THEN None ELSE disk[c][p]
    BY <1>5, <2>6 DEF FullInv, IInv, DiskOK, Caches
  <2>8. ASSUME NEW p \in Pkgs, Unedited(p)
        PROVE  /\ Answers(r, p, disk'.own[p])
               /\ \A c \in Caches :
                    \/ disk'[c][p] \in {None, disk[c][p]}
                    \/ disk'[c][p] = OwnEntry(p) /\ Kept(p)
               /\ Kept(p) =>
                    /\ \A c \in Caches : disk[c][p] = OwnEntry(p) =>
                         (\E d \in Caches : disk'[d][p] = OwnEntry(p)) \/ Owes(r, p)
                    /\ Owes(q, p) => (\E d \in Caches : disk'[d][p] = OwnEntry(p)) \/ Owes(r, p)
    <3>1. Answers(q, p, disk.own[p])
      BY <1>1, <2>8, Inside
    <3>2. "own" \in Caches
      BY DEF Caches
    <3>3. disk'.own[p] = IF x = <<"own", p>> THEN None ELSE disk.own[p]
      BY <2>7, <3>2
    <3>4. Answers(r, p, disk'.own[p])
      BY <1>1, <2>2, <2>3, <3>1, <3>3 DEF Answers, Working
    <3>5. Kept(p) => x # <<"own", p>>
      BY <1>1, <3>1 DEF Answers
    <3>6. QED BY <1>3, <2>7, <3>4, <3>5
  <2>9. r.at # "off" /\ q.at # "dead"
    BY <1>1, <2>2, <2>3
  <2>10. QED BY <1>1, <1>2, <2>1, <2>2, <2>4, <2>5, <2>8, <2>9, ProgramStep
<1>6. QED BY <1>4, <1>5 DEF Clean

LEMMA CrashQuiet == ASSUME FullInv, NEW a \in Programs, Crash(a) PROVE QInv'
<1> DEFINE q == prog[a]
           r == [q EXCEPT !.at = "dead"]
<1>1. q.at \notin {"off", "done", "failed", "dead"} /\ UNCHANGED <<ver, tree, disk, temps>>
  BY DEF Crash
<1>2. a \in Began /\ q \in Records /\ Order(q, temps)
  BY <1>1, Inside
<1>3. prog' = [prog EXCEPT ![a] = r]
  BY DEF Crash, FullInv, IInv, TypeOK
<1>4. /\ r.at = "dead" /\ r.start = q.start /\ r.old = q.old /\ r.regen = q.regen
      /\ r.todo = q.todo /\ r.passed = q.passed
  BY <1>2 DEF Records
<1> HIDE DEF r
<1>5. Order(r, temps')
  BY <1>1, <1>2, <1>4 DEF Order, Working
<1>6. ASSUME NEW p \in Pkgs, Unedited(p) PROVE Answers(r, p, disk.own[p]) /\ Owes(r, p)
  <2>1. Answers(q, p, disk.own[p])
    BY <1>1, <1>6, Inside
  <2>2. QED BY <1>4, <2>1 DEF Answers, Working, Owes
<1>7. \A t \in temps' :
        \/ t \in temps /\ (t[1] # a \/ r.at = "dead")
        \/ t[1] = a /\ r.at = "rename" /\ r.pkg = t[2]
  BY <1>1, <1>4
<1>8. \A p \in Pkgs : Unedited(p) =>
        /\ Answers(r, p, disk'.own[p])
        /\ \A c \in Caches :
             \/ disk'[c][p] \in {None, disk[c][p]}
             \/ disk'[c][p] = OwnEntry(p) /\ Kept(p)
        /\ Kept(p) =>
             /\ \A c \in Caches : disk[c][p] = OwnEntry(p) =>
                  (\E d \in Caches : disk'[d][p] = OwnEntry(p)) \/ Owes(r, p)
             /\ Owes(q, p) => (\E d \in Caches : disk'[d][p] = OwnEntry(p)) \/ Owes(r, p)
  BY <1>1, <1>6
<1>9. QED BY <1>1, <1>2, <1>3, <1>4, <1>5, <1>7, <1>8, ProgramStep

\* A program that begins a regeneration owes every entry.
LEMMA BeginQuiet == ASSUME FullInv, NEW a \in Programs, Begin(a) PROVE QInv'
<1>1. PICK regen \in BOOLEAN : prog' = [prog EXCEPT ![a] = Fresh(regen)]
  BY DEF Begin
<1> DEFINE r == Fresh(regen)
<1>2. /\ r.at = "next" /\ r.regen = regen /\ r.pass = 1 /\ r.todo = tree /\ r.passed = {}
      /\ r.start = ver /\ r.old = {t \in temps : prog[t[1]].at = "dead"}
  BY DEF Fresh
<1> HIDE DEF r
<1>3. prog[a].at = "off" /\ UNCHANGED <<ver, tree, disk, temps>>
  BY DEF Begin, Stand
<1>4. \A b \in Programs : prog'[b] = IF b = a THEN r ELSE prog[b]
  BY <1>1 DEF FullInv, IInv, TypeOK, r
<1>5. Began' = Began \cup {a} /\ Began \subseteq Programs /\ a \notin Began
  BY <1>2, <1>3, <1>4 DEF Began
<1>6. \A t \in temps : t[1] \in Programs /\ Pending(t)
  BY DEF FullInv, IInv, TypeOK, QInv, Orderly
<1>7. Orderly'
  <2>1. \A t \in temps' : Pending(t)'
    BY <1>3, <1>4, <1>6 DEF Pending
  <2>2. Order(r, temps)
    BY <1>2 DEF Order, Working
  <2>3. \A b \in Began' : Order(prog'[b], temps)
    BY <1>4, <1>5, <2>2 DEF FullInv, QInv, Orderly
  <2>4. \A b \in Began' : \A t \in prog'[b].old : t[1] \in Programs /\ prog'[t[1]].at = "dead"
    <3>1. \A t \in r.old : t[1] \in Programs /\ prog[t[1]].at = "dead"
      BY <1>2, <1>6
    <3>2. \A b \in Began : \A t \in prog[b].old : t[1] \in Programs /\ prog[t[1]].at = "dead"
      BY DEF FullInv, QInv, Orderly
    <3>3. \A b \in Began' : \A t \in prog'[b].old : t[1] \in Programs /\ prog[t[1]].at = "dead"
      BY <1>4, <1>5, <3>1, <3>2
    <3>4. QED BY <1>3, <1>4, <3>3
  <2>5. QED BY <1>3, <2>1, <2>3, <2>4 DEF Orderly, Order
<1>8. ASSUME NEW p \in Pkgs, Unedited(p)' PROVE Settled(p)'
  <2>1. Unedited(p)
    BY <1>3, <1>4, <1>5, <1>8 DEF Unedited
  <2>2. Settled(p)
    BY <2>1 DEF FullInv, QInv
  <2>3. /\ OwnEntry(p)' = OwnEntry(p) /\ Kept(p)' = Kept(p)
        /\ Original(p)' = Original(p)
    BY <1>3 DEF OwnEntry, Kept, Original
  <2>4. Usable(p)' = Usable(p)
    BY <2>3 DEF Usable
  <2>5. \A s, d : Answers(s, p, d)' <=> Answers(s, p, d)
    BY <1>3, <2>3, <2>4 DEF Answers, Holds
  <2>6. \A s : Owes(s, p)' <=> Owes(s, p)
    BY <2>3 DEF Owes
  <2>7. \A c \in Caches : disk[c][p] = None \/ disk[c][p] \in Usable(p)
    BY <2>2 DEF Settled, Usable
  <2>8. Answers(r, p, disk.own[p])
    BY <1>2 DEF Answers, Working
  <2>9. \A b \in Began' : Answers(prog'[b], p, disk.own[p])
    BY <1>4, <1>5, <2>2, <2>8 DEF Settled
  <2>10. ASSUME Kept(p), Regenerating'
         PROVE  \/ \E c \in Caches : disk[c][p] = OwnEntry(p)
                \/ \E b \in Began' : Owes(prog'[b], p)
    <3>1. CASE r.regen
      <4>1. Owes(r, p)
        BY <1>2, <3>1 DEF Owes
      <4>2. QED BY <1>4, <1>5, <4>1
    <3>2. CASE ~r.regen
      <4>1. Regenerating
        BY <1>4, <1>5, <2>10, <3>2 DEF Regenerating
      <4>2. Promised(p)
        BY <2>2, <2>10, <4>1 DEF Settled
      <4>3. QED BY <1>4, <1>5, <4>2 DEF Promised
    <3>3. QED BY <3>1, <3>2
  <2>11. Kept(p)' /\ Regenerating' => Promised(p)'
    BY <1>3, <2>3, <2>6, <2>10 DEF Promised
  <2>12. Began' # {}
    BY <1>5
  <2>13. QED BY <1>3, <2>4, <2>5, <2>7, <2>9, <2>11, <2>12 DEF Settled
<1>9. QED BY <1>7, <1>8 DEF QInv

\* Of what is still as it was when a program began, nothing was edited.
LEMMA EditQuiet == ASSUME FullInv, Edit PROVE QInv'
<1>1. PICK f \in Files : ver' = [ver EXCEPT ![f] = @ + 1]
  BY DEF Edit
<1>2. UNCHANGED <<tree, disk, temps, prog>>
  BY DEF Edit
<1>3. Began' = Began /\ Regenerating' = Regenerating
  BY <1>2 DEF Began, Regenerating
<1>4. Orderly'
  BY <1>2, <1>3 DEF FullInv, QInv, Orderly, Order, Pending
<1>5. \A g \in Files : ver[g] \in Nat /\ ver'[g] = IF g = f THEN ver[g] + 1 ELSE ver[g]
  BY <1>1, VersionsAreNumbers DEF FullInv, IInv, TypeOK
<1>6. ASSUME NEW p \in Pkgs, Unedited(p)' PROVE Settled(p)'
  <2>1. CASE Began = {}
    <3>1. Unedited(p)
      BY <2>1 DEF Unedited
    <3>2. \A c \in Caches : disk[c][p] = None \/ disk[c][p] \in {Original(p)}
      BY <2>1, <3>1 DEF FullInv, QInv, Settled
    <3>3. Original(p)' = Original(p) /\ ~Regenerating
      BY <2>1 DEF Original, Regenerating
    <3>4. QED BY <1>2, <1>3, <2>1, <3>2, <3>3 DEF Settled
  <2>2. CASE Began # {}
    <3>1. PICK b \in Began : TRUE
      BY <2>2
    <3>2. prog[b].start \in [Files -> Versions] /\ \A g \in Files : prog[b].start[g] <= ver[g]
      <4>1. b \in Programs /\ prog[b].at # "off"
        BY DEF Began
      <4>2. prog[b] \in Records /\ ProgramOK(prog[b], ver)
        BY <4>1, Inside
      <4>3. ver \in [Files -> Versions]
        BY DEF FullInv, IInv, TypeOK
      <4>4. QED BY <4>2, <4>3, InOrder DEF Records
    <3>3. ASSUME NEW g \in Files, prog[b].start[g] = ver'[g] PROVE ver'[g] = ver[g]
      BY <1>5, <3>2, <3>3, VersionsAreNumbers
    <3>4. \A g \in {p} \cup Inherits[p][ver'[p]] : prog[b].start[g] = ver'[g]
      BY <1>2, <1>3, <1>6 DEF Unedited
    <3>5. p \in Files /\ ver'[p] = ver[p]
      BY <3>3, <3>4, VersionsAreNumbers
    <3>6. Inherits[p][ver[p]] \subseteq Files
      BY <3>5, VersionsAreNumbers DEF FullInv, IInv, TypeOK
    <3>7. \A g \in {p} \cup Inherits[p][ver[p]] : ver'[g] = ver[g]
      BY <3>3, <3>4, <3>5, <3>6
    <3>8. Unedited(p)
      BY <1>2, <1>3, <1>6, <3>5, <3>7 DEF Unedited
    <3>9. Settled(p)
      BY <3>8 DEF FullInv, QInv
    <3>10. OwnEntry(p)' = OwnEntry(p) /\ Kept(p)' = Kept(p) /\ Original(p)' = Original(p)
      <4>1. [e \in Inherits[p][ver'[p]] |-> ver'[e]] = [e \in Inherits[p][ver[p]] |-> ver[e]]
        BY <3>5, <3>7
      <4>2. QED BY <1>2, <3>5, <4>1 DEF OwnEntry, Kept, Original
    <3>11. Usable(p)' = Usable(p)
      BY <3>10 DEF Usable
    <3>12. \A s, d : Answers(s, p, d)' <=> Answers(s, p, d)
      BY <3>5, <3>10, <3>11 DEF Answers, Holds
    <3>13. \A s : Owes(s, p)' <=> Owes(s, p)
      BY <3>10 DEF Owes
    <3>14. Promised(p)' <=> Promised(p)
      BY <1>2, <1>3, <3>10, <3>13 DEF Promised
    <3>15. QED BY <1>2, <1>3, <2>2, <3>9, <3>10, <3>11, <3>12, <3>14 DEF Settled
  <2>3. QED BY <2>1, <2>2
<1>7. QED BY <1>4, <1>6 DEF QInv

THEOREM QuietHolds == FullInv /\ [Next]_vars => FullInv'
<1> SUFFICES ASSUME FullInv, [Next]_vars PROVE QInv'
  BY StepHolds DEF FullInv
<1>1. ASSUME NEW a \in Programs,
             \/ Begin(a) \/ Choose(a) \/ Read(a) \/ Validate(a) \/ Delete(a) \/ Source(a)
             \/ Inherit(a) \/ Preload(a) \/ Store(a) \/ Rename(a) \/ Got(a) \/ PassOver(a)
             \/ Clean(a) \/ Crash(a)
      PROVE  QInv'
  BY <1>1, BeginQuiet, ChooseQuiet, ReadQuiet, ValidateQuiet, DeleteQuiet, SourceQuiet,
     InheritQuiet, PreloadQuiet, StoreQuiet, RenameQuiet, GotQuiet, PassOverQuiet, CleanQuiet,
     CrashQuiet
<1>2. CASE Edit BY <1>2, EditQuiet
<1>3. CASE UNCHANGED vars
  <2>1. UNCHANGED <<ver, tree, disk, temps, prog>>
    BY <1>3 DEF vars
  <2>2. Began' = Began /\ Regenerating' = Regenerating
    BY <2>1 DEF Began, Regenerating
  <2>3. Orderly'
    BY <2>1, <2>2 DEF FullInv, QInv, Orderly, Order, Pending
  <2>4. ASSUME NEW p \in Pkgs, Unedited(p)' PROVE Settled(p)'
    <3>1. Unedited(p) /\ OwnEntry(p)' = OwnEntry(p) /\ Kept(p)' = Kept(p)
          /\ Original(p)' = Original(p)
      BY <2>1, <2>2, <2>4 DEF Unedited, OwnEntry, Kept, Original
    <3>2. Usable(p)' = Usable(p)
      BY <3>1 DEF Usable
    <3>3. \A s, d : Answers(s, p, d)' <=> Answers(s, p, d)
      BY <2>1, <3>1, <3>2 DEF Answers, Holds
    <3>4. \A s : Owes(s, p)' <=> Owes(s, p)
      BY <3>1 DEF Owes
    <3>5. Promised(p)' <=> Promised(p)
      BY <2>1, <2>2, <3>1, <3>4 DEF Promised
    <3>6. Settled(p)
      BY <3>1 DEF FullInv, QInv
    <3>7. QED BY <2>1, <2>2, <3>1, <3>2, <3>3, <3>5, <3>6 DEF Settled
  <2>5. QED BY <2>3, <2>4 DEF QInv
<1>4. QED BY <1>1, <1>2, <1>3 DEF Next

\* When all programs have come to a good end, one of them a regeneration, the cache holds
\* a valid entry for everything nobody edited, nothing of what is gone or broken and no
\* file that was never renamed; whoever deletes whose entries, edits, or is killed.
THEOREM QuietIsComplete == Spec => []QuietMeansComplete
<1>1. Init => FullInv
  <2> SUFFICES ASSUME Init PROVE QInv
    BY InitHolds DEF FullInv
  <2>1. Began = {} /\ temps = {}
    BY DEF Began, Init
  <2>2. ASSUME NEW p \in Pkgs PROVE Settled(p)
    <3>1. ver \in [Files -> Versions] /\ ver[p] = 0 /\ \A e \in Inherits[p][0] : ver[e] = 0
      BY VersionsAreNumbers DEF Init
    <3>2. OwnEntry(p) = Original(p)
      BY <3>1, EntryFields
    <3>3. \A c \in Caches : disk[c][p] = None \/ disk[c][p] = OwnEntry(p)
      BY DEF Init
    <3>4. QED BY <2>1, <3>2, <3>3 DEF Settled, Regenerating
  <2>3. QED BY <2>1, <2>2 DEF QInv, Orderly
<1>2. FullInv => QuietMeansComplete
  <2> SUFFICES ASSUME FullInv PROVE QuietMeansComplete
    OBVIOUS
  <2>1. \A b \in Cleaned : /\ b \in Began /\ prog[b].at = "done" /\ prog[b].regen
                           /\ Order(prog[b], temps)
    BY DEF Cleaned, Done, FullInv, QInv, Orderly
  <2>2. ASSUME Done = Began, Cleaned # {}
        PROVE  /\ \A p \in tree : Unedited(p) /\ ver[p] \in Sound[p] =>
                    OwnEntry(p) \in {disk[c][p] : c \in Caches}
               /\ \A p \in Pkgs : Unedited(p) /\ (p \in tree => ver[p] \notin Sound[p]) =>
                    disk.own[p] = None
               /\ temps = {}
    <3>1. PICK b \in Cleaned : TRUE
      BY <2>2
    <3>2. \A p \in Pkgs, c \in Began : ~Owes(prog[c], p)
      <4>1. \A c \in Began : prog[c].at = "done" /\ Order(prog[c], temps)
        BY <2>2 DEF Done, FullInv, QInv, Orderly
      <4>2. QED BY <4>1 DEF Owes, Order
    <3>3. ASSUME NEW p \in tree, Unedited(p), ver[p] \in Sound[p]
          PROVE  OwnEntry(p) \in {disk[c][p] : c \in Caches}
      <4>1. p \in Pkgs /\ Kept(p)
        BY <3>3 DEF Kept, FullInv, IInv, TypeOK
      <4>2. Promised(p)
        BY <2>1, <3>1, <3>3, <4>1 DEF FullInv, QInv, Settled, Regenerating
      <4>3. QED BY <3>2, <4>1, <4>2 DEF Promised
    <3>4. ASSUME NEW p \in Pkgs, Unedited(p), p \in tree => ver[p] \notin Sound[p]
          PROVE  disk.own[p] = None
      <4>1. Answers(prog[b], p, disk.own[p]) /\ ~Kept(p)
        BY <2>1, <3>4 DEF Kept, FullInv, QInv, Settled
      <4>2. QED BY <2>1, <4>1 DEF Answers
    <3>5. temps = {}
      <4> SUFFICES ASSUME NEW t \in temps PROVE FALSE
        OBVIOUS
      <4>1. t[1] \in Programs /\ prog[t[1]].at \in {"dead", "rename"}
        BY DEF FullInv, IInv, TypeOK, QInv, Orderly, Pending
      <4>2. t[1] \in Began
        BY <4>1 DEF Began
      <4>3. QED BY <2>2, <4>1, <4>2 DEF Done
    <3>6. QED BY <3>3, <3>4, <3>5
  <2>3. \A b \in Cleaned : prog[b].old \cap temps = {}
    BY <2>1 DEF Order
  <2>4. QED BY <2>2, <2>3 DEF QuietMeansComplete
<1>3. QED BY QuietHolds, <1>1, <1>2, PTL DEF Spec
=============================================================================
