------------------------------- MODULE Contents -------------------------------
(***************************************************************************)
(* Sets of files (fs/contents.py): the operations on them, and the two     *)
(* that bring the entries below a symbolic link to where it leads, for an  *)
(* archive (fs/tar.py) and for what is on the disk (merge/engine.py).      *)
(*                                                                         *)
(* A location is a sequence of names, that of the root the empty one.  A   *)
(* set maps locations to entries [kind, to, rel, data, inode, mode]: the   *)
(* kind is "dir", "file" or "link", a link leads to the location to, from  *)
(* the root or, rel, from the directory it is in, and files that share an  *)
(* inode other than 0 are one.                                             *)
(***************************************************************************)
EXTENDS Naturals, Sequences, SequencesExt, FiniteSets, TLC

Dir == [kind |-> "dir", to |-> <<>>, rel |-> FALSE, data |-> 0, inode |-> 0, mode |-> 0]
File(data) == [Dir EXCEPT !.kind = "file", !.data = data]
Link(to, rel) == [Dir EXCEPT !.kind = "link", !.to = to, !.rel = rel]

OfKind(cs, kind) == {l \in DOMAIN cs : cs[l].kind = kind}
Only(cs, locs) == [l \in DOMAIN cs \cap locs |-> cs[l]]
Parent(l) == SubSeq(l, 1, Len(l) - 1)

-----------------------------------------------------------------------------
(* Operations on sets.  Entries are told apart by where they are, so that  *)
(* it matters which of the two is taken.                                   *)

Difference(cs, other) == Only(cs, DOMAIN cs \ DOMAIN other)
Intersection(cs, other) == Only(other, DOMAIN cs)
Update(cs, other) == other @@ cs

ResolvedTarget(cs, l) == IF cs[l].rel THEN Parent(l) \o cs[l].to ELSE cs[l].to

ChildNodes(cs, start) == Only(cs, {l \in DOMAIN cs : IsStrictPrefix(start, l)})
ChangeOffset(cs, old, new) ==
    [l \in {new \o SubSeq(k, Len(old) + 1, Len(k)) : k \in DOMAIN cs} |->
        cs[old \o SubSeq(l, Len(new) + 1, Len(l))]]

\* The directories on the way to what there is, but the root.
AddMissingDirectories(cs) ==
    cs @@ [l \in UNION {{SubSeq(k, 1, n) : n \in 1..(Len(k) - 1)} : k \in DOMAIN cs} |-> Dir]

\* By location, name by name.
RECURSIVE Before(_, _)
Before(k, l) ==
    \/ k = <<>> /\ l # <<>>
    \/ k # <<>> /\ l # <<>> /\ (Head(k) < Head(l) \/ (Head(k) = Head(l) /\ Before(Tail(k), Tail(l))))
Sorted(locs) == SetToSortSeq(locs, Before)

-----------------------------------------------------------------------------
(* An archive.                                                             *)

\* What a file is written as: a link to one of the same inode written before it, if they
\* have their attributes in common.  If they have not it is written without its data.
Linkable(cs, l, earlier) == cs[l].inode # 0 /\ cs[l].mode = cs[earlier].mode
Member(cs, l, earlier) ==
    IF cs[l].kind # "file" THEN cs[l]
    ELSE IF earlier = {} THEN [cs[l] EXCEPT !.inode = 0]
    ELSE LET first == CHOOSE e \in earlier : TRUE IN
         IF Linkable(cs, l, first) THEN [cs[l] EXCEPT !.kind = "hardlink", !.to = first, !.data = 0, !.inode = 0]
         ELSE [cs[l] EXCEPT !.data = 0, !.inode = 0]

\* The directories first, then the others in the order the set has them.
AddContentsToTarfile(cs, order) ==
    LET add(st, l) ==
          LET earlier == {e \in st.inodes : cs[e].inode = cs[l].inode} IN
          [members |-> Append(st.members, <<l, Member(cs, l, earlier)>>),
           inodes |-> IF cs[l].kind = "file" /\ earlier = {} THEN st.inodes \cup {l} ELSE st.inodes]
    IN FoldLeft(add, [members |-> <<>>, inodes |-> {}], Sorted(OfKind(cs, "dir")) \o order).members

\* A link to a file takes its inode and its data, and has to come after it.
ArchiveToFsobj(members) ==
    LET read(st, i) ==
          LET l == members[i][1] e == members[i][2] IN
          IF e.kind # "hardlink" THEN [st EXCEPT !.cs = Update(@, l :> (IF e.kind = "file" THEN [e EXCEPT !.inode = i] ELSE e))]
          ELSE IF e.to \notin DOMAIN st.cs THEN [st EXCEPT !.ok = FALSE]
          ELSE [st EXCEPT !.cs = Update(@, l :> [e EXCEPT !.kind = "file", !.to = <<>>, !.data = st.cs[e.to].data, !.inode = st.cs[e.to].inode])]
    IN FoldLeft(read, [ok |-> TRUE, cs |-> <<>>], [i \in 1..Len(members) |-> i])

\* The links below a link are brought to where it leads, until there are none.  fuel: how
\* often, as links that lead into each other would go on for ever.
RECURSIVE SettleLinks(_, _)
SettleLinks(links, fuel) ==
    LET above == {l \in DOMAIN links : DOMAIN ChildNodes(links, l) # {}} IN
    IF above = {} \/ fuel = 0 THEN links
    ELSE LET l == Sorted(above)[1]
             affected == ChildNodes(links, l)
         IN SettleLinks(Update(Difference(links, affected),
                               ChangeOffset(affected, l, ResolvedTarget(links, l))), fuel - 1)

\* What else there is below one is, from the last link to the first; it is not looked at
\* again.
ConvertArchive(raw, fuel) ==
    LET links == SettleLinks(Only(raw, OfKind(raw, "link")), fuel)
        t == Update(Only(raw, DOMAIN raw \ OfKind(raw, "link")), links)
        move(acc, l) ==
          LET affected == ChildNodes(acc.t, l) IN
          [t |-> Difference(acc.t, affected),
           additions |-> Update(acc.additions, ChangeOffset(affected, l, ResolvedTarget(links, l)))]
        moved == FoldLeft(move, [t |-> t, additions |-> <<>>], Reverse(Sorted(DOMAIN links)))
    IN AddMissingDirectories(Update(moved.t, moved.additions))

-----------------------------------------------------------------------------
(* The disk: a set too, whose every entry is in a directory.               *)

\* Where a name leads by the first link on the way to it, and by all of them.
LinksAbove(cs, l) == {n \in 1..(Len(l) - 1) : SubSeq(l, 1, n) \in OfKind(cs, "link")}
Follow(cs, l) ==
    IF LinksAbove(cs, l) = {} THEN l
    ELSE LET n == CHOOSE i \in LinksAbove(cs, l) : \A j \in LinksAbove(cs, l) : i <= j IN
         ResolvedTarget(cs, SubSeq(l, 1, n)) \o SubSeq(l, n + 1, Len(l))
RECURSIVE Lstat(_, _)
Lstat(disk, l) == IF Follow(disk, l) = l THEN l ELSE Lstat(disk, Follow(disk, l))
Exists(disk, l) == Lstat(disk, l) \in DOMAIN disk

\* livefs.intersect: what the disk has under those names.
LivefsIntersect(disk, locs) == [l \in {k \in locs : Exists(disk, k)} |-> disk[Lstat(disk, l)]]

\* recursively_fill_syms: where the links lead, and those it leads to.
RECURSIVE FillSyms(_, _)
FillSyms(cs, disk) ==
    LET new == {l \in {ResolvedTarget(cs, k) : k \in OfKind(cs, "link")} \ DOMAIN cs : Exists(disk, l)} IN
    IF new = {} THEN cs ELSE FillSyms(cs @@ LivefsIntersect(disk, new), disk)

\* map_directory_structure: the directories of self that other has a link for are replaced
\* by what it leads to, which other has to have; what is below them goes along.  One that is
\* no longer there, having gone along with another, is missed: KeyError.
RECURSIVE MapDirectoryStructure(_, _)
MapDirectoryStructure(self, other) ==
    LET conflicts == DOMAIN Intersection(Only(self, OfKind(self, "dir")), Only(other, OfKind(other, "link")))
        move(st, l) ==
          LET rest == Only(st.cs, DOMAIN st.cs \ {l})
              subset == ChildNodes(rest, l)
              to == ResolvedTarget(other, l)
          IN IF ~st.ok \/ l \notin DOMAIN st.cs \/ to \notin DOMAIN other THEN [st EXCEPT !.ok = FALSE]
             ELSE [st EXCEPT !.cs = Update(Update(Difference(rest, subset), ChangeOffset(subset, l, to)),
                                           Only(other, {to}))]
        moved == FoldLeft(move, [ok |-> TRUE, cs |-> self], Sorted(conflicts))
    IN IF conflicts = {} \/ ~moved.ok THEN moved ELSE MapDirectoryStructure(moved.cs, other)

MapNewCsetLivefs(new, disk) ==
    MapDirectoryStructure(new, FillSyms(LivefsIntersect(disk, OfKind(new, "dir")), disk))

-----------------------------------------------------------------------------
\* An archive gives back what was written to it, files that were one again one, if those
\* have their attributes in common and every other has an inode of its own.
TarAgrees(cs, order) ==
    LET result == ArchiveToFsobj(AddContentsToTarfile(cs, order))
        files == OfKind(cs, "file")
        shared(c, k, l) == c[k].inode = c[l].inode
    IN (\A k \in files, l \in files : shared(cs, k, l) /\ k # l =>
             cs[k].inode # 0 /\ cs[k].mode = cs[l].mode /\ cs[k].data = cs[l].data) =>
         /\ result.ok
         /\ DOMAIN result.cs = DOMAIN cs
         /\ \A l \in DOMAIN cs : [result.cs[l] EXCEPT !.inode = cs[l].inode] = cs[l]
         /\ \A k \in files, l \in files : shared(result.cs, k, l) <=> shared(cs, k, l)

\* links are those of result, straight if none leads below another; files those of the archive.
Unpacked(result, links, files) ==
    LET settled == {Follow(links, l) : l \in files}
    IN (\A l \in DOMAIN links : LinksAbove(links, Append(ResolvedTarget(links, l), 0)) = {}) =>
         /\ \A l \in DOMAIN result : LinksAbove(links, l) = {}
         /\ OfKind(result, "file") \subseteq settled
         /\ settled \subseteq DOMAIN result
         /\ \A l \in DOMAIN result : Len(l) > 1 => Parent(l) \in DOMAIN result

\* What an archive has below a link is unpacked where the link leads, and nothing is left
\* below one, if no link leads below another; a file is only lost to another that ends up
\* in the same place.
ArchiveAgrees(raw, fuel) ==
    LET result == ConvertArchive(raw, fuel)
    IN Unpacked(result, Only(result, OfKind(result, "link")), OfKind(raw, "file"))

\* What a package brings is found on the disk where the names it uses lead: after the
\* mapping no directory of it is a link of the disk's and each file is where it will be
\* written.  So it is if the links on the disk lead to directories, for the package too, and
\* no two of its files, or a file and a directory, come to be in one place.
DiskAgrees(new, disk) ==
    LET result == MapNewCsetLivefs(new, disk)
        links == {l \in OfKind(new, "dir") : Exists(disk, l) /\ Lstat(disk, l) \in OfKind(disk, "link")}
        straight == \A l \in links :
                      /\ Lstat(disk, l) = l /\ ResolvedTarget(disk, l) \in OfKind(disk, "dir")
                      /\ ResolvedTarget(disk, l) \notin DOMAIN new \ OfKind(new, "dir")
        apart == \A f \in OfKind(new, "file") : \A l \in DOMAIN new \ {f} : Lstat(disk, f) # Lstat(disk, l)
    IN straight /\ apart =>
         /\ result.ok
         /\ OfKind(result.cs, "dir") \cap OfKind(disk, "link") = {}
         /\ OfKind(result.cs, "file") = {Lstat(disk, f) : f \in OfKind(new, "file")}
===============================================================================
