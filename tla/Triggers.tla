------------------------------- MODULE Triggers -------------------------------
(***************************************************************************)
(* The triggers of the merge engine that are about more than one file or   *)
(* more than one hook (merge/triggers.py): what watches directories by     *)
(* their times and brings their index up to date, what corrects owners and *)
(* modes, and what splits the debugging data off the files of a package.   *)
(***************************************************************************)
EXTENDS Naturals, Sequences, SequencesExt, FiniteSets, TLC

-----------------------------------------------------------------------------
(* Directories: those there are, each [mtime, files, index, indexed]: when *)
(* it was last changed, what is in it, whether it has an index, and what   *)
(* that was made from.                                                     *)

\* What was changed in the last seconds is put back, so that what is changed from now on can
\* be told from it.
SetState(disk, now) ==
    LET past == IF now > 2 THEN now - 2 ELSE 0 IN
    [l \in DOMAIN disk |-> [disk[l] EXCEPT !.mtime = IF @ > past THEN past ELSE @]]
GetChanges(disk, saved) == {l \in DOMAIN disk : l \notin DOMAIN saved \/ saved[l].mtime # disk[l].mtime}

Regen(d, now) == [d EXCEPT !.mtime = now, !.index = d.files # {}, !.indexed = d.files]

\* InfoRegen: st is [disk, saved].
InfoRegen(st, phase, mode, now) ==
    IF phase \in {"pre_merge", "pre_unmerge"} THEN [disk |-> SetState(st.disk, now), saved |-> SetState(st.disk, now)]
    ELSE IF phase = "post_merge" /\ mode = "replace" THEN st
    ELSE LET regens == GetChanges(st.disk, st.saved) \cup {l \in DOMAIN st.disk : ~st.disk[l].index} IN
         [st EXCEPT !.disk = [l \in DOMAIN @ |-> IF l \in regens THEN Regen(@[l], now) ELSE @[l]]]

\* The files: a directory gets the time it has in the package, and a file that is put into it
\* or taken out of it changes that.  One that is left empty goes.
MergeInto(st, new, now) ==
    LET old(l) == IF l \in DOMAIN st.disk THEN st.disk[l] ELSE [mtime |-> now, files |-> {}, index |-> FALSE, indexed |-> {}]
        put(l) == [old(l) EXCEPT !.files = @ \cup new[l].files, !.mtime = IF new[l].files = {} THEN new[l].mtime ELSE now]
    IN [st EXCEPT !.disk = [l \in DOMAIN new |-> put(l)] @@ @]
UnmergeFrom(st, old, new, now) ==
    LET gone(l) == IF l \in DOMAIN new THEN old[l].files \ new[l].files ELSE old[l].files
        take(l) == IF l \in DOMAIN old /\ st.disk[l].files \cap gone(l) # {}
                   THEN [st.disk[l] EXCEPT !.files = @ \ gone(l), !.mtime = now] ELSE st.disk[l]
        empty == {l \in DOMAIN old \ DOMAIN new : take(l).files = {} /\ ~st.disk[l].index}
    IN [st EXCEPT !.disk = [l \in DOMAIN @ \ empty |-> take(l)]]

\* All hooks of an operation, the time at each of the three steps of its halves.
Operation(mode, disk, new, old, t) ==
    LET install(st) == InfoRegen(MergeInto(InfoRegen(st, "pre_merge", mode, t[1]), new, t[2]), "post_merge", mode, t[3])
        remove(st, kept) == InfoRegen(UnmergeFrom(InfoRegen(st, "pre_unmerge", mode, t[3]), old, kept, t[4]), "post_unmerge", mode, t[5])
        start == [disk |-> disk, saved |-> <<>>]
    IN IF mode = "install" THEN install(start)
       ELSE IF mode = "uninstall" THEN remove(start, <<>>)
       ELSE remove(install(start), new)

-----------------------------------------------------------------------------
(* Owners and modes: entries [uid, gid, mode, link], mode a set of bits.   *)

FixUidPerms(e) == IF e.uid = "portage" THEN [e EXCEPT !.uid = "root"] ELSE e
FixGidPerms(e) == IF e.gid = "portage" THEN [e EXCEPT !.gid = "root"] ELSE e
FixSetBits(e) ==
    IF ~e.link /\ e.mode \cap {"setuid", "setgid"} # {} /\ "writable" \in e.mode
    THEN [e EXCEPT !.mode = @ \ {"setuid", "setgid", "writable"}] ELSE e
DetectWorldWritable(e, fix) == IF fix /\ ~e.link THEN [e EXCEPT !.mode = @ \ {"writable"}] ELSE e
FixPerms(e, order, fix) ==
    LET step(x, name) ==
          CASE name = "uid" -> FixUidPerms(x) [] name = "gid" -> FixGidPerms(x)
            [] name = "bits" -> FixSetBits(x) [] name = "writable" -> DetectWorldWritable(x, fix)
    IN FoldLeft(step, e, order)

-----------------------------------------------------------------------------
(* BinaryDebug: files by location, [inode, type].  A location is a         *)
(* sequence of names, and the debugging data of one is kept under <<0>>.   *)

DebugOf(l) == <<0>> \o l
Groups(cset) == {{l \in DOMAIN cset : cset[l].inode = i} : i \in {cset[l].inode : l \in DOMAIN cset} \ {0}}
Worthwhile(type) == type \in {"executable", "module"}

\* One job of those the threads share: the first name's data is split, the others follow.
\* failing: for which objcopy does not do it.
Split(cset, group, first, failing) ==
    IF ~Worthwhile(cset[first].type) \/ first \in failing THEN <<>>
    ELSE [l \in group |-> [cset[l] EXCEPT !.type = "stripped"]]
         @@ [l \in {DebugOf(k) : k \in group} |-> [inode |-> <<cset[first].inode>>, type |-> "debug"]]
SplitFinish(cset, modified) ==
    LET above == UNION {{SubSeq(l, 1, n) : n \in 1..(Len(l) - 1)} : l \in DOMAIN modified} IN
    modified @@ cset @@ [l \in above |-> [inode |-> 0, type |-> "dir"]]
SplitAll(cset, firsts, failing) ==
    LET jobs == {Split(cset, g, CHOOSE l \in firsts : l \in g, failing) : g \in {h \in Groups(cset) : h \cap firsts # {}}}
        locs == UNION {DOMAIN j : j \in jobs}
    IN SplitFinish(cset, [l \in locs |-> (CHOOSE j \in jobs : l \in DOMAIN j)[l]])

-----------------------------------------------------------------------------
\* After an operation every directory that has files has an index made from those it has; in
\* a replacement only if the old version had files there that the new one has not, what was
\* merged being overlooked.
IndexAgrees(mode, disk, new, old, t) ==
    LET after == Operation(mode, disk, new, old, t).disk
        missed == {l \in DOMAIN new : mode = "replace" /\ (l \in DOMAIN old => old[l].files \subseteq new[l].files)}
    IN \A l \in DOMAIN after : after[l].indexed = after[l].files \/ (l \in missed /\ after[l].index)

\* The order in which owners and modes are corrected makes no difference, if writing by all is
\* only reported, and nothing is left with a set bit that all may write.
PermsAgree(e, order, orders) ==
    LET after == FixPerms(e, order, FALSE) IN
    /\ \A o \in orders : FixPerms(e, o, FALSE) = after
    /\ after.uid # "portage" /\ after.gid # "portage"
    /\ ~after.link => ~("writable" \in after.mode /\ after.mode \cap {"setuid", "setgid"} # {})

\* Files that were one stay one, and so do their debugging data, which every file has that was
\* stripped; nothing else of the package is changed.
DebugAgrees(cset, firsts, failing) ==
    LET after == SplitAll(cset, firsts, failing)
        stripped == {l \in DOMAIN cset : after[l].type = "stripped"}
    IN /\ DOMAIN cset \subseteq DOMAIN after
       /\ \A l \in DOMAIN cset \ stripped : after[l] = cset[l]
       /\ \A k \in stripped, l \in DOMAIN cset : cset[k].inode = cset[l].inode => l \in stripped /\ after[k].inode = after[l].inode
       /\ \A k \in stripped : DebugOf(k) \in DOMAIN after /\ after[DebugOf(k)].type = "debug"
       /\ \A k \in stripped, l \in stripped : after[DebugOf(k)].inode = after[DebugOf(l)].inode <=> cset[k].inode = cset[l].inode
       /\ \A l \in DOMAIN after \ DOMAIN cset : Len(l) > 1 => SubSeq(l, 1, Len(l) - 1) \in DOMAIN after
===============================================================================
