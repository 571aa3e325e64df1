--------------------------------- MODULE Sync ---------------------------------
(***************************************************************************)
(* Bringing a repository up to date (sync/*.py): which syncer an address   *)
(* or a checkout gets, and what the http, tar and rsync syncers do to the  *)
(* tree, over several runs of which some are broken off.                   *)
(***************************************************************************)
EXTENDS Integers, Sequences, SequencesExt, FiniteSets, FiniteSetsExt

CONSTANT None

-----------------------------------------------------------------------------
(* An address is the names joined by "+" before its "://" (before "@" for  *)
(* git@), and whether its end is one of .git or an archive's.              *)

LoadOrder == <<"bzr", "cvs", "darcs", "git", "git_svn", "hg", "sqfs", "svn", "tar">>
Http == {"http", "https"}
Begins(uri, name) == uri.names[1] = name /\ Len(uri.names) > 1
Bare(uri, name) == uri.names = <<name>>
Archive(uri) == uri.end = "archive"

SupportedUris(s, uri) ==
    CASE s \in {"bzr", "darcs"} -> IF Begins(uri, s) THEN 5 ELSE 0
      [] s \in {"cvs", "svn"} -> IF Begins(uri, s) \/ Bare(uri, s) THEN 5 ELSE 0
      [] s = "git" -> IF Begins(uri, "git") \/ Bare(uri, "git") \/ Bare(uri, "git@") THEN 5 ELSE 0
      [] s = "git_svn" -> IF Begins(uri, "git") /\ uri.names[2] = "svn" THEN 10 ELSE 0
      [] s = "hg" -> IF Begins(uri, "hg") \/ Begins(uri, "mercurial") THEN 5 ELSE 0
      [] OTHER -> IF uri.names \in {<<s, h>> : h \in Http} THEN 5 ELSE 0
SupportsUri(s, uri) ==
    IF SupportedUris(s, uri) > 0 THEN SupportedUris(s, uri)
    ELSE IF s = "git" /\ uri.names[1] \in Http /\ Len(uri.names) = 1 /\ uri.end = "git" THEN 1
    ELSE IF s = "tar" /\ uri.names[1] \in Http /\ Len(uri.names) = 1 /\ Archive(uri) THEN 1
    ELSE 0

\* What the syncer makes of the address; "" after a "+" is an address that lacks the name there.
ParseUri(s, uri) ==
    LET rest == [uri EXCEPT !.names = Tail(@)]
        bad == [uri EXCEPT !.names = <<>>]
    IN CASE s = "git" -> IF Begins(uri, "git") THEN IF uri.names[2] = "" THEN bad ELSE rest
                         ELSE IF Bare(uri, "git") \/ (uri.end = "git" /\ uri.names[1] \in Http \cup {"git@"}) THEN uri ELSE bad
         [] s = "git_svn" -> IF ~Begins(uri, "git") \/ uri.names[2] # "svn" THEN bad
                             ELSE IF Len(uri.names) = 2 THEN rest
                             ELSE IF uri.names[3] = "" THEN bad ELSE [rest EXCEPT !.names = Tail(@)]
         [] s = "svn" -> IF Bare(uri, "svn") THEN uri
                         ELSE IF uri.names \in {<<h, "svn">> : h \in Http} THEN uri
                         ELSE IF Begins(uri, "svn") /\ uri.names[2] # "" THEN rest ELSE bad
         [] s = "cvs" -> IF Bare(uri, "cvs") \/ (Begins(uri, "cvs") /\ uri.names[2] # "") THEN rest ELSE bad
         [] s = "hg" -> IF Begins(uri, "hg") \/ Begins(uri, "mercurial") THEN rest ELSE bad
         [] s = "tar" -> LET plain == IF uri.names \in {<<"tar", h>> : h \in Http} THEN rest ELSE uri
                         IN IF plain.names \in {<<h>> : h \in Http} /\ Archive(uri) THEN plain ELSE bad
         [] OTHER -> IF Begins(uri, s) /\ (s = "sqfs" => uri.names[2] \in Http) THEN rest ELSE bad
Accepts(s, uri) == (s = "cvs" /\ Bare(uri, "cvs")) \/ ParseUri(s, uri).names # <<>>

\* The last of those with the highest level: sort is stable.
GenericSyncer(uri, enabled) ==
    LET levels == {i \in DOMAIN LoadOrder : LoadOrder[i] \in enabled}
        level(i) == SupportsUri(LoadOrder[i], uri)
        best == {i \in levels : \A j \in levels : level(j) <= level(i)}
    IN IF levels = {} \/ level(Max(best)) <= 0 THEN "UriError"
       ELSE IF Accepts(LoadOrder[Max(best)], uri) THEN LoadOrder[Max(best)] ELSE "UriError"

\* What of a checkout is there: .bzr and .svn only count if their own tool finds an address.
IsUsableOnFilepath(s, marks) ==
    CASE s = "git" -> ".git" \in marks /\ ".git/svn" \notin marks
      [] s = "git_svn" -> ".git/svn" \in marks
      [] s = "cvs" -> "CVS" \in marks
      [] s = "hg" -> ".hg" \in marks
      [] s \in {"bzr", "svn"} -> "." \o s \in marks /\ "info " \o s \in marks
      [] OTHER -> FALSE
AutodetectSyncer(marks, enabled) ==
    LET usable == {i \in DOMAIN LoadOrder : LoadOrder[i] \in enabled /\ IsUsableOnFilepath(LoadOrder[i], marks)}
    IN IF usable = {} THEN "disabled" ELSE LoadOrder[Min(usable)]

\* VcsSyncer._sync: a first pull where nothing is.
VcsSync(path, exit) ==
    IF path = "file" THEN [cmd |-> "none", ret |-> "error"]
    ELSE [cmd |-> IF path = None THEN "pull" ELSE "update", ret |-> IF exit = 0 THEN "true" ELSE "false"]

\* What no sync can be: an address somebody can handle is given to one who cannot, a checkout
\* is brought up to date by another tool than made it (sync/base.py:285-310).
ChoiceAgrees(uri, marks, enabled) ==
    LET claims == {s \in enabled : SupportsUri(s, uri) > 0}
        chosen == GenericSyncer(uri, enabled)
        found == AutodetectSyncer(marks, enabled)
    IN /\ chosen = "UriError" <=> \A s \in claims : ~Accepts(s, uri)
       /\ chosen # "UriError" => \A s \in claims : Accepts(s, uri) => SupportsUri(s, uri) < SupportsUri(chosen, uri) \/ s = chosen
       /\ chosen = "git" => ~(Begins(uri, "git") /\ uri.names[2] = "svn")
       /\ found = "git" => ".git/svn" \notin marks
       /\ found = "disabled" <=> \A s \in enabled : ~IsUsableOnFilepath(s, marks)

-----------------------------------------------------------------------------
(* http_syncer and tar_syncer: the tree with the tags kept in it, and the  *)
(* directories beside it that a tarball is unpacked to.                    *)

Tree(content) == [content |-> content, etag |-> None, modified |-> None]
Empty == Tree("empty")
\* What is at the other end: tags, and whether the connection breaks before the end.
AtExit(w) == [w EXCEPT !.update = None, !.old = None]

Unchanged(w, server, force) ==
    /\ ~force /\ w.repo # None
    /\ \/ server.etag # None /\ server.etag = w.repo.etag
       \/ server.modified # None /\ server.modified = w.repo.modified

MakeBasedir(w, server) == [err |-> FALSE, w |-> IF w.repo = None THEN [w EXCEPT !.repo = Empty] ELSE w]
MakeUpdate(w, server) == [err |-> w.update # None, w |-> IF w.update = None THEN [w EXCEPT !.update = Empty] ELSE w]
MakeOld(w, server) == [err |-> w.old # None, w |-> IF w.old = None THEN [w EXCEPT !.old = Empty] ELSE w]
UnpackTarball(w, server) ==
    [err |-> server.cut, w |-> [w EXCEPT !.update = Tree(IF server.cut THEN "partial" ELSE server.content)]]
MoveOld(w, server) == [err |-> FALSE, w |-> [w EXCEPT !.old = w.repo, !.repo = None]]
MoveNew(w, server) == [err |-> FALSE, w |-> [w EXCEPT !.repo = w.update, !.update = None]]
\* Read until nothing comes: an answer cut short is not told from a whole one.
CloseDownload(w, server) == [err |-> FALSE, w |-> [w EXCEPT !.repo.content = IF server.cut THEN "partial" ELSE server.content]]
WriteEtag(w, server) == [err |-> FALSE, w |-> IF server.etag # None THEN [w EXCEPT !.repo.etag = server.etag] ELSE w]
WriteModified(w, server) == [err |-> FALSE, w |-> IF server.modified # None THEN [w EXCEPT !.repo.modified = server.modified] ELSE w]

TarSteps == 8
TarStep(i, w, server) ==
    CASE i = 1 -> MakeBasedir(w, server) [] i = 2 -> MakeUpdate(w, server) [] i = 3 -> MakeOld(w, server)
      [] i = 4 -> UnpackTarball(w, server) [] i = 5 -> MoveOld(w, server) [] i = 6 -> MoveNew(w, server)
      [] i = 7 -> WriteEtag(w, server) [] i = 8 -> WriteModified(w, server)
HttpStep(i, w, server) ==
    CASE i = 1 -> MakeBasedir(w, server) [] i = 2 -> CloseDownload(w, server)
      [] i = 7 -> WriteEtag(w, server) [] i = 8 -> WriteModified(w, server)
      [] OTHER -> [err |-> FALSE, w |-> w]

\* The run is over after step "at", by a kill or because the step after it fails.
HttpSync(w, server, force, tar, at, killed) ==
    LET step(i, v) == IF tar THEN TarStep(i, v, server) ELSE HttpStep(i, v, server)
        after[i \in 0..TarSteps] ==
            IF i = 0 THEN [err |-> FALSE, w |-> w] ELSE IF after[i - 1].err THEN after[i - 1] ELSE step(i, after[i - 1].w)
        end == after[at]
        left(v) == IF tar /\ ~killed THEN AtExit(v) ELSE v
    IN IF ~killed /\ at < TarSteps /\ at = 0 THEN [ret |-> "error", w |-> left(w)]
       ELSE IF Unchanged(w, server, force) THEN [ret |-> IF killed THEN "killed" ELSE "true", w |-> left(w)]
       ELSE [ret |-> IF killed THEN "killed" ELSE IF end.err \/ at < TarSteps THEN "error" ELSE "true", w |-> left(end.w)]

\* What a run promises, wherever the runs before it ended (sync/http.py:29-119, tar.py:43-98):
\* that it went well means the tree is the server's, whatever had been left by then; that it
\* failed or was killed at a tarball leaves a whole tree, but between the two renames; and
\* two runs nobody disturbs are enough after anything.  Apart: a single file from a server
\* whose answer was cut short, which is not told from a whole one, or that went back to an
\* older file (steady).
HttpAgrees(runs, tar) ==
    LET none == [repo |-> None, update |-> None, old |-> None]
        did[i \in 0..Len(runs)] ==
            IF i = 0 THEN [ret |-> "true", w |-> none]
            ELSE LET r == runs[i] IN HttpSync(did[i - 1].w, r.server, r.force, tar, r.at, r.killed)
        whole(w) == w.repo # None /\ w.repo.content \notin {"empty", "partial"}
        steady == tar \/ \A i \in DOMAIN runs : ~runs[i].server.cut /\ \A j \in DOMAIN runs : j > i => runs[i].server.stamp <= runs[j].server.stamp
        undisturbed(i) == runs[i].at = TarSteps /\ ~runs[i].killed /\ ~runs[i].server.cut
    IN steady => \A i \in DOMAIN runs :
        /\ did[i].ret = "true" => did[i].w.repo.content = runs[i].server.content
        /\ whole(did[i - 1].w) /\ (tar => runs[i].at # 5 \/ Unchanged(did[i - 1].w, runs[i].server, runs[i].force)) => whole(did[i].w)
        /\ i > 1 /\ undisturbed(i) /\ undisturbed(i - 1) => did[i].ret = "true"

-----------------------------------------------------------------------------
(* rsync_syncer and rsync_timestamp_syncer.  rsync itself changes the tree *)
(* in place: one that fails may leave a mixture, with either timestamp.    *)

Forward == 25
Negative == 60
Mixed(disk, server) == [content : {"mixed"}, stamp : {disk.stamp, server.stamp}]

\* One address after the other; the exit statuses 0, 1 and 11 end it.
RsyncSync(disk, server, exits, retries) ==
    LET tried == SubSeq(exits, 1, IF Len(exits) < retries THEN Len(exits) ELSE retries)
        final == {i \in DOMAIN tried : tried[i] \in {0, 1, 11}}
        wrote == {i \in DOMAIN tried : tried[i] # 1 /\ (final = {} \/ i <= Min(final))} # {}
    IN IF final # {} /\ tried[Min(final)] = 0 THEN {[ret |-> "true", disk |-> server]}
       ELSE {[ret |-> "error", disk |-> d] : d \in {disk} \cup IF wrote THEN Mixed(disk, server) ELSE {}}

\* Timestamps are UTC as text, in minutes, and read as if they were local time (mktime): east
\* of it by the zone, too early by it.
CurrentTimestamp(stamp, zone) == IF stamp = None THEN None ELSE stamp - zone
\* Put back what was read before, if the last answer got was no; this time as UTC (gmtime).
Restored(disk, last) == [disk EXCEPT !.stamp = last]
Due(stamp, last) == IF stamp - last >= 0 THEN stamp - last > Forward ELSE last - stamp > Negative

\* The timestamp is looked at first, and its fetch is the answer until the tree's own comes:
\* that one raises or is yes, so after a look that went well nothing is put back.
TimestampSync(disk, server, look, exits, force, zone) ==
    LET last == CurrentTimestamp(disk.stamp, zone)
        doit == force \/ last = None
        looked == RsyncSync(disk, disk, look, 5)
        main == RsyncSync(disk, server, exits, 5)
        run(restore) == {[ret |-> o.ret,
                          disk |-> IF o.ret # "true" /\ restore THEN Restored(o.disk, last) ELSE o.disk] : o \in main}
    IN IF doit THEN run(TRUE)
       ELSE IF \E o \in looked : o.ret # "true" THEN {[ret |-> "error", disk |-> Restored(disk, last)]}
       ELSE IF server.stamp = None THEN {[ret |-> "type", disk |-> disk]}
       ELSE IF ~Due(CurrentTimestamp(server.stamp, zone), last) THEN {[ret |-> "true", disk |-> disk]}
       ELSE run(FALSE)

\* A tree that failed halfway does not pass for the newer one (rsync.py:230-246): its
\* timestamp is the old one again, so a server that went on since by more than the delay is
\* asked for all of it; and what passes for up to date is at most that old, or from a mirror
\* ahead by less than an hour.  Apart: a run that was not forced and whose look at the
\* timestamp went well leaves the new timestamp over what it had got, if rsync has written
\* it; and what is put back is off by the zone, so that west of UTC a server may be ahead by
\* as much more.
TimestampAgrees(first, second, exits, third, look, force, zone) ==
    LET start == [content |-> first.content, stamp |-> first.stamp]
        west == IF zone < 0 THEN -zone ELSE 0
        overtaken(disk) == ~force /\ disk.stamp = second.stamp
    IN \A failed \in TimestampSync(start, second, look, exits, force, zone) :
        \A end \in TimestampSync(failed.disk, third, look, <<0>>, FALSE, zone) :
            /\ failed.ret # "true" =>
                 \/ failed.disk.stamp = start.stamp - zone
                 \/ ~force /\ failed.disk.stamp \in {start.stamp, second.stamp}
            /\ failed.ret = "true" => failed.disk = second \/ (~force /\ failed.disk = start)
            /\ end.ret = "true" /\ end.disk # third =>
                 end.disk = failed.disk /\ third.stamp - end.disk.stamp \in -Negative..Forward
            /\ failed.ret # "true" /\ ~overtaken(failed.disk) /\ end.ret = "true"
                 /\ third.stamp # None /\ third.stamp > start.stamp + Forward + west => end.disk = third

-----------------------------------------------------------------------------
(* SquashfsRepoConfig around a sync, and pmaint sync over repositories.    *)

Mount(tools) ==
    IF ~tools.unshare THEN "init"
    ELSE IF tools.mount = 0 THEN "ok"
    ELSE IF tools.mount \notin {1, 32} THEN "init"
    ELSE CASE tools.fuse = None -> "init" [] tools.fuse = 0 -> "ok" [] tools.fuse = 1 -> "denied" [] OTHER -> "init"
Umount(tools) ==
    CASE tools.umount = "ok" -> "ok" [] tools.umount = "other" -> "init"
      [] tools.fusermount = None -> "init" [] tools.fusermount = 0 -> "ok" [] tools.fusermount = 1 -> "denied" [] OTHER -> "init"

\* _cmd_api_sync: what comes after the sync comes only if nothing was raised.
RepoSync(mounted, archive, tools, ret) ==
    LET pre == IF mounted THEN Umount(tools) ELSE "ok"
        still == mounted /\ pre # "ok"
        post == IF archive THEN Mount(tools) ELSE "ok"
    IN IF pre = "denied" THEN [ret |-> "denied", mounted |-> TRUE]
       ELSE IF ret \notin {"true", "false"} THEN [ret |-> ret, mounted |-> still]
       ELSE [ret |-> IF post = "ok" THEN ret ELSE post, mounted |-> still \/ (archive /\ post = "ok")]

\* An error of another kind than its own ends it, what is left of the list with it.
SyncMain(rets) ==
    LET supported == SelectSeq(rets, LAMBDA r : r # "unsupported")
        raised == SelectInSeq(supported, LAMBDA r : r = "other")
        done == IF raised = 0 THEN supported ELSE SubSeq(supported, 1, raised - 1)
        failed == SelectSeq(done, LAMBDA r : r # "true")
    IN [code |-> IF raised # 0 THEN "raised" ELSE IF failed # <<>> THEN "1" ELSE "0", synced |-> Len(done) - Len(failed)]

\* A sync that says it went well leaves the archive that came mounted, and pmaint's success
\* means every repository's (operations/repo.py:140-146, scripts/pmaint.py:79-127).
ReposAgree(mounted, archive, tools, rets) ==
    /\ RepoSync(mounted, archive, tools, rets[1]).ret = "true" /\ archive => RepoSync(mounted, archive, tools, rets[1]).mounted
    /\ LET s == SyncMain(rets) IN s.code = "0" => s.synced = Cardinality({i \in DOMAIN rets : rets[i] # "unsupported"})
=============================================================================
