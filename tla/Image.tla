------------------------------- MODULE Image -------------------------------
(***************************************************************************)
(* The install helpers of ebuild/ebd_ipc.py: what doins, dodoc, dobin,     *)
(* doman, domo, dohtml, dodir, keepdir, dosym, dohard, eapply and          *)
(* eapply_user do to the image and to the sources when the bash side calls *)
(* them, one after another, on the helper objects of one build             *)
(* (ebd.py:196).  A path is a sequence of names; an image maps paths to    *)
(* files, directories and links.  Not in the model: owners and timestamps, *)
(* permissions that make a system call fail, and hard links inside the     *)
(* image (_is_install_allowed refuses the sources themselves, which are    *)
(* outside the image here).                                                *)
(***************************************************************************)
EXTENDS Sequences, SequencesExt, FiniteSets, TLC
CONSTANTS None,
          Sources,      \* what the build directory holds, path to node
          Pages,        \* man page name to its section, language and name without it
          Html,         \* the names with an extension dohtml takes by default
          HostDirs,     \* directories of the host
          UserPatches,  \* the user's patches, in order
          Broken        \* <<patch, options>> that do not apply

File(data, mode) == [kind |-> "file", data |-> data, mode |-> mode]
Dir(mode) == [kind |-> "dir", data |-> None, mode |-> mode]
Link(to) == [kind |-> "link", data |-> to, mode |-> None]
Base(path) == path[Len(path)]
Up(path) == SubSeq(path, 1, Len(path) - 1)
At(img, path) == IF path \in DOMAIN img THEN img[path] ELSE IF path = <<>> THEN Dir(None) ELSE [kind |-> "none", data |-> None, mode |-> None]
IsDir(img, path) == At(img, path).kind = "dir"
SourceDirs == {p \in DOMAIN Sources : Sources[p].kind = "dir"}
In(d) == {p \in DOMAIN Sources : Len(p) = Len(d) + 1 /\ Up(p) = d}
Put(img, path, node) == (path :> node) @@ img
-----------------------------------------------------------------------------
(* The helpers of one build.  Each installs through four coroutines, which *)
(* end for good when an exception leaves them; install and install_dirs    *)
(* are replaced, for good, once an option is not understood.               *)
Coroutines == {"install", "install_dirs", "install_symlinks", "install_from_dirs"}
NewHelper == [alive |-> Coroutines, install |-> "own", dirs |-> "own"]
Helpers == {"doins", "dodoc", "dohtml", "doinfo", "dodir", "doexe", "dobin", "dolib", "doman", "domo", "dosym", "dohard", "keepdir"}
NewBuild == [img |-> <<>>, helper |-> [h \in Helpers |-> NewHelper], err |-> "none",
             applied |-> <<>>, opts |-> None, marked |-> FALSE]

(* Options as install takes them: none at all, or a mode (755 if there is  *)
(* none among them), known or not.  Every constructor sets the defaults of *)
(* the one parser they all share, and keepdir's is the last.               *)
NoOptions == [given |-> FALSE, mode |-> None, known |-> TRUE]
Options(mode, known) == [given |-> TRUE, mode |-> mode, known |-> known]
Default == [insoptions |-> NoOptions, diroptions |-> Options("0755", TRUE)]
Insoptions(call) ==
    IF call.helper = "dobin" THEN Options("0755", TRUE) ELSE IF call.insoptions = None THEN Default.insoptions ELSE call.insoptions
Diroptions(call) == IF call.diroptions = None THEN Default.diroptions ELSE call.diroptions
ModeOf(o, otherwise) == IF ~o.given THEN otherwise ELSE IF o.mode = None THEN "0755" ELSE o.mode

ParseInstallOptions(st, call) ==
    LET h == call.helper
        fell == [st EXCEPT !.helper[h].install = IF Insoptions(call).known THEN @ ELSE "cmd",
                           !.helper[h].dirs = IF Diroptions(call).known THEN @ ELSE "cmd"]
    IN [fell EXCEPT !.helper[h].alive = @ \cup (IF Insoptions(call).known THEN {} ELSE {"install"})
                                          \cup (IF Diroptions(call).known THEN {} ELSE {"install_dirs"})]

(* IpcCommandError, and what an exception does to the coroutine it leaves. *)
Fail(st) == [st EXCEPT !.err = "command"]
InOrder(st, seq, Do(_, _)) == FoldLeft(LAMBDA s, t : IF s.err = "none" THEN Do(s, t) ELSE s, st, seq)
Send(st, h, coroutine, result) ==
    IF st.err # "none" THEN st
    ELSE IF coroutine \notin st.helper[h].alive THEN [st EXCEPT !.err = "internal"]
    ELSE IF result.err = "none" THEN result ELSE [result EXCEPT !.helper[h].alive = @ \ {coroutine}]

-----------------------------------------------------------------------------
(* os.makedirs(exist_ok=True), then the options on the last directory.     *)
MakeDirs(st, path, mode) ==
    LET ups == {SubSeq(path, 1, n) : n \in 1..Len(path)}
    IN IF \E p \in ups : At(st.img, p).kind \in {"file", "link"} THEN Fail(st)
       ELSE [st EXCEPT !.img = [p \in ups \cup DOMAIN st.img |->
               IF p = path /\ mode # None THEN Dir(mode) ELSE IF p \in DOMAIN st.img THEN st.img[p] ELSE Dir("umask")]]

InstallDirs(st, call, dirs) ==
    LET o == Diroptions(call)
        \* install -d gives a directory that is there its mode too
        mode == IF st.helper[call.helper].dirs = "cmd" THEN ModeOf(o, "0755") ELSE ModeOf(o, None)
    IN Send(st, call.helper, "install_dirs", InOrder(st, dirs, LAMBDA t, d : MakeDirs(t, call.dest \o d, mode)))

(* files are <<source, destination>> pairs. *)
Symlink(st, pair) ==
    IF At(st.img, pair[2]).kind # "none" \/ ~IsDir(st.img, Up(pair[2])) THEN Fail(st)
    ELSE [st EXCEPT !.img = Put(@, pair[2], Sources[pair[1]])]
Prefixed(call, files) == [i \in DOMAIN files |-> <<files[i][1], call.dest \o files[i][2]>>]
InstallSymlinks(st, call, links) ==
    Send(st, call.helper, "install_symlinks", InOrder(st, Prefixed(call, links), Symlink))

(* The mutant: what stands at the destination, a directory too, is removed. *)
CopyFileOver(st, pair, o) ==
    LET src == Sources[pair[1]]
    IN IF (src.kind = "link" /\ src.data \notin DOMAIN Sources) \/ src.kind = "dir" \/ ~IsDir(st.img, Up(pair[2])) THEN Fail(st)
       ELSE [st EXCEPT !.img = Put(@, pair[2], IF src.kind = "link" THEN src ELSE File(src.data, ModeOf(o, "umask")))]
CopyFile(st, pair, o) ==
    LET src == Sources[pair[1]]
    IN IF src.kind = "link" /\ src.data \notin DOMAIN Sources THEN Fail(st)      \* os.stat follows it
       ELSE IF src.kind = "dir" \/ IsDir(st.img, pair[2]) \/ ~IsDir(st.img, Up(pair[2])) THEN Fail(st)
       ELSE [st EXCEPT !.img = Put(@, pair[2], IF src.kind = "link" THEN src ELSE File(src.data, ModeOf(o, "umask")))]

(* The install command: into a directory that stands at the destination,   *)
(* and with several sources for one destination into nothing else.         *)
RunInstall(st, sources, dest, o) ==
    LET into == IsDir(st.img, dest)
    IN IF ~into /\ (Len(sources) > 1 \/ ~IsDir(st.img, Up(dest))) THEN Fail(st)
       ELSE InOrder(st, sources, LAMBDA s, f :
              LET path == IF into THEN Append(dest, Base(f)) ELSE dest
              IN IF Sources[f].kind = "dir" \/ IsDir(s.img, path) THEN Fail(s)
                 ELSE [s EXCEPT !.img = Put(@, path, File(Sources[f].data, ModeOf(o, "0755")))])
InstallCmd(st, call, files) ==
    LET plain == Prefixed(call, SelectSeq(files, LAMBDA f : Sources[f[1]].kind # "link"))
        dests == FoldLeft(LAMBDA a, f : IF \E i \in DOMAIN a : a[i] = f[2] THEN a ELSE Append(a, f[2]), <<>>, plain)
        SourcesOf(d) == LET of == SelectSeq(plain, LAMBDA f : f[2] = d) IN [i \in DOMAIN of |-> of[i][1]]
        linked == InstallSymlinks(st, call, SelectSeq(files, LAMBDA f : Sources[f[1]].kind = "link"))
    IN InOrder(linked, dests, LAMBDA s, d : RunInstall(s, SourcesOf(d), d, Insoptions(call)))

Install(st, call, files) ==
    Send(st, call.helper, "install",
        IF st.helper[call.helper].install = "cmd" THEN InstallCmd(st, call, files)
        ELSE InOrder(st, Prefixed(call, files), LAMBDA t, p : CopyFile(t, p, Insoptions(call))))

(* os.walk, top down; the order among siblings is the file system's own.   *)
Below(d) == {p \in DOMAIN Sources : IsStrictPrefix(d, p)}
Top(d) == IF Sources[d].kind = "link" THEN Sources[d].data ELSE d      \* os.walk follows the top itself
WalkOf(d) ==
    LET dirs == {d} \cup (Below(d) \cap SourceDirs)
    IN SetToSortSeq(dirs, LAMBDA p, q : Len(p) < Len(q))
InstallFromDirs(st, call, dirs) ==
    Send(st, call.helper, "install_from_dirs", InOrder(st, dirs, LAMBDA s1, d :
        InOrder(s1, WalkOf(Top(d)), LAMBDA s, dirpath :
            LET to == <<Base(d)>> \o SubSeq(dirpath, Len(Top(d)) + 1, Len(dirpath))
                Pairs(names) == [i \in DOMAIN SetToSeq(names) |-> <<SetToSeq(names)[i], Append(to, Base(SetToSeq(names)[i]))>>]
                \* a link to a directory is among dirnames
                dirlinks == {p \in In(dirpath) : Sources[p].kind = "link" /\ Sources[p].data \in SourceDirs}
                filenames == (In(dirpath) \ SourceDirs) \ dirlinks
                made == InstallSymlinks(InstallDirs(s, call, <<to>>), call, Pairs(dirlinks))
            IN IF filenames = {} THEN made ELSE Install(made, call, Pairs(filenames)))))

-----------------------------------------------------------------------------
(* What each helper makes of its targets. *)
Isdir(f) == Sources[f].kind = "dir" \/ (Sources[f].kind = "link" /\ Sources[f].data \in SourceDirs)
Files(targets) == SelectSeq(targets, LAMBDA f : ~Isdir(f))
Dirs(targets) == SelectSeq(targets, Isdir)
ByName(targets) == [i \in DOMAIN targets |-> <<targets[i], <<Base(targets[i])>>>>]

Doins(st, call) ==
    Install(IF call.recursive THEN InstallFromDirs(st, call, Dirs(call.targets)) ELSE st, call, ByName(Files(call.targets)))
Dodoc(st, call, allowed) ==
    LET dirs == Dirs(call.targets)
    IN IF dirs # <<>> /\ ~(call.recursive /\ allowed) THEN Fail(st)
       ELSE Install(IF dirs = <<>> THEN st ELSE InstallFromDirs(st, call, dirs), call, ByName(Files(call.targets)))
Dohtml(st, call) ==
    LET dirs == Dirs(call.targets)
        kept == SelectSeq(dirs, LAMBDA d : d \notin call.excluded)
        taken == SelectSeq(Files(call.targets), LAMBDA f : Base(f) \in Html)
    IN IF dirs # <<>> /\ ~call.recursive THEN Fail(st)
       ELSE Install(IF dirs = <<>> THEN st ELSE InstallFromDirs(st, call, kept), call, ByName(taken))

ManDest(call, f, detect, override) ==
    LET page == Pages[Base(f)]
    IN IF override /\ call.i18n # None THEN <<call.i18n, page.section, Base(f)>>
       ELSE IF detect /\ page.lang # None THEN <<page.lang, page.section, page.bare>>
       ELSE <<page.section, Base(f)>>
Doman(st, call, detect, override) ==
    InOrder(st, call.targets, LAMBDA s, f :
        LET dest == ManDest(call, f, detect, override)
        IN IF Pages[Base(f)].section = None THEN Fail(s)
           ELSE Install(InstallDirs(s, call, <<Up(dest)>>), call, <<<<f, dest>>>>))
Domo(st, call) ==
    InOrder(st, call.targets, LAMBDA s, f :
        LET dest == <<Pages[Base(f)].bare, "LC_MESSAGES", "pn.mo">>
        IN Install(InstallDirs(s, call, <<Up(dest)>>), call, <<<<f, dest>>>>))
Dodir(st, call) == InstallDirs(st, call, call.targets)
Keepdir(st, call) ==
    InOrder(Dodir(st, call), call.targets, LAMBDA s, d : [s EXCEPT !.img = Put(@, Append(d, ".keep"), File(".keep", "umask"))])

(* dosym and dohard: <<source, target>>; the target is looked up on the    *)
(* host, the link is made in the image.                                    *)
MakeLink(st, target, node) ==
    IF IsDir(st.img, target) \/ ~IsDir(st.img, Up(target)) THEN Fail(st) ELSE [st EXCEPT !.img = Put(@, target, node)]
LinkRun(st, call, symbolic) ==
    LET target == call.targets[2]
        made == IF Len(target) > 1 THEN InstallDirs(st, call, <<Up(target)>>) ELSE st
        node == IF symbolic THEN Link(call.targets[1]) ELSE At(made.img, call.targets[1])
    IN IF made.err # "none" THEN made ELSE IF node.kind \in {"file", "link"} THEN MakeLink(made, target, node) ELSE Fail(made)
Dosym(st, call) == IF call.targets[2] \in HostDirs THEN Fail(st) ELSE LinkRun(st, call, TRUE)
Dohard(st, call) == LinkRun(st, call, FALSE)

-----------------------------------------------------------------------------
(* eapply keeps the options of its last call, and eapply_user uses them.   *)
Apply(st, patches) ==
    InOrder(st, patches, LAMBDA s, p : IF <<p, s.opts>> \in Broken THEN Fail(s) ELSE [s EXCEPT !.applied = Append(@, <<p, s.opts>>)])
Eapply(st, call) == Apply([st EXCEPT !.opts = call.options], call.targets)
EapplyUser(st) ==      \* src_prepare.bash:4 returns when the marker is there
    IF st.marked THEN st
    ELSE LET s == Apply(st, UserPatches) IN IF s.err = "none" THEN [s EXCEPT !.marked = TRUE] ELSE s

-----------------------------------------------------------------------------
(* A call: the options are parsed, the destination is made, the targets    *)
(* are installed; a failure the caller tolerates is only reported, any     *)
(* other one, and an exception nobody expected, ends the build.            *)
ParseArgs(st, call) ==
    LET targets == {call.targets[i] : i \in DOMAIN call.targets}
    IN IF call.helper \notin {"dodir", "keepdir", "dosym", "dohard"} /\ ~(targets \subseteq DOMAIN Sources) THEN Fail(st)
       ELSE ParseInstallOptions(st, call)
InstallTargets(st, call, eapi) ==
    IF st.err # "none" THEN st
    ELSE CASE call.helper = "doins" -> Doins(st, call)
           [] call.helper = "dodoc" -> Dodoc(st, call, eapi.dodoc_allow_recursive)
           [] call.helper = "dohtml" -> Dohtml(st, call)
           [] call.helper = "doman" -> Doman(st, call, eapi.doman_language_detect, eapi.doman_language_override)
           [] call.helper = "domo" -> Domo(st, call)
           [] call.helper = "dodir" -> Dodir(st, call)
           [] call.helper = "keepdir" -> Keepdir(st, call)
           [] call.helper = "dosym" -> Dosym(st, call)
           [] call.helper = "dohard" -> Dohard(st, call)
           [] OTHER -> Install(st, call, ByName(call.targets))
Ready(st, call) ==
    IF call.helper \in {"dodir", "keepdir", "dosym", "dohard"} \/ st.err # "none" THEN st ELSE MakeDirs(st, call.dest, None)
Run(st, call, eapi) == InstallTargets(Ready(ParseArgs(st, call), call), call, eapi)
Call(st, call, eapi) ==
    LET s == IF call.helper = "eapply" THEN Eapply(st, call) ELSE IF call.helper = "eapply_user" THEN EapplyUser(st) ELSE Run(st, call, eapi)
    IN IF s.err = "command" /\ call.nonfatal THEN [s EXCEPT !.err = "none"] ELSE s

-----------------------------------------------------------------------------
(* What a call is asked for: destination to node, from the targets alone.  *)
Asked(call, eapi) ==
    LET files == {f \in Range(call.targets) \cap DOMAIN Sources : ~Isdir(f)}
        recursive == call.recursive /\ (call.helper # "dodoc" \/ eapi.dodoc_allow_recursive)
        dirs == IF recursive THEN {d \in Range(call.targets) \cap DOMAIN Sources : Isdir(d)} \ call.excluded ELSE {}
        To(f) == IF call.helper = "doman" THEN {ManDest(call, f, eapi.doman_language_detect, eapi.doman_language_override)}
                 ELSE IF call.helper = "domo" THEN {<<Pages[Base(f)].bare, "LC_MESSAGES", "pn.mo">>}
                 ELSE IF call.helper = "dohtml" /\ Base(f) \notin Html THEN {} ELSE {<<Base(f)>>}
        NodeOf(f) == IF Sources[f].kind = "link" THEN Sources[f]
                     ELSE IF Sources[f].kind = "dir" THEN Dir(ModeOf(Diroptions(call), "umask"))
                     ELSE File(Sources[f].data, ModeOf(Insoptions(call), "umask"))
    IN CASE call.helper \in {"dodir", "keepdir"} ->
              {<<d, Dir(ModeOf(Diroptions(call), "umask"))>> : d \in Range(call.targets)}
              \cup IF call.helper = "dodir" THEN {} ELSE {<<Append(d, ".keep"), File(".keep", "umask")>> : d \in Range(call.targets)}
         [] call.helper = "dosym" -> {<<call.targets[2], Link(call.targets[1])>>}
         [] call.helper \in {"dohard", "eapply", "eapply_user"} -> {}
         [] OTHER -> {<<call.dest \o t, NodeOf(f)>> : <<f, t>> \in {<<f, t>> \in files \X UNION {To(f) : f \in files} : t \in To(f)}}
                     \cup {<<call.dest \o <<Base(d)>> \o SubSeq(p, Len(Top(d)) + 1, Len(p)), NodeOf(p)>> :
                             <<d, p>> \in {<<d, p>> \in dirs \X DOMAIN Sources : IsPrefix(Top(d), p)}}

Delivered(before, call, s, asked) ==
    LET paths == {a[1] : a \in asked}
        fallback == "cmd" \in {s.helper[call.helper].install, s.helper[call.helper].dirs}
        changed == {p \in DOMAIN s.img : p \notin DOMAIN before.img \/ before.img[p] # s.img[p]}
        single == Cardinality(paths) = Cardinality(asked)
    IN /\ s.err = "none" /\ single =>
            \A a \in asked : \/ At(s.img, a[1]) = a[2]
                             \/ fallback /\ a[1] \in DOMAIN s.img /\ (At(s.img, a[1]).data = a[2].data \/ IsDir(before.img, a[1]))
       /\ DOMAIN before.img \subseteq DOMAIN s.img
       /\ \A p \in changed : \/ p \in paths
                             \/ call.helper = "dohard" /\ p = call.targets[2]
                             \/ IsDir(s.img, p) /\ \E q \in paths \cup {call.dest} \cup (IF call.helper \in {"dosym", "dohard"} THEN {call.targets[2]} ELSE {}) : IsStrictPrefix(p, q) \/ p = q
                             \/ fallback /\ \E q \in paths : q = Up(p)
       \* a coroutine is dead only because it failed
       /\ before.helper[call.helper] \in {NewHelper, ParseInstallOptions(NewBuild, call).helper[call.helper]} => s.err # "internal"
       \* the image stays a tree: whatever is in it lies in directories
       /\ \A p \in DOMAIN s.img : \A n \in 1..Len(p) - 1 : IsDir(s.img, SubSeq(p, 1, n))

(* A call that reports success has installed everything it was asked for,  *)
(* with its mode, and a call that fails, tolerated or not, has put nothing *)
(* in the image but part of that and the directories it needs; the two     *)
(* ways of installing and the coroutines are not to be told apart by it,   *)
(* unless a failed call has ended one or two sources have one destination. *)
OnlyWhatIsAsked(before, call, eapi) == Delivered(before, call, Run(before, call, eapi), Asked(call, eapi))
=============================================================================
