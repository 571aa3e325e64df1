------------------------------ MODULE Profiles ------------------------------
(***************************************************************************)
(* USE flags, keywords, licenses and masks (ebuild/misc.py,                *)
(* ebuild/profiles.py, ebuild/domain.py): how what the nodes of a profile  *)
(* and the files of the user say is stacked, compressed and looked up for  *)
(* one package.                                                            *)
(*                                                                         *)
(* A flag is <<group, value>>: group is the USE_EXPAND variable it belongs *)
(* to, or None; value Star is the glob of the group, and Every the glob of   *)
(* all flags.  A token [off, flag] is a flag as it is written.  A chunk    *)
(* [key, neg, pos] is a line: for the packages key matches, turn neg off   *)
(* and pos on.  A key is [name, pkgs, simple]: name is the package it is   *)
(* looked up by, or None; simple, that it asks for no more than the name.  *)
(***************************************************************************)
EXTENDS Naturals, Sequences, SequencesExt, FiniteSets, Folds

CONSTANTS None, Star, Packages, NameOf(_)

Every == <<None, Star>>
AlwaysTrue == [name |-> None, pkgs |-> Packages, simple |-> TRUE]
Simple(name) == [name |-> name, pkgs |-> {p \in Packages : NameOf(p) = name}, simple |-> TRUE]
Chunk(key, neg, pos) == [key |-> key, neg |-> neg, pos |-> pos]
On(flag) == [off |-> FALSE, flag |-> flag]
Off(flag) == [off |-> TRUE, flag |-> flag]

Fold(seq, base, Op(_, _)) == FoldLeft(Op, base, seq)

-----------------------------------------------------------------------------
(* Incremental values (misc.py).                                           *)

\* What is not finalized keeps the tokens that turn off, as themselves.
Expand(tokens, orig, finalize) ==
    Fold(tokens, orig, LAMBDA got, t :
        IF ~t.off THEN (got \ {Off(t.flag)}) \cup {On(t.flag)}
        ELSE (IF t.flag = Every THEN {} ELSE got \ {On(t.flag)}) \cup (IF finalize THEN {} ELSE {t}))

Flags(tokens) == {t.flag : t \in tokens}
IncrementalExpansion(tokens, orig) == Flags(Expand(tokens, {On(f) : f \in orig}, TRUE))

\* From the right: the last word on each flag, up to the last that clears them all.
OptimizeIncrementals(tokens) ==
    LET clears == {i \in DOMAIN tokens : tokens[i] = Off(Every)}
    IN {tokens[i] : i \in {j \in DOMAIN tokens :
            /\ \A k \in clears : j >= k
            /\ \A k \in DOMAIN tokens : k > j => tokens[k].flag # tokens[j].flag}}

\* split_negations.
Neg(tokens) == {t.flag : t \in {u \in tokens : u.off}}
Pos(tokens) == {t.flag : t \in {u \in tokens : ~u.off}}

\* incremental_chunked: of each chunk first all that it turns off, globs of a group included.
ApplyChunk(got, c) ==
    LET groups == {f[1] : f \in {g \in c.neg : g[1] # None /\ g[2] = Star}}
        kept == IF Every \in c.neg THEN {} ELSE {f \in got : f[1] \notin groups}
    IN (kept \ c.neg) \cup c.pos

ApplyChunks(chunks, orig) == Fold(chunks, orig, ApplyChunk)

-----------------------------------------------------------------------------
(* ChunkedDataDict: chunks by the name of the package, each list with the  *)
(* global ones laid through it; those of a name it does not have are the   *)
(* global ones alone.                                                      *)

\* Those that hold for all of the name are traced from the right into one, the last word on
\* each flag; of the others is left what differs from it, and nothing that one of the former
\* which follows settles.
BuildCpAtomPayload(chunks, restrict) ==
    LET whole == {i \in DOMAIN chunks : chunks[i].key = AlwaysTrue \/ chunks[i].key.simple}
        says(i, f) == f \in chunks[i].neg \cup chunks[i].pos
        after(i) == UNION {chunks[j].neg \cup chunks[j].pos : j \in {k \in whole : k > i}}
        locked == after(0)
        last(f) == CHOOSE i \in whole : says(i, f) /\ \A j \in whole : says(j, f) => j <= i
        value(f) == f \in chunks[last(f)].pos /\ f \notin chunks[last(f)].neg
        up == {f \in locked : value(f)}
        down == locked \ up
        delta(i) == Chunk(chunks[i].key, (chunks[i].neg \ after(i)) \ down, (chunks[i].pos \ after(i)) \ up)
        rest == [i \in DOMAIN chunks |-> IF i \in whole THEN Chunk(AlwaysTrue, {}, {}) ELSE delta(i)]
    IN IF Len(chunks) <= 1 THEN chunks
       ELSE (IF locked = {} THEN <<>> ELSE <<Chunk(restrict, down, up)>>)
            \o SelectSeq(rest, LAMBDA c : c.neg \cup c.pos # {})

\* base: what a name starts from when it is first looked up.
EmptyDict == [globals |-> <<>>, at |-> <<>>, base |-> <<>>, fresh |-> TRUE]

Base(d) == IF d.fresh THEN d.globals ELSE d.base
ListOf(d, name) == IF name \in DOMAIN d.at THEN d.at[name] ELSE Base(d)

\* A copy starts all of its lists from the global chunks of the original.
Clone(d) == [d EXCEPT !.at = [n \in DOMAIN @ |-> d.globals \o @[n]], !.base = d.globals, !.fresh = FALSE]

ExpandGlobals(globals, new) ==
    IF new[1].key = AlwaysTrue THEN BuildCpAtomPayload(globals \o new, AlwaysTrue) ELSE globals \o new

AddGlobal(d, c) ==
    IF c.neg \cup c.pos = {} THEN d
    ELSE [d EXCEPT !.at = [n \in DOMAIN d.at |-> Append(d.at[n], c)],
                   !.globals = ExpandGlobals(@, <<c>>)]

AddBareGlobal(d, neg, pos) == AddGlobal(d, Chunk(AlwaysTrue, neg, pos))

\* Mutant of Merge: the other names do not get the global chunks.
MergeNamedOnly(d, with) ==
    LET names == DOMAIN d.at \cup DOMAIN with.at IN
    [d EXCEPT !.at = [n \in names |-> ListOf(d, n) \o (IF n \in DOMAIN with.at THEN with.at[n] ELSE <<>>)],
              !.globals = IF with.globals = <<>> THEN @ ELSE ExpandGlobals(@, with.globals)]

\* The lists merged in have their global chunks already, the other names get them now.
Merge(d, with) ==
    LET names == DOMAIN d.at \cup DOMAIN with.at IN
    [d EXCEPT !.at = [n \in names |-> ListOf(d, n) \o (IF n \in DOMAIN with.at THEN with.at[n] ELSE with.globals)],
              !.globals = IF with.globals = <<>> THEN @ ELSE ExpandGlobals(@, with.globals)]

\* A chunk with a name first brings in the global chunks that its list does not have.
UpdateFromStream(d, stream) ==
    Fold(stream, d, LAMBDA e, c :
        IF c.key.name = None THEN AddGlobal(e, c)
        ELSE LET list == ListOf(e, c.key.name)
                 missing == SelectSeq(e.globals, LAMBDA g : g \notin Range(list))
             IN [e EXCEPT !.at = (c.key.name :> Append(list \o missing, c)) @@ @])

RenderPkg(d, pkg, pre) ==
    LET list == IF NameOf(pkg) \in DOMAIN d.at THEN d.at[NameOf(pkg)] ELSE d.globals
    IN ApplyChunks(SelectSeq(list, LAMBDA c : pkg \in c.key.pkgs), pre)

-----------------------------------------------------------------------------
(* A node of a profile: [use, pkg, stable, pkgStable, gate], a global      *)
(* chunk and a sequence of chunks of packages, and the same for packages   *)
(* that are stable, read if the node's EAPI has such files.                *)

ParseUse(c) == AddGlobal(EmptyDict, c)

\* Lines are grouped by the package they name, each group compressed.
ParsePackageUse(lines) ==
    LET name(i) == lines[i].key.name
        first == SelectSeq([i \in DOMAIN lines |-> i], LAMBDA i : \A j \in 1..i - 1 : name(j) # name(i))
    IN FlattenSeq([i \in DOMAIN first |->
         BuildCpAtomPayload(SelectSeq(lines, LAMBDA c : c.key.name = name(first[i])), Simple(name(first[i])))])

StableLines(node) == IF node.gate THEN ParsePackageUse(node.pkgStable) ELSE <<>>
StableUse(node) == IF node.gate THEN ParseUse(node.stable) ELSE EmptyDict

\* masked_use and forced_use; package.use; and each for packages that are stable.
NodeUse(node) ==
    IF node.pkg = <<>> THEN ParseUse(node.use)
    ELSE UpdateFromStream(Clone(ParseUse(node.use)), ParsePackageUse(node.pkg))
NodeStableUse(node) ==
    UpdateFromStream(Merge(Clone(ParseUse(node.use)), StableUse(node)), ParsePackageUse(node.pkg) \o StableLines(node))
PkgUse(node) == UpdateFromStream(EmptyDict, ParsePackageUse(node.pkg))
PkgStableUse(node) == UpdateFromStream(Merge(Merge(EmptyDict, StableUse(node)), PkgUse(node)), StableLines(node))

\* Depth first, the parents before the node; one that is reached twice is there twice, one
\* that does not exist is passed over.
RECURSIVE StackOf(_, _)
StackOf(tree, n) ==
    LET parents == SelectSeq(tree[n], LAMBDA q : q \in DOMAIN tree)
    IN Append(FlattenSeq([i \in DOMAIN parents |-> StackOf(tree, parents[i])]), n)

CollapseUseDict(dicts) == Fold(dicts, EmptyDict, Merge)

\* Of pairs of what is taken out and put in, and whether all is taken out before.
CollapseGeneric(pairs, clear) ==
    Fold(pairs, {}, LAMBDA got, v : ((IF clear /\ v.wild THEN {} ELSE got) \ v.neg) \cup v.pos)

\* Every node has the tokens of its parents, one parent after the other, and its own.
RECURSIVE EnvOf(_, _, _)
EnvOf(tree, own, n) ==
    LET parents == SelectSeq(tree[n], LAMBDA q : q \in DOMAIN tree)
    IN FlattenSeq([i \in DOMAIN parents |-> EnvOf(tree, own, parents[i])]) \o own[n]

\* Only of USE does the profile keep what is turned off.
Unfinalized == {"USE"}
DefaultEnv(var, tokens) ==
    IF var \in Unfinalized THEN tokens
    ELSE SetToSeq({On(f) : f \in IncrementalExpansion(tokens, {})})

-----------------------------------------------------------------------------
(* The domain.                                                             *)

\* env.d, then the profile, then make.conf; what is turned off is kept of two of them.
Settings(var, system, profile, conf) ==
    LET all == system \o DefaultEnv(var, profile) \o conf IN
    IF var \in {"USE", "ACCEPT_LICENSE"} THEN all ELSE SetToSeq({On(f) : f \in IncrementalExpansion(all, {})})

EnabledUse(use, profile, user) ==
    UpdateFromStream(Merge(AddBareGlobal(EmptyDict, Neg(use), Pos(use)), profile), user)

ForcedUse(profile, arch) == AddBareGlobal(Merge(EmptyDict, profile), {}, {arch})

\* package_use_splitter: what follows the name of a group is of the group, and "-*" stands
\* for its glob, before it for all flags; either drops what was said before it.
UseSplitter(items) ==
    LET step(st, t) ==
          IF t.group # None THEN [group |-> t.group, out |-> st.out \o st.buffer, buffer |-> <<>>]
          ELSE IF st.group = None
            THEN [st EXCEPT !.buffer = Append(IF t.off /\ t.flag = Every THEN <<>> ELSE @,
                                              [off |-> t.off, flag |-> t.flag])]
          ELSE IF t.off /\ t.flag = Every
            THEN [st EXCEPT !.buffer = <<>>, !.out = Append(@, Off(<<st.group, Star>>))]
          ELSE [st EXCEPT !.buffer = Append(@, [off |-> t.off, flag |-> <<st.group, t.flag[2]>>])]
        end == Fold(items, [group |-> None, out |-> <<>>, buffer |-> <<>>], step)
    IN end.out \o end.buffer

\* pkg: its IUSE, the flags of it on by default, its USE_EXPAND variables that have a setting.
\* The flags that cannot change, those that are on and those that are masked.
PackageUse(pkg, iuse, plus, set, forced, enabled, masked) ==
    LET pre == {f \in plus : f[1] \notin set}
        got == RenderPkg(enabled, pkg, pre)
        globs == {f \in got : f[2] = Star}
        on == (got \ globs) \cup {f \in iuse : \E g \in globs : g = Every \/ g[1] = f[1]}
        immutable == RenderPkg(forced, pkg, {})
        disabled == RenderPkg(masked, pkg, {})
    IN [immutable |-> immutable, enabled |-> ((on \cap iuse) \cup immutable) \ disabled, disabled |-> disabled]

\* What is masked is out unless it is unmasked, whoever masks it and whoever unmasks it.
Visible(pkg, repo, profile, user, unmaskProfile, unmaskUser) ==
    LET masks == CollapseGeneric(<<repo>> \o profile, FALSE) \cup user
        unmasks == CollapseGeneric(unmaskProfile, FALSE) \cup unmaskUser
        hit(keys) == \E k \in keys : pkg \in k.pkgs
    IN ~hit(masks) \/ hit(unmasks)

-----------------------------------------------------------------------------
(* Keywords: <<"", arch>>, <<"~", arch>> and <<"-", arch>>, with the globs  *)
(* <<"", Star>>, "*", and <<"~", Star>> of them, and <<"*", Star>> for all. *)
(* A line is [key, level, tokens]: level 0 for all packages, up to 4 for   *)
(* those of a repository, a category and so on, 5 for an atom.             *)

Unstable(arch) == <<"~", arch>>

\* A package is taken for stable if it is keyworded so and only those are accepted.
TakenForStable(keywords, arch, accept) == <<"", arch>> \in keywords /\ Unstable(arch) \notin accept

DefaultKeywords(accept, arch) == {<<"", arch>>} \cup accept \cup {<<"", k[2]>> : k \in {j \in accept : j[1] = "~"}}

\* Levels in order, of one level the lines in order; a line for all packages that follows an
\* atom of the same name once more turns off, for that name, what it turns off.
PullData(default, lines, pkg) ==
    LET always == FlattenSeq([i \in DOMAIN lines |-> IF lines[i].level = 0 THEN lines[i].tokens ELSE <<>>])
        named(i) == \E j \in 1..i - 1 : lines[j].level = 5 /\ lines[j].key.name = NameOf(pkg)
        atoms == [i \in DOMAIN lines |->
            IF lines[i].level = 5 /\ pkg \in lines[i].key.pkgs THEN lines[i].tokens
            ELSE IF lines[i].level = 0 /\ named(i) THEN SelectSeq(lines[i].tokens, LAMBDA t : t.off) ELSE <<>>]
        free(l) == FlattenSeq([i \in DOMAIN lines |->
            IF lines[i].level = l /\ pkg \in lines[i].key.pkgs THEN lines[i].tokens ELSE <<>>])
    IN IncrementalExpansion(free(1) \o free(2) \o free(3) \o free(4) \o FlattenSeq(atoms),
                            IncrementalExpansion(always, default))

\* Where the unstable ones are accepted nothing can be turned off.
NonIncrementalPullData(default, lines, pkg) ==
    default \cup UNION {Pos(Range(l.tokens)) : l \in {m \in Range(lines) : pkg \in m.key.pkgs}}

\* A line without keywords stands for the unstable one, but for all packages for its letters.
KeywordLines(lines, arch) ==
    [i \in DOMAIN lines |->
        IF lines[i].tokens = <<>> /\ lines[i].level # 0 THEN [lines[i] EXCEPT !.tokens = <<On(Unstable(arch))>>]
        ELSE lines[i]]

AllowedKeywords(default, lines, arch, pkg) ==
    IF Unstable(arch) \in default THEN NonIncrementalPullData(default, lines, pkg)
    ELSE PullData(default, KeywordLines(lines, arch), pkg)

ApplyKeywordsFilter(keywords, allowed) ==
    \/ <<"*", Star>> \in allowed
    \/ Every \in allowed /\ \E k \in keywords : k[1] = ""
    \/ <<"~", Star>> \in allowed /\ \E k \in keywords : k[1] = "~"
    \/ keywords \cap allowed # {}

(* Licenses: <<None, license>>, and <<"@", group>> for all of a group.     *)

AcceptedLicenses(tokens, licenses, groups) ==
    LET of(f) == IF f[1] = "@" THEN groups[f] ELSE {f} IN
    Fold(tokens, {}, LAMBDA got, t :
        CASE t.off  -> IF t.flag = Every THEN {} ELSE got \ of(t.flag)
          [] ~t.off -> got \cup (IF t.flag = Every THEN licenses ELSE of(t.flag)))

\* One of the ways to satisfy the license, whatever the flags of the package, is accepted.
ApplyLicenseFilter(solutions, tokens, groups) == \E l \in solutions : l \subseteq AcceptedLicenses(tokens, l, groups)

-----------------------------------------------------------------------------
(* What is promised: each thing is what is said of it last, in the order   *)
(* in which the nodes and the lines come.                                  *)

Said(node) == <<node.use>> \o node.pkg
SaidOfStable(node) == <<node.use>> \o (IF node.gate THEN <<node.stable>> ELSE <<>>) \o node.pkg
                      \o (IF node.gate THEN node.pkgStable ELSE <<>>)
SaidByDefault(node) == (IF node.gate THEN <<node.stable>> ELSE <<>>) \o node.pkg \o (IF node.gate THEN node.pkgStable ELSE <<>>)

LastSaid(chunks, pkg, pre) == ApplyChunks(SelectSeq(chunks, LAMBDA c : pkg \in c.key.pkgs), pre)

Each(nodes, Op(_)) == [i \in DOMAIN nodes |-> Op(nodes[i])]

\* The nodes say what their lines say, for each package.  Apart: versions of one package of
\* which one turns on in a node what another turns off, where the compression drops the later.
NodesAgree(nodes) ==
    LET plain(lines) == \A c \in Range(lines), d \in Range(lines) :
            c.key.name = d.key.name /\ ~c.key.simple /\ ~d.key.simple => c.neg \cap d.pos = {}
        dict(Node(_)) == CollapseUseDict(Each(nodes, Node))
        agree(Node(_), said(_)) == \A pkg \in Packages :
            RenderPkg(dict(Node), pkg, {}) = LastSaid(FlattenSeq(Each(nodes, said)), pkg, {})
    IN (\A n \in Range(nodes) : plain(n.pkg) /\ plain(n.pkgStable)) =>
         agree(NodeUse, Said) /\ agree(NodeStableUse, SaidOfStable) /\ agree(PkgStableUse, SaidByDefault)

\* So does the user, after make.conf and the profile, which is the order of enabled_use.
\* The docstring of get_package_use_unconfigured (domain.py:625-629) has the profile come
\* first, then IUSE and make.conf: that holds but where a line of the profile's package.use
\* says otherwise than those two of a flag, when the code lets the line win.  Apart: a
\* package with lines on both sides of one for all packages, which is then laid over the
\* former once more.
TurnsOff(c, d) == ApplyChunk(d.pos, [c EXCEPT !.pos = {}]) # d.pos
UserAgrees(use, node, user, pre) ==
    LET lines == node.pkg \o user
        apart == \E i, j, k \in DOMAIN lines :
                    /\ i < j /\ j < k
                    /\ lines[j].key.name = None
                    /\ lines[i].key.name = lines[k].key.name
                    /\ lines[i].key.name # None
        conf == Chunk(AlwaysTrue, Neg(use), Pos(use))
        iuse == Chunk(AlwaysTrue, {}, pre)
        outdone(pkg) == \E c \in Range(node.pkg) :
            pkg \in c.key.pkgs /\ (TurnsOff(c, conf) \/ TurnsOff(conf, c) \/ TurnsOff(c, iuse))
        got == EnabledUse(use, PkgUse(node), user)
    IN ~apart =>
       \A pkg \in Packages :
         /\ RenderPkg(got, pkg, pre) = LastSaid(<<conf>> \o lines, pkg, pre)
         /\ ~outdone(pkg) => RenderPkg(got, pkg, pre) = LastSaid(node.pkg \o <<iuse, conf>> \o user, pkg, {})

\* The tokens of a profile are those of its stack, and of them the last word counts, from
\* env.d to make.conf.  Apart: what only env.d turned on and the profile turns off, as the
\* profile forgets what it turns off; of ACCEPT_LICENSE too, whose negations the license
\* filter needs by the comment of domain.py:343-348.
TokensAgree(tree, own, n, system, conf, orig) ==
    LET stack == StackOf(tree, n)
        profile == EnvOf(tree, own, n)
        all == system \o profile \o conf
        kept == \A t \in Range(profile), u \in Range(system) : t.off => u.off
    IN /\ profile = FlattenSeq([i \in DOMAIN stack |-> own[stack[i]]])
       /\ \A var \in {"USE", "ACCEPT_KEYWORDS", "ACCEPT_LICENSE"} : var = "USE" \/ kept =>
            IncrementalExpansion(Settings(var, system, profile, conf), {}) = IncrementalExpansion(all, {})
       /\ LET final == OptimizeIncrementals(all) IN
            ApplyChunk(orig, Chunk(AlwaysTrue, Neg(final), Pos(final))) = IncrementalExpansion(all, orig)

\* A line of package.use does to the flags what its words do one by one.  Apart: a flag that
\* is there both ways, a group that is named twice, and "-*" after a group's flags elsewhere.
SplitterAgrees(items, orig) ==
    LET tokens == Range(UseSplitter(items))
        word(st, t) ==
          IF t.group # None THEN [st EXCEPT !.group = t.group]
          ELSE LET flag == IF st.group = None THEN t.flag ELSE <<st.group, t.flag[2]>> IN
               [st EXCEPT !.got = ApplyChunk(@, Chunk(AlwaysTrue, IF t.off THEN {flag} ELSE {}, IF t.off THEN {} ELSE {flag}))]
    IN Neg(tokens) \cap Pos(tokens) = {}
       /\ (\A i, j \in DOMAIN items : items[i].group # None /\ items[i].group = items[j].group => i = j) =>
         ApplyChunk(orig, Chunk(AlwaysTrue, Neg(tokens), Pos(tokens))) = Fold(items, [group |-> None, got |-> orig], word).got

\* Whatever its own flags and lines say a package has what is forced on it and none of what is
\* masked, also where it is forced, each as a package that is stable or not; of the rest what
\* is said last, among its own flags.
PackageAgrees(iuse, plus, set, keywords, accept, force, use, lines, arch, mask) ==
    LET Node(n) == IF TakenForStable(keywords, arch, accept) THEN NodeStableUse(n) ELSE NodeUse(n)
        said(n) == IF TakenForStable(keywords, arch, accept) THEN SaidOfStable(n) ELSE Said(n)
    IN \A pkg \in Packages :
        LET got == PackageUse(pkg, iuse, plus, set, ForcedUse(Node(force), <<None, arch>>),
                              EnabledUse(use, EmptyDict, lines), Node(mask))
            forced == LastSaid(said(force), pkg, {}) \cup {<<None, arch>>}
            masked == LastSaid(said(mask), pkg, {})
            on == LastSaid(<<Chunk(AlwaysTrue, Neg(use), Pos(use))>> \o lines, pkg, {f \in plus : f[1] \notin set})
        IN /\ got.enabled \cap masked = {}
           /\ forced \ masked \subseteq got.enabled
           /\ \A f \in (iuse \ forced) \ masked : f \in got.enabled <=> {f, <<f[1], Star>>, Every} \cap on # {}

\* The keywords of a package are those said last, when lines come in the order of their levels
\* and those after it for all packages only turn off; lines without keywords for all apart.
KeywordsAgree(accept, lines, arch, keywords) ==
    LET default == DefaultKeywords(accept, arch)
        read == [i \in DOMAIN lines |-> IF lines[i].tokens = <<>> THEN <<On(Unstable(arch))>> ELSE lines[i].tokens]
        inOrder == \A i, j \in DOMAIN lines : i < j =>
            \/ lines[i].level <= lines[j].level
            \/ lines[i].level = 5 /\ lines[j].level = 0 /\ \A t \in Range(lines[j].tokens) : t.off
        said(pkg) == Fold([i \in DOMAIN lines |-> i], default, LAMBDA got, i :
            IF pkg \in lines[i].key.pkgs THEN IncrementalExpansion(read[i], got) ELSE got)
    IN \A pkg \in Packages :
        LET allowed == AllowedKeywords(default, lines, arch, pkg) IN
        /\ Unstable(arch) \notin default /\ inOrder
             /\ (\A i \in DOMAIN lines : lines[i].tokens = <<>> => lines[i].level # 0) => allowed = said(pkg)
        /\ Unstable(arch) \in default => default \subseteq allowed
        /\ ApplyKeywordsFilter(keywords, allowed) =
             \/ <<"*", Star>> \in allowed
             \/ \E k \in keywords : {k, IF k[1] = "" THEN Every ELSE <<k[1], Star>>} \cap allowed # {}

\* A license is accepted if the last word on it, a group it is in, or all is.
LicensesAgree(tokens, groups, solutions) ==
    LET last(l) == {i \in DOMAIN tokens :
            LET f == tokens[i].flag IN f = l \/ f = Every \/ (f[1] = "@" /\ l \in groups[f])}
        accepted(l) == last(l) # {} /\ ~tokens[CHOOSE i \in last(l) : \A j \in last(l) : j <= i].off
    IN ApplyLicenseFilter(solutions, tokens, groups) = \E s \in solutions : \A l \in s : accepted(l)

\* Of the masks of the profile and the repository the last word on each counts, and no unmask
\* of the profile undoes one without matching the package.
MasksAgree(repo, profile, user, unmaskProfile, unmaskUser) ==
    LET last(pairs, k) == LET on == {i \in DOMAIN pairs : k \in pairs[i].neg \cup pairs[i].pos} IN
            on # {} /\ k \in pairs[CHOOSE i \in on : \A j \in on : j <= i].pos
        keys(pairs) == {k \in UNION {v.pos : v \in Range(pairs)} : last(pairs, k)}
    IN \A pkg \in Packages :
        Visible(pkg, repo, profile, user, unmaskProfile, unmaskUser) <=>
          \/ \A k \in keys(<<repo>> \o profile) \cup user : pkg \notin k.pkgs
          \/ \E k \in keys(unmaskProfile) \cup unmaskUser : pkg \in k.pkgs

\* So it is of the system set, where a node may say that all is taken out first.
SystemAgrees(pairs) ==
    LET wild == {i \in DOMAIN pairs : pairs[i].wild}
        since == SubSeq(pairs, IF wild = {} THEN 1 ELSE CHOOSE i \in wild : \A j \in wild : j <= i, Len(pairs))
    IN CollapseGeneric(pairs, TRUE) = CollapseGeneric(since, FALSE)
=============================================================================
