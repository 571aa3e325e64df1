---------------------------- MODULE AlgorithmsMC ----------------------------
EXTENDS Naturals, Sequences, FiniteSets, SequencesExt, FiniteSetsExt, TLC

CONSTANTS None, Star, x, y, z

VARIABLE case

R == INSTANCE Restrictions

Flags == {x, y, z}
Leaves == {R!Has({f}, FALSE, n) : f \in Flags, n \in BOOLEAN}
          \cup {R!Has({x, y}, a, n) : a \in BOOLEAN, n \in BOOLEAN}
UpTo(S, n) == UNION {[1..k -> S] : k \in 0..n}
Grouped(kinds, S, n) == {R!Group(k, b, of) : k \in kinds, b \in BOOLEAN, of \in UpTo(S, n)}
Lv == {R!Has({f}, FALSE, FALSE) : f \in {x, y}} \cup {R!Has({z}, FALSE, TRUE), R!Has({x, y}, TRUE, FALSE)}
Inner == Grouped({"and", "or"}, Lv, 2) \cup {R!Group(k, FALSE, <<R!Has({x}, FALSE, FALSE), R!Has({y}, FALSE, FALSE)>>) : k \in {"one", "most"}}
Second == {R!Group(k, b, <<R!Has({x}, FALSE, FALSE), R!Has({z}, FALSE, TRUE)>>) : k \in {"and", "or"}, b \in BOOLEAN}
Attrs == {R!Group(k, FALSE, <<R!OfAttr(t, n, a), R!OfAttr(TRUE, m, b)>>) :
             k \in {"and", "or"}, t \in BOOLEAN, n \in BOOLEAN, m \in BOOLEAN, a \in Lv, b \in Lv \cup {R!Negate(R!Has({z}, FALSE, FALSE)), R!AlwaysBool(TRUE)}}
Restricts == Grouped({"and", "or", "one", "most"}, Leaves, 2)
          \cup {R!Group(k, b, <<i, l>>) : k \in {"and", "or"}, b \in BOOLEAN, i \in Inner, l \in Lv}
          \cup {R!Group(k, FALSE, <<i, j>>) : k \in {"and", "or"}, i \in Inner, j \in Second}
          \cup Attrs

Plain == {R!Has({f}, FALSE, FALSE) : f \in Flags}
Cond(S) == {R!Conditional(R!Has({f}, FALSE, n), of) : f \in {x, y}, n \in BOOLEAN, of \in S}
C0 == Plain \cup Cond({<<l>> : l \in Plain} \cup {<<R!Has({y}, FALSE, FALSE), R!Has({z}, FALSE, FALSE)>>})
C1 == {R!Group(k, FALSE, <<a, b>>) : k \in R!Groups, a \in C0, b \in C0}
Depsets == {R!Group("and", FALSE, <<c>>) : c \in C1}
          \cup {R!Group("and", FALSE, <<R!Group(k, FALSE, <<c, l>>)>>) : k \in R!Groups, c \in C1, l \in {R!Has({z}, FALSE, FALSE)}}

-----------------------------------------------------------------------------
A == INSTANCE Atoms

V(dots, l, s, r) == [dots |-> dots, letter |-> l, suffixes |-> s, rev |-> r]
Suf(n, d) == [name |-> n, num |-> d]
Versions == {V(<<<<1>>>>, 0, <<>>, 0), V(<<<<1>>>>, 0, <<>>, 1), V(<<<<1, 0>>>>, 0, <<>>, 0), V(<<<<2>>>>, 0, <<>>, 0),
    V(<<<<1>>, <<0>>>>, 0, <<>>, 0), V(<<<<1>>, <<0, 0>>>>, 0, <<>>, 0), V(<<<<1>>, <<0, 1>>>>, 0, <<>>, 0),
    V(<<<<1>>, <<1>>>>, 0, <<>>, 0), V(<<<<1>>, <<1, 0>>>>, 0, <<>>, 0), V(<<<<1>>>>, 1, <<>>, 0),
    V(<<<<1>>>>, 0, <<Suf("pre", <<>>)>>, 0), V(<<<<1>>>>, 0, <<Suf("p", <<1>>)>>, 1)}
MoreVersions ==
    LET plain == {v \in Versions : v.rev = 0}
        bare == {v \in plain : v.suffixes = <<>> /\ v.letter = 0}
    IN Versions \cup {[v EXCEPT !.rev = r] : v \in Versions, r \in {1, 2, 10}}
       \cup {[v EXCEPT !.suffixes = Append(@, s)] : v \in plain, s \in {Suf("alpha", <<>>), Suf("p", <<2>>)}}
       \cup {[v EXCEPT !.dots[Len(v.dots)] = Append(@, d)] : v \in bare, d \in {0, 5}}
       \cup {[v EXCEPT !.dots = Append(@, d)] : v \in bare, d \in {<<0>>, <<3>>}}
Atom(op, v, use) == [name |-> "n", op |-> op, ver |-> v, negate |-> FALSE, slot |-> None, subslot |-> None, repo |-> None, use |-> use]
One == V(<<<<1>>>>, 0, <<>>, 0)
VersionAtoms == {Atom(op, v, {}) : op \in {"<", "<=", "=", "=*", "~", ">=", ">"}, v \in Versions}
                \ {Atom("~", v, {}) : v \in {w \in Versions : w.rev # 0}}
Tokens == [flag : {x, y}, off : BOOLEAN, default : {"", "+", "-"}]
UseAtoms == {Atom("", One, use) : use \in {{}} \cup {{t} : t \in Tokens} \cup {{t, u} : t \in {v \in Tokens : v.flag = x}, u \in {v \in Tokens : v.flag = y}}}
SlotAtoms == {[Atom("", One, {}) EXCEPT !.slot = s, !.subslot = IF s = None THEN None ELSE ss, !.repo = r] :
                 s \in {None, x, y}, ss \in {None, x, y}, r \in {None, x, y}}
Pkg(v, iuse, use, s) == [name |-> "n", ver |-> v, slot |-> s[1], subslot |-> s[2], repo |-> s[3], iuse |-> iuse, use |-> use]
VersionPkgs == {Pkg(v, {}, {}, <<x, x, x>>) : v \in MoreVersions}
OtherPkgs == {Pkg(One, iuse, use, <<x, x, x>>) : iuse \in SUBSET {x, y}, use \in SUBSET {x, y}}
             \cup {Pkg(One, {}, {}, s) : s \in [1..3 -> {x, y}]}
Varied == UpTo([flag : {x, y}, cond : {"?", "="}, not : BOOLEAN, default : {"", "-"}], 2)

-----------------------------------------------------------------------------
Pkgs == {<<"a", 1>>, <<"a", 2>>, <<"b", 1>>}
NameOfPkg(p) == p[1]
P == INSTANCE Profiles WITH Packages <- Pkgs, NameOf <- NameOfPkg

F(v) == <<None, v>>
InGroup(v) == <<"e", v>>
Versioned(vs) == [name |-> "a", pkgs |-> {<<"a", v>> : v \in vs}, simple |-> FALSE]
Category == [name |-> None, pkgs |-> {<<"a", 1>>, <<"a", 2>>}, simple |-> FALSE]
Named == {Versioned({1}), Versioned({1, 2}), P!Simple("a"), P!Simple("b")}
Says == {<<{}, {F(x)}>>, <<{F(x)}, {}>>, <<{F(y)}, {F(x)}>>}
LinesOf(keys, says) == {P!Chunk(k, s[1], s[2]) : k \in keys, s \in says}
Nothing == P!Chunk(P!AlwaysTrue, {}, {})
Globals == LinesOf({P!AlwaysTrue}, Says) \cup {Nothing}
Node(use, pkg, stable, pkgStable, gate) == [use |-> use, pkg |-> pkg, stable |-> stable, pkgStable |-> pkgStable, gate |-> gate]
NodePairs ==
    {<<Node(u, l, Nothing, <<>>, FALSE), Node(v, m, Nothing, <<>>, FALSE)>> :
        u \in Globals, v \in Globals, l \in UpTo(LinesOf(Named, Says), 1), m \in UpTo(LinesOf(Named, Says), 1)}
    \cup {<<Node(Nothing, <<c, d>>, u, l, TRUE), Node(v, <<>>, Nothing, <<>>, FALSE)>> :
        u \in Globals, v \in Globals, l \in UpTo(LinesOf({P!Simple("a"), Versioned({2})}, Says), 1),
        c \in LinesOf(Named, {<<{F(x)}, {}>>, <<{}, {F(x), F(y)}>>}), d \in LinesOf(Named, {<<{}, {F(x)}>>, <<{F(y)}, {}>>})}
UserLines == LinesOf({Versioned({1}), P!Simple("a"), P!AlwaysTrue, Category}, {<<{}, {F(x)}>>, <<{F(x)}, {F(y)}>>})
             \cup {P!Chunk(P!Simple("a"), {P!Every}, {F(y)}), P!Chunk(Versioned({2}), {P!Off(InGroup(Star)).flag}, {InGroup(x)})}
Words == {P!On(f) : f \in {F(x), InGroup(x)}} \cup {P!Off(f) : f \in {F(x), P!Every}}
Tree == [a |-> <<>>, b |-> <<"a", "none">>, c |-> <<"b", "a">>]
Items == {[group |-> "e"] @@ P!On(F(x))} \cup {[group |-> None] @@ w : w \in {P!On(F(x)), P!Off(F(x)), P!Off(P!Every), P!On(F(y))}}
         \cup {[group |-> "g"] @@ P!On(F(x))}
Kw == {<<"", x>>, <<"~", x>>, <<"-", x>>, <<"~", y>>}
KwTokens == {<<>>, <<P!On(<<"~", x>>)>>, <<P!Off(<<"~", x>>)>>, <<P!On(<<"*", Star>>)>>, <<P!Off(P!Every), P!On(<<"~", Star>>)>>, <<P!On(P!Every)>>}
KwKeys == {<<P!AlwaysTrue, 0>>, <<Category, 2>>, <<P!Simple("b"), 5>>, <<Versioned({1}), 5>>, <<P!Simple("a"), 5>>}
KwLines == {[key |-> k[1], level |-> k[2], tokens |-> t] : k \in KwKeys, t \in KwTokens}
Licenses == (<<"@", x>> :> {F(x), F(y)}) @@ (<<"@", y>> :> {F(y)})
LicenseWords == {[off |-> o, flag |-> f] : o \in BOOLEAN, f \in {F(x), F(y), <<"@", x>>, <<"@", y>>, P!Every}}
Pair(w, n, p) == [wild |-> w, neg |-> n, pos |-> p]
Keys == {Versioned({1}), P!Simple("a"), P!Simple("b")}
Pairs == {Pair(w, n, p) : w \in BOOLEAN, n \in {{}, {P!Simple("a")}}, p \in {{}, {Versioned({1})}, {P!Simple("a"), P!Simple("b")}}}

-----------------------------------------------------------------------------
I == INSTANCE Image WITH
       Sources <- (<<"a">> :> [kind |-> "file", data |-> "1", mode |-> None]) @@ (<<"d">> :> [kind |-> "dir", data |-> None, mode |-> None])
               @@ (<<"d", "a">> :> [kind |-> "file", data |-> "2", mode |-> None]) @@ (<<"d", "e">> :> [kind |-> "dir", data |-> None, mode |-> None])
               @@ (<<"d", "e", "m.1">> :> [kind |-> "file", data |-> "3", mode |-> None]) @@ (<<"d", "l">> :> [kind |-> "link", data |-> <<"d", "e">>, mode |-> None])
               @@ (<<"s">> :> [kind |-> "link", data |-> <<"a">>, mode |-> None]) @@ (<<"g">> :> [kind |-> "link", data |-> <<"gone">>, mode |-> None])
               @@ (<<"m.de.1">> :> [kind |-> "file", data |-> "4", mode |-> None]),
       Pages <- [n \in {"a", "s", "g", "m.1", "m.de.1", "d"} |->
                   [section |-> IF n \in {"m.1", "m.de.1"} THEN "man1" ELSE None, lang |-> IF n = "m.de.1" THEN "de" ELSE None, bare |-> IF n = "m.de.1" THEN "m.1" ELSE n]],
       Html <- {"a", "s"}, HostDirs <- {<<"usr">>}, UserPatches <- <<"u1", "u2">>, Broken <- {<<"u2", "p0">>, <<"bad", None>>}

ImageCall(h, dest, o, d, r, t) ==
    [helper |-> h, nonfatal |-> TRUE, dest |-> dest, insoptions |-> o, diroptions |-> d, recursive |-> r, targets |-> t, excluded |-> {}, i18n |-> None, options |-> None]
Wants == {None, I!Options("0600", TRUE), I!Options("0600", FALSE)}
Doing == {ImageCall(h, dest, o, None, r, t) : h \in {"doins", "dodoc"}, dest \in {<<"usr">>, <<"usr", "d">>}, o \in Wants, r \in BOOLEAN,
            t \in {<<<<"a">>, <<"d", "a">>>>, <<<<"d">>, <<"s">>>>, <<<<"a">>, <<"g">>, <<"s">>>>, <<<<"d", "e">>, <<"d", "l">>>>}}
Others == {ImageCall(h, dest, None, d, FALSE, <<f>>) : h \in {"doman", "domo", "dobin"}, dest \in {<<"usr">>}, d \in {None, I!Options("0700", FALSE)}, f \in {<<"a">>, <<"m.de.1">>, <<"s">>}}
          \cup {[ImageCall("doman", <<"usr">>, None, None, FALSE, <<<<"m.de.1">>, <<"d", "e", "m.1">>, f>>) EXCEPT !.i18n = l] : l \in {None, "fr"}, f \in {<<"a">>, <<"m.de.1">>}}
          \cup {[ImageCall("dohtml", <<"usr">>, None, None, TRUE, <<<<"d">>, <<"m.de.1">>, <<"a">>>>) EXCEPT !.excluded = e] : e \in {{}, {<<"d">>}}}
          \cup {ImageCall(h, <<>>, None, None, FALSE, <<t>>) : h \in {"dodir", "keepdir"}, t \in {<<"usr", "a">>, <<"usr", "d">>}}
          \cup {ImageCall(h, <<>>, None, None, FALSE, <<<<"usr", "a">>, t>>) : h \in {"dosym", "dohard"}, t \in {<<"usr">>, <<"usr", "a", "m.1">>, <<"usr", "d", "a">>}}
ImageCalls == Doing \cup Others
Eapi(b) == [dodoc_allow_recursive |-> b, doman_language_detect |-> b, doman_language_override |-> b]

-----------------------------------------------------------------------------
Hints == INSTANCE Config WITH Callables <- <<>>
RefTo(ref) == "repos" :> Hints!Ref(ref, "repo")
Function(name, args, defaults, hint) ==
    [name |-> name, code |-> "python", args |-> args, defaults |-> defaults, variadic |-> hint = Hints!ConfigHint, hint |-> hint]
Callables ==
    ("domain" :> Function("domain", <<"repos", "spare">>, <<"other">>,
                          Hints!Configurable("types" :> (RefTo("refs") @@ "spare" :> Hints!Ref("lazy_refs", "repo"))))
  @@ "repo" :> Function("tree", <<"repos", "path">>, <<"list", "str">>, Hints!Configurable("types" :> RefTo("refs") @@ "typename" :> "repo"))
  @@ "over" :> Function("configured", <<"on", "config">>, <<>>, Hints!Configurable("types" :> ("on" :> Hints!Ref("ref", "repo")) @@ "typename" :> "repo" @@ "wants" :> "config"))
  @@ "loose" :> Function("anything", <<>>, <<>>, Hints!Configurable("unknowns" :> TRUE @@ "typename" :> "repo" @@ "raw" :> TRUE))
  @@ "bare" :> Function("repo", <<>>, <<>>, Hints!ConfigHint)
  @@ "configsection" :> Function("parse_config_file", <<"path">>, <<>>, Hints!Configurable("typename" :> "configsection")))
C == INSTANCE Config

Class(c) == "class" :> c
Refs(of) == "repos" :> of
Sections(n) ==
    LET other == IF n = "a" THEN "b" ELSE "a"
    IN {<<>>, Class("repo"), Class("repo") @@ "default" :> TRUE, "inherit" :> <<other>>, "inherit" :> <<"c", n>>,
        Class("repo") @@ Refs(<<other>>), Class("domain") @@ Refs(<<"c", other>>), Class("domain") @@ "spare" :> <<n>> @@ "inherit" :> <<"c">>,
        Class("repo") @@ "inherit-only" :> TRUE @@ Refs(<<"c">>), Class("over") @@ "on" :> other, Class("repo") @@ "odd" :> TRUE @@ Refs(<<"c">>)}
Lasts == {Class("repo"), Class("bare"), Class("loose") @@ "odd" :> TRUE, Refs(<<"a">>) @@ "inherit-only" :> TRUE, Class("repo") @@ Refs(<<"b">>) @@ "inherit" :> <<"a">>}
Overlays == {<<>>, <<<<"a", "inherit" :> <<"a">> @@ Class("repo")>>>>, <<<<"autoload", Class("configsection") @@ "path" :> "extra">>, <<"b", Class("repo")>>>>,
    <<<<"autoload", Class("configsection") @@ "path" :> "self">>>>, <<<<"autoload-too", Class("configsection") @@ "path" :> "none">>>>, <<<<"autoload", "inherit" :> <<"a">> @@ "path" :> "extra">>>>}
Extra == "extra" :> <<<<"c", "inherit" :> <<"c">> @@ "path" :> "y">>, <<"d", Class("domain") @@ Refs(<<"a", "c">>)>>>>
         @@ "self" :> <<<<"autoload", Class("configsection") @@ "path" :> "extra">>>>
Source(w) == <<<<"a", w.a>>, <<"b", w.b>>, <<"c", w.c>>>>
ConfigCalls == {<<op, n>> : op \in {"collapse", "item"}, n \in {"a", "c"}} \cup {<<"contains", "b">>} \cup {<<"keys", None>>, <<"default", None>>}

-----------------------------------------------------------------------------
S == INSTANCE RepoSearch

Known(c, n, v, r) == [category |-> c, package |-> n, version |-> v, slot |-> v, subslot |-> "0", repo |-> r]
Held == {Known("a", "n", "1", "r"), Known("a", "n", "2", "r"), Known("a", "m", "1", "r"), Known("b", "m", "2", "r"), Known("c", "o", "1", "r")}
Held2 == {Known("a", "n", "1", "s"), Known("b", "n", "2", "s"), Known("d", "m", "1", "s")}
Searched == {S!Exactly("category", c) : c \in {"a", "b"}} \cup {S!Exactly("package", n) : n \in {"n", "m"}}
            \cup {S!Leaf("category", {"a"}, TRUE, TRUE, n) : n \in BOOLEAN} \cup {S!Leaf("package", {"n", "o"}, FALSE, v, FALSE) : v \in BOOLEAN}
            \cup {S!Leaf("category", {"a", "c"}, FALSE, FALSE, FALSE), S!Leaf("version", {"1"}, TRUE, FALSE, FALSE), S!AtomOf(<<"a", "n">>)}
SearchNested == {R!Group(k, b, <<l, m>>) : k \in {"and", "or"}, b \in BOOLEAN, l \in {S!Exactly("category", "a"), S!Exactly("package", "m"), S!AtomOf(<<"a", "m">>)}, m \in Searched}
Searches == Searched \cup {S!AlwaysTrue, S!Leaf("package", {"n"}, TRUE, FALSE, TRUE)} \cup Grouped({"and", "or"}, Searched \cup {S!AlwaysTrue}, 2)
            \cup {R!Group(k, b, <<i, l>>) : k \in {"and", "or"}, b \in BOOLEAN, i \in SearchNested, l \in Searched}
TreeOf(id, v, pkgs) == [kind |-> "tree", id |-> id, virtual |-> v, pkgs |-> pkgs]
Filter(raw, r, b) == [kind |-> "filter", raw |-> raw, restrict |-> r, sentinel |-> b]
Multi(trees) == [kind |-> "multi", trees |-> trees]
T1 == TreeOf("r", FALSE, Held)
T2 == TreeOf("s", TRUE, Held2)
Masked(raw) == Filter(raw, R!Group("or", FALSE, <<S!AtomOf(<<"a", "n">>), S!Leaf("version", {"2"}, TRUE, FALSE, FALSE)>>), FALSE)
Repos == {T1, Masked(T1), Multi(<<T1, T2>>), Masked(Multi(<<T1, T2>>)), Multi(<<Masked(T1), T2>>), Filter(Masked(Multi(<<T2, T1>>)), S!Exactly("category", "b"), TRUE)}
Chunks(globs, words) == {None, Star} \cup {[glob |-> g] : g \in globs} \cup {S!Word(w) : w \in words}
Texts == [op : {None, "=", ">=", "<"}, version : {None, "1", "2"}, category : Chunks({{"a", "d"}}, {"a"}), package : Chunks({{"n", "o"}}, {"n"}),
          slot : Chunks({{"1"}}, {"1"}), subslot : {None, S!Word("0")}, repo : {None, S!Word("s")}, block : {FALSE}]

-----------------------------------------------------------------------------
D == INSTANCE Contents

Places == UpTo({1, 2}, 2) \ {<<>>}
Leads == {<<1>>, <<2>>, <<3>>, <<1, 2>>}
Entries == {D!Dir, D!File(1)} \cup {D!Link(to, rel) : to \in Leads, rel \in BOOLEAN}
\* An archive may list what is below a link, a disk does not.
Archives == UNION {[locs -> Entries \ {D!Dir}] : locs \in {l \in SUBSET Places : Cardinality(l) \in {2, 3}}}
IsTree(t, kinds) == \A l \in DOMAIN t : Len(l) > 1 => D!Parent(l) \in DOMAIN t /\ t[D!Parent(l)].kind \in kinds
OnDisk == {<<1>>, <<2>>, <<1, 1>>, <<2, 1>>}
Trees(locs, entries) == {t \in UNION {[l -> entries] : l \in SUBSET locs} : IsTree(t, {"dir"})}
Disks == {t \in Trees(OnDisk \cup {<<3>>}, {D!Dir, D!File(2), D!Link(<<2>>, FALSE), D!Link(<<1>>, TRUE), D!Link(<<3>>, FALSE)}) :
            \A l \in D!OfKind(t, "link") : l # <<3>> /\ ~IsPrefix(l, D!ResolvedTarget(t, l)) /\ (l = <<1>> \/ t[l].to # <<1>>)}
Written == Trees({<<1>>, <<2>>, <<1, 1>>, <<1, 2>>}, {D!Dir, D!Link(<<1>>, FALSE)} \cup {[D!File(d) EXCEPT !.inode = i, !.mode = m] : <<d, i, m>> \in {<<1, 0, 0>>, <<1, 1, 0>>, <<1, 1, 1>>, <<1, 2, 0>>, <<2, 2, 0>>}})
Images == Trees(OnDisk \cup {<<1, 1, 1>>}, {D!Dir, D!File(1)})

-----------------------------------------------------------------------------
SrcFile(name, of, cased, stem, n) == [name |-> name, of |-> of, cased |-> cased, stem |-> stem, mtime |-> n, size |-> n]
Foo1 == SrcFile("foo-1", {"foo"}, TRUE, "foo", 1)
Foo2 == SrcFile("Foo-2", {"foo"}, FALSE, "Foo", 7)
Lib1 == SrcFile("lib-1", {}, FALSE, "lib", 1)
Lib2 == SrcFile("lib-2", {}, FALSE, "lib", 7)
Digits == SrcFile("1.0", {}, FALSE, "", 1)
Odd == SrcFile("odd", {}, FALSE, None, 1)
FooBar == SrcFile("foo-bar-1", {"foo", "foo-bar"}, TRUE, "foo-bar", 1)
Source1 == [name |-> "foo", ver |-> 1, files |-> {Foo1, Lib1}, fetch |-> FALSE]
Source2 == [name |-> "foo", ver |-> 2, files |-> {Foo2, Odd}, fetch |-> TRUE]
Source3 == [name |-> "foo-bar", ver |-> 1, files |-> {FooBar, Digits}, fetch |-> FALSE]
Source4 == [name |-> "gone", ver |-> 1, files |-> {Lib2, Foo1}, fetch |-> FALSE]
FileOrder == <<"1.0", "Foo-2", "foo-1", "foo-bar-1", "lib-1", "lib-2", "odd">>
ByName(s, t) ==
    LET names == <<"foo", "foo-bar", "gone">> at(q, w) == CHOOSE i \in DOMAIN q : q[i] = w IN
    \/ at(names, s[1]) < at(names, t[1])
    \/ s[1] = t[1] /\ at(FileOrder, s[2].name) < at(FileOrder, t[2].name)
K == INSTANCE Pclean WITH InOrder <- ByName, All <- {Source1, Source2, Source3, Source4}
CleanOptions(targets) == [exists : BOOLEAN, installed : BOOLEAN, fetch : BOOLEAN, enabled : {{}, {targets}}, disabled : {{}, {{Source1}}},
    excludes : {{}, {{Source3}}}, targets : {{}, targets, {{Source3}, {Source4}}}, modified : {None, 5}, size : {None}]
Bin(name, repo, attr, n) == [name |-> name, ver |-> 1, repo |-> repo, attrs |-> [depend |-> attr], bindist |-> n = 1, fetch |-> n = 2, path |-> Foo1]
K2 == INSTANCE Pclean WITH InOrder <- ByName, All <- {Bin("a", "r", 1, 1), Bin("a", "s", 2, 2), Bin("b", "r", 1, 2)}
PkgOptions == [exists : BOOLEAN, installed : BOOLEAN, fetch : BOOLEAN, bindist : BOOLEAN, source : {None, "r"}, changed : {{}, {"depend"}}, enabled : {{}},
    disabled : {{}}, excludes : {{}, {{Bin("b", "r", 1, 2)}}}, targets : {{}}, modified : {None}, size : {None}]
K3 == INSTANCE Pclean WITH InOrder <- ByName, All <- 1..3
Dirs == {[category |-> c, pf |-> n, ok |-> b] : c \in {"a", "b"}, n \in 1..2, b \in {TRUE}} \cup {[category |-> "b", pf |-> 3, ok |-> FALSE]}
TmpOptions == [tty : BOOLEAN, pretend : BOOLEAN, all : BOOLEAN, enabled : {{}}, disabled : {{}}, excludes : {{}, {{1}}}, targets : {{}, {{1}}, {{1}, {3}}}]
Shown == {[name |-> "a", stable |-> TRUE], [name |-> "b", stable |-> FALSE]}
UserLine == [name : {"pkg_masks", "pkg_unmasks", "pkg_accept_keywords", "pkg_keywords"}, restrict : SUBSET Shown]

-----------------------------------------------------------------------------
G == INSTANCE Triggers

Within(locs, files, times) == UNION {[ls -> [files : SUBSET files, mtime : times]] : ls \in SUBSET locs}
Index(mtime, files) == [mtime |-> mtime, files |-> files, index |-> files # {}, indexed |-> files]
\* What is there before: the files of the old version, and others'.
Before(old, others, mtime) ==
    [l \in DOMAIN old \cup {"i"} |-> Index(mtime, (IF l \in DOMAIN old THEN old[l].files ELSE {}) \cup others)]
Moments == {<<10, 10, 10, 10, 10>>, <<10, 11, 12, 14, 14>>, <<1, 1, 1, 1, 1>>}
Modes == SUBSET {"setuid", "setgid", "writable"}
PermOrders == {<<"uid", "gid", "bits", "writable">>, <<"writable", "bits", "gid", "uid">>, <<"bits", "writable", "uid", "gid">>}
Types == {"executable", "relocatable", "text"}
Linked == [{<<1>>, <<2>>, <<1, 1>>} -> [inode : 0..2, type : Types]]

-----------------------------------------------------------------------------
X == INSTANCE Xpak

XpakKeys == {<<X!Chars(<<"k">>), X!Chars(v)>> : v \in {<<>>, <<"v">>, <<"v", "w">>}}
                \cup {<<X!Chars(<<"repo">>), X!Chars(<<"v">>)>>, <<X!Chars(<<"k", "l">>), <<>>>>}
XpakData == {d \in UpTo(XpakKeys, 2) : \A i, j \in DOMAIN d : i # j => d[i][1] # d[j][1]}
\* What is before it may end like one, or be one that was broken off.
Files == {<<>>, X!Chars(<<"a", "b", "c", "d", "e">>), X!Chars(<<"a">>) \o X!TrailerPreMagic \o <<X!Num(6), X!TrailerPostMagic>>, X!HeaderPreMagic \o <<X!Num(4), X!Num(1), X!Num(1)>>}

-----------------------------------------------------------------------------
Y == INSTANCE Sync

Addresses == [names : {n \in UpTo({"https", "git", "git@", "svn", "tar", "sqfs", "cvs", "hg", ""}, 2) : n # <<>> /\ n[1] # ""} \cup {<<"git", "svn", "https">>},
              end : {"git", "archive", "none"}]
Tools == {{"sqfs"} \cup UNION t : t \in SUBSET {{"bzr", "cvs", "hg"}, {"git", "git_svn"}, {"svn"}, {"tar"}}}
Marks == {m \in SUBSET {".git", ".git/svn", ".hg", ".svn", "info svn"} : ".git/svn" \in m => ".git" \in m}
Served(v, tags, cut) == [content |-> <<x, y>>[v], stamp |-> v, cut |-> cut,
    etag |-> IF "etag" \in tags THEN v ELSE None, modified |-> IF "modified" \in tags THEN v ELSE None]
Servers(tags) == {Served(1, tags, FALSE), Served(2, tags, FALSE), Served(2, tags, TRUE)}
Runs(servers, forces, ends) == [server : servers, force : forces, at : ends, killed : BOOLEAN]
Stamps == {0, 20, 30, 50, 100}
Exits == {<<0>>, <<11>>, <<1>>, <<>>, <<30, 0>>, <<30, 30>>, <<30, 30, 30, 30, 30, 0>>}
MountTools == [unshare : BOOLEAN, mount : {0, 1, 2}, fuse : {None, 0, 1, 2}, umount : {"ok", "other", "perm"}, fusermount : {None, 0, 1, 2}]

-----------------------------------------------------------------------------
B == INSTANCE Bugzilla WITH PageSize <- 2

Outcome(status, json, error, applied) == [status |-> status, json |-> json, error |-> error, applied |-> applied]
Outcomes == {Outcome(200, TRUE, None, TRUE), Outcome(429, FALSE, None, FALSE), Outcome(404, TRUE, None, FALSE), Outcome(200, FALSE, None, FALSE)}
            \cup {Outcome(status, FALSE, None, b) : status \in {None, 503}, b \in BOOLEAN} \cup {Outcome(500, TRUE, None, b) : b \in BOOLEAN}
            \cup {Outcome(w[1], TRUE, w[2], FALSE) : w \in {<<429, 32000>>, <<200, 101>>, <<500, 410>>}}
Sender == [key : BOOLEAN, retries : 0..3, retryWrites : BOOLEAN]
Bug(n, p, l, f) == [id |-> n, is |-> [id |-> {n}, product |-> {p}, list |-> l, flag |-> f]]
Bugs == <<Bug(1, "p", {"a"}, {}), Bug(2, "p", {"a", "b"}, {"s"}), Bug(3, "q", {"b"}, {"s"}), Bug(4, "p", {"c"}, {"s"})>>
Flagged == B!Criterion("flag", <<"s">>, FALSE)
Packages(l) == B!Criterion("list", l, TRUE)
Simples == {<<>>, <<<<"id", <<1, 3, 4>>>>>>, <<<<"id", <<>>>>, <<"product", <<"p">>>>>>, <<<<"product", <<"q", "p">>>>>>}
Charts == {<<>>, <<Packages(<<"a", "b">>)>>, <<Flagged, Packages(<<"c", "b", "a", "d">>)>>, <<Flagged>>,
    <<B!ChartGroup("OR", <<Flagged, Packages(<<"a">>)>>), Packages(<<"b">>)>>, <<Packages(<<"b">>), B!ChartGroup("OR", <<Packages(<<"a">>), Flagged>>), Flagged>>}
Queries == {B!BugQuery(s, c) : s \in Simples, c \in Charts}
Paged == {[q EXCEPT !.limit = l, !.offset = o] : q \in {p \in Queries : Len(p.charts) < 2}, l \in {None, 1, 3}, o \in {None, 1}}
Lists == {SelectSeq(Bugs, LAMBDA b : b.id \in s) : s \in SUBSET (1..4)}
Comment(n, c, t) == [id |-> n, creator |-> c, tags |-> t]
Comments == UNION {{[i \in 1..n |-> Comment(i, c[i][1], c[i][2])] : c \in [1..n -> {x, y} \X SUBSET {"obsolete"}]} : n \in 0..3}
ListChanges == {B!ListChange(a, r, None) : a \in SUBSET {x, y}, r \in SUBSET {x, y}} \cup {B!ListChange({}, {}, s) : s \in SUBSET {x, y}}

-----------------------------------------------------------------------------
ManifestOrder(n, o) == LET at(q) == CHOOSE i \in 1..8 : <<"Manifest", "README", "a", "b", "f", "g", "n-1", "patch">>[i] = q IN at(n) < at(o)
M == INSTANCE Manifests WITH Less <- ManifestOrder
Data(id, size) == [id |-> id, size |-> size]
Upstream == {None, Data(1, 1), Data(2, 1), Data(3, 2)}
Object(name, dir, reg, ebuild) == [name |-> name, dir |-> dir, data |-> Data(4, 2), reg |-> reg, ebuild |-> ebuild]
PackageDir == {Object("n-1", "/", TRUE, TRUE), Object("README", "/", TRUE, FALSE), Object("patch", "files", TRUE, FALSE), Object("f", "/", FALSE, FALSE),
    Object("Manifest", "/", TRUE, FALSE), Object("g", "CVS", TRUE, FALSE)}
DistLine(name, id, chfs) == M!ManifestLine("DIST", name, M!SumsOf(Data(id, 1), chfs))
DistLines == {DistLine("f", 1, {"size", "a"}), DistLine("f", 1, {"size"}), DistLine("f", 1, {"size", "a", "b"})}
ManifestTexts == {None, <<Append(DistLine("f", 1, {"size"}), "a")>>} \cup {<<l>> \o t : l \in DistLines, t \in {<<>>, <<DistLine("g", 1, {"size", "a"})>>}}
                 \cup {<<M!ManifestLine("AUX", "patch", M!SumsOf(Data(4, 2), {"size", "a"})), l>> : l \in DistLines}
ManifestConf == [hashes : {{"size", "a"}, {"size", "b"}}, required : {{"size"}, {"size", "a"}}, thin : BOOLEAN, force : BOOLEAN,
                 disabled : {FALSE}, masked : {FALSE}, writable : {TRUE}, handled : {{"size", "a", "b"}}]
          \cup [hashes : {{"size", "a"}, {"size", "b"}}, required : {{"size"}}, thin : BOOLEAN, force : {FALSE},
                 disabled : BOOLEAN, masked : BOOLEAN, writable : {FALSE}, handled : {{"size", "a"}}]
SignedTexts == UpTo(DistLines \cup {M!Piece("blank"), DistLine("g", 1, {"size"})}, 2)

Q == INSTANCE Requests WITH Arches <- {"x", "y", "z"}, Prefixed <- {"z"}

Keywords == {{}, {<<"", "x">>, <<"~", "y">>}, {<<"~", "x">>, <<"-", "y">>}, {<<"~", "x">>, <<"~", "y">>, <<"~", "z">>}}
Release(n, v, k) == [key |-> n, ver |-> v, live |-> v = 9, keywords |-> k]
Releases == {{Release("a", 1, {<<"", "x">>, <<"~", "y">>}), Release("a", 2, k), Release("b", 0, {<<"", "x">>}), Release("b", 1, {<<"~", "x">>, <<"~", "y">>})} \cup live :
                k \in Keywords, live \in {{}, {Release("b", 9, {})}}}
Dep(n, v) == [key |-> n, ver |-> v, slot |-> FALSE]
RequestWords == {<<>>, <<<<"", "x">>>>, <<<<"~", "y">>, <<"", "x">>>>, <<Q!All>>, <<Q!Same>>, <<<<"", "y">>, Q!Same>>, <<Q!All, <<"", "x">>>>, <<Q!No>>, <<<<"", "q">>>>}
RequestLines == [dep : {Dep("a", 2), Dep("b", 1)}, words : RequestWords] \cup [dep : {Dep("b", None)}, words : {<<>>, <<Q!All>>}]
Asks == {a \in [stable : BOOLEAN, cc : {<<>>, <<<<"", "y">>, <<"", "x">>>>}, onlyNew : BOOLEAN, filter : {{}, {<<"", "x">>}, {<<"", "y">>}}, allarches : BOOLEAN] :
            a.allarches => a.stable /\ a.filter # {}}
RawLines == {r \in UpTo({"sp", "a", "b", "#"}, 6) : \A i \in 1..Len(r) - 1 : r[i] \in {"a", "b"} => r[i + 1] \in {"sp", "#"}}

GL == INSTANCE Glsa
U == INSTANCE PkgUpdates

RangeOf(op, r, v, g, s) == [op |-> op, r |-> r, ver |-> v, glob |-> g, slot |-> s]
OneR1 == V(<<<<1>>>>, 0, <<>>, 1)
Ranges == {RangeOf(op, r, v, FALSE, None) : op \in {"lt", "le", "eq", "ge", "gt"}, r \in BOOLEAN, v \in {One, OneR1}}
          \cup {RangeOf("eq", FALSE, One, TRUE, s) : s \in {None, x}} \cup {RangeOf("lt", FALSE, V(<<<<2>>>>, 0, <<>>, 0), FALSE, x), RangeOf("lt", FALSE, None, FALSE, None), RangeOf("ge", TRUE, One, FALSE, x)}
Unaffected == {{}} \cup {{r} : r \in {q \in Ranges : q.op \in {"eq", "ge", "gt"}}} \cup {{RangeOf("ge", TRUE, One, FALSE, None), RangeOf("gt", FALSE, OneR1, FALSE, None)}}
GlsaNode(name, vuln, invuln, arch) == [name |-> name, vuln |-> vuln, invuln |-> invuln, arch |-> arch]
Listed == [name : {"n"}, ver : {One, OneR1, V(<<<<1, 0>>>>, 0, <<>>, 0), V(<<<<2>>>>, 0, <<>>, 1)}, slot : {x, y}, keywords : {{"x", "y"}}]
          \cup [name : {"n"}, ver : {One, OneR1}, slot : {x}, keywords : {{"x"}}]
          \cup [name : {"m"}, ver : {One}, slot : {x}, keywords : {{"x"}}]

Moves == {[op |-> "move", src |-> s, trg |-> t, good |-> TRUE] : s \in 1..3, t \in 1..3} \ {[op |-> "move", src |-> s, trg |-> s, good |-> TRUE] : s \in 2..3}
UpdateLines == Moves \cup {[op |-> "slotmove", src |-> s, trg |-> "s", good |-> TRUE] : s \in 1..3} \cup {[op |-> "move", src |-> 1, trg |-> 2, good |-> FALSE]}
UpdateFile(quarter, year, lines) == [name |-> <<quarter, year>>, lines |-> lines]

Kinds == {"glsa", "updates", "manifest", "request", "rewriting", "sent", "query", "searched", "closure", "tags", "address", "fetched", "stamped", "mounted", "xpak", "index", "perms", "debug", "dist", "binpkgs", "tmp", "unneeded", "archive", "written", "merged", "search", "lines", "config", "restriction", "depset", "versions", "atoms", "transitive", "nodes", "user", "tokens", "words", "package", "keywords", "licenses", "masks", "image"}
Init == case \in [kind : {"none"}, of : Kinds]
Choose ==
        /\ case.kind = "none"
        /\ \/ case.of = "archive" /\ \E t \in Archives : case' = [kind |-> "archive", t |-> t]
           \/ case.of = "written" /\ \E t \in Written : case' = [kind |-> "written", t |-> t]
           \/ case.of = "merged" /\ \E t \in Images : case' = [kind |-> "merged", t |-> t]
           \/ case.of = "dist" /\ \E o \in CleanOptions({{Source1}, {Source2}}) : case' = [kind |-> "dist", o |-> o]
           \/ case.of = "binpkgs" /\ \E o \in PkgOptions : case' = [kind |-> "binpkgs", o |-> o]
           \/ case.of = "tmp" /\ \E o \in TmpOptions, d \in SUBSET Dirs : case' = [kind |-> "tmp", o |-> o, d |-> d]
           \/ case.of = "unneeded" /\ \E l \in kSubset(3, UserLine) : case' = [kind |-> "unneeded", l |-> l]
           \/ case.of = "index" /\ \E m \in {"install", "uninstall", "replace"}, old \in Within({"i", "j"}, {"a"}, {9}), new \in Within({"i", "j"}, {"a", "b"}, {4, 10}) :
                 case' = [kind |-> "index", m |-> m, old |-> IF m = "install" THEN <<>> ELSE old, new |-> IF m = "uninstall" THEN <<>> ELSE new]
           \/ case.of = "perms" /\ \E e \in [uid : {"portage", "root"}, gid : {"portage", "man"}, mode : Modes, link : BOOLEAN] : case' = [kind |-> "perms", e |-> e]
           \/ case.of = "debug" /\ \E c \in Linked : case' = [kind |-> "debug", c |-> c]
           \/ case.of = "xpak" /\ \E d \in XpakData : case' = [kind |-> "xpak", d |-> d]
           \/ case.of = "address" /\ \E a \in Addresses : case' = [kind |-> "address", a |-> a]
           \/ case.of = "fetched" /\ \E tags \in {{"modified"}, {"etag", "modified"}}, tar \in BOOLEAN : \E q \in Runs({Served(1, tags, FALSE)}, {FALSE}, {1, 4, 6, 8}), r \in Runs(Servers(tags), BOOLEAN, 0..8) :
                 case' = [kind |-> "fetched", tags |-> tags, tar |-> tar, q |-> q, r |-> r]
           \/ case.of = "stamped" /\ \E a \in [content : {x}, stamp : Stamps], b \in [content : {y}, stamp : Stamps], c \in [content : {z}, stamp : Stamps \cup {None}] :
                 case' = [kind |-> "stamped", a |-> a, b |-> b, c |-> c]
           \/ case.of = "manifest" /\ \E t \in ManifestTexts, c \in ManifestConf : case' = [kind |-> "manifest", t |-> t, c |-> c]
           \/ case.of = "manifest" /\ \E t \in SignedTexts : case' = [kind |-> "signed", t |-> t]
           \/ case.of = "request" /\ \E r \in Releases, l \in RequestLines : case' = [kind |-> "request", r |-> r, l |-> l]
           \/ case.of = "rewriting" /\ \E r \in RawLines : case' = [kind |-> "rewriting", r |-> r]
           \/ case.of = "sent" /\ \E c \in Sender, n \in {"GET", "POST"} : case' = [kind |-> "sent", c |-> c, n |-> n]
           \/ case.of = "query" /\ \E q \in Queries : case' = [kind |-> "query", q |-> q]
           \/ case.of = "searched" /\ \E q \in Paged : case' = [kind |-> "searched", q |-> q]
           \/ case.of = "closure" /\ \E d \in [1..3 -> SUBSET (1..3)] : case' = [kind |-> "closure", d |-> d]
           \/ case.of = "tags" /\ \E c \in Comments : case' = [kind |-> "tags", c |-> c]
           \/ case.of = "tags" /\ \E c \in ListChanges : case' = [kind |-> "change", c |-> c]
           \/ case.of = "mounted" /\ \E o \in MountTools : case' = [kind |-> "mounted", o |-> o]
           \/ case.of = "glsa" /\ \E r \in Ranges, i \in Unaffected : \E a \in IF i = {} THEN {{}, {"y"}} ELSE {{"y", "*"}} : case' = [kind |-> "glsa", n |-> GlsaNode("n", {r}, i, a)]
           \/ case.of = "updates" /\ \E k \in UpdateLines, l \in UpdateLines : case' = [kind |-> "updates", l |-> <<k, l>>]
           \/ case.of = "search" /\ \E r \in Searches : case' = [kind |-> "search", r |-> r]
           \/ case.of = "lines" /\ \E t \in Texts : case' = [kind |-> "lines", t |-> t]
           \/ case.of = "config" /\ \E a \in Sections("a"), b \in Sections("b"), c \in Lasts, over \in Overlays :
                 case' = [kind |-> "config", a |-> a, b |-> b, c |-> c, over |-> over]
           \/ case.of = "restriction" /\ \E r \in Restricts : case' = [kind |-> "restriction", r |-> r]
           \/ case.of = "depset" /\ \E r \in Depsets : case' = [kind |-> "depset", r |-> r]
           \/ case.of = "versions" /\ \E a \in VersionAtoms, b \in VersionAtoms : case' = [kind |-> "versions", a |-> a, b |-> b]
           \/ case.of = "atoms" /\ \E s \in {UseAtoms, SlotAtoms} : \E a \in s, b \in s : case' = [kind |-> "atoms", a |-> a, b |-> b]
           \/ case.of = "transitive" /\ \E t \in Varied : case' = [kind |-> "transitive", t |-> t]
           \/ case.of = "nodes" /\ \E n \in NodePairs : case' = [kind |-> "nodes", n |-> n]
           \/ case.of = "user" /\ \E l \in UpTo(UserLines, 2) \cup [1..3 -> LinesOf({P!Simple("a"), P!AlwaysTrue}, {<<{}, {F(x)}>>, <<{F(x)}, {F(y)}>>})],
                 c \in {<<>>, <<P!Chunk(Versioned({1}), {F(x)}, {F(y)})>>} : case' = [kind |-> "user", l |-> l, n |-> c]
           \/ case.of = "tokens" /\ \E t \in UpTo(Words, 2), u \in UpTo(Words, 1), v \in UpTo(Words, 1) : case' = [kind |-> "tokens", t |-> t, u |-> u, v |-> v]
           \/ case.of = "words" /\ \E i \in UpTo(Items, 4) : case' = [kind |-> "words", i |-> i]
           \/ case.of = "package" /\ \E u \in Globals, v \in Globals, l \in UpTo(UserLines, 1), k \in {{<<"", x>>}, {<<"~", x>>}}, a \in {{}, {<<"~", x>>}} :
                 case' = [kind |-> "package", u |-> u, v |-> v, l |-> l, k |-> k, a |-> a]
           \/ case.of = "keywords" /\ \E l \in UpTo(KwLines, 2), a \in {{<<"", x>>}, {<<"~", x>>}, {}} : case' = [kind |-> "keywords", l |-> l, a |-> a]
           \/ case.of = "licenses" /\ \E t \in UpTo(LicenseWords, 3) : case' = [kind |-> "licenses", t |-> t]
           \/ case.of = "masks" /\ \E r \in SUBSET Keys, p \in UpTo(Pairs, 2), u \in {{}, {P!Simple("b")}} : case' = [kind |-> "masks", r |-> r, p |-> p, u |-> u]
           \/ case.of = "image" /\ \E b \in BOOLEAN : case' = [kind |-> "image", st |-> I!NewBuild, n |-> 0, eapi |-> Eapi(b)]
Build ==
         /\ case.kind = "image" /\ case.n < (IF case.eapi = Eapi(TRUE) THEN 2 ELSE 1) /\ case.st.err = "none"
         /\ \E c \in ImageCalls : case' = [case EXCEPT !.st = I!Call(case.st, c, case.eapi), !.n = @ + 1]
Next == Choose \/ Build
Spec == Init /\ [][Next]_case

(***************************************************************************)
(* What asks which packages something is about gives what it stands for:    *)
(* restrictions, dependencies, REQUIRED_USE, versions, atoms, searches,     *)
(* advisories, requests to keyword, queries to Bugzilla.  The exceptions    *)
(* are those of the definitions below: of intersections (Unsure, Loose)     *)
(* pairs of ranges, and globs beside ranges, versions written in two ways   *)
(* or with a revision, are only held to half of it or to nothing; negations *)
(* that mislead narrowing (Misleads); ranges of advisories that are read    *)
(* for others (Misread); and the limits of queries.                         *)
(***************************************************************************)
MatchingAgrees ==
    /\ case.kind = "restriction" =>
         /\ R!FormsAgree(case.r, Flags)
         /\ \A want \in BOOLEAN, on \in SUBSET Flags, fixed \in {{}, {x}, {y, z}}, changed \in {{}, {y}} :
              R!ForceIsHonest(case.r, [on |-> on, fixed |-> fixed, changed |-> changed], want)
    /\ case.kind = "depset" =>
         /\ R!ConditionalsAgree(case.r, Flags)
         /\ R!ConstraintsAgree(case.r, Flags)
    /\ case.kind = "versions" =>
         /\ {case.a.op, case.b.op} = {"="} => A!VersionsOrdered(case.a.ver, case.b.ver, Versions)
         /\ A!IntersectsAgrees(case.a, case.b, VersionPkgs)
    /\ case.kind = "atoms" =>
         /\ A!IntersectsAgrees(case.a, case.b, OtherPkgs)
         /\ case.a = case.b => \A o \in BOOLEAN, s \in BOOLEAN : A!EapisGrow(case.a, o, s)
    /\ case.kind = "transitive" => A!TransitiveAgrees(case.t, {x, y})
    /\ case.kind = "search" =>
         \A repo \in Repos :
           /\ S!SearchFinds(repo, case.r)
           /\ S!MappingsAgree(Filter(repo, case.r, TRUE))
    /\ case.kind = "lines" => S!ParseAgrees(case.t, Held \cup Held2, <<"1", "2">>)
    /\ case.kind = "glsa" =>
         GL!GlsaAgrees({[valid |-> TRUE, nodes |-> {case.n, GlsaNode("n", {RangeOf("eq", FALSE, V(<<<<1, 0>>>>, 0, <<>>, 0), FALSE, None)}, {}, {"*", "y"})}],
                        [valid |-> FALSE, nodes |-> {GlsaNode("m", case.n.vuln, {}, {})}]}, Listed)
    /\ case.kind = "request" =>
         \A l \in RequestLines, ask \in Asks :
           /\ Q!FiltersArePointwise(case.r, <<case.l, l>>, ask)
           /\ Q!RequestsAreSound(case.r, <<case.l, l>>, ask)
           /\ Q!ExpandingChangesNothing(case.r, <<case.l, l>>, ask)
    /\ case.kind = "rewriting" => \A w \in UpTo({"b", "c"}, 2) : Q!RewritingAgrees(case.r, w)
    /\ case.kind = "query" => \A r \in Queries, room \in 0..3 : B!QueriesAgree(case.q, r, room, ToSet(Bugs))
    /\ case.kind = "searched" => \A room \in {1, 4}, served \in UpTo(Lists, 2) \ {<<>>} : B!SearchAgrees(case.q, room, served)
    /\ case.kind = "closure" => \A from \in SUBSET (1..2), visible \in UpTo(SUBSET (1..3), 2) \ {<<>>} : B!ClosureAgrees(from, 1..3, case.d, visible)
    /\ case.kind = "none" => \A second \in {T2, Masked(T1), Multi(<<T1, T2>>)}, third \in {T2, Multi(<<T2>>), Masked(T2)} : S!GroupAgrees(T1, second, third)

(***************************************************************************)
(* What is stacked gives what its lines say one after another, in the order *)
(* the code has: nodes of profiles, settings of the user, keywords,         *)
(* licenses, masks, sections of the configuration, update files.  In two    *)
(* places docstrings have another order: package.use of a profile before    *)
(* make.conf (domain.py:625-629), of which UserAgrees says where it makes a *)
(* difference; and what an autoload brings below what brought it            *)
(* (central.py:342-344), on top of which the code puts it (Integrate).      *)
(***************************************************************************)
StackingAgrees ==
    /\ case.kind = "nodes" => P!NodesAgree(case.n)
    /\ case.kind = "user" =>
         \A t \in {P!On(F(x)), P!Off(F(x))} : P!UserAgrees({t, P!On(InGroup(y))}, Node(Nothing, case.n, Nothing, <<>>, FALSE), case.l, {F(z)})
    /\ case.kind = "tokens" =>
         P!TokensAgree(Tree, [a |-> case.t, b |-> case.u, c |-> <<P!Off(F(y)), P!On(F(z))>>], "c", <<P!On(F(x)), P!On(F(y))>>, case.v, {F(x), F(y)})
    /\ case.kind = "words" => P!SplitterAgrees(case.i, {F(x), F(y), InGroup(x), InGroup(z)})
    /\ case.kind = "package" =>
         \A plus \in {{}, {F(y), InGroup(x)}}, set \in {{}, {"e"}} :
           P!PackageAgrees({F(x), F(y), InGroup(x), InGroup(y)}, plus, set, case.k, case.a, Node(case.u, case.l, case.v, <<>>, TRUE),
               {P!On(InGroup(Star)), P!On(F(x))}, case.l, x, Node(case.v, <<>>, case.u, case.l, TRUE))
    /\ case.kind = "keywords" => \A k \in SUBSET Kw : P!KeywordsAgree(case.a, case.l, x, k)
    /\ case.kind = "licenses" => \A s \in SUBSET {{}, {F(x)}, {F(x), F(y)}, {F(z)}} : P!LicensesAgree(case.t, Licenses, s)
    /\ case.kind = "masks" =>
         /\ P!SystemAgrees(case.p)
         /\ P!MasksAgree(Pair(FALSE, {}, case.r), case.p, case.u, case.p, {})
         /\ P!MasksAgree(Pair(FALSE, {}, case.r), <<>>, {P!Simple("a")}, case.p, case.u)
    /\ case.kind = "unneeded" => \A o \in {[leave |-> {}], [leave |-> {Shown}]} : K!LinesAgree(o, case.l, Shown, {})
    /\ case.kind = "updates" =>
         \A k \in UpdateLines, l \in UpdateLines :
           U!UpdatesAgree(<<UpdateFile(2, 2019, case.l), [name |-> <<0>>, lines |-> <<l>>], UpdateFile(1, 2020, <<k>>), UpdateFile(2, 2020, <<l>>)>>, 3)
    /\ case.kind = "change" => \A d \in ListChanges, list \in SUBSET {x, y} : B!ChangesAgree(case.c, d, list)
    /\ case.kind = "config" =>
         \A first \in ConfigCalls, second \in {<<"item", "a">>, <<"default", None>>} :
           C!HistoryIsForgotten(<<Source(case)>>, first, <<case.over>>, second, Extra, IF first[1] = "item" THEN {"c"} ELSE {})

(***************************************************************************)
(* What is written, kept or removed is what is to be: images, archives,     *)
(* content sets, indexes, modes, debug data, distfiles, trees that are      *)
(* synced, Manifests, xpaks, bugs.  The exceptions are named with each      *)
(* definition; of syncing, answers over http that were cut short, and runs  *)
(* of rsync that were not forced and broke off.                             *)
(***************************************************************************)
FilesAgree ==
    /\ case.kind = "image" /\ case.st.err = "none" =>
         \A c \in IF case.n < 2 THEN ImageCalls ELSE {d \in ImageCalls : d.dest # <<"usr", "d">>} : I!OnlyWhatIsAsked(case.st, c, case.eapi)
    /\ case.kind = "archive" => D!ArchiveAgrees(case.t, 4)
    /\ case.kind = "written" =>
         \A order \in SetToSeqs(DOMAIN case.t \ D!OfKind(case.t, "dir")) : D!TarAgrees(case.t, order)
    /\ case.kind = "merged" => \A disk \in Disks : D!DiskAgrees(case.t, disk)
    /\ case.kind = "dist" =>
         \A repo \in SUBSET {Source1, Source2, Source3}, installed \in SUBSET {Source3, Source4} :
           K!DistAgrees(case.o, repo, installed, {Foo1, Foo2, Lib1, Lib2, Digits, Odd, FooBar})
    /\ case.kind = "binpkgs" =>
         \A repos \in SUBSET {Bin("a", "r", 1, 3), Bin("a", "s", 1, 3), Bin("b", "r", 2, 3)}, installed \in {{}, {Bin("a", "r", 1, 3)}} :
           K2!PkgAgrees(case.o, {Bin("a", "r", 1, 1), Bin("a", "s", 2, 2), Bin("b", "r", 1, 2)}, repos, installed)
    /\ case.kind = "tmp" =>
         \A failing \in SUBSET case.d : K3!TmpAgrees(case.o, [dirs |-> case.d, categories |-> {d.category : d \in case.d}, ret |-> 0], failing)
    /\ case.kind = "index" =>
         \A others \in SUBSET {"o"}, mtime \in {0, 8, 9, 20}, t \in Moments :
           G!IndexAgrees(case.m, Before(case.old, others, mtime), case.new, case.old, t)
    /\ case.kind = "perms" => \A o \in PermOrders : G!PermsAgree(case.e, o, PermOrders)
    /\ case.kind = "debug" =>
         \A failing \in {{}, {<<1>>}} : \A first \in {{<<1>>, <<2>>}, {<<1>>, <<1, 1>>}, {<<2>>}} :
           (\A g \in G!Groups(case.c) : Cardinality(g \cap first) <= 1 /\ \A l \in g, k \in g : case.c[l] = case.c[k]) =>
             G!DebugAgrees(case.c, first, failing)
    /\ case.kind = "address" => \A enabled \in Tools : \A m \in IF case.a.names = <<"git">> THEN Marks ELSE {{}} : Y!ChoiceAgrees(case.a, m, enabled)
    /\ case.kind = "fetched" =>
         \A s \in {Served(1, case.tags, FALSE), Served(2, case.tags, FALSE)} : Y!HttpAgrees(<<case.q, case.r, [server |-> s, force |-> FALSE, at |-> 8, killed |-> FALSE]>>, case.tar)
    /\ case.kind = "stamped" => \A look \in {<<0>>, <<30>>}, e \in Exits, force \in BOOLEAN, zone \in {-60, 0, 60} :
           Y!TimestampAgrees(case.a, case.b, e, case.c, look, force, zone)
    /\ case.kind = "mounted" =>
         \A mounted \in BOOLEAN, archive \in BOOLEAN, others \in UpTo({"true", "user", "other", "unsupported"}, 2), path \in {None, "dir", "file"}, exit \in {0, 1} :
           Y!ReposAgree(mounted, archive, case.o, <<Y!VcsSync(path, exit).ret>> \o others)
    /\ case.kind = "xpak" => \A file \in Files, d \in XpakData : X!XpakAgrees(file, d, case.d)
    /\ case.kind = "sent" => \A o \in [1..3 -> Outcomes] : B!SendingAgrees(case.c, case.n, o)
    /\ case.kind = "tags" => \A cut \in 0..3 : B!TaggingAgrees(case.c, x, cut)
    /\ case.kind = "manifest" =>
         \A versions \in [1..2 -> SUBSET {"f", "g"}], matched \in {{1}, {1, 2}}, upstream \in [{"f", "g"} -> Upstream], dir \in {PackageDir} \cup {PackageDir \cup {Object("patch", "other", TRUE, FALSE)}} :
           M!ManifestAgrees([file |-> case.t, data |-> None, err |-> "none", thin |-> case.c.thin, gpg |-> FALSE, allowMissing |-> FALSE], versions, matched, case.c, upstream, dir)
    /\ case.kind = "signed" => \A rest \in SignedTexts \cup {<<M!Piece("message"), M!Piece("hash"), M!Piece("blank"), DistLine("f", 1, {"size", "a"})>>} : M!SignedAgrees(case.t, rest)
=============================================================================
