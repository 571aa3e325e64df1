------------------------------ MODULE Requests ------------------------------
(***************************************************************************)
(* Requests to keyword or to stabilise packages: the package list of a bug *)
(* (bugzilla/pkglist.py, bug.py) and what it asks for (keywording.py).     *)
(***************************************************************************)
EXTENDS Naturals, Sequences, SequencesExt, FiniteSets, FiniteSetsExt

CONSTANTS None, Arches, Prefixed

\* A keyword is its mark and an architecture; a written word may also be one of the three signs.
Stable(a) == <<"", a>>
All == Stable("*")
Same == Stable("^")
No == Stable("-")
Known == {Stable(a) : a \in Arches}
Bare(w) == IF w[1] = "~" THEN <<"", w[2]>> ELSE w
Without(words, w) == SelectSeq(words, LAMBDA v : v # w)
Only(words, keep) == SelectSeq(words, LAMBDA v : v \in keep)

-----------------------------------------------------------------------------
(* A package: key, ver, live, keywords.  A spec: key, ver (None: any),     *)
(* slot (whether it names one).                                            *)

Match(repo, dep) == {p \in repo : p.key = dep.key /\ dep.ver \in {None, p.ver}}
Newest(pkgs) == CHOOSE p \in pkgs : \A q \in pkgs : q.ver <= p.ver
SelectBestVersion(matches) ==
    LET keyworded == {p \in matches : p.keywords # {}}
        released == {p \in matches : ~p.live}
    IN IF matches = {} THEN None
       ELSE Newest(IF keyworded # {} THEN keyworded ELSE IF released # {} THEN released ELSE matches)

ArchesOf(p, marks) == {k[2] : k \in {l \in p.keywords : l[1] \in marks}}
SuggestedKeywords(repo, pkg, stable) ==
    LET others == UNION {ArchesOf(p, IF stable THEN {""} ELSE {"", "~"}) : p \in {q \in repo : q.key = pkg.key}}
    IN (IF stable THEN others \cap ArchesOf(pkg, {"~"}) ELSE others \ ArchesOf(pkg, {"", "~", "-"})) \ Prefixed
Sorted(arches) == SetToSeq({Stable(a) : a \in arches})

CanStabilizeAllarches(repo, requests) ==
    \A r \in ToSet(requests) : \A k \in ToSet(r.keywords) : \E p \in repo : p.key = r.pkg.key /\ k \in p.keywords

-----------------------------------------------------------------------------
(* match_packages.  ask: stable, cc (a sequence), onlyNew, filter (a set), *)
(* allarches.  st is what it has come to, line by line.                    *)

Start == [out |-> <<>>, err |-> "none", previous |-> None, already |-> FALSE, filtered |-> FALSE, yielded |-> FALSE, bare |-> {}]
Carried(pkg, k, stable) == k \in pkg.keywords \/ (~stable /\ <<"~", k[2]>> \in pkg.keywords)

Narrowed(ask, words) == IF words = <<>> \/ ask.cc = <<>> THEN words ELSE Only(words, ToSet(ask.cc))
Addressed(ask, words) == IF words = <<>> THEN ask.cc ELSE Narrowed(ask, words)
Fresh(ask, pkg, words) == IF ask.onlyNew THEN SelectSeq(words, LAMBDA k : ~Carried(pkg, k, ask.stable)) ELSE words
Filtered(ask, repo, pkg, words) ==
    LET kept == Only(words, ask.filter)
        more == IF ask.allarches /\ ask.stable THEN Sorted(SuggestedKeywords(repo, pkg, TRUE)) ELSE <<>>
    IN IF ask.filter = {} THEN words ELSE kept \o SelectSeq(more, LAMBDA k : ~Contains(kept, k))

Expanded(repo, pkg, stable, words) ==
    IF Contains(words, All) THEN Sorted(SuggestedKeywords(repo, pkg, stable)) \o Without(words, All) ELSE words
Repeated(previous, words) == IF Contains(words, Same) THEN previous \o Without(words, Same) ELSE words

Fail(st, err) == [st EXCEPT !.err = err]
Request(st, pkg, words) == [st EXCEPT !.out = Append(@, [pkg |-> pkg, keywords |-> words])]

\* The rest of a line, once its package and its keywords are known.
Resolve(st, ask, repo, pkg, words) ==
    LET mine == Addressed(ask, words)
        new == Fresh(ask, pkg, mine)
        wanted == Filtered(ask, repo, pkg, new)
        after == [st EXCEPT !.previous = mine]
    IN IF ~(ToSet(words) \subseteq Known) THEN Fail(st, "KeywordNoMatch")
       ELSE IF words # <<>> /\ mine = <<>> THEN st
       ELSE IF mine = <<>> THEN [Request(st, pkg, mine) EXCEPT !.bare = @ \cup {SuggestedKeywords(repo, pkg, ask.stable) # {}}]
       ELSE IF new = <<>> THEN [after EXCEPT !.already = TRUE]
       ELSE IF wanted = <<>> THEN [after EXCEPT !.filtered = TRUE]
       ELSE [Request(after, pkg, wanted) EXCEPT !.yielded = TRUE]

Line(st, ask, repo, line) ==
    LET matched == Match(repo, line.dep)
        pkg == IF ask.stable /\ matched # {} THEN CHOOSE p \in matched : TRUE ELSE SelectBestVersion(matched)
        words == [i \in DOMAIN line.words |-> Bare(line.words[i])]
        expanded == Expanded(repo, pkg, ask.stable, words)
    IN IF st.err # "none" THEN st
       ELSE IF ask.stable /\ (line.dep.ver = None \/ line.dep.slot) THEN Fail(st, "PackageInvalid")
       ELSE IF pkg = None THEN Fail(st, "PackageNoMatch")
       ELSE IF Contains(words, No) THEN st
       ELSE IF Contains(expanded, Same) /\ st.previous = None THEN Fail(st, "KeywordNoMatch")
       ELSE Resolve(st, ask, repo, pkg, Repeated(st.previous, expanded))

Outcome(st) ==
    IF st.err # "none" THEN st.err
    ELSE IF TRUE \in st.bare THEN "KeywordNotSpecified"
    ELSE IF FALSE \in st.bare THEN IF st.yielded THEN "KeywordNotSpecified" ELSE "KeywordNoneLeft"
    ELSE IF st.yielded THEN "none"
    ELSE IF ~st.filtered /\ st.already THEN "PackageListDoneAlready" ELSE "PackageListEmpty"
MatchPackages(repo, lines, ask) ==
    LET st == FoldLeft(LAMBDA s, l : Line(s, ask, repo, l), Start, lines)
    IN [out |-> st.out, err |-> Outcome(st)]

-----------------------------------------------------------------------------
(* The package list.  A line is the pieces it is written with: blanks      *)
(* ("sp"), words, the sign of a comment ("#") and what follows it; words   *)
(* never touch.                                                            *)

CommentAt(raw) == LET at == {i \in DOMAIN raw : raw[i] = "#"} IN IF at = {} THEN Len(raw) + 1 ELSE Min(at)
Body(raw) == SubSeq(raw, 1, CommentAt(raw) - 1)
TokensAt(raw) == SelectSeq([i \in 1..Len(Body(raw)) |-> i], LAMBDA i : raw[i] # "sp")
Parse(raw) ==
    LET tokens == [i \in DOMAIN TokensAt(raw) |-> raw[TokensAt(raw)[i]]]
    IN [pkg |-> IF tokens = <<>> THEN None ELSE Head(tokens), keywords |-> IF tokens = <<>> THEN <<>> ELSE Tail(tokens),
        comment |-> SubSeq(raw, CommentAt(raw), Len(raw))]

Spaced(words) == FoldLeft(LAMBDA s, w : IF s = <<>> THEN <<w>> ELSE s \o <<"sp", w>>, <<>>, words)
WithKeywords(raw, words) ==
    LET at == TokensAt(raw)
        body == Body(raw)
        head == IF Len(at) > 1 THEN SubSeq(body, 1, at[2] - 1) ELSE SubSeq(body, 1, at[1]) \o IF words = <<>> THEN <<>> ELSE <<"sp">>
    IN IF at = <<>> THEN raw
       ELSE head \o Spaced(words) \o SubSeq(body, Last(at) + 1, Len(body)) \o SubSeq(raw, CommentAt(raw), Len(raw))

\* suggest[i]: what is suggested for the package of line i.
ExpandWord(w, suggest, previous) ==
    IF w = All THEN IF suggest = <<>> THEN <<No>> ELSE suggest
    ELSE IF w = Same THEN previous ELSE <<w>>
Expand(lines, suggest) ==
    LET step(acc, i) ==
            LET words == lines[i].words
                new == FoldLeft(LAMBDA s, w : s \o ExpandWord(w, suggest[i], acc.previous), <<>>, words)
            IN IF acc.err \/ (Contains(words, Same) /\ (acc.previous = None \/ (acc.previous = <<>> /\ Len(words) > 1)))
               THEN [acc EXCEPT !.err = TRUE]
               ELSE [acc EXCEPT !.previous = new, !.lines = Append(@, [lines[i] EXCEPT !.words = new])]
    IN FoldLeft(step, [err |-> FALSE, previous |-> None, lines |-> <<>>], [i \in DOMAIN lines |-> i])

-----------------------------------------------------------------------------
(* What is promised.                                                       *)

Pairs(r) == UNION {{<<q.pkg, k>> : k \in ToSet(q.keywords)} : q \in ToSet(r.out)}

\* Each architecture's share does not depend on who else is asked: a filter, or leaving out what is there
\* already, only takes pairs of a package and an architecture away, those it names.  A list that is
\* refused is refused whatever the filter, unless nothing is left to do.
FiltersArePointwise(repo, lines, ask) ==
    LET plain == [ask EXCEPT !.onlyNew = FALSE, !.filter = {}, !.allarches = FALSE]
        full == MatchPackages(repo, lines, plain)
        new == MatchPackages(repo, lines, [plain EXCEPT !.onlyNew = ask.onlyNew])
        part == MatchPackages(repo, lines, ask)
        nothing == {"KeywordNotSpecified", "KeywordNoneLeft", "PackageListEmpty", "PackageListDoneAlready"}
    IN /\ Pairs(new) = {q \in Pairs(full) : ask.onlyNew => ~Carried(q[1], q[2], ask.stable)}
       /\ LET own == {q \in Pairs(new) : ask.filter = {} \/ q[2] \in ask.filter} IN
            /\ own \subseteq Pairs(part)
            /\ \A q \in Pairs(part) \ own :
                 ask.allarches /\ ask.stable /\ <<"~", q[2][2]>> \in q[1].keywords /\ \E p \in repo : p.key = q[1].key /\ q[2] \in p.keywords
       /\ full.err \notin nothing /\ full.err # "none" => part.err = full.err
       /\ part.err # "none" /\ part.err \notin nothing => full.err = part.err
       /\ part.err = "PackageListDoneAlready" => ask.onlyNew /\ Pairs(full) # {}

\* Only architectures that exist, and only those asked when somebody is asked; where every line asks for
\* all there is, and that is something, one team may stabilise for all.
RequestsAreSound(repo, lines, ask) ==
    LET r == MatchPackages(repo, lines, ask)
        starred == \A i \in DOMAIN lines : lines[i].words = <<All>> /\ \A p \in Match(repo, lines[i].dep) : SuggestedKeywords(repo, p, TRUE) # {}
    IN /\ \A q \in Pairs(r) : q[2] \in Known /\ (ask.cc # <<>> /\ ~ask.allarches => q[2] \in ToSet(ask.cc))
       /\ ask.stable /\ starred => CanStabilizeAllarches(repo, r.out)

\* Writing the signs of a list out first does not change what it asks for, if every "*" has something to
\* stand for, no line marks itself as wanting nothing, and each line keeps something for the next to repeat.
ExpandingChangesNothing(repo, lines, ask) ==
    LET best(i) == SelectBestVersion(Match(repo, lines[i].dep))
        e == Expand(lines, [i \in DOMAIN lines |-> IF best(i) = None THEN <<>> ELSE Sorted(SuggestedKeywords(repo, best(i), ask.stable))])
        own(i) == [lines[i] EXCEPT !.words = Without(@, Same)]
        plain == \A i \in DOMAIN lines :
            /\ best(i) # None /\ lines[i].words # <<>> /\ ~Contains(lines[i].words, No)
            /\ Contains(lines[i].words, All) => SuggestedKeywords(repo, best(i), ask.stable) # {}
            /\ Line(Start, ask, repo, own(i)).previous # None \/ Contains(lines[i].words, Same)
            /\ \A w \in ToSet(lines[i].words) : w[1] = ""
    IN plain /\ ask.cc = <<>> =>
         LET a == MatchPackages(repo, lines, ask)
             b == MatchPackages(repo, e.lines, ask)
         IN IF e.err THEN a.err # "none" ELSE Pairs(a) = Pairs(b) /\ a.err = b.err

\* A line given other keywords is read back with them, and with the package and the comment it had.
RewritingAgrees(raw, words) ==
    Parse(raw).pkg # None => Parse(WithKeywords(raw, words)) = [Parse(raw) EXCEPT !.keywords = words]
=============================================================================
