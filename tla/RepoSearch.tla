------------------------------ MODULE RepoSearch ------------------------------
(***************************************************************************)
(* Searching repositories (repository/): how a restriction is narrowed to  *)
(* the category/package pairs worth looking at, what the filtered, the     *)
(* multiplexed and the wrapped repositories make of a search, and the      *)
(* restriction that a line of a configuration file or an argument stands   *)
(* for (util/parserestrict.py).                                            *)
(*                                                                         *)
(* A package is a record of its attributes.  A restriction is one of       *)
(*   [kind |-> "pkg", attr, vals, exact, vneg, neg]                        *)
(*        PackageRestriction, of the values that the value restriction,    *)
(*        negated or not, is about; exact when it is a StrExactMatch       *)
(*   the groups and Negate of Restrictions; an atom is the "and" of its    *)
(*   restrictions, with [atom |-> TRUE]                                    *)
(* A repository is one of                                                  *)
(*   [kind |-> "tree", id, virtual, pkgs]                                  *)
(*   [kind |-> "filter", raw, restrict, sentinel]                          *)
(*   [kind |-> "multi", trees]                                             *)
(***************************************************************************)
EXTENDS Naturals, Sequences, SequencesExt, FiniteSets

CONSTANTS None,  \* no value
          Star   \* the glob that matches whatever there is

R == INSTANCE Restrictions

Leaf(attr, vals, exact, vneg, neg) ==
    [kind |-> "pkg", attr |-> attr, vals |-> vals, exact |-> exact, vneg |-> vneg, neg |-> neg]
Exactly(attr, v) == Leaf(attr, {v}, TRUE, FALSE, FALSE)
And(of) == R!Group("and", FALSE, of)
AsAtom(of) == And(of) @@ [atom |-> TRUE]
IsAtom(r) == "atom" \in DOMAIN r
AlwaysTrue == [kind |-> "always", yes |-> TRUE, neg |-> TRUE]

ValueMatches(r, v) == (v \in r.vals) # r.vneg

RECURSIVE Match(_, _)
Match(r, p) ==
    LET hits == {i \in DOMAIN r.of : Match(r.of[i], p)} IN
    CASE r.kind = "pkg"    -> ValueMatches(r, p[r.attr]) # r.neg
      [] r.kind = "always" -> r.yes
      [] r.kind = "not"    -> ~Match(r.of, p)
      [] r.kind = "and"    -> R!AndRestriction(hits, r.of, r.neg)
      [] r.kind = "or"     -> R!OrRestriction(hits, r.neg)

-----------------------------------------------------------------------------
(* Which pairs may hold a match.                                           *)

\* The restrictions on attr, of the groups' members too: a Negate is not looked into.
RECURSIVE Collect(_, _)
Collect(r, attr) ==
    IF r.kind \in R!Groups THEN UNION {Collect(r.of[i], attr) : i \in DOMAIN r.of}
    ELSE IF r.kind = "pkg" /\ r.attr = attr THEN {r} ELSE {}

Pairs(pkgs) == {<<p.category, p.package>> : p \in pkgs}

\* What is narrowed to: any of the restrictions will do, and those that are exact are set
\* aside, for nothing when the whole is negated.
Narrowed(r, attr, values) ==
    LET all == Collect(r, attr)
        exact == {l \in all : l.exact /\ ~l.vneg}
        names == IF r.neg THEN {} ELSE UNION {l.vals : l \in exact}
        rest == all \ exact
    IN IF rest = {} THEN IF names = {} THEN values ELSE names
       ELSE {v \in values : v \in names \/ \E l \in rest : ValueMatches(l, v) # r.neg}

FastIdentifyCandidates(r, pkgs) ==
    Narrowed(r, "category", {p.category : p \in pkgs})
      \X Narrowed(r, "package", {p.package : p \in pkgs})

\* By the normal form, what cannot be told apart by the category or by the package is not:
\* each solution has to name one for the search to be narrowed by it.
CandidatesOf(solutions, r, pkgs) ==
    LET named(attr) == {s \in solutions : Collect(s, attr) # {}}
        uniform(attr) == named(attr) \in {{}, solutions}
        matching(attr) ==
          {c \in Pairs(pkgs) : \E s \in solutions : \E l \in Collect(s, attr) :
             ValueMatches(l, IF attr = "category" THEN c[1] ELSE c[2])}
    IN IF named("category") \cup named("package") # solutions THEN Pairs(pkgs)
       ELSE CASE uniform("category") /\ uniform("package")   -> FastIdentifyCandidates(r, pkgs)
              [] uniform("category") /\ ~uniform("package")  -> matching("category")
              [] ~uniform("category") /\ uniform("package")  -> matching("package")
              [] ~uniform("category") /\ ~uniform("package") -> Pairs(pkgs)
IdentifyCandidates(r, pkgs) ==
    IF r.kind \in {"and", "or"} THEN CandidatesOf({And(s) : s \in ToSet(R!Dnf(r))}, r, pkgs)
    ELSE FastIdentifyCandidates(r, pkgs)

Candidates(r, pkgs) ==
    IF IsAtom(r)
      THEN {<<CHOOSE c \in r.of[1].vals : TRUE, CHOOSE n \in r.of[2].vals : TRUE>>}
      ELSE IdentifyCandidates(r, pkgs)

Search(r, pkgs) ==
    LET candidates == Candidates(r, pkgs) IN
    {p \in pkgs : <<p.category, p.package>> \in candidates /\ Match(r, p)}

-----------------------------------------------------------------------------
(* Repositories made of repositories.                                      *)

RECURSIVE Itermatch(_, _)
Itermatch(repo, r) ==
    CASE repo.kind = "tree"   -> Search(r, repo.pkgs)
      [] repo.kind = "filter" -> {p \in Itermatch(repo.raw, r) : Match(repo.restrict, p) = repo.sentinel}
      [] repo.kind = "multi"  -> UNION {Itermatch(repo.trees[i], r) : i \in DOMAIN repo.trees}

AtomOf(cp) == AsAtom(<<Exactly("category", cp[1]), Exactly("package", cp[2])>>)

\* The mappings, each filled by what is below it.  A filtered repository keeps the
\* categories that it shows nothing of.
RECURSIVE GetCategories(_), GetPackages(_, _), GetVersions(_, _)
GetCategories(repo) ==
    CASE repo.kind = "tree"   -> {p.category : p \in repo.pkgs}
      [] repo.kind = "filter" -> GetCategories(repo.raw)
      [] repo.kind = "multi"  -> UNION {GetCategories(repo.trees[i]) : i \in DOMAIN repo.trees}
GetPackages(repo, c) ==
    CASE repo.kind = "tree"   -> {p.package : p \in {q \in repo.pkgs : q.category = c}}
      [] repo.kind = "filter" -> {n \in GetPackages(repo.raw, c) : Itermatch(repo, AtomOf(<<c, n>>)) # {}}
      [] repo.kind = "multi"  -> UNION {GetPackages(repo.trees[i], c) : i \in DOMAIN repo.trees}
GetVersions(repo, cp) ==
    CASE repo.kind = "tree"   -> {p.version : p \in {q \in repo.pkgs : <<q.category, q.package>> = cp}}
      [] repo.kind = "filter" -> {p.version : p \in Itermatch(repo, AtomOf(cp))}
      [] repo.kind = "multi"  -> UNION {GetVersions(repo.trees[i], cp) : i \in DOMAIN repo.trees}

Versions(repo) ==
    UNION {{<<cp[1], cp[2], v>> : v \in GetVersions(repo, cp)} :
             cp \in UNION {{<<c, n>> : n \in GetPackages(repo, c)} : c \in GetCategories(repo)}}

RECURSIVE GetRawRepos(_)
GetRawRepos(repo) ==
    CASE repo.kind = "tree"   -> <<repo>>
      [] repo.kind = "filter" -> GetRawRepos(repo.raw)
      [] repo.kind = "multi"  -> FlattenSeq([i \in DOMAIN repo.trees |-> GetRawRepos(repo.trees[i])])

GetVirtualRepos(repos, sentinel) == SelectSeq(repos, LAMBDA x : x.virtual = sentinel)

\* A group of repositories, [repos, combined], the combined one with the trees of all; what
\* it has it does not take again.  A multiplexed repository is taken as one of the trees.
NewGroup(repos) == [repos |-> repos, combined |-> [kind |-> "multi", trees |-> repos]]
AddRepo(group, repo) ==
    IF Contains(group.repos, repo) THEN group
    ELSE [repos |-> Append(group.repos, repo),
          combined |-> IF Contains(group.combined.trees, repo) THEN group.combined
                       ELSE [group.combined EXCEPT !.trees = Append(@, repo)]]
AddBefore(group, repo) ==
    IF Contains(group.repos, repo) THEN group
    ELSE [repos |-> <<repo>> \o group.repos,
          combined |-> IF repo.kind = "multi"
                         THEN IF Contains(repo.trees, group.combined) THEN repo
                              ELSE [repo EXCEPT !.trees = Append(@, group.combined)]
                         ELSE IF Contains(group.combined.trees, repo) THEN group.combined
                              ELSE [group.combined EXCEPT !.trees = <<repo>> \o @]]

-----------------------------------------------------------------------------
(* What a line stands for.  A text is [op, category, package, version,     *)
(* slot, subslot, repo, block]: a chunk is None when it is not there,      *)
(* Star, a word, or a glob [glob |-> the values it matches].               *)

IsGlob(chunk) == chunk \notin {None, Star} /\ "glob" \in DOMAIN chunk
Globbed(chunk) == chunk = Star \/ IsGlob(chunk)
Word(w) == [word |-> w]

\* Of one chunk: nothing when it matches whatever there is.
ConvertGlob(attr, chunk) ==
    CASE chunk \in {None, Star} -> <<>>
      [] IsGlob(chunk)          -> <<Leaf(attr, chunk.glob, FALSE, FALSE, FALSE)>>
      [] OTHER                  -> <<Exactly(attr, chunk.word)>>

\* versions: those there are, in ascending order.
VersionMatch(op, version, versions) ==
    LET at == CHOOSE i \in DOMAIN versions : versions[i] = version IN
    CASE op = "="  -> {version}
      [] op = ">=" -> {versions[i] : i \in at..Len(versions)}
      [] op = "<"  -> {versions[i] : i \in 1..(at - 1)}

OfVersion(text, versions) ==
    IF text.op = None THEN <<>>
    ELSE <<Leaf("version", VersionMatch(text.op, text.version, versions), FALSE, FALSE, FALSE)>>

ParseError == [kind |-> "ParseError"]

\* The rest of a text, after the slot, the subslot and the repository.
Restricted(text) ==
    ConvertGlob("repo", text.repo) \o ConvertGlob("slot", text.slot) \o ConvertGlob("subslot", text.subslot)
Alone(rs) == IF Len(rs) = 1 THEN rs[1] ELSE And(rs)

\* An atom has a version when it has an operator, and no globs.
IsValidAtom(text) ==
    /\ (text.op = None) = (text.version = None)
    /\ text.package # None
    /\ ~Globbed(text.category) /\ ~Globbed(text.package)
    /\ ~IsGlob(text.slot) /\ ~Globbed(text.subslot) /\ ~Globbed(text.repo)

\* parse_match when there is no category: the one of the atom is made up and left out.
ParsePackage(text, versions) ==
    LET bare == [text EXCEPT !.slot = None, !.subslot = None, !.repo = None]
        name == ConvertGlob("package", text.package)
    IN CASE text.op = None /\ Globbed(text.package) ->
              Alone(Restricted(text) \o IF name = <<>> THEN <<AlwaysTrue>> ELSE name)
         [] text.op # None /\ Globbed(text.package) -> ParseError
         [] ~Globbed(text.package) ->
              IF IsValidAtom(bare) THEN Alone(Restricted(text) \o name \o OfVersion(text, versions))
              ELSE ParseError

ParsePair(text) ==
    LET chunks == ConvertGlob("category", text.category) \o ConvertGlob("package", text.package) IN
    Alone(Restricted(text) \o IF chunks = <<>> THEN <<AlwaysTrue>> ELSE chunks)

\* The operator and the version are taken off, and what is left is parsed: what was taken
\* off before is not put back.
ParseGlobbedVersion(text, versions) ==
    IF text.version = None THEN ParseError
    ELSE And(OfVersion(text, versions)
             \o <<ParsePair([text EXCEPT !.op = None, !.version = None,
                                         !.slot = None, !.subslot = None, !.repo = None])>>)

ParseMatch(text, versions) ==
    LET globbed == Globbed(text.category) \/ Globbed(text.package) IN
    CASE text.block -> ParseError
      [] ~text.block /\ text.category = None -> ParsePackage(text, versions)
      [] ~text.block /\ text.category # None ->
           CASE text.op = None /\ globbed -> ParsePair(text)
             [] ~(text.op = None /\ globbed) /\ IsValidAtom(text) ->
                  AsAtom(ConvertGlob("category", text.category) \o ConvertGlob("package", text.package)
                         \o OfVersion(text, versions) \o Restricted(text))
             [] ~(text.op = None /\ globbed) /\ ~IsValidAtom(text) ->
                  IF globbed THEN ParseGlobbedVersion(text, versions) ELSE ParseError

-----------------------------------------------------------------------------
\* What the narrowing takes at its word although it is negated: a PackageRestriction in a
\* group that is negated itself, and what a negated AND in a group says of a category or
\* of a package.  Nothing in the program makes either.
RECURSIVE Misleads(_)
Misleads(r) ==
    /\ r.kind \in R!Groups
    /\ \E i \in DOMAIN r.of :
         LET of == r.of[i] IN
         \/ of.kind = "pkg" /\ of.neg
         \/ of.kind = "and" /\ of.neg /\ Collect(of, "category") \cup Collect(of, "package") # {}
         \/ Misleads(of)

\* A search of a repository, whatever it is made of, finds what matches of what it holds,
\* nothing that it does not; and the mappings list what a search for everything finds.
\* What matches is told by the packages, each on its own: a narrowing that drops one that
\* matches hides it from the resolver as if it were not there.
Holds(repo) == {p \in UNION {t.pkgs : t \in ToSet(GetRawRepos(repo))} :
    LET RECURSIVE Has(_)
        Has(x) == CASE x.kind = "tree"   -> p \in x.pkgs
                    [] x.kind = "filter" -> Has(x.raw) /\ Match(x.restrict, p) = x.sentinel
                    [] x.kind = "multi"  -> \E i \in DOMAIN x.trees : Has(x.trees[i])
    IN Has(repo)}
SearchFinds(repo, r) ==
    Misleads(r) \/ Itermatch(repo, r) = {p \in Holds(repo) : Match(r, p)}
MappingsAgree(repo) ==
    Versions(repo) = {<<p.category, p.package, p.version>> : p \in Itermatch(repo, AlwaysTrue)}

\* A group shows what its repositories do, in whatever order they came, and as virtual or
\* as real just those that are one or the other.
GroupAgrees(first, second, third) ==
    LET group == AddBefore(AddRepo(NewGroup(<<first>>), second), third)
        raw == GetRawRepos(group.combined)
    IN /\ Itermatch(group.combined, AlwaysTrue) = UNION {Itermatch(x, AlwaysTrue) : x \in ToSet(group.repos)}
       /\ ToSet(GetVirtualRepos(raw, TRUE)) \cup ToSet(GetVirtualRepos(raw, FALSE)) = ToSet(raw)
       /\ Holds(group.combined) \subseteq UNION {x.pkgs : x \in ToSet(raw)}

\* A line matches what each of its parts does, unless it is refused; the slot and the
\* repository of a glob with a version are lost, so that it matches more.
Says(text, p, versions) ==
    LET part(attr) == LET c == ConvertGlob(attr, text[attr]) IN c = <<>> \/ Match(c[1], p) IN
    /\ \A attr \in {"category", "package", "slot", "subslot", "repo"} : part(attr)
    /\ text.op # None => p.version \in VersionMatch(text.op, text.version, versions)
LosesParts(text) ==
    /\ text.op # None /\ (Globbed(text.category) \/ Globbed(text.package))
    /\ {text.slot, text.subslot, text.repo} # {None}
ParseAgrees(text, pkgs, versions) ==
    LET r == ParseMatch(text, versions)
        meant == {p \in pkgs : Says(text, p, versions)}
    IN \/ r = ParseError
       \/ LosesParts(text) /\ meant \subseteq Search(r, pkgs)
       \/ ~LosesParts(text) /\ Search(r, pkgs) = meant
===============================================================================
