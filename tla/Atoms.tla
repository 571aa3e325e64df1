------------------------------- MODULE Atoms -------------------------------
(***************************************************************************)
(* Versions, packages and atoms (ebuild/cpv.py, ebuild/restricts.py,       *)
(* ebuild/atom.py): how versions are ordered, which packages an atom       *)
(* matches, whether two atoms have a package in common, and what an atom   *)
(* whose USE requirements depend on the flags of its owner asks for; and   *)
(* what an EAPI allows (ebuild/eapi.py).                                   *)
(*                                                                         *)
(* A version is [dots, letter, suffixes, rev]: a sequence of numbers, each *)
(* the sequence of its digits; the rank of its letter, 0 for none; a       *)
(* sequence of [name, num] with num the digits; the revision's number, 0   *)
(* for none.                                                               *)
(***************************************************************************)
EXTENDS Restrictions, Integers

Sign(n) == IF n > 0 THEN 1 ELSE IF n < 0 THEN -1 ELSE 0

IntOf(digits) == FoldLeft(LAMBDA n, d : 10 * n + d, 0, digits)

\* Digits as text: by the first that differs, what ends first is less.
RECURSIVE TextCmp(_, _)
TextCmp(s, t) ==
    IF s = <<>> \/ t = <<>> THEN Sign(Len(s) - Len(t))
    ELSE IF Head(s) # Head(t) THEN Sign(Head(s) - Head(t)) ELSE TextCmp(Tail(s), Tail(t))

\* A number that begins with 0 is a fraction: it and what it is compared with are
\* compared as text, without the zeros they end in.
RECURSIVE Fraction(_)
Fraction(s) == IF s # <<>> /\ Last(s) = 0 THEN Fraction(Front(s)) ELSE s

NumberCmp(s, t) ==
    IF s[1] # 0 /\ t[1] # 0 THEN Sign(IntOf(s) - IntOf(t)) ELSE TextCmp(Fraction(s), Fraction(t))

SuffixValue == [alpha |-> -4, beta |-> -3, pre |-> -2, rc |-> -1, p |-> 1]

\* The first that differs decides.
Decisive(cmps) ==
    LET differ == SelectSeq(cmps, LAMBDA c : c # 0) IN IF differ = <<>> THEN 0 ELSE Head(differ)

\* What one has more of suffixes counts against nothing; their numbers decide where the names are one.
SuffixCmp(s, t) ==
    LET value(u, i) == IF i > Len(u) THEN 0 ELSE SuffixValue[u[i].name]
        num(u, i) == IF i > Len(u) THEN 0 ELSE IntOf(u[i].num)
    IN Decisive(FlattenSeq([i \in DOMAIN s \cup DOMAIN t |->
                   <<Sign(value(s, i) - value(t, i)), Sign(num(s, i) - num(t, i))>>]))

\* What has more numbers is greater.
DotsCmp(s, t) ==
    Decisive([i \in DOMAIN s \cap DOMAIN t |-> NumberCmp(s[i], t[i])] \o <<Sign(Len(s) - Len(t))>>)

\* Dots, letter, suffixes and revision, in that order.
VerCmp(v, w) ==
    Decisive(<<DotsCmp(v.dots, w.dots), Sign(v.letter - w.letter), SuffixCmp(v.suffixes, w.suffixes), Sign(v.rev - w.rev)>>)

NoRev(v) == [v EXCEPT !.rev = 0]

\* A version as it is written, what a glob is compared with: digits, and numbers from 10 on
\* for what stands between them ("_pre" begins like "_p").
RECURSIVE Digits(_)
Digits(n) == IF n < 10 THEN <<n>> ELSE Append(Digits(n \div 10), n % 10)

Dot == 10
DashR == 11
Letter(rank) == <<20 + rank>>
Suffix(name) == IF name = "pre" THEN <<60 + SuffixValue.p, 12>> ELSE <<60 + SuffixValue[name]>>

FullVer(v) ==
    Tail(FlattenSeq([i \in DOMAIN v.dots |-> <<Dot>> \o v.dots[i]]))
    \o (IF v.letter = 0 THEN <<>> ELSE Letter(v.letter))
    \o FlattenSeq([i \in DOMAIN v.suffixes |-> Suffix(v.suffixes[i].name) \o v.suffixes[i].num])
    \o (IF v.rev = 0 THEN <<>> ELSE <<DashR>> \o Digits(v.rev))

StartsWith(v, w) == IsPrefix(FullVer(w), FullVer(v))

-----------------------------------------------------------------------------
(* An EAPI is its parent's table with some options turned on and some off, *)
(* and with phases and keys added.  Options that are not booleans are left *)
(* out, but for trailing_slash, which is on when paths end in one.         *)

KnownEapis == 0..9

\* The options of EAPI 0.
EapiOptionals == {"rewrite_image_symlinks", "trailing_slash", "has_portdir", "has_desttree",
                  "profile_pkg_provided", "export_vars", "has_AA", "has_KV", "supported", "nonfatal"}

Eapi1On == {"iuse_defaults", "has_slot_deps"}
Eapi2On == {"has_use_deps", "strong_blockers", "doman_language_detect", "transitive_use_atoms",
            "src_uri_renames"}
Eapi3On == {"prefix_capable"}
Eapi4On == {"dodoc_allow_recursive", "doman_language_override", "exports_replacing", "has_merge_type",
            "has_required_use", "has_use_dep_defaults", "trust_defined_phases_cache"}
Eapi4Off == {"nonfatal", "has_AA", "has_KV"}
Eapi5On == {"ebuild_phase_func", "profile_iuse_injection", "profile_stable_use", "query_host_root",
            "new_reads_stdin", "required_use_one_of", "sub_slotting"}
Eapi6On == {"global_failglob", "nonfatal_die", "unpack_absolute_paths", "unpack_case_insensitive",
            "user_patches"}
Eapi7On == {"has_profile_data_dirs", "query_deps", "has_sysroot", "has_env_unset"}
Eapi7Off == {"has_portdir", "has_desttree", "profile_pkg_provided", "query_host_root", "trailing_slash"}
Eapi8On == {"accumulate_properties_restrict", "dosym_relative", "src_uri_unrestrict"}
Eapi9On == {"profile_eapi_default", "profile_stable_use_defaults"}
Eapi9Off == {"export_vars", "rewrite_image_symlinks"}

TurnedOn == <<Eapi1On, Eapi2On, Eapi3On, Eapi4On, Eapi5On, Eapi6On, Eapi7On, Eapi8On, Eapi9On>>
TurnedOff == <<{}, {}, {}, Eapi4Off, {}, {}, Eapi7Off, {}, Eapi9Off>>

Options[n \in KnownEapis] ==
    IF n = 0 THEN EapiOptionals ELSE (Options[n - 1] \ TurnedOff[n]) \cup TurnedOn[n]

Phases(n) == {"setup", "config", "info", "nofetch", "prerm", "postrm", "preinst", "postinst",
              "unpack", "compile", "test", "install"}
             \cup (IF n >= 2 THEN {"prepare", "configure"} ELSE {})
             \cup (IF n >= 4 THEN {"pretend"} ELSE {})

DefaultPhases(n) == {"setup", "unpack", "compile", "test", "nofetch"}
                    \cup (IF n >= 2 THEN {"prepare", "configure"} ELSE {})
                    \cup (IF n >= 4 THEN {"install"} ELSE {})

DepKeys(n) == {"DEPEND", "RDEPEND", "PDEPEND"}
              \cup (IF n >= 7 THEN {"BDEPEND"} ELSE {}) \cup (IF n >= 8 THEN {"IDEPEND"} ELSE {})

\* The phases a cache entry says are defined: "-" for none, nothing for not known.
DefinedPhases(n, cached) ==
    IF "trust_defined_phases_cache" \notin Options[n] /\ cached = {} THEN Phases(n) ELSE cached \ {"-"}

-----------------------------------------------------------------------------
(* Packages [name, ver, slot, subslot, repo, iuse, use] and atoms [name,   *)
(* op, ver, negate, slot, subslot, repo, use], with None for what an atom  *)
(* does not ask for, and use a set of [flag, off, default], default one of *)
(* "", "+" and "-".                                                        *)

\* CPV's order: by name, then by version.  Equal is what is written alike or orders alike.
CpvEqual(p, q) == p.name = q.name /\ VerCmp(p.ver, q.ver) = 0
CpvLess(p, q) == IF p.name = q.name THEN VerCmp(p.ver, q.ver) < 0 ELSE p.name < q.name

Outcomes(op) == CASE op = "<" -> {-1} [] op = "<=" -> {-1, 0} [] op \in {"=", "~"} -> {0}
                  [] op = ">=" -> {0, 1} [] op = ">" -> {1}

VersionMatch(op, ver, negate, v) ==
    LET revs(u) == IF op = "~" THEN NoRev(u) ELSE u IN
    (VerCmp(revs(v), revs(ver)) \in Outcomes(op)) # negate

\* The flags asked for are on, and those asked to be off are not all on: a negated
\* ContainmentMatch of all.
StaticUseDep(false, true, use) ==
    /\ false # {} => Meets(Has(false, TRUE, TRUE), use)
    /\ Meets(Has(true, TRUE, FALSE), use)

\* With a default: all of one kind are looked at together; if one is missing its default
\* has to be what is asked for, and the others are looked at.
UseDepDefault(missing, off, flags, iuse, use) ==
    LET met(some) == Meets(Has(some, TRUE, off), use)
        there == flags \cap iuse
    IN \/ flags = {}
       \/ IF there = flags THEN met(flags) ELSE missing # off /\ (there # {} => met(there))

UseDeps(tokens, pkg) ==
    LET of(default, off) == {t.flag : t \in {u \in tokens : u.default = default /\ u.off = off}} IN
    /\ StaticUseDep(of("", TRUE), of("", FALSE), pkg.use)
    /\ \A d \in {"-", "+"}, off \in BOOLEAN :
         UseDepDefault(d = "+", off, of(d, off), pkg.iuse, pkg.use)

\* The restrictions of an atom; a glob is not negated.
AtomMatch(a, pkg) ==
    /\ pkg.name = a.name
    /\ a.repo # None => pkg.repo = a.repo
    /\ CASE a.op = ""   -> TRUE
         [] a.op = "=*" -> StartsWith(pkg.ver, a.ver)
         [] OTHER       -> VersionMatch(a.op, a.ver, a.negate, pkg.ver)
    /\ a.slot # None => pkg.slot = a.slot /\ (a.subslot # None => pkg.subslot = a.subslot)
    /\ UseDeps(a.use, pkg)

Versioned(a, b) == VersionMatch(a.op, a.ver, FALSE, b.ver)

\* What an atom may have under an EAPI, None for an atom of the user; slotOperator when its
\* slot ends in "=" or is "*".
AtomAllowed(a, slotOperator, strong, eapi) ==
    LET has(option) == option \in Options[IF eapi = None THEN 9 ELSE eapi] IN
    /\ \A t \in a.use : t.default # "" => has("has_use_dep_defaults")
    /\ a.use # {} => has("has_use_deps")
    /\ strong => has("strong_blockers")
    /\ a.slot # None \/ slotOperator => has("has_slot_deps")
    /\ a.subslot # None \/ slotOperator => has("sub_slotting")
    /\ a.repo # None => eapi = None
    /\ a.op = "~" => a.ver.rev = 0

\* get_atom_without_use_deps: what has none stays as it is, another is made anew of what
\* was written, without its repository.
WithoutUse(a) == IF a.use = {} THEN a ELSE [a EXCEPT !.use = {}, !.repo = None, !.negate = FALSE]

-----------------------------------------------------------------------------
(* Whether two atoms have a package in common.                             *)

Ranged(a) == a.op \in {"<", "<=", ">", ">="}
Below(a) == a.op \in {"<", "<="}

\* ranged against an atom that is not an exact one.
RangeIntersects(ranged, other) ==
    LET holds == Versioned(ranged, other)
        back == Versioned(other, ranged)
    IN CASE Ranged(other)   -> back /\ holds
         [] other.op = "~"  -> holds \/ (~Below(ranged) /\ back)
         [] other.op = "=*" -> \/ holds
                               \/ /\ ~(Below(ranged) /\ other.ver.rev # 0)
                                  /\ StartsWith(ranged.ver, NoRev(other.ver))

\* One is an exact version: the other has to match it.
ExactIntersects(a, b) == IF b.op = "=*" THEN StartsWith(a.ver, b.ver) ELSE Versioned(b, a)

VersionsIntersect(a, b) ==
    CASE a.op = "" \/ b.op = ""                    -> TRUE
      [] Ranged(a) /\ Ranged(b) /\ Below(a) = Below(b) -> TRUE
      [] a.op = "="                                -> ExactIntersects(a, b)
      [] b.op = "="                                -> ExactIntersects(b, a)
      [] a.op = "~" /\ b.op = "~"                  -> a.ver = b.ver
      [] a.op = "=*" /\ b.op = "=*"                -> StartsWith(a.ver, b.ver) \/ StartsWith(b.ver, a.ver)
      [] a.op = "=*" /\ b.op = "~"                 -> StartsWith(b.ver, NoRev(a.ver))
      [] a.op = "~" /\ b.op = "=*"                 -> StartsWith(a.ver, NoRev(b.ver))
      [] Ranged(a)                                 -> RangeIntersects(a, b)
      [] OTHER                                     -> RangeIntersects(b, a)

\* What only one asks for is compared: a flag as written, on, and as written, off.
UseIntersects(a, b) ==
    LET apart == (a.use \ b.use) \cup (b.use \ a.use) IN
    a.use # {} /\ b.use # {} =>
        ~\E t \in apart : t.off /\ [t EXCEPT !.off = FALSE] \in apart

Intersects(a, b) ==
    LET same(x, y) == x = None \/ y = None \/ x = y IN
    /\ a.name = b.name
    /\ same(a.slot, b.slot) /\ same(a.subslot, b.subslot) /\ same(a.repo, b.repo)
    /\ UseIntersects(a, b)
    /\ VersionsIntersect(a, b)

-----------------------------------------------------------------------------
(* Requirements that depend on the owner's flags: [flag, cond, not,        *)
(* default], cond "?" or "=", in the order they are written.               *)

Token(t, off) == [flag |-> t.flag, off |-> off, default |-> t.default]

\* evaluate_conditionals: what each says given the owner's flags.
Transitive(t, enabled) ==
    CASE t.cond = "="                             -> {Token(t, (t.flag \in enabled) = t.not)}
      [] t.cond = "?" /\ (t.flag \in enabled) = t.not -> {}
      [] OTHER                                    -> {Token(t, t.not)}

\* With a tristate filter only the flags in locked are known; of the others the state that
\* asks for most is taken.
TransitiveLocked(t, enabled, locked) ==
    CASE t.cond = "="          -> {Token(t, t.flag \in locked /\ (t.flag \in enabled) = t.not)}
      [] t.flag \notin locked  -> {Token(t, t.not)}
      [] (t.flag \in enabled) = t.not -> {}
      [] OTHER                 -> {Token(t, t.flag \notin enabled)}

\* convert_to_conditionals: both cases of each flag, one inside of the other.  A flag with
\* a default is looked up with its default, a flag that nobody has.
RECURSIVE Conditionals(_, _)
Conditionals(forced, varied) ==
    IF varied = <<>> THEN <<[kind |-> "atom", use |-> forced]>>
    ELSE LET t == Head(varied)
             known == IF t.default = "" THEN t.flag ELSE None
             if(negate, use) == Conditional(Has({known}, FALSE, negate),
                                            Conditionals(forced \cup use, Tail(varied)))
             whenOn  == IF t.cond = "=" THEN {Token(t, t.not)} ELSE IF t.not THEN {} ELSE {Token(t, FALSE)}
             whenOff == IF t.cond = "=" THEN {Token(t, ~t.not)} ELSE IF t.not THEN {Token(t, TRUE)} ELSE {}
         IN <<if(FALSE, whenOn), if(TRUE, whenOff)>>

-----------------------------------------------------------------------------
(* What is promised.                                                       *)

\* Versions are in order: exactly one of less, equal and greater, and transitively so; and
\* packages by them.
VersionsOrdered(v, w, others) ==
    /\ VerCmp(v, w) = -VerCmp(w, v)
    /\ \A m \in 1..2, n \in 1..2 :
         LET p == [name |-> m, ver |-> v]  q == [name |-> n, ver |-> w] IN
         Cardinality({i \in 1..3 : <<CpvLess(p, q), CpvEqual(p, q), CpvLess(q, p)>>[i]}) = 1
    /\ \A u \in others : VerCmp(v, w) <= 0 /\ VerCmp(w, u) <= 0 => VerCmp(v, u) <= 0

\* A glob against a range, as the comments of intersects are unsure about; one version
\* written in two ways against a glob or ~; and two flags to be off.
Unsure(a, b) ==
    \/ \E c \in {<<a, b>>, <<b, a>>} : c[1].op = "=*" /\ Ranged(c[2])
    \/ /\ NoRev(a.ver) # NoRev(b.ver) /\ VerCmp(NoRev(a.ver), NoRev(b.ver)) = 0
       /\ {a.op, b.op} \cap {"=*", "~"} # {}
    \/ \E c \in {a, b}, d \in {"", "+", "-"} :
          Cardinality({t \in c.use : t.off /\ t.default = d}) > 1

\* Nothing lies between two ranges; a glob of a revision; flags with unlike defaults.
Loose(a, b) ==
    \/ Ranged(a) /\ Ranged(b)
    \/ \E c \in {a, b} : c.op = "=*" /\ c.ver.rev # 0
    \/ \E s \in a.use, t \in b.use : s.flag = t.flag /\ s.default # t.default

\* Two atoms intersect when a package can be constructed that matches both, and only then,
\* apart from what they are unsure about and what they are loose about; and an atom
\* without its USE requirements matches what the atom does.
IntersectsAgrees(a, b, packages) ==
    LET common == \E p \in packages : AtomMatch(a, p) /\ AtomMatch(b, p) IN
    /\ Intersects(a, b) = Intersects(b, a)
    /\ common => Intersects(a, b) \/ Unsure(a, b)
    /\ Intersects(a, b) => common \/ Unsure(a, b) \/ Loose(a, b)
    /\ \A p \in packages : AtomMatch(a, p) => AtomMatch(WithoutUse(a), p)

\* What an EAPI allows an atom the next allows it, and what it knows it keeps: its phases
\* (those it has a default for among them) and the keys of its dependencies.
EapisGrow(a, slotOperator, strong) ==
    \A n \in KnownEapis \ {0} :
        /\ AtomAllowed(a, slotOperator, strong, n - 1) => AtomAllowed(a, slotOperator, strong, n)
        /\ AtomAllowed(a, slotOperator, strong, n) => AtomAllowed(a, slotOperator, strong, None)
        /\ Phases(n - 1) \cup DefaultPhases(n) \subseteq Phases(n)
        /\ DepKeys(n - 1) \subseteq DepKeys(n)
        /\ \A cached \in SUBSET {"-", "compile"} : DefinedPhases(n, cached) \subseteq Phases(n)

\* What an owner with these flags asks for is what it asks for through the conditionals,
\* and with every flag locked.
TransitiveAgrees(varied, flags) ==
    \A on \in SUBSET flags :
        LET asked == UNION {Transitive(t, on) : t \in Range(varied)}
            left == EvaluateDepset(Group("and", FALSE, Conditionals({}, varied)), on, None)
        IN /\ UNION {TransitiveLocked(t, on, flags) : t \in Range(varied)} = asked
           /\ (\A t \in Range(varied) : t.default = "") => {x.use : x \in Range(left)} = {asked}
=============================================================================
