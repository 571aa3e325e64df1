-------------------------------- MODULE Glsa --------------------------------
(***************************************************************************)
(* pkgsets/glsa.py: which packages an advisory says are vulnerable, and    *)
(* which would be upgrades.                                                *)
(*                                                                         *)
(* An advisory is [valid, nodes]; a node is one <package> of it, [name,    *)
(* arch, vuln, invuln], with the ranges called vulnerable and unaffected.  *)
(* A range is [op, r, ver, glob, slot]: r when its operator has the prefix *)
(* "r", a revision of one version; ver and slot None when there is none.   *)
(* A package is [name, ver, slot, keywords].                               *)
(***************************************************************************)
EXTENDS Atoms

OpTranslate == [ge |-> ">=", gt |-> ">", lt |-> "<", le |-> "<=", eq |-> "="]

OfBareVersion(range) == range.r /\ range.ver.rev = 0

RangeRaises(range) ==
    \/ range.op \notin DOMAIN OpTranslate
    \/ range.ver = None
    \/ range.glob /\ (range.op # "eq" \/ range.r)
    \/ ~range.glob /\ OfBareVersion(range) /\ range.op = "lt"

\* generate_restrict_from_range: a glob takes no notice of negate and slot, and the
\* two shortcuts of revisions of a bare version none of the slot.
InRange(range, negate, pkg) ==
    CASE range.glob -> StartsWith(pkg.ver, range.ver)
      [] ~range.glob /\ OfBareVersion(range) /\ range.op = "le" ->
            VersionMatch("=", range.ver, negate, pkg.ver)
      [] ~range.glob /\ OfBareVersion(range) /\ range.op = "ge" ->
            VersionMatch("~", range.ver, negate, pkg.ver)
      [] OTHER ->
            (/\ range.r => VersionMatch("~", range.ver, FALSE, pkg.ver)
             /\ VersionMatch(OpTranslate[range.op], range.ver, FALSE, pkg.ver)
             /\ range.slot # None => pkg.slot = range.slot) # negate

\* What an unaffected range comes to is left out if a vulnerable one equals it: only
\* globs do, since all else is negated.
Kept(node) ==
    {range \in node.invuln :
       ~\E v \in node.vuln : range.glob /\ v.glob /\ FullVer(range.ver) = FullVer(v.ver)}

AnyArch(node) == node.arch = {} \/ "*" \in node.arch

\* generate_intersects_from_pkg_node, with the name it is keyed by.
IsVulnerable(node, pkg) ==
    /\ pkg.name = node.name
    /\ \E range \in node.vuln : InRange(range, FALSE, pkg)
    /\ AnyArch(node) \/ node.arch \cap pkg.keywords # {}
    /\ \A range \in Kept(node) : InRange(range, TRUE, pkg)

\* A node without vulnerable ranges is skipped; one that raises is as a whole.
IterVulnerabilities(glsas) ==
    {node \in UNION {g.nodes : g \in {h \in glsas : h.valid}} :
       node.vuln # {} /\ ~\E range \in node.vuln \cup node.invuln : RangeRaises(range)}

\* The restrictions of a set: each [name, nodes], met by what any of the nodes says.
RestrictionsOf(glsas, grouped) ==
    LET nodes == IterVulnerabilities(glsas) IN
    IF grouped
    THEN {[name |-> n.name, nodes |-> {o \in nodes : o.name = n.name}] : n \in nodes}
    ELSE {[name |-> n.name, nodes |-> {n}] : n \in nodes}

Vulnerabilities(restrict, pkg) == \E node \in restrict.nodes : IsVulnerable(node, pkg)

\* The arch replaces the keywords of what was found; it does not narrow the search.
FindVulnerableRepoPkgs(glsas, repo, grouped, arch) ==
    {found \in {[restrict |-> r,
                 pkgs |-> {IF arch = {} THEN p ELSE [p EXCEPT !.keywords = arch] :
                             p \in {q \in repo : Vulnerabilities(r, q)}}] :
                  r \in RestrictionsOf(glsas, grouped)} : found.pkgs # {}}

SecurityUpgrades(glsas, vdb, arch, pkg) ==
    \E found \in FindVulnerableRepoPkgs(glsas, vdb, TRUE, arch) :
        pkg.name = found.restrict.name /\ ~Vulnerabilities(found.restrict, pkg)

-----------------------------------------------------------------------------
\* What a range says: an order of whole versions, and with "r" among the revisions of one.
Says(range, pkg) ==
    LET order == VerCmp(pkg.ver, range.ver) IN
    /\ range.r => VerCmp(NoRev(pkg.ver), NoRev(range.ver)) = 0
    /\ IF range.glob THEN StartsWith(pkg.ver, range.ver)
       ELSE CASE range.op = "lt" -> order < 0 [] range.op = "le" -> order <= 0
              [] range.op = "eq" -> order = 0 [] range.op = "ge" -> order >= 0
              [] range.op = "gt" -> order > 0
    /\ range.slot # None => pkg.slot = range.slot

\* Nodes whose text the code does not take for what it says.
Misread(node) ==
    \/ \E range \in node.invuln : range.glob
    \/ \E range \in node.vuln \cup node.invuln :
         /\ range.slot # None
         /\ range.glob \/ (OfBareVersion(range) /\ range.op \in {"le", "ge"})

\* Grouped or not, the same packages are found: those an advisory names, that are
\* in one of its vulnerable ranges and in none of its unaffected ones.  An upgrade
\* is of a package that has a vulnerable version installed, and none itself.
GlsaAgrees(glsas, repo) ==
    LET found(grouped) == UNION {f.pkgs : f \in FindVulnerableRepoPkgs(glsas, repo, grouped, {})}
        named(n, p) == /\ n.name = p.name
                       /\ AnyArch(n) \/ n.arch \cap p.keywords # {}
                       /\ \E r \in n.vuln : Says(r, p)
                       /\ ~\E r \in n.invuln : Says(r, p)
        nodes == IterVulnerabilities(glsas)
    IN  /\ found(TRUE) = found(FALSE)
        /\ \A n \in nodes : ~Misread(n) =>
             \A p \in repo : IsVulnerable(n, p) <=> named(n, p)
        /\ \A p \in repo :
             SecurityUpgrades(glsas, repo, {}, p)
                 <=> p \notin found(FALSE) /\ \E q \in found(FALSE) : q.name = p.name
=============================================================================
