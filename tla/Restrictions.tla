---------------------------- MODULE Restrictions ----------------------------
(***************************************************************************)
(* Restrictions over the USE flags of a package (restrictions/): whether   *)
(* one matches, its normal forms, what is left of it once its conditionals *)
(* are evaluated, how a configurable package is made to match it, and the  *)
(* constraints that REQUIRED_USE is compiled to.                           *)
(*                                                                         *)
(* A restriction is a record:                                              *)
(*   [kind |-> "has", vals, all, neg]    ContainmentMatch, on pkg.use      *)
(*   [kind |-> "and" | "or" | "one" | "most", neg, of]                     *)
(*                                       the groups, of a sequence         *)
(*   [kind |-> "not", of]                Negate, of one restriction        *)
(*   [kind |-> "cond", if, of]           Conditional, of its payload       *)
(*   [kind |-> "attr", there, neg, of]   PackageRestriction: of an         *)
(*                                       attribute the package may lack    *)
(*   [kind |-> "always", yes]            AlwaysBool                        *)
(***************************************************************************)
EXTENDS Naturals, Sequences, SequencesExt, FiniteSets

CONSTANT None

Has(vals, all, neg) == [kind |-> "has", vals |-> vals, all |-> all, neg |-> neg]
Group(kind, neg, of) == [kind |-> kind, neg |-> neg, of |-> of]
Negate(r) == [kind |-> "not", of |-> r]
Conditional(if, of) == [kind |-> "cond", if |-> if, of |-> of]

OfAttr(there, neg, of) == [kind |-> "attr", there |-> there, neg |-> neg, of |-> of]
AlwaysBool(yes) == [kind |-> "always", yes |-> yes]

Groups == {"and", "or", "one", "most"}

\* Neither a set nor a list: a sequence is concatenated item by item.
Each(s, Op(_)) == FlattenSeq([i \in DOMAIN s |-> Op(s[i])])

-----------------------------------------------------------------------------
(* Matching.                                                               *)

\* The flags that are on are a set: the string and no-iterator paths are left out.
Meets(r, on) ==
    IF r.all THEN (r.vals \subseteq on) # r.neg ELSE (r.vals \cap on = {}) = r.neg

\* Which members match: all, any, exactly one or at most one; negate turns each around.
AndRestriction(hits, of, neg) == (hits = DOMAIN of) # neg
OrRestriction(hits, neg) == (hits # {}) # neg
JustOneRestriction(hits, of, neg) == (of = <<>> \/ Cardinality(hits) = 1) # neg
AtMostOneOfRestriction(hits, neg) == (Cardinality(hits) <= 1) # neg

\* An attribute that is missing does not match, unless negated.
PackageRestriction(r, matches) == IF r.there THEN matches # r.neg ELSE r.neg

\* A conditional matches by its condition, whatever its payload.
RECURSIVE Match(_, _)
Match(r, on) ==
    LET hits == {i \in DOMAIN r.of : Match(r.of[i], on)} IN
    CASE r.kind = "has"    -> Meets(r, on)
      [] r.kind = "not"    -> ~Match(r.of, on)
      [] r.kind = "attr"   -> PackageRestriction(r, Match(r.of, on))
      [] r.kind = "always" -> r.yes
      [] r.kind = "cond"   -> Meets(r.if, on)
      [] r.kind = "and"    -> AndRestriction(hits, r.of, r.neg)
      [] r.kind = "or"     -> OrRestriction(hits, r.neg)
      [] r.kind = "one"    -> JustOneRestriction(hits, r.of, r.neg)
      [] r.kind = "most"   -> AtMostOneOfRestriction(hits, r.neg)

-----------------------------------------------------------------------------
(* Normal forms: a sequence of sequences of restrictions.                  *)

\* Every way to take one of each, the first slowest.
RECURSIVE Product(_)
Product(ss) ==
    IF ss = <<>> THEN <<<<>>>>
    ELSE Each(Head(ss), LAMBDA a : [i \in DOMAIN Product(Tail(ss)) |-> a \o Product(Tail(ss))[i]])

\* A negated OR goes on, after the solutions of its negation, with those of the OR.
RECURSIVE Dnf(_)
Dnf(r) ==
    LET negated(kind) == Group(kind, FALSE, [i \in DOMAIN r.of |-> Negate(r.of[i])])
        solutions == [i \in DOMAIN r.of |-> Dnf(r.of[i])]
        single(s) == Len(s) = 1
        alone == IF r.of = <<>> THEN <<<<>>>> ELSE FlattenSeq(solutions)
    IN CASE r.kind = "and" /\ r.neg  -> Dnf(negated("or"))
         [] r.kind = "and" /\ ~r.neg ->
              Product(<<<<Each(SelectSeq(solutions, single), LAMBDA s : s[1])>>>>
                      \o SelectSeq(solutions, LAMBDA s : ~single(s)))
         [] r.kind = "or" -> (IF r.neg THEN Dnf(negated("and")) ELSE <<>>) \o alone
         [] OTHER -> <<<<r>>>>

\* NotImplementedError is raised for a negated AND or OR.
RECURSIVE CnfRaises(_), Cnf(_)
CnfRaises(r) ==
    /\ r.kind \in {"and", "or"}
    /\ \/ r.neg
       \/ r.kind = "and" /\ \E i \in DOMAIN r.of : CnfRaises(r.of[i])

\* What is one choice of one restriction goes straight in; of the others one of each is
\* peeled off.
Cnf(r) ==
    LET choices == Each(r.of, LAMBDA x : IF x.kind \in {"and", "or"} THEN Dnf(x) ELSE <<<<x>>>>)
        plain == SelectSeq(choices, LAMBDA c : Len(c) = 1)
        reqs  == SelectSeq(choices, LAMBDA c : Len(c) # 1)
        peel(forms, req) == Each(req, LAMBDA x : [i \in DOMAIN forms |-> Append(forms[i], x)])
    IN CASE r.kind = "and" -> Each(r.of, Cnf)
         [] r.kind = "or"  -> IF r.of = <<>> THEN <<>>
                              ELSE FoldLeft(peel, <<FlattenSeq(plain)>>, reqs)
         [] OTHER -> <<<<r>>>>

-----------------------------------------------------------------------------
(* Conditionals.                                                           *)

\* locked: the flags whose conditionals follow enabled, those of the others are taken;
\* None when all of them follow it.
Taken(cond, enabled, locked) ==
    IF locked = None THEN Meets(cond.if, enabled)
    ELSE LET flag == CHOOSE f \in cond.if.vals : TRUE IN
         ~(flag \in locked /\ (flag \in enabled) = cond.if.neg)

\* What a group leaves in its parent: its members when it is of the parent's kind or
\* there is at most one, or a group of them.
RECURSIVE Evaluate(_, _, _, _)
Evaluate(r, parent, enabled, locked) ==
    LET left == Each(r.of, LAMBDA x : Evaluate(x, r.kind, enabled, locked)) IN
    CASE r.kind = "cond" ->
           IF Taken(r, enabled, locked)
             THEN Evaluate(Group("and", FALSE, r.of), parent, enabled, locked)
             ELSE <<>>
      [] r.kind \in Groups ->
           IF Len(left) <= 1 \/ (r.kind = parent /\ r.kind \in {"and", "or"}) THEN left
           ELSE <<Group(r.kind, FALSE, left)>>
      [] OTHER -> <<r>>

\* evaluate_depset: the whole is collapsed.
EvaluateDepset(r, enabled, locked) ==
    Each(r.of, LAMBDA x : Evaluate(x, "and", enabled, locked))

\* find_cond_nodes: each leaf with the conditions it is under.
RECURSIVE CondNodes(_, _)
CondNodes(r, under) ==
    IF r.kind = "has" THEN {<<r, under>>}
    ELSE UNION {CondNodes(r.of[i], IF r.kind = "cond" THEN under \cup {r.if} ELSE under) :
                  i \in DOMAIN r.of}

-----------------------------------------------------------------------------
(* Changing the package: on its flags, fixed those that are unchangable,   *)
(* changed those that were changed since the last commit.                  *)

Failed(pkg) == [ok |-> FALSE, pkg |-> pkg]
Done(pkg) == [ok |-> TRUE, pkg |-> pkg]

\* A flag that is fixed or was changed can only be what it is.
Settled(pkg) == pkg.fixed \cup pkg.changed

\* Mutant of Request: only what is fixed is refused, not what an earlier request has settled.
RequestUnsettling(want, vals, pkg) ==
    LET wrong == IF want THEN vals \ pkg.on ELSE vals \cap pkg.on IN
    IF wrong \cap pkg.fixed # {} THEN Failed(pkg)
    ELSE Done([pkg EXCEPT !.on = IF want THEN @ \cup vals ELSE @ \ vals,
                          !.changed = @ \cup (vals \ pkg.fixed)])

\* request_enable, request_disable: all of them, or none is changed.
Request(want, vals, pkg) ==
    LET wrong == IF want THEN vals \ pkg.on ELSE vals \cap pkg.on IN
    IF wrong \cap Settled(pkg) # {} THEN Failed(pkg)
    ELSE Done([pkg EXCEPT !.on = IF want THEN @ \cup vals ELSE @ \ vals,
                          !.changed = @ \cup (vals \ pkg.fixed)])

\* A package that lacks the attribute is only asked what it already is.
ForceAttr(want, r, pkg, forced) ==
    IF r.there THEN forced
    ELSE IF r.neg = want THEN Done(pkg) ELSE Failed(pkg)

\* iterative_quad_toggling: nothing is done when the truths are as wanted; otherwise parts
\* are flipped one after the other, further ones after an earlier one was flipped and then
\* without it.
Wanted(goal, truths) ==
    CASE goal = "some true"  -> \E i \in DOMAIN truths : truths[i]
      [] goal = "some false" -> \E i \in DOMAIN truths : ~truths[i]
      [] goal = "none true"  -> \A i \in DOMAIN truths : ~truths[i]

RECURSIVE Force(_, _, _)
Flip(part, to, pkg) == IF part.kind = "flag" THEN Request(to, {part.flag}, pkg) ELSE Force(to, part, pkg)

SearchToggles(parts, before, pkg0, goal) ==
    LET RECURSIVE Toggle(_, _, _)
        Toggle(i, truths, pkg) ==
          IF i > Len(parts) THEN Failed(pkg)
          ELSE LET flip == Flip(parts[i], ~truths[i], pkg)
                   flipped == [truths EXCEPT ![i] = ~@]
                   further == Toggle(i + 1, flipped, flip.pkg)
               IN IF flip.ok /\ Wanted(goal, flipped) THEN flip
                  ELSE IF flip.ok /\ further.ok THEN further
                  ELSE Toggle(i + 1, truths, pkg)
    IN IF Wanted(goal, before) THEN Done(pkg0) ELSE Toggle(1, before, pkg0)

\* ContainmentMatch's force_True and force_False.  What a negated one does to become
\* false is what it does to become true.
ForceHas(want, r, pkg) ==
    LET flags == SetToSeq(r.vals)
        parts == [i \in DOMAIN flags |-> [kind |-> "flag", flag |-> flags[i]]]
        truths == [i \in DOMAIN flags |-> flags[i] \in pkg.on]
        search(goal) == SearchToggles(parts, truths, pkg, goal)
    IN CASE want /\ ~r.neg /\ r.all   -> Request(TRUE, r.vals, pkg)
         [] want /\ ~r.neg /\ ~r.all  -> search("some true")
         [] want /\ r.neg /\ r.all    -> search("none true")
         [] ~want /\ r.all            -> search("some false")
         [] ~r.all /\ (r.neg \/ ~want) -> Request(FALSE, r.vals, pkg)

\* Group after group, or a search for one of the members.  To be made false an OR does
\* nothing: it answers with a generator that nobody runs.
Onwards(to, of, pkg) ==
    LET step(res, x) == IF res.ok THEN Force(to, x, res.pkg) ELSE res
        all == FoldLeft(step, Done(pkg), of)
    IN IF all.ok THEN all ELSE Failed(pkg)

Force(want, r, pkg) ==
    LET truths == [i \in DOMAIN r.of |-> Match(r.of[i], pkg.on)]
        search(goal) == SearchToggles(r.of, truths, pkg, goal)
    IN CASE r.kind = "has" -> ForceHas(want, r, pkg)
         [] r.kind = "attr" -> ForceAttr(want, r, pkg, Force(want # r.neg, r.of, pkg))
         [] r.kind = "and" -> IF want # r.neg THEN Onwards(TRUE, r.of, pkg) ELSE search("some false")
         [] r.kind = "or"  -> IF ~want THEN Done(pkg)
                              ELSE IF r.neg THEN Onwards(FALSE, r.of, pkg) ELSE search("some true")
         [] OTHER -> IF Match(r, pkg.on) = want THEN Done(pkg) ELSE Failed(pkg)

-----------------------------------------------------------------------------
(* REQUIRED_USE as constraints on which flags are on.                      *)

RECURSIVE Satisfied(_, _)
Satisfied(r, on) ==
    LET hits == {i \in DOMAIN r.of : Satisfied(r.of[i], on)} IN
    CASE r.kind = "has"  -> (r.vals \cap on = {}) = r.neg
      [] r.kind = "cond" -> (r.if.vals \subseteq on) = r.if.neg \/ hits = DOMAIN r.of
      [] r.kind = "and"  -> (hits = DOMAIN r.of) # r.neg
      [] r.kind = "or"   -> (hits # {}) # r.neg
      [] r.kind = "one"  -> (Cardinality(hits) = 1) # r.neg
      [] r.kind = "most" -> (Cardinality(hits) <= 1) # r.neg

\* ANDs and conditionals on top are taken apart.
RECURSIVE Constraints(_)
Constraints(r) ==
    CASE r.kind = "cond" -> {Conditional(r.if, <<c>>) : c \in UNION {Constraints(x) : x \in Range(r.of)}}
      [] r.kind = "and"  -> UNION {Constraints(x) : x \in Range(r.of)}
      [] OTHER -> {r}

RECURSIVE FlagsIn(_)
FlagsIn(r) ==
    CASE r.kind = "has"  -> r.vals
      [] r.kind = "cond" -> r.if.vals \cup UNION {FlagsIn(x) : x \in Range(r.of)}
      [] OTHER -> UNION {FlagsIn(x) : x \in Range(r.of)}

\* find_constraint_satisfaction: a flag that is not known can only be off.
Solutions(required, iuse, forceTrue, forceFalse) ==
    {on \in SUBSET (iuse \ forceFalse) :
        /\ iuse \cap (forceTrue \ forceFalse) \subseteq on
        /\ \A c \in Constraints(required) : Satisfied(c, on)}

-----------------------------------------------------------------------------
(* What is promised.                                                       *)

RECURSIVE Parts(_)
Parts(r) == CASE r.kind = "has"  -> {r}
              [] r.kind = "always" -> {r}
              [] r.kind \in {"not", "attr"} -> {r} \cup Parts(r.of)
              [] OTHER -> {r} \cup UNION {Parts(x) : x \in Range(r.of)}

Holds(forms, on) == \E f \in Range(forms) : \A x \in Range(f) : Match(x, on)
HoldsAll(forms, on) == \A f \in Range(forms) : \E x \in Range(f) : Match(x, on)

\* The normal forms say what the restriction says, for every set of flags; negated and
\* empty ORs (and a negated empty AND, which becomes one) apart, and for the conjunctive
\* one all that raises.
FormsAgree(r, flags) ==
    (\A p \in Parts(r) : /\ p.kind = "or" => ~p.neg /\ p.of # <<>>
                         /\ p.kind = "and" /\ p.neg => p.of # <<>>) =>
    \A on \in SUBSET flags :
        /\ Holds(Dnf(r), on) = Match(r, on)
        /\ CnfRaises(r) \/ HoldsAll(Cnf(r), on) = Match(r, on)

\* Forcing is honest: it has the package match, or leave it be, and no fixed or already
\* changed flag is touched.  Apart: negation inside of a group (what matches already is
\* not kept from a later member), tests for the absence of flags, and ORs made false.
ForceIsHonest(r, pkg, want) ==
    (\A p \in Parts(r) : /\ p.kind \in {"has", "and", "or", "attr"}
                         /\ p.neg => p = r /\ p.kind = "and"
                         /\ p.kind = "or" => want /\ ~r.neg) =>
    LET done == Force(want, r, pkg) IN
        /\ IF done.ok THEN Match(r, done.pkg.on) = want ELSE done.pkg = pkg
        /\ \A f \in Settled(pkg) : f \in done.pkg.on <=> f \in pkg.on

\* What has no member once conditions that do not hold are gone.
RECURSIVE Vanishes(_, _), MetBy(_, _, _)
Vanishes(r, on) ==
    /\ r.kind # "has"
    /\ \/ r.kind = "cond" /\ ~Meets(r.if, on)
       \/ \A i \in DOMAIN r.of : Vanishes(r.of[i], on)

MetBy(r, on, have) ==
    LET there == {i \in DOMAIN r.of : ~Vanishes(r.of[i], on)}
        met == {i \in there : MetBy(r.of[i], on, have)}
    IN CASE r.kind = "has"  -> Meets(r, have)
         [] r.kind = "or"   -> there # {} => met # {}
         [] r.kind = "one"  -> there # {} => Cardinality(met) = 1
         [] r.kind = "most" -> Cardinality(met) <= 1
         [] OTHER           -> met = there

\* A dependency asks for what its groups ask for without the members whose conditions do
\* not hold, through the leaves that find_cond_nodes says are then needed; at-most-one
\* groups of a single such member apart.
ConditionalsAgree(r, flags) ==
    \A on \in SUBSET flags :
        LET left == EvaluateDepset(r, on, None)
            leaves == UNION {{p \in Parts(x) : p.kind = "has"} : x \in Range(left)}
        IN /\ leaves = {n[1] : n \in {m \in CondNodes(r, {}) : \A c \in m[2] : Meets(c, on)}}
           /\ EvaluateDepset(r, on, flags) = left
           /\ (\A p \in Parts(r) : p.kind = "most" =>
                  Cardinality({i \in DOMAIN p.of : ~Vanishes(p.of[i], on)}) # 1) =>
              \A have \in SUBSET flags :
                 (\A x \in Range(left) : Match(x, have)) = MetBy(r, on, have)

\* The flags that the solver offers for a REQUIRED_USE are those that the check of a
\* package lets pass, where no conditional is inside of a group of alternatives.
ConstraintsAgree(r, flags) ==
    (\A p \in Parts(r) : p.kind \in {"or", "one", "most"} =>
         Len(p.of) > 1 /\ \A x \in UNION {Parts(y) : y \in Range(p.of)} : x.kind # "cond") =>
    Solutions(r, flags, {}, {}) =
        {on \in SUBSET flags : \A x \in Range(EvaluateDepset(r, on, None)) : Match(x, on)}
=============================================================================
