---------------------------- MODULE ChoicePoint ----------------------------
(***************************************************************************)
(* resolver/choice_point.py: the object through which the resolver tries   *)
(* the packages that match one atom, in the order of the match iterator.   *)
(* The resolver tells it which atoms turned out to be insoluble            *)
(* (reduce_atoms); the choice point strikes them from the dependencies of  *)
(* the current package, and moves on to the first package that has a       *)
(* solution left when the current one has none.                            *)
(*                                                                         *)
(* A package is the record of its five dependency sets; each is the set of *)
(* clauses of its conjunctive normal form, a clause the set of atoms any   *)
(* one of which satisfies it.                                              *)
(***************************************************************************)
EXTENDS Naturals, Sequences

CONSTANTS
    DepAtoms,   \* the atoms the dependencies are made of
    Candidates  \* the match lists considered: sequences of packages

Attrs == {"bdepend", "depend", "rdepend", "pdepend", "idepend"}

\* The dependency sets reduce_atoms filters.
Reduced == Attrs \ {"idepend"}

Clauses == (SUBSET DepAtoms) \ {{}}
Packages == [Attrs -> SUBSET Clauses]

ASSUME CandidatesAssumption == Candidates \subseteq Seq(Packages)

NoDeps == [a \in Attrs |-> {}]

VARIABLES
    matches,           \* what the match iterator holds
    pulled,            \* how many packages were taken from it; 0: matches_cur is None
    exhausted,         \* matches is None: nothing remains
    solution_filters,  \* the atoms struck out so far
    deps,              \* _bdeps, _deps, _rdeps, _prdeps and _ideps
    returned,          \* the last result of reduce_atoms
    forced             \* history: the packages force_next_pkg left or moved to

cpvars == <<matches, pulled, exhausted, solution_filters, deps, returned, forced>>

CPInit ==
    /\ matches \in Candidates
    /\ pulled = 0
    /\ exhausted = FALSE
    /\ solution_filters = {}
    /\ deps = NoDeps
    /\ returned = FALSE
    /\ forced = {}

(***************************************************************************)
(* _filter_choices: strikes the atoms of filterset from every clause.  Its *)
(* result is shorter than its input when a clause has no atom left.        *)
(***************************************************************************)
Filter(cnf_reqs, filterset) == {choices \ filterset : choices \in cnf_reqs}

Soluble(d, filterset) ==
    \A a \in Reduced : {} \notin Filter(d[a], filterset)

\* The reduced sets filtered, the install-time set left as it was.
Narrow(d, filterset) ==
    [a \in Attrs |-> IF a \in Reduced THEN Filter(d[a], filterset) ELSE d[a]]

\* Mutant: the runtime dependencies are reset from depend.
ResetItersFromDepend(cur) == [cur EXCEPT !.rdepend = cur.depend]

\* _reset_iters: _ideps is taken from pdepend.
ResetIters(cur) == [cur EXCEPT !.idepend = cur.pdepend]

Exhaust ==
    /\ exhausted' = TRUE
    /\ deps' = NoDeps
    /\ UNCHANGED pulled

\* __bool__, current_pkg and the accessors: the first package is pulled lazily.
Peek ==
    /\ ~exhausted
    /\ pulled = 0
    /\ \/ /\ matches # <<>>
          /\ pulled' = 1
          /\ deps' = ResetIters(matches[1])
          /\ UNCHANGED exhausted
       \/ /\ matches = <<>>
          /\ Exhaust
    /\ UNCHANGED <<matches, solution_filters, returned, forced>>

\* Mutants: the loop pulls twice per round; it takes the next package unseen.
NextSolublePullingTwice(at, filterset, next) ==
    /\ next \in (at + 2) .. Len(matches)
    /\ Soluble(ResetIters(matches[next]), filterset)

NextUnseen(at, filterset, next) == next = at + 1

(***************************************************************************)
(* The loop of reduce_atoms, entered with filterset while the package at   *)
(* position at is current and has the dependencies d: that package is kept *)
(* if it is soluble; otherwise the following ones are pulled until one is. *)
(***************************************************************************)
NextSoluble(at, filterset, next) ==
    /\ next \in (at + 1) .. Len(matches)
    /\ Soluble(ResetIters(matches[next]), filterset)
    /\ \A k \in (at + 1) .. (next - 1) :
         ~Soluble(ResetIters(matches[k]), filterset)

NoneSoluble(at, filterset) ==
    \A k \in (at + 1) .. Len(matches) :
      ~Soluble(ResetIters(matches[k]), filterset)

ReduceLoop(at, d, filterset) ==
    \/ /\ at > 0
       /\ Soluble(d, filterset)
       /\ pulled' = at
       /\ deps' = Narrow(d, filterset)
       /\ returned' = FALSE
       /\ UNCHANGED exhausted
    \/ /\ at = 0 \/ ~Soluble(d, filterset)
       /\ \E next \in 1 .. Len(matches) :
            /\ NextSoluble(at, filterset, next)
            /\ pulled' = next
            /\ deps' = Narrow(ResetIters(matches[next]), filterset)
            /\ returned' = (next > 1)
            /\ UNCHANGED exhausted
    \/ /\ at = 0 \/ ~Soluble(d, filterset)
       /\ NoneSoluble(at, filterset)
       /\ Exhaust
       /\ returned' = TRUE

\* reduce_atoms; once nothing remains it raises IndexError and changes nothing.
ReduceAtoms(atoms) ==
    /\ ~exhausted
    /\ solution_filters' = solution_filters \cup atoms
    /\ ReduceLoop(pulled, deps, solution_filters')
    /\ UNCHANGED <<matches, forced>>

(***************************************************************************)
(* force_next_pkg: pulls the next package and filters with no new atom.    *)
(* The dependency sets are not reset in between, so the loop filters those *)
(* of the package that was left.  Its one caller holds a current package.  *)
(***************************************************************************)
ForceNextPkg ==
    /\ ~exhausted
    /\ pulled > 0
    /\ \/ /\ pulled < Len(matches)
          /\ ReduceLoop(pulled + 1, deps, solution_filters)
          /\ forced' = forced \cup {pulled, pulled + 1}
       \/ /\ pulled = Len(matches)
          /\ Exhaust
          /\ forced' = forced \cup {pulled}
          /\ UNCHANGED returned
    /\ UNCHANGED <<matches, solution_filters>>

CPNext ==
    \/ Peek
    \/ \E atoms \in SUBSET DepAtoms : ReduceAtoms(atoms)
    \/ ForceNextPkg

CPSpec == CPInit /\ [][CPNext]_cpvars

-----------------------------------------------------------------------------
\* Each variable holds what the code puts there; only a current package has
\* dependencies to read.
CPTypeOK ==
    /\ matches \in Candidates
    /\ pulled \in 0 .. Len(matches)
    /\ exhausted \in BOOLEAN
    /\ solution_filters \subseteq DepAtoms
    /\ deps \in [Attrs -> SUBSET SUBSET DepAtoms]
    /\ returned \in BOOLEAN
    /\ forced \subseteq 1 .. Len(matches)
    /\ exhausted \/ pulled = 0 => deps = NoDeps

\* The packages the choice point moved past.
Passed == 1 .. (IF exhausted THEN Len(matches) ELSE pulled - 1)

\* A package the caller did not force its way past was passed over for a
\* reason: one of its own clauses has every atom struck out.  The resolver
\* never loses a package that still has a solution.
NoSolublePackageLost ==
    \A k \in Passed \ forced : ~Soluble(matches[k], solution_filters)

\* The package on offer is always one that can still be solved, whatever mix
\* of reductions and looks led to it.
OfferIsSoluble ==
    pulled > 0 /\ ~exhausted => Soluble(deps, solution_filters)

\* The four reduced dependency sets of a package that was not forced to are its
\* own, less the atoms struck out: no atom already known to be insoluble is
\* offered again, and no clause disappears on the way.
DepsAreTheOffersOwn ==
    pulled > 0 /\ ~exhausted /\ pulled \notin forced =>
      \A a \in Reduced : deps[a] = Filter(matches[pulled][a], solution_filters)
=============================================================================
