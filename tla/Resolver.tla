------------------------------ MODULE Resolver ------------------------------
(***************************************************************************)
(* resolver/plan.py: merge_plan, the search for a plan.  _rec_add_atom     *)
(* finds a package for an atom, first solves that package's dependencies   *)
(* by calling itself, then puts the package into the plan; when something  *)
(* has no solution it backtracks the plan (PlanState) and goes on with the *)
(* next package of its choice point (ChoicePoint).                         *)
(*                                                                         *)
(* The recursion is an explicit stack of frames; ctl says what is done     *)
(* next.  The search is deterministic but for the order of the clauses of  *)
(* a dependency and of the atoms of a clause, which is left open.  The     *)
(* world it searches, deps and opts, is chosen at the start.               *)
(***************************************************************************)
EXTENDS Naturals, Sequences, FiniteSets

CONSTANTS
    Pkgs,      \* packages, each of one repository
    Livefs,    \* those of the installed package database
    Built,     \* installed and binary packages
    SlotOf,    \* the key and slot of a package
    CpvOf,     \* what package equality compares
    Atoms,     \* dependencies, blockers included
    Matches,   \* the packages an atom matches
    Blockers,  \* the atoms that block what they match
    Past,      \* for a weak blocker: the atom of its key that it does not match
    Worlds,    \* the pairs of deps and opts considered
    MaxDepth,  \* bound: frames on the stack
    MaxMade,   \* bound: choice points made
    None

Seqs == INSTANCE SequencesExt

Weak == DOMAIN Past
ChoicePoints == [id : 1 .. MaxMade, pkg : Pkgs]

ASSUME ConstantsAssumption ==
    /\ Livefs \subseteq Built /\ Built \subseteq Pkgs
    /\ IsFiniteSet(Livefs) /\ IsFiniteSet(Atoms) /\ MaxMade \in Nat
    /\ Matches \in [Atoms -> SUBSET Pkgs]
    /\ Blockers \subseteq Atoms /\ Weak \subseteq Blockers
    /\ \A a \in Weak : Past[a] \in Atoms \ Blockers
    /\ None \notin Pkgs \cup Atoms \cup ChoicePoints \cup {0}

VARIABLES
    deps,      \* the dependencies of every package; fixed
    opts,      \* requests, order (the strategy), drop_cycles, built; fixed
    st,        \* self.state, a state of PlanState
    plan,      \* its log
    stack,     \* the frames of resolver_stack
    ctl,       \* what is done next
    insoluble, \* atoms found to match nothing
    asked,     \* how many requests were taken up
    made,      \* how many choice points were made
    excused,   \* history: dependencies taken for granted, and since when
    base       \* history: the state when the current request was taken up

world == <<deps, opts>>
search == <<insoluble, asked, made, base>>
vars == <<world, st, plan, stack, ctl, search, excused>>

CP == INSTANCE ChoicePoint
        WITH DepAtoms <- {}, Candidates <- {}, matches <- <<>>, pulled <- 0, exhausted <- FALSE,
             solution_filters <- {}, returned <- FALSE, forced <- {}

Attrs == CP!Attrs
Modes == Attrs \cup {"none"}

\* A clause has an atom (conditionals.py:89); the strategy orders the packages of all
\* databases; the database of installed packages holds one for each slot.
ASSUME WorldsAssumption ==
    /\ \A w \in Worlds :
         /\ w.deps \in [Pkgs -> [Attrs -> SUBSET ((SUBSET Atoms) \ {{}})]]
         /\ w.opts.requests \in Seq(Atoms)
         /\ w.opts.order \in Seq(Pkgs)
         /\ Pkgs = {w.opts.order[i] : i \in DOMAIN w.opts.order}
    /\ \A p, q \in Livefs : SlotOf[p] = SlotOf[q] => p = q

PS == INSTANCE PlanState
        WITH Choices <- ChoicePoints, PkgOf <- [c \in ChoicePoints |-> c.pkg],
             TagOf <- [c \in ChoicePoints |-> 0], Blocks <- Matches,
             BlockersOf <- [c \in ChoicePoints |-> Blockers],
             Restricts <- Atoms, Removable <- {},
             MaxPlan <- 0, MaxBackrefs <- 0, mode <- "idle", pending <- None,
             target <- 0, done <- 0, hist <- <<>>, before <- None

\* Mutant: the package is put in before what builds it.
ProgramInsertFirst ==
    <<"insert", "depend", "bdepend", "rdepend", "idepend", "pdepend", "done">>

\* The attributes of a package in the order _rec_add_atom works through them,
\* and the insertion of the package itself.
Program == <<"depend", "bdepend", "rdepend", "idepend", "insert", "pdepend", "done">>

-----------------------------------------------------------------------------
\* The working state and its log, taken together.
Now == [st |-> st, plan |-> plan]
Logged(w, op) == [st |-> PS!Effect(w.st, op), plan |-> Append(w.plan, op)]
LogAll(w, ops) ==
    LET after[i \in 0 .. Len(ops)] == IF i = 0 THEN w ELSE Logged(after[i - 1], ops[i])
    IN  after[Len(ops)]

Backtracked(w, n) ==
    LET undone[i \in n .. Len(w.plan)] ==
          IF i = Len(w.plan) THEN w.st ELSE PS!Undo(undone[i + 1], w.plan[i + 1])
    IN  [st |-> undone[n], plan |-> SubSeq(w.plan, 1, n)]

Commit(w) ==
    /\ st' = w.st
    /\ plan' = w.plan

\* Mutant: the packages chosen in vain stay in the plan.
BacktrackToNowhere(w, n) ==
    /\ Commit(w)
    /\ excused' = {x \in excused : x.at <= n}

\* The plan goes back to length n, and with it what was excused since.
BacktrackTo(w, n) ==
    /\ Commit(Backtracked(w, n))
    /\ excused' = {x \in excused : x.at <= n}

HeldIn(s, a) == Matches[a] \cap s.slots
Held(a) == HeldIn(st, a)

\* No step makes more choice points than there are installed packages, or one.
InBounds == made + Cardinality(Livefs) < MaxMade

\* What the code does next.
At(where) == [at |-> where]
Calling(a, mode, dbs, drop, why) ==
    [at |-> "call", atom |-> a, mode |-> mode, dbs |-> dbs, drop |-> drop, why |-> why]
Returning(ok, why) == [at |-> "return", ok |-> ok, why |-> why]

Top == stack[Len(stack)]
WithTop(f) == [stack EXCEPT ![Len(stack)] = f]

\* pop_frame, and the return of the call that made the frame.
Leave(ok) ==
    /\ stack' = Seqs!Front(stack)
    /\ ctl' = Returning(ok, Top.why)

\* The package for whose dependencies the frame on top was made: a frame limited
\* to installed packages, or made for the saving throw, repeats the one below.
Owners == {i \in 2 .. Len(stack) : stack[i].why \in {"node", "weak"}}
Owner == IF Owners = {} THEN None ELSE stack[Seqs!Max(Owners) - 1].cur

\* What is taken for granted: that the dependency will be met before its turn
\* comes ("first"), or that it is met at all ("met"), since the plan had length n.
Excuse(pkg, a, what, n) == [pkg |-> pkg, atom |-> a, what |-> what, at |-> n]

-----------------------------------------------------------------------------
\* What a search of one database or of all finds: livefs_dbs hides what is in
\* vdb_filter when it is read.
Visible(s, dbs, a, p) == p \in Matches[a] /\ (dbs = "livefs" => p \in Livefs \ s.filter)

\* The frame with the first of its remaining packages that can be solved.
Moved(s, f) ==
    LET own(p) == CP!ResetIters(deps[p])
        k == Seqs!SelectInSeq(f.rest,
               LAMBDA p : Visible(s, f.dbs, f.atom, p) /\ CP!Soluble(own(p), f.filters))
    IN  IF k = 0
        THEN [f EXCEPT !.cur = None, !.own = CP!NoDeps, !.rest = <<>>]
        ELSE [f EXCEPT !.cur = f.rest[k], !.own = CP!Narrow(own(f.rest[k]), f.filters),
                       !.rest = SubSeq(@, k + 1, Len(@))]

\* reduce_atoms for a current package; it answers True when the package changed.
Changes(f, atoms) == ~CP!Soluble(f.own, f.filters \cup atoms)
Reduced(s, f, atoms) ==
    LET g == [f EXCEPT !.filters = @ \cup atoms]
    IN  IF Changes(f, atoms) THEN Moved(s, g)
        ELSE [g EXCEPT !.own = CP!Narrow(@, g.filters)]

\* force_next_pkg: the dependencies stay those of the package that is left.
Forced(s, f) ==
    LET k == Seqs!SelectInSeq(f.rest, LAMBDA p : Visible(s, f.dbs, f.atom, p))
    IN  IF k = 0 THEN Moved(s, [f EXCEPT !.rest = <<>>])
        ELSE [f EXCEPT !.cur = f.rest[k], !.rest = SubSeq(@, k + 1, Len(@))]

\* The frame at the first step from the k-th on that has something to do; the
\* dependencies are those the choice point holds when the step is entered.
Skips(f, attr) == attr \in {"depend", "bdepend"} /\ f.cur \in Built /\ ~opts.built

Entering(f, k) ==
    LET busy(j) == Program[j] \in CP!Attrs =>
                     ~Skips(f, Program[j]) /\ f.own[Program[j]] # {}
        j == Seqs!Min({i \in k .. Len(Program) : busy(i)})
    IN  [f EXCEPT !.step = j, !.nodes = <<>>,
                  !.clauses = IF Program[j] \in CP!Attrs THEN f.own[Program[j]] ELSE {}]

\* The frame after its current clause was satisfied.
ClauseDone(f) ==
    IF f.clauses = {} THEN Entering(f, f.step + 1) ELSE [f EXCEPT !.nodes = <<>>]

Retried(f) ==
    IF f.cur = None THEN [f EXCEPT !.clauses = {}, !.nodes = <<>>] ELSE Entering(f, 1)

-----------------------------------------------------------------------------
Init ==
    /\ \E w \in Worlds : deps = w.deps /\ opts = w.opts
    /\ st = PS!Empty
    /\ plan = <<>>
    /\ stack = <<>>
    /\ ctl = At("start")
    /\ insoluble = {}
    /\ asked = 0
    /\ made = 0
    /\ excused = {}
    /\ base = PS!Empty

\* add_atoms records every request first.
Begin ==
    /\ ctl.at = "start"
    /\ Commit(LogAll(Now, [i \in DOMAIN opts.requests |-> PS!HardrefOp(opts.requests[i])]))
    /\ ctl' = At("next")
    /\ UNCHANGED <<world, stack, search, excused>>

Request ==
    /\ ctl.at = "next"
    /\ asked < Len(opts.requests)
    /\ asked' = asked + 1
    /\ base' = st
    /\ ctl' = Calling(opts.requests[asked + 1], "none", "all", FALSE, "request")
    /\ UNCHANGED <<world, st, plan, stack, insoluble, made, excused>>

Resolved ==
    /\ ctl.at = "next"
    /\ asked = Len(opts.requests)
    /\ ctl' = At("resolved")
    /\ UNCHANGED <<world, st, plan, stack, search, excused>>

-----------------------------------------------------------------------------

\* _viable.  The choice point of a frame starts reduced by what is insoluble.
Blank ==
    [atom |-> ctl.atom, mode |-> ctl.mode, dbs |-> ctl.dbs, drop |-> ctl.drop,
     why |-> ctl.why, ignored |-> FALSE, start |-> Len(plan), id |-> made + 1,
     cur |-> None, own |-> CP!NoDeps, rest |-> opts.order,
     filters |-> insoluble, step |-> 1, clauses |-> {}, clause |-> {},
     nodes |-> <<>>]

NewFrames == {Moved(st, f) : f \in {Blank}}

NoMatches == \A i \in DOMAIN opts.order : ~Visible(st, ctl.dbs, ctl.atom, opts.order[i])

Hopeless ==
    \/ ctl.atom \in insoluble
    \/ Held(ctl.atom) = {} /\ \A f \in NewFrames : f.cur = None

NotViable ==
    /\ ctl.at = "call"
    /\ Hopeless
    /\ insoluble' = insoluble \cup {a \in {ctl.atom} : ctl.dbs = "all" /\ NoMatches}
    /\ ctl' = Returning(FALSE, ctl.why)
    /\ UNCHANGED <<world, st, plan, stack, asked, made, base, excused>>

PreSolved ==
    /\ ctl.at = "call"
    /\ ctl.atom \notin insoluble
    /\ Held(ctl.atom) # {}
    /\ InBounds
    /\ LET p == CHOOSE q \in Held(ctl.atom) : TRUE
       IN  Commit(Logged(Now, PS!BackrefOp([id |-> made + 1, pkg |-> p])))
    /\ made' = made + 1
    /\ ctl' = Returning(TRUE, ctl.why)
    /\ UNCHANGED <<world, stack, insoluble, asked, base, excused>>

Viable ==
    /\ ctl.at = "call"
    /\ ctl.atom \notin insoluble
    /\ Held(ctl.atom) = {}
    /\ Len(stack) < MaxDepth
    /\ InBounds
    /\ \E f \in NewFrames : f.cur # None /\ stack' = Append(stack, f)
    /\ made' = made + 1
    /\ ctl' = At("cycles")
    /\ UNCHANGED <<world, st, plan, insoluble, asked, base, excused>>

(***************************************************************************)
(* check_for_cycles looks at the most recent frame with a package of the   *)
(* same key and slot, unless a post-merge dependency lies in between.      *)
(***************************************************************************)
Cycles ==
    {i \in 1 .. Len(stack) - 1 :
       /\ ~stack[i].ignored
       /\ SlotOf[stack[i].cur] = SlotOf[Top.cur]}

Verdict ==
    LET i == Seqs!Max(Cycles)
        f == stack[i]
    IN  IF Cycles = {} \/ \E j \in i .. Len(stack) - 1 : stack[j].mode = "pdepend"
        THEN "go"
        ELSE IF f.mode \notin {"depend", "bdepend"}
        THEN "satisfied"
        ELSE IF Top.cur \in Livefs
        THEN IF f.cur \in Livefs THEN "satisfied" ELSE "go"
        ELSE IF CpvOf[Top.cur] = CpvOf[f.cur] /\ Top.mode = "pdepend"
        THEN "go"
        ELSE "vdb"

NoCycle ==
    /\ ctl.at = "cycles"
    /\ Verdict = "go"
    /\ stack' = WithTop(Entering(Top, 1))
    /\ ctl' = At("work")
    /\ UNCHANGED <<world, st, plan, search, excused>>

\* The package further down will satisfy the dependency once it is in.
CycleSatisfied ==
    /\ ctl.at = "cycles"
    /\ Verdict = "satisfied"
    /\ LET awaited == stack[Seqs!Max(Cycles)].cur
           what == IF awaited \in Matches[Top.atom] THEN "first" ELSE "met"
       IN  excused' = excused \cup {Excuse(Owner, Top.atom, what, Len(plan))}
    /\ Leave(TRUE)
    /\ UNCHANGED <<world, st, plan, search>>

LimitToVdb ==
    /\ ctl.at = "cycles"
    /\ Verdict = "vdb"
    /\ stack' = WithTop([Top EXCEPT !.ignored = TRUE])
    /\ ctl' = Calling(Top.atom, Top.mode, "livefs", Top.drop, "vdb")
    /\ UNCHANGED <<world, st, plan, search, excused>>

-----------------------------------------------------------------------------
\* default_depset_reorder_strategy: atoms the plan or the installed packages
\* satisfy come first in a clause that offers a choice.
AtHand(a) ==
    a \notin Blockers /\ (Held(a) # {} \/ Matches[a] \cap (Livefs \ st.filter) # {})

Orders(clause) ==
    {s \in Seqs!SetToSeqs(clause) :
       \A i, j \in DOMAIN s : AtHand(s[j]) /\ ~AtHand(s[i]) => j < i}

\* process_dependencies takes up the next clause.
NextClause ==
    /\ ctl.at = "work"
    /\ Top.clauses # {}
    /\ Top.nodes = <<>>
    /\ \E clause \in Top.clauses : \E nodes \in Orders(clause) :
         stack' = WithTop([Top EXCEPT !.clauses = @ \ {clause}, !.clause = clause,
                                      !.nodes = nodes])
    /\ UNCHANGED <<world, st, plan, ctl, search, excused>>

TryAtom ==
    /\ ctl.at = "work"
    /\ Top.nodes # <<>>
    /\ Head(Top.nodes) \notin Blockers
    /\ ctl' = Calling(Head(Top.nodes), Program[Top.step], Top.dbs, Top.drop, "node")
    /\ UNCHANGED <<world, st, plan, stack, search, excused>>

\* A node found no solution: it is struck from the choice point.  If that cost
\* the package, or was the last node, all is undone and the package now current
\* is started with; otherwise the next node is tried.
NodeFails(w) ==
    LET node == Head(Top.nodes) IN
    \E f \in {Reduced(w.st, Top, {node})} : \E g \in {Reduced(w.st, f, Top.clause)} :
        /\ ctl' = At("work")
        /\ \/ /\ Changes(Top, {node})
              /\ BacktrackTo(w, Top.start)
              /\ stack' = WithTop(Retried(f))
           \/ /\ ~Changes(Top, {node})
              /\ Len(Top.nodes) > 1
              /\ Commit(w)
              /\ stack' = WithTop([f EXCEPT !.nodes = Tail(@)])
              /\ UNCHANGED excused
           \/ /\ ~Changes(Top, {node})
              /\ Len(Top.nodes) = 1
              /\ BacktrackTo(w, Top.start)
              /\ stack' = WithTop(Retried(g))


\* _ensure_livefs_is_loaded: the installed packages among ps, when the plan
\* holds none of them, are put into it by force.
Loads(ps) == IF ps \cap st.slots # {} THEN {} ELSE (ps \cap Livefs) \ st.filter

Loaded(ps) ==
    LET s == Seqs!SetToSeq(Loads(ps))
    IN  LogAll(Now, [i \in DOMAIN s |-> PS!AddOp([id |-> made + i, pkg |-> s[i]], TRUE)])

Here == [id |-> Top.id, pkg |-> Top.cur]

\* insert_blockers, and process_blocker around it.  Only the first reference to
\* a blocker reports what it hits; past a weak one an upgrade is tried.
TryBlocker ==
    /\ ctl.at = "work"
    /\ Top.nodes # <<>>
    /\ Head(Top.nodes) \in Blockers
    /\ InBounds
    /\ LET a == Head(Top.nodes)
           ps == IF Top.cur \in Livefs THEN {} ELSE Matches[a]
           token(w) == [c |-> Here, a |-> a, n |-> Len(w.plan) + 1]
       IN
       \E w \in {Loaded(ps)} : \E x \in {Logged(w, PS!BlockOp("incref", token(w)))} :
       LET hit == w.st.refcnt[a] = 0 /\ HeldIn(w.st, a) # {}
       IN  /\ made' = made + Cardinality(Loads(ps))
           /\ \/ /\ ~hit
                 /\ Commit(x)
                 /\ stack' = WithTop(ClauseDone(Top))
                 /\ UNCHANGED <<ctl, excused>>
              \/ /\ hit
                 /\ a \in Weak
                 /\ Commit(x)
                 /\ ctl' = Calling(Past[a], "none", stack[1].dbs, FALSE, "weak")
                 /\ UNCHANGED <<stack, excused>>
              \/ /\ hit
                 /\ a \notin Weak
                 /\ NodeFails(x)
    /\ UNCHANGED <<world, insoluble, asked, base>>

-----------------------------------------------------------------------------
SlotMates == {q \in Pkgs : SlotOf[q] = SlotOf[Top.cur]}

\* replace_op.apply: the old package and its blockers leave, the new one enters.
Replaced(w, old) ==
    LET oldc == w.st.choice[old]
        gone == Seqs!SetToSeq({t \in w.st.rev : t.c = oldc})
        op == PS!ReplaceOp(Here, old, oldc, PS!Limiting(w.st, old) # {})
    IN  Logged(LogAll(w, [i \in DOMAIN gone |-> PS!BlockOp("decref", gone[i])]), op)

\* insert_choice.  What refused the package decides: the same package is in
\* already; another one that the atom matches too; an installed one to replace.
Same(q) ==
    /\ CpvOf[q] = CpvOf[Top.cur]
    /\ q \in Livefs <=> Top.cur \in Livefs
    /\ q \in Matches[Top.atom]

Insert ==
    /\ ctl.at = "work"
    /\ Top.cur # None
    /\ Program[Top.step] = "insert"
    /\ InBounds
    /\ LET ps == IF Top.cur \in Livefs THEN {} ELSE SlotMates
       IN
       \E w \in {Loaded(ps)} :
       LET limiting == PS!Limiting(w.st, Top.cur)
           occupants == PS!Occupants(w.st, Top.cur)
           same == limiting = {} /\ \E q \in occupants : occupants = {q} /\ Same(q)
           foreign == limiting # {} \/ ~(occupants \subseteq Livefs)
           inserted == WithTop(Entering(Top, Top.step + 1))
       IN  /\ made' = made + Cardinality(Loads(ps))
           /\ \/ /\ limiting \cup occupants = {}
                 /\ Commit(Logged(w, PS!AddOp(Here, FALSE)))
                 /\ stack' = inserted
                 /\ UNCHANGED <<ctl, excused>>
              \/ /\ same \/ (foreign /\ HeldIn(w.st, Top.atom) # {})
                 /\ Commit(w)
                 /\ Leave(TRUE)
                 /\ UNCHANGED excused
              \/ /\ ~same /\ foreign /\ HeldIn(w.st, Top.atom) = {}
                 /\ \E x \in {Backtracked(w, Top.start)} : \E f \in {Forced(x.st, Top)} :
                        /\ Commit(x)
                        /\ stack' = WithTop(Retried(f))
                        /\ excused' = {e \in excused : e.at <= Top.start}
                                        \cup {Excuse(f.cur, a, "met", Top.start) : a \in Atoms}
                 /\ UNCHANGED ctl
              \/ /\ ~same /\ ~foreign /\ occupants # {}
                 /\ Top.cur \notin Livefs
                 /\ \E old \in occupants : Commit(Replaced(w, old))
                 /\ stack' = inserted
                 /\ UNCHANGED <<ctl, excused>>
              \/ /\ ~same /\ ~foreign /\ occupants # {}
                 /\ Top.cur \in Livefs
                 /\ ctl' = At("raised")
                 /\ UNCHANGED <<st, plan, stack, excused>>
    /\ UNCHANGED <<world, insoluble, asked, base>>

Succeed ==
    /\ ctl.at = "work"
    /\ Top.cur # None
    /\ Program[Top.step] = "done"
    /\ Leave(TRUE)
    /\ UNCHANGED <<world, st, plan, search, excused>>

\* Mutant: the saving throw is not remembered to have been taken.
RunOutAgain ==
    /\ ctl.at = "work"
    /\ Top.cur = None
    /\ BacktrackTo(Now, Top.start)
    /\ \/ /\ opts.drop_cycles
          /\ stack' = WithTop([Top EXCEPT !.ignored = TRUE])
          /\ ctl' = Calling(Top.atom, Top.mode, Top.dbs, TRUE, "saving")
       \/ /\ ~opts.drop_cycles
          /\ Leave(FALSE)
    /\ UNCHANGED <<world, search>>

\* Out of choices; the saving throw repeats the search and drops what it cannot
\* solve.
RunOut ==
    /\ ctl.at = "work"
    /\ Top.cur = None
    /\ BacktrackTo(Now, Top.start)
    /\ \/ /\ opts.drop_cycles /\ ~Top.drop
          /\ stack' = WithTop([Top EXCEPT !.ignored = TRUE])
          /\ ctl' = Calling(Top.atom, Top.mode, Top.dbs, TRUE, "saving")
       \/ /\ ~opts.drop_cycles \/ Top.drop
          /\ Leave(FALSE)
    /\ UNCHANGED <<world, search>>

-----------------------------------------------------------------------------
\* What the caller does with the answer of _rec_add_atom.
ReturnToRequest ==
    /\ ctl.at = "return" /\ ctl.why = "request"
    /\ ctl' = At(IF ctl.ok THEN "next" ELSE "failed")
    /\ UNCHANGED <<world, st, plan, stack, search, excused>>

ReturnToNode ==
    /\ ctl.at = "return" /\ ctl.why = "node"
    /\ \/ /\ ctl.ok
          /\ stack' = WithTop(ClauseDone(Top))
          /\ ctl' = At("work")
          /\ UNCHANGED <<st, plan, excused>>
       \/ /\ ~ctl.ok /\ Top.drop
          /\ stack' = WithTop(ClauseDone(Top))
          /\ ctl' = At("work")
          /\ excused' = excused \cup {Excuse(Top.cur, Head(Top.nodes), "met", Len(plan))}
          /\ UNCHANGED <<st, plan>>
       \/ /\ ~ctl.ok /\ ~Top.drop
          /\ NodeFails(Now)
    /\ UNCHANGED <<world, search>>

\* The upgrade may have landed in another slot: the blocker must match nothing.
ReturnToBlocker ==
    /\ ctl.at = "return" /\ ctl.why = "weak"
    /\ \/ /\ ctl.ok /\ Held(Head(Top.nodes)) = {}
          /\ stack' = WithTop(ClauseDone(Top))
          /\ ctl' = At("work")
          /\ UNCHANGED <<st, plan, excused>>
       \/ /\ ~ctl.ok \/ Held(Head(Top.nodes)) # {}
          /\ NodeFails(Now)
    /\ UNCHANGED <<world, search>>

\* The frame that was limited to installed packages, or took the saving throw,
\* answers what the repeated search answered.
ReturnToRepeated ==
    /\ ctl.at = "return" /\ ctl.why \in {"vdb", "saving"}
    /\ Leave(ctl.ok)
    /\ UNCHANGED <<world, st, plan, search, excused>>

Next ==
    \/ Begin \/ Request \/ Resolved
    \/ NotViable \/ PreSolved \/ Viable
    \/ NoCycle \/ CycleSatisfied \/ LimitToVdb
    \/ NextClause \/ TryAtom \/ TryBlocker
    \/ Insert \/ Succeed \/ RunOut
    \/ ReturnToRequest \/ ReturnToNode \/ ReturnToBlocker \/ ReturnToRepeated

Spec == Init /\ [][Next]_vars
FairSpec == Spec /\ WF_vars(Next)

-----------------------------------------------------------------------------
Whys == {"request", "node", "weak", "vdb", "saving"}

\* Every variable holds what the code puts there; frames are made bottom up, each
\* remembering a length the plan had.
TypeOK ==
    /\ st \in PS!States
    /\ plan \in Seq(PS!Ops)
    /\ ctl.at \in {"start", "next", "call", "cycles", "work", "return", "resolved",
                   "failed", "raised"}
    /\ insoluble \subseteq Atoms
    /\ asked \in 0 .. Len(opts.requests)
    /\ made \in Nat
    /\ \A x \in excused : x.pkg \in Pkgs \cup {None} /\ x.atom \in Atoms
    /\ \A i \in DOMAIN stack :
         /\ stack[i].atom \in Atoms
         /\ stack[i].mode \in Modes
         /\ stack[i].dbs \in {"all", "livefs"}
         /\ stack[i].why \in Whys
         /\ stack[i].cur \in Pkgs \cup {None}
         /\ stack[i].start <= Len(plan)
         /\ i > 1 => stack[i - 1].start <= stack[i].start

Excused(p, a, whats) == \E x \in excused : x.pkg = p /\ x.atom = a /\ x.what \in whats

\* An installed package that matched was replaced after it had been counted on:
\* the search does not look back at the dependencies it breaks.
Displaced(a) == Matches[a] \cap st.filter # {}

Met(p, a, whats) ==
    \/ Excused(p, a, whats)
    \/ IF a \in Blockers THEN st.refcnt[a] > 0 ELSE Held(a) # {} \/ Displaced(a)

\* When the resolution succeeds every request is in the plan.
RequestsAreMet ==
    ctl.at = "resolved" =>
      \A i \in DOMAIN opts.requests : Held(opts.requests[i]) # {} \/ Displaced(opts.requests[i])

\* The packages the search chose, not those it was made aware of.
Chosen ==
    {plan[i].p : i \in {j \in DOMAIN plan :
       plan[j].op = "replace" \/ (plan[j].op = "add" /\ ~plan[j].force)}} \cap st.slots

Processed(p) ==
    (Attrs \ {"idepend"}) \
      (IF p \in Built /\ ~opts.built THEN {"depend", "bdepend"} ELSE {})

\* The package a dependency was taken for granted for is not in: another one of its
\* slot was in already when its turn came, which its own atom matches as well.
GaveWay(a) ==
    \E q \in Matches[a] \ st.slots : \E r \in st.slots : SlotOf[r] = SlotOf[q]

\* When the resolution succeeds every dependency of every chosen package has a
\* solution in the plan, but for those taken for granted that nobody looks at again:
\* to break a cycle by way of another version of the slot, or by the saving throw of
\* drop_cycles ("met"); or for a package further down that then gave way.
DependenciesAreMet ==
    ctl.at = "resolved" =>
      \A p \in Chosen : \A attr \in Processed(p) : \A clause \in deps[p][attr] :
        \E a \in clause : Met(p, a, {"met"}) \/ (Excused(p, a, {"first"}) /\ GaveWay(a))

\* When a package enters the plan what it needs to be built is there already.
BuildDepsComeFirst ==
    [][\A p \in st'.slots \ st.slots :
         ctl.at = "work" /\ Top.cur = p /\ p \notin Built =>
           \A clause \in deps[p].depend \cup deps[p].bdepend :
             \E a \in clause : Met(p, a, {"first", "met"})]_vars

Installed == Livefs \ st.filter

\* Installed packages block one another: their blockers are not held against what is
\* installed, nor those of later packages that are equal to them.
AmongInstalled(a) ==
    Matches[a] \cap Livefs # {} /\ \E t \in st.rev : t.a = a /\ t.c.pkg \in Livefs

\* When the resolution succeeds no package is blocked by another: neither those of
\* the plan nor the installed ones that it leaves in place, unless installed packages
\* block one another.
NothingIsBlocked ==
    ctl.at = "resolved" =>
      \A a \in Blockers : st.refcnt[a] > 0 /\ ~AmongInstalled(a) =>
        Matches[a] \cap (st.slots \cup Installed) = {}


\* A request that fails leaves the working state as it found it, and what was
\* struck out as insoluble for the whole resolution has no match: nothing a failed
\* branch leaves behind can mislead the next.
FailureLeavesNoTrace ==
    /\ ctl.at = "failed" => st = base /\ stack = <<>>
    /\ \A a \in insoluble : Matches[a] = {}

\* The answer can be relied on, whichever it is.
AnswersHold == RequestsAreMet /\ FailureLeavesNoTrace

\* The search ends: cycles are cut, and no choice is tried twice.
SearchEnds == <>(ctl.at \in {"resolved", "failed", "raised"})
=============================================================================
