----------------------------- MODULE PlanState -----------------------------
(***************************************************************************)
(* resolver/state.py and resolver/pigeonholes.py: the resolver's working   *)
(* state.  plan_state keeps the packages chosen so far, one per slot, the  *)
(* blockers in force, and the log of every operation applied; the resolver *)
(* backtracks by undoing operations from the end of that log.              *)
(*                                                                         *)
(* An operation is a record; Effect and Undo say what its apply and revert *)
(* do to the state once they succeed.  apply of replace_op and remove_op   *)
(* first applies one decref operation per blocker of the package that      *)
(* leaves, each of which is logged, so they take several steps; so does    *)
(* backtrack, which reverts one operation at a time and cuts the log once, *)
(* at the end.  An exception in between ends the resolution ("raised"): it  *)
(* leaves the resolver, which is not used again.                           *)
(***************************************************************************)
EXTENDS Naturals, Sequences, FiniteSets

CONSTANTS
    Pkgs,        \* packages
    Livefs,      \* those of the installed package database
    SlotOf,      \* the key and slot of a package
    Choices,     \* choice points
    PkgOf,       \* the package a choice point settled on
    TagOf,       \* which instance a choice point's package holds of an atom
    Atoms,       \* blocker atoms, up to equality
    Blocks,      \* the packages an atom matches
    BlockersOf,  \* the blockers in the dependencies of a choice point's package
    Restricts,   \* what the resolver was asked to add
    Removable,   \* packages callers remove; none in this repository
    MaxPlan,     \* bound: operations start while the log is shorter
    MaxBackrefs, \* bound: back references logged at a time
    None

ASSUME ConstantsAssumption ==
    /\ Livefs \subseteq Pkgs
    /\ Removable \subseteq Livefs
    /\ PkgOf \in [Choices -> Pkgs]
    /\ Blocks \in [Atoms -> SUBSET Pkgs]
    /\ BlockersOf \in [Choices -> SUBSET Atoms]
    /\ MaxPlan \in Nat
    /\ MaxBackrefs \in Nat
    /\ None \notin Pkgs \cup Choices \cup Atoms \cup Restricts
    /\ \A c \in Choices : TagOf[c] # None

\* The atoms of every package are the same instances: all packages of one EAPI.
Interned == \A c, d \in Choices : TagOf[c] = TagOf[d]

\* No package's dependencies block the package itself.
NoSelfBlock == \A c \in Choices : \A a \in BlockersOf[c] : PkgOf[c] \notin Blocks[a]

\* The database holds one package per slot.
OneInstalledPerSlot ==
    \A p, q \in Livefs : SlotOf[p] = SlotOf[q] => p = q

Tags == {TagOf[c] : c \in Choices}

\* An entry of rev_blockers; n tells apart the entries of one choice point
\* for equal atoms, which are interchangeable in the code.
Tokens == [c : Choices, a : Atoms, n : Nat]

States == [
    slots    : SUBSET Pkgs,                    \* state.slot_dict
    limiters : [Atoms -> Tags \cup {None}],    \* state.limiters
    refcnt   : [Atoms -> Nat],                 \* blockers_refcnt
    rev      : SUBSET Tokens,                  \* rev_blockers
    choice   : [Pkgs -> Choices \cup {None}],  \* pkg_choices
    filter   : SUBSET Pkgs,                    \* vdb_filter
    hard     : [Restricts -> Nat]]             \* forced_restrictions

Empty == [
    slots    |-> {},
    limiters |-> [a \in Atoms |-> None],
    refcnt   |-> [a \in Atoms |-> 0],
    rev      |-> {},
    choice   |-> [p \in Pkgs |-> None],
    filter   |-> {},
    hard     |-> [r \in Restricts |-> 0]]

VARIABLES
    st,      \* the state above
    plan,    \* the log
    mode,    \* the call in progress: "idle" when none is
    pending, \* the replace or remove operation being applied
    target,  \* the argument of backtrack
    done,    \* its reversion_count
    hist,    \* history: for each logged operation, what undoing it has to give
    before   \* history: the state when backtrack was called

vars == <<st, plan, mode, pending, target, done, hist, before>>
calls == <<pending, target, done, before>>

Init ==
    /\ st = Empty
    /\ plan = <<>>
    /\ mode = "idle"
    /\ pending = None
    /\ target = 0
    /\ done = 0
    /\ hist = <<>>
    /\ before = Empty

-----------------------------------------------------------------------------
\* PigeonHoledSlots: check_limiters, get_conflicting_slot.
Limiting(s, p) == {a \in Atoms : s.limiters[a] # None /\ p \in Blocks[a]}
Occupants(s, p) == {q \in s.slots : SlotOf[q] = SlotOf[p]}

Op(name, c, p) ==
    [op |-> name, c |-> c, p |-> p, a |-> None, n |-> 0, r |-> None,
     old |-> None, oldc |-> None, force |-> FALSE]
AddOp(c, force) == [Op("add", c, PkgOf[c]) EXCEPT !.force = force]
BlockOp(name, t) == [Op(name, t.c, None) EXCEPT !.a = t.a, !.n = t.n]
HardrefOp(r) == [Op("hardref", None, None) EXCEPT !.r = r]
BackrefOp(c) == Op("backref", c, PkgOf[c])
ReplaceOp(c, old, oldc, force_old) ==
    [Op("replace", c, PkgOf[c])
       EXCEPT !.old = old, !.oldc = oldc, !.force = force_old]
RemoveOp(c) == Op("remove", c, PkgOf[c])

Token(o) == [c |-> o.c, a |-> o.a, n |-> o.n]

\* Mutant: the limiter outlives the last reference.
UnreferenceLate(s, o) ==
    [s EXCEPT !.rev = @ \ {Token(o)},
              !.refcnt[o.a] = @ - 1,
              !.limiters[o.a] = IF s.refcnt[o.a] = 0 THEN None ELSE @]


\* The two halves of the blocker operations: a limiter is set by the first
\* reference to its atom and removed with the last.
Reference(s, o) ==
    [s EXCEPT !.rev = @ \cup {Token(o)},
              !.refcnt[o.a] = @ + 1,
              !.limiters[o.a] = IF s.refcnt[o.a] = 0 THEN TagOf[o.c] ELSE @]

Unreference(s, o) ==
    [s EXCEPT !.rev = @ \ {Token(o)},
              !.refcnt[o.a] = @ - 1,
              !.limiters[o.a] = IF s.refcnt[o.a] = 1 THEN None ELSE @]

\* RefCountingSet.remove raises KeyError for an absent atom, and remove_limiter
\* unless the limiter is the very same instance.
UnreferenceRaises(s, o) ==
    \/ s.refcnt[o.a] = 0
    \/ s.refcnt[o.a] = 1 /\ s.limiters[o.a] # TagOf[o.c]
    \/ Token(o) \notin s.rev

\* Mutants: pkg_choices keeps an undone package; vdb_filter keeps a shown one.
UnseatKeepingChoice(s, p) == [s EXCEPT !.slots = @ \ {p}]
ShowNothing(s, p) == s

\* A package takes its slot, or leaves it; an installed package is hidden from
\* the searches of the database, or shown to them again.
Seat(s, p, c) == [s EXCEPT !.slots = @ \cup {p}, !.choice[p] = c]
Unseat(s, p) == [s EXCEPT !.slots = @ \ {p}, !.choice[p] = None]
Hide(s, p) == [s EXCEPT !.filter = @ \cup {p}]
Show(s, p) == [s EXCEPT !.filter = @ \ {p}]

Effect(s, o) ==
    CASE o.op = "add"     -> Seat(s, o.p, o.c)
      [] o.op = "incref"  -> Reference(s, o)
      [] o.op = "decref"  -> Unreference(s, o)
      [] o.op = "replace" -> Hide(Seat(Unseat(s, o.old), o.p, o.c), o.old)
      [] o.op = "remove"  -> Hide(Unseat(s, o.p), o.p)
      [] o.op = "hardref" -> [s EXCEPT !.hard[o.r] = @ + 1]
      [] o.op = "backref" -> s

Undo(s, o) ==
    CASE o.op = "add"     -> Unseat(s, o.p)
      [] o.op = "incref"  -> Unreference(s, o)
      [] o.op = "decref"  -> Reference(s, o)
      [] o.op = "replace" -> Show(Seat(Unseat(s, o.p), o.old, o.oldc), o.old)
      [] o.op = "remove"  -> Show(Seat(s, o.p, o.c), o.p)
      [] o.op = "hardref" -> [s EXCEPT !.hard[o.r] = @ - 1]
      [] o.op = "backref" -> s

\* When revert raises.  replace_op puts the old package back with the force it
\* recorded, and asserts that it is refused exactly when it was blocked then.
UndoRaises(s, o) ==
    \/ /\ o.op = "add"
       /\ o.p \notin s.slots
    \/ /\ o.op = "incref"
       /\ UnreferenceRaises(s, o)
    \/ /\ o.op = "replace"
       /\ \/ o.p \notin s.slots
          \/ o.old \notin s.filter
          \/ LET rest == [s EXCEPT !.slots = @ \ {o.p}]
                 refused == Limiting(rest, o.old) \cup Occupants(rest, o.old)
             IN  (refused # {}) # o.force
    \/ /\ o.op = "remove"
       /\ o.p \notin s.filter
    \/ /\ o.op = "hardref"
       /\ s.hard[o.r] = 0

\* What an apply or revert that raises did before: the reference is dropped and
\* its limiter not found; the new package is out of its slot, and the old one
\* in it if it was to be forced in.
DropHalf(s, o) == [s EXCEPT !.refcnt[o.a] = @ - 1]
UndoHalf(s, o) ==
    IF o.op = "replace"
    THEN [s EXCEPT !.slots = (@ \ {o.p}) \cup {q \in {o.old} : o.force}]
    ELSE s

-----------------------------------------------------------------------------
\* The package a replace or remove in progress took out of its slot already.
Leaving ==
    IF mode = "replacing" THEN {pending.old}
    ELSE IF mode = "removing" THEN {pending.p} ELSE {}

\* The state with that package still in its slot, and the state as it was when
\* the call in progress was made or last logged an operation.
Logical == [st EXCEPT !.slots = @ \cup Leaving]
Current == IF mode = "backtracking" THEN before ELSE Logical

PushLeaving(s, o) ==
    /\ st' = s
    /\ plan' = Append(plan, o)
    /\ hist' = Append(hist, Logical)

Push(o) == PushLeaving(Effect(st, o), o)

Ready == mode = "idle" /\ Len(plan) < MaxPlan

\* _ensure_livefs_is_loaded: an installed package in the slot is known, or
\* was replaced or removed before.
LivefsLoaded(p) ==
    \A q \in Livefs : SlotOf[q] = SlotOf[p] => q \in st.slots \cup st.filter

\* add_op of the package the resolver settled on; refused, with no change,
\* when a limiter matches it or its slot is taken.  A package in vdb_filter was
\* replaced, and its slot is taken, or removed, and nothing adds it again
\* (HiddenForCause).
Add(c) ==
    LET p == PkgOf[c] IN
    /\ Ready
    /\ Limiting(st, p) \cup Occupants(st, p) = {}
    /\ p \in Livefs \/ LivefsLoaded(p)
    /\ p \notin st.filter
    /\ Push(AddOp(c, FALSE))
    /\ UNCHANGED <<mode, calls>>

\* Mutant: the search of the database ignores vdb_filter.
ForceAddUnfiltered(c) ==
    LET p == PkgOf[c] IN
    /\ Ready
    /\ p \in Livefs \ st.slots
    /\ Push(AddOp(c, TRUE))
    /\ UNCHANGED <<mode, calls>>

\* add_op with force, as _ensure_livefs_is_loaded does for each installed
\* package that the plan neither holds nor has taken out.
ForceAdd(c) ==
    LET p == PkgOf[c] IN
    /\ Ready
    /\ p \in Livefs \ (st.slots \cup st.filter)
    /\ Push(AddOp(c, TRUE))
    /\ UNCHANGED <<mode, calls>>

AddBlocker(c, a) ==
    /\ Ready
    /\ a \in BlockersOf[c]
    /\ Push(BlockOp("incref", [c |-> c, a |-> a, n |-> Len(plan) + 1]))
    /\ UNCHANGED <<mode, calls>>

AddHardref(r) ==
    /\ Ready
    /\ Push(HardrefOp(r))
    /\ UNCHANGED <<mode, calls>>

\* add_backref_op, applied when an atom is already satisfied by the plan.
AddBackref(c) ==
    /\ Ready
    /\ Cardinality({i \in DOMAIN plan : plan[i].op = "backref"}) < MaxBackrefs
    /\ PkgOf[c] \in st.slots
    /\ Push(BackrefOp(c))
    /\ UNCHANGED <<mode, calls>>

\* Mutant: whether a limiter blocks the old package is not looked at.
ReplaceUnforced(c) ==
    LET p == PkgOf[c] IN
    /\ Ready
    /\ p \notin Livefs
    /\ Limiting(st, p) = {}
    /\ \E old \in Livefs :
         /\ Occupants(st, p) = {old}
         /\ pending' = ReplaceOp(c, old, st.choice[old], FALSE)
         /\ st' = [st EXCEPT !.slots = @ \ {old}]
    /\ mode' = "replacing"
    /\ UNCHANGED <<plan, target, done, hist, before>>

(***************************************************************************)
(* replace_op: insert_choice applies it when the one thing that refused    *)
(* the package is the installed package in its slot.  force_old is taken   *)
(* before the blockers of the old package are dropped.                     *)
(***************************************************************************)
Replace(c) ==
    LET p == PkgOf[c] IN
    /\ Ready
    /\ p \notin Livefs
    /\ Limiting(st, p) = {}
    /\ \E old \in Livefs :
         /\ Occupants(st, p) = {old}
         /\ pending' = ReplaceOp(c, old, st.choice[old], Limiting(st, old) # {})
         /\ st' = [st EXCEPT !.slots = @ \ {old}]
    /\ mode' = "replacing"
    /\ UNCHANGED <<plan, target, done, hist, before>>

\* remove_op, which the resolver exports and nothing in the repository applies.
Remove(p) ==
    /\ Ready
    /\ p \in st.slots
    /\ pending' = RemoveOp(st.choice[p])
    /\ st' = [st EXCEPT !.slots = @ \ {p}]
    /\ mode' = "removing"
    /\ UNCHANGED <<plan, target, done, hist, before>>

\* The blockers _remove_pkg_blockers still has to drop.
OldBlockers ==
    LET c == IF mode = "replacing" THEN pending.oldc ELSE pending.c
    IN  {t \in st.rev : t.c = c}

\* _remove_pkg_blockers: one decref, logged like any other operation.
DropBlocker ==
    /\ mode \in {"replacing", "removing"}
    /\ \E t \in OldBlockers :
         LET o == BlockOp("decref", t) IN
         \/ /\ ~UnreferenceRaises(st, o)
            /\ Push(o)
            /\ UNCHANGED mode
         \/ /\ UnreferenceRaises(st, o)
            /\ PushLeaving(DropHalf(st, o), o)
            /\ mode' = "raised"
    /\ UNCHANGED calls

\* The end of apply: the slot changes hands and the operation is logged.
Complete ==
    /\ mode \in {"replacing", "removing"}
    /\ OldBlockers = {}
    /\ Push(pending)
    /\ mode' = "idle"
    /\ pending' = None
    /\ UNCHANGED <<target, done, before>>

(***************************************************************************)
(* backtrack.  The positions the resolver keeps were read between calls, so *)
(* they never fall inside the decrefs of a replace or remove.              *)
(***************************************************************************)
Between(n) == n > 0 => plan[n].op # "decref"

Backtrack(n) ==
    /\ mode = "idle"
    /\ n \in 0 .. Len(plan) - 1
    /\ Between(n)
    /\ mode' = "backtracking"
    /\ target' = n
    /\ done' = 0
    /\ before' = st
    /\ UNCHANGED <<st, plan, pending, hist>>

Last == plan[Len(plan) - done]

RevertLast ==
    /\ mode = "backtracking"
    /\ Len(plan) - done > target
    /\ \/ /\ ~UndoRaises(st, Last)
          /\ st' = Undo(st, Last)
          /\ done' = done + 1
          /\ UNCHANGED <<plan, mode, hist>>
       \/ /\ UndoRaises(st, Last)
          /\ plan' = SubSeq(plan, 1, Len(plan) - done)
          /\ hist' = SubSeq(hist, 1, Len(plan) - done)
          /\ mode' = "raised"
          /\ done' = 0
          /\ st' = UndoHalf(st, Last)
    /\ UNCHANGED <<pending, target, before>>

CutPlan ==
    /\ mode = "backtracking"
    /\ Len(plan) - done = target
    /\ plan' = SubSeq(plan, 1, target)
    /\ hist' = SubSeq(hist, 1, target)
    /\ mode' = "idle"
    /\ target' = 0
    /\ done' = 0
    /\ before' = Empty
    /\ UNCHANGED <<st, pending>>

\* What a call does once it was made: it runs to its end.
Continue == DropBlocker \/ Complete \/ RevertLast \/ CutPlan

Next ==
    \/ \E c \in Choices :
         Add(c) \/ ForceAdd(c) \/ Replace(c) \/ AddBackref(c)
    \/ \E c \in Choices, a \in Atoms : AddBlocker(c, a)
    \/ \E r \in Restricts : AddHardref(r)
    \/ \E p \in Removable : Remove(p)
    \/ \E n \in 0 .. Len(plan) : Backtrack(n)
    \/ Continue

Spec == Init /\ [][Next]_vars

-----------------------------------------------------------------------------
OpNames == {"add", "incref", "decref", "replace", "remove", "hardref", "backref"}

Ops == [
    op    : OpNames,
    c     : Choices \cup {None},
    p     : Pkgs \cup {None},
    a     : Atoms \cup {None},
    n     : Nat,
    r     : Restricts \cup {None},
    old   : Pkgs \cup {None},
    oldc  : Choices \cup {None},
    force : BOOLEAN]

\* Every variable holds what the code puts there.
TypeOK ==
    /\ st \in States
    /\ plan \in Seq(Ops)
    /\ mode \in {"idle", "replacing", "removing", "backtracking", "raised"}
    /\ pending \in Ops \cup {None}
    /\ target \in Nat
    /\ done \in Nat
    /\ hist \in Seq(States)
    /\ Len(hist) = Len(plan)
    /\ before \in States

\* The packages of the plan never share a slot: not through the forced insertion
\* of an installed package, which ignores what the slot holds, nor through the
\* undoing of a replacement.
OnePerSlot ==
    \A p, q \in st.slots : SlotOf[p] = SlotOf[q] => p = q

\* The three books kept on blockers agree: the reference count of an atom is
\* the number of its entries in rev_blockers, and it has a limiter exactly while
\* that count is positive.  A limiter lost lets a blocked package in; one left
\* over refuses packages for good.
BooksAgree ==
    \A a \in Atoms :
      /\ st.refcnt[a] = Cardinality({t \in st.rev : t.a = a})
      /\ (st.limiters[a] # None) <=> (st.refcnt[a] > 0)

\* pkg_choices knows the choice point of exactly the packages of the plan
\* (between calls), and a package kept out of the installed ones is no longer in it.
PackagesHaveChoices ==
    /\ mode = "idle" =>
         \A p \in Pkgs : p \in st.slots <=> st.choice[p] # None
    /\ \A p \in Pkgs : st.choice[p] # None => PkgOf[st.choice[p]] = p
    /\ mode = "idle" => st.slots \cap st.filter = {}

\* An installed package stays hidden only while another package holds its slot
\* or a logged removal took it out: undoing either shows it again.
Removed(p) == \E i \in DOMAIN plan : plan[i].op = "remove" /\ plan[i].p = p

HiddenForCause ==
    mode = "idle" =>
      \A p \in st.filter :
        Removed(p) \/ \E q \in st.slots \ {p} : SlotOf[q] = SlotOf[p]

\* No call of the resolver ends in the KeyError of a limiter that is not found
\* or in the assertion of replace_op.revert.
NeverRaises == mode # "raised"

\* When the blockers of the old package are gone nothing refuses the new one, so
\* the branch of replace_op.apply that puts the old package back is dead.
ReplacementFits ==
    mode = "replacing" /\ OldBlockers = {} =>
      Limiting(st, PkgOf[pending.c]) \cup Occupants(st, PkgOf[pending.c]) = {}

\* Backtracking is exact: whatever the log holds, after k reversions the state
\* is the one from before the operation just reverted, and at the end it is the
\* state the position was read in.
BacktrackingIsExact ==
    mode = "backtracking" /\ done > 0 => st = hist[Len(hist) - done + 1]

\* What the resolver relies on: a stack of states, to which an operation adds
\* and of which backtracking drops the top.  A call counts when it is over.
History == INSTANCE UndoStack WITH cur <- Current, stack <- hist

IsUndoStack == History!Spec
=============================================================================
