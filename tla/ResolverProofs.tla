--------------------------- MODULE ResolverProofs ---------------------------
(***************************************************************************)
(* Proofs about Resolver, the search for a plan, for every world, every    *)
(* instance and every depth of the search.                                 *)
(*                                                                         *)
(* The log is the key.  A log that leads from the empty state to st, each  *)
(* operation applied where it is valid, is followed by the states it went  *)
(* through (Trace); Reaches(n, b, w) says that its first n operations led  *)
(* to b.  Operations that are logged keep what was reached (Grows), and to *)
(* backtrack to a length goes back to what was reached there (GoesBack): a *)
(* frame need only remember a length.  So it suffices that no frame cuts   *)
(* the log below the length at which the request began, which is what the  *)
(* frames' lengths, one below the other, guarantee (Frames), and that a    *)
(* call that is answered in the negative leaves the log at the length its  *)
(* caller had (Control).                                                   *)
(*                                                                         *)
(* A second invariant (JInv) adds what the search has found so far.  Along *)
(* the log what is found stays found (Later), so a frame that called has,  *)
(* when the call returns, still solved what it had solved before: each     *)
(* frame is as far with what its package needs to be built as its step     *)
(* says (Advanced), and the requests taken up before are in place.         *)
(*                                                                         *)
(* Of PlanState it is used that Undo takes back Effect where the operation *)
(* was valid; every operation the search logs is shown to be (XApplies).   *)
(***************************************************************************)
EXTENDS Resolver, FiniteSetTheorems, SequenceTheorems, WellFoundedInduction, TLAPS

\* The lemmas about working states; all they need to know are constants.
RS == INSTANCE ResolverStateProofs
        WITH Choices <- ChoicePoints, PkgOf <- [c \in ChoicePoints |-> c.pkg],
             TagOf <- [c \in ChoicePoints |-> 0], Blocks <- Matches,
             BlockersOf <- [c \in ChoicePoints |-> Blockers],
             Restricts <- Atoms, Removable <- {},
             MaxPlan <- 0, MaxBackrefs <- 0, mode <- "idle", pending <- None,
             target <- 0, done <- 0, hist <- <<>>, before <- None,
             DepAtoms <- {}, Candidates <- {}, matches <- <<>>, pulled <- 0, exhausted <- FALSE,
             solution_filters <- {}, returned <- FALSE, forced <- {}

-----------------------------------------------------------------------------
(***************************************************************************)
(* The log and the states it went through.  force is looked at by neither  *)
(* Effect nor Undo.  Only installed packages give up their blockers.       *)
(***************************************************************************)
Caused(s) == \A p \in s.filter : \E q \in s.slots \ {p} : SlotOf[q] = SlotOf[p]

Applicable(s, o, k) ==
    /\ o \in PS!Ops /\ o.op # "remove"
    /\ o.op = "decref" => o.c.pkg \in Livefs
    /\ \E b \in BOOLEAN : RS!Valid(s, [o EXCEPT !.force = b], k)

InOrder(s, k) == RS!StateOK(s, k) /\ Caused(s)

Trace(w, h) ==
    /\ w.plan \in Seq(PS!Ops)
    /\ h = [i \in 0 .. Len(w.plan) |-> h[i]]
    /\ h[0] = PS!Empty
    /\ h[Len(w.plan)] = w.st
    /\ \A i \in 0 .. Len(w.plan) : InOrder(h[i], i)
    /\ \A i \in 1 .. Len(w.plan) :
         /\ Applicable(h[i - 1], w.plan[i], i - 1)
         /\ h[i] = PS!Effect(h[i - 1], w.plan[i])

\* The first n operations of the log led to b.
Reaches(n, b, w) ==
    /\ w = [st |-> w.st, plan |-> w.plan]
    /\ \E h : Trace(w, h) /\ n \in 0 .. Len(w.plan) /\ h[n] = b

FrameSet == [
    atom    : Atoms,
    mode    : Modes,
    dbs     : {"all", "livefs"},
    drop    : BOOLEAN,
    why     : Whys,
    ignored : BOOLEAN,
    start   : Nat,
    id      : 1 .. MaxMade,
    cur     : Pkgs \cup {None},
    own     : [Attrs -> SUBSET SUBSET Atoms],
    rest    : Seq(Pkgs),
    filters : SUBSET Atoms,
    step    : 1 .. 7,
    clauses : SUBSET SUBSET Atoms,
    clause  : SUBSET Atoms,
    nodes   : Seq(Atoms)]

\* A frame without a package has nothing to work on.
Working(f) ==
    f.clauses # {} \/ f.nodes # <<>> => f.cur # None /\ Program[f.step] \in Attrs

Calls == [at : {"call"}, atom : Atoms, mode : Modes, dbs : {"all", "livefs"},
          drop : BOOLEAN, why : Whys]
Returns == [at : {"return"}, ok : BOOLEAN, why : Whys]
Others == [at : {"start", "next", "cycles", "work", "resolved", "failed", "raised"}]

Typed ==
    /\ [deps |-> deps, opts |-> opts] \in {[deps |-> w.deps, opts |-> w.opts] : w \in Worlds}
    /\ ctl \in Calls \cup Returns \cup Others
    /\ insoluble \subseteq Atoms
    /\ asked \in 0 .. Len(opts.requests)
    /\ made \in Nat
    /\ \A x \in excused : x.pkg \in Pkgs \cup {None} /\ x.atom \in Atoms

Frames ==
    /\ stack \in Seq(FrameSet)
    /\ \A i \in DOMAIN stack :
         /\ Working(stack[i])
         /\ stack[i].start <= Len(plan)
         /\ stack[i].why = "request" <=> i = 1
         /\ stack[i].why \in {"node", "weak"} => stack[i - 1].nodes # <<>>
         /\ stack[i].why \in {"vdb", "saving"} => stack[i].start = stack[i - 1].start
    /\ \A i, j \in DOMAIN stack : i <= j => stack[i].start <= stack[j].start

\* Called, or answered in the negative, with nothing done.
Asking == ctl.at = "call" \/ (ctl.at = "return" /\ ~ctl.ok)

Control ==
    /\ ctl.at \in {"start", "next", "resolved", "failed"} => stack = <<>>
    /\ ctl.at \in {"cycles", "work"} => stack # <<>>
    /\ ctl.at \in {"call", "return"} =>
         /\ ctl.why = "request" <=> stack = <<>>
         /\ ctl.why \in {"node", "weak"} => Top.nodes # <<>>
    /\ ctl.at = "cycles" => Len(plan) = Top.start /\ Top.cur # None
    /\ Asking /\ ctl.why \in {"vdb", "saving"} => Len(plan) = Top.start
    /\ Asking /\ ctl.why = "request" => st = base
    /\ ctl.at = "failed" => st = base

Logs ==
    /\ Reaches(0, PS!Empty, Now)
    /\ stack # <<>> => Reaches(stack[1].start, base, Now)

Unmatched == \A a \in insoluble : Matches[a] = {}

IInv == Typed /\ Frames /\ Control /\ Logs /\ Unmatched
-----------------------------------------------------------------------------
\* What PlanState assumes of its constants holds of those of the search.
LEMMA Assumed == RS!ConstantsAssumption /\ RS!Interned /\ RS!OneInstalledPerSlot
<1>1. RS!ConstantsAssumption
  BY ConstantsAssumption DEF RS!ConstantsAssumption, ChoicePoints
<1>2. RS!Interned
  BY DEF RS!Interned
<1>3. RS!OneInstalledPerSlot
  BY WorldsAssumption DEF RS!OneInstalledPerSlot
<1>4. QED BY <1>1, <1>2, <1>3

\* The operations on working states, seen from both instances of PlanState, which
\* differ in constants these do not look at.
LEMMA SameOps ==
    ASSUME NEW s, NEW o
    PROVE  PS!Effect(s, o) = RS!Effect(s, o) /\ PS!Undo(s, o) = RS!Undo(s, o)
<1>1. PS!Effect(s, o) = RS!Effect(s, o)
  BY DEF PS!Effect, RS!Effect, PS!Seat, RS!Seat, PS!Unseat, RS!Unseat, PS!Hide, RS!Hide,
         PS!Reference, RS!Reference, PS!Unreference, RS!Unreference, PS!Token, RS!Token
<1>2. PS!Undo(s, o) = RS!Undo(s, o)
  BY DEF PS!Undo, RS!Undo, PS!Seat, RS!Seat, PS!Unseat, RS!Unseat, PS!Show, RS!Show,
         PS!Reference, RS!Reference, PS!Unreference, RS!Unreference, PS!Token, RS!Token
<1>3. QED BY <1>1, <1>2

\* So are the types.
LEMMA SameSets == PS!Ops = RS!Ops /\ PS!States = RS!States /\ PS!Empty = RS!Empty
BY DEF PS!Ops, RS!Ops, PS!OpNames, RS!OpNames, PS!States, RS!States, PS!Tags, RS!Tags,
       PS!Tokens, RS!Tokens, PS!Empty, RS!Empty
\* A package is hidden only while its slot is occupied: no operation of the search
\* but replace hides one, and none is ever removed.
LEMMA EffectCaused ==
    ASSUME NEW k \in Nat, NEW s, RS!StateOK(s, k), Caused(s),
           NEW o, RS!Valid(s, o, k), o.op # "remove"
    PROVE  Caused(RS!Effect(s, o))
<1>1. s \in RS!States /\ s.filter \subseteq Livefs
  BY DEF RS!StateOK
<1>2. CASE o.op = "add"
  <2>1. /\ RS!Effect(s, o).slots = s.slots \cup {o.p}
        /\ RS!Effect(s, o).filter = s.filter
    BY <1>1, <1>2 DEF RS!Effect, RS!Seat, RS!States
  <2>2. QED BY <2>1 DEF Caused
<1>3. CASE o.op = "replace"
  <2>1. /\ RS!Effect(s, o).slots = (s.slots \ {o.old}) \cup {o.p}
        /\ RS!Effect(s, o).filter = s.filter \cup {o.old}
    BY <1>1, <1>3 DEF RS!Effect, RS!Hide, RS!Seat, RS!Unseat, RS!States
  <2>2. /\ o.p \notin Livefs /\ o.old \in Livefs
        /\ {q \in s.slots : SlotOf[q] = SlotOf[o.p]} = {o.old}
    BY <1>3 DEF RS!Valid, RS!Occupants
  <2>3. SlotOf[o.old] = SlotOf[o.p]
    BY <2>2
  <2>4. QED BY <1>1, <2>1, <2>2, <2>3 DEF Caused
<1>4. CASE o.op \in {"incref", "decref", "hardref", "backref"}
  <2>1. /\ RS!Effect(s, o).slots = s.slots
        /\ RS!Effect(s, o).filter = s.filter
    BY <1>1, <1>4 DEF RS!Effect, RS!Reference, RS!Unreference, RS!States
  <2>2. QED BY <2>1 DEF Caused
<1>5. QED BY <1>2, <1>3, <1>4 DEF RS!Valid

\* Undoing a logged operation gives back the state it was applied to.
LEMMA UndoneEffect ==
    ASSUME NEW k \in Nat, NEW s, InOrder(s, k), NEW o, Applicable(s, o, k)
    PROVE  /\ PS!Undo(PS!Effect(s, o), o) = s
           /\ InOrder(PS!Effect(s, o), k + 1)
<1>1. PICK b \in BOOLEAN : RS!Valid(s, [o EXCEPT !.force = b], k)
  BY DEF Applicable
<1> DEFINE u == [o EXCEPT !.force = b]
<1>2. /\ RS!Undo(RS!Effect(s, u), u) = s
      /\ RS!StateOK(RS!Effect(s, u), k + 1)
      /\ RS!Valid(s, u, k)
  BY <1>1, Assumed, RS!UndoEffect DEF InOrder
<1>3. /\ u.op = o.op /\ u.c = o.c /\ u.p = o.p /\ u.a = o.a /\ u.n = o.n
      /\ u.r = o.r /\ u.old = o.old /\ u.oldc = o.oldc
  BY DEF Applicable, PS!Ops
<1> HIDE DEF u
<1>4. RS!Effect(s, u) = RS!Effect(s, o) /\ \A x : RS!Undo(x, u) = RS!Undo(x, o)
  BY <1>3 DEF RS!Effect, RS!Undo, RS!Seat, RS!Unseat, RS!Hide, RS!Show,
         RS!Reference, RS!Unreference, RS!Token
<1>5. Caused(RS!Effect(s, u))
  BY <1>2, <1>3, EffectCaused DEF Applicable, InOrder
<1>6. QED BY <1>2, <1>5, <1>4, SameOps DEF InOrder
-----------------------------------------------------------------------------
\* Below a set of numbers there is a least one.
LEMMA LeastNumber ==
    ASSUME NEW T, T \subseteq Nat, T # {}
    PROVE  \E x \in T : \A y \in T : x <= y
<1>1. IsWellFoundedOn(OpToRel(<, Nat), Nat)
  BY NatLessThanWellFounded
<1>2. \A x, y \in Nat : x < y <=> <<x, y>> \in OpToRel(<, Nat)
  BY DEF OpToRel
<1>3. \E x \in T : \A y \in T : <<y, x>> \notin OpToRel(<, Nat)
  BY <1>1, WFMin, Zenon
<1>4. PICK x \in T : \A y \in T : <<y, x>> \notin OpToRel(<, Nat)
  BY <1>3, Zenon
<1>5. ASSUME NEW y \in T PROVE ~(y < x)
  BY <1>2, <1>4, Zenon
<1>6. \A y \in T : x <= y
  <2> TAKE y \in T
  <2>1. ~(y < x) /\ x \in Nat /\ y \in Nat
    BY <1>5
  <2>2. QED BY <2>1
<1>7. QED BY <1>6

\* Induction.
LEMMA Induction ==
    ASSUME NEW T, T \subseteq Nat, 0 \in T, \A n \in T : n + 1 \in T
    PROVE  T = Nat
<1> SUFFICES ASSUME NEW k \in Nat, k \notin T PROVE FALSE
  OBVIOUS
<1>1. PICK x \in Nat \ T : \A y \in Nat \ T : x <= y
  BY LeastNumber
<1>2. x # 0 /\ x - 1 \in T
  BY <1>1
<1>3. QED BY <1>1, <1>2

\* Min and Max of the community modules, on numbers.
LEMMA LeastOf ==
    ASSUME NEW T, T \subseteq Nat, T # {}
    PROVE  Seqs!Min(T) \in T
<1>1. PICK x \in T : \A y \in T : x <= y
  BY LeastNumber
<1>2. QED BY <1>1 DEF Seqs!Min

\* The same of the greatest, counted from above.
LEMMA GreatestOf ==
    ASSUME NEW n \in Nat, NEW T, T \subseteq 0 .. n, T # {}
    PROVE  Seqs!Max(T) \in T
<1> DEFINE U == {n - x : x \in T}
<1>1. U \subseteq Nat /\ U # {}
  <2>1. \A x \in T : n - x \in Nat /\ n - x \in U
    OBVIOUS
  <2>2. QED BY <2>1
<1> HIDE DEF U
<1>2. PICK y \in U : \A z \in U : y <= z
  BY <1>1, LeastNumber
<1>3. PICK x \in T : y = n - x
  BY DEF U
<1>4. \A z \in T : x >= z
  <2> TAKE z \in T
  <2>1. n - z \in U
    BY DEF U
  <2>2. n - x <= n - z /\ x \in Nat /\ z \in Nat
    BY <1>2, <1>3, <2>1
  <2>3. QED BY <2>2
<1>5. QED BY <1>3, <1>4 DEF Seqs!Max
-----------------------------------------------------------------------------
\* What is known of a working state that comes from the log.
LEMMA Reached ==
    ASSUME NEW n, NEW b, NEW w, Reaches(n, b, w)
    PROVE  /\ InOrder(w.st, Len(w.plan))
           /\ w.plan \in Seq(PS!Ops) /\ Len(w.plan) \in Nat /\ n \in 0 .. Len(w.plan)
           /\ w.st \in RS!States
           /\ Reaches(Len(w.plan), w.st, w)
           /\ n = Len(w.plan) => w.st = b
<1>1. PICK h : Trace(w, h) /\ n \in 0 .. Len(w.plan) /\ h[n] = b
  BY DEF Reaches
<1>2. w.plan \in Seq(PS!Ops) /\ Len(w.plan) \in Nat /\ h[Len(w.plan)] = w.st
  BY <1>1, LenProperties DEF Trace
<1>3. InOrder(w.st, Len(w.plan))
  BY <1>1, <1>2 DEF Trace
<1>4. QED BY <1>1, <1>2, <1>3 DEF Reaches, InOrder, RS!StateOK

\* An operation is logged: what was reached before stays so.
LEMMA Grows ==
    ASSUME NEW n, NEW b, NEW w, Reaches(n, b, w),
           NEW o, Applicable(w.st, o, Len(w.plan))
    PROVE  /\ Reaches(n, b, Logged(w, o))
           /\ Logged(w, o).st = PS!Effect(w.st, o)
           /\ Logged(w, o).plan = Append(w.plan, o)
           /\ Len(Logged(w, o).plan) = Len(w.plan) + 1
<1> DEFINE L == Len(w.plan)
           e == PS!Effect(w.st, o)
           v == Logged(w, o)
<1>1. PICK h : Trace(w, h) /\ n \in 0 .. Len(w.plan) /\ h[n] = b
  BY DEF Reaches
<1>2. /\ w.plan \in Seq(PS!Ops) /\ L \in Nat /\ h[L] = w.st /\ o \in PS!Ops
      /\ InOrder(w.st, L)
  BY <1>1, Reached DEF Trace, Applicable
<1>3. /\ v = [st |-> e, plan |-> Append(w.plan, o)]
      /\ v.plan \in Seq(PS!Ops) /\ Len(v.plan) = L + 1 /\ v.plan[L + 1] = o
      /\ \A i \in 1 .. L : v.plan[i] = w.plan[i]
  BY <1>2, AppendProperties DEF Logged
<1>4. InOrder(e, L + 1)
  BY <1>2, UndoneEffect
<1> DEFINE g == [i \in 0 .. L + 1 |-> IF i <= L THEN h[i] ELSE e]
<1>5. (\A i \in 0 .. L : g[i] = h[i]) /\ g[L + 1] = e
  BY <1>2
<1>6. g = [i \in 0 .. L + 1 |-> g[i]]
  OBVIOUS
<1>7. /\ h[0] = PS!Empty /\ n \in 0 .. L
      /\ \A i \in 0 .. L : InOrder(h[i], i)
      /\ \A i \in 1 .. L :
           Applicable(h[i - 1], w.plan[i], i - 1) /\ h[i] = PS!Effect(h[i - 1], w.plan[i])
  BY <1>1 DEF Trace
<1> HIDE DEF g, e, L, v
<1>8. \A i \in 0 .. L + 1 : InOrder(g[i], i)
  <2> TAKE i \in 0 .. L + 1
  <2>1. CASE i <= L
    BY <1>2, <1>5, <1>7, <2>1
  <2>2. CASE i = L + 1
    BY <1>4, <1>5, <2>2
  <2>3. QED BY <1>2, <2>1, <2>2
<1>9. \A i \in 1 .. L + 1 :
        Applicable(g[i - 1], v.plan[i], i - 1) /\ g[i] = PS!Effect(g[i - 1], v.plan[i])
  <2> TAKE i \in 1 .. L + 1
  <2>1. CASE i <= L
    <3>1. i \in 1 .. L /\ i - 1 \in 0 .. L /\ g[i] = h[i] /\ g[i - 1] = h[i - 1]
      BY <1>2, <1>5, <2>1
    <3>2. QED BY <1>3, <1>7, <3>1
  <2>2. CASE i = L + 1
    <3>1. i - 1 = L /\ g[i] = e /\ g[i - 1] = w.st /\ v.plan[i] = o
      BY <1>2, <1>3, <1>5, <2>2
    <3>2. QED BY <3>1 DEF e, L
  <2>3. QED BY <1>2, <2>1, <2>2
<1>10. Trace(v, g)
  <2>1. v.st = e
    BY <1>3
  <2>2. g[Len(v.plan)] = v.st
    BY <1>3, <1>5, <2>1
  <2>3. g[0] = PS!Empty
    BY <1>2, <1>5, <1>7
  <2>4. QED BY <1>3, <1>8, <1>9, <1>6, <2>2, <2>3 DEF Trace
<1>11. n \in 0 .. Len(v.plan) /\ g[n] = b
  BY <1>1, <1>2, <1>3, <1>5, <1>7
<1>12. QED BY <1>3, <1>10, <1>11 DEF Reaches, e, L, v

\* Backtracking leads where the log came from.
LEMMA GoesBack ==
    ASSUME NEW n, NEW b, NEW w, Reaches(n, b, w), NEW m \in n .. Len(w.plan)
    PROVE  /\ Reaches(n, b, Backtracked(w, m))
           /\ Backtracked(w, m).plan = SubSeq(w.plan, 1, m)
           /\ Len(Backtracked(w, m).plan) = m
           /\ m = n => Backtracked(w, m).st = b
<1> DEFINE L == Len(w.plan)
           v == Backtracked(w, m)
           Undoes(f) == f = [i \in m .. L |->
                              IF i = L THEN w.st ELSE PS!Undo(f[i + 1], w.plan[i + 1])]
           u == CHOOSE f : Undoes(f)
<1>1. PICK h : Trace(w, h) /\ n \in 0 .. L /\ h[n] = b
  BY DEF Reaches
<1>2. /\ w.plan \in Seq(PS!Ops) /\ L \in Nat /\ m \in 0 .. L
      /\ InOrder(w.st, L)
  BY <1>1, Reached DEF Trace
<1>3. /\ h[0] = PS!Empty /\ h[L] = w.st
      /\ \A i \in 0 .. L : InOrder(h[i], i)
      /\ \A i \in 1 .. L :
           Applicable(h[i - 1], w.plan[i], i - 1) /\ h[i] = PS!Effect(h[i - 1], w.plan[i])
  BY <1>1 DEF Trace
<1>4. v = [st |-> u[m], plan |-> SubSeq(w.plan, 1, m)]
  BY DEF Backtracked
<1> HIDE DEF L, v
<1>5. ASSUME NEW i \in 0 .. L, i < L
      PROVE  PS!Undo(h[i + 1], w.plan[i + 1]) = h[i]
  <2>1. i + 1 \in 1 .. L /\ (i + 1) - 1 = i /\ i \in Nat
    BY <1>2, <1>5
  <2>2. /\ Applicable(h[i], w.plan[i + 1], i) /\ h[i + 1] = PS!Effect(h[i], w.plan[i + 1])
        /\ InOrder(h[i], i)
    BY <1>3, <2>1
  <2>3. QED BY <2>1, <2>2, UndoneEffect
<1>6. \E f : Undoes(f)
  <2> DEFINE g == [i \in m .. L |-> h[i]]
  <2>1. ASSUME NEW i \in m .. L
        PROVE  g[i] = IF i = L THEN w.st ELSE PS!Undo(g[i + 1], w.plan[i + 1])
    <3>1. CASE i = L
      BY <1>3, <3>1
    <3>2. CASE i # L
      <4>1. i \in 0 .. L /\ i < L /\ i + 1 \in m .. L
        BY <1>2, <3>2
      <4>2. g[i + 1] = h[i + 1] /\ g[i] = h[i]
        BY <4>1
      <4>3. QED BY <1>5, <3>2, <4>1, <4>2
    <3>3. QED BY <3>1, <3>2
  <2>2. g = [i \in m .. L |-> g[i]]
    OBVIOUS
  <2> HIDE DEF g
  <2>3. Undoes(g)
    BY <2>1, <2>2
  <2>4. QED BY <2>3
<1>7. Undoes(u)
  BY <1>6
<1> HIDE DEF u
<1>8. ASSUME NEW i \in m .. L PROVE u[i] = h[i]
  <2> DEFINE T == {d \in Nat : d <= L - m => u[L - d] = h[L - d]}
  <2>1. ASSUME NEW k \in m .. L
        PROVE  u[k] = IF k = L THEN w.st ELSE PS!Undo(u[k + 1], w.plan[k + 1])
    BY <1>7
  <2>2. 0 \in T
    BY <1>2, <1>3, <2>1
  <2>3. ASSUME NEW d \in T PROVE d + 1 \in T
    <3>1. CASE d + 1 <= L - m
      <4> DEFINE k == L - (d + 1)
      <4>1. k \in m .. L /\ k \in 0 .. L /\ k < L /\ k + 1 = L - d /\ d <= L - m /\ d \in Nat
        BY <1>2, <3>1
      <4>2. u[k + 1] = h[k + 1]
        BY <4>1
      <4>3. u[k] = PS!Undo(u[k + 1], w.plan[k + 1])
        BY <2>1, <4>1
      <4>4. u[k] = h[k]
        BY <1>5, <4>1, <4>2, <4>3
      <4>5. QED BY <4>4
    <3>2. CASE ~(d + 1 <= L - m)
      BY <3>2
    <3>3. QED BY <3>1, <3>2
  <2>4. T = Nat
    <3> HIDE DEF T
    <3>1. T \subseteq Nat
      BY DEF T
    <3>2. QED BY <2>2, <2>3, <3>1, Induction
  <2>5. L - i \in Nat /\ L - i <= L - m /\ L - (L - i) = i
    BY <1>2
  <2>6. L - i \in T
    BY <2>4, <2>5
  <2>7. QED BY <2>5, <2>6
<1>9. /\ v.st = h[m] /\ v.plan = SubSeq(w.plan, 1, m)
      /\ v.plan \in Seq(PS!Ops) /\ Len(v.plan) = m
      /\ \A i \in 1 .. m : v.plan[i] = w.plan[i]
  <2>1. m \in m .. L
    BY <1>2
  <2>2. v.st = h[m] /\ v.plan = SubSeq(w.plan, 1, m)
    BY <1>4, <1>8, <2>1
  <2>3. m <= Len(w.plan) /\ 1 \in Nat /\ m \in Nat /\ m \in 0 .. Len(w.plan)
    BY <1>2 DEF L
  <2>4. QED BY <1>2, <2>2, <2>3, SubSeqProperties
<1> DEFINE g == [i \in 0 .. m |-> h[i]]
<1>10. (\A i \in 0 .. m : g[i] = h[i]) /\ 0 .. m \subseteq 0 .. L /\ 1 .. m \subseteq 1 .. L
  BY <1>2
<1>11. g = [i \in 0 .. m |-> g[i]]
  OBVIOUS
<1> HIDE DEF g
<1>12. Trace(v, g)
  <2>1. g[0] = PS!Empty /\ g[Len(v.plan)] = v.st
    BY <1>2, <1>3, <1>9, <1>10
  <2>2. \A i \in 0 .. m : InOrder(g[i], i)
    BY <1>3, <1>10
  <2>3. ASSUME NEW i \in 1 .. m
        PROVE  Applicable(g[i - 1], v.plan[i], i - 1) /\ g[i] = PS!Effect(g[i - 1], v.plan[i])
    <3>1. i - 1 \in 0 .. m /\ i \in 0 .. m /\ i \in 1 .. L
      BY <1>2
    <3>2. g[i] = h[i] /\ g[i - 1] = h[i - 1] /\ v.plan[i] = w.plan[i]
      BY <1>9, <1>10, <3>1
    <3>3. QED BY <1>3, <3>1, <3>2
  <2>4. QED BY <1>9, <1>11, <2>1, <2>2, <2>3 DEF Trace
<1>13. v = [st |-> v.st, plan |-> v.plan]
  BY <1>4
<1>14. n \in 0 .. m /\ g[n] = b
  BY <1>1, <1>2, <1>10
<1>15. QED BY <1>9, <1>10, <1>12, <1>13, <1>14, <1>1 DEF Reaches, v
-----------------------------------------------------------------------------
\* Operation by operation: when it can be applied.
LEMMA HardrefApplies ==
    ASSUME NEW s, NEW k, NEW a \in Atoms
    PROVE  Applicable(s, PS!HardrefOp(a), k)
<1> DEFINE o == PS!HardrefOp(a)
<1> DEFINE u == [o EXCEPT !.force = FALSE]
<1>1. o \in PS!Ops /\ o.op = "hardref" /\ u \in PS!Ops /\ u.op = "hardref" /\ u.r = a
  BY DEF PS!HardrefOp, PS!Op, PS!Ops, PS!OpNames
<1> HIDE DEF u
<1>2. RS!Valid(s, u, k)
  BY <1>1, SameSets DEF RS!Valid
<1>3. QED BY <1>1, <1>2 DEF Applicable, u

\* Each operation that the search logs is valid where it is logged.  A choice point
\* made for a package that is in the plan, or is known, needs nothing else.
LEMMA BackrefApplies ==
    ASSUME NEW s, NEW k, NEW c \in ChoicePoints
    PROVE  Applicable(s, PS!BackrefOp(c), k)
<1> DEFINE o == PS!BackrefOp(c)
<1> DEFINE u == [o EXCEPT !.force = FALSE]
<1>1. o \in PS!Ops /\ o.op = "backref" /\ u \in PS!Ops /\ u.op = "backref"
  BY DEF PS!BackrefOp, PS!Op, PS!Ops, PS!OpNames, ChoicePoints
<1> HIDE DEF u
<1>2. RS!Valid(s, u, k)
  BY <1>1, SameSets DEF RS!Valid
<1>3. QED BY <1>1, <1>2 DEF Applicable, u

\* A package is added where its slot is free, whether or not a blocker objects.
LEMMA AddApplies ==
    ASSUME NEW s, NEW k, NEW c \in ChoicePoints, NEW force \in BOOLEAN,
           PS!Occupants(s, c.pkg) = {}, c.pkg \notin s.filter,
           \A q \in Livefs : q # c.pkg /\ SlotOf[q] = SlotOf[c.pkg] => q \in s.filter
    PROVE  Applicable(s, PS!AddOp(c, force), k)
<1> DEFINE o == PS!AddOp(c, force)
<1>1. /\ o \in PS!Ops /\ o.op = "add" /\ o.c = c /\ o.p = c.pkg
      /\ [o EXCEPT !.force = force] = o
  BY DEF PS!AddOp, PS!Op, PS!Ops, PS!OpNames, ChoicePoints
<1> HIDE DEF o
<1>2. RS!Valid(s, o, k)
  BY <1>1, SameSets DEF RS!Valid, RS!Occupants, PS!Occupants
<1>3. QED BY <1>1, <1>2 DEF Applicable, o

\* A blocker is referenced, or given up again.
LEMMA BlockApplies ==
    ASSUME NEW k \in Nat, NEW s, InOrder(s, k), NEW t \in RS!Tokens,
           NEW name \in {"incref", "decref"},
           name = "incref" => t.a \in Blockers /\ t.n = k + 1,
           name = "decref" => t \in s.rev /\ t.c.pkg \in Livefs
    PROVE  /\ Applicable(s, PS!BlockOp(name, t), k)
           /\ PS!BlockOp(name, t).op = name
           /\ PS!Token(PS!BlockOp(name, t)) = t
<1> DEFINE o == PS!BlockOp(name, t)
<1> DEFINE u == [o EXCEPT !.force = FALSE]
<1>1. /\ o \in PS!Ops /\ o.op = name /\ o.c = t.c /\ o.a = t.a /\ o.n = t.n
      /\ u \in PS!Ops /\ u.op = name /\ u.c = t.c /\ u.a = t.a /\ u.n = t.n
      /\ t.c \in ChoicePoints /\ t.a \in Atoms
  BY DEF PS!BlockOp, PS!Op, PS!Ops, PS!OpNames, RS!Tokens
<1>2. t = [c |-> t.c, a |-> t.a, n |-> t.n]
  BY DEF RS!Tokens
<1> HIDE DEF u
<1>3. PS!Token(o) = t /\ RS!Token(u) = t
  BY <1>1, <1>2 DEF PS!Token, RS!Token
<1>4. name = "incref" => t \notin s.rev
  BY DEF InOrder, RS!StateOK
<1>5. RS!Valid(s, u, k)
  BY <1>1, <1>3, <1>4, SameSets DEF RS!Valid, RS!BlockerOp
<1>6. QED BY <1>1, <1>3, <1>5 DEF Applicable, u

\* An installed package is replaced by one of its slot that is not installed.
LEMMA ReplaceApplies ==
    ASSUME NEW s, NEW k, NEW c \in ChoicePoints, c.pkg \notin Livefs, NEW old \in Livefs,
           PS!Occupants(s, c.pkg) = {old}, s \in RS!States, NEW force \in BOOLEAN
    PROVE  Applicable(s, PS!ReplaceOp(c, old, s.choice[old], force), k)
<1> DEFINE o == PS!ReplaceOp(c, old, s.choice[old], force)
           f == RS!Limiting(s, old) # {}
           u == [o EXCEPT !.force = f]
<1>1. old \in Pkgs /\ s.choice[old] \in ChoicePoints \cup {None} /\ f \in BOOLEAN
  BY ConstantsAssumption DEF RS!States
<1>2. /\ o \in PS!Ops /\ o.op = "replace" /\ u \in PS!Ops /\ u.op = "replace" /\ u.c = c
      /\ u.p = c.pkg /\ u.old = old /\ u.oldc = s.choice[old] /\ u.force = f
  BY <1>1 DEF PS!ReplaceOp, PS!Op, PS!Ops, PS!OpNames, ChoicePoints
<1> HIDE DEF u
<1>3. RS!Valid(s, u, k)
  BY <1>2, SameSets DEF RS!Valid, RS!Occupants, PS!Occupants
<1>4. QED BY <1>1, <1>2, <1>3 DEF Applicable, u
-----------------------------------------------------------------------------
\* Several operations are logged one after another.
LEMMA LogAllUnfolds ==
    ASSUME NEW w, NEW ops, Len(ops) \in Nat
    PROVE  \E f : /\ f[0] = w
                  /\ \A i \in 1 .. Len(ops) : f[i] = Logged(f[i - 1], ops[i])
                  /\ LogAll(w, ops) = f[Len(ops)]
<1> DEFINE Unfolds(f, k) ==
             f = [i \in 0 .. k |-> IF i = 0 THEN w ELSE Logged(f[i - 1], ops[i])]
           T == {k \in Nat : \E f : Unfolds(f, k)}
           u == CHOOSE f : Unfolds(f, Len(ops))
<1>1. 0 \in T
  <2> DEFINE f == [i \in 0 .. 0 |-> w]
  <2>1. f = [i \in 0 .. 0 |-> IF i = 0 THEN w ELSE Logged(f[i - 1], ops[i])]
    OBVIOUS
  <2> HIDE DEF f
  <2>2. Unfolds(f, 0)
    BY <2>1
  <2>3. QED BY <2>2
<1>2. ASSUME NEW k \in T PROVE k + 1 \in T
  <2>1. PICK f : Unfolds(f, k)
    OBVIOUS
  <2> DEFINE g == [i \in 0 .. k + 1 |-> IF i <= k THEN f[i] ELSE Logged(f[k], ops[k + 1])]
  <2>2. ASSUME NEW i \in 0 .. k + 1
        PROVE  g[i] = IF i = 0 THEN w ELSE Logged(g[i - 1], ops[i])
    <3>1. CASE i = 0
      BY <2>1, <3>1
    <3>2. CASE i > 0 /\ i <= k
      <4>1. i \in 0 .. k /\ i - 1 \in 0 .. k /\ i - 1 <= k /\ i - 1 \in 0 .. k + 1
        BY <3>2
      <4>2. g[i] = f[i] /\ g[i - 1] = f[i - 1] /\ f[i] = Logged(f[i - 1], ops[i])
        BY <2>1, <3>2, <4>1
      <4>3. QED BY <3>2, <4>2
    <3>3. CASE i = k + 1
      <4>1. i - 1 = k /\ i - 1 \in 0 .. k + 1 /\ ~(i <= k) /\ i # 0
        BY <3>3
      <4>2. g[i] = Logged(f[k], ops[k + 1]) /\ g[i - 1] = f[k]
        BY <3>3, <4>1
      <4>3. QED BY <3>3, <4>1, <4>2
    <3>4. QED BY <3>1, <3>2, <3>3
  <2>3. g = [i \in 0 .. k + 1 |-> g[i]]
    OBVIOUS
  <2> HIDE DEF g
  <2>4. Unfolds(g, k + 1)
    BY <2>2, <2>3
  <2> HIDE DEF Unfolds
  <2>5. QED BY <2>4
<1>3. T = Nat
  <2> HIDE DEF T
  <2>1. T \subseteq Nat
    BY DEF T
  <2>2. QED BY <1>1, <1>2, <2>1, Induction
<1>4. Unfolds(u, Len(ops))
  BY <1>3
<1>5. LogAll(w, ops) = u[Len(ops)]
  BY DEF LogAll
<1> HIDE DEF u
<1>6. u[0] = w /\ \A i \in 1 .. Len(ops) : u[i] = Logged(u[i - 1], ops[i])
  BY <1>4
<1>7. QED BY <1>5, <1>6
-----------------------------------------------------------------------------
\* SetToSeq lists each member of a finite set once.
LEMMA Listed ==
    ASSUME NEW S, IsFiniteSet(S)
    PROVE  LET s == Seqs!SetToSeq(S) IN
           /\ Cardinality(S) \in Nat
           /\ Len(s) = Cardinality(S)
           /\ s \in [1 .. Len(s) -> S]
           /\ \A i, j \in 1 .. Len(s) : s[i] = s[j] => i = j
           /\ \A x \in S : \E i \in 1 .. Len(s) : s[i] = x
<1> DEFINE n == Cardinality(S)
           s == Seqs!SetToSeq(S)
<1>1. n \in Nat /\ ExistsBijection(1 .. n, S)
  BY FS_CardinalityType
<1>2. \E f \in [1 .. n -> S] : Seqs!IsInjective(f)
  BY <1>1 DEF ExistsBijection, Bijection, Injection, IsInjective, Seqs!IsInjective
<1>3. s \in [1 .. n -> S] /\ Seqs!IsInjective(s)
  <2>1. Seqs!Cardinality(S) = n
    BY DEF Cardinality, Seqs!Cardinality, Seqs!IsFiniteSet, IsFiniteSet
  <2>2. QED BY <1>2, <2>1, Zenon DEF Seqs!SetToSeq
<1> HIDE DEF s
<1>4. Len(s) = n
  BY <1>1, <1>3, LenProperties
<1>5. \A i, j \in 1 .. n : s[i] = s[j] => i = j
  BY <1>3 DEF Seqs!IsInjective
<1>6. ASSUME NEW x \in S PROVE \E i \in 1 .. n : s[i] = x
  <2> SUFFICES ASSUME \A i \in 1 .. n : s[i] # x PROVE FALSE
    OBVIOUS
  <2>1. s \in [1 .. n -> S \ {x}]
    BY <1>3
  <2>2. IsFiniteSet(S \ {x}) /\ Cardinality(S \ {x}) = n - 1
    BY FS_RemoveElement
  <2>3. IsFiniteSet(1 .. n) /\ Cardinality(1 .. n) = n
    BY <1>1, FS_Interval
  <2>4. n - 1 < n
    BY <1>1
  <2>5. \E i, j \in 1 .. n : i # j /\ s[i] = s[j]
    <3> DEFINE D == 1 .. n
               R == S \ {x}
    <3>1. IsFiniteSet(D) /\ IsFiniteSet(R) /\ Cardinality(R) < Cardinality(D) /\ s \in [D -> R]
      BY <2>1, <2>2, <2>3, <2>4
    <3> HIDE DEF D, R
    <3>2. \E i, j \in D : i # j /\ s[i] = s[j]
      BY <3>1, FS_PigeonHole
    <3>3. QED BY <3>2 DEF D
  <2>6. QED BY <1>5, <2>5
<1>7. QED BY <1>1, <1>3, <1>4, <1>5, <1>6 DEF s

\* Induction up to a bound.
LEMMA UpTo ==
    ASSUME NEW k \in Nat, NEW T, 0 \in T, \A i \in 0 .. k : i \in T /\ i < k => i + 1 \in T
    PROVE  k \in T
<1> DEFINE U == {i \in Nat : i <= k => i \in T}
<1>1. U \subseteq Nat /\ 0 \in U
  OBVIOUS
<1>2. ASSUME NEW i \in U PROVE i + 1 \in U
  <2>1. CASE i + 1 <= k
    <3>1. i \in Nat /\ i <= k /\ i < k /\ i + 1 \in Nat
      BY <2>1
    <3>2. i \in T
      BY <3>1
    <3>3. QED BY <3>1, <3>2
  <2>2. CASE ~(i + 1 <= k)
    BY <2>2
  <2>3. QED BY <2>1, <2>2
<1>3. U = Nat
  <2> HIDE DEF U
  <2>1. QED BY <1>1, <1>2, Induction
<1>4. QED BY <1>3

\* add_atoms: the requests are recorded.
LEMMA RequestsLogged ==
    ASSUME NEW n, NEW b, NEW w, Reaches(n, b, w), NEW reqs \in Seq(Atoms)
    PROVE  Reaches(n, b, LogAll(w, [i \in DOMAIN reqs |-> PS!HardrefOp(reqs[i])]))
<1> DEFINE ops == [i \in DOMAIN reqs |-> PS!HardrefOp(reqs[i])]
           k == Len(reqs)
<1>1. k \in Nat /\ DOMAIN reqs = 1 .. k /\ \A i \in 1 .. k : reqs[i] \in Atoms
  BY LenProperties, ElementOfSeq
<1>2. Len(ops) = k /\ \A i \in 1 .. k : ops[i] = PS!HardrefOp(reqs[i])
  BY <1>1
<1> HIDE DEF ops, k
<1>3. PICK f : /\ f[0] = w
               /\ \A i \in 1 .. k : f[i] = Logged(f[i - 1], ops[i])
               /\ LogAll(w, ops) = f[k]
  <2>1. Len(ops) \in Nat
    BY <1>1, <1>2
  <2>2. \E f : /\ f[0] = w
               /\ \A i \in 1 .. Len(ops) : f[i] = Logged(f[i - 1], ops[i])
               /\ LogAll(w, ops) = f[Len(ops)]
    BY <2>1, LogAllUnfolds, ZenonT(60)
  <2>3. QED BY <1>2, <2>2
<1> DEFINE T == {i \in 0 .. k : Reaches(n, b, f[i])}
<1>4. 0 \in T
  BY <1>1, <1>3
<1>5. ASSUME NEW i \in 0 .. k, i \in T, i < k PROVE i + 1 \in T
  <2>1. i + 1 \in 1 .. k /\ (i + 1) - 1 = i /\ i + 1 \in 0 .. k
    BY <1>1, <1>5
  <2>2. f[i + 1] = Logged(f[i], ops[i + 1])
    BY <1>3, <2>1
  <2>3. Applicable(f[i].st, ops[i + 1], Len(f[i].plan))
    BY <1>1, <1>2, <2>1, HardrefApplies
  <2>4. Reaches(n, b, f[i])
    BY <1>5
  <2>5. Reaches(n, b, f[i + 1])
    BY <2>2, <2>3, <2>4, Grows
  <2>6. QED BY <2>1, <2>5
<1> HIDE DEF T
<1>6. k \in T
  BY <1>1, <1>4, <1>5, UpTo
<1>7. Reaches(n, b, LogAll(w, ops))
  BY <1>3, <1>6 DEF T
<1>8. QED BY <1>7 DEF ops

\* _ensure_livefs_is_loaded puts the installed packages in, and does nothing else.
LEMMA LoadedAll ==
    ASSUME NEW n, NEW b, Reaches(n, b, Now), made \in Nat, InBounds, NEW ps
    PROVE  /\ Reaches(n, b, Loaded(ps))
           /\ Loaded(ps).st.slots = st.slots \cup Loads(ps)
           /\ Loaded(ps).st.filter = st.filter
           /\ Len(plan) <= Len(Loaded(ps).plan)
           /\ made + Cardinality(Loads(ps)) \in Nat
<1> DEFINE S == Loads(ps)
           s == Seqs!SetToSeq(S)
           k == Len(s)
           ops == [i \in DOMAIN s |-> PS!AddOp([id |-> made + i, pkg |-> s[i]], TRUE)]
<1>1. S \subseteq Livefs /\ S \cap st.filter = {} /\ S \cap st.slots = {}
  BY DEF Loads
<1>2. IsFiniteSet(S) /\ Cardinality(S) <= Cardinality(Livefs) /\ Cardinality(Livefs) \in Nat
  BY <1>1, ConstantsAssumption, FS_Subset, FS_CardinalityType
<1>3. /\ k = Cardinality(S) /\ k \in Nat /\ s \in [1 .. k -> S]
      /\ \A i, j \in 1 .. k : s[i] = s[j] => i = j
      /\ \A x \in S : \E i \in 1 .. k : s[i] = x
  BY <1>2, Listed
<1>4. /\ Now.st = st /\ Now.plan = plan /\ InOrder(st, Len(plan)) /\ st \in RS!States
      /\ Len(plan) \in Nat
  BY Reached DEF Now
<1> HIDE DEF S, s, k
<1>5. Len(ops) = k /\ \A i \in 1 .. k : ops[i] = PS!AddOp([id |-> made + i, pkg |-> s[i]], TRUE)
  BY <1>3
<1>6. Loaded(ps) = LogAll(Now, ops)
  BY DEF Loaded, S, s
<1> HIDE DEF ops
<1>7. PICK f : /\ f[0] = Now
               /\ \A i \in 1 .. k : f[i] = Logged(f[i - 1], ops[i])
               /\ LogAll(Now, ops) = f[k]
  BY <1>3, <1>5, LogAllUnfolds
<1> DEFINE In(i) == {s[j] : j \in 1 .. i}
           T == {i \in 0 .. k : /\ Reaches(n, b, f[i])
                                /\ f[i].st.slots = st.slots \cup In(i)
                                /\ f[i].st.filter = st.filter
                                /\ Len(plan) <= Len(f[i].plan)}
<1>8. 0 \in T
  BY <1>3, <1>4, <1>7
<1>9. ASSUME NEW i \in 0 .. k, i \in T, i < k PROVE i + 1 \in T
  <2> DEFINE p == s[i + 1]
             c == [id |-> made + (i + 1), pkg |-> p]
             v == f[i]
             o == ops[i + 1]
  <2>1. /\ i + 1 \in 1 .. k /\ (i + 1) - 1 = i /\ i + 1 \in 0 .. k /\ i \in Nat
        /\ \A j \in 1 .. i : j \in 1 .. k /\ j # i + 1
    BY <1>3, <1>9
  <2>2. p \in S /\ p \in Livefs /\ p \in Pkgs
    BY <1>1, <1>3, <2>1, ConstantsAssumption
  <2>3. c \in ChoicePoints
    <3>1. made + (i + 1) <= MaxMade /\ made + (i + 1) \in 1 .. MaxMade
      BY <1>2, <1>3, <2>1, ConstantsAssumption DEF InBounds
    <3>2. QED BY <2>2, <3>1 DEF ChoicePoints
  <2>4. /\ Reaches(n, b, v) /\ v.st.slots = st.slots \cup In(i)
        /\ v.st.filter = st.filter /\ Len(plan) <= Len(v.plan)
    BY <1>9
  <2>5. v.st \in RS!States /\ Len(v.plan) \in Nat
    BY <2>4, Reached
  <2>6. f[i + 1] = Logged(v, o) /\ o = PS!AddOp(c, TRUE) /\ c.pkg = p
    BY <1>5, <1>7, <2>1
  <2>7. p \notin v.st.filter
    BY <1>1, <2>2, <2>4
  <2>8. \A q \in Livefs : q # p /\ SlotOf[q] = SlotOf[p] => q \in v.st.filter
    BY <2>2, WorldsAssumption
  <2>9. ASSUME NEW q \in v.st.slots, SlotOf[q] = SlotOf[p] PROVE FALSE
    <3>1. CASE q \in st.slots
      <4>1. CASE q \in Livefs
        BY <1>1, <2>2, <2>9, <3>1, <4>1, WorldsAssumption
      <4>2. CASE q \notin Livefs
        <5>1. p \in st.filter
          BY <1>4, <2>2, <2>9, <3>1, <4>2 DEF InOrder, RS!StateOK
        <5>2. QED BY <2>4, <2>7, <5>1
      <4>3. QED BY <4>1, <4>2
    <3>2. CASE q \in In(i)
      <4>1. PICK j \in 1 .. i : q = s[j]
        BY <3>2
      <4>2. q \in Livefs
        BY <1>1, <1>3, <2>1, <4>1
      <4>3. q = p
        BY <2>2, <2>9, <4>2, WorldsAssumption
      <4>4. QED BY <1>3, <2>1, <4>1, <4>3
    <3>3. QED BY <2>4, <2>9, <3>1, <3>2
  <2> HIDE DEF p, c, o
  <2>10. PS!Occupants(v.st, c.pkg) = {}
    BY <2>6, <2>9 DEF PS!Occupants
  <2> HIDE DEF v, T, In
  <2>11. Applicable(v.st, o, Len(v.plan))
    BY <2>3, <2>6, <2>7, <2>8, <2>10, AddApplies
  <2>12. /\ Reaches(n, b, f[i + 1]) /\ f[i + 1].st = PS!Effect(v.st, o)
         /\ Len(f[i + 1].plan) = Len(v.plan) + 1
    <3>1. Reaches(n, b, v)
      BY <2>4
    <3>2. /\ Reaches(n, b, Logged(v, o)) /\ Logged(v, o).st = PS!Effect(v.st, o)
          /\ Len(Logged(v, o).plan) = Len(v.plan) + 1
      BY <2>11, <3>1, Grows
    <3>3. QED BY <2>6, <3>2
  <2>13. o.op = "add" /\ o.p = p
    BY <2>3, <2>6 DEF PS!AddOp, PS!Op
  <2>14. f[i + 1].st.slots = v.st.slots \cup {p} /\ f[i + 1].st.filter = v.st.filter
    BY <2>5, <2>12, <2>13 DEF PS!Effect, PS!Seat, RS!States
  <2>15. In(i + 1) = In(i) \cup {p}
    <3>1. 1 .. i + 1 = 1 .. i \cup {i + 1}
      BY <2>1
    <3>2. QED BY <3>1 DEF p, In
  <2>16. /\ f[i + 1].st.slots = st.slots \cup In(i + 1) /\ f[i + 1].st.filter = st.filter
         /\ Len(plan) <= Len(f[i + 1].plan)
    BY <1>4, <2>4, <2>5, <2>12, <2>14, <2>15
  <2>17. QED BY <2>1, <2>12, <2>16 DEF T
<1>10. k \in T
  <2> HIDE DEF T
  <2>1. QED BY <1>3, <1>8, <1>9, UpTo
<1>11. In(k) = S
  BY <1>3
<1>12. QED BY <1>2, <1>3, <1>7, <1>10, <1>11, <1>6 DEF S

\* replace_op: the blockers of the old package leave, then the packages change
\* places.
LEMMA ReplacedAll ==
    ASSUME NEW n, NEW b, NEW w, Reaches(n, b, w), NEW old \in Livefs,
           Here \in ChoicePoints, Here.pkg \notin Livefs, PS!Occupants(w.st, Here.pkg) = {old}
    PROVE  /\ Reaches(n, b, Replaced(w, old))
           /\ Len(w.plan) <= Len(Replaced(w, old).plan)
           /\ Here.pkg \in Replaced(w, old).st.slots
<1> DEFINE c == Here
           oldc == w.st.choice[old]
           S == {t \in w.st.rev : t.c = oldc}
           s == Seqs!SetToSeq(S)
           k == Len(s)
           ops == [i \in DOMAIN s |-> PS!BlockOp("decref", s[i])]
           op == PS!ReplaceOp(c, old, oldc, PS!Limiting(w.st, old) # {})
<1>1. /\ InOrder(w.st, Len(w.plan)) /\ w.st \in RS!States /\ Len(w.plan) \in Nat
  BY Reached
<1>2. /\ IsFiniteSet(S) /\ S \subseteq w.st.rev /\ S \subseteq RS!Tokens
      /\ \A t \in S : t.c.pkg \in Livefs
  <2>1. IsFiniteSet(w.st.rev) /\ w.st.rev \subseteq RS!Tokens
    BY <1>1 DEF InOrder, RS!StateOK, RS!Books, RS!States, RS!IsFiniteSet, IsFiniteSet
  <2>2. oldc.pkg = old
    <3>1. old \in w.st.slots /\ old \in Pkgs
      BY ConstantsAssumption DEF PS!Occupants
    <3>2. /\ oldc # None
          /\ [e \in ChoicePoints |-> e.pkg][oldc] = old
      BY <1>1, <3>1 DEF InOrder, RS!StateOK
    <3>3. oldc \in ChoicePoints
      BY <1>1, <3>1, <3>2 DEF RS!States
    <3>4. QED BY <3>2, <3>3
  <2>3. QED BY <2>1, <2>2, FS_Subset
<1>3. Replaced(w, old) = Logged(LogAll(w, ops), op)
  BY DEF Replaced
<1> HIDE DEF S
<1>4. /\ k \in Nat /\ s \in [1 .. k -> S]
      /\ \A i, j \in 1 .. k : s[i] = s[j] => i = j
  BY <1>2, Listed
<1> HIDE DEF s, k
<1>5. Len(ops) = k /\ \A i \in 1 .. k : ops[i] = PS!BlockOp("decref", s[i])
  BY <1>4
<1> HIDE DEF ops
<1>6. PICK f : /\ f[0] = w
               /\ \A i \in 1 .. k : f[i] = Logged(f[i - 1], ops[i])
               /\ LogAll(w, ops) = f[k]
  <2>1. \E f : /\ f[0] = w
               /\ \A i \in 1 .. Len(ops) : f[i] = Logged(f[i - 1], ops[i])
               /\ LogAll(w, ops) = f[Len(ops)]
    <3>1. Len(ops) \in Nat
      BY <1>4, <1>5
    <3>2. QED BY <3>1, LogAllUnfolds, ZenonT(60)
  <2>2. QED BY <1>5, <2>1
<1> DEFINE In(i) == {s[j] : j \in 1 .. i}
           T == {i \in 0 .. k : /\ Reaches(n, b, f[i])
                                /\ f[i].st.slots = w.st.slots
                                /\ f[i].st.choice = w.st.choice
                                /\ f[i].st.rev = w.st.rev \ In(i)
                                /\ Len(w.plan) <= Len(f[i].plan)}
<1>7. 0 \in T
  BY <1>1, <1>4, <1>6
<1>8. ASSUME NEW i \in 0 .. k, i \in T, i < k PROVE i + 1 \in T
  <2> DEFINE t == s[i + 1]
             v == f[i]
             o == ops[i + 1]
  <2>1. /\ i + 1 \in 1 .. k /\ (i + 1) - 1 = i /\ i + 1 \in 0 .. k /\ i \in Nat
        /\ \A j \in 1 .. i : j \in 1 .. k /\ j # i + 1
    BY <1>4, <1>8
  <2>2. t \in S /\ t \in RS!Tokens /\ t \in w.st.rev /\ t.c.pkg \in Livefs
    BY <1>2, <1>4, <2>1
  <2>3. /\ Reaches(n, b, v) /\ v.st.slots = w.st.slots /\ v.st.choice = w.st.choice
        /\ v.st.rev = w.st.rev \ In(i) /\ Len(w.plan) <= Len(v.plan)
    BY <1>8
  <2>4. t \in v.st.rev
    BY <1>4, <2>1, <2>2, <2>3
  <2>5. f[i + 1] = Logged(v, o) /\ o = PS!BlockOp("decref", t)
    BY <1>5, <1>6, <2>1
  <2>6. In(i + 1) = In(i) \cup {t}
    <3>1. 1 .. i + 1 = 1 .. i \cup {i + 1}
      BY <2>1
    <3>2. QED BY <3>1
  <2> HIDE DEF t, v, o, In, T
  <2>7. InOrder(v.st, Len(v.plan)) /\ v.st \in RS!States /\ Len(v.plan) \in Nat
    BY <2>3, Reached
  <2>8. Applicable(v.st, o, Len(v.plan)) /\ o.op = "decref" /\ PS!Token(o) = t
    BY <2>2, <2>4, <2>5, <2>7, BlockApplies
  <2>9. /\ Reaches(n, b, f[i + 1]) /\ f[i + 1].st = PS!Effect(v.st, o)
        /\ Len(f[i + 1].plan) = Len(v.plan) + 1
    <3>1. /\ Reaches(n, b, Logged(v, o)) /\ Logged(v, o).st = PS!Effect(v.st, o)
          /\ Len(Logged(v, o).plan) = Len(v.plan) + 1
      BY <2>3, <2>8, Grows
    <3>2. QED BY <2>5, <3>1
  <2>10. /\ f[i + 1].st.slots = v.st.slots /\ f[i + 1].st.choice = v.st.choice
         /\ f[i + 1].st.rev = v.st.rev \ {t}
    BY <2>7, <2>8, <2>9 DEF PS!Effect, PS!Unreference, RS!States
  <2>11. /\ f[i + 1].st.slots = w.st.slots /\ f[i + 1].st.choice = w.st.choice
         /\ f[i + 1].st.rev = w.st.rev \ In(i + 1) /\ Len(w.plan) <= Len(f[i + 1].plan)
    BY <1>1, <2>3, <2>6, <2>7, <2>9, <2>10
  <2>12. QED BY <2>1, <2>9, <2>11 DEF T
<1>9. k \in T
  <2> HIDE DEF T
  <2>1. QED BY <1>4, <1>7, <1>8, UpTo
<1> DEFINE v == LogAll(w, ops)
<1>10. /\ Reaches(n, b, v) /\ v.st.slots = w.st.slots /\ v.st.choice = w.st.choice
       /\ Len(w.plan) <= Len(v.plan)
  BY <1>6, <1>9
<1> HIDE DEF v, T, c, op
<1>11. v.st \in RS!States /\ Len(v.plan) \in Nat
  BY <1>10, Reached
<1>12. PS!Occupants(v.st, c.pkg) = {old} /\ c \in ChoicePoints /\ c.pkg \notin Livefs
  BY <1>10 DEF PS!Occupants, c
<1>13. op = PS!ReplaceOp(c, old, v.st.choice[old], PS!Limiting(w.st, old) # {})
  BY <1>10 DEF op
<1>14. Applicable(v.st, op, Len(v.plan))
  <2> DEFINE force == PS!Limiting(w.st, old) # {}
  <2>1. force \in BOOLEAN
    OBVIOUS
  <2> HIDE DEF force
  <2>2. Applicable(v.st, PS!ReplaceOp(c, old, v.st.choice[old], force), Len(v.plan))
    BY <1>11, <1>12, <2>1, ReplaceApplies
  <2>3. QED BY <1>13, <2>2 DEF force
<1>15. /\ Reaches(n, b, Logged(v, op)) /\ Len(Logged(v, op).plan) = Len(v.plan) + 1
       /\ Logged(v, op).st = PS!Effect(v.st, op)
  BY <1>10, <1>14, Grows
<1>16. c.pkg \in PS!Effect(v.st, op).slots
  <2>1. op.op = "replace" /\ op.p = c.pkg /\ c.pkg \in Pkgs
    BY <1>12 DEF op, PS!ReplaceOp, PS!Op, ChoicePoints
  <2>2. QED BY <1>11, <2>1 DEF PS!Effect, PS!Hide, PS!Seat, PS!Unseat, RS!States
<1>17. QED BY <1>1, <1>3, <1>10, <1>11, <1>15, <1>16 DEF v, c
-----------------------------------------------------------------------------
\* The world is one of those considered.
LEMMA WorldTyped ==
    ASSUME Typed
    PROVE  /\ deps \in [Pkgs -> [Attrs -> SUBSET SUBSET Atoms]]
           /\ opts.requests \in Seq(Atoms)
           /\ opts.order \in Seq(Pkgs)
           /\ Pkgs = {opts.order[i] : i \in DOMAIN opts.order}
<1>1. PICK w \in Worlds : deps = w.deps /\ opts = w.opts
  BY DEF Typed
<1>2. QED BY <1>1, WorldsAssumption

\* What a frame keeps when its choice point moves.
Kept(f, g) ==
    /\ g.atom = f.atom /\ g.mode = f.mode /\ g.dbs = f.dbs /\ g.drop = f.drop
    /\ g.why = f.why /\ g.start = f.start /\ g.id = f.id

\* The dependencies of every world are sets of sets of atoms.
LEMMA DepsTyped ==
    /\ CP!NoDeps \in [Attrs -> SUBSET SUBSET Atoms]
    /\ \A d \in [Attrs -> SUBSET SUBSET Atoms], fs \in SUBSET Atoms :
         /\ CP!Narrow(d, fs) \in [Attrs -> SUBSET SUBSET Atoms]
         /\ CP!ResetIters(d) \in [Attrs -> SUBSET SUBSET Atoms]
<1>1. CP!NoDeps \in [Attrs -> SUBSET SUBSET Atoms]
  BY DEF CP!NoDeps, Attrs
<1>2. ASSUME NEW d \in [Attrs -> SUBSET SUBSET Atoms], NEW fs \in SUBSET Atoms
      PROVE  CP!Narrow(d, fs) \in [Attrs -> SUBSET SUBSET Atoms]
  BY DEF CP!Narrow, CP!Filter, Attrs
<1>3. ASSUME NEW d \in [Attrs -> SUBSET SUBSET Atoms]
      PROVE  CP!ResetIters(d) \in [Attrs -> SUBSET SUBSET Atoms]
  BY DEF CP!ResetIters, Attrs, CP!Attrs
<1>4. QED BY <1>1, <1>2, <1>3

\* What is computed of a frame is a frame: with its first soluble package,
LEMMA MovedTyped ==
    ASSUME deps \in [Pkgs -> [Attrs -> SUBSET SUBSET Atoms]], NEW s, NEW f \in FrameSet
    PROVE  /\ Moved(s, f) \in FrameSet
           /\ Kept(f, Moved(s, f))
           /\ Moved(s, f).clauses = f.clauses /\ Moved(s, f).nodes = f.nodes
<1> DEFINE own(p) == CP!ResetIters(deps[p])
           I == {i \in 1 .. Len(f.rest) :
                  Visible(s, f.dbs, f.atom, f.rest[i]) /\ CP!Soluble(own(f.rest[i]), f.filters)}
           k == IF I # {} THEN Seqs!Min(I) ELSE 0
           q == f.rest[k]
           gone == [f EXCEPT !.cur = None, !.own = CP!NoDeps, !.rest = <<>>]
           next == [f EXCEPT !.cur = q, !.own = CP!Narrow(own(q), f.filters),
                             !.rest = SubSeq(@, k + 1, Len(@))]
<1>1. Moved(s, f) = IF k = 0 THEN gone ELSE next
  BY DEF Moved, Seqs!SelectInSeq
<1>2. k = 0 \/ k \in 1 .. Len(f.rest)
  <2>1. I \subseteq Nat /\ I \subseteq 1 .. Len(f.rest)
    OBVIOUS
  <2> HIDE DEF I
  <2>2. QED BY <2>1, LeastOf
<1> HIDE DEF k
<1>3. gone \in FrameSet /\ Kept(f, gone) /\ gone.clauses = f.clauses /\ gone.nodes = f.nodes
  <2>1. CP!NoDeps \in [Attrs -> SUBSET SUBSET Atoms] /\ <<>> \in Seq(Pkgs)
    BY DepsTyped
  <2>2. QED BY <2>1 DEF FrameSet, Kept
<1>4. ASSUME k # 0
      PROVE  next \in FrameSet /\ Kept(f, next) /\ next.clauses = f.clauses /\ next.nodes = f.nodes
  <2>1. f.rest \in Seq(Pkgs) /\ f.filters \in SUBSET Atoms /\ Len(f.rest) \in Nat
    BY DEF FrameSet
  <2>2. q \in Pkgs
    BY <1>2, <1>4, <2>1
  <2>3. CP!Narrow(own(q), f.filters) \in [Attrs -> SUBSET SUBSET Atoms]
    BY <2>1, <2>2, DepsTyped
  <2>4. SubSeq(f.rest, k + 1, Len(f.rest)) \in Seq(Pkgs)
    <3>1. k + 1 \in 1 .. Len(f.rest) + 1
      BY <1>2, <1>4, <2>1
    <3>2. QED BY <2>1, <3>1, SubSeqProperties
  <2> DEFINE d == CP!Narrow(own(q), f.filters)
             r == SubSeq(f.rest, k + 1, Len(f.rest))
  <2>5. next = [f EXCEPT !.cur = q, !.own = d, !.rest = r]
    BY DEF FrameSet
  <2> HIDE DEF d, r, q, next
  <2>6. QED BY <2>2, <2>3, <2>4, <2>5 DEF FrameSet, Kept, d, r
<1>5. QED BY <1>1, <1>3, <1>4

\* with packages struck out,
LEMMA ReducedTyped ==
    ASSUME deps \in [Pkgs -> [Attrs -> SUBSET SUBSET Atoms]], NEW s, NEW f \in FrameSet,
           NEW atoms \in SUBSET Atoms
    PROVE  /\ Reduced(s, f, atoms) \in FrameSet
           /\ Kept(f, Reduced(s, f, atoms))
           /\ ~Changes(f, atoms) =>
                /\ Reduced(s, f, atoms).cur = f.cur /\ Reduced(s, f, atoms).step = f.step
                /\ Reduced(s, f, atoms).clauses = f.clauses
                /\ Reduced(s, f, atoms).nodes = f.nodes
<1> DEFINE g == [f EXCEPT !.filters = @ \cup atoms]
           d == CP!Narrow(f.own, g.filters)
           n == [g EXCEPT !.own = d]
<1>1. g \in FrameSet /\ Kept(f, g)
  BY DEF FrameSet, Kept
<1>2. d \in [Attrs -> SUBSET SUBSET Atoms]
  <2>1. g.filters \in SUBSET Atoms /\ f.own \in [Attrs -> SUBSET SUBSET Atoms]
    BY <1>1 DEF FrameSet
  <2>2. QED BY <2>1, DepsTyped
<1>3. Reduced(s, f, atoms) = IF Changes(f, atoms) THEN Moved(s, g) ELSE n
  BY DEF Reduced, FrameSet
<1>4. g.cur = f.cur /\ g.step = f.step /\ g.clauses = f.clauses /\ g.nodes = f.nodes
  BY DEF FrameSet
<1> HIDE DEF g, d
<1>5. /\ n \in FrameSet /\ Kept(g, n)
      /\ n.cur = g.cur /\ n.step = g.step /\ n.clauses = g.clauses /\ n.nodes = g.nodes
  BY <1>1, <1>2 DEF FrameSet, Kept
<1>6. Moved(s, g) \in FrameSet /\ Kept(g, Moved(s, g))
  BY <1>1, MovedTyped
<1> HIDE DEF n
<1>7. QED BY <1>1, <1>3, <1>4, <1>5, <1>6 DEF Kept

\* with the next package,
LEMMA ForcedTyped ==
    ASSUME deps \in [Pkgs -> [Attrs -> SUBSET SUBSET Atoms]], NEW s, NEW f \in FrameSet
    PROVE  Forced(s, f) \in FrameSet /\ Kept(f, Forced(s, f))
<1> DEFINE I == {i \in 1 .. Len(f.rest) : Visible(s, f.dbs, f.atom, f.rest[i])}
           k == IF I # {} THEN Seqs!Min(I) ELSE 0
           q == f.rest[k]
           r == SubSeq(f.rest, k + 1, Len(f.rest))
           bare == [f EXCEPT !.rest = <<>>]
           next == [f EXCEPT !.cur = q, !.rest = r]
<1>1. Forced(s, f) = IF k = 0 THEN Moved(s, bare) ELSE next
  BY DEF Forced, Seqs!SelectInSeq, FrameSet
<1>2. k = 0 \/ k \in 1 .. Len(f.rest)
  <2>1. I \subseteq Nat /\ I \subseteq 1 .. Len(f.rest)
    OBVIOUS
  <2> HIDE DEF I
  <2>2. QED BY <2>1, LeastOf
<1> HIDE DEF k
<1>3. bare \in FrameSet /\ Kept(f, bare)
  <2>1. <<>> \in Seq(Pkgs)
    OBVIOUS
  <2>2. QED BY <2>1 DEF FrameSet, Kept
<1>4. ASSUME k # 0 PROVE next \in FrameSet /\ Kept(f, next)
  <2>1. f.rest \in Seq(Pkgs) /\ Len(f.rest) \in Nat
    BY DEF FrameSet
  <2>2. q \in Pkgs
    BY <1>2, <1>4, <2>1
  <2>3. r \in Seq(Pkgs)
    <3>1. k + 1 \in 1 .. Len(f.rest) + 1
      BY <1>2, <1>4, <2>1
    <3>2. QED BY <2>1, <3>1, SubSeqProperties
  <2> HIDE DEF q, r
  <2>4. QED BY <2>2, <2>3 DEF FrameSet, Kept
<1> HIDE DEF bare, next
<1>5. Moved(s, bare) \in FrameSet /\ Kept(bare, Moved(s, bare))
  BY <1>3, MovedTyped
<1>6. QED BY <1>1, <1>3, <1>4, <1>5 DEF Kept

\* at the next kind of dependencies that there are,
LEMMA EnteringTyped ==
    ASSUME NEW f \in FrameSet, f.cur # None, NEW k \in 1 .. 7
    PROVE  Entering(f, k) \in FrameSet /\ Kept(f, Entering(f, k)) /\ Working(Entering(f, k))
<1> DEFINE busy(j) == Program[j] \in CP!Attrs =>
                        ~Skips(f, Program[j]) /\ f.own[Program[j]] # {}
           I == {i \in k .. Len(Program) : busy(i)}
           j == Seqs!Min(I)
           c == IF Program[j] \in CP!Attrs THEN f.own[Program[j]] ELSE {}
<1>1. j \in k .. 7
  <2>1. Len(Program) = 7 /\ Program[7] \notin CP!Attrs
    BY DEF Program, CP!Attrs
  <2>2. 7 \in I /\ I \subseteq Nat /\ I \subseteq k .. 7
    BY <2>1
  <2> HIDE DEF I
  <2>3. QED BY <2>2, LeastOf
<1>2. Entering(f, k) = [f EXCEPT !.step = j, !.nodes = <<>>, !.clauses = c]
  BY DEF Entering
<1> HIDE DEF j
<1>3. j \in 1 .. 7 /\ c \in SUBSET SUBSET Atoms /\ (c # {} => Program[j] \in Attrs)
  BY <1>1 DEF FrameSet, Attrs
<1> HIDE DEF c
<1>4. f.cur \in Pkgs \cup {None} /\ <<>> \in Seq(Atoms)
  BY DEF FrameSet
<1> DEFINE g == Entering(f, k)
<1>5. g \in FrameSet
  <2> DEFINE e == <<>>
  <2>1. j \in 1 .. 7 /\ c \in SUBSET SUBSET Atoms /\ e \in Seq(Atoms)
    BY <1>3, <1>4
  <2> HIDE DEF e
  <2>2. [f EXCEPT !.step = j, !.nodes = e, !.clauses = c] \in FrameSet
    BY <2>1 DEF FrameSet
  <2>3. QED BY <1>2, <2>2 DEF e
<1>6. Kept(f, g) /\ g.cur = f.cur /\ g.step = j /\ g.clauses = c /\ g.nodes = <<>>
  BY <1>2, <1>3 DEF FrameSet, Kept
<1> HIDE DEF g
<1>7. Working(g)
  BY <1>3, <1>6 DEF Working
<1>8. QED BY <1>5, <1>6, <1>7 DEF g

\* with a clause done,
LEMMA ClauseDoneTyped ==
    ASSUME NEW f \in FrameSet, Working(f), f.nodes # <<>>
    PROVE  ClauseDone(f) \in FrameSet /\ Kept(f, ClauseDone(f)) /\ Working(ClauseDone(f))
<1>1. f.cur # None /\ Program[f.step] \in Attrs
  BY DEF Working
<1>2. f.step + 1 \in 1 .. 7
  <2>1. f.step \in 1 .. 7
    BY DEF FrameSet
  <2>2. Program[7] \notin Attrs
    BY DEF Program, Attrs, CP!Attrs
  <2>3. QED BY <1>1, <2>1, <2>2
<1>3. CASE f.clauses = {}
  BY <1>1, <1>2, <1>3, EnteringTyped DEF ClauseDone
<1>4. CASE f.clauses # {}
  <2> DEFINE g == [f EXCEPT !.nodes = <<>>]
  <2>1. <<>> \in Seq(Atoms)
    OBVIOUS
  <2>2. /\ g \in FrameSet /\ Kept(f, g)
        /\ g.cur = f.cur /\ g.step = f.step
    BY <2>1 DEF FrameSet, Kept
  <2> HIDE DEF g
  <2>3. Working(g)
    BY <1>1, <2>2 DEF Working
  <2>4. ClauseDone(f) = g
    BY <1>4 DEF ClauseDone, g
  <2>5. QED BY <2>2, <2>3, <2>4
<1>5. QED BY <1>3, <1>4

\* and begun again with its next package.
LEMMA RetriedTyped ==
    ASSUME NEW f \in FrameSet
    PROVE  Retried(f) \in FrameSet /\ Kept(f, Retried(f)) /\ Working(Retried(f))
<1>1. CASE f.cur = None
  <2> DEFINE g == [f EXCEPT !.clauses = {}, !.nodes = <<>>]
  <2>1. <<>> \in Seq(Atoms)
    OBVIOUS
  <2>2. g \in FrameSet /\ Kept(f, g) /\ g.clauses = {} /\ g.nodes = <<>>
    BY <2>1 DEF FrameSet, Kept
  <2> HIDE DEF g
  <2>3. Working(g)
    BY <2>2 DEF Working
  <2>4. Retried(f) = g
    BY <1>1 DEF Retried, g
  <2>5. QED BY <2>2, <2>3, <2>4
<1>2. CASE f.cur # None
  <2>1. 1 \in 1 .. 7
    OBVIOUS
  <2>2. QED BY <1>2, <2>1, EnteringTyped DEF Retried
<1>3. QED BY <1>1, <1>2
-----------------------------------------------------------------------------
\* The frame on top.
LEMMA TopTyped ==
    ASSUME Frames, stack # <<>>
    PROVE  /\ Len(stack) \in Nat \ {0} /\ DOMAIN stack = 1 .. Len(stack)
           /\ Top \in FrameSet /\ Working(Top)
           /\ Top.start <= Len(plan)
           /\ \A i \in 1 .. Len(stack) :
                stack[i] \in FrameSet /\ stack[i].start <= Top.start
           /\ stack[1].start \in Nat /\ Top.start \in Nat
           /\ stack[1].start <= Top.start
           /\ Top.why = "request" <=> Len(stack) = 1
<1>1. stack \in Seq(FrameSet) /\ Len(stack) \in Nat \ {0} /\ DOMAIN stack = 1 .. Len(stack)
  BY EmptySeq, LenProperties DEF Frames
<1>2. \A i \in 1 .. Len(stack) : stack[i] \in FrameSet
  BY <1>1
<1>3. /\ 1 \in 1 .. Len(stack) /\ Len(stack) \in 1 .. Len(stack)
      /\ \A i \in 1 .. Len(stack) : i <= Len(stack)
  BY <1>1
<1>4. \A i \in 1 .. Len(stack) : stack[i].start <= Top.start
  BY <1>1, <1>3 DEF Frames, Top
<1>5. Working(Top) /\ Top.start <= Len(plan) /\ (Top.why = "request" <=> Len(stack) = 1)
  BY <1>1, <1>3 DEF Frames, Top
<1>6. stack[1].start \in Nat /\ Top.start \in Nat /\ Top \in FrameSet
  BY <1>2, <1>3 DEF FrameSet, Top
<1>7. QED BY <1>1, <1>2, <1>3, <1>4, <1>5, <1>6

\* The frame on top is worked on.
LEMMA TopChanged ==
    ASSUME Frames, stack # <<>>, NEW f \in FrameSet, Kept(Top, f), Working(f),
           stack' = WithTop(f), Len(plan') \in Nat, Top.start <= Len(plan')
    PROVE  Frames' /\ stack' # <<>> /\ stack'[1].start = stack[1].start /\ Top' = f
<1> DEFINE L == Len(stack)
<1>1. /\ L \in Nat \ {0} /\ DOMAIN stack = 1 .. L /\ Top = stack[L]
      /\ \A i \in 1 .. L : stack[i] \in FrameSet /\ stack[i].start <= Top.start
      /\ \A i \in 1 .. L : stack[i].start \in Nat
  BY TopTyped DEF Top, FrameSet
<1>2. stack \in Seq(FrameSet)
  BY DEF Frames
<1>3. /\ stack' \in Seq(FrameSet) /\ Len(stack') = L /\ DOMAIN stack' = 1 .. L
      /\ stack'[L] = f
      /\ \A i \in 1 .. L : i # L => stack'[i] = stack[i]
  <2>1. stack \in [1 .. L -> FrameSet] /\ L \in 1 .. L /\ stack' = [stack EXCEPT ![L] = f]
    BY <1>1, <1>2, LenProperties DEF WithTop
  <2> HIDE DEF L
  <2>2. /\ stack' \in [1 .. L -> FrameSet] /\ stack'[L] = f
        /\ \A i \in 1 .. L : i # L => stack'[i] = stack[i]
    BY <2>1
  <2>3. L \in Nat
    BY <1>1
  <2>4. stack' \in Seq(FrameSet) /\ DOMAIN stack' = 1 .. L
    BY <2>2, <2>3
  <2>5. Len(stack') = L
    BY <2>3, <2>4, LenProperties
  <2>6. QED BY <2>2, <2>4, <2>5
<1>4. /\ f.start = Top.start /\ f.why = Top.why
  BY SMTT(30) DEF Kept
<1>5. \A i \in 1 .. L : stack'[i].start = stack[i].start /\ stack'[i].why = stack[i].why
  BY <1>1, <1>3, <1>4
<1>6. \A i \in 1 .. L : stack[i].start <= Len(plan')
  <2>1. \A i \in 1 .. L : stack[i].start <= Top.start /\ stack[i].start \in Nat /\ Top.start \in Nat
    BY <1>1
  <2>2. QED BY <2>1
<1> HIDE DEF L
<1>7. \A i \in 1 .. L :
        /\ Working(stack[i])
        /\ stack[i].why = "request" <=> i = 1
        /\ stack[i].why \in {"node", "weak"} => stack[i - 1].nodes # <<>>
        /\ stack[i].why \in {"vdb", "saving"} => stack[i].start = stack[i - 1].start
        /\ \A j \in 1 .. L : i <= j => stack[i].start <= stack[j].start
  BY <1>1 DEF Frames
<1>8. \A i \in 1 .. L :
        \/ i = 1 /\ stack[i].why = "request"
        \/ i - 1 \in 1 .. L /\ i - 1 # L
  BY <1>1, <1>7
<1>9. ASSUME NEW i \in 1 .. L
      PROVE  /\ Working(stack'[i])
             /\ stack'[i].start <= Len(plan')
             /\ stack'[i].why = "request" <=> i = 1
             /\ stack'[i].why \in {"node", "weak"} => stack'[i - 1].nodes # <<>>
             /\ stack'[i].why \in {"vdb", "saving"} => stack'[i].start = stack'[i - 1].start
             /\ \A j \in 1 .. L : i <= j => stack'[i].start <= stack'[j].start
  <2>1. Working(stack'[i])
    BY <1>3, <1>7
  <2>2. i - 1 \in 1 .. L => stack'[i - 1] = stack[i - 1] \/ i - 1 = L
    BY <1>3
  <2>3. QED BY <1>3, <1>5, <1>6, <1>7, <1>8, <2>1, <2>2, SMTT(30)
<1>10. Frames'
  BY <1>3, <1>9 DEF Frames, Working
<1>11. 1 \in 1 .. L /\ stack' # <<>>
  BY <1>1, <1>3
<1>12. QED BY <1>3, <1>5, <1>10, <1>11 DEF Top

\* Nothing is done to the frames.
LEMMA FramesStay ==
    ASSUME Frames, stack' = stack, Len(plan') \in Nat, Len(plan) \in Nat, Len(plan) <= Len(plan')
    PROVE  Frames' /\ Top' = Top
<1>1. ASSUME NEW i \in DOMAIN stack PROVE stack[i].start <= Len(plan')
  <2>1. stack[i] \in FrameSet
    BY DEF Frames
  <2>2. stack[i].start \in Nat /\ stack[i].start <= Len(plan)
    BY <2>1 DEF Frames, FrameSet
  <2>3. QED BY <2>2
<1>2. QED BY <1>1 DEF Frames, Working, Top

\* The frame on top is left.
LEMMA FrameLeft ==
    ASSUME Frames, stack # <<>>, stack' = Seqs!Front(stack),
           Len(plan') \in Nat, Top.start <= Len(plan')
    PROVE  /\ Frames'
           /\ Top.why = "request" <=> stack' = <<>>
           /\ stack' # <<>> => /\ stack'[1].start = stack[1].start
                               /\ Top' = stack[Len(stack) - 1]
           /\ Top.why \in {"node", "weak"} => Top'.nodes # <<>>
           /\ Top.why \in {"vdb", "saving"} => Top'.start = Top.start
           /\ Top.why = "request" => stack[1] = Top
<1> DEFINE L == Len(stack)
<1>1. /\ L \in Nat \ {0} /\ DOMAIN stack = 1 .. L /\ Top = stack[L]
      /\ \A i \in 1 .. L : stack[i] \in FrameSet /\ stack[i].start <= Top.start
      /\ \A i \in 1 .. L : stack[i].start \in Nat
      /\ Top.why = "request" <=> L = 1
  BY TopTyped DEF Top, FrameSet
<1>2. stack \in Seq(FrameSet)
  BY DEF Frames
<1>3. /\ stack' \in Seq(FrameSet) /\ Len(stack') = L - 1 /\ DOMAIN stack' = 1 .. L - 1
      /\ \A i \in 1 .. L - 1 : stack'[i] = stack[i]
  <2>1. stack' = SubSeq(stack, 1, L - 1)
    BY DEF Seqs!Front
  <2>2. QED BY <1>1, <1>2, <2>1, SubSeqProperties, LenProperties
<1>4. \A i \in 1 .. L : stack[i].start <= Len(plan')
  <2>1. \A i \in 1 .. L : stack[i].start <= Top.start /\ stack[i].start \in Nat /\ Top.start \in Nat
    BY <1>1
  <2>2. QED BY <2>1
<1> HIDE DEF L
<1>5. \A i \in 1 .. L :
        /\ Working(stack[i])
        /\ stack[i].why = "request" <=> i = 1
        /\ stack[i].why \in {"node", "weak"} => stack[i - 1].nodes # <<>>
        /\ stack[i].why \in {"vdb", "saving"} => stack[i].start = stack[i - 1].start
        /\ \A j \in 1 .. L : i <= j => stack[i].start <= stack[j].start
  BY <1>1 DEF Frames
<1>6. \A i \in 1 .. L - 1 : i \in 1 .. L /\ (i = 1 \/ i - 1 \in 1 .. L - 1)
  BY <1>1
<1>7. ASSUME NEW i \in 1 .. L - 1
      PROVE  /\ Working(stack'[i])
             /\ stack'[i].start <= Len(plan')
             /\ stack'[i].why = "request" <=> i = 1
             /\ stack'[i].why \in {"node", "weak"} => stack'[i - 1].nodes # <<>>
             /\ stack'[i].why \in {"vdb", "saving"} => stack'[i].start = stack'[i - 1].start
             /\ \A j \in 1 .. L - 1 : i <= j => stack'[i].start <= stack'[j].start
  BY <1>3, <1>4, <1>5, <1>6
<1>8. Frames'
  BY <1>3, <1>7 DEF Frames, Working
<1>9. Top.why = "request" <=> stack' = <<>>
  BY <1>1, <1>3, EmptySeq
<1>10. CASE L = 1
  BY <1>1, <1>3, <1>8, <1>9, <1>10
<1>11. CASE L > 1
  <2>1. 1 \in 1 .. L - 1 /\ L - 1 \in 1 .. L - 1 /\ L \in 1 .. L
    BY <1>1, <1>11
  <2>2. Top' = stack[L - 1] /\ stack'[1] = stack[1]
    BY <1>3, <2>1 DEF Top
  <2>3. QED BY <1>1, <1>5, <1>8, <1>9, <2>1, <2>2 DEF L
<1>12. QED BY <1>1, <1>10, <1>11

\* A frame is put on top.
LEMMA FramePushed ==
    ASSUME Frames, NEW f \in FrameSet, Working(f), stack' = Append(stack, f),
           plan' = plan, Len(plan) \in Nat, f.start = Len(plan),
           f.why = "request" <=> stack = <<>>,
           f.why \in {"node", "weak"} => Top.nodes # <<>>,
           f.why \in {"vdb", "saving"} => Len(plan) = Top.start
    PROVE  /\ Frames' /\ Top' = f /\ stack' # <<>>
           /\ stack'[1].start = IF stack = <<>> THEN Len(plan) ELSE stack[1].start
<1> DEFINE L == Len(stack)
<1>1. /\ L \in Nat /\ DOMAIN stack = 1 .. L /\ stack \in Seq(FrameSet)
      /\ \A i \in 1 .. L : stack[i] \in FrameSet /\ stack[i].start \in Nat
  <2>1. L \in Nat /\ DOMAIN stack = 1 .. L /\ stack \in Seq(FrameSet)
    BY LenProperties DEF Frames
  <2>2. \A i \in 1 .. L : stack[i] \in FrameSet
    BY <2>1
  <2>3. \A x \in FrameSet : x.start \in Nat
    BY DEF FrameSet
  <2>4. QED BY <2>1, <2>2, <2>3
<1>2. L = 0 <=> stack = <<>>
  BY <1>1, EmptySeq
<1>3. /\ stack' \in Seq(FrameSet) /\ Len(stack') = L + 1 /\ DOMAIN stack' = 1 .. L + 1
      /\ \A i \in 1 .. L : stack'[i] = stack[i]
      /\ stack'[L + 1] = f
  BY <1>1, AppendProperties, LenProperties
<1>4. Top = stack[L] /\ Top' = f
  BY <1>3 DEF Top
<1> HIDE DEF L
<1>5. \A i \in 1 .. L :
        /\ Working(stack[i])
        /\ stack[i].start <= Len(plan)
        /\ stack[i].why = "request" <=> i = 1
        /\ stack[i].why \in {"node", "weak"} => stack[i - 1].nodes # <<>>
        /\ stack[i].why \in {"vdb", "saving"} => stack[i].start = stack[i - 1].start
        /\ \A j \in 1 .. L : i <= j => stack[i].start <= stack[j].start
  BY <1>1 DEF Frames
<1>6. ASSUME NEW i \in 1 .. L + 1
      PROVE  /\ Working(stack'[i])
             /\ stack'[i].start <= Len(plan')
             /\ stack'[i].why = "request" <=> i = 1
             /\ stack'[i].why \in {"node", "weak"} => stack'[i - 1].nodes # <<>>
             /\ stack'[i].why \in {"vdb", "saving"} => stack'[i].start = stack'[i - 1].start
             /\ \A j \in 1 .. L + 1 : i <= j => stack'[i].start <= stack'[j].start
  <2>1. CASE i \in 1 .. L
    <3>1. i = 1 \/ i - 1 \in 1 .. L
      BY <1>1, <2>1
    <3>2. \A j \in 1 .. L + 1 : i <= j => stack'[i].start <= stack'[j].start
      <4> SUFFICES ASSUME NEW j \in 1 .. L + 1, i <= j PROVE stack'[i].start <= stack'[j].start
        OBVIOUS
      <4>1. CASE j \in 1 .. L
        BY <1>3, <1>5, <2>1, <4>1
      <4>2. CASE j = L + 1
        BY <1>3, <1>5, <2>1, <4>2
      <4>3. QED BY <1>1, <4>1, <4>2
    <3>3. QED BY <1>3, <1>5, <2>1, <3>1, <3>2
  <2>2. CASE i = L + 1
    <3>1. stack'[i] = f /\ i - 1 = L
      BY <1>1, <1>3, <2>2
    <3>2. \A j \in 1 .. L + 1 : i <= j => j = i
      BY <1>1, <2>2
    <3>3. f.why = "request" <=> i = 1
      BY <1>1, <1>2, <2>2
    <3>4. CASE L = 0
      <4>1. f.why = "request"
        BY <1>2, <3>4
      <4>2. QED BY <3>1, <3>2, <3>3, <4>1
    <3>5. CASE L # 0
      <4>1. stack'[i - 1] = Top
        BY <1>1, <1>3, <1>4, <3>1, <3>5
      <4>2. f.start <= f.start /\ f.start <= Len(plan')
        OBVIOUS
      <4>3. \A j \in 1 .. L + 1 : i <= j => stack'[i].start <= stack'[j].start
        BY <3>1, <3>2, <4>2
      <4>4. QED BY <3>1, <3>3, <4>1, <4>2, <4>3
    <3>6. QED BY <3>4, <3>5
  <2>3. QED BY <1>1, <2>1, <2>2
<1>7. Frames'
  BY <1>3, <1>6 DEF Frames, Working
<1>8. stack' # <<>>
  BY <1>1, <1>3
<1>9. stack'[1].start = IF stack = <<>> THEN Len(plan) ELSE stack[1].start
  <2>1. CASE L = 0
    BY <1>2, <1>3, <2>1
  <2>2. CASE L # 0
    <3>1. 1 \in 1 .. L
      BY <1>1, <2>2
    <3>2. QED BY <1>2, <1>3, <2>2, <3>1
  <2>3. QED BY <2>1, <2>2
<1>10. QED BY <1>4, <1>7, <1>8, <1>9
-----------------------------------------------------------------------------
\* The log behind the working state.
LEMMA NowReached ==
    ASSUME Logs
    PROVE  /\ Now.st = st /\ Now.plan = plan
           /\ Len(plan) \in Nat /\ Reaches(0, PS!Empty, Now)
           /\ InOrder(st, Len(plan)) /\ st \in RS!States /\ plan \in Seq(PS!Ops)
<1>1. Reaches(0, PS!Empty, Now) /\ Now.st = st /\ Now.plan = plan
  BY DEF Logs, Now
<1>2. QED BY <1>1, Reached

\* The log of the next state, from a state and log that were computed.
LEMMA LogsBecome ==
    ASSUME NEW w, Reaches(0, PS!Empty, w), Commit(w), base' = base,
           stack' # <<>> => Reaches(stack'[1].start, base, w)
    PROVE  Logs' /\ plan' = w.plan /\ st' = w.st /\ Len(plan') \in Nat
<1>1. Now' = w
  BY DEF Commit, Now, Reaches
<1>2. Len(w.plan) \in Nat
  BY Reached
<1>3. QED BY <1>1, <1>2 DEF Commit, Logs

\* The log of a step that leaves it alone.
LEMMA LogsStay ==
    ASSUME Logs, UNCHANGED <<st, plan, base>>,
           stack' # <<>> => stack # <<>> /\ stack'[1].start = stack[1].start
    PROVE  Logs'
BY DEF Logs, Now

\* The frame on top starts again where it began.
LEMMA TopRestarts ==
    ASSUME Frames, stack # <<>>, NEW w,
           Reaches(0, PS!Empty, w), Reaches(stack[1].start, base, w),
           Top.start <= Len(w.plan), BacktrackTo(w, Top.start), base' = base,
           stack' # <<>> => stack'[1].start = stack[1].start
    PROVE  /\ Logs' /\ Len(plan') = Top.start /\ Len(plan') \in Nat
           /\ excused' \subseteq excused
           /\ Top.start = stack[1].start => st' = base
<1> DEFINE n == stack[1].start
           m == Top.start
           v == Backtracked(w, m)
<1>1. n \in Nat /\ m \in Nat /\ n <= m
  BY TopTyped
<1>2. Len(w.plan) \in Nat
  BY Reached
<1>3. m \in 0 .. Len(w.plan) /\ m \in n .. Len(w.plan)
  BY <1>1, <1>2
<1>4. Commit(v) /\ excused' \subseteq excused
  BY DEF BacktrackTo
<1> HIDE DEF n, m, v
<1>5. Reaches(0, PS!Empty, v) /\ Len(v.plan) = m
  BY <1>3, GoesBack DEF v
<1>6. Reaches(n, base, v) /\ (m = n => v.st = base)
  <2>1. Reaches(n, base, w)
    BY DEF n
  <2>2. QED BY <1>3, <2>1, GoesBack DEF v
<1>7. stack' # <<>> => Reaches(stack'[1].start, base, v)
  BY <1>6 DEF n
<1>8. Logs' /\ plan' = v.plan /\ st' = v.st
  BY <1>4, <1>5, <1>7, LogsBecome
<1>9. QED BY <1>1, <1>4, <1>5, <1>6, <1>8 DEF n, m

\* A node fails.
LEMMA NodeFailsKeeps ==
    ASSUME Typed, Frames, stack # <<>>, Top.nodes # <<>>, NEW w,
           Reaches(0, PS!Empty, w), Reaches(stack[1].start, base, w),
           Top.start <= Len(w.plan), base' = base, NodeFails(w)
    PROVE  /\ Frames' /\ Logs' /\ stack' # <<>> /\ ctl' = At("work")
           /\ excused' \subseteq excused
<1> DEFINE node == Head(Top.nodes)
           f == Reduced(w.st, Top, {node})
           g == Reduced(w.st, f, Top.clause)
<1>1. /\ Top \in FrameSet /\ Working(Top) /\ Top.start \in Nat
  BY TopTyped
<1>2. Top.nodes \in Seq(Atoms) /\ Top.clause \in SUBSET Atoms
  BY <1>1 DEF FrameSet
<1>3. {node} \in SUBSET Atoms /\ Tail(Top.nodes) \in Seq(Atoms)
  BY <1>2, HeadTailProperties
<1>4. deps \in [Pkgs -> [Attrs -> SUBSET SUBSET Atoms]]
  BY WorldTyped
<1> HIDE DEF node, f, g
<1>5. /\ f \in FrameSet /\ Kept(Top, f)
      /\ ~Changes(Top, {node}) =>
           f.cur = Top.cur /\ f.step = Top.step /\ f.clauses = Top.clauses /\ f.nodes = Top.nodes
  BY <1>1, <1>3, <1>4, ReducedTyped DEF f
<1>6. g \in FrameSet /\ Kept(f, g)
  BY <1>2, <1>4, <1>5, ReducedTyped DEF g
<1>7. Kept(Top, g)
  BY <1>5, <1>6 DEF Kept
<1>8. /\ Retried(f) \in FrameSet /\ Kept(f, Retried(f)) /\ Working(Retried(f))
      /\ Retried(g) \in FrameSet /\ Kept(g, Retried(g)) /\ Working(Retried(g))
  BY <1>5, <1>6, RetriedTyped
<1>9. Kept(Top, Retried(f)) /\ Kept(Top, Retried(g))
  BY <1>5, <1>7, <1>8 DEF Kept
<1>10. ctl' = At("work")
  BY DEF NodeFails
<1>11. ASSUME NEW r \in FrameSet, Kept(Top, r), Working(r),
              BacktrackTo(w, Top.start), stack' = WithTop(r)
       PROVE  Frames' /\ Logs' /\ stack' # <<>> /\ excused' \subseteq excused
  <2>1. Len(plan') = Top.start /\ Len(plan') \in Nat
    <3>1. 0 \in Nat /\ Top.start \in 0 .. Len(w.plan)
      BY <1>1, Reached
    <3>2. QED BY <1>1, <1>11, <3>1, GoesBack DEF BacktrackTo, Commit
  <2>2. Frames' /\ stack' # <<>> /\ stack'[1].start = stack[1].start
    BY <1>1, <1>11, <2>1, TopChanged
  <2>3. Logs' /\ excused' \subseteq excused
    BY <1>11, <2>2, TopRestarts
  <2>4. QED BY <2>2, <2>3
<1>12. CASE BacktrackTo(w, Top.start) /\ stack' = WithTop(Retried(f))
  BY <1>8, <1>9, <1>10, <1>11, <1>12
<1>13. CASE BacktrackTo(w, Top.start) /\ stack' = WithTop(Retried(g))
  BY <1>8, <1>9, <1>10, <1>11, <1>13
<1>14. CASE /\ ~Changes(Top, {node}) /\ Commit(w) /\ UNCHANGED excused
            /\ stack' = WithTop([f EXCEPT !.nodes = Tail(@)])
  <2> DEFINE r == [f EXCEPT !.nodes = Tail(Top.nodes)]
  <2>1. stack' = WithTop(r)
    BY <1>5, <1>14 DEF FrameSet
  <2>2. r \in FrameSet /\ Kept(f, r) /\ r.cur = f.cur /\ r.step = f.step
    BY <1>3, <1>5 DEF FrameSet, Kept
  <2> HIDE DEF r
  <2>3. Kept(Top, r)
    BY <1>5, <2>2 DEF Kept
  <2>4. Working(r)
    BY <1>1, <1>5, <1>14, <2>2 DEF Working
  <2>5. plan' = w.plan /\ Len(plan') \in Nat
    BY <1>14, Reached DEF Commit
  <2>6. Frames' /\ stack' # <<>> /\ stack'[1].start = stack[1].start
    BY <2>1, <2>2, <2>3, <2>4, <2>5, TopChanged
  <2>7. Logs'
    BY <1>14, <2>6, LogsBecome
  <2>8. QED BY <1>10, <1>14, <2>6, <2>7
<1>15. QED BY <1>12, <1>13, <1>14 DEF NodeFails, f, g, node
-----------------------------------------------------------------------------
\* Action by action: the invariant is kept.
LEMMA TypedStays ==
    ASSUME Typed, UNCHANGED <<world, insoluble, asked>>, made' \in Nat,
           ctl' \in Calls \cup Returns \cup Others,
           \A x \in excused' : x \in excused \/ (x.pkg \in Pkgs \cup {None} /\ x.atom \in Atoms)
    PROVE  Typed'
BY DEF Typed, world

\* What a step leaves in ctl is of its type: an answer,
LEMMA Returned ==
    ASSUME NEW ok \in BOOLEAN, NEW why \in Whys
    PROVE  /\ Returning(ok, why) \in Returns
           /\ Returning(ok, why).at = "return"
           /\ Returning(ok, why).ok = ok /\ Returning(ok, why).why = why
BY DEF Returning, Returns

\* a place to go on from,
LEMMA Stood ==
    \A where \in {"start", "next", "cycles", "work", "resolved", "failed", "raised"} :
      At(where) \in Others /\ At(where).at = where
BY DEF At, Others

\* and so was what it found there.
LEMMA Asked ==
    ASSUME Typed
    PROVE  /\ ctl.at = "call" => ctl \in Calls
           /\ ctl.at = "return" => ctl \in Returns
           /\ ctl.at \in {"call", "return"} => ctl.why \in Whys
BY DEF Typed, Calls, Returns, Others

\* Nothing is in the log before the first request.
LEMMA Inits == Init => IInv
<1> SUFFICES ASSUME Init PROVE IInv
  OBVIOUS
<1>1. Typed
  <2>1. PICK w \in Worlds : deps = w.deps /\ opts = w.opts
    BY DEF Init
  <2>2. 0 \in 0 .. Len(opts.requests)
    <3>1. opts.requests \in Seq(Atoms)
      BY <2>1, WorldsAssumption
    <3>2. QED BY <3>1, LenProperties
  <2>3. At("start") \in Others
    BY Stood
  <2>4. QED BY <2>1, <2>2, <2>3 DEF Init, Typed
<1>2. Frames
  <2>1. stack = <<>> /\ stack \in Seq(FrameSet) /\ DOMAIN stack = {}
    BY DEF Init
  <2>2. QED BY <2>1 DEF Frames
<1>3. Control
  <2>1. ctl.at = "start" /\ stack = <<>>
    BY Stood DEF Init
  <2>2. QED BY <2>1 DEF Control, Asking
<1>4. Logs
  <2> DEFINE h == [i \in 0 .. 0 |-> PS!Empty]
  <2>1. /\ h = [i \in 0 .. 0 |-> h[i]] /\ h[0] = PS!Empty /\ 0 .. 0 = {0} /\ 1 .. 0 = {}
    OBVIOUS
  <2>2. Now.plan = <<>> /\ Now.st = PS!Empty /\ Now = [st |-> Now.st, plan |-> Now.plan]
    BY DEF Init, Now
  <2>3. <<>> \in Seq(PS!Ops) /\ Len(<<>>) = 0
    OBVIOUS
  <2>4. InOrder(PS!Empty, 0)
    <3>1. RS!StateOK(RS!Empty, 0)
      BY Assumed, RS!EmptyOK
    <3>2. Caused(PS!Empty)
      BY DEF PS!Empty, Caused
    <3>3. QED BY <3>1, <3>2, SameSets DEF InOrder
  <2> HIDE DEF h
  <2>5. Trace(Now, h)
    BY <2>1, <2>2, <2>3, <2>4 DEF Trace
  <2>6. Reaches(0, PS!Empty, Now)
    BY <2>1, <2>2, <2>3, <2>5 DEF Reaches
  <2>7. QED BY <2>6 DEF Logs, Init
<1>5. Unmatched
  BY DEF Init, Unmatched
<1>6. QED BY <1>1, <1>2, <1>3, <1>4, <1>5 DEF IInv

\* A step of the search for each action of Resolver.  The first request is taken up.
LEMMA BeginKeeps == ASSUME IInv, Begin PROVE IInv'
<1> DEFINE w == LogAll(Now, [i \in DOMAIN opts.requests |-> PS!HardrefOp(opts.requests[i])])
<1>1. /\ Commit(w) /\ ctl' = At("next") /\ UNCHANGED <<world, stack, search, excused>>
      /\ ctl.at = "start" /\ stack = <<>>
  BY DEF Begin, IInv, Control
<1>2. Reaches(0, PS!Empty, w)
  BY NowReached, WorldTyped, RequestsLogged DEF IInv
<1> HIDE DEF w
<1>3. Logs' /\ Len(plan') \in Nat
  BY <1>1, <1>2, LogsBecome DEF search
<1>4. Frames'
  BY <1>1 DEF IInv, Frames, Working
<1>5. ctl' \in Others /\ ctl'.at = "next"
  BY <1>1, Stood
<1>6. Typed'
  BY <1>1, <1>5, TypedStays DEF IInv, Typed, search
<1>7. Control'
  BY <1>1, <1>5 DEF Control, Asking
<1>8. Unmatched'
  BY <1>1 DEF IInv, Unmatched, search
<1>9. QED BY <1>3, <1>4, <1>6, <1>7, <1>8 DEF IInv

\* A request is called for: the log is where it begins, the state its base.
LEMMA RequestKeeps == ASSUME IInv, Request PROVE IInv'
<1>1. /\ ctl.at = "next" /\ stack = <<>> /\ asked < Len(opts.requests) /\ asked' = asked + 1
      /\ base' = st /\ UNCHANGED <<world, st, plan, stack, insoluble, made, excused>>
      /\ ctl' = Calling(opts.requests[asked + 1], "none", "all", FALSE, "request")
  BY DEF Request, IInv, Control
<1>2. opts.requests \in Seq(Atoms) /\ asked \in 0 .. Len(opts.requests)
  BY WorldTyped DEF IInv, Typed
<1>3. asked' \in 0 .. Len(opts.requests) /\ opts.requests[asked + 1] \in Atoms
  <2>1. Len(opts.requests) \in Nat /\ asked + 1 \in 1 .. Len(opts.requests)
    BY <1>1, <1>2, LenProperties
  <2>2. QED BY <1>1, <1>2, <2>1, ElementOfSeq
<1>4. "none" \in Modes /\ "request" \in Whys
  BY DEF Modes, Whys
<1>5. ctl' \in Calls /\ ctl'.at = "call" /\ ctl'.why = "request"
  BY <1>1, <1>3, <1>4 DEF Calling, Calls
<1>6. Typed'
  BY <1>1, <1>3, <1>5 DEF IInv, Typed, world
<1>7. Frames'
  BY <1>1 DEF IInv, Frames, Working
<1>8. Control'
  BY <1>1, <1>5 DEF Control, Asking
<1>9. Logs'
  BY <1>1 DEF IInv, Logs, Now
<1>10. Unmatched'
  BY <1>1 DEF IInv, Unmatched
<1>11. QED BY <1>6, <1>7, <1>8, <1>9, <1>10 DEF IInv

\* All requests are met.
LEMMA ResolvedKeeps == ASSUME IInv, Resolved PROVE IInv'
<1>1. /\ ctl.at = "next" /\ stack = <<>> /\ ctl' = At("resolved")
      /\ UNCHANGED <<world, st, plan, stack, search, excused>>
  BY DEF Resolved, IInv, Control
<1>2. ctl' \in Others /\ ctl'.at = "resolved"
  BY <1>1, Stood
<1>3. Typed'
  BY <1>1, <1>2, TypedStays DEF IInv, Typed, search
<1>4. Frames'
  BY <1>1 DEF IInv, Frames, Working
<1>5. Control'
  BY <1>1, <1>2 DEF Control, Asking
<1>6. Logs'
  BY <1>1 DEF IInv, Logs, Now, search
<1>7. Unmatched'
  BY <1>1 DEF IInv, Unmatched, search
<1>8. QED BY <1>3, <1>4, <1>5, <1>6, <1>7 DEF IInv

\* An atom nothing matches, or all whose packages were struck out: the answer is no,
\* and nothing was logged.
LEMMA NotViableKeeps == ASSUME IInv, NotViable PROVE IInv'
<1>1. /\ ctl.at = "call" /\ ctl \in Calls /\ ctl.why \in Whys
      /\ ctl' = Returning(FALSE, ctl.why)
      /\ UNCHANGED <<world, st, plan, stack, asked, made, base, excused>>
      /\ insoluble' = insoluble \cup {a \in {ctl.atom} : ctl.dbs = "all" /\ NoMatches}
  BY Asked DEF NotViable, IInv
<1>2. ctl' \in Returns /\ ctl'.at = "return" /\ ~ctl'.ok /\ ctl'.why = ctl.why
  BY <1>1, Returned
<1>3. ctl.atom \in Atoms
  BY <1>1 DEF Calls
<1>4. ASSUME ctl.dbs = "all", NoMatches PROVE Matches[ctl.atom] = {}
  <2>1. \A i \in DOMAIN opts.order : opts.order[i] \notin Matches[ctl.atom]
    BY <1>4 DEF NoMatches, Visible
  <2>2. \A p \in Pkgs : p \notin Matches[ctl.atom]
    BY <2>1, WorldTyped DEF IInv
  <2>3. QED BY <1>3, <2>2, ConstantsAssumption
<1>5. Typed' /\ Unmatched'
  BY <1>1, <1>2, <1>3, <1>4 DEF IInv, Typed, Unmatched, world
<1>6. Len(plan) \in Nat
  BY NowReached DEF IInv
<1>7. Frames' /\ Top' = Top
  BY <1>1, <1>6, FramesStay DEF IInv
<1>8. Logs'
  BY <1>1, LogsStay DEF IInv
<1>9. Control'
  BY <1>1, <1>2, <1>7 DEF IInv, Control, Asking
<1>10. QED BY <1>5, <1>7, <1>8, <1>9 DEF IInv

\* An atom that the plan already meets.
LEMMA PreSolvedKeeps == ASSUME IInv, PreSolved PROVE IInv'
<1> DEFINE p == CHOOSE q \in Held(ctl.atom) : TRUE
           c == [id |-> made + 1, pkg |-> p]
           w == Logged(Now, PS!BackrefOp(c))
<1>1. /\ ctl.at = "call" /\ ctl \in Calls /\ ctl.why \in Whys
      /\ ctl' = Returning(TRUE, ctl.why) /\ made' = made + 1
      /\ UNCHANGED <<world, stack, insoluble, asked, base, excused>>
      /\ Held(ctl.atom) # {} /\ InBounds /\ Commit(w)
  BY Asked DEF PreSolved, IInv
<1>2. ctl' \in Returns /\ ctl'.at = "return" /\ ctl'.ok /\ ctl'.why = ctl.why
  BY <1>1, Returned
<1>3. c \in ChoicePoints
  <2>1. ctl.atom \in Atoms
    BY <1>1 DEF Calls
  <2>2. p \in Pkgs
    BY <1>1, <2>1, ConstantsAssumption DEF Held, HeldIn
  <2>3. made + 1 \in 1 .. MaxMade
    BY <1>1, ConstantsAssumption, FS_CardinalityType DEF InBounds, IInv, Typed
  <2>4. QED BY <2>2, <2>3 DEF ChoicePoints
<1> HIDE DEF c
<1>4. Reaches(0, PS!Empty, Now) /\ Len(plan) \in Nat /\ Now.plan = plan
  BY NowReached DEF IInv
<1>5. Applicable(Now.st, PS!BackrefOp(c), Len(Now.plan))
  BY <1>3, BackrefApplies
<1>6. Reaches(0, PS!Empty, w) /\ Len(w.plan) = Len(plan) + 1
  BY <1>4, <1>5, Grows
<1>7. stack # <<>> => Reaches(stack[1].start, base, w)
  BY <1>5, Grows DEF IInv, Logs
<1> HIDE DEF w
<1>8. Logs' /\ Len(plan') \in Nat /\ Len(plan) <= Len(plan')
  BY <1>1, <1>4, <1>6, <1>7, LogsBecome
<1>9. Frames' /\ Top' = Top
  BY <1>1, <1>4, <1>8, FramesStay DEF IInv
<1>10. Typed'
  <2>1. made' \in Nat
    BY <1>1 DEF IInv, Typed
  <2>2. QED BY <1>1, <1>2, <2>1, TypedStays DEF IInv
<1>11. Control'
  BY <1>1, <1>2, <1>9 DEF IInv, Control, Asking
<1>12. Unmatched'
  BY <1>1 DEF IInv, Unmatched
<1>13. QED BY <1>8, <1>9, <1>10, <1>11, <1>12 DEF IInv

\* A new frame.
LEMMA BlankTyped ==
    ASSUME IInv, ctl.at = "call", InBounds
    PROVE  /\ Blank \in FrameSet /\ Blank.clauses = {} /\ Blank.nodes = <<>>
           /\ Blank.start = Len(plan) /\ Blank.why = ctl.why
<1>1. ctl \in Calls
  BY Asked DEF IInv
<1>2. /\ ctl.atom \in Atoms /\ ctl.mode \in Modes /\ ctl.dbs \in {"all", "livefs"}
      /\ ctl.drop \in BOOLEAN /\ ctl.why \in Whys
  BY <1>1 DEF Calls
<1>3. made + 1 \in 1 .. MaxMade
  BY ConstantsAssumption, FS_CardinalityType DEF InBounds, IInv, Typed
<1>4. Len(plan) \in Nat /\ opts.order \in Seq(Pkgs) /\ insoluble \in SUBSET Atoms
  BY NowReached, WorldTyped DEF IInv, Typed
<1>5. CP!NoDeps \in [Attrs -> SUBSET SUBSET Atoms]
  BY DepsTyped
<1>6. <<>> \in Seq(Atoms)
  OBVIOUS
<1>7. QED BY <1>2, <1>3, <1>4, <1>5, <1>6 DEF Blank, FrameSet

\* A frame is pushed; it begins where the log is.
LEMMA ViableKeeps == ASSUME IInv, Viable PROVE IInv'
<1> DEFINE f == Moved(st, Blank)
<1>1. /\ ctl.at = "call" /\ ctl.why \in Whys /\ InBounds /\ made' = made + 1
      /\ ctl' = At("cycles") /\ f.cur # None /\ stack' = Append(stack, f)
      /\ UNCHANGED <<world, st, plan, insoluble, asked, base, excused>>
  BY Asked DEF Viable, NewFrames, IInv
<1>2. ctl' \in Others /\ ctl'.at = "cycles"
  BY <1>1, Stood
<1>3. /\ Blank \in FrameSet /\ Blank.clauses = {} /\ Blank.nodes = <<>>
      /\ Blank.start = Len(plan) /\ Blank.why = ctl.why
  BY <1>1, BlankTyped
<1>4. deps \in [Pkgs -> [Attrs -> SUBSET SUBSET Atoms]]
  BY WorldTyped DEF IInv
<1>5. /\ f \in FrameSet /\ f.clauses = {} /\ f.nodes = <<>>
      /\ f.start = Len(plan) /\ f.why = ctl.why
  BY <1>3, <1>4, MovedTyped DEF Kept
<1> HIDE DEF f
<1>6. Working(f)
  BY <1>5 DEF Working
<1>7. /\ Len(plan) \in Nat /\ Now.plan = plan /\ Now.st = st /\ Reaches(0, PS!Empty, Now)
  BY NowReached DEF IInv
<1>8. /\ ctl.why = "request" <=> stack = <<>>
      /\ ctl.why \in {"node", "weak"} => Top.nodes # <<>>
      /\ ctl.why \in {"vdb", "saving"} => Len(plan) = Top.start
      /\ ctl.why = "request" => st = base
  BY <1>1 DEF IInv, Control, Asking
<1>9. /\ Frames' /\ Top' = f /\ stack' # <<>>
      /\ stack'[1].start = IF stack = <<>> THEN Len(plan) ELSE stack[1].start
  BY <1>1, <1>5, <1>6, <1>7, <1>8, FramePushed DEF IInv
<1>10. Now' = Now /\ base' = base
  BY <1>1 DEF Now
<1>11. Logs'
  <2>1. CASE stack = <<>>
    <3>1. Reaches(Len(plan), base, Now)
      BY <1>7, <1>8, <2>1, Reached
    <3>2. QED BY <1>7, <1>9, <1>10, <2>1, <3>1 DEF Logs
  <2>2. CASE stack # <<>>
    BY <1>9, <1>10, <2>2 DEF IInv, Logs
  <2>3. QED BY <2>1, <2>2
<1>12. made' \in Nat
  BY <1>1 DEF IInv, Typed
<1>13. Typed'
  BY <1>1, <1>2, <1>12, TypedStays DEF IInv
<1>14. Control'
  BY <1>1, <1>2, <1>5, <1>9 DEF Control, Asking
<1>15. Unmatched'
  BY <1>1 DEF IInv, Unmatched
<1>16. QED BY <1>9, <1>11, <1>13, <1>14, <1>15 DEF IInv

\* The package of the frame is not below it on the stack.
LEMMA NoCycleKeeps == ASSUME IInv, NoCycle PROVE IInv'
<1> DEFINE f == Entering(Top, 1)
<1>1. /\ ctl.at = "cycles" /\ stack # <<>> /\ Top.cur # None
      /\ stack' = WithTop(f) /\ ctl' = At("work")
      /\ UNCHANGED <<world, st, plan, search, excused>>
  BY DEF NoCycle, IInv, Control
<1>2. ctl' \in Others /\ ctl'.at = "work"
  BY <1>1, Stood
<1>3. Top \in FrameSet /\ Top.start <= Len(plan)
  BY <1>1, TopTyped DEF IInv
<1>4. 1 \in 1 .. 7
  OBVIOUS
<1>5. f \in FrameSet /\ Kept(Top, f) /\ Working(f)
  BY <1>1, <1>3, <1>4, EnteringTyped
<1> HIDE DEF f
<1>6. Len(plan) \in Nat /\ plan' = plan
  BY <1>1, NowReached DEF IInv
<1>7. Frames' /\ stack' # <<>> /\ stack'[1].start = stack[1].start
  BY <1>1, <1>3, <1>5, <1>6, TopChanged DEF IInv
<1>8. Logs'
  BY <1>1, <1>7, LogsStay DEF IInv, search
<1>9. Typed'
  BY <1>1, <1>2, TypedStays DEF IInv, Typed, search
<1>10. Control'
  BY <1>2, <1>7 DEF Control, Asking
<1>11. Unmatched'
  BY <1>1 DEF IInv, Unmatched, search
<1>12. QED BY <1>7, <1>8, <1>9, <1>10, <1>11 DEF IInv

\* The package for which the frame on top was made.
LEMMA OwnerTyped ==
    ASSUME Frames, stack # <<>>
    PROVE  Owner \in Pkgs \cup {None}
<1> DEFINE L == Len(stack)
<1>1. L \in Nat \ {0} /\ \A i \in 1 .. L : stack[i] \in FrameSet
  BY TopTyped
<1>2. Owners \subseteq 0 .. L /\ Owners \subseteq 2 .. L
  BY <1>1 DEF Owners
<1> HIDE DEF L
<1>3. CASE Owners # {}
  <2> DEFINE m == Seqs!Max(Owners)
  <2>1. m \in 2 .. L
    BY <1>1, <1>2, <1>3, GreatestOf
  <2> HIDE DEF m
  <2>2. m - 1 \in 1 .. L
    BY <1>1, <2>1
  <2>3. stack[m - 1].cur \in Pkgs \cup {None}
    BY <1>1, <2>2 DEF FrameSet
  <2>4. QED BY <1>3, <2>3 DEF Owner, m
<1>4. QED BY <1>3 DEF Owner

\* A call returns to the frame that made it.
LEMMA LeftKeeps ==
    ASSUME IInv, stack # <<>>, NEW ok \in BOOLEAN, Leave(ok),
           UNCHANGED <<world, insoluble, asked, base>>, made' \in Nat,
           Len(plan') \in Nat, Top.start <= Len(plan'),
           Reaches(0, PS!Empty, Now'), Reaches(stack[1].start, base, Now'),
           \A x \in excused' : x \in excused \/ (x.pkg \in Pkgs \cup {None} /\ x.atom \in Atoms),
           ~ok => /\ Top.why \in {"vdb", "saving"} => Len(plan') = Top.start
                  /\ Top.why = "request" => st' = base
    PROVE  IInv'
<1>1. Top \in FrameSet
  BY TopTyped DEF IInv
<1>2. Top.why \in Whys
  BY <1>1 DEF FrameSet
<1>3. /\ ctl' = Returning(ok, Top.why) /\ stack' = Seqs!Front(stack)
  BY DEF Leave
<1>4. ctl' \in Returns /\ ctl'.at = "return" /\ ctl'.ok = ok /\ ctl'.why = Top.why
  BY <1>2, <1>3, Returned
<1>5. /\ Frames'
      /\ Top.why = "request" <=> stack' = <<>>
      /\ stack' # <<>> => stack'[1].start = stack[1].start
      /\ Top.why \in {"node", "weak"} => Top'.nodes # <<>>
      /\ Top.why \in {"vdb", "saving"} => Top'.start = Top.start
  BY <1>3, FrameLeft DEF IInv
<1>6. Typed'
  BY <1>4, TypedStays DEF IInv
<1>7. Logs'
  BY <1>5 DEF Logs
<1>8. Control'
  BY <1>4, <1>5 DEF Control, Asking
<1>9. Unmatched'
  BY DEF IInv, Unmatched
<1>10. QED BY <1>5, <1>6, <1>7, <1>8, <1>9 DEF IInv

\* A cycle is cut by taking the dependency for granted.
LEMMA CycleSatisfiedKeeps == ASSUME IInv, CycleSatisfied PROVE IInv'
<1> DEFINE awaited == stack[Seqs!Max(Cycles)].cur
           what == IF awaited \in Matches[Top.atom] THEN "first" ELSE "met"
           x == Excuse(Owner, Top.atom, what, Len(plan))
<1>1. /\ stack # <<>> /\ Leave(TRUE) /\ UNCHANGED <<world, st, plan, search>>
      /\ excused' = excused \cup {x}
  BY DEF CycleSatisfied, IInv, Control
<1>2. Top \in FrameSet /\ Top.start <= Len(plan) /\ Owner \in Pkgs \cup {None}
  BY <1>1, TopTyped, OwnerTyped DEF IInv
<1>3. x.pkg \in Pkgs \cup {None} /\ x.atom \in Atoms
  BY <1>2 DEF Excuse, FrameSet
<1> HIDE DEF x
<1>4. Now' = Now /\ Len(plan') \in Nat /\ plan' = plan /\ made' \in Nat
  BY <1>1, NowReached DEF IInv, Now, search, Typed
<1>5. Reaches(0, PS!Empty, Now') /\ Reaches(stack[1].start, base, Now')
  BY <1>1, <1>4 DEF IInv, Logs
<1>6. TRUE \in BOOLEAN
  OBVIOUS
<1>7. UNCHANGED <<world, insoluble, asked, base>>
  BY <1>1 DEF search
<1>8. \A y \in excused' : y \in excused \/ (y.pkg \in Pkgs \cup {None} /\ y.atom \in Atoms)
  BY <1>1, <1>3
<1>9. QED BY <1>1, <1>2, <1>4, <1>5, <1>7, <1>8, LeftKeeps

\* The frame on top is worked on, with the log that w holds.
LEMMA WorkKeeps ==
    ASSUME IInv, stack # <<>>, NEW f \in FrameSet, Kept(Top, f), Working(f),
           stack' = WithTop(f), ctl' = At("work"),
           UNCHANGED <<world, insoluble, asked, base>>, made' \in Nat,
           \A x \in excused' : x \in excused \/ (x.pkg \in Pkgs \cup {None} /\ x.atom \in Atoms),
           NEW w, Reaches(0, PS!Empty, w), Reaches(stack[1].start, base, w),
           Commit(w), Top.start <= Len(w.plan)
    PROVE  IInv'
<1>1. ctl' \in Others /\ ctl'.at = "work"
  BY Stood
<1>2. plan' = w.plan /\ Len(plan') \in Nat
  BY Reached DEF Commit
<1>3. Frames' /\ stack' # <<>> /\ stack'[1].start = stack[1].start
  BY <1>2, TopChanged DEF IInv
<1>4. Logs'
  BY <1>3, LogsBecome
<1>5. Typed'
  BY <1>1, TypedStays DEF IInv
<1>6. Control'
  BY <1>1, <1>3 DEF Control, Asking
<1>7. Unmatched'
  BY DEF IInv, Unmatched
<1>8. QED BY <1>3, <1>4, <1>5, <1>6, <1>7 DEF IInv

\* A cycle is cut by a search of the installed packages, at the same length.
LEMMA LimitToVdbKeeps == ASSUME IInv, LimitToVdb PROVE IInv'
<1> DEFINE f == [Top EXCEPT !.ignored = TRUE]
<1>1. /\ ctl.at = "cycles" /\ stack # <<>> /\ Len(plan) = Top.start
      /\ stack' = WithTop(f)
      /\ ctl' = Calling(Top.atom, Top.mode, "livefs", Top.drop, "vdb")
      /\ UNCHANGED <<world, st, plan, search, excused>>
  BY DEF LimitToVdb, IInv, Control
<1>2. Top \in FrameSet /\ Working(Top)
  BY <1>1, TopTyped DEF IInv
<1>3. /\ Top.atom \in Atoms /\ Top.mode \in Modes /\ Top.drop \in BOOLEAN
      /\ Top.start \in Nat
  BY <1>2 DEF FrameSet
<1>4. ctl' \in Calls /\ ctl'.at = "call" /\ ctl'.why = "vdb"
  BY <1>1, <1>3 DEF Calling, Calls, Whys
<1>5. /\ f \in FrameSet /\ Kept(Top, f)
      /\ f.clauses = Top.clauses /\ f.nodes = Top.nodes /\ f.cur = Top.cur /\ f.step = Top.step
  BY <1>2 DEF FrameSet, Kept
<1> HIDE DEF f
<1>6. Working(f) /\ f.start = Top.start
  BY <1>2, <1>5 DEF Working, Kept
<1>7. Frames' /\ stack' # <<>> /\ stack'[1].start = stack[1].start /\ Top' = f
  <2>1. Len(plan') \in Nat /\ Top.start <= Len(plan')
    BY <1>1, <1>3
  <2>2. QED BY <1>1, <1>5, <1>6, <2>1, TopChanged DEF IInv
<1>8. Logs'
  BY <1>1, <1>7, LogsStay DEF IInv, search
<1>9. Typed'
  BY <1>1, <1>4, TypedStays DEF IInv, Typed, search
<1>10. Control'
  BY <1>1, <1>4, <1>6, <1>7 DEF Control, Asking
<1>11. Unmatched'
  BY <1>1 DEF IInv, Unmatched, search
<1>12. QED BY <1>7, <1>8, <1>9, <1>10, <1>11 DEF IInv

\* Below a frame at work is the log its search began with.
LEMMA AtWork ==
    ASSUME IInv, stack # <<>>
    PROVE  /\ Reaches(0, PS!Empty, Now) /\ Reaches(stack[1].start, base, Now)
           /\ Top.start <= Len(plan) /\ Now.plan = plan /\ Now.st = st
           /\ Len(plan) \in Nat /\ Top.start \in Nat
BY NowReached, TopTyped DEF IInv, Logs

\* The next clause of the dependencies of a package, or its next kind of them.
LEMMA NextClauseKeeps == ASSUME IInv, NextClause PROVE IInv'
<1>1. /\ ctl.at = "work" /\ stack # <<>> /\ Top.clauses # {} /\ Top.nodes = <<>>
      /\ UNCHANGED <<world, st, plan, ctl, search, excused>>
  BY DEF NextClause, IInv, Control
<1>2. Top \in FrameSet /\ Working(Top)
  BY <1>1, TopTyped DEF IInv
<1>3. PICK clause \in Top.clauses :
         \E nodes \in Orders(clause) :
           stack' = WithTop([Top EXCEPT !.clauses = @ \ {clause}, !.clause = clause,
                                        !.nodes = nodes])
  BY DEF NextClause
<1>4. PICK nodes \in Orders(clause) :
        stack' = WithTop([Top EXCEPT !.clauses = @ \ {clause}, !.clause = clause,
                                     !.nodes = nodes])
  BY <1>3
<1>5. clause \in SUBSET Atoms
  BY <1>2 DEF FrameSet
<1>6. nodes \in Seq(Atoms)
  <2>1. nodes \in [1 .. Seqs!Cardinality(clause) -> clause]
    BY DEF Orders, Seqs!SetToSeqs
  <2>2. Seqs!Cardinality(clause) = Cardinality(clause)
    BY DEF Cardinality, Seqs!Cardinality, Seqs!IsFiniteSet, IsFiniteSet
  <2>3. Cardinality(clause) \in Nat
    BY <1>5, ConstantsAssumption, FS_Subset, FS_CardinalityType
  <2> DEFINE n == Cardinality(clause)
  <2>4. n \in Nat /\ nodes \in [1 .. n -> Atoms]
    BY <1>5, <2>1, <2>2, <2>3
  <2> HIDE DEF n
  <2>5. QED BY <2>4
<1> DEFINE f == [Top EXCEPT !.clauses = @ \ {clause}, !.clause = clause, !.nodes = nodes]
<1>7. f \in FrameSet /\ Kept(Top, f) /\ f.cur = Top.cur /\ f.step = Top.step
  BY <1>2, <1>5, <1>6 DEF FrameSet, Kept
<1> HIDE DEF f
<1>8. Working(f)
  BY <1>1, <1>2, <1>7 DEF Working
<1>9. Frames' /\ stack' # <<>> /\ stack'[1].start = stack[1].start /\ Top' = f
  <2>1. Len(plan') \in Nat /\ Top.start <= Len(plan')
    BY <1>1, AtWork
  <2>2. stack' = WithTop(f)
    BY <1>4 DEF f
  <2>3. QED BY <1>1, <1>7, <1>8, <2>1, <2>2, TopChanged DEF IInv
<1>10. Logs'
  BY <1>1, <1>9, LogsStay DEF IInv, search
<1>11. Typed'
  BY <1>1, TypedStays DEF IInv, Typed, search
<1>12. Control'
  BY <1>1, <1>9 DEF Control, Asking
<1>13. Unmatched'
  BY <1>1 DEF IInv, Unmatched, search
<1>14. QED BY <1>9, <1>10, <1>11, <1>12, <1>13 DEF IInv

\* An atom of a clause is called for.
LEMMA TryAtomKeeps == ASSUME IInv, TryAtom PROVE IInv'
<1>1. /\ ctl.at = "work" /\ stack # <<>> /\ Top.nodes # <<>>
      /\ ctl' = Calling(Head(Top.nodes), Program[Top.step], Top.dbs, Top.drop, "node")
      /\ UNCHANGED <<world, st, plan, stack, search, excused>>
  BY DEF TryAtom, IInv, Control
<1>2. Top \in FrameSet /\ Working(Top) /\ Len(plan) \in Nat
  BY <1>1, TopTyped, NowReached DEF IInv
<1>3. /\ Head(Top.nodes) \in Atoms /\ Program[Top.step] \in Modes
      /\ Top.dbs \in {"all", "livefs"} /\ Top.drop \in BOOLEAN
  <2>1. Top.nodes \in Seq(Atoms) /\ Top.dbs \in {"all", "livefs"} /\ Top.drop \in BOOLEAN
    BY <1>2 DEF FrameSet
  <2>2. Program[Top.step] \in Attrs
    BY <1>1, <1>2 DEF Working
  <2>3. QED BY <1>1, <2>1, <2>2, HeadTailProperties DEF Modes
<1>4. ctl' \in Calls /\ ctl'.at = "call" /\ ctl'.why = "node"
  BY <1>1, <1>3 DEF Calling, Calls, Whys
<1>5. Frames' /\ Top' = Top
  BY <1>1, <1>2, FramesStay DEF IInv
<1>6. Logs'
  BY <1>1, LogsStay DEF IInv, search
<1>7. Typed'
  BY <1>1, <1>4, TypedStays DEF IInv, Typed, search
<1>8. Control'
  BY <1>1, <1>4, <1>5 DEF Control, Asking
<1>9. Unmatched'
  BY <1>1 DEF IInv, Unmatched, search
<1>10. QED BY <1>5, <1>6, <1>7, <1>8, <1>9 DEF IInv

\* A frame that is through with its package is popped.
LEMMA SucceedKeeps == ASSUME IInv, Succeed PROVE IInv'
<1>1. stack # <<>> /\ Leave(TRUE) /\ UNCHANGED <<world, st, plan, search, excused>>
  BY DEF Succeed, IInv, Control
<1>2. /\ Reaches(0, PS!Empty, Now) /\ Reaches(stack[1].start, base, Now)
      /\ Top.start <= Len(plan) /\ Len(plan) \in Nat
  BY <1>1, AtWork
<1>3. Now' = Now /\ made' \in Nat
  BY <1>1 DEF Now, IInv, Typed, search
<1>4. QED BY <1>1, <1>2, <1>3, LeftKeeps DEF search

\* A frame that is out of packages backtracks to where it began.
LEMMA RunOutKeeps == ASSUME IInv, RunOut PROVE IInv'
<1>1. /\ ctl.at = "work" /\ stack # <<>> /\ Top.cur = None
      /\ BacktrackTo(Now, Top.start) /\ UNCHANGED <<world, search>>
  BY DEF RunOut, IInv, Control
<1>2. /\ Reaches(0, PS!Empty, Now) /\ Reaches(stack[1].start, base, Now)
      /\ Top.start <= Len(Now.plan) /\ Frames /\ base' = base
  BY <1>1, AtWork DEF IInv, search
<1>3. Top \in FrameSet /\ Working(Top) /\ Len(stack) \in Nat \ {0}
      /\ (Top.why = "request" <=> Len(stack) = 1)
  BY <1>1, TopTyped DEF IInv
<1>4. made' \in Nat /\ UNCHANGED <<world, insoluble, asked, base>>
  BY <1>1 DEF IInv, Typed, search
<1>5. Unmatched'
  BY <1>4 DEF IInv, Unmatched
<1>6. CASE Leave(FALSE)
  <2>1. Len(plan') = Top.start /\ Len(plan') \in Nat /\ Logs' /\ excused' \subseteq excused
        /\ (Top.start = stack[1].start => st' = base)
    <3>1. /\ 0 \in Nat /\ Top.start \in 0 .. Len(Now.plan)
      BY <1>1, <1>2, AtWork
    <3>2. Len(plan') = Top.start
      BY <1>1, <1>2, <3>1, GoesBack DEF BacktrackTo, Commit
    <3>3. stack' # <<>> => stack'[1].start = stack[1].start
      BY <1>1, <1>2, <1>6, <3>1, <3>2, FrameLeft DEF Leave
    <3>4. QED BY <1>1, <1>2, <3>3, TopRestarts
  <2>2. Reaches(0, PS!Empty, Now') /\ Reaches(stack[1].start, base, Now')
    <3> DEFINE v == Backtracked(Now, Top.start)
    <3>1. /\ 0 \in Nat /\ Top.start \in 0 .. Len(Now.plan)
          /\ Top.start \in stack[1].start .. Len(Now.plan)
      BY <1>1, <1>2, AtWork, TopTyped
    <3>2. Reaches(0, PS!Empty, v) /\ Reaches(stack[1].start, base, v)
      BY <1>2, <3>1, GoesBack
    <3>3. Now' = v
      BY <1>1, <3>2 DEF BacktrackTo, Commit, Now, Reaches
    <3>4. QED BY <3>2, <3>3
  <2>3. Top.why = "request" => st' = base
    BY <1>3, <2>1 DEF Top
  <2>4. Top.start <= Len(plan') /\ \A x \in excused' : x \in excused
    BY <1>3, <2>1
  <2>5. QED BY <1>1, <1>4, <1>6, <2>1, <2>2, <2>3, <2>4, LeftKeeps
<1>7. CASE /\ stack' = WithTop([Top EXCEPT !.ignored = TRUE])
           /\ ctl' = Calling(Top.atom, Top.mode, Top.dbs, TRUE, "saving")
  <2> DEFINE f == [Top EXCEPT !.ignored = TRUE]
  <2>1. /\ Top.atom \in Atoms /\ Top.mode \in Modes /\ Top.dbs \in {"all", "livefs"}
        /\ Top.start \in Nat
    BY <1>3 DEF FrameSet
  <2>2. ctl' \in Calls /\ ctl'.at = "call" /\ ctl'.why = "saving"
    BY <1>7, <2>1 DEF Calling, Calls, Whys
  <2>3. /\ f \in FrameSet /\ Kept(Top, f)
        /\ f.clauses = Top.clauses /\ f.nodes = Top.nodes /\ f.cur = Top.cur /\ f.step = Top.step
    BY <1>3 DEF FrameSet, Kept
  <2>4. stack' = WithTop(f)
    BY <1>7
  <2> HIDE DEF f
  <2>5. Working(f) /\ f.start = Top.start
    BY <1>3, <2>3 DEF Working, Kept
  <2>6. Len(plan') = Top.start
    <3>1. 0 \in Nat /\ Top.start \in 0 .. Len(Now.plan)
      BY <1>1, <1>2, AtWork
    <3>2. QED BY <1>1, <1>2, <3>1, GoesBack DEF BacktrackTo, Commit
  <2>7. Frames' /\ stack' # <<>> /\ stack'[1].start = stack[1].start /\ Top' = f
    BY <1>1, <1>2, <2>1, <2>3, <2>4, <2>5, <2>6, TopChanged
  <2>8. Logs' /\ excused' \subseteq excused
    BY <1>1, <1>2, <2>7, TopRestarts
  <2>9. Typed'
    BY <1>4, <2>2, <2>8, TypedStays DEF IInv
  <2>10. Control'
    BY <2>2, <2>5, <2>6, <2>7 DEF Control, Asking
  <2>11. QED BY <1>5, <2>7, <2>8, <2>9, <2>10 DEF IInv
<1>8. QED BY <1>6, <1>7 DEF RunOut

\* The node failed, with the log that w holds.
LEMMA FailKeeps ==
    ASSUME IInv, stack # <<>>, Top.nodes # <<>>, NEW w,
           Reaches(0, PS!Empty, w), Reaches(stack[1].start, base, w),
           Top.start <= Len(w.plan), NodeFails(w),
           UNCHANGED <<world, insoluble, asked, base>>, made' \in Nat
    PROVE  IInv'
<1>1. /\ Frames' /\ Logs' /\ stack' # <<>> /\ ctl' = At("work")
      /\ excused' \subseteq excused
  BY NodeFailsKeeps DEF IInv
<1>2. ctl' \in Others /\ ctl'.at = "work"
  BY <1>1, Stood
<1>3. Typed'
  BY <1>1, <1>2, TypedStays DEF IInv
<1>4. Control'
  BY <1>1, <1>2 DEF Control, Asking
<1>5. Unmatched'
  BY DEF IInv, Unmatched
<1>6. QED BY <1>1, <1>3, <1>4, <1>5 DEF IInv

\* A request that was answered in the negative is back at its base.
LEMMA ReturnToRequestKeeps == ASSUME IInv, ReturnToRequest PROVE IInv'
<1>1. /\ ctl.at = "return" /\ ctl.why = "request" /\ stack = <<>>
      /\ ctl' = At(IF ctl.ok THEN "next" ELSE "failed")
      /\ UNCHANGED <<world, st, plan, stack, search, excused>>
      /\ ~ctl.ok => st = base
  BY DEF ReturnToRequest, IInv, Control, Asking
<1>2. /\ ctl' \in Others
      /\ ctl'.at = "next" \/ (ctl'.at = "failed" /\ ~ctl.ok)
  BY <1>1, Stood
<1>3. Typed'
  BY <1>1, <1>2, TypedStays DEF IInv, Typed, search
<1>4. Frames'
  BY <1>1 DEF IInv, Frames, Working
<1>5. Control'
  BY <1>1, <1>2 DEF Control, Asking, search
<1>6. Logs'
  BY <1>1 DEF IInv, Logs, Now, search
<1>7. Unmatched'
  BY <1>1 DEF IInv, Unmatched, search
<1>8. QED BY <1>3, <1>4, <1>5, <1>6, <1>7 DEF IInv

\* The answer for an atom of a clause: on failure the next atom, or the next package.
LEMMA ReturnToNodeKeeps == ASSUME IInv, ReturnToNode PROVE IInv'
<1>1. /\ stack # <<>> /\ Top.nodes # <<>> /\ UNCHANGED <<world, search>>
  BY DEF ReturnToNode, IInv, Control
<1>2. Top \in FrameSet /\ Working(Top)
  BY <1>1, TopTyped DEF IInv
<1>3. /\ Reaches(0, PS!Empty, Now) /\ Reaches(stack[1].start, base, Now)
      /\ Top.start <= Len(Now.plan)
  BY <1>1, AtWork
<1>4. UNCHANGED <<world, insoluble, asked, base>> /\ made' \in Nat
  BY <1>1 DEF search, IInv, Typed
<1>5. CASE /\ stack' = WithTop(ClauseDone(Top)) /\ ctl' = At("work")
           /\ UNCHANGED <<st, plan>>
           /\ excused' \subseteq excused \cup {Excuse(Top.cur, Head(Top.nodes), "met", Len(plan))}
  <2> DEFINE f == ClauseDone(Top)
             x == Excuse(Top.cur, Head(Top.nodes), "met", Len(plan))
  <2>1. f \in FrameSet /\ Kept(Top, f) /\ Working(f)
    BY <1>1, <1>2, ClauseDoneTyped
  <2>2. x.pkg \in Pkgs \cup {None} /\ x.atom \in Atoms
    <3>1. Top.nodes \in Seq(Atoms) /\ Top.cur \in Pkgs \cup {None}
      BY <1>2 DEF FrameSet
    <3>2. QED BY <1>1, <3>1, HeadTailProperties DEF Excuse
  <2> HIDE DEF f, x
  <2>3. \A y \in excused' : y \in excused \/ (y.pkg \in Pkgs \cup {None} /\ y.atom \in Atoms)
    BY <1>5, <2>2 DEF x
  <2>4. Commit(Now)
    BY <1>5 DEF Commit, Now
  <2>5. stack' = WithTop(f) /\ ctl' = At("work")
    BY <1>5 DEF f
  <2>6. QED BY <1>1, <1>3, <1>4, <2>1, <2>3, <2>4, <2>5, WorkKeeps
<1>6. CASE NodeFails(Now)
  BY <1>1, <1>3, <1>4, <1>6, FailKeeps
<1>7. QED BY <1>5, <1>6 DEF ReturnToNode

\* The answer for a package that a weak blocker does not block.
LEMMA ReturnToBlockerKeeps == ASSUME IInv, ReturnToBlocker PROVE IInv'
<1>1. /\ stack # <<>> /\ Top.nodes # <<>> /\ UNCHANGED <<world, search>>
  BY DEF ReturnToBlocker, IInv, Control
<1>2. Top \in FrameSet /\ Working(Top)
  BY <1>1, TopTyped DEF IInv
<1>3. /\ Reaches(0, PS!Empty, Now) /\ Reaches(stack[1].start, base, Now)
      /\ Top.start <= Len(Now.plan)
  BY <1>1, AtWork
<1>4. UNCHANGED <<world, insoluble, asked, base>> /\ made' \in Nat
  BY <1>1 DEF search, IInv, Typed
<1>5. CASE /\ stack' = WithTop(ClauseDone(Top)) /\ ctl' = At("work")
           /\ UNCHANGED <<st, plan, excused>>
  <2> DEFINE f == ClauseDone(Top)
  <2>1. f \in FrameSet /\ Kept(Top, f) /\ Working(f)
    BY <1>1, <1>2, ClauseDoneTyped
  <2>2. stack' = WithTop(f) /\ ctl' = At("work") /\ excused' = excused
    BY <1>5
  <2>3. Commit(Now)
    BY <1>5 DEF Commit, Now
  <2> HIDE DEF f
  <2>4. QED BY <1>1, <1>3, <1>4, <2>1, <2>2, <2>3, WorkKeeps
<1>6. CASE NodeFails(Now)
  BY <1>1, <1>3, <1>4, <1>6, FailKeeps
<1>7. QED BY <1>5, <1>6 DEF ReturnToBlocker

\* The answer of the search that a frame, limited to installed packages or out of
\* choices, had repeated.
LEMMA ReturnToRepeatedKeeps == ASSUME IInv, ReturnToRepeated PROVE IInv'
<1>1. /\ ctl.at = "return" /\ ctl \in Returns /\ ctl.why \in {"vdb", "saving"}
      /\ stack # <<>> /\ Leave(ctl.ok)
      /\ UNCHANGED <<world, st, plan, search, excused>>
      /\ ~ctl.ok => Len(plan) = Top.start
  BY Asked DEF ReturnToRepeated, IInv, Control, Asking
<1>2. ctl.ok \in BOOLEAN
  BY <1>1 DEF Returns
<1>3. /\ Reaches(0, PS!Empty, Now) /\ Reaches(stack[1].start, base, Now)
      /\ Now.plan = plan /\ Now.st = st /\ Top.start <= Len(plan) /\ Len(plan) \in Nat
  BY <1>1, AtWork
<1>4. Top.why = "request" => Top.start = stack[1].start
  BY <1>1, TopTyped DEF IInv, Top
<1>5. ~ctl.ok /\ Top.why = "request" => st' = base
  BY <1>1, <1>3, <1>4, Reached
<1>6. Now' = Now /\ made' \in Nat /\ UNCHANGED <<world, insoluble, asked, base>> /\ plan' = plan
  BY <1>1 DEF Now, IInv, Typed, search
<1>7. QED BY <1>1, <1>2, <1>3, <1>5, <1>6, LeftKeeps

\* The choice point of the frame on top, once it has a package.
LEMMA HereMade ==
    ASSUME Frames, stack # <<>>, Top.cur # None
    PROVE  Here \in ChoicePoints /\ Here.pkg = Top.cur /\ Top.cur \in Pkgs
<1>1. Top.id \in 1 .. MaxMade /\ Top.cur \in Pkgs
  BY TopTyped DEF FrameSet
<1>2. QED BY <1>1 DEF Here, ChoicePoints

\* A blocker is referenced, or fails.
LEMMA TryBlockerKeeps == ASSUME IInv, TryBlocker PROVE IInv'
<1> DEFINE a == Head(Top.nodes)
           ps == IF Top.cur \in Livefs THEN {} ELSE Matches[a]
           w == Loaded(ps)
           t == [c |-> Here, a |-> a, n |-> Len(w.plan) + 1]
           x == Logged(w, PS!BlockOp("incref", t))
<1>1. /\ stack # <<>> /\ Top.nodes # <<>> /\ a \in Blockers /\ InBounds
      /\ UNCHANGED <<world, insoluble, asked, base>>
      /\ made' = made + Cardinality(Loads(ps))
      /\ \/ /\ Commit(x) /\ stack' = WithTop(ClauseDone(Top)) /\ UNCHANGED <<ctl, excused>>
         \/ /\ a \in Weak /\ Commit(x) /\ UNCHANGED <<stack, excused>>
            /\ ctl' = Calling(Past[a], "none", stack[1].dbs, FALSE, "weak")
         \/ NodeFails(x)
  BY ZenonT(60) DEF TryBlocker, IInv, Control
<1>2. /\ Top \in FrameSet /\ Working(Top) /\ ctl.at = "work" /\ ctl \in Others
  <2>1. Top \in FrameSet /\ Working(Top)
    BY <1>1, TopTyped DEF IInv
  <2>2. ctl.at = "work"
    BY DEF TryBlocker
  <2>3. QED BY <2>1, <2>2 DEF IInv, Typed, Calls, Returns
<1>3. Here \in ChoicePoints
  BY <1>1, <1>2, HereMade DEF IInv, Working
<1>4. /\ Reaches(0, PS!Empty, Now) /\ Reaches(stack[1].start, base, Now)
      /\ Top.start <= Len(plan) /\ Len(plan) \in Nat /\ Top.start \in Nat
  BY <1>1, AtWork
<1>5. made \in Nat
  BY DEF IInv, Typed
<1> HIDE DEF a, ps
<1>6. /\ Reaches(0, PS!Empty, w) /\ Reaches(stack[1].start, base, w)
      /\ Len(plan) <= Len(w.plan) /\ made + Cardinality(Loads(ps)) \in Nat
  BY <1>1, <1>4, <1>5, LoadedAll
<1> HIDE DEF w
<1>7. InOrder(w.st, Len(w.plan)) /\ Len(w.plan) \in Nat
  BY <1>6, Reached
<1>8. t \in RS!Tokens /\ t.a \in Blockers /\ t.n = Len(w.plan) + 1
  BY <1>1, <1>3, <1>7, ConstantsAssumption DEF RS!Tokens
<1> HIDE DEF t
<1>9. Applicable(w.st, PS!BlockOp("incref", t), Len(w.plan))
  BY <1>7, <1>8, BlockApplies
<1>10. /\ Reaches(0, PS!Empty, x) /\ Reaches(stack[1].start, base, x)
       /\ Len(x.plan) = Len(w.plan) + 1
  BY <1>6, <1>9, Grows
<1> HIDE DEF x
<1>11. Top.start <= Len(x.plan) /\ Len(plan) <= Len(x.plan) /\ Len(x.plan) \in Nat /\ made' \in Nat
  BY <1>1, <1>4, <1>6, <1>7, <1>10
<1>12. CASE Commit(x) /\ stack' = WithTop(ClauseDone(Top)) /\ UNCHANGED <<ctl, excused>>
  <2> DEFINE f == ClauseDone(Top)
  <2>1. f \in FrameSet /\ Kept(Top, f) /\ Working(f)
    BY <1>1, <1>2, ClauseDoneTyped
  <2>2. stack' = WithTop(f) /\ excused' = excused /\ ctl' = At("work")
    BY <1>2, <1>12 DEF Others, At
  <2> HIDE DEF f
  <2>3. QED BY <1>1, <1>10, <1>11, <1>12, <2>1, <2>2, WorkKeeps
<1>13. CASE /\ a \in Weak /\ Commit(x) /\ UNCHANGED <<stack, excused>>
            /\ ctl' = Calling(Past[a], "none", stack[1].dbs, FALSE, "weak")
  <2>1. stack[1].dbs \in {"all", "livefs"}
    <3>1. stack[1] \in FrameSet
      BY <1>1, TopTyped DEF IInv
    <3>2. QED BY <3>1 DEF FrameSet
  <2>2. Past[a] \in Atoms
    BY <1>13, ConstantsAssumption
  <2>3. ctl' \in Calls /\ ctl'.at = "call" /\ ctl'.why = "weak"
    BY <1>13, <2>1, <2>2 DEF Calling, Calls, Whys, Modes
  <2>4. Frames' /\ Top' = Top
    <3>1. plan' = x.plan
      BY <1>13 DEF Commit
    <3>2. QED BY <1>4, <1>11, <1>13, <3>1, FramesStay DEF IInv
  <2>5. Logs'
    BY <1>1, <1>10, <1>13, LogsBecome
  <2>6. Typed'
    BY <1>1, <1>11, <1>13, <2>3, TypedStays DEF IInv
  <2>7. Control'
    BY <1>1, <1>13, <2>3, <2>4 DEF Control, Asking
  <2>8. Unmatched'
    BY <1>1 DEF IInv, Unmatched
  <2>9. QED BY <2>4, <2>5, <2>6, <2>7, <2>8 DEF IInv
<1>14. CASE NodeFails(x)
  BY <1>1, <1>10, <1>11, <1>14, FailKeeps
<1>15. QED BY <1>1, <1>12, <1>13, <1>14

\* insert_choice puts the package in when nothing refuses it: what the database
\* has in its slot was loaded, or was replaced before.
LEMMA InsertApplies ==
    ASSUME IInv, stack # <<>>, Top.cur # None, InBounds, NEW ps,
           ps = IF Top.cur \in Livefs THEN {} ELSE SlotMates,
           PS!Occupants(Loaded(ps).st, Top.cur) = {}
    PROVE  Applicable(Loaded(ps).st, PS!AddOp(Here, FALSE), Len(Loaded(ps).plan))
<1> DEFINE w == Loaded(ps)
           p == Top.cur
<1>1. Here \in ChoicePoints /\ Here.pkg = p /\ p \in Pkgs
  BY HereMade DEF IInv
<1>2. /\ Reaches(0, PS!Empty, w)
      /\ w.st.slots = st.slots \cup Loads(ps) /\ w.st.filter = st.filter
  <2>1. Reaches(0, PS!Empty, Now) /\ made \in Nat
    BY AtWork DEF IInv, Typed
  <2>2. QED BY <2>1, LoadedAll
<1>3. PS!Occupants(w.st, p) = {}
  OBVIOUS
<1> HIDE DEF w, p
<1>4. InOrder(w.st, Len(w.plan))
  BY <1>2, Reached
<1>5. \A q \in w.st.slots : SlotOf[q] # SlotOf[p]
  BY <1>3 DEF PS!Occupants
<1>6. p \notin w.st.filter
  BY <1>4, <1>5 DEF InOrder, Caused
<1>7. ASSUME NEW q \in Livefs, q # p, SlotOf[q] = SlotOf[p], q \notin w.st.filter PROVE FALSE
  <2>1. p \notin Livefs
    BY <1>7, WorldsAssumption
  <2>2. ps = {r \in Pkgs : SlotOf[r] = SlotOf[p]}
    BY <2>1 DEF SlotMates, p
  <2>3. q \in ps
    BY <1>7, <2>2, ConstantsAssumption
  <2>4. ps \cap st.slots = {}
    BY <1>2, <1>5, <2>2
  <2>5. q \in Loads(ps)
    BY <1>2, <1>7, <2>3, <2>4 DEF Loads
  <2>6. QED BY <1>2, <1>5, <1>7, <2>5
<1>8. Here.pkg = p /\ PS!Occupants(w.st, Here.pkg) = {}
  BY <1>1, <1>3
<1> DEFINE force == FALSE
<1>9. force \in BOOLEAN
  OBVIOUS
<1> HIDE DEF force
<1>10. Applicable(w.st, PS!AddOp(Here, force), Len(w.plan))
  BY <1>1, <1>6, <1>7, <1>8, <1>9, AddApplies
<1>11. QED BY <1>10 DEF w, force

\* A package is put in the plan: added, matched again, or put in the place of one
\* that is installed.
LEMMA InsertKeeps == ASSUME IInv, Insert PROVE IInv'
<1> DEFINE ps == IF Top.cur \in Livefs THEN {} ELSE SlotMates
           w == Loaded(ps)
           limiting == PS!Limiting(w.st, Top.cur)
           occupants == PS!Occupants(w.st, Top.cur)
           k == Top.step + 1
           back == Backtracked(w, Top.start)
           forced == Forced(back.st, Top)
<1>1. /\ ctl.at = "work" /\ Top.cur # None /\ Program[Top.step] = "insert" /\ InBounds
      /\ UNCHANGED <<world, insoluble, asked, base>>
      /\ made' = made + Cardinality(Loads(ps))
  BY DEF Insert
<1>2. stack # <<>> /\ ctl = At("work")
  <2>1. stack # <<>>
    BY <1>1 DEF IInv, Control
  <2>2. ctl \in Others
    BY <1>1 DEF IInv, Typed, Calls, Returns
  <2>3. QED BY <1>1, <2>1, <2>2 DEF Others, At
<1>3. Top \in FrameSet /\ Frames
  BY <1>2, TopTyped DEF IInv
<1>4. k \in 1 .. 7
  <2>1. Top.step \in 1 .. 7
    BY <1>3 DEF FrameSet
  <2>2. Program[7] # "insert"
    BY DEF Program
  <2>3. QED BY <1>1, <2>1, <2>2
<1>5. Here \in ChoicePoints /\ Here.pkg = Top.cur /\ Top.cur \in Pkgs
  BY <1>1, <1>2, HereMade DEF IInv
<1>6. /\ Reaches(0, PS!Empty, Now) /\ Reaches(stack[1].start, base, Now)
      /\ Top.start <= Len(plan) /\ Len(plan) \in Nat /\ Top.start \in Nat
      /\ made \in Nat
  BY <1>1, <1>2, AtWork DEF IInv, Typed
<1>7. \/ /\ limiting \cup occupants = {}
         /\ Commit(Logged(w, PS!AddOp(Here, FALSE)))
         /\ stack' = WithTop(Entering(Top, k))
         /\ UNCHANGED <<ctl, excused>>
      \/ Commit(w) /\ Leave(TRUE) /\ UNCHANGED excused
      \/ /\ Commit(back) /\ stack' = WithTop(Retried(forced)) /\ UNCHANGED ctl
         /\ excused' = {e \in excused : e.at <= Top.start}
                         \cup {Excuse(forced.cur, a, "met", Top.start) : a \in Atoms}
      \/ /\ limiting = {} /\ occupants \subseteq Livefs /\ Top.cur \notin Livefs
         /\ \E old \in occupants : Commit(Replaced(w, old))
         /\ stack' = WithTop(Entering(Top, k))
         /\ UNCHANGED <<ctl, excused>>
      \/ ctl' = At("raised") /\ UNCHANGED <<st, plan, stack, excused>>
  BY ZenonT(60) DEF Insert
<1> HIDE DEF ps, k
<1>8. /\ Reaches(0, PS!Empty, w) /\ Reaches(stack[1].start, base, w)
      /\ Len(plan) <= Len(w.plan) /\ made + Cardinality(Loads(ps)) \in Nat
  BY <1>1, <1>6, LoadedAll
<1> HIDE DEF w, limiting, back, forced
<1>9. InOrder(w.st, Len(w.plan)) /\ Len(w.plan) \in Nat /\ w.st \in RS!States
  BY <1>8, Reached
<1>10. Top.start <= Len(w.plan) /\ made' \in Nat
  BY <1>1, <1>6, <1>8, <1>9
<1>11. /\ Entering(Top, k) \in FrameSet /\ Kept(Top, Entering(Top, k))
       /\ Working(Entering(Top, k))
  BY <1>1, <1>3, <1>4, EnteringTyped
<1>12. CASE /\ limiting \cup occupants = {}
            /\ Commit(Logged(w, PS!AddOp(Here, FALSE)))
            /\ stack' = WithTop(Entering(Top, k))
            /\ UNCHANGED <<ctl, excused>>
  <2> DEFINE o == PS!AddOp(Here, FALSE)
             x == Logged(w, o)
  <2>1. occupants = {}
    BY <1>12
  <2>2. Applicable(w.st, o, Len(w.plan))
    BY <1>1, <1>2, <2>1, InsertApplies DEF ps, w
  <2> HIDE DEF o
  <2>3. /\ Reaches(0, PS!Empty, x) /\ Reaches(stack[1].start, base, x)
        /\ Len(x.plan) = Len(w.plan) + 1
    BY <1>8, <2>2, Grows
  <2>4. Commit(x)
    BY <1>12 DEF o
  <2> HIDE DEF x
  <2>5. Top.start <= Len(x.plan)
    BY <1>6, <1>9, <1>10, <2>3
  <2>6. QED BY <1>1, <1>2, <1>10, <1>11, <1>12, <2>3, <2>4, <2>5, WorkKeeps
<1>13. CASE Commit(w) /\ Leave(TRUE) /\ UNCHANGED excused
  <2>1. Now' = w /\ plan' = w.plan
    BY <1>8, <1>13 DEF Commit, Now, Reaches
  <2>2. QED BY <1>1, <1>2, <1>8, <1>9, <1>10, <1>13, <2>1, LeftKeeps
<1>14. CASE /\ Commit(back) /\ stack' = WithTop(Retried(forced)) /\ UNCHANGED ctl
            /\ excused' = {e \in excused : e.at <= Top.start}
                            \cup {Excuse(forced.cur, a, "met", Top.start) : a \in Atoms}
  <2>1. /\ Top.start \in 0 .. Len(w.plan) /\ Top.start \in stack[1].start .. Len(w.plan)
    BY <1>2, <1>3, <1>6, <1>9, <1>10, TopTyped
  <2>2. /\ Reaches(0, PS!Empty, back) /\ Reaches(stack[1].start, base, back)
        /\ Len(back.plan) = Top.start
    BY <1>8, <2>1, GoesBack DEF back
  <2>3. forced \in FrameSet /\ Kept(Top, forced)
    BY <1>3, WorldTyped, ForcedTyped DEF IInv, forced
  <2>4. /\ Retried(forced) \in FrameSet /\ Kept(Top, Retried(forced)) /\ Working(Retried(forced))
    BY <2>3, RetriedTyped DEF Kept
  <2>5. forced.cur \in Pkgs \cup {None}
    BY <2>3 DEF FrameSet
  <2>6. \A x \in excused' : x \in excused \/ (x.pkg \in Pkgs \cup {None} /\ x.atom \in Atoms)
    BY <1>14, <2>5 DEF Excuse
  <2>7. Top.start <= Len(back.plan) /\ ctl' = At("work")
    BY <1>2, <1>6, <1>14, <2>2
  <2>8. QED BY <1>1, <1>2, <1>10, <1>14, <2>2, <2>4, <2>6, <2>7, WorkKeeps
<1>15. CASE /\ limiting = {} /\ occupants \subseteq Livefs /\ Top.cur \notin Livefs
            /\ \E old \in occupants : Commit(Replaced(w, old))
            /\ stack' = WithTop(Entering(Top, k))
            /\ UNCHANGED <<ctl, excused>>
  <2>1. PICK old \in occupants : Commit(Replaced(w, old))
    BY <1>15
  <2>2. old \in Livefs /\ PS!Occupants(w.st, Here.pkg) = {old}
    <3>1. old \in Livefs
      BY <1>15
    <3>2. \A q, r \in occupants : q = r
      BY <1>9 DEF InOrder, RS!StateOK, PS!Occupants
    <3>3. QED BY <1>5, <3>1, <3>2
  <2> DEFINE x == Replaced(w, old)
  <2>3. Here.pkg \notin Livefs
    BY <1>5, <1>15
  <2>4. /\ Reaches(0, PS!Empty, x) /\ Reaches(stack[1].start, base, x)
        /\ Len(w.plan) <= Len(x.plan)
    BY <1>5, <1>8, <2>2, <2>3, ReplacedAll
  <2> HIDE DEF x
  <2>5. Len(x.plan) \in Nat
    BY <2>4, Reached
  <2>6. Top.start <= Len(x.plan)
    BY <1>6, <1>9, <1>10, <2>4, <2>5
  <2>7. Commit(x)
    BY <2>1 DEF x
  <2>8. QED BY <1>1, <1>2, <1>10, <1>11, <1>15, <2>4, <2>6, <2>7, WorkKeeps
<1>16. CASE ctl' = At("raised") /\ UNCHANGED <<st, plan, stack, excused>>
  <2>1. ctl' \in Others /\ ctl'.at = "raised"
    BY <1>16, Stood
  <2>2. Typed'
    BY <1>1, <1>10, <1>16, <2>1, TypedStays DEF IInv
  <2>3. Frames'
    BY <1>16 DEF IInv, Frames, Working
  <2>4. Logs'
    BY <1>1, <1>16, LogsStay DEF IInv
  <2>5. Control'
    BY <2>1 DEF Control, Asking
  <2>6. Unmatched'
    BY <1>1 DEF IInv, Unmatched
  <2>7. QED BY <2>2, <2>3, <2>4, <2>5, <2>6 DEF IInv
<1>17. QED BY <1>7, <1>12, <1>13, <1>14, <1>15, <1>16
-----------------------------------------------------------------------------
\* No step of the search disturbs the invariant.
LEMMA NextKeeps == IInv /\ [Next]_vars => IInv'
<1> SUFFICES ASSUME IInv, [Next]_vars PROVE IInv'
  OBVIOUS
<1>1. CASE Begin \/ Request \/ Resolved
  BY <1>1, BeginKeeps, RequestKeeps, ResolvedKeeps
<1>2. CASE NotViable \/ PreSolved \/ Viable
  BY <1>2, NotViableKeeps, PreSolvedKeeps, ViableKeeps
<1>3. CASE NoCycle \/ CycleSatisfied \/ LimitToVdb
  BY <1>3, NoCycleKeeps, CycleSatisfiedKeeps, LimitToVdbKeeps
<1>4. CASE NextClause \/ TryAtom \/ TryBlocker
  BY <1>4, NextClauseKeeps, TryAtomKeeps, TryBlockerKeeps
<1>5. CASE Insert \/ Succeed \/ RunOut
  BY <1>5, InsertKeeps, SucceedKeeps, RunOutKeeps
<1>6. CASE ReturnToRequest \/ ReturnToNode \/ ReturnToBlocker \/ ReturnToRepeated
  BY <1>6, ReturnToRequestKeeps, ReturnToNodeKeeps, ReturnToBlockerKeeps, ReturnToRepeatedKeeps
<1>7. CASE UNCHANGED vars
  <2>1. /\ UNCHANGED <<deps, opts, st, plan, stack, ctl, insoluble, asked, made, base, excused>>
    BY <1>7 DEF vars, world, search
  <2>2. Typed'
    BY <2>1 DEF IInv, Typed
  <2>3. Frames'
    BY <2>1 DEF IInv, Frames, Working
  <2>4. Control' /\ Logs' /\ Unmatched'
    BY <2>1 DEF IInv, Control, Asking, Top, Logs, Now, Unmatched
  <2>5. QED BY <2>2, <2>3, <2>4 DEF IInv
<1>8. QED BY <1>1, <1>2, <1>3, <1>4, <1>5, <1>6, <1>7 DEF Next

-----------------------------------------------------------------------------
(***************************************************************************)
(* What was found stays found.  The search never takes a package out of    *)
(* the plan but for one that replaces it, and never gives up a blocker of  *)
(* a package that is not installed.                                        *)
(***************************************************************************)
Later(s, t) ==
    /\ s.slots \cup s.filter \subseteq t.slots \cup t.filter
    /\ \A k \in s.rev : k.c.pkg \notin Livefs => k \in t.rev

LEMMA EffectLater ==
    ASSUME NEW k, NEW s, InOrder(s, k), NEW o, Applicable(s, o, k)
    PROVE  Later(s, PS!Effect(s, o))
<1>1. s \in RS!States
  BY DEF InOrder, RS!StateOK
<1>2. PICK b \in BOOLEAN : RS!Valid(s, [o EXCEPT !.force = b], k)
  BY DEF Applicable
<1> DEFINE u == [o EXCEPT !.force = b]
<1>3. /\ u.op = o.op /\ u.c = o.c /\ u.p = o.p /\ u.a = o.a /\ u.n = o.n /\ u.old = o.old
      /\ o.op \in {"add", "incref", "decref", "replace", "hardref", "backref"}
  BY <1>2 DEF Applicable, PS!Ops, RS!Valid
<1> HIDE DEF u
<1>4. CASE o.op = "add"
  BY <1>1, <1>4 DEF PS!Effect, PS!Seat, RS!States, Later
<1>5. CASE o.op = "incref"
  BY <1>1, <1>5 DEF PS!Effect, PS!Reference, RS!States, Later
<1>6. CASE o.op = "decref"
  <2>1. PS!Token(o).c.pkg \in Livefs
    BY <1>6 DEF Applicable, PS!Token
  <2>2. PS!Effect(s, o).rev = s.rev \ {PS!Token(o)}
        /\ PS!Effect(s, o).slots = s.slots /\ PS!Effect(s, o).filter = s.filter
    BY <1>1, <1>6 DEF PS!Effect, PS!Unreference, RS!States
  <2>3. QED BY <2>1, <2>2 DEF Later
<1>7. CASE o.op = "replace"
  BY <1>1, <1>7 DEF PS!Effect, PS!Hide, PS!Seat, PS!Unseat, RS!States, Later
<1>8. CASE o.op \in {"hardref", "backref"}
  BY <1>1, <1>8 DEF PS!Effect, RS!States, Later
<1>9. QED BY <1>3, <1>4, <1>5, <1>6, <1>7, <1>8

LEMMA ReachedLater ==
    ASSUME NEW n, NEW b, NEW w, Reaches(n, b, w)
    PROVE  Later(b, w.st)
<1> DEFINE L == Len(w.plan)
<1>1. PICK h : Trace(w, h) /\ n \in 0 .. L /\ h[n] = b
  BY DEF Reaches
<1>2. /\ L \in Nat /\ h[L] = w.st
      /\ \A i \in 0 .. L : InOrder(h[i], i)
      /\ \A i \in 1 .. L :
           Applicable(h[i - 1], w.plan[i], i - 1) /\ h[i] = PS!Effect(h[i - 1], w.plan[i])
  BY <1>1, LenProperties DEF Trace
<1> HIDE DEF L
<1> DEFINE T == {i \in 0 .. L - n : Later(b, h[n + i])}
<1>3. 0 \in T
  BY <1>1, <1>2 DEF Later
<1>4. ASSUME NEW i \in 0 .. L - n, i \in T, i < L - n PROVE i + 1 \in T
  <2>1. /\ n + i \in 0 .. L /\ n + (i + 1) \in 1 .. L
        /\ (n + (i + 1)) - 1 = n + i /\ i + 1 \in 0 .. L - n
    BY <1>1, <1>2, <1>4
  <2> DEFINE s == h[n + i]
             t == h[n + (i + 1)]
             o == w.plan[n + (i + 1)]
  <2>2. InOrder(s, n + i) /\ Applicable(s, o, n + i) /\ t = PS!Effect(s, o)
    BY <1>2, <2>1
  <2>3. Later(b, s)
    BY <1>4
  <2> HIDE DEF s, o, t
  <2>4. Later(s, t)
    BY <2>2, EffectLater
  <2>5. Later(b, t)
    BY <2>3, <2>4 DEF Later
  <2>6. QED BY <2>1, <2>5 DEF t
<1> HIDE DEF T
<1>5. L - n \in Nat /\ n + (L - n) = L
  BY <1>1, <1>2
<1>6. L - n \in T
  BY <1>3, <1>4, <1>5, UpTo
<1>7. QED BY <1>2, <1>5, <1>6 DEF T

\* What backtracking goes back to was there before.
LEMMA BackLater ==
    ASSUME NEW n, NEW b, NEW w, Reaches(n, b, w), NEW m \in 0 .. Len(w.plan)
    PROVE  Later(Backtracked(w, m).st, w.st)
<1>1. PICK h : Trace(w, h)
  BY DEF Reaches
<1>2. Reaches(m, h[m], w)
  BY <1>1 DEF Reaches
<1>3. m \in m .. Len(w.plan)
  BY Reached
<1>4. Backtracked(w, m).st = h[m]
  BY <1>2, <1>3, GoesBack
<1>5. QED BY <1>2, <1>4, ReachedLater

-----------------------------------------------------------------------------
(***************************************************************************)
(* What a package to be built still waits for.  A frame's package is one   *)
(* its atom matches (Picked); of each clause the package needs to be built *)
(* the choice point holds what was not struck out, unless it was forced on *)
(* the frame (Owned); and at its step of the program the clauses of the    *)
(* steps before are solved and those of the present step solved or still   *)
(* to be worked on (Advanced).                                             *)
(***************************************************************************)
InPlace(s, a) == Matches[a] \cap (s.slots \cup s.filter) # {}
Granted(ex, p, a, n) == \E x \in ex : x.pkg = p /\ x.atom = a /\ x.at <= n
Registered(s, p, a) == \E t \in s.rev : t.a = a /\ t.c.pkg = p

Solved(ex, s, p, a, n) ==
    \/ Granted(ex, p, a, n)
    \/ IF a \in Blockers THEN Registered(s, p, a) ELSE InPlace(s, a)

\* depend and bdepend, the first two steps, of a package that is built.
Needs(D, p, k) == D[p][Program[k]]
ToBuild(f) == f.cur # None /\ f.cur \notin Built
Remaining(f) == f.clauses \cup {c \in {f.clause} : f.nodes # <<>>}

Picked(f) ==
    /\ f.cur # None => f.cur \in Matches[f.atom]
    /\ \A attr \in CP!Reduced : {} \notin f.own[attr]

Divided(f) ==
    /\ f.step < 3 => {} \notin f.clauses
    /\ \A i \in DOMAIN f.nodes : f.nodes[i] \in f.clause

Owned(D, ex, f) ==
    ToBuild(f) =>
      \A k \in {1, 2} : \A c \in Needs(D, f.cur, k) :
        \/ \E d \in f.own[Program[k]] : d \subseteq c
        \/ \E a \in c : Granted(ex, f.cur, a, f.start)

Advanced(D, ex, s, f, n) ==
    /\ f.cur # None /\ f.step > 5 => f.cur \in s.slots \cup s.filter
    /\ ToBuild(f) =>
         \A k \in {1, 2} : \A c \in Needs(D, f.cur, k) :
           \/ f.step < k
           \/ f.step = k /\ \E d \in Remaining(f) : d \subseteq c
           \/ \E a \in c : Solved(ex, s, f.cur, a, n)

Sound(D, ex, f) == Picked(f) /\ Divided(f) /\ Owned(D, ex, f)

\* The dependencies of every world: no clause is empty.
Worldly ==
    /\ deps \in [Pkgs -> [Attrs -> SUBSET SUBSET Atoms]]
    /\ \A p \in Pkgs : \A attr \in Attrs : {} \notin deps[p][attr]

LEMMA WorldWorldly == ASSUME Typed PROVE Worldly
<1>1. PICK w \in Worlds : deps = w.deps /\ opts = w.opts
  BY DEF Typed
<1>2. deps \in [Pkgs -> [Attrs -> SUBSET ((SUBSET Atoms) \ {{}})]]
  BY <1>1, WorldsAssumption
<1>3. ASSUME NEW p \in Pkgs
      PROVE  deps[p] \in [Attrs -> SUBSET SUBSET Atoms] /\ \A attr \in Attrs : {} \notin deps[p][attr]
  <2>1. deps[p] \in [Attrs -> SUBSET ((SUBSET Atoms) \ {{}})]
    BY <1>2
  <2> DEFINE e == deps[p]
  <2>2. e = [attr \in Attrs |-> e[attr]] /\ \A attr \in Attrs : e[attr] \in SUBSET ((SUBSET Atoms) \ {{}})
    BY <2>1
  <2> HIDE DEF e
  <2>3. ASSUME NEW attr \in Attrs PROVE e[attr] \in SUBSET SUBSET Atoms /\ {} \notin e[attr]
    <3>1. e[attr] \in SUBSET ((SUBSET Atoms) \ {{}})
      BY <2>2
    <3>2. \A c \in e[attr] : c \in (SUBSET Atoms) \ {{}}
      BY <3>1
    <3>3. \A c \in e[attr] : c \in SUBSET Atoms /\ c # {}
      BY <3>2
    <3>4. QED BY <3>3
  <2>4. e \in [Attrs -> SUBSET SUBSET Atoms]
    BY <2>2, <2>3
  <2>5. QED BY <2>3, <2>4 DEF e
<1>4. deps = [p \in Pkgs |-> deps[p]]
  BY <1>2
<1>5. QED BY <1>3, <1>4 DEF Worldly

LEMMA FirstSteps ==
    /\ Program[1] = "depend" /\ Program[2] = "bdepend"
    /\ \A k \in {1, 2} : Program[k] \in Attrs /\ Program[k] \in CP!Attrs /\ Program[k] \in CP!Reduced
                         /\ Program[k] # "idepend"
BY DEF Program, Attrs, CP!Attrs, CP!Reduced

\* What a choice point offers of a package, with atoms struck out.
LEMMA NarrowKeeps ==
    ASSUME NEW d \in [Attrs -> SUBSET SUBSET Atoms], NEW fs
    PROVE  /\ CP!Soluble(d, fs) => \A attr \in CP!Reduced : {} \notin CP!Narrow(d, fs)[attr]
           /\ \A k \in {1, 2} : \A c \in d[Program[k]] : c \ fs \in CP!Narrow(d, fs)[Program[k]]
           /\ \A k \in {1, 2} : CP!ResetIters(d)[Program[k]] = d[Program[k]]
<1>1. \A attr \in CP!Reduced : attr \in CP!Attrs /\ CP!Narrow(d, fs)[attr] = CP!Filter(d[attr], fs)
  BY DEF CP!Narrow, CP!Reduced
<1>2. CP!Soluble(d, fs) => \A attr \in CP!Reduced : {} \notin CP!Narrow(d, fs)[attr]
  BY <1>1 DEF CP!Soluble
<1>3. \A k \in {1, 2} : \A c \in d[Program[k]] : c \ fs \in CP!Narrow(d, fs)[Program[k]]
  BY <1>1, FirstSteps DEF CP!Filter
<1>4. \A k \in {1, 2} : CP!ResetIters(d)[Program[k]] = d[Program[k]]
  BY FirstSteps DEF CP!ResetIters, Attrs
<1>5. QED BY <1>2, <1>3, <1>4

\* A choice point that moves offers what its new package needs.
LEMMA MovedSound ==
    ASSUME Worldly, NEW s, NEW ex, NEW f \in FrameSet
    PROVE  /\ Picked(Moved(s, f)) /\ Owned(deps, ex, Moved(s, f))
           /\ Divided(f) => Divided(Moved(s, f))
           /\ Moved(s, f).step = f.step
<1> DEFINE own(p) == CP!ResetIters(deps[p])
           I == {i \in 1 .. Len(f.rest) :
                  Visible(s, f.dbs, f.atom, f.rest[i]) /\ CP!Soluble(own(f.rest[i]), f.filters)}
           k == IF I # {} THEN Seqs!Min(I) ELSE 0
           q == f.rest[k]
           gone == [f EXCEPT !.cur = None, !.own = CP!NoDeps, !.rest = <<>>]
           next == [f EXCEPT !.cur = q, !.own = CP!Narrow(own(q), f.filters),
                             !.rest = SubSeq(@, k + 1, Len(@))]
           g == Moved(s, f)
<1>1. g = IF k = 0 THEN gone ELSE next
  BY DEF Moved, Seqs!SelectInSeq
<1>2. k # 0 => k \in 1 .. Len(f.rest) /\ Visible(s, f.dbs, f.atom, q) /\ CP!Soluble(own(q), f.filters)
  <2> SUFFICES ASSUME I # {} PROVE Seqs!Min(I) \in I
    OBVIOUS
  <2>1. I \subseteq Nat
    OBVIOUS
  <2> HIDE DEF I
  <2>2. QED BY <2>1, LeastOf
<1> HIDE DEF k
<1>3. /\ g.atom = f.atom /\ g.step = f.step /\ g.clauses = f.clauses /\ g.clause = f.clause
      /\ g.nodes = f.nodes
  BY <1>1 DEF FrameSet
<1>4. Divided(f) => Divided(g)
  BY <1>3 DEF Divided
<1>5. CASE k = 0
  <2>1. g.cur = None /\ g.own = CP!NoDeps
    BY <1>1, <1>5 DEF FrameSet
  <2>2. QED BY <1>3, <1>4, <2>1 DEF Picked, Owned, ToBuild, CP!NoDeps, CP!Reduced
<1>6. CASE k # 0
  <2>1. g.cur = q /\ g.own = CP!Narrow(own(q), f.filters)
    BY <1>1, <1>6 DEF FrameSet
  <2>2. q \in Matches[f.atom] /\ q \in Pkgs
    <3>1. f.rest \in Seq(Pkgs)
      BY DEF FrameSet
    <3>2. QED BY <1>2, <1>6, <3>1 DEF Visible
  <2>3. deps[q] \in [Attrs -> SUBSET SUBSET Atoms] /\ own(q) \in [Attrs -> SUBSET SUBSET Atoms]
    BY <2>2, DepsTyped DEF Worldly
  <2>4. \A attr \in CP!Reduced : {} \notin g.own[attr]
    <3> HIDE DEF own
    <3>1. QED BY <1>2, <1>6, <2>1, <2>3, NarrowKeeps
  <2>5. \A j \in {1, 2} : \A c \in Needs(deps, q, j) : c \ f.filters \in g.own[Program[j]]
    <3>1. \A j \in {1, 2} : own(q)[Program[j]] = deps[q][Program[j]]
      BY <2>3, NarrowKeeps
    <3> HIDE DEF own
    <3>2. \A j \in {1, 2} : \A c \in own(q)[Program[j]] : c \ f.filters \in g.own[Program[j]]
      BY <2>1, <2>3, NarrowKeeps
    <3>3. QED BY <3>1, <3>2 DEF Needs
  <2>6. Owned(deps, ex, g)
    BY <2>1, <2>5 DEF Owned
  <2>7. QED BY <1>3, <1>4, <2>1, <2>2, <2>4, <2>6 DEF Picked
<1>7. QED BY <1>5, <1>6

\* So does one that strikes atoms out.
LEMMA ReducedSound ==
    ASSUME Worldly, NEW s, NEW ex, NEW f \in FrameSet, NEW atoms \in SUBSET Atoms, Sound(deps, ex, f)
    PROVE  Sound(deps, ex, Reduced(s, f, atoms))
<1> DEFINE g == [f EXCEPT !.filters = @ \cup atoms]
           d == CP!Narrow(f.own, g.filters)
           n == [g EXCEPT !.own = d]
<1>1. Reduced(s, f, atoms) = IF Changes(f, atoms) THEN Moved(s, g) ELSE n
  BY DEF Reduced, FrameSet
<1>2. /\ g \in FrameSet /\ g.filters = f.filters \cup atoms
      /\ g.cur = f.cur /\ g.step = f.step /\ g.clauses = f.clauses /\ g.nodes = f.nodes
      /\ g.atom = f.atom /\ g.own = f.own /\ g.start = f.start /\ g.clause = f.clause
  BY DEF FrameSet
<1>3. Divided(g)
  BY <1>2 DEF Sound, Divided
<1>4. CASE Changes(f, atoms)
  <2> HIDE DEF g
  <2>1. QED BY <1>1, <1>2, <1>3, <1>4, MovedSound DEF Sound
<1>5. CASE ~Changes(f, atoms)
  <2> DEFINE fs == g.filters
  <2>1. f.own \in [Attrs -> SUBSET SUBSET Atoms] /\ CP!Soluble(f.own, fs)
    BY <1>2, <1>5 DEF FrameSet, Changes
  <2>2. /\ n.cur = f.cur /\ n.step = f.step /\ n.clauses = f.clauses /\ n.nodes = f.nodes
        /\ n.atom = f.atom /\ n.own = d /\ n.start = f.start /\ n.clause = f.clause
    BY DEF FrameSet
  <2> HIDE DEF n, g
  <2>3. \A attr \in CP!Reduced : {} \notin d[attr]
    BY <2>1, NarrowKeeps
  <2>4. \A j \in {1, 2} : \A c \in f.own[Program[j]] : c \ fs \in d[Program[j]]
    BY <2>1, NarrowKeeps
  <2> HIDE DEF d
  <2>5. Picked(n)
    BY <2>2, <2>3 DEF Sound, Picked
  <2>6. Divided(n)
    BY <2>2 DEF Sound, Divided
  <2>7. ToBuild(n) <=> ToBuild(f)
    BY <2>2 DEF ToBuild
  <2>8. Owned(deps, ex, n)
    <3> SUFFICES ASSUME ToBuild(f), NEW j \in {1, 2}, NEW c \in Needs(deps, f.cur, j)
                 PROVE  \/ \E e \in d[Program[j]] : e \subseteq c
                        \/ \E a \in c : Granted(ex, f.cur, a, f.start)
      BY <2>2, <2>7 DEF Owned
    <3>1. CASE \E e \in f.own[Program[j]] : e \subseteq c
      <4>1. PICK e \in f.own[Program[j]] : e \subseteq c
        BY <3>1
      <4>2. e \ fs \in d[Program[j]] /\ e \ fs \subseteq c
        BY <2>4, <4>1
      <4>3. QED BY <4>2
    <3>2. CASE \E a \in c : Granted(ex, f.cur, a, f.start)
      BY <3>2
    <3>3. QED BY <3>1, <3>2 DEF Sound, Owned
  <2>9. QED BY <1>1, <1>5, <2>5, <2>6, <2>8 DEF Sound
<1>6. QED BY <1>4, <1>5

\* A package that is forced on it is excused of all it needs.
LEMMA ForcedSound ==
    ASSUME Worldly, NEW s, NEW ex, NEW f \in FrameSet, Picked(f), Divided(f),
           \A a \in Atoms : Granted(ex, Forced(s, f).cur, a, f.start)
    PROVE  Sound(deps, ex, Forced(s, f))
<1> DEFINE I == {i \in 1 .. Len(f.rest) : Visible(s, f.dbs, f.atom, f.rest[i])}
           k == IF I # {} THEN Seqs!Min(I) ELSE 0
           q == f.rest[k]
           bare == [f EXCEPT !.rest = <<>>]
           next == [f EXCEPT !.cur = q, !.rest = SubSeq(f.rest, k + 1, Len(f.rest))]
           g == Forced(s, f)
<1>1. g = IF k = 0 THEN Moved(s, bare) ELSE next
  BY DEF Forced, Seqs!SelectInSeq, FrameSet
<1>2. k # 0 => k \in 1 .. Len(f.rest) /\ Visible(s, f.dbs, f.atom, q)
  <2> SUFFICES ASSUME I # {} PROVE Seqs!Min(I) \in I
    OBVIOUS
  <2>1. I \subseteq Nat
    OBVIOUS
  <2> HIDE DEF I
  <2>2. QED BY <2>1, LeastOf
<1> HIDE DEF k
<1>3. CASE k = 0
  <2>1. bare \in FrameSet
    <3>1. <<>> \in Seq(Pkgs)
      OBVIOUS
    <3>2. QED BY <3>1 DEF FrameSet
  <2>2. Divided(bare)
    <3>1. bare.step = f.step /\ bare.clauses = f.clauses /\ bare.clause = f.clause /\ bare.nodes = f.nodes
      BY DEF FrameSet
    <3>2. QED BY <3>1 DEF Divided
  <2> HIDE DEF bare
  <2>3. QED BY <1>1, <1>3, <2>1, <2>2, MovedSound DEF Sound
<1>4. CASE k # 0
  <2>1. /\ next.cur = q /\ next.step = f.step /\ next.clauses = f.clauses /\ next.nodes = f.nodes
        /\ next.atom = f.atom /\ next.own = f.own /\ next.start = f.start /\ next.clause = f.clause
    BY DEF FrameSet
  <2>2. q \in Matches[f.atom] /\ q \in Pkgs
    <3>1. f.rest \in Seq(Pkgs)
      BY DEF FrameSet
    <3>2. QED BY <1>2, <1>4, <3>1 DEF Visible
  <2> HIDE DEF next
  <2>3. g = next
    BY <1>1, <1>4
  <2>4. Picked(next) /\ Divided(next)
    BY <2>1, <2>2 DEF Picked, Divided
  <2>5. \A j \in {1, 2} : \A c \in Needs(deps, q, j) : \E a \in c : a \in Atoms
    <3> SUFFICES ASSUME NEW j \in {1, 2}, NEW c \in Needs(deps, q, j) PROVE \E a \in c : a \in Atoms
      OBVIOUS
    <3>1. deps[q] \in [Attrs -> SUBSET SUBSET Atoms] /\ \A attr \in Attrs : {} \notin deps[q][attr]
      BY <2>2 DEF Worldly
    <3>2. c \in deps[q][Program[j]] /\ Program[j] \in Attrs
      BY FirstSteps DEF Needs
    <3>3. c # {} /\ c \in SUBSET Atoms
      BY <3>1, <3>2
    <3>4. QED BY <3>3
  <2>6. Owned(deps, ex, next)
    BY <2>1, <2>3, <2>5 DEF Owned
  <2>7. QED BY <2>3, <2>4, <2>6 DEF Sound
<1>5. QED BY <1>3, <1>4

\* Step by step: the first step that has something to do leaves nothing behind,
LEMMA EnteringAdvanced ==
    ASSUME NEW ex, NEW s, NEW f \in FrameSet, f.cur # None, NEW k \in 1 .. 7, NEW n \in Nat,
           f.start <= n, \A x \in ex : x.at \in Nat, Sound(deps, ex, f), k > 5 => f.cur \in s.slots \cup s.filter,
           ToBuild(f) => \A j \in {1, 2} : j < k => \A c \in Needs(deps, f.cur, j) :
                           \E a \in c : Solved(ex, s, f.cur, a, n)
    PROVE  Sound(deps, ex, Entering(f, k)) /\ Advanced(deps, ex, s, Entering(f, k), n)
<1> DEFINE busy(j) == Program[j] \in CP!Attrs => ~Skips(f, Program[j]) /\ f.own[Program[j]] # {}
           T == {i \in k .. Len(Program) : busy(i)}
           m == Seqs!Min(T)
           left == IF Program[m] \in CP!Attrs THEN f.own[Program[m]] ELSE {}
           g == Entering(f, k)
<1>1. Len(Program) = 7 /\ Program[7] \notin CP!Attrs /\ Program[5] \notin CP!Attrs
  BY DEF Program, CP!Attrs
<1>2. T \subseteq Nat /\ 7 \in T /\ (k <= 5 => 5 \in T) /\ T \subseteq k .. 7
  BY <1>1
<1>3. m \in T /\ \A i \in T : m <= i
  <2> HIDE DEF T
  <2>1. \E x \in T : \A y \in T : x <= y
    BY <1>2, LeastNumber
  <2>2. m = CHOOSE x \in T : \A y \in T : x <= y
    BY DEF Seqs!Min
  <2> HIDE DEF m
  <2>3. QED BY <2>1, <2>2
<1>4. /\ m \in k .. 7 /\ busy(m) /\ (m > 5 => k > 5)
      /\ \A j \in k .. 7 : j < m => ~busy(j)
  <2>1. \A j \in k .. 7 : j < m => j \notin T
    <3> HIDE DEF T, m
    <3>1. QED BY <1>2, <1>3
  <2> HIDE DEF m, busy
  <2>2. QED BY <1>1, <1>2, <1>3, <2>1
<1>5. g = [f EXCEPT !.step = m, !.nodes = <<>>, !.clauses = left]
  BY DEF Entering
<1> HIDE DEF m, T, left
<1>6. /\ g.cur = f.cur /\ g.own = f.own /\ g.atom = f.atom /\ g.start = f.start
      /\ g.step = m /\ g.nodes = <<>> /\ g.clauses = left
  BY <1>5 DEF FrameSet
<1> HIDE DEF g
<1>7. Picked(g)
  BY <1>6 DEF Sound, Picked
<1>8. ToBuild(g) <=> ToBuild(f)
  BY <1>6 DEF ToBuild
<1>9. Owned(deps, ex, g)
  BY <1>6, <1>8 DEF Sound, Owned
<1>10. m < 3 => Program[m] \in CP!Attrs /\ Program[m] \in CP!Reduced /\ left = f.own[Program[m]]
  BY <1>4, FirstSteps DEF left
<1>11. Divided(g)
  <2>1. g.step < 3 => {} \notin g.clauses
    BY <1>6, <1>10 DEF Sound, Picked
  <2>2. QED BY <1>6, <2>1 DEF Divided
<1>12. Advanced(deps, ex, s, g, n)
  <2>1. g.cur # None /\ g.step > 5 => g.cur \in s.slots \cup s.filter
    BY <1>4, <1>6
  <2>2. ASSUME ToBuild(g), NEW j \in {1, 2}, NEW c \in Needs(deps, f.cur, j)
        PROVE  \/ g.step < j
               \/ g.step = j /\ \E d \in Remaining(g) : d \subseteq c
               \/ \E a \in c : Solved(ex, s, f.cur, a, n)
    <3>1. (\E d \in f.own[Program[j]] : d \subseteq c) \/ \E a \in c : Granted(ex, f.cur, a, f.start)
      BY <1>8, <2>2 DEF Sound, Owned
    <3>2. (\E a \in c : Granted(ex, f.cur, a, f.start)) => \E a \in c : Solved(ex, s, f.cur, a, n)
      <4>1. ASSUME NEW a \in c, Granted(ex, f.cur, a, f.start) PROVE Solved(ex, s, f.cur, a, n)
        <5>1. PICK x \in ex : x.pkg = f.cur /\ x.atom = a /\ x.at <= f.start
          BY <4>1 DEF Granted
        <5>2. x.at \in Nat /\ f.start \in Nat
          BY DEF FrameSet
        <5>3. x.at <= n
          BY <5>1, <5>2
        <5>4. QED BY <5>1, <5>3 DEF Granted, Solved
      <4>2. QED BY <4>1
    <3>3. CASE m < j
      BY <1>6, <3>3
    <3>4. CASE m = j
      <4>1. Remaining(g) = f.own[Program[j]]
        BY <1>6, <1>10, <3>4 DEF Remaining
      <4>2. QED BY <1>6, <3>1, <3>2, <3>4, <4>1
    <3>5. CASE j < m /\ j < k
      BY <1>8, <2>2, <3>5
    <3>6. CASE j < m /\ ~(j < k)
      <4>1. j \in k .. 7 /\ ~busy(j)
        BY <1>4, <3>6
      <4>2. ~Skips(f, Program[j])
        BY <1>8, <2>2 DEF Skips, ToBuild
      <4>3. f.own[Program[j]] = {}
        BY <4>1, <4>2
      <4>4. QED BY <3>1, <3>2, <4>3
    <3>7. QED BY <1>4, <3>3, <3>4, <3>5, <3>6
  <2>3. QED BY <1>6, <2>1, <2>2 DEF Advanced
<1>13. QED BY <1>7, <1>9, <1>11, <1>12 DEF Sound, g

\* nor does a clause that is done,
LEMMA ClauseDoneAdvanced ==
    ASSUME NEW ex, NEW s, NEW f \in FrameSet, Working(f), f.nodes # <<>>, NEW n \in Nat,
           f.start <= n, \A x \in ex : x.at \in Nat, Sound(deps, ex, f), Advanced(deps, ex, s, f, n),
           ToBuild(f) /\ f.step < 3 => Solved(ex, s, f.cur, Head(f.nodes), n)
    PROVE  Sound(deps, ex, ClauseDone(f)) /\ Advanced(deps, ex, s, ClauseDone(f), n)
<1>1. f.cur # None /\ Program[f.step] \in Attrs
  BY DEF Working
<1>2. f.step \in 1 .. 7 /\ f.step # 5 /\ f.step # 7
  BY <1>1 DEF FrameSet, Program, Attrs, CP!Attrs
<1>3. Head(f.nodes) \in f.clause
  <2>1. f.nodes \in Seq(Atoms) /\ 1 \in DOMAIN f.nodes /\ Head(f.nodes) = f.nodes[1]
    BY DEF FrameSet
  <2>2. QED BY <2>1 DEF Sound, Divided
<1>4. ASSUME ToBuild(f), NEW j \in {1, 2}, NEW c \in Needs(deps, f.cur, j)
      PROVE  \/ f.step < j
             \/ f.step = j /\ \E d \in f.clauses : d \subseteq c
             \/ \E a \in c : Solved(ex, s, f.cur, a, n)
  <2>1. \/ f.step < j
        \/ f.step = j /\ \E d \in Remaining(f) : d \subseteq c
        \/ \E a \in c : Solved(ex, s, f.cur, a, n)
    BY <1>4 DEF Advanced
  <2>2. f.clause \subseteq c /\ f.step = j => \E a \in c : Solved(ex, s, f.cur, a, n)
    BY <1>3, <1>4
  <2>3. Remaining(f) \subseteq f.clauses \cup {f.clause}
    BY DEF Remaining
  <2>4. QED BY <2>1, <2>2, <2>3
<1>5. CASE f.clauses = {}
  <2>1. ClauseDone(f) = Entering(f, f.step + 1) /\ f.step + 1 \in 1 .. 7
    BY <1>2, <1>5 DEF ClauseDone
  <2>2. f.step + 1 > 5 => f.cur \in s.slots \cup s.filter
    BY <1>1, <1>2 DEF Advanced
  <2>3. ToBuild(f) => \A j \in {1, 2} : j < f.step + 1 => \A c \in Needs(deps, f.cur, j) :
                        \E a \in c : Solved(ex, s, f.cur, a, n)
    BY <1>2, <1>4, <1>5
  <2>4. QED BY <1>1, <2>1, <2>2, <2>3, EnteringAdvanced
<1>6. CASE f.clauses # {}
  <2> DEFINE g == [f EXCEPT !.nodes = <<>>]
  <2>1. ClauseDone(f) = g
    BY <1>6 DEF ClauseDone
  <2>2. /\ g.cur = f.cur /\ g.own = f.own /\ g.atom = f.atom /\ g.start = f.start
        /\ g.step = f.step /\ g.nodes = <<>> /\ g.clauses = f.clauses
    BY DEF FrameSet
  <2> HIDE DEF g
  <2>3. Picked(g) /\ Divided(g) /\ (ToBuild(g) <=> ToBuild(f))
    BY <2>2 DEF Sound, Picked, Divided, ToBuild
  <2>4. Owned(deps, ex, g)
    BY <2>2, <2>3 DEF Sound, Owned
  <2>5. Remaining(g) = f.clauses
    BY <2>2 DEF Remaining
  <2>6. Advanced(deps, ex, s, g, n)
    <3>1. g.cur # None /\ g.step > 5 => g.cur \in s.slots \cup s.filter
      BY <2>2 DEF Advanced
    <3>2. QED BY <1>4, <2>2, <2>3, <2>5, <3>1 DEF Advanced
  <2>7. QED BY <2>1, <2>3, <2>4, <2>6 DEF Sound
<1>7. QED BY <1>5, <1>6

\* and a frame that begins again begins with nothing done.
LEMMA RetriedAdvanced ==
    ASSUME NEW ex, NEW s, NEW f \in FrameSet, NEW n \in Nat, f.start <= n,
           \A x \in ex : x.at \in Nat, Sound(deps, ex, f)
    PROVE  Sound(deps, ex, Retried(f)) /\ Advanced(deps, ex, s, Retried(f), n)
<1>1. CASE f.cur = None
  <2> DEFINE g == [f EXCEPT !.clauses = {}, !.nodes = <<>>]
  <2>1. Retried(f) = g
    BY <1>1 DEF Retried
  <2>2. /\ g.cur = None /\ g.own = f.own /\ g.nodes = <<>> /\ g.clauses = {}
    BY <1>1 DEF FrameSet
  <2> HIDE DEF g
  <2>3. QED BY <1>1, <2>1, <2>2 DEF Sound, Picked, Divided, Owned, ToBuild, Advanced
<1>2. CASE f.cur # None
  <2>1. Retried(f) = Entering(f, 1)
    BY <1>2 DEF Retried
  <2>2. 1 \in 1 .. 7 /\ ~(1 > 5) /\ \A j \in {1, 2} : ~(j < 1)
    OBVIOUS
  <2>3. QED BY <1>2, <2>1, <2>2, EnteringAdvanced
<1>3. QED BY <1>1, <1>2

\* What was solved stays so: the plan has gone on, and of what was taken for granted
\* at the time nothing was given up.
LEMMA StillSolved ==
    ASSUME NEW ex, NEW ey, NEW s, NEW t, NEW n \in Nat, NEW m \in Nat, n <= m, Later(s, t),
           \A x \in ex : x.at \in Nat, {x \in ex : x.at <= n} \subseteq ey, NEW p, NEW a,
           Solved(ex, s, p, a, n), p \notin Livefs
    PROVE  Solved(ey, t, p, a, m)
<1>1. CASE Granted(ex, p, a, n)
  <2>1. PICK x \in ex : x.pkg = p /\ x.atom = a /\ x.at <= n
    BY <1>1 DEF Granted
  <2>2. x \in ey /\ x.at <= m
    BY <2>1
  <2>3. QED BY <2>1, <2>2 DEF Granted, Solved
<1>2. CASE Registered(s, p, a) /\ a \in Blockers
  BY <1>2 DEF Registered, Later, Solved
<1>3. CASE InPlace(s, a) /\ a \notin Blockers
  BY <1>3 DEF InPlace, Later, Solved
<1>4. QED BY <1>1, <1>2, <1>3 DEF Solved

LEMMA StillAdvanced ==
    ASSUME NEW ex, NEW ey, NEW s, NEW t, NEW n \in Nat, NEW m \in Nat, n <= m, Later(s, t),
           \A x \in ex : x.at \in Nat, {x \in ex : x.at <= n} \subseteq ey, NEW f,
           Advanced(deps, ex, s, f, n)
    PROVE  Advanced(deps, ey, t, f, m)
<1>1. f.cur # None /\ f.step > 5 => f.cur \in t.slots \cup t.filter
  BY DEF Advanced, Later
<1>2. ASSUME ToBuild(f), NEW k \in {1, 2}, NEW c \in Needs(deps, f.cur, k)
      PROVE  \/ f.step < k
             \/ f.step = k /\ \E d \in Remaining(f) : d \subseteq c
             \/ \E a \in c : Solved(ey, t, f.cur, a, m)
  <2>1. f.cur \notin Livefs
    BY <1>2, ConstantsAssumption DEF ToBuild
  <2>2. \A a \in c : Solved(ex, s, f.cur, a, n) => Solved(ey, t, f.cur, a, m)
    BY <2>1, StillSolved
  <2>3. QED BY <1>2, <2>2 DEF Advanced
<1>3. QED BY <1>1, <1>2 DEF Advanced

LEMMA StillSound ==
    ASSUME NEW ex, NEW ey, NEW f \in FrameSet, NEW n \in Nat, f.start <= n,
           \A x \in ex : x.at \in Nat, {x \in ex : x.at <= n} \subseteq ey, Sound(deps, ex, f)
    PROVE  Sound(deps, ey, f)
<1>1. \A p, a : Granted(ex, p, a, f.start) => Granted(ey, p, a, f.start)
  <2>1. f.start \in Nat
    BY DEF FrameSet
  <2>2. QED BY <2>1 DEF Granted
<1>2. Owned(deps, ey, f)
  BY <1>1 DEF Sound, Owned
<1>3. QED BY <1>2 DEF Sound

-----------------------------------------------------------------------------
(***************************************************************************)
(* The frames and what they wait for.  A frame that called was as far as   *)
(* Advanced says in the state that the called frame's log began with       *)
(* (Link); the log still leads there, so when the call returns it is as    *)
(* far in the state that was found (StillAdvanced).                        *)
(***************************************************************************)
Waiting(D, ex, s, f, why, n) ==
    /\ why \in {"node", "weak"} => Advanced(D, ex, s, f, n)
    /\ why = "node" => Head(f.nodes) \notin Blockers
    /\ why = "weak" => /\ Head(f.nodes) \in Blockers
                       /\ ToBuild(f) => Registered(s, f.cur, Head(f.nodes))
    /\ why \in {"vdb", "saving"} => f.ignored

AskedFor(why, a, f) ==
    /\ why = "node" => a = Head(f.nodes)
    /\ why \in {"vdb", "saving"} => a = f.atom

Link(D, ex, S, i, w) ==
    /\ Sound(D, ex, S[i])
    /\ i > 1 => \E s : /\ Reaches(S[i].start, s, w)
                       /\ Waiting(D, ex, s, S[i - 1], S[i].why, S[i].start)
                       /\ AskedFor(S[i].why, S[i].atom, S[i - 1])

Linked(D, ex, S, w) == \A i \in DOMAIN S : Link(D, ex, S, i, w)
Trusted(ex) == \A x \in ex : x.at \in Nat /\ x.what \in {"first", "met"}

\* Found, or taken for granted for o.
Obtained(o, s, ex, a, n) == InPlace(s, a) \/ (o # None /\ Granted(ex, o, a, n))

Chain == Linked(deps, excused, stack, Now) /\ Trusted(excused)

\* Where the work stands: in the frame on top, in a call, in its answer.
Turn ==
    /\ ctl.at = "work" => Advanced(deps, excused, st, Top, Len(plan))
    /\ ctl.at \in {"call", "return"} /\ stack # <<>> =>
         Waiting(deps, excused, st, Top, ctl.why, Len(plan))
    /\ ctl.at = "call" =>
         IF stack = <<>> THEN asked > 0 /\ ctl.atom = opts.requests[asked]
                         ELSE AskedFor(ctl.why, ctl.atom, Top)
    /\ ctl.at = "return" /\ ctl.ok /\ ctl.why = "node" =>
         Solved(excused, st, Top.cur, Head(Top.nodes), Len(plan))
    /\ ctl.at = "return" /\ ctl.ok /\ ctl.why \in {"vdb", "saving"} =>
         Obtained(Owner, st, excused, Top.atom, Len(plan))

\* The requests so far.
Progress ==
    /\ stack # <<>> => asked > 0 /\ stack[1].atom = opts.requests[asked]
    /\ \A i \in 1 .. asked - 1 : InPlace(base, opts.requests[i])
    /\ ctl.at = "start" => asked = 0
    /\ ctl.at \in {"next", "resolved"} \/ (ctl.at = "return" /\ ctl.ok /\ ctl.why = "request") =>
         \A i \in 1 .. asked : InPlace(st, opts.requests[i])
    /\ ctl.at = "resolved" => asked = Len(opts.requests)

JInv == Chain /\ Turn /\ Progress

\* The states that the first n operations of v went through are those of w; the
\* excuses since then are all that is given up.
Holding(n, v, w) == \A k \in 0 .. n : \A s : Reaches(k, s, v) => Reaches(k, s, w)
Keeping(n, ex, ey) == Trusted(ey) /\ {x \in ex : x.at <= n} \subseteq ey

LEMMA StillWaiting ==
    ASSUME NEW ex, NEW ey, NEW s, NEW t, NEW n \in Nat, NEW m \in Nat, n <= m, Later(s, t),
           Trusted(ex), Keeping(n, ex, ey), NEW f, NEW why, Waiting(deps, ex, s, f, why, n)
    PROVE  Waiting(deps, ey, t, f, why, m)
<1>1. why \in {"node", "weak"} => Advanced(deps, ey, t, f, m)
  BY StillAdvanced DEF Waiting, Trusted, Keeping
<1>2. ToBuild(f) => f.cur \notin Livefs
  BY ConstantsAssumption DEF ToBuild
<1>3. ToBuild(f) /\ Registered(s, f.cur, Head(f.nodes)) => Registered(t, f.cur, Head(f.nodes))
  BY <1>2 DEF Registered, Later
<1>4. QED BY <1>1, <1>3 DEF Waiting

LEMMA LinkStays ==
    ASSUME NEW S \in Seq(FrameSet), NEW i \in DOMAIN S, NEW ex, NEW ey, NEW v, NEW w, NEW n \in Nat,
           Link(deps, ex, S, i, v), S[i].start <= n, Trusted(ex), Keeping(n, ex, ey),
           Holding(n, v, w)
    PROVE  Link(deps, ey, S, i, w)
<1>1. S[i] \in FrameSet /\ S[i].start \in Nat /\ S[i].start \in 0 .. n
  <2>1. S[i] \in FrameSet
    OBVIOUS
  <2>2. S[i].start \in Nat
    BY <2>1 DEF FrameSet
  <2>3. QED BY <2>1, <2>2
<1>2. Sound(deps, ey, S[i])
  BY <1>1, StillSound DEF Link, Trusted, Keeping
<1>3. ASSUME i > 1
      PROVE  \E s : /\ Reaches(S[i].start, s, w)
                    /\ Waiting(deps, ey, s, S[i - 1], S[i].why, S[i].start)
                    /\ AskedFor(S[i].why, S[i].atom, S[i - 1])
  <2>1. PICK s : /\ Reaches(S[i].start, s, v)
                 /\ Waiting(deps, ex, s, S[i - 1], S[i].why, S[i].start)
                 /\ AskedFor(S[i].why, S[i].atom, S[i - 1])
    BY <1>3 DEF Link
  <2>2. Reaches(S[i].start, s, w)
    BY <1>1, <2>1 DEF Holding
  <2>3. Later(s, s) /\ Keeping(S[i].start, ex, ey)
    <3>1. \A x \in ex : x.at <= S[i].start => x.at <= n
      BY <1>1 DEF Trusted
    <3>2. QED BY <3>1 DEF Later, Keeping
  <2>4. Waiting(deps, ey, s, S[i - 1], S[i].why, S[i].start)
    BY <1>1, <2>1, <2>3, StillWaiting
  <2>5. QED BY <2>1, <2>2, <2>4
<1>4. QED BY <1>2, <1>3 DEF Link

\* The frame on top is worked on.
LEMMA ChainWorked ==
    ASSUME Frames, Chain, stack # <<>>, NEW f \in FrameSet, Kept(Top, f), NEW ey, NEW w,
           Keeping(Top.start, excused, ey), Holding(Top.start, Now, w), Sound(deps, ey, f)
    PROVE  /\ Linked(deps, ey, WithTop(f), w)
           /\ WithTop(f) # <<>> /\ WithTop(f)[1].atom = stack[1].atom
<1> DEFINE L == Len(stack)
           S == WithTop(f)
<1>1. /\ L \in Nat \ {0} /\ DOMAIN stack = 1 .. L /\ stack \in Seq(FrameSet)
      /\ Top = stack[L] /\ Top.start \in Nat
      /\ \A i \in 1 .. L : stack[i].start <= Top.start
  BY TopTyped DEF Frames, Top
<1>2. DOMAIN S = 1 .. L /\ S[L] = f /\ \A i \in 1 .. L - 1 : S[i] = stack[i]
  <2>1. stack \in [1 .. L -> FrameSet] /\ L \in 1 .. L /\ S = [stack EXCEPT ![L] = f]
    BY <1>1, LenProperties DEF WithTop
  <2> HIDE DEF L, S
  <2>2. DOMAIN S = 1 .. L /\ S[L] = f /\ \A i \in 1 .. L : i # L => S[i] = stack[i]
    BY <2>1
  <2>3. \A i \in 1 .. L - 1 : i \in 1 .. L /\ i # L
    BY <1>1
  <2>4. QED BY <2>2, <2>3
<1>3. S # <<>> /\ S[1].atom = stack[1].atom
  <2> HIDE DEF S
  <2>1. 1 \in 1 .. L /\ (L = 1 \/ 1 \in 1 .. L - 1)
    BY <1>1
  <2>2. QED BY <1>1, <1>2, <2>1 DEF Kept
<1>4. \A i \in 1 .. L : Link(deps, ey, stack, i, w)
  BY <1>1, LinkStays DEF Chain, Linked
<1>5. ASSUME NEW i \in 1 .. L PROVE Link(deps, ey, S, i, w)
  <2>1. S[i].start = stack[i].start /\ S[i].why = stack[i].why /\ S[i].atom = stack[i].atom
    BY <1>1, <1>2 DEF Kept
  <2>2. i > 1 => S[i - 1] = stack[i - 1]
    BY <1>1, <1>2
  <2>3. Sound(deps, ey, S[i])
    BY <1>1, <1>2, <1>4 DEF Link
  <2> HIDE DEF S
  <2>4. QED BY <1>4, <2>1, <2>2, <2>3 DEF Link
<1>6. QED BY <1>2, <1>3, <1>5 DEF Linked

\* The frame on top is left: the one below goes on.
LEMMA ChainLeft ==
    ASSUME Frames, Chain, stack # <<>>, NEW ey, NEW w,
           Keeping(Top.start, excused, ey), Holding(Top.start, Now, w)
    PROVE  /\ Linked(deps, ey, Seqs!Front(stack), w)
           /\ Len(stack) > 1 =>
                /\ Waiting(deps, ey, w.st, stack[Len(stack) - 1], Top.why, Len(w.plan))
                /\ AskedFor(Top.why, Top.atom, stack[Len(stack) - 1])
<1> DEFINE L == Len(stack)
           S == Seqs!Front(stack)
<1>1. /\ L \in Nat \ {0} /\ DOMAIN stack = 1 .. L /\ stack \in Seq(FrameSet)
      /\ Top = stack[L] /\ Top.start \in Nat
      /\ \A i \in 1 .. L : stack[i].start <= Top.start
  BY TopTyped DEF Frames, Top
<1>2. DOMAIN S = 1 .. L - 1 /\ \A i \in 1 .. L - 1 : S[i] = stack[i]
  <2>1. S = SubSeq(stack, 1, L - 1)
    BY DEF Seqs!Front
  <2>2. QED BY <1>1, <2>1, SubSeqProperties, LenProperties
<1>3. \A i \in 1 .. L : Link(deps, ey, stack, i, w)
  BY <1>1, LinkStays DEF Chain, Linked
<1>4. Linked(deps, ey, S, w)
  <2> HIDE DEF S
  <2>1. ASSUME NEW i \in 1 .. L - 1 PROVE Link(deps, ey, S, i, w)
    <3>1. i \in 1 .. L /\ (i > 1 => i - 1 \in 1 .. L - 1)
      BY <1>1
    <3>2. S[i] = stack[i] /\ (i > 1 => S[i - 1] = stack[i - 1])
      BY <1>2, <3>1
    <3>3. Link(deps, ey, stack, i, w)
      BY <1>3, <3>1
    <3>4. QED BY <3>2, <3>3 DEF Link
  <2>2. QED BY <1>2, <2>1 DEF Linked
<1>5. ASSUME L > 1
      PROVE  /\ Waiting(deps, ey, w.st, stack[L - 1], Top.why, Len(w.plan))
             /\ AskedFor(Top.why, Top.atom, stack[L - 1])
  <2>1. PICK s : /\ Reaches(Top.start, s, w)
                 /\ Waiting(deps, ey, s, stack[L - 1], Top.why, Top.start)
                 /\ AskedFor(Top.why, Top.atom, stack[L - 1])
    BY <1>1, <1>3, <1>5 DEF Link
  <2>2. Later(s, w.st) /\ Len(w.plan) \in Nat /\ Top.start <= Len(w.plan)
    <3>1. Later(s, w.st)
      BY <2>1, ReachedLater
    <3>2. Len(w.plan) \in Nat /\ Top.start \in 0 .. Len(w.plan)
      BY <2>1, Reached
    <3>3. QED BY <3>1, <3>2
  <2>3. Trusted(ey) /\ Keeping(Top.start, ey, ey)
    BY DEF Keeping
  <2>4. QED BY <1>1, <2>1, <2>2, <2>3, StillWaiting
<1>6. QED BY <1>4, <1>5

\* A frame is put on top.
LEMMA ChainPushed ==
    ASSUME Frames, Chain, Logs, NEW f \in FrameSet, f.start = Len(plan), Sound(deps, excused, f),
           stack # <<>> => /\ Waiting(deps, excused, st, Top, f.why, Len(plan))
                           /\ AskedFor(f.why, f.atom, Top)
    PROVE  Linked(deps, excused, Append(stack, f), Now)
<1> DEFINE L == Len(stack)
           S == Append(stack, f)
<1>1. L \in Nat /\ DOMAIN stack = 1 .. L /\ stack \in Seq(FrameSet)
  BY DEF Frames
<1>2. /\ DOMAIN S = 1 .. L + 1 /\ S[L + 1] = f
      /\ \A i \in 1 .. L : S[i] = stack[i]
  BY <1>1
<1>3. \A i \in 1 .. L : Link(deps, excused, stack, i, Now)
  BY <1>1 DEF Chain, Linked
<1>4. Reaches(Len(plan), st, Now)
  <2>1. Reaches(0, PS!Empty, Now) /\ Now.st = st /\ Now.plan = plan
    BY NowReached
  <2>2. QED BY <2>1, Reached
<1> HIDE DEF S
<1>5. ASSUME NEW i \in 1 .. L PROVE Link(deps, excused, S, i, Now)
  <2>1. i > 1 => i - 1 \in 1 .. L
    OBVIOUS
  <2>2. S[i] = stack[i] /\ (i > 1 => S[i - 1] = stack[i - 1])
    BY <1>2, <2>1
  <2>3. QED BY <1>3, <2>2 DEF Link
<1>6. Link(deps, excused, S, L + 1, Now)
  <2>1. CASE L = 0
    BY <1>2, <2>1 DEF Link
  <2>2. CASE L > 0
    <3>1. stack # <<>> /\ (L + 1) - 1 = L /\ S[L] = Top
      BY <1>1, <1>2, <2>2 DEF Top
    <3>2. QED BY <1>2, <1>4, <3>1 DEF Link
  <2>3. QED BY <1>1, <2>1, <2>2
<1>7. QED BY <1>1, <1>2, <1>5, <1>6 DEF Linked, S

\* For whom the frame on top was made, before and after it is left.
LEMMA GreatestIs ==
    ASSUME NEW T, T \subseteq Nat, NEW m \in T, \A i \in T : i <= m
    PROVE  Seqs!Max(T) = m
<1>1. \A x \in T : (\A y \in T : x >= y) => x = m
  OBVIOUS
<1>2. \E x \in T : \A y \in T : x >= y
  <2>1. \A y \in T : m >= y
    OBVIOUS
  <2>2. QED BY <2>1
<1>3. QED BY <1>1, <1>2 DEF Seqs!Max

LEMMA OwnerLeft ==
    ASSUME Frames, stack # <<>>
    PROVE  /\ Len(stack) = 1 => Owner = None
           /\ Len(stack) > 1 => /\ Top.why \in {"node", "weak", "vdb", "saving"}
                                /\ Top.why \in {"node", "weak"} => Owner = stack[Len(stack) - 1].cur
           /\ Top.why \in {"vdb", "saving"} /\ stack' = Seqs!Front(stack) => Owner' = Owner
<1> DEFINE L == Len(stack)
<1>1. /\ L \in Nat \ {0} /\ DOMAIN stack = 1 .. L /\ Top = stack[L] /\ Top \in FrameSet
      /\ Top.why = "request" <=> L = 1
      /\ Owners = {i \in 2 .. L : stack[i].why \in {"node", "weak"}}
  BY TopTyped DEF Top, Owners
<1>2. L = 1 => Owner = None
  BY <1>1 DEF Owner
<1>3. L > 1 => Top.why \in {"node", "weak", "vdb", "saving"}
  BY <1>1 DEF FrameSet, Whys
<1>4. ASSUME L > 1, Top.why \in {"node", "weak"} PROVE Owner = stack[L - 1].cur
  <2>1. L \in Owners /\ Owners \subseteq Nat /\ \A i \in Owners : i <= L
    BY <1>1, <1>4
  <2>2. Seqs!Max(Owners) = L
    BY <2>1, GreatestIs
  <2>3. QED BY <2>1, <2>2 DEF Owner
<1>5. ASSUME Top.why \in {"vdb", "saving"}, stack' = Seqs!Front(stack) PROVE Owner' = Owner
  <2>1. Len(stack') = L - 1 /\ \A i \in 1 .. L - 1 : stack'[i] = stack[i]
    BY <1>1, <1>5 DEF Seqs!Front
  <2>2. Owners' = {i \in 2 .. L - 1 : stack'[i].why \in {"node", "weak"}}
    BY <2>1 DEF Owners
  <2>3. \A i : i \in 2 .. L - 1 => stack'[i] = stack[i]
    BY <1>1, <2>1
  <2>4. Owners' = Owners
    <3>1. L \notin Owners
      BY <1>1, <1>5
    <3>2. \A i : i \in 2 .. L <=> (i \in 2 .. L - 1 \/ (i = L /\ L > 1))
      BY <1>1
    <3>3. QED BY <1>1, <2>2, <2>3, <3>1, <3>2
  <2>5. Owners # {} => Seqs!Max(Owners) \in Owners
    <3>1. Owners \subseteq 0 .. L
      BY <1>1
    <3>2. QED BY <1>1, <3>1, GreatestOf
  <2>6. Owners # {} => stack'[Seqs!Max(Owners) - 1] = stack[Seqs!Max(Owners) - 1]
    <3>1. Owners # {} => Seqs!Max(Owners) \in 2 .. L - 1
      BY <2>2, <2>4, <2>5
    <3> DEFINE m == Seqs!Max(Owners)
    <3> HIDE DEF m
    <3>2. Owners # {} => m - 1 \in 1 .. L - 1
      BY <1>1, <3>1 DEF m
    <3>3. QED BY <2>1, <3>2 DEF m
  <2>7. Owner' = IF Owners' = {} THEN None ELSE stack'[Seqs!Max(Owners') - 1].cur
    BY DEF Owner
  <2>8. QED BY <2>4, <2>6, <2>7 DEF Owner
<1>6. QED BY <1>2, <1>3, <1>4, <1>5

\* A state of the log was reached at each length.
LEMMA SomethingReached ==
    ASSUME NEW n, NEW b, NEW v, Reaches(n, b, v), NEW k \in 0 .. Len(v.plan)
    PROVE  \E s : Reaches(k, s, v)
<1>1. PICK h : Trace(v, h)
  BY DEF Reaches
<1>2. Reaches(k, h[k], v)
  BY <1>1 DEF Reaches
<1>3. QED BY <1>2

\* The state and log that a step leaves.
LEMMA NowBecomes ==
    ASSUME Frames, Logs, stack # <<>>, NEW w, Commit(w), Holding(Top.start, Now, w)
    PROVE  /\ Now' = w /\ st' = w.st /\ plan' = w.plan
           /\ Len(plan') \in Nat /\ Top.start <= Len(plan') /\ Top.start \in Nat
           /\ stack[1].start \in 0 .. Top.start
           /\ Reaches(stack[1].start, base, w)
<1>1. /\ Top.start \in Nat /\ Top.start <= Len(plan)
      /\ stack[1].start \in Nat /\ stack[1].start <= Top.start
  BY TopTyped
<1>2. Now.plan = plan /\ Len(plan) \in Nat /\ Reaches(0, PS!Empty, Now)
  BY NowReached
<1>3. PICK s : Reaches(Top.start, s, Now)
  <2>1. Top.start \in 0 .. Len(Now.plan)
    BY <1>1, <1>2
  <2>2. QED BY <1>2, <2>1, SomethingReached
<1>4. Reaches(Top.start, s, w)
  BY <1>1, <1>3 DEF Holding
<1>5. Len(w.plan) \in Nat /\ Top.start \in 0 .. Len(w.plan)
  BY <1>4, Reached
<1>6. w = [st |-> w.st, plan |-> w.plan]
  BY <1>4 DEF Reaches
<1>7. st' = w.st /\ plan' = w.plan
  BY DEF Commit
<1>8. Now' = w
  BY <1>6, <1>7 DEF Now
<1>9. Reaches(stack[1].start, base, w)
  BY <1>1 DEF Logs, Holding
<1>10. QED BY <1>1, <1>5, <1>7, <1>8, <1>9

\* A call returns to the frame that made it.
LEMMA LeftHolds ==
    ASSUME IInv, JInv, stack # <<>>, NEW ok \in BOOLEAN, Leave(ok),
           UNCHANGED <<world, asked, base>>, NEW w, Commit(w),
           Keeping(Top.start, excused, excused'), Holding(Top.start, Now, w),
           ok => Obtained(Owner, st', excused', Top.atom, Len(plan'))
    PROVE  JInv'
<1> DEFINE L == Len(stack)
<1>1. Frames /\ Logs /\ Chain /\ Progress
  BY DEF IInv, JInv
<1>2. /\ Now' = w /\ st' = w.st /\ plan' = w.plan
      /\ Len(plan') \in Nat /\ Top.start <= Len(plan')
      /\ stack[1].start \in 0 .. Top.start /\ Reaches(stack[1].start, base, w)
  BY <1>1, NowBecomes
<1>3. stack' = Seqs!Front(stack) /\ ctl' = Returning(ok, Top.why) /\ deps' = deps /\ opts' = opts
      /\ asked' = asked /\ base' = base
  BY DEF Leave, world
<1>4. /\ ctl'.at = "return" /\ ctl'.ok = ok /\ ctl'.why = Top.why
  BY <1>3 DEF Returning
<1>5. /\ L \in Nat \ {0} /\ DOMAIN stack = 1 .. L /\ stack \in Seq(FrameSet)
      /\ Top = stack[L] /\ (Top.why = "request" <=> L = 1)
  BY <1>1, TopTyped DEF Frames, Top
<1>6. /\ Len(stack') = L - 1 /\ \A i \in 1 .. L - 1 : stack'[i] = stack[i]
      /\ stack' = <<>> <=> L = 1
  <2>1. stack' = SubSeq(stack, 1, L - 1)
    BY <1>3 DEF Seqs!Front
  <2>2. /\ stack' \in Seq(FrameSet) /\ Len(stack') = L - 1
        /\ \A i \in 1 .. L - 1 : stack'[i] = stack[i]
    BY <1>5, <2>1, SubSeqProperties, LenProperties
  <2>3. stack' = <<>> <=> L - 1 = 0
    BY <2>2, EmptySeq
  <2>4. QED BY <1>5, <2>2, <2>3
<1>7. L > 1 => Top' = stack[L - 1] /\ stack'[1] = stack[1]
  BY <1>5, <1>6 DEF Top
<1>8. /\ Linked(deps, excused', stack', w)
      /\ L > 1 => /\ Waiting(deps, excused', st', Top', Top.why, Len(plan'))
                  /\ AskedFor(Top.why, Top.atom, Top')
  <2>1. /\ Linked(deps, excused', Seqs!Front(stack), w)
        /\ L > 1 => /\ Waiting(deps, excused', w.st, stack[L - 1], Top.why, Len(w.plan))
                    /\ AskedFor(Top.why, Top.atom, stack[L - 1])
    BY <1>1, ChainLeft
  <2>2. QED BY <1>2, <1>3, <1>7, <2>1
<1>9. Chain'
  BY <1>2, <1>3, <1>8 DEF Chain, Keeping
<1>10. /\ L = 1 => Owner = None
       /\ L > 1 => /\ Top.why \in {"node", "weak", "vdb", "saving"}
                   /\ Top.why \in {"node", "weak"} => Owner = Top'.cur
       /\ Top.why \in {"vdb", "saving"} => Owner' = Owner
  BY <1>1, <1>3, <1>7, OwnerLeft
<1>11. Turn'
  <2>1. stack' # <<>> => Waiting(deps', excused', st', Top', ctl'.why, Len(plan'))
    BY <1>3, <1>4, <1>5, <1>6, <1>8
  <2>2. ASSUME ok, Top.why = "node" PROVE Solved(excused', st', Top'.cur, Head(Top'.nodes), Len(plan'))
    <3>1. L > 1 /\ Top.atom = Head(Top'.nodes) /\ Head(Top'.nodes) \notin Blockers
      BY <1>5, <1>8, <2>2 DEF Waiting, AskedFor
    <3>2. QED BY <1>10, <2>2, <3>1 DEF Obtained, Solved
  <2>3. ASSUME ok, Top.why \in {"vdb", "saving"} PROVE Obtained(Owner', st', excused', Top'.atom, Len(plan'))
    <3>1. L > 1 /\ Top.atom = Top'.atom
      BY <1>5, <1>8, <2>3 DEF AskedFor
    <3>2. QED BY <1>10, <2>3, <3>1
  <2>4. QED BY <1>4, <2>1, <2>2, <2>3 DEF Turn
<1>12. Progress'
  <2>1. stack' # <<>> => asked' > 0 /\ stack'[1].atom = opts'.requests[asked']
    BY <1>1, <1>3, <1>5, <1>6, <1>7 DEF Progress
  <2>2. \A i \in 1 .. asked' - 1 : InPlace(base', opts'.requests[i])
    BY <1>1, <1>3 DEF Progress
  <2>3. ASSUME ok, Top.why = "request", NEW i \in 1 .. asked' PROVE InPlace(st', opts'.requests[i])
    <3>1. L = 1 /\ Top = stack[1] /\ asked > 0 /\ Top.atom = opts.requests[asked]
      BY <1>1, <1>5, <2>3 DEF Progress
    <3>2. InPlace(st', opts.requests[asked])
      BY <1>10, <2>3, <3>1 DEF Obtained
    <3>3. i # asked => i \in 1 .. asked - 1
      <4>1. asked \in Nat
        <5>1. opts.requests \in Seq(Atoms) /\ asked \in 0 .. Len(opts.requests)
          BY WorldTyped DEF IInv, Typed
        <5>2. QED BY <5>1, LenProperties
      <4>2. QED BY <1>3, <2>3, <4>1
    <3>4. Later(base, st')
      BY <1>2, ReachedLater
    <3>5. i # asked => InPlace(st', opts.requests[i])
      BY <1>1, <3>3, <3>4 DEF Progress, InPlace, Later
    <3>6. QED BY <1>3, <3>2, <3>5
  <2>4. QED BY <1>4, <2>1, <2>2, <2>3 DEF Progress
<1>13. QED BY <1>9, <1>11, <1>12 DEF JInv

\* The frame on top is worked on, or waits for a call it makes.
LEMMA TopHolds ==
    ASSUME IInv, JInv, stack # <<>>, NEW f \in FrameSet, Kept(Top, f), Working(f),
           stack' = WithTop(f),
           UNCHANGED <<world, asked, base>>, NEW w, Commit(w),
           Keeping(Top.start, excused, excused'), Holding(Top.start, Now, w),
           Sound(deps, excused', f), ctl'.at \in {"work", "call", "cycles"},
           ctl'.at = "work" => Advanced(deps, excused', st', f, Len(plan')),
           ctl'.at = "call" => /\ Waiting(deps, excused', st', f, ctl'.why, Len(plan'))
                               /\ AskedFor(ctl'.why, ctl'.atom, f)
    PROVE  JInv'
<1>1. Frames /\ Logs /\ Chain /\ Progress
  BY DEF IInv, JInv
<1>2. Now' = w /\ st' = w.st /\ plan' = w.plan /\ Len(plan') \in Nat /\ Top.start <= Len(plan')
  BY <1>1, NowBecomes
<1>3. /\ Linked(deps, excused', stack', w)
      /\ stack' # <<>> /\ stack'[1].atom = stack[1].atom
  BY <1>1, ChainWorked
<1>4. Top' = f
  BY <1>1, <1>2, TopChanged
<1>5. deps' = deps /\ opts' = opts /\ asked' = asked /\ base' = base
  BY DEF world
<1>6. Chain'
  BY <1>2, <1>3, <1>5 DEF Chain, Keeping
<1>7. Turn'
  BY <1>3, <1>4, <1>5 DEF Turn
<1>8. Progress'
  BY <1>1, <1>3, <1>5 DEF Progress
<1>9. QED BY <1>6, <1>7, <1>8 DEF JInv

\* What was reached is kept when nothing is done, when the installed packages are
\* loaded, when more is logged, and when the log goes back to where the frame began.
LEMMA HoldingNow == \A n \in Nat : Holding(n, Now, Now)
BY DEF Holding

LEMMA HoldingLoaded ==
    ASSUME made \in Nat, InBounds, NEW ps, NEW n \in Nat
    PROVE  Holding(n, Now, Loaded(ps))
<1>1. ASSUME NEW k \in 0 .. n, NEW s, Reaches(k, s, Now) PROVE Reaches(k, s, Loaded(ps))
  BY <1>1, LoadedAll
<1>2. QED BY <1>1 DEF Holding

LEMMA HoldingLogged ==
    ASSUME NEW v, NEW w, NEW n \in Nat, Holding(n, v, w), NEW o, Applicable(w.st, o, Len(w.plan))
    PROVE  Holding(n, v, Logged(w, o))
<1>1. ASSUME NEW k \in 0 .. n, NEW s, Reaches(k, s, v) PROVE Reaches(k, s, Logged(w, o))
  <2>1. Reaches(k, s, w)
    BY <1>1 DEF Holding
  <2>2. QED BY <2>1, Grows
<1>2. QED BY <1>1 DEF Holding

LEMMA HoldingReplaced ==
    ASSUME NEW v, NEW w, NEW n \in Nat, Holding(n, v, w), NEW old \in Livefs,
           Here \in ChoicePoints, Here.pkg \notin Livefs, PS!Occupants(w.st, Here.pkg) = {old}
    PROVE  Holding(n, v, Replaced(w, old))
<1>1. ASSUME NEW k \in 0 .. n, NEW s, Reaches(k, s, v) PROVE Reaches(k, s, Replaced(w, old))
  <2>1. Reaches(k, s, w)
    BY <1>1 DEF Holding
  <2>2. QED BY <2>1, ReplacedAll
<1>2. QED BY <1>1 DEF Holding

LEMMA HoldingBack ==
    ASSUME NEW v, NEW w, NEW n \in Nat, Holding(n, v, w), n <= Len(w.plan), Len(w.plan) \in Nat
    PROVE  Holding(n, v, Backtracked(w, n))
<1>1. ASSUME NEW k \in 0 .. n, NEW s, Reaches(k, s, v) PROVE Reaches(k, s, Backtracked(w, n))
  <2>1. Reaches(k, s, w)
    BY <1>1 DEF Holding
  <2>2. n \in k .. Len(w.plan)
    OBVIOUS
  <2>3. QED BY <2>1, <2>2, GoesBack
<1>2. QED BY <1>1 DEF Holding

\* Excuses are kept when nothing is done to them, when one is added, and when those
\* since the frame began are given up.
LEMMA KeepingExcuses ==
    ASSUME Trusted(excused), NEW n
    PROVE  /\ Keeping(n, excused, excused)
           /\ \A p, a : \A what \in {"first", "met"}, k \in Nat :
                Keeping(n, excused, excused \cup {Excuse(p, a, what, k)})
           /\ Keeping(n, excused, {x \in excused : x.at <= n})
<1>1. \A p, a : \A what \in {"first", "met"}, k \in Nat :
        Excuse(p, a, what, k).at \in Nat /\ Excuse(p, a, what, k).what \in {"first", "met"}
  BY DEF Excuse
<1>2. QED BY <1>1 DEF Keeping, Trusted

\* What the proofs of the actions use of the frame on top.
LEMMA TopKnown ==
    ASSUME IInv, JInv, stack # <<>>
    PROVE  /\ Top \in FrameSet /\ Working(Top) /\ Kept(Top, Top)
           /\ Top.start \in Nat /\ Len(plan) \in Nat /\ Top.start <= Len(plan)
           /\ Now.st = st /\ Now.plan = plan
           /\ Sound(deps, excused, Top)
           /\ Trusted(excused) /\ \A x \in excused : x.at \in Nat
           /\ WithTop(Top) = stack
           /\ Worldly
<1>1. Frames /\ Chain /\ Typed
  BY DEF IInv, JInv
<1>2. /\ Top \in FrameSet /\ Working(Top) /\ Top.start \in Nat /\ Top.start <= Len(plan)
      /\ Len(stack) \in DOMAIN stack /\ stack \in Seq(FrameSet)
  BY <1>1, TopTyped DEF Frames
<1>3. Len(plan) \in Nat /\ Now.st = st /\ Now.plan = plan
  BY NowReached DEF IInv
<1>4. Sound(deps, excused, Top)
  BY <1>1, <1>2 DEF Chain, Linked, Link, Top
<1>5. WithTop(Top) = stack
  BY <1>2 DEF WithTop, Top
<1>6. QED BY <1>1, <1>2, <1>3, <1>4, <1>5, WorldWorldly DEF Kept, Chain, Trusted

\* The node failed, with the log that w holds.
LEMMA FailHolds ==
    ASSUME IInv, JInv, stack # <<>>, Top.nodes # <<>>, NEW w, Holding(Top.start, Now, w),
           Top.start <= Len(w.plan), Len(w.plan) \in Nat,
           NodeFails(w), UNCHANGED <<world, asked, base>>,
           Advanced(deps, excused, w.st, Top, Len(w.plan))
    PROVE  JInv'
<1> DEFINE node == Head(Top.nodes)
           f == Reduced(w.st, Top, {node})
           g == Reduced(w.st, f, Top.clause)
<1>1. /\ Top \in FrameSet /\ Working(Top) /\ Top.start \in Nat
      /\ Sound(deps, excused, Top) /\ Trusted(excused) /\ Worldly
  BY TopKnown
<1>2. Top.nodes \in Seq(Atoms) /\ Top.clause \in SUBSET Atoms
  BY <1>1 DEF FrameSet
<1>3. {node} \in SUBSET Atoms /\ Tail(Top.nodes) \in Seq(Atoms)
  BY <1>2, HeadTailProperties
<1>4. deps \in [Pkgs -> [Attrs -> SUBSET SUBSET Atoms]]
  BY <1>1 DEF Worldly
<1> HIDE DEF node
<1>5. /\ f \in FrameSet /\ Kept(Top, f) /\ Sound(deps, excused, f)
      /\ ~Changes(Top, {node}) =>
           /\ f.cur = Top.cur /\ f.step = Top.step /\ f.clauses = Top.clauses
           /\ f.nodes = Top.nodes /\ f.clause = Top.clause
  <2>1. /\ f \in FrameSet /\ Kept(Top, f)
        /\ ~Changes(Top, {node}) =>
             f.cur = Top.cur /\ f.step = Top.step /\ f.clauses = Top.clauses /\ f.nodes = Top.nodes
    BY <1>1, <1>3, <1>4, ReducedTyped
  <2>2. ~Changes(Top, {node}) => f.clause = Top.clause
    BY <1>1 DEF Reduced, FrameSet
  <2>3. Sound(deps, excused, f)
    BY <1>1, <1>3, ReducedSound
  <2>4. QED BY <2>1, <2>2, <2>3
<1> HIDE DEF f
<1>6. g \in FrameSet /\ Kept(f, g) /\ Sound(deps, excused, g)
  BY <1>1, <1>2, <1>4, <1>5, ReducedTyped, ReducedSound
<1> HIDE DEF g
<1>7. Kept(Top, g)
  BY <1>5, <1>6 DEF Kept
<1>8. ctl'.at = "work"
  BY Stood DEF NodeFails
<1>9. ASSUME NEW r \in FrameSet, Kept(Top, r), Sound(deps, excused, r),
             BacktrackTo(w, Top.start), stack' = WithTop(Retried(r))
      PROVE  JInv'
  <2> DEFINE v == Backtracked(w, Top.start)
  <2>1. Holding(Top.start, Now, v)
    BY <1>1, HoldingBack
  <2>2. Keeping(Top.start, excused, excused') /\ Commit(v)
    BY <1>1, <1>9, KeepingExcuses DEF BacktrackTo
  <2>3. r.start = Top.start
    BY <1>9 DEF Kept
  <2>4. Sound(deps, excused', r)
    <3>1. \A x \in excused : x.at \in Nat
      BY <1>1 DEF Trusted
    <3>2. {x \in excused : x.at <= Top.start} \subseteq excused' /\ r.start <= Top.start
      BY <1>1, <2>2, <2>3 DEF Keeping
    <3>3. QED BY <1>1, <1>9, <3>1, <3>2, StillSound
  <2> HIDE DEF v
  <2>5. Len(plan') \in Nat /\ Top.start <= Len(plan')
    BY <2>1, <2>2, NowBecomes DEF IInv
  <2>6. /\ Sound(deps, excused', Retried(r))
        /\ Advanced(deps, excused', st', Retried(r), Len(plan'))
    <3>1. \A x \in excused' : x.at \in Nat
      BY <2>2 DEF Keeping, Trusted
    <3>2. QED BY <1>9, <2>3, <2>4, <2>5, <3>1, RetriedAdvanced
  <2>7. Retried(r) \in FrameSet /\ Kept(Top, Retried(r)) /\ Working(Retried(r))
    BY <1>9, RetriedTyped DEF Kept
  <2>8. QED BY <1>8, <1>9, <2>1, <2>2, <2>6, <2>7, TopHolds
<1>10. CASE BacktrackTo(w, Top.start) /\ stack' = WithTop(Retried(f))
  BY <1>5, <1>9, <1>10
<1>11. CASE BacktrackTo(w, Top.start) /\ stack' = WithTop(Retried(g))
  BY <1>6, <1>7, <1>9, <1>11
<1>12. CASE /\ ~Changes(Top, {node}) /\ Len(Top.nodes) > 1 /\ Commit(w) /\ UNCHANGED excused
            /\ stack' = WithTop([f EXCEPT !.nodes = Tail(@)])
  <2> DEFINE r == [f EXCEPT !.nodes = Tail(Top.nodes)]
  <2>1. stack' = WithTop(r)
    BY <1>5, <1>12 DEF FrameSet
  <2>2. /\ r \in FrameSet /\ Kept(f, r) /\ r.cur = f.cur /\ r.step = f.step
        /\ r.clauses = f.clauses /\ r.clause = f.clause /\ r.own = f.own
        /\ r.atom = f.atom /\ r.start = f.start /\ r.nodes = Tail(Top.nodes)
    BY <1>3, <1>5 DEF FrameSet, Kept
  <2> HIDE DEF r
  <2>3. /\ Len(Tail(Top.nodes)) = Len(Top.nodes) - 1
        /\ \A i \in DOMAIN Tail(Top.nodes) : i + 1 \in DOMAIN Top.nodes /\ Tail(Top.nodes)[i] = Top.nodes[i + 1]
    BY <1>2, HeadTailProperties, LenProperties
  <2>4. Kept(Top, r) /\ Working(r) /\ Tail(Top.nodes) # <<>>
    <3>1. Kept(Top, r)
      BY <1>5, <2>2 DEF Kept
    <3>2. Working(r)
      BY <1>1, <1>5, <1>12, <2>2 DEF Working
    <3>3. Tail(Top.nodes) # <<>>
      <4>1. Len(Top.nodes) \in Nat
        BY <1>2, LenProperties
      <4>2. Len(<<>>) = 0
        BY EmptySeq
      <4>3. Len(Tail(Top.nodes)) > 0
        BY <1>12, <2>3, <4>1
      <4> DEFINE T == Tail(Top.nodes)
      <4> HIDE DEF T
      <4>4. T = <<>> => Len(T) = 0
        BY <4>2, Zenon
      <4>5. Len(T) > 0
        BY <4>3 DEF T
      <4>6. T # <<>>
        BY <4>4, <4>5
      <4>7. QED BY <4>6, Zenon DEF T
    <3>4. QED BY <3>1, <3>2, <3>3
  <2>5. Sound(deps, excused, r)
    <3>1. Picked(r)
      BY <1>5, <2>2 DEF Sound, Picked
    <3>2. Divided(r)
      BY <1>5, <1>12, <2>2, <2>3 DEF Sound, Divided
    <3>3. Owned(deps, excused, r)
      BY <1>5, <2>2 DEF Sound, Owned, ToBuild
    <3>4. QED BY <3>1, <3>2, <3>3 DEF Sound
  <2>6. Advanced(deps, excused, w.st, r, Len(w.plan))
    <3>1. Remaining(r) = Remaining(Top)
      BY <1>5, <1>12, <2>2, <2>4 DEF Remaining
    <3>2. ToBuild(r) <=> ToBuild(Top)
      BY <1>5, <1>12, <2>2 DEF ToBuild
    <3>3. r.cur = Top.cur /\ r.step = Top.step
      BY <1>5, <1>12, <2>2
    <3>4. QED BY <3>1, <3>2, <3>3 DEF Advanced
  <2>7. Keeping(Top.start, excused, excused') /\ st' = w.st /\ plan' = w.plan /\ excused' = excused
    BY <1>1, <1>12, KeepingExcuses DEF Commit
  <2>8. QED BY <1>8, <1>12, <2>1, <2>2, <2>4, <2>5, <2>6, <2>7, TopHolds
<1>13. QED BY <1>10, <1>11, <1>12 DEF NodeFails, f, g, node

\* Nothing is done to the frames.
LEMMA ChainStays ==
    ASSUME Frames, Chain, stack' = stack, deps' = deps, excused' = excused,
           NEW w, Now' = w, stack # <<>> => Holding(Top.start, Now, w)
    PROVE  Chain'
<1>1. CASE stack = <<>>
  BY <1>1 DEF Chain, Linked
<1>2. CASE stack # <<>>
  <2>1. /\ DOMAIN stack = 1 .. Len(stack) /\ stack \in Seq(FrameSet) /\ Top.start \in Nat
        /\ \A i \in 1 .. Len(stack) : stack[i].start <= Top.start
    BY <1>2, TopTyped DEF Frames
  <2>2. Trusted(excused) /\ Keeping(Top.start, excused, excused)
    BY KeepingExcuses DEF Chain
  <2>3. \A i \in DOMAIN stack : Link(deps, excused, stack, i, w)
    BY <1>2, <2>1, <2>2, LinkStays DEF Chain, Linked
  <2>4. QED BY <2>2, <2>3 DEF Chain, Linked
<1>3. QED BY <1>1, <1>2

LEMMA InitHolds == Init => JInv
<1> SUFFICES ASSUME Init PROVE JInv
  OBVIOUS
<1>1. stack = <<>> /\ ctl = At("start") /\ asked = 0 /\ excused = {}
  BY DEF Init
<1>2. ctl.at = "start"
  BY <1>1 DEF At
<1>3. Chain
  BY <1>1 DEF Chain, Linked, Trusted
<1>4. Turn
  BY <1>2 DEF Turn
<1>5. Progress
  BY <1>1, <1>2 DEF Progress
<1>6. QED BY <1>3, <1>4, <1>5 DEF JInv

\* The requests are recorded, taken up and met.
LEMMA BeginHolds == ASSUME IInv, JInv, Begin PROVE JInv'
<1>1. /\ stack = <<>> /\ asked = 0 /\ ctl' = At("next")
      /\ stack' = stack /\ deps' = deps /\ excused' = excused /\ asked' = asked
  BY DEF Begin, IInv, Control, JInv, Progress, world, search
<1>2. ctl'.at = "next"
  BY <1>1, Stood
<1>3. Chain'
  BY <1>1 DEF JInv, Chain, Linked
<1>4. Turn'
  BY <1>2 DEF Turn
<1>5. Progress'
  BY <1>1, <1>2 DEF Progress
<1>6. QED BY <1>3, <1>4, <1>5 DEF JInv

LEMMA RequestHolds == ASSUME IInv, JInv, Request PROVE JInv'
<1>1. /\ stack = <<>> /\ asked' = asked + 1 /\ base' = st /\ ctl.at = "next"
      /\ ctl' = Calling(opts.requests[asked + 1], "none", "all", FALSE, "request")
      /\ stack' = stack /\ deps' = deps /\ opts' = opts /\ excused' = excused
  BY DEF Request, IInv, Control, world
<1>2. ctl'.at = "call" /\ ctl'.atom = opts.requests[asked + 1]
  BY <1>1 DEF Calling
<1>3. asked \in Nat
  <2>1. opts.requests \in Seq(Atoms) /\ asked \in 0 .. Len(opts.requests)
    BY WorldTyped DEF IInv, Typed
  <2>2. QED BY <2>1, LenProperties
<1>4. Chain'
  BY <1>1 DEF JInv, Chain, Linked
<1>5. asked' > 0 /\ ctl'.atom = opts'.requests[asked'] /\ stack' = <<>>
  <2>1. asked + 1 > 0
    BY <1>3
  <2>2. asked' = asked + 1 /\ opts' = opts /\ stack' = <<>>
    BY <1>1
  <2>3. QED BY <1>2, <2>1, <2>2
<1>6. Turn'
  BY <1>2, <1>5 DEF Turn
<1>7. Progress'
  <2>1. \A i \in 1 .. asked : InPlace(st, opts.requests[i])
    BY <1>1 DEF JInv, Progress
  <2>2. \A i \in 1 .. asked' - 1 : i \in 1 .. asked
    BY <1>1, <1>3
  <2>3. \A i \in 1 .. asked' - 1 : InPlace(base', opts'.requests[i])
    BY <1>1, <2>1, <2>2
  <2>4. QED BY <1>2, <1>5, <2>3 DEF Progress
<1>8. QED BY <1>4, <1>6, <1>7 DEF JInv

LEMMA ResolvedHolds == ASSUME IInv, JInv, Resolved PROVE JInv'
<1>1. /\ stack = <<>> /\ ctl.at = "next" /\ ctl' = At("resolved") /\ asked = Len(opts.requests)
      /\ UNCHANGED <<deps, opts, st, stack, excused, asked, base>>
  BY DEF Resolved, IInv, Control, world, search
<1>2. ctl'.at = "resolved"
  BY <1>1, Stood
<1>3. Chain'
  BY <1>1 DEF JInv, Chain, Linked
<1>4. Turn'
  BY <1>2 DEF Turn
<1>5. Progress'
  BY <1>1, <1>2 DEF JInv, Progress
<1>6. QED BY <1>3, <1>4, <1>5 DEF JInv

LEMMA ReturnToRequestHolds == ASSUME IInv, JInv, ReturnToRequest PROVE JInv'
<1>1. /\ ctl.at = "return" /\ ctl.why = "request" /\ stack = <<>>
      /\ ctl' = At(IF ctl.ok THEN "next" ELSE "failed")
      /\ UNCHANGED <<deps, opts, st, stack, excused, asked, base>>
  BY DEF ReturnToRequest, IInv, Control, world, search
<1>2. ctl'.at = IF ctl.ok THEN "next" ELSE "failed"
  BY <1>1 DEF At
<1>3. Chain'
  BY <1>1 DEF JInv, Chain, Linked
<1>4. Turn'
  BY <1>2 DEF Turn
<1>5. Progress'
  BY <1>1, <1>2 DEF JInv, Progress
<1>6. QED BY <1>3, <1>4, <1>5 DEF JInv

\* No package for the atom.
LEMMA NotViableHolds == ASSUME IInv, JInv, NotViable PROVE JInv'
<1>1. /\ ctl.at = "call" /\ ctl' = Returning(FALSE, ctl.why)
      /\ UNCHANGED <<deps, opts, st, plan, stack, excused, asked, base>>
  BY DEF NotViable, world
<1>2. ctl'.at = "return" /\ ~ctl'.ok /\ ctl'.why = ctl.why
  BY <1>1 DEF Returning
<1>3. Top' = Top /\ Now' = Now
  BY <1>1 DEF Top, Now
<1>4. Chain'
  BY <1>1, <1>3 DEF JInv, Chain
<1>5. Turn'
  BY <1>1, <1>2, <1>3 DEF JInv, Turn
<1>6. Progress'
  BY <1>1, <1>2 DEF JInv, Progress
<1>7. QED BY <1>4, <1>5, <1>6 DEF JInv

\* The plan has a package for the atom.
LEMMA PreSolvedHolds == ASSUME IInv, JInv, PreSolved PROVE JInv'
<1> DEFINE p == CHOOSE q \in Held(ctl.atom) : TRUE
           c == [id |-> made + 1, pkg |-> p]
           w == Logged(Now, PS!BackrefOp(c))
<1>1. /\ ctl.at = "call" /\ Held(ctl.atom) # {} /\ InBounds /\ Commit(w)
      /\ ctl' = Returning(TRUE, ctl.why)
      /\ UNCHANGED <<deps, opts, stack, excused, asked, base>>
  BY DEF PreSolved, world
<1>2. /\ ctl \in Calls /\ Typed /\ Frames /\ Logs /\ Chain /\ Turn /\ Progress /\ Control
  BY <1>1, Asked DEF IInv, JInv
<1>3. ctl'.at = "return" /\ ctl'.ok /\ ctl'.why = ctl.why
  BY <1>1 DEF Returning
<1>4. ctl.atom \in Atoms /\ p \in Held(ctl.atom)
  BY <1>1, <1>2 DEF Calls
<1>5. p \in Pkgs
  BY <1>4, ConstantsAssumption DEF Held, HeldIn
<1> HIDE DEF p
<1>6. c \in ChoicePoints
  <2>1. made \in Nat /\ Cardinality(Livefs) \in Nat /\ MaxMade \in Nat
    BY <1>2, ConstantsAssumption, FS_CardinalityType DEF Typed
  <2>2. made + 1 \in 1 .. MaxMade
    BY <1>1, <2>1 DEF InBounds
  <2>3. QED BY <1>5, <2>2 DEF ChoicePoints
<1>7. Now.st = st /\ Now.plan = plan /\ Len(plan) \in Nat /\ Reaches(0, PS!Empty, Now)
  BY <1>2, NowReached
<1>8. Applicable(Now.st, PS!BackrefOp(c), Len(Now.plan))
  BY <1>6, BackrefApplies
<1> HIDE DEF c
<1>9. \A n \in Nat : Holding(n, Now, w)
  BY <1>8, HoldingNow, HoldingLogged
<1>10. /\ Reaches(0, PS!Empty, w) /\ w.st = PS!Effect(st, PS!BackrefOp(c))
       /\ Len(w.plan) = Len(plan) + 1
  BY <1>7, <1>8, Grows
<1>11. w.st = st
  <2>1. PS!BackrefOp(c).op = "backref"
    BY DEF PS!BackrefOp, PS!Op
  <2>2. QED BY <1>10, <2>1 DEF PS!Effect
<1> HIDE DEF w
<1>12. st' = st /\ Len(plan') = Len(plan) + 1 /\ Now' = w
  BY <1>1, <1>10, <1>11 DEF Commit, Now, Reaches
<1>13. InPlace(st, ctl.atom)
  BY <1>4 DEF Held, HeldIn, InPlace
<1>14. Top' = Top /\ (stack # <<>> => Top.start \in Nat)
  BY <1>1, <1>2, TopTyped DEF Top
<1>15. Chain'
  BY <1>1, <1>2, <1>9, <1>12, <1>14, ChainStays
<1>16. Turn'
  <2>1. ASSUME stack # <<>> PROVE Waiting(deps, excused', st', Top', ctl.why, Len(plan'))
    <3>1. Waiting(deps, excused, st, Top, ctl.why, Len(plan))
      BY <1>1, <1>2, <2>1 DEF Turn
    <3>2. Later(st, st) /\ Keeping(Len(plan), excused, excused) /\ Trusted(excused)
      BY <1>2, KeepingExcuses DEF Chain, Later
    <3>3. Len(plan) + 1 \in Nat /\ Len(plan) <= Len(plan) + 1
      BY <1>7
    <3>4. Waiting(deps, excused, st, Top, ctl.why, Len(plan) + 1)
      BY <1>7, <3>1, <3>2, <3>3, StillWaiting
    <3>5. QED BY <1>1, <1>12, <1>14, <3>4
  <2>2. ASSUME ctl.why # "request"
        PROVE  stack # <<>> /\ AskedFor(ctl.why, ctl.atom, Top) /\ Waiting(deps, excused, st, Top, ctl.why, Len(plan))
    BY <1>1, <1>2, <2>2 DEF Control, Turn
  <2>3. ctl.why = "node" => Solved(excused', st', Top'.cur, Head(Top'.nodes), Len(plan'))
    BY <1>12, <1>13, <1>14, <2>2 DEF AskedFor, Waiting, Solved
  <2>4. ctl.why \in {"vdb", "saving"} => Obtained(Owner', st', excused', Top'.atom, Len(plan'))
    BY <1>12, <1>13, <1>14, <2>2 DEF AskedFor, Obtained
  <2>5. QED BY <1>1, <1>3, <2>1, <2>3, <2>4 DEF Turn
<1>17. Progress'
  <2>1. ASSUME ctl.why = "request", NEW i \in 1 .. asked PROVE InPlace(st, opts.requests[i])
    <3>1. stack = <<>> /\ st = base /\ ctl.atom = opts.requests[asked]
      BY <1>1, <1>2, <2>1 DEF Control, Asking, Turn
    <3>2. i # asked => i \in 1 .. asked - 1
      <4>1. asked \in Nat
        <5>1. opts.requests \in Seq(Atoms) /\ asked \in 0 .. Len(opts.requests)
          BY <1>2, WorldTyped DEF Typed
        <5>2. QED BY <5>1, LenProperties
      <4>2. QED BY <4>1
    <3>3. QED BY <1>2, <1>13, <3>1, <3>2 DEF Progress
  <2>2. QED BY <1>1, <1>2, <1>3, <1>12, <2>1 DEF Progress
<1>18. QED BY <1>15, <1>16, <1>17 DEF JInv

\* A new frame has the first of its packages that can be solved.
LEMMA ViableHolds == ASSUME IInv, JInv, Viable PROVE JInv'
<1> DEFINE f == Moved(st, Blank)
<1>1. /\ ctl.at = "call" /\ InBounds /\ ctl' = At("cycles") /\ stack' = Append(stack, f)
      /\ UNCHANGED <<deps, opts, st, plan, excused, asked, base>>
  BY DEF Viable, NewFrames, world
<1>2. Frames /\ Logs /\ Chain /\ Turn /\ Progress /\ Typed
  BY DEF IInv, JInv
<1>3. ctl'.at = "cycles"
  BY <1>1, Stood
<1>4. /\ Blank \in FrameSet /\ Blank.clauses = {} /\ Blank.nodes = <<>>
      /\ Blank.start = Len(plan) /\ Blank.why = ctl.why /\ Blank.atom = ctl.atom
  BY <1>1, BlankTyped DEF Blank
<1>5. Worldly /\ deps \in [Pkgs -> [Attrs -> SUBSET SUBSET Atoms]]
  BY <1>2, WorldWorldly DEF Worldly
<1>6. Divided(Blank)
  BY <1>4 DEF Divided
<1>7. /\ f \in FrameSet /\ Sound(deps, excused, f)
      /\ f.start = Len(plan) /\ f.why = ctl.why /\ f.atom = ctl.atom
  <2>1. f \in FrameSet /\ Kept(Blank, f)
    BY <1>4, <1>5, MovedTyped
  <2>2. Sound(deps, excused, f)
    BY <1>4, <1>5, <1>6, MovedSound DEF Sound
  <2>3. QED BY <1>4, <2>1, <2>2 DEF Kept
<1> HIDE DEF f
<1>8. Linked(deps, excused, Append(stack, f), Now)
  <2>1. stack # <<>> => /\ Waiting(deps, excused, st, Top, f.why, Len(plan))
                        /\ AskedFor(f.why, f.atom, Top)
    BY <1>1, <1>2, <1>7 DEF Turn
  <2>2. QED BY <1>2, <1>7, <2>1, ChainPushed
<1>9. Now' = Now
  BY <1>1 DEF Now
<1>10. Chain'
  BY <1>1, <1>2, <1>8, <1>9 DEF Chain
<1>11. Turn'
  BY <1>3 DEF Turn
<1>12. stack' # <<>> => asked' > 0 /\ stack'[1].atom = opts'.requests[asked']
  <2>1. stack \in Seq(FrameSet) /\ Len(stack) \in Nat /\ DOMAIN stack = 1 .. Len(stack)
    BY <1>2, LenProperties DEF Frames
  <2>2. CASE stack = <<>>
    <3>1. stack'[1] = f
      BY <1>1, <2>2
    <3>2. QED BY <1>1, <1>2, <1>7, <2>2, <3>1 DEF Turn
  <2>3. CASE stack # <<>>
    <3>1. Len(stack) > 0
      BY <2>1, <2>3, EmptySeq
    <3>2. stack'[1] = stack[1]
      BY <1>1, <2>1, <3>1
    <3>3. QED BY <1>1, <1>2, <2>3, <3>2 DEF Progress
  <2>4. QED BY <2>2, <2>3
<1>13. Progress'
  BY <1>1, <1>2, <1>3, <1>12 DEF Progress
<1>14. QED BY <1>10, <1>11, <1>13 DEF JInv

\* The search goes on in the frame on top.
LEMMA NoCycleHolds == ASSUME IInv, JInv, NoCycle PROVE JInv'
<1> DEFINE f == Entering(Top, 1)
<1>1. /\ ctl.at = "cycles" /\ stack' = WithTop(f) /\ ctl' = At("work")
      /\ UNCHANGED <<world, asked, base>> /\ UNCHANGED <<st, plan, excused>>
  BY DEF NoCycle, search
<1>2. stack # <<>> /\ Top.cur # None
  BY <1>1 DEF IInv, Control
<1>3. /\ Top \in FrameSet /\ Top.start \in Nat /\ Len(plan) \in Nat /\ Top.start <= Len(plan)
      /\ Now.st = st /\ Now.plan = plan /\ Sound(deps, excused, Top)
      /\ Trusted(excused) /\ \A x \in excused : x.at \in Nat
  BY <1>2, TopKnown
<1>4. 1 \in 1 .. 7 /\ ~(1 > 5) /\ \A j \in {1, 2} : ~(j < 1)
  OBVIOUS
<1>5. Sound(deps, excused, f) /\ Advanced(deps, excused, st, f, Len(plan))
  BY <1>2, <1>3, <1>4, EnteringAdvanced
<1>6. f \in FrameSet /\ Kept(Top, f) /\ Working(f)
  BY <1>2, <1>3, <1>4, EnteringTyped
<1> HIDE DEF f
<1>7. /\ Holding(Top.start, Now, Now) /\ Commit(Now) /\ Keeping(Top.start, excused, excused')
      /\ ctl'.at = "work" /\ st' = st /\ plan' = plan /\ excused' = excused
  BY <1>1, <1>3, HoldingNow, KeepingExcuses, Stood DEF Commit
<1>8. QED BY <1>1, <1>2, <1>5, <1>6, <1>7, TopHolds

\* It is repeated among the installed packages.
LEMMA IgnoredHolds ==
    ASSUME IInv, JInv, stack # <<>>, stack' = WithTop([Top EXCEPT !.ignored = TRUE]),
           UNCHANGED <<world, asked, base>>, NEW w, Commit(w),
           Keeping(Top.start, excused, excused'), Holding(Top.start, Now, w),
           ctl'.at = "call", ctl'.why \in {"vdb", "saving"}, ctl'.atom = Top.atom
    PROVE  JInv'
<1> DEFINE f == [Top EXCEPT !.ignored = TRUE]
<1>1. /\ Top \in FrameSet /\ Working(Top) /\ Top.start \in Nat /\ Sound(deps, excused, Top)
      /\ \A x \in excused : x.at \in Nat
  BY TopKnown
<1>2. /\ f \in FrameSet /\ Kept(Top, f) /\ f.ignored
      /\ f.clauses = Top.clauses /\ f.nodes = Top.nodes /\ f.cur = Top.cur /\ f.step = Top.step
      /\ f.own = Top.own /\ f.clause = Top.clause /\ f.atom = Top.atom /\ f.start = Top.start
  BY <1>1 DEF FrameSet, Kept
<1>3. stack' = WithTop(f)
  OBVIOUS
<1> HIDE DEF f
<1>4. Working(f)
  BY <1>1, <1>2 DEF Working
<1>5. Sound(deps, excused, f)
  BY <1>1, <1>2 DEF Sound, Picked, Divided, Owned, ToBuild
<1>6. Sound(deps, excused', f)
  <2>1. f.start <= Top.start /\ {x \in excused : x.at <= Top.start} \subseteq excused'
    BY <1>1, <1>2 DEF Keeping
  <2>2. QED BY <1>1, <1>2, <1>5, <2>1, StillSound
<1>7. /\ Waiting(deps, excused', st', f, ctl'.why, Len(plan'))
      /\ AskedFor(ctl'.why, ctl'.atom, f)
  BY <1>2 DEF Waiting, AskedFor
<1>8. QED BY <1>2, <1>3, <1>4, <1>6, <1>7, TopHolds

LEMMA LimitToVdbHolds == ASSUME IInv, JInv, LimitToVdb PROVE JInv'
<1>1. /\ ctl.at = "cycles" /\ stack' = WithTop([Top EXCEPT !.ignored = TRUE])
      /\ ctl' = Calling(Top.atom, Top.mode, "livefs", Top.drop, "vdb")
      /\ UNCHANGED <<world, asked, base>> /\ UNCHANGED <<st, plan, excused>>
  BY DEF LimitToVdb, search
<1>2. stack # <<>>
  BY <1>1 DEF IInv, Control
<1>3. Top.start \in Nat /\ Now.st = st /\ Now.plan = plan /\ Trusted(excused)
  BY <1>2, TopKnown
<1>4. ctl'.at = "call" /\ ctl'.why = "vdb" /\ ctl'.atom = Top.atom
  BY <1>1 DEF Calling
<1>5. /\ Holding(Top.start, Now, Now) /\ Commit(Now) /\ Keeping(Top.start, excused, excused')
  BY <1>1, <1>3, HoldingNow, KeepingExcuses DEF Commit
<1>6. QED BY <1>1, <1>2, <1>4, <1>5, IgnoredHolds

\* It is given up, or repeated and what cannot be solved is dropped.
LEMMA RunOutHolds == ASSUME IInv, JInv, RunOut PROVE JInv'
<1> DEFINE w == Backtracked(Now, Top.start)
<1>1. /\ ctl.at = "work" /\ BacktrackTo(Now, Top.start) /\ UNCHANGED <<world, asked, base>>
      /\ \/ /\ stack' = WithTop([Top EXCEPT !.ignored = TRUE])
            /\ ctl' = Calling(Top.atom, Top.mode, Top.dbs, TRUE, "saving")
         \/ Leave(FALSE)
  BY DEF RunOut, search
<1>2. stack # <<>>
  BY <1>1 DEF IInv, Control
<1>3. /\ Top.start \in Nat /\ Now.plan = plan /\ Trusted(excused)
      /\ Len(plan) \in Nat /\ Top.start <= Len(plan)
  BY <1>2, TopKnown
<1>4. Commit(w) /\ Keeping(Top.start, excused, excused')
  BY <1>1, <1>3, KeepingExcuses DEF BacktrackTo
<1>5. Holding(Top.start, Now, w)
  BY <1>3, HoldingNow, HoldingBack
<1> HIDE DEF w
<1>6. CASE /\ stack' = WithTop([Top EXCEPT !.ignored = TRUE])
           /\ ctl' = Calling(Top.atom, Top.mode, Top.dbs, TRUE, "saving")
  <2>1. ctl'.at = "call" /\ ctl'.why = "saving" /\ ctl'.atom = Top.atom
    BY <1>6 DEF Calling
  <2>2. QED BY <1>1, <1>2, <1>4, <1>5, <1>6, <2>1, IgnoredHolds
<1>7. CASE Leave(FALSE)
  <2> DEFINE ok == FALSE
  <2>1. ok \in BOOLEAN /\ Leave(ok) /\ ~ok
    BY <1>7
  <2> HIDE DEF ok
  <2>2. QED BY <1>1, <1>2, <1>4, <1>5, <2>1, LeftHolds
<1>8. QED BY <1>1, <1>6, <1>7

\* A cycle is cut: the dependency is taken for granted.  A frame that repeats the one
\* below is never alone on the stack with those it repeats and one it must await.
LEMMA CycleHasOwner ==
    ASSUME IInv, JInv, stack # <<>>, Cycles # {}
    PROVE  Owner # None
<1> DEFINE L == Len(stack)
<1>1. /\ L \in Nat \ {0} /\ DOMAIN stack = 1 .. L /\ \A i \in 1 .. L : stack[i] \in FrameSet
  BY TopTyped DEF IInv
<1>2. \A i \in 2 .. L : /\ stack[i].why \in {"node", "weak", "vdb", "saving"}
                        /\ stack[i].why \in {"vdb", "saving"} => stack[i - 1].ignored
  <2> SUFFICES ASSUME NEW i \in 2 .. L
               PROVE  /\ stack[i].why \in {"node", "weak", "vdb", "saving"}
                      /\ stack[i].why \in {"vdb", "saving"} => stack[i - 1].ignored
    OBVIOUS
  <2>1. i \in DOMAIN stack /\ i > 1 /\ i # 1
    BY <1>1
  <2>2. stack[i].why \in Whys
    BY <1>1, <2>1 DEF FrameSet
  <2>3. stack[i].why # "request"
    BY <2>1 DEF IInv, Frames
  <2>4. \E s : Waiting(deps, excused, s, stack[i - 1], stack[i].why, stack[i].start)
    BY <2>1 DEF JInv, Chain, Linked, Link
  <2>5. QED BY <2>2, <2>3, <2>4 DEF Whys, Waiting
<1>3. PICK c \in 1 .. L - 1 : ~stack[c].ignored
  BY DEF Cycles
<1>4. c + 1 \in Owners
  <2>1. c + 1 \in 2 .. L /\ (c + 1) - 1 = c
    BY <1>1, <1>3
  <2>2. QED BY <1>2, <1>3, <2>1 DEF Owners
<1> DEFINE m == Seqs!Max(Owners)
<1>5. m \in Owners
  <2>1. Owners \subseteq 0 .. L
    BY <1>1 DEF Owners
  <2>2. QED BY <1>1, <1>4, <2>1, GreatestOf
<1> HIDE DEF m
<1>6. m \in 2 .. L /\ stack[m].why \in {"node", "weak"} /\ m - 1 \in DOMAIN stack
  BY <1>1, <1>5 DEF Owners
<1>7. stack[m - 1].nodes # <<>> /\ Working(stack[m - 1])
  BY <1>1, <1>6 DEF IInv, Frames
<1>8. stack[m - 1].cur # None
  BY <1>7 DEF Working
<1>9. QED BY <1>4, <1>8 DEF Owner, m

LEMMA CycleSatisfiedHolds == ASSUME IInv, JInv, CycleSatisfied PROVE JInv'
<1> DEFINE awaited == stack[Seqs!Max(Cycles)].cur
           what == IF awaited \in Matches[Top.atom] THEN "first" ELSE "met"
           e == Excuse(Owner, Top.atom, what, Len(plan))
<1>1. /\ ctl.at = "cycles" /\ Leave(TRUE) /\ Cycles # {} /\ excused' = excused \cup {e}
      /\ UNCHANGED <<world, asked, base>> /\ UNCHANGED <<st, plan>>
  BY DEF CycleSatisfied, Verdict, search
<1>2. stack # <<>>
  BY <1>1 DEF IInv, Control
<1>3. Top.start \in Nat /\ Len(plan) \in Nat /\ Now.st = st /\ Now.plan = plan /\ Trusted(excused)
  BY <1>2, TopKnown
<1>4. Owner # None
  BY <1>1, <1>2, CycleHasOwner
<1>5. what \in {"first", "met"}
  OBVIOUS
<1> HIDE DEF what
<1>6. Keeping(Top.start, excused, excused')
  BY <1>1, <1>3, <1>5, KeepingExcuses
<1>7. e \in excused' /\ e.pkg = Owner /\ e.atom = Top.atom /\ e.at = Len(plan) /\ e.at <= Len(plan)
  BY <1>1, <1>3 DEF Excuse
<1> HIDE DEF e
<1>8. Obtained(Owner, st', excused', Top.atom, Len(plan'))
  BY <1>1, <1>4, <1>7 DEF Obtained, Granted
<1>9. Holding(Top.start, Now, Now) /\ Commit(Now)
  BY <1>1, <1>3, HoldingNow DEF Commit
<1> DEFINE ok == TRUE
<1>10. ok \in BOOLEAN /\ Leave(ok)
  BY <1>1
<1> HIDE DEF ok
<1>11. QED BY <1>1, <1>2, <1>6, <1>8, <1>9, <1>10, LeftHolds

\* A frame is left with its package in the plan.
LEMMA SucceedHolds == ASSUME IInv, JInv, Succeed PROVE JInv'
<1>1. /\ ctl.at = "work" /\ Leave(TRUE) /\ Top.cur # None /\ Program[Top.step] = "done"
      /\ UNCHANGED <<world, asked, base>> /\ UNCHANGED <<st, plan, excused>>
  BY DEF Succeed, search
<1>2. stack # <<>>
  BY <1>1 DEF IInv, Control
<1>3. /\ Top \in FrameSet /\ Top.start \in Nat /\ Now.st = st /\ Now.plan = plan
      /\ Trusted(excused) /\ Sound(deps, excused, Top)
  BY <1>2, TopKnown
<1>4. Top.step > 5
  <2>1. Top.step \in 1 .. 7
    BY <1>3 DEF FrameSet
  <2>2. QED BY <1>1, <2>1 DEF Program
<1>5. Top.cur \in st.slots \cup st.filter
  BY <1>1, <1>4 DEF JInv, Turn, Advanced
<1>6. Top.cur \in Matches[Top.atom]
  BY <1>1, <1>3 DEF Sound, Picked
<1>7. Obtained(Owner, st', excused', Top.atom, Len(plan'))
  BY <1>1, <1>5, <1>6 DEF Obtained, InPlace
<1>8. /\ Holding(Top.start, Now, Now) /\ Commit(Now) /\ Keeping(Top.start, excused, excused')
  BY <1>1, <1>3, HoldingNow, KeepingExcuses DEF Commit
<1> DEFINE ok == TRUE
<1>9. ok \in BOOLEAN /\ Leave(ok)
  BY <1>1
<1> HIDE DEF ok
<1>10. QED BY <1>1, <1>2, <1>7, <1>8, <1>9, LeftHolds

\* The frame that had its search repeated answers what that answered.
LEMMA ReturnToRepeatedHolds == ASSUME IInv, JInv, ReturnToRepeated PROVE JInv'
<1>1. /\ ctl.at = "return" /\ ctl.why \in {"vdb", "saving"} /\ Leave(ctl.ok)
      /\ UNCHANGED <<world, asked, base>> /\ UNCHANGED <<st, plan, excused>>
  BY DEF ReturnToRepeated, search
<1>2. stack # <<>>
  BY <1>1 DEF IInv, Control
<1>3. Top.start \in Nat /\ Now.st = st /\ Now.plan = plan /\ Trusted(excused)
  BY <1>2, TopKnown
<1>4. ctl.ok \in BOOLEAN
  BY <1>1, Asked DEF IInv, Returns
<1>5. ctl.ok => Obtained(Owner, st', excused', Top.atom, Len(plan'))
  BY <1>1 DEF JInv, Turn
<1>6. /\ Holding(Top.start, Now, Now) /\ Commit(Now) /\ Keeping(Top.start, excused, excused')
  BY <1>1, <1>3, HoldingNow, KeepingExcuses DEF Commit
<1>7. QED BY <1>1, <1>2, <1>4, <1>5, <1>6, LeftHolds

\* A clause is taken up.
LEMMA NextClauseHolds == ASSUME IInv, JInv, NextClause PROVE JInv'
<1>1. /\ ctl.at = "work" /\ stack # <<>> /\ Top.clauses # {} /\ Top.nodes = <<>>
      /\ UNCHANGED <<world, asked, base>> /\ UNCHANGED <<st, plan, ctl, excused>>
  BY DEF NextClause, IInv, Control, search
<1>2. /\ Top \in FrameSet /\ Working(Top) /\ Top.start \in Nat /\ Len(plan) \in Nat
      /\ Now.st = st /\ Now.plan = plan /\ Sound(deps, excused, Top)
      /\ Trusted(excused)
  BY <1>1, TopKnown
<1>3. PICK clause \in Top.clauses :
         \E nodes \in Orders(clause) :
           stack' = WithTop([Top EXCEPT !.clauses = @ \ {clause}, !.clause = clause,
                                        !.nodes = nodes])
  BY DEF NextClause
<1>4. PICK nodes \in Orders(clause) :
        stack' = WithTop([Top EXCEPT !.clauses = @ \ {clause}, !.clause = clause,
                                     !.nodes = nodes])
  BY <1>3
<1>5. clause \in SUBSET Atoms
  BY <1>2 DEF FrameSet
<1>6. /\ nodes \in Seq(Atoms) /\ \A i \in DOMAIN nodes : nodes[i] \in clause
      /\ clause # {} => nodes # <<>>
  <2>1. nodes \in [1 .. Seqs!Cardinality(clause) -> clause]
    BY DEF Orders, Seqs!SetToSeqs
  <2>2. Seqs!Cardinality(clause) = Cardinality(clause)
    BY DEF Cardinality, Seqs!Cardinality, Seqs!IsFiniteSet, IsFiniteSet
  <2> DEFINE n == Cardinality(clause)
  <2>3. n \in Nat /\ (clause # {} => n # 0)
    BY <1>5, ConstantsAssumption, FS_Subset, FS_CardinalityType, FS_EmptySet
  <2>4. nodes \in [1 .. n -> clause]
    BY <2>1, <2>2
  <2> HIDE DEF n
  <2>5. nodes \in Seq(Atoms) /\ \A i \in DOMAIN nodes : nodes[i] \in clause
    BY <1>5, <2>3, <2>4
  <2>6. clause # {} => nodes # <<>>
    <3>1. clause # {} => 1 \in DOMAIN nodes
      BY <2>3, <2>4
    <3>2. 1 \notin DOMAIN <<>>
      OBVIOUS
    <3>3. QED BY <3>1, <3>2
  <2>7. QED BY <2>5, <2>6
<1> DEFINE f == [Top EXCEPT !.clauses = @ \ {clause}, !.clause = clause, !.nodes = nodes]
<1>7. /\ f \in FrameSet /\ Kept(Top, f) /\ f.cur = Top.cur /\ f.step = Top.step
      /\ f.clauses = Top.clauses \ {clause} /\ f.clause = clause /\ f.nodes = nodes
      /\ f.own = Top.own /\ f.atom = Top.atom /\ f.start = Top.start
  BY <1>2, <1>5, <1>6 DEF FrameSet, Kept
<1>8. stack' = WithTop(f)
  BY <1>4
<1> HIDE DEF f
<1>9. Working(f)
  BY <1>1, <1>2, <1>7 DEF Working
<1>10. Sound(deps, excused, f)
  <2>1. Picked(f) /\ Owned(deps, excused, f)
    BY <1>2, <1>7 DEF Sound, Picked, Owned, ToBuild
  <2>2. Divided(f)
    BY <1>2, <1>6, <1>7 DEF Sound, Divided
  <2>3. QED BY <2>1, <2>2 DEF Sound
<1>11. Advanced(deps, excused, st, f, Len(plan))
  <2>1. f.step < 3 => Remaining(f) = Remaining(Top)
    <3>1. Remaining(Top) = Top.clauses
      BY <1>1 DEF Remaining
    <3>2. ASSUME f.step < 3 PROVE clause # {}
      BY <1>2, <1>3, <1>7, <3>2 DEF Sound, Divided
    <3>3. ASSUME f.step < 3 PROVE Remaining(f) = (Top.clauses \ {clause}) \cup {clause}
      BY <1>6, <1>7, <3>2, <3>3 DEF Remaining
    <3>4. QED BY <1>3, <3>1, <3>3
  <2>2. Advanced(deps, excused, st, Top, Len(plan))
    BY <1>1 DEF JInv, Turn
  <2>3. ASSUME NEW k \in {1, 2}, f.step = k PROVE f.step < 3
    BY <2>3
  <2>4. QED BY <1>7, <2>1, <2>2, <2>3 DEF Advanced, ToBuild
<1>12. /\ Holding(Top.start, Now, Now) /\ Commit(Now) /\ Keeping(Top.start, excused, excused')
       /\ st' = st /\ plan' = plan /\ excused' = excused /\ ctl'.at = "work"
  BY <1>1, <1>2, HoldingNow, KeepingExcuses DEF Commit
<1>13. QED BY <1>1, <1>7, <1>8, <1>9, <1>10, <1>11, <1>12, TopHolds

\* An atom of the clause is searched for.
LEMMA TryAtomHolds == ASSUME IInv, JInv, TryAtom PROVE JInv'
<1>1. /\ ctl.at = "work" /\ stack # <<>> /\ Head(Top.nodes) \notin Blockers
      /\ ctl' = Calling(Head(Top.nodes), Program[Top.step], Top.dbs, Top.drop, "node")
      /\ UNCHANGED <<world, asked, base>> /\ UNCHANGED <<st, plan, stack, excused>>
  BY DEF TryAtom, IInv, Control, search
<1>2. /\ Top \in FrameSet /\ Working(Top) /\ Kept(Top, Top) /\ Top.start \in Nat
      /\ Now.st = st /\ Now.plan = plan /\ Sound(deps, excused, Top)
      /\ Trusted(excused) /\ WithTop(Top) = stack
  BY <1>1, TopKnown
<1>3. ctl'.at = "call" /\ ctl'.why = "node" /\ ctl'.atom = Head(Top.nodes)
  BY <1>1 DEF Calling
<1>4. Advanced(deps, excused, st, Top, Len(plan))
  BY <1>1 DEF JInv, Turn
<1>5. /\ Waiting(deps, excused, st, Top, ctl'.why, Len(plan))
      /\ AskedFor(ctl'.why, ctl'.atom, Top)
  BY <1>1, <1>3, <1>4 DEF Waiting, AskedFor
<1>6. /\ Holding(Top.start, Now, Now) /\ Commit(Now) /\ Keeping(Top.start, excused, excused')
      /\ st' = st /\ plan' = plan /\ excused' = excused /\ stack' = WithTop(Top)
  BY <1>1, <1>2, HoldingNow, KeepingExcuses DEF Commit
<1>7. QED BY <1>1, <1>2, <1>3, <1>5, <1>6, TopHolds

\* A clause of the frame on top is done, with the log that w holds.
LEMMA DoneHolds ==
    ASSUME IInv, JInv, stack # <<>>, Top.nodes # <<>>, NEW w, Holding(Top.start, Now, w),
           Commit(w), stack' = WithTop(ClauseDone(Top)), ctl'.at = "work",
           UNCHANGED <<world, asked, base>>, Keeping(Top.start, excused, excused'),
           excused \subseteq excused', Advanced(deps, excused', st', Top, Len(plan')),
           ToBuild(Top) => Solved(excused', st', Top.cur, Head(Top.nodes), Len(plan'))
    PROVE  JInv'
<1> DEFINE f == ClauseDone(Top)
<1>1. /\ Top \in FrameSet /\ Working(Top) /\ Top.start \in Nat /\ Sound(deps, excused, Top)
      /\ \A x \in excused : x.at \in Nat
  BY TopKnown
<1>2. Len(plan') \in Nat /\ Top.start <= Len(plan')
  BY NowBecomes DEF IInv
<1>3. Sound(deps, excused', Top) /\ \A x \in excused' : x.at \in Nat
  <2>1. Top.start <= Top.start /\ {x \in excused : x.at <= Top.start} \subseteq excused'
    BY <1>1 DEF Keeping
  <2>2. QED BY <1>1, <2>1, StillSound DEF Keeping, Trusted
<1>4. Sound(deps, excused', f) /\ Advanced(deps, excused', st', f, Len(plan'))
  BY <1>1, <1>2, <1>3, ClauseDoneAdvanced
<1>5. f \in FrameSet /\ Kept(Top, f) /\ Working(f)
  BY <1>1, ClauseDoneTyped
<1> HIDE DEF f
<1>6. stack' = WithTop(f)
  BY DEF f
<1>7. QED BY <1>4, <1>5, <1>6, TopHolds

\* The answer for an atom of a clause.
LEMMA ReturnToNodeHolds == ASSUME IInv, JInv, ReturnToNode PROVE JInv'
<1>1. /\ ctl.at = "return" /\ ctl.why = "node" /\ UNCHANGED <<world, asked, base>>
      /\ stack # <<>> /\ Top.nodes # <<>>
  BY DEF ReturnToNode, IInv, Control, search
<1>2. /\ Top.start \in Nat /\ Len(plan) \in Nat /\ Top.start <= Len(plan)
      /\ Now.st = st /\ Now.plan = plan /\ Trusted(excused)
  BY <1>1, TopKnown
<1>3. Advanced(deps, excused, st, Top, Len(plan))
  BY <1>1 DEF JInv, Turn, Waiting
<1>4. Holding(Top.start, Now, Now)
  BY <1>2, HoldingNow
<1>5. CASE /\ ctl.ok /\ stack' = WithTop(ClauseDone(Top)) /\ ctl' = At("work")
           /\ UNCHANGED <<st, plan, excused>>
  <2>1. Solved(excused, st, Top.cur, Head(Top.nodes), Len(plan))
    BY <1>1, <1>5 DEF JInv, Turn
  <2>2. /\ Commit(Now) /\ Keeping(Top.start, excused, excused') /\ ctl'.at = "work"
        /\ st' = st /\ plan' = plan /\ excused' = excused
    BY <1>2, <1>5, KeepingExcuses, Stood DEF Commit
  <2>3. QED BY <1>1, <1>3, <1>4, <1>5, <2>1, <2>2, DoneHolds
<1>6. CASE /\ stack' = WithTop(ClauseDone(Top)) /\ ctl' = At("work")
           /\ excused' = excused \cup {Excuse(Top.cur, Head(Top.nodes), "met", Len(plan))}
           /\ UNCHANGED <<st, plan>>
  <2> DEFINE e == Excuse(Top.cur, Head(Top.nodes), "met", Len(plan))
  <2>1. /\ Commit(Now) /\ ctl'.at = "work" /\ st' = st /\ plan' = plan
        /\ excused \subseteq excused' /\ e \in excused'
    BY <1>2, <1>6, Stood DEF Commit
  <2>2. Keeping(Top.start, excused, excused')
    BY <1>2, <1>6, KeepingExcuses
  <2>3. e.pkg = Top.cur /\ e.atom = Head(Top.nodes) /\ e.at = Len(plan) /\ e.at <= Len(plan)
    BY <1>2 DEF Excuse
  <2> HIDE DEF e
  <2>4. Solved(excused', st', Top.cur, Head(Top.nodes), Len(plan'))
    BY <2>1, <2>3 DEF Solved, Granted
  <2>5. Advanced(deps, excused', st', Top, Len(plan'))
    <3>1. Later(st, st) /\ Len(plan) <= Len(plan) /\ \A x \in excused : x.at \in Nat
      BY <1>2 DEF Later, Trusted
    <3>2. {x \in excused : x.at <= Len(plan)} \subseteq excused'
      BY <2>1
    <3>3. Advanced(deps, excused', st, Top, Len(plan))
      BY <1>2, <1>3, <3>1, <3>2, StillAdvanced
    <3>4. QED BY <2>1, <3>3
  <2>6. QED BY <1>1, <1>4, <1>6, <2>1, <2>2, <2>4, <2>5, DoneHolds
<1>7. CASE NodeFails(Now)
  BY <1>1, <1>2, <1>3, <1>4, <1>7, FailHolds
<1>8. QED BY <1>5, <1>6, <1>7 DEF ReturnToNode

\* The answer for a package that a weak blocker does not block.
LEMMA ReturnToBlockerHolds == ASSUME IInv, JInv, ReturnToBlocker PROVE JInv'
<1>1. /\ ctl.at = "return" /\ ctl.why = "weak" /\ UNCHANGED <<world, asked, base>>
      /\ stack # <<>> /\ Top.nodes # <<>>
  BY DEF ReturnToBlocker, IInv, Control, search
<1>2. /\ Top.start \in Nat /\ Len(plan) \in Nat /\ Top.start <= Len(plan)
      /\ Now.st = st /\ Now.plan = plan /\ Trusted(excused)
  BY <1>1, TopKnown
<1>3. /\ Advanced(deps, excused, st, Top, Len(plan))
      /\ Head(Top.nodes) \in Blockers
      /\ ToBuild(Top) => Registered(st, Top.cur, Head(Top.nodes))
  BY <1>1 DEF JInv, Turn, Waiting
<1>4. Holding(Top.start, Now, Now)
  BY <1>2, HoldingNow
<1>5. CASE /\ stack' = WithTop(ClauseDone(Top)) /\ ctl' = At("work")
           /\ UNCHANGED <<st, plan, excused>>
  <2>1. /\ Commit(Now) /\ Keeping(Top.start, excused, excused') /\ ctl'.at = "work"
        /\ st' = st /\ plan' = plan /\ excused' = excused
    BY <1>2, <1>5, KeepingExcuses, Stood DEF Commit
  <2>2. ToBuild(Top) => Solved(excused', st', Top.cur, Head(Top.nodes), Len(plan'))
    BY <1>3, <2>1 DEF Solved
  <2>3. QED BY <1>1, <1>3, <1>4, <1>5, <2>1, <2>2, DoneHolds
<1>6. CASE NodeFails(Now)
  BY <1>1, <1>2, <1>3, <1>4, <1>6, FailHolds
<1>7. QED BY <1>5, <1>6 DEF ReturnToBlocker

\* A blocker is referenced: what was solved before is so still, and so is the blocker.
LEMMA TryBlockerHolds == ASSUME IInv, JInv, TryBlocker PROVE JInv'
<1> DEFINE a == Head(Top.nodes)
           ps == IF Top.cur \in Livefs THEN {} ELSE Matches[a]
           w == Loaded(ps)
           t == [c |-> Here, a |-> a, n |-> Len(w.plan) + 1]
           x == Logged(w, PS!BlockOp("incref", t))
<1>1. /\ ctl.at = "work" /\ stack # <<>> /\ Top.nodes # <<>> /\ a \in Blockers /\ InBounds
      /\ UNCHANGED <<world, asked, base>>
      /\ \/ /\ Commit(x) /\ stack' = WithTop(ClauseDone(Top)) /\ UNCHANGED <<ctl, excused>>
         \/ /\ Commit(x) /\ UNCHANGED <<stack, excused>>
            /\ ctl' = Calling(Past[a], "none", stack[1].dbs, FALSE, "weak")
         \/ NodeFails(x)
  BY ZenonT(60) DEF TryBlocker, IInv, Control
<1>2. /\ Top \in FrameSet /\ Working(Top) /\ Kept(Top, Top) /\ Top.start \in Nat
      /\ Len(plan) \in Nat /\ Top.start <= Len(plan)
      /\ Now.st = st /\ Now.plan = plan /\ Sound(deps, excused, Top)
      /\ Trusted(excused) /\ (\A e \in excused : e.at \in Nat) /\ WithTop(Top) = stack
  BY <1>1, TopKnown
<1>3. Here \in ChoicePoints /\ Here.pkg = Top.cur
  BY <1>1, <1>2, HereMade DEF IInv, Working
<1>4. Reaches(0, PS!Empty, Now) /\ made \in Nat
  BY NowReached DEF IInv, Typed
<1> HIDE DEF a, ps
<1>5. Holding(Len(plan), Now, w)
  BY <1>1, <1>2, <1>4, HoldingLoaded
<1>6. Reaches(0, PS!Empty, w)
  BY <1>2, <1>4, <1>5 DEF Holding
<1> HIDE DEF w
<1>7. InOrder(w.st, Len(w.plan)) /\ Len(w.plan) \in Nat /\ w.st \in RS!States
  BY <1>6, Reached
<1>8. t \in RS!Tokens /\ t.a = a /\ t.c.pkg = Top.cur /\ t.n = Len(w.plan) + 1 /\ a \in Atoms
  BY <1>1, <1>3, <1>7, ConstantsAssumption DEF RS!Tokens
<1> HIDE DEF t
<1>9. /\ Applicable(w.st, PS!BlockOp("incref", t), Len(w.plan))
      /\ PS!BlockOp("incref", t).op = "incref" /\ PS!Token(PS!BlockOp("incref", t)) = t
  BY <1>1, <1>7, <1>8, BlockApplies
<1>10. Holding(Len(plan), Now, x)
  BY <1>2, <1>5, <1>9, HoldingLogged
<1>11. x.st = PS!Effect(w.st, PS!BlockOp("incref", t)) /\ Reaches(0, PS!Empty, x)
  BY <1>6, <1>9, Grows
<1>12. Registered(x.st, Top.cur, a)
  <2> DEFINE o == PS!BlockOp("incref", t)
             s == x.st
  <2>1. s = PS!Effect(w.st, o) /\ o.op = "incref" /\ PS!Token(o) = t
    BY <1>9, <1>11
  <2> HIDE DEF o, s
  <2>2. s.rev = w.st.rev \cup {t}
    BY <1>7, <2>1 DEF PS!Effect, PS!Reference, RS!States
  <2>3. QED BY <1>8, <2>2 DEF Registered, s
<1> HIDE DEF x
<1>13. Holding(Top.start, Now, x)
  <2>1. \A k \in 0 .. Top.start : k \in 0 .. Len(plan)
    BY <1>2
  <2>2. QED BY <1>10, <2>1 DEF Holding
<1>14. Later(st, x.st) /\ Len(x.plan) \in Nat /\ Len(plan) <= Len(x.plan)
  <2>1. Reaches(Len(plan), st, x)
    <3>1. Reaches(Len(plan), st, Now)
      BY <1>2, <1>4, Reached
    <3>2. QED BY <1>2, <1>10, <3>1 DEF Holding
  <2>2. Len(plan) \in 0 .. Len(x.plan) /\ Len(x.plan) \in Nat
    BY <2>1, Reached
  <2>3. QED BY <2>1, <2>2, ReachedLater
<1>15. Advanced(deps, excused, x.st, Top, Len(x.plan))
  <2>1. Advanced(deps, excused, st, Top, Len(plan))
    BY <1>1 DEF JInv, Turn
  <2>2. {e \in excused : e.at <= Len(plan)} \subseteq excused
    OBVIOUS
  <2>3. QED BY <1>2, <1>14, <2>1, <2>2, StillAdvanced
<1>16. Keeping(Top.start, excused, excused)
  BY <1>2, KeepingExcuses
<1>17. CASE Commit(x) /\ stack' = WithTop(ClauseDone(Top)) /\ UNCHANGED <<ctl, excused>>
  <2>1. st' = x.st /\ plan' = x.plan /\ excused' = excused /\ ctl'.at = "work"
    BY <1>1, <1>17 DEF Commit
  <2>2. Solved(excused', st', Top.cur, Head(Top.nodes), Len(plan'))
    BY <1>1, <1>12, <2>1 DEF Solved, a
  <2>3. QED BY <1>1, <1>13, <1>15, <1>16, <1>17, <2>1, <2>2, DoneHolds
<1>18. CASE /\ Commit(x) /\ UNCHANGED <<stack, excused>>
            /\ ctl' = Calling(Past[a], "none", stack[1].dbs, FALSE, "weak")
  <2>1. /\ st' = x.st /\ plan' = x.plan /\ excused' = excused /\ stack' = WithTop(Top)
        /\ ctl'.at = "call" /\ ctl'.why = "weak"
    BY <1>2, <1>18 DEF Commit, Calling
  <2>2. /\ Waiting(deps, excused', st', Top, ctl'.why, Len(plan'))
        /\ AskedFor(ctl'.why, ctl'.atom, Top)
    BY <1>1, <1>12, <1>15, <2>1 DEF Waiting, AskedFor, a
  <2>3. QED BY <1>1, <1>2, <1>13, <1>16, <1>18, <2>1, <2>2, TopHolds
<1>19. CASE NodeFails(x)
  <2>1. Top.start <= Len(x.plan)
    BY <1>2, <1>14
  <2>2. QED BY <1>1, <1>13, <1>14, <1>15, <1>19, <2>1, FailHolds
<1>20. QED BY <1>1, <1>17, <1>18, <1>19

\* The package of the frame on top is in the plan: its next step is taken up.
LEMMA InsertedHolds ==
    ASSUME IInv, JInv, stack # <<>>, ctl.at = "work", Top.cur # None,
           Program[Top.step] = "insert", NEW w, Holding(Len(plan), Now, w), Commit(w),
           stack' = WithTop(Entering(Top, Top.step + 1)), UNCHANGED <<ctl, excused>>,
           UNCHANGED <<world, asked, base>>, Top.cur \in w.st.slots
    PROVE  JInv'
<1> DEFINE f == Entering(Top, Top.step + 1)
<1>1. /\ Top \in FrameSet /\ Top.start \in Nat /\ Len(plan) \in Nat /\ Top.start <= Len(plan)
      /\ Now.st = st /\ Now.plan = plan /\ Sound(deps, excused, Top)
      /\ Trusted(excused) /\ \A e \in excused : e.at \in Nat
  BY TopKnown
<1>2. Top.step = 5 /\ Top.step + 1 = 6
  <2>1. Top.step \in 1 .. 7
    BY <1>1 DEF FrameSet
  <2>2. QED BY <2>1 DEF Program
<1>3. Later(st, w.st) /\ Len(w.plan) \in Nat /\ Len(plan) <= Len(w.plan)
  <2>1. Reaches(Len(plan), st, w)
    <3>1. Reaches(0, PS!Empty, Now)
      BY NowReached DEF IInv
    <3>2. Reaches(Len(plan), st, Now)
      BY <1>1, <3>1, Reached
    <3>3. QED BY <1>1, <3>2 DEF Holding
  <2>2. Len(plan) \in 0 .. Len(w.plan) /\ Len(w.plan) \in Nat
    BY <2>1, Reached
  <2>3. QED BY <2>1, <2>2, ReachedLater
<1>4. Advanced(deps, excused, w.st, Top, Len(w.plan))
  <2>1. Advanced(deps, excused, st, Top, Len(plan))
    BY DEF JInv, Turn
  <2>2. {e \in excused : e.at <= Len(plan)} \subseteq excused
    OBVIOUS
  <2>3. QED BY <1>1, <1>3, <2>1, <2>2, StillAdvanced
<1>5. ToBuild(Top) => \A j \in {1, 2} : j < 6 => \A c \in Needs(deps, Top.cur, j) :
                        \E a \in c : Solved(excused, w.st, Top.cur, a, Len(w.plan))
  BY <1>2, <1>4 DEF Advanced
<1>6. Sound(deps, excused, f) /\ Advanced(deps, excused, w.st, f, Len(w.plan))
  <2>1. 6 \in 1 .. 7 /\ Top.start <= Len(w.plan) /\ Top.cur \in w.st.slots \cup w.st.filter
    BY <1>1, <1>3
  <2>2. QED BY <1>1, <1>2, <1>3, <1>5, <2>1, EnteringAdvanced
<1>7. f \in FrameSet /\ Kept(Top, f) /\ Working(f)
  <2>1. Top.step + 1 \in 1 .. 7
    BY <1>2
  <2>2. QED BY <1>1, <2>1, EnteringTyped
<1>8. stack' = WithTop(f)
  OBVIOUS
<1> HIDE DEF f
<1>9. Holding(Top.start, Now, w) /\ Keeping(Top.start, excused, excused')
  <2>1. \A k \in 0 .. Top.start : k \in 0 .. Len(plan)
    BY <1>1
  <2>2. QED BY <1>1, <2>1, KeepingExcuses DEF Holding
<1>10. st' = w.st /\ plan' = w.plan /\ excused' = excused /\ ctl'.at = "work"
  BY DEF Commit
<1>11. QED BY <1>6, <1>7, <1>8, <1>9, <1>10, TopHolds

\* insert_choice: put in, found to be in, forced, put in the place of another, or
\* refused.
LEMMA InsertHolds == ASSUME IInv, JInv, Insert PROVE JInv'
<1> DEFINE ps == IF Top.cur \in Livefs THEN {} ELSE SlotMates
           w == Loaded(ps)
           limiting == PS!Limiting(w.st, Top.cur)
           occupants == PS!Occupants(w.st, Top.cur)
           k == Top.step + 1
           back == Backtracked(w, Top.start)
           forced == Forced(back.st, Top)
<1>1. /\ ctl.at = "work" /\ Top.cur # None /\ Program[Top.step] = "insert" /\ InBounds
      /\ UNCHANGED <<world, asked, base>>
  BY DEF Insert
<1>2. \/ /\ limiting \cup occupants = {}
         /\ Commit(Logged(w, PS!AddOp(Here, FALSE)))
         /\ stack' = WithTop(Entering(Top, k))
         /\ UNCHANGED <<ctl, excused>>
      \/ /\ (\E q \in occupants : Same(q)) \/ HeldIn(w.st, Top.atom) # {}
         /\ Commit(w) /\ Leave(TRUE) /\ UNCHANGED excused
      \/ /\ Commit(back) /\ stack' = WithTop(Retried(forced)) /\ UNCHANGED ctl
         /\ excused' = {e \in excused : e.at <= Top.start}
                         \cup {Excuse(forced.cur, a, "met", Top.start) : a \in Atoms}
      \/ /\ limiting = {} /\ occupants \subseteq Livefs /\ Top.cur \notin Livefs
         /\ \E old \in occupants : Commit(Replaced(w, old))
         /\ stack' = WithTop(Entering(Top, k))
         /\ UNCHANGED <<ctl, excused>>
      \/ ctl' = At("raised") /\ UNCHANGED <<st, plan, stack, excused>>
  BY ZenonT(60) DEF Insert
<1>3. stack # <<>>
  BY <1>1 DEF IInv, Control
<1>4. /\ Top \in FrameSet /\ Top.start \in Nat /\ Len(plan) \in Nat /\ Top.start <= Len(plan)
      /\ Now.st = st /\ Now.plan = plan /\ Sound(deps, excused, Top)
      /\ Trusted(excused) /\ (\A e \in excused : e.at \in Nat) /\ Worldly
  BY <1>3, TopKnown
<1>5. Here \in ChoicePoints /\ Here.pkg = Top.cur /\ Top.cur \in Pkgs
  BY <1>1, <1>3, HereMade DEF IInv
<1>6. Reaches(0, PS!Empty, Now) /\ made \in Nat
  BY NowReached DEF IInv, Typed
<1> HIDE DEF ps
<1>7. Holding(Len(plan), Now, w)
  BY <1>1, <1>4, <1>6, HoldingLoaded
<1>8. Reaches(0, PS!Empty, w)
  BY <1>4, <1>6, <1>7 DEF Holding
<1> HIDE DEF w, limiting, back, forced
<1>9. InOrder(w.st, Len(w.plan)) /\ Len(w.plan) \in Nat /\ w.st \in RS!States
  BY <1>8, Reached
<1>10. Holding(Top.start, Now, w) /\ Top.start <= Len(w.plan)
  <2>1. \A j \in 0 .. Top.start : j \in 0 .. Len(plan)
    BY <1>4
  <2>2. Holding(Top.start, Now, w)
    BY <1>7, <2>1 DEF Holding
  <2>3. Reaches(Len(plan), st, Now)
    BY <1>4, <1>6, Reached
  <2>4. Reaches(Len(plan), st, w)
    BY <1>4, <1>7, <2>3 DEF Holding
  <2>5. Len(plan) \in 0 .. Len(w.plan)
    BY <2>4, Reached
  <2>6. QED BY <1>4, <1>9, <2>2, <2>5
<1>11. CASE /\ limiting \cup occupants = {}
            /\ Commit(Logged(w, PS!AddOp(Here, FALSE)))
            /\ stack' = WithTop(Entering(Top, k))
            /\ UNCHANGED <<ctl, excused>>
  <2> DEFINE o == PS!AddOp(Here, FALSE)
             x == Logged(w, o)
  <2>1. occupants = {}
    BY <1>11
  <2>2. Applicable(w.st, o, Len(w.plan))
    BY <1>1, <1>3, <2>1, InsertApplies DEF ps, w
  <2>3. o.op = "add" /\ o.p = Top.cur
    BY <1>5 DEF PS!AddOp, PS!Op
  <2> HIDE DEF o
  <2>4. Holding(Len(plan), Now, x)
    BY <1>4, <1>7, <2>2, HoldingLogged
  <2>5. x.st = PS!Effect(w.st, o)
    BY <1>8, <2>2, Grows
  <2>6. Top.cur \in PS!Effect(w.st, o).slots
    BY <1>9, <2>3 DEF PS!Effect, PS!Seat, RS!States
  <2>7. Commit(x)
    BY <1>11 DEF o
  <2> HIDE DEF x
  <2>8. QED BY <1>1, <1>3, <1>11, <2>4, <2>5, <2>6, <2>7, InsertedHolds
<1>12. CASE /\ (\E q \in occupants : Same(q)) \/ HeldIn(w.st, Top.atom) # {}
            /\ Commit(w) /\ Leave(TRUE) /\ UNCHANGED excused
  <2>1. InPlace(w.st, Top.atom)
    <3>1. CASE \E q \in occupants : Same(q)
      <4>1. PICK q \in occupants : Same(q)
        BY <3>1
      <4>2. q \in w.st.slots /\ q \in Matches[Top.atom]
        BY <4>1 DEF PS!Occupants, Same
      <4>3. QED BY <4>2 DEF InPlace
    <3>2. CASE HeldIn(w.st, Top.atom) # {}
      BY <3>2 DEF HeldIn, InPlace
    <3>3. QED BY <1>12, <3>1, <3>2
  <2>2. Obtained(Owner, st', excused', Top.atom, Len(plan')) /\ Commit(w)
    BY <1>12, <2>1 DEF Obtained, Commit
  <2>3. Keeping(Top.start, excused, excused')
    BY <1>4, <1>12, KeepingExcuses
  <2> DEFINE ok == TRUE
  <2>4. ok \in BOOLEAN /\ Leave(ok)
    BY <1>12
  <2> HIDE DEF ok
  <2>5. QED BY <1>1, <1>3, <1>10, <2>2, <2>3, <2>4, LeftHolds
<1>13. CASE /\ Commit(back) /\ stack' = WithTop(Retried(forced)) /\ UNCHANGED ctl
            /\ excused' = {e \in excused : e.at <= Top.start}
                            \cup {Excuse(forced.cur, a, "met", Top.start) : a \in Atoms}
  <2>1. Holding(Top.start, Now, back)
    BY <1>4, <1>9, <1>10, HoldingBack DEF back
  <2>2. Keeping(Top.start, excused, excused')
    <3>1. \A a : Excuse(forced.cur, a, "met", Top.start).at \in Nat
                 /\ Excuse(forced.cur, a, "met", Top.start).what \in {"first", "met"}
      BY <1>4 DEF Excuse
    <3>2. QED BY <1>4, <1>13, <3>1 DEF Keeping, Trusted
  <2>3. forced \in FrameSet /\ Kept(Top, forced)
    BY <1>3, WorldTyped, <1>4, ForcedTyped DEF IInv, forced
  <2>4. \A a \in Atoms : Granted(excused', forced.cur, a, Top.start)
    <3>1. \A a : LET e == Excuse(forced.cur, a, "met", Top.start) IN
                 e.pkg = forced.cur /\ e.atom = a /\ e.at <= Top.start
      BY <1>4 DEF Excuse
    <3>2. QED BY <1>13, <3>1 DEF Granted
  <2>5. Sound(deps, excused', forced)
    <3>1. Picked(Top) /\ Divided(Top)
      BY <1>4 DEF Sound
    <3>2. QED BY <1>4, <2>4, <3>1, ForcedSound DEF forced
  <2>6. /\ Retried(forced) \in FrameSet /\ Kept(Top, Retried(forced)) /\ Working(Retried(forced))
    BY <2>3, RetriedTyped DEF Kept
  <2>7. Len(plan') \in Nat /\ Top.start <= Len(plan')
    BY <1>3, <1>13, <2>1, NowBecomes DEF IInv
  <2>8. forced.start <= Len(plan') /\ \A e \in excused' : e.at \in Nat
    BY <2>2, <2>3, <2>7 DEF Kept, Keeping, Trusted
  <2>9. /\ Sound(deps, excused', Retried(forced))
        /\ Advanced(deps, excused', st', Retried(forced), Len(plan'))
    BY <2>3, <2>5, <2>7, <2>8, RetriedAdvanced
  <2>10. ctl'.at = "work"
    BY <1>1, <1>13
  <2>11. QED BY <1>1, <1>3, <1>13, <2>1, <2>2, <2>6, <2>9, <2>10, TopHolds
<1>14. CASE /\ limiting = {} /\ occupants \subseteq Livefs /\ Top.cur \notin Livefs
            /\ \E old \in occupants : Commit(Replaced(w, old))
            /\ stack' = WithTop(Entering(Top, k))
            /\ UNCHANGED <<ctl, excused>>
  <2>1. PICK old \in occupants : Commit(Replaced(w, old))
    BY <1>14
  <2>2. old \in Livefs /\ PS!Occupants(w.st, Here.pkg) = {old}
    <3>1. old \in Livefs
      BY <1>14
    <3>2. \A q, r \in occupants : q = r
      BY <1>9 DEF InOrder, RS!StateOK, PS!Occupants
    <3>3. QED BY <1>5, <3>1, <3>2
  <2> DEFINE x == Replaced(w, old)
  <2>3. Here.pkg \notin Livefs
    BY <1>5, <1>14
  <2>4. Holding(Len(plan), Now, x)
    BY <1>4, <1>5, <1>7, <2>2, <2>3, HoldingReplaced
  <2>5. Top.cur \in x.st.slots
    BY <1>5, <1>8, <2>2, <2>3, ReplacedAll
  <2>6. Commit(x)
    BY <2>1
  <2> HIDE DEF x
  <2>7. QED BY <1>1, <1>3, <1>14, <2>4, <2>5, <2>6, InsertedHolds
<1>15. CASE ctl' = At("raised") /\ UNCHANGED <<st, plan, stack, excused>>
  <2>1. ctl'.at = "raised"
    BY <1>15, Stood
  <2>2. UNCHANGED <<deps, opts, asked, base>> /\ Now' = Now
    BY <1>1, <1>15 DEF world, Now
  <2>3. Chain'
    BY <1>15, <2>2 DEF JInv, Chain
  <2>4. Turn'
    BY <2>1 DEF Turn
  <2>5. Progress'
    BY <1>15, <2>1, <2>2 DEF JInv, Progress
  <2>6. QED BY <2>3, <2>4, <2>5 DEF JInv
<1>16. QED BY <1>2, <1>11, <1>12, <1>13, <1>14, <1>15

LEMMA NextHolds == IInv /\ JInv /\ [Next]_vars => JInv'
<1> SUFFICES ASSUME IInv, JInv, [Next]_vars PROVE JInv'
  OBVIOUS
<1>1. CASE Begin \/ Request \/ Resolved \/ ReturnToRequest
  BY <1>1, BeginHolds, RequestHolds, ResolvedHolds, ReturnToRequestHolds
<1>2. CASE NotViable \/ PreSolved \/ Viable
  BY <1>2, NotViableHolds, PreSolvedHolds, ViableHolds
<1>3. CASE NoCycle \/ CycleSatisfied \/ LimitToVdb
  BY <1>3, NoCycleHolds, CycleSatisfiedHolds, LimitToVdbHolds
<1>4. CASE NextClause \/ TryAtom \/ TryBlocker
  BY <1>4, NextClauseHolds, TryAtomHolds, TryBlockerHolds
<1>5. CASE Insert \/ Succeed \/ RunOut
  BY <1>5, InsertHolds, SucceedHolds, RunOutHolds
<1>6. CASE ReturnToNode \/ ReturnToBlocker \/ ReturnToRepeated
  BY <1>6, ReturnToNodeHolds, ReturnToBlockerHolds, ReturnToRepeatedHolds
<1>7. CASE UNCHANGED vars
  <2>1. UNCHANGED <<deps, opts, st, plan, stack, ctl, asked, excused, base>>
    BY <1>7 DEF vars, world, search
  <2>2. Now' = Now /\ Top' = Top /\ Owner' = Owner
    BY <2>1 DEF Now, Top, Owner, Owners
  <2>3. Chain'
    BY <2>1, <2>2 DEF JInv, Chain
  <2>4. Turn'
    BY <2>1, <2>2 DEF JInv, Turn
  <2>5. Progress'
    BY <2>1 DEF JInv, Progress
  <2>6. QED BY <2>3, <2>4, <2>5 DEF JInv
<1>8. QED BY <1>1, <1>2, <1>3, <1>4, <1>5, <1>6, <1>7 DEF Next

\* What is solved is met: a registered blocker is counted.
LEMMA SolvedMet ==
    ASSUME IInv, Trusted(excused), NEW p, NEW a \in Atoms, NEW n, Solved(excused, st, p, a, n)
    PROVE  Met(p, a, {"first", "met"})
<1>1. CASE Granted(excused, p, a, n)
  BY <1>1 DEF Granted, Trusted, Met, Excused
<1>2. CASE a \in Blockers /\ Registered(st, p, a)
  <2>1. IsFiniteSet(st.rev) /\ st.refcnt[a] = Cardinality(RS!Of(st.rev, a))
    <3>1. RS!Books(st)
      BY NowReached DEF IInv, InOrder, RS!StateOK
    <3>2. QED BY <3>1 DEF RS!Books, RS!Cardinality, Cardinality, RS!IsFiniteSet, IsFiniteSet
  <2> DEFINE R == RS!Of(st.rev, a)
  <2>2. R \subseteq st.rev /\ R # {}
    BY <1>2 DEF Registered, RS!Of
  <2> HIDE DEF R
  <2>3. IsFiniteSet(R) /\ Cardinality(R) \in Nat /\ Cardinality(R) # 0
    BY <2>1, <2>2, FS_Subset, FS_CardinalityType, FS_EmptySet
  <2>4. st.refcnt[a] > 0
    BY <2>1, <2>3 DEF R
  <2>5. QED BY <1>2, <2>4 DEF Met
<1>3. CASE a \notin Blockers /\ InPlace(st, a)
  BY <1>3 DEF InPlace, Met, Held, HeldIn, Displaced
<1>4. QED BY <1>1, <1>2, <1>3 DEF Solved

\* A package is put in when the clauses of the steps before have been worked off.
LEMMA InsertFindsBuildDeps ==
    ASSUME IInv, JInv, Insert, Top.cur \notin Built, ctl.at = "work",
           NEW clause \in deps[Top.cur].depend \cup deps[Top.cur].bdepend
    PROVE  \E a \in clause : Met(Top.cur, a, {"first", "met"})
<1>1. Top.cur # None /\ Program[Top.step] = "insert" /\ stack # <<>>
  BY DEF Insert, IInv, Control
<1>2. Top \in FrameSet /\ Trusted(excused) /\ Worldly
  BY <1>1, TopKnown
<1>3. Top.step = 5
  <2>1. Top.step \in 1 .. 7
    BY <1>2 DEF FrameSet
  <2>2. QED BY <1>1, <2>1 DEF Program
<1>4. PICK k \in {1, 2} : clause \in Needs(deps, Top.cur, k)
  BY FirstSteps DEF Needs
<1>5. \E a \in clause : Solved(excused, st, Top.cur, a, Len(plan))
  <2>1. Advanced(deps, excused, st, Top, Len(plan)) /\ ToBuild(Top)
    BY <1>1 DEF JInv, Turn, ToBuild
  <2>2. ~(Top.step < k) /\ Top.step # k
    BY <1>3
  <2>3. QED BY <1>4, <2>1, <2>2 DEF Advanced
<1>6. clause \in SUBSET Atoms
  <2>1. Top.cur \in Pkgs
    BY <1>1, <1>2 DEF FrameSet
  <2>2. deps[Top.cur] \in [Attrs -> SUBSET SUBSET Atoms]
    BY <1>2, <2>1 DEF Worldly
  <2>3. Program[k] \in Attrs /\ clause \in deps[Top.cur][Program[k]]
    BY <1>4, FirstSteps DEF Needs
  <2>4. QED BY <2>2, <2>3
<1>7. QED BY <1>2, <1>5, <1>6, SolvedMet

\* A blocker brings in installed packages, or takes the plan back: no other enters.
LEMMA BlockerAddsInstalled ==
    ASSUME IInv, JInv, TryBlocker
    PROVE  st'.slots \ st.slots \subseteq Livefs
<1> DEFINE a == Head(Top.nodes)
           ps == IF Top.cur \in Livefs THEN {} ELSE Matches[a]
           w == Loaded(ps)
           t == [c |-> Here, a |-> a, n |-> Len(w.plan) + 1]
           x == Logged(w, PS!BlockOp("incref", t))
<1>1. /\ ctl.at = "work" /\ stack # <<>> /\ Top.nodes # <<>> /\ a \in Blockers /\ InBounds
      /\ Commit(x) \/ NodeFails(x)
  BY ZenonT(60) DEF TryBlocker, IInv, Control
<1>2. /\ Top \in FrameSet /\ Working(Top) /\ Top.start \in Nat
      /\ Len(plan) \in Nat /\ Top.start <= Len(plan) /\ Now.plan = plan
  BY <1>1, TopKnown
<1>3. Here \in ChoicePoints
  BY <1>1, <1>2, HereMade DEF IInv, Working
<1>4. Reaches(0, PS!Empty, Now) /\ made \in Nat /\ st.filter \subseteq Livefs
  BY NowReached DEF IInv, Typed, InOrder, RS!StateOK
<1>5. /\ Reaches(0, PS!Empty, w) /\ w.st.slots \ st.slots \subseteq Livefs
      /\ w.st.filter \subseteq Livefs /\ Len(plan) <= Len(w.plan)
  <2> HIDE DEF ps
  <2>1. Loads(ps) \subseteq Livefs
    BY DEF Loads
  <2>2. /\ Reaches(0, PS!Empty, Loaded(ps)) /\ Loaded(ps).st.slots = st.slots \cup Loads(ps)
        /\ Loaded(ps).st.filter = st.filter /\ Len(plan) <= Len(Loaded(ps).plan)
    BY <1>1, <1>4, LoadedAll
  <2>3. QED BY <1>4, <2>1, <2>2
<1> HIDE DEF a, ps
<1> HIDE DEF w
<1>6. InOrder(w.st, Len(w.plan)) /\ Len(w.plan) \in Nat /\ w.st \in RS!States
  BY <1>5, Reached
<1>7. t \in RS!Tokens /\ t.a = a /\ t.n = Len(w.plan) + 1
  BY <1>1, <1>3, <1>6, ConstantsAssumption DEF RS!Tokens
<1> HIDE DEF t
<1> DEFINE o == PS!BlockOp("incref", t)
<1>8. Applicable(w.st, o, Len(w.plan)) /\ o.op = "incref"
  BY <1>1, <1>6, <1>7, BlockApplies
<1> HIDE DEF o
<1>9. /\ x.st = PS!Effect(w.st, o) /\ Reaches(0, PS!Empty, x)
      /\ Len(x.plan) = Len(w.plan) + 1
  BY <1>5, <1>8, Grows DEF o
<1>10. x.st.slots = w.st.slots /\ x.st.filter = w.st.filter
  BY <1>6, <1>8, <1>9 DEF PS!Effect, PS!Reference, RS!States
<1> HIDE DEF x
<1>11. x.st.slots \ st.slots \subseteq Livefs
  BY <1>5, <1>10
<1>12. CASE Commit(x)
  BY <1>11, <1>12 DEF Commit
<1>13. CASE Commit(Backtracked(x, Top.start))
  <2>1. Top.start \in 0 .. Len(x.plan)
    BY <1>2, <1>5, <1>6, <1>9
  <2>2. Later(Backtracked(x, Top.start).st, x.st)
    BY <1>9, <2>1, BackLater
  <2>3. st' = Backtracked(x, Top.start).st
    BY <1>13 DEF Commit
  <2>4. QED BY <1>5, <1>10, <1>11, <2>2, <2>3 DEF Later
<1>14. NodeFails(x) => Commit(x) \/ Commit(Backtracked(x, Top.start))
  BY ZenonT(60) DEF NodeFails, BacktrackTo
<1>15. QED BY <1>1, <1>12, <1>13, <1>14

LEMMA StepsBuildDepsFirst ==
    ASSUME IInv, JInv, IInv', [Next]_vars,
           NEW p \in st'.slots \ st.slots, ctl.at = "work", Top.cur = p, p \notin Built,
           NEW clause \in deps[p].depend \cup deps[p].bdepend
    PROVE  \E a \in clause : Met(p, a, {"first", "met"})
<1>1. p \in Pkgs
  <2>1. Reaches(0, PS!Empty, Now') /\ Now'.st = st'
    BY DEF IInv, Logs, Now
  <2>2. st' \in RS!States
    BY <2>1, Reached
  <2>3. QED BY <2>2 DEF RS!States
<1>2. CASE Insert
  BY <1>2, InsertFindsBuildDeps
<1>3. CASE TryBlocker
  BY <1>3, BlockerAddsInstalled, ConstantsAssumption
<1>4. CASE RunOut
  BY <1>1, <1>4, ConstantsAssumption DEF RunOut
<1>5. CASE NextClause \/ TryAtom \/ Succeed \/ UNCHANGED vars
  BY <1>5 DEF NextClause, TryAtom, Succeed, vars
<1>6. CASE \/ Begin \/ Request \/ Resolved \/ NotViable \/ PreSolved \/ Viable
           \/ NoCycle \/ CycleSatisfied \/ LimitToVdb
           \/ ReturnToRequest \/ ReturnToNode \/ ReturnToBlocker \/ ReturnToRepeated
  <2>1. ctl.at # "work"
    BY <1>6 DEF Begin, Request, Resolved, NotViable, PreSolved, Viable, NoCycle,
                CycleSatisfied, LimitToVdb, ReturnToRequest, ReturnToNode, ReturnToBlocker,
                ReturnToRepeated
  <2>2. QED BY <2>1
<1>7. QED BY <1>2, <1>3, <1>4, <1>5, <1>6 DEF Next

-----------------------------------------------------------------------------
\* Of the resolver: at every step the log leads to the working state, through the
\* base of the request, and no frame goes back behind it (_rec_add_atom, backtrack).
THEOREM SearchInvariant == Spec => []IInv
BY Inits, NextKeeps, PTL DEF Spec

\* Of the resolver (run resolver): every variable holds what the code puts there,
\* and each frame remembers a length the log had when the frames below it began.
THEOREM TypeCorrect == Spec => []TypeOK
<1>1. ASSUME IInv PROVE TypeOK
  <2>1. st \in PS!States /\ plan \in Seq(PS!Ops)
    BY <1>1, NowReached, SameSets DEF IInv
  <2>2. ctl.at \in {"start", "next", "call", "cycles", "work", "return", "resolved",
                    "failed", "raised"}
    BY <1>1 DEF IInv, Typed, Calls, Returns, Others
  <2>3. ASSUME NEW i \in DOMAIN stack
        PROVE  /\ stack[i].atom \in Atoms
               /\ stack[i].mode \in Modes
               /\ stack[i].dbs \in {"all", "livefs"}
               /\ stack[i].why \in Whys
               /\ stack[i].cur \in Pkgs \cup {None}
               /\ stack[i].start <= Len(plan)
               /\ i > 1 => stack[i - 1].start <= stack[i].start
    <3>1. stack[i] \in FrameSet /\ DOMAIN stack = 1 .. Len(stack) /\ Len(stack) \in Nat
      BY <1>1, LenProperties DEF IInv, Frames
    <3>2. i > 1 => i - 1 \in DOMAIN stack /\ i - 1 <= i
      BY <3>1
    <3>3. stack[i].start <= Len(plan) /\ (i > 1 => stack[i - 1].start <= stack[i].start)
      BY <1>1, <3>2 DEF IInv, Frames
    <3>4. QED BY <3>1, <3>3 DEF FrameSet
  <2>4. QED BY <1>1, <2>1, <2>2, <2>3 DEF IInv, Typed, TypeOK
<1>2. QED BY <1>1, SearchInvariant, PTL

\* Of the resolver: each frame's package has, of what it needs to be built, solved
\* what its steps so far were for, in the state its callee started from, and every
\* request taken up before has its package in place (_rec_add_atom, add_atoms).
THEOREM SearchProgress == Spec => [](IInv /\ JInv)
<1>1. Init => IInv /\ JInv
  BY Inits, InitHolds
<1>2. IInv /\ JInv /\ [Next]_vars => IInv' /\ JInv'
  BY NextKeeps, NextHolds
<1>3. QED BY <1>1, <1>2, PTL DEF Spec

\* Of the resolver (run resolver): a resolution that succeeds has a package for every
\* request in the plan or replaced by it, one that fails leaves the working state as
\* the request found it, and what is struck out as insoluble has no match
\* (add_atoms, _rec_add_atom, state_op backtracking).
THEOREM AnswersCorrect == Spec => []AnswersHold
<1>1. IInv /\ JInv => AnswersHold
  <2> SUFFICES ASSUME IInv, JInv PROVE AnswersHold
    OBVIOUS
  <2>1. FailureLeavesNoTrace
    BY DEF IInv, Control, Unmatched, FailureLeavesNoTrace
  <2>2. RequestsAreMet
    <3> SUFFICES ASSUME ctl.at = "resolved", NEW i \in DOMAIN opts.requests
                 PROVE  Held(opts.requests[i]) # {} \/ Displaced(opts.requests[i])
      BY DEF RequestsAreMet
    <3>1. asked = Len(opts.requests) /\ \A j \in 1 .. asked : InPlace(st, opts.requests[j])
      BY DEF JInv, Progress
    <3>2. i \in 1 .. asked
      <4>1. opts.requests \in Seq(Atoms)
        BY WorldTyped DEF IInv
      <4>2. QED BY <3>1, <4>1, LenProperties
    <3>3. QED BY <3>1, <3>2 DEF InPlace, Held, HeldIn, Displaced
  <2>3. QED BY <2>1, <2>2 DEF AnswersHold
<1>2. QED BY <1>1, SearchProgress, PTL

\* Of the resolver (run resolver): when a package that is neither installed nor binary
\* enters the plan, each clause of depend and bdepend has an atom that is met there,
\* or was excused to break a cycle (insert_choice after process_dependencies).
THEOREM BuildDepsFirst == Spec => BuildDepsComeFirst
<1>1. IInv /\ JInv /\ IInv' /\ [Next]_vars =>
        \A p \in st'.slots \ st.slots :
          ctl.at = "work" /\ Top.cur = p /\ p \notin Built =>
            \A clause \in deps[p].depend \cup deps[p].bdepend :
              \E a \in clause : Met(p, a, {"first", "met"})
  BY StepsBuildDepsFirst
<1>2. QED BY <1>1, SearchProgress, PTL DEF Spec, BuildDepsComeFirst
=============================================================================
