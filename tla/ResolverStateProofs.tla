------------------------ MODULE ResolverStateProofs ------------------------
(***************************************************************************)
(* Proofs about PlanState and ChoicePoint, the two kinds of state the      *)
(* resolver keeps, for every instance.  The core is that undoing           *)
(* an operation gives back the state it was applied to (UndoEffect).  It   *)
(* needs the three books on blockers to agree, one package per slot, and   *)
(* the two assumptions under which no call raises, Interned and            *)
(* NoSelfBlock.                                                            *)
(***************************************************************************)
EXTENDS PlanState, ChoicePoint, FiniteSetTheorems, SequenceTheorems, TLAPS

\* The tokens of an atom.
Of(R, a) == {t \in R : t.a = a}

\* BooksAgree, of any state.
Books(s) ==
    /\ IsFiniteSet(s.rev)
    /\ \A a \in Atoms :
         /\ s.refcnt[a] = Cardinality(Of(s.rev, a))
         /\ (s.limiters[a] # None) <=> (s.refcnt[a] > 0)

-----------------------------------------------------------------------------
\* Adding a token to a finite set of them counts one more of its atom.
LEMMA HeldAdd ==
    ASSUME NEW R, IsFiniteSet(R), NEW t, t \notin R, NEW a
    PROVE  /\ IsFiniteSet(R \cup {t})
           /\ Cardinality(Of(R, a)) \in Nat
           /\ Cardinality(Of(R \cup {t}, a)) =
                IF t.a = a THEN Cardinality(Of(R, a)) + 1
                           ELSE Cardinality(Of(R, a))
<1>1. IsFiniteSet(Of(R, a)) /\ Cardinality(Of(R, a)) \in Nat
  BY FS_Subset, FS_CardinalityType DEF Of
<1>2. IsFiniteSet(R \cup {t})
  BY FS_AddElement
<1>3. CASE t.a = a
  <2>1. Of(R \cup {t}, a) = Of(R, a) \cup {t} /\ t \notin Of(R, a)
    BY <1>3 DEF Of
  <2>2. Cardinality(Of(R, a) \cup {t}) = Cardinality(Of(R, a)) + 1
    BY <1>1, <2>1, FS_AddElement
  <2>3. QED BY <1>1, <1>2, <1>3, <2>1, <2>2
<1>4. CASE t.a # a
  <2>1. Of(R \cup {t}, a) = Of(R, a)
    BY <1>4 DEF Of
  <2>2. QED BY <1>1, <1>2, <1>4, <2>1
<1>5. QED BY <1>3, <1>4

\* Taking a token away counts one less, of an atom that was counted.
LEMMA HeldRemove ==
    ASSUME NEW R, IsFiniteSet(R), NEW t \in R, NEW a
    PROVE  /\ IsFiniteSet(R \ {t})
           /\ Cardinality(Of(R, a)) \in Nat
           /\ t.a = a => Cardinality(Of(R, a)) > 0
           /\ Cardinality(Of(R \ {t}, a)) =
                IF t.a = a THEN Cardinality(Of(R, a)) - 1
                           ELSE Cardinality(Of(R, a))
<1> DEFINE S == R \ {t}
<1>1. IsFiniteSet(S) /\ t \notin S /\ S \cup {t} = R
  BY FS_Subset
<1>2. /\ Cardinality(Of(S, a)) \in Nat
      /\ Cardinality(Of(S \cup {t}, a)) =
           IF t.a = a THEN Cardinality(Of(S, a)) + 1
                      ELSE Cardinality(Of(S, a))
  BY <1>1, HeldAdd
<1>3. Cardinality(Of(R, a)) =
           IF t.a = a THEN Cardinality(Of(S, a)) + 1
                      ELSE Cardinality(Of(S, a))
  BY <1>1, <1>2
<1> HIDE DEF S
<1>4. QED BY <1>1, <1>2, <1>3 DEF S

BlockerOp(o) == o \in Ops /\ o.c \in Choices /\ o.a \in Atoms

\* The token of a blocker operation names its choice, atom and number.
LEMMA TokenType ==
    ASSUME NEW o, BlockerOp(o)
    PROVE  /\ Token(o) \in Tokens
           /\ Token(o).a = o.a /\ Token(o).c = o.c /\ Token(o).n = o.n
           /\ TagOf[o.c] \in Tags /\ TagOf[o.c] # None
BY ConstantsAssumption DEF BlockerOp, Token, Tokens, Ops, Tags

\* A reference keeps the state well typed and changes three of its parts.
LEMMA ReferenceFields ==
    ASSUME NEW s \in States, NEW o, BlockerOp(o)
    PROVE  LET u == Reference(s, o) IN
           /\ u \in States
           /\ u.slots = s.slots /\ u.choice = s.choice
           /\ u.filter = s.filter /\ u.hard = s.hard
           /\ u.rev = s.rev \cup {Token(o)}
           /\ u.refcnt = [s.refcnt EXCEPT ![o.a] = @ + 1]
           /\ u.limiters = [s.limiters EXCEPT ![o.a] =
                              IF s.refcnt[o.a] = 0 THEN TagOf[o.c] ELSE @]
<1>1. /\ s.rev \cup {Token(o)} \in SUBSET Tokens
      /\ [s.refcnt EXCEPT ![o.a] = @ + 1] \in [Atoms -> Nat]
      /\ [s.limiters EXCEPT ![o.a] =
            IF s.refcnt[o.a] = 0 THEN TagOf[o.c] ELSE @]
           \in [Atoms -> Tags \cup {None}]
  BY TokenType DEF States, BlockerOp
<1>2. QED BY <1>1 DEF Reference, States

\* ... and so does giving a reference up.
LEMMA UnreferenceFields ==
    ASSUME NEW s \in States, NEW o, BlockerOp(o), s.refcnt[o.a] > 0
    PROVE  LET u == Unreference(s, o) IN
           /\ u \in States
           /\ u.slots = s.slots /\ u.choice = s.choice
           /\ u.filter = s.filter /\ u.hard = s.hard
           /\ u.rev = s.rev \ {Token(o)}
           /\ u.refcnt = [s.refcnt EXCEPT ![o.a] = @ - 1]
           /\ u.limiters = [s.limiters EXCEPT ![o.a] =
                              IF s.refcnt[o.a] = 1 THEN None ELSE @]
<1>1. /\ s.rev \ {Token(o)} \in SUBSET Tokens
      /\ [s.refcnt EXCEPT ![o.a] = @ - 1] \in [Atoms -> Nat]
      /\ [s.limiters EXCEPT ![o.a] =
            IF s.refcnt[o.a] = 1 THEN None ELSE @]
           \in [Atoms -> Tags \cup {None}]
  BY TokenType DEF States, BlockerOp
<1>2. QED BY <1>1 DEF Unreference, States

\* A new reference keeps counts and limiters in agreement.
LEMMA ReferenceBooks ==
    ASSUME NEW s \in States, Books(s), NEW o, BlockerOp(o),
           Token(o) \notin s.rev
    PROVE  Books(Reference(s, o))
<1> DEFINE u == Reference(s, o)
<1>1. /\ u.rev = s.rev \cup {Token(o)}
      /\ u.refcnt = [s.refcnt EXCEPT ![o.a] = @ + 1]
      /\ u.limiters = [s.limiters EXCEPT ![o.a] =
                         IF s.refcnt[o.a] = 0 THEN TagOf[o.c] ELSE @]
      /\ s.refcnt \in [Atoms -> Nat]
      /\ s.limiters \in [Atoms -> Tags \cup {None}]
  BY ReferenceFields DEF States
<1> HIDE DEF u
<1>2. IsFiniteSet(u.rev)
  BY <1>1, FS_AddElement DEF Books
<1>3. ASSUME NEW a \in Atoms
      PROVE  /\ u.refcnt[a] = Cardinality(Of(u.rev, a))
             /\ (u.limiters[a] # None) <=> (u.refcnt[a] > 0)
  <2>1. /\ s.refcnt[a] = Cardinality(Of(s.rev, a))
        /\ (s.limiters[a] # None) <=> (s.refcnt[a] > 0)
        /\ IsFiniteSet(s.rev)
    BY DEF Books
  <2>2. Cardinality(Of(u.rev, a)) =
          IF Token(o).a = a THEN Cardinality(Of(s.rev, a)) + 1
                            ELSE Cardinality(Of(s.rev, a))
    <3>1. Cardinality(Of(s.rev \cup {Token(o)}, a)) =
            IF Token(o).a = a THEN Cardinality(Of(s.rev, a)) + 1
                              ELSE Cardinality(Of(s.rev, a))
      <4>1. \A R, t : IsFiniteSet(R) /\ t \notin R =>
              Cardinality(Of(R \cup {t}, a)) =
                IF t.a = a THEN Cardinality(Of(R, a)) + 1
                           ELSE Cardinality(Of(R, a))
        BY HeldAdd
      <4>2. QED BY <2>1, <4>1
    <3>2. QED BY <1>1, <3>1
  <2>3. TagOf[o.c] # None /\ Token(o).a = o.a
    BY TokenType
  <2>4. QED BY <1>1, <2>1, <2>2, <2>3 DEF BlockerOp
<1>4. QED BY <1>2, <1>3 DEF Books, u

\* A reference that is held is counted.
LEMMA HeldPositive ==
    ASSUME NEW s \in States, Books(s), NEW o, BlockerOp(o), Token(o) \in s.rev
    PROVE  s.refcnt[o.a] \in Nat /\ s.refcnt[o.a] > 0
<1>1. Token(o).a = o.a /\ o.a \in Atoms
  BY TokenType DEF BlockerOp
<1>2. QED BY <1>1, HeldRemove DEF Books

\* Giving up a reference that is held keeps counts and limiters in agreement.
LEMMA UnreferenceBooks ==
    ASSUME NEW s \in States, Books(s), NEW o, BlockerOp(o), Token(o) \in s.rev
    PROVE  Books(Unreference(s, o))
<1> DEFINE u == Unreference(s, o)
<1>1. /\ u.rev = s.rev \ {Token(o)}
      /\ u.refcnt = [s.refcnt EXCEPT ![o.a] = @ - 1]
      /\ u.limiters = [s.limiters EXCEPT ![o.a] =
                         IF s.refcnt[o.a] = 1 THEN None ELSE @]
      /\ s.refcnt \in [Atoms -> Nat]
      /\ s.limiters \in [Atoms -> Tags \cup {None}]
  BY UnreferenceFields, HeldPositive DEF States
<1> HIDE DEF u
<1>2. IsFiniteSet(u.rev)
  BY <1>1, FS_Subset DEF Books
<1>3. ASSUME NEW a \in Atoms
      PROVE  /\ u.refcnt[a] = Cardinality(Of(u.rev, a))
             /\ (u.limiters[a] # None) <=> (u.refcnt[a] > 0)
  <2>1. /\ s.refcnt[a] = Cardinality(Of(s.rev, a))
        /\ (s.limiters[a] # None) <=> (s.refcnt[a] > 0)
        /\ IsFiniteSet(s.rev)
    BY DEF Books
  <2>2. Cardinality(Of(u.rev, a)) =
          IF Token(o).a = a THEN Cardinality(Of(s.rev, a)) - 1
                            ELSE Cardinality(Of(s.rev, a))
    <3>1. Cardinality(Of(s.rev \ {Token(o)}, a)) =
            IF Token(o).a = a THEN Cardinality(Of(s.rev, a)) - 1
                              ELSE Cardinality(Of(s.rev, a))
      BY <2>1, HeldRemove
    <3>2. QED BY <1>1, <3>1
  <2>3. Token(o).a = o.a /\ s.refcnt[o.a] > 0
    BY TokenType, HeldPositive
  <2>4. QED BY <1>1, <2>1, <2>2, <2>3 DEF BlockerOp
<1>4. QED BY <1>2, <1>3 DEF Books, u

-----------------------------------------------------------------------------
\* States with equal parts are equal.
LEMMA StateEq ==
    ASSUME NEW s \in States, NEW u \in States,
           s.slots = u.slots, s.limiters = u.limiters, s.refcnt = u.refcnt,
           s.rev = u.rev, s.choice = u.choice, s.filter = u.filter,
           s.hard = u.hard
    PROVE  s = u
BY DEF States

\* Undoing a reference that was just taken.
LEMMA UndoReference ==
    ASSUME NEW s \in States, Books(s), NEW o, BlockerOp(o),
           Token(o) \notin s.rev
    PROVE  /\ Unreference(Reference(s, o), o) = s
           /\ ~UnreferenceRaises(Reference(s, o), o)
<1> DEFINE u == Reference(s, o)
<1> DEFINE w == Unreference(u, o)
<1>1. /\ u \in States
      /\ u.slots = s.slots /\ u.choice = s.choice
      /\ u.filter = s.filter /\ u.hard = s.hard
      /\ u.rev = s.rev \cup {Token(o)}
      /\ u.refcnt = [s.refcnt EXCEPT ![o.a] = @ + 1]
      /\ u.limiters = [s.limiters EXCEPT ![o.a] =
                         IF s.refcnt[o.a] = 0 THEN TagOf[o.c] ELSE @]
  BY ReferenceFields
<1>2. /\ s.refcnt \in [Atoms -> Nat] /\ o.a \in Atoms
      /\ s.limiters \in [Atoms -> Tags \cup {None}]
      /\ (s.limiters[o.a] # None) <=> (s.refcnt[o.a] > 0)
  BY DEF States, BlockerOp, Books
<1> HIDE DEF u
<1>3. u.refcnt[o.a] = s.refcnt[o.a] + 1
  BY <1>1, <1>2
<1>4. u.refcnt[o.a] > 0
  BY <1>2, <1>3
<1>5. /\ w \in States
      /\ w.slots = u.slots /\ w.choice = u.choice
      /\ w.filter = u.filter /\ w.hard = u.hard
      /\ w.rev = u.rev \ {Token(o)}
      /\ w.refcnt = [u.refcnt EXCEPT ![o.a] = @ - 1]
      /\ w.limiters = [u.limiters EXCEPT ![o.a] =
                         IF u.refcnt[o.a] = 1 THEN None ELSE @]
  BY <1>1, <1>4, UnreferenceFields
<1> HIDE DEF w
<1>6. w.refcnt = s.refcnt
  BY <1>1, <1>2, <1>3, <1>5
<1>7. w.limiters = s.limiters
  <2>1. CASE s.refcnt[o.a] = 0
    <3>1. s.limiters[o.a] = None /\ u.refcnt[o.a] = 1
      BY <1>2, <1>3, <2>1
    <3>2. QED BY <1>1, <1>2, <1>5, <2>1, <3>1
  <2>2. CASE s.refcnt[o.a] # 0
    <3>1. u.refcnt[o.a] # 1
      BY <1>2, <1>3, <2>2
    <3>2. QED BY <1>1, <1>2, <1>5, <2>2, <3>1
  <2>3. QED BY <2>1, <2>2
<1>8. w.rev = s.rev
  BY <1>1, <1>5
<1>9. w = s
  BY <1>1, <1>5, <1>6, <1>7, <1>8, StateEq
<1>10. ~UnreferenceRaises(u, o)
  <2>1. u.refcnt[o.a] = 1 => u.limiters[o.a] = TagOf[o.c]
    BY <1>1, <1>2, <1>3
  <2>2. QED BY <1>1, <1>2, <1>3, <2>1 DEF UnreferenceRaises
<1>11. QED BY <1>9, <1>10 DEF u, w

\* Undoing the drop of a reference, when all instances of an atom are one.
LEMMA UndoUnreference ==
    ASSUME Interned, NEW s \in States, Books(s), NEW o, BlockerOp(o),
           Token(o) \in s.rev
    PROVE  /\ Reference(Unreference(s, o), o) = s
           /\ ~UnreferenceRaises(s, o)
<1> DEFINE u == Unreference(s, o)
<1> DEFINE w == Reference(u, o)
<1>1. s.refcnt[o.a] \in Nat /\ s.refcnt[o.a] > 0
  BY HeldPositive
<1>2. /\ s.refcnt \in [Atoms -> Nat] /\ o.a \in Atoms
      /\ s.limiters \in [Atoms -> Tags \cup {None}]
      /\ s.limiters[o.a] # None
  BY <1>1 DEF States, BlockerOp, Books
<1>3. s.limiters[o.a] = TagOf[o.c]
  BY <1>2 DEF Tags, Interned, BlockerOp
<1>4. /\ u \in States
      /\ u.slots = s.slots /\ u.choice = s.choice
      /\ u.filter = s.filter /\ u.hard = s.hard
      /\ u.rev = s.rev \ {Token(o)}
      /\ u.refcnt = [s.refcnt EXCEPT ![o.a] = @ - 1]
      /\ u.limiters = [s.limiters EXCEPT ![o.a] =
                         IF s.refcnt[o.a] = 1 THEN None ELSE @]
  BY <1>1, UnreferenceFields
<1> HIDE DEF u
<1>5. /\ w \in States
      /\ w.slots = u.slots /\ w.choice = u.choice
      /\ w.filter = u.filter /\ w.hard = u.hard
      /\ w.rev = u.rev \cup {Token(o)}
      /\ w.refcnt = [u.refcnt EXCEPT ![o.a] = @ + 1]
      /\ w.limiters = [u.limiters EXCEPT ![o.a] =
                         IF u.refcnt[o.a] = 0 THEN TagOf[o.c] ELSE @]
  BY <1>4, ReferenceFields
<1> HIDE DEF w
<1>6. w.refcnt = s.refcnt /\ w.rev = s.rev
  BY <1>1, <1>2, <1>4, <1>5
<1>7. w.limiters = s.limiters
  <2>1. CASE s.refcnt[o.a] = 1
    BY <1>2, <1>3, <1>4, <1>5, <2>1
  <2>2. CASE s.refcnt[o.a] # 1
    <3>1. u.refcnt[o.a] # 0
      BY <1>1, <1>2, <1>4, <2>2
    <3>2. QED BY <1>2, <1>4, <1>5, <2>2, <3>1
  <2>3. QED BY <2>1, <2>2
<1>8. w = s
  BY <1>4, <1>5, <1>6, <1>7, StateEq
<1>9. ~UnreferenceRaises(s, o)
  BY <1>1, <1>3 DEF UnreferenceRaises
<1>10. QED BY <1>8, <1>9 DEF u, w

-----------------------------------------------------------------------------
\* What the log and the state are, between calls; k operations led to s.
StateOK(s, k) ==
    /\ s \in States
    /\ Books(s)
    /\ \A p, q \in s.slots : SlotOf[p] = SlotOf[q] => p = q
    /\ \A p \in Pkgs : p \in s.slots <=> s.choice[p] # None
    /\ \A p \in Pkgs : s.choice[p] # None => PkgOf[s.choice[p]] = p
    /\ s.slots \cap s.filter = {}
    /\ s.filter \subseteq Livefs
    /\ \A q \in s.slots \ Livefs, p \in Livefs :
         SlotOf[p] = SlotOf[q] => p \in s.filter
    /\ \A t \in s.rev : t.a \in BlockersOf[t.c] /\ t.n <= k

\* The operation logged after k others can be applied to s.
Valid(s, o, k) ==
    /\ o \in Ops
    /\ \/ /\ o.op = "add"
          /\ o.c \in Choices /\ o.p = PkgOf[o.c]
          /\ Occupants(s, o.p) = {}
          /\ o.p \notin s.filter
          /\ \A q \in Livefs : q # o.p /\ SlotOf[q] = SlotOf[o.p] => q \in s.filter
       \/ /\ o.op = "incref"
          /\ BlockerOp(o) /\ Token(o) \notin s.rev
          /\ o.a \in BlockersOf[o.c] /\ o.n = k + 1
       \/ /\ o.op = "decref"
          /\ BlockerOp(o) /\ Token(o) \in s.rev
       \/ /\ o.op = "replace"
          /\ o.c \in Choices /\ o.p = PkgOf[o.c] /\ o.p \notin Livefs
          /\ o.old \in Livefs /\ Occupants(s, o.p) = {o.old}
          /\ o.oldc = s.choice[o.old]
          /\ o.force = (Limiting(s, o.old) # {})
       \/ /\ o.op = "remove"
          /\ o.p \in s.slots \cap Livefs /\ o.c = s.choice[o.p]
       \/ /\ o.op = "hardref"
          /\ o.r \in Restricts
       \/ o.op = "backref"

\* Seating a package changes the slots and the choices only.
LEMMA SeatFields ==
    ASSUME NEW s \in States, NEW p \in Pkgs, NEW c \in Choices
    PROVE  LET u == Seat(s, p, c) IN
           /\ u \in States
           /\ u.slots = s.slots \cup {p}
           /\ u.choice = [s.choice EXCEPT ![p] = c]
           /\ u.filter = s.filter /\ u.hard = s.hard /\ u.rev = s.rev
           /\ u.refcnt = s.refcnt /\ u.limiters = s.limiters
BY DEF Seat, States

\* Unseating a package changes the slots and the choices only.
LEMMA UnseatFields ==
    ASSUME NEW s \in States, NEW p \in Pkgs
    PROVE  LET u == Unseat(s, p) IN
           /\ u \in States
           /\ u.slots = s.slots \ {p}
           /\ u.choice = [s.choice EXCEPT ![p] = None]
           /\ u.filter = s.filter /\ u.hard = s.hard /\ u.rev = s.rev
           /\ u.refcnt = s.refcnt /\ u.limiters = s.limiters
BY DEF Unseat, States

\* Hiding a package changes the filter of installed packages only.
LEMMA HideFields ==
    ASSUME NEW s \in States, NEW p \in Pkgs
    PROVE  LET u == Hide(s, p) IN
           /\ u \in States
           /\ u.filter = s.filter \cup {p}
           /\ u.slots = s.slots /\ u.choice = s.choice
           /\ u.hard = s.hard /\ u.rev = s.rev
           /\ u.refcnt = s.refcnt /\ u.limiters = s.limiters
BY DEF Hide, States

\* Showing a package again changes the filter of installed packages only.
LEMMA ShowFields ==
    ASSUME NEW s \in States, NEW p \in Pkgs
    PROVE  LET u == Show(s, p) IN
           /\ u \in States
           /\ u.filter = s.filter \ {p}
           /\ u.slots = s.slots /\ u.choice = s.choice
           /\ u.hard = s.hard /\ u.rev = s.rev
           /\ u.refcnt = s.refcnt /\ u.limiters = s.limiters
BY DEF Show, States

\* A hard reference changes the hard references only.
LEMMA HardFields ==
    ASSUME NEW s \in States, NEW h \in [Restricts -> Nat]
    PROVE  LET u == [s EXCEPT !.hard = h] IN
           /\ u \in States /\ u.hard = h
           /\ u.slots = s.slots /\ u.choice = s.choice
           /\ u.filter = s.filter /\ u.rev = s.rev
           /\ u.refcnt = s.refcnt /\ u.limiters = s.limiters
BY DEF States

\* Blocker books depend on three parts of the state only.
LEMMA BooksSame ==
    ASSUME NEW s, NEW u, Books(s), u.rev = s.rev, u.refcnt = s.refcnt,
           u.limiters = s.limiters
    PROVE  Books(u)
BY DEF Books

-----------------------------------------------------------------------------
\* Operation by operation: what it does keeps the state in order, undoing it
\* does not raise, and gives the state back.
LEMMA AddUndo ==
    ASSUME NEW k \in Nat, NEW s, StateOK(s, k), NEW o, Valid(s, o, k), o.op = "add"
    PROVE  /\ StateOK(Effect(s, o), k + 1)
           /\ Undo(Effect(s, o), o) = s /\ ~UndoRaises(Effect(s, o), o)
<1> DEFINE u == Seat(s, o.p, o.c)
<1> DEFINE w == Unseat(u, o.p)
<1>1. /\ o.c \in Choices /\ o.p = PkgOf[o.c] /\ o.p \in Pkgs
      /\ Occupants(s, o.p) = {} /\ o.p \notin s.filter
      /\ \A q \in Livefs : q # o.p /\ SlotOf[q] = SlotOf[o.p] => q \in s.filter
      /\ s \in States
  BY ConstantsAssumption DEF Valid, StateOK
<1>2. /\ Effect(s, o) = u /\ Undo(u, o) = w
      /\ UndoRaises(u, o) <=> o.p \notin u.slots
  BY DEF Effect, Undo, UndoRaises
<1>3. /\ u \in States
      /\ u.slots = s.slots \cup {o.p}
      /\ u.choice = [s.choice EXCEPT ![o.p] = o.c]
      /\ u.filter = s.filter /\ u.hard = s.hard /\ u.rev = s.rev
      /\ u.refcnt = s.refcnt /\ u.limiters = s.limiters
  BY <1>1, SeatFields
<1> HIDE DEF u
<1>4. /\ w \in States
      /\ w.slots = u.slots \ {o.p}
      /\ w.choice = [u.choice EXCEPT ![o.p] = None]
      /\ w.filter = u.filter /\ w.hard = u.hard /\ w.rev = u.rev
      /\ w.refcnt = u.refcnt /\ w.limiters = u.limiters
  BY <1>1, <1>3, UnseatFields
<1> HIDE DEF w
<1>5. /\ o.p \notin s.slots /\ s.choice[o.p] = None
      /\ s.choice \in [Pkgs -> Choices \cup {None}]
      /\ s.slots \subseteq Pkgs
      /\ \A q \in s.slots : SlotOf[q] # SlotOf[o.p]
  BY <1>1 DEF StateOK, States, Occupants
<1>6. StateOK(u, k + 1)
  <2>1. Books(u)
    BY <1>3, BooksSame DEF StateOK
  <2>2. \A p, q \in u.slots : SlotOf[p] = SlotOf[q] => p = q
    BY <1>3, <1>5 DEF StateOK
  <2>3. /\ \A p \in Pkgs : p \in u.slots <=> u.choice[p] # None
        /\ \A p \in Pkgs : u.choice[p] # None => PkgOf[u.choice[p]] = p
    BY <1>1, <1>3, <1>5, ConstantsAssumption DEF StateOK
  <2>4. u.slots \cap u.filter = {} /\ u.filter \subseteq Livefs
    BY <1>1, <1>3 DEF StateOK
  <2>5. \A q \in u.slots \ Livefs, p \in Livefs :
          SlotOf[p] = SlotOf[q] => p \in u.filter
    BY <1>1, <1>3 DEF StateOK
  <2>6. \A t \in u.rev : t.a \in BlockersOf[t.c] /\ t.n <= k + 1
    BY <1>1, <1>3 DEF StateOK, States, Tokens
  <2>7. QED BY <1>3, <2>1, <2>2, <2>3, <2>4, <2>5, <2>6 DEF StateOK
<1>7. w = s
  <2>1. w.choice = s.choice
    BY <1>1, <1>3, <1>4, <1>5
  <2>2. w.slots = s.slots
    BY <1>3, <1>4, <1>5
  <2>3. QED BY <1>1, <1>3, <1>4, <2>1, <2>2, StateEq
<1>8. QED BY <1>2, <1>3, <1>6, <1>7

\* A blocker added is taken back exactly.
LEMMA IncrefUndo ==
    ASSUME NEW k \in Nat, NEW s, StateOK(s, k), NEW o, Valid(s, o, k),
           o.op = "incref"
    PROVE  /\ StateOK(Effect(s, o), k + 1)
           /\ Undo(Effect(s, o), o) = s /\ ~UndoRaises(Effect(s, o), o)
<1> DEFINE u == Reference(s, o)
<1>1. /\ BlockerOp(o) /\ Token(o) \notin s.rev
      /\ o.a \in BlockersOf[o.c] /\ o.n = k + 1
      /\ s \in States /\ Books(s)
  BY DEF Valid, StateOK
<1>2. /\ Effect(s, o) = u /\ Undo(u, o) = Unreference(u, o)
      /\ UndoRaises(u, o) <=> UnreferenceRaises(u, o)
  BY DEF Effect, Undo, UndoRaises
<1>3. /\ u \in States
      /\ u.slots = s.slots /\ u.choice = s.choice
      /\ u.filter = s.filter /\ u.hard = s.hard
      /\ u.rev = s.rev \cup {Token(o)}
  BY <1>1, ReferenceFields
<1>4. Books(u)
  BY <1>1, ReferenceBooks
<1>5. Unreference(u, o) = s /\ ~UnreferenceRaises(u, o)
  BY <1>1, UndoReference
<1> HIDE DEF u
<1>6. \A t \in u.rev : t.a \in BlockersOf[t.c] /\ t.n <= k + 1
  <2>1. \A t \in s.rev : t.a \in BlockersOf[t.c] /\ t.n <= k /\ t.n \in Nat
    BY <1>1 DEF StateOK, States, Tokens
  <2>2. Token(o).a \in BlockersOf[Token(o).c] /\ Token(o).n = k + 1
    BY <1>1, TokenType
  <2>3. QED BY <1>3, <2>1, <2>2
<1>7. StateOK(u, k + 1)
  BY <1>3, <1>4, <1>6 DEF StateOK
<1>8. QED BY <1>2, <1>5, <1>7

\* A blocker dropped is put back exactly, when equal blockers are one object.
LEMMA DecrefUndo ==
    ASSUME Interned, NEW k \in Nat, NEW s, StateOK(s, k), NEW o,
           Valid(s, o, k), o.op = "decref"
    PROVE  /\ StateOK(Effect(s, o), k + 1)
           /\ Undo(Effect(s, o), o) = s /\ ~UndoRaises(Effect(s, o), o)
<1> DEFINE u == Unreference(s, o)
<1>1. /\ BlockerOp(o) /\ Token(o) \in s.rev
      /\ s \in States /\ Books(s)
  BY DEF Valid, StateOK
<1>2. /\ Effect(s, o) = u /\ Undo(u, o) = Reference(u, o)
      /\ ~UndoRaises(u, o)
  BY DEF Effect, Undo, UndoRaises
<1>3. /\ u \in States
      /\ u.slots = s.slots /\ u.choice = s.choice
      /\ u.filter = s.filter /\ u.hard = s.hard
      /\ u.rev = s.rev \ {Token(o)}
  BY <1>1, UnreferenceFields, HeldPositive
<1>4. Books(u)
  BY <1>1, UnreferenceBooks
<1>5. Reference(u, o) = s
  BY <1>1, UndoUnreference
<1> HIDE DEF u
<1>6. \A t \in u.rev : t.a \in BlockersOf[t.c] /\ t.n <= k + 1
  <2>1. \A t \in s.rev : t.a \in BlockersOf[t.c] /\ t.n <= k /\ t.n \in Nat
    BY <1>1 DEF StateOK, States, Tokens
  <2>2. QED BY <1>3, <2>1
<1>7. StateOK(u, k + 1)
  BY <1>3, <1>4, <1>6 DEF StateOK
<1>8. QED BY <1>2, <1>5, <1>7

\* Hard references and back references are taken back exactly.
LEMMA HardrefUndo ==
    ASSUME NEW k \in Nat, NEW s, StateOK(s, k), NEW o, Valid(s, o, k),
           o.op \in {"hardref", "backref"}
    PROVE  /\ StateOK(Effect(s, o), k + 1)
           /\ Undo(Effect(s, o), o) = s /\ ~UndoRaises(Effect(s, o), o)
<1>1. \A t \in s.rev : t.a \in BlockersOf[t.c] /\ t.n <= k + 1
  BY DEF StateOK, States, Tokens
<1>2. CASE o.op = "backref"
  <2>1. Effect(s, o) = s /\ Undo(s, o) = s /\ ~UndoRaises(s, o)
    BY <1>2 DEF Effect, Undo, UndoRaises
  <2>2. QED BY <1>1, <2>1 DEF StateOK
<1>3. CASE o.op = "hardref"
  <2> DEFINE h == [s.hard EXCEPT ![o.r] = @ + 1]
  <2> DEFINE u == [s EXCEPT !.hard = h]
  <2> DEFINE g == [u.hard EXCEPT ![o.r] = @ - 1]
  <2> DEFINE w == [u EXCEPT !.hard = g]
  <2>1. s \in States /\ s.hard \in [Restricts -> Nat] /\ o.r \in Restricts
    BY <1>3 DEF StateOK, States, Valid
  <2>2. Effect(s, o) = u /\ Undo(u, o) = w
    BY <1>3 DEF Effect, Undo
  <2>3. UndoRaises(u, o) <=> u.hard[o.r] = 0
    BY <1>3 DEF UndoRaises
  <2>4. h \in [Restricts -> Nat] /\ h[o.r] = s.hard[o.r] + 1
    BY <2>1
  <2>5. /\ u \in States /\ u.hard = h
        /\ u.slots = s.slots /\ u.choice = s.choice
        /\ u.filter = s.filter /\ u.rev = s.rev
        /\ u.refcnt = s.refcnt /\ u.limiters = s.limiters
    BY <2>1, <2>4, HardFields
  <2>6. g = s.hard
    BY <2>1, <2>4, <2>5
  <2> HIDE DEF u, g
  <2>7. w \in States /\ w.hard = g
        /\ w.slots = u.slots /\ w.choice = u.choice
        /\ w.filter = u.filter /\ w.rev = u.rev
        /\ w.refcnt = u.refcnt /\ w.limiters = u.limiters
    BY <2>1, <2>5, <2>6, HardFields
  <2> HIDE DEF w
  <2>8. w = s
    BY <2>1, <2>5, <2>6, <2>7, StateEq
  <2>9. StateOK(u, k + 1)
    BY <1>1, <2>5, BooksSame DEF StateOK
  <2>10. ~UndoRaises(u, o)
    BY <2>1, <2>3, <2>4, <2>5
  <2>11. QED BY <2>2, <2>8, <2>9, <2>10
<1>4. QED BY <1>2, <1>3

\* A package removed is put back exactly.
LEMMA RemoveUndo ==
    ASSUME NEW k \in Nat, NEW s, StateOK(s, k), NEW o, Valid(s, o, k),
           o.op = "remove"
    PROVE  /\ StateOK(Effect(s, o), k + 1)
           /\ Undo(Effect(s, o), o) = s /\ ~UndoRaises(Effect(s, o), o)
<1> DEFINE x == Unseat(s, o.p)
<1> DEFINE u == Hide(x, o.p)
<1> DEFINE y == Seat(u, o.p, o.c)
<1> DEFINE w == Show(y, o.p)
<1>1. /\ o.p \in s.slots /\ o.p \in Livefs /\ o.c = s.choice[o.p]
      /\ s \in States /\ o.p \in Pkgs
      /\ s.choice \in [Pkgs -> Choices \cup {None}]
      /\ s.slots \subseteq Pkgs
  BY ConstantsAssumption DEF Valid, StateOK, States
<1>2. o.c \in Choices /\ o.p \notin s.filter
  BY <1>1 DEF StateOK
<1>3. /\ Effect(s, o) = u /\ Undo(u, o) = w
      /\ UndoRaises(u, o) <=> o.p \notin u.filter
  BY DEF Effect, Undo, UndoRaises
<1>4. /\ x \in States
      /\ x.slots = s.slots \ {o.p}
      /\ x.choice = [s.choice EXCEPT ![o.p] = None]
      /\ x.filter = s.filter /\ x.hard = s.hard /\ x.rev = s.rev
      /\ x.refcnt = s.refcnt /\ x.limiters = s.limiters
  BY <1>1, UnseatFields
<1> HIDE DEF x
<1>5. /\ u \in States
      /\ u.filter = x.filter \cup {o.p}
      /\ u.slots = x.slots /\ u.choice = x.choice
      /\ u.hard = x.hard /\ u.rev = x.rev
      /\ u.refcnt = x.refcnt /\ u.limiters = x.limiters
  BY <1>1, <1>4, HideFields
<1> HIDE DEF u
<1>6. /\ y \in States
      /\ y.slots = u.slots \cup {o.p}
      /\ y.choice = [u.choice EXCEPT ![o.p] = o.c]
      /\ y.filter = u.filter /\ y.hard = u.hard /\ y.rev = u.rev
      /\ y.refcnt = u.refcnt /\ y.limiters = u.limiters
  BY <1>1, <1>2, <1>5, SeatFields
<1> HIDE DEF y
<1>7. /\ w \in States
      /\ w.filter = y.filter \ {o.p}
      /\ w.slots = y.slots /\ w.choice = y.choice
      /\ w.hard = y.hard /\ w.rev = y.rev
      /\ w.refcnt = y.refcnt /\ w.limiters = y.limiters
  BY <1>1, <1>6, ShowFields
<1> HIDE DEF w
<1>8. w = s
  <2>1. w.choice = s.choice
    BY <1>1, <1>4, <1>5, <1>6, <1>7
  <2>2. w.slots = s.slots /\ w.filter = s.filter
    BY <1>1, <1>2, <1>4, <1>5, <1>6, <1>7
  <2>3. QED BY <1>1, <1>4, <1>5, <1>6, <1>7, <2>1, <2>2, StateEq
<1>9. StateOK(u, k + 1)
  <2>1. Books(u)
    BY <1>4, <1>5, BooksSame DEF StateOK
  <2>2. \A p, q \in u.slots : SlotOf[p] = SlotOf[q] => p = q
    BY <1>4, <1>5 DEF StateOK
  <2>3. /\ \A p \in Pkgs : p \in u.slots <=> u.choice[p] # None
        /\ \A p \in Pkgs : u.choice[p] # None => PkgOf[u.choice[p]] = p
    BY <1>1, <1>4, <1>5 DEF StateOK
  <2>4. u.slots \cap u.filter = {} /\ u.filter \subseteq Livefs
    BY <1>1, <1>4, <1>5 DEF StateOK
  <2>5. \A q \in u.slots \ Livefs, p \in Livefs :
          SlotOf[p] = SlotOf[q] => p \in u.filter
    BY <1>1, <1>4, <1>5 DEF StateOK
  <2>6. \A t \in u.rev : t.a \in BlockersOf[t.c] /\ t.n <= k + 1
    BY <1>1, <1>4, <1>5 DEF StateOK, States, Tokens
  <2>7. QED BY <1>5, <2>1, <2>2, <2>3, <2>4, <2>5, <2>6 DEF StateOK
<1>10. QED BY <1>3, <1>5, <1>8, <1>9
\* Undoing a replacement is the one case in which revert asserts something: that
\* the old package is refused exactly when it was blocked before.
LEMMA ReplaceUndo ==
    ASSUME OneInstalledPerSlot, NEW k \in Nat, NEW s, StateOK(s, k), NEW o,
           Valid(s, o, k), o.op = "replace"
    PROVE  /\ StateOK(Effect(s, o), k + 1)
           /\ Undo(Effect(s, o), o) = s /\ ~UndoRaises(Effect(s, o), o)
<1> DEFINE x == Unseat(s, o.old)
<1> DEFINE y == Seat(x, o.p, o.c)
<1> DEFINE u == Hide(y, o.old)
<1> DEFINE e == Unseat(u, o.p)
<1> DEFINE f == Seat(e, o.old, o.oldc)
<1> DEFINE w == Show(f, o.old)
<1>1. /\ o.c \in Choices /\ o.p = PkgOf[o.c] /\ o.p \notin Livefs
      /\ o.old \in Livefs /\ Occupants(s, o.p) = {o.old}
      /\ o.oldc = s.choice[o.old]
      /\ o.force = (Limiting(s, o.old) # {})
      /\ s \in States /\ o.p \in Pkgs /\ o.old \in Pkgs
      /\ s.choice \in [Pkgs -> Choices \cup {None}]
      /\ s.slots \subseteq Pkgs
  BY ConstantsAssumption DEF Valid, StateOK, States
<1>2. /\ o.old \in s.slots /\ SlotOf[o.old] = SlotOf[o.p]
      /\ o.p # o.old /\ o.p \notin s.slots
      /\ \A q \in s.slots : SlotOf[q] = SlotOf[o.p] => q = o.old
  BY <1>1 DEF Occupants
<1>3. /\ o.oldc \in Choices /\ o.old \notin s.filter /\ s.choice[o.p] = None
      /\ o.p \notin s.filter
  BY <1>1, <1>2 DEF StateOK
<1>4. /\ Effect(s, o) = u /\ Undo(u, o) = w
  BY DEF Effect, Undo
<1>5. /\ x \in States
      /\ x.slots = s.slots \ {o.old}
      /\ x.choice = [s.choice EXCEPT ![o.old] = None]
      /\ x.filter = s.filter /\ x.hard = s.hard /\ x.rev = s.rev
      /\ x.refcnt = s.refcnt /\ x.limiters = s.limiters
  BY <1>1, UnseatFields
<1> HIDE DEF x
<1>6. /\ y \in States
      /\ y.slots = x.slots \cup {o.p}
      /\ y.choice = [x.choice EXCEPT ![o.p] = o.c]
      /\ y.filter = x.filter /\ y.hard = x.hard /\ y.rev = x.rev
      /\ y.refcnt = x.refcnt /\ y.limiters = x.limiters
  BY <1>1, <1>5, SeatFields
<1> HIDE DEF y
<1>7. /\ u \in States
      /\ u.filter = y.filter \cup {o.old}
      /\ u.slots = y.slots /\ u.choice = y.choice
      /\ u.hard = y.hard /\ u.rev = y.rev
      /\ u.refcnt = y.refcnt /\ u.limiters = y.limiters
  BY <1>1, <1>6, HideFields
<1> HIDE DEF u
<1>8. /\ u.slots = (s.slots \ {o.old}) \cup {o.p}
      /\ u.filter = s.filter \cup {o.old}
      /\ u.choice = [[s.choice EXCEPT ![o.old] = None] EXCEPT ![o.p] = o.c]
      /\ u.hard = s.hard /\ u.rev = s.rev
      /\ u.refcnt = s.refcnt /\ u.limiters = s.limiters
  BY <1>5, <1>6, <1>7
<1>9. /\ e \in States
      /\ e.slots = u.slots \ {o.p}
      /\ e.choice = [u.choice EXCEPT ![o.p] = None]
      /\ e.filter = u.filter /\ e.hard = u.hard /\ e.rev = u.rev
      /\ e.refcnt = u.refcnt /\ e.limiters = u.limiters
  BY <1>1, <1>7, UnseatFields
<1> HIDE DEF e
<1>10. /\ f \in States
       /\ f.slots = e.slots \cup {o.old}
       /\ f.choice = [e.choice EXCEPT ![o.old] = o.oldc]
       /\ f.filter = e.filter /\ f.hard = e.hard /\ f.rev = e.rev
       /\ f.refcnt = e.refcnt /\ f.limiters = e.limiters
  BY <1>1, <1>3, <1>9, SeatFields
<1> HIDE DEF f
<1>11. /\ w \in States
       /\ w.filter = f.filter \ {o.old}
       /\ w.slots = f.slots /\ w.choice = f.choice
       /\ w.hard = f.hard /\ w.rev = f.rev
       /\ w.refcnt = f.refcnt /\ w.limiters = f.limiters
  BY <1>1, <1>10, ShowFields
<1> HIDE DEF w
<1>12. w = s
  <2>1. w.choice = s.choice
    BY <1>1, <1>2, <1>3, <1>8, <1>9, <1>10, <1>11
  <2>2. w.slots = s.slots /\ w.filter = s.filter
    BY <1>2, <1>3, <1>8, <1>9, <1>10, <1>11
  <2>3. QED BY <1>1, <1>8, <1>9, <1>10, <1>11, <2>1, <2>2, StateEq
<1>13. ~UndoRaises(u, o)
  <2> DEFINE rest == [u EXCEPT !.slots = @ \ {o.p}]
  <2>1. rest.slots = s.slots \ {o.old} /\ rest.limiters = s.limiters
    BY <1>2, <1>7, <1>8 DEF States
  <2> HIDE DEF rest
  <2>2. Limiting(rest, o.old) = Limiting(s, o.old)
    BY <2>1 DEF Limiting
  <2>3. Occupants(rest, o.old) = {}
    BY <1>2, <2>1 DEF Occupants
  <2>4. (Limiting(rest, o.old) \cup Occupants(rest, o.old) # {}) = o.force
    BY <1>1, <2>2, <2>3
  <2>5. o.p \in u.slots /\ o.old \in u.filter
    BY <1>8
  <2>6. UndoRaises(u, o) <=>
          \/ o.p \notin u.slots
          \/ o.old \notin u.filter
          \/ (Limiting(rest, o.old) \cup Occupants(rest, o.old) # {}) # o.force
    BY DEF UndoRaises, rest
  <2>7. QED BY <2>4, <2>5, <2>6
<1>14. StateOK(u, k + 1)
  <2>1. Books(u)
    BY <1>8, BooksSame DEF StateOK
  <2>2. \A p, q \in u.slots : SlotOf[p] = SlotOf[q] => p = q
    BY <1>2, <1>8 DEF StateOK
  <2>3. /\ \A p \in Pkgs : p \in u.slots <=> u.choice[p] # None
        /\ \A p \in Pkgs : u.choice[p] # None => PkgOf[u.choice[p]] = p
    BY <1>1, <1>2, <1>8, ConstantsAssumption DEF StateOK
  <2>4. u.slots \cap u.filter = {} /\ u.filter \subseteq Livefs
    BY <1>1, <1>2, <1>3, <1>8 DEF StateOK
  <2>5. \A q \in u.slots \ Livefs, p \in Livefs :
          SlotOf[p] = SlotOf[q] => p \in u.filter
    BY <1>1, <1>2, <1>8 DEF StateOK, OneInstalledPerSlot
  <2>6. \A t \in u.rev : t.a \in BlockersOf[t.c] /\ t.n <= k + 1
    BY <1>1, <1>8 DEF StateOK, States, Tokens
  <2>7. QED BY <1>7, <2>1, <2>2, <2>3, <2>4, <2>5, <2>6 DEF StateOK
<1>15. QED BY <1>4, <1>12, <1>13, <1>14

\* All of them at once.
LEMMA UndoEffect ==
    ASSUME Interned, OneInstalledPerSlot, NEW k \in Nat, NEW s, StateOK(s, k),
           NEW o, Valid(s, o, k)
    PROVE  /\ StateOK(Effect(s, o), k + 1)
           /\ Undo(Effect(s, o), o) = s /\ ~UndoRaises(Effect(s, o), o)
<1>1. o.op \in {"add", "incref", "decref", "replace", "remove", "hardref", "backref"}
  BY DEF Valid
<1>2. QED BY <1>1, AddUndo, IncrefUndo, DecrefUndo, HardrefUndo, RemoveUndo,
             ReplaceUndo
-----------------------------------------------------------------------------
(***************************************************************************)
(* The inductive invariant.  LogOK chains the log: every logged operation  *)
(* could be applied to the state recorded for it, and led to the next one. *)
(* CallOK says what is known of the call in progress.                      *)
(***************************************************************************)
\* The state the i-th operation led to.
After(i) == IF i < Len(plan) THEN hist[i + 1] ELSE Current

LogOK ==
    /\ plan \in Seq(Ops)
    /\ hist \in Seq(States)
    /\ Len(hist) = Len(plan)
    /\ StateOK(Current, Len(plan))
    /\ \A i \in 1 .. Len(plan) :
         /\ StateOK(hist[i], i - 1)
         /\ Valid(hist[i], plan[i], i - 1)
         /\ After(i) = Effect(hist[i], plan[i])

CallOK ==
    /\ st \in States
    /\ before \in States
    /\ target \in Nat
    /\ done \in Nat
    /\ \/ /\ mode = "idle"
          /\ pending = None
       \/ /\ mode = "replacing"
          /\ pending.op = "replace"
          /\ Valid(Logical, pending, Len(plan))
          /\ pending.old \notin st.slots
          /\ Limiting(st, pending.p) = {}
       \/ /\ mode = "removing"
          /\ pending.op = "remove"
          /\ Valid(Logical, pending, Len(plan))
          /\ pending.p \notin st.slots
       \/ /\ mode = "backtracking"
          /\ pending = None
          /\ target < Len(plan)
          /\ target + done <= Len(plan)
          /\ st = IF done = 0 THEN before ELSE hist[Len(plan) - done + 1]

IInv == LogOK /\ CallOK

\* Between calls the current state is the state.
LEMMA IdleCurrent ==
    ASSUME st \in States, mode = "idle"
    PROVE  Logical = st /\ Current = st
<1>1. st.slots \cup Leaving = st.slots
  BY DEF Leaving
<1>2. [st EXCEPT !.slots = st.slots] = st
  BY DEF States
<1>3. QED BY <1>1, <1>2 DEF Logical, Current

\* Once no operation is under way the state is what the book-keeping shows.
LEMMA IdleNext ==
    ASSUME st' \in States, mode' = "idle"
    PROVE  Current' = st'
<1>1. st'.slots \cup Leaving' = st'.slots
  BY DEF Leaving
<1>2. [st' EXCEPT !.slots = st'.slots] = st'
  BY DEF States
<1>3. QED BY <1>1, <1>2 DEF Logical, Current

\* A step that touches neither the log nor the current state keeps LogOK.
LEMMA LogSame ==
    ASSUME LogOK, plan' = plan, hist' = hist, Current' = Current
    PROVE  LogOK'
BY DEF LogOK, After

\* So does one that logs an operation which can be applied.
LEMMA LogPush ==
    ASSUME Interned, OneInstalledPerSlot, LogOK,
           mode \in {"idle", "replacing", "removing"},
           NEW o, Valid(Logical, o, Len(plan)),
           plan' = Append(plan, o), hist' = Append(hist, Logical),
           Current' = Effect(Logical, o)
    PROVE  LogOK'
<1> DEFINE L == Len(plan)
<1>1. /\ plan \in Seq(Ops) /\ hist \in Seq(States) /\ Len(hist) = L /\ L \in Nat
      /\ Current = Logical /\ StateOK(Logical, L) /\ Logical \in States
  BY DEF LogOK, Current, StateOK
<1>2. o \in Ops
  BY DEF Valid
<1>3. /\ plan' \in Seq(Ops) /\ hist' \in Seq(States)
      /\ Len(plan') = L + 1 /\ Len(hist') = L + 1
      /\ \A i \in 1 .. L : plan'[i] = plan[i] /\ hist'[i] = hist[i]
      /\ plan'[L + 1] = o /\ hist'[L + 1] = Logical
  BY <1>1, <1>2
<1>4. StateOK(Effect(Logical, o), L + 1)
  BY <1>1, UndoEffect
<1>5. ASSUME NEW i \in 1 .. L + 1
      PROVE  /\ StateOK(hist'[i], i - 1)
             /\ Valid(hist'[i], plan'[i], i - 1)
             /\ After(i)' = Effect(hist'[i], plan'[i])
  <2>1. CASE i = L + 1
    <3>1. i - 1 = L /\ ~(i < L + 1)
      BY <1>1, <2>1
    <3>2. QED BY <1>1, <1>3, <2>1, <3>1 DEF After
  <2>2. CASE i \in 1 .. L
    <3>1. /\ StateOK(hist[i], i - 1)
          /\ Valid(hist[i], plan[i], i - 1)
          /\ After(i) = Effect(hist[i], plan[i])
      BY <2>2 DEF LogOK
    <3>2. After(i)' = hist'[i + 1] /\ hist'[i + 1] = After(i)
      BY <1>1, <1>3, <2>2 DEF After
    <3>3. QED BY <1>3, <2>2, <3>1, <3>2
  <2>3. QED BY <1>1, <2>1, <2>2
<1>6. QED BY <1>3, <1>4, <1>5 DEF LogOK
-----------------------------------------------------------------------------
\* The state of the empty plan is in order.
LEMMA EmptyOK == StateOK(Empty, 0)
<1>1. Empty \in States
  BY DEF Empty, States
<1>2. Books(Empty)
  <2>1. Empty.rev = {}
    BY DEF Empty
  <2>2. \A a \in Atoms : Empty.refcnt[a] = 0 /\ Empty.limiters[a] = None
    BY DEF Empty
  <2>3. IsFiniteSet({}) /\ \A a \in Atoms : Cardinality(Of({}, a)) = 0
    <3>1. \A a \in Atoms : Of({}, a) = {}
      BY DEF Of
    <3>2. QED BY <3>1, FS_EmptySet
  <2>4. QED BY <2>1, <2>2, <2>3 DEF Books
<1>3. QED BY <1>1, <1>2 DEF StateOK, Empty

\* The empty plan satisfies the invariant.
LEMMA InitOK == Init => IInv
<1> SUFFICES ASSUME Init PROVE IInv
  OBVIOUS
<1>1. st = Empty /\ Empty \in States
  BY DEF Init, Empty, States
<1>2. Current = Empty
  BY <1>1, IdleCurrent DEF Init
<1>4. StateOK(Empty, 0)
  BY EmptyOK
<1>5. /\ plan = <<>> /\ hist = <<>> /\ mode = "idle" /\ pending = None
      /\ target = 0 /\ done = 0 /\ before = Empty
  BY DEF Init
<1>6. LogOK
  BY <1>2, <1>4, <1>5 DEF LogOK
<1>7. QED BY <1>1, <1>5, <1>6 DEF IInv, CallOK

\* The calls that log one operation and are over.
IdleStep(o) ==
    /\ mode = "idle" /\ mode' = "idle"
    /\ Push(o)
    /\ UNCHANGED calls

\* An operation that is applied in one step keeps the invariant.
LEMMA IdleStepOK ==
    ASSUME Interned, OneInstalledPerSlot, IInv,
           NEW o, Valid(st, o, Len(plan)), IdleStep(o)
    PROVE  IInv'
<1>1. /\ st \in States /\ Logical = st /\ Current = st /\ LogOK /\ StateOK(st, Len(plan))
      /\ Len(plan) \in Nat
  BY IdleCurrent DEF IInv, CallOK, LogOK, IdleStep
<1>2. st' = Effect(st, o) /\ st' \in States
  BY <1>1, UndoEffect DEF StateOK, IdleStep, Push, PushLeaving
<1>3. Current' = st'
  BY <1>2, IdleNext DEF IdleStep
<1>4. LogOK'
  BY <1>1, <1>2, <1>3, LogPush DEF IdleStep, Push, PushLeaving
<1>5. QED BY <1>2, <1>4 DEF IInv, CallOK, IdleStep, calls

\* add_op keeps the invariant.
LEMMA AddOK ==
    ASSUME Interned, OneInstalledPerSlot, IInv, NEW c \in Choices, Add(c)
    PROVE  IInv'
<1> DEFINE o == AddOp(c, FALSE)
<1>1. /\ mode = "idle" /\ st \in States /\ StateOK(st, Len(plan))
  BY IdleCurrent DEF IInv, CallOK, LogOK, Add, Ready
<1>2. /\ o \in Ops /\ o.op = "add" /\ o.c = c /\ o.p = PkgOf[c]
  BY ConstantsAssumption DEF AddOp, Op, Ops, OpNames
<1>3. Occupants(st, PkgOf[c]) = {} /\ PkgOf[c] \notin st.filter
  BY DEF Add
<1>4. \A q \in Livefs : q # PkgOf[c] /\ SlotOf[q] = SlotOf[PkgOf[c]] => q \in st.filter
  <2>1. CASE PkgOf[c] \in Livefs
    BY <2>1 DEF OneInstalledPerSlot
  <2>2. CASE LivefsLoaded(PkgOf[c])
    BY <1>3, <2>2 DEF LivefsLoaded, Occupants
  <2>3. QED BY <2>1, <2>2 DEF Add
<1>5. Valid(st, o, Len(plan))
  BY <1>2, <1>3, <1>4 DEF Valid
<1>6. IdleStep(o)
  BY DEF Add, Ready, IdleStep
<1>7. QED BY <1>5, <1>6, IdleStepOK

\* Loading an installed package by force keeps the invariant.
LEMMA ForceAddOK ==
    ASSUME Interned, OneInstalledPerSlot, IInv, NEW c \in Choices, ForceAdd(c)
    PROVE  IInv'
<1> DEFINE o == AddOp(c, TRUE)
<1>1. /\ mode = "idle" /\ st \in States /\ StateOK(st, Len(plan))
  BY IdleCurrent DEF IInv, CallOK, LogOK, ForceAdd, Ready
<1>2. /\ o \in Ops /\ o.op = "add" /\ o.c = c /\ o.p = PkgOf[c]
  BY ConstantsAssumption DEF AddOp, Op, Ops, OpNames
<1>3. PkgOf[c] \in Livefs /\ PkgOf[c] \notin st.slots /\ PkgOf[c] \notin st.filter
  BY DEF ForceAdd
<1>4. Occupants(st, PkgOf[c]) = {}
  <2> SUFFICES ASSUME NEW q \in st.slots, SlotOf[q] = SlotOf[PkgOf[c]] PROVE FALSE
    BY DEF Occupants
  <2>1. CASE q \in Livefs
    BY <1>3, <2>1 DEF OneInstalledPerSlot
  <2>2. CASE q \notin Livefs
    BY <1>1, <1>3, <2>2 DEF StateOK
  <2>3. QED BY <2>1, <2>2
<1>5. \A q \in Livefs : q # PkgOf[c] /\ SlotOf[q] = SlotOf[PkgOf[c]] => q \in st.filter
  BY <1>3 DEF OneInstalledPerSlot
<1>6. Valid(st, o, Len(plan))
  BY <1>2, <1>3, <1>4, <1>5 DEF Valid
<1>7. IdleStep(o)
  BY DEF ForceAdd, Ready, IdleStep
<1>8. QED BY <1>6, <1>7, IdleStepOK

\* A blocker operation made for a token has that token.
LEMMA BlockOpFields ==
    ASSUME NEW name \in OpNames, NEW t \in Tokens
    PROVE  LET o == BlockOp(name, t) IN
           /\ o \in Ops /\ o.op = name /\ o.c = t.c /\ o.a = t.a /\ o.n = t.n
           /\ Token(o) = t
<1> DEFINE o == BlockOp(name, t)
<1> DEFINE b == Op(name, t.c, None)
<1>1. t.c \in Choices /\ t.a \in Atoms /\ t.n \in Nat
      /\ t = [c |-> t.c, a |-> t.a, n |-> t.n]
  BY DEF Tokens
<1>2. b \in Ops /\ b.op = name /\ b.c = t.c
  BY <1>1 DEF Op, Ops
<1>3. o = [b EXCEPT !.a = t.a, !.n = t.n]
  BY DEF BlockOp
<1> HIDE DEF b, o
<1>4. o \in Ops /\ o.op = b.op /\ o.c = b.c /\ o.a = t.a /\ o.n = t.n
  BY <1>1, <1>2, <1>3 DEF Ops
<1>5. Token(o) = t
  BY <1>1, <1>2, <1>4 DEF Token
<1>6. QED BY <1>2, <1>4, <1>5 DEF o

\* add_blocker keeps the invariant.
LEMMA AddBlockerOK ==
    ASSUME Interned, OneInstalledPerSlot, IInv, NEW c \in Choices, NEW a \in Atoms,
           AddBlocker(c, a)
    PROVE  IInv'
<1> DEFINE n == Len(plan) + 1
<1> DEFINE o == BlockOp("incref", [c |-> c, a |-> a, n |-> n])
<1>1. /\ mode = "idle" /\ st \in States /\ StateOK(st, Len(plan)) /\ Len(plan) \in Nat
  BY IdleCurrent DEF IInv, CallOK, LogOK, AddBlocker, Ready
<1>2. /\ o \in Ops /\ o.op = "incref" /\ o.c = c /\ o.a = a /\ o.n = n
  BY <1>1, BlockOpFields DEF Tokens, OpNames
<1>3. Token(o) \notin st.rev
  <2>1. Token(o).n = n
    BY <1>2 DEF Token
  <2>2. \A t \in st.rev : t.n <= Len(plan) /\ t.n \in Nat
    BY <1>1 DEF StateOK, States, Tokens
  <2>3. QED BY <1>1, <2>1, <2>2
<1>4. a \in BlockersOf[c]
  BY DEF AddBlocker
<1>5. Valid(st, o, Len(plan))
  BY <1>2, <1>3, <1>4 DEF Valid, BlockerOp
<1>6. IdleStep(o)
  BY DEF AddBlocker, Ready, IdleStep
<1>7. QED BY <1>5, <1>6, IdleStepOK

\* add_hardref_op keeps the invariant.
LEMMA AddHardrefOK ==
    ASSUME Interned, OneInstalledPerSlot, IInv, NEW r \in Restricts, AddHardref(r)
    PROVE  IInv'
<1> DEFINE o == HardrefOp(r)
<1>1. o \in Ops /\ o.op = "hardref" /\ o.r = r
  BY DEF HardrefOp, Op, Ops, OpNames
<1>2. Valid(st, o, Len(plan))
  BY <1>1 DEF Valid
<1>3. IdleStep(o)
  BY DEF AddHardref, Ready, IdleStep
<1>4. QED BY <1>2, <1>3, IdleStepOK

\* add_backref_op keeps the invariant.
LEMMA AddBackrefOK ==
    ASSUME Interned, OneInstalledPerSlot, IInv, NEW c \in Choices, AddBackref(c)
    PROVE  IInv'
<1> DEFINE o == BackrefOp(c)
<1>1. o \in Ops /\ o.op = "backref"
  BY ConstantsAssumption DEF BackrefOp, Op, Ops, OpNames
<1>2. Valid(st, o, Len(plan))
  BY <1>1 DEF Valid
<1>3. IdleStep(o)
  BY DEF AddBackref, Ready, IdleStep
<1>4. QED BY <1>2, <1>3, IdleStepOK
-----------------------------------------------------------------------------
\* The first step of replace or remove takes a package out of its slot, and
\* changes nothing else that Current depends on.
LEMMA TakeOut ==
    ASSUME IInv, mode = "idle", NEW p \in st.slots,
           st' = [st EXCEPT !.slots = @ \ {p}],
           plan' = plan, hist' = hist, mode' \in {"replacing", "removing"},
           Leaving' = {p}
    PROVE  /\ LogOK' /\ st' \in States /\ Logical' = st /\ p \notin st'.slots
           /\ st'.limiters = st.limiters /\ StateOK(st, Len(plan))
<1>1. st \in States /\ Current = st /\ LogOK /\ StateOK(st, Len(plan))
  BY IdleCurrent DEF IInv, CallOK, LogOK
<1>2. /\ st' \in States
      /\ st'.slots = st.slots \ {p}
      /\ st'.limiters = st.limiters
      /\ [st' EXCEPT !.slots = @ \cup {p}] = st
  <2>1. st'.slots = st.slots \ {p} /\ st' \in States /\ st'.limiters = st.limiters
    BY <1>1 DEF States
  <2>2. st'.slots \cup {p} = st.slots
    BY <2>1
  <2>3. [st' EXCEPT !.slots = st.slots] = st
    BY <1>1 DEF States
  <2>4. QED BY <2>1, <2>2, <2>3
<1>3. Logical' = st /\ Current' = st
  BY <1>2 DEF Logical, Current
<1>4. LogOK'
  BY <1>1, <1>3, LogSame
<1>5. QED BY <1>1, <1>2, <1>3, <1>4

\* The first step of replace_op keeps the invariant.
LEMMA ReplaceOK ==
    ASSUME Interned, OneInstalledPerSlot, IInv, NEW c \in Choices, Replace(c)
    PROVE  IInv'
<1> DEFINE p == PkgOf[c]
<1>1. PICK old \in Livefs :
         /\ Occupants(st, p) = {old}
         /\ pending' = ReplaceOp(c, old, st.choice[old], Limiting(st, old) # {})
         /\ st' = [st EXCEPT !.slots = @ \ {old}]
  BY DEF Replace
<1>2. /\ mode = "idle" /\ mode' = "replacing" /\ plan' = plan /\ hist' = hist
      /\ target' = target /\ done' = done /\ before' = before
      /\ p \notin Livefs /\ Limiting(st, p) = {}
  BY DEF Replace, Ready
<1>3. st \in States /\ st.choice[old] \in Choices \cup {None} /\ old \in Pkgs
  BY ConstantsAssumption DEF IInv, CallOK, States
<1>4. /\ pending' \in Ops /\ pending'.op = "replace" /\ pending'.c = c /\ pending'.p = p
      /\ pending'.old = old /\ pending'.oldc = st.choice[old]
      /\ pending'.force = (Limiting(st, old) # {})
  BY <1>1, <1>3, ConstantsAssumption DEF ReplaceOp, Op, Ops, OpNames
<1>5. Leaving' = {old} /\ old \in st.slots
  BY <1>1, <1>2, <1>4 DEF Leaving, Occupants
<1>6. /\ LogOK' /\ st' \in States /\ Logical' = st /\ old \notin st'.slots
      /\ st'.limiters = st.limiters
  BY <1>1, <1>2, <1>5, TakeOut
<1>7. Valid(Logical', pending', Len(plan'))
  BY <1>1, <1>2, <1>4, <1>6 DEF Valid
<1>8. Limiting(st', p) = {}
  BY <1>2, <1>6 DEF Limiting
<1>9. QED BY <1>2, <1>4, <1>6, <1>7, <1>8 DEF IInv, CallOK

\* The first step of remove_op keeps the invariant.
LEMMA RemoveOK ==
    ASSUME Interned, OneInstalledPerSlot, IInv, NEW p \in Removable, Remove(p)
    PROVE  IInv'
<1> DEFINE c == st.choice[p]
<1>1. /\ mode = "idle" /\ mode' = "removing" /\ plan' = plan /\ hist' = hist
      /\ target' = target /\ done' = done /\ before' = before
      /\ p \in st.slots /\ pending' = RemoveOp(c)
      /\ st' = [st EXCEPT !.slots = @ \ {p}]
  BY DEF Remove, Ready
<1>2. st \in States /\ StateOK(st, Len(plan)) /\ p \in Pkgs /\ p \in Livefs
  BY <1>1, IdleCurrent, ConstantsAssumption DEF IInv, CallOK, LogOK
<1>3. c \in Choices /\ PkgOf[c] = p
  BY <1>1, <1>2 DEF StateOK, States
<1>4. pending' \in Ops /\ pending'.op = "remove" /\ pending'.c = c /\ pending'.p = p
  BY <1>1, <1>2, <1>3 DEF RemoveOp, Op, Ops, OpNames
<1>5. Leaving' = {p}
  BY <1>1, <1>4 DEF Leaving
<1>6. LogOK' /\ st' \in States /\ Logical' = st /\ p \notin st'.slots
  BY <1>1, <1>5, TakeOut
<1>7. Valid(Logical', pending', Len(plan'))
  BY <1>1, <1>2, <1>4, <1>6 DEF Valid
<1>8. QED BY <1>1, <1>4, <1>6, <1>7 DEF IInv, CallOK

\* The decref of a blocker of the leaving package.  It disturbs neither what
\* blocks that package, which does not block itself, nor its token's absence.
LEMMA DropBlockerOK ==
    ASSUME Interned, OneInstalledPerSlot, NoSelfBlock, IInv, DropBlocker
    PROVE  IInv'
<1>1. /\ mode \in {"replacing", "removing"} /\ st \in States
      /\ Current = Logical /\ StateOK(Logical, Len(plan)) /\ Logical \in States
      /\ LogOK /\ CallOK /\ UNCHANGED calls
  BY DEF IInv, DropBlocker, CallOK, LogOK, Current, StateOK
<1>2. PICK t \in OldBlockers :
         LET o == BlockOp("decref", t) IN
         \/ /\ ~UnreferenceRaises(st, o)
            /\ Push(o)
            /\ UNCHANGED mode
         \/ /\ UnreferenceRaises(st, o)
            /\ PushLeaving(DropHalf(st, o), o)
            /\ mode' = "raised"
  BY DEF DropBlocker
<1> DEFINE o == BlockOp("decref", t)
<1>3. /\ t \in st.rev /\ t \in Tokens
      /\ t.c = IF mode = "replacing" THEN pending.oldc ELSE pending.c
  BY <1>1, <1>2 DEF OldBlockers, States
<1>4. /\ o \in Ops /\ o.op = "decref" /\ o.c = t.c /\ o.a = t.a /\ o.n = t.n
      /\ Token(o) = t /\ BlockerOp(o)
  BY <1>3, BlockOpFields DEF OpNames, BlockerOp, Tokens
<1>5. /\ Logical.rev = st.rev /\ Logical.refcnt = st.refcnt
      /\ Logical.limiters = st.limiters /\ Logical.choice = st.choice
      /\ Logical.filter = st.filter /\ Logical.hard = st.hard
      /\ Logical.slots = st.slots \cup Leaving
  BY <1>1 DEF Logical, States
<1> HIDE DEF o
<1>6. /\ st.refcnt[o.a] \in Nat /\ st.refcnt[o.a] > 0
      /\ st.limiters[o.a] = TagOf[o.c]
  <2>1. Books(Logical)
    BY <1>1 DEF StateOK
  <2>2. Books(st)
    BY <1>5, <2>1 DEF Books
  <2>3. st.refcnt[o.a] \in Nat /\ st.refcnt[o.a] > 0
    BY <1>1, <1>3, <1>4, <2>2, HeldPositive
  <2>4. st.limiters[o.a] # None /\ st.limiters[o.a] \in Tags
    BY <1>1, <1>4, <2>2, <2>3 DEF Books, BlockerOp, States
  <2>5. QED BY <1>4, <2>3, <2>4 DEF Tags, Interned, BlockerOp
<1>7. ~UnreferenceRaises(st, o)
  BY <1>3, <1>4, <1>6 DEF UnreferenceRaises
<1>8. /\ Push(o) /\ mode' = mode
  BY <1>2, <1>7 DEF o
<1>9. /\ st' = Unreference(st, o) /\ plan' = Append(plan, o)
      /\ hist' = Append(hist, Logical) /\ Leaving' = Leaving /\ pending' = pending
  BY <1>1, <1>4, <1>8 DEF Push, PushLeaving, Effect, calls, Leaving
<1> DEFINE v == Unreference(st, o)
<1>10. /\ v \in States /\ st' = v
       /\ v.slots = st.slots /\ v.choice = st.choice
       /\ v.filter = st.filter /\ v.hard = st.hard
       /\ v.rev = st.rev \ {Token(o)}
       /\ v.refcnt = [st.refcnt EXCEPT ![o.a] = @ - 1]
       /\ v.limiters = [st.limiters EXCEPT ![o.a] =
                            IF st.refcnt[o.a] = 1 THEN None ELSE @]
  <2>1. st \in States /\ BlockerOp(o) /\ st.refcnt[o.a] > 0
    BY <1>1, <1>4, <1>6
  <2>2. st' = v
    BY <1>9
  <2>3. QED BY ONLY <2>1, <2>2, UnreferenceFields
<1> HIDE DEF v
<1>11. Logical' = Effect(Logical, o) /\ Logical' \in States
  <2> DEFINE u == Unreference(Logical, o)
  <2>1. /\ u \in States
        /\ u.slots = Logical.slots /\ u.choice = Logical.choice
        /\ u.filter = Logical.filter /\ u.hard = Logical.hard
        /\ u.rev = Logical.rev \ {Token(o)}
        /\ u.refcnt = [Logical.refcnt EXCEPT ![o.a] = @ - 1]
        /\ u.limiters = [Logical.limiters EXCEPT ![o.a] =
                            IF Logical.refcnt[o.a] = 1 THEN None ELSE @]
    BY <1>1, <1>4, <1>5, <1>6, UnreferenceFields
  <2>2. Effect(Logical, o) = u
    BY <1>4 DEF Effect
  <2> HIDE DEF u
  <2>3. Leaving \subseteq Pkgs
    BY <1>1, <1>5 DEF States
  <2> DEFINE w == [v EXCEPT !.slots = @ \cup Leaving]
  <2>4. Logical' = w
    BY <1>9, <1>10 DEF Logical
  <2>5. /\ w \in States
        /\ w.slots = v.slots \cup Leaving
        /\ w.choice = v.choice /\ w.filter = v.filter
        /\ w.hard = v.hard /\ w.rev = v.rev
        /\ w.refcnt = v.refcnt /\ w.limiters = v.limiters
    BY <1>10, <2>3 DEF States
  <2> HIDE DEF w
  <2>6. w = u
    <3>1. w.slots = u.slots /\ w.choice = u.choice /\ w.filter = u.filter
      BY <1>5, <1>10, <2>1, <2>5
    <3>2. w.hard = u.hard /\ w.rev = u.rev /\ w.refcnt = u.refcnt
      BY <1>5, <1>10, <2>1, <2>5
    <3>3. w.limiters = u.limiters
      BY <1>5, <1>10, <2>1, <2>5
    <3>4. QED BY <2>1, <2>5, <3>1, <3>2, <3>3, StateEq
  <2>7. QED BY <2>2, <2>4, <2>5, <2>6
<1>12. Current' = Effect(Logical, o)
  BY <1>1, <1>8, <1>11 DEF Current
<1>13. Valid(Logical, o, Len(plan))
  BY <1>3, <1>4, <1>5 DEF Valid
<1>14. LogOK'
  BY <1>1, <1>9, <1>12, <1>13, LogPush
<1>15. /\ Logical'.slots = Logical.slots /\ Logical'.choice = Logical.choice
       /\ Logical'.filter = Logical.filter
       /\ Logical'.limiters = st'.limiters
  <2>1. Leaving \subseteq Pkgs
    BY <1>1, <1>5 DEF States
  <2>2. QED BY <1>5, <1>9, <1>10, <2>1 DEF Logical, States
<1>16. \A q \in Pkgs : Limiting(st', q) \subseteq Limiting(st, q)
  BY <1>1, <1>4, <1>10 DEF Limiting, States, BlockerOp
<1>17. \A q \in Pkgs : q \notin Blocks[o.a] => Limiting(st', q) = Limiting(st, q)
  BY <1>1, <1>4, <1>10 DEF Limiting, States, BlockerOp
<1>18. CASE mode = "replacing"
  <2>1. /\ pending.op = "replace" /\ Valid(Logical, pending, Len(plan))
        /\ pending.old \notin st.slots /\ Limiting(st, pending.p) = {}
    BY <1>1, <1>18 DEF CallOK
  <2>2. /\ pending \in Ops
        /\ pending.c \in Choices /\ pending.p = PkgOf[pending.c]
        /\ pending.p \notin Livefs
        /\ pending.old \in Livefs /\ Occupants(Logical, pending.p) = {pending.old}
        /\ pending.oldc = Logical.choice[pending.old]
        /\ pending.force = (Limiting(Logical, pending.old) # {})
        /\ pending.p \in Pkgs /\ pending.old \in Pkgs
    BY <2>1, ConstantsAssumption DEF Valid
  <2>3. PkgOf[o.c] = pending.old /\ o.a \in BlockersOf[o.c]
    <3>1. pending.old \in Logical.slots
      BY <2>2 DEF Occupants
    <3>2. PkgOf[pending.oldc] = pending.old
      BY <1>1, <2>2, <3>1 DEF StateOK
    <3>3. t.a \in BlockersOf[t.c]
      BY <1>1, <1>3, <1>5 DEF StateOK
    <3>4. QED BY <1>3, <1>4, <1>18, <3>2, <3>3
  <2>4. Limiting(st', pending.old) = Limiting(st, pending.old)
    BY <1>4, <1>17, <2>2, <2>3 DEF NoSelfBlock, BlockerOp
  <2>5. Limiting(Logical', pending.old) = Limiting(Logical, pending.old)
    BY <1>5, <1>15, <2>4 DEF Limiting
  <2>6. Occupants(Logical', pending.p) = Occupants(Logical, pending.p)
    BY <1>15 DEF Occupants
  <2>7. Valid(Logical', pending, Len(plan'))
    BY <1>15, <2>1, <2>2, <2>5, <2>6 DEF Valid
  <2>8. Limiting(st', pending.p) = {}
    BY <1>16, <2>1, <2>2
  <2>9. pending.old \notin st'.slots
    BY <1>10, <2>1
  <2>10. CallOK'
    BY <1>1, <1>8, <1>9, <1>10, <1>18, <2>1, <2>7, <2>8, <2>9 DEF CallOK, calls
  <2>11. QED BY <1>14, <2>10 DEF IInv
<1>19. CASE mode = "removing"
  <2>1. /\ pending.op = "remove" /\ Valid(Logical, pending, Len(plan))
        /\ pending.p \notin st.slots
    BY <1>1, <1>19 DEF CallOK
  <2>2. Valid(Logical', pending, Len(plan'))
    BY <1>15, <2>1 DEF Valid
  <2>3. CallOK'
    BY <1>1, <1>8, <1>9, <1>10, <1>19, <2>1, <2>2 DEF CallOK, calls
  <2>4. QED BY <1>14, <2>3 DEF IInv
<1>20. QED BY <1>1, <1>18, <1>19
\* The end of replace and remove: the package that was taken out already would
\* be taken out anyway.
LEMMA UnseatLogical ==
    ASSUME st \in States, NEW p \in Pkgs, Leaving = {p}, p \notin st.slots
    PROVE  Unseat(st, p) = Unseat(Logical, p)
<1> DEFINE g == Logical
<1> DEFINE u == Unseat(st, p)
<1> DEFINE w == Unseat(g, p)
<1>1. /\ g \in States
      /\ g.slots = st.slots \cup {p} /\ g.choice = st.choice
      /\ g.filter = st.filter /\ g.hard = st.hard /\ g.rev = st.rev
      /\ g.refcnt = st.refcnt /\ g.limiters = st.limiters
  BY DEF Logical, States
<1>2. /\ u \in States
      /\ u.slots = st.slots \ {p}
      /\ u.choice = [st.choice EXCEPT ![p] = None]
      /\ u.filter = st.filter /\ u.hard = st.hard /\ u.rev = st.rev
      /\ u.refcnt = st.refcnt /\ u.limiters = st.limiters
  BY UnseatFields
<1> HIDE DEF g, u
<1>3. /\ w \in States
      /\ w.slots = g.slots \ {p}
      /\ w.choice = [g.choice EXCEPT ![p] = None]
      /\ w.filter = g.filter /\ w.hard = g.hard /\ w.rev = g.rev
      /\ w.refcnt = g.refcnt /\ w.limiters = g.limiters
  BY <1>1, UnseatFields
<1> HIDE DEF w
<1>4. /\ u.slots = w.slots /\ u.choice = w.choice /\ u.filter = w.filter
      /\ u.hard = w.hard /\ u.rev = w.rev /\ u.refcnt = w.refcnt
      /\ u.limiters = w.limiters
  BY <1>1, <1>2, <1>3
<1>5. u = w
  BY <1>2, <1>3, <1>4, StateEq
<1>6. QED BY <1>5 DEF u, w, g

\* The last step of a replacement or a removal keeps the invariant.
LEMMA CompleteOK ==
    ASSUME Interned, OneInstalledPerSlot, IInv, Complete
    PROVE  IInv'
<1>1. /\ mode \in {"replacing", "removing"} /\ mode' = "idle" /\ pending' = None
      /\ st' = Effect(st, pending) /\ plan' = Append(plan, pending)
      /\ hist' = Append(hist, Logical)
      /\ target' = target /\ done' = done /\ before' = before
      /\ LogOK /\ CallOK /\ st \in States
  BY DEF Complete, Push, PushLeaving, IInv, CallOK
<1>2. Valid(Logical, pending, Len(plan)) /\ StateOK(Logical, Len(plan))
  BY <1>1 DEF CallOK, LogOK, Current
<1>3. Effect(st, pending) = Effect(Logical, pending)
  <2>1. CASE mode = "replacing"
    <3>1. /\ pending.op = "replace" /\ pending.old \in Livefs
          /\ pending.old \notin st.slots /\ Leaving = {pending.old}
      BY <1>1, <1>2, <2>1 DEF CallOK, Valid, Leaving
    <3>2. Unseat(st, pending.old) = Unseat(Logical, pending.old)
      BY <1>1, <3>1, UnseatLogical, ConstantsAssumption
    <3>3. QED BY <3>1, <3>2 DEF Effect
  <2>2. CASE mode = "removing"
    <3>1. /\ pending.op = "remove" /\ pending.p \in Livefs
          /\ pending.p \notin st.slots /\ Leaving = {pending.p}
      BY <1>1, <1>2, <2>2 DEF CallOK, Valid, Leaving
    <3>2. Unseat(st, pending.p) = Unseat(Logical, pending.p)
      BY <1>1, <3>1, UnseatLogical, ConstantsAssumption
    <3>3. QED BY <3>1, <3>2 DEF Effect
  <2>3. QED BY <1>1, <2>1, <2>2
<1>4. st' \in States
  BY <1>1, <1>2, <1>3, UndoEffect DEF StateOK, LogOK
<1>5. Current' = Effect(Logical, pending)
  BY <1>1, <1>3, <1>4, IdleNext
<1>6. LogOK'
  BY <1>1, <1>2, <1>5, LogPush
<1>7. QED BY <1>1, <1>4, <1>6 DEF IInv, CallOK

\* The call of backtrack keeps the invariant.
LEMMA BacktrackOK ==
    ASSUME IInv, NEW n \in 0 .. Len(plan), Backtrack(n)
    PROVE  IInv'
<1>1. /\ mode = "idle" /\ mode' = "backtracking" /\ n \in 0 .. Len(plan) - 1
      /\ target' = n /\ done' = 0 /\ before' = st /\ st' = st
      /\ plan' = plan /\ hist' = hist /\ pending' = pending
  BY DEF Backtrack
<1>2. /\ st \in States /\ Current = st /\ LogOK /\ pending = None /\ Len(plan) \in Nat
  BY <1>1, IdleCurrent DEF IInv, CallOK, LogOK
<1>3. Current' = Current
  BY <1>1, <1>2 DEF Current
<1>4. LogOK'
  BY <1>1, <1>2, <1>3, LogSame
<1>5. QED BY <1>1, <1>2, <1>4 DEF IInv, CallOK

\* One reversion: by UndoEffect it gives the state recorded for the operation.
LEMMA RevertLastOK ==
    ASSUME Interned, OneInstalledPerSlot, IInv, RevertLast
    PROVE  /\ IInv'
           /\ Current' = Current /\ hist' = hist
<1> DEFINE i == Len(plan) - done
<1>1. /\ mode = "backtracking" /\ i > target /\ target \in Nat /\ done \in Nat
      /\ st \in States /\ before \in States /\ pending = None
      /\ target < Len(plan) /\ target + done <= Len(plan)
      /\ st = IF done = 0 THEN before ELSE hist[i + 1]
      /\ LogOK /\ Current = before /\ Len(plan) \in Nat /\ Len(hist) = Len(plan)
      /\ UNCHANGED <<pending, target, before>>
  BY DEF RevertLast, IInv, CallOK, LogOK, Current
<1>2. i \in 1 .. Len(plan) /\ i - 1 \in Nat /\ (i < Len(plan) <=> done # 0)
  BY <1>1
<1>3. /\ StateOK(hist[i], i - 1)
      /\ Valid(hist[i], plan[i], i - 1)
      /\ After(i) = Effect(hist[i], plan[i])
  BY <1>1, <1>2 DEF LogOK
<1>4. st = Effect(hist[i], plan[i])
  BY <1>1, <1>2, <1>3 DEF After
<1>5. Undo(st, Last) = hist[i] /\ ~UndoRaises(st, Last) /\ hist[i] \in States
  BY <1>2, <1>3, <1>4, UndoEffect DEF Last, StateOK
<1>6. st' = hist[i] /\ done' = done + 1 /\ plan' = plan /\ mode' = mode /\ hist' = hist
  BY <1>5 DEF RevertLast
<1>7. Current' = Current
  BY <1>1, <1>6 DEF Current
<1>8. LogOK'
  BY <1>1, <1>6, <1>7, LogSame
<1>9. Len(plan') - done' + 1 = i
  BY <1>1, <1>6
<1>10. CallOK'
  <2>1. done' \in Nat /\ done' # 0 /\ target' + done' <= Len(plan')
    BY <1>1, <1>6
  <2>2. st' = IF done' = 0 THEN before' ELSE hist'[Len(plan') - done' + 1]
    BY <1>6, <1>9, <2>1
  <2>3. QED BY <1>1, <1>5, <1>6, <2>1, <2>2 DEF CallOK
<1>11. QED BY <1>6, <1>7, <1>8, <1>10 DEF IInv

\* The end of backtracking: the state is the one recorded for the first
\* operation that is cut off.
LEMMA CutPlanOK ==
    ASSUME IInv, CutPlan
    PROVE  /\ IInv'
           /\ target \in 0 .. Len(hist) - 1
           /\ Current' = hist[target + 1] /\ hist' = SubSeq(hist, 1, target)
<1>1. /\ mode = "backtracking" /\ Len(plan) - done = target
      /\ plan' = SubSeq(plan, 1, target) /\ hist' = SubSeq(hist, 1, target)
      /\ mode' = "idle" /\ target' = 0 /\ done' = 0 /\ before' = Empty
      /\ st' = st /\ pending' = pending
  BY DEF CutPlan
<1>2. /\ target \in Nat /\ done \in Nat /\ st \in States /\ pending = None
      /\ target < Len(plan) /\ LogOK
      /\ st = IF done = 0 THEN before ELSE hist[Len(plan) - done + 1]
      /\ plan \in Seq(Ops) /\ hist \in Seq(States)
      /\ Len(hist) = Len(plan) /\ Len(plan) \in Nat
  BY <1>1 DEF IInv, CallOK, LogOK
<1>3. st = hist[target + 1] /\ target + 1 \in 1 .. Len(plan)
  BY <1>1, <1>2
<1>4. Current' = st
  BY <1>1, <1>2, IdleNext
<1>5. /\ plan' \in Seq(Ops) /\ hist' \in Seq(States)
      /\ Len(plan') = target /\ Len(hist') = target
      /\ \A i \in 1 .. target : plan'[i] = plan[i] /\ hist'[i] = hist[i]
  BY <1>1, <1>2
<1>6. StateOK(Current', Len(plan'))
  BY <1>2, <1>3, <1>4, <1>5 DEF LogOK
<1>7. ASSUME NEW i \in 1 .. target
      PROVE  /\ StateOK(hist'[i], i - 1)
             /\ Valid(hist'[i], plan'[i], i - 1)
             /\ After(i)' = Effect(hist'[i], plan'[i])
  <2>1. i \in 1 .. Len(plan) /\ i < Len(plan)
    BY <1>2
  <2>2. /\ StateOK(hist[i], i - 1)
        /\ Valid(hist[i], plan[i], i - 1)
        /\ After(i) = Effect(hist[i], plan[i])
    BY <1>2, <2>1 DEF LogOK
  <2>3. After(i) = hist[i + 1]
    BY <2>1 DEF After
  <2>4. After(i)' = hist[i + 1]
    BY <1>2, <1>3, <1>4, <1>5 DEF After
  <2>5. QED BY <1>5, <2>2, <2>3, <2>4
<1>8. LogOK'
  BY <1>5, <1>6, <1>7 DEF LogOK
<1>9. Empty \in States
  BY DEF Empty, States
<1>10. CallOK'
  BY <1>1, <1>2, <1>9 DEF CallOK
<1>11. QED BY <1>1, <1>2, <1>3, <1>4, <1>8, <1>10 DEF IInv
-----------------------------------------------------------------------------
(***************************************************************************)
(* What TLC checks on one instance, for every instance whose packages are  *)
(* of one EAPI, block not themselves, and are installed one to a slot.     *)
(***************************************************************************)
Sane == Interned /\ NoSelfBlock /\ OneInstalledPerSlot

\* Every step of the resolver keeps the invariant, and is a step of the abstract
\* undo stack or leaves what that stack sees as it is.
LEMMA NextOK ==
    ASSUME Sane, IInv, [Next]_vars
    PROVE  IInv'
<1>1. Interned /\ NoSelfBlock /\ OneInstalledPerSlot
  BY DEF Sane
<1>2. CASE \E c \in Choices : Add(c) \/ ForceAdd(c) \/ Replace(c) \/ AddBackref(c)
  BY <1>1, <1>2, AddOK, ForceAddOK, ReplaceOK, AddBackrefOK
<1>3. CASE \E c \in Choices, a \in Atoms : AddBlocker(c, a)
  BY <1>1, <1>3, AddBlockerOK
<1>4. CASE \E r \in Restricts : AddHardref(r)
  BY <1>1, <1>4, AddHardrefOK
<1>5. CASE \E p \in Removable : Remove(p)
  BY <1>1, <1>5, RemoveOK
<1>6. CASE \E n \in 0 .. Len(plan) : Backtrack(n)
  BY <1>6, BacktrackOK
<1>7. CASE Continue
  BY <1>1, <1>7, DropBlockerOK, CompleteOK, RevertLastOK, CutPlanOK DEF Continue
<1>8. CASE UNCHANGED vars
  <2>1. /\ st' = st /\ plan' = plan /\ mode' = mode /\ pending' = pending
        /\ target' = target /\ done' = done /\ hist' = hist /\ before' = before
    BY <1>8 DEF vars
  <2>2. Logical' = Logical
    BY <2>1 DEF Logical, Leaving
  <2>3. Current' = Current
    BY <2>1, <2>2 DEF Current
  <2>4. LogOK'
    BY <2>1, <2>3, LogSame DEF IInv
  <2>5. Valid(Logical', pending', Len(plan')) <=> Valid(Logical, pending, Len(plan))
    BY <2>1, <2>2
  <2>6. Limiting(st', pending'.p) = Limiting(st, pending.p)
    BY <2>1
  <2>7. CallOK'
    BY <2>1, <2>5, <2>6 DEF IInv, CallOK
  <2>8. QED BY <2>4, <2>7 DEF IInv
<1>9. QED BY <1>2, <1>3, <1>4, <1>5, <1>6, <1>7, <1>8 DEF Next

\* The invariant holds throughout.
THEOREM Inductive ==
    ASSUME Sane
    PROVE  Spec => []IInv
<1>1. IInv /\ [Next]_vars => IInv'
  BY NextOK
<1>2. QED BY <1>1, InitOK, PTL DEF Spec

\* Every variable holds what the code puts there.
THEOREM TypeCorrect ==
    ASSUME Sane
    PROVE  Spec => []TypeOK
<1>1. IInv => TypeOK
  BY DEF IInv, LogOK, CallOK, TypeOK, Valid
<1>2. QED BY <1>1, Inductive, PTL

\* The packages of the plan never share a slot, in the middle of a call neither.
LEMMA StatesInOrder ==
    ASSUME IInv
    PROVE  /\ st \in States /\ Books(st)
           /\ \A p, q \in st.slots : SlotOf[p] = SlotOf[q] => p = q
           /\ \A p \in Pkgs : st.choice[p] # None => PkgOf[st.choice[p]] = p
           /\ mode = "idle" => StateOK(st, Len(plan))
<1>1. st \in States /\ StateOK(Current, Len(plan)) /\ Len(plan) \in Nat /\ Len(hist) = Len(plan)
  BY DEF IInv, CallOK, LogOK
<1>2. CASE mode = "backtracking"
  <2>1. CASE done = 0
    BY <1>1, <1>2, <2>1 DEF IInv, CallOK, Current, StateOK
  <2>2. CASE done # 0
    <3>1. /\ Len(plan) - done + 1 \in 1 .. Len(plan)
          /\ st = hist[Len(plan) - done + 1]
      BY <1>1, <1>2, <2>2 DEF IInv, CallOK
    <3>2. PICK i \in 1 .. Len(plan) : st = hist[i]
      BY <3>1
    <3>3. StateOK(st, i - 1)
      BY <3>2 DEF IInv, LogOK
    <3>4. QED BY <1>2, <3>3 DEF StateOK
  <2>3. QED BY <2>1, <2>2
<1>3. CASE mode # "backtracking"
  <2>1. /\ Logical.rev = st.rev /\ Logical.refcnt = st.refcnt
        /\ Logical.limiters = st.limiters /\ Logical.choice = st.choice
        /\ Logical.slots = st.slots \cup Leaving
    BY <1>1 DEF Logical, States
  <2>2. StateOK(Logical, Len(plan))
    BY <1>1, <1>3 DEF Current
  <2>3. Books(st)
    BY <2>1, <2>2, BooksSame DEF StateOK
  <2>4. mode = "idle" => StateOK(st, Len(plan))
    BY <1>1, <2>2, IdleCurrent
  <2>5. QED BY <1>1, <2>1, <2>2, <2>3, <2>4 DEF StateOK
<1>4. QED BY <1>2, <1>3

\* OnePerSlot: two packages of one slot are never in the plan together (pigeonholes.fill_slotting
\* and the forced additions that go around it).
THEOREM SlotsApart ==
    ASSUME Sane
    PROVE  Spec => []OnePerSlot
<1>1. IInv => OnePerSlot
  BY StatesInOrder DEF OnePerSlot
<1>2. QED BY <1>1, Inductive, PTL

\* The reference counts, rev_blockers and the limiters agree.
THEOREM BooksKept ==
    ASSUME Sane
    PROVE  Spec => []BooksAgree
<1>1. IInv => BooksAgree
  BY StatesInOrder DEF BooksAgree, Books, Of
<1>2. QED BY <1>1, Inductive, PTL

\* Between calls pkg_choices is defined on exactly the packages of the plan.
THEOREM ChoicesKnown ==
    ASSUME Sane
    PROVE  Spec => []PackagesHaveChoices
<1>1. IInv => PackagesHaveChoices
  BY StatesInOrder DEF PackagesHaveChoices, StateOK
<1>2. QED BY <1>1, Inductive, PTL

\* No limiter goes missing and no assertion of revert fails.
THEOREM CallsReturn ==
    ASSUME Sane
    PROVE  Spec => []NeverRaises
<1>1. IInv => NeverRaises
  BY DEF IInv, CallOK, NeverRaises
<1>2. QED BY <1>1, Inductive, PTL

\* After each reversion the state is the one the operation was applied to.
THEOREM BacktrackExact ==
    ASSUME Sane
    PROVE  Spec => []BacktrackingIsExact
<1>1. IInv => BacktrackingIsExact
  BY DEF IInv, LogOK, CallOK, BacktrackingIsExact
<1>2. QED BY <1>1, Inductive, PTL

\* The branch of replace_op.apply for a new package that is refused is dead.
THEOREM NewPackageFits ==
    ASSUME Sane
    PROVE  Spec => []ReplacementFits
<1>1. IInv => ReplacementFits
  <2> SUFFICES ASSUME IInv, mode = "replacing" PROVE
        Limiting(st, PkgOf[pending.c]) \cup Occupants(st, PkgOf[pending.c]) = {}
    BY DEF ReplacementFits
  <2>1. /\ pending.op = "replace" /\ Valid(Logical, pending, Len(plan))
        /\ pending.old \notin st.slots /\ Limiting(st, pending.p) = {} /\ st \in States
    BY DEF IInv, CallOK
  <2>2. /\ pending.p = PkgOf[pending.c]
        /\ Occupants(Logical, pending.p) = {pending.old}
    BY <2>1 DEF Valid
  <2>3. Logical.slots = st.slots \cup {pending.old}
    BY <2>1 DEF Logical, Leaving, States
  <2>4. Occupants(st, pending.p) = {}
    BY <2>1, <2>2, <2>3 DEF Occupants
  <2>5. QED BY <2>1, <2>2, <2>4
<1>2. QED BY <1>1, Inductive, PTL
-----------------------------------------------------------------------------
(***************************************************************************)
(* plan_state implements an undo stack: a logged operation pushes the      *)
(* current state, the end of a backtrack returns to one that was pushed,   *)
(* and no other step is visible.                                           *)
(***************************************************************************)
\* Logging an operation pushes the state it was applied to.
LEMMA PushIsDo ==
    ASSUME IInv, mode # "backtracking", hist' = Append(hist, Logical)
    PROVE  History!Do
BY DEF History!Do, Current

\* Beginning a call changes nothing the stack sees.
LEMMA BeginHidden ==
    ASSUME IInv, mode = "idle",
           \/ \E c \in Choices : Replace(c)
           \/ \E p \in Removable : Remove(p)
           \/ \E n \in 0 .. Len(plan) : Backtrack(n)
    PROVE  Current' = Current /\ hist' = hist
<1>1. st \in States /\ Current = st /\ StateOK(st, Len(plan))
  BY IdleCurrent DEF IInv, CallOK, LogOK
<1>2. CASE \E c \in Choices : Replace(c)
  <2>1. PICK c \in Choices : Replace(c)
    BY <1>2
  <2>2. PICK old \in Livefs :
          /\ Occupants(st, PkgOf[c]) = {old}
          /\ pending' = ReplaceOp(c, old, st.choice[old], Limiting(st, old) # {})
          /\ st' = [st EXCEPT !.slots = @ \ {old}]
    BY <2>1 DEF Replace
  <2>3. mode' = "replacing" /\ plan' = plan /\ hist' = hist
    BY <2>1 DEF Replace
  <2>4. pending'.old = old /\ old \in st.slots
    BY <2>2 DEF ReplaceOp, Op, Occupants
  <2>5. Logical' = st
    BY <2>2, <2>3, <2>4, TakeOut DEF Leaving
  <2>6. QED BY <1>1, <2>3, <2>5 DEF Current
<1>3. CASE \E p \in Removable : Remove(p)
  <2>1. PICK p \in Removable : Remove(p)
    BY <1>3
  <2>2. /\ mode' = "removing" /\ plan' = plan /\ hist' = hist
        /\ p \in st.slots /\ pending' = RemoveOp(st.choice[p])
        /\ st' = [st EXCEPT !.slots = @ \ {p}]
    BY <2>1 DEF Remove
  <2>3. PkgOf[st.choice[p]] = p
    BY <1>1, <2>2 DEF StateOK, States
  <2>4. Leaving' = {p}
    BY <2>2, <2>3 DEF RemoveOp, Op, Leaving
  <2>5. Logical' = st
    BY <2>2, <2>4, TakeOut
  <2>6. QED BY <1>1, <2>2, <2>5 DEF Current
<1>4. CASE \E n \in 0 .. Len(plan) : Backtrack(n)
  BY <1>1, <1>4 DEF Backtrack, Current
<1>5. QED BY <1>2, <1>3, <1>4

\* Every step of the plan is a step of a stack of states, or changes nothing it shows.
LEMMA StepIsStackStep ==
    ASSUME Sane, IInv, [Next]_vars
    PROVE  [History!Next]_<<Current, hist>>
<1>1. Interned /\ NoSelfBlock /\ OneInstalledPerSlot
  BY DEF Sane
<1>2. mode # "raised" /\ Len(hist) \in Nat
  BY DEF IInv, CallOK, LogOK
<1>3. CASE hist' = Append(hist, Logical) /\ mode # "backtracking"
  BY <1>3, PushIsDo DEF History!Next
<1>4. CASE \/ \E c \in Choices : Replace(c)
           \/ \E p \in Removable : Remove(p)
           \/ \E n \in 0 .. Len(plan) : Backtrack(n)
  <2>1. mode = "idle"
    BY <1>4 DEF Replace, Remove, Backtrack, Ready
  <2>2. QED BY <1>4, <2>1, BeginHidden
<1>5. CASE \E c \in Choices : Add(c) \/ ForceAdd(c) \/ AddBackref(c)
  BY <1>3, <1>5 DEF Add, ForceAdd, AddBackref, Push, PushLeaving, Ready
<1>6. CASE \E c \in Choices, a \in Atoms : AddBlocker(c, a)
  BY <1>3, <1>6 DEF AddBlocker, Push, PushLeaving, Ready
<1>7. CASE \E r \in Restricts : AddHardref(r)
  BY <1>3, <1>7 DEF AddHardref, Push, PushLeaving, Ready
<1>8. CASE DropBlocker
  <2>1. mode' # "raised"
    BY <1>1, <1>8, DropBlockerOK DEF IInv, CallOK
  <2>2. QED BY <1>3, <1>8, <2>1 DEF DropBlocker, PushLeaving, Push
<1>9. CASE Complete
  BY <1>3, <1>9 DEF Complete, Push, PushLeaving
<1>10. CASE RevertLast
  BY <1>1, <1>10, RevertLastOK
<1>11. CASE CutPlan
  <2>1. /\ target \in 0 .. Len(hist) - 1
        /\ Current' = hist[target + 1] /\ hist' = SubSeq(hist, 1, target)
    BY <1>11, CutPlanOK
  <2>2. target \in 0 .. Len(hist)
    BY <1>2, <2>1
  <2>3. QED BY <2>1, <2>2 DEF History!Next, History!BackTo
<1>12. CASE UNCHANGED vars
  BY <1>12 DEF vars, Current, Logical, Leaving
<1>13. QED
  BY <1>4, <1>5, <1>6, <1>7, <1>8, <1>9, <1>10, <1>11, <1>12 DEF Next, Continue

\* What the resolver relies on when it backtracks.
THEOREM UndoStackImplemented ==
    ASSUME Sane
    PROVE  Spec => IsUndoStack
<1>1. Init => History!Init
  BY DEF Init, History!Init
<1>2. IInv /\ [Next]_vars => [History!Next]_<<Current, hist>>
  BY StepIsStackStep
<1>3. QED BY <1>1, <1>2, Inductive, PTL DEF Spec, IsUndoStack, History!Spec
-----------------------------------------------------------------------------
(***************************************************************************)
(* Why an installed package is hidden.  HiddenForCause is not inductive:   *)
(* backtracking returns to an older state, whose cause has to be in the    *)
(* part of the log that is kept.  So it is stated of every recorded state, *)
(* with the operations that led to it.                                     *)
(***************************************************************************)
\* Every package hidden in s was removed by one of the first k operations of the
\* log or has its slot taken by another.
Caused(s, k, log) ==
    \A p \in s.filter :
      \/ \E i \in 1 .. k : log[i].op = "remove" /\ log[i].p = p
      \/ \E q \in s.slots \ {p} : SlotOf[q] = SlotOf[p]

CauseOK ==
    /\ Caused(Current, Len(plan), plan)
    /\ \A i \in 1 .. Len(plan) : Caused(hist[i], i - 1, plan)

\* How a step changes the log: not at all, by one operation, or by cutting it
\* back to a position whose state becomes the current one.
LEMMA LogShape ==
    ASSUME Sane, IInv, [Next]_vars
    PROVE  \/ plan' = plan /\ hist' = hist /\ Current' = Current
           \/ /\ \E o : plan' = Append(plan, o)
              /\ hist' = Append(hist, Current)
           \/ /\ target \in 0 .. Len(plan) - 1
              /\ plan' = SubSeq(plan, 1, target) /\ hist' = SubSeq(hist, 1, target)
              /\ Current' = hist[target + 1]
<1>1. Interned /\ NoSelfBlock /\ OneInstalledPerSlot
  BY DEF Sane
<1>2. mode # "raised" /\ Len(hist) = Len(plan)
  BY DEF IInv, CallOK, LogOK
<1>3. CASE (\E o, s : PushLeaving(s, o)) /\ mode # "backtracking"
  BY <1>3 DEF PushLeaving, Current
<1>4. CASE \/ \E c \in Choices : Replace(c)
           \/ \E p \in Removable : Remove(p)
           \/ \E n \in 0 .. Len(plan) : Backtrack(n)
  <2>1. mode = "idle" /\ plan' = plan
    BY <1>4 DEF Replace, Remove, Backtrack, Ready
  <2>2. QED BY <1>4, <2>1, BeginHidden
<1>5. CASE \E c \in Choices : Add(c) \/ ForceAdd(c) \/ AddBackref(c)
  BY <1>3, <1>5 DEF Add, ForceAdd, AddBackref, Push, Ready
<1>6. CASE \E c \in Choices, a \in Atoms : AddBlocker(c, a)
  BY <1>3, <1>6 DEF AddBlocker, Push, Ready
<1>7. CASE \E r \in Restricts : AddHardref(r)
  BY <1>3, <1>7 DEF AddHardref, Push, Ready
<1>8. CASE DropBlocker
  BY <1>3, <1>8 DEF DropBlocker, Push
<1>9. CASE Complete
  BY <1>3, <1>9 DEF Complete, Push
<1>10. CASE RevertLast
  <2>1. IInv' /\ Current' = Current /\ hist' = hist
    BY <1>1, <1>10, RevertLastOK
  <2>2. mode' # "raised"
    BY <2>1 DEF IInv, CallOK
  <2>3. QED BY <1>10, <2>1, <2>2 DEF RevertLast
<1>11. CASE CutPlan
  BY <1>2, <1>11, CutPlanOK DEF CutPlan
<1>12. CASE UNCHANGED vars
  BY <1>12 DEF vars, Current, Logical, Leaving
<1>13. QED
  BY <1>4, <1>5, <1>6, <1>7, <1>8, <1>9, <1>10, <1>11, <1>12 DEF Next, Continue

\* No operation takes a cause away from a package that stays hidden: whatever leaves
\* a slot is installed, hence not in the slot of another installed package,
\* unless its replacement takes that slot.
LEMMA EffectKeepsCause ==
    ASSUME OneInstalledPerSlot, NEW s, NEW k \in Nat, StateOK(s, k),
           NEW o, Valid(s, o, k), NEW p \in Effect(s, o).filter
    PROVE  \/ o.op = "remove" /\ o.p = p
           \/ \E q \in Effect(s, o).slots \ {p} : SlotOf[q] = SlotOf[p]
           \/ /\ p \in s.filter
              /\ \A q \in s.slots \ {p} : SlotOf[q] = SlotOf[p] =>
                   q \in Effect(s, o).slots
<1> DEFINE u == Effect(s, o)
<1>1. /\ s \in States /\ s.slots \cap s.filter = {} /\ s.filter \subseteq Livefs
      /\ Livefs \subseteq Pkgs
  BY ConstantsAssumption DEF StateOK
<1>2. CASE o.op = "add"
  <2>1. o.c \in Choices /\ o.p \in Pkgs
    BY <1>2, ConstantsAssumption DEF Valid
  <2>2. u = Seat(s, o.p, o.c)
    BY <1>2 DEF Effect
  <2>3. u.slots = s.slots \cup {o.p} /\ u.filter = s.filter
    BY <1>1, <2>2 DEF Seat, States
  <2>4. QED BY <2>3
<1>3. CASE o.op \in {"incref", "hardref", "backref"}
  <2>1. u.filter = s.filter /\ u.slots = s.slots
    BY <1>1, <1>3 DEF Effect, Reference, States
  <2>2. QED BY <2>1
<1>4. CASE o.op = "decref"
  <2>1. u.filter = s.filter /\ u.slots = s.slots
    BY <1>1, <1>4 DEF Effect, Unreference, States
  <2>2. QED BY <2>1
<1>5. CASE o.op = "replace"
  <2>1. /\ o.c \in Choices /\ o.p \in Pkgs /\ o.p \notin Livefs
        /\ o.old \in Livefs /\ o.old \in Pkgs /\ Occupants(s, o.p) = {o.old}
    BY <1>1, <1>5, ConstantsAssumption DEF Valid
  <2>2. o.old \in s.slots /\ SlotOf[o.old] = SlotOf[o.p]
    BY <2>1 DEF Occupants
  <2> DEFINE a == Unseat(s, o.old)
  <2> DEFINE b == Seat(a, o.p, o.c)
  <2>3. a \in States /\ a.slots = s.slots \ {o.old} /\ a.filter = s.filter
    BY <1>1, <2>1, UnseatFields
  <2> HIDE DEF a
  <2>4. b \in States /\ b.slots = a.slots \cup {o.p} /\ b.filter = a.filter
    BY <2>1, <2>3 DEF Seat, States
  <2> HIDE DEF b
  <2>5. u = Hide(b, o.old)
    BY <1>5 DEF Effect, a, b
  <2>6. u.slots = b.slots /\ u.filter = b.filter \cup {o.old}
    BY <2>1, <2>4, <2>5, HideFields
  <2>7. p # o.p /\ o.p \in u.slots
    BY <1>1, <2>1, <2>3, <2>4, <2>6
  <2>8. CASE SlotOf[p] = SlotOf[o.p]
    BY <2>7, <2>8
  <2>9. CASE SlotOf[p] # SlotOf[o.p]
    BY <2>2, <2>3, <2>4, <2>6, <2>9
  <2>10. QED BY <2>8, <2>9
<1>6. CASE o.op = "remove"
  <2>1. o.p \in s.slots /\ o.p \in Livefs /\ o.p \in Pkgs
    BY <1>1, <1>6 DEF Valid
  <2> DEFINE a == Unseat(s, o.p)
  <2>2. a \in States /\ a.slots = s.slots \ {o.p} /\ a.filter = s.filter
    BY <1>1, <2>1, UnseatFields
  <2> HIDE DEF a
  <2>3. u = Hide(a, o.p)
    BY <1>6 DEF Effect, a
  <2>4. u.slots = a.slots /\ u.filter = a.filter \cup {o.p}
    BY <2>1, <2>2, <2>3, HideFields
  <2>5. CASE p = o.p
    BY <1>6, <2>5
  <2>6. CASE p # o.p
    <3>1. p \in Livefs /\ p \in s.filter
      BY <1>1, <2>2, <2>4, <2>6
    <3>2. SlotOf[p] # SlotOf[o.p]
      BY <2>1, <2>6, <3>1 DEF OneInstalledPerSlot
    <3>3. QED BY <2>2, <2>4, <3>1, <3>2
  <2>7. QED BY <2>5, <2>6
<1>7. o.op \in {"add", "incref", "hardref", "backref", "decref", "replace", "remove"}
  BY DEF Valid
<1>8. QED BY <1>2, <1>3, <1>4, <1>5, <1>6, <1>7

\* Every step keeps the causes.
LEMMA CauseNext ==
    ASSUME Sane, IInv, CauseOK, [Next]_vars
    PROVE  CauseOK'
<1>1. IInv' /\ OneInstalledPerSlot
  BY NextOK DEF Sane
<1>2. plan \in Seq(Ops) /\ hist \in Seq(States) /\ Len(hist) = Len(plan) /\ Len(plan) \in Nat
  BY DEF IInv, LogOK
<1>3. CASE plan' = plan /\ hist' = hist /\ Current' = Current
  BY <1>3 DEF CauseOK, Caused
<1>4. ASSUME NEW o, plan' = Append(plan, o), hist' = Append(hist, Current)
      PROVE  CauseOK'
  <2> DEFINE L == Len(plan)
  <2>1. plan' \in Seq(Ops) /\ Len(plan') = Len(hist')
    BY <1>1 DEF IInv, LogOK
  <2>2. /\ Len(plan') = L + 1 /\ plan'[L + 1] = o /\ hist'[L + 1] = Current
        /\ \A i \in 1 .. L : plan'[i] = plan[i] /\ hist'[i] = hist[i]
    BY <1>2, <1>4
  <2>3. /\ StateOK(Current, L) /\ Valid(Current, o, L)
        /\ Current' = Effect(Current, o)
    <3>1. PICK i : i = L + 1
      OBVIOUS
    <3>2. LogOK' /\ i \in 1 .. Len(plan') /\ i - 1 = L /\ ~(i < Len(plan'))
      BY <1>1, <1>2, <2>2, <3>1 DEF IInv
    <3>3. /\ StateOK(hist'[i], i - 1)
          /\ Valid(hist'[i], plan'[i], i - 1)
          /\ After(i)' = Effect(hist'[i], plan'[i])
      BY <3>2 DEF LogOK
    <3>4. After(i)' = Current'
      BY <3>2 DEF After
    <3>5. QED BY <2>2, <3>1, <3>2, <3>3, <3>4
  <2>4. \A s, i : i \in 0 .. L /\ Caused(s, i, plan) => Caused(s, i, plan')
    <3> SUFFICES ASSUME NEW s, NEW i \in 0 .. L, Caused(s, i, plan),
                        NEW p \in s.filter
                 PROVE  \/ \E j \in 1 .. i : plan'[j].op = "remove" /\ plan'[j].p = p
                        \/ \E q \in s.slots \ {p} : SlotOf[q] = SlotOf[p]
      BY DEF Caused
    <3>1. QED BY <1>2, <2>2 DEF Caused
  <2>5. Caused(Current', Len(plan'), plan')
    <3> SUFFICES ASSUME NEW p \in Current'.filter
                 PROVE  \/ \E j \in 1 .. L + 1 : plan'[j].op = "remove" /\ plan'[j].p = p
                        \/ \E q \in Current'.slots \ {p} : SlotOf[q] = SlotOf[p]
      BY <2>2 DEF Caused
    <3>1. \/ o.op = "remove" /\ o.p = p
          \/ \E q \in Current'.slots \ {p} : SlotOf[q] = SlotOf[p]
          \/ /\ p \in Current.filter
             /\ \A q \in Current.slots \ {p} : SlotOf[q] = SlotOf[p] =>
                  q \in Current'.slots
      BY <1>1, <1>2, <2>3, EffectKeepsCause
    <3>2. CASE o.op = "remove" /\ o.p = p
      BY <1>2, <2>2, <3>2
    <3>3. CASE /\ p \in Current.filter
               /\ \A q \in Current.slots \ {p} : SlotOf[q] = SlotOf[p] =>
                    q \in Current'.slots
      <4>1. \/ \E i \in 1 .. L : plan[i].op = "remove" /\ plan[i].p = p
            \/ \E q \in Current.slots \ {p} : SlotOf[q] = SlotOf[p]
        BY <3>3 DEF CauseOK, Caused
      <4>2. QED BY <1>2, <2>2, <3>3, <4>1
    <3>4. QED BY <3>1, <3>2, <3>3
  <2>6. ASSUME NEW i \in 1 .. L + 1
        PROVE  Caused(hist'[i], i - 1, plan')
    <3>1. CASE i = L + 1
      BY <1>2, <2>2, <2>4, <3>1 DEF CauseOK
    <3>2. CASE i \in 1 .. L
      BY <1>2, <2>2, <2>4, <3>2 DEF CauseOK
    <3>3. QED BY <1>2, <3>1, <3>2
  <2>7. QED BY <2>2, <2>5, <2>6 DEF CauseOK
<1>5. CASE /\ target \in 0 .. Len(plan) - 1
           /\ plan' = SubSeq(plan, 1, target) /\ hist' = SubSeq(hist, 1, target)
           /\ Current' = hist[target + 1]
  <2>1. /\ Len(plan') = target /\ target + 1 \in 1 .. Len(plan)
        /\ \A i \in 1 .. target : plan'[i] = plan[i] /\ hist'[i] = hist[i]
    BY <1>2, <1>5
  <2>2. \A s, i : i \in 0 .. target /\ Caused(s, i, plan) => Caused(s, i, plan')
    <3> SUFFICES ASSUME NEW s, NEW i \in 0 .. target, Caused(s, i, plan),
                        NEW p \in s.filter
                 PROVE  \/ \E j \in 1 .. i : plan'[j].op = "remove" /\ plan'[j].p = p
                        \/ \E q \in s.slots \ {p} : SlotOf[q] = SlotOf[p]
      BY DEF Caused
    <3>1. QED BY <1>5, <2>1 DEF Caused
  <2>3. Caused(hist[target + 1], target, plan)
    BY <1>5, <2>1 DEF CauseOK
  <2>4. \A i \in 1 .. target : Caused(hist[i], i - 1, plan)
    BY <1>2, <1>5 DEF CauseOK
  <2>5. Caused(Current', Len(plan'), plan')
    BY <1>5, <2>1, <2>2, <2>3
  <2>6. ASSUME NEW i \in 1 .. target
        PROVE  Caused(hist'[i], i - 1, plan')
    <3>1. i - 1 \in 0 .. target /\ hist'[i] = hist[i]
      BY <1>5, <2>1
    <3>2. QED BY <2>2, <2>4, <3>1
  <2>7. QED BY <2>1, <2>5, <2>6 DEF CauseOK
<1>6. QED BY <1>3, <1>4, <1>5, LogShape

\* A package is never kept from the searches of the installed ones for good by an
\* operation that was undone (replace_op.revert, remove_op.revert).
THEOREM HidingIsCaused ==
    ASSUME Sane
    PROVE  Spec => []HiddenForCause
<1>1. Init => CauseOK
  <2> SUFFICES ASSUME Init PROVE CauseOK
    OBVIOUS
  <2>1. plan = <<>> /\ mode = "idle" /\ st = Empty /\ Empty \in States
    BY DEF Init, Empty, States
  <2>2. Current = Empty /\ Empty.filter = {}
    BY <2>1, IdleCurrent DEF Empty
  <2>3. QED BY <2>1, <2>2 DEF CauseOK, Caused
<1>2. IInv /\ CauseOK /\ [Next]_vars => CauseOK'
  BY CauseNext
<1>3. IInv /\ CauseOK => HiddenForCause
  <2> SUFFICES ASSUME IInv, CauseOK, mode = "idle", NEW p \in st.filter
               PROVE  Removed(p) \/ \E q \in st.slots \ {p} : SlotOf[q] = SlotOf[p]
    BY DEF HiddenForCause
  <2>1. Current = st /\ plan \in Seq(Ops)
    BY IdleCurrent DEF IInv, CallOK, LogOK
  <2>2. QED BY <2>1 DEF CauseOK, Caused, Removed
<1>4. QED BY <1>1, <1>2, <1>3, Inductive, PTL DEF Spec
-----------------------------------------------------------------------------
(* The choice point.                                                       *)

\* Nothing is struck out before the first package is pulled.
UntouchedUntilPulled ==
    pulled = 0 /\ ~exhausted => solution_filters = {}

OfferInv ==
    /\ CPTypeOK
    /\ UntouchedUntilPulled
    /\ NoSolublePackageLost
    /\ OfferIsSoluble
    /\ DepsAreTheOffersOwn

-----------------------------------------------------------------------------
\* Striking out more atoms never makes dependencies soluble again.
LEMMA SolubleAntitone ==
    ASSUME NEW d, NEW F, NEW G, F \subseteq G, Soluble(d, G)
    PROVE  Soluble(d, F)
BY DEF Soluble, Filter

\* Filtering what was filtered with fewer atoms is filtering once.
LEMMA FilterTwice ==
    ASSUME NEW cnf, NEW F, NEW G, F \subseteq G
    PROVE  Filter(Filter(cnf, F), G) = Filter(cnf, G)
<1>1. ASSUME NEW c \in cnf PROVE (c \ F) \ G = c \ G
  OBVIOUS
<1>2. ASSUME NEW x \in Filter(Filter(cnf, F), G) PROVE x \in Filter(cnf, G)
  <2>1. PICK y \in Filter(cnf, F) : x = y \ G
    BY DEF Filter
  <2>2. PICK c \in cnf : y = c \ F
    BY DEF Filter
  <2>3. x = c \ G
    BY <1>1, <2>1, <2>2
  <2>4. QED BY <2>3 DEF Filter
<1>3. ASSUME NEW x \in Filter(cnf, G) PROVE x \in Filter(Filter(cnf, F), G)
  <2>1. PICK c \in cnf : x = c \ G
    BY DEF Filter
  <2>2. c \ F \in Filter(cnf, F)
    BY DEF Filter
  <2>3. x = (c \ F) \ G
    BY <1>1, <2>1
  <2>4. QED BY <2>2, <2>3 DEF Filter
<1>4. QED BY <1>2, <1>3

\* Resetting changes none of the sets reduce_atoms looks at.
LEMMA ResetKeepsReduced ==
    ASSUME NEW p \in Packages
    PROVE  /\ ResetIters(p) \in Packages
           /\ \A a \in Reduced : ResetIters(p)[a] = p[a]
BY DEF ResetIters, Packages, Reduced, Attrs

\* Resetting the dependency sets changes nothing about what is soluble.
LEMMA ResetSoluble ==
    ASSUME NEW p \in Packages, NEW F
    PROVE  Soluble(ResetIters(p), F) <=> Soluble(p, F)
BY ResetKeepsReduced DEF Soluble

\* A package with nothing struck out is soluble: it has no empty clause.
LEMMA FreshIsSoluble ==
    ASSUME NEW p \in Packages
    PROVE  /\ Soluble(p, {})
           /\ \A a \in Reduced : Filter(p[a], {}) = p[a]
<1>1. ASSUME NEW a \in Reduced PROVE p[a] \in SUBSET Clauses
  BY DEF Packages, Reduced
<1>2. ASSUME NEW a \in Reduced PROVE Filter(p[a], {}) = p[a]
  <2>1. ASSUME NEW c PROVE c \ {} = c
    OBVIOUS
  <2>2. QED BY <2>1 DEF Filter
<1>3. ASSUME NEW a \in Reduced PROVE {} \notin p[a]
  BY <1>1 DEF Clauses
<1>4. QED BY <1>2, <1>3 DEF Soluble

\* Narrowing a well-typed record of dependencies keeps it well typed.
LEMMA NarrowTyped ==
    ASSUME NEW d \in [Attrs -> SUBSET SUBSET DepAtoms], NEW F
    PROVE  /\ Narrow(d, F) \in [Attrs -> SUBSET SUBSET DepAtoms]
           /\ \A a \in Reduced : Narrow(d, F)[a] = Filter(d[a], F)
<1>1. ASSUME NEW a \in Attrs PROVE Filter(d[a], F) \in SUBSET SUBSET DepAtoms
  <2>1. d[a] \in SUBSET SUBSET DepAtoms
    OBVIOUS
  <2>2. QED BY <2>1 DEF Filter
<1>2. Reduced \subseteq Attrs
  BY DEF Reduced
<1>3. QED BY <1>1, <1>2 DEF Narrow

\* Narrowing by F what is soluble under F leaves it soluble under F.
LEMMA NarrowSoluble ==
    ASSUME NEW d \in [Attrs -> SUBSET SUBSET DepAtoms], NEW F, Soluble(d, F)
    PROVE  Soluble(Narrow(d, F), F)
<1>1. ASSUME NEW a \in Reduced
      PROVE  Filter(Narrow(d, F)[a], F) = Filter(d[a], F)
  <2>1. Narrow(d, F)[a] = Filter(d[a], F)
    BY NarrowTyped
  <2>2. QED BY <2>1, FilterTwice
<1>2. QED BY <1>1 DEF Soluble

\* A package gives each dependency attribute its clauses.
LEMMA PackagesTyped ==
    ASSUME NEW p \in Packages
    PROVE  p \in [Attrs -> SUBSET SUBSET DepAtoms]
BY DEF Packages, Clauses

\* The candidates are packages, numbered from one.
LEMMA MatchesTyped ==
    ASSUME CPTypeOK
    PROVE  /\ Len(matches) \in Nat
           /\ \A k \in 1 .. Len(matches) : matches[k] \in Packages
<1>1. matches \in Seq(Packages)
  BY CandidatesAssumption DEF CPTypeOK
<1>2. QED BY <1>1, LenProperties, ElementOfSeq

\* No dependencies are dependencies too.
LEMMA NoDepsTyped == NoDeps \in [Attrs -> SUBSET SUBSET DepAtoms]
BY DEF NoDeps

-----------------------------------------------------------------------------
\* A choice point nobody looked at satisfies the invariant (choice_point.__init__).
THEOREM OfferInit == CPInit => OfferInv
<1>1. SUFFICES ASSUME CPInit PROVE OfferInv
  OBVIOUS
<1>2. Len(matches) \in Nat
  BY <1>1, CandidatesAssumption, LenProperties DEF CPInit
<1>3. CPTypeOK
  <2>1. 0 \in 0 .. Len(matches) /\ {} \subseteq 1 .. Len(matches)
    BY <1>2
  <2>2. pulled \in 0 .. Len(matches) /\ forced \subseteq 1 .. Len(matches)
    BY <1>1, <2>1 DEF CPInit
  <2>3. deps \in [Attrs -> SUBSET SUBSET DepAtoms]
    BY <1>1, NoDepsTyped DEF CPInit
  <2>4. QED BY <1>1, <2>2, <2>3 DEF CPInit, CPTypeOK
<1>4. UntouchedUntilPulled /\ OfferIsSoluble /\ DepsAreTheOffersOwn
  BY <1>1 DEF CPInit, UntouchedUntilPulled, OfferIsSoluble, DepsAreTheOffersOwn
<1>5. NoSolublePackageLost
  BY <1>1 DEF CPInit, NoSolublePackageLost, Passed
<1>6. QED BY <1>3, <1>4, <1>5 DEF OfferInv

\* The first look at the offer keeps the invariant.
LEMMA PeekStep == OfferInv /\ Peek => OfferInv'
<1>1. SUFFICES ASSUME OfferInv, Peek PROVE OfferInv'
  OBVIOUS
<1>2. /\ Len(matches) \in Nat
      /\ \A k \in 1 .. Len(matches) : matches[k] \in Packages
  BY <1>1, MatchesTyped DEF OfferInv
<1>3. /\ ~exhausted /\ pulled = 0 /\ solution_filters = {}
      /\ UNCHANGED <<matches, solution_filters, returned, forced>>
  BY <1>1 DEF OfferInv, UntouchedUntilPulled, Peek
<1>4. CASE /\ matches # <<>> /\ pulled' = 1
           /\ deps' = ResetIters(matches[1]) /\ UNCHANGED exhausted
  <2>1. 1 \in 1 .. Len(matches)
    <3>1. matches \in Seq(Packages)
      BY <1>1, CandidatesAssumption DEF OfferInv, CPTypeOK
    <3>2. QED BY <1>2, <1>4, <3>1, EmptySeq
  <2>2. /\ matches[1] \in Packages
        /\ deps' \in [Attrs -> SUBSET SUBSET DepAtoms]
        /\ \A a \in Reduced : deps'[a] = matches[1][a]
    BY <1>2, <1>4, <2>1, ResetKeepsReduced, PackagesTyped
  <2>3. CPTypeOK'
    BY <1>1, <1>2, <1>3, <1>4, <2>1, <2>2 DEF OfferInv, CPTypeOK
  <2>4. OfferIsSoluble'
    BY <1>3, <1>4, <2>2, FreshIsSoluble, ResetSoluble DEF OfferIsSoluble
  <2>5. DepsAreTheOffersOwn'
    BY <1>3, <1>4, <2>2, FreshIsSoluble DEF DepsAreTheOffersOwn
  <2>6. UntouchedUntilPulled' /\ NoSolublePackageLost'
    BY <1>3, <1>4 DEF UntouchedUntilPulled, NoSolublePackageLost, Passed
  <2>7. QED BY <2>3, <2>4, <2>5, <2>6 DEF OfferInv
<1>5. CASE matches = <<>> /\ Exhaust
  <2>1. Len(matches) = 0
    BY <1>5
  <2>2. CPTypeOK'
    BY <1>1, <1>3, <1>5 DEF OfferInv, CPTypeOK, Exhaust, NoDeps
  <2>3. QED
    BY <1>3, <1>5, <2>1, <2>2 DEF OfferInv, Exhaust, UntouchedUntilPulled,
       NoSolublePackageLost, OfferIsSoluble, DepsAreTheOffersOwn, Passed
<1>6. QED BY <1>1, <1>4, <1>5 DEF Peek

\* What the loop of reduce_atoms does, wherever it is entered from.
LEMMA LoopStep ==
    ASSUME CPTypeOK, ~exhausted,
           NEW at \in 0 .. Len(matches),
           NEW d \in [Attrs -> SUBSET SUBSET DepAtoms],
           NEW F \in SUBSET DepAtoms,
           ReduceLoop(at, d, F),
           matches' = matches,
           solution_filters' = F,
           forced' \subseteq 1 .. Len(matches)
    PROVE  /\ CPTypeOK'
           /\ UntouchedUntilPulled'
           /\ OfferIsSoluble'
           /\ \A k \in Passed' : k > at => ~Soluble(matches[k], F)
           /\ at \in Passed' => ~Soluble(d, F)
           /\ ~exhausted' => /\ pulled' \in at .. Len(matches)
                             /\ pulled' > 0
           /\ ~exhausted' /\ pulled' > at =>
                \A a \in Reduced : deps'[a] = Filter(matches[pulled'][a], F)
           /\ ~exhausted' /\ pulled' = at => 
                \A a \in Reduced : deps'[a] = Filter(d[a], F)
<1>1. /\ Len(matches) \in Nat
      /\ \A k \in 1 .. Len(matches) : matches[k] \in Packages
  BY MatchesTyped
<1>2. CASE /\ at > 0 /\ Soluble(d, F) /\ pulled' = at
           /\ deps' = Narrow(d, F) /\ returned' = FALSE /\ UNCHANGED exhausted
  <2>1. /\ deps' \in [Attrs -> SUBSET SUBSET DepAtoms]
        /\ \A a \in Reduced : deps'[a] = Filter(d[a], F)
    BY <1>2, NarrowTyped
  <2>2. CPTypeOK'
    <3>1. ~exhausted' /\ pulled' # 0 /\ pulled' \in 0 .. Len(matches')
      BY <1>1, <1>2
    <3>2. QED BY <1>2, <2>1, <3>1 DEF CPTypeOK
  <2>3. OfferIsSoluble'
    BY <1>2, NarrowSoluble DEF OfferIsSoluble
  <2>4. UntouchedUntilPulled'
    BY <1>2 DEF UntouchedUntilPulled
  <2>5. Passed' = 1 .. (at - 1)
    BY <1>2 DEF Passed
  <2>6. QED BY <1>1, <1>2, <2>1, <2>2, <2>3, <2>4, <2>5
<1>3. ASSUME at = 0 \/ ~Soluble(d, F),
             NEW next \in 1 .. Len(matches),
             NextSoluble(at, F, next), pulled' = next,
             deps' = Narrow(ResetIters(matches[next]), F),
             returned' = (next > 1), UNCHANGED exhausted
      PROVE  /\ CPTypeOK'
             /\ UntouchedUntilPulled'
             /\ OfferIsSoluble'
             /\ \A k \in Passed' : k > at => ~Soluble(matches[k], F)
             /\ at \in Passed' => ~Soluble(d, F)
             /\ next \in (at + 1) .. Len(matches)
             /\ \A a \in Reduced : deps'[a] = Filter(matches[next][a], F)
  <2> DEFINE r == ResetIters(matches[next])
  <2>1. /\ next \in (at + 1) .. Len(matches)
        /\ Soluble(r, F)
        /\ \A k \in (at + 1) .. (next - 1) :
             ~Soluble(ResetIters(matches[k]), F)
    BY <1>3 DEF NextSoluble
  <2>2. /\ matches[next] \in Packages
        /\ r \in [Attrs -> SUBSET SUBSET DepAtoms]
        /\ \A a \in Reduced : r[a] = matches[next][a]
    BY <1>1, ResetKeepsReduced, PackagesTyped
  <2>3. /\ deps' \in [Attrs -> SUBSET SUBSET DepAtoms]
        /\ \A a \in Reduced : deps'[a] = Filter(r[a], F)
    BY <1>3, <2>2, NarrowTyped
  <2>4. CPTypeOK'
    BY <1>1, <1>3, <2>3 DEF CPTypeOK
  <2>5. OfferIsSoluble'
    BY <1>3, <2>1, <2>2, NarrowSoluble DEF OfferIsSoluble
  <2>6. UntouchedUntilPulled'
    BY <1>3 DEF UntouchedUntilPulled
  <2>7. Passed' = 1 .. (next - 1)
    BY <1>3 DEF Passed
  <2>8. ASSUME NEW k \in Passed', k > at PROVE ~Soluble(matches[k], F)
    <3>1. k \in (at + 1) .. (next - 1) /\ k \in 1 .. Len(matches)
      BY <1>1, <2>7, <2>8
    <3>2. QED BY <1>1, <2>1, <3>1, ResetSoluble
  <2>9. at \in Passed' => ~Soluble(d, F)
    BY <1>3, <2>7
  <2>10. QED BY <2>1, <2>2, <2>3, <2>4, <2>5, <2>6, <2>8, <2>9
<1>4. CASE (at = 0 \/ ~Soluble(d, F)) /\ NoneSoluble(at, F) /\ Exhaust
           /\ returned' = TRUE
  <2>1. exhausted' = TRUE /\ deps' = NoDeps /\ pulled' = pulled
    BY <1>4 DEF Exhaust
  <2>2. CPTypeOK'
    BY <1>4, <2>1, NoDepsTyped DEF CPTypeOK
  <2>3. Passed' = 1 .. Len(matches)
    BY <2>1 DEF Passed
  <2>4. ASSUME NEW k \in Passed', k > at PROVE ~Soluble(matches[k], F)
    <3>1. k \in (at + 1) .. Len(matches) /\ k \in 1 .. Len(matches)
      BY <1>1, <2>3, <2>4
    <3>2. QED BY <1>1, <1>4, <3>1, ResetSoluble DEF NoneSoluble
  <2>5. UntouchedUntilPulled' /\ OfferIsSoluble'
    BY <2>1 DEF UntouchedUntilPulled, OfferIsSoluble
  <2>6. at \in Passed' => ~Soluble(d, F)
    BY <1>4, <2>3
  <2>7. QED BY <2>1, <2>2, <2>4, <2>5, <2>6
<1>5. CASE \E next \in 1 .. Len(matches) :
              /\ at = 0 \/ ~Soluble(d, F)
              /\ NextSoluble(at, F, next) /\ pulled' = next
              /\ deps' = Narrow(ResetIters(matches[next]), F)
              /\ returned' = (next > 1) /\ UNCHANGED exhausted
  <2>1. PICK next \in 1 .. Len(matches) :
              /\ at = 0 \/ ~Soluble(d, F)
              /\ NextSoluble(at, F, next) /\ pulled' = next
              /\ deps' = Narrow(ResetIters(matches[next]), F)
              /\ returned' = (next > 1) /\ UNCHANGED exhausted
    BY <1>5
  <2>2. QED BY <1>1, <1>3, <2>1
<1>6. QED BY <1>2, <1>4, <1>5 DEF ReduceLoop

\* reduce_atoms keeps the invariant, whatever atoms are struck out.
LEMMA ReduceAtomsStep ==
    ASSUME OfferInv, NEW atoms \in SUBSET DepAtoms, ReduceAtoms(atoms)
    PROVE  OfferInv'
<1> DEFINE F == solution_filters \cup atoms
<1>1. /\ CPTypeOK /\ ~exhausted /\ matches' = matches /\ forced' = forced
      /\ solution_filters' = F /\ ReduceLoop(pulled, deps, F)
  BY DEF OfferInv, ReduceAtoms
<1>2. /\ pulled \in 0 .. Len(matches)
      /\ deps \in [Attrs -> SUBSET SUBSET DepAtoms]
      /\ F \in SUBSET DepAtoms
      /\ forced \subseteq 1 .. Len(matches)
  BY <1>1 DEF CPTypeOK
<1> HIDE DEF F
<1>3. /\ CPTypeOK' /\ UntouchedUntilPulled' /\ OfferIsSoluble'
      /\ \A k \in Passed' : k > pulled => ~Soluble(matches[k], F)
      /\ pulled \in Passed' => ~Soluble(deps, F)
      /\ ~exhausted' => pulled' \in pulled .. Len(matches) /\ pulled' > 0
      /\ ~exhausted' /\ pulled' > pulled =>
           \A a \in Reduced : deps'[a] = Filter(matches[pulled'][a], F)
      /\ ~exhausted' /\ pulled' = pulled =>
           \A a \in Reduced : deps'[a] = Filter(deps[a], F)
  BY <1>1, <1>2, LoopStep
<1>4. solution_filters \subseteq F
  BY DEF F
<1>5. Len(matches) \in Nat /\ Passed' \subseteq 1 .. Len(matches)
  BY <1>1, <1>3, MatchesTyped DEF Passed, CPTypeOK
<1>6. ASSUME pulled > 0, pulled \notin forced, NEW a \in Reduced
      PROVE  Filter(deps[a], F) = Filter(matches[pulled][a], F)
  BY <1>1, <1>4, <1>6, FilterTwice DEF OfferInv, DepsAreTheOffersOwn
<1>7. NoSolublePackageLost'
  <2>1. SUFFICES ASSUME NEW k \in Passed', k \notin forced
                 PROVE  ~Soluble(matches[k], F)
    BY <1>1 DEF NoSolublePackageLost
  <2>2. CASE k > pulled
    BY <1>3, <2>2
  <2>3. CASE k = pulled
    <3>1. ~Soluble(deps, F) /\ pulled > 0
      BY <1>3, <1>5, <2>3
    <3>2. QED BY <1>6, <2>1, <2>3, <3>1 DEF Soluble
  <2>4. CASE k < pulled
    <3>1. k \in Passed
      BY <1>1, <1>2, <1>5, <2>4 DEF Passed
    <3>2. ~Soluble(matches[k], solution_filters)
      BY <2>1, <3>1 DEF OfferInv, NoSolublePackageLost
    <3>3. QED BY <1>4, <3>2, SolubleAntitone
  <2>5. QED BY <1>2, <1>5, <2>2, <2>3, <2>4
<1>8. DepsAreTheOffersOwn'
  BY <1>1, <1>2, <1>3, <1>5, <1>6 DEF DepsAreTheOffersOwn
<1>9. QED BY <1>3, <1>7, <1>8 DEF OfferInv

\* force_next_pkg keeps the invariant.
LEMMA ForceNextPkgStep == OfferInv /\ ForceNextPkg => OfferInv'
<1>1. SUFFICES ASSUME OfferInv, ForceNextPkg PROVE OfferInv'
  OBVIOUS
<1>2. /\ CPTypeOK /\ ~exhausted /\ pulled > 0
      /\ matches' = matches /\ solution_filters' = solution_filters
      /\ Len(matches) \in Nat
      /\ pulled \in 0 .. Len(matches)
      /\ deps \in [Attrs -> SUBSET SUBSET DepAtoms]
      /\ solution_filters \in SUBSET DepAtoms
      /\ forced \subseteq 1 .. Len(matches)
  BY <1>1, MatchesTyped DEF OfferInv, ForceNextPkg, CPTypeOK
<1>3. ASSUME NEW k \in 1 .. (pulled - 1), k \notin forced
      PROVE  ~Soluble(matches[k], solution_filters)
  BY <1>1, <1>2, <1>3 DEF OfferInv, NoSolublePackageLost, Passed
<1>4. CASE /\ pulled < Len(matches)
           /\ ReduceLoop(pulled + 1, deps, solution_filters)
           /\ forced' = forced \cup {pulled, pulled + 1}
  <2> DEFINE at == pulled + 1
  <2>1. at \in 0 .. Len(matches) /\ forced' \subseteq 1 .. Len(matches)
    BY <1>2, <1>4
  <2>2. /\ CPTypeOK' /\ UntouchedUntilPulled' /\ OfferIsSoluble'
        /\ \A k \in Passed' : k > at => ~Soluble(matches[k], solution_filters)
        /\ ~exhausted' => pulled' \in at .. Len(matches) /\ pulled' > 0
        /\ ~exhausted' /\ pulled' > at =>
             \A a \in Reduced :
               deps'[a] = Filter(matches[pulled'][a], solution_filters)
    BY <1>2, <1>4, <2>1, LoopStep
  <2>3. Passed' \subseteq 1 .. Len(matches)
    BY <1>2, <2>2 DEF Passed, CPTypeOK
  <2>4. NoSolublePackageLost'
    <3>1. SUFFICES ASSUME NEW k \in Passed', k \notin forced'
                   PROVE  ~Soluble(matches[k], solution_filters)
      BY <1>2 DEF NoSolublePackageLost
    <3>2. k # pulled /\ k # at /\ k \notin forced
      BY <1>4, <3>1
    <3>3. k > at \/ k \in 1 .. (pulled - 1)
      BY <1>2, <2>3, <3>2
    <3>4. QED BY <1>3, <2>2, <3>2, <3>3
  <2>5. DepsAreTheOffersOwn'
    BY <1>2, <1>4, <2>2 DEF DepsAreTheOffersOwn
  <2>6. QED BY <2>2, <2>4, <2>5 DEF OfferInv
<1>5. CASE /\ pulled = Len(matches) /\ Exhaust
           /\ forced' = forced \cup {pulled} /\ UNCHANGED returned
  <2>1. exhausted' = TRUE /\ deps' = NoDeps /\ pulled' = pulled
    BY <1>5 DEF Exhaust
  <2>2. CPTypeOK'
    <3>0. pulled \in 1 .. Len(matches)
      BY <1>2
    <3>1. forced' \subseteq 1 .. Len(matches')
      <4>1. forced' = forced \cup {pulled} /\ Len(matches') = Len(matches)
        BY <1>2, <1>5
      <4>2. QED BY <1>2, <3>0, <4>1
    <3>2. deps' \in [Attrs -> SUBSET SUBSET DepAtoms]
      BY <2>1, NoDepsTyped
    <3>3. returned' = returned
      BY <1>5
    <3>4. QED BY <1>2, <2>1, <3>1, <3>2, <3>3 DEF CPTypeOK
  <2>3. NoSolublePackageLost'
    BY <1>2, <1>3, <1>5, <2>1 DEF NoSolublePackageLost, Passed
  <2>4. QED BY <2>1, <2>2, <2>3 DEF OfferInv, UntouchedUntilPulled,
            OfferIsSoluble, DepsAreTheOffersOwn
<1>6. QED BY <1>1, <1>4, <1>5 DEF ForceNextPkg

\* The inductive invariant holds in every reachable state.
THEOREM OfferInductive == CPSpec => []OfferInv
<1>1. CPInit => OfferInv
  BY OfferInit
<1>2. OfferInv /\ [CPNext]_cpvars => OfferInv'
  <2>1. SUFFICES ASSUME OfferInv, [CPNext]_cpvars PROVE OfferInv'
    OBVIOUS
  <2>2. CASE Peek
    BY <2>1, <2>2, PeekStep
  <2>3. ASSUME NEW atoms \in SUBSET DepAtoms, ReduceAtoms(atoms) PROVE OfferInv'
    BY <2>1, <2>3, ReduceAtomsStep
  <2>4. CASE ForceNextPkg
    BY <2>1, <2>4, ForceNextPkgStep
  <2>5. CASE UNCHANGED cpvars
    BY <2>1, <2>5 DEF cpvars, OfferInv, CPTypeOK, UntouchedUntilPulled,
       NoSolublePackageLost, OfferIsSoluble, DepsAreTheOffersOwn, Passed
  <2>6. QED BY <2>1, <2>2, <2>3, <2>4, <2>5 DEF CPNext
<1>3. QED BY <1>1, <1>2, PTL DEF CPSpec

\* Every variable of the choice point has the type the code gives it.
THEOREM OfferTyped == CPSpec => []CPTypeOK
BY OfferInductive, PTL DEF OfferInv

\* A package with a solution left is never passed over, unless the caller
\* forces its way past it.
THEOREM SolubleKept == CPSpec => []NoSolublePackageLost
BY OfferInductive, PTL DEF OfferInv

\* The package on offer is soluble.
THEOREM OfferSoluble == CPSpec => []OfferIsSoluble
BY OfferInductive, PTL DEF OfferInv

\* The package on offer comes with its own dependencies.
THEOREM DepsOwn == CPSpec => []DepsAreTheOffersOwn
BY OfferInductive, PTL DEF OfferInv
=============================================================================
