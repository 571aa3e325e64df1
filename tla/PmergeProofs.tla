---------------------------- MODULE PmergeProofs ----------------------------
(***************************************************************************)
(* Proofs about Pmerge, for any plan, options, distfiles and URIs: what is *)
(* merged is whole, a run does as it was told, and what it builds it       *)
(* removes.  Everything rests on Ordered, which says where in the plan a   *)
(* run is, what is over, and what must not have been touched yet.          *)
(***************************************************************************)
EXTENDS Pmerge, FiniteSetTheorems, SequenceTheorems, TLAPS

\* Nothing is done before the plan is; an operation is in hand while it is in the middle.
Before == {"resolve", "check", "wipe", "unmerge"}
Middle == {"fetch", "build", "phases", "localize", "merge"}
Removed == [desc : {"remove"}, pkg : Pkgs]
Fetchables == [file : Files, uris : Nat, tries : Nat, direct : BOOLEAN, only : BOOLEAN]

\* How much of the plan is over.
Over == IF at \in Middle THEN pos - 1 ELSE pos

Typed ==
    /\ opts \in Settings
    /\ at \in Before \cup Middle \cup {"loop", "unmerging"} \cup Ends
    /\ atoms \subseteq opts.targets
    /\ plan \in Seq(Ops \cup Removed)
    /\ pos \in 0 .. Len(plan)
    /\ fetching # None => fetching \in Fetchables
    /\ got \subseteq Files
    /\ distdir \in [Files -> FileStates]
    /\ dirs \subseteq Pkgs /\ cleanup \subseteq Pkgs
    /\ ran = [p \in Pkgs |-> ran[p]]
    /\ failed \subseteq 1 .. Over
    /\ merged \subseteq Pkgs

\* Where the program can be in each of its modes.
InMode ==
    /\ at \in Middle \cup {"check", "loop"} => opts.mode = "merge"
    /\ at = "wipe" => opts.mode = "clean"
    /\ at = "resolve" => opts.mode # "unmerge"
    /\ at = "unmerge" => opts.mode = "unmerge"
    /\ at = "unmerging" => opts.mode # "merge"
    /\ opts.mode = "merge" =>
         /\ plan \in Seq(Ops)
         /\ \A i, j \in DOMAIN plan : plan[i].pkg = plan[j].pkg => i = j
    /\ opts.mode # "merge" => dirs = {} /\ merged = {}
    /\ at \in Middle => pos > 0

\* What was done so far.
DoneSoFar ==
    /\ at \in Before =>
         /\ pos = 0 /\ failed = {} /\ merged = {} /\ passed = {}
         /\ live = opts.live /\ world = opts.world
         /\ dirs = {} /\ cleanup = {}
    /\ ~opts.ignore /\ at \notin Ends => failed = {}
    /\ \A p \in merged : \E i \in 1 .. Over : plan[i].pkg = p

Ordered == Typed /\ InMode /\ DoneSoFar
-----------------------------------------------------------------------------
\* A plan in the making: sequences that are functions on 1 .. n.
LEMMA FunctionIsSeq ==
    ASSUME NEW n \in Nat, NEW S, NEW s \in [1 .. n -> S]
    PROVE  s \in Seq(S) /\ Len(s) = n
BY IsASeq, LenProperties

\* The packages there are (Pkgs): those of operations and those installed.
LEMMA PkgsTyped ==
    /\ \A op \in Ops : op.pkg \in Pkgs
    /\ \A s \in Settings : s.live \subseteq Pkgs
    /\ \A p \in Pkgs : Range(FilesOf[p]) \subseteq Files
BY PmergeAssumption DEF Pkgs, Files

LEMMA WantedTyped ==
    /\ Wanted \subseteq DOMAIN OpSeq
    /\ IsFiniteSet(Wanted) /\ Cardinality(Wanted) \in Nat
<1>1. Wanted \subseteq 1 .. Len(OpSeq) /\ Len(OpSeq) \in Nat
  BY PmergeAssumption DEF Wanted
<1>2. IsFiniteSet(1 .. Len(OpSeq))
  BY <1>1, FS_Interval
<1>3. QED BY <1>1, <1>2, FS_Subset, FS_CardinalityType, PmergeAssumption

\* The plan Resolve makes (resolver_inst.state.ops): operations of the resolver, no
\* package twice, and all that are wanted.
LEMMA PlanMade ==
    ASSUME NEW order \in [1 .. Cardinality(Wanted) -> Wanted],
           \A i, j \in DOMAIN order : i < j => order[i] < order[j],
           NEW made, made = [i \in DOMAIN order |-> OpSeq[order[i]]]
    PROVE  /\ made \in Seq(Ops)
           /\ \A i, j \in DOMAIN made : made[i].pkg = made[j].pkg => i = j
           /\ \A k \in Wanted : OpSeq[k] \in Range(made)
<1>1. /\ Cardinality(Wanted) \in Nat /\ IsFiniteSet(Wanted)
      /\ Wanted \subseteq DOMAIN OpSeq /\ DOMAIN order = 1 .. Cardinality(Wanted)
  BY WantedTyped
<1>2. made \in [1 .. Cardinality(Wanted) -> Ops]
  BY <1>1 DEF Ops, Range
<1>3. \A i, j \in DOMAIN order : order[i] = order[j] => i = j
  <2>1. SUFFICES ASSUME NEW i \in DOMAIN order, NEW j \in DOMAIN order,
                        order[i] = order[j], i # j
                 PROVE  FALSE
    OBVIOUS
  <2>2. i \in Int /\ j \in Int /\ (i < j \/ j < i)
    BY <1>1, <2>1
  <2>3. order[i] \in Nat /\ order[j] \in Nat
    BY <1>1, PmergeAssumption
  <2>4. QED BY <2>1, <2>2, <2>3
<1>4. \A k \in Wanted : \E i \in DOMAIN order : order[i] = k
  <2>1. order \in Injection(1 .. Cardinality(Wanted), Wanted)
    BY <1>1, <1>3 DEF Injection, IsInjective
  <2>2. Cardinality(1 .. Cardinality(Wanted)) = Cardinality(Wanted)
    BY <1>1, FS_Interval
  <2>3. order \in Surjection(1 .. Cardinality(Wanted), Wanted)
    BY <1>1, <2>1, <2>2, FS_Injection
  <2>4. QED BY <1>1, <2>3 DEF Surjection
<1>5. QED
  <2>1. made \in Seq(Ops)
    BY <1>1, <1>2, FunctionIsSeq
  <2>2. ASSUME NEW i \in DOMAIN made, NEW j \in DOMAIN made, made[i].pkg = made[j].pkg
        PROVE  i = j
    <3>1. order[i] \in DOMAIN OpSeq /\ order[j] \in DOMAIN OpSeq
      BY <1>1, <2>2
    <3>2. order[i] = order[j]
      BY <2>2, <3>1, PmergeAssumption
    <3>3. QED BY <1>3, <2>2, <3>2
  <2>3. \A k \in Wanted : OpSeq[k] \in Range(made)
    BY <1>1, <1>4 DEF Range
  <2>4. QED BY <2>1, <2>2, <2>3

\* SetToSeq lists a finite set, so do_unmerge is given the packages asked for.
LEMMA RemovalsList ==
    ASSUME NEW ps \in SUBSET Pkgs, IsFiniteSet(ps)
    PROVE  /\ Removals(ps) \in Seq(Removed)
           /\ \A i \in DOMAIN Removals(ps) : Removals(ps)[i].pkg \in ps
<1> DEFINE S == {[desc |-> "remove", pkg |-> p] : p \in ps}
<1>1. IsFiniteSet(S)
  <2>1. [p \in ps |-> [desc |-> "remove", pkg |-> p]] \in Surjection(ps, S)
    BY DEF Surjection
  <2>2. QED BY <2>1, FS_Surjection
<1>2. Cardinality(S) \in Nat /\ ExistsBijection(1 .. Cardinality(S), S)
  BY <1>1, FS_CardinalityType
<1>3. \E f \in [1 .. Cardinality(S) -> S] : IsInjective(f)
  BY <1>2 DEF ExistsBijection, Bijection, Injection, IsInjective
<1>4. SetToSeq(S) \in [1 .. Cardinality(S) -> S]
  BY <1>3 DEF SetToSeq
<1>5. S \subseteq Removed /\ \A r \in S : r.pkg \in ps
  BY DEF Removed
<1>6. Removals(ps) = SetToSeq(S)
  BY DEF Removals
<1> HIDE DEF S
<1>7. SetToSeq(S) \in Seq(S)
  BY <1>2, <1>4, FunctionIsSeq
<1>8. QED BY <1>4, <1>5, <1>6, <1>7, SeqMonotonic
-----------------------------------------------------------------------------
\* The operation in hand, while one is: an operation of the resolver on a package
\* that was not merged yet.
LEMMA InHand ==
    ASSUME Ordered, at \in Middle
    PROVE  /\ opts.mode = "merge"
           /\ pos \in 1 .. Len(plan) /\ Len(plan) \in Nat /\ Over = pos - 1
           /\ Op \in Ops /\ Op.pkg \in Pkgs
           /\ Op.pkg \notin merged /\ pos \notin failed
           /\ Range(FilesOf[Op.pkg]) \subseteq Files
<1>1. /\ opts.mode = "merge" /\ plan \in Seq(Ops) /\ pos \in 0 .. Len(plan) /\ pos > 0
      /\ \A i, j \in DOMAIN plan : plan[i].pkg = plan[j].pkg => i = j
      /\ \A p \in merged : \E i \in 1 .. Over : plan[i].pkg = p
      /\ failed \subseteq 1 .. Over /\ Over = pos - 1
  BY DEF Ordered, Typed, InMode, DoneSoFar, Over
<1>2. /\ Len(plan) \in Nat /\ DOMAIN plan = 1 .. Len(plan)
      /\ pos \in 1 .. Len(plan)
  BY <1>1, LenProperties
<1>3. Op \in Ops
  BY <1>1, <1>2, ElementOfSeq DEF Op
<1>4. Op.pkg \notin merged
  <2>1. SUFFICES ASSUME Op.pkg \in merged PROVE FALSE
    OBVIOUS
  <2>2. PICK i \in 1 .. Over : plan[i].pkg = plan[pos].pkg
    BY <1>1, <2>1 DEF Op
  <2>3. i \in DOMAIN plan /\ pos \in DOMAIN plan /\ i # pos
    BY <1>1, <1>2, <2>2
  <2>4. QED BY <1>1, <2>2, <2>3
<1>5. QED BY <1>1, <1>2, <1>3, <1>4, PkgsTyped

\* Before anything is done the invariant holds.
LEMMA InitOrdered == Init => Ordered
<1> SUFFICES ASSUME Init PROVE Ordered
  OBVIOUS
<1>1. /\ opts \in Settings /\ at \in {"unmerge", "resolve"} /\ atoms = opts.targets
      /\ at = "unmerge" <=> opts.mode = "unmerge"
      /\ plan = << >> /\ pos = 0 /\ fetching = None /\ got = {}
      /\ distdir \in [Files -> FileStates] /\ dirs = {} /\ cleanup = {}
      /\ ran = [p \in Pkgs |-> << >>] /\ live = opts.live /\ world = opts.world
      /\ failed = {} /\ merged = {} /\ passed = {}
  BY DEF Init
<1>2. << >> \in Seq(Ops) /\ << >> \in Seq(Ops \cup Removed)
      /\ Len(<< >>) = 0 /\ DOMAIN << >> = {}
  OBVIOUS
<1>3. Typed
  <2>1. Over = 0
    BY <1>1 DEF Over, Middle
  <2>2. QED BY <1>1, <1>2, <2>1 DEF Typed, Before
<1>4. InMode
  BY <1>1, <1>2 DEF InMode, Middle
<1>5. DoneSoFar
  BY <1>1 DEF DoneSoFar
<1>6. QED BY <1>3, <1>4, <1>5 DEF Ordered

\* What leaves plan, place and results alone only has to keep types and modes.
LEMMA SamePlace ==
    ASSUME Ordered,
           UNCHANGED <<opts, atoms, plan, pos, results>>,
           at' \in Middle \cup {"aborted"}, at \in Middle,
           fetching' # None => fetching' \in Fetchables,
           got' \subseteq Files, distdir' \in [Files -> FileStates],
           dirs' \subseteq Pkgs, cleanup' \subseteq Pkgs,
           ran' = [p \in Pkgs |-> ran'[p]]
    PROVE  Ordered'
<1>1. /\ pos \in 1 .. Len(plan) /\ Len(plan) \in Nat /\ opts.mode = "merge"
      /\ Over = pos - 1
  BY InHand
<1>2. 1 .. Over \subseteq 1 .. Over'
  BY <1>1 DEF Over
<1>3. Typed'
  BY <1>2 DEF Ordered, Typed, results, Middle, Ends
<1>4. InMode'
  BY <1>1 DEF Ordered, InMode, results, Middle
<1>5. DoneSoFar'
  BY <1>2 DEF Ordered, DoneSoFar, results, Middle, Before, Ends
<1>6. QED BY <1>3, <1>4, <1>5 DEF Ordered

LEMMA ResolveOrdered == Ordered /\ Resolve => Ordered'
<1> SUFFICES ASSUME Ordered, Resolve PROVE Ordered'
  OBVIOUS
<1>1. /\ at = "resolve" /\ pos = 0 /\ opts.mode # "unmerge" /\ opts \in Settings
      /\ UNCHANGED <<opts, pos, fetchvars, buildvars, results>>
      /\ failed = {} /\ merged = {} /\ passed = {} /\ live = opts.live /\ world = opts.world
      /\ dirs = {} /\ cleanup = {}
  BY DEF Ordered, Typed, InMode, DoneSoFar, Resolve, Before
<1>2. /\ atoms' \subseteq opts.targets
      /\ at' \in {"resolve", "error", "wipe", "loop", "check"}
      /\ at' = "wipe" => opts.mode = "clean"
      /\ at' \in {"loop", "check"} => opts.mode = "merge"
  BY <1>1, PmergeAssumption DEF Ordered, Typed, Resolve
<1>3. /\ plan' \in Seq(Ops \cup Removed)
      /\ opts.mode = "merge" =>
           /\ plan' \in Seq(Ops)
           /\ \A i, j \in DOMAIN plan' : plan'[i].pkg = plan'[j].pkg => i = j
  <2>1. CASE UNCHANGED plan
    BY <2>1 DEF Ordered, Typed, InMode
  <2>2. ASSUME NEW order \in [1 .. Cardinality(Wanted) -> Wanted],
               \A i, j \in DOMAIN order : i < j => order[i] < order[j],
               plan' = [i \in DOMAIN order |-> OpSeq[order[i]]]
        PROVE  /\ plan' \in Seq(Ops)
               /\ \A i, j \in DOMAIN plan' : plan'[i].pkg = plan'[j].pkg => i = j
    <3> DEFINE made == [i \in DOMAIN order |-> OpSeq[order[i]]]
    <3>1. /\ made \in Seq(Ops)
          /\ \A i, j \in DOMAIN made : made[i].pkg = made[j].pkg => i = j
      BY <2>2, PlanMade, Zenon
    <3>2. plan' = made
      BY <2>2
    <3>3. QED BY <3>1, <3>2, Zenon
  <2>3. UNCHANGED plan \/ \E order \in [1 .. Cardinality(Wanted) -> Wanted] :
          /\ \A i, j \in DOMAIN order : i < j => order[i] < order[j]
          /\ plan' = [i \in DOMAIN order |-> OpSeq[order[i]]]
    BY DEF Resolve
  <2>4. QED BY <2>1, <2>2, <2>3, SeqMonotonic
<1>4. Typed'
  <2>1. Len(plan') \in Nat /\ Over = 0 /\ Over' = 0
    BY <1>1, <1>2, <1>3, LenProperties DEF Over, Middle
  <2>2. 0 \in 0 .. Len(plan')
    BY <2>1
  <2>3. QED BY <1>1, <1>2, <1>3, <2>1, <2>2
               DEF Ordered, Typed, Before, Ends, fetchvars, buildvars, results
<1>5. InMode'
  BY <1>1, <1>2, <1>3 DEF Ordered, InMode, Middle, buildvars, results
<1>6. DoneSoFar'
  BY <1>1, <1>2 DEF DoneSoFar, buildvars, results
<1>7. QED BY <1>4, <1>5, <1>6 DEF Ordered

\* An operation that is over, one way or another.
LEMMA Leaving ==
    ASSUME Ordered, at \in Middle,
           UNCHANGED <<opts, atoms, plan, pos, fetchvars, dirs>>,
           at' \in {"loop"} \cup Ends, at' # "end",
           cleanup' \subseteq Pkgs, ran' = ran,
           failed' \in {failed, failed \cup {pos}},
           at' = "loop" /\ ~opts.ignore => failed' = failed,
           merged' \in {merged, merged \cup {Op.pkg}}
    PROVE  Ordered'
<1>1. /\ pos \in 1 .. Len(plan) /\ Len(plan) \in Nat /\ opts.mode = "merge"
      /\ Over = pos - 1 /\ Over' = pos /\ Op.pkg \in Pkgs
      /\ failed \subseteq 1 .. Over /\ at' \notin Middle \cup Before
  BY InHand DEF Ordered, Typed, Over, Middle, Before, Ends
<1>2. failed' \subseteq 1 .. Over' /\ merged' \subseteq Pkgs
  <2>1. 1 .. (pos - 1) \subseteq 1 .. pos /\ pos \in 1 .. pos
    BY <1>1
  <2>2. QED BY <1>1, <2>1 DEF Ordered, Typed
<1>3. Typed'
  BY <1>1, <1>2 DEF Ordered, Typed, fetchvars
<1>4. InMode'
  BY <1>1 DEF Ordered, InMode, Middle, Ends
<1>5. DoneSoFar'
  <2>1. ASSUME NEW p \in merged' PROVE \E i \in 1 .. Over' : plan[i].pkg = p
    <3>1. CASE p = Op.pkg
      BY <1>1, <3>1 DEF Op
    <3>2. CASE p \in merged
      BY <1>1, <3>2 DEF Ordered, DoneSoFar
    <3>3. QED BY <3>1, <3>2
  <2>2. ~opts.ignore /\ at' \notin Ends => failed' = {}
    BY DEF Ordered, DoneSoFar, Middle, Ends
  <2>3. QED BY <1>1, <2>1, <2>2 DEF DoneSoFar
<1>6. QED BY <1>3, <1>4, <1>5 DEF Ordered

LEMMA CheckOrdered == Ordered /\ Check => Ordered'
<1> SUFFICES ASSUME Ordered, Check PROVE Ordered'
  OBVIOUS
<1>1. /\ at = "check" /\ at' \in {"loop", "error"} /\ opts.mode = "merge"
      /\ UNCHANGED <<opts, atoms, plan, pos, fetchvars, buildvars, results>>
      /\ failed = {} /\ merged = {} /\ dirs = {} /\ pos = 0
  BY DEF Ordered, InMode, DoneSoFar, Check, Before
<1>2. Typed'
  BY <1>1 DEF Ordered, Typed, Over, Middle, Before, Ends, fetchvars, buildvars, results
<1>3. InMode'
  BY <1>1 DEF Ordered, InMode, Middle, buildvars, results
<1>4. DoneSoFar'
  BY <1>1 DEF DoneSoFar, Before, buildvars, results
<1>5. QED BY <1>2, <1>3, <1>4 DEF Ordered

\* --clean and -C list what they remove before anything is removed.
LEMMA WipeOrdered ==
    ASSUME Ordered, Wipe \/ Unmerge
    PROVE  /\ Ordered'
           /\ \A i \in DOMAIN plan' : plan'[i].pkg \in opts.live
<1>1. PICK ps \in SUBSET live : /\ plan' = Removals(ps) /\ at' \in {"error", "unmerging"}
  BY DEF Wipe, Unmerge
<1>2. /\ at \in {"wipe", "unmerge"} /\ opts.mode # "merge" /\ opts \in Settings
      /\ UNCHANGED <<opts, atoms, pos, fetchvars, buildvars, results>>
      /\ failed = {} /\ merged = {} /\ dirs = {} /\ pos = 0 /\ live = opts.live
  BY DEF Ordered, Typed, InMode, DoneSoFar, Wipe, Unmerge, Before
<1>3. /\ plan' \in Seq(Removed)
      /\ \A i \in DOMAIN plan' : plan'[i].pkg \in ps
  <2>1. ps \subseteq Pkgs /\ IsFiniteSet(ps)
    BY <1>1, <1>2, PkgsTyped, PmergeAssumption, FS_Subset
  <2>2. QED BY <1>1, <2>1, RemovalsList
<1>4. plan' \in Seq(Ops \cup Removed) /\ Len(plan') \in Nat
  BY <1>3, SeqMonotonic, LenProperties
<1>5. Typed'
  <2>1. Over = 0 /\ Over' = 0 /\ pos' \in 0 .. Len(plan')
    BY <1>1, <1>2, <1>4 DEF Over, Middle
  <2>2. QED BY <1>1, <1>2, <1>4, <2>1
               DEF Ordered, Typed, Before, Ends, fetchvars, buildvars, results
<1>6. InMode'
  BY <1>1, <1>2 DEF InMode, Middle, buildvars, results
<1>7. DoneSoFar'
  BY <1>1, <1>2 DEF DoneSoFar, Before, buildvars, results
<1>8. QED BY <1>1, <1>2, <1>3, <1>5, <1>6, <1>7 DEF Ordered

LEMMA DoUnmergeOrdered == Ordered /\ DoUnmerge => Ordered'
<1> SUFFICES ASSUME Ordered, DoUnmerge PROVE Ordered'
  OBVIOUS
<1>1. /\ at = "unmerging" /\ opts.mode # "merge" /\ Over = pos /\ pos \in 0 .. Len(plan)
      /\ Len(plan) \in Nat /\ merged = {} /\ dirs = {} /\ failed \subseteq 1 .. pos
      /\ ~opts.ignore => failed = {}
      /\ UNCHANGED <<opts, atoms, plan, fetchvars, buildvars, merged>>
  BY LenProperties DEF Ordered, Typed, InMode, DoneSoFar, DoUnmerge, Over, Middle, Ends
<1>2. /\ at' \in {"unmerging"} \cup Ends
      /\ pos' \in pos .. Len(plan)
      /\ failed' \in {failed, failed \cup {pos'}}
      /\ failed' # failed => pos' = pos + 1 /\ (opts.ignore \/ at' \in Ends)
  BY <1>1 DEF DoUnmerge, Ends
<1>3. Over' = pos' /\ failed' \subseteq 1 .. pos' /\ pos' \in 0 .. Len(plan)
  <2>1. pos' \in 0 .. Len(plan) /\ Over' = pos'
    <3>1. at' \notin Middle
      BY <1>2 DEF Middle, Ends
    <3>2. Over' = pos'
      BY <3>1 DEF Over
    <3>3. pos' \in 0 .. Len(plan)
      BY <1>1, <1>2
    <3>4. QED BY <3>2, <3>3
  <2>2. 1 .. pos \subseteq 1 .. pos'
    BY <1>1, <1>2
  <2>3. failed' # failed => pos' \in 1 .. pos'
    BY <1>1, <1>2
  <2>4. QED BY <1>1, <1>2, <2>1, <2>2, <2>3
<1>4. Typed'
  BY <1>1, <1>2, <1>3 DEF Ordered, Typed, fetchvars, buildvars
<1>5. InMode'
  BY <1>1, <1>2 DEF Ordered, InMode, Middle, Ends, buildvars
<1>6. DoneSoFar'
  BY <1>1, <1>2 DEF DoneSoFar, Before, Ends
<1>7. QED BY <1>4, <1>5, <1>6 DEF Ordered

LEMMA NextOpOrdered == Ordered /\ NextOp => Ordered'
<1> SUFFICES ASSUME Ordered, NextOp PROVE Ordered'
  OBVIOUS
<1>1. /\ at = "loop" /\ opts.mode = "merge" /\ Over = pos /\ pos \in 0 .. Len(plan)
      /\ Len(plan) \in Nat /\ failed \subseteq 1 .. pos
      /\ UNCHANGED <<opts, atoms, plan, fetching, distdir, ran, results>>
      /\ dirs' \subseteq dirs /\ cleanup' = {}
      /\ ~opts.ignore => failed = {}
      /\ got' \subseteq got
  BY LenProperties DEF Ordered, Typed, InMode, DoneSoFar, NextOp, Over, Middle, Ends
<1>2. \/ at' = "end" /\ pos' = pos
      \/ at' = "fetch" /\ pos' = pos + 1 /\ pos < Len(plan)
  BY <1>1 DEF NextOp
<1>3. Over' = pos /\ pos' \in 0 .. Len(plan)
  BY <1>1, <1>2 DEF Over, Middle
<1>4. Typed'
  BY <1>1, <1>2, <1>3 DEF Ordered, Typed, Middle, Ends, results
<1>5. InMode'
  BY <1>1, <1>2 DEF Ordered, InMode, Middle, results
<1>6. DoneSoFar'
  BY <1>1, <1>2, <1>3 DEF Ordered, DoneSoFar, Before, Ends, results
<1>7. QED BY <1>4, <1>5, <1>6 DEF Ordered

LEMMA FetchNextOrdered == Ordered /\ FetchNext => Ordered'
<1> SUFFICES ASSUME Ordered, FetchNext PROVE Ordered'
  OBVIOUS
<1>1. /\ at = "fetch" /\ at' = at
      /\ UNCHANGED <<opts, atoms, plan, pos, got, missed, distdir, buildvars, results>>
  BY DEF FetchNext
<1>2. PICK i \in Pending :
        fetching' = LET f == FilesOf[Op.pkg][i] IN
                      Fetchable(f, Uris[f].mirrors + Uris[f].upstream, FALSE)
  BY DEF FetchNext
<1>3. FilesOf[Op.pkg][i] \in Files
  BY <1>1, InHand DEF Pending, Middle, Range
<1>4. fetching' \in Fetchables
  BY <1>2, <1>3, PmergeAssumption DEF Fetchable, Fetchables
<1>5. QED BY <1>1, <1>4, SamePlace DEF Ordered, Typed, Middle, buildvars, results

\* What fetcher.fetch and fetch_one do to a file: one that was good stays so, and one
\* that counts as fetched is.
LEMMA FetchDoes ==
    ASSUME Ordered, Fetch
    PROVE  /\ at = "fetch" /\ at' \in {"fetch", "aborted"}
           /\ UNCHANGED <<opts, atoms, plan, pos, buildvars, results>>
           /\ fetching' # None => fetching' \in Fetchables
           /\ distdir' \in [Files -> FileStates]
           /\ \A f \in Files : distdir[f] = "ok" => distdir'[f] = "ok"
           /\ got' \subseteq got \cup {f \in Files : distdir[f] = "ok"}
<1>1. /\ at = "fetch" /\ UNCHANGED <<opts, atoms, plan, pos, buildvars, results>>
      /\ fetching # None /\ fetching \in Fetchables /\ fetching.file \in Files
      /\ distdir \in [Files -> FileStates]
  BY DEF Fetch, Ordered, Typed, Fetchables
<1>2. \/ Missed
      \/ Had /\ distdir[fetching.file] = "ok"
      \/ PutAside /\ distdir[fetching.file] = "bad"
      \/ Download /\ distdir[fetching.file] # "ok" /\ fetching.uris # 0
  BY DEF Fetch
<1>3. CASE Missed
  BY <1>1, <1>3 DEF Missed
<1>4. CASE Had /\ distdir[fetching.file] = "ok"
  BY <1>1, <1>4 DEF Had
<1>5. CASE PutAside /\ distdir[fetching.file] = "bad"
  <2>1. /\ distdir' = [distdir EXCEPT ![fetching.file] = "missing"]
        /\ at' \in {"fetch", "aborted"} /\ got' = got
        /\ fetching' # None => fetching' = Fetchable(fetching.file, Uris[fetching.file].upstream, TRUE)
    BY <1>1, <1>5 DEF PutAside
  <2>2. Fetchable(fetching.file, Uris[fetching.file].upstream, TRUE) \in Fetchables
    BY <1>1, PmergeAssumption DEF Fetchable, Fetchables
  <2>3. QED BY <1>1, <1>5, <2>1, <2>2 DEF FileStates
<1>6. CASE Download /\ distdir[fetching.file] # "ok" /\ fetching.uris # 0
  <2>1. PICK s \in FileStates : distdir' = [distdir EXCEPT ![fetching.file] = s]
    BY <1>6 DEF Download
  <2>2. /\ fetching' = [fetching EXCEPT !.uris = @ - 1, !.tries = @ + 1]
        /\ UNCHANGED <<at, got>>
    BY <1>6 DEF Download
  <2>3. fetching' \in Fetchables
    <3>1. /\ fetching.uris \in Nat /\ fetching.uris - 1 \in Nat
          /\ fetching.tries \in Nat /\ fetching.tries + 1 \in Nat
      BY <1>1, <1>6 DEF Fetchables
    <3>2. QED BY <1>1, <2>2, <3>1 DEF Fetchables
  <2>4. QED BY <1>1, <1>6, <2>1, <2>2, <2>3
<1>7. QED BY <1>2, <1>3, <1>4, <1>5, <1>6

LEMMA FetchOrdered == Ordered /\ Fetch => Ordered'
<1> SUFFICES ASSUME Ordered, Fetch PROVE Ordered'
  OBVIOUS
<1>1. /\ at = "fetch" /\ at' \in {"fetch", "aborted"}
      /\ UNCHANGED <<opts, atoms, plan, pos, buildvars, results>>
      /\ fetching' # None => fetching' \in Fetchables
      /\ distdir' \in [Files -> FileStates]
      /\ got' \subseteq Files
  BY FetchDoes DEF Ordered, Typed
<1>2. QED BY <1>1, SamePlace DEF Ordered, Typed, Middle, buildvars

LEMMA FetchedOrdered == Ordered /\ Fetched => Ordered'
<1> SUFFICES ASSUME Ordered, Fetched PROVE Ordered'
  OBVIOUS
<1>1. /\ at = "fetch" /\ at' \in {"aborted", "loop", "localize", "build"}
      /\ UNCHANGED <<opts, atoms, plan, pos, fetchvars, buildvars, results>>
  BY DEF Fetched
<1>2. CASE at' = "loop"
  BY <1>1, <1>2, Leaving DEF Ordered, Typed, Middle, Ends, fetchvars, buildvars, results
<1>3. CASE at' # "loop"
  BY <1>1, <1>3, SamePlace DEF Ordered, Typed, Middle, fetchvars, buildvars, results
<1>4. QED BY <1>2, <1>3

LEMMA StartBuildOrdered == Ordered /\ StartBuild => Ordered'
<1> SUFFICES ASSUME Ordered, StartBuild PROVE Ordered'
  OBVIOUS
<1>1. /\ at = "build" /\ at' = "phases"
      /\ dirs' = dirs \cup {Op.pkg} /\ ran' = [ran EXCEPT ![Op.pkg] = << >>]
      /\ UNCHANGED <<opts, atoms, plan, pos, fetchvars, cleanup, results>>
  BY DEF StartBuild
<1>2. Op.pkg \in Pkgs
  BY <1>1, InHand DEF Middle
<1>3. QED BY <1>1, <1>2, SamePlace DEF Ordered, Typed, Middle, fetchvars, results

\* A phase that ends well: buildable runs them in the order of stage_depends.
PhaseEnds(p) ==
    /\ ran' = [ran EXCEPT ![p] = Append(@, Phases[Len(ran[p]) + 1])]
    /\ \/ Len(ran'[p]) = Len(Phases) /\ at' = "merge" /\ cleanup' = cleanup \cup {p}
       \/ Len(ran'[p]) # Len(Phases) /\ UNCHANGED <<at, cleanup>>
    /\ UNCHANGED failed

LEMMA PhaseDoes ==
    Phase => /\ at = "phases"
             /\ UNCHANGED <<opts, atoms, plan, pos, fetchvars, dirs, live, world, merged, passed>>
             /\ \/ PhaseEnds(Op.pkg)
                \/ /\ failed' = failed \cup {pos} /\ at' \in {Failing, "aborted"}
                   /\ UNCHANGED <<ran, cleanup>>
BY DEF Phase, PhaseEnds

LEMMA LocalizeOrdered == Ordered /\ Localize => Ordered'
<1> SUFFICES ASSUME Ordered, Localize PROVE Ordered'
  OBVIOUS
<1>1. /\ at = "localize" /\ at' \in {"merge", "aborted"}
      /\ dirs' = dirs \cup {Op.pkg}
      /\ cleanup' \in {cleanup, cleanup \cup {Op.pkg}}
      /\ UNCHANGED <<opts, atoms, plan, pos, fetchvars, ran, results>>
  BY DEF Localize
<1>2. Op.pkg \in Pkgs
  BY <1>1, InHand DEF Middle
<1>3. QED BY <1>1, <1>2, SamePlace DEF Ordered, Typed, Middle, fetchvars, results

LEMMA DoMergeOrdered == Ordered /\ DoMerge => Ordered'
<1> SUFFICES ASSUME Ordered, DoMerge PROVE Ordered'
  OBVIOUS
<1>1. /\ at = "merge"
      /\ UNCHANGED <<opts, atoms, plan, pos, fetchvars, buildvars>>
      /\ \/ merged' \in {merged, merged \cup {Op.pkg}} /\ at' = "loop" /\ failed' = failed
         \/ /\ merged' = merged /\ failed' = failed \cup {pos}
            /\ at' \in {Failing, "aborted"}
  BY DEF DoMerge
<1>2. QED BY <1>1, Leaving DEF Ordered, Typed, Middle, Ends, Failing, buildvars

LEMMA PhaseOrdered == Ordered /\ Phase => Ordered'
<1> SUFFICES ASSUME Ordered, Phase PROVE Ordered'
  OBVIOUS
<1>1. /\ at = "phases"
      /\ UNCHANGED <<opts, atoms, plan, pos, fetchvars, dirs, live, world, merged, passed>>
      /\ \/ PhaseEnds(Op.pkg)
         \/ /\ failed' = failed \cup {pos} /\ at' \in {Failing, "aborted"}
            /\ UNCHANGED <<ran, cleanup>>
  BY PhaseDoes
<1>2. Op.pkg \in Pkgs
  BY <1>1, InHand DEF Middle
<1>3. CASE PhaseEnds(Op.pkg)
  <2>1. /\ at' \in {"phases", "merge"} /\ cleanup' \in {cleanup, cleanup \cup {Op.pkg}}
        /\ ran' = [p \in Pkgs |-> ran'[p]] /\ failed' = failed
    BY <1>1, <1>3 DEF PhaseEnds, Ordered, Typed
  <2>2. QED BY <1>1, <1>2, <2>1, SamePlace DEF Ordered, Typed, Middle, fetchvars, results
<1>4. CASE failed' = failed \cup {pos} /\ at' \in {Failing, "aborted"}
           /\ UNCHANGED <<ran, cleanup>>
  BY <1>1, <1>4, Leaving DEF Ordered, Typed, Middle, Ends, Failing
<1>5. QED BY <1>1, <1>3, <1>4

LEMMA StepOrdered == Ordered /\ [Next]_vars => Ordered'
<1> SUFFICES ASSUME Ordered, [Next]_vars PROVE Ordered'
  OBVIOUS
<1>1. CASE UNCHANGED vars
  BY <1>1 DEF Ordered, Typed, InMode, DoneSoFar, Over, vars, fetchvars, buildvars, results
<1>2. CASE Next
  BY <1>2, ResolveOrdered, CheckOrdered, WipeOrdered, DoUnmergeOrdered, NextOpOrdered,
     FetchNextOrdered, FetchOrdered, FetchedOrdered, StartBuildOrdered, PhaseOrdered,
     LocalizeOrdered, DoMergeOrdered DEF Next
<1>3. QED BY <1>1, <1>2

\* Every variable of a run has its type, and a run is where its mode and plan allow.
THEOREM RunsInOrder == Spec => []Ordered
BY InitOrdered, StepOrdered, PTL DEF Spec
-----------------------------------------------------------------------------
\* What a package needs before it is merged, on the way there.
Building == Middle \ {"fetch"}

\* The phases that ran are the first ones, and not all of them.
UnderWay(s) ==
    /\ s \in Seq(Range(Phases)) /\ Len(s) < Len(Phases)
    /\ \A i \in 1 .. Len(s) : s[i] = Phases[i]

Whole ==
    /\ \A f \in got : distdir[f] = "ok"
    /\ MergedIsWhole
    /\ at \in Building => Range(FilesOf[Op.pkg]) \subseteq got
    /\ at = "localize" => Op.pkg \in Built
    /\ at = "phases" => UnderWay(ran[Op.pkg])
    /\ at = "merge" => Op.pkg \in Built \/ ran[Op.pkg] = Phases

LEMMA PhasesTyped == Phases \in Seq(Range(Phases)) /\ Len(Phases) = 7
<1>1. Phases \in [1 .. 7 -> Range(Phases)]
  BY DEF Phases, Range
<1>2. QED BY <1>1, FunctionIsSeq

\* One more of the phases in their order.
LEMMA OnePhaseMore ==
    ASSUME NEW s, UnderWay(s), NEW t, t = Append(s, Phases[Len(s) + 1])
    PROVE  (Len(t) = Len(Phases) /\ t = Phases) \/ (Len(t) # Len(Phases) /\ UnderWay(t))
<1>1. /\ s \in Seq(Range(Phases)) /\ Len(s) \in Nat /\ Len(s) + 1 \in 1 .. 7
      /\ Phases \in Seq(Range(Phases)) /\ Len(Phases) = 7
  BY PhasesTyped, LenProperties DEF UnderWay
<1>2. Phases[Len(s) + 1] \in Range(Phases)
  BY <1>1, ElementOfSeq
<1>3. /\ t \in Seq(Range(Phases)) /\ Len(t) = Len(s) + 1
      /\ \A i \in 1 .. Len(t) : t[i] = Phases[i]
  <2>1. t \in Seq(Range(Phases)) /\ Len(t) = Len(s) + 1
    BY <1>1, <1>2, AppendProperties
  <2>2. ASSUME NEW i \in 1 .. Len(t) PROVE t[i] = Phases[i]
    <3>1. t[i] = IF i = Len(s) + 1 THEN Phases[Len(s) + 1] ELSE s[i]
      BY <1>1, <1>2, <2>1
    <3>2. i # Len(s) + 1 => i \in 1 .. Len(s)
      BY <1>1, <2>1
    <3>3. QED BY <3>1, <3>2 DEF UnderWay
  <2>3. QED BY <2>1, <2>2
<1>4. CASE Len(t) = 7
  BY <1>1, <1>3, <1>4, SeqEqual
<1>5. CASE Len(t) # 7
  BY <1>1, <1>3, <1>5 DEF UnderWay
<1>6. QED BY <1>1, <1>4, <1>5

\* What does not build, fetch or merge.
LEMMA SameWhole ==
    ASSUME Whole, UNCHANGED <<merged, distdir, ran>>, got' \subseteq got, at' \notin Building
    PROVE  Whole'
BY DEF Whole, MergedIsWhole, Building, Middle

\* A step of a build changes nothing about the packages that were merged.
LEMMA MergedStays ==
    ASSUME Ordered, Whole, UNCHANGED <<merged, distdir>>, at \in Middle,
           \A p \in Pkgs \ {Op.pkg} : ran'[p] = ran[p]
    PROVE  MergedIsWhole'
<1>1. Op.pkg \notin merged /\ merged \subseteq Pkgs
  BY InHand DEF Ordered, Typed
<1>2. QED BY <1>1 DEF Whole, MergedIsWhole

LEMMA FetchWhole == Ordered /\ Whole /\ Fetch => Whole'
<1> SUFFICES ASSUME Ordered, Whole, Fetch PROVE Whole'
  OBVIOUS
<1>1. /\ at = "fetch" /\ at' \in {"fetch", "aborted"}
      /\ UNCHANGED <<plan, pos, buildvars, results>>
      /\ \A f \in Files : distdir[f] = "ok" => distdir'[f] = "ok"
      /\ got' \subseteq got \cup {f \in Files : distdir[f] = "ok"}
      /\ got \subseteq Files /\ merged \subseteq Pkgs
  BY FetchDoes DEF Ordered, Typed
<1>2. \A f \in got' : distdir'[f] = "ok"
  BY <1>1 DEF Whole
<1>3. MergedIsWhole'
  BY <1>1, PkgsTyped DEF Whole, MergedIsWhole, buildvars, results
<1>4. QED BY <1>1, <1>2, <1>3 DEF Whole, Building, Middle

LEMMA FetchedWhole == Ordered /\ Whole /\ Fetched => Whole'
<1> SUFFICES ASSUME Ordered, Whole, Fetched PROVE Whole'
  OBVIOUS
<1>1. /\ at = "fetch" /\ UNCHANGED <<plan, pos, fetchvars, buildvars, results>>
      /\ at' = IF missed # {} THEN "aborted"
               ELSE IF opts.fetchonly THEN "loop"
               ELSE IF Op.pkg \in Built THEN "localize" ELSE "build"
      /\ Pending = {} /\ Op' = Op
  BY DEF Fetched, Op
<1>2. CASE at' \in {"aborted", "loop"}
  BY <1>1, <1>2, SameWhole DEF Building, Middle, fetchvars, buildvars, results
<1>3. CASE at' \in {"localize", "build"}
  <2>1. missed = {} /\ (at' = "localize" => Op.pkg \in Built)
    BY <1>1, <1>3
  <2>2. Range(FilesOf[Op.pkg]) \subseteq got
    BY <1>1, <2>1 DEF Pending, Range
  <2>3. QED BY <1>1, <1>3, <2>1, <2>2 DEF Whole, MergedIsWhole, fetchvars, buildvars, results
<1>4. QED BY <1>1, <1>2, <1>3

LEMMA StartBuildWhole == Ordered /\ Whole /\ StartBuild => Whole'
<1> SUFFICES ASSUME Ordered, Whole, StartBuild PROVE Whole'
  OBVIOUS
<1>1. /\ at = "build" /\ at' = "phases" /\ Op' = Op
      /\ ran' = [ran EXCEPT ![Op.pkg] = << >>]
      /\ UNCHANGED <<plan, pos, fetchvars, cleanup, results>>
  BY DEF StartBuild, Op
<1>2. Op.pkg \in Pkgs /\ ran = [p \in Pkgs |-> ran[p]]
  BY <1>1, InHand DEF Ordered, Typed, Middle
<1>3. UnderWay(<< >>)
  <2>1. Len(<< >>) = 0 /\ << >> \in Seq(Range(Phases))
    OBVIOUS
  <2>2. QED BY <2>1, PhasesTyped DEF UnderWay
<1>4. ran'[Op.pkg] = << >> /\ \A p \in Pkgs \ {Op.pkg} : ran'[p] = ran[p]
  BY <1>1, <1>2
<1>5. MergedIsWhole'
  BY <1>1, <1>4, MergedStays DEF Middle, fetchvars, results
<1>6. QED BY <1>1, <1>3, <1>4, <1>5 DEF Whole, Building, Middle, fetchvars

LEMMA PhaseWhole == Ordered /\ Whole /\ Phase => Whole'
<1> SUFFICES ASSUME Ordered, Whole, Phase PROVE Whole'
  OBVIOUS
<1>1. /\ at = "phases" /\ Op' = Op
      /\ UNCHANGED <<opts, atoms, plan, pos, fetchvars, dirs, live, world, merged, passed>>
      /\ \/ PhaseEnds(Op.pkg)
         \/ /\ failed' = failed \cup {pos} /\ at' \in {Failing, "aborted"}
            /\ UNCHANGED <<ran, cleanup>>
  BY PhaseDoes DEF Op
<1>2. Op.pkg \in Pkgs /\ ran = [p \in Pkgs |-> ran[p]]
  BY <1>1, InHand DEF Ordered, Typed, Middle
<1>3. CASE PhaseEnds(Op.pkg)
  <2>1. /\ ran'[Op.pkg] = Append(ran[Op.pkg], Phases[Len(ran[Op.pkg]) + 1])
        /\ \A p \in Pkgs \ {Op.pkg} : ran'[p] = ran[p]
    BY <1>2, <1>3 DEF PhaseEnds
  <2>2. MergedIsWhole'
    BY <1>1, <2>1, MergedStays DEF Middle, fetchvars
  <2>3. UnderWay(ran[Op.pkg])
    BY <1>1 DEF Whole
  <2>4. \/ Len(ran'[Op.pkg]) = Len(Phases) /\ ran'[Op.pkg] = Phases
        \/ Len(ran'[Op.pkg]) # Len(Phases) /\ UnderWay(ran'[Op.pkg])
    BY <2>1, <2>3, OnePhaseMore
  <2>5. \/ at' = "merge" /\ ran'[Op.pkg] = Phases
        \/ at' = "phases" /\ UnderWay(ran'[Op.pkg])
    BY <1>1, <1>3, <2>4 DEF PhaseEnds
  <2>6. QED BY <1>1, <2>2, <2>5 DEF Whole, Building, Middle, fetchvars
<1>4. CASE failed' = failed \cup {pos} /\ at' \in {Failing, "aborted"}
           /\ UNCHANGED <<ran, cleanup>>
  BY <1>1, <1>4, SameWhole DEF Failing, Building, Middle, fetchvars
<1>5. QED BY <1>1, <1>3, <1>4

LEMMA LocalizeWhole == Ordered /\ Whole /\ Localize => Whole'
BY DEF Localize, Whole, MergedIsWhole, Building, Middle, Op, fetchvars, results

LEMMA DoMergeWhole == Ordered /\ Whole /\ DoMerge => Whole'
<1> SUFFICES ASSUME Ordered, Whole, DoMerge PROVE Whole'
  OBVIOUS
<1>1. /\ at = "merge" /\ at' \in {"loop"} \cup Ends
      /\ UNCHANGED <<opts, atoms, plan, pos, fetchvars, buildvars>>
      /\ merged' \in {merged, merged \cup {Op.pkg}}
  BY DEF DoMerge, Failing, Ends
<1>2. /\ \A f \in Range(FilesOf[Op.pkg]) : distdir[f] = "ok"
      /\ Op.pkg \notin Built => ran[Op.pkg] = Phases
  BY <1>1 DEF Whole, Building, Middle
<1>3. MergedIsWhole'
  BY <1>1, <1>2 DEF Whole, MergedIsWhole, fetchvars, buildvars
<1>4. QED BY <1>1, <1>3 DEF Whole, Building, Middle, Ends, fetchvars

LEMMA StepWhole == Ordered /\ Whole /\ [Next]_vars => Whole'
<1> SUFFICES ASSUME Ordered, Whole, [Next]_vars PROVE Whole'
  OBVIOUS
<1>1. CASE UNCHANGED vars
  BY <1>1 DEF Whole, MergedIsWhole, Op, vars, fetchvars, buildvars, results
<1>2. CASE Resolve \/ Check \/ Wipe \/ Unmerge \/ DoUnmerge
  <2>1. /\ UNCHANGED <<merged, distdir, ran, got>>
        /\ at' \in {"resolve", "error", "wipe", "loop", "check", "unmerging"} \cup Ends
    BY <1>2 DEF Resolve, Check, Wipe, Unmerge, DoUnmerge, Ends, fetchvars, buildvars, results
  <2>2. QED BY <2>1, SameWhole DEF Building, Middle, Ends
<1>3. CASE NextOp \/ FetchNext
  <2>1. UNCHANGED <<merged, distdir, ran>> /\ got' \subseteq got /\ at' \in {"fetch", "end"}
    BY <1>3 DEF NextOp, FetchNext, buildvars, results
  <2>2. QED BY <2>1, SameWhole DEF Building, Middle
<1>4. QED
  BY <1>1, <1>2, <1>3, FetchWhole, FetchedWhole, StartBuildWhole, PhaseWhole, LocalizeWhole,
     DoMergeWhole DEF Next

\* MergedIsWhole: whatever was in distdir and whatever fails, a package that was merged has
\* all its files verified and went through all its phases (operations/format.py,
\* scripts/pmerge.py).
THEOREM MergedWhole == Spec => []MergedIsWhole
<1>1. Init => Whole
  BY DEF Init, Whole, MergedIsWhole, Building, Middle
<1>2. Whole => MergedIsWhole
  BY DEF Whole
<1>3. QED BY <1>1, <1>2, StepWhole, RunsInOrder, PTL DEF Spec
-----------------------------------------------------------------------------
\* DoesAsTold in two parts: what became of the plan, and of the system.
Accounted ==
    /\ ~opts.ignore => failed \subseteq {pos}
    /\ at = "end" => pos = Len(plan)
    /\ opts.mode = "merge" /\ at \in Middle \cup {"loop", "end"} =>
         \A i \in 1 .. Over : opts.fetchonly \/ i \in failed \/ plan[i].pkg \in merged \cup passed
    /\ at \in Building => ~opts.fetchonly

Kept(o) == o.desc = "keep" /\ o.by \cap atoms # {}

Recording ==
    /\ opts.mode = "clean" => \A o \in Ops : Kept(o) => o.pkg \in live
    /\ WorldTold
    /\ opts.fetchonly /\ opts.mode = "merge" => live = opts.live

\* What is about to be unmerged is installed and nothing that is to be kept.
Removing ==
    /\ at = "wipe" => \A o \in Ops : Kept(o) => o \in Range(plan)
    /\ at = "unmerging" =>
         \A i \in DOMAIN plan :
            /\ plan[i].pkg \in opts.live
            /\ opts.mode = "clean" => \A o \in Ops : Kept(o) => o.pkg # plan[i].pkg

Told == Accounted /\ Recording /\ Removing

LEMMA ToldIsEnough == Ordered /\ Told => DoesAsTold
<1> SUFFICES ASSUME Ordered, Told PROVE DoesAsTold
  OBVIOUS
<1>1. ASSUME at = "end", opts.mode = "merge", NEW i \in DOMAIN plan
      PROVE  opts.fetchonly \/ i \in failed \/ plan[i].pkg \in merged \cup passed
  <2>1. Over = Len(plan) /\ i \in 1 .. Len(plan)
    BY <1>1, LenProperties DEF Ordered, Typed, Told, Accounted, Over, Middle
  <2>2. QED BY <1>1, <2>1 DEF Told, Accounted
<1>2. QED BY <1>1 DEF Told, Accounted, Recording, Kept, DoesAsTold

\* While nothing was done the system is as it was.
LEMMA Untouched ==
    ASSUME opts \in Settings, live = opts.live, world = opts.world,
           merged = {}, passed = {}
    PROVE  Recording
BY PmergeAssumption DEF Recording, Kept, WorldTold

\* What goes on in the plan and leaves the system alone.
LEMMA SystemStays ==
    ASSUME Recording, UNCHANGED <<opts, atoms, live, world, merged, passed>>
    PROVE  Recording'
BY DEF Recording, Kept, WorldTold

LEMMA InitTold == Init => Told
<1> SUFFICES ASSUME Init PROVE Told
  OBVIOUS
<1>1. Recording
  BY Untouched DEF Init
<1>2. Accounted /\ Removing
  BY DEF Init, Accounted, Removing, Building, Middle
<1>3. QED BY <1>1, <1>2 DEF Told

LEMMA ResolveTold == Ordered /\ Told /\ Resolve => Told'
<1> SUFFICES ASSUME Ordered, Told, Resolve PROVE Told'
  OBVIOUS
<1>1. /\ at = "resolve" /\ pos' = 0 /\ opts' = opts /\ opts \in Settings
      /\ at' \in {"resolve", "error", "wipe", "loop", "check"}
      /\ failed' = {} /\ live' = opts.live /\ world' = opts.world
      /\ merged' = {} /\ passed' = {}
  BY DEF Ordered, Typed, DoneSoFar, Resolve, Before, results
<1>2. Recording'
  BY <1>1, PmergeAssumption DEF Recording, Kept, WorldTold
<1>3. Accounted'
  <2>1. Over' = 0
    BY <1>1 DEF Over, Middle
  <2>2. QED BY <1>1, <2>1 DEF Accounted, Building, Middle
<1>4. Removing'
  <2>1. SUFFICES ASSUME at' = "wipe", NEW o \in Ops, Kept(o)' PROVE o \in Range(plan')
    BY <1>1 DEF Removing
  <2>2. /\ UNCHANGED atoms
        /\ \E order \in [1 .. Cardinality(Wanted) -> Wanted] :
             /\ \A i, j \in DOMAIN order : i < j => order[i] < order[j]
             /\ plan' = [i \in DOMAIN order |-> OpSeq[order[i]]]
    BY <2>1 DEF Resolve
  <2>3. PICK order \in [1 .. Cardinality(Wanted) -> Wanted] :
          /\ \A i, j \in DOMAIN order : i < j => order[i] < order[j]
          /\ plan' = [i \in DOMAIN order |-> OpSeq[order[i]]]
    BY <2>2
  <2> DEFINE made == [i \in DOMAIN order |-> OpSeq[order[i]]]
  <2>4. \A k \in Wanted : OpSeq[k] \in Range(made)
    BY <2>3, PlanMade, Zenon
  <2>5. PICK k \in DOMAIN OpSeq : o = OpSeq[k]
    BY DEF Ops, Range
  <2>6. opts.mode = "clean" /\ o.by \cap atoms # {}
    BY <2>1, <2>2 DEF Resolve, Kept
  <2>7. k \in Wanted
    BY <2>5, <2>6 DEF Wanted
  <2>8. o \in Range(made) /\ plan' = made
    BY <2>3, <2>4, <2>5, <2>7
  <2>9. QED BY <2>8, Zenon
<1>5. QED BY <1>2, <1>3, <1>4 DEF Told

LEMMA CheckTold == Ordered /\ Told /\ Check => Told'
<1> SUFFICES ASSUME Ordered, Told, Check PROVE Told'
  OBVIOUS
<1>1. /\ at' \in {"loop", "error"} /\ pos = 0 /\ pos' = 0 /\ failed' = {}
      /\ UNCHANGED <<opts, atoms, plan, live, world, merged, passed>>
  BY DEF Ordered, DoneSoFar, Check, Before, results
<1>2. Recording'
  BY <1>1, SystemStays DEF Told
<1>3. Accounted' /\ Removing'
  <2>1. Over' = 0
    BY <1>1 DEF Over, Middle
  <2>2. QED BY <1>1, <2>1 DEF Accounted, Removing, Building, Middle
<1>4. QED BY <1>2, <1>3 DEF Told

LEMMA WipeTold == Ordered /\ Told /\ (Wipe \/ Unmerge) => Told'
<1> SUFFICES ASSUME Ordered, Told, Wipe \/ Unmerge PROVE Told'
  OBVIOUS
<1>1. /\ at' \in {"unmerging", "error"} /\ pos' = 0 /\ failed' = {}
      /\ opts' = opts /\ atoms' = atoms /\ opts \in Settings /\ opts.mode # "merge"
      /\ live = opts.live /\ live' = opts.live /\ world' = opts.world
      /\ merged' = {} /\ passed' = {}
  BY DEF Ordered, Typed, InMode, DoneSoFar, Wipe, Unmerge, Before, results
<1>2. Recording'
  BY <1>1, PmergeAssumption DEF Recording, Kept, WorldTold
<1>3. Accounted'
  BY <1>1 DEF Accounted, Building, Middle
<1>4. Removing'
  <2>1. \A i \in DOMAIN plan' : plan'[i].pkg \in opts.live
    BY WipeOrdered
  <2>2. ASSUME opts.mode = "clean", NEW i \in DOMAIN plan', NEW o \in Ops, Kept(o)'
        PROVE  o.pkg # plan'[i].pkg
    <3>1. Wipe /\ at = "wipe"
      BY <2>2 DEF Ordered, InMode, Wipe, Unmerge
    <3>2. o \in Range(plan)
      BY <1>1, <2>2, <3>1 DEF Told, Removing, Kept
    <3> DEFINE ps == live \ {x.pkg : x \in Range(plan)}
    <3>3. plan' = Removals(ps)
      BY <3>1 DEF Wipe
    <3>4. ps \in SUBSET Pkgs /\ IsFiniteSet(ps)
      BY <1>1, PkgsTyped, PmergeAssumption, FS_Subset
    <3>5. plan'[i].pkg \in ps
      BY <2>2, <3>3, <3>4, RemovalsList
    <3>6. QED BY <3>2, <3>5
  <2>3. QED BY <1>1, <2>1, <2>2 DEF Removing
<1>5. QED BY <1>2, <1>3, <1>4 DEF Told

LEMMA DoUnmergeTold == Ordered /\ Told /\ DoUnmerge => Told'
<1> SUFFICES ASSUME Ordered, Told, DoUnmerge PROVE Told'
  OBVIOUS
<1>1. /\ at = "unmerging" /\ opts.mode # "merge" /\ pos \in Nat
      /\ plan \in Seq(Ops \cup Removed) /\ Len(plan) \in Nat /\ pos \in 0 .. Len(plan)
      /\ ~opts.ignore => failed = {}
      /\ UNCHANGED <<opts, atoms, plan, merged>>
  BY LenProperties DEF Ordered, Typed, InMode, DoneSoFar, DoUnmerge, Ends
<1>2. CASE pos = Len(plan)
  <2>1. at' = "end" /\ UNCHANGED <<pos, live, world, failed, passed>>
    BY <1>1, <1>2 DEF DoUnmerge
  <2>2. Recording'
    BY <1>1, <2>1, SystemStays DEF Told
  <2>3. QED BY <1>1, <1>2, <2>1, <2>2 DEF Told, Accounted, Removing, Building, Middle
<1>3. CASE pos # Len(plan)
  <2>0. PICK p : p = plan[pos + 1].pkg
    OBVIOUS
  <2>1. /\ pos' = pos + 1 /\ pos + 1 \in DOMAIN plan /\ pos' \in Nat
        /\ p \in opts.live
        /\ opts.mode = "clean" => \A o \in Ops : Kept(o) => o.pkg # p
    BY <1>1, <1>3, <2>0, LenProperties DEF DoUnmerge, Told, Removing
  <2>2. /\ at' \in {"unmerging", "error", "aborted"}
        /\ failed' \in {failed, failed \cup {pos'}}
        /\ \/ live' = live \ {p} /\ world' = Struck(p) /\ passed' = passed
           \/ live' = live /\ world' = Struck(p) /\ passed' = passed \cup {p}
           \/ UNCHANGED <<live, world, passed>>
    BY <1>1, <1>3, <2>0 DEF DoUnmerge
  <2>3. Recording'
    <3> DEFINE Gone == (opts.live \ live) \cup passed
    <3>1. \/ world' = world /\ Gone' = Gone
          \/ world' = Struck(p) /\ Gone' = Gone \cup {p}
      <4>1. CASE live' = live \ {p} /\ world' = Struck(p) /\ passed' = passed
        <5>1. Gone' = Gone \cup {p}
          BY <1>1, <2>1, <4>1
        <5>2. QED BY <4>1, <5>1
      <4>2. CASE live' = live /\ world' = Struck(p) /\ passed' = passed \cup {p}
        <5>1. Gone' = Gone \cup {p}
          BY <1>1, <4>2
        <5>2. QED BY <4>2, <5>1
      <4>3. CASE UNCHANGED <<live, world, passed>>
        <5>1. live' = live /\ passed' = passed /\ opts' = opts /\ world' = world
          BY <1>1, <4>3
        <5>2. Gone' = Gone
          BY <5>1
        <5>3. QED BY <5>1, <5>2
      <4>4. QED BY <2>2, <4>1, <4>2, <4>3
    <3>2. WorldTold'
      <4>1. CASE opts.oneshot
        BY <1>1, <2>2, <4>1 DEF Told, Recording, WorldTold, Struck
      <4>2. CASE ~opts.oneshot
        <5>1. world = opts.world \ {KeyOf[q] : q \in Gone}
          BY <1>1, <4>2 DEF Told, Recording, WorldTold
        <5>2. world' = opts.world \ {KeyOf[q] : q \in Gone'}
          BY <3>1, <4>2, <5>1 DEF Struck
        <5>3. QED BY <1>1, <4>2, <5>2 DEF WorldTold
      <4>3. QED BY <4>1, <4>2
    <3>3. opts.mode = "clean" => \A o \in Ops : Kept(o) => o.pkg \in live'
      BY <2>1, <2>2 DEF Told, Recording
    <3>4. QED BY <1>1, <3>2, <3>3 DEF Recording, Kept
  <2>4. Accounted'
    BY <1>1, <2>1, <2>2 DEF Accounted, Building, Middle
  <2>5. Removing'
    BY <1>1, <2>2 DEF Told, Removing, Kept
  <2>6. QED BY <2>3, <2>4, <2>5 DEF Told
<1>4. QED BY <1>2, <1>3

LEMMA NextOpTold == Ordered /\ Told /\ NextOp => Told'
<1> SUFFICES ASSUME Ordered, Told, NextOp PROVE Told'
  OBVIOUS
<1>1. /\ at = "loop" /\ Over = pos /\ pos \in Nat
      /\ ~opts.ignore => failed = {}
      /\ UNCHANGED <<opts, atoms, plan, results>>
  BY LenProperties DEF Ordered, Typed, DoneSoFar, NextOp, Over, Middle, Ends
<1>2. \/ at' = "end" /\ pos' = pos /\ pos = Len(plan)
      \/ at' = "fetch" /\ pos' = pos + 1
  BY <1>1 DEF NextOp
<1>3. Over' = Over /\ pos' \in Nat /\ pos =< pos'
  BY <1>1, <1>2 DEF Over, Middle
<1>4. Recording'
  BY <1>1, <1>3, SystemStays DEF Told, results
<1>5. Accounted'
  BY <1>1, <1>2, <1>3 DEF Told, Accounted, Building, Middle, results
<1>6. QED BY <1>2, <1>4, <1>5 DEF Told, Removing

\* An operation goes on: nothing is accounted for yet.
LEMMA GoesOnTold ==
    ASSUME Ordered, Told, UNCHANGED <<opts, atoms, plan, pos, results>>,
           at \in Middle, at' \in Middle \cup {"aborted"},
           at' \in Building => at \in Building \/ ~opts.fetchonly
    PROVE  Told'
<1>1. pos \in Nat
  BY LenProperties DEF Ordered, Typed
<1>2. Recording'
  BY <1>1, SystemStays DEF Told, results
<1>3. Accounted'
  BY DEF Told, Accounted, Over, Building, Middle, results
<1>4. QED BY <1>2, <1>3 DEF Told, Removing, Middle

\* An operation fails or has nothing more to do.
LEMMA LeavesTold ==
    ASSUME Ordered, Told, UNCHANGED <<opts, atoms, plan, pos, live, world, merged, passed>>,
           at \in Middle, at' \in {"loop", "error", "aborted"},
           (failed' = failed /\ opts.fetchonly) \/ failed' = failed \cup {pos}
    PROVE  Told'
<1>1. /\ pos \in Nat /\ Over = pos - 1 /\ Over' = pos /\ pos > 0 /\ opts.mode = "merge"
      /\ ~opts.ignore => failed = {}
  BY InHand, LenProperties DEF Ordered, Typed, DoneSoFar, Over, Middle, Ends
<1>2. Recording'
  BY <1>1, SystemStays DEF Told
<1>3. Accounted'
  <2>1. ASSUME NEW i \in 1 .. Over'
        PROVE  opts.fetchonly \/ i \in failed' \/ plan[i].pkg \in merged \cup passed
    <3>1. i = pos \/ i \in 1 .. Over
      BY <1>1
    <3>2. QED BY <1>1, <3>1 DEF Told, Accounted
  <2>2. QED BY <1>1, <2>1 DEF Accounted, Building, Middle
<1>4. QED BY <1>2, <1>3 DEF Told, Removing

LEMMA DoMergeTold == Ordered /\ Told /\ DoMerge => Told'
<1> SUFFICES ASSUME Ordered, Told, DoMerge PROVE Told'
  OBVIOUS
<1>1. /\ at = "merge" /\ UNCHANGED <<opts, atoms, plan, pos>>
      /\ pos \in 1 .. Len(plan) /\ Len(plan) \in Nat /\ Over = pos - 1
      /\ opts.mode = "merge" /\ ~opts.fetchonly
      /\ ~opts.ignore => failed = {}
  BY InHand DEF DoMerge, Ordered, DoneSoFar, Told, Accounted, Building, Middle, Ends
<1>2. CASE /\ \/ merged' = merged \cup {Op.pkg} /\ passed' = passed
              \/ merged' = merged /\ passed' = passed \cup {Op.pkg}
           /\ world' = Recorded /\ at' = "loop" /\ failed' = failed
  <2>1. Accounted'
    <3>1. Over' = pos
      BY <1>1, <1>2 DEF Over, Middle
    <3>2. ASSUME NEW i \in 1 .. Over'
          PROVE  i \in failed \/ plan[i].pkg \in merged' \cup passed'
      <4>1. i = pos \/ i \in 1 .. Over
        BY <1>1, <3>1
      <4>2. QED BY <1>1, <1>2, <4>1 DEF Told, Accounted, Middle, Op
    <3>3. QED BY <1>1, <1>2, <3>2 DEF Told, Accounted, Building, Middle
  <2>2. Recording'
    <3> DEFINE Done == (merged \cup passed) \cap atoms
    <3>1. Done' = IF Op.pkg \in atoms THEN Done \cup {Op.pkg} ELSE Done
      BY <1>1, <1>2
    <3>2. WorldTold'
      <4>1. CASE opts.oneshot \/ opts.change
        BY <1>1, <1>2, <4>1 DEF Told, Recording, WorldTold, Recorded
      <4>2. CASE ~opts.oneshot /\ ~opts.change
        <5>1. world = opts.world \cup {KeyOf[q] : q \in Done}
          BY <1>1, <4>2 DEF Told, Recording, WorldTold
        <5>2. world' = opts.world \cup {KeyOf[q] : q \in Done'}
          BY <1>2, <3>1, <4>2, <5>1 DEF Recorded
        <5>3. QED BY <1>1, <4>2, <5>2 DEF WorldTold
      <4>3. QED BY <4>1, <4>2
    <3>3. QED BY <1>1, <3>2 DEF Told, Recording, Kept
  <2>3. QED BY <1>2, <2>1, <2>2 DEF Told, Removing
<1>3. CASE /\ failed' = failed \cup {pos} /\ at' \in {Failing, "aborted"}
           /\ UNCHANGED <<live, world, merged, passed>>
  BY <1>1, <1>3, LeavesTold DEF Failing, Middle
<1>4. QED BY <1>2, <1>3 DEF DoMerge

LEMMA StepTold == Ordered /\ Told /\ [Next]_vars => Told'
<1> SUFFICES ASSUME Ordered, Told, [Next]_vars PROVE Told'
  OBVIOUS
<1>1. CASE UNCHANGED vars
  BY <1>1 DEF Told, Accounted, Recording, Removing, Over, Kept, WorldTold, vars, results
<1>2. CASE Fetch
  BY <1>2, FetchDoes, GoesOnTold DEF Building, Middle
<1>3. CASE FetchNext \/ StartBuild \/ Localize
  <2>1. /\ UNCHANGED <<opts, atoms, plan, pos, results>>
        /\ at \in Middle /\ at' \in Middle \cup {"aborted"}
        /\ at' \in Building => at \in Building
    <3>1. CASE FetchNext
      BY <3>1 DEF FetchNext, Building, Middle
    <3>2. CASE StartBuild
      BY <3>2 DEF StartBuild, Building, Middle
    <3>3. CASE Localize
      BY <3>3 DEF Localize, Building, Middle
    <3>4. QED BY <1>3, <3>1, <3>2, <3>3
  <2>2. QED BY <2>1, GoesOnTold
<1>4. CASE Fetched
  <2>1. /\ UNCHANGED <<opts, atoms, plan, pos, results>>
        /\ at \in Middle /\ at' \in Building \cup {"loop", "aborted"}
        /\ at' \in Building => ~opts.fetchonly
        /\ at' = "loop" => opts.fetchonly
    BY <1>4 DEF Fetched, Building, Middle
  <2>2. CASE at' = "loop"
    BY <2>1, <2>2, LeavesTold DEF results
  <2>3. CASE at' # "loop"
    BY <2>1, <2>3, GoesOnTold DEF Building
  <2>4. QED BY <2>2, <2>3
<1>5. CASE Phase
  <2>1. /\ at = "phases" /\ UNCHANGED <<opts, atoms, plan, pos, live, world, merged, passed>>
        /\ \/ PhaseEnds(Op.pkg)
           \/ failed' = failed \cup {pos} /\ at' \in {Failing, "aborted"}
    BY <1>5, PhaseDoes
  <2>2. CASE PhaseEnds(Op.pkg)
    BY <2>1, <2>2, GoesOnTold DEF PhaseEnds, Building, Middle, results
  <2>3. CASE failed' = failed \cup {pos} /\ at' \in {Failing, "aborted"}
    BY <2>1, <2>3, LeavesTold DEF Failing, Middle
  <2>4. QED BY <2>1, <2>2, <2>3
<1>6. QED
  BY <1>1, <1>2, <1>3, <1>4, <1>5, ResolveTold, CheckTold, WipeTold, DoUnmergeTold,
     NextOpTold, DoMergeTold DEF Next

\* DoesAsTold: what a run did is what it was told, whatever failed, and the world file is the
\* old one with exactly what was asked for and installed, or without exactly what was
\* unmerged, packages whose finish() came back false counting as done (scripts/pmerge.py,
\* main, unmerge, do_unmerge and update_worldset).
THEOREM RunsDoAsTold == Spec => []DoesAsTold
BY InitTold, StepTold, ToldIsEnough, RunsInOrder, PTL DEF Spec
-----------------------------------------------------------------------------
\* A build directory belongs to the build under way, is due to be removed, or is that of
\* a build that failed.
Left ==
    /\ at \notin {"error", "aborted"} =>
         \A p \in dirs : \/ p \in cleanup
                         \/ \E i \in failed : plan[i].pkg = p
                         \/ at = "phases" /\ p = Op.pkg
    /\ at = "end" \/ opts.mode # "merge" => cleanup = {}
    /\ at = "phases" => Op.pkg \in dirs
    /\ at = "merge" => Op.pkg \in dirs \cap cleanup

\* Before the plan is, and when packages are unmerged, there are none.
LEMMA EarlyLeft ==
    ASSUME Ordered, Left, UNCHANGED <<opts, dirs, cleanup>>, dirs = {}, cleanup = {},
           at' \notin {"phases", "merge"}
    PROVE  Left'
BY DEF Left

\* Fetching and what has no build directory yet.
LEMMA SameLeft ==
    ASSUME Left, UNCHANGED <<opts, plan, pos, dirs, cleanup, failed>>,
           at \notin {"phases", "error", "aborted"},
           at' \notin {"phases", "merge", "end"}
    PROVE  Left'
BY DEF Left

LEMMA NextOpLeft == Ordered /\ Left /\ NextOp => Left'
<1> SUFFICES ASSUME Ordered, Left, NextOp PROVE Left'
  OBVIOUS
<1>1. /\ at = "loop" /\ at' \in {"end", "fetch"} /\ cleanup' = {} /\ dirs' = dirs \ cleanup
      /\ UNCHANGED <<opts, plan, failed>>
  BY DEF NextOp, results
<1>2. QED BY <1>1 DEF Left

LEMMA StartBuildLeft == Ordered /\ Left /\ StartBuild => Left'
<1> SUFFICES ASSUME Ordered, Left, StartBuild PROVE Left'
  OBVIOUS
<1>1. /\ at = "build" /\ at' = "phases" /\ dirs' = dirs \cup {Op.pkg} /\ Op' = Op
      /\ UNCHANGED <<opts, plan, cleanup, failed>>
  BY DEF StartBuild, Op, results
<1>2. QED BY <1>1 DEF Left

LEMMA LocalizeLeft == Ordered /\ Left /\ Localize => Left'
<1> SUFFICES ASSUME Ordered, Left, Localize PROVE Left'
  OBVIOUS
<1>1. /\ at = "localize" /\ dirs' = dirs \cup {Op.pkg} /\ Op' = Op
      /\ UNCHANGED <<opts, plan, failed>>
      /\ \/ at' = "merge" /\ cleanup' = cleanup \cup {Op.pkg}
         \/ at' = "aborted" /\ UNCHANGED cleanup
  BY DEF Localize, Op, results
<1>2. opts.mode = "merge"
  BY <1>1 DEF Ordered, InMode, Middle
<1>3. QED BY <1>1, <1>2 DEF Left

LEMMA PhaseLeft == Ordered /\ Left /\ Phase => Left'
<1> SUFFICES ASSUME Ordered, Left, Phase PROVE Left'
  OBVIOUS
<1>1. /\ at = "phases" /\ Op' = Op /\ opts.mode = "merge"
      /\ UNCHANGED <<opts, plan, pos, dirs>>
      /\ \/ PhaseEnds(Op.pkg)
         \/ /\ failed' = failed \cup {pos} /\ at' \in {Failing, "aborted"}
            /\ UNCHANGED <<ran, cleanup>>
  BY PhaseDoes DEF Op, Ordered, InMode, Middle
<1>2. CASE PhaseEnds(Op.pkg)
  <2>1. /\ failed' = failed
        /\ \/ at' = "merge" /\ cleanup' = cleanup \cup {Op.pkg}
           \/ at' = "phases" /\ cleanup' = cleanup
    BY <1>1, <1>2 DEF PhaseEnds
  <2>2. QED BY <1>1, <2>1 DEF Left
<1>3. CASE failed' = failed \cup {pos} /\ at' \in {Failing, "aborted"} /\ UNCHANGED <<ran, cleanup>>
  <2>1. at' \in {"loop", "error", "aborted"} /\ plan[pos].pkg = Op.pkg
    BY <1>3 DEF Failing, Op
  <2>2. QED BY <1>1, <1>3, <2>1 DEF Left
<1>4. QED BY <1>1, <1>2, <1>3

LEMMA DoMergeLeft == Ordered /\ Left /\ DoMerge => Left'
<1> SUFFICES ASSUME Ordered, Left, DoMerge PROVE Left'
  OBVIOUS
<1>1. /\ at = "merge" /\ at' \in {"loop", "error", "aborted"} /\ failed \subseteq failed'
      /\ UNCHANGED <<opts, plan, dirs, cleanup>> /\ opts.mode = "merge"
  BY DEF DoMerge, Failing, buildvars, Ordered, InMode, Middle
<1>2. QED BY <1>1 DEF Left

LEMMA StepLeft == Ordered /\ Left /\ [Next]_vars => Left'
<1> SUFFICES ASSUME Ordered, Left, [Next]_vars PROVE Left'
  OBVIOUS
<1>1. CASE UNCHANGED vars
  BY <1>1 DEF Left, Op, vars, buildvars, results
<1>2. CASE Resolve \/ Check \/ Wipe \/ Unmerge \/ DoUnmerge
  <2>1. /\ dirs = {} /\ cleanup = {} /\ UNCHANGED <<opts, dirs, cleanup>>
    BY <1>2 DEF Resolve, Check, Wipe, Unmerge, DoUnmerge, Ordered, InMode, DoneSoFar, Left,
                Before, buildvars
  <2>2. at' \in {"resolve", "error", "wipe", "loop", "check", "unmerging"} \cup Ends
    BY <1>2 DEF Resolve, Check, Wipe, Unmerge, DoUnmerge, Ends
  <2>3. QED BY <2>1, <2>2, EarlyLeft DEF Ends
<1>3. CASE FetchNext \/ Fetch \/ Fetched
  <2>1. /\ at = "fetch" /\ UNCHANGED <<opts, plan, pos, dirs, cleanup, failed>>
        /\ at' \in {"fetch", "aborted", "loop", "localize", "build"}
    BY <1>3, FetchDoes DEF FetchNext, Fetched, buildvars, results
  <2>2. QED BY <2>1, SameLeft
<1>4. QED
  BY <1>1, <1>2, <1>3, NextOpLeft, StartBuildLeft, LocalizeLeft, PhaseLeft, DoMergeLeft DEF Next

\* NothingLeftBuilt: a merge has its build directory, and a run that ends leaves those of
\* failed builds only (scripts/pmerge.py, main: cleanup).
THEOREM BuildsAreRemoved == Spec => []NothingLeftBuilt
<1>1. Init => Left
  BY DEF Init, Left
<1>2. Left => NothingLeftBuilt
  BY DEF Left, NothingLeftBuilt
<1>3. QED BY <1>1, <1>2, StepLeft, RunsInOrder, PTL DEF Spec
=============================================================================
