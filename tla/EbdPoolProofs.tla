--------------------------- MODULE EbdPoolProofs ---------------------------
(***************************************************************************)
(* Proofs about EbdPool, for every number of workers, processors, packages *)
(* and faults.  A processor is held, or listed as idle, or neither; each   *)
(* operation moves one of them, and the lists are injective, so that what  *)
(* is removed from a list is no longer in it.                              *)
(***************************************************************************)
EXTENDS EbdPool, FiniteSetTheorems, SequenceTheorems, TLAPS

Places == {"new", "go", "idle", "look", "ask", "wait", "request", "scan", "drop", "dropping",
            "release", "releasing", "closing", "handler", "stuck", "ended", "died"}
Items == Pkgs \cup {Sentinel, None, "active", "inactive"}

ThreadsType == [Threads -> [at : Places, item : Items, ebp : Procs \cup {None}, i : Nat]]

TypeOK ==
    /\ active \in Seq(Procs)
    /\ inactive \in Seq(Procs)
    /\ queue \in Seq(Pkgs \cup {Sentinel})
    /\ th \in ThreadsType
    /\ fed \in Nat
    /\ todo \subseteq Pkgs

\* A thread that walks a list is at a place in it.
Walks == \A t \in Threads : th[t].at \in {"scan", "handler"} => th[t].i > 0

IInv == TypeOK /\ Walks /\ OneHolder
-----------------------------------------------------------------------------
(* The lists.                                                              *)

\* RemoveAt, on a list nothing is in twice.
LEMMA RemoveAtProperties ==
    ASSUME NEW S, NEW s \in Seq(S), IsInjective(s), NEW i \in 1 .. Len(s)
    PROVE  /\ RemoveAt(s, i) \in Seq(S)
           /\ IsInjective(RemoveAt(s, i))
           /\ Range(RemoveAt(s, i)) = Range(s) \ {s[i]}
<1> DEFINE r == RemoveAt(s, i)
           n == Len(s)
<1>1. /\ r \in Seq(S)
      /\ Len(r) = n - 1
      /\ \A k \in 1 .. n - 1 : r[k] = IF k < i THEN s[k] ELSE s[k + 1]
  <2> DEFINE f == SubSeq(s, 1, i - 1)
             g == SubSeq(s, i + 1, n)
  <2>1. n \in Nat /\ i \in Nat /\ 1 <= i /\ i <= n
    OBVIOUS
  <2>2. f \in Seq(S) /\ Len(f) = i - 1 /\ \A k \in 1 .. i - 1 : f[k] = s[k]
    BY <2>1
  <2>3. g \in Seq(S) /\ Len(g) = n - i /\ \A k \in 1 .. n - i : g[k] = s[i + k]
    BY <2>1, SubSeqProperties
  <2>4. r = f \o g
    BY DEF RemoveAt
  <2> HIDE DEF f, g, r
  <2>5. /\ r \in Seq(S)
        /\ Len(r) = Len(f) + Len(g)
        /\ \A k \in 1 .. Len(f) + Len(g) :
             r[k] = IF k <= Len(f) THEN f[k] ELSE g[k - Len(f)]
    BY <2>2, <2>3, <2>4, ConcatProperties
  <2>6. Len(r) = n - 1
    BY <2>1, <2>2, <2>3, <2>5
  <2>7. ASSUME NEW k \in 1 .. n - 1 PROVE r[k] = IF k < i THEN s[k] ELSE s[k + 1]
    <3>1. k \in 1 .. Len(f) + Len(g) /\ k \in Int
      BY <2>1, <2>2, <2>3
    <3>2. CASE k < i
      <4>1. k \in 1 .. i - 1 /\ k <= Len(f)
        BY <2>1, <2>2, <3>1, <3>2
      <4>2. r[k] = f[k]
        BY <2>5, <3>1, <4>1
      <4>3. QED BY <2>2, <3>2, <4>1, <4>2
    <3>3. CASE ~(k < i)
      <4>1. k - Len(f) \in 1 .. n - i /\ ~(k <= Len(f)) /\ i + (k - Len(f)) = k + 1
        BY <2>1, <2>2, <3>1, <3>3
      <4>2. r[k] = g[k - Len(f)]
        BY <2>5, <3>1, <4>1
      <4>3. g[k - Len(f)] = s[k + 1]
        BY <2>3, <4>1
      <4>4. QED BY <3>3, <4>2, <4>3
    <3>4. QED BY <3>2, <3>3
  <2>8. QED BY <2>5, <2>6, <2>7
<1>2. DOMAIN r = 1 .. n - 1 /\ DOMAIN s = 1 .. n /\ n \in Nat
  BY <1>1
<1>3. IsInjective(r)
  <2>1. SUFFICES ASSUME NEW a \in 1 .. n - 1, NEW b \in 1 .. n - 1, r[a] = r[b]
                 PROVE  a = b
    BY <1>2 DEF IsInjective
  <2>2. \A j, k \in 1 .. n : s[j] = s[k] => j = k
    BY <1>2 DEF IsInjective
  <2>3. QED BY <1>1, <1>2, <2>1, <2>2
<1>4. Range(r) = Range(s) \ {s[i]}
  <2>1. ASSUME NEW k \in 1 .. n - 1 PROVE r[k] \in Range(s) \ {s[i]}
    <3>1. \A j \in 1 .. n : j # i => s[j] # s[i]
      BY <1>2 DEF IsInjective
    <3>2. \E j \in 1 .. n : j # i /\ r[k] = s[j]
      <4>1. CASE k < i BY <1>1, <1>2, <4>1
      <4>2. CASE ~(k < i) BY <1>1, <1>2, <4>2
      <4>3. QED BY <4>1, <4>2
    <3>3. QED BY <1>2, <3>1, <3>2 DEF Range
  <2>2. ASSUME NEW k \in 1 .. n, s[k] # s[i] PROVE s[k] \in Range(r)
    <3>1. CASE k < i
      <4>1. k \in 1 .. n - 1 /\ r[k] = s[k] BY <1>1, <1>2, <3>1
      <4>2. QED BY <1>2, <4>1 DEF Range
    <3>2. CASE k > i
      <4>1. k - 1 \in 1 .. n - 1 /\ r[k - 1] = s[k] BY <1>1, <1>2, <3>2
      <4>2. QED BY <1>2, <4>1 DEF Range
    <3>3. k # i BY <2>2
    <3>4. QED BY <1>2, <3>1, <3>2, <3>3
  <2>3. QED BY <1>2, <2>1, <2>2 DEF Range
<1>5. QED BY <1>1, <1>3, <1>4

\* RemoveFirst, on a list nothing is in twice.
LEMMA RemoveFirstProperties ==
    ASSUME NEW S, NEW s \in Seq(S), IsInjective(s), NEW e
    PROVE  /\ RemoveFirst(s, e) \in Seq(S)
           /\ IsInjective(RemoveFirst(s, e))
           /\ Range(RemoveFirst(s, e)) = Range(s) \ {e}
<1>1. DOMAIN s = 1 .. Len(s) /\ Len(s) \in Nat
  OBVIOUS
<1>2. CASE \E i \in 1 .. Len(s) : s[i] = e
  <2>1. PICK i \in 1 .. Len(s) : s[i] = e
    BY <1>2
  <2>2. {k \in 1 .. Len(s) : s[k] = e} = {i}
    BY <1>1, <2>1 DEF IsInjective
  <2>3. Min({i}) = i
    BY <2>1 DEF Min
  <2>4. RemoveFirst(s, e) = RemoveAt(s, i)
    BY <1>2, <2>2, <2>3 DEF RemoveFirst, SelectInSeq
  <2>5. QED BY <2>1, <2>4, RemoveAtProperties
<1>3. CASE ~\E i \in 1 .. Len(s) : s[i] = e
  <2>1. RemoveFirst(s, e) = s
    BY <1>3 DEF RemoveFirst
  <2>2. e \notin Range(s)
    BY <1>1, <1>3 DEF Range
  <2>3. QED BY <2>1, <2>2
<1>4. QED BY <1>2, <1>3

\* Append, of what is not in the list.
LEMMA AppendProperties2 ==
    ASSUME NEW S, NEW s \in Seq(S), IsInjective(s), NEW e \in S, e \notin Range(s)
    PROVE  /\ Append(s, e) \in Seq(S)
           /\ IsInjective(Append(s, e))
           /\ Range(Append(s, e)) = Range(s) \cup {e}
<1> DEFINE r == Append(s, e)
           n == Len(s)
<1>1. /\ r \in Seq(S)
      /\ DOMAIN r = 1 .. n + 1 /\ DOMAIN s = 1 .. n /\ n \in Nat
      /\ \A k \in 1 .. n : r[k] = s[k]
      /\ r[n + 1] = e
  OBVIOUS
<1>2. Range(r) = Range(s) \cup {e}
  <2>1. \A k \in 1 .. n + 1 : k \in 1 .. n \/ k = n + 1
    BY <1>1
  <2>2. \A k \in 1 .. n : k \in 1 .. n + 1
    BY <1>1
  <2>3. n + 1 \in 1 .. n + 1
    BY <1>1
  <2>4. QED BY <1>1, <2>1, <2>2, <2>3 DEF Range
<1>3. IsInjective(r)
  <2>1. SUFFICES ASSUME NEW a \in 1 .. n + 1, NEW b \in 1 .. n + 1, r[a] = r[b]
                 PROVE  a = b
    BY <1>1 DEF IsInjective
  <2>2. \A k \in 1 .. n : r[k] # e
    BY <1>1 DEF Range
  <2>3. \A j, k \in 1 .. n : s[j] = s[k] => j = k
    BY <1>1 DEF IsInjective
  <2>4. QED BY <1>1, <2>1, <2>2, <2>3
<1>4. QED BY <1>1, <1>2, <1>3

\* Front, of a list nothing is in twice.
LEMMA FrontProperties2 ==
    ASSUME NEW S, NEW s \in Seq(S), IsInjective(s), s # <<>>
    PROVE  /\ Last(s) \in S
           /\ Front(s) \in Seq(S)
           /\ IsInjective(Front(s))
           /\ Range(Front(s)) = Range(s) \ {Last(s)}
<1>1. Len(s) \in 1 .. Len(s) /\ Len(s) \in Nat /\ Len(s) > 0
  BY EmptySeq
<1>2. RemoveAt(s, Len(s)) = Front(s)
  <2>1. SubSeq(s, Len(s) + 1, Len(s)) = <<>>
    BY <1>1
  <2>2. SubSeq(s, 1, Len(s) - 1) \in Seq(S)
    BY <1>1
  <2>3. QED BY <2>1, <2>2 DEF RemoveAt, Front
<1>3. QED BY <1>1, <1>2, RemoveAtProperties DEF Last

\* An element of a list, at its place.
LEMMA PlaceInRange ==
    ASSUME NEW S, NEW s \in Seq(S), NEW i \in Nat, 0 < i, i <= Len(s)
    PROVE  i \in 1 .. Len(s) /\ s[i] \in S /\ s[i] \in Range(s)
<1>1. DOMAIN s = 1 .. Len(s) /\ Len(s) \in Nat /\ i \in 1 .. Len(s)
  OBVIOUS
<1>2. QED BY <1>1 DEF Range
-----------------------------------------------------------------------------
(* The processors.                                                         *)

\* Nobody is given or gives away a processor, and the lists are left alone.
LEMMA HoldersKept ==
    ASSUME OneHolder, UNCHANGED lists, \A t \in Threads : th'[t].ebp = th[t].ebp
    PROVE  OneHolder'
BY DEF OneHolder, Held, lists

\* A processor is taken from both lists.
LEMMA TakenFromBoth ==
    ASSUME TypeOK, OneHolder, NEW p,
           active' = RemoveFirst(active, p), inactive' = RemoveFirst(inactive, p),
           \A t \in Threads : th'[t].ebp = th[t].ebp
    PROVE  active' \in Seq(Procs) /\ inactive' \in Seq(Procs) /\ OneHolder'
<1>1. /\ active' \in Seq(Procs) /\ IsInjective(active') /\ Range(active') \subseteq Range(active)
      /\ inactive' \in Seq(Procs) /\ IsInjective(inactive')
      /\ Range(inactive') \subseteq Range(inactive)
  BY RemoveFirstProperties DEF TypeOK, OneHolder
<1>2. Held' = Held
  BY DEF Held
<1>3. QED BY <1>1, <1>2 DEF OneHolder

\* A processor nobody holds, and that is idle at most, is given to k.
LEMMA GivenTo ==
    ASSUME TypeOK, OneHolder, NEW k, NEW p \in Procs, p \notin Held \cup Range(active),
           active' = Append(active, p),
           inactive' \in Seq(Procs), IsInjective(inactive'),
           Range(inactive') = Range(inactive) \ {p},
           \A t \in Threads : th'[t].ebp = IF t = k THEN p ELSE th[t].ebp
    PROVE  active' \in Seq(Procs) /\ OneHolder'
<1>1. p # None
  BY PoolAssumption
<1>2. active' \in Seq(Procs) /\ IsInjective(active') /\ Range(active') = Range(active) \cup {p}
  BY AppendProperties2 DEF TypeOK, OneHolder
<1>3. Held' \subseteq Held \cup {p}
  BY DEF Held
<1>4. \A t \in Threads : th[t].ebp # p
  BY <1>1 DEF Held
<1>5. \A t, u \in Threads : t # u /\ th'[t].ebp # None => th'[t].ebp # th'[u].ebp
  BY <1>1, <1>4 DEF OneHolder
<1>6. Range(inactive') \cap (Held' \cup Range(active')) = {}
  BY <1>2, <1>3 DEF OneHolder
<1>7. QED BY <1>2, <1>5, <1>6 DEF OneHolder

\* Nobody is given a processor, and the lists lose some at most.
LEMMA HoldersShrink ==
    ASSUME OneHolder, IsInjective(active'), IsInjective(inactive'),
           Range(active') \subseteq Range(active), Range(inactive') \subseteq Range(inactive),
           \A t \in Threads : th'[t].ebp \in {th[t].ebp, None}
    PROVE  OneHolder'
<1>1. Held' \subseteq Held
  BY DEF Held
<1>2. QED BY <1>1 DEF OneHolder

\* What Grant does to the threads.
LEMMA GrantGives ==
    ASSUME TypeOK, NEW t \in Threads, NEW p \in Procs, Grant(t, p)
    PROVE  /\ th' \in ThreadsType
           /\ \E k : \A u \in Threads : th'[u].ebp = IF u = k THEN p ELSE th[u].ebp
           /\ \A u \in Threads : th'[u].i = th[u].i
           /\ \A u \in Threads : th'[u].at \in {"go", "ask", "idle", th[u].at}
<1>0. /\ th \in [Threads -> [at : Places, item : Items, ebp : Procs \cup {None}, i : Nat]]
      /\ DOMAIN th' = Threads /\ th' = [u \in Threads |-> th'[u]]
  BY DEF TypeOK, ThreadsType, Grant
<1>1. CASE t = Main /\ phase = "helpers"
  <2>1. PICK w : th' = [th EXCEPT ![w].ebp = p, ![Main].at = "go"]
    BY <1>1 DEF Grant
  <2>2. \A u \in Threads : th'[u].ebp = IF u = w THEN p ELSE th[u].ebp
    BY <1>0, <2>1
  <2>3. \A u \in Threads : th'[u].i = th[u].i /\ th'[u].at \in {"go", th[u].at}
    BY <1>0, <2>1
  <2>4. th' \in ThreadsType
    <3> DEFINE m == [th EXCEPT ![w].ebp = p]
    <3>1. m \in ThreadsType
      <4>1. CASE w \in Threads
        BY <1>0, <4>1 DEF ThreadsType
      <4>2. CASE w \notin Threads
        <5>1. m = th
          BY <1>0, <4>2
        <5>2. QED BY <1>0, <5>1 DEF ThreadsType
      <4>3. QED BY <4>1, <4>2
    <3>2. th' = [m EXCEPT ![Main].at = "go"]
      BY <2>1
    <3> HIDE DEF m
    <3>3. QED BY <3>1, <3>2 DEF ThreadsType, Places
  <2>5. \E k : \A u \in Threads : th'[u].ebp = IF u = k THEN p ELSE th[u].ebp
    BY <2>2
  <2>6. QED BY <2>3, <2>4, <2>5
<1>2. CASE ~(t = Main /\ phase = "helpers")
  <2>1. th' = [th EXCEPT ![t].ebp = p, ![t].at = IF t = Main THEN "ask" ELSE "idle"]
    BY <1>2 DEF Grant
  <2>2. \A u \in Threads : th'[u].ebp = IF u = t THEN p ELSE th[u].ebp
    BY <1>0, <2>1
  <2>3. \A u \in Threads : th'[u].i = th[u].i /\ th'[u].at \in {"ask", "idle", th[u].at}
    BY <1>0, <2>1
  <2>4. th' \in ThreadsType
    BY <1>0, <2>1 DEF ThreadsType, Places
  <2>5. \E k : \A u \in Threads : th'[u].ebp = IF u = k THEN p ELSE th[u].ebp
    BY <2>2
  <2>6. QED BY <2>3, <2>4, <2>5
<1>3. QED BY <1>1, <1>2
-----------------------------------------------------------------------------
(* What leaves the lists and the holders alone.                            *)

Quiet == UNCHANGED lists /\ \A t \in Threads : th'[t].ebp = th[t].ebp

LEMMA QuietSuffices ==
    ASSUME IInv, Quiet, Walks', fed' \in Nat, queue' \in Seq(Pkgs \cup {Sentinel}),
           todo' \subseteq Pkgs, th' \in ThreadsType
    PROVE  IInv'
<1>1. active' \in Seq(Procs) /\ inactive' \in Seq(Procs)
  BY DEF IInv, TypeOK, Quiet, lists
<1>2. OneHolder'
  BY HoldersKept DEF IInv, Quiet
<1>3. (th \in ThreadsType)'
  BY DEF ThreadsType, Places
<1>4. QED BY <1>1, <1>2, <1>3 DEF IInv, TypeOK

\* ... as when a thread goes on elsewhere, and does nothing else that matters here.
LEMMA GoingOnSuffices ==
    ASSUME IInv, UNCHANGED <<lists, queue, fed, todo>>,
           th' \in ThreadsType, Walks', \A u \in Threads : th'[u].ebp = th[u].ebp
    PROVE  IInv'
<1>1. Quiet
  BY DEF Quiet
<1>2. fed' \in Nat /\ queue' \in Seq(Pkgs \cup {Sentinel}) /\ todo' \subseteq Pkgs
  BY DEF IInv, TypeOK
<1>3. QED BY <1>1, <1>2, QuietSuffices

THEOREM InitHolds == Init => IInv
<1> SUFFICES ASSUME Init PROVE IInv
  OBVIOUS
<1>1. opts.idle \in Seq(Procs) /\ IsInjective(opts.idle)
  BY PoolAssumption DEF Init
<1>2. TypeOK
  <2>1. th \in ThreadsType
    BY DEF Init, ThreadsType, Thread, Items, Places
  <2>2. QED BY <1>1, <2>1 DEF Init, TypeOK
<1>3. Walks
  BY DEF Init, Walks, Thread
<1>4. OneHolder
  <2>1. Held = {} /\ \A t \in Threads : th[t].ebp = None
    BY DEF Init, Held, Thread
  <2>2. active = <<>> /\ Range(active) = {} /\ IsInjective(active)
    BY DEF Init, Range, IsInjective
  <2>3. QED BY <1>1, <2>1, <2>2 DEF OneHolder, Init
<1>5. QED BY <1>2, <1>3, <1>4 DEF IInv

LEMMA ThreadsAreMain == Main \in Threads /\ Workers \subseteq Threads
BY DEF Threads

LEMMA AcquireStep == ASSUME IInv, NEW t \in Threads, Acquire(t) PROVE IInv'
<1>0. th \in ThreadsType /\ Walks
  BY DEF IInv, TypeOK
<1>1. UNCHANGED <<lists, queue, fed, todo>>
  BY DEF Acquire, course
<1>2. PICK at \in {"scan", "dropping", "releasing"} : th' = [th EXCEPT ![t].at = at, ![t].i = 1]
  <2>1. Inside[th[t].at] \in {"scan", "dropping", "releasing"}
    BY DEF Acquire, Inside
  <2>2. QED BY <2>1 DEF Acquire
<1>3. th' \in ThreadsType /\ \A u \in Threads : th'[u].ebp = th[u].ebp
  BY <1>0, <1>2 DEF ThreadsType, Places
<1>4. Walks'
  BY <1>0, <1>2 DEF ThreadsType, Places, Walks
<1>5. QED BY <1>1, <1>3, <1>4, GoingOnSuffices

LEMMA ScanDeadStep == ASSUME IInv, NEW t \in Threads, ScanDead(t) PROVE IInv'
<1>0. th \in ThreadsType /\ Walks /\ TypeOK /\ OneHolder
  BY DEF IInv, TypeOK
<1>1. th[t].i \in 1 .. Len(inactive)
  BY <1>0 DEF ScanDead, Walks, TypeOK, ThreadsType
<1>2. /\ inactive' \in Seq(Procs) /\ IsInjective(inactive')
      /\ Range(inactive') \subseteq Range(inactive)
  BY <1>0, <1>1, RemoveAtProperties DEF ScanDead, TypeOK, OneHolder
<1>3. th' \in ThreadsType /\ \A u \in Threads : th'[u].ebp = th[u].ebp
  BY <1>0 DEF ScanDead, ThreadsType, Places
<1>4. Walks'
  BY <1>0 DEF ScanDead, ThreadsType, Places, Walks
<1>5. active' = active /\ queue' = queue /\ fed' = fed /\ todo' = todo
  BY DEF ScanDead, course
<1>6. Held' = Held
  BY <1>3 DEF Held
<1>7. OneHolder'
  BY <1>0, <1>2, <1>3, <1>5, <1>6 DEF OneHolder
<1>8. QED BY <1>0, <1>2, <1>3, <1>4, <1>5, <1>7 DEF IInv, TypeOK, ThreadsType

LEMMA SpawnStep == ASSUME IInv, NEW t \in Threads, Spawn(t) PROVE IInv'
<1>0. TypeOK /\ Walks /\ OneHolder
  BY DEF IInv
<1>1. PICK p \in Free : Grant(t, p)
  <2>1. (CHOOSE p \in Free : TRUE) \in Free
    BY DEF Spawn
  <2>2. QED BY <2>1 DEF Spawn
<1>2. p \in Procs /\ p \notin Held \cup Range(active) /\ p \notin Range(inactive)
  BY DEF Free, Listed
<1>3. /\ th' \in ThreadsType
      /\ \A u \in Threads : th'[u].i = th[u].i
      /\ \A u \in Threads : th'[u].at \in {"go", "ask", "idle", th[u].at}
  BY <1>0, <1>1, <1>2, GrantGives
<1>4. PICK k : \A u \in Threads : th'[u].ebp = IF u = k THEN p ELSE th[u].ebp
  BY <1>0, <1>1, <1>2, GrantGives
<1>5. active' = Append(active, p)
  BY <1>1 DEF Grant
<1>6. /\ inactive' = inactive /\ inactive' \in Seq(Procs) /\ IsInjective(inactive')
      /\ Range(inactive') = Range(inactive) \ {p}
  BY <1>0, <1>2 DEF Spawn, TypeOK, OneHolder
<1>7. active' \in Seq(Procs) /\ OneHolder'
  BY <1>0, <1>2, <1>4, <1>5, <1>6, GivenTo
<1>8. queue' = queue /\ fed' = fed /\ todo' = todo
  BY DEF Spawn, course
<1>9. Walks'
  BY <1>0, <1>3 DEF Walks
<1>10. QED BY <1>0, <1>3, <1>6, <1>7, <1>8, <1>9 DEF IInv, TypeOK, ThreadsType

LEMMA DropStep == ASSUME IInv, NEW t \in Threads, Drop(t) PROVE IInv'
<1>0. th \in ThreadsType /\ Walks /\ TypeOK /\ OneHolder
  BY DEF IInv, TypeOK
<1>1. th' \in ThreadsType /\ \A u \in Threads : th'[u].ebp = th[u].ebp
  BY <1>0 DEF Drop, At, ThreadsType, Places
<1>2. Walks'
  BY <1>0 DEF Drop, At, ThreadsType, Places, Walks
<1>3. active' \in Seq(Procs) /\ inactive' \in Seq(Procs) /\ OneHolder'
  BY <1>0, <1>1, TakenFromBoth DEF Drop
<1>4. queue' = queue /\ fed' = fed /\ todo' = todo
  BY DEF Drop, course
<1>5. QED BY <1>0, <1>1, <1>2, <1>3, <1>4 DEF IInv, TypeOK, ThreadsType

LEMMA WorkerStep == ASSUME IInv, NEW w \in Workers, Worker(w) PROVE IInv'
<1> USE ThreadsAreMain
<1>0. th \in ThreadsType /\ Walks
  BY DEF IInv, TypeOK
<1>1. CASE Acquire(w)
  BY <1>1, AcquireStep
<1>2. CASE ScanDead(w)
  BY <1>2, ScanDeadStep
<1>3. CASE ScanAlarmed(w)
  <2>1. UNCHANGED <<lists, queue, fed, todo>>
    BY <1>3 DEF ScanAlarmed, course
  <2>2. th' \in ThreadsType /\ \A u \in Threads : th'[u].ebp = th[u].ebp
    BY <1>3, <1>0 DEF ScanAlarmed, At, ThreadsType, Places
  <2>3. Walks'
    BY <1>3, <1>0 DEF ScanAlarmed, At, ThreadsType, Walks
  <2>4. QED BY <2>1, <2>2, <2>3, GoingOnSuffices DEF lists
<1>4. CASE Spawn(w)
  BY <1>4, SpawnStep
<1>5. CASE Drop(w)
  BY <1>5, DropStep
<1>6. CASE Take(w)
  <2>1. UNCHANGED <<lists, fed, todo>> /\ queue' \in Seq(Pkgs \cup {Sentinel})
    BY <1>6 DEF Take, course, IInv, TypeOK
  <2>2. Head(queue) \in Pkgs \cup {Sentinel}
    BY <1>6 DEF Take, IInv, TypeOK
  <2>3. th' \in ThreadsType /\ \A u \in Threads : th'[u].ebp = th[u].ebp
    <3>1. CASE Head(queue) = Sentinel
      <4>1. th' = [th EXCEPT ![w].at = "ended"]
        BY <1>6, <3>1 DEF Take
      <4>2. QED BY <1>0, <4>1 DEF ThreadsType, Places
    <3>2. CASE Head(queue) # Sentinel
      <4>1. PICK item \in Items : th' = [th EXCEPT ![w].at = "look", ![w].item = item]
        BY <1>6, <2>2, <3>2 DEF Take, Items
      <4>2. QED BY <1>0, <4>1 DEF ThreadsType, Places
    <3>3. QED BY <3>1, <3>2
  <2>4. Walks'
    BY <1>6, <1>0, <2>2 DEF Take, ThreadsType, Places, Walks
  <2>5. fed' \in Nat /\ todo' \subseteq Pkgs /\ Quiet
    BY <2>1, <2>3 DEF Quiet, IInv, TypeOK
  <2>6. QED BY <2>1, <2>3, <2>4, <2>5, QuietSuffices
<1>7. CASE Look(w)
  <2>1. UNCHANGED <<lists, queue, fed, todo>>
    BY <1>7 DEF Look, course
  <2>2. th' \in ThreadsType /\ \A u \in Threads : th'[u].ebp = th[u].ebp
    BY <1>7, <1>0 DEF Look, At, ThreadsType, Places
  <2>3. Walks'
    BY <1>7, <1>0 DEF Look, At, ThreadsType, Walks
  <2>4. QED BY <2>1, <2>2, <2>3, GoingOnSuffices DEF lists
<1>8. CASE Ask(w)
  <2>1. UNCHANGED <<lists, queue, fed, todo>>
    BY <1>8 DEF Ask, course
  <2>2. th' \in ThreadsType /\ \A u \in Threads : th'[u].ebp = th[u].ebp
    BY <1>8, <1>0 DEF Ask, At, ThreadsType, Places
  <2>3. Walks'
    BY <1>8, <1>0 DEF Ask, At, ThreadsType, Walks
  <2>4. QED BY <2>1, <2>2, <2>3, GoingOnSuffices DEF lists
<1>9. CASE AnswerOdd(w)
  <2>1. UNCHANGED <<lists, queue, fed, todo>>
    BY <1>9 DEF AnswerOdd, course
  <2>2. th' \in ThreadsType /\ \A u \in Threads : th'[u].ebp = th[u].ebp
    BY <1>9, <1>0 DEF AnswerOdd, At, ThreadsType, Places
  <2>3. Walks'
    BY <1>9, <1>0 DEF AnswerOdd, At, ThreadsType, Walks
  <2>4. QED BY <2>1, <2>2, <2>3, GoingOnSuffices DEF lists
<1>10. CASE AnswerKeys(w)
  <2>1. UNCHANGED <<lists, queue, fed, todo>>
    BY <1>10 DEF AnswerKeys, course
  <2>2. th' \in ThreadsType /\ \A u \in Threads : th'[u].ebp = th[u].ebp
    BY <1>10, <1>0 DEF AnswerKeys, At, ThreadsType, Places
  <2>3. Walks'
    BY <1>10, <1>0 DEF AnswerKeys, At, ThreadsType, Walks
  <2>4. QED BY <2>1, <2>2, <2>3, GoingOnSuffices DEF lists
<1>11. CASE AnswerError(w)
  <2>1. UNCHANGED <<lists, queue, fed, todo>>
    BY <1>11 DEF AnswerError, course
  <2>2. th' \in ThreadsType /\ \A u \in Threads : th'[u].ebp = th[u].ebp
    BY <1>11, <1>0 DEF AnswerError, At, ThreadsType, Places
  <2>3. Walks'
    BY <1>11, <1>0 DEF AnswerError, At, ThreadsType, Walks
  <2>4. QED BY <2>1, <2>2, <2>3, GoingOnSuffices DEF lists
<1>12. CASE AnswerRest(w)
  <2>1. UNCHANGED <<lists, queue, fed, todo>>
    BY <1>12 DEF AnswerRest, course
  <2>2. PICK at \in {"idle", "drop", "request"} : th' = [th EXCEPT ![w].at = at]
    BY <1>12 DEF AnswerRest, At
  <2>3. th' \in ThreadsType /\ Walks' /\ \A u \in Threads : th'[u].ebp = th[u].ebp
    BY <1>0, <2>2 DEF ThreadsType, Places, Walks
  <2>4. QED BY <2>1, <2>3, GoingOnSuffices DEF lists
<1>13. QED BY <1>1, <1>2, <1>3, <1>4, <1>5, <1>6, <1>7, <1>8, <1>9, <1>10, <1>11, <1>12
           DEF Worker
-----------------------------------------------------------------------------
(* The main thread.                                                        *)

LEMMA ScanAliveStep == ASSUME IInv, ScanAlive PROVE IInv'
<1>0. TypeOK /\ Walks /\ OneHolder /\ Main \in Threads
  BY ThreadsAreMain DEF IInv
<1> DEFINE p == inactive[th[Main].i]
<1>1. th[Main].i \in 1 .. Len(inactive) /\ p \in Procs /\ p \in Range(inactive)
  <2>1. th[Main].i \in Nat /\ 0 < th[Main].i /\ th[Main].i <= Len(inactive)
    BY <1>0 DEF ScanAlive, Walks, TypeOK, ThreadsType
  <2>2. QED BY <1>0, <2>1, PlaceInRange DEF TypeOK
<1>2. /\ inactive' \in Seq(Procs) /\ IsInjective(inactive')
      /\ Range(inactive') = Range(inactive) \ {p}
  BY <1>0, <1>1, RemoveAtProperties DEF ScanAlive, TypeOK, OneHolder
<1>3. p \notin Held \cup Range(active)
  BY <1>0, <1>1 DEF OneHolder
<1>4. Grant(Main, p)
  BY DEF ScanAlive
<1> HIDE DEF p
<1>5. /\ th' \in ThreadsType
      /\ \A u \in Threads : th'[u].i = th[u].i
      /\ \A u \in Threads : th'[u].at \in {"go", "ask", "idle", th[u].at}
  BY <1>0, <1>1, <1>4, GrantGives
<1>6. PICK k : \A u \in Threads : th'[u].ebp = IF u = k THEN p ELSE th[u].ebp
  BY <1>0, <1>1, <1>4, GrantGives
<1>7. active' \in Seq(Procs) /\ OneHolder'
  <2>1. active' = Append(active, p)
    BY <1>4 DEF Grant
  <2>2. QED BY <1>0, <1>1, <1>2, <1>3, <1>6, <2>1, GivenTo
<1>8. queue' = queue /\ fed' = fed /\ todo' = todo
  BY DEF ScanAlive, course
<1>9. Walks'
  BY <1>0, <1>5 DEF Walks
<1>10. QED BY <1>0, <1>2, <1>5, <1>7, <1>8, <1>9 DEF IInv, TypeOK, ThreadsType

LEMMA ScanMuteStep == ASSUME IInv, ScanMute PROVE IInv'
<1>0. th \in ThreadsType /\ TypeOK /\ Walks /\ OneHolder /\ Main \in Threads
  BY ThreadsAreMain DEF IInv, TypeOK
<1>1. active' = active /\ queue' = queue /\ fed' = fed /\ todo' = todo
  BY DEF ScanMute, course
<1>2. th[Main].at = "scan" /\ th[Main].i \in Nat /\ th[Main].i > 0
      /\ th[Main].i \in 1 .. Len(inactive)
  BY <1>0 DEF ScanMute, Walks, TypeOK, ThreadsType
<1>3. \/ /\ inactive' = RemoveAt(inactive, th[Main].i)
         /\ th' = [th EXCEPT ![Main].i = @ + 1]
      \/ inactive' = inactive /\ th' = [th EXCEPT ![Main].at = "stuck"]
  BY DEF ScanMute, At
<1>4. /\ inactive' \in Seq(Procs) /\ IsInjective(inactive')
      /\ Range(inactive') \subseteq Range(inactive)
  BY <1>0, <1>2, <1>3, RemoveAtProperties DEF TypeOK, OneHolder
<1>5. th' \in ThreadsType /\ \A u \in Threads : th'[u].ebp = th[u].ebp
  BY <1>0, <1>2, <1>3 DEF ThreadsType, Places
<1>6. Walks'
  BY <1>0, <1>2, <1>3 DEF ThreadsType, Places, Walks
<1>7. OneHolder'
  BY <1>0, <1>1, <1>4, <1>5, HoldersShrink DEF OneHolder
<1>8. QED BY <1>0, <1>1, <1>4, <1>5, <1>6, <1>7 DEF IInv, TypeOK, ThreadsType

\* What is released was active, and so not idle; only Main held it.
LEMMA ReleaseStep == ASSUME IInv, Release PROVE IInv'
<1>0. th \in ThreadsType /\ Walks /\ TypeOK /\ OneHolder /\ Main \in Threads
  BY ThreadsAreMain DEF IInv, TypeOK
<1> DEFINE p == th[Main].ebp
<1>1. p \in Procs \cup {None} /\ None \notin Procs
  BY <1>0, PoolAssumption DEF ThreadsType
<1>2. /\ active' \in Seq(Procs) /\ IsInjective(active') /\ Range(active') = Range(active) \ {p}
  BY <1>0, RemoveFirstProperties DEF Release, TypeOK, OneHolder
<1>3. /\ th' \in ThreadsType
      /\ th'[Main].ebp = None
      /\ \A u \in Threads \ {Main} : th'[u].ebp = th[u].ebp
  BY <1>0 DEF Release, ThreadsType, Places
<1>4. Held' = Held \ {p}
  BY <1>0, <1>3 DEF Held, OneHolder
<1>5. /\ inactive' \in Seq(Procs) /\ IsInjective(inactive')
      /\ Range(inactive') \subseteq Range(inactive) \cup {p}
  <2>1. CASE p \in Range(active)
    <3>1. p \in Procs
      BY <1>0, <2>1 DEF TypeOK, Range
    <3>2. p \notin Range(inactive)
      BY <1>0, <2>1 DEF OneHolder
    <3>3. inactive' = Append(inactive, p)
      BY <2>1 DEF Release
    <3>4. QED BY <1>0, <3>1, <3>2, <3>3, AppendProperties2 DEF TypeOK, OneHolder
  <2>2. CASE p \notin Range(active)
    BY <1>0, <2>2 DEF Release, TypeOK, OneHolder
  <2>3. QED BY <2>1, <2>2
<1>6. OneHolder'
  <2>1. \A t, u \in Threads : t # u /\ th'[t].ebp # None => th'[t].ebp # th'[u].ebp
    BY <1>0, <1>3 DEF OneHolder
  <2>2. Range(inactive') \cap (Held' \cup Range(active')) = {}
    BY <1>0, <1>2, <1>4, <1>5 DEF OneHolder
  <2>3. QED BY <1>2, <1>5, <2>1, <2>2 DEF OneHolder
<1>7. Walks'
  BY <1>0 DEF Release, ThreadsType, Places, Walks
<1>8. queue' = queue /\ fed' = fed /\ todo' = todo
  BY DEF Release
<1>9. QED BY <1>0, <1>2, <1>3, <1>5, <1>6, <1>7, <1>8 DEF IInv, TypeOK, ThreadsType

LEMMA MakeHelperStep == ASSUME IInv, MakeHelper PROVE IInv'
<1>0. th \in ThreadsType /\ Walks
  BY DEF IInv, TypeOK
<1>1. UNCHANGED <<lists, queue, fed, todo>>
  BY DEF MakeHelper
<1>2. CASE \E w \in Workers : th[w].ebp = None
  <2>1. th' = [th EXCEPT ![Main].at = "request"]
    BY <1>2 DEF MakeHelper, At
  <2>2. th' \in ThreadsType /\ Walks' /\ \A u \in Threads : th'[u].ebp = th[u].ebp
    BY <1>0, <2>1 DEF ThreadsType, Places, Walks
  <2>3. QED BY <1>1, <2>2, GoingOnSuffices
<1>3. CASE ~\E w \in Workers : th[w].ebp = None
  <2>1. th' = [t \in Threads |-> IF t = Main THEN th[t] ELSE [th[t] EXCEPT !.at = "idle"]]
    BY <1>3 DEF MakeHelper
  <2>2. th' \in ThreadsType /\ \A u \in Threads : th'[u].ebp = th[u].ebp
    BY <1>0, <2>1 DEF ThreadsType, Places
  <2>3. Walks'
    BY <1>0, <2>1 DEF ThreadsType, Walks
  <2>4. QED BY <1>1, <2>2, <2>3, GoingOnSuffices
<1>4. QED BY <1>2, <1>3

LEMMA SentinelsAreItems == Sentinels \in Seq(Pkgs \cup {Sentinel})
<1>1. Cardinality(Workers) \in Nat
  BY PoolAssumption, FS_CardinalityType
<1>2. QED BY <1>1 DEF Sentinels

LEMMA FeedStep == ASSUME IInv, Feed PROVE IInv'
<1>0. th \in ThreadsType /\ Walks /\ TypeOK
  BY DEF IInv, TypeOK
<1>1. UNCHANGED <<lists, th, todo>>
  BY DEF Feed
<1>2. fed \in Nat /\ queue \in Seq(Pkgs \cup {Sentinel})
  BY <1>0 DEF TypeOK
<1>3. fed' \in Nat /\ queue' \in Seq(Pkgs \cup {Sentinel})
  <2>1. CASE fed < Len(PkgList)
    <3>1. fed + 1 \in DOMAIN PkgList
      BY <1>2, <2>1, PoolAssumption
    <3>2. PkgList[fed + 1] \in Pkgs \cup {Sentinel}
      BY <3>1 DEF Pkgs
    <3>3. queue' = Append(queue, PkgList[fed + 1]) /\ fed' = fed + 1
      BY <2>1 DEF Feed
    <3>4. QED BY <1>2, <3>2, <3>3, AppendProperties
  <2>2. CASE ~(fed < Len(PkgList))
    <3>1. queue' = queue \o Sentinels /\ fed' = fed
      BY <2>2 DEF Feed
    <3>2. QED BY <1>2, <3>1, SentinelsAreItems, ConcatProperties
  <2>3. QED BY <2>1, <2>2
<1>4. Quiet /\ Walks'
  BY <1>0, <1>1 DEF Quiet, Walks
<1>5. th' \in ThreadsType /\ todo' \subseteq Pkgs
  BY <1>0, <1>1 DEF TypeOK
<1>6. QED BY <1>3, <1>4, <1>5, QuietSuffices

\* A processor goes from a worker to the main thread.
LEMMA DropHelperStep == ASSUME IInv, DropHelper PROVE IInv'
<1>0. th \in ThreadsType /\ Walks /\ TypeOK /\ OneHolder /\ Main \in Threads
  BY ThreadsAreMain DEF IInv, TypeOK
<1>1. UNCHANGED <<lists, queue, fed>> /\ todo' \subseteq Pkgs
  BY <1>0 DEF DropHelper, TypeOK
<1>2. CASE \E w \in Workers : th[w].ebp # None
  <2>1. PICK w \in Workers, at \in {"release", "drop"} :
          th' = [th EXCEPT ![w].ebp = None, ![Main].ebp = th[w].ebp, ![Main].at = at]
    <3>1. (CHOOSE w \in Workers : th[w].ebp # None) \in Workers
      BY <1>2
    <3>2. QED BY <1>2, <3>1 DEF DropHelper
  <2>2. w \in Threads /\ w # Main
    BY PoolAssumption DEF Threads
  <2>3. /\ th' \in ThreadsType
        /\ th'[w].ebp = None
        /\ th'[Main].ebp = th[w].ebp
        /\ \A u \in Threads \ {w, Main} : th'[u].ebp = th[u].ebp
    <3> DEFINE p == th[w].ebp
               m == [[th EXCEPT ![w].ebp = None] EXCEPT ![Main].ebp = p]
    <3>1. p \in Procs \cup {None}
      BY <1>0, <2>2 DEF ThreadsType
    <3>2. /\ m \in ThreadsType /\ m[w].ebp = None /\ m[Main].ebp = p
          /\ \A u \in Threads \ {w, Main} : m[u].ebp = th[u].ebp
      <4> HIDE DEF p
      <4>1. QED BY <1>0, <2>2, <3>1 DEF ThreadsType
    <3>3. th' = [m EXCEPT ![Main].at = at]
      BY <2>1
    <3> HIDE DEF m
    <3>4. QED BY <1>0, <2>2, <3>2, <3>3 DEF ThreadsType, Places
  <2>4. Walks'
    BY <1>0, <2>1, <2>2 DEF ThreadsType, Places, Walks
  <2>5. Held' \subseteq Held
    BY <2>3, <2>2 DEF Held
  <2>6. \A t, u \in Threads : t # u /\ th'[t].ebp # None => th'[t].ebp # th'[u].ebp
    BY <1>0, <2>2, <2>3 DEF OneHolder
  <2>7. OneHolder'
    BY <1>0, <1>1, <2>5, <2>6 DEF OneHolder, lists
  <2>8. QED BY <1>0, <1>1, <2>3, <2>4, <2>7 DEF IInv, TypeOK, ThreadsType, lists
<1>3. CASE ~\E w \in Workers : th[w].ebp # None
  <2>1. th' = th
    BY <1>3 DEF DropHelper
  <2>2. Quiet /\ Walks' /\ th' \in ThreadsType
    BY <1>0, <1>1, <2>1 DEF Walks, Quiet
  <2>3. QED BY <1>0, <1>1, <2>2, QuietSuffices DEF TypeOK
<1>4. QED BY <1>2, <1>3

LEMMA InspectStep == ASSUME IInv, Inspect PROVE IInv'
<1>0. th \in ThreadsType /\ Walks /\ TypeOK
  BY DEF IInv, TypeOK
<1>1. /\ UNCHANGED <<lists, queue, fed>>
      /\ todo' \subseteq Pkgs
  BY <1>0 DEF Inspect, TypeOK
<1>2. Walks' /\ th' \in ThreadsType /\ \A t \in Threads : th'[t].ebp = th[t].ebp
  <2>1. CASE th' = th
    BY <1>0, <2>1 DEF Walks
  <2>2. CASE \E p \in todo : th' = [th EXCEPT ![Main].item = p, ![Main].at = "request"]
    <3>1. PICK p \in Items : th' = [th EXCEPT ![Main].item = p, ![Main].at = "request"]
      BY <1>0, <2>2 DEF TypeOK, Items
    <3>2. QED BY <1>0, <3>1 DEF ThreadsType, Places, Walks
  <2>3. QED BY <2>1, <2>2 DEF Inspect
<1>3. QED BY <1>0, <1>1, <1>2, QuietSuffices DEF Quiet, TypeOK

LEMMA BorrowStep == ASSUME IInv, Borrow PROVE IInv'
<1>0. th \in ThreadsType /\ Walks
  BY DEF IInv, TypeOK
<1>1. UNCHANGED <<lists, queue, fed, todo>>
  BY DEF Borrow
<1>2. PICK at \in {"wait", "release", "drop"} : th' = [th EXCEPT ![Main].at = at]
  BY DEF Borrow, At
<1>3. th' \in ThreadsType /\ Walks' /\ \A t \in Threads : th'[t].ebp = th[t].ebp
  BY <1>0, <1>2 DEF ThreadsType, Places, Walks
<1>4. QED BY <1>1, <1>3, GoingOnSuffices

\* Steps that leave the threads alone, too.
LEMMA ThreadsRest ==
    ASSUME IInv, UNCHANGED <<lists, th, queue, fed, todo>>
    PROVE  IInv'
<1>1. th' \in ThreadsType /\ Walks' /\ \A t \in Threads : th'[t].ebp = th[t].ebp
  BY DEF IInv, TypeOK, Walks
<1>2. QED BY <1>1, GoingOnSuffices

LEMMA ShutdownStep == ASSUME IInv, Shutdown PROVE IInv'
<1>0. th \in ThreadsType /\ Walks
  BY DEF IInv, TypeOK
<1>1. UNCHANGED <<lists, queue, fed, todo>> /\ th' = [th EXCEPT ![Main].at = "closing"]
  BY DEF Shutdown, At, course
<1>2. th' \in ThreadsType /\ Walks' /\ \A t \in Threads : th'[t].ebp = th[t].ebp
  BY <1>0, <1>1 DEF ThreadsType, Places, Walks
<1>3. QED BY <1>1, <1>2, GoingOnSuffices

\* The one that is shut down leaves its list.
LEMMA ExitTakes ==
    ASSUME IInv, Exit, Listed # {}
    PROVE  /\ active' \in Seq(Procs) /\ inactive' \in Seq(Procs)
           /\ IsInjective(active') /\ IsInjective(inactive')
           /\ Range(active') = Range(active) \ {Closing}
           /\ Range(inactive') = Range(inactive) \ {Closing}
<1>0. /\ active \in Seq(Procs) /\ inactive \in Seq(Procs)
      /\ IsInjective(active) /\ IsInjective(inactive)
      /\ Range(active) \cap Range(inactive) = {}
  BY DEF IInv, TypeOK, OneHolder
<1>1. CASE active # <<>>
  <2>1. active' = Front(active) /\ inactive' = inactive /\ Closing = Last(active)
    BY <1>1 DEF Exit, Closing
  <2>2. Last(active) \in Range(active)
    BY <1>0, <1>1, EmptySeq DEF Last, Range
  <2>3. QED BY <1>0, <1>1, <2>1, <2>2, FrontProperties2
<1>2. CASE active = <<>>
  <2>1. Range(active) = {}
    BY <1>2 DEF Range
  <2>2. inactive # <<>>
    BY <2>1 DEF Listed, Range
  <2>3. active' = active /\ inactive' = Front(inactive) /\ Closing = Last(inactive)
    BY <1>2 DEF Exit, Closing
  <2>4. QED BY <1>0, <2>1, <2>2, <2>3, FrontProperties2
<1>3. QED BY <1>1, <1>2

LEMMA ExitStep == ASSUME IInv, Exit PROVE IInv'
<1>0. th \in ThreadsType /\ Walks /\ TypeOK /\ OneHolder
  BY DEF IInv, TypeOK
<1>1. UNCHANGED <<queue, fed, todo>>
  BY DEF Exit
<1>2. th' = th \/ th' = [th EXCEPT ![Main].at = "go"]
  BY DEF Exit, At
<1>3. th' \in ThreadsType /\ Walks' /\ \A t \in Threads : th'[t].ebp = th[t].ebp
  BY <1>0, <1>2 DEF ThreadsType, Places, Walks
<1>4. CASE Listed # {}
  <2>1. OneHolder'
    BY <1>0, <1>3, <1>4, ExitTakes, HoldersShrink
  <2>2. QED BY <1>0, <1>1, <1>3, <1>4, <2>1, ExitTakes DEF IInv, TypeOK, ThreadsType
<1>5. CASE Listed = {}
  <2>1. UNCHANGED lists
    BY <1>5 DEF Exit
  <2>2. QED BY <1>1, <1>3, <2>1, GoingOnSuffices
<1>6. QED BY <1>4, <1>5

-----------------------------------------------------------------------------
(* SIGINT.                                                                 *)

LEMMA InterruptStep == ASSUME IInv, Interrupt PROVE IInv'
<1>0. th \in ThreadsType /\ Walks
  BY DEF IInv, TypeOK
<1>1. UNCHANGED <<lists, queue, fed, todo>>
  BY DEF Interrupt, course
<1>2. PICK at \in {"stuck", "handler"} :
        th' = [th EXCEPT ![Main].at = at, ![Main].item = "active", ![Main].i = 1]
  BY DEF Interrupt
<1>3. th' \in ThreadsType /\ \A t \in Threads : th'[t].ebp = th[t].ebp
  <2>1. PICK item \in Items :
          th' = [th EXCEPT ![Main].at = at, ![Main].item = item, ![Main].i = 1]
    BY <1>2 DEF Items
  <2>2. at \in Places
    BY DEF Places
  <2>3. QED BY <1>0, <2>1, <2>2 DEF ThreadsType
<1>4. Walks'
  BY <1>0, <1>2 DEF ThreadsType, Walks
<1>5. QED BY <1>1, <1>3, <1>4, GoingOnSuffices

LEMMA ChuckStep == ASSUME IInv, Chuck PROVE IInv'
<1>0. th \in ThreadsType /\ Walks /\ TypeOK /\ OneHolder
  BY DEF IInv, TypeOK
<1>1. th' = [th EXCEPT ![Main].i = @ + 1]
  BY DEF Chuck
<1>2. th' \in ThreadsType /\ Walks' /\ \A t \in Threads : th'[t].ebp = th[t].ebp
  <2>1. PICK i \in Nat : i > 0 /\ th' = [th EXCEPT ![Main].i = i]
    <3>1. th[Main].i \in Nat
      BY <1>0, ThreadsAreMain DEF ThreadsType
    <3>2. th[Main].i + 1 \in Nat /\ th[Main].i + 1 > 0
      BY <3>1
    <3>3. QED BY <1>1, <3>2
  <2>2. QED BY <1>0, <2>1 DEF ThreadsType, Walks
<1>3. active' \in Seq(Procs) /\ inactive' \in Seq(Procs) /\ OneHolder'
  BY <1>0, <1>2, TakenFromBoth DEF Chuck
<1>4. UNCHANGED <<queue, fed, todo>>
  BY DEF Chuck, course
<1>5. QED BY <1>0, <1>2, <1>3, <1>4 DEF IInv, TypeOK, ThreadsType

LEMMA ChuckedStep == ASSUME IInv, Chucked PROVE IInv'
<1>0. th \in ThreadsType /\ Walks /\ TypeOK /\ OneHolder
  BY DEF IInv, TypeOK
<1>1. UNCHANGED <<lists, fed, todo>>
  BY DEF Chucked
<1>2. queue' \in Seq(Pkgs \cup {Sentinel})
  <2>1. queue \in Seq(Pkgs \cup {Sentinel})
    BY <1>0 DEF TypeOK
  <2>2. queue \o Sentinels \in Seq(Pkgs \cup {Sentinel})
    BY <2>1, SentinelsAreItems, ConcatProperties
  <2>3. queue' \in {queue, queue \o Sentinels}
    BY DEF Chucked
  <2>4. QED BY <2>1, <2>2, <2>3
<1>3. th' \in ThreadsType /\ Walks' /\ \A t \in Threads : th'[t].ebp \in {th[t].ebp, None}
  <2>1. None \in Items
    BY DEF Items
  <2>2. CASE th[Main].item = "active"
    <3>1. PICK item \in Items : th' = [th EXCEPT ![Main].item = item, ![Main].i = 1]
      BY <2>2 DEF Chucked, Items
    <3>2. th' \in ThreadsType /\ \A t \in Threads : th'[t].ebp = th[t].ebp
      BY <1>0, <3>1 DEF ThreadsType
    <3>3. Walks'
      BY <1>0, <3>1 DEF ThreadsType, Walks
    <3>4. QED BY <3>2, <3>3
  <2>3. CASE th[Main].item # "active"
    <3>1. th' = [th EXCEPT ![Main].at = "go", ![Main].item = None, ![Main].ebp = None]
      BY <2>3 DEF Chucked
    <3>2. th' \in ThreadsType
      <4>1. PICK at \in Places, item \in Items, ebp \in Procs \cup {None} :
              th' = [th EXCEPT ![Main].at = at, ![Main].item = item, ![Main].ebp = ebp]
        BY <2>1, <3>1 DEF Places
      <4>2. QED BY <1>0, <4>1 DEF ThreadsType
    <3>3. \A t \in Threads : th'[t].ebp \in {th[t].ebp, None}
      BY <1>0, <3>1 DEF ThreadsType
    <3>4. Walks'
      BY <1>0, <3>1 DEF ThreadsType, Walks
    <3>5. QED BY <3>2, <3>3, <3>4
  <2>4. QED BY <2>2, <2>3
<1>4. OneHolder'
  BY <1>0, <1>1, <1>3, HoldersShrink DEF OneHolder, lists
<1>5. QED BY <1>0, <1>1, <1>2, <1>3, <1>4 DEF IInv, TypeOK, ThreadsType, lists

LEMMA MainStep == ASSUME IInv, MainThread PROVE IInv'
<1>1. CASE Acquire(Main) BY <1>1, ThreadsAreMain, AcquireStep
<1>2. CASE ScanDead(Main) BY <1>2, ThreadsAreMain, ScanDeadStep
<1>3. CASE ScanAlive BY <1>3, ScanAliveStep
<1>4. CASE Spawn(Main) BY <1>4, ThreadsAreMain, SpawnStep
<1>5. CASE Drop(Main) BY <1>5, ThreadsAreMain, DropStep
<1>6. CASE Release BY <1>6, ReleaseStep
<1>7. CASE MakeHelper BY <1>7, MakeHelperStep
<1>8. CASE Feed BY <1>8, FeedStep
<1>9. CASE Join BY <1>9, ThreadsRest DEF Join
<1>10. CASE DropHelper BY <1>10, DropHelperStep
<1>11. CASE Inspect BY <1>11, InspectStep
<1>12. CASE Borrow BY <1>12, BorrowStep
<1>13. CASE CleanCache BY <1>13, ThreadsRest DEF CleanCache
<1>14. CASE Exit BY <1>14, ExitStep
<1>15. CASE Chuck BY <1>15, ChuckStep
<1>16. CASE Chucked BY <1>16, ChuckedStep
<1>17. CASE ScanMute BY <1>17, ScanMuteStep
<1>18. CASE Shutdown BY <1>18, ShutdownStep
<1>19. QED BY <1>1, <1>2, <1>3, <1>4, <1>5, <1>6, <1>7, <1>8, <1>9, <1>10, <1>11, <1>12,
              <1>13, <1>14, <1>15, <1>16, <1>17, <1>18 DEF MainThread

\* Every step of the workers, of the main thread, of whoever interrupts or kills.
THEOREM StepHolds == IInv /\ [Next]_vars => IInv'
<1> SUFFICES ASSUME IInv, [Next]_vars PROVE IInv'
  OBVIOUS
<1>1. CASE \E w \in Workers : Worker(w) BY <1>1, WorkerStep
<1>2. CASE MainThread BY <1>2, MainStep
<1>3. CASE Interrupt BY <1>3, InterruptStep
<1>4. CASE Killed BY <1>4, ThreadsRest DEF Killed, course
<1>5. CASE UNCHANGED vars BY <1>5, ThreadsRest DEF vars, course
<1>6. QED BY <1>1, <1>2, <1>3, <1>4, <1>5 DEF Next

\* The type invariant, and that who walks a list is at a place in it (the removals of
\* request_ebuild_processor and of the interrupt's handler move what they walk).
THEOREM TypeCorrect == Spec => [](TypeOK /\ Walks)
<1>1. IInv => TypeOK /\ Walks
  BY DEF IInv
<1>2. QED BY InitHolds, StepHolds, <1>1, PTL DEF Spec

\* Two threads never have one processor, and what is idle or active is so once: for
\* every number of threads, processors, packages, interrupts and killed daemons.
THEOREM ProcessorsApart == Spec => []OneHolder
<1>1. IInv => OneHolder
  BY DEF IInv
<1>2. QED BY InitHolds, StepHolds, <1>1, PTL DEF Spec
-----------------------------------------------------------------------------
(* What a regeneration leaves behind.  While the main thread looks at the  *)
(* packages no worker runs, so each package it has looked at is settled or *)
(* the one it has in hand; and a daemon is known to the pool as long as it *)
(* runs, so the last to leave shuts every one of them down.  A wrong entry *)
(* is there only beside a package that put a daemon out of step, of which  *)
(* the main thread cannot settle the one.                                  *)

\* What is in the cache can be sourced, what is masked cannot.
Books ==
    /\ opts \in Worlds
    /\ cache \in [Pkgs -> Entries \cup {"wrong"}]
    /\ \A p \in Pkgs : cache[p] = "own" => opts.outcome[p] = "ok"
    /\ \A p \in masked : opts.outcome[p] \in {"dies", "bad"}

\* The workers are over when the main thread looks at the packages, and when it has
\* come to its end without an exception, or without a fault.
Ending == phase \in {"release", "second", "exit", "ended"}
Staged ==
    /\ faults \in Nat
    /\ phase \in {"release", "second", "ended"} \/ Returned \/ (Ending /\ faults = 0) => Over
    /\ phase = "helpers" => \A w \in Workers : th[w].at = "new"
    /\ phase = "exit" => th[Main].at \in {"go", "closing", "handler", "stuck"}
    /\ phase = "ended" => th[Main].at = "go"
    /\ th[Main].at = "closing" => phase = "exit" /\ Over
    /\ th[Main].at \in {"request", "scan"} => phase \in {"helpers", "second"}
    /\ th[Main].at \in {"ask", "wait"} => phase = "second"
    /\ th[Main].at \in {"drop", "dropping", "release", "releasing"}
         => phase \in {"release", "second"}
    /\ th[Main].at = "handler" => faults > 0

KnownAlive ==
    /\ alive \subseteq Listed
    /\ phase = "ended" => alive = {}

PipesType == pipe \in [Procs -> Pipes]
AllClear == \A e \in Procs : pipe[e] = "clear"

\* While nothing was killed and no answer was left behind, a worker has a processor
\* whose daemon runs, unless it waits for another.
Served ==
    faults = 0 /\ AllClear =>
      \A w \in Workers :
        /\ th[w].at # "died"
        /\ th[w].at \notin {"request", "scan"} /\ th[w].ebp # None
             => th[w].ebp \in alive \/ Ending
        /\ th[w].at \notin {"new", "ended"} => th[w].ebp # None

Done(p) == IF opts.outcome[p] = "ok" THEN cache[p] = "own" ELSE p \in masked
SettledFor(p) == cache[p] = "wrong" \/ Done(p)
InHand(p) == th[Main].at \in {"request", "scan", "ask", "wait"} /\ th[Main].item = p

Settling ==
    /\ phase = "second" /\ ~aborted /\ th[Main].at \notin {"handler", "stuck"} =>
         \A p \in Pkgs \ todo : SettledFor(p) \/ InHand(p)
    /\ Returned => \A p \in Pkgs : Done(p) /\ (p \in masked => cache[p] = "none")

\* The packages that were put into the queue, and what a worker is about to ask for.
Fed == {PkgList[i] : i \in 1 .. fed}
Asked(w) == th[w].at \in {"look", "ask", "wait"}

\* A package is in the queue once, or in the hands of one worker.
OnceEach ==
    /\ fed <= Len(PkgList)
    /\ \A j \in 1 .. Len(queue) : queue[j] # Sentinel => queue[j] \in Fed
    /\ \A j, k \in 1 .. Len(queue) : queue[j] = queue[k] /\ queue[j] # Sentinel => j = k
    /\ \A w \in Workers : Asked(w) =>
         /\ th[w].item \in Fed
         /\ \A j \in 1 .. Len(queue) : queue[j] # th[w].item
         /\ \A v \in Workers \ {w} : Asked(v) => th[v].item # th[w].item

\* The packages no worker has an answer for yet.
Fresh ==
    {p \in Pkgs : \/ p \notin Fed
                  \/ \E j \in 1 .. Len(queue) : queue[j] = p
                  \/ \E w \in Workers : Asked(w) /\ th[w].item = p}

\* A package that put a daemon out of step, and was given no other's entry.
Culprit(p) == opts.outcome[p] = "odd" /\ cache[p] # "wrong"

Early == phase = "helpers" \/ ~Over
OutOfStep(e) == pipe[e] \in {"rest", "none"}

Blamed ==
    /\ \A p \in Fresh : cache[p] # "wrong"
    /\ (\E p \in Pkgs : cache[p] = "wrong") => \E q \in Pkgs : Culprit(q)
    /\ Early /\ (\E e \in Procs : OutOfStep(e)) => \E q \in Pkgs \ Fresh : Culprit(q)

SInv == /\ Books /\ Staged /\ KnownAlive /\ PipesType /\ Served /\ Settling
        /\ OnceEach /\ Blamed

\* Of a worker's step: it is not over, the others and the main thread stay where they
\* are, and so does all that is the main thread's.
LEMMA WorkerMoves ==
    ASSUME IInv, NEW w \in Workers, Worker(w)
    PROVE  /\ UNCHANGED <<opts, masked, phase, todo, aborted, faults>>
           /\ ~Over
           /\ \A u \in Threads \ {w} : th'[u] = th[u]
           /\ Main \in Threads \ {w}
<1>0. th \in ThreadsType /\ w \in Threads /\ Main \in Threads \ {w}
  BY PoolAssumption DEF IInv, TypeOK, Threads
<1>1. CASE Acquire(w)
  BY <1>0, <1>1 DEF Acquire, Inside, Over, books, course, ThreadsType
<1>2. CASE ScanDead(w)
  BY <1>0, <1>2 DEF ScanDead, Over, books, course, ThreadsType
<1>3. CASE ScanAlarmed(w)
  BY <1>0, <1>3 DEF ScanAlarmed, At, Over, course, ThreadsType
<1>4. CASE Spawn(w)
  <2>1. PICK p : th' = [th EXCEPT ![w].ebp = p, ![w].at = "idle"]
    BY <1>0, <1>4 DEF Spawn, Grant
  <2>2. QED BY <1>0, <1>4, <2>1 DEF Spawn, Over, books, course, ThreadsType
<1>5. CASE Drop(w)
  BY <1>0, <1>5 DEF Drop, At, Over, books, course, ThreadsType
<1>6. CASE Take(w)
  BY <1>0, <1>6 DEF Take, Over, books, course, ThreadsType
<1>7. CASE Look(w)
  BY <1>0, <1>7 DEF Look, At, Over, course, ThreadsType
<1>8. CASE Ask(w)
  BY <1>0, <1>8 DEF Ask, At, Over, books, course, ThreadsType
<1>9. CASE AnswerOdd(w)
  BY <1>0, <1>9 DEF AnswerOdd, At, Over, course, ThreadsType
<1>10. CASE AnswerKeys(w)
  BY <1>0, <1>10 DEF AnswerKeys, At, Over, course, ThreadsType
<1>11. CASE AnswerError(w)
  BY <1>0, <1>11 DEF AnswerError, At, Over, books, course, ThreadsType
<1>12. CASE AnswerRest(w)
  <2>1. PICK at : th' = [th EXCEPT ![w].at = at]
    BY <1>12 DEF AnswerRest, At
  <2>2. QED BY <1>0, <1>12, <2>1 DEF AnswerRest, Over, course, ThreadsType
<1>13. QED BY <1>1, <1>2, <1>3, <1>4, <1>5, <1>6, <1>7, <1>8, <1>9, <1>10, <1>11, <1>12
           DEF Worker

\* So a worker has no say in how far the main thread has come.
LEMMA WorkerStaged ==
    ASSUME IInv, SInv, NEW w \in Workers, Worker(w)
    PROVE  Staged' /\ Settling'
<1>1. UNCHANGED <<phase, aborted, faults>> /\ ~Over /\ th'[Main] = th[Main]
  BY WorkerMoves
<1>2. /\ phase \notin {"release", "second", "ended", "helpers"}
      /\ ~Returned /\ ~(Ending /\ faults = 0) /\ th[Main].at # "closing"
  BY <1>1 DEF SInv, Staged, Over
<1>3. QED BY <1>1, <1>2 DEF SInv, Staged, Settling, Returned, Ending

\* An entry is written for what was sourced well, and only what was not is masked.
LEMMA BooksStep == ASSUME SInv, [Next]_vars PROVE Books'
<1>1. Books
  BY DEF SInv
<1>2. CASE UNCHANGED <<opts, cache, masked>>
  BY <1>1, <1>2 DEF Books
<1>3. ASSUME NEW w \in Workers, Worker(w) PROVE Books'
  <2>1. CASE Look(w)
    BY <1>1, <2>1 DEF Look, Books, Entries, course
  <2>2. CASE AnswerKeys(w)
    BY <1>1, <2>2 DEF AnswerKeys, Books, Entries, course
  <2>3. CASE AnswerRest(w)
    <3>1. /\ UNCHANGED <<opts, masked>>
          /\ cache' = cache \/ cache' = [cache EXCEPT ![th[w].item] = "wrong"]
      BY <2>3 DEF AnswerRest
    <3>2. QED BY <1>1, <3>1 DEF Books
  <2>4. CASE ~Look(w) /\ ~AnswerKeys(w) /\ ~AnswerRest(w)
    BY <1>1, <1>3, <2>4
       DEF Worker, Acquire, ScanDead, ScanAlarmed, Spawn, Drop, Take, Ask, AnswerOdd,
           AnswerError, books, course, Books
  <2>5. QED BY <2>1, <2>2, <2>3, <2>4
<1>4. CASE Inspect
  <2>1. \/ cache' = cache
        \/ \E p \in todo : cache' = [cache EXCEPT ![p] = "none"]
    BY <1>4 DEF Inspect
  <2>2. UNCHANGED <<opts, masked>>
    BY <1>4 DEF Inspect
  <2>3. QED BY <1>1, <2>1, <2>2 DEF Books, Entries
<1>5. CASE Borrow
  BY <1>1, <1>5 DEF Borrow, Books, Entries
<1>6. CASE CleanCache
  BY <1>1, <1>6 DEF CleanCache, Books, Entries
<1>7. CASE MainThread /\ ~Inspect /\ ~Borrow /\ ~CleanCache
  BY <1>1, <1>7
     DEF MainThread, Acquire, ScanDead, ScanAlive, ScanMute, Spawn, Drop, Release, MakeHelper,
         Feed, Join, DropHelper, Shutdown, Exit, Chuck, Chucked, books, course, Books
<1>8. CASE Interrupt \/ Killed \/ UNCHANGED vars
  BY <1>1, <1>8 DEF Interrupt, Killed, vars, books, course, Books
<1>9. QED BY <1>3, <1>4, <1>5, <1>6, <1>7, <1>8 DEF Next

LEMMA PipeSet ==
    ASSUME PipesType, NEW e, NEW v \in Pipes, pipe' = [pipe EXCEPT ![e] = v],
           v = "clear" => pipe[e] = "clear"
    PROVE  PipesType' /\ (AllClear' => AllClear)
BY DEF PipesType, AllClear

LEMMA PipeLeft ==
    ASSUME PipesType, NEW e, LeavesIn(e), pipe[e] \in {"clear", "yep"}
    PROVE  PipesType' /\ (AllClear' => AllClear)
<1>1. PICK v \in Pipes : pipe' = [pipe EXCEPT ![e] = v] /\ (pipe[e] = "yep" => v = "rest")
  BY DEF LeavesIn, Pipes
<1>2. QED BY <1>1, PipeSet

\* Where an idle processor is looked at.
LEMMA ScannedIsIdle ==
    ASSUME IInv, NEW t \in Threads, th[t].at = "scan", th[t].i <= Len(inactive)
    PROVE  th[t].i \in 1 .. Len(inactive) /\ inactive[th[t].i] \in Procs
<1>1. th[t].i \in Nat /\ 0 < th[t].i
  BY DEF IInv, Walks, TypeOK, ThreadsType
<1>2. QED BY <1>1, PlaceInRange DEF IInv, TypeOK

\* A pipe in which something was left is never clear again.
LEMMA PipesStep ==
    ASSUME IInv, SInv, [Next]_vars PROVE PipesType' /\ (AllClear' => AllClear)
<1>0. PipesType
  BY DEF SInv
<1>1. CASE UNCHANGED pipe
  BY <1>0, <1>1 DEF PipesType, AllClear
<1>2. ASSUME NEW w \in Workers, Worker(w) PROVE PipesType' /\ (AllClear' => AllClear)
  <2>1. CASE ScanAlarmed(w)
    <3> DEFINE e == inactive[th[w].i]
               v == IF pipe[e] = "clear" THEN "yep" ELSE pipe[e]
    <3>1. e \in Procs
      BY <2>1, ScannedIsIdle, ThreadsAreMain DEF ScanAlarmed
    <3>2. pipe' = [pipe EXCEPT ![e] = v]
      BY <2>1 DEF ScanAlarmed
    <3>3. v \in Pipes /\ v # "clear"
      BY <1>0, <3>1 DEF PipesType, Pipes
    <3> HIDE DEF e, v
    <3>4. QED BY <1>0, <3>2, <3>3, PipeSet
  <2>2. CASE AnswerOdd(w)
    <3>1. UNCHANGED pipe \/ (pipe[th[w].ebp] = "clear" /\ LeavesIn(th[w].ebp))
      BY <2>2 DEF AnswerOdd
    <3>2. QED BY <1>0, <1>1, <3>1, PipeLeft
  <2>3. CASE AnswerRest(w)
    <3>1. PICK left \in {"rest", "none"} : pipe' = [pipe EXCEPT ![th[w].ebp] = left]
      BY <2>3 DEF AnswerRest
    <3>2. left \in Pipes /\ left # "clear"
      BY DEF Pipes
    <3>3. QED BY <1>0, <3>1, <3>2, PipeSet
  <2>4. CASE ~(ScanAlarmed(w) \/ AnswerOdd(w) \/ AnswerRest(w))
    BY <1>1, <1>2, <2>4
       DEF Worker, Acquire, ScanDead, Spawn, Drop, Take, Look, Ask, AnswerKeys, AnswerError
  <2>5. QED BY <2>1, <2>2, <2>3, <2>4
<1>3. CASE DropHelper
  <2>1. CASE \E e : Forget(e) /\ ~UNCHANGED pipe
    <3>1. PICK e : Forget(e) /\ ~UNCHANGED pipe
      BY <2>1
    <3>2. PICK left \in {"rest", "yep"} : pipe' = [pipe EXCEPT ![e] = left]
      BY <3>1 DEF Forget
    <3>3. left \in Pipes /\ left # "clear"
      BY DEF Pipes
    <3>4. QED BY <1>0, <3>2, <3>3, PipeSet
  <2>2. CASE UNCHANGED pipe
    BY <1>1, <2>2
  <2>3. QED BY <1>3, <2>1, <2>2 DEF DropHelper
<1>4. CASE Borrow
  <2>1. UNCHANGED pipe \/ (pipe[th[Main].ebp] \in {"clear", "yep"} /\ LeavesIn(th[Main].ebp))
    BY <1>4 DEF Borrow
  <2>2. QED BY <1>0, <1>1, <2>1, PipeLeft
<1>5. CASE MainThread /\ ~DropHelper /\ ~Borrow
  BY <1>1, <1>5
     DEF MainThread, Acquire, ScanDead, ScanAlive, ScanMute, Spawn, Drop, Release, MakeHelper,
         Feed, Join, Inspect, CleanCache, Shutdown, Exit, Chuck, Chucked
<1>6. CASE Interrupt \/ Killed \/ UNCHANGED vars
  BY <1>1, <1>6 DEF Interrupt, Killed, vars
<1>7. QED BY <1>2, <1>3, <1>4, <1>5, <1>6 DEF Next

\* A processor that a worker or the main thread is given, and to whom else the step
\* means nothing.
LEMMA GrantMoves ==
    ASSUME TypeOK, NEW t \in Threads, NEW p \in Procs, Grant(t, p)
    PROVE  /\ active' = Append(active, p)
           /\ \A u \in Threads \ {t} : th'[u].at = th[u].at
           /\ th'[t].at = IF t # Main THEN "idle" ELSE IF phase = "helpers" THEN "go" ELSE "ask"
           /\ \A u \in Threads : th'[u].item = th[u].item
           /\ \A u \in Threads : th'[u].ebp \in {th[u].ebp, p}
           /\ t # Main => th'[t].ebp = p
<1>0. th \in ThreadsType
  BY DEF TypeOK
<1>1. CASE t = Main /\ phase = "helpers"
  <2>1. PICK w : th' = [th EXCEPT ![w].ebp = p, ![Main].at = "go"]
    BY <1>1 DEF Grant
  <2>2. \A u \in Threads : th'[u].ebp \in {th[u].ebp, p} /\ th'[u].item = th[u].item
    BY <1>0, <2>1 DEF ThreadsType
  <2>3. th'[Main].at = "go" /\ \A u \in Threads \ {Main} : th'[u].at = th[u].at
    BY <1>0, <1>1, <2>1 DEF ThreadsType
  <2>4. QED BY <1>1, <2>2, <2>3 DEF Grant
<1>2. CASE ~(t = Main /\ phase = "helpers")
  <2>1. th' = [th EXCEPT ![t].ebp = p, ![t].at = IF t = Main THEN "ask" ELSE "idle"]
    BY <1>2 DEF Grant
  <2>2. QED BY <1>0, <1>2, <2>1 DEF Grant, ThreadsType
<1>3. QED BY <1>1, <1>2

\* What happens to the lists, and to the daemons.
LEMMA AliveStep ==
    ASSUME IInv, SInv, [Next]_vars
    PROVE  alive' \subseteq Listed'
<1>0. /\ active \in Seq(Procs) /\ IsInjective(active)
      /\ inactive \in Seq(Procs) /\ IsInjective(inactive)
      /\ alive \subseteq Range(active) \cup Range(inactive)
      /\ th \in ThreadsType
  BY DEF IInv, TypeOK, OneHolder, SInv, KnownAlive, Listed
<1>1. CASE UNCHANGED lists /\ alive' \subseteq alive
  BY <1>0, <1>1 DEF lists, Listed
<1>2. ASSUME NEW t \in Threads, ScanDead(t) PROVE alive' \subseteq Listed'
  <2>1. th[t].i \in 1 .. Len(inactive)
    BY <1>2 DEF ScanDead, IInv, Walks, TypeOK, ThreadsType
  <2>2. Range(inactive') = Range(inactive) \ {inactive[th[t].i]}
    BY <1>0, <1>2, <2>1, RemoveAtProperties DEF ScanDead
  <2>3. inactive[th[t].i] \notin alive /\ alive' = alive /\ active' = active
    BY <1>2 DEF ScanDead
  <2>4. QED BY <1>0, <2>2, <2>3 DEF Listed
<1>3. ASSUME NEW t \in Threads, Spawn(t) PROVE alive' \subseteq Listed'
  <2>1. PICK p \in Procs : p \notin Listed /\ Grant(t, p) /\ alive' = alive \cup {p}
    <3>1. (CHOOSE p \in Free : TRUE) \in Free
      BY <1>3 DEF Spawn
    <3>2. QED BY <1>3, <3>1 DEF Spawn, Free
  <2>2. active' = Append(active, p) /\ inactive' = inactive
    BY <1>3, <2>1 DEF Spawn, Grant
  <2>3. Range(active') = Range(active) \cup {p}
    BY <1>0, <2>1, <2>2, AppendProperties2 DEF Listed
  <2>4. QED BY <1>0, <2>1, <2>2, <2>3 DEF Listed
<1>4. ASSUME NEW p, active' = RemoveFirst(active, p), inactive' = RemoveFirst(inactive, p),
             alive' = alive \ {p}
      PROVE  alive' \subseteq Listed'
  <2>1. Range(active') = Range(active) \ {p} /\ Range(inactive') = Range(inactive) \ {p}
    BY <1>0, <1>4, RemoveFirstProperties
  <2>2. QED BY <1>0, <1>4, <2>1 DEF Listed
<1>5. CASE ScanAlive
  <2> DEFINE p == inactive[th[Main].i]
  <2>1. th[Main].i \in 1 .. Len(inactive) /\ p \in Procs /\ p \notin Range(active)
    <3>1. th[Main].i \in Nat /\ 0 < th[Main].i /\ th[Main].i <= Len(inactive)
      BY <1>5, ThreadsAreMain DEF ScanAlive, IInv, Walks, TypeOK, ThreadsType
    <3>2. th[Main].i \in 1 .. Len(inactive) /\ p \in Procs /\ p \in Range(inactive)
      BY <1>0, <3>1, PlaceInRange
    <3>3. QED BY <3>2 DEF IInv, OneHolder
  <2>2. Range(inactive') = Range(inactive) \ {p}
    BY <1>0, <1>5, <2>1, RemoveAtProperties DEF ScanAlive
  <2>3. Range(active') = Range(active) \cup {p} /\ alive' = alive
    BY <1>0, <1>5, <2>1, AppendProperties2 DEF ScanAlive, Grant
  <2>4. QED BY <1>0, <2>2, <2>3 DEF Listed
<1>6. CASE Release
  <2> DEFINE p == th[Main].ebp
  <2>1. Range(active') = Range(active) \ {p} /\ alive' = alive
    BY <1>0, <1>6, RemoveFirstProperties DEF Release
  <2>2. CASE p \in Range(active)
    <3>0. p \in Procs
      BY <1>0, <2>2 DEF Range
    <3>1. p \in Procs /\ p \notin Range(inactive) /\ inactive' = Append(inactive, p)
      BY <1>6, <2>2, <3>0 DEF Release, IInv, OneHolder
    <3>2. Range(inactive') = Range(inactive) \cup {p}
      BY <1>0, <3>1, AppendProperties2
    <3>3. QED BY <1>0, <2>1, <3>2 DEF Listed
  <2>3. CASE p \notin Range(active)
    BY <1>0, <1>6, <2>1, <2>3 DEF Release, Listed
  <2>4. QED BY <2>2, <2>3
<1>7. CASE Exit
  <2>1. CASE Listed # {}
    <3>1. Listed' = Listed \ {Closing}
      BY <1>7, <2>1, ExitTakes DEF Listed
    <3>2. alive' = alive \ {Closing}
      BY <1>7, <2>1 DEF Exit
    <3>3. QED BY <1>0, <3>1, <3>2 DEF Listed
  <2>2. CASE Listed = {}
    BY <1>1, <1>7, <2>2 DEF Exit
  <2>3. QED BY <2>1, <2>2
<1>8. CASE ScanMute
  <2>1. CASE UNCHANGED inactive
    BY <1>1, <1>8, <2>1 DEF ScanMute, lists
  <2>2. CASE ~UNCHANGED inactive
    <3>1. /\ inactive' = RemoveAt(inactive, th[Main].i) /\ active' = active
          /\ alive' = alive \ {inactive[th[Main].i]}
      BY <1>8, <2>2 DEF ScanMute
    <3>2. th[Main].i \in 1 .. Len(inactive)
      BY <1>8, ThreadsAreMain, ScannedIsIdle DEF ScanMute
    <3>3. Range(inactive') = Range(inactive) \ {inactive[th[Main].i]}
      BY <1>0, <3>1, <3>2, RemoveAtProperties
    <3>4. QED BY <1>0, <3>1, <3>3 DEF Listed
  <2>3. QED BY <2>1, <2>2
<1>9. ASSUME NEW w \in Workers, Worker(w) PROVE alive' \subseteq Listed'
  <2>1. CASE ScanDead(w) \/ Spawn(w)
    BY <1>2, <1>3, <2>1 DEF Threads
  <2>2. CASE Drop(w)
    BY <1>4, <2>2 DEF Drop
  <2>3. CASE ~(ScanDead(w) \/ Spawn(w) \/ Drop(w))
    BY <1>1, <1>9, <2>3
       DEF Worker, Acquire, ScanAlarmed, Take, Look, Ask, AnswerOdd, AnswerKeys, AnswerError,
           AnswerRest
  <2>4. QED BY <2>1, <2>2, <2>3
<1>10. CASE MainThread
  <2>1. CASE ScanDead(Main) \/ Spawn(Main)
    BY <1>2, <1>3, <2>1 DEF Threads
  <2>2. CASE Drop(Main) \/ Chuck
    BY <1>4, <2>2 DEF Drop, Chuck
  <2>3. CASE Acquire(Main) \/ MakeHelper \/ Feed \/ Join \/ DropHelper \/ Inspect \/ Borrow
             \/ CleanCache \/ Shutdown \/ Chucked
    <3>1. UNCHANGED lists
      BY <2>3 DEF Acquire, MakeHelper, Feed, Join, DropHelper, Inspect, Borrow, CleanCache,
                  Shutdown, Chucked
    <3>2. CASE DropHelper
      BY <1>1, <3>1, <3>2 DEF DropHelper, Forget
    <3>3. CASE ~DropHelper
      BY <1>1, <2>3, <3>1, <3>3
         DEF Acquire, MakeHelper, Feed, Join, Inspect, Borrow, CleanCache, Shutdown, Chucked
    <3>4. QED BY <3>2, <3>3
  <2>4. QED BY <1>5, <1>6, <1>7, <1>8, <1>10, <2>1, <2>2, <2>3 DEF MainThread
<1>11. CASE Interrupt \/ Killed \/ UNCHANGED vars
  BY <1>1, <1>11 DEF Interrupt, Killed, vars, lists
<1>12. QED BY <1>9, <1>10, <1>11 DEF Next

LEMMA WorkerServed == ASSUME IInv, SInv, NEW w \in Workers, Worker(w) PROVE Served'
<1> SUFFICES ASSUME faults' = 0, AllClear' PROVE Served'
  BY DEF Served
<1>0. th \in ThreadsType /\ w \in Threads /\ w # Main /\ Workers \subseteq Threads /\ None \notin Procs
  BY PoolAssumption DEF IInv, TypeOK, Threads
<1>1. /\ UNCHANGED phase /\ faults = 0 /\ AllClear /\ ~Over
      /\ \A u \in Workers \ {w} : th'[u] = th[u]
  BY <1>0, WorkerMoves, PipesStep DEF Next
<1>2. phase \notin {"release", "second", "exit", "ended"} /\ ~Ending
  BY <1>1 DEF SInv, Staged, Ending
<1>3. \A u \in Workers :
        /\ th[u].at # "died"
        /\ th[u].at \notin {"request", "scan"} /\ th[u].ebp # None => th[u].ebp \in alive
        /\ th[u].at \notin {"new", "ended"} => th[u].ebp # None
  BY <1>1, <1>2 DEF SInv, Served
<1>4. SUFFICES /\ \A u \in Workers \ {w} : th[u].ebp \in alive => th[u].ebp \in alive'
               /\ th'[w].at # "died"
               /\ th'[w].at \notin {"request", "scan"} /\ th'[w].ebp # None
                    => th'[w].ebp \in alive'
               /\ th'[w].at \notin {"new", "ended"} => th'[w].ebp # None
  BY <1>1, <1>3 DEF Served
<1>5. CASE Acquire(w)
  BY <1>0, <1>3, <1>5 DEF Acquire, Inside, ThreadsType
<1>6. CASE ScanDead(w)
  BY <1>0, <1>3, <1>6 DEF ScanDead, ThreadsType
<1>7. CASE ScanAlarmed(w)
  <2> DEFINE e == inactive[th[w].i]
  <2>1. e \in Procs
    BY <1>0, <1>7, ScannedIsIdle DEF ScanAlarmed
  <2>2. pipe[e] = "clear" /\ pipe'[e] = "clear"
    BY <1>1, <2>1 DEF AllClear
  <2>3. pipe' = [pipe EXCEPT ![e] = IF @ = "clear" THEN "yep" ELSE @]
    BY <1>7 DEF ScanAlarmed
  <2>4. pipe'[e] = "yep"
    BY <2>1, <2>2, <2>3 DEF SInv, PipesType
  <2>5. QED BY <2>2, <2>4
<1>8. CASE Spawn(w)
  <2>1. PICK p \in Procs : Grant(w, p) /\ alive' = alive \cup {p}
    <3>1. (CHOOSE p \in Free : TRUE) \in Free
      BY <1>8 DEF Spawn
    <3>2. QED BY <1>8, <3>1 DEF Spawn, Free
  <2>2. th'[w].at = "idle" /\ th'[w].ebp = p
    BY <1>0, <2>1, GrantMoves DEF IInv
  <2>3. QED BY <1>0, <2>1, <2>2
<1>9. CASE Drop(w)
  <2>1. \A u \in Workers \ {w} : th[u].ebp # None => th[u].ebp # th[w].ebp
    BY <1>0 DEF IInv, OneHolder
  <2>2. th'[w].at = "request" /\ th'[w].ebp = th[w].ebp /\ th[w].ebp # None
    BY <1>0, <1>3, <1>9 DEF Drop, At, ThreadsType
  <2>3. None \notin alive
    BY <1>0 DEF SInv, KnownAlive, Listed, IInv, TypeOK, Range
  <2>4. QED BY <1>9, <2>1, <2>2, <2>3 DEF Drop
<1>10. CASE Take(w)
  BY <1>0, <1>3, <1>10 DEF Take, ThreadsType
<1>11. CASE Look(w)
  BY <1>0, <1>3, <1>11 DEF Look, At, ThreadsType
<1>12. CASE Ask(w)
  BY <1>0, <1>3, <1>12 DEF Ask, At, ThreadsType
<1>13. CASE AnswerOdd(w)
  BY <1>0, <1>3, <1>13 DEF AnswerOdd, At, ThreadsType
<1>14. CASE AnswerKeys(w)
  BY <1>0, <1>3, <1>14 DEF AnswerKeys, At, ThreadsType
<1>15. CASE AnswerError(w)
  BY <1>0, <1>3, <1>15 DEF AnswerError, At, ThreadsType
<1>16. CASE AnswerRest(w)
  <2>1. th[w].ebp \in Procs
    BY <1>0, <1>3, <1>16 DEF AnswerRest, ThreadsType
  <2>2. QED BY <1>1, <1>16, <2>1 DEF AnswerRest, AllClear
<1>17. QED BY <1>5, <1>6, <1>7, <1>8, <1>9, <1>10, <1>11, <1>12, <1>13, <1>14, <1>15, <1>16
           DEF Worker

LEMMA MainGrants ==
    ASSUME IInv, ScanAlive \/ Spawn(Main)
    PROVE  \E p \in Procs : Grant(Main, p) /\ p \in alive' /\ alive \subseteq alive'
<1>1. CASE ScanAlive
  <2>1. th[Main].i \in Nat /\ 0 < th[Main].i /\ th[Main].i <= Len(inactive)
    BY <1>1, ThreadsAreMain DEF ScanAlive, IInv, Walks, TypeOK, ThreadsType
  <2>2. inactive[th[Main].i] \in Procs
    BY <2>1, PlaceInRange DEF IInv, TypeOK
  <2>3. QED BY <1>1, <2>2 DEF ScanAlive
<1>2. CASE Spawn(Main)
  <2>1. (CHOOSE p \in Free : TRUE) \in Free
    BY <1>2 DEF Spawn
  <2>2. QED BY <1>2, <2>1 DEF Spawn, Free
<1>3. QED BY <1>1, <1>2

\* What the main thread does to the workers, unless it makes or drops a helper.
LEMMA MainMoves ==
    ASSUME IInv, MainThread, ~MakeHelper, ~DropHelper
    PROVE  /\ \A w \in Workers : th'[w].at = th[w].at
           /\ ~ScanAlive /\ ~Spawn(Main) => \A w \in Workers : th'[w] = th[w]
<1>0. th \in ThreadsType /\ \A w \in Workers : w \in Threads \ {Main}
  BY PoolAssumption DEF IInv, TypeOK, Threads
<1>1. CASE ScanAlive \/ Spawn(Main)
  <2>1. PICK p \in Procs : Grant(Main, p)
    BY <1>1, MainGrants
  <2>2. QED BY <1>0, <1>1, <2>1, ThreadsAreMain, GrantMoves DEF IInv
<1>2. CASE Acquire(Main) \/ ScanDead(Main) \/ ScanMute \/ Drop(Main) \/ Release
  BY <1>0, <1>2 DEF Acquire, ScanDead, ScanMute, Drop, Release, At, ThreadsType
<1>3. CASE Feed \/ Join \/ Inspect \/ Borrow
  BY <1>0, <1>3 DEF Feed, Join, Inspect, Borrow, At, ThreadsType
<1>4. CASE CleanCache \/ Shutdown \/ Exit \/ Chuck \/ Chucked
  BY <1>0, <1>4 DEF CleanCache, Shutdown, Exit, Chuck, Chucked, At, ThreadsType
<1>5. QED BY <1>1, <1>2, <1>3, <1>4 DEF MainThread

LEMMA HelperDropped ==
    ASSUME IInv, DropHelper
    PROVE  /\ \A w \in Workers : th'[w].at = th[w].at /\ th'[w].item = th[w].item
           /\ th'[Main].at \in {"go", "release", "drop"}
           /\ phase' = "second" => th'[Main].at = "go"
<1>0. th \in ThreadsType /\ Main \in Threads /\ \A w \in Workers : w \in Threads \ {Main}
  BY PoolAssumption DEF IInv, TypeOK, Threads
<1>1. CASE th' = th /\ th[Main].at = "go"
  BY <1>1
<1>2. CASE /\ UNCHANGED phase
           /\ \E v \in Workers, at \in {"release", "drop"} :
                th' = [th EXCEPT ![v].ebp = None, ![Main].ebp = th[v].ebp, ![Main].at = at]
  <2>1. PICK v \in Workers, at \in {"release", "drop"} :
          th' = [th EXCEPT ![v].ebp = None, ![Main].ebp = th[v].ebp, ![Main].at = at]
    BY <1>2
  <2>2. /\ \A w \in Workers : th'[w].at = th[w].at /\ th'[w].item = th[w].item
        /\ th'[Main].at = at
    BY <1>0, <2>1 DEF ThreadsType
  <2>3. phase' = "release"
    BY <1>2 DEF DropHelper
  <2>4. QED BY <2>2, <2>3
<1>3. (\E w \in Workers : th[w].ebp # None) =>
         (CHOOSE w \in Workers : th[w].ebp # None) \in Workers
  OBVIOUS
<1>4. QED BY <1>1, <1>2, <1>3 DEF DropHelper

\* The main thread goes from phase to phase, and waits for the workers first.
LEMMA MainStaged == ASSUME IInv, SInv, MainThread PROVE Staged'
<1>0. th \in ThreadsType /\ Main \in Threads /\ \A w \in Workers : w \in Threads \ {Main}
  BY PoolAssumption DEF IInv, TypeOK, Threads
<1>1. Staged
  BY DEF SInv
<1>2. ~MakeHelper /\ ~DropHelper =>
        (Over => Over') /\ ((\A w \in Workers : th[w].at = "new") =>
                              (\A w \in Workers : th'[w].at = "new"))
  BY MainMoves DEF Over
<1>3. CASE ScanAlive \/ Spawn(Main)
  <2>1. /\ th'[Main].at = IF phase = "helpers" THEN "go" ELSE "ask"
        /\ UNCHANGED <<phase, aborted, faults>> /\ th[Main].at = "scan"
    <3>1. PICK p \in Procs : Grant(Main, p)
      BY <1>3, MainGrants
    <3>2. th'[Main].at = IF phase = "helpers" THEN "go" ELSE "ask"
      BY <1>0, <3>1, GrantMoves DEF IInv
    <3>3. QED BY <1>3, <3>2 DEF ScanAlive, Spawn, course
  <2>2. ~MakeHelper /\ ~DropHelper
    BY <2>1 DEF MakeHelper, DropHelper
  <2>3. QED BY <1>1, <1>2, <2>1, <2>2 DEF Staged, Returned, Ending
<1>4. CASE MakeHelper
  <2>1. phase = "helpers" /\ phase' \in {"helpers", "feed"} /\ th'[Main].at \in {"go", "request"}
        /\ (phase' = "feed" => th'[Main].at = "go") /\ UNCHANGED <<aborted, faults>>
        /\ (phase' = "helpers" => \A w \in Workers : th'[w].at = th[w].at)
    BY <1>0, <1>4 DEF MakeHelper, At, ThreadsType
  <2>2. QED BY <1>1, <2>1 DEF Staged, Returned, Ending
<1>5. CASE DropHelper
  <2>1. /\ phase = "release" /\ phase' \in {"release", "second"}
        /\ th'[Main].at \in {"go", "release", "drop"} /\ UNCHANGED <<aborted, faults>>
    BY <1>5, HelperDropped DEF DropHelper
  <2>2. \A w \in Workers : th'[w].at = th[w].at
    BY <1>5, HelperDropped
  <2>3. Over'
    BY <1>1, <2>1, <2>2 DEF Staged, Over
  <2>4. QED BY <1>1, <2>1, <2>3 DEF Staged
<1> DEFINE moves == ~MakeHelper /\ ~DropHelper
<1>6. CASE Acquire(Main) \/ ScanDead(Main) \/ Drop(Main)
  <2>1. moves /\ UNCHANGED <<phase, aborted, faults>>
    BY <1>6 DEF Acquire, Inside, ScanDead, Drop, MakeHelper, DropHelper, course
  <2>2. <<th[Main].at, th'[Main].at>> \in
          {<<"request", "scan">>, <<"drop", "dropping">>, <<"release", "releasing">>,
           <<"scan", "scan">>, <<"dropping", "release">>}
    BY <1>0, <1>6 DEF Acquire, Inside, ScanDead, Drop, At, ThreadsType
  <2>3. QED BY <1>1, <1>2, <2>1, <2>2 DEF Staged, Returned, Ending
<1>7. CASE Release
  <2>1. moves /\ th[Main].at = "releasing" /\ th'[Main].at = "go"
        /\ phase' = (IF aborted THEN "exit" ELSE phase) /\ UNCHANGED <<aborted, faults>>
    BY <1>0, <1>7 DEF Release, ThreadsType, MakeHelper, DropHelper
  <2>2. QED BY <1>1, <1>2, <2>1 DEF Staged, Returned, Ending
<1>8. CASE Feed
  <2>1. phase = "feed" /\ phase' \in {"feed", "join"} /\ UNCHANGED <<th, aborted, faults>>
    BY <1>8 DEF Feed
  <2>2. QED BY <1>1, <2>1, <1>8 DEF Staged, Returned, Ending, Feed
<1>9. CASE Join
  <2>1. /\ Over' /\ th[Main].at = "go" /\ UNCHANGED <<th, aborted, faults>>
        /\ phase' \in {"exit", "release"}
    BY <1>9 DEF Join, Over
  <2>2. QED BY <1>1, <2>1 DEF Staged
<1>10. CASE Inspect
  <2>1. moves /\ phase = "second" /\ th'[Main].at \in {"go", "request"}
        /\ UNCHANGED <<phase, aborted, faults>>
    BY <1>0, <1>10 DEF Inspect, MakeHelper, DropHelper, ThreadsType
  <2>2. QED BY <1>1, <1>2, <2>1 DEF Staged
<1>11. CASE Borrow
  <2>1. moves /\ th[Main].at \in {"ask", "wait"} /\ th'[Main].at \in {"wait", "release", "drop"}
        /\ UNCHANGED <<phase, faults>>
    BY <1>0, <1>11 DEF Borrow, At, MakeHelper, DropHelper, ThreadsType
  <2>2. QED BY <1>1, <1>2, <2>1 DEF Staged
<1>12. CASE CleanCache
  <2>1. moves /\ UNCHANGED <<th, aborted, faults>> /\ Over
        /\ phase' = "exit" /\ th[Main].at = "go"
    BY <1>1, <1>12 DEF CleanCache, MakeHelper, DropHelper, Staged
  <2>2. QED BY <1>1, <1>2, <2>1 DEF Staged
<1>13. CASE Shutdown
  <2>1. moves /\ UNCHANGED <<phase, aborted, faults>> /\ Over /\ phase = "exit"
        /\ th'[Main].at = "closing"
    BY <1>0, <1>13 DEF Shutdown, At, MakeHelper, DropHelper, course, ThreadsType
  <2>2. QED BY <1>1, <1>2, <2>1 DEF Staged
<1>14. CASE Exit
  <2>1. moves /\ UNCHANGED <<aborted, faults>> /\ Over /\ phase = "exit"
        /\ \/ UNCHANGED <<th, phase>> /\ th[Main].at = "closing"
           \/ phase' = "ended" /\ th'[Main].at = "go"
    BY <1>0, <1>1, <1>14 DEF Exit, At, MakeHelper, DropHelper, Staged, ThreadsType
  <2>2. QED BY <1>1, <1>2, <2>1 DEF Staged
<1>15. CASE ScanMute
  <2>1. moves /\ UNCHANGED <<phase, aborted, faults>>
        /\ th[Main].at = "scan" /\ th'[Main].at \in {"scan", "stuck"}
    BY <1>0, <1>15 DEF ScanMute, At, MakeHelper, DropHelper, course, ThreadsType
  <2>2. QED BY <1>1, <1>2, <2>1 DEF Staged, Returned, Ending
<1>16. CASE Chuck
  <2>1. moves /\ UNCHANGED <<phase, aborted, faults>>
        /\ th[Main].at = "handler" /\ th'[Main].at = "handler"
    BY <1>0, <1>16 DEF Chuck, MakeHelper, DropHelper, ThreadsType, course
  <2>2. QED BY <1>1, <1>2, <2>1 DEF Staged, Returned, Ending
<1>17. CASE Chucked
  <2>1. moves /\ th[Main].at = "handler" /\ faults' = faults /\ faults > 0
        /\ \/ th'[Main].at = "handler" /\ UNCHANGED <<phase, aborted>>
           \/ th'[Main].at = "go" /\ phase = "release" /\ UNCHANGED <<phase, aborted>>
           \/ th'[Main].at = "go" /\ phase' \in {"join", "exit"} /\ aborted' = TRUE
    BY <1>0, <1>1, <1>17 DEF Chucked, MakeHelper, DropHelper, ThreadsType, Staged
  <2>2. QED BY <1>1, <1>2, <2>1 DEF Staged, Returned, Ending
<1>18. QED BY <1>3, <1>4, <1>5, <1>6, <1>7, <1>8, <1>9, <1>10, <1>11, <1>12, <1>16, <1>17,
              <1>13, <1>14, <1>15 DEF MainThread

LEMMA MainServed == ASSUME IInv, SInv, MainThread PROVE Served'
<1> SUFFICES ASSUME faults' = 0, AllClear' PROVE Served'
  BY DEF Served
<1>0. th \in ThreadsType /\ Main \in Threads /\ None \notin Procs
      /\ \A w \in Workers : w \in Threads \ {Main}
  BY PoolAssumption DEF IInv, TypeOK, Threads
<1>1. faults = 0 /\ AllClear
  <2>1. UNCHANGED faults
    BY DEF MainThread, Acquire, ScanDead, ScanAlive, ScanMute, Spawn, Drop, Release, MakeHelper,
           Feed, Join, DropHelper, Inspect, Borrow, CleanCache, Shutdown, Exit, Chuck, Chucked
  <2>2. QED BY <2>1, PipesStep DEF Next
<1>2. \A w \in Workers :
        /\ th[w].at # "died"
        /\ th[w].at \notin {"request", "scan"} /\ th[w].ebp # None
             => th[w].ebp \in alive \/ Ending
        /\ th[w].at \notin {"new", "ended"} => th[w].ebp # None
  BY <1>1 DEF SInv, Served
<1>3. th[Main].at # "handler"
  BY <1>1 DEF SInv, Staged
<1>4. Ending => Ending'
  BY <1>3 DEF Ending, MainThread, Acquire, ScanDead, ScanAlive, ScanMute, Spawn, Drop, Release,
         MakeHelper, Feed, Join, DropHelper, Inspect, Borrow, CleanCache, Shutdown, Exit, Chuck,
         Chucked, course
<1>5. CASE ScanAlive \/ Spawn(Main)
  <2>1. PICK p \in Procs : Grant(Main, p) /\ p \in alive' /\ alive \subseteq alive'
    BY <1>5, MainGrants
  <2>2. \A w \in Workers : th'[w].at = th[w].at /\ th'[w].ebp \in {th[w].ebp, p}
    BY <1>0, <2>1, GrantMoves DEF IInv
  <2>3. QED BY <1>0, <1>2, <1>4, <2>1, <2>2 DEF Served
<1>6. CASE MakeHelper
  <2>1. alive' = alive /\ \A w \in Workers : th[w].at = "new"
    BY <1>6 DEF MakeHelper, SInv, Staged
  <2>2. CASE \E w \in Workers : th[w].ebp = None
    <3>1. \A w \in Workers : th'[w] = th[w]
      BY <1>0, <1>6, <2>2 DEF MakeHelper, At, ThreadsType
    <3>2. QED BY <1>2, <1>4, <2>1, <3>1 DEF Served
  <2>3. CASE ~\E w \in Workers : th[w].ebp = None
    <3>1. \A w \in Workers : th'[w].at = "idle" /\ th'[w].ebp = th[w].ebp
      BY <1>0, <1>6, <2>3 DEF MakeHelper, ThreadsType
    <3>2. QED BY <1>2, <1>4, <2>1, <2>3, <3>1 DEF Served
  <2>4. QED BY <2>2, <2>3
<1>7. CASE DropHelper
  <2>1. Ending' /\ Over /\ Over'
    BY <1>4, <1>7, MainStaged DEF DropHelper, SInv, Staged, Ending
  <2>2. \A w \in Workers : th[w].at \in {"new", "ended"}
    BY <1>2, <2>1 DEF Over
  <2>3. \A w \in Workers : th'[w].at = th[w].at
    BY <1>0, <1>7, HelperDropped
  <2>4. QED BY <2>1, <2>2, <2>3 DEF Served
<1>8. CASE Drop(Main)
  <2>1. alive' = alive \ {th[Main].ebp} /\ \A w \in Workers : th'[w] = th[w]
    BY <1>0, <1>8, MainMoves DEF Drop, At, ThreadsType
  <2>2. \A w \in Workers : th[w].ebp # None => th[w].ebp # th[Main].ebp
    BY <1>0 DEF IInv, OneHolder
  <2>3. QED BY <1>2, <1>4, <2>1, <2>2 DEF Served
<1>9. CASE Exit
  <2>1. Ending'
    BY <1>4, <1>9 DEF Exit, Ending, SInv, Staged
  <2>2. \A w \in Workers : th'[w] = th[w]
    BY <1>0, <1>9 DEF Exit, At, ThreadsType
  <2>3. QED BY <1>2, <2>1, <2>2 DEF Served
<1>10. CASE ScanMute
  <2>1. inactive[th[Main].i] \in Procs /\ ~Responsive(inactive[th[Main].i])
    BY <1>0, <1>10, ScannedIsIdle DEF ScanMute
  <2>2. QED BY <1>1, <2>1 DEF AllClear, Responsive
<1>11. CASE ~(ScanAlive \/ Spawn(Main) \/ MakeHelper \/ DropHelper \/ Drop(Main) \/ Exit
               \/ ScanMute)
  <2>1. alive' = alive
    BY <1>3, <1>11 DEF MainThread, Acquire, ScanDead, Release, Feed, Join, Inspect, Borrow,
                       CleanCache, Shutdown, Chuck, Chucked
  <2>2. \A w \in Workers : th'[w] = th[w]
    BY <1>11, MainMoves
  <2>3. QED BY <1>2, <1>4, <2>1, <2>2 DEF Served
<1>12. QED BY <1>5, <1>6, <1>7, <1>8, <1>9, <1>11, <1>10

\* The main thread settles the package it has in hand, before it goes on to another.
LEMMA MainSettling == ASSUME IInv, SInv, MainThread PROVE Settling'
<1>0. th \in ThreadsType /\ Main \in Threads
  BY ThreadsAreMain DEF IInv, TypeOK
<1>1. Books /\ Staged /\ Settling
  BY DEF SInv
<1>2. CASE ScanAlive \/ Spawn(Main)
  <2>1. PICK p \in Procs : Grant(Main, p)
    BY <1>2, MainGrants
  <2>2. /\ th[Main].at = "scan" /\ th'[Main].item = th[Main].item
        /\ phase # "helpers" => th'[Main].at = "ask"
    BY <1>0, <1>2, <2>1, GrantMoves DEF IInv, ScanAlive, Spawn
  <2>3. UNCHANGED <<opts, cache, masked, phase, aborted, todo>>
    BY <1>2 DEF ScanAlive, Spawn, books, course
  <2>4. QED BY <1>1, <2>2, <2>3 DEF Settling, SettledFor, Done, InHand, Returned
<1>3. CASE Acquire(Main) \/ ScanDead(Main) \/ ScanMute \/ Drop(Main)
  <2>1. /\ th'[Main].item = th[Main].item
        /\ <<th[Main].at, th'[Main].at>> \in
             {<<"request", "scan">>, <<"drop", "dropping">>, <<"release", "releasing">>,
              <<"scan", "scan">>, <<"scan", "stuck">>, <<"dropping", "release">>}
    BY <1>0, <1>3 DEF Acquire, Inside, ScanDead, ScanMute, Drop, At, ThreadsType
  <2>2. UNCHANGED <<opts, cache, masked, phase, aborted, todo>>
    BY <1>3 DEF Acquire, ScanDead, ScanMute, Drop, books, course
  <2>3. QED BY <1>1, <2>1, <2>2 DEF Settling, SettledFor, Done, InHand, Returned
<1>4. CASE Release
  <2>1. /\ th[Main].at = "releasing" /\ th'[Main].at = "go"
        /\ UNCHANGED <<opts, cache, masked, todo, aborted>>
        /\ phase' = (IF aborted THEN "exit" ELSE phase)
    BY <1>0, <1>4 DEF Release, books, ThreadsType
  <2>2. QED BY <1>1, <2>1 DEF Settling, Staged, SettledFor, Done, InHand, Returned
<1>5. CASE MakeHelper \/ Feed \/ Join
  <2>1. phase' # "second" /\ (phase' \in {"exit", "ended"} => aborted')
    BY <1>5 DEF MakeHelper, Feed, Join
  <2>2. QED BY <2>1 DEF Settling, Returned
<1>6. CASE DropHelper
  <2>1. phase' \in {"release", "second"} /\ (phase' = "second" => todo' = Pkgs)
    BY <1>6 DEF DropHelper
  <2>2. QED BY <2>1 DEF Settling, Returned
<1>7. CASE Inspect
  <2>1. PICK p \in todo :
          /\ todo' = todo \ {p}
          /\ \/ Valid(p) /\ UNCHANGED <<th, cache>>
             \/ /\ cache' = [cache EXCEPT ![p] = "none"]
                /\ th' = [th EXCEPT ![Main].item = p, ![Main].at = "request"]
    BY <1>7 DEF Inspect
  <2>2. /\ p \in Pkgs /\ phase = "second" /\ th[Main].at = "go"
        /\ UNCHANGED <<opts, masked, phase, aborted>>
    BY <1>7 DEF Inspect, IInv, TypeOK
  <2>3. ASSUME ~aborted, NEW q \in Pkgs \ todo'
        PROVE  (SettledFor(q) \/ InHand(q))'
    <3>1. CASE q = p
      BY <1>0, <1>1, <2>1, <2>2, <3>1 DEF Books, SettledFor, Done, InHand, Valid, ThreadsType
    <3>2. CASE q # p
      <4>1. SettledFor(q) /\ cache'[q] = cache[q]
        BY <1>1, <2>1, <2>2, <2>3, <3>2 DEF Settling, InHand, Books
      <4>2. QED BY <2>2, <4>1 DEF SettledFor, Done
    <3>3. QED BY <3>1, <3>2
  <2>4. QED BY <2>2, <2>3 DEF Settling, Returned
<1>8. CASE Borrow
  <2>1. /\ phase = "second" /\ th[Main].at \in {"ask", "wait"}
        /\ UNCHANGED <<opts, phase, todo>> /\ th'[Main].item = th[Main].item
    BY <1>0, <1>1, <1>8 DEF Borrow, At, ThreadsType, Staged
  <2>2. ASSUME ~aborted', NEW q \in Pkgs \ todo
        PROVE  (SettledFor(q) \/ InHand(q))'
    <3>1. ~aborted
      BY <1>8, <2>2 DEF Borrow
    <3>2. SettledFor(q) \/ th[Main].item = q
      BY <1>1, <2>1, <2>2, <3>1 DEF Settling, InHand
    <3>3. \/ th'[Main].at = "wait" /\ UNCHANGED <<cache, masked>>
          \/ /\ cache' = [cache EXCEPT ![th[Main].item] = "own"] /\ masked' = masked
             /\ opts.outcome[th[Main].item] = "ok"
          \/ /\ masked' = masked \cup {th[Main].item} /\ cache' = cache
             /\ opts.outcome[th[Main].item] \in {"dies", "bad"}
      BY <1>0, <1>8, <2>2 DEF Borrow, At, ThreadsType
    <3>4. QED BY <1>1, <2>1, <3>2, <3>3 DEF Books, SettledFor, Done, InHand
  <2>3. QED BY <2>1, <2>2 DEF Settling, Returned
<1>9. CASE CleanCache
  <2>1. /\ phase = "second" /\ th[Main].at = "go" /\ todo = {} /\ phase' = "exit"
        /\ cache' = [p \in Pkgs |-> IF p \in masked THEN "none" ELSE cache[p]]
        /\ UNCHANGED <<opts, masked, aborted>>
    BY <1>9 DEF CleanCache
  <2>2. ASSUME ~aborted, NEW p \in Pkgs PROVE SettledFor(p)
    BY <1>1, <2>1, <2>2 DEF Settling, InHand
  <2>3. ASSUME ~aborted, NEW p \in Pkgs PROVE cache[p] # "wrong"
    <3>1. \A q \in Pkgs : ~Culprit(q)
      BY <1>1, <2>2, <2>3 DEF Culprit, SettledFor, Done, Books
    <3>2. QED BY <3>1 DEF SInv, Blamed
  <2>4. ASSUME ~aborted, NEW p \in Pkgs PROVE Done(p)
    BY <2>2, <2>3, <2>4 DEF SettledFor
  <2>5. QED BY <1>1, <2>1, <2>4 DEF Books, Settling, Done, Returned
<1>10. CASE Shutdown \/ Exit
  <2>1. phase = "exit" /\ phase' \in {"exit", "ended"} /\ UNCHANGED <<opts, cache, masked, aborted>>
    BY <1>1, <1>10 DEF Shutdown, Exit, books, course, Staged
  <2>2. QED BY <1>1, <2>1 DEF Settling, Done, Returned
<1>11. CASE Chuck
  <2>1. UNCHANGED <<opts, cache, masked, phase, aborted>> /\ th'[Main].at = "handler"
    BY <1>0, <1>11 DEF Chuck, books, course, ThreadsType
  <2>2. QED BY <1>1, <2>1 DEF Settling, Done, Returned
<1>12. CASE Chucked
  <2>1. CASE UNCHANGED phase /\ phase # "exit" /\ th[Main].item # "active"
    <3>1. phase = "release" \/ phase = "join" \/ aborted'
      BY <1>12, <2>1 DEF Chucked
    <3>2. phase # "ended"
      BY <1>1, <1>12 DEF Chucked, Staged
    <3>3. QED BY <2>1, <3>1, <3>2 DEF Settling, Returned
  <2>2. CASE th[Main].item = "active"
    <3>1. /\ UNCHANGED <<opts, cache, masked, phase, aborted>>
          /\ th'[Main].at = "handler"
      BY <1>0, <1>12, <2>2 DEF Chucked, books, ThreadsType
    <3>2. QED BY <1>1, <3>1 DEF Settling, Done, Returned
  <2>3. CASE th[Main].item # "active" /\ ~(UNCHANGED phase /\ phase # "exit")
    <3>1. aborted' = TRUE
      BY <1>12, <2>3 DEF Chucked
    <3>2. QED BY <3>1 DEF Settling, Returned
  <2>4. QED BY <2>1, <2>2, <2>3
<1>13. QED BY <1>2, <1>3, <1>4, <1>5, <1>6, <1>7, <1>8, <1>9, <1>10, <1>11, <1>12
           DEF MainThread

\* When the program has ended nobody is left to start a daemon.
LEMMA AliveEnds == ASSUME IInv, SInv, [Next]_vars, phase' = "ended" PROVE alive' = {}
<1>1. Staged /\ KnownAlive
  BY DEF SInv
<1>2. CASE \E w \in Workers : Worker(w)
  BY <1>1, <1>2, WorkerMoves DEF Staged
<1>3. CASE Exit
  BY <1>1, <1>3 DEF Exit, KnownAlive, Staged
<1>4. CASE MainThread /\ ~Exit
  BY <1>1, <1>4
     DEF MainThread, Acquire, Inside, ScanDead, ScanAlive, ScanMute, Spawn, Drop, Release,
         MakeHelper, Feed, Join, DropHelper, Inspect, Borrow, CleanCache, Shutdown, Chuck, Chucked,
         course, Staged
<1>5. CASE Interrupt \/ Killed \/ UNCHANGED vars
  BY <1>1, <1>5 DEF Interrupt, Killed, vars, course, KnownAlive
<1>6. QED BY <1>2, <1>3, <1>4, <1>5 DEF Next

\* An interrupt and a kill are faults; neither moves a worker.
LEMMA FaultStep ==
    ASSUME IInv, SInv, Interrupt \/ Killed \/ UNCHANGED vars
    PROVE  Staged' /\ Served' /\ Settling'
<1>0. th \in ThreadsType /\ Main \in Threads /\ \A w \in Workers : w \in Threads \ {Main}
  BY PoolAssumption DEF IInv, TypeOK, Threads
<1>1. Staged /\ Served /\ Settling /\ faults \in Nat
  BY DEF SInv, Staged
<1>2. CASE Interrupt
  <2>1. /\ UNCHANGED <<opts, cache, masked, phase, todo, aborted>>
        /\ faults' = faults + 1 /\ phase # "ended" /\ (phase = "exit" => Over)
        /\ th'[Main].at \in {"handler", "stuck"}
        /\ \A w \in Workers : th'[w] = th[w]
    BY <1>0, <1>2 DEF Interrupt, books, course, ThreadsType
  <2>2. Staged'
    BY <1>1, <2>1 DEF Staged, Over, Returned, Ending
  <2>3. QED BY <1>1, <2>1, <2>2 DEF Served, Settling, Done, Returned
<1>3. CASE Killed
  <2>1. UNCHANGED <<opts, cache, masked, phase, todo, aborted, th>> /\ faults' = faults + 1
    BY <1>3 DEF Killed, books, course
  <2>2. QED BY <1>1, <2>1
           DEF Staged, Served, Settling, SettledFor, Done, InHand, Over, Returned, Ending
<1>4. CASE UNCHANGED vars
  <2>1. UNCHANGED <<opts, cache, masked, phase, todo, aborted, th, faults, alive, pipe>>
    BY <1>4 DEF vars, books, course
  <2>2. QED BY <1>1, <2>1
           DEF Staged, Served, Settling, SettledFor, Done, InHand, AllClear, Over, Returned, Ending
<1>5. QED BY <1>2, <1>3, <1>4

-----------------------------------------------------------------------------
(* Each package is asked for once, and what is wrong has a culprit.        *)

\* Steps that hand no package to anybody.
LEMMA AskedKept ==
    ASSUME OnceEach, UNCHANGED <<fed, queue>>,
           \A w \in Workers : Asked(w)' => Asked(w) /\ th'[w].item = th[w].item
    PROVE  OnceEach' /\ Fresh' \subseteq Fresh
<1>1. Fed' = Fed
  BY DEF Fed
<1>2. OnceEach'
  BY <1>1 DEF OnceEach
<1>3. Fresh' \subseteq Fresh
  BY <1>1 DEF Fresh
<1>4. QED BY <1>2, <1>3

\* A package a worker has asked for is in its hands only, and so is not fresh once it
\* has its answer.
LEMMA AnsweredOnce ==
    ASSUME IInv, OnceEach, NEW w \in Workers, Asked(w), UNCHANGED <<fed, queue>>, ~Asked(w)',
           \A v \in Workers \ {w} : th'[v] = th[v]
    PROVE  th[w].item \in Pkgs /\ th[w].item \in Fresh /\ th[w].item \notin Fresh'
<1>1. Fed' = Fed /\ Fed \subseteq Pkgs
  <2>1. \A i \in 1 .. fed : i \in DOMAIN PkgList
    BY PoolAssumption DEF OnceEach, IInv, TypeOK
  <2>2. QED BY <2>1 DEF Fed, Pkgs
<1>2. /\ th[w].item \in Fed
      /\ \A j \in 1 .. Len(queue) : queue[j] # th[w].item
      /\ \A v \in Workers \ {w} : Asked(v) => th[v].item # th[w].item
  BY DEF OnceEach
<1>3. \A v \in Workers \ {w} : Asked(v)' => Asked(v) /\ th'[v].item = th[v].item
  BY DEF Asked
<1>4. th[w].item \in Fresh
  BY <1>1, <1>2 DEF Fresh
<1>5. th[w].item \notin Fresh'
  BY <1>1, <1>2, <1>3 DEF Fresh
<1>6. QED BY <1>1, <1>2, <1>4, <1>5

\* The sentinels are no packages.
LEMMA SentinelsQueued ==
    ASSUME IInv, OnceEach, UNCHANGED fed, queue' = queue \o Sentinels,
           \A w \in Workers : Asked(w)' => Asked(w) /\ th'[w].item = th[w].item
    PROVE  OnceEach' /\ Fresh' \subseteq Fresh
<1>1. Fed' = Fed /\ Fed \subseteq Pkgs /\ Sentinel \notin Pkgs
  <2>1. \A i \in 1 .. fed : i \in DOMAIN PkgList
    BY PoolAssumption DEF OnceEach, IInv, TypeOK
  <2>2. QED BY <2>1, PoolAssumption DEF Fed, Pkgs
<1>2. queue \in Seq(Pkgs \cup {Sentinel}) /\ Len(queue) \in Nat
  BY DEF IInv, TypeOK
<1>3. ASSUME NEW j \in 1 .. Len(queue')
      PROVE  (j \in 1 .. Len(queue) /\ queue'[j] = queue[j]) \/ queue'[j] = Sentinel
  <2>1. Sentinels \in Seq(Pkgs \cup {Sentinel}) /\ \A k \in 1 .. Len(Sentinels) : Sentinels[k] = Sentinel
    <3>1. Cardinality(Workers) \in Nat
      BY PoolAssumption, FS_CardinalityType
    <3>2. QED BY <3>1 DEF Sentinels
  <2>2. /\ Len(queue') = Len(queue) + Len(Sentinels) /\ Len(Sentinels) \in Nat
        /\ queue'[j] = IF j <= Len(queue) THEN queue[j] ELSE Sentinels[j - Len(queue)]
    BY <1>2, <2>1, ConcatProperties
  <2>3. CASE j <= Len(queue)
    BY <1>2, <2>2, <2>3
  <2>4. CASE ~(j <= Len(queue))
    <3>1. j - Len(queue) \in 1 .. Len(Sentinels)
      BY <1>2, <2>2, <2>4
    <3>2. QED BY <2>1, <2>2, <2>4, <3>1
  <2>5. QED BY <2>3, <2>4
<1>4. OnceEach'
  <2>1. fed' <= Len(PkgList)
    BY DEF OnceEach
  <2>2. \A j \in 1 .. Len(queue') : queue'[j] # Sentinel => queue'[j] \in Fed'
    BY <1>1, <1>3 DEF OnceEach
  <2>3. \A j, k \in 1 .. Len(queue') : queue'[j] = queue'[k] /\ queue'[j] # Sentinel => j = k
    BY <1>3 DEF OnceEach
  <2>4. \A w \in Workers : Asked(w)' =>
          /\ th'[w].item \in Fed'
          /\ \A j \in 1 .. Len(queue') : queue'[j] # th'[w].item
          /\ \A v \in Workers \ {w} : Asked(v)' => th'[v].item # th'[w].item
    BY <1>1, <1>3 DEF OnceEach
  <2>5. QED BY <2>1, <2>2, <2>3, <2>4 DEF OnceEach
<1>5. Fresh' \subseteq Fresh
  BY <1>1, <1>3 DEF Fresh
<1>6. QED BY <1>4, <1>5

\* The next package was not in the queue before.
LEMMA FeedOnce == ASSUME IInv, OnceEach, Feed PROVE OnceEach' /\ Fresh' \subseteq Fresh
<1>0. /\ queue \in Seq(Pkgs \cup {Sentinel}) /\ Len(queue) \in Nat /\ fed \in Nat
      /\ Len(PkgList) \in Nat /\ DOMAIN PkgList = 1 .. Len(PkgList) /\ Sentinel \notin Pkgs
  BY PoolAssumption DEF IInv, TypeOK
<1>1. th' = th /\ \A w \in Workers : Asked(w)' => Asked(w) /\ th'[w].item = th[w].item
  BY DEF Feed, Asked
<1>2. CASE ~(fed < Len(PkgList))
  BY <1>1, <1>2, SentinelsQueued DEF Feed
<1>3. CASE fed < Len(PkgList)
  <2> DEFINE p == PkgList[fed + 1]
             n == Len(queue)
  <2>1. queue' = Append(queue, p) /\ fed' = fed + 1 /\ fed + 1 \in 1 .. Len(PkgList)
    BY <1>0, <1>3 DEF Feed
  <2>2. p \in Pkgs /\ p # Sentinel
    BY <1>0, <2>1 DEF Pkgs
  <2>3. p \notin Fed
    <3>1. \A i \in 1 .. fed : i \in DOMAIN PkgList /\ i # fed + 1
      BY <1>0, <1>3
    <3>2. QED BY <1>0, <2>1, <3>1, PoolAssumption DEF Fed, IsInjective
  <2>4. Fed' = Fed \cup {p}
    <3>1. \A i : i \in 1 .. fed + 1 <=> i \in 1 .. fed \/ i = fed + 1
      BY <1>0
    <3>2. QED BY <2>1, <3>1 DEF Fed
  <2> HIDE DEF p
  <2>5. /\ Len(queue') = n + 1 /\ queue'[n + 1] = p
        /\ \A j \in 1 .. Len(queue') : j \in 1 .. n \/ j = n + 1
        /\ \A j \in 1 .. n : queue'[j] = queue[j] /\ j # n + 1
    BY <1>0, <2>1, <2>2, AppendProperties
  <2>6. \A j \in 1 .. n : queue[j] # p
    BY <2>2, <2>3 DEF OnceEach
  <2>7. \A w \in Workers : Asked(w) => th[w].item # p /\ th[w].item \in Fed
    BY <2>3 DEF OnceEach
  <2>8. OnceEach'
    <3>1. fed' <= Len(PkgList)
      BY <1>0, <2>1
    <3>2. \A j \in 1 .. Len(queue') : queue'[j] # Sentinel => queue'[j] \in Fed'
      BY <2>4, <2>5 DEF OnceEach
    <3>3. \A j, k \in 1 .. Len(queue') : queue'[j] = queue'[k] /\ queue'[j] # Sentinel => j = k
      BY <2>5, <2>6 DEF OnceEach
    <3>4. \A w \in Workers : Asked(w)' =>
            /\ th'[w].item \in Fed'
            /\ \A j \in 1 .. Len(queue') : queue'[j] # th'[w].item
            /\ \A v \in Workers \ {w} : Asked(v)' => th'[v].item # th'[w].item
      BY <1>1, <2>4, <2>5, <2>7 DEF OnceEach, Asked
    <3>5. QED BY <3>1, <3>2, <3>3, <3>4 DEF OnceEach
  <2>9. Fresh' \subseteq Fresh
    BY <1>1, <2>3, <2>4, <2>5 DEF Fresh
  <2>10. QED BY <2>8, <2>9
<1>4. QED BY <1>2, <1>3

\* A worker has what it took, and the queue has it no longer.
LEMMA TakeOnce ==
    ASSUME IInv, OnceEach, NEW w \in Workers, Take(w)
    PROVE  OnceEach' /\ Fresh' \subseteq Fresh
<1> DEFINE n == Len(queue)
<1>0. /\ queue \in Seq(Pkgs \cup {Sentinel}) /\ queue # <<>> /\ n \in Nat /\ n > 0
      /\ th \in ThreadsType /\ w \in Threads /\ \A v \in Workers : v \in Threads
  BY EmptySeq, ThreadsAreMain DEF IInv, TypeOK, Take
<1>1. /\ queue' = Tail(queue) /\ fed' = fed /\ Fed' = Fed
      /\ \A v \in Workers \ {w} : th'[v] = th[v]
  BY <1>0 DEF Take, course, Fed, ThreadsType
<1>2. /\ Len(queue') = n - 1 /\ 1 \in 1 .. n /\ Head(queue) = queue[1]
      /\ \A j \in 1 .. n - 1 : j + 1 \in 1 .. n /\ queue'[j] = queue[j + 1] /\ j + 1 # 1
  BY <1>0, <1>1, HeadTailProperties
<1>3. \/ ~Asked(w)'
      \/ Head(queue) # Sentinel /\ Asked(w)' /\ th'[w].item = Head(queue)
  BY <1>0 DEF Take, Asked, ThreadsType
<1> HIDE DEF n
<1>4. /\ \A j \in 1 .. Len(queue') : queue'[j] # Sentinel => queue'[j] \in Fed'
      /\ \A j, k \in 1 .. Len(queue') : queue'[j] = queue'[k] /\ queue'[j] # Sentinel => j = k
  <2>1. \A j, k \in 1 .. n - 1 : j + 1 = k + 1 => j = k
    BY <1>0
  <2>2. QED BY <1>1, <1>2, <2>1 DEF OnceEach, n
<1>5. \A v \in Workers \ {w} : Asked(v)' <=> Asked(v)
  BY <1>1 DEF Asked
<1>6. ASSUME Head(queue) # Sentinel
      PROVE  /\ Head(queue) \in Fed
             /\ \A j \in 1 .. Len(queue') : queue'[j] # Head(queue)
             /\ \A v \in Workers \ {w} : Asked(v) => th[v].item # Head(queue)
  BY <1>2, <1>6 DEF OnceEach, n
<1>7. \A v \in Workers \ {w} : Asked(v)' =>
        /\ th'[v].item \in Fed'
        /\ \A j \in 1 .. Len(queue') : queue'[j] # th'[v].item
        /\ \A u \in Workers \ {v} : Asked(u)' => th'[u].item # th'[v].item
  BY <1>1, <1>2, <1>3, <1>5, <1>6 DEF OnceEach, n
<1>8. Asked(w)' =>
        /\ th'[w].item \in Fed'
        /\ \A j \in 1 .. Len(queue') : queue'[j] # th'[w].item
        /\ \A u \in Workers \ {w} : Asked(u)' => th'[u].item # th'[w].item
  BY <1>1, <1>3, <1>5, <1>6
<1>9. OnceEach'
  BY <1>1, <1>4, <1>7, <1>8 DEF OnceEach
<1>10. Fresh' \subseteq Fresh
  BY <1>1, <1>2, <1>3, <1>5 DEF Fresh, n
<1>11. QED BY <1>9, <1>10

\* Of the main thread's steps: no worker is given a package.
LEMMA MainAsks ==
    ASSUME IInv, MainThread
    PROVE  \A w \in Workers : Asked(w)' => Asked(w) /\ th'[w].item = th[w].item
<1>0. th \in ThreadsType /\ \A w \in Workers : w \in Threads \ {Main}
  BY PoolAssumption DEF IInv, TypeOK, Threads
<1>1. CASE MakeHelper
  BY <1>0, <1>1 DEF MakeHelper, At, Asked, ThreadsType
<1>2. CASE DropHelper
  BY <1>2, HelperDropped DEF Asked
<1>3. CASE ScanAlive \/ Spawn(Main)
  <2>1. PICK p \in Procs : Grant(Main, p)
    BY <1>3, MainGrants
  <2>2. QED BY <1>0, <2>1, ThreadsAreMain, GrantMoves DEF IInv, Asked
<1>4. CASE ~MakeHelper /\ ~DropHelper /\ ~(ScanAlive \/ Spawn(Main))
  BY <1>4, MainMoves DEF Asked
<1>5. QED BY <1>1, <1>2, <1>3, <1>4

LEMMA OnceEachStep ==
    ASSUME IInv, SInv, [Next]_vars PROVE OnceEach' /\ Fresh' \subseteq Fresh
<1>0. OnceEach
  BY DEF SInv
<1>1. ASSUME NEW w \in Workers, Worker(w) PROVE OnceEach' /\ Fresh' \subseteq Fresh
  <2>0. th \in ThreadsType /\ w \in Threads /\ \A v \in Workers \ {w} : th'[v] = th[v]
    BY <1>1, WorkerMoves, ThreadsAreMain DEF IInv, TypeOK
  <2>1. CASE Take(w)
    BY <1>0, <2>1, TakeOnce
  <2>2. CASE ~Take(w)
    <3>1. UNCHANGED <<fed, queue>>
      BY <1>1, <2>2
         DEF Worker, Acquire, ScanDead, ScanAlarmed, Spawn, Drop, Look, Ask, AnswerOdd,
             AnswerKeys, AnswerError, AnswerRest, course
    <3>2. Asked(w)' => Asked(w) /\ th'[w].item = th[w].item
      <4>1. CASE Spawn(w)
        <5>1. PICK p : th' = [th EXCEPT ![w].ebp = p, ![w].at = "idle"]
          BY <4>1, PoolAssumption DEF Spawn, Grant, Threads
        <5>2. QED BY <2>0, <5>1 DEF Asked, ThreadsType
      <4>2. CASE AnswerRest(w)
        <5>1. PICK at \in {"idle", "drop", "request"} : th' = [th EXCEPT ![w].at = at]
          BY <4>2 DEF AnswerRest, At
        <5>2. QED BY <2>0, <5>1 DEF Asked, ThreadsType
      <4>3. CASE ~Spawn(w) /\ ~AnswerRest(w)
        BY <1>1, <2>0, <2>2, <4>3
           DEF Worker, Acquire, Inside, ScanDead, ScanAlarmed, Drop, Look, Ask, AnswerOdd,
               AnswerKeys, AnswerError, At, Asked, ThreadsType
      <4>4. QED BY <4>1, <4>2, <4>3
    <3>3. \A v \in Workers : Asked(v)' => Asked(v) /\ th'[v].item = th[v].item
      BY <2>0, <3>2 DEF Asked
    <3>4. QED BY <1>0, <3>1, <3>3, AskedKept
  <2>3. QED BY <2>1, <2>2
<1>2. CASE Feed
  BY <1>0, <1>2, FeedOnce
<1>3. CASE Chucked
  <2>1. UNCHANGED fed /\ (queue' = queue \/ queue' = queue \o Sentinels)
    BY <1>3 DEF Chucked
  <2>2. \A w \in Workers : Asked(w)' => Asked(w) /\ th'[w].item = th[w].item
    BY <1>3, MainAsks DEF MainThread
  <2>3. QED BY <1>0, <2>1, <2>2, AskedKept, SentinelsQueued
<1>4. CASE MainThread /\ ~Feed /\ ~Chucked
  <2>1. UNCHANGED <<fed, queue>>
    BY <1>4
       DEF MainThread, Acquire, ScanDead, ScanAlive, ScanMute, Spawn, Drop, Release, MakeHelper,
           Join, DropHelper, Inspect, Borrow, CleanCache, Shutdown, Exit, Chuck, course
  <2>2. QED BY <1>0, <1>4, <2>1, MainAsks, AskedKept
<1>5. CASE Interrupt \/ Killed \/ UNCHANGED vars
  <2>0. th \in ThreadsType /\ \A w \in Workers : w \in Threads \ {Main}
    BY PoolAssumption DEF IInv, TypeOK, Threads
  <2>1. UNCHANGED <<fed, queue>> /\ \A w \in Workers : th'[w] = th[w]
    BY <1>5, <2>0 DEF Interrupt, Killed, vars, course, ThreadsType
  <2>2. \A w \in Workers : Asked(w)' => Asked(w) /\ th'[w].item = th[w].item
    BY <2>1 DEF Asked
  <2>3. QED BY <1>0, <2>1, <2>2, AskedKept
<1>6. QED BY <1>1, <1>2, <1>3, <1>4, <1>5 DEF Next

\* The main thread comes to the workers only to start them.
LEMMA EarlyStep == ASSUME IInv, SInv, [Next]_vars, Early' PROVE Early
<1>1. CASE \E w \in Workers : Worker(w)
  BY <1>1, WorkerMoves DEF Early
<1>2. CASE MakeHelper
  BY <1>2 DEF MakeHelper, Early
<1>3. CASE MainThread /\ ~MakeHelper
  <2>1. \A w \in Workers : th'[w].at = th[w].at
    BY <1>3, MainMoves, HelperDropped
  <2>2. phase' = "helpers" => phase = "helpers"
    BY <1>3
       DEF MainThread, Acquire, ScanDead, ScanAlive, ScanMute, Spawn, Drop, Release, Feed,
           Join, DropHelper, Inspect, Borrow, CleanCache, Shutdown, Exit, Chuck, Chucked, course
  <2>3. QED BY <2>1, <2>2 DEF Early, Over
<1>4. CASE Interrupt \/ Killed \/ UNCHANGED vars
  <2>0. th \in ThreadsType /\ \A w \in Workers : w \in Threads \ {Main}
    BY PoolAssumption DEF IInv, TypeOK, Threads
  <2>1. UNCHANGED phase /\ \A w \in Workers : th'[w] = th[w]
    BY <1>4, <2>0 DEF Interrupt, Killed, vars, course, ThreadsType
  <2>2. QED BY <2>1 DEF Early, Over
<1>5. QED BY <1>1, <1>2, <1>3, <1>4 DEF Next

\* Steps that write no wrong entry, and leave nothing in a pipe.
LEMMA BlameKept ==
    ASSUME IInv, SInv, [Next]_vars,
           \A p \in Pkgs : cache'[p] = "wrong" => cache[p] = "wrong",
           Early' => \A e \in Procs : OutOfStep(e)' => OutOfStep(e)
    PROVE  Blamed'
<1>1. Blamed /\ Fresh' \subseteq Fresh /\ (Early' => Early)
  BY OnceEachStep, EarlyStep DEF SInv
<1>2. UNCHANGED opts
  BY DEF Next, vars, Worker, MainThread, Acquire, ScanDead, ScanAlarmed, ScanAlive, ScanMute,
         Spawn, Drop, Take, Look, Ask, AnswerOdd, AnswerKeys, AnswerError, AnswerRest, Release,
         MakeHelper, Feed, Join, DropHelper, Inspect, Borrow, CleanCache, Shutdown, Exit, Chuck,
         Chucked, Interrupt, Killed
<1>3. \A p \in Pkgs : Culprit(p) => Culprit(p)'
  BY <1>2 DEF Culprit
<1>4. Fresh \subseteq Pkgs
  BY DEF Fresh
<1>5. \A p \in Fresh' : cache'[p] # "wrong"
  BY <1>1, <1>4 DEF Blamed
<1>6. (\E p \in Pkgs : cache'[p] = "wrong") => \E q \in Pkgs : Culprit(q)'
  BY <1>1, <1>3 DEF Blamed
<1>7. Early' /\ (\E e \in Procs : OutOfStep(e)') => \E q \in Pkgs \ Fresh' : Culprit(q)'
  BY <1>1, <1>3 DEF Blamed
<1>8. QED BY <1>5, <1>6, <1>7 DEF Blamed

LEMMA WorkerBlamed == ASSUME IInv, SInv, NEW w \in Workers, Worker(w) PROVE Blamed'
<1>0. /\ th \in ThreadsType /\ w \in Threads /\ OnceEach /\ Blamed /\ PipesType
      /\ cache \in [Pkgs -> Entries \cup {"wrong"}] /\ [Next]_vars
  BY ThreadsAreMain DEF IInv, TypeOK, SInv, Books, Next
<1>1. Early /\ UNCHANGED opts /\ \A v \in Workers \ {w} : th'[v] = th[v]
  BY WorkerMoves, ThreadsAreMain DEF Early
<1>2. alive \subseteq Procs
  BY DEF SInv, KnownAlive, Listed, IInv, TypeOK, Range
<1> DEFINE p == th[w].item
           e == th[w].ebp
<1>3. CASE AnswerOdd(w) /\ ~UNCHANGED pipe
  <2>1. /\ opts.outcome[p] = "odd" /\ UNCHANGED <<cache, fed, queue>>
        /\ th[w].at = "wait" /\ th' = [th EXCEPT ![w].at = "idle"]
    BY <1>3 DEF AnswerOdd, At, course
  <2>2. Asked(w) /\ ~Asked(w)'
    BY <1>0, <2>1 DEF Asked, ThreadsType
  <2>3. p \in Pkgs /\ p \in Fresh /\ p \notin Fresh'
    BY <1>0, <1>1, <2>1, <2>2, AnsweredOnce
  <2>4. Culprit(p)'
    BY <1>0, <1>1, <2>1, <2>3 DEF Culprit, Blamed
  <2>5. Fresh' \subseteq Fresh
    BY <1>0, OnceEachStep
  <2>6. QED BY <1>0, <2>1, <2>3, <2>4, <2>5 DEF Blamed
<1>4. CASE AnswerRest(w)
  <2>1. /\ UNCHANGED <<fed, queue>> /\ th[w].at = "wait"
        /\ e \in alive /\ pipe[e] = "rest"
        /\ cache' = cache \/ cache' = [cache EXCEPT ![p] = "wrong"]
    BY <1>4 DEF AnswerRest, course
  <2>2. PICK at \in {"idle", "drop", "request"} : th' = [th EXCEPT ![w].at = at]
    BY <1>4 DEF AnswerRest, At
  <2>3. Asked(w) /\ ~Asked(w)'
    BY <1>0, <2>1, <2>2 DEF Asked, ThreadsType
  <2>4. p \in Pkgs /\ p \in Fresh /\ p \notin Fresh'
    BY <1>0, <1>1, <2>1, <2>3, AnsweredOnce
  <2>5. Fresh' \subseteq Fresh /\ Fresh \subseteq Pkgs
    BY <1>0, OnceEachStep DEF Fresh
  <2>6. PICK q \in Pkgs \ Fresh : Culprit(q)
    BY <1>0, <1>1, <1>2, <2>1 DEF Blamed, OutOfStep
  <2>7. q # p /\ Culprit(q)' /\ q \notin Fresh'
    BY <1>0, <1>1, <2>1, <2>4, <2>5, <2>6 DEF Culprit
  <2>8. \A r \in Fresh' : cache'[r] # "wrong"
    <3>1. \A r \in Fresh' : r # p /\ r \in Pkgs /\ cache[r] # "wrong"
      BY <1>0, <2>4, <2>5 DEF Blamed
    <3>2. QED BY <1>0, <2>1, <3>1
  <2>9. QED BY <2>6, <2>7, <2>8 DEF Blamed
<1>5. CASE ScanAlarmed(w)
  <2>1. /\ UNCHANGED cache
        /\ pipe' = [pipe EXCEPT ![inactive[th[w].i]] = IF @ = "clear" THEN "yep" ELSE @]
    BY <1>5 DEF ScanAlarmed
  <2>2. \A x \in Procs : OutOfStep(x)' => OutOfStep(x)
    BY <1>0, <2>1 DEF OutOfStep, PipesType
  <2>3. QED BY <1>0, <2>1, <2>2, BlameKept
<1>6. CASE Look(w) \/ AnswerKeys(w)
  <2>1. /\ UNCHANGED pipe
        /\ \/ cache' = cache \/ cache' = [cache EXCEPT ![p] = "none"]
           \/ cache' = [cache EXCEPT ![p] = "own"]
    BY <1>6 DEF Look, AnswerKeys
  <2>2. \A r \in Pkgs : cache'[r] = "wrong" => cache[r] = "wrong"
    BY <1>0, <2>1
  <2>3. QED BY <1>0, <2>1, <2>2, BlameKept DEF OutOfStep
<1>7. CASE /\ ~(AnswerOdd(w) /\ ~UNCHANGED pipe) /\ ~AnswerRest(w) /\ ~ScanAlarmed(w)
           /\ ~(Look(w) \/ AnswerKeys(w))
  <2>1. UNCHANGED <<cache, pipe>>
    BY <1>7 DEF Worker, Acquire, ScanDead, Spawn, Drop, Take, Ask, AnswerOdd, AnswerError, books
  <2>2. QED BY <1>0, <2>1, BlameKept DEF OutOfStep
<1>8. QED BY <1>3, <1>4, <1>5, <1>6, <1>7

LEMMA MainBlamed == ASSUME IInv, SInv, MainThread PROVE Blamed'
<1>0. cache \in [Pkgs -> Entries \cup {"wrong"}] /\ Staged /\ [Next]_vars
  BY DEF SInv, Books, Next
<1>1. \A p \in Pkgs : cache'[p] = "wrong" => cache[p] = "wrong"
  <2>1. CASE Inspect \/ Borrow
    <3>1. \/ UNCHANGED cache
          \/ \E p : cache' = [cache EXCEPT ![p] = "none"]
          \/ \E p : cache' = [cache EXCEPT ![p] = "own"]
      BY <2>1 DEF Inspect, Borrow
    <3>2. QED BY <1>0, <3>1
  <2>2. CASE CleanCache
    BY <1>0, <2>2 DEF CleanCache
  <2>3. CASE ~(Inspect \/ Borrow) /\ ~CleanCache
    BY <2>3
       DEF MainThread, Acquire, ScanDead, ScanAlive, ScanMute, Spawn, Drop, Release, MakeHelper,
           Feed, Join, DropHelper, Shutdown, Exit, Chuck, Chucked, books
  <2>4. QED BY <2>1, <2>2, <2>3
<1>2. CASE DropHelper \/ Borrow
  <2>1. phase \in {"release", "second"} /\ Over
    BY <1>0, <1>2 DEF DropHelper, Borrow, Staged
  <2>2. ~Early'
    BY <1>0, <2>1, EarlyStep DEF Early
  <2>3. QED BY <1>0, <1>1, <2>2, BlameKept
<1>3. CASE ~(DropHelper \/ Borrow)
  <2>1. UNCHANGED pipe
    BY <1>3
       DEF MainThread, Acquire, ScanDead, ScanAlive, ScanMute, Spawn, Drop, Release, MakeHelper,
           Feed, Join, Inspect, CleanCache, Shutdown, Exit, Chuck, Chucked
  <2>2. QED BY <1>0, <1>1, <2>1, BlameKept DEF OutOfStep
<1>4. QED BY <1>2, <1>3

LEMMA BlamedStep == ASSUME IInv, SInv, [Next]_vars PROVE Blamed'
<1>1. CASE Interrupt \/ Killed \/ UNCHANGED vars
  <2>1. UNCHANGED <<cache, pipe>>
    BY <1>1 DEF Interrupt, Killed, vars, books
  <2>2. QED BY <2>1, BlameKept DEF OutOfStep
<1>2. QED BY <1>1, WorkerBlamed, MainBlamed DEF Next
-----------------------------------------------------------------------------

LEMMA SettledStep == ASSUME IInv, SInv, [Next]_vars PROVE SInv'
<1>1. Books' /\ KnownAlive' /\ PipesType' /\ OnceEach' /\ Blamed'
  BY BooksStep, AliveStep, AliveEnds, PipesStep, OnceEachStep, BlamedStep DEF KnownAlive
<1>2. Staged' /\ Served' /\ Settling'
  BY WorkerStaged, WorkerServed, MainStaged, MainServed, MainSettling, FaultStep DEF Next
<1>3. QED BY <1>1, <1>2 DEF SInv

LEMMA SettledInit == ASSUME Init PROVE SInv
<1>1. /\ opts \in Worlds /\ cache = opts.cache /\ masked = {}
      /\ opts.cache \in [Pkgs -> Entries]
      /\ \A p \in Pkgs : opts.cache[p] = "own" => opts.outcome[p] = "ok"
  BY PoolAssumption DEF Init
<1>2. /\ phase = "helpers" /\ faults = 0 /\ th[Main].at = "go"
      /\ \A w \in Workers : th[w].at = "new" /\ th[w].ebp = None
      /\ alive = Range(inactive)
  BY PoolAssumption DEF Init, Thread, Threads
<1>3. Books
  BY <1>1 DEF Books
<1>4. Staged /\ KnownAlive /\ Served /\ Settling
  BY <1>2 DEF Staged, KnownAlive, Listed, Served, Settling, Returned, Ending
<1>5. PipesType /\ \A e \in Procs : ~OutOfStep(e)
  BY DEF Init, PipesType, Pipes, OutOfStep
<1>6. OnceEach
  <2>1. fed = 0 /\ Len(queue) = 0 /\ \A w \in Workers : ~Asked(w)
    BY <1>2 DEF Init, Asked
  <2>2. QED BY <2>1, PoolAssumption DEF OnceEach
<1>7. Blamed
  <2>1. \A p \in Pkgs : cache[p] # "wrong"
    BY <1>1 DEF Entries
  <2>2. QED BY <1>5, <2>1 DEF Blamed, Fresh
<1>8. QED BY <1>3, <1>4, <1>5, <1>6, <1>7 DEF SInv

THEOREM Settled == Spec => [](IInv /\ SInv)
BY InitHolds, StepHolds, SettledInit, SettledStep, PTL DEF Spec

\* A regeneration that comes to its end has settled every package, whatever became of
\* its workers: for every number of workers and packages, whatever each package does
\* and whatever is interrupted or killed (MetadataRegeneration, _pkg_filter).
THEOREM RegenSettles == Spec => []EverythingSettled
<1>1. ASSUME IInv, SInv PROVE EverythingSettled
  <2>1. ASSUME Returned, NEW p \in Pkgs
        PROVE  IF opts.outcome[p] = "ok" THEN cache[p] = "own"
               ELSE p \in masked /\ cache[p] = "none"
    BY <1>1, <2>1 DEF SInv, Settling, Done
  <2>2. ASSUME NEW w \in Workers, th[w].at = "died" 
        PROVE  faults > 0 \/ \E e \in Procs : pipe[e] # "clear"
    BY <1>1, <2>2 DEF SInv, Served, Staged, AllClear
  <2>3. QED BY <2>1, <2>2 DEF EverythingSettled
<1>2. QED BY <1>1, Settled, PTL

\* shutdown_all_processors gets every daemon that runs, since none is ever forgotten:
\* not by a removal from the list that is walked, not by an interrupt, and not by a
\* worker that is lost.
THEOREM DaemonsShutDown == Spec => []NoneOutlives
<1>1. SInv => NoneOutlives
  BY DEF SInv, KnownAlive, NoneOutlives
<1>2. QED BY <1>1, Settled, PTL
=============================================================================
