------------------------- MODULE EbdProtocolProofs -------------------------
(***************************************************************************)
(* Proofs about EbdProtocol, for every set of packages and of eclasses.    *)
(***************************************************************************)
EXTENDS EbdProtocol, SequenceTheorems, TLAPS

-----------------------------------------------------------------------------
(* Short sequences.                                                        *)

LEMMA IsThat ==
    ASSUME NEW S, NEW s \in Seq(S), NEW t \in Seq(S), Len(s) = Len(t),
           \A i \in 1 .. Len(s) : s[i] = t[i]
    PROVE  s = t
  BY SeqEqual

LEMMA ShortTails ==
    ASSUME NEW a, NEW b, NEW c, NEW d, NEW e
    PROVE  /\ Tail(<<a>>) = <<>>
           /\ Tail(<<a, b>>) = <<b>>
           /\ Tail(<<a, b, c>>) = <<b, c>>
           /\ Tail(<<a, b, c, d>>) = <<b, c, d>>
           /\ Tail(<<a, b, c, d, e>>) = <<b, c, d, e>>
  OBVIOUS

LEMMA ShortCats ==
    ASSUME NEW a, NEW b, NEW c, NEW d, NEW e
    PROVE  /\ <<>> \o <<>> = <<>>
           /\ <<>> \o <<a>> = <<a>> /\ <<a>> \o <<>> = <<a>>
           /\ <<>> \o <<a, b>> = <<a, b>>
           /\ <<>> \o <<a, b, c, d>> = <<a, b, c, d>>
           /\ <<a>> \o <<b>> = <<a, b>>
           /\ <<a, b, c, d>> \o <<e>> = <<a, b, c, d, e>>
           /\ Append(<<>>, a) = <<a>>
<1> DEFINE S == {a, b, c, d, e}
<1>1. /\ <<>> \in Seq(S) /\ <<a>> \in Seq(S) /\ <<b>> \in Seq(S) /\ <<e>> \in Seq(S)
      /\ <<a, b>> \in Seq(S) /\ <<a, b, c, d>> \in Seq(S)
  OBVIOUS
<1>2. \A s \in Seq(S) : s \o <<>> = s /\ <<>> \o s = s
  BY ConcatEmptySeq
<1>3. <<a>> \o <<b>> = <<a, b>>
  <2> DEFINE s == <<a>> \o <<b>>
             t == <<a, b>>
  <2>1. s \in Seq(S) /\ Len(s) = 2 /\ s[1] = a /\ s[2] = b
    BY <1>1, ConcatProperties
  <2>2. t \in Seq(S) /\ Len(t) = 2 /\ t[1] = a /\ t[2] = b
    OBVIOUS
  <2> HIDE DEF s, t, S
  <2>3. s = t
    BY <2>1, <2>2, IsThat
  <2> QED
    BY <2>3 DEF s, t
<1>4. <<a, b, c, d>> \o <<e>> = <<a, b, c, d, e>>
  <2> DEFINE s == <<a, b, c, d>> \o <<e>>
             t == <<a, b, c, d, e>>
             h == <<a, b, c, d>>
  <2>0. h \in Seq(S) /\ Len(h) = 4 /\ h[1] = a /\ h[2] = b /\ h[3] = c /\ h[4] = d
    OBVIOUS
  <2>1. s \in Seq(S) /\ Len(s) = 5 /\ (\A i \in 1 .. 4 : s[i] = h[i]) /\ s[5] = e
    <3>1. <<e>> \in Seq(S) /\ Len(<<e>>) = 1 /\ <<e>>[1] = e
      OBVIOUS
    <3> HIDE DEF h, S
    <3>2. h \o <<e>> \in Seq(S) /\ Len(h \o <<e>>) = 5 /\ (\A i \in 1 .. 4 : (h \o <<e>>)[i] = h[i])
           /\ (h \o <<e>>)[5] = e
      <4> DEFINE l == <<e>>
      <4>1. l \in Seq(S) /\ Len(l) = 1 /\ l[1] = e
        BY <3>1
      <4> HIDE DEF l
      <4>2. /\ h \o l \in Seq(S) /\ Len(h \o l) = 5
            /\ \A i \in 1 .. 5 : (h \o l)[i] = IF i <= 4 THEN h[i] ELSE l[i - 4]
        <5>1. /\ h \o l \in Seq(S) /\ Len(h \o l) = Len(h) + Len(l)
              /\ \A i \in 1 .. Len(h) + Len(l) : (h \o l)[i] = IF i <= Len(h) THEN h[i] ELSE l[i - Len(h)]
          BY <2>0, <4>1, ConcatProperties
        <5>2. Len(h) = 4 /\ Len(l) = 1
          BY <2>0, <4>1
        <5> QED
          BY <5>1, <5>2
      <4>3. (h \o l)[5] = e
        BY <4>2, <4>1
      <4> QED
        BY <4>2, <4>3 DEF l
    <3> QED
      BY <3>2 DEF h
  <2>2. t \in Seq(S) /\ Len(t) = 5 /\ t[1] = a /\ t[2] = b /\ t[3] = c /\ t[4] = d /\ t[5] = e
    OBVIOUS
  <2> HIDE DEF s, t, S, h
  <2>3. s = t
    BY <2>0, <2>1, <2>2, IsThat
  <2> QED
    BY <2>3 DEF s, t
<1>5. Append(<<>>, a) = <<a>>
  BY <1>1, <1>2, AppendIsConcat
<1> QED
  BY <1>1, <1>2, <1>3, <1>4, <1>5

-----------------------------------------------------------------------------
(* Questions and their answers.                                            *)

\* What the daemon writes upon a line that takes nothing but one answer.
Answer(l) ==
    Line(CASE l.cmd = "ebd?" -> "ebd!"
           [] l.cmd = "sandbox?" -> "readonly"
           [] l.cmd = "alive" -> "yep!"
           [] l.cmd = "set_metadata_path" -> "metadata_path_received"
           [] l.cmd = "preload" -> "preload_eclass succeeded"
           [] l.cmd = "start_receiving_env" -> "env_received"
           [] l.cmd = "logging" -> "logging_ack"
           [] l.cmd = "path" -> "next"
           [] OTHER -> "none")

\* The lines read, those in the pipe, and the answers to those the daemon has yet to
\* read are, in this order, the lines that are expected.
Matched(g, u, d, x) ==
    /\ Len(g) + Len(u) + Len(d) = Len(x)
    /\ \A i \in 1 .. Len(g) : g[i] = x[i]
    /\ \A i \in 1 .. Len(u) : u[i] = x[Len(g) + i]
    /\ \A i \in 1 .. Len(d) : Answer(d[i]) = x[Len(g) + Len(u) + i]

LEMMA Added ==
    ASSUME NEW S, NEW s \in Seq(S), NEW e \in S
    PROVE  /\ s \o <<e>> = Append(s, e)
           /\ Append(s, e) \in Seq(S) /\ Len(Append(s, e)) = Len(s) + 1
           /\ \A i \in 1 .. Len(s) : Append(s, e)[i] = s[i]
           /\ Append(s, e)[Len(s) + 1] = e
<1>1. s \o <<e>> = Append(s, e)
  BY AppendIsConcat
<1> QED
  BY <1>1, AppendProperties

LEMMA Taken ==
    ASSUME NEW S, NEW s \in Seq(S), s # <<>>
    PROVE  /\ Len(s) \in Nat /\ Len(s) > 0 /\ Head(s) = s[1] /\ s[1] \in S
           /\ Tail(s) \in Seq(S) /\ Len(Tail(s)) = Len(s) - 1
           /\ \A i \in 1 .. Len(s) - 1 : Tail(s)[i] = s[i + 1]
<1>1. Len(s) \in Nat /\ Len(s) > 0
  BY EmptySeq, LenProperties
<1>2. /\ Tail(s) \in Seq(S) /\ Len(Tail(s)) = Len(s) - 1
      /\ \A i \in 1 .. Len(Tail(s)) : Tail(s)[i] = s[i + 1]
  BY HeadTailProperties
<1>3. Head(s) = s[1] /\ s[1] \in S
  BY <1>1, HeadTailProperties, ElementOfSeq
<1> QED
  BY <1>1, <1>2, <1>3

LEMMA TakenOfCat ==
    ASSUME NEW S, NEW s \in Seq(S), NEW t \in Seq(S), s # <<>>
    PROVE  s \o t # <<>> /\ Head(s \o t) = Head(s) /\ Tail(s \o t) = Tail(s) \o t
<1> DEFINE c == s \o t
           h == Tail(s)
           l == Tail(c)
           r == h \o t
<1>1. /\ Len(s) \in Nat /\ Len(s) > 0 /\ Head(s) = s[1] /\ h \in Seq(S) /\ Len(h) = Len(s) - 1
      /\ \A i \in 1 .. Len(s) - 1 : h[i] = s[i + 1]
  BY Taken
<1>2. /\ c \in Seq(S) /\ Len(c) = Len(s) + Len(t)
      /\ \A i \in 1 .. Len(s) + Len(t) : c[i] = IF i <= Len(s) THEN s[i] ELSE t[i - Len(s)]
  BY ConcatProperties
<1>3. Len(t) \in Nat /\ Len(h) \in Nat
  BY <1>1, LenProperties
<1> HIDE DEF h, c
<1>4. /\ r \in Seq(S) /\ Len(r) = Len(h) + Len(t)
      /\ \A i \in 1 .. Len(h) + Len(t) : r[i] = IF i <= Len(h) THEN h[i] ELSE t[i - Len(h)]
  BY <1>1, ConcatProperties
<1>5. c # <<>>
  <2>1. Len(c) # 0
    BY <1>1, <1>2, <1>3
  <2> QED
    BY <2>1
<1>6. /\ Head(c) = c[1] /\ l \in Seq(S) /\ Len(l) = Len(c) - 1
      /\ \A i \in 1 .. Len(c) - 1 : l[i] = c[i + 1]
  BY <1>2, <1>5, Taken
<1> HIDE DEF l, r
<1>7. Head(c) = Head(s)
  <2>1. c[1] = s[1]
    BY <1>1, <1>2, <1>3
  <2> QED
    BY <1>1, <1>6, <2>1
<1>8. Len(l) = Len(r)
  <2>1. Len(l) = (Len(s) + Len(t)) - 1 /\ Len(r) = (Len(s) - 1) + Len(t)
    BY <1>1, <1>2, <1>4, <1>6
  <2> QED
    BY <2>1, <1>1, <1>3
<1>9. \A i \in 1 .. Len(l) : l[i] = r[i]
  <2> SUFFICES ASSUME NEW i \in 1 .. Len(l) PROVE l[i] = r[i]
    OBVIOUS
  <2>0. Len(c) = Len(s) + Len(t) /\ Len(l) = Len(s) + Len(t) - 1 /\ Len(h) + Len(t) = Len(s) + Len(t) - 1
    BY <1>1, <1>2, <1>3, <1>6
  <2>1. i + 1 \in 1 .. Len(s) + Len(t) /\ i \in 1 .. Len(h) + Len(t) /\ l[i] = c[i + 1]
    BY <2>0, <1>1, <1>3, <1>6
  <2>2. c[i + 1] = IF i + 1 <= Len(s) THEN s[i + 1] ELSE t[(i + 1) - Len(s)]
    BY <1>2, <2>1
  <2>3. r[i] = IF i <= Len(h) THEN h[i] ELSE t[i - Len(h)]
    BY <1>4, <2>1
  <2>4. CASE i <= Len(h)
    BY <2>1, <2>2, <2>3, <2>4, <1>1, <1>3
  <2>5. CASE i > Len(h)
    <3>1. (i + 1) - Len(s) = i - Len(h) /\ ~(i + 1 <= Len(s))
      BY <2>5, <1>1, <1>3
    <3> QED
      BY <2>1, <2>2, <2>3, <2>5, <3>1, <1>1, <1>3
  <2> QED
    BY <2>4, <2>5, <1>1, <1>3
<1>10. l = r
  BY <1>4, <1>6, <1>8, <1>9, IsThat
<1> QED
  BY <1>5, <1>7, <1>10 DEF l, r, c, h

LEMMA MatchReply ==
    ASSUME NEW K, NEW L, NEW g \in Seq(K), NEW u \in Seq(K), NEW d \in Seq(L), NEW x \in Seq(K),
           Matched(g, u, d, x), d # <<>>, NEW r \in K, r = Answer(Head(d))
    PROVE  Matched(g, u \o <<r>>, Tail(d), x)
<1> DEFINE v == Append(u, r)
           t == Tail(d)
<1>1. /\ u \o <<r>> = v /\ v \in Seq(K) /\ Len(v) = Len(u) + 1
      /\ (\A i \in 1 .. Len(u) : v[i] = u[i]) /\ v[Len(u) + 1] = r
  BY Added
<1>2. /\ Len(d) \in Nat /\ Len(d) > 0 /\ Head(d) = d[1] /\ t \in Seq(L) /\ Len(t) = Len(d) - 1
      /\ \A i \in 1 .. Len(d) - 1 : t[i] = d[i + 1]
  BY Taken
<1>3. Len(g) \in Nat /\ Len(u) \in Nat /\ Len(x) \in Nat
  BY LenProperties
<1> HIDE DEF v, t
<1>4. Len(g) + Len(v) + Len(t) = Len(x)
  <2>1. Len(g) + Len(u) + Len(d) = Len(x)
    BY DEF Matched
  <2>2. Len(v) = Len(u) + 1 /\ Len(t) = Len(d) - 1 /\ Len(v) \in Nat /\ Len(t) \in Nat
    BY <1>1, <1>2, LenProperties
  <2>3. Len(g) \in Nat /\ Len(u) \in Nat /\ Len(d) \in Nat /\ Len(x) \in Nat
    BY <1>2, <1>3
  <2>4. Len(g) + Len(v) + Len(t) = Len(g) + (Len(u) + 1) + (Len(d) - 1)
    BY <2>2
  <2>5. Len(g) + (Len(u) + 1) + (Len(d) - 1) = Len(g) + Len(u) + Len(d)
    BY <2>3
  <2> QED
    BY <2>1, <2>4, <2>5
<1>5. \A i \in 1 .. Len(g) : g[i] = x[i]
  BY DEF Matched
<1>6. \A i \in 1 .. Len(v) : v[i] = x[Len(g) + i]
  <2> SUFFICES ASSUME NEW i \in 1 .. Len(v) PROVE v[i] = x[Len(g) + i]
    OBVIOUS
  <2>1. CASE i <= Len(u)
    BY <2>1, <1>1, <1>3 DEF Matched
  <2>2. CASE i = Len(u) + 1
    <3>1. Answer(d[1]) = x[Len(g) + Len(u) + 1]
      BY <1>2, <1>3 DEF Matched
    <3>2. v[i] = Answer(d[1])
      BY <2>2, <1>1, <1>2
    <3>3. Len(g) + Len(u) + 1 = Len(g) + i
      BY <2>2, <1>3
    <3> QED
      BY <3>1, <3>2, <3>3
  <2> QED
    BY <2>1, <2>2, <1>1, <1>3
<1>7. \A i \in 1 .. Len(t) : Answer(t[i]) = x[Len(g) + Len(v) + i]
  <2> SUFFICES ASSUME NEW i \in 1 .. Len(t) PROVE Answer(t[i]) = x[Len(g) + Len(v) + i]
    OBVIOUS
  <2>1. i + 1 \in 1 .. Len(d) /\ t[i] = d[i + 1]
    BY <1>2
  <2>2. Answer(d[i + 1]) = x[Len(g) + Len(u) + (i + 1)]
    BY <2>1 DEF Matched
  <2>3. Len(g) + Len(u) + (i + 1) = Len(g) + Len(v) + i
    BY <1>1, <1>2, <1>3
  <2> QED
    BY <2>1, <2>2, <2>3
<1>8. Matched(g, v, t, x)
  BY <1>4, <1>5, <1>6, <1>7 DEF Matched
<1> QED
  BY <1>8, <1>1 DEF t

LEMMA MatchRead ==
    ASSUME NEW K, NEW L, NEW g \in Seq(K), NEW u \in Seq(K), NEW d \in Seq(L), NEW x \in Seq(K),
           Matched(g, u, d, x), u # <<>>
    PROVE  /\ Len(g) < Len(x) /\ Head(u) = x[Len(g) + 1] /\ Len(g) + 1 \in 1 .. Len(x)
           /\ Matched(Append(g, Head(u)), Tail(u), d, x)
<1> DEFINE h == Head(u)
           v == Append(g, h)
           t == Tail(u)
<1>2. /\ Len(u) \in Nat /\ Len(u) > 0 /\ h = u[1] /\ h \in K /\ t \in Seq(K) /\ Len(t) = Len(u) - 1
      /\ \A i \in 1 .. Len(u) - 1 : t[i] = u[i + 1]
  BY Taken
<1>3. Len(g) \in Nat /\ Len(d) \in Nat /\ Len(x) \in Nat
  BY LenProperties
<1>1. /\ v \in Seq(K) /\ Len(v) = Len(g) + 1
      /\ (\A i \in 1 .. Len(g) : v[i] = g[i]) /\ v[Len(g) + 1] = h
  BY <1>2, Added
<1> HIDE DEF v, t, h
<1>4. Len(v) + Len(t) + Len(d) = Len(x) /\ Len(g) < Len(x) /\ Len(g) + 1 \in 1 .. Len(x)
  <2>1. Len(g) + Len(u) + Len(d) = Len(x)
    BY DEF Matched
  <2>2. Len(v) = Len(g) + 1 /\ Len(t) = Len(u) - 1 /\ Len(u) > 0 /\ Len(v) \in Nat /\ Len(t) \in Nat
    BY <1>1, <1>2, LenProperties
  <2> QED
    <3>0. Len(g) \in Nat /\ Len(u) \in Nat /\ Len(d) \in Nat /\ Len(x) \in Nat
      BY <1>2, <1>3
    <3>1. Len(v) + Len(t) + Len(d) = Len(x)
      <4>1. Len(v) + Len(t) + Len(d) = (Len(g) + 1) + (Len(u) - 1) + Len(d)
        BY <2>2
      <4>2. (Len(g) + 1) + (Len(u) - 1) + Len(d) = Len(g) + Len(u) + Len(d)
        BY <3>0
      <4> QED
        BY <2>1, <4>1, <4>2
    <3>2. Len(g) < Len(x) /\ Len(g) + 1 \in 1 .. Len(x)
      BY <2>1, <2>2, <1>2, <1>3
    <3> QED
      BY <3>1, <3>2
<1>5. h = x[Len(g) + 1]
  BY <1>2 DEF Matched
<1>6. \A i \in 1 .. Len(v) : v[i] = x[i]
  <2> SUFFICES ASSUME NEW i \in 1 .. Len(v) PROVE v[i] = x[i]
    OBVIOUS
  <2>1. CASE i <= Len(g)
    BY <2>1, <1>1, <1>3 DEF Matched
  <2>2. CASE i = Len(g) + 1
    BY <2>2, <1>1, <1>5
  <2> QED
    BY <2>1, <2>2, <1>1, <1>3
<1>7. \A i \in 1 .. Len(t) : t[i] = x[Len(v) + i]
  <2> SUFFICES ASSUME NEW i \in 1 .. Len(t) PROVE t[i] = x[Len(v) + i]
    OBVIOUS
  <2>1. i + 1 \in 1 .. Len(u) /\ t[i] = u[i + 1]
    BY <1>2
  <2>2. u[i + 1] = x[Len(g) + (i + 1)]
    BY <2>1 DEF Matched
  <2>3. Len(g) + (i + 1) = Len(v) + i
    BY <1>1, <1>2, <1>3
  <2> QED
    BY <2>1, <2>2, <2>3
<1>8. \A i \in 1 .. Len(d) : Answer(d[i]) = x[Len(v) + Len(t) + i]
  <2>1. Len(v) + Len(t) = Len(g) + Len(u)
    BY <1>1, <1>2, <1>3
  <2> QED
    BY <2>1 DEF Matched
<1>9. Matched(v, t, d, x)
  BY <1>4, <1>6, <1>7, <1>8 DEF Matched
<1> QED
  BY <1>4, <1>5, <1>9 DEF v, t, h

LEMMA MatchAsk ==
    ASSUME NEW K, NEW L, NEW g \in Seq(K), NEW u \in Seq(K), NEW d \in Seq(L), NEW x \in Seq(K),
           Matched(g, u, d, x), NEW c \in L, NEW r \in K, r = Answer(c)
    PROVE  Matched(g, u, d \o <<c>>, Append(x, r))
<1> DEFINE v == Append(d, c)
           y == Append(x, r)
<1>1. d \o <<c>> = v /\ v \in Seq(L) /\ Len(v) = Len(d) + 1 /\ (\A i \in 1 .. Len(d) : v[i] = d[i]) /\ v[Len(d) + 1] = c
  BY Added
<1>2. y \in Seq(K) /\ Len(y) = Len(x) + 1 /\ (\A i \in 1 .. Len(x) : y[i] = x[i]) /\ y[Len(x) + 1] = r
  BY Added
<1>3. Len(g) \in Nat /\ Len(u) \in Nat /\ Len(d) \in Nat /\ Len(x) \in Nat
  BY LenProperties
<1> HIDE DEF v, y
<1>4. Len(g) + Len(u) + Len(d) = Len(x)
  BY DEF Matched
<1>5. Len(g) + Len(u) + Len(v) = Len(y)
  <2>1. Len(v) = Len(d) + 1 /\ Len(y) = Len(x) + 1 /\ Len(v) \in Nat /\ Len(y) \in Nat
    BY <1>1, <1>2, LenProperties
  <2> QED
    BY <2>1, <1>4
<1>6. \A i \in 1 .. Len(g) : g[i] = y[i]
  <2> SUFFICES ASSUME NEW i \in 1 .. Len(g) PROVE g[i] = y[i]
    OBVIOUS
  <2>1. i \in 1 .. Len(x)
    BY <1>3, <1>4
  <2> QED
    BY <2>1, <1>2 DEF Matched
<1>7. \A i \in 1 .. Len(u) : u[i] = y[Len(g) + i]
  <2> SUFFICES ASSUME NEW i \in 1 .. Len(u) PROVE u[i] = y[Len(g) + i]
    OBVIOUS
  <2>1. Len(g) + i \in 1 .. Len(x)
    BY <1>3, <1>4
  <2> QED
    BY <2>1, <1>2 DEF Matched
<1>8. \A i \in 1 .. Len(v) : Answer(v[i]) = y[Len(g) + Len(u) + i]
  <2> SUFFICES ASSUME NEW i \in 1 .. Len(v) PROVE Answer(v[i]) = y[Len(g) + Len(u) + i]
    OBVIOUS
  <2>1. CASE i <= Len(d)
    <3>1. Len(g) + Len(u) + i \in 1 .. Len(x) /\ i \in 1 .. Len(d)
      BY <2>1, <1>3, <1>4
    <3> QED
      BY <3>1, <1>1, <1>2 DEF Matched
  <2>2. CASE i = Len(d) + 1
    <3>1. Len(g) + Len(u) + i = Len(x) + 1
      BY <2>2, <1>3, <1>4
    <3> QED
      BY <2>2, <3>1, <1>1, <1>2
  <2> QED
    BY <2>1, <2>2, <1>1, <1>3
<1>9. Matched(g, u, v, y)
  BY <1>5, <1>6, <1>7, <1>8 DEF Matched
<1> QED
  BY <1>9, <1>1 DEF y

LEMMA MatchFull ==
    ASSUME NEW K, NEW L, NEW g \in Seq(K), NEW u \in Seq(K), NEW d \in Seq(L), NEW x \in Seq(K),
           Matched(g, u, d, x), Len(g) = Len(x)
    PROVE  g = x /\ u = <<>> /\ d = <<>>
<1>1. Len(g) \in Nat /\ Len(u) \in Nat /\ Len(d) \in Nat /\ Len(x) \in Nat
  BY LenProperties
<1>2. Len(u) = 0 /\ Len(d) = 0
  BY <1>1 DEF Matched
<1>3. g = x
  BY IsThat DEF Matched
<1> QED
  BY <1>2, <1>3, EmptySeq

LEMMA MatchNone ==
    ASSUME NEW K, NEW L, NEW g \in Seq(K), NEW u \in Seq(K), NEW d \in Seq(L), Matched(g, u, d, <<>>)
    PROVE  g = <<>> /\ u = <<>> /\ d = <<>>
<1>1. Len(g) \in Nat /\ Len(u) \in Nat /\ Len(d) \in Nat /\ Len(<<>>) = 0
  BY LenProperties
<1>2. Len(g) = 0 /\ Len(u) = 0 /\ Len(d) = 0
  BY <1>1 DEF Matched
<1> QED
  BY <1>2, EmptySeq

LEMMA NothingMatches == Matched(<<>>, <<>>, <<>>, <<>>)
  BY DEF Matched

-----------------------------------------------------------------------------
(* Types.                                                                  *)

PlainCommands ==
    {"alive", "set_metadata_path", "clear_preloaded_eclasses", "process_ebuild", "shutdown_daemon",
     "start_receiving_env", "logging", "set_sandbox_state", "start_processing", "ebd?", "sandbox?",
     "path", "status", "error", "end_request"}
DownLines ==
    [cmd : PlainCommands, arg : {None}] \cup [cmd : {"gen"}, arg : Pkgs] \cup [cmd : {"preload"}, arg : Eclasses]

PlainReports ==
    {"ebd!", "readonly", "yep!", "metadata_path_received", "clear_preloaded_eclasses succeeded",
     "clear_preload_eclasses succeeded", "preload_eclass succeeded", "preload_eclass failed", "dying",
     "error text", "dead", "env_received", "env_receiving_failed", "logging_ack", "ipc",
     "request_bashrcs", "next", "failed", "__request_sandbox_summary", "none"}
UpLines ==
    [cmd : PlainReports, arg : {None}] \cup [cmd : {"key"}, arg : Pkgs]
      \cup [cmd : {"request_inherit"}, arg : AllEclasses]
      \cup [cmd : {"phases"}, arg : {"succeeded", "failed"}]

\* The lines Python waits for.
Hopes ==
    {"ebd!", "readonly", "yep!", "metadata_path_received", "preload_eclass succeeded", "env_received",
     "logging_ack", "next", "clear_preload_eclasses succeeded"}
Hoped == [cmd : Hopes, arg : {None}]

Places ==
    {"idle", "expect", "dying", "raise", "stop", "release", "released", "requested", "hello", "spawned",
     "path", "sync", "synced", "handler", "bashrc", "env", "logging", "clear", "cleared", "down", "wait",
     "returned", "forget"}
Conts ==
    {"hello", "spawned", "requested", "path", "synced", "handler", "bashrc", "env", "logging", "clear",
     "cleared", "down"}
Ats == {"boot", "main", "phases", "job", "inherit", "ipc", "bashrcs", "summary", "exited"}

Processors ==
    [listed : {"new", "active", "inactive", "dropped"}, proc : BOOLEAN, locked : BOOLEAN,
     expects : Seq(Hoped), known : SUBSET Eclasses, paths : BOOLEAN, fds : BOOLEAN, timer : BOOLEAN]
Daemons == [at : Ats, src : Pkgs \cup {None}, left : SUBSET AllEclasses, known : SUBSET Eclasses]
Results == [by : Holders \cup {"none"}, p : Pkgs \cup {None}, keys : SUBSET Pkgs]

PipesTyped == down \in Seq(DownLines) /\ up \in Seq(UpLines) /\ open \in BOOLEAN
PyTyped ==
    /\ py \in Places /\ cont \in Conts \cup {"idle"} /\ closer \in {"idle", "release", "released"}
    /\ val \in BOOLEAN /\ got \in Seq(UpLines) /\ err \in ErrKinds
JobTyped ==
    /\ holder \in Holders \cup {"none"} /\ wanted \in BOOLEAN
    /\ job \in Pkgs \cup {None, "strict", "lenient"}
    /\ keys \subseteq Pkgs /\ updates \subseteq Eclasses /\ result \in Results
Typed == PipesTyped /\ PyTyped /\ JobTyped /\ ebp \in Processors /\ ebd \in Daemons

\* In an exchange of lines, or upon them, it is at one of these.
Within(where) == py \in where \/ (py \in {"expect", "dying"} /\ cont \in where)

\* Metadata is asked of a helper's or reader's processor, phases are run on another.
Assigned ==
    /\ Within({"path"}) => holder \in {"helper", "reader"} /\ job \in Pkgs
    /\ Within({"sync", "synced", "handler"}) =>
         holder = "phase" \/ (holder \in {"helper", "reader"} /\ job \in Pkgs)
    /\ Within({"env", "logging", "bashrc"}) => holder = "phase"

\* Who goes on after a wait knows where.
Led ==
    /\ py \in {"expect", "dying"} => cont # "idle"
    /\ Within({"down", "wait"}) => closer # "idle"

\* The lock is held in the handshake and in a handler only.
Locked == ebp.locked => Within({"hello", "spawned", "synced", "handler", "bashrc"})

Always == Typed /\ Assigned /\ Led /\ Locked /\ ProcessIsGone

LEMMA PlainLines ==
    /\ \A c \in PlainCommands : Line(c) \in DownLines
    /\ \A c \in PlainReports : Line(c) \in UpLines
  BY DEF Line, Msg, DownLines, UpLines

LEMMA OtherLines ==
    /\ \A p \in Pkgs : Msg("gen", p) \in DownLines
    /\ \A e \in Eclasses : Msg("preload", e) \in DownLines
    /\ \A p \in Pkgs : Msg("key", p) \in UpLines
    /\ \A e \in AllEclasses : Msg("request_inherit", e) \in UpLines
    /\ Phases("succeeded") \in UpLines /\ Phases("failed") \in UpLines
  BY DEF Phases, Msg, DownLines, UpLines

LEMMA Sent ==
    ASSUME NEW S, NEW s \in Seq(S), NEW a \in S, NEW b \in S, NEW c \in S, NEW d \in S, NEW e \in S
    PROVE  /\ s \o <<a>> \in Seq(S) /\ s \o <<a, b>> \in Seq(S)
           /\ s \o <<a, b, c>> \in Seq(S) /\ s \o <<a, b, c, d>> \in Seq(S) /\ s \o <<a, b, c, d, e>> \in Seq(S)
           /\ Append(s, a) \in Seq(S) /\ <<a>> \in Seq(S) /\ <<>> \in Seq(S)
<1>1. <<a>> \in Seq(S) /\ <<a, b>> \in Seq(S) /\ <<a, b, c>> \in Seq(S) /\ <<a, b, c, d>> \in Seq(S) /\ <<a, b, c, d, e>> \in Seq(S)
      /\ <<>> \in Seq(S)
  OBVIOUS
<1> QED
  BY <1>1, ConcatProperties, AppendProperties

LEMMA Sending ==
    /\ \A s \in Seq(DownLines), a \in DownLines : s \o <<a>> \in Seq(DownLines)
    /\ \A s \in Seq(DownLines), a, b \in DownLines : s \o <<a, b>> \in Seq(DownLines)
    /\ \A s \in Seq(DownLines) : s # <<>> => Head(s) \in DownLines /\ Tail(s) \in Seq(DownLines)
    /\ <<>> \in Seq(DownLines)
    /\ \A a \in DownLines : <<a>> \in Seq(DownLines)
  BY Sent, Taken

LEMMA Writing ==
    /\ \A s \in Seq(UpLines), a \in UpLines : s \o <<a>> \in Seq(UpLines) /\ Append(s, a) \in Seq(UpLines)
    /\ \A s \in Seq(UpLines), a, b \in UpLines : s \o <<a, b>> \in Seq(UpLines)
    /\ \A s \in Seq(UpLines), a, b, c \in UpLines : s \o <<a, b, c>> \in Seq(UpLines)
    /\ \A s \in Seq(UpLines), a, b, c, d \in UpLines : s \o <<a, b, c, d>> \in Seq(UpLines)
    /\ \A s \in Seq(UpLines), a, b, c, d, e \in UpLines : s \o <<a, b, c, d, e>> \in Seq(UpLines)
    /\ \A s \in Seq(UpLines) : s # <<>> => Head(s) \in UpLines /\ Tail(s) \in Seq(UpLines)
    /\ <<>> \in Seq(UpLines)
    /\ \A a \in UpLines : <<a>> \in Seq(UpLines)
  BY Sent, Taken

\* The lines that are sent, expected and written.
LEMMA SendsTyped ==
    ASSUME PipesTyped
    PROVE  /\ <<>> \in Seq(DownLines) /\ <<Line("ebd?")>> \in Seq(DownLines)
           /\ down # <<>> => Tail(down) \in Seq(DownLines) /\ Head(down) \in DownLines
           /\ \A p \in Pkgs : down \o <<Msg("gen", p)>> \in Seq(DownLines)
           /\ \A e \in Eclasses : down \o <<Msg("preload", e)>> \in Seq(DownLines)
           /\ down \o <<Line("alive")>> \in Seq(DownLines)
           /\ down \o <<Line("sandbox?")>> \in Seq(DownLines)
           /\ down \o <<Line("set_metadata_path")>> \in Seq(DownLines)
           /\ down \o <<Line("path")>> \in Seq(DownLines)
           /\ down \o <<Line("status")>> \in Seq(DownLines)
           /\ down \o <<Line("end_request")>> \in Seq(DownLines)
           /\ down \o <<Line("error")>> \in Seq(DownLines)
           /\ down \o <<Line("shutdown_daemon")>> \in Seq(DownLines)
           /\ down \o <<Line("clear_preloaded_eclasses")>> \in Seq(DownLines)
           /\ down \o <<Line("start_processing")>> \in Seq(DownLines)
           /\ down \o <<Line("process_ebuild")>> \in Seq(DownLines)
           /\ down \o <<Line("process_ebuild"), Line("start_receiving_env")>> \in Seq(DownLines)
           /\ down \o <<Line("set_sandbox_state"), Line("logging")>> \in Seq(DownLines)
           /\ down \o <<Line("set_sandbox_state"), Line("start_processing")>> \in Seq(DownLines)
<1>1. \A c \in PlainCommands : down \o <<Line(c)>> \in Seq(DownLines)
  BY PlainLines, Sending DEF PipesTyped
<1>2. \A b, c \in PlainCommands : down \o <<Line(b), Line(c)>> \in Seq(DownLines)
  BY PlainLines, Sending DEF PipesTyped
<1>3. <<>> \in Seq(DownLines) /\ \A c \in PlainCommands : <<Line(c)>> \in Seq(DownLines)
  BY PlainLines, Sending
<1>4. down # <<>> => Tail(down) \in Seq(DownLines) /\ Head(down) \in DownLines
  BY Sending DEF PipesTyped
<1>5. /\ \A p \in Pkgs : down \o <<Msg("gen", p)>> \in Seq(DownLines)
      /\ \A e \in Eclasses : down \o <<Msg("preload", e)>> \in Seq(DownLines)
  BY OtherLines, Sending DEF PipesTyped
<1>6. {"ebd?", "alive", "sandbox?", "set_metadata_path", "path", "status", "end_request", "error",
       "shutdown_daemon", "clear_preloaded_eclasses", "start_processing", "process_ebuild",
       "start_receiving_env", "set_sandbox_state", "logging"} \subseteq PlainCommands
  BY DEF PlainCommands
<1> QED
  BY <1>1, <1>2, <1>3, <1>4, <1>5, <1>6, Zenon

LEMMA HopedLines ==
    /\ \A c \in Hopes : Line(c) \in Hoped
    /\ Hoped \subseteq UpLines
    /\ \A s \in Seq(Hoped) : s \in Seq(UpLines)
    /\ \A l \in Hoped : l.cmd # "dying"
<1>1. /\ \A c \in Hopes : Line(c) \in Hoped
      /\ \A l \in Hoped : l.cmd # "dying"
  BY DEF Line, Msg, Hoped, Hopes
<1>2. Hoped \subseteq UpLines
  BY DEF Hoped, UpLines, Hopes, PlainReports
<1> HIDE DEF Hoped, UpLines
<1>3. \A s \in Seq(Hoped) : s \in Seq(UpLines)
  BY <1>2, SeqDef
<1> QED
  BY <1>1, <1>2, <1>3

LEMMA ExpectsTyped ==
    ASSUME ebp \in Processors
    PROVE  /\ <<>> \in Seq(Hoped) /\ <<Line("ebd!")>> \in Seq(Hoped) /\ ebp.expects \in Seq(Hoped)
           /\ Append(ebp.expects, Line("ebd!")) \in Seq(Hoped)
           /\ Append(ebp.expects, Line("yep!")) \in Seq(Hoped)
           /\ Append(ebp.expects, Line("readonly")) \in Seq(Hoped)
           /\ Append(ebp.expects, Line("metadata_path_received")) \in Seq(Hoped)
           /\ Append(ebp.expects, Line("next")) \in Seq(Hoped)
           /\ Append(ebp.expects, Line("preload_eclass succeeded")) \in Seq(Hoped)
           /\ Append(ebp.expects, Line("env_received")) \in Seq(Hoped)
           /\ Append(ebp.expects, Line("logging_ack")) \in Seq(Hoped)
           /\ Append(ebp.expects, Line("clear_preload_eclasses succeeded")) \in Seq(Hoped)
<1>1. ebp.expects \in Seq(Hoped)
  BY DEF Processors
<1>2. \A c \in Hopes : Append(ebp.expects, Line(c)) \in Seq(Hoped) /\ <<Line(c)>> \in Seq(Hoped)
  BY <1>1, HopedLines, Sent
<1>3. {"ebd!", "yep!", "readonly", "metadata_path_received", "next", "preload_eclass succeeded", "env_received", "logging_ack", "clear_preload_eclasses succeeded"} \subseteq Hopes
  BY DEF Hopes
<1>4. <<>> \in Seq(Hoped)
  OBVIOUS
<1> QED
  BY <1>1, <1>2, <1>3, <1>4, Zenon

LEMMA WritesTyped ==
    ASSUME PipesTyped
    PROVE  /\ <<>> \in Seq(UpLines) /\ up # <<>> => Tail(up) \in Seq(UpLines) /\ Head(up) \in UpLines
           /\ \A e \in AllEclasses : up \o <<Msg("request_inherit", e)>> \in Seq(UpLines)
           /\ \A p \in Pkgs : up \o <<Msg("key", p), Phases("succeeded")>> \in Seq(UpLines)
           /\ up \o <<Phases("succeeded")>> \in Seq(UpLines)
           /\ up \o <<Phases("failed")>> \in Seq(UpLines)
           /\ up \o <<Line("env_receiving_failed"), Phases("failed")>> \in Seq(UpLines)
           /\ up \o <<Line("dying"), Line("error text"), Line("dead")>> \in Seq(UpLines)
           /\ up \o <<Line("dying"), Line("error text"), Line("dead"), Phases("failed")>> \in Seq(UpLines)
           /\ up \o <<Line("failed"), Line("dying"), Line("error text"), Line("dead"), Phases("failed")>>
                \in Seq(UpLines)
           /\ up \o <<Line("ebd!")>> \in Seq(UpLines)
           /\ up \o <<Line("yep!")>> \in Seq(UpLines)
           /\ up \o <<Line("readonly")>> \in Seq(UpLines)
           /\ up \o <<Line("metadata_path_received")>> \in Seq(UpLines)
           /\ up \o <<Line("clear_preloaded_eclasses succeeded")>> \in Seq(UpLines)
           /\ up \o <<Line("preload_eclass succeeded")>> \in Seq(UpLines)
           /\ up \o <<Line("preload_eclass failed")>> \in Seq(UpLines)
           /\ up \o <<Line("logging_ack")>> \in Seq(UpLines)
           /\ up \o <<Line("env_received")>> \in Seq(UpLines)
           /\ up \o <<Line("ipc")>> \in Seq(UpLines)
           /\ up \o <<Line("request_bashrcs")>> \in Seq(UpLines)
           /\ up \o <<Line("next")>> \in Seq(UpLines)
           /\ up \o <<Line("__request_sandbox_summary")>> \in Seq(UpLines)
<1>1. /\ \A c \in PlainReports : Line(c) \in UpLines
      /\ \A c \in PlainReports : up \o <<Line(c)>> \in Seq(UpLines)
  BY PlainLines, Writing DEF PipesTyped
<1>2. {"dying", "error text", "dead", "failed", "env_receiving_failed", "ebd!", "yep!", "readonly", "metadata_path_received", "clear_preloaded_eclasses succeeded", "preload_eclass succeeded", "preload_eclass failed", "logging_ack", "env_received", "ipc", "request_bashrcs", "next", "__request_sandbox_summary"} \subseteq PlainReports
  BY DEF PlainReports
<1>3. /\ <<>> \in Seq(UpLines)
      /\ up # <<>> => Tail(up) \in Seq(UpLines) /\ Head(up) \in UpLines
  BY Writing DEF PipesTyped
<1>4. /\ Line("dying") \in UpLines /\ Line("error text") \in UpLines /\ Line("dead") \in UpLines
      /\ Line("failed") \in UpLines /\ Line("env_receiving_failed") \in UpLines
  BY <1>1, <1>2, Zenon
<1>5. /\ \A e \in AllEclasses : up \o <<Msg("request_inherit", e)>> \in Seq(UpLines)
      /\ \A p \in Pkgs : up \o <<Msg("key", p), Phases("succeeded")>> \in Seq(UpLines)
      /\ up \o <<Phases("succeeded")>> \in Seq(UpLines)
      /\ up \o <<Phases("failed")>> \in Seq(UpLines)
      /\ up \o <<Line("env_receiving_failed"), Phases("failed")>> \in Seq(UpLines)
  BY <1>4, OtherLines, Writing DEF PipesTyped
<1>6. up \o <<Line("dying"), Line("error text"), Line("dead")>> \in Seq(UpLines)
  BY <1>4, Writing DEF PipesTyped
<1>7. /\ up \o <<Line("dying"), Line("error text"), Line("dead"), Phases("failed")>> \in Seq(UpLines)
      /\ up \o <<Line("failed"), Line("dying"), Line("error text"), Line("dead"), Phases("failed")>> \in Seq(UpLines)
  BY <1>4, OtherLines, Writing DEF PipesTyped
<1> QED
  BY <1>1, <1>2, <1>3, <1>5, <1>6, <1>7, Zenon

LEMMA ReadsTyped ==
    ASSUME PipesTyped
    PROVE  /\ <<>> \in Seq(UpLines) /\ <<>> \in Seq(DownLines)
           /\ up # <<>> => Tail(up) \in Seq(UpLines)
           /\ down # <<>> => Tail(down) \in Seq(DownLines)
  BY Sending, Writing DEF PipesTyped

LEMMA Meant ==
    /\ \A l \in DownLines : /\ l.cmd = "gen" => l.arg \in Pkgs
                            /\ l.cmd = "preload" => l.arg \in Eclasses
    /\ \A l \in UpLines : /\ l.cmd = "key" => l.arg \in Pkgs
                          /\ l.cmd = "request_inherit" => l.arg \in AllEclasses
                          /\ l.cmd = "phases" => l.arg \in {"succeeded", "failed"}
  BY DEF DownLines, UpLines, PlainCommands, PlainReports

-----------------------------------------------------------------------------
(* What always holds.  One lemma per action.                               *)

LEMMA RequestAlways ==
    ASSUME ConstantsAssumption, NEW h \in Holders, NEW fds \in BOOLEAN, Always, Request(h, fds)
    PROVE  Always'
<1> USE DEF Request, AskAlive, Spawn, Send, Goto, Fresh, Boot, pyvars, taskvars, jobvars
<1>1. PipesTyped'
  <2>1. PipesTyped
    BY DEF Always, Typed
  <2> QED
    BY <2>1, SendsTyped, ReadsTyped DEF PipesTyped
<1>2. PyTyped'
  BY Writing DEF Always, Typed, PipesTyped, PyTyped, ErrKinds, Places, Conts
<1>3. JobTyped'
  BY DEF Always, Typed, JobTyped, Assigned, Within, Results, Holders
<1>4. (ebp \in Processors)' /\ (Locked /\ ProcessIsGone)'
  <2>1. ebp \in Processors /\ ebd \in Daemons
    BY DEF Always, Typed
  <2> QED
    BY <2>1, ExpectsTyped DEF Always, Typed, PyTyped, Processors, Daemons, Ats, Locked, Within, ProcessIsGone
<1>5. (ebd \in Daemons)'
  BY DEF Always, Typed, PipesTyped, Daemons, Ats
<1>6. (Assigned /\ Led)'
  BY DEF Always, Typed, PyTyped, JobTyped, Assigned, Led, Within, Holders, Places, Conts
<1> QED
  BY <1>1, <1>2, <1>3, <1>4, <1>5, <1>6 DEF Always, Typed

LEMMA GenAlways ==
    ASSUME ConstantsAssumption, NEW p \in Pkgs, Always, Gen(p)
    PROVE  Always'
<1> USE DEF Gen, Holding, Send, Expect, SendGen, Goto, pyvars, taskvars, jobvars
<1>1. PipesTyped'
  <2>1. PipesTyped
    BY DEF Always, Typed
  <2> QED
    BY <2>1, SendsTyped, ReadsTyped DEF PipesTyped
<1>2. PyTyped'
  BY Writing DEF Always, Typed, PipesTyped, PyTyped, ErrKinds, Places, Conts
<1>3. JobTyped'
  BY DEF Always, Typed, JobTyped, Assigned, Within, Results, Holders
<1>4. (ebp \in Processors)' /\ (Locked /\ ProcessIsGone)'
  <2>1. ebp \in Processors /\ ebd \in Daemons
    BY DEF Always, Typed
  <2> QED
    BY <2>1, ExpectsTyped DEF Always, Typed, PyTyped, Processors, Daemons, Ats, Locked, Within, ProcessIsGone
<1>5. (ebd \in Daemons)'
  BY DEF Always, Typed, PipesTyped, Daemons, Ats
<1>6. (Assigned /\ Led)'
  BY DEF Always, Typed, PyTyped, JobTyped, Assigned, Led, Within, Holders, Places, Conts
<1> QED
  BY <1>1, <1>2, <1>3, <1>4, <1>5, <1>6 DEF Always, Typed

LEMMA PhaseAlways ==
    ASSUME ConstantsAssumption, NEW how \in {"strict", "lenient"}, Always, Phase(how)
    PROVE  Always'
<1> USE DEF Phase, Holding, Send, Expect, Raise, Goto, pyvars, taskvars, jobvars
<1>1. PipesTyped'
  <2>1. PipesTyped
    BY DEF Always, Typed
  <2> QED
    BY <2>1, SendsTyped, ReadsTyped DEF PipesTyped
<1>2. PyTyped'
  BY Writing DEF Always, Typed, PipesTyped, PyTyped, ErrKinds, Places, Conts
<1>3. JobTyped'
  BY DEF Always, Typed, JobTyped, Assigned, Within, Results, Holders
<1>4. (ebp \in Processors)' /\ (Locked /\ ProcessIsGone)'
  <2>1. ebp \in Processors /\ ebd \in Daemons
    BY DEF Always, Typed
  <2> QED
    BY <2>1, ExpectsTyped DEF Always, Typed, PyTyped, Processors, Daemons, Ats, Locked, Within, ProcessIsGone
<1>5. (ebd \in Daemons)'
  BY DEF Always, Typed, PipesTyped, Daemons, Ats
<1>6. (Assigned /\ Led)'
  BY DEF Always, Typed, PyTyped, JobTyped, Assigned, Led, Within, Holders, Places, Conts
<1> QED
  BY <1>1, <1>2, <1>3, <1>4, <1>5, <1>6 DEF Always, Typed

LEMMA FinishAlways ==
    ASSUME ConstantsAssumption, Always, Finish
    PROVE  Always'
<1> USE DEF Finish, Holding, AskAlive, Send, Goto, pyvars, taskvars, jobvars
<1>1. PipesTyped'
  <2>1. PipesTyped
    BY DEF Always, Typed
  <2> QED
    BY <2>1, SendsTyped, ReadsTyped DEF PipesTyped
<1>2. PyTyped'
  BY Writing DEF Always, Typed, PipesTyped, PyTyped, ErrKinds, Places, Conts
<1>3. JobTyped'
  BY DEF Always, Typed, JobTyped, Assigned, Within, Results, Holders
<1>4. (ebp \in Processors)' /\ (Locked /\ ProcessIsGone)'
  <2>1. ebp \in Processors /\ ebd \in Daemons
    BY DEF Always, Typed
  <2> QED
    BY <2>1, ExpectsTyped DEF Always, Typed, PyTyped, Processors, Daemons, Ats, Locked, Within, ProcessIsGone
<1>5. (ebd \in Daemons)'
  BY DEF Always, Typed, PipesTyped, Daemons, Ats
<1>6. (Assigned /\ Led)'
  BY DEF Always, Typed, PyTyped, JobTyped, Assigned, Led, Within, Holders, Places, Conts
<1> QED
  BY <1>1, <1>2, <1>3, <1>4, <1>5, <1>6 DEF Always, Typed

LEMMA ReadExpectedAlways ==
    ASSUME ConstantsAssumption, Always, ReadExpected
    PROVE  Always'
<1> USE DEF ReadExpected, Goto, pyvars, taskvars, jobvars
<1>1. PipesTyped'
  <2>1. PipesTyped
    BY DEF Always, Typed
  <2> QED
    BY <2>1, SendsTyped, ReadsTyped DEF PipesTyped
<1>2. PyTyped'
  <2>1. up # <<>> => Head(up) \in UpLines
    <3>1. PipesTyped
      BY DEF Always, Typed
    <3> QED
      BY <3>1, Writing DEF PipesTyped
  <2>2. up # <<>> => Append(got, Head(up)) \in Seq(UpLines)
    BY <2>1, Writing DEF Always, Typed, PyTyped
  <2> QED
    BY <2>2 DEF Always, Typed, PyTyped, Places
<1>3. JobTyped'
  BY DEF Always, Typed, JobTyped, Assigned, Within, Results, Holders
<1>4. (ebp \in Processors)' /\ (Locked /\ ProcessIsGone)'
  <2>1. ebp \in Processors /\ ebd \in Daemons
    BY DEF Always, Typed
  <2> QED
    BY <2>1, ExpectsTyped DEF Always, Typed, PyTyped, Processors, Daemons, Ats, Locked, Within, ProcessIsGone
<1>5. (ebd \in Daemons)'
  BY DEF Always, Typed, PipesTyped, Daemons, Ats
<1>6. (Assigned /\ Led)'
  BY DEF Always, Typed, PyTyped, JobTyped, Assigned, Led, Within, Holders, Places, Conts
<1> QED
  BY <1>1, <1>2, <1>3, <1>4, <1>5, <1>6 DEF Always, Typed

LEMMA ExpectedAlways ==
    ASSUME ConstantsAssumption, Always, Expected
    PROVE  Always'
<1> USE DEF Expected, Disarmed, Goto, pyvars, taskvars, jobvars
<1>1. PipesTyped'
  <2>1. PipesTyped
    BY DEF Always, Typed
  <2> QED
    BY <2>1, SendsTyped, ReadsTyped DEF PipesTyped
<1>2. PyTyped'
  BY Writing DEF Always, Typed, PipesTyped, PyTyped, ErrKinds, Places, Conts
<1>3. JobTyped'
  BY DEF Always, Typed, JobTyped, Assigned, Within, Results, Holders
<1>4. (ebp \in Processors)' /\ (Locked /\ ProcessIsGone)'
  <2>1. ebp \in Processors /\ ebd \in Daemons
    BY DEF Always, Typed
  <2> QED
    BY <2>1, ExpectsTyped DEF Always, Typed, PyTyped, Processors, Daemons, Ats, Locked, Within, ProcessIsGone
<1>5. (ebd \in Daemons)'
  BY DEF Always, Typed, PipesTyped, Daemons, Ats
<1>6. (Assigned /\ Led)'
  BY DEF Always, Typed, PyTyped, JobTyped, Assigned, Led, Within, Holders, Places, Conts
<1> QED
  BY <1>1, <1>2, <1>3, <1>4, <1>5, <1>6 DEF Always, Typed

LEMMA TimesOutAlways ==
    ASSUME ConstantsAssumption, Always, TimesOut
    PROVE  Always'
<1> USE DEF TimesOut, Raise, Goto, pyvars, taskvars, jobvars
<1>1. PipesTyped'
  <2>1. PipesTyped
    BY DEF Always, Typed
  <2> QED
    BY <2>1, SendsTyped, ReadsTyped DEF PipesTyped
<1>2. PyTyped'
  BY Writing DEF Always, Typed, PipesTyped, PyTyped, ErrKinds, Places, Conts
<1>3. JobTyped'
  BY DEF Always, Typed, JobTyped, Assigned, Within, Results, Holders
<1>4. (ebp \in Processors)' /\ (Locked /\ ProcessIsGone)'
  <2>1. ebp \in Processors /\ ebd \in Daemons
    BY DEF Always, Typed
  <2> QED
    BY <2>1, ExpectsTyped DEF Always, Typed, PyTyped, Processors, Daemons, Ats, Locked, Within, ProcessIsGone
<1>5. (ebd \in Daemons)'
  BY DEF Always, Typed, PipesTyped, Daemons, Ats
<1>6. (Assigned /\ Led)'
  BY DEF Always, Typed, PyTyped, JobTyped, Assigned, Led, Within, Holders, Places, Conts
<1> QED
  BY <1>1, <1>2, <1>3, <1>4, <1>5, <1>6 DEF Always, Typed

LEMMA DyingAlways ==
    ASSUME ConstantsAssumption, Always, Dying
    PROVE  Always'
<1> USE DEF Dying, Dropped, Disarmed, Killed, Raise, pyvars, taskvars, jobvars
<1>1. PipesTyped'
  <2>1. PipesTyped
    BY DEF Always, Typed
  <2> QED
    BY <2>1, SendsTyped, ReadsTyped DEF PipesTyped
<1>2. PyTyped'
  BY Writing DEF Always, Typed, PipesTyped, PyTyped, ErrKinds, Places, Conts
<1>3. JobTyped'
  BY DEF Always, Typed, JobTyped, Assigned, Within, Results, Holders
<1>4. (ebp \in Processors)' /\ (Locked /\ ProcessIsGone)'
  <2>1. ebp \in Processors /\ ebd \in Daemons
    BY DEF Always, Typed
  <2> QED
    BY <2>1, ExpectsTyped DEF Always, Typed, PyTyped, Processors, Daemons, Ats, Locked, Within, ProcessIsGone
<1>5. (ebd \in Daemons)'
  BY DEF Always, Typed, PipesTyped, Daemons, Ats
<1>6. (Assigned /\ Led)'
  BY DEF Always, Typed, PyTyped, JobTyped, Assigned, Led, Within, Holders, Places, Conts
<1> QED
  BY <1>1, <1>2, <1>3, <1>4, <1>5, <1>6 DEF Always, Typed

LEMMA HelloAlways ==
    ASSUME ConstantsAssumption, Always, Hello
    PROVE  Always'
<1> USE DEF Hello, Send, Expect, Goto, pyvars, taskvars, jobvars
<1>1. PipesTyped'
  <2>1. PipesTyped
    BY DEF Always, Typed
  <2> QED
    BY <2>1, SendsTyped, ReadsTyped DEF PipesTyped
<1>2. PyTyped'
  BY Writing DEF Always, Typed, PipesTyped, PyTyped, ErrKinds, Places, Conts
<1>3. JobTyped'
  BY DEF Always, Typed, JobTyped, Assigned, Within, Results, Holders
<1>4. (ebp \in Processors)' /\ (Locked /\ ProcessIsGone)'
  <2>1. ebp \in Processors /\ ebd \in Daemons
    BY DEF Always, Typed
  <2> QED
    BY <2>1, ExpectsTyped DEF Always, Typed, PyTyped, Processors, Daemons, Ats, Locked, Within, ProcessIsGone
<1>5. (ebd \in Daemons)'
  BY DEF Always, Typed, PipesTyped, Daemons, Ats
<1>6. (Assigned /\ Led)'
  BY DEF Always, Typed, PyTyped, JobTyped, Assigned, Led, Within, Holders, Places, Conts
<1> QED
  BY <1>1, <1>2, <1>3, <1>4, <1>5, <1>6 DEF Always, Typed

LEMMA SpawnedAlways ==
    ASSUME ConstantsAssumption, Always, Spawned
    PROVE  Always'
<1> USE DEF Spawned, Active, Goto, pyvars, taskvars, jobvars
<1>1. PipesTyped'
  <2>1. PipesTyped
    BY DEF Always, Typed
  <2> QED
    BY <2>1, SendsTyped, ReadsTyped DEF PipesTyped
<1>2. PyTyped'
  BY Writing DEF Always, Typed, PipesTyped, PyTyped, ErrKinds, Places, Conts
<1>3. JobTyped'
  BY DEF Always, Typed, JobTyped, Assigned, Within, Results, Holders
<1>4. (ebp \in Processors)' /\ (Locked /\ ProcessIsGone)'
  <2>1. ebp \in Processors /\ ebd \in Daemons
    BY DEF Always, Typed
  <2> QED
    BY <2>1, ExpectsTyped DEF Always, Typed, PyTyped, Processors, Daemons, Ats, Locked, Within, ProcessIsGone
<1>5. (ebd \in Daemons)'
  BY DEF Always, Typed, PipesTyped, Daemons, Ats
<1>6. (Assigned /\ Led)'
  BY DEF Always, Typed, PyTyped, JobTyped, Assigned, Led, Within, Holders, Places, Conts
<1> QED
  BY <1>1, <1>2, <1>3, <1>4, <1>5, <1>6 DEF Always, Typed

LEMMA RequestedAlways ==
    ASSUME ConstantsAssumption, Always, Requested
    PROVE  Always'
<1> USE DEF Requested, Active, Goto, Spawn, Fresh, Boot, pyvars, taskvars, jobvars
<1>1. PipesTyped'
  <2>1. PipesTyped
    BY DEF Always, Typed
  <2> QED
    BY <2>1, SendsTyped, ReadsTyped DEF PipesTyped
<1>2. PyTyped'
  BY Writing DEF Always, Typed, PipesTyped, PyTyped, ErrKinds, Places, Conts
<1>3. JobTyped'
  BY DEF Always, Typed, JobTyped, Assigned, Within, Results, Holders
<1>4. (ebp \in Processors)' /\ (Locked /\ ProcessIsGone)'
  <2>1. ebp \in Processors /\ ebd \in Daemons
    BY DEF Always, Typed
  <2> QED
    BY <2>1, ExpectsTyped DEF Always, Typed, PyTyped, JobTyped, Processors, Daemons, Ats, Locked, Within, ProcessIsGone
<1>5. (ebd \in Daemons)'
  BY DEF Always, Typed, PipesTyped, Daemons, Ats
<1>6. (Assigned /\ Led)'
  BY DEF Always, Typed, PyTyped, JobTyped, Assigned, Led, Within, Holders, Places, Conts
<1> QED
  BY <1>1, <1>2, <1>3, <1>4, <1>5, <1>6 DEF Always, Typed

LEMMA PathSetAlways ==
    ASSUME ConstantsAssumption, Always, PathSet
    PROVE  Always'
<1> USE DEF PathSet, SendGen, Goto, pyvars, taskvars, jobvars
<1>1. PipesTyped'
  <2>1. PipesTyped
    BY DEF Always, Typed
  <2> QED
    BY <2>1, SendsTyped DEF PipesTyped, Always, Assigned, Within
<1>2. PyTyped'
  BY Writing DEF Always, Typed, PipesTyped, PyTyped, ErrKinds, Places, Conts
<1>3. JobTyped'
  BY DEF Always, Typed, JobTyped, Assigned, Within, Results, Holders
<1>4. (ebp \in Processors)' /\ (Locked /\ ProcessIsGone)'
  <2>1. ebp \in Processors /\ ebd \in Daemons
    BY DEF Always, Typed
  <2> QED
    BY <2>1, ExpectsTyped DEF Always, Typed, PyTyped, Processors, Daemons, Ats, Locked, Within, ProcessIsGone
<1>5. (ebd \in Daemons)'
  BY DEF Always, Typed, PipesTyped, Daemons, Ats
<1>6. (Assigned /\ Led)'
  BY DEF Always, Typed, PyTyped, JobTyped, Assigned, Led, Within, Holders, Places, Conts
<1> QED
  BY <1>1, <1>2, <1>3, <1>4, <1>5, <1>6 DEF Always, Typed

LEMMA SyncAlways ==
    ASSUME ConstantsAssumption, Always, Sync
    PROVE  Always'
<1> USE DEF Sync, Goto, pyvars, taskvars, jobvars
<1>1. PipesTyped'
  <2>1. PipesTyped
    BY DEF Always, Typed
  <2> QED
    BY <2>1, SendsTyped, ReadsTyped DEF PipesTyped
<1>2. PyTyped'
  BY Writing DEF Always, Typed, PipesTyped, PyTyped, ErrKinds, Places, Conts
<1>3. JobTyped'
  BY DEF Always, Typed, JobTyped, Assigned, Within, Results, Holders
<1>4. (ebp \in Processors)' /\ (Locked /\ ProcessIsGone)'
  <2>1. ebp \in Processors /\ ebd \in Daemons
    BY DEF Always, Typed
  <2> QED
    BY <2>1, ExpectsTyped DEF Always, Typed, PyTyped, Processors, Daemons, Ats, Locked, Within, ProcessIsGone
<1>5. (ebd \in Daemons)'
  BY DEF Always, Typed, PipesTyped, Daemons, Ats
<1>6. (Assigned /\ Led)'
  BY DEF Always, Typed, PyTyped, JobTyped, Assigned, Led, Within, Holders, Places, Conts
<1> QED
  BY <1>1, <1>2, <1>3, <1>4, <1>5, <1>6 DEF Always, Typed

LEMMA SyncedAlways ==
    ASSUME ConstantsAssumption, Always, Synced
    PROVE  Always'
<1> USE DEF Synced, Goto, Raise, Unlocked, pyvars, taskvars, jobvars
<1>1. PipesTyped'
  <2>1. PipesTyped
    BY DEF Always, Typed
  <2> QED
    BY <2>1, SendsTyped, ReadsTyped DEF PipesTyped
<1>2. PyTyped'
  BY Writing DEF Always, Typed, PipesTyped, PyTyped, ErrKinds, Places, Conts
<1>3. JobTyped'
  BY DEF Always, Typed, JobTyped, Assigned, Within, Results, Holders
<1>4. (ebp \in Processors)' /\ (Locked /\ ProcessIsGone)'
  <2>1. ebp \in Processors /\ ebd \in Daemons
    BY DEF Always, Typed
  <2> QED
    BY <2>1, ExpectsTyped DEF Always, Typed, PyTyped, Processors, Daemons, Ats, Locked, Within, ProcessIsGone
<1>5. (ebd \in Daemons)'
  BY DEF Always, Typed, PipesTyped, Daemons, Ats
<1>6. (Assigned /\ Led)'
  BY DEF Always, Typed, PyTyped, JobTyped, Assigned, Led, Within, Holders, Places, Conts
<1> QED
  BY <1>1, <1>2, <1>3, <1>4, <1>5, <1>6 DEF Always, Typed

LEMMA HandleKeyAlways ==
    ASSUME ConstantsAssumption, Always, HandleKey
    PROVE  Always'
<1> USE DEF HandleKey, Received, Handled, pyvars, taskvars, jobvars
<1>1. PipesTyped'
  <2>1. PipesTyped
    BY DEF Always, Typed
  <2> QED
    BY <2>1, SendsTyped, ReadsTyped DEF PipesTyped
<1>2. PyTyped'
  BY Writing DEF Always, Typed, PipesTyped, PyTyped, ErrKinds, Places, Conts
<1>3. JobTyped'
  <2>1. Head(up).arg \in Pkgs
    <3>1. PipesTyped /\ up # <<>> /\ Head(up).cmd = "key"
      BY DEF Always, Typed
    <3>2. Head(up) \in UpLines
      BY <3>1, Writing DEF PipesTyped
    <3> QED
      BY <3>1, <3>2, Meant
  <2> QED
    BY <2>1 DEF Always, Typed, JobTyped, Results
<1>4. (ebp \in Processors)' /\ (Locked /\ ProcessIsGone)'
  <2>1. ebp \in Processors /\ ebd \in Daemons
    BY DEF Always, Typed
  <2> QED
    BY <2>1, ExpectsTyped DEF Always, Typed, PyTyped, Processors, Daemons, Ats, Locked, Within, ProcessIsGone
<1>5. (ebd \in Daemons)'
  BY DEF Always, Typed, PipesTyped, Daemons, Ats
<1>6. (Assigned /\ Led)'
  BY DEF Always, Typed, PyTyped, JobTyped, Assigned, Led, Within, Holders, Places, Conts
<1> QED
  BY <1>1, <1>2, <1>3, <1>4, <1>5, <1>6 DEF Always, Typed

LEMMA HandleInheritAlways ==
    ASSUME ConstantsAssumption, Always, HandleInherit
    PROVE  Always'
<1> USE DEF HandleInherit, Received, Handled, Send, Dropped, Killed, Raise, pyvars, taskvars, jobvars
<1>1. PipesTyped'
  <2>1. PipesTyped
    BY DEF Always, Typed
  <2> QED
    BY <2>1, SendsTyped, ReadsTyped DEF PipesTyped
<1>2. PyTyped'
  BY Writing DEF Always, Typed, PipesTyped, PyTyped, ErrKinds, Places, Conts
<1>3. JobTyped'
  BY DEF Always, Typed, JobTyped, Assigned, Within, Results, Holders
<1>4. (ebp \in Processors)' /\ (Locked /\ ProcessIsGone)'
  <2>1. ebp \in Processors /\ ebd \in Daemons
    BY DEF Always, Typed
  <2> QED
    BY <2>1, ExpectsTyped DEF Always, Typed, PyTyped, Processors, Daemons, Ats, Locked, Within, ProcessIsGone
<1>5. (ebd \in Daemons)'
  BY DEF Always, Typed, PipesTyped, Daemons, Ats
<1>6. (Assigned /\ Led)'
  BY DEF Always, Typed, PyTyped, JobTyped, Assigned, Led, Within, Holders, Places, Conts
<1> QED
  BY <1>1, <1>2, <1>3, <1>4, <1>5, <1>6 DEF Always, Typed

LEMMA HandleIpcAlways ==
    ASSUME ConstantsAssumption, Always, HandleIpc
    PROVE  Always'
<1> USE DEF HandleIpc, Received, Handled, Send, Raise, Unlocked, pyvars, taskvars, jobvars
<1>1. PipesTyped'
  <2>1. PipesTyped
    BY DEF Always, Typed
  <2> QED
    BY <2>1, SendsTyped, ReadsTyped DEF PipesTyped
<1>2. PyTyped'
  BY Writing DEF Always, Typed, PipesTyped, PyTyped, ErrKinds, Places, Conts
<1>3. JobTyped'
  BY DEF Always, Typed, JobTyped, Assigned, Within, Results, Holders
<1>4. (ebp \in Processors)' /\ (Locked /\ ProcessIsGone)'
  <2>1. ebp \in Processors /\ ebd \in Daemons
    BY DEF Always, Typed
  <2> QED
    BY <2>1, ExpectsTyped DEF Always, Typed, PyTyped, Processors, Daemons, Ats, Locked, Within, ProcessIsGone
<1>5. (ebd \in Daemons)'
  BY DEF Always, Typed, PipesTyped, Daemons, Ats
<1>6. (Assigned /\ Led)'
  BY DEF Always, Typed, PyTyped, JobTyped, Assigned, Led, Within, Holders, Places, Conts
<1> QED
  BY <1>1, <1>2, <1>3, <1>4, <1>5, <1>6 DEF Always, Typed

LEMMA HandleBashrcsAlways ==
    ASSUME ConstantsAssumption, Always, HandleBashrcs
    PROVE  Always'
<1> USE DEF HandleBashrcs, Received, Handled, Send, Expect, Goto, pyvars, taskvars, jobvars
<1>1. PipesTyped'
  <2>1. PipesTyped
    BY DEF Always, Typed
  <2> QED
    BY <2>1, SendsTyped, ReadsTyped DEF PipesTyped
<1>2. PyTyped'
  BY Writing DEF Always, Typed, PipesTyped, PyTyped, ErrKinds, Places, Conts
<1>3. JobTyped'
  BY DEF Always, Typed, JobTyped, Assigned, Within, Results, Holders
<1>4. (ebp \in Processors)' /\ (Locked /\ ProcessIsGone)'
  <2>1. ebp \in Processors /\ ebd \in Daemons
    BY DEF Always, Typed
  <2> QED
    BY <2>1, ExpectsTyped DEF Always, Typed, PyTyped, Processors, Daemons, Ats, Locked, Within, ProcessIsGone
<1>5. (ebd \in Daemons)'
  BY DEF Always, Typed, PipesTyped, Daemons, Ats
<1>6. (Assigned /\ Led)'
  BY DEF Always, Typed, PyTyped, JobTyped, Assigned, Led, Within, Holders, Places, Conts
<1> QED
  BY <1>1, <1>2, <1>3, <1>4, <1>5, <1>6 DEF Always, Typed

LEMMA BashrcSentAlways ==
    ASSUME ConstantsAssumption, Always, BashrcSent
    PROVE  Always'
<1> USE DEF BashrcSent, Send, Goto, Raise, Unlocked, pyvars, taskvars, jobvars
<1>1. PipesTyped'
  <2>1. PipesTyped
    BY DEF Always, Typed
  <2> QED
    BY <2>1, SendsTyped, ReadsTyped DEF PipesTyped
<1>2. PyTyped'
  BY Writing DEF Always, Typed, PipesTyped, PyTyped, ErrKinds, Places, Conts
<1>3. JobTyped'
  BY DEF Always, Typed, JobTyped, Assigned, Within, Results, Holders
<1>4. (ebp \in Processors)' /\ (Locked /\ ProcessIsGone)'
  <2>1. ebp \in Processors /\ ebd \in Daemons
    BY DEF Always, Typed
  <2> QED
    BY <2>1, ExpectsTyped DEF Always, Typed, PyTyped, Processors, Daemons, Ats, Locked, Within, ProcessIsGone
<1>5. (ebd \in Daemons)'
  BY DEF Always, Typed, PipesTyped, Daemons, Ats
<1>6. (Assigned /\ Led)'
  BY DEF Always, Typed, PyTyped, JobTyped, Assigned, Led, Within, Holders, Places, Conts
<1> QED
  BY <1>1, <1>2, <1>3, <1>4, <1>5, <1>6 DEF Always, Typed

LEMMA HandlePhasesAlways ==
    ASSUME ConstantsAssumption, Always, HandlePhases
    PROVE  Always'
<1> USE DEF HandlePhases, Received, Handled, Goto, Raise, Unlocked, pyvars, taskvars, jobvars
<1>1. PipesTyped'
  <2>1. PipesTyped
    BY DEF Always, Typed
  <2> QED
    BY <2>1, SendsTyped, ReadsTyped DEF PipesTyped
<1>2. PyTyped'
  BY Writing DEF Always, Typed, PipesTyped, PyTyped, ErrKinds, Places, Conts
<1>3. JobTyped'
  BY DEF Always, Typed, JobTyped, Assigned, Within, Results, Holders
<1>4. (ebp \in Processors)' /\ (Locked /\ ProcessIsGone)'
  <2>1. ebp \in Processors /\ ebd \in Daemons
    BY DEF Always, Typed
  <2> QED
    BY <2>1, ExpectsTyped DEF Always, Typed, PyTyped, Processors, Daemons, Ats, Locked, Within, ProcessIsGone
<1>5. (ebd \in Daemons)'
  BY DEF Always, Typed, PipesTyped, Daemons, Ats
<1>6. (Assigned /\ Led)'
  BY DEF Always, Typed, PyTyped, JobTyped, Assigned, Led, Within, Holders, Places, Conts
<1> QED
  BY <1>1, <1>2, <1>3, <1>4, <1>5, <1>6 DEF Always, Typed

LEMMA HandleDyingAlways ==
    ASSUME ConstantsAssumption, Always, HandleDying
    PROVE  Always'
<1> USE DEF HandleDying, Received, Handled, Goto, pyvars, taskvars, jobvars
<1>1. PipesTyped'
  <2>1. PipesTyped
    BY DEF Always, Typed
  <2> QED
    BY <2>1, SendsTyped, ReadsTyped DEF PipesTyped
<1>2. PyTyped'
  BY Writing DEF Always, Typed, PipesTyped, PyTyped, ErrKinds, Places, Conts
<1>3. JobTyped'
  BY DEF Always, Typed, JobTyped, Assigned, Within, Results, Holders
<1>4. (ebp \in Processors)' /\ (Locked /\ ProcessIsGone)'
  <2>1. ebp \in Processors /\ ebd \in Daemons
    BY DEF Always, Typed
  <2> QED
    BY <2>1, ExpectsTyped DEF Always, Typed, PyTyped, Processors, Daemons, Ats, Locked, Within, ProcessIsGone
<1>5. (ebd \in Daemons)'
  BY DEF Always, Typed, PipesTyped, Daemons, Ats
<1>6. (Assigned /\ Led)'
  BY DEF Always, Typed, PyTyped, JobTyped, Assigned, Led, Within, Holders, Places, Conts
<1> QED
  BY <1>1, <1>2, <1>3, <1>4, <1>5, <1>6 DEF Always, Typed

LEMMA HandleUnknownAlways ==
    ASSUME ConstantsAssumption, Always, HandleUnknown
    PROVE  Always'
<1> USE DEF HandleUnknown, Raise, Unlocked, pyvars, taskvars, jobvars
<1>1. PipesTyped'
  <2>1. PipesTyped
    BY DEF Always, Typed
  <2> QED
    BY <2>1, SendsTyped, ReadsTyped DEF PipesTyped
<1>2. PyTyped'
  BY Writing DEF Always, Typed, PipesTyped, PyTyped, ErrKinds, Places, Conts
<1>3. JobTyped'
  BY DEF Always, Typed, JobTyped, Assigned, Within, Results, Holders
<1>4. (ebp \in Processors)' /\ (Locked /\ ProcessIsGone)'
  <2>1. ebp \in Processors /\ ebd \in Daemons
    BY DEF Always, Typed
  <2> QED
    BY <2>1, ExpectsTyped DEF Always, Typed, PyTyped, Processors, Daemons, Ats, Locked, Within, ProcessIsGone
<1>5. (ebd \in Daemons)'
  BY DEF Always, Typed, PipesTyped, Daemons, Ats
<1>6. (Assigned /\ Led)'
  BY DEF Always, Typed, PyTyped, JobTyped, Assigned, Led, Within, Holders, Places, Conts
<1> QED
  BY <1>1, <1>2, <1>3, <1>4, <1>5, <1>6 DEF Always, Typed

LEMMA PreloadAlways ==
    ASSUME ConstantsAssumption, Always, Preload
    PROVE  Always'
<1> USE DEF Preload, NotPreloaded, Send, pyvars, taskvars, jobvars
<1>1. PipesTyped'
  <2>1. PipesTyped
    BY DEF Always, Typed
  <2> QED
    BY <2>1, SendsTyped DEF PipesTyped, Always, Typed, JobTyped
<1>2. PyTyped'
  BY Writing DEF Always, Typed, PipesTyped, PyTyped, ErrKinds, Places, Conts
<1>3. JobTyped'
  BY DEF Always, Typed, JobTyped, Assigned, Within, Results, Holders
<1>4. (ebp \in Processors)' /\ (Locked /\ ProcessIsGone)'
  <2>1. ebp \in Processors /\ ebd \in Daemons
    BY DEF Always, Typed
  <2>2. updates \subseteq Eclasses /\ NotPreloaded \subseteq updates
    BY DEF Always, Typed, JobTyped
  <2>3. PICK e \in NotPreloaded :
          ebp' = [ebp EXCEPT !.known = @ \cup {e},
                             !.expects = Append(@, Line("preload_eclass succeeded"))]
    OBVIOUS
  <2>4. e \in Eclasses
    BY <2>2
  <2>5. ebp' \in Processors
    BY <2>1, <2>3, <2>4, ExpectsTyped DEF Processors
  <2>6. ebp'.locked = ebp.locked /\ ebp'.proc = ebp.proc /\ UNCHANGED <<py, cont, ebd>>
    BY <2>1, <2>3 DEF Processors
  <2> QED
    BY <2>5, <2>6 DEF Always, Locked, Within, ProcessIsGone
<1>5. (ebd \in Daemons)'
  BY DEF Always, Typed, PipesTyped, Daemons, Ats
<1>6. (Assigned /\ Led)'
  BY DEF Always, Typed, PyTyped, JobTyped, Assigned, Led, Within, Holders, Places, Conts
<1> QED
  BY <1>1, <1>2, <1>3, <1>4, <1>5, <1>6 DEF Always, Typed

LEMMA ReturnedAlways ==
    ASSUME ConstantsAssumption, Always, Returned
    PROVE  Always'
<1> USE DEF Returned, NotPreloaded, Goto, pyvars, taskvars, jobvars
<1>1. PipesTyped'
  <2>1. PipesTyped
    BY DEF Always, Typed
  <2> QED
    BY <2>1, SendsTyped, ReadsTyped DEF PipesTyped
<1>2. PyTyped'
  BY Writing DEF Always, Typed, PipesTyped, PyTyped, ErrKinds, Places, Conts
<1>3. JobTyped'
  BY DEF Always, Typed, JobTyped, Assigned, Within, Results, Holders
<1>4. (ebp \in Processors)' /\ (Locked /\ ProcessIsGone)'
  <2>1. ebp \in Processors /\ ebd \in Daemons
    BY DEF Always, Typed
  <2> QED
    BY <2>1, ExpectsTyped DEF Always, Typed, PyTyped, Processors, Daemons, Ats, Locked, Within, ProcessIsGone
<1>5. (ebd \in Daemons)'
  BY DEF Always, Typed, PipesTyped, Daemons, Ats
<1>6. (Assigned /\ Led)'
  BY DEF Always, Typed, PyTyped, JobTyped, Assigned, Led, Within, Holders, Places, Conts
<1> QED
  BY <1>1, <1>2, <1>3, <1>4, <1>5, <1>6 DEF Always, Typed

LEMMA EnvSentAlways ==
    ASSUME ConstantsAssumption, Always, EnvSent
    PROVE  Always'
<1> USE DEF EnvSent, Send, Expect, Goto, Refused, Raise, pyvars, taskvars, jobvars
<1>1. PipesTyped'
  <2>1. PipesTyped
    BY DEF Always, Typed
  <2> QED
    BY <2>1, SendsTyped, ReadsTyped DEF PipesTyped
<1>2. PyTyped'
  BY Writing DEF Always, Typed, PipesTyped, PyTyped, ErrKinds, Places, Conts
<1>3. JobTyped'
  BY DEF Always, Typed, JobTyped, Assigned, Within, Results, Holders
<1>4. (ebp \in Processors)' /\ (Locked /\ ProcessIsGone)'
  <2>1. ebp \in Processors /\ ebd \in Daemons
    BY DEF Always, Typed
  <2> QED
    BY <2>1, ExpectsTyped DEF Always, Typed, PyTyped, Processors, Daemons, Ats, Locked, Within, ProcessIsGone
<1>5. (ebd \in Daemons)'
  BY DEF Always, Typed, PipesTyped, Daemons, Ats
<1>6. (Assigned /\ Led)'
  BY DEF Always, Typed, PyTyped, JobTyped, Assigned, Led, Within, Holders, Places, Conts
<1> QED
  BY <1>1, <1>2, <1>3, <1>4, <1>5, <1>6 DEF Always, Typed

LEMMA LoggingSetAlways ==
    ASSUME ConstantsAssumption, Always, LoggingSet
    PROVE  Always'
<1> USE DEF LoggingSet, Send, Goto, Refused, Raise, pyvars, taskvars, jobvars
<1>1. PipesTyped'
  <2>1. PipesTyped
    BY DEF Always, Typed
  <2> QED
    BY <2>1, SendsTyped, ReadsTyped DEF PipesTyped
<1>2. PyTyped'
  BY Writing DEF Always, Typed, PipesTyped, PyTyped, ErrKinds, Places, Conts
<1>3. JobTyped'
  BY DEF Always, Typed, JobTyped, Assigned, Within, Results, Holders
<1>4. (ebp \in Processors)' /\ (Locked /\ ProcessIsGone)'
  <2>1. ebp \in Processors /\ ebd \in Daemons
    BY DEF Always, Typed
  <2> QED
    BY <2>1, ExpectsTyped DEF Always, Typed, PyTyped, Processors, Daemons, Ats, Locked, Within, ProcessIsGone
<1>5. (ebd \in Daemons)'
  BY DEF Always, Typed, PipesTyped, Daemons, Ats
<1>6. (Assigned /\ Led)'
  BY DEF Always, Typed, PyTyped, JobTyped, Assigned, Led, Within, Holders, Places, Conts
<1> QED
  BY <1>1, <1>2, <1>3, <1>4, <1>5, <1>6 DEF Always, Typed

LEMMA AskedDownAlways ==
    ASSUME ConstantsAssumption, Always, AskedDown
    PROVE  Always'
<1> USE DEF AskedDown, Send, Goto, pyvars, taskvars, jobvars
<1>1. PipesTyped'
  <2>1. PipesTyped
    BY DEF Always, Typed
  <2> QED
    BY <2>1, SendsTyped, ReadsTyped DEF PipesTyped
<1>2. PyTyped'
  BY Writing DEF Always, Typed, PipesTyped, PyTyped, ErrKinds, Places, Conts
<1>3. JobTyped'
  BY DEF Always, Typed, JobTyped, Assigned, Within, Results, Holders
<1>4. (ebp \in Processors)' /\ (Locked /\ ProcessIsGone)'
  <2>1. ebp \in Processors /\ ebd \in Daemons
    BY DEF Always, Typed
  <2> QED
    BY <2>1, ExpectsTyped DEF Always, Typed, PyTyped, Processors, Daemons, Ats, Locked, Within, ProcessIsGone
<1>5. (ebd \in Daemons)'
  BY DEF Always, Typed, PipesTyped, Daemons, Ats
<1>6. (Assigned /\ Led)'
  BY DEF Always, Typed, PyTyped, JobTyped, Assigned, Led, Within, Holders, Places, Conts
<1> QED
  BY <1>1, <1>2, <1>3, <1>4, <1>5, <1>6 DEF Always, Typed

LEMMA WaitedAlways ==
    ASSUME ConstantsAssumption, Always, Waited
    PROVE  Always'
<1> USE DEF Waited, Goto, pyvars, taskvars, jobvars
<1>1. PipesTyped'
  <2>1. PipesTyped
    BY DEF Always, Typed
  <2> QED
    BY <2>1, SendsTyped, ReadsTyped DEF PipesTyped
<1>2. PyTyped'
  BY Writing DEF Always, Typed, PipesTyped, PyTyped, ErrKinds, Places, Conts
<1>3. JobTyped'
  BY DEF Always, Typed, JobTyped, Assigned, Within, Results, Holders
<1>4. (ebp \in Processors)' /\ (Locked /\ ProcessIsGone)'
  <2>1. ebp \in Processors /\ ebd \in Daemons
    BY DEF Always, Typed
  <2> QED
    BY <2>1, ExpectsTyped DEF Always, Typed, PyTyped, Processors, Daemons, Ats, Locked, Within, ProcessIsGone
<1>5. (ebd \in Daemons)'
  BY DEF Always, Typed, PipesTyped, Daemons, Ats
<1>6. (Assigned /\ Led)'
  BY DEF Always, Typed, PyTyped, JobTyped, Assigned, Led, Within, Holders, Places, Conts
<1> QED
  BY <1>1, <1>2, <1>3, <1>4, <1>5, <1>6 DEF Always, Typed

LEMMA RaisedToHelperAlways ==
    ASSUME ConstantsAssumption, Always, RaisedToHelper
    PROVE  Always'
<1> USE DEF RaisedToHelper, Goto, pyvars, taskvars, jobvars
<1>1. PipesTyped'
  <2>1. PipesTyped
    BY DEF Always, Typed
  <2> QED
    BY <2>1, SendsTyped, ReadsTyped DEF PipesTyped
<1>2. PyTyped'
  BY Writing DEF Always, Typed, PipesTyped, PyTyped, ErrKinds, Places, Conts
<1>3. JobTyped'
  BY DEF Always, Typed, JobTyped, Assigned, Within, Results, Holders
<1>4. (ebp \in Processors)' /\ (Locked /\ ProcessIsGone)'
  <2>1. ebp \in Processors /\ ebd \in Daemons
    BY DEF Always, Typed
  <2> QED
    BY <2>1, ExpectsTyped DEF Always, Typed, PyTyped, Processors, Daemons, Ats, Locked, Within, ProcessIsGone
<1>5. (ebd \in Daemons)'
  BY DEF Always, Typed, PipesTyped, Daemons, Ats
<1>6. (Assigned /\ Led)'
  BY DEF Always, Typed, PyTyped, JobTyped, Assigned, Led, Within, Holders, Places, Conts
<1> QED
  BY <1>1, <1>2, <1>3, <1>4, <1>5, <1>6 DEF Always, Typed

LEMMA RaisedToReaderAlways ==
    ASSUME ConstantsAssumption, Always, RaisedToReader
    PROVE  Always'
<1> USE DEF RaisedToReader, Goto, pyvars, taskvars, jobvars
<1>1. PipesTyped'
  <2>1. PipesTyped
    BY DEF Always, Typed
  <2> QED
    BY <2>1, SendsTyped, ReadsTyped DEF PipesTyped
<1>2. PyTyped'
  BY Writing DEF Always, Typed, PipesTyped, PyTyped, ErrKinds, Places, Conts
<1>3. JobTyped'
  BY DEF Always, Typed, JobTyped, Assigned, Within, Results, Holders
<1>4. (ebp \in Processors)' /\ (Locked /\ ProcessIsGone)'
  <2>1. ebp \in Processors /\ ebd \in Daemons
    BY DEF Always, Typed
  <2> QED
    BY <2>1, ExpectsTyped DEF Always, Typed, PyTyped, Processors, Daemons, Ats, Locked, Within, ProcessIsGone
<1>5. (ebd \in Daemons)'
  BY DEF Always, Typed, PipesTyped, Daemons, Ats
<1>6. (Assigned /\ Led)'
  BY DEF Always, Typed, PyTyped, JobTyped, Assigned, Led, Within, Holders, Places, Conts
<1> QED
  BY <1>1, <1>2, <1>3, <1>4, <1>5, <1>6 DEF Always, Typed

LEMMA RaisedToPhaseAlways ==
    ASSUME ConstantsAssumption, Always, RaisedToPhase
    PROVE  Always'
<1> USE DEF RaisedToPhase, Goto, Send, Killed, Leave, pyvars, taskvars, jobvars
<1>1. PipesTyped'
  <2>1. PipesTyped
    BY DEF Always, Typed
  <2> QED
    BY <2>1, SendsTyped, ReadsTyped DEF PipesTyped
<1>2. PyTyped'
  BY Writing DEF Always, Typed, PipesTyped, PyTyped, ErrKinds, Places, Conts
<1>3. JobTyped'
  BY DEF Always, Typed, JobTyped, Assigned, Within, Results, Holders
<1>4. (ebp \in Processors)' /\ (Locked /\ ProcessIsGone)'
  <2>1. ebp \in Processors /\ ebd \in Daemons
    BY DEF Always, Typed
  <2> QED
    BY <2>1, ExpectsTyped DEF Always, Typed, PyTyped, Processors, Daemons, Ats, Locked, Within, ProcessIsGone
<1>5. (ebd \in Daemons)'
  BY DEF Always, Typed, PipesTyped, Daemons, Ats
<1>6. (Assigned /\ Led)'
  BY DEF Always, Typed, PyTyped, JobTyped, Assigned, Led, Within, Holders, Places, Conts
<1> QED
  BY <1>1, <1>2, <1>3, <1>4, <1>5, <1>6 DEF Always, Typed

LEMMA StopAlways ==
    ASSUME ConstantsAssumption, Always, Stop
    PROVE  Always'
<1> USE DEF Stop, Shutdown, AskAlive, Send, Goto, pyvars, taskvars, jobvars
<1>1. PipesTyped'
  <2>1. PipesTyped
    BY DEF Always, Typed
  <2> QED
    BY <2>1, SendsTyped, ReadsTyped DEF PipesTyped
<1>2. PyTyped'
  BY Writing DEF Always, Typed, PipesTyped, PyTyped, ErrKinds, Places, Conts
<1>3. JobTyped'
  BY DEF Always, Typed, JobTyped, Assigned, Within, Results, Holders
<1>4. (ebp \in Processors)' /\ (Locked /\ ProcessIsGone)'
  <2>1. ebp \in Processors /\ ebd \in Daemons
    BY DEF Always, Typed
  <2> QED
    BY <2>1, ExpectsTyped DEF Always, Typed, PyTyped, Processors, Daemons, Ats, Locked, Within, ProcessIsGone
<1>5. (ebd \in Daemons)'
  BY DEF Always, Typed, PipesTyped, Daemons, Ats
<1>6. (Assigned /\ Led)'
  BY DEF Always, Typed, PyTyped, JobTyped, Assigned, Led, Within, Holders, Places, Conts
<1> QED
  BY <1>1, <1>2, <1>3, <1>4, <1>5, <1>6 DEF Always, Typed

LEMMA ReleaseAlways ==
    ASSUME ConstantsAssumption, Always, Release
    PROVE  Always'
<1> USE DEF Release, Leave, Send, Goto, pyvars, taskvars, jobvars
<1>1. PipesTyped'
  <2>1. PipesTyped
    BY DEF Always, Typed
  <2> QED
    BY <2>1, SendsTyped, ReadsTyped DEF PipesTyped
<1>2. PyTyped'
  <2>1. <<>> \in Seq(UpLines)
    BY Writing
  <2> QED
    BY <2>1 DEF Always, Typed, PyTyped, Places, Conts
<1>3. JobTyped'
  BY DEF Always, Typed, JobTyped, Assigned, Within, Results, Holders
<1>4. (ebp \in Processors)' /\ (Locked /\ ProcessIsGone)'
  <2>1. ebp \in Processors /\ ebd \in Daemons
    BY DEF Always, Typed
  <2> QED
    BY <2>1, ExpectsTyped DEF Always, Typed, PyTyped, Processors, Daemons, Ats, Locked, Within, ProcessIsGone
<1>5. (ebd \in Daemons)'
  BY DEF Always, Typed, PipesTyped, Daemons, Ats
<1>6. (Assigned /\ Led)'
  BY DEF Always, Typed, PyTyped, JobTyped, Assigned, Led, Within, Holders, Places, Conts
<1> QED
  BY <1>1, <1>2, <1>3, <1>4, <1>5, <1>6 DEF Always, Typed

LEMMA ReleasedAlways ==
    ASSUME ConstantsAssumption, Always, Released
    PROVE  Always'
<1> USE DEF Released, Leave, Goto, pyvars, taskvars, jobvars
<1>1. PipesTyped'
  <2>1. PipesTyped
    BY DEF Always, Typed
  <2> QED
    BY <2>1, SendsTyped, ReadsTyped DEF PipesTyped
<1>2. PyTyped'
  BY Writing DEF Always, Typed, PipesTyped, PyTyped, ErrKinds, Places, Conts
<1>3. JobTyped'
  BY DEF Always, Typed, JobTyped, Assigned, Within, Results, Holders
<1>4. (ebp \in Processors)' /\ (Locked /\ ProcessIsGone)'
  <2>1. ebp \in Processors /\ ebd \in Daemons
    BY DEF Always, Typed
  <2> QED
    BY <2>1, ExpectsTyped DEF Always, Typed, PyTyped, Processors, Daemons, Ats, Locked, Within, ProcessIsGone
<1>5. (ebd \in Daemons)'
  BY DEF Always, Typed, PipesTyped, Daemons, Ats
<1>6. (Assigned /\ Led)'
  BY DEF Always, Typed, PyTyped, JobTyped, Assigned, Led, Within, Holders, Places, Conts
<1> QED
  BY <1>1, <1>2, <1>3, <1>4, <1>5, <1>6 DEF Always, Typed

LEMMA ClearAlways ==
    ASSUME ConstantsAssumption, Always, Clear
    PROVE  Always'
<1> USE DEF Clear, Send, Expect, Goto, Cleared, pyvars, taskvars, jobvars
<1>1. PipesTyped'
  <2>1. PipesTyped
    BY DEF Always, Typed
  <2> QED
    BY <2>1, SendsTyped, ReadsTyped DEF PipesTyped
<1>2. PyTyped'
  BY Writing DEF Always, Typed, PipesTyped, PyTyped, ErrKinds, Places, Conts
<1>3. JobTyped'
  BY DEF Always, Typed, JobTyped, Assigned, Within, Results, Holders
<1>4. (ebp \in Processors)' /\ (Locked /\ ProcessIsGone)'
  <2>1. ebp \in Processors /\ ebd \in Daemons
    BY DEF Always, Typed
  <2> QED
    BY <2>1, ExpectsTyped DEF Always, Typed, PyTyped, Processors, Daemons, Ats, Locked, Within, ProcessIsGone
<1>5. (ebd \in Daemons)'
  BY DEF Always, Typed, PipesTyped, Daemons, Ats
<1>6. (Assigned /\ Led)'
  BY DEF Always, Typed, PyTyped, JobTyped, Assigned, Led, Within, Holders, Places, Conts
<1> QED
  BY <1>1, <1>2, <1>3, <1>4, <1>5, <1>6 DEF Always, Typed

LEMMA ClearAnsweredAlways ==
    ASSUME ConstantsAssumption, Always, ClearAnswered
    PROVE  Always'
<1> USE DEF ClearAnswered, Goto, Shutdown, AskAlive, Send, pyvars, taskvars, jobvars
<1>1. PipesTyped'
  <2>1. PipesTyped
    BY DEF Always, Typed
  <2> QED
    BY <2>1, SendsTyped, ReadsTyped DEF PipesTyped
<1>2. PyTyped'
  BY Writing DEF Always, Typed, PipesTyped, PyTyped, ErrKinds, Places, Conts
<1>3. JobTyped'
  BY DEF Always, Typed, JobTyped, Assigned, Within, Results, Holders
<1>4. (ebp \in Processors)' /\ (Locked /\ ProcessIsGone)'
  <2>1. ebp \in Processors /\ ebd \in Daemons
    BY DEF Always, Typed
  <2> QED
    BY <2>1, ExpectsTyped DEF Always, Typed, PyTyped, Processors, Daemons, Ats, Locked, Within, ProcessIsGone
<1>5. (ebd \in Daemons)'
  BY DEF Always, Typed, PipesTyped, Daemons, Ats
<1>6. (Assigned /\ Led)'
  BY DEF Always, Typed, PyTyped, JobTyped, Assigned, Led, Within, Holders, Places, Conts
<1> QED
  BY <1>1, <1>2, <1>3, <1>4, <1>5, <1>6 DEF Always, Typed

LEMMA ForgetAlways ==
    ASSUME ConstantsAssumption, Always, Forget
    PROVE  Always'
<1> USE DEF Forget, Goto, pyvars, taskvars, jobvars
<1>1. PipesTyped'
  <2>1. PipesTyped
    BY DEF Always, Typed
  <2> QED
    BY <2>1, SendsTyped, ReadsTyped DEF PipesTyped
<1>2. PyTyped'
  BY Writing DEF Always, Typed, PipesTyped, PyTyped, ErrKinds, Places, Conts
<1>3. JobTyped'
  BY DEF Always, Typed, JobTyped, Assigned, Within, Results, Holders
<1>4. (ebp \in Processors)' /\ (Locked /\ ProcessIsGone)'
  <2>1. ebp \in Processors /\ ebd \in Daemons
    BY DEF Always, Typed
  <2> QED
    BY <2>1, ExpectsTyped DEF Always, Typed, PyTyped, Processors, Daemons, Ats, Locked, Within, ProcessIsGone
<1>5. (ebd \in Daemons)'
  BY DEF Always, Typed, PipesTyped, Daemons, Ats
<1>6. (Assigned /\ Led)'
  BY DEF Always, Typed, PyTyped, JobTyped, Assigned, Led, Within, Holders, Places, Conts
<1> QED
  BY <1>1, <1>2, <1>3, <1>4, <1>5, <1>6 DEF Always, Typed

LEMMA DaemonBootsAlways ==
    ASSUME ConstantsAssumption, Always, DaemonBoots
    PROVE  Always'
<1>0. UNCHANGED <<open, py, cont, closer, val, got, err, holder, wanted, job, keys, updates, result, ebp>>
  BY DEF DaemonBoots, Daemon, pyvars, taskvars, jobvars
<1>1. PipesTyped'
  <2>1. PipesTyped
    BY DEF Always, Typed
  <2> QED
    BY <2>1, <1>0, ReadsTyped, WritesTyped DEF PipesTyped, Always, Typed, Daemons, DaemonBoots, Back, Daemon, Reads, ReadsOther, Writes
<1>2. (PyTyped /\ JobTyped /\ ebp \in Processors /\ Locked /\ Assigned /\ Led)'
  BY <1>0 DEF Always, Typed, PyTyped, JobTyped, Locked, Assigned, Led, Within
<1>3. (ebd \in Daemons)' /\ ProcessIsGone'
  <2>1. ebd \in Daemons /\ (down # <<>> => Head(down) \in DownLines)
    BY SendsTyped DEF Always, Typed
  <2> QED
    BY <2>1, <1>0 DEF Daemons, Ats, Always, ProcessIsGone, DaemonBoots, Back, Daemon, Reads, ReadsOther
<1> QED
  BY <1>1, <1>2, <1>3 DEF Always, Typed

LEMMA DaemonAnswersAlways ==
    ASSUME ConstantsAssumption, Always, DaemonAnswers
    PROVE  Always'
<1>0. UNCHANGED <<open, py, cont, closer, val, got, err, holder, wanted, job, keys, updates, result, ebp>>
  BY DEF DaemonAnswers, Daemon, pyvars, taskvars, jobvars
<1>1. PipesTyped'
  <2>1. PipesTyped
    BY DEF Always, Typed
  <2> QED
    BY <2>1, <1>0, ReadsTyped, WritesTyped DEF PipesTyped, Always, Typed, Daemons, DaemonAnswers, Daemon, Reads, ReadsOther, Writes
<1>2. (PyTyped /\ JobTyped /\ ebp \in Processors /\ Locked /\ Assigned /\ Led)'
  BY <1>0 DEF Always, Typed, PyTyped, JobTyped, Locked, Assigned, Led, Within
<1>3. (ebd \in Daemons)' /\ ProcessIsGone'
  <2>1. ebd \in Daemons /\ (down # <<>> => Head(down) \in DownLines)
    BY SendsTyped DEF Always, Typed
  <2>2. down # <<>> => /\ Head(down).cmd = "gen" => Head(down).arg \in Pkgs
                       /\ Head(down).cmd = "preload" => Head(down).arg \in Eclasses
    BY <2>1, Meant
  <2>3. CASE Reads("preload")
    <3>1. Head(down).arg \in Eclasses
      BY <2>2, <2>3 DEF Reads
    <3> DEFINE known == ebd.known \cup {Head(down).arg}
    <3>2. known \in SUBSET Eclasses
      BY <2>1, <3>1 DEF Daemons
    <3>3. ebd' \in {ebd, [ebd EXCEPT !.known = known], [ebd EXCEPT !.known = {}]}
      BY DEF DaemonAnswers
    <3> HIDE DEF known
    <3> QED
      BY <2>1, <3>2, <3>3, <1>0 DEF Daemons, Ats, Always, ProcessIsGone
  <2>4. CASE ~Reads("preload")
    BY <2>1, <2>4, <1>0 DEF Daemons, Ats, Always, ProcessIsGone, DaemonAnswers, Daemon
  <2> QED
    BY <2>3, <2>4
<1> QED
  BY <1>1, <1>2, <1>3 DEF Always, Typed

LEMMA DaemonLeavesAlways ==
    ASSUME ConstantsAssumption, Always, DaemonLeaves
    PROVE  Always'
<1>0. UNCHANGED <<open, py, cont, closer, val, got, err, holder, wanted, job, keys, updates, result, ebp>>
  BY DEF DaemonLeaves, Daemon, pyvars, taskvars, jobvars
<1>1. PipesTyped'
  <2>1. PipesTyped
    BY DEF Always, Typed
  <2> QED
    BY <2>1, <1>0, ReadsTyped, WritesTyped DEF PipesTyped, Always, Typed, Daemons, DaemonLeaves, Killed, Daemon, Reads, ReadsOther, Writes
<1>2. (PyTyped /\ JobTyped /\ ebp \in Processors /\ Locked /\ Assigned /\ Led)'
  BY <1>0 DEF Always, Typed, PyTyped, JobTyped, Locked, Assigned, Led, Within
<1>3. (ebd \in Daemons)' /\ ProcessIsGone'
  <2>1. ebd \in Daemons /\ (down # <<>> => Head(down) \in DownLines)
    BY SendsTyped DEF Always, Typed
  <2> QED
    BY <2>1, <1>0 DEF Daemons, Ats, Always, ProcessIsGone, DaemonLeaves, Killed, Daemon, Reads, ReadsOther
<1> QED
  BY <1>1, <1>2, <1>3 DEF Always, Typed

LEMMA DaemonStartsAlways ==
    ASSUME ConstantsAssumption, Always, DaemonStarts
    PROVE  Always'
<1>0. UNCHANGED <<open, py, cont, closer, val, got, err, holder, wanted, job, keys, updates, result, ebp>>
  BY DEF DaemonStarts, Daemon, pyvars, taskvars, jobvars
<1>1. PipesTyped'
  <2>1. PipesTyped
    BY DEF Always, Typed
  <2> QED
    BY <2>1, <1>0, ReadsTyped, WritesTyped DEF PipesTyped, Always, Typed, Daemons, DaemonStarts, Daemon, Reads, ReadsOther, Writes
<1>2. (PyTyped /\ JobTyped /\ ebp \in Processors /\ Locked /\ Assigned /\ Led)'
  BY <1>0 DEF Always, Typed, PyTyped, JobTyped, Locked, Assigned, Led, Within
<1>3. (ebd \in Daemons)' /\ ProcessIsGone'
  <2>1. ebd \in Daemons /\ (down # <<>> => Head(down) \in DownLines)
    BY SendsTyped DEF Always, Typed
  <2>2. down # <<>> => /\ Head(down).cmd = "gen" => Head(down).arg \in Pkgs
                       /\ Head(down).cmd = "preload" => Head(down).arg \in Eclasses
    BY <2>1, Meant
  <2> QED
    BY <2>1, <2>2, <1>0, ConstantsAssumption DEF ConstantsAssumption, Daemons, Ats, Always, ProcessIsGone, DaemonStarts, Daemon, Reads, ReadsOther
<1> QED
  BY <1>1, <1>2, <1>3 DEF Always, Typed

LEMMA DaemonPreparesAlways ==
    ASSUME ConstantsAssumption, Always, DaemonPrepares
    PROVE  Always'
<1>0. UNCHANGED <<open, py, cont, closer, val, got, err, holder, wanted, job, keys, updates, result, ebp>>
  BY DEF DaemonPrepares, Daemon, pyvars, taskvars, jobvars
<1>1. PipesTyped'
  <2>1. PipesTyped
    BY DEF Always, Typed
  <2> QED
    BY <2>1, <1>0, ReadsTyped, WritesTyped DEF PipesTyped, Always, Typed, Daemons, DaemonPrepares, Dies, Back, Daemon, Reads, ReadsOther, Writes
<1>2. (PyTyped /\ JobTyped /\ ebp \in Processors /\ Locked /\ Assigned /\ Led)'
  BY <1>0 DEF Always, Typed, PyTyped, JobTyped, Locked, Assigned, Led, Within
<1>3. (ebd \in Daemons)' /\ ProcessIsGone'
  <2>1. ebd \in Daemons /\ (down # <<>> => Head(down) \in DownLines)
    BY SendsTyped DEF Always, Typed
  <2> QED
    BY <2>1, <1>0 DEF Daemons, Ats, Always, ProcessIsGone, DaemonPrepares, Dies, Back, Daemon, Reads, ReadsOther
<1> QED
  BY <1>1, <1>2, <1>3 DEF Always, Typed

LEMMA DaemonInheritsAlways ==
    ASSUME ConstantsAssumption, Always, DaemonInherits
    PROVE  Always'
<1>0. UNCHANGED <<open, py, cont, closer, val, got, err, holder, wanted, job, keys, updates, result, ebp>>
  BY DEF DaemonInherits, Daemon, pyvars, taskvars, jobvars
<1>1. PipesTyped'
  <2>1. PipesTyped
    BY DEF Always, Typed
  <2>2. PICK e \in ebd.left : \/ UNCHANGED <<down, up>>
                              \/ Writes(<<Msg("request_inherit", e)>>) /\ UNCHANGED down
    BY DEF DaemonInherits
  <2>3. e \in AllEclasses
    BY DEF Always, Typed, Daemons
  <2> QED
    BY <2>1, <2>2, <2>3, <1>0, WritesTyped DEF PipesTyped, Writes
<1>2. (PyTyped /\ JobTyped /\ ebp \in Processors /\ Locked /\ Assigned /\ Led)'
  BY <1>0 DEF Always, Typed, PyTyped, JobTyped, Locked, Assigned, Led, Within
<1>3. (ebd \in Daemons)' /\ ProcessIsGone'
  <2>1. ebd \in Daemons /\ (down # <<>> => Head(down) \in DownLines)
    BY SendsTyped DEF Always, Typed
  <2>2. ebd.at = "job" /\ ebd.left \in SUBSET AllEclasses
    BY <2>1 DEF Daemons, DaemonInherits, Daemon
  <2>3. PICK e \in ebd.left : ebd' \in {[ebd EXCEPT !.left = @ \ {e}],
                                        [ebd EXCEPT !.left = @ \ {e}, !.at = "inherit"]}
    BY DEF DaemonInherits
  <2> DEFINE rest == ebd.left \ {e}
  <2>4. rest \in SUBSET AllEclasses
    BY <2>2
  <2>5. ebd' \in {[ebd EXCEPT !.left = rest], [ebd EXCEPT !.left = rest, !.at = "inherit"]}
    BY <2>3
  <2> HIDE DEF rest
  <2> QED
    BY <2>1, <2>2, <2>4, <2>5, <1>0 DEF Daemons, Ats, Always, ProcessIsGone
<1> QED
  BY <1>1, <1>2, <1>3 DEF Always, Typed

LEMMA DaemonAsksAlways ==
    ASSUME ConstantsAssumption, Always, DaemonAsks
    PROVE  Always'
<1>0. UNCHANGED <<open, py, cont, closer, val, got, err, holder, wanted, job, keys, updates, result, ebp>>
  BY DEF DaemonAsks, Daemon, pyvars, taskvars, jobvars
<1>1. PipesTyped'
  <2>1. PipesTyped
    BY DEF Always, Typed
  <2> QED
    BY <2>1, <1>0, ReadsTyped, WritesTyped DEF PipesTyped, Always, Typed, Daemons, DaemonAsks, Daemon, Reads, ReadsOther, Writes
<1>2. (PyTyped /\ JobTyped /\ ebp \in Processors /\ Locked /\ Assigned /\ Led)'
  BY <1>0 DEF Always, Typed, PyTyped, JobTyped, Locked, Assigned, Led, Within
<1>3. (ebd \in Daemons)' /\ ProcessIsGone'
  <2>1. ebd \in Daemons /\ (down # <<>> => Head(down) \in DownLines)
    BY SendsTyped DEF Always, Typed
  <2> QED
    BY <2>1, <1>0 DEF Daemons, Ats, Always, ProcessIsGone, DaemonAsks, Daemon, Reads, ReadsOther
<1> QED
  BY <1>1, <1>2, <1>3 DEF Always, Typed

LEMMA DaemonIsAnsweredAlways ==
    ASSUME ConstantsAssumption, Always, DaemonIsAnswered
    PROVE  Always'
<1>0. UNCHANGED <<open, py, cont, closer, val, got, err, holder, wanted, job, keys, updates, result, ebp>>
  BY DEF DaemonIsAnswered, Daemon, pyvars, taskvars, jobvars
<1>1. PipesTyped'
  <2>1. PipesTyped
    BY DEF Always, Typed
  <2> QED
    BY <2>1, <1>0, ReadsTyped, WritesTyped DEF PipesTyped, Always, Typed, Daemons, DaemonIsAnswered, Dies, Back, Daemon, Reads, ReadsOther, Writes
<1>2. (PyTyped /\ JobTyped /\ ebp \in Processors /\ Locked /\ Assigned /\ Led)'
  BY <1>0 DEF Always, Typed, PyTyped, JobTyped, Locked, Assigned, Led, Within
<1>3. (ebd \in Daemons)' /\ ProcessIsGone'
  <2>1. ebd \in Daemons /\ (down # <<>> => Head(down) \in DownLines)
    BY SendsTyped DEF Always, Typed
  <2> QED
    BY <2>1, <1>0 DEF Daemons, Ats, Always, ProcessIsGone, DaemonIsAnswered, Dies, Back, Daemon, Reads, ReadsOther
<1> QED
  BY <1>1, <1>2, <1>3 DEF Always, Typed

LEMMA DaemonEndsAlways ==
    ASSUME ConstantsAssumption, Always, DaemonEnds
    PROVE  Always'
<1>0. UNCHANGED <<open, py, cont, closer, val, got, err, holder, wanted, job, keys, updates, result, ebp>>
  BY DEF DaemonEnds, Daemon, pyvars, taskvars, jobvars
<1>1. PipesTyped'
  <2>1. PipesTyped
    BY DEF Always, Typed
  <2>2. ebd.src = None \/ ebd.src \in Pkgs
    BY DEF Always, Typed, Daemons
  <2>3. /\ UNCHANGED <<down, open>>
        /\ \/ Writes(<<Phases("succeeded")>>)
           \/ ebd.src \in Pkgs /\ Writes(<<Msg("key", ebd.src), Phases("succeeded")>>)
           \/ Dies
           \/ Writes(<<Phases("failed")>>)
           \/ Writes(<<Line("__request_sandbox_summary")>>)
    BY <1>0, <2>2 DEF DaemonEnds
  <2> QED
    BY <2>1, <2>3, WritesTyped DEF PipesTyped, Dies, Writes
<1>2. (PyTyped /\ JobTyped /\ ebp \in Processors /\ Locked /\ Assigned /\ Led)'
  BY <1>0 DEF Always, Typed, PyTyped, JobTyped, Locked, Assigned, Led, Within
<1>3. (ebd \in Daemons)' /\ ProcessIsGone'
  <2>1. ebd \in Daemons /\ (down # <<>> => Head(down) \in DownLines)
    BY SendsTyped DEF Always, Typed
  <2> QED
    BY <2>1, <1>0 DEF Daemons, Ats, Always, ProcessIsGone, DaemonEnds, Dies, Back, Daemon, Reads, ReadsOther
<1> QED
  BY <1>1, <1>2, <1>3 DEF Always, Typed

LEMMA DaemonEchoesAlways ==
    ASSUME ConstantsAssumption, Always, DaemonEchoes
    PROVE  Always'
<1>0. UNCHANGED <<open, py, cont, closer, val, got, err, holder, wanted, job, keys, updates, result, ebp>>
  BY DEF DaemonEchoes, Daemon, pyvars, taskvars, jobvars
<1>1. PipesTyped'
  <2>1. PipesTyped
    BY DEF Always, Typed
  <2> QED
    BY <2>1, <1>0, ReadsTyped, WritesTyped DEF PipesTyped, Always, Typed, Daemons, DaemonEchoes, Daemon, Reads, ReadsOther, Writes
<1>2. (PyTyped /\ JobTyped /\ ebp \in Processors /\ Locked /\ Assigned /\ Led)'
  BY <1>0 DEF Always, Typed, PyTyped, JobTyped, Locked, Assigned, Led, Within
<1>3. (ebd \in Daemons)' /\ ProcessIsGone'
  <2>1. ebd \in Daemons /\ (down # <<>> => Head(down) \in DownLines)
    BY SendsTyped DEF Always, Typed
  <2> QED
    BY <2>1, <1>0 DEF Daemons, Ats, Always, ProcessIsGone, DaemonEchoes, Daemon, Reads, ReadsOther
<1> QED
  BY <1>1, <1>2, <1>3 DEF Always, Typed

LEMMA InitAlways == ConstantsAssumption /\ Init => Always
<1> SUFFICES ASSUME ConstantsAssumption, Init PROVE Always
  OBVIOUS
<1> USE DEF Init, Fresh, Boot
<1>1. PipesTyped /\ PyTyped
  BY Sending, Writing DEF PipesTyped, PyTyped, Places, ErrKinds
<1>2. JobTyped
  BY DEF JobTyped, Results
<1>3. ebp \in Processors /\ ebd \in Daemons
  <2>1. <<>> \in Seq(Hoped)
    OBVIOUS
  <2> QED
    BY <2>1 DEF Processors, Daemons, Ats
<1>4. Assigned /\ Led /\ Locked /\ ProcessIsGone
  BY DEF Assigned, Led, Locked, ProcessIsGone, Within
<1> QED
  BY <1>1, <1>2, <1>3, <1>4 DEF Always, Typed

LEMMA NextAlways == ConstantsAssumption /\ Always /\ [Next]_vars => Always'
<1> SUFFICES ASSUME ConstantsAssumption, Always, [Next]_vars PROVE Always'
  OBVIOUS
<1>1. CASE \E h \in Holders, fds \in BOOLEAN : Request(h, fds)
  BY <1>1, RequestAlways
<1>2. CASE \E p \in Pkgs : Gen(p)
  BY <1>2, GenAlways
<1>3. CASE \E how \in {"strict", "lenient"} : Phase(how)
  BY <1>3, PhaseAlways
<1>4. CASE Finish
  BY <1>4, FinishAlways
<1>5. CASE Python
  <2>1. CASE ReadExpected
    BY <2>1, ReadExpectedAlways
  <2>2. CASE Expected
    BY <2>2, ExpectedAlways
  <2>3. CASE TimesOut
    BY <2>3, TimesOutAlways
  <2>4. CASE Dying
    BY <2>4, DyingAlways
  <2>5. CASE Hello
    BY <2>5, HelloAlways
  <2>6. CASE Spawned
    BY <2>6, SpawnedAlways
  <2>7. CASE Requested
    BY <2>7, RequestedAlways
  <2>8. CASE PathSet
    BY <2>8, PathSetAlways
  <2>9. CASE Sync
    BY <2>9, SyncAlways
  <2>10. CASE Synced
    BY <2>10, SyncedAlways
  <2>11. CASE HandleKey
    BY <2>11, HandleKeyAlways
  <2>12. CASE HandleInherit
    BY <2>12, HandleInheritAlways
  <2>13. CASE HandleIpc
    BY <2>13, HandleIpcAlways
  <2>14. CASE HandleBashrcs
    BY <2>14, HandleBashrcsAlways
  <2>15. CASE BashrcSent
    BY <2>15, BashrcSentAlways
  <2>16. CASE HandlePhases
    BY <2>16, HandlePhasesAlways
  <2>17. CASE HandleDying
    BY <2>17, HandleDyingAlways
  <2>18. CASE HandleUnknown
    BY <2>18, HandleUnknownAlways
  <2>19. CASE Preload
    BY <2>19, PreloadAlways
  <2>20. CASE Returned
    BY <2>20, ReturnedAlways
  <2>21. CASE EnvSent
    BY <2>21, EnvSentAlways
  <2>22. CASE LoggingSet
    BY <2>22, LoggingSetAlways
  <2>23. CASE AskedDown
    BY <2>23, AskedDownAlways
  <2>24. CASE Waited
    BY <2>24, WaitedAlways
  <2>25. CASE RaisedToHelper
    BY <2>25, RaisedToHelperAlways
  <2>26. CASE RaisedToReader
    BY <2>26, RaisedToReaderAlways
  <2>27. CASE RaisedToPhase
    BY <2>27, RaisedToPhaseAlways
  <2>28. CASE Stop
    BY <2>28, StopAlways
  <2>29. CASE Release
    BY <2>29, ReleaseAlways
  <2>30. CASE Released
    BY <2>30, ReleasedAlways
  <2>31. CASE Clear
    BY <2>31, ClearAlways
  <2>32. CASE ClearAnswered
    BY <2>32, ClearAnsweredAlways
  <2>33. CASE Forget
    BY <2>33, ForgetAlways
  <2> QED
    BY <2>1, <2>2, <2>3, <2>4, <2>5, <2>6, <2>7, <2>8, <2>9, <2>10, <2>11, <2>12, <2>13, <2>14,
       <2>15, <2>16, <2>17, <2>18, <2>19, <2>20, <2>21, <2>22, <2>23, <2>24, <2>25, <2>26,
       <2>27, <2>28, <2>29, <2>30, <2>31, <2>32, <2>33, <1>5 DEF Python
<1>6. CASE Bash
  <2>1. CASE DaemonBoots
    BY <2>1, DaemonBootsAlways
  <2>2. CASE DaemonAnswers
    BY <2>2, DaemonAnswersAlways
  <2>3. CASE DaemonLeaves
    BY <2>3, DaemonLeavesAlways
  <2>4. CASE DaemonStarts
    BY <2>4, DaemonStartsAlways
  <2>5. CASE DaemonPrepares
    BY <2>5, DaemonPreparesAlways
  <2>6. CASE DaemonInherits
    BY <2>6, DaemonInheritsAlways
  <2>7. CASE DaemonAsks
    BY <2>7, DaemonAsksAlways
  <2>8. CASE DaemonIsAnswered
    BY <2>8, DaemonIsAnsweredAlways
  <2>9. CASE DaemonEnds
    BY <2>9, DaemonEndsAlways
  <2>10. CASE DaemonEchoes
    BY <2>10, DaemonEchoesAlways
  <2> QED
    BY <2>1, <2>2, <2>3, <2>4, <2>5, <2>6, <2>7, <2>8, <2>9, <2>10, <1>6 DEF Bash
<1>7. CASE UNCHANGED vars
  BY <1>7 DEF vars, pyvars, taskvars, jobvars, Always, Typed, PipesTyped, PyTyped, JobTyped,
              Assigned, Led, Locked, Within, ProcessIsGone
<1> QED
  BY <1>1, <1>2, <1>3, <1>4, <1>5, <1>6, <1>7 DEF Next

LEMMA AlwaysHolds == Spec => []Always
<1>1. Init => Always
  BY InitAlways, ConstantsAssumption
<1>2. Always /\ [Next]_vars => Always'
  BY NextAlways, ConstantsAssumption
<1> QED
  BY <1>1, <1>2, PTL DEF Spec

\* Every variable holds what the code puts there: the lines in the pipes are commands,
\* and the processor's attributes keep their types, whatever goes wrong.
THEOREM TypeCorrect == Spec => []TypeOK
<1>1. Always => TypeOK
  <2> SUFFICES ASSUME Always PROVE TypeOK
    OBVIOUS
  <2>1. \A l \in DownLines : l.cmd \in Commands
    BY DEF DownLines, PlainCommands, Commands, MainCommands, PhasesCommands
  <2>2. \A i \in DOMAIN down : down[i].cmd \in Commands
    <3> SUFFICES ASSUME NEW i \in DOMAIN down PROVE down[i].cmd \in Commands
      OBVIOUS
    <3>1. down[i] \in DownLines
      <4>1. down \in Seq(DownLines)
        BY DEF Always, Typed, PipesTyped
      <4> QED
        BY <4>1, LenProperties, ElementOfSeq
    <3> QED
      BY <2>1, <3>1
  <2>3. ebp \in Processors /\ ebd \in Daemons
    BY DEF Always, Typed
  <2>4. /\ ebp.listed \in {"new", "active", "inactive", "dropped"}
        /\ {ebp.proc, ebp.locked, ebp.paths, ebp.fds, ebp.timer} \subseteq BOOLEAN
        /\ ebp.known \subseteq Eclasses
    BY <2>3 DEF Processors
  <2>5. /\ ebd.at \in Ats /\ ebd.src \in Pkgs \cup {None}
        /\ ebd.left \subseteq AllEclasses /\ ebd.known \subseteq Eclasses
    BY <2>3 DEF Daemons
  <2> QED
    BY <2>2, <2>4, <2>5 DEF TypeOK, Always, Typed, PipesTyped, PyTyped, JobTyped, Results, Ats
<1> QED
  BY <1>1, AlwaysHolds, PTL

\* The lock outlives no handler, whatever exception ends it, and a processor without a
\* process has no daemon, whatever goes wrong.
THEOREM NothingIsLeft == Spec => []NothingLingers
<1>1. Always => NothingLingers
  BY DEF Always, Locked, Within, NothingLingers, LockEnds
<1> QED
  BY <1>1, AlwaysHolds, PTL

-----------------------------------------------------------------------------
(* Both sides in step.                                                     *)

\* Nothing is said, nothing is owed.
Quiet(at) == ebd.at = at /\ down = <<>> /\ up = <<>> /\ ebp.expects = <<>>

\* Nothing went wrong in this call, and it is not its end.
Calm == err = "none" /\ closer = "idle"

\* A single question: on its way, answered, or its answer read.
Asked(at, ask, reply) ==
    /\ ebd.at = at
    /\ \/ down = <<Line(ask)>> /\ up = <<>> /\ got = <<>>
       \/ down = <<>> /\ up = <<Line(reply)>> /\ got = <<>>
       \/ down = <<>> /\ up = <<>> /\ got = <<Line(reply)>>

\* The main loop has but these questions to answer.
Queued(cmds, g) ==
    /\ ebd.at = "main"
    /\ \A i \in 1 .. Len(down) : down[i].cmd \in cmds
    /\ Matched(g, up, down, ebp.expects)

Died == <<Line("dying"), Line("error text"), Line("dead"), Phases("failed")>>

\* J is what a job about src still has in the pipe for Python.
Doing(src, J) ==
    \/ ebd.at = "job" /\ ebd.src = src /\ down = <<>> /\ J = <<>>
    \/ /\ ebd.at = "inherit" /\ ebd.src = src
       /\ \/ down = <<>> /\ \E e \in AllEclasses : J = <<Msg("request_inherit", e)>>
          \/ down = <<Line("path")>> /\ J = <<>>
    \/ /\ ebd.at = "ipc" /\ ebd.src = src /\ src = None
       /\ \/ down = <<>> /\ J = <<Line("ipc")>>
          \/ down = <<Line("status")>> /\ J = <<>>
    \/ /\ ebd.at = "bashrcs" /\ ebd.src = src /\ src = None
       /\ \/ down = <<>> /\ J = <<Line("request_bashrcs")>>
          \/ down = <<Line("end_request")>> /\ J = <<>>
    \/ /\ ebd.at = "main" /\ down = <<>>
       /\ \/ J \in {<<Phases("succeeded")>>, <<Phases("failed")>>, Died}
          \/ src # None /\ J = <<Msg("key", src), Phases("succeeded")>>

\* The daemon is to source the package, or does, behind the preloads.
Sourcing(g) ==
    \/ /\ ebd.at = "main"
       /\ \E D \in Seq(DownLines) :
            /\ down = D \o <<Msg("gen", job)>>
            /\ \A i \in 1 .. Len(D) : D[i].cmd = "preload"
            /\ Matched(g, up, D, ebp.expects)
    \/ \E R, J \in Seq(UpLines) :
         /\ up = R \o J
         /\ Matched(g, R, <<>>, ebp.expects)
         /\ Doing(job, J)

Starting ==
    /\ ebd.at = "phases"
    /\ up = <<>>
    /\ down = <<Line("set_sandbox_state"), Line("start_processing")>> \/ down = <<Line("start_processing")>>

Phasing == holder = "phase" /\ ebp.expects = <<>> /\ (Starting \/ Doing(None, up))

\* A phase whose environment bash refused: the daemon waits for it.
Keyed ==
    /\ up = <<>>
    /\ \/ ebd.at = "main" /\ down = <<Line("process_ebuild")>>
       \/ ebd.at = "phases" /\ down = <<>>

\* What holds at each place of the Python side.
Resting ==
    /\ Queued({"preload"}, <<>>)
    /\ holder \in {"reader", "phase"} \/ ebp.listed = "inactive" => ebp.expects = <<>>
    /\ holder # "none" => Calm
    /\ \A i \in 1 .. Len(ebp.expects) : ebp.expects[i] = Line("preload_eclass succeeded")
Raised ==
    \/ err = "processor" /\ Quiet("main")
    \/ err = "ipc" /\ holder = "phase" /\ closer = "idle" /\ Quiet("ipc")
    \/ err = "key" /\ holder = "phase" /\ closer = "idle" /\ ebp.expects = <<>> /\ Keyed
Stopping ==
    /\ ebp.expects = <<>>
    /\ \/ Quiet("main")
       \/ Keyed
       \/ ebd.at = "ipc" /\ down = <<Line("error")>> /\ up = <<>>
       \/ ebd.at = "main" /\ down = <<>> /\ up = Died
Handling ==
    /\ Calm /\ ebp.expects = <<>>
    /\ \/ /\ holder \in {"helper", "reader"} /\ keys \subseteq {job}
          /\ \/ ebd.at = "main" /\ up = <<>> /\ down = <<Msg("gen", job)>>
             \/ Doing(job, up)
       \/ Phasing
Syncing(g) ==
    /\ Calm
    /\ \/ holder \in {"helper", "reader"} /\ keys \subseteq {job} /\ Sourcing(g)
       \/ Phasing
Waiting ==
    /\ ~open
    /\ \/ ebd.at \in {"main", "phases"} /\ down = <<Line("shutdown_daemon")>>
       \/ ebd.at = "main" /\ down = <<>>
       \/ ebd.at = "exited"

\* What is left of a death, after its first line or after two.
Remains(rest) == up = Tail(Died) \o rest \/ up = Tail(Tail(Died)) \o rest
Burying ==
    /\ ebd.at = "main"
    /\ \/ cont = "handler" /\ Calm /\ ebp.expects = <<>> /\ down = <<>> /\ Remains(<<>>)
       \/ /\ cont = "down" /\ closer = "release" /\ ebp.expects = <<Line("yep!")>>
          /\ \/ down = <<Line("alive")>> /\ Remains(<<>>)
             \/ down = <<>> /\ Remains(<<Line("yep!")>>)

\* While lines are expected, for each place it goes on at.
ForHello == Calm /\ ebp.expects = <<Line("ebd!")>> /\ Asked("boot", "ebd?", "ebd!")
ForSpawned ==
    /\ Calm /\ ebp.expects = <<Line("readonly")>>
    /\ \/ ebd.at = "boot" /\ down = <<Line("sandbox?")>> /\ up = <<>> /\ got = <<>>
       \/ ebd.at = "main" /\ down = <<>> /\ up = <<Line("readonly")>> /\ got = <<>>
       \/ ebd.at = "main" /\ down = <<>> /\ up = <<>> /\ got = <<Line("readonly")>>
ForRequested == Calm /\ ebp.expects = <<Line("yep!")>> /\ Asked("main", "alive", "yep!")
ForPath == Calm /\ keys = {} /\ Queued({"preload", "set_metadata_path"}, got)
ForSynced == Calm /\ holder \in {"helper", "reader"} /\ keys \subseteq {job} /\ Sourcing(got)
ForBashrc ==
    Calm /\ ebd.src = None /\ ebp.expects = <<Line("next")>> /\ Asked("bashrcs", "path", "next")
ForEnv ==
    /\ Calm /\ ebp.expects = <<Line("env_received")>>
    /\ \/ /\ ebd.at = "main" /\ got = <<>> /\ up = <<>>
          /\ down = <<Line("process_ebuild"), Line("start_receiving_env")>>
       \/ Asked("phases", "start_receiving_env", "env_received")
ForLogging ==
    /\ Calm /\ ebp.expects = <<Line("logging_ack")>>
    /\ \/ /\ ebd.at = "phases" /\ got = <<>> /\ up = <<>>
          /\ down = <<Line("set_sandbox_state"), Line("logging")>>
       \/ Asked("phases", "logging", "logging_ack")
ForClear == closer = "release" /\ holder = "helper" /\ Queued({"preload", "alive"}, got)
ForCleared ==
    /\ closer = "release" /\ holder = "helper" /\ ebp.expects = <<Cleared>>
    /\ Asked("main", "clear_preloaded_eclasses", "clear_preloaded_eclasses succeeded")
ForDown ==
    /\ ebp.expects = <<Line("yep!")>>
    /\ \/ Asked("main", "alive", "yep!") \/ Asked("phases", "alive", "yep!")
       \/ /\ closer = "release" /\ got = <<>>
          /\ \/ ebd.at = "main" /\ up = <<>> /\ down = <<Line("process_ebuild"), Line("alive")>>
             \/ ebd.at = "ipc" /\ up = <<>> /\ down = <<Line("error"), Line("alive")>>
             \/ ebd.at = "main" /\ up = Died /\ down = <<Line("alive")>>
             \/ ebd.at = "main" /\ up = Died \o <<Line("yep!")>> /\ down = <<>>
Expecting ==
    /\ cont = "hello" => ForHello
    /\ cont = "spawned" => ForSpawned
    /\ cont = "requested" => ForRequested
    /\ cont = "path" => ForPath
    /\ cont = "synced" => ForSynced
    /\ cont = "bashrc" => ForBashrc
    /\ cont = "env" => ForEnv
    /\ cont = "logging" => ForLogging
    /\ cont = "clear" => ForClear
    /\ cont = "cleared" => ForCleared
    /\ cont = "down" => ForDown
    /\ cont # "handler"

AtHello == Quiet("boot") /\ Calm
AtSpawned == Quiet("main") /\ Calm
AtRequested == val /\ Quiet("main") /\ Calm
AtPath == val /\ Quiet("main") /\ Calm /\ keys = {}
AtSync == Syncing(<<>>)
AtSynced == val /\ Handling
AtBashrc == val /\ Quiet("bashrcs") /\ ebd.src = None /\ Calm
AtEnv == val /\ Quiet("phases") /\ Calm
AtClear == val /\ Quiet("main") /\ closer = "release" /\ holder = "helper"
AtCleared == ~val /\ Quiet("main") /\ closer = "release" /\ holder = "helper"
AtDown == val /\ (Quiet("main") \/ Quiet("phases"))
AtRelease == Quiet("main")

Conversing ==
    /\ py = "idle" => Resting
    /\ py = "returned" => Resting /\ holder # "none"
    /\ py = "expect" => Expecting
    /\ py = "dying" => Burying
    /\ py = "raise" => Raised
    /\ py = "stop" => Stopping
    /\ py = "release" => AtRelease
    /\ py = "requested" => AtRequested
    /\ py = "hello" => AtHello
    /\ py = "spawned" => AtSpawned
    /\ py = "path" => AtPath
    /\ py = "sync" => AtSync
    /\ py = "synced" => AtSynced
    /\ py = "handler" => Handling
    /\ py = "bashrc" => AtBashrc
    /\ py \in {"env", "logging"} => AtEnv
    /\ py = "clear" => AtClear
    /\ py = "cleared" => AtCleared
    /\ py = "down" => AtDown
    /\ py = "wait" => Waiting
    /\ py # "wait" => open
    /\ py \notin {"forget", "released"}

\* An eclass Python will not send again is one the daemon has, or is about to read; at
\* the end of the processor it no longer matters.
Ending == Within({"cleared", "down", "wait"})
Loaded ==
    \A e \in ebp.known : e \in ebd.known \/ \E i \in 1 .. Len(down) : down[i] = Msg("preload", e)

\* Only one that nobody holds lies in the inactive list.
Listed ==
    ebp.listed = "inactive" => (py = "idle" /\ holder = "none") \/ Within({"requested"})

Live == ebp.proc => Conversing /\ (Ending \/ Loaded) /\ Listed

\* Without a process, the call is at its end.
Gone ==
    ~ebp.proc =>
      /\ ~ebp.timer
      /\ \/ py \in {"stop", "release", "released"}
         \/ py = "raise" /\ err = "processor"
         \/ py = "idle" /\ holder = "none"

Timed == ebp.timer => Within({"clear", "cleared"}) \/ (py \in {"expect", "dying"} /\ cont \in {"requested", "down"})

Sourceless == ebd.at \in {"boot", "main", "phases"} => ebd.src = None

Agreement == Live /\ Gone /\ Timed /\ Sourceless /\ KeysAreThePackagesOwn

-----------------------------------------------------------------------------
(* The moves of the daemon, while nothing worse goes wrong.                *)

LEMMA BashKeeps ==
    Bash => UNCHANGED <<open, py, cont, closer, val, got, err, holder, wanted, job, keys, updates,
                        result, ebp>>
  BY DEF Bash, DaemonBoots, DaemonAnswers, DaemonLeaves, DaemonStarts, DaemonPrepares, DaemonInherits,
         DaemonAsks, DaemonIsAnswered, DaemonEnds, DaemonEchoes, Daemon, pyvars, jobvars, taskvars

LEMMA BashAt ==
    Bash => \/ ebd.at = "boot" /\ DaemonBoots
            \/ ebd.at = "main" /\ (DaemonAnswers \/ DaemonLeaves \/ DaemonStarts)
            \/ ebd.at = "phases" /\ DaemonPrepares
            \/ ebd.at = "job" /\ (DaemonInherits \/ DaemonAsks \/ DaemonEnds)
            \/ ebd.at \in {"inherit", "ipc", "bashrcs"} /\ DaemonIsAnswered
            \/ ebd.at = "summary" /\ DaemonEchoes
  BY DEF Bash, DaemonBoots, DaemonAnswers, DaemonLeaves, DaemonStarts, DaemonPrepares, DaemonInherits,
         DaemonAsks, DaemonIsAnswered, DaemonEnds, DaemonEchoes, Daemon

LEMMA BootMoves ==
    ASSUME ebd \in Daemons, Bash, ebd.at = "boot"
    PROVE  /\ down # <<>> /\ down' = Tail(down)
           /\ \/ Head(down).cmd = "ebd?" /\ up' = up \o <<Line("ebd!")>> /\ ebd' = ebd
              \/ /\ Head(down).cmd = "sandbox?"
                 /\ up' = up \o <<Line("readonly")>>
                 /\ ebd'.at = "main" /\ ebd'.src = None /\ ebd'.known = ebd.known
  BY BashAt DEF DaemonBoots, Reads, Writes, Back, Daemons

LEMMA MainMoves ==
    ASSUME ebd \in Daemons, Harmless, Bash, ebd.at = "main", open \/ down # <<>>
    PROVE  /\ down # <<>> /\ down' = Tail(down)
           /\ \/ /\ Head(down).cmd \in {"alive", "set_metadata_path", "preload"}
                 /\ up' = up \o <<Answer(Head(down))>>
                 /\ ebd'.at = "main" /\ ebd'.src = ebd.src /\ ebd.known \subseteq ebd'.known
                 /\ Head(down).cmd = "preload" => Head(down).arg \in ebd'.known
              \/ /\ Head(down).cmd = "clear_preloaded_eclasses"
                 /\ up' = up \o <<Line("clear_preloaded_eclasses succeeded")>>
                 /\ ebd'.at = "main" /\ ebd'.src = ebd.src
              \/ /\ Head(down).cmd = "gen"
                 /\ up' = up
                 /\ ebd'.at = "job" /\ ebd'.src = Head(down).arg /\ ebd'.known = ebd.known
              \/ /\ Head(down).cmd = "process_ebuild"
                 /\ up' = up
                 /\ ebd'.at = "phases" /\ ebd'.src = ebd.src /\ ebd'.known = ebd.known
              \/ Head(down).cmd = "shutdown_daemon" /\ ebd'.at = "exited" /\ ebd'.known = ebd.known
              \/ Head(down).cmd \notin MainCommands /\ ebd'.at = "exited" /\ ebd'.known = ebd.known
<1>1. DaemonAnswers \/ DaemonLeaves \/ DaemonStarts
  BY BashAt
<1>2. "preload" \notin faults
  BY DEF Harmless
<1>3. CASE DaemonAnswers
  BY <1>2, <1>3 DEF DaemonAnswers, Reads, Writes, Daemons, Answer, Daemon
<1>4. CASE DaemonLeaves
  BY <1>4 DEF DaemonLeaves, Reads, ReadsOther, Writes, Daemons, Killed, Daemon
<1>5. CASE DaemonStarts
  BY <1>5 DEF DaemonStarts, Reads, Daemons
<1> QED
  BY <1>1, <1>3, <1>4, <1>5

LEMMA PhasesMoves ==
    ASSUME ebd \in Daemons, Harmless, Bash, ebd.at = "phases"
    PROVE  /\ down # <<>> /\ down' = Tail(down) /\ ebd'.known = ebd.known
           /\ \/ /\ Head(down).cmd \in {"alive", "logging", "start_receiving_env"}
                 /\ up' = up \o <<Answer(Head(down))>> /\ ebd' = ebd
              \/ Head(down).cmd = "set_sandbox_state" /\ up' = up /\ ebd' = ebd
              \/ /\ Head(down).cmd = "start_processing"
                 /\ up' = up /\ ebd'.at = "job" /\ ebd'.src = ebd.src
              \/ Head(down).cmd = "shutdown_daemon" /\ ebd'.at = "main" /\ ebd'.src = None
              \/ Head(down).cmd \notin PhasesCommands /\ ebd'.at = "main" /\ ebd'.src = None
<1>1. DaemonPrepares
  BY BashAt
<1>2. "envfail" \notin faults
  BY DEF Harmless
<1> QED
  BY <1>1, <1>2 DEF DaemonPrepares, Reads, ReadsOther, Writes, Dies, Daemons, Answer, Back

LEMMA JobMoves ==
    ASSUME ebd \in Daemons, Harmless, Bash, ebd.at = "job"
    PROVE  /\ down' = down /\ ebd'.known = ebd.known
           /\ \/ up' = up /\ ebd'.at = "job" /\ ebd'.src = ebd.src
              \/ /\ ebd'.at = "inherit" /\ ebd'.src = ebd.src
                 /\ \E e \in AllEclasses : up' = up \o <<Msg("request_inherit", e)>>
              \/ /\ ebd.src = None /\ ebd'.src = None
                 /\ \/ ebd'.at = "ipc" /\ up' = up \o <<Line("ipc")>>
                    \/ ebd'.at = "bashrcs" /\ up' = up \o <<Line("request_bashrcs")>>
              \/ /\ ebd'.at = "main" /\ ebd'.src = None
                 /\ \/ up' = up \o <<Phases("succeeded")>>
                    \/ up' = up \o <<Phases("failed")>>
                    \/ up' = up \o Died
                    \/ ebd.src # None /\ up' = up \o <<Msg("key", ebd.src), Phases("succeeded")>>
<1>1. DaemonInherits \/ DaemonAsks \/ DaemonEnds
  BY BashAt
<1>2. "sandboxlog" \notin faults
  BY DEF Harmless
<1>3. CASE DaemonInherits
  <2>1. PICK e \in ebd.left :
          \/ ebd' = [ebd EXCEPT !.left = @ \ {e}] /\ UNCHANGED <<down, up>>
          \/ /\ up' = up \o <<Msg("request_inherit", e)>>
             /\ ebd' = [ebd EXCEPT !.left = @ \ {e}, !.at = "inherit"]
             /\ UNCHANGED down
    BY <1>3 DEF DaemonInherits, Writes
  <2>2. e \in AllEclasses
    BY DEF Daemons
  <2>3. /\ ebd'.known = ebd.known /\ ebd'.src = ebd.src /\ down' = down
        /\ \/ up' = up /\ ebd'.at = "job"
           \/ ebd'.at = "inherit" /\ up' = up \o <<Msg("request_inherit", e)>>
    BY <2>1 DEF Daemons
  <2> QED
    BY <2>2, <2>3
<1>4. CASE DaemonAsks
  BY <1>4 DEF DaemonAsks, Writes, Daemons
<1>5. CASE DaemonEnds
  BY <1>2, <1>5 DEF DaemonEnds, Writes, Dies, Died, Back, Daemons
<1> QED
  BY <1>1, <1>3, <1>4, <1>5

LEMMA ReplyMoves ==
    ASSUME ebd \in Daemons, Bash, ebd.at \in {"inherit", "ipc", "bashrcs"}
    PROVE  /\ down # <<>> /\ down' = Tail(down) /\ ebd'.known = ebd.known
           /\ \/ /\ \/ ebd.at = "inherit" /\ Head(down).cmd = "path"
                    \/ ebd.at = "ipc" /\ Head(down).cmd = "status"
                    \/ ebd.at = "bashrcs" /\ Head(down).cmd = "end_request"
                 /\ up' = up /\ ebd'.at = "job" /\ ebd'.src = ebd.src
              \/ /\ ebd.at = "bashrcs" /\ Head(down).cmd = "path"
                 /\ up' = up \o <<Line("next")>> /\ ebd' = ebd
              \/ /\ \/ ebd.at = "inherit" /\ Head(down).cmd # "path"
                    \/ ebd.at = "bashrcs" /\ Head(down).cmd \notin {"path", "end_request"}
                 /\ ebd'.at = "main" /\ ebd'.src = None
              \/ /\ ebd.at = "ipc" /\ Head(down).cmd # "status"
                 /\ up' = up \o Died
                 /\ ebd'.at = "main" /\ ebd'.src = None
<1>1. DaemonIsAnswered
  BY BashAt
<1> QED
  BY <1>1 DEF DaemonIsAnswered, Daemon, Reads, ReadsOther, Writes, Dies, Died, Back, Daemons

LEMMA Singles ==
    /\ \A a : Head(<<a>>) = a /\ Tail(<<a>>) = <<>> /\ <<a>> # <<>>
    /\ \A a, b : Head(<<a, b>>) = a /\ Tail(<<a, b>>) = <<b>> /\ <<a, b>> # <<>>
    /\ \A a : <<>> \o <<a>> = <<a>>
    /\ \A a, b : <<>> \o <<a, b>> = <<a, b>>
    /\ \A a, b : <<a>> \o <<b>> = <<a, b>>
<1>1. \A a, b : /\ <<>> \o <<a>> = <<a>>
                /\ <<>> \o <<a, b>> = <<a, b>>
                /\ <<a>> \o <<b>> = <<a, b>>
  BY ShortCats, Zenon
<1> QED
  BY <1>1

LEMMA SourcelessStays ==
    ASSUME Always, Harmless, Sourceless, Bash
    PROVE  Sourceless'
<1>1. ebd \in Daemons
  BY DEF Always, Typed
<1>2. CASE ebd.at = "main" /\ ~open /\ down = <<>>
  BY <1>1, <1>2, BashAt DEF DaemonAnswers, DaemonLeaves, DaemonStarts, Reads, ReadsOther, Sourceless, Killed, Daemons
<1>3. CASE ~(ebd.at = "main" /\ ~open /\ down = <<>>)
  <2>1. ebd.at \in Ats \ {"exited"}
    BY <1>1, BashAt DEF Daemons, Ats
  <2>2. CASE ebd.at = "boot"
    BY <1>1, <2>2, BootMoves DEF Sourceless
  <2>3. CASE ebd.at = "main"
    BY <1>1, <1>3, <2>3, MainMoves DEF Sourceless
  <2>4. CASE ebd.at = "phases"
    BY <1>1, <2>4, PhasesMoves DEF Sourceless
  <2>5. CASE ebd.at = "job"
    BY <1>1, <2>5, JobMoves DEF Sourceless
  <2>6. CASE ebd.at \in {"inherit", "ipc", "bashrcs"}
    BY <1>1, <2>6, ReplyMoves DEF Sourceless
  <2>7. CASE ebd.at = "summary"
    BY <2>7, BashAt DEF DaemonEchoes, Sourceless
  <2> QED
    BY <2>1, <2>2, <2>3, <2>4, <2>5, <2>6, <2>7 DEF Ats
<1> QED
  BY <1>2, <1>3

\* Each question of a queue is answered in its turn.
LEMMA QueuedStays ==
    ASSUME Always, Harmless, Bash, open, NEW cmds \in SUBSET {"alive", "set_metadata_path", "preload"},
           NEW g \in Seq(UpLines), Queued(cmds, g)
    PROVE  /\ ebd'.at = "main"
           /\ \A i \in 1 .. Len(down') : down'[i].cmd \in cmds
           /\ Matched(g, up', down', ebp'.expects)
<1>1. /\ ebd \in Daemons /\ down \in Seq(DownLines) /\ up \in Seq(UpLines)
      /\ ebp.expects \in Seq(UpLines)
  <2>1. ebd \in Daemons /\ down \in Seq(DownLines) /\ up \in Seq(UpLines)
    BY DEF Always, Typed, PipesTyped
  <2>2. ebp.expects \in Seq(Hoped)
    BY DEF Always, Typed, Processors
  <2> QED
    BY <2>1, <2>2, HopedLines
<1>2. /\ ebd.at = "main" /\ Matched(g, up, down, ebp.expects)
      /\ \A i \in 1 .. Len(down) : down[i].cmd \in cmds
  BY DEF Queued
<1>3. down # <<>> /\ down' = Tail(down)
  BY <1>1, <1>2, MainMoves
<1>4. /\ Len(down) \in Nat /\ Len(down) > 0 /\ Head(down) = down[1] /\ Len(down') = Len(down) - 1
      /\ \A i \in 1 .. Len(down) - 1 : down'[i] = down[i + 1]
  BY <1>1, <1>3, Taken
<1>5. Head(down).cmd \in {"alive", "set_metadata_path", "preload"}
  <2>1. 1 \in 1 .. Len(down)
    BY <1>4
  <2>2. down[1].cmd \in cmds
    BY <1>2, <2>1
  <2> QED
    BY <1>4, <2>2
<1>6. ebd'.at = "main" /\ up' = up \o <<Answer(Head(down))>>
  BY <1>1, <1>2, <1>5, MainMoves DEF MainCommands
<1>7. Answer(Head(down)) \in UpLines
  <2>1. Answer(Head(down)) \in {Line("yep!"), Line("metadata_path_received"), Line("preload_eclass succeeded")}
    BY <1>5 DEF Answer
  <2>2. {"yep!", "metadata_path_received", "preload_eclass succeeded"} \subseteq PlainReports
    BY DEF PlainReports
  <2> QED
    BY <2>1, <2>2, PlainLines
<1>8. Matched(g, up \o <<Answer(Head(down))>>, Tail(down), ebp.expects)
  BY <1>1, <1>2, <1>3, <1>7, MatchReply
<1>9. ebp' = ebp
  BY BashKeeps
<1>10. \A i \in 1 .. Len(down') : down'[i].cmd \in cmds
  <2> SUFFICES ASSUME NEW i \in 1 .. Len(down') PROVE down'[i].cmd \in cmds
    OBVIOUS
  <2>1. i + 1 \in 1 .. Len(down) /\ down'[i] = down[i + 1]
    BY <1>4
  <2> QED
    BY <1>2, <2>1
<1> QED
  BY <1>3, <1>6, <1>8, <1>9, <1>10

\* What a job says goes to the end of its pipe.
LEMMA DoingStays ==
    ASSUME Always, Harmless, Bash, open, NEW src \in Pkgs \cup {None}, NEW J \in Seq(UpLines),
           Doing(src, J)
    PROVE  \/ up' = up /\ Doing(src, J)'
           \/ J = <<>> /\ \E w \in Seq(UpLines) : up' = up \o w /\ Doing(src, w)'
<1>1. ebd \in Daemons
  BY DEF Always, Typed
<1>2. CASE ebd.at = "job" /\ ebd.src = src /\ down = <<>> /\ J = <<>>
  <2>1. CASE up' = up /\ ebd'.at = "job" /\ ebd'.src = ebd.src
    BY <1>1, <1>2, <2>1, JobMoves DEF Doing
  <2>2. CASE ebd'.at = "inherit" /\ ebd'.src = ebd.src
    <3>1. PICK e \in AllEclasses : up' = up \o <<Msg("request_inherit", e)>>
      BY <1>1, <1>2, <2>2, JobMoves
    <3> DEFINE w == <<Msg("request_inherit", e)>>
    <3>2. w \in Seq(UpLines)
      BY OtherLines, Writing
    <3>3. Doing(src, w)'
      BY <1>1, <1>2, <2>2, JobMoves DEF Doing
    <3> QED
      BY <1>2, <3>1, <3>2, <3>3
  <2>3. CASE ebd'.at \in {"ipc", "bashrcs"}
    <3>1. /\ Line("ipc") \in UpLines /\ Line("request_bashrcs") \in UpLines
      BY PlainLines DEF PlainReports
    <3>2. <<Line("ipc")>> \in Seq(UpLines) /\ <<Line("request_bashrcs")>> \in Seq(UpLines)
      BY <3>1, Writing
    <3>3. /\ ebd.src = None /\ ebd'.src = None /\ down' = down
          /\ \/ ebd'.at = "ipc" /\ up' = up \o <<Line("ipc")>>
             \/ ebd'.at = "bashrcs" /\ up' = up \o <<Line("request_bashrcs")>>
      BY <1>1, <1>2, <2>3, JobMoves
    <3>4. CASE ebd'.at = "ipc"
      <4>1. Doing(src, <<Line("ipc")>>)'
        BY <1>2, <3>3, <3>4 DEF Doing
      <4> QED
        BY <1>2, <3>2, <3>3, <3>4, <4>1
    <3>5. CASE ebd'.at = "bashrcs"
      <4>1. Doing(src, <<Line("request_bashrcs")>>)'
        BY <1>2, <3>3, <3>5 DEF Doing
      <4> QED
        BY <1>2, <3>2, <3>3, <3>5, <4>1
    <3> QED
      BY <2>3, <3>4, <3>5
  <2>4. CASE ebd'.at = "main"
    <3> DEFINE ends == {<<Phases("succeeded")>>, <<Phases("failed")>>, Died}
               key == <<Msg("key", src), Phases("succeeded")>>
    <3>0. \/ up' = up \o <<Phases("succeeded")>>
          \/ up' = up \o <<Phases("failed")>>
          \/ up' = up \o Died
          \/ src # None /\ up' = up \o key
      BY <1>1, <1>2, <2>4, JobMoves
    <3>1. \E w : up' = up \o w /\ (w \in ends \/ (src # None /\ w = key))
      BY <3>0, Zenon
    <3>4. PICK w : up' = up \o w /\ (w \in ends \/ (src # None /\ w = key))
      BY <3>1
    <3>2. w \in Seq(UpLines)
      <4>1. Died \in Seq(UpLines)
        <5>1. Line("dying") \in UpLines /\ Line("error text") \in UpLines /\ Line("dead") \in UpLines
          BY PlainLines DEF PlainReports
        <5>2. Phases("failed") \in UpLines
          BY OtherLines
        <5> DEFINE a == Line("dying")
                   b == Line("error text")
                   c == Line("dead")
                   d == Phases("failed")
        <5>3. a \in UpLines /\ b \in UpLines /\ c \in UpLines /\ d \in UpLines
          BY <5>1, <5>2
        <5> HIDE DEF a, b, c, d
        <5>4. <<a, b, c, d>> \in Seq(UpLines)
          BY <5>3
        <5> QED
          BY <5>4 DEF a, b, c, d, Died
      <4>2. src # None => <<Msg("key", src), Phases("succeeded")>> \in Seq(UpLines)
        BY OtherLines
      <4> QED
        BY <3>4, <4>1, <4>2, OtherLines, Writing
    <3>3. Doing(src, w)'
      BY <1>1, <1>2, <2>4, <3>4, JobMoves DEF Doing
    <3> QED
      BY <1>2, <3>4, <3>2, <3>3
  <2> QED
    BY <1>1, <1>2, <2>1, <2>2, <2>3, <2>4, JobMoves
<1>3. CASE ebd.at = "main" /\ down = <<>>
  BY <1>1, <1>3, MainMoves
<1>4. CASE ebd.at \in {"inherit", "ipc", "bashrcs"} /\ ebd.src = src
  <2>1. /\ J = <<>>
        /\ \/ ebd.at = "inherit" /\ down = <<Line("path")>>
           \/ ebd.at = "ipc" /\ down = <<Line("status")>>
           \/ ebd.at = "bashrcs" /\ down = <<Line("end_request")>>
    BY <1>1, <1>4, ReplyMoves DEF Doing
  <2>2. down' = <<>> /\ up' = up /\ ebd'.at = "job" /\ ebd'.src = src
    <3>1. CASE ebd.at = "inherit" /\ down = <<Line("path")>>
      BY <1>1, <1>4, <3>1, ReplyMoves, Singles DEF Line, Msg
    <3>2. CASE ebd.at = "ipc" /\ down = <<Line("status")>>
      BY <1>1, <1>4, <3>2, ReplyMoves, Singles DEF Line, Msg
    <3>3. CASE ebd.at = "bashrcs" /\ down = <<Line("end_request")>>
      BY <1>1, <1>4, <3>3, ReplyMoves, Singles DEF Line, Msg
    <3> QED
      BY <2>1, <3>1, <3>2, <3>3
  <2> QED
    BY <2>1, <2>2 DEF Doing
<1> QED
  BY <1>2, <1>3, <1>4 DEF Doing

LEMMA StartingStays ==
    ASSUME Always, Harmless, Bash, Sourceless, Starting
    PROVE  Starting' \/ (up' = <<>> /\ Doing(None, <<>>)')
<1>1. ebd \in Daemons /\ ebd.src = None
  BY DEF Always, Typed, Starting, Sourceless
<1>2. CASE down = <<Line("set_sandbox_state"), Line("start_processing")>>
  BY <1>1, <1>2, PhasesMoves, Singles DEF Starting, Line, Msg, PhasesCommands
<1>3. CASE down = <<Line("start_processing")>>
  BY <1>1, <1>3, PhasesMoves, Singles DEF Starting, Line, Msg, PhasesCommands, Doing
<1> QED
  BY <1>2, <1>3 DEF Starting

LEMMA PhasingStays ==
    ASSUME ConstantsAssumption, Always, Harmless, Bash, open, Sourceless, Phasing
    PROVE  Phasing'
<1>1. up \in Seq(UpLines)
  BY DEF Always, Typed, PipesTyped
<1>2. ebp' = ebp /\ holder' = holder
  BY BashKeeps
<1>3. CASE Starting
  BY <1>2, <1>3, StartingStays DEF Phasing
<1>4. CASE Doing(None, up)
  <2>1. PICK J \in Seq(UpLines) : J = up
    BY <1>1
  <2>2. \/ up' = up /\ Doing(None, J)'
        \/ J = <<>> /\ \E w \in Seq(UpLines) : up' = up \o w /\ Doing(None, w)'
    BY <1>4, <2>1, DoingStays
  <2>3. CASE up' = up /\ Doing(None, J)'
    BY <1>2, <2>1, <2>3 DEF Phasing, Doing
  <2>4. CASE J = <<>> /\ \E w \in Seq(UpLines) : up' = up \o w /\ Doing(None, w)'
    <3>1. PICK w \in Seq(UpLines) : up' = up \o w /\ Doing(None, w)'
      BY <2>4
    <3>2. up' = w
      BY <2>1, <2>4, <3>1, ConcatEmptySeq
    <3> QED
      BY <1>2, <3>1, <3>2 DEF Phasing, Doing
  <2> QED
    BY <2>2, <2>3, <2>4
<1> QED
  BY <1>3, <1>4 DEF Phasing

LEMMA Questions ==
    \A l : l.cmd \in {"alive", "set_metadata_path", "preload"} => Answer(l) \in UpLines
<1> SUFFICES ASSUME NEW l, l.cmd \in {"alive", "set_metadata_path", "preload"}
             PROVE  Answer(l) \in UpLines
  OBVIOUS
<1>1. Answer(l) \in {Line("yep!"), Line("metadata_path_received"), Line("preload_eclass succeeded")}
  BY DEF Answer
<1>2. {"yep!", "metadata_path_received", "preload_eclass succeeded"} \subseteq PlainReports
  BY DEF PlainReports
<1> QED
  BY <1>1, <1>2, PlainLines

LEMMA Flows ==
    ASSUME Always
    PROVE  /\ ebd \in Daemons /\ down \in Seq(DownLines) /\ up \in Seq(UpLines)
           /\ got \in Seq(UpLines) /\ ebp \in Processors
           /\ ebp.expects \in Seq(UpLines) /\ ebp.expects \in Seq(Hoped)
<1>1. /\ ebd \in Daemons /\ down \in Seq(DownLines) /\ up \in Seq(UpLines) /\ ebp \in Processors
      /\ got \in Seq(UpLines)
  BY DEF Always, Typed, PipesTyped, PyTyped
<1>2. ebp.expects \in Seq(Hoped)
  BY <1>1 DEF Processors
<1> QED
  BY <1>1, <1>2, HopedLines

\* The preloads before a package are answered, then it is sourced.
LEMMA SourcingStays ==
    ASSUME ConstantsAssumption, Always, Harmless, Bash, open, job \in Pkgs, NEW g \in Seq(UpLines),
           Sourcing(g)
    PROVE  Sourcing(g)'
<1>1. /\ ebd \in Daemons /\ down \in Seq(DownLines) /\ up \in Seq(UpLines)
      /\ ebp.expects \in Seq(UpLines)
  BY Flows
<1>2. ebp' = ebp /\ job' = job
  BY BashKeeps
<1>3. ASSUME NEW D \in Seq(DownLines), ebd.at = "main", down = D \o <<Msg("gen", job)>>,
             \A i \in 1 .. Len(D) : D[i].cmd = "preload", Matched(g, up, D, ebp.expects)
      PROVE  Sourcing(g)'
  <2> DEFINE last == <<Msg("gen", job)>>
  <2>1. last \in Seq(DownLines) /\ Head(last) = Msg("gen", job) /\ Tail(last) = <<>> /\ last # <<>>
    BY OtherLines, Sending, Singles
  <2> HIDE DEF last
  <2>2. CASE D = <<>>
    <3>1. down = last
      BY <1>3, <2>1, <2>2, ConcatEmptySeq DEF last
    <3>2. ebd'.at = "job" /\ ebd'.src = job /\ up' = up /\ down' = <<>>
      <4>1. Head(down).cmd = "gen" /\ Head(down).arg = job /\ Tail(down) = <<>>
        BY <2>1, <3>1 DEF Msg
      <4>2. "gen" \in MainCommands
        BY DEF MainCommands
      <4> QED
        BY <1>1, <1>3, <4>1, <4>2, MainMoves
    <3>3. up' = up \o <<>> /\ <<>> \in Seq(UpLines)
      BY <1>1, <3>2, ConcatEmptySeq, Writing
    <3>4. Doing(job, <<>>)'
      BY <3>2, <1>2 DEF Doing
    <3>5. Matched(g, up, <<>>, ebp'.expects)
      BY <1>2, <1>3, <2>2
    <3> QED
      BY <1>1, <3>3, <3>4, <3>5 DEF Sourcing
  <2>3. CASE D # <<>>
    <3>1. Head(down) = Head(D) /\ Tail(down) = Tail(D) \o last /\ down # <<>>
      BY <1>3, <2>1, <2>3, TakenOfCat DEF last
    <3>2. /\ Len(D) \in Nat /\ Len(D) > 0 /\ Head(D) = D[1] /\ Tail(D) \in Seq(DownLines)
          /\ Len(Tail(D)) = Len(D) - 1 /\ \A i \in 1 .. Len(D) - 1 : Tail(D)[i] = D[i + 1]
      BY <2>3, Taken
    <3>3. Head(down).cmd = "preload"
      <4>1. 1 \in 1 .. Len(D)
        BY <3>2
      <4> QED
        BY <1>3, <3>1, <3>2, <4>1
    <3>4. /\ down' = Tail(D) \o last /\ up' = up \o <<Answer(Head(D))>> /\ ebd'.at = "main"
      BY <1>1, <1>3, <3>1, <3>3, MainMoves DEF MainCommands
    <3>5. Matched(g, up', Tail(D), ebp'.expects)
      <4>1. Answer(Head(D)) \in UpLines
        BY <3>1, <3>3, Questions
      <4> QED
        BY <1>1, <1>2, <1>3, <2>3, <3>4, <4>1, MatchReply
    <3>6. \A i \in 1 .. Len(Tail(D)) : Tail(D)[i].cmd = "preload"
      <4> SUFFICES ASSUME NEW i \in 1 .. Len(Tail(D)) PROVE Tail(D)[i].cmd = "preload"
        OBVIOUS
      <4>1. i + 1 \in 1 .. Len(D) /\ Tail(D)[i] = D[i + 1]
        BY <3>2
      <4> QED
        BY <1>3, <4>1
    <3>7. down' = Tail(D) \o <<Msg("gen", job')>>
      BY <1>2, <3>4 DEF last
    <3> QED
      BY <3>2, <3>4, <3>5, <3>6, <3>7 DEF Sourcing
  <2> QED
    BY <2>2, <2>3
<1>4. ASSUME NEW R \in Seq(UpLines), NEW J \in Seq(UpLines), up = R \o J,
             Matched(g, R, <<>>, ebp.expects), Doing(job, J)
      PROVE  Sourcing(g)'
  <2>1. PICK src \in Pkgs : src = job
    OBVIOUS
  <2>2. \/ up' = up /\ Doing(src, J)'
        \/ J = <<>> /\ \E w \in Seq(UpLines) : up' = up \o w /\ Doing(src, w)'
    BY <1>4, <2>1, DoingStays
  <2>3. \E w \in Seq(UpLines) : up' = R \o w /\ Doing(src, w)'
    <3>1. CASE up' = up /\ Doing(src, J)'
      BY <1>4, <3>1
    <3>2. CASE J = <<>> /\ \E w \in Seq(UpLines) : up' = up \o w /\ Doing(src, w)'
      <4>1. up = R
        BY <1>4, <3>2, ConcatEmptySeq
      <4> QED
        BY <3>2, <4>1
    <3> QED
      BY <2>2, <3>1, <3>2
  <2>4. PICK w \in Seq(UpLines) : up' = R \o w /\ Doing(src, w)'
    BY <2>3
  <2>5. Doing(job, w)'
    BY <1>2, <2>1, <2>4 DEF Doing
  <2>6. Matched(g, R, <<>>, ebp'.expects)
    BY <1>2, <1>4
  <2> QED
    BY <2>4, <2>5, <2>6 DEF Sourcing
<1> QED
  BY <1>3, <1>4 DEF Sourcing

LEMMA SyncingStays ==
    ASSUME ConstantsAssumption, Always, Harmless, Bash, open, Sourceless, NEW g \in Seq(UpLines),
           Syncing(g), holder = "phase" \/ job \in Pkgs
    PROVE  Syncing(g)'
<1>1. UNCHANGED <<err, closer, holder, keys, job>>
  BY BashKeeps
<1>2. Calm'
  BY <1>1 DEF Calm, Syncing
<1>3. CASE holder \in {"helper", "reader"} /\ keys \subseteq {job} /\ Sourcing(g)
  <2>1. Sourcing(g)'
    BY <1>3, SourcingStays
  <2> QED
    BY <1>1, <1>2, <1>3, <2>1 DEF Syncing
<1>4. CASE Phasing
  BY <1>2, <1>4, PhasingStays DEF Syncing
<1> QED
  BY <1>3, <1>4 DEF Syncing

LEMMA HandlingStays ==
    ASSUME ConstantsAssumption, Always, Harmless, Bash, open, Sourceless, Handling,
           holder = "phase" \/ job \in Pkgs
    PROVE  Handling'
<1>0. /\ ebd \in Daemons /\ down \in Seq(DownLines) /\ up \in Seq(UpLines)
  BY Flows
<1>1. UNCHANGED <<err, closer, holder, keys, job, ebp>>
  BY BashKeeps
<1>2. Calm' /\ ebp'.expects = <<>>
  BY <1>1 DEF Calm, Handling
<1>3. CASE Phasing
  BY <1>2, <1>3, PhasingStays DEF Handling
<1>4. CASE holder \in {"helper", "reader"} /\ keys \subseteq {job}
  <2>1. CASE ebd.at = "main" /\ up = <<>> /\ down = <<Msg("gen", job)>>
    <3>1. ebd'.at = "job" /\ ebd'.src = job /\ up' = <<>> /\ down' = <<>>
      <4>1. Head(down).cmd = "gen" /\ Head(down).arg = job /\ Tail(down) = <<>>
        BY <2>1, Singles DEF Msg
      <4>2. "gen" \in MainCommands
        BY DEF MainCommands
      <4> QED
        BY <1>0, <2>1, <4>1, <4>2, MainMoves
    <3>2. Doing(job, up)'
      BY <1>1, <3>1 DEF Doing
    <3> QED
      BY <1>1, <1>2, <1>4, <3>2 DEF Handling
  <2>2. CASE Doing(job, up) /\ holder # "phase"
    <3>1. PICK src \in Pkgs, J \in Seq(UpLines) : src = job /\ J = up
      BY <1>0, <1>4, <2>2
    <3>2. \/ up' = up /\ Doing(src, J)'
          \/ J = <<>> /\ \E w \in Seq(UpLines) : up' = up \o w /\ Doing(src, w)'
      BY <2>2, <3>1, DoingStays
    <3>3. CASE up' = up /\ Doing(src, J)'
      <4>1. Doing(job, up)'
        BY <1>1, <3>1, <3>3 DEF Doing
      <4> QED
        BY <1>1, <1>2, <1>4, <4>1 DEF Handling
    <3>4. CASE J = <<>> /\ \E w \in Seq(UpLines) : up' = up \o w /\ Doing(src, w)'
      <4>1. PICK w \in Seq(UpLines) : up' = up \o w /\ Doing(src, w)'
        BY <3>4
      <4>2. up' = w
        BY <3>1, <3>4, <4>1, ConcatEmptySeq
      <4>3. Doing(job, up)'
        BY <1>1, <3>1, <4>1, <4>2 DEF Doing
      <4> QED
        BY <1>1, <1>2, <1>4, <4>3 DEF Handling
    <3> QED
      BY <3>2, <3>3, <3>4
  <2> QED
    BY <1>4, <2>1, <2>2, <1>3 DEF Handling
<1> QED
  BY <1>3, <1>4 DEF Handling

\* Only a question that was not read yet lets the daemon move.
LEMMA AskedMoves ==
    ASSUME Always, Harmless, Bash, open, NEW at \in {"boot", "main", "phases", "bashrcs"},
           NEW ask, NEW reply, Asked(at, ask, reply)
    PROVE  /\ ebd.at = at /\ down # <<>> /\ Head(down).cmd = ask /\ down' = <<>>
           /\ up = <<>> /\ got = <<>> /\ got' = <<>> /\ ebp' = ebp
           /\ UNCHANGED <<err, closer, holder, keys, job>>
           /\ \A r : up \o <<r>> = <<r>>
           /\ Answer(Head(down)) = Answer(Line(ask))
<1>1. ebd \in Daemons /\ ebd.at = at
  BY Flows DEF Asked
<1>2. down # <<>> /\ down' = Tail(down)
  BY <1>1, BootMoves, MainMoves, PhasesMoves, ReplyMoves
<1>3. down = <<Line(ask)>> /\ up = <<>> /\ got = <<>>
  BY <1>2 DEF Asked
<1>4. UNCHANGED <<got, ebp, err, closer, holder, keys, job>>
  BY BashKeeps
<1>5. Head(down) = Line(ask) /\ Tail(down) = <<>>
  BY <1>3, Singles
<1>6. Head(down).cmd = ask
  BY <1>5 DEF Line, Msg
<1> QED
  BY <1>1, <1>2, <1>3, <1>4, <1>5, <1>6, Singles

LEMMA ForHelloStays ==
    ASSUME Always, Harmless, Bash, open, ForHello
    PROVE  ForHello'
<1>1. Asked("boot", "ebd?", "ebd!")
  BY DEF ForHello
<1>2. /\ ebd.at = "boot" /\ Head(down).cmd = "ebd?" /\ down' = <<>> /\ got' = <<>> /\ ebp' = ebp
      /\ up \o <<Line("ebd!")>> = <<Line("ebd!")>> /\ UNCHANGED <<err, closer>>
  BY <1>1, AskedMoves
<1>3. up' = <<Line("ebd!")>> /\ ebd'.at = "boot"
  BY <1>2, Flows, BootMoves
<1> QED
  BY <1>2, <1>3 DEF ForHello, Calm, Asked

LEMMA ForSpawnedStays ==
    ASSUME Always, Harmless, Bash, open, ForSpawned
    PROVE  ForSpawned'
<1>1. ebd \in Daemons /\ UNCHANGED <<err, closer, ebp, got>>
  BY Flows, BashKeeps
<1>2. CASE ebd.at = "boot" /\ down = <<Line("sandbox?")>> /\ up = <<>> /\ got = <<>>
  <2>1. Head(down).cmd = "sandbox?" /\ Tail(down) = <<>> /\ up \o <<Line("readonly")>> = <<Line("readonly")>>
    BY <1>2, Singles DEF Line, Msg
  <2>2. down' = <<>> /\ up' = <<Line("readonly")>> /\ ebd'.at = "main"
    BY <1>1, <1>2, <2>1, BootMoves
  <2> QED
    BY <1>1, <1>2, <2>2 DEF ForSpawned, Calm
<1>3. CASE ebd.at = "main" /\ down = <<>>
  BY <1>1, <1>3, MainMoves
<1> QED
  BY <1>2, <1>3 DEF ForSpawned

LEMMA ForRequestedStays ==
    ASSUME Always, Harmless, Bash, open, ForRequested
    PROVE  ForRequested'
<1>1. Asked("main", "alive", "yep!")
  BY DEF ForRequested
<1>2. /\ ebd.at = "main" /\ Head(down).cmd = "alive" /\ down' = <<>> /\ got' = <<>> /\ ebp' = ebp
      /\ \A r : up \o <<r>> = <<r>> /\ UNCHANGED <<err, closer>>
  BY <1>1, AskedMoves
<1>3. up' = <<Line("yep!")>> /\ ebd'.at = "main"
  BY <1>2, Flows, MainMoves DEF Answer, MainCommands
<1> QED
  BY <1>2, <1>3 DEF ForRequested, Calm, Asked

LEMMA ForPathStays ==
    ASSUME Always, Harmless, Bash, open, ForPath
    PROVE  ForPath'
<1>1. UNCHANGED <<err, closer, keys, got>> /\ got \in Seq(UpLines)
  BY Flows, BashKeeps
<1>2. PICK g \in Seq(UpLines) : g = got
  BY <1>1
<1> DEFINE cmds == {"preload", "set_metadata_path"}
<1>3. Queued(cmds, g) /\ cmds \in SUBSET {"alive", "set_metadata_path", "preload"}
  BY <1>2 DEF ForPath
<1> HIDE DEF cmds
<1>4. /\ ebd'.at = "main" /\ \A i \in 1 .. Len(down') : down'[i].cmd \in cmds
      /\ Matched(g, up', down', ebp'.expects)
  BY <1>3, QueuedStays
<1> QED
  BY <1>1, <1>2, <1>4 DEF ForPath, Queued, Calm, cmds

LEMMA ForClearStays ==
    ASSUME Always, Harmless, Bash, open, ForClear
    PROVE  ForClear'
<1>1. UNCHANGED <<closer, holder, got>> /\ got \in Seq(UpLines)
  BY Flows, BashKeeps
<1>2. PICK g \in Seq(UpLines) : g = got
  BY <1>1
<1> DEFINE cmds == {"preload", "alive"}
<1>3. Queued(cmds, g) /\ cmds \in SUBSET {"alive", "set_metadata_path", "preload"}
  BY <1>2 DEF ForClear
<1> HIDE DEF cmds
<1>4. /\ ebd'.at = "main" /\ \A i \in 1 .. Len(down') : down'[i].cmd \in cmds
      /\ Matched(g, up', down', ebp'.expects)
  BY <1>3, QueuedStays
<1> QED
  BY <1>1, <1>2, <1>4 DEF ForClear, Queued, cmds

LEMMA RestingStays ==
    ASSUME Always, Harmless, Bash, open, Resting
    PROVE  Resting'
<1>1. UNCHANGED <<closer, holder, err, ebp>>
  BY BashKeeps
<1> DEFINE cmds == {"preload"}
<1>3. Queued(cmds, <<>>) /\ cmds \in SUBSET {"alive", "set_metadata_path", "preload"}
  BY DEF Resting
<1> HIDE DEF cmds
<1>4. /\ ebd'.at = "main" /\ \A i \in 1 .. Len(down') : down'[i].cmd \in cmds
      /\ Matched(<<>>, up', down', ebp'.expects)
  <2>1. <<>> \in Seq(UpLines)
    BY Writing
  <2> QED
    BY <1>3, <2>1, QueuedStays
<1> QED
  BY <1>1, <1>4 DEF Resting, Queued, Calm, cmds

LEMMA ForBashrcStays ==
    ASSUME Always, Harmless, Bash, open, ForBashrc
    PROVE  ForBashrc'
<1>1. Asked("bashrcs", "path", "next")
  BY DEF ForBashrc
<1>2. /\ ebd.at = "bashrcs" /\ Head(down).cmd = "path" /\ down' = <<>> /\ got' = <<>> /\ ebp' = ebp
      /\ \A r : up \o <<r>> = <<r>> /\ UNCHANGED <<err, closer>>
  BY <1>1, AskedMoves
<1>3. up' = <<Line("next")>> /\ ebd' = ebd
  BY <1>2, Flows, ReplyMoves
<1> QED
  BY <1>2, <1>3 DEF ForBashrc, Calm, Asked

LEMMA ForEnvStays ==
    ASSUME Always, Harmless, Bash, open, ForEnv
    PROVE  ForEnv'
<1>1. CASE Asked("phases", "start_receiving_env", "env_received")
  <2>2. /\ ebd.at = "phases" /\ Head(down).cmd = "start_receiving_env" /\ down' = <<>> /\ got' = <<>>
        /\ ebp' = ebp /\ \A r : up \o <<r>> = <<r>> /\ UNCHANGED <<err, closer>>
    BY <1>1, AskedMoves
  <2>3. up' = <<Line("env_received")>> /\ ebd'.at = "phases"
    BY <2>2, Flows, PhasesMoves DEF Answer, PhasesCommands
  <2> QED
    BY <2>2, <2>3 DEF ForEnv, Calm, Asked
<1>2. CASE /\ ebd.at = "main" /\ got = <<>> /\ up = <<>>
           /\ down = <<Line("process_ebuild"), Line("start_receiving_env")>>
  <2>1. ebd \in Daemons /\ UNCHANGED <<err, closer, ebp, got>>
    BY Flows, BashKeeps
  <2>2. Head(down).cmd = "process_ebuild" /\ Tail(down) = <<Line("start_receiving_env")>> /\ down # <<>>
    BY <1>2, Singles DEF Line, Msg
  <2>3. "process_ebuild" \in MainCommands
    BY DEF MainCommands
  <2>4. ebd'.at = "phases" /\ up' = <<>> /\ down' = <<Line("start_receiving_env")>>
    BY <1>2, <2>1, <2>2, <2>3, MainMoves
  <2> QED
    BY <1>2, <2>1, <2>4 DEF ForEnv, Calm, Asked
<1> QED
  BY <1>1, <1>2 DEF ForEnv

LEMMA ForLoggingStays ==
    ASSUME Always, Harmless, Bash, open, ForLogging
    PROVE  ForLogging'
<1>1. CASE Asked("phases", "logging", "logging_ack")
  <2>2. /\ ebd.at = "phases" /\ Head(down).cmd = "logging" /\ down' = <<>> /\ got' = <<>>
        /\ ebp' = ebp /\ \A r : up \o <<r>> = <<r>> /\ UNCHANGED <<err, closer>>
    BY <1>1, AskedMoves
  <2>3. up' = <<Line("logging_ack")>> /\ ebd'.at = "phases"
    BY <2>2, Flows, PhasesMoves DEF Answer, PhasesCommands
  <2> QED
    BY <2>2, <2>3 DEF ForLogging, Calm, Asked
<1>2. CASE /\ ebd.at = "phases" /\ got = <<>> /\ up = <<>>
           /\ down = <<Line("set_sandbox_state"), Line("logging")>>
  <2>1. ebd \in Daemons /\ UNCHANGED <<err, closer, ebp, got>>
    BY Flows, BashKeeps
  <2>2. Head(down).cmd = "set_sandbox_state" /\ Tail(down) = <<Line("logging")>> /\ down # <<>>
    BY <1>2, Singles DEF Line, Msg
  <2>3. "set_sandbox_state" \in PhasesCommands
    BY DEF PhasesCommands
  <2>4. ebd'.at = "phases" /\ up' = <<>> /\ down' = <<Line("logging")>>
    BY <1>2, <2>1, <2>2, <2>3, PhasesMoves
  <2> QED
    BY <1>2, <2>1, <2>4 DEF ForLogging, Calm, Asked
<1> QED
  BY <1>1, <1>2 DEF ForLogging

LEMMA ForClearedStays ==
    ASSUME Always, Harmless, Bash, open, ForCleared
    PROVE  ForCleared'
<1>1. Asked("main", "clear_preloaded_eclasses", "clear_preloaded_eclasses succeeded")
  BY DEF ForCleared
<1>2. /\ ebd.at = "main" /\ Head(down).cmd = "clear_preloaded_eclasses" /\ down' = <<>> /\ got' = <<>>
      /\ ebp' = ebp /\ \A r : up \o <<r>> = <<r>> /\ UNCHANGED <<closer, holder>>
  BY <1>1, AskedMoves
<1>3. up' = <<Line("clear_preloaded_eclasses succeeded")>> /\ ebd'.at = "main"
  BY <1>2, Flows, MainMoves DEF MainCommands
<1> QED
  BY <1>2, <1>3 DEF ForCleared, Asked

LEMMA ForDownStays ==
    ASSUME Always, Harmless, Bash, open, ForDown
    PROVE  ForDown'
<1>0. /\ ebd \in Daemons /\ UNCHANGED <<closer, ebp, got>> /\ ebp.expects = <<Line("yep!")>>
  BY Flows, BashKeeps DEF ForDown
<1>a. "alive" \in MainCommands /\ "process_ebuild" \in MainCommands /\ "alive" \in PhasesCommands
  BY DEF MainCommands, PhasesCommands
<1>1. CASE Asked("main", "alive", "yep!")
  <2>1. ebd.at = "main" /\ Head(down).cmd = "alive" /\ down' = <<>> /\ got' = <<>> /\ \A r : up \o <<r>> = <<r>>
    BY <1>1, AskedMoves
  <2>2. up' = <<Line("yep!")>> /\ ebd'.at = "main"
    BY <1>0, <1>a, <2>1, MainMoves DEF Answer
  <2> QED
    BY <1>0, <2>1, <2>2 DEF ForDown, Asked
<1>2. CASE Asked("phases", "alive", "yep!")
  <2>1. ebd.at = "phases" /\ Head(down).cmd = "alive" /\ down' = <<>> /\ got' = <<>> /\ \A r : up \o <<r>> = <<r>>
    BY <1>2, AskedMoves
  <2>2. up' = <<Line("yep!")>> /\ ebd'.at = "phases"
    BY <1>0, <1>a, <2>1, PhasesMoves DEF Answer
  <2> QED
    BY <1>0, <2>1, <2>2 DEF ForDown, Asked
<1>3. CASE closer = "release" /\ got = <<>>
  <2>1. CASE ebd.at = "main" /\ up = <<>> /\ down = <<Line("process_ebuild"), Line("alive")>>
    <3>1. Head(down).cmd = "process_ebuild" /\ Tail(down) = <<Line("alive")>>
      BY <2>1, Singles DEF Line, Msg
    <3>2. ebd'.at = "phases" /\ up' = <<>> /\ down' = <<Line("alive")>>
      BY <1>0, <1>a, <2>1, <3>1, MainMoves
    <3> QED
      BY <1>0, <1>3, <3>2 DEF ForDown, Asked
  <2>2. CASE ebd.at = "ipc" /\ up = <<>> /\ down = <<Line("error"), Line("alive")>>
    <3>1. Head(down).cmd = "error" /\ Tail(down) = <<Line("alive")>>
      BY <2>2, Singles DEF Line, Msg
    <3>2. <<>> \o Died = Died
      BY ShortCats, Zenon DEF Died
    <3>3. ebd'.at = "main" /\ up' = Died /\ down' = <<Line("alive")>>
      BY <1>0, <2>2, <3>1, <3>2, ReplyMoves
    <3> QED
      BY <1>0, <1>3, <3>3 DEF ForDown
  <2>3. CASE ebd.at = "main" /\ up = Died /\ down = <<Line("alive")>>
    <3>1. Head(down).cmd = "alive" /\ Tail(down) = <<>>
      BY <2>3, Singles DEF Line, Msg
    <3>2. ebd'.at = "main" /\ up' = Died \o <<Line("yep!")>> /\ down' = <<>>
      BY <1>0, <1>a, <2>3, <3>1, MainMoves DEF Answer
    <3> QED
      BY <1>0, <1>3, <3>2 DEF ForDown
  <2>4. CASE ebd.at = "main" /\ up = Died \o <<Line("yep!")>> /\ down = <<>>
    BY <1>0, <2>4, MainMoves
  <2> QED
    BY <1>1, <1>2, <2>1, <2>2, <2>3, <2>4 DEF ForDown
<1> QED
  BY <1>1, <1>2, <1>3 DEF ForDown

LEMMA QuietStays ==
    ASSUME Always, Harmless, Bash, open, NEW at \in {"boot", "main", "phases", "inherit", "ipc", "bashrcs"},
           Quiet(at)
    PROVE  FALSE
<1>1. ebd \in Daemons /\ ebd.at = at /\ down = <<>>
  BY Flows DEF Quiet
<1> QED
  BY <1>1, BootMoves, MainMoves, PhasesMoves, ReplyMoves

LEMMA KeyedStays ==
    ASSUME Always, Harmless, Bash, open, Keyed
    PROVE  Keyed'
<1>1. ebd \in Daemons
  BY Flows
<1>2. CASE ebd.at = "main" /\ down = <<Line("process_ebuild")>>
  <2>1. Head(down).cmd = "process_ebuild" /\ Tail(down) = <<>>
    BY <1>2, Singles DEF Line, Msg
  <2>2. "process_ebuild" \in MainCommands
    BY DEF MainCommands
  <2>3. ebd'.at = "phases" /\ up' = up /\ down' = <<>>
    BY <1>1, <1>2, <2>1, <2>2, MainMoves
  <2> QED
    BY <2>3 DEF Keyed
<1>3. CASE ebd.at = "phases" /\ down = <<>>
  BY <1>1, <1>3, PhasesMoves
<1> QED
  BY <1>2, <1>3 DEF Keyed

LEMMA RaisedStays ==
    ASSUME Always, Harmless, Bash, open, Raised
    PROVE  Raised'
<1>1. UNCHANGED <<err, holder, closer, ebp>>
  BY BashKeeps
<1>2. ~Quiet("main") /\ ~Quiet("ipc")
  BY QuietStays
<1>3. err = "key" /\ holder = "phase" /\ closer = "idle" /\ ebp.expects = <<>> /\ Keyed
  BY <1>2 DEF Raised
<1> QED
  BY <1>1, <1>3, KeyedStays DEF Raised

LEMMA StoppingStays ==
    ASSUME Always, Harmless, Bash, open, Stopping
    PROVE  Stopping'
<1>1. ebd \in Daemons /\ ebp' = ebp /\ ebp.expects = <<>>
  BY Flows, BashKeeps DEF Stopping
<1>2. ~Quiet("main")
  BY QuietStays
<1>3. CASE Keyed
  BY <1>1, <1>3, KeyedStays DEF Stopping
<1>4. CASE ebd.at = "ipc" /\ down = <<Line("error")>> /\ up = <<>>
  <2>1. Head(down).cmd = "error" /\ Tail(down) = <<>>
    BY <1>4, Singles DEF Line, Msg
  <2>2. <<>> \o Died = Died
    BY ShortCats, Zenon DEF Died
  <2>3. ebd'.at = "main" /\ up' = Died /\ down' = <<>>
    BY <1>1, <1>4, <2>1, <2>2, ReplyMoves
  <2> QED
    BY <1>1, <2>3 DEF Stopping
<1>5. CASE ebd.at = "main" /\ down = <<>> /\ up = Died
  BY <1>1, <1>5, MainMoves
<1> QED
  BY <1>2, <1>3, <1>4, <1>5 DEF Stopping

LEMMA WaitingStays ==
    ASSUME Always, Harmless, Bash, Waiting
    PROVE  Waiting'
<1>1. ebd \in Daemons /\ open' = open
  BY Flows, BashKeeps
<1>2. CASE ebd.at \in {"main", "phases"} /\ down = <<Line("shutdown_daemon")>>
  <2>1. Head(down).cmd = "shutdown_daemon" /\ Tail(down) = <<>> /\ down # <<>>
    BY <1>2, Singles DEF Line, Msg
  <2>2. "shutdown_daemon" \in MainCommands \cap PhasesCommands
    BY DEF MainCommands, PhasesCommands
  <2>3. CASE ebd.at = "main"
    <3>1. ebd'.at = "exited"
      BY <1>1, <2>1, <2>2, <2>3, MainMoves
    <3> QED
      BY <1>1, <3>1 DEF Waiting
  <2>4. CASE ebd.at = "phases"
    <3>1. ebd'.at = "main" /\ down' = <<>>
      BY <1>1, <2>1, <2>2, <2>4, PhasesMoves
    <3> QED
      BY <1>1, <3>1 DEF Waiting
  <2> QED
    BY <1>2, <2>3, <2>4
<1>3. CASE ebd.at = "main" /\ down = <<>>
  <2>1. ebd'.at = "exited"
    BY <1>1, <1>3, BashAt DEF DaemonAnswers, DaemonLeaves, DaemonStarts, Reads, ReadsOther, Killed, Daemons
  <2> QED
    BY <1>1, <2>1 DEF Waiting
<1>4. CASE ebd.at = "exited"
  BY <1>4, BashAt
<1> QED
  BY <1>2, <1>3, <1>4 DEF Waiting

LEMMA DeathLines ==
    /\ Tail(Died) = <<Line("error text"), Line("dead"), Phases("failed")>>
    /\ Tail(Tail(Died)) = <<Line("dead"), Phases("failed")>>
    /\ Tail(Tail(Tail(Died))) = <<Phases("failed")>>
    /\ Tail(Died) \o <<>> = Tail(Died) /\ Tail(Tail(Died)) \o <<>> = Tail(Tail(Died))
<1>0. \A a, b, c, d : /\ Tail(<<a, b, c, d>>) = <<b, c, d>>
                      /\ Tail(<<b, c, d>>) = <<c, d>>
                      /\ Tail(<<c, d>>) = <<d>>
  OBVIOUS
<1>1. /\ Tail(Died) = <<Line("error text"), Line("dead"), Phases("failed")>>
      /\ Tail(Tail(Died)) = <<Line("dead"), Phases("failed")>>
      /\ Tail(Tail(Tail(Died))) = <<Phases("failed")>>
  <2>1. Tail(Died) = <<Line("error text"), Line("dead"), Phases("failed")>>
    <3> DEFINE a == Line("dying")
               b == Line("error text")
               c == Line("dead")
               d == Phases("failed")
    <3>1. Died = <<a, b, c, d>>
      BY Zenon DEF Died
    <3> HIDE DEF a, b, c, d
    <3>2. Tail(<<a, b, c, d>>) = <<b, c, d>>
      OBVIOUS
    <3>3. Tail(Died) = <<b, c, d>>
      BY <3>1, <3>2
    <3> QED
      BY <3>3 DEF b, c, d
  <2>2. Tail(<<Line("error text"), Line("dead"), Phases("failed")>>) = <<Line("dead"), Phases("failed")>>
    BY <1>0, Zenon
  <2>3. Tail(<<Line("dead"), Phases("failed")>>) = <<Phases("failed")>>
    BY <1>0, Zenon
  <2> QED
    BY <2>1, <2>2, <2>3
<1> DEFINE a == Line("error text")
           b == Line("dead")
           c == Phases("failed")
           S == {a, b, c}
<1> HIDE DEF a, b, c
<1>2. <<a, b, c>> \in Seq(S) /\ <<b, c>> \in Seq(S)
  OBVIOUS
<1> HIDE DEF S
<1>3. <<a, b, c>> \o <<>> = <<a, b, c>> /\ <<b, c>> \o <<>> = <<b, c>>
  BY <1>2, ConcatEmptySeq
<1> QED
  BY <1>1, <1>3 DEF a, b, c

LEMMA BuryingStays ==
    ASSUME Always, Harmless, Bash, open, Burying
    PROVE  Burying'
<1>1. ebd \in Daemons /\ UNCHANGED <<cont, err, closer, ebp>> /\ ebd.at = "main"
  BY Flows, BashKeeps DEF Burying
<1>2. down # <<>>
  BY <1>1, MainMoves
<1>3. /\ cont = "down" /\ closer = "release" /\ ebp.expects = <<Line("yep!")>>
      /\ down = <<Line("alive")>> /\ Remains(<<>>)
  BY <1>2 DEF Burying
<1>4. Head(down).cmd = "alive" /\ Tail(down) = <<>> /\ "alive" \in MainCommands
  BY <1>3, Singles DEF Line, Msg, MainCommands
<1>5. down' = <<>> /\ ebd'.at = "main" /\ up' = up \o <<Line("yep!")>>
  BY <1>1, <1>2, <1>4, MainMoves DEF Answer
<1>6. up = Tail(Died) \/ up = Tail(Tail(Died))
  BY <1>3, DeathLines DEF Remains
<1> QED
  BY <1>1, <1>3, <1>5, <1>6 DEF Burying, Remains

LEMMA ExpectingStays ==
    ASSUME ConstantsAssumption, Always, Harmless, Bash, open, Sourceless, py = "expect", Expecting
    PROVE  Expecting'
<1>1. UNCHANGED <<cont, py, got, err, closer, holder, keys, job>> /\ got \in Seq(UpLines)
  BY BashKeeps, Flows
<1>2. cont = "synced" => ForSynced'
  <2> SUFFICES ASSUME cont = "synced" PROVE ForSynced'
    OBVIOUS
  <2>1. ForSynced
    BY DEF Expecting
  <2>2. job \in Pkgs
    BY <2>1 DEF ForSynced, Always, Assigned, Within
  <2>3. PICK g \in Seq(UpLines) : g = got
    BY <1>1
  <2>4. Sourcing(g)'
    BY <2>1, <2>2, <2>3, SourcingStays DEF ForSynced
  <2>5. Sourcing(got)'
    BY <1>1, <2>3, <2>4 DEF Sourcing
  <2> QED
    BY <1>1, <2>1, <2>5 DEF ForSynced, Calm
<1> QED
  BY <1>1, <1>2, ForHelloStays, ForSpawnedStays, ForRequestedStays, ForPathStays, ForBashrcStays,
     ForEnvStays, ForLoggingStays, ForClearStays, ForClearedStays, ForDownStays DEF Expecting

\* The next line for the daemon is one it makes sense of where it is; "some" says which
\* commands of the main loop are meant.
Apt(some) ==
    /\ ebd.at # "summary"
    /\ down # <<>> =>
         \/ ebd.at = "boot" /\ Head(down).cmd \in {"ebd?", "sandbox?"}
         \/ ebd.at = "main" /\ Head(down).cmd \in some
         \/ ebd.at = "phases" /\ Head(down).cmd \in PhasesCommands
         \/ ebd.at = "inherit" /\ Head(down).cmd = "path"
         \/ ebd.at = "ipc" /\ Head(down).cmd \in {"status", "error"}
         \/ ebd.at = "bashrcs" /\ Head(down).cmd \in {"path", "end_request"}
         \/ ebd.at = "exited"

Usual == MainCommands \ {"clear_preloaded_eclasses"}

LEMMA QuietApt == \A at : at # "summary" /\ Quiet(at) => Apt(Usual)
  BY DEF Quiet, Apt

LEMMA AskedApt ==
    ASSUME NEW at, NEW ask, NEW reply, Asked(at, ask, reply),
           \/ at = "boot" /\ ask = "ebd?"
           \/ at = "main" /\ ask = "alive"
           \/ at = "phases" /\ ask \in {"alive", "start_receiving_env", "logging"}
           \/ at = "bashrcs" /\ ask = "path"
    PROVE  Apt(Usual)
<1>1. down # <<>> => Head(down).cmd = ask
  BY Singles DEF Asked, Line, Msg
<1> QED
  BY <1>1 DEF Apt, Asked, Usual, MainCommands, PhasesCommands

LEMMA QueuedApt ==
    ASSUME Always, NEW cmds \in SUBSET Usual, NEW g, Queued(cmds, g)
    PROVE  Apt(Usual)
<1>1. ebd.at = "main" /\ (down # <<>> => Head(down).cmd \in Usual)
  <2> SUFFICES ASSUME down # <<>> PROVE Head(down).cmd \in Usual
    BY DEF Queued
  <2>1. Len(down) \in Nat /\ Len(down) > 0 /\ Head(down) = down[1]
    BY Flows, Taken
  <2>2. 1 \in 1 .. Len(down)
    BY <2>1
  <2> QED
    BY <2>1, <2>2 DEF Queued
<1> QED
  BY <1>1 DEF Apt

LEMMA DoingApt == \A src, J : Doing(src, J) => Apt(Usual)
<1> SUFFICES ASSUME NEW src, NEW J, Doing(src, J) PROVE Apt(Usual)
  OBVIOUS
<1>1. \A c : Head(<<Line(c)>>).cmd = c
  BY Singles DEF Line, Msg
<1> QED
  BY <1>1 DEF Doing, Apt

LEMMA PhasingApt == Phasing => Apt(Usual)
<1> SUFFICES ASSUME Phasing PROVE Apt(Usual)
  OBVIOUS
<1>1. CASE Doing(None, up)
  BY <1>1, DoingApt
<1>2. CASE Starting
  <2>1. \A c : Head(<<Line(c)>>).cmd = c
    BY Singles DEF Line, Msg
  <2>2. \A b, c : Head(<<Line(b), Line(c)>>).cmd = b
    BY Singles DEF Line, Msg
  <2> QED
    BY <1>2, <2>1, <2>2 DEF Starting, Apt, PhasesCommands
<1> QED
  BY <1>1, <1>2 DEF Phasing

LEMMA SourcingApt ==
    ASSUME Always, NEW g, Sourcing(g), job \in Pkgs
    PROVE  Apt(Usual)
<1>1. CASE \E R, J \in Seq(UpLines) : Doing(job, J)
  BY <1>1, DoingApt
<1>2. ASSUME NEW D \in Seq(DownLines), ebd.at = "main", down = D \o <<Msg("gen", job)>>,
             \A i \in 1 .. Len(D) : D[i].cmd = "preload"
      PROVE  Apt(Usual)
  <2> DEFINE last == <<Msg("gen", job)>>
  <2>1. last \in Seq(DownLines) /\ Head(last).cmd = "gen"
    BY OtherLines, Sending, Singles DEF Msg
  <2> HIDE DEF last
  <2>2. CASE D = <<>>
    <3>1. down = last
      BY <1>2, <2>1, <2>2, ConcatEmptySeq DEF last
    <3> QED
      BY <1>2, <2>1, <3>1 DEF Apt, Usual, MainCommands
  <2>3. CASE D # <<>>
    <3>1. Head(down) = Head(D)
      BY <1>2, <2>1, <2>3, TakenOfCat DEF last
    <3>2. Len(D) \in Nat /\ Len(D) > 0 /\ Head(D) = D[1]
      BY <2>3, Taken
    <3>3. 1 \in 1 .. Len(D)
      BY <3>2
    <3>4. Head(down).cmd = "preload"
      BY <1>2, <3>1, <3>2, <3>3
    <3> QED
      BY <1>2, <3>4 DEF Apt, Usual, MainCommands
  <2> QED
    BY <2>2, <2>3
<1> QED
  BY <1>1, <1>2 DEF Sourcing

LEMMA ForDownApt == ForDown => Apt(Usual)
<1> SUFFICES ASSUME ForDown PROVE Apt(Usual)
  OBVIOUS
<1>1. /\ \A c : Head(<<Line(c)>>).cmd = c
      /\ \A b, c : Head(<<Line(b), Line(c)>>).cmd = b
  BY Singles DEF Line, Msg
<1>2. "alive" \in Usual /\ "process_ebuild" \in Usual /\ "alive" \in PhasesCommands
  BY DEF Usual, MainCommands, PhasesCommands
<1> QED
  BY <1>1, <1>2, AskedApt DEF ForDown, Apt

LEMMA ExpectingApt ==
    ASSUME Always, py = "expect", Expecting
    PROVE  IF cont = "cleared" THEN Apt(MainCommands) ELSE Apt(Usual)
<1>0. cont \in Conts
  BY DEF Always, Typed, PyTyped, Led
<1>a. {"preload", "set_metadata_path"} \in SUBSET Usual /\ {"preload", "alive"} \in SUBSET Usual
  BY DEF Usual, MainCommands
<1>b. /\ \A c : Head(<<Line(c)>>).cmd = c
      /\ \A b, c : Head(<<Line(b), Line(c)>>).cmd = b
  BY Singles DEF Line, Msg
<1>1. CASE cont = "hello"
  BY <1>1, AskedApt DEF Expecting, ForHello
<1>2. CASE cont = "spawned"
  BY <1>2, <1>b DEF Expecting, ForSpawned, Apt
<1>3. CASE cont = "requested"
  BY <1>3, AskedApt DEF Expecting, ForRequested
<1>4. CASE cont = "path"
  BY <1>4, <1>a, QueuedApt DEF Expecting, ForPath
<1>5. CASE cont = "synced"
  <2>1. ForSynced /\ job \in Pkgs
    BY <1>5 DEF Expecting, ForSynced, Always, Assigned, Within
  <2> QED
    BY <1>5, <2>1, SourcingApt DEF ForSynced
<1>6. CASE cont = "bashrc"
  BY <1>6, AskedApt DEF Expecting, ForBashrc
<1>7. CASE cont = "env"
  <2>1. CASE Asked("phases", "start_receiving_env", "env_received")
    BY <1>7, <2>1, AskedApt
  <2>2. CASE ebd.at = "main" /\ down = <<Line("process_ebuild"), Line("start_receiving_env")>>
    BY <1>7, <1>b, <2>2 DEF Apt, Usual, MainCommands
  <2> QED
    BY <1>7, <2>1, <2>2 DEF Expecting, ForEnv
<1>8. CASE cont = "logging"
  <2>1. CASE Asked("phases", "logging", "logging_ack")
    BY <1>8, <2>1, AskedApt
  <2>2. CASE ebd.at = "phases" /\ down = <<Line("set_sandbox_state"), Line("logging")>>
    BY <1>8, <1>b, <2>2 DEF Apt, PhasesCommands
  <2> QED
    BY <1>8, <2>1, <2>2 DEF Expecting, ForLogging
<1>9. CASE cont = "clear"
  BY <1>9, <1>a, QueuedApt DEF Expecting, ForClear
<1>10. CASE cont = "cleared"
  <2>1. /\ ebd.at = "main"
        /\ down # <<>> => Head(down).cmd = "clear_preloaded_eclasses"
    BY <1>10, <1>b DEF Expecting, ForCleared, Asked
  <2> QED
    BY <1>10, <2>1 DEF Apt, MainCommands
<1>11. CASE cont = "down"
  BY <1>11, ForDownApt DEF Expecting
<1> QED
  BY <1>0, <1>1, <1>2, <1>3, <1>4, <1>5, <1>6, <1>7, <1>8, <1>9, <1>10, <1>11 DEF Expecting, Conts

LEMMA ConversingApt ==
    ASSUME Always, Conversing
    PROVE  IF py = "expect" /\ cont = "cleared" THEN Apt(MainCommands) ELSE Apt(Usual)
<1>0. py \in Places
  BY DEF Always, Typed, PyTyped
<1>b. /\ \A c : Head(<<Line(c)>>).cmd = c
      /\ \A b, c : Head(<<Line(b), Line(c)>>).cmd = b
  BY Singles DEF Line, Msg
<1>c. {"preload"} \in SUBSET Usual
  BY DEF Usual, MainCommands
<1>d. Keyed => Apt(Usual)
  BY <1>b DEF Keyed, Apt, Usual, MainCommands
<1>1. CASE py \in {"idle", "returned"}
  BY <1>1, <1>c, QueuedApt DEF Conversing, Resting
<1>2. CASE py = "expect"
  BY <1>2, ExpectingApt DEF Conversing
<1>3. CASE py = "dying"
  BY <1>3, <1>b DEF Conversing, Burying, Apt, Usual, MainCommands
<1>4. CASE py = "raise"
  BY <1>4, <1>d, QuietApt DEF Conversing, Raised
<1>5. CASE py = "stop"
  BY <1>5, <1>b, <1>d, QuietApt DEF Conversing, Stopping, Apt
<1>6. CASE py \in {"release", "requested", "hello", "spawned", "path", "bashrc", "env", "logging", "clear",
                   "cleared", "down"}
  BY <1>6, QuietApt DEF Conversing, AtRelease, AtRequested, AtHello, AtSpawned, AtPath, AtBashrc, AtEnv,
                        AtClear, AtCleared, AtDown
<1>7. CASE py = "sync"
  <2>1. Syncing(<<>>) /\ (holder = "phase" \/ job \in Pkgs)
    BY <1>7 DEF Conversing, AtSync, Always, Assigned, Within
  <2>2. CASE Phasing
    BY <1>7, <2>2, PhasingApt
  <2>3. CASE holder # "phase" /\ Sourcing(<<>>)
    BY <1>7, <2>1, <2>3, SourcingApt
  <2> QED
    BY <2>1, <2>2, <2>3 DEF Syncing
<1>8. CASE py \in {"synced", "handler"}
  <2>1. Handling
    BY <1>8 DEF Conversing, AtSynced
  <2>2. CASE ebd.at = "main" /\ down = <<Msg("gen", job)>>
    <3>1. Head(down).cmd = "gen"
      BY <2>2, Singles DEF Msg
    <3> QED
      BY <1>8, <2>2, <3>1 DEF Apt, Usual, MainCommands
  <2> QED
    BY <1>8, <2>1, <2>2, DoingApt, PhasingApt DEF Handling
<1>9. CASE py = "wait"
  BY <1>9, <1>b DEF Conversing, Waiting, Apt, Usual, MainCommands, PhasesCommands
<1> QED
  BY <1>0, <1>1, <1>2, <1>3, <1>4, <1>5, <1>6, <1>7, <1>8, <1>9 DEF Places, Conversing

LEMMA LoadedStays ==
    ASSUME Always, Harmless, Bash, Loaded, Apt(Usual), open \/ down # <<>>
    PROVE  Loaded'
<1>1. ebd \in Daemons /\ down \in Seq(DownLines) /\ ebp' = ebp
  BY Flows, BashKeeps
<1>2. ebd.at \in {"boot", "main", "phases", "job", "inherit", "ipc", "bashrcs"}
  BY BashAt DEF Apt
<1>3. /\ down' = down \/ (down # <<>> /\ down' = Tail(down))
      /\ ebd.known \subseteq ebd'.known
      /\ down' # down /\ Head(down).cmd = "preload" => Head(down).arg \in ebd'.known
  <2>1. CASE ebd.at = "main"
    <3>1. down # <<>> => Head(down).cmd \in Usual
      BY <2>1 DEF Apt
    <3> QED
      BY <1>1, <2>1, <3>1, MainMoves DEF Usual
  <2>2. CASE ebd.at = "boot"
    BY <1>1, <2>2, BootMoves DEF Apt
  <2>3. CASE ebd.at = "phases"
    BY <1>1, <2>3, PhasesMoves DEF Apt, PhasesCommands
  <2>4. CASE ebd.at = "job"
    BY <1>1, <2>4, JobMoves
  <2>5. CASE ebd.at \in {"inherit", "ipc", "bashrcs"}
    BY <1>1, <2>5, ReplyMoves DEF Apt
  <2> QED
    BY <1>2, <2>1, <2>2, <2>3, <2>4, <2>5
<1>4. ASSUME NEW e \in ebp'.known
      PROVE  e \in ebd'.known \/ \E i \in 1 .. Len(down') : down'[i] = Msg("preload", e)
  <2>1. CASE e \in ebd.known
    BY <1>3, <2>1
  <2>2. CASE \E i \in 1 .. Len(down) : down[i] = Msg("preload", e)
    <3>1. PICK i \in 1 .. Len(down) : down[i] = Msg("preload", e)
      BY <2>2
    <3>2. CASE down' = down
      BY <3>1, <3>2
    <3>3. CASE down' # down
      <4>1. /\ Len(down) \in Nat /\ Len(down) > 0 /\ Head(down) = down[1] /\ Len(down') = Len(down) - 1
            /\ \A j \in 1 .. Len(down) - 1 : down'[j] = down[j + 1]
        BY <1>1, <1>3, <3>3, Taken
      <4>2. CASE i = 1
        <5>1. Head(down).cmd = "preload" /\ Head(down).arg = e
          BY <3>1, <4>1, <4>2 DEF Msg
        <5> QED
          BY <1>3, <3>3, <5>1
      <4>3. CASE i # 1
        <5>1. i - 1 \in 1 .. Len(down') /\ i - 1 \in 1 .. Len(down) - 1 /\ (i - 1) + 1 = i
          BY <3>1, <4>1, <4>3
        <5> QED
          BY <3>1, <4>1, <5>1
      <4> QED
        BY <4>2, <4>3
    <3> QED
      BY <3>2, <3>3
  <2> QED
    BY <1>1, <1>4, <2>1, <2>2 DEF Loaded
<1> QED
  BY <1>4 DEF Loaded

\* The daemon keeps both sides in step.
LEMMA BashAgrees ==
    ASSUME ConstantsAssumption, Always, Harmless, Bash, Agreement
    PROVE  Agreement'
<1>1. UNCHANGED <<open, py, cont, closer, val, got, err, holder, wanted, job, keys, updates, result, ebp>>
  BY BashKeeps
<1>2. Sourceless /\ Sourceless'
  BY SourcelessStays DEF Agreement
<1>3. Gone' /\ Timed' /\ KeysAreThePackagesOwn'
  BY <1>1 DEF Agreement, Gone, Timed, Within, KeysAreThePackagesOwn
<1>4. ASSUME ebp.proc
      PROVE  Conversing' /\ (Ending' \/ Loaded') /\ Listed'
  <2>1. Conversing /\ (Ending \/ Loaded) /\ Listed
    BY <1>4 DEF Agreement, Live
  <2>2. Listed' /\ (Ending => Ending')
    BY <1>1, <2>1 DEF Listed, Ending, Within
  <2>3. ~Ending /\ Loaded => Loaded'
    <3> SUFFICES ASSUME ~Ending, Loaded PROVE Loaded'
      OBVIOUS
    <3>1. py # "wait" /\ ~(py = "expect" /\ cont = "cleared")
      BY DEF Ending, Within
    <3>2. open /\ Apt(Usual)
      BY <2>1, <3>1, ConversingApt DEF Conversing
    <3> QED
      BY <3>2, LoadedStays
  <2>4. Conversing'
    <3>0. py \in Places
      BY DEF Always, Typed, PyTyped
    <3>1. CASE py \in {"release", "requested", "hello", "spawned", "path", "bashrc", "env", "logging",
                       "clear", "cleared", "down"}
      <4>1. Quiet("boot") \/ Quiet("main") \/ Quiet("bashrcs") \/ Quiet("phases")
        BY <2>1, <3>1 DEF Conversing, AtRelease, AtRequested, AtHello, AtSpawned, AtPath, AtBashrc, AtEnv,
                          AtClear, AtCleared, AtDown
      <4>2. open
        BY <2>1, <3>1 DEF Conversing
      <4> QED
        BY <4>1, <4>2, QuietStays
    <3>2. CASE py \in {"idle", "returned"}
      BY <1>1, <2>1, <3>2, RestingStays DEF Conversing
    <3>3. CASE py = "expect"
      BY <1>1, <1>2, <2>1, <3>3, ExpectingStays DEF Conversing
    <3>4. CASE py = "dying"
      BY <1>1, <2>1, <3>4, BuryingStays DEF Conversing
    <3>5. CASE py = "raise"
      BY <1>1, <2>1, <3>5, RaisedStays DEF Conversing
    <3>6. CASE py = "stop"
      BY <1>1, <2>1, <3>6, StoppingStays DEF Conversing
    <3>7. CASE py = "sync"
      <4>1. AtSync /\ open
        BY <2>1, <3>7 DEF Conversing
      <4>2. holder = "phase" \/ job \in Pkgs
        BY <3>7 DEF Always, Assigned, Within
      <4>3. <<>> \in Seq(UpLines)
        BY Writing
      <4>4. Syncing(<<>>)'
        BY <1>2, <4>1, <4>2, <4>3, SyncingStays DEF AtSync
      <4> QED
        BY <1>1, <2>1, <3>7, <4>4 DEF Conversing, AtSync
    <3>8. CASE py \in {"synced", "handler"}
      <4>1. Handling /\ open /\ (py = "synced" => val)
        BY <2>1, <3>8 DEF Conversing, AtSynced
      <4>2. holder = "phase" \/ job \in Pkgs
        BY <3>8 DEF Always, Assigned, Within
      <4>3. Handling'
        BY <1>2, <4>1, <4>2, HandlingStays
      <4> QED
        BY <1>1, <2>1, <3>8, <4>1, <4>3 DEF Conversing, AtSynced
    <3>9. CASE py = "wait"
      BY <1>1, <2>1, <3>9, WaitingStays DEF Conversing
    <3> QED
      BY <2>1, <3>0, <3>1, <3>2, <3>3, <3>4, <3>5, <3>6, <3>7, <3>8, <3>9 DEF Places, Conversing
  <2> QED
    BY <2>1, <2>2, <2>3, <2>4
<1>5. Live'
  BY <1>1, <1>4 DEF Live
<1> QED
  BY <1>2, <1>3, <1>5 DEF Agreement

-----------------------------------------------------------------------------
(* The Python side keeps in step.                                          *)

LEMMA Appends == \A a : Append(<<>>, a) = <<a>>
  BY ShortCats, Zenon

LEMMA RestingQuiet ==
    ASSUME Always, Resting, ebp.expects = <<>>
    PROVE  Quiet("main")
<1>1. Matched(<<>>, up, down, <<>>) /\ ebd.at = "main"
  BY DEF Resting, Queued
<1>2. <<>> \in Seq(UpLines)
  BY Writing
<1>3. up \in Seq(UpLines) /\ down \in Seq(DownLines)
  BY Flows
<1>4. up = <<>> /\ down = <<>>
  BY <1>1, <1>2, <1>3, MatchNone
<1> QED
  BY <1>1, <1>4 DEF Quiet

LEMMA RestsQuietly ==
    ASSUME Quiet("main")', holder' # "none" => Calm'
    PROVE  Resting'
<1>1. Len(<<>>) = 0
  OBVIOUS
<1> QED
  BY <1>1, NothingMatches DEF Quiet, Resting, Queued

\* A question more, and its answer.
LEMMA QueueGrows ==
    ASSUME Always, NEW cmds, NEW ask \in PlainCommands, NEW reply \in Hopes, Queued(cmds, <<>>),
           Answer(Line(ask)) = Line(reply),
           down' = down \o <<Line(ask)>>, ebp'.expects = Append(ebp.expects, Line(reply)),
           UNCHANGED <<up, ebd>>
    PROVE  Queued(cmds \cup {ask}, <<>>)'
<1>1. /\ down \in Seq(DownLines) /\ up \in Seq(UpLines) /\ ebp.expects \in Seq(UpLines)
      /\ Line(ask) \in DownLines /\ Line(reply) \in UpLines /\ <<>> \in Seq(UpLines)
  BY Flows, PlainLines, HopedLines, Writing
<1>2. Matched(<<>>, up', down', ebp'.expects)
  BY <1>1, MatchAsk DEF Queued
<1>3. /\ down \o <<Line(ask)>> = Append(down, Line(ask))
      /\ Len(Append(down, Line(ask))) = Len(down) + 1
      /\ \A i \in 1 .. Len(down) : Append(down, Line(ask))[i] = down[i]
      /\ Append(down, Line(ask))[Len(down) + 1] = Line(ask)
  BY <1>1, Added
<1>4. \A i \in 1 .. Len(down') : down'[i].cmd \in cmds \cup {ask}
  <2> SUFFICES ASSUME NEW i \in 1 .. Len(down') PROVE down'[i].cmd \in cmds \cup {ask}
    OBVIOUS
  <2>1. Len(down') = Len(down) + 1 /\ Len(down) \in Nat
    BY <1>1, <1>3, LenProperties
  <2>2. CASE i \in 1 .. Len(down)
    <3>1. down'[i] = down[i]
      BY <1>3, <2>2
    <3> QED
      BY <2>2, <3>1 DEF Queued
  <2>3. CASE i = Len(down) + 1
    <3>1. down'[i] = Line(ask)
      BY <1>3, <2>3
    <3> QED
      BY <3>1 DEF Line, Msg
  <2> QED
    BY <2>1, <2>2, <2>3
<1> QED
  BY <1>2, <1>4 DEF Queued

LEMMA LoadedLonger ==
    ASSUME Always, Loaded, NEW w \in Seq(DownLines), down' = down \o w, ebp'.known = ebp.known,
           ebd'.known = ebd.known
    PROVE  Loaded'
<1>1. /\ Len(down) \in Nat /\ Len(w) \in Nat /\ Len(down') = Len(down) + Len(w)
      /\ \A i \in 1 .. Len(down) + Len(w) : down'[i] = IF i <= Len(down) THEN down[i] ELSE w[i - Len(down)]
  BY Flows, ConcatProperties, LenProperties
<1>2. \A i \in 1 .. Len(down) : i \in 1 .. Len(down') /\ down'[i] = down[i]
  BY <1>1
<1> QED
  BY <1>2 DEF Loaded

LEMMA RequestAgrees ==
    ASSUME ConstantsAssumption, Always, Harmless, NEW h \in Holders, NEW fds \in BOOLEAN,
           Request(h, fds), Agreement
    PROVE  Agreement'
<1>0. /\ py = "idle" /\ holder = "none" /\ err' = "none" /\ closer' = "idle" /\ holder' = h
      /\ result' = result /\ ebp \in Processors /\ ebd \in Daemons
  BY Flows DEF Request
<1>1. CASE ebp.listed = "inactive" /\ ebp.proc
  <2>1. /\ down' = down \o <<Line("alive")>> /\ got' = <<>> /\ cont' = "requested" /\ py' = "expect"
        /\ UNCHANGED <<open, up, ebd>>
        /\ ebp'.expects = Append(ebp.expects, Line("yep!")) /\ ebp'.proc /\ ebp'.known = ebp.known
        /\ ebp'.listed = ebp.listed
    BY <1>0, <1>1 DEF Request, AskAlive, Send, Goto, Processors
  <2>2. Resting /\ open /\ Loaded /\ ebp.expects = <<>>
    BY <1>0, <1>1 DEF Agreement, Live, Conversing, Resting, Ending, Within
  <2>3. Quiet("main")
    BY <2>2, RestingQuiet
  <2>4. down' = <<Line("alive")>> /\ ebp'.expects = <<Line("yep!")>>
    BY <2>1, <2>3, Singles, Appends DEF Quiet
  <2>5. ForRequested'
    BY <1>0, <2>1, <2>3, <2>4 DEF ForRequested, Calm, Asked, Quiet
  <2>6. Conversing'
    BY <2>1, <2>2, <2>5 DEF Conversing, Expecting
  <2>7. Loaded'
    BY <2>1, <2>2, LoadedLonger, Sending, PlainLines DEF PlainCommands
  <2> QED
    BY <1>0, <2>1, <2>6, <2>7 DEF Agreement, Live, Listed, Gone, Timed, Sourceless, KeysAreThePackagesOwn, Within
<1>2. CASE ~(ebp.listed = "inactive" /\ ebp.proc)
  <2>1. /\ down' = <<Line("ebd?")>> /\ up' = <<>> /\ open' = TRUE /\ got' = <<>> /\ cont' = "hello"
        /\ py' = "expect" /\ ebp'.expects = <<Line("ebd!")>> /\ ebp'.proc /\ ebp'.known = {}
        /\ ebp'.listed = "new" /\ ~ebp'.timer /\ ebd'.at = "boot" /\ ebd'.src = None
    BY <1>2 DEF Request, Spawn, Goto, Fresh, Boot
  <2>2. ForHello'
    BY <1>0, <2>1 DEF ForHello, Calm, Asked
  <2>3. Conversing' /\ Loaded'
    BY <2>1, <2>2 DEF Conversing, Expecting, Loaded
  <2> QED
    BY <1>0, <2>1, <2>3 DEF Agreement, Live, Listed, Gone, Timed, Sourceless, KeysAreThePackagesOwn, Within
<1> QED
  BY <1>1, <1>2

LEMMA HelloAgrees ==
    ASSUME ConstantsAssumption, Always, Harmless, Hello, Agreement
    PROVE  Agreement'
<1>1. /\ py = "hello" /\ down' = down \o <<Line("sandbox?")>> /\ got' = <<>> /\ cont' = "spawned"
      /\ py' = "expect" /\ UNCHANGED <<open, up, closer, err, holder, job, keys, result, ebd>>
      /\ ebp'.expects = Append(ebp.expects, Line("readonly")) /\ ebp'.proc = ebp.proc
      /\ ebp'.known = ebp.known /\ ebp'.listed = ebp.listed /\ ebp'.timer = ebp.timer
  BY Flows DEF Hello, Send, Expect, Goto, Processors, jobvars, taskvars
<1>2. ebp.proc /\ Quiet("boot") /\ Calm /\ open /\ Loaded /\ ~ebp.timer /\ ebp.listed # "inactive"
  BY <1>1 DEF Agreement, Live, Gone, Timed, Conversing, AtHello, Ending, Listed, Within
<1>3. down' = <<Line("sandbox?")>> /\ ebp'.expects = <<Line("readonly")>>
  BY <1>1, <1>2, Singles, Appends DEF Quiet
<1>4. ForSpawned'
  BY <1>1, <1>2, <1>3 DEF ForSpawned, Calm, Quiet
<1>5. Conversing'
  BY <1>1, <1>2, <1>4 DEF Conversing, Expecting
<1>6. Loaded'
  BY <1>1, <1>2, LoadedLonger, Sending, PlainLines DEF PlainCommands
<1> QED
  BY <1>1, <1>2, <1>5, <1>6 DEF Agreement, Live, Listed, Gone, Timed, Sourceless, KeysAreThePackagesOwn

LEMMA SpawnedAgrees ==
    ASSUME ConstantsAssumption, Always, Harmless, Spawned, Agreement
    PROVE  Agreement'
<1>1. /\ py = "spawned" /\ py' = "idle" /\ UNCHANGED <<down, open, up, closer, err, holder, result, ebd>>
      /\ ebp'.expects = ebp.expects /\ ebp'.proc = ebp.proc
      /\ ebp'.known = ebp.known /\ ebp'.listed = "active" /\ ebp'.timer = ebp.timer
  BY Flows DEF Spawned, Goto, Active, Processors, jobvars, taskvars
<1>2. ebp.proc /\ Quiet("main") /\ Calm /\ open /\ Loaded /\ ~ebp.timer
  BY <1>1 DEF Agreement, Live, Gone, Timed, Conversing, AtSpawned, Ending, Within
<1>3. Resting'
  BY <1>1, <1>2, RestsQuietly DEF Quiet, Calm
<1>4. Conversing' /\ Loaded'
  BY <1>1, <1>2, <1>3 DEF Conversing, Loaded
<1> QED
  BY <1>1, <1>2, <1>4 DEF Agreement, Live, Listed, Gone, Timed, Sourceless, KeysAreThePackagesOwn

LEMMA RequestedAgrees ==
    ASSUME ConstantsAssumption, Always, Harmless, Requested, Agreement
    PROVE  Agreement'
<1>0. py = "requested"
  BY DEF Requested
<1>2. ebp.proc /\ val /\ Quiet("main") /\ Calm /\ open /\ Loaded /\ ~ebp.timer
  BY <1>0 DEF Agreement, Live, Gone, Timed, Conversing, AtRequested, Ending, Within
<1>1. /\ py' = "idle" /\ UNCHANGED <<down, open, up, closer, err, holder, result, ebd>>
      /\ ebp'.expects = ebp.expects /\ ebp'.proc = ebp.proc
      /\ ebp'.known = ebp.known /\ ebp'.listed = "active" /\ ebp'.timer = ebp.timer
  BY <1>2, Flows DEF Requested, Goto, Active, Processors, jobvars, taskvars
<1>3. Resting'
  BY <1>1, <1>2, RestsQuietly DEF Quiet, Calm
<1>4. Conversing' /\ Loaded'
  BY <1>1, <1>2, <1>3 DEF Conversing, Loaded
<1> QED
  BY <1>1, <1>2, <1>4 DEF Agreement, Live, Listed, Gone, Timed, Sourceless, KeysAreThePackagesOwn

LEMMA GenAgrees ==
    ASSUME ConstantsAssumption, Always, Harmless, NEW p \in Pkgs, Gen(p), Agreement
    PROVE  Agreement'
<1>1. /\ py = "idle" /\ holder \in {"helper", "reader"} /\ job' = p /\ keys' = {} /\ err' = "none"
      /\ UNCHANGED <<open, up, closer, holder, result, ebd>>
  BY DEF Gen, Holding
<1>2. ebp.proc /\ Resting /\ open /\ Loaded /\ Calm /\ ~ebp.timer /\ ebp.listed # "inactive"
  BY <1>1 DEF Agreement, Live, Gone, Timed, Conversing, Resting, Ending, Listed, Within
<1>3. CASE ~ebp.paths
  <2>1. /\ down' = down \o <<Line("set_metadata_path")>> /\ got' = <<>> /\ cont' = "path" /\ py' = "expect"
        /\ ebp'.expects = Append(ebp.expects, Line("metadata_path_received")) /\ ebp'.proc = ebp.proc
        /\ ebp'.known = ebp.known /\ ebp'.listed = ebp.listed /\ ebp'.timer = ebp.timer
    BY <1>3, Flows DEF Gen, Send, Expect, Goto, Processors
  <2>2. Queued({"preload"} \cup {"set_metadata_path"}, <<>>)'
    <3>1. Answer(Line("set_metadata_path")) = Line("metadata_path_received")
      BY DEF Answer, Line, Msg
    <3>2. "set_metadata_path" \in PlainCommands /\ "metadata_path_received" \in Hopes
      BY DEF PlainCommands, Hopes
    <3> QED
      BY <1>1, <1>2, <2>1, <3>1, <3>2, QueueGrows DEF Resting
  <2>3. Queued({"preload", "set_metadata_path"}, got)'
    <3>1. {"preload"} \cup {"set_metadata_path"} = {"preload", "set_metadata_path"}
      OBVIOUS
    <3> QED
      BY <2>1, <2>2, <3>1 DEF Queued
  <2>4. ForPath'
    BY <1>1, <1>2, <2>3 DEF ForPath, Calm
  <2>5. Conversing'
    BY <1>1, <1>2, <2>1, <2>4 DEF Conversing, Expecting
  <2>6. Loaded'
    BY <1>1, <1>2, <2>1, LoadedLonger, Sending, PlainLines DEF PlainCommands
  <2> QED
    BY <1>1, <1>2, <2>1, <2>5, <2>6 DEF Agreement, Live, Listed, Gone, Timed, Sourceless, KeysAreThePackagesOwn
<1>4. CASE ebp.paths
  <2>1. down' = down \o <<Msg("gen", job')>> /\ py' = "sync" /\ ebp' = ebp
    BY <1>1, <1>4 DEF Gen, SendGen, Goto
  <2>2. Sourcing(<<>>)'
    <3>1. down \in Seq(DownLines)
      BY Flows
    <3> QED
      BY <1>1, <1>2, <2>1, <3>1 DEF Sourcing, Resting, Queued
  <2>3. AtSync'
    BY <1>1, <1>2, <2>2 DEF AtSync, Syncing, Calm
  <2>4. Conversing'
    BY <1>1, <1>2, <2>1, <2>3 DEF Conversing
  <2>5. Loaded'
    <3>1. <<Msg("gen", p)>> \in Seq(DownLines)
      BY OtherLines, Sending
    <3> QED
      BY <1>1, <1>2, <2>1, <3>1, LoadedLonger
  <2> QED
    BY <1>1, <1>2, <2>1, <2>4, <2>5 DEF Agreement, Live, Listed, Gone, Timed, Sourceless, KeysAreThePackagesOwn
<1> QED
  BY <1>3, <1>4, Flows DEF Processors

LEMMA PathSetAgrees ==
    ASSUME ConstantsAssumption, Always, Harmless, PathSet, Agreement
    PROVE  Agreement'
<1>1. /\ py = "path" /\ down' = down \o <<Msg("gen", job)>> /\ py' = "sync"
      /\ UNCHANGED <<open, up, closer, err, holder, job, keys, result, ebd>>
      /\ ebp'.expects = ebp.expects /\ ebp'.proc = ebp.proc
      /\ ebp'.known = ebp.known /\ ebp'.listed = ebp.listed /\ ebp'.timer = ebp.timer
  BY Flows DEF PathSet, SendGen, Goto, Processors, jobvars, taskvars
<1>2. /\ ebp.proc /\ Quiet("main") /\ Calm /\ keys = {} /\ open /\ Loaded /\ ~ebp.timer
      /\ ebp.listed # "inactive"
  BY <1>1 DEF Agreement, Live, Gone, Timed, Conversing, AtPath, Ending, Listed, Within
<1>3. holder \in {"helper", "reader"} /\ job \in Pkgs
  BY <1>1 DEF Always, Assigned, Within
<1>4. Sourcing(<<>>)'
  <2> DEFINE D == <<>>
             w == <<Msg("gen", job')>>
  <2>1. D \in Seq(DownLines) /\ Len(D) = 0
    BY Sending
  <2>2. down' = D \o w
    BY <1>1, <1>2 DEF Quiet
  <2>3. Matched(<<>>, up', D, ebp'.expects)
    BY <1>1, <1>2, NothingMatches DEF Quiet
  <2>4. \A i \in 1 .. Len(D) : D[i].cmd = "preload"
    BY <2>1
  <2>5. ebd'.at = "main"
    BY <1>1, <1>2 DEF Quiet
  <2> HIDE DEF D
  <2> QED
    BY <2>1, <2>2, <2>3, <2>4, <2>5 DEF Sourcing
<1>5. AtSync'
  BY <1>1, <1>2, <1>3, <1>4 DEF AtSync, Syncing, Calm
<1>6. Conversing'
  BY <1>1, <1>2, <1>5 DEF Conversing
<1>7. Loaded'
  <2>1. <<Msg("gen", job)>> \in Seq(DownLines)
    BY <1>3, OtherLines, Sending
  <2> QED
    BY <1>1, <1>2, <2>1, LoadedLonger
<1> QED
  BY <1>1, <1>2, <1>6, <1>7 DEF Agreement, Live, Listed, Gone, Timed, Sourceless, KeysAreThePackagesOwn

LEMMA SourcingAlone ==
    ASSUME Always, NEW g \in Seq(UpLines), Sourcing(g), Len(g) = Len(ebp.expects)
    PROVE  /\ g = ebp.expects
           /\ \/ ebd.at = "main" /\ up = <<>> /\ down = <<Msg("gen", job)>>
              \/ Doing(job, up)
<1>0. up \in Seq(UpLines) /\ ebp.expects \in Seq(UpLines) /\ <<>> \in Seq(DownLines)
  BY Flows, Sending
<1>1. ASSUME NEW D \in Seq(DownLines), ebd.at = "main", down = D \o <<Msg("gen", job)>>,
             Matched(g, up, D, ebp.expects)
      PROVE  g = ebp.expects /\ ebd.at = "main" /\ up = <<>> /\ down = <<Msg("gen", job)>>
  <2>1. g = ebp.expects /\ up = <<>> /\ D = <<>>
    BY <1>0, <1>1, MatchFull
  <2> QED
    BY <1>1, <2>1, Singles
<1>2. ASSUME NEW R \in Seq(UpLines), NEW J \in Seq(UpLines), up = R \o J,
             Matched(g, R, <<>>, ebp.expects), Doing(job, J)
      PROVE  g = ebp.expects /\ Doing(job, up)
  <2>1. g = ebp.expects /\ R = <<>>
    BY <1>0, <1>2, MatchFull
  <2>2. up = J
    BY <1>2, <2>1, ConcatEmptySeq
  <2> QED
    BY <1>2, <2>1, <2>2
<1> QED
  BY <1>1, <1>2 DEF Sourcing

LEMMA SyncAgrees ==
    ASSUME ConstantsAssumption, Always, Harmless, Sync, Agreement
    PROVE  Agreement'
<1>1. /\ py = "sync"
      /\ UNCHANGED <<down, open, up, closer, err, holder, job, keys, result, ebd>>
      /\ ebp'.expects = ebp.expects /\ ebp'.proc = ebp.proc
      /\ ebp'.known = ebp.known /\ ebp'.listed = ebp.listed /\ ebp'.timer = ebp.timer
      /\ \/ ebp.expects = <<>> /\ py' = "handler"
         \/ ebp.expects # <<>> /\ got' = <<>> /\ cont' = "synced" /\ py' = "expect"
  BY Flows DEF Sync, Goto, Processors, jobvars, taskvars
<1>2. ebp.proc /\ Syncing(<<>>) /\ open /\ Loaded /\ ~ebp.timer /\ ebp.listed # "inactive"
  BY <1>1 DEF Agreement, Live, Gone, Timed, Conversing, AtSync, Ending, Listed, Within
<1>3. CASE ebp.expects = <<>>
  <2>1. Handling
    <3>1. CASE Phasing
      BY <1>2, <1>3, <3>1 DEF Syncing, Handling
    <3>2. CASE holder \in {"helper", "reader"} /\ keys \subseteq {job} /\ Sourcing(<<>>)
      <4>1. <<>> \in Seq(UpLines)
        BY Writing
      <4>2. \/ ebd.at = "main" /\ up = <<>> /\ down = <<Msg("gen", job)>>
            \/ Doing(job, up)
        BY <1>3, <3>2, <4>1, SourcingAlone
      <4> QED
        BY <1>2, <1>3, <3>2, <4>2 DEF Syncing, Handling
    <3> QED
      BY <1>2, <3>1, <3>2 DEF Syncing
  <2>2. Handling'
    BY <1>1, <2>1 DEF Handling, Calm, Phasing, Starting, Doing
  <2>3. Conversing' /\ Loaded'
    BY <1>1, <1>2, <1>3, <2>2 DEF Conversing, Loaded
  <2> QED
    BY <1>1, <1>2, <1>3, <2>3 DEF Agreement, Live, Listed, Gone, Timed, Sourceless, KeysAreThePackagesOwn
<1>4. CASE ebp.expects # <<>>
  <2>1. Calm /\ holder \in {"helper", "reader"} /\ keys \subseteq {job} /\ Sourcing(<<>>)
    BY <1>2, <1>4 DEF Syncing, Phasing
  <2>2. Sourcing(got)'
    BY <1>1, <1>4, <2>1 DEF Sourcing, Doing
  <2>3. ForSynced'
    BY <1>1, <2>1, <2>2 DEF ForSynced, Calm
  <2>4. Conversing' /\ Loaded'
    BY <1>1, <1>2, <1>4, <2>3 DEF Conversing, Expecting, Loaded
  <2> QED
    BY <1>1, <1>2, <1>4, <2>4 DEF Agreement, Live, Listed, Gone, Timed, Sourceless, KeysAreThePackagesOwn
<1> QED
  BY <1>3, <1>4

LEMMA SyncedAgrees ==
    ASSUME ConstantsAssumption, Always, Harmless, Synced, Agreement
    PROVE  Agreement'
<1>0. py = "synced"
  BY DEF Synced
<1>2. ebp.proc /\ val /\ Handling /\ open /\ Loaded /\ ~ebp.timer /\ ebp.listed # "inactive"
  BY <1>0 DEF Agreement, Live, Gone, Timed, Conversing, AtSynced, Ending, Listed, Within
<1>1. py' = "handler" /\ UNCHANGED <<down, open, up, closer, err, holder, job, keys, result, ebp, ebd>>
  BY <1>2 DEF Synced, Goto, jobvars, taskvars
<1>3. Handling'
  BY <1>1, <1>2 DEF Handling, Calm, Phasing, Starting, Doing
<1>4. Conversing' /\ Loaded'
  BY <1>1, <1>2, <1>3 DEF Conversing, Loaded
<1> QED
  BY <1>1, <1>2, <1>4 DEF Agreement, Live, Listed, Gone, Timed, Sourceless, KeysAreThePackagesOwn

LEMMA PhaseAgrees ==
    ASSUME ConstantsAssumption, Always, Harmless, NEW how \in {"strict", "lenient"}, Phase(how), Agreement
    PROVE  Agreement'
<1>1. /\ py = "idle" /\ holder = "phase" /\ ebp.expects \in Seq(UpLines) /\ down \in Seq(DownLines)
      /\ UNCHANGED <<open, up, closer, holder, keys, result, ebd>>
  BY Flows DEF Phase, Holding
<1>2. ebp.proc /\ Resting /\ open /\ Loaded /\ Calm /\ ~ebp.timer /\ ebp.listed # "inactive"
  BY <1>1 DEF Agreement, Live, Gone, Timed, Conversing, Resting, Ending, Listed, Within
<1>3. Quiet("main") /\ ebp.expects = <<>>
  BY <1>1, <1>2, RestingQuiet DEF Resting
<1>4. CASE /\ Send(<<Line("process_ebuild"), Line("start_receiving_env")>>)
           /\ Expect(Line("env_received"), "env")
           /\ UNCHANGED err
  <2>1. /\ down' = down \o <<Line("process_ebuild"), Line("start_receiving_env")>> /\ got' = <<>>
        /\ cont' = "env" /\ py' = "expect" /\ err' = err
        /\ ebp'.expects = Append(ebp.expects, Line("env_received")) /\ ebp'.proc = ebp.proc
        /\ ebp'.known = ebp.known /\ ebp'.listed = ebp.listed /\ ebp'.timer = ebp.timer
    BY <1>4, Flows DEF Send, Expect, Goto, Processors
  <2>2. /\ down' = <<Line("process_ebuild"), Line("start_receiving_env")>>
        /\ ebp'.expects = <<Line("env_received")>>
    BY <1>3, <2>1, Singles, Appends DEF Quiet
  <2>3. ForEnv'
    BY <1>1, <1>2, <1>3, <2>1, <2>2 DEF ForEnv, Calm, Quiet
  <2>4. Conversing'
    BY <1>1, <1>2, <2>1, <2>3 DEF Conversing, Expecting
  <2>5. <<Line("process_ebuild"), Line("start_receiving_env")>> \in Seq(DownLines)
    <3>1. Line("process_ebuild") \in DownLines /\ Line("start_receiving_env") \in DownLines
      BY PlainLines DEF PlainCommands
    <3>2. <<>> \o <<Line("process_ebuild"), Line("start_receiving_env")>> \in Seq(DownLines)
      BY <3>1, Sending
    <3> QED
      BY <3>2, Singles
  <2>6. Loaded'
    BY <1>1, <1>2, <2>1, <2>5, LoadedLonger
  <2> QED
    BY <1>1, <1>2, <2>1, <2>4, <2>6 DEF Agreement, Live, Listed, Gone, Timed, Sourceless, KeysAreThePackagesOwn
<1>5. CASE /\ Send(<<Line("process_ebuild")>>)
           /\ Raise("key")
           /\ UNCHANGED <<cont, got, ebp>>
  <2>1. down' = down \o <<Line("process_ebuild")>> /\ py' = "raise" /\ err' = "key" /\ ebp' = ebp
    BY <1>5 DEF Send, Raise
  <2>2. down' = <<Line("process_ebuild")>>
    BY <1>3, <2>1, Singles DEF Quiet
  <2>3. Raised'
    BY <1>1, <1>2, <1>3, <2>1, <2>2 DEF Raised, Keyed, Calm, Quiet
  <2>4. Conversing'
    BY <1>1, <1>2, <2>1, <2>3 DEF Conversing
  <2>5. Loaded'
    BY <1>1, <1>2, <2>1, LoadedLonger, Sending, PlainLines DEF PlainCommands
  <2> QED
    BY <1>1, <1>2, <2>1, <2>4, <2>5 DEF Agreement, Live, Listed, Gone, Timed, Sourceless, KeysAreThePackagesOwn
<1> QED
  BY <1>4, <1>5 DEF Phase

LEMMA FinishAgrees ==
    ASSUME ConstantsAssumption, Always, Harmless, Finish, Agreement
    PROVE  Agreement'
<1>1. /\ py = "idle" /\ holder = "helper" /\ closer' = "release"
      /\ UNCHANGED <<open, up, err, holder, job, keys, result, ebd>>
  BY DEF Finish, Holding, jobvars, taskvars
<1>2. ebp.proc /\ Resting /\ open /\ Loaded /\ ~ebp.timer /\ ebp.listed # "inactive"
  BY <1>1 DEF Agreement, Live, Gone, Timed, Conversing, Resting, Ending, Listed, Within
<1>3. /\ down' = down \o <<Line("alive")>> /\ got' = <<>> /\ cont' = "clear" /\ py' = "expect"
      /\ ebp'.expects = Append(ebp.expects, Line("yep!")) /\ ebp'.proc = ebp.proc
      /\ ebp'.known = ebp.known /\ ebp'.listed = ebp.listed
  BY <1>2, Flows DEF Finish, AskAlive, Send, Goto, Processors
<1>4. Queued({"preload"} \cup {"alive"}, <<>>)'
  <2>1. Answer(Line("alive")) = Line("yep!")
    BY DEF Answer, Line, Msg
  <2>2. "alive" \in PlainCommands /\ "yep!" \in Hopes
    BY DEF PlainCommands, Hopes
  <2> QED
    BY <1>1, <1>2, <1>3, <2>1, <2>2, QueueGrows DEF Resting
<1>5. Queued({"preload", "alive"}, got)'
  <2>1. {"preload"} \cup {"alive"} = {"preload", "alive"}
    OBVIOUS
  <2> QED
    BY <1>3, <1>4, <2>1 DEF Queued
<1>6. ForClear'
  BY <1>1, <1>5 DEF ForClear
<1>7. Conversing'
  BY <1>1, <1>2, <1>3, <1>6 DEF Conversing, Expecting
<1>8. Loaded'
  BY <1>1, <1>2, <1>3, LoadedLonger, Sending, PlainLines DEF PlainCommands
<1> QED
  BY <1>1, <1>2, <1>3, <1>7, <1>8
     DEF Agreement, Live, Listed, Gone, Timed, Sourceless, KeysAreThePackagesOwn, Within

\* What a handler works on.
Subject == IF holder = "phase" THEN None ELSE job

\* What the handler may find in the pipe, and what is left there.
LEMMA Found ==
    ASSUME ConstantsAssumption, Always, Handling, py = "handler", up # <<>>
    PROVE  /\ down = <<>> /\ (holder = "phase" <=> Subject = None)
           /\ \/ /\ ebd.at = "inherit" /\ ebd.src = Subject /\ Tail(up) = <<>>
                 /\ Head(up).cmd = "request_inherit" /\ Head(up).arg \in AllEclasses
              \/ /\ ebd.at = "ipc" /\ ebd.src = None /\ Subject = None /\ Tail(up) = <<>>
                 /\ Head(up).cmd = "ipc"
              \/ /\ ebd.at = "bashrcs" /\ ebd.src = None /\ Subject = None /\ Tail(up) = <<>>
                 /\ Head(up).cmd = "request_bashrcs"
              \/ ebd.at = "main" /\ Head(up).cmd = "phases" /\ Tail(up) = <<>>
              \/ ebd.at = "main" /\ Head(up).cmd = "dying" /\ Tail(up) = Tail(Died)
              \/ /\ ebd.at = "main" /\ Subject # None /\ Head(up) = Msg("key", Subject)
                 /\ Tail(up) = <<Phases("succeeded")>>
<1>1. holder = "phase" \/ (holder \in {"helper", "reader"} /\ job \in Pkgs /\ job # None)
  BY DEF Always, Assigned, Within, ConstantsAssumption
<1>2. holder = "phase" <=> Subject = None
  BY <1>1 DEF Subject
<1>3. Doing(Subject, up)
  BY <1>1 DEF Handling, Phasing, Starting, Subject
<1>4. Head(Died) = Line("dying")
  <2> DEFINE a == Line("dying")
             b == Line("error text")
             c == Line("dead")
             d == Phases("failed")
  <2>1. Died = <<a, b, c, d>>
    BY Zenon DEF Died
  <2> HIDE DEF a, b, c, d
  <2>2. Head(<<a, b, c, d>>) = a
    OBVIOUS
  <2> QED
    BY <2>1, <2>2 DEF a
<1>5. CASE ebd.at = "inherit" /\ ebd.src = Subject
  <2>1. PICK e \in AllEclasses : up = <<Msg("request_inherit", e)>> /\ down = <<>>
    BY <1>3, <1>5 DEF Doing
  <2>2. Head(up) = Msg("request_inherit", e) /\ Tail(up) = <<>>
    BY <2>1, Singles
  <2> QED
    BY <1>2, <1>5, <2>1, <2>2 DEF Msg
<1>6. CASE ebd.at = "ipc" /\ ebd.src = None /\ Subject = None
  <2>1. up = <<Line("ipc")>> /\ down = <<>>
    BY <1>3, <1>6 DEF Doing
  <2>2. Head(up) = Line("ipc") /\ Tail(up) = <<>>
    BY <2>1, Singles
  <2> QED
    BY <1>2, <1>6, <2>1, <2>2 DEF Line, Msg
<1>7. CASE ebd.at = "bashrcs" /\ ebd.src = None /\ Subject = None
  <2>1. up = <<Line("request_bashrcs")>> /\ down = <<>>
    BY <1>3, <1>7 DEF Doing
  <2>2. Head(up) = Line("request_bashrcs") /\ Tail(up) = <<>>
    BY <2>1, Singles
  <2> QED
    BY <1>2, <1>7, <2>1, <2>2 DEF Line, Msg
<1>8. CASE ebd.at = "main"
  <2>1. /\ down = <<>>
        /\ \/ up = <<Phases("succeeded")>> \/ up = <<Phases("failed")>> \/ up = Died
           \/ Subject # None /\ up = <<Msg("key", Subject), Phases("succeeded")>>
    BY <1>3, <1>8 DEF Doing
  <2>2. CASE \/ up = <<Phases("succeeded")>> \/ up = <<Phases("failed")>>
    <3>1. (Head(up) = Phases("succeeded") \/ Head(up) = Phases("failed")) /\ Tail(up) = <<>>
      BY <2>2, Singles
    <3> QED
      BY <1>2, <1>8, <2>1, <3>1 DEF Phases, Msg
  <2>3. CASE up = Died
    BY <1>2, <1>4, <1>8, <2>1, <2>3 DEF Line, Msg
  <2>4. CASE Subject # None /\ up = <<Msg("key", Subject), Phases("succeeded")>>
    <3>1. Head(up) = Msg("key", Subject) /\ Tail(up) = <<Phases("succeeded")>>
      BY <2>4, Singles
    <3> QED
      BY <1>2, <1>8, <2>1, <2>4, <3>1
  <2> QED
    BY <2>1, <2>2, <2>3, <2>4
<1> QED
  BY <1>3, <1>5, <1>6, <1>7, <1>8 DEF Doing

\* The handler goes on when the daemon is at work on the same package, or phase.
LEMMA HandlesOn ==
    ASSUME ConstantsAssumption, Always, Handling, py = "handler", Doing(Subject, up)',
           UNCHANGED <<err, closer, holder, job>>, ebp'.expects = <<>>, keys' \subseteq {job} \/ keys' = keys
    PROVE  Handling'
<1>1. holder = "phase" \/ (holder \in {"helper", "reader"} /\ job \in Pkgs /\ job # None)
  BY DEF Always, Assigned, Within, ConstantsAssumption
<1>2. CASE holder = "phase"
  <2>1. Subject' = None /\ holder' = "phase"
    BY <1>2 DEF Subject
  <2>2. Phasing'
    BY <2>1 DEF Phasing
  <2> QED
    BY <2>2 DEF Handling, Calm
<1>3. CASE holder \in {"helper", "reader"}
  <2>1. Subject' = job' /\ keys' \subseteq {job'} /\ holder' \in {"helper", "reader"}
    BY <1>3 DEF Subject, Handling, Phasing
  <2> QED
    BY <2>1 DEF Handling, Calm
<1> QED
  BY <1>1, <1>2, <1>3

LEMMA HandlerLives ==
    ASSUME Always, Agreement, py = "handler"
    PROVE  ebp.proc /\ Handling /\ open /\ Loaded /\ ~ebp.timer /\ ebp.listed # "inactive" /\ Calm
  BY DEF Agreement, Live, Gone, Timed, Conversing, Ending, Listed, Within, Handling

LEMMA HandleKeyAgrees ==
    ASSUME ConstantsAssumption, Always, Harmless, HandleKey, Agreement
    PROVE  Agreement'
<1>1. /\ py = "handler" /\ up # <<>> /\ Head(up).cmd = "key" /\ up' = Tail(up)
      /\ keys' = keys \cup {Head(up).arg}
      /\ UNCHANGED <<down, open, py, cont, closer, err, holder, job, result, ebp, ebd>>
  BY DEF HandleKey, Received, pyvars
<1>2. ebp.proc /\ Handling /\ open /\ Loaded /\ ~ebp.timer /\ ebp.listed # "inactive" /\ Calm
  BY <1>1, HandlerLives
<1>3. /\ down = <<>> /\ ebd.at = "main" /\ Subject # None /\ holder # "phase" /\ Head(up) = Msg("key", Subject)
      /\ Tail(up) = <<Phases("succeeded")>>
  <2>1. Line("dying").cmd # "key"
    BY DEF Line, Msg
  <2> QED
    BY <1>1, <1>2, <2>1, Found DEF Msg
<1>4. Subject' = Subject /\ Subject = job
  BY <1>1, <1>3 DEF Subject
<1>5. Doing(Subject, up)'
  BY <1>1, <1>3 DEF Doing
<1>6. keys' \subseteq {job} /\ ebp'.expects = <<>>
  <2>1. keys \subseteq {job} /\ ebp.expects = <<>>
    BY <1>2, <1>3 DEF Handling, Phasing
  <2>2. Head(up).arg = job
    BY <1>3, <1>4 DEF Msg
  <2> QED
    BY <1>1, <2>1, <2>2
<1>7. Handling'
  BY <1>1, <1>2, <1>5, <1>6, HandlesOn
<1>8. Conversing' /\ Loaded'
  BY <1>1, <1>2, <1>7 DEF Conversing, Loaded
<1> QED
  BY <1>1, <1>2, <1>8 DEF Agreement, Live, Listed, Gone, Timed, Sourceless, KeysAreThePackagesOwn

LEMMA HandleInheritAgrees ==
    ASSUME ConstantsAssumption, Always, Harmless, HandleInherit, Agreement
    PROVE  Agreement'
<1>1. /\ py = "handler" /\ up # <<>> /\ Head(up).cmd = "request_inherit" /\ up' = Tail(up)
      /\ UNCHANGED <<open, cont, closer, holder, job, keys, result>> /\ ebp \in Processors /\ ebd \in Daemons
  BY Flows DEF HandleInherit, Received
<1>2. ebp.proc /\ Handling /\ open /\ Loaded /\ ~ebp.timer /\ ebp.listed # "inactive" /\ Calm
  BY <1>1, HandlerLives
<1>3. /\ down = <<>> /\ ebd.at = "inherit" /\ ebd.src = Subject /\ Tail(up) = <<>>
  <2>1. Line("dying").cmd # "request_inherit" /\ Msg("key", Subject).cmd # "request_inherit"
    BY DEF Line, Msg
  <2> QED
    BY <1>1, <1>2, <2>1, Found
<1>4. CASE Send(<<Line("path")>>) /\ UNCHANGED <<py, err, ebp, ebd>>
  <2>1. down' = down \o <<Line("path")>> /\ UNCHANGED <<py, err, ebp, ebd>>
    BY <1>4 DEF Send
  <2>2. down' = <<Line("path")>>
    BY <1>3, <2>1, Singles
  <2>3. Subject' = Subject
    BY <1>1 DEF Subject
  <2>4. Doing(Subject, up)'
    BY <1>1, <1>3, <2>1, <2>2, <2>3 DEF Doing
  <2>5. ebp'.expects = <<>>
    BY <1>2, <2>1 DEF Handling
  <2>6. Handling'
    BY <1>1, <1>2, <2>1, <2>4, <2>5, HandlesOn
  <2>7. Conversing'
    BY <1>1, <1>2, <2>1, <2>6 DEF Conversing
  <2>8. Loaded'
    BY <1>1, <1>2, <2>1, LoadedLonger, Sending, PlainLines DEF PlainCommands
  <2> QED
    BY <1>1, <1>2, <2>1, <2>7, <2>8 DEF Agreement, Live, Listed, Gone, Timed, Sourceless, KeysAreThePackagesOwn
<1>5. CASE ebp' = Dropped(ebp) /\ ebd' = Killed(ebd) /\ Raise("processor")
  <2>1. ~ebp'.proc /\ ebp'.timer = ebp.timer /\ ebd'.at = "exited" /\ py' = "raise" /\ err' = "processor"
    BY <1>1, <1>5 DEF Dropped, Killed, Raise, Processors, Daemons
  <2> QED
    BY <1>1, <1>2, <2>1 DEF Agreement, Live, Gone, Timed, Sourceless, KeysAreThePackagesOwn
<1> QED
  BY <1>4, <1>5 DEF HandleInherit

LEMMA HandleIpcAgrees ==
    ASSUME ConstantsAssumption, Always, Harmless, HandleIpc, Agreement
    PROVE  Agreement'
<1>1. /\ py = "handler" /\ up # <<>> /\ Head(up).cmd = "ipc" /\ up' = Tail(up)
      /\ UNCHANGED <<open, cont, closer, holder, job, keys, result, ebd>> /\ ebp \in Processors
  BY Flows DEF HandleIpc, Received, jobvars, taskvars
<1>2. ebp.proc /\ Handling /\ open /\ Loaded /\ ~ebp.timer /\ ebp.listed # "inactive" /\ Calm
  BY <1>1, HandlerLives
<1>3. /\ down = <<>> /\ ebd.at = "ipc" /\ ebd.src = None /\ Subject = None /\ Tail(up) = <<>>
      /\ holder = "phase"
  <2>1. Line("dying").cmd # "ipc" /\ Msg("key", Subject).cmd # "ipc"
    BY DEF Line, Msg
  <2> QED
    BY <1>1, <1>2, <2>1, Found
<1>4. ebp.expects = <<>>
  BY <1>2 DEF Handling
<1>5. CASE Send(<<Line("status")>>) /\ UNCHANGED <<py, err, ebp>>
  <2>1. down' = down \o <<Line("status")>> /\ UNCHANGED <<py, err, ebp>>
    BY <1>5 DEF Send
  <2>2. down' = <<Line("status")>>
    BY <1>3, <2>1, Singles
  <2>3. Subject' = None
    BY <1>1, <1>3 DEF Subject
  <2>4. Doing(Subject, up)'
    BY <1>1, <1>3, <2>1, <2>2, <2>3 DEF Doing
  <2>6. Handling'
    BY <1>1, <1>2, <1>4, <2>1, <2>4, HandlesOn
  <2>7. Conversing'
    BY <1>1, <1>2, <2>1, <2>6 DEF Conversing
  <2>8. Loaded'
    BY <1>1, <1>2, <2>1, LoadedLonger, Sending, PlainLines DEF PlainCommands
  <2> QED
    BY <1>1, <1>2, <2>1, <2>7, <2>8 DEF Agreement, Live, Listed, Gone, Timed, Sourceless, KeysAreThePackagesOwn
<1>6. CASE /\ \/ Raise("ipc")
              \/ "ipc" \in faults /\ Raise("ipc_internal")
           /\ ebp' = Unlocked(ebp)
           /\ UNCHANGED down
  <2>1. /\ down' = down /\ py' = "raise" /\ err' = "ipc"
        /\ ebp'.expects = <<>> /\ ebp'.proc = ebp.proc /\ ebp'.known = ebp.known
        /\ ebp'.listed = ebp.listed /\ ebp'.timer = ebp.timer
    BY <1>1, <1>4, <1>6 DEF Harmless, Raise, Unlocked, Processors
  <2>2. Raised'
    BY <1>1, <1>2, <1>3, <2>1 DEF Raised, Quiet, Calm
  <2>3. Conversing' /\ Loaded'
    BY <1>1, <1>2, <2>1, <2>2 DEF Conversing, Loaded
  <2> QED
    BY <1>1, <1>2, <2>1, <2>3 DEF Agreement, Live, Listed, Gone, Timed, Sourceless, KeysAreThePackagesOwn
<1> QED
  BY <1>5, <1>6 DEF HandleIpc

LEMMA HandleBashrcsAgrees ==
    ASSUME ConstantsAssumption, Always, Harmless, HandleBashrcs, Agreement
    PROVE  Agreement'
<1>1. /\ py = "handler" /\ up # <<>> /\ Head(up).cmd = "request_bashrcs" /\ up' = Tail(up)
      /\ down' = down \o <<Line("path")>> /\ got' = <<>> /\ cont' = "bashrc" /\ py' = "expect"
      /\ ebp'.expects = Append(ebp.expects, Line("next")) /\ ebp'.proc = ebp.proc
      /\ ebp'.known = ebp.known /\ ebp'.listed = ebp.listed /\ ebp'.timer = ebp.timer
      /\ UNCHANGED <<open, closer, err, holder, job, keys, result, ebd>>
  BY Flows DEF HandleBashrcs, Received, Send, Expect, Goto, Processors, jobvars, taskvars
<1>2. ebp.proc /\ Handling /\ open /\ Loaded /\ ~ebp.timer /\ ebp.listed # "inactive" /\ Calm
  BY <1>1, HandlerLives
<1>3. /\ down = <<>> /\ ebd.at = "bashrcs" /\ ebd.src = None /\ Tail(up) = <<>>
  <2>1. Line("dying").cmd # "request_bashrcs" /\ Msg("key", Subject).cmd # "request_bashrcs"
    BY DEF Line, Msg
  <2> QED
    BY <1>1, <1>2, <2>1, Found
<1>4. ebp.expects = <<>>
  BY <1>2 DEF Handling
<1>5. down' = <<Line("path")>> /\ ebp'.expects = <<Line("next")>>
  BY <1>1, <1>3, <1>4, Singles, Appends
<1>6. ForBashrc'
  BY <1>1, <1>2, <1>3, <1>5 DEF ForBashrc, Asked, Calm
<1>7. Conversing'
  BY <1>1, <1>2, <1>6 DEF Conversing, Expecting
<1>8. Loaded'
  BY <1>1, <1>2, LoadedLonger, Sending, PlainLines DEF PlainCommands
<1> QED
  BY <1>1, <1>2, <1>7, <1>8 DEF Agreement, Live, Listed, Gone, Timed, Sourceless, KeysAreThePackagesOwn

LEMMA BashrcSentAgrees ==
    ASSUME ConstantsAssumption, Always, Harmless, BashrcSent, Agreement
    PROVE  Agreement'
<1>0. py = "bashrc" /\ UNCHANGED <<open, up, closer, holder, job, keys, result, ebd>>
  BY DEF BashrcSent, jobvars, taskvars
<1>2. /\ ebp.proc /\ val /\ Quiet("bashrcs") /\ ebd.src = None /\ Calm /\ open /\ Loaded /\ ~ebp.timer
      /\ ebp.listed # "inactive" /\ holder = "phase"
  BY <1>0 DEF Agreement, Live, Gone, Timed, Conversing, AtBashrc, Ending, Listed, Within, Always, Assigned
<1>1. down' = down \o <<Line("end_request")>> /\ py' = "handler" /\ err' = err /\ ebp' = ebp
  BY <1>2 DEF BashrcSent, Send, Goto
<1>3. down' = <<Line("end_request")>>
  BY <1>1, <1>2, Singles DEF Quiet
<1>4. Handling'
  BY <1>0, <1>1, <1>2, <1>3 DEF Handling, Phasing, Doing, Calm, Quiet
<1>5. Conversing'
  BY <1>0, <1>1, <1>2, <1>4 DEF Conversing
<1>6. Loaded'
  BY <1>0, <1>1, <1>2, LoadedLonger, Sending, PlainLines DEF PlainCommands
<1> QED
  BY <1>0, <1>1, <1>2, <1>5, <1>6 DEF Agreement, Live, Listed, Gone, Timed, Sourceless, KeysAreThePackagesOwn

LEMMA HandlePhasesAgrees ==
    ASSUME ConstantsAssumption, Always, Harmless, HandlePhases, Agreement
    PROVE  Agreement'
<1>1. /\ py = "handler" /\ up # <<>> /\ Head(up).cmd = "phases" /\ up' = Tail(up)
      /\ ebp'.expects = ebp.expects /\ ebp'.proc = ebp.proc
      /\ ebp'.known = ebp.known /\ ebp'.listed = ebp.listed /\ ebp'.timer = ebp.timer
      /\ UNCHANGED <<down, open, cont, closer, holder, job, keys, ebd>>
  BY Flows DEF HandlePhases, Received, Unlocked, Processors
<1>2. ebp.proc /\ Handling /\ open /\ Loaded /\ ~ebp.timer /\ ebp.listed # "inactive" /\ Calm
  BY <1>1, HandlerLives
<1>3. /\ down = <<>> /\ ebd.at = "main" /\ Tail(up) = <<>>
  <2>1. Line("dying").cmd # "phases" /\ Msg("key", Subject).cmd # "phases"
    BY DEF Line, Msg
  <2> QED
    BY <1>1, <1>2, <2>1, Found
<1>4. ebp.expects = <<>>
  BY <1>2 DEF Handling
<1>5. Quiet("main")'
  BY <1>1, <1>3, <1>4 DEF Quiet
<1>6. CASE /\ result' = IF holder = "phase" THEN result ELSE [by |-> holder, p |-> job, keys |-> keys]
           /\ Goto("returned")
           /\ UNCHANGED err
  <2>1. py' = "returned" /\ err' = err /\ holder # "none"
    BY <1>1, <1>6 DEF Goto, Always, Assigned, Within
  <2>2. Resting'
    BY <1>1, <1>2, <1>5, <2>1, RestsQuietly DEF Calm
  <2>3. Conversing' /\ Loaded'
    BY <1>1, <1>2, <2>1, <2>2 DEF Conversing, Loaded
  <2>4. KeysAreThePackagesOwn'
    <3>1. CASE holder = "phase"
      BY <1>6, <3>1 DEF Agreement, KeysAreThePackagesOwn
    <3>2. CASE holder # "phase"
      <4>1. keys \subseteq {job}
        BY <1>2, <3>2 DEF Handling, Phasing
      <4> QED
        BY <1>6, <3>2, <4>1 DEF KeysAreThePackagesOwn
    <3> QED
      BY <3>1, <3>2
  <2> QED
    BY <1>1, <1>2, <2>1, <2>3, <2>4 DEF Agreement, Live, Listed, Gone, Timed, Sourceless
<1>7. CASE Raise("processor") /\ UNCHANGED result
  <2>1. py' = "raise" /\ err' = "processor" /\ result' = result
    BY <1>7 DEF Raise
  <2>2. Raised'
    BY <1>5, <2>1 DEF Raised
  <2>3. Conversing' /\ Loaded'
    BY <1>1, <1>2, <2>1, <2>2 DEF Conversing, Loaded
  <2> QED
    BY <1>1, <1>2, <2>1, <2>3 DEF Agreement, Live, Listed, Gone, Timed, Sourceless, KeysAreThePackagesOwn
<1> QED
  BY <1>6, <1>7 DEF HandlePhases

LEMMA HandleDyingAgrees ==
    ASSUME ConstantsAssumption, Always, Harmless, HandleDying, Agreement
    PROVE  Agreement'
<1>1. /\ py = "handler" /\ up # <<>> /\ Head(up).cmd = "dying" /\ up' = Tail(up)
      /\ py' = "dying" /\ cont' = "handler"
      /\ UNCHANGED <<down, open, closer, err, holder, result, ebp, ebd>>
  BY DEF HandleDying, Received, Goto, jobvars, taskvars
<1>2. ebp.proc /\ Handling /\ open /\ Loaded /\ ~ebp.timer /\ ebp.listed # "inactive" /\ Calm
  BY <1>1, HandlerLives
<1>3. /\ down = <<>> /\ ebd.at = "main" /\ Tail(up) = Tail(Died)
  <2>1. Msg("key", Subject).cmd # "dying"
    BY DEF Msg
  <2> QED
    BY <1>1, <1>2, <2>1, Found
<1>4. ebp.expects = <<>>
  BY <1>2 DEF Handling
<1>5. up' = Tail(Died) \o <<>>
  BY <1>1, <1>3, DeathLines
<1>6. Burying'
  BY <1>1, <1>2, <1>3, <1>4, <1>5 DEF Burying, Remains, Calm
<1>7. Conversing' /\ Loaded'
  BY <1>1, <1>2, <1>6 DEF Conversing, Loaded
<1> QED
  BY <1>1, <1>2, <1>7 DEF Agreement, Live, Listed, Gone, Timed, Sourceless, KeysAreThePackagesOwn

\* A handler is never given what it has no handler for.
LEMMA AllIsHandled ==
    ASSUME ConstantsAssumption, Always, HandleUnknown, Agreement
    PROVE  FALSE
<1>1. py = "handler" /\ up # <<>> /\ Head(up).cmd \notin Handled
  BY DEF HandleUnknown
<1>2. Handling
  BY <1>1, HandlerLives
<1>3. Msg("key", Subject).cmd = "key"
  BY DEF Msg
<1> QED
  BY <1>1, <1>2, <1>3, Found DEF Handled

LEMMA PreloadAgrees ==
    ASSUME ConstantsAssumption, Always, Harmless, Preload, Agreement
    PROVE  Agreement'
<1>0. py = "returned" /\ holder = "helper"
  BY DEF Preload, NotPreloaded
<1>1. PICK e \in updates : /\ down' = down \o <<Msg("preload", e)>>
                           /\ ebp' = [ebp EXCEPT !.known = @ \cup {e},
                                        !.expects = Append(@, Line("preload_eclass succeeded"))]
                           /\ UNCHANGED <<open, up, py, cont, closer, err, holder, job, result, ebd>>
  BY DEF Preload, NotPreloaded, Send, pyvars, jobvars, taskvars
<1> DEFINE l == Msg("preload", e)
           r == Line("preload_eclass succeeded")
<1>2. /\ ebp'.expects = Append(ebp.expects, r) /\ ebp'.proc = ebp.proc /\ ebp'.listed = ebp.listed
      /\ ebp'.timer = ebp.timer /\ ebp'.known = ebp.known \cup {e}
  BY <1>1, Flows DEF Processors
<1>3. ebp.proc /\ Resting /\ open /\ Loaded /\ Calm /\ ~ebp.timer /\ ebp.listed # "inactive"
  BY <1>0 DEF Agreement, Live, Gone, Timed, Conversing, Resting, Ending, Listed, Within
<1>4. /\ down \in Seq(DownLines) /\ up \in Seq(UpLines) /\ ebp.expects \in Seq(UpLines)
      /\ l \in DownLines /\ r \in UpLines /\ <<>> \in Seq(UpLines)
  <2>1. e \in Eclasses /\ "preload_eclass succeeded" \in Hopes
    BY <1>1 DEF Always, Typed, JobTyped, Hopes
  <2> QED
    BY <2>1, Flows, OtherLines, HopedLines, Writing
<1>5. Answer(l) = r /\ l.cmd = "preload"
  BY DEF Answer, Line, Msg
<1> HIDE DEF l, r
<1>6. Matched(<<>>, up', down', ebp'.expects)
  <2>1. Matched(<<>>, up, down, ebp.expects)
    BY <1>3 DEF Resting, Queued
  <2>2. Matched(<<>>, up, down \o <<l>>, Append(ebp.expects, r))
    BY <1>4, <1>5, <2>1, MatchAsk
  <2>3. down' = down \o <<l>> /\ up' = up
    BY <1>1 DEF l
  <2> QED
    BY <1>2, <2>2, <2>3
<1>7. /\ down' = Append(down, l) /\ Len(Append(down, l)) = Len(down) + 1 /\ Len(down) \in Nat
      /\ \A i \in 1 .. Len(down) : Append(down, l)[i] = down[i]
      /\ Append(down, l)[Len(down) + 1] = l
  BY <1>1, <1>4, Added, LenProperties DEF l
<1>8. \A i \in 1 .. Len(down') : down'[i].cmd \in {"preload"}
  <2> SUFFICES ASSUME NEW i \in 1 .. Len(down') PROVE down'[i].cmd \in {"preload"}
    OBVIOUS
  <2>1. CASE i \in 1 .. Len(down)
    <3>1. down'[i] = down[i]
      BY <1>7, <2>1
    <3> QED
      BY <1>3, <2>1, <3>1 DEF Resting, Queued
  <2>2. CASE i = Len(down) + 1
    <3>1. down'[i] = l
      BY <1>7, <2>2
    <3> QED
      BY <1>5, <3>1
  <2> QED
    BY <1>7, <2>1, <2>2
<1>9. \A i \in 1 .. Len(ebp'.expects) : ebp'.expects[i] = r
  <2>1. /\ Len(Append(ebp.expects, r)) = Len(ebp.expects) + 1 /\ Len(ebp.expects) \in Nat
        /\ \A i \in 1 .. Len(ebp.expects) : Append(ebp.expects, r)[i] = ebp.expects[i]
        /\ Append(ebp.expects, r)[Len(ebp.expects) + 1] = r
    BY <1>4, Added, LenProperties
  <2>2. \A i \in 1 .. Len(ebp.expects) : ebp.expects[i] = r
    BY <1>3 DEF Resting, r
  <2> QED
    BY <1>2, <2>1, <2>2
<1>10. Resting'
  BY <1>0, <1>1, <1>2, <1>3, <1>6, <1>8, <1>9 DEF Resting, Queued, Calm, r
<1>11. Conversing'
  BY <1>0, <1>1, <1>3, <1>10 DEF Conversing
<1>12. Loaded'
  <2>1. \A i \in 1 .. Len(down) : i \in 1 .. Len(down') /\ down'[i] = down[i]
    BY <1>7
  <2>2. Len(down) + 1 \in 1 .. Len(down') /\ down'[Len(down) + 1] = Msg("preload", e)
    BY <1>7 DEF l
  <2> QED
    BY <1>1, <1>2, <1>3, <2>1, <2>2 DEF Loaded
<1> QED
  BY <1>0, <1>1, <1>2, <1>3, <1>11, <1>12
     DEF Agreement, Live, Listed, Gone, Timed, Sourceless, KeysAreThePackagesOwn

LEMMA ReturnedAgrees ==
    ASSUME ConstantsAssumption, Always, Harmless, Returned, Agreement
    PROVE  Agreement'
<1>1. py = "returned" /\ UNCHANGED <<down, open, up, closer, err, result, ebp, ebd>>
  BY DEF Returned, taskvars
<1>2. /\ ebp.proc /\ Resting /\ open /\ Loaded /\ Calm /\ ~ebp.timer /\ ebp.listed # "inactive"
      /\ holder \in Holders
  BY <1>1 DEF Agreement, Live, Gone, Timed, Conversing, Resting, Ending, Listed, Within, Always, Typed, JobTyped
<1>3. CASE holder = "helper"
  <2>1. py' = "idle" /\ holder' \in {"helper", "none"}
    BY <1>3 DEF Returned, Goto
  <2>2. Resting'
    BY <1>1, <1>2, <1>3, <2>1 DEF Resting, Queued, Calm
  <2>3. Conversing' /\ Loaded'
    BY <1>1, <1>2, <2>1, <2>2 DEF Conversing, Loaded
  <2> QED
    BY <1>1, <1>2, <2>1, <2>3 DEF Agreement, Live, Listed, Gone, Timed, Sourceless, KeysAreThePackagesOwn
<1>4. CASE holder # "helper"
  <2>1. py' = "release"
    BY <1>4 DEF Returned, Goto
  <2>2. Quiet("main")
    BY <1>2, <1>4, RestingQuiet DEF Resting, Holders
  <2>3. Conversing' /\ Loaded'
    BY <1>1, <1>2, <2>1, <2>2 DEF Conversing, Loaded, AtRelease, Quiet
  <2> QED
    BY <1>1, <1>2, <2>1, <2>3 DEF Agreement, Live, Listed, Gone, Timed, Sourceless, KeysAreThePackagesOwn
<1> QED
  BY <1>3, <1>4

LEMMA EnvSentAgrees ==
    ASSUME ConstantsAssumption, Always, Harmless, EnvSent, Agreement
    PROVE  Agreement'
<1>1. py = "env" /\ UNCHANGED <<open, up, closer, holder, job, keys, result, ebd>> /\ down \in Seq(DownLines)
  BY Flows DEF EnvSent, jobvars, taskvars
<1>2. /\ ebp.proc /\ val /\ Quiet("phases") /\ Calm /\ open /\ Loaded /\ ~ebp.timer
      /\ ebp.listed # "inactive" /\ holder = "phase"
  BY <1>1 DEF Agreement, Live, Gone, Timed, Conversing, AtEnv, Ending, Listed, Within, Always, Assigned
<1>3. /\ Line("set_sandbox_state") \in DownLines /\ Line("logging") \in DownLines
      /\ Line("start_processing") \in DownLines /\ <<>> \in Seq(DownLines)
  BY PlainLines, Sending DEF PlainCommands
<1>4. CASE /\ Send(<<Line("set_sandbox_state"), Line("logging")>>)
           /\ Expect(Line("logging_ack"), "logging")
           /\ UNCHANGED err
  <2>1. /\ down' = down \o <<Line("set_sandbox_state"), Line("logging")>> /\ got' = <<>>
        /\ cont' = "logging" /\ py' = "expect" /\ err' = err
        /\ ebp'.expects = Append(ebp.expects, Line("logging_ack")) /\ ebp'.proc = ebp.proc
        /\ ebp'.known = ebp.known /\ ebp'.listed = ebp.listed /\ ebp'.timer = ebp.timer
    BY <1>4, Flows DEF Send, Expect, Goto, Processors
  <2>2. /\ down' = <<Line("set_sandbox_state"), Line("logging")>>
        /\ ebp'.expects = <<Line("logging_ack")>>
    BY <1>2, <2>1, Singles, Appends DEF Quiet
  <2>3. ForLogging'
    BY <1>1, <1>2, <2>1, <2>2 DEF ForLogging, Calm, Quiet
  <2>4. Conversing'
    BY <1>1, <1>2, <2>1, <2>3 DEF Conversing, Expecting
  <2>5. <<Line("set_sandbox_state"), Line("logging")>> \in Seq(DownLines)
    <3>1. <<>> \o <<Line("set_sandbox_state"), Line("logging")>> \in Seq(DownLines)
      BY <1>3, Sending
    <3> QED
      BY <3>1, Singles
  <2>6. Loaded'
    BY <1>1, <1>2, <2>1, <2>5, LoadedLonger
  <2> QED
    BY <1>1, <1>2, <2>1, <2>4, <2>6 DEF Agreement, Live, Listed, Gone, Timed, Sourceless, KeysAreThePackagesOwn
<1>5. CASE /\ Send(<<Line("set_sandbox_state"), Line("start_processing")>>)
           /\ Goto("sync")
           /\ UNCHANGED <<cont, got, err, ebp>>
  <2>1. /\ down' = down \o <<Line("set_sandbox_state"), Line("start_processing")>>
        /\ py' = "sync" /\ err' = err /\ ebp' = ebp
    BY <1>5 DEF Send, Goto
  <2>2. down' = <<Line("set_sandbox_state"), Line("start_processing")>>
    BY <1>2, <2>1, Singles DEF Quiet
  <2>3. AtSync'
    BY <1>1, <1>2, <2>1, <2>2 DEF AtSync, Syncing, Phasing, Starting, Calm, Quiet
  <2>4. Conversing'
    BY <1>1, <1>2, <2>1, <2>3 DEF Conversing
  <2>5. <<Line("set_sandbox_state"), Line("start_processing")>> \in Seq(DownLines)
    <3>1. <<>> \o <<Line("set_sandbox_state"), Line("start_processing")>> \in Seq(DownLines)
      BY <1>3, Sending
    <3> QED
      BY <3>1, Singles
  <2>6. Loaded'
    BY <1>1, <1>2, <2>1, <2>5, LoadedLonger
  <2> QED
    BY <1>1, <1>2, <2>1, <2>4, <2>6 DEF Agreement, Live, Listed, Gone, Timed, Sourceless, KeysAreThePackagesOwn
<1> QED
  BY <1>2, <1>4, <1>5 DEF EnvSent

LEMMA LoggingSetAgrees ==
    ASSUME ConstantsAssumption, Always, Harmless, LoggingSet, Agreement
    PROVE  Agreement'
<1>0. py = "logging"
  BY DEF LoggingSet
<1>2. /\ ebp.proc /\ val /\ Quiet("phases") /\ Calm /\ open /\ Loaded /\ ~ebp.timer
      /\ ebp.listed # "inactive" /\ holder = "phase"
  BY <1>0 DEF Agreement, Live, Gone, Timed, Conversing, AtEnv, Ending, Listed, Within, Always, Assigned
<1>1. /\ down' = down \o <<Line("start_processing")>> /\ py' = "sync"
      /\ UNCHANGED <<open, up, closer, err, holder, job, keys, result, ebp, ebd>>
  BY <1>2 DEF LoggingSet, Send, Goto, jobvars, taskvars
<1>3. down' = <<Line("start_processing")>>
  BY <1>1, <1>2, Singles DEF Quiet
<1>4. AtSync'
  BY <1>1, <1>2, <1>3 DEF AtSync, Syncing, Phasing, Starting, Calm, Quiet
<1>5. Conversing'
  BY <1>1, <1>2, <1>4 DEF Conversing
<1>6. Loaded'
  BY <1>1, <1>2, LoadedLonger, Sending, PlainLines DEF PlainCommands
<1> QED
  BY <1>1, <1>2, <1>5, <1>6 DEF Agreement, Live, Listed, Gone, Timed, Sourceless, KeysAreThePackagesOwn

LEMMA AskedDownAgrees ==
    ASSUME ConstantsAssumption, Always, Harmless, AskedDown, Agreement
    PROVE  Agreement'
<1>0. py = "down"
  BY DEF AskedDown
<1>2. /\ ebp.proc /\ val /\ (Quiet("main") \/ Quiet("phases")) /\ ~ebp.timer /\ ebp.listed # "inactive"
  BY <1>0 DEF Agreement, Live, Gone, Timed, Conversing, AtDown, Listed, Within
<1>1. /\ down' = down \o <<Line("shutdown_daemon")>> /\ open' = FALSE /\ py' = "wait"
      /\ UNCHANGED <<up, closer, err, holder, job, keys, result, ebp, ebd>>
  BY <1>2 DEF AskedDown, Send, Goto, jobvars, taskvars
<1>3. down' = <<Line("shutdown_daemon")>>
  BY <1>1, <1>2, Singles DEF Quiet
<1>4. Waiting'
  BY <1>1, <1>2, <1>3 DEF Waiting, Quiet
<1>5. Conversing' /\ Ending'
  BY <1>1, <1>4 DEF Conversing, Ending, Within
<1> QED
  BY <1>1, <1>2, <1>5 DEF Agreement, Live, Listed, Gone, Timed, Sourceless, KeysAreThePackagesOwn

LEMMA WaitedAgrees ==
    ASSUME ConstantsAssumption, Always, Harmless, Waited, Agreement
    PROVE  Agreement'
<1>1. /\ py = "wait" /\ py' = closer /\ ~ebp'.proc /\ ebp'.timer = ebp.timer
      /\ UNCHANGED <<result, ebd>>
  BY Flows DEF Waited, Goto, Processors, jobvars, taskvars
<1>2. ~ebp.timer /\ closer \in {"release", "released"}
  BY <1>1 DEF Agreement, Timed, Always, Typed, PyTyped, Led, Within
<1> QED
  BY <1>1, <1>2 DEF Agreement, Live, Gone, Timed, Sourceless, KeysAreThePackagesOwn

LEMMA RaisedToHelperAgrees ==
    ASSUME ConstantsAssumption, Always, Harmless, RaisedToHelper, Agreement
    PROVE  Agreement'
<1>1. /\ py = "raise" /\ holder = "helper" /\ py' = "idle"
      /\ holder' = IF err = "processor" \/ closer = "release" THEN "none" ELSE holder
      /\ UNCHANGED <<down, open, up, closer, err, result, ebp, ebd>>
  BY DEF RaisedToHelper, Goto, taskvars
<1>2. err = "processor" /\ (ebp.proc => Quiet("main") /\ open /\ Loaded)
  BY <1>1 DEF Agreement, Live, Gone, Conversing, Raised, Ending, Within
<1>3. holder' = "none" /\ ~ebp.timer
  BY <1>1, <1>2 DEF Agreement, Timed, Within
<1>4. ASSUME ebp.proc PROVE Conversing' /\ Loaded'
  <2>1. Resting'
    BY <1>1, <1>2, <1>3, <1>4, RestsQuietly DEF Quiet
  <2> QED
    BY <1>1, <1>2, <1>4, <2>1 DEF Conversing, Loaded
<1> QED
  BY <1>1, <1>2, <1>3, <1>4 DEF Agreement, Live, Listed, Gone, Timed, Sourceless, KeysAreThePackagesOwn

LEMMA RaisedToReaderAgrees ==
    ASSUME ConstantsAssumption, Always, Harmless, RaisedToReader, Agreement
    PROVE  Agreement'
<1>1. /\ py = "raise" /\ holder = "reader" /\ py' = "release"
      /\ UNCHANGED <<down, open, up, closer, err, holder, result, ebp, ebd>>
  BY DEF RaisedToReader, Goto, jobvars, taskvars
<1>2. /\ ebp.proc => Quiet("main") /\ open /\ Loaded /\ ebp.listed # "inactive"
      /\ ~ebp.timer
  BY <1>1 DEF Agreement, Live, Gone, Timed, Conversing, Raised, Ending, Listed, Within
<1>3. ebp.proc => Conversing' /\ Loaded'
  BY <1>1, <1>2 DEF Conversing, AtRelease, Quiet, Loaded
<1> QED
  BY <1>1, <1>2, <1>3 DEF Agreement, Live, Listed, Gone, Timed, Sourceless, KeysAreThePackagesOwn

LEMMA RaisedToPhaseAgrees ==
    ASSUME ConstantsAssumption, Always, Harmless, RaisedToPhase, Agreement
    PROVE  Agreement'
<1>1. /\ py = "raise" /\ holder = "phase" /\ down \in Seq(DownLines)
      /\ UNCHANGED <<open, up, closer, err, job, keys, result>>
  BY Flows DEF RaisedToPhase, taskvars
<1>2. /\ ebp.proc => Raised /\ open /\ Loaded /\ ebp.listed # "inactive"
      /\ ~ebp.timer /\ (~ebp.proc => err = "processor")
  BY <1>1 DEF Agreement, Live, Gone, Timed, Conversing, Ending, Listed, Within
<1>3. CASE closer = "release" /\ Goto("release") /\ UNCHANGED <<down, holder, ebp, ebd>>
  <2>1. py' = "release" /\ UNCHANGED <<down, holder, ebp, ebd>>
    BY <1>3 DEF Goto
  <2>2. ebp.proc => Conversing' /\ Loaded'
    BY <1>1, <1>2, <1>3, <2>1 DEF Conversing, AtRelease, Raised, Quiet, Loaded
  <2> QED
    BY <1>1, <1>2, <2>1, <2>2 DEF Agreement, Live, Listed, Gone, Timed, Sourceless, KeysAreThePackagesOwn
<1>4. CASE /\ err = "ipc"
           /\ Send(<<Line("error")>>)
           /\ Goto("stop")
           /\ UNCHANGED <<holder, ebp, ebd>>
  <2>1. py' = "stop" /\ down' = down \o <<Line("error")>> /\ UNCHANGED <<holder, ebp, ebd>>
    BY <1>4 DEF Goto, Send
  <2>2. ebp.proc /\ Quiet("ipc")
    BY <1>2, <1>4 DEF Raised
  <2>3. down' = <<Line("error")>>
    BY <2>1, <2>2, Singles DEF Quiet
  <2>4. Stopping'
    BY <1>1, <2>1, <2>2, <2>3 DEF Stopping, Quiet
  <2>5. Conversing'
    BY <1>1, <1>2, <2>1, <2>2, <2>4 DEF Conversing
  <2>6. Loaded'
    BY <1>1, <1>2, <2>1, <2>2, LoadedLonger, Sending, PlainLines DEF PlainCommands
  <2> QED
    BY <1>1, <1>2, <2>1, <2>5, <2>6 DEF Agreement, Live, Listed, Gone, Timed, Sourceless, KeysAreThePackagesOwn
<1>5. err # "ipc_internal"
  BY <1>2 DEF Raised
<1>6. CASE /\ err \notin {"ipc", "ipc_internal"}
           /\ Goto("stop")
           /\ UNCHANGED <<down, holder, ebp, ebd>>
  <2>1. py' = "stop" /\ UNCHANGED <<down, holder, ebp, ebd>>
    BY <1>6 DEF Goto
  <2>2. ebp.proc => Stopping'
    BY <1>1, <1>2, <1>6, <2>1 DEF Raised, Stopping, Quiet, Keyed
  <2>3. ebp.proc => Conversing' /\ Loaded'
    BY <1>1, <1>2, <2>1, <2>2 DEF Conversing, Loaded
  <2> QED
    BY <1>1, <1>2, <2>1, <2>3 DEF Agreement, Live, Listed, Gone, Timed, Sourceless, KeysAreThePackagesOwn
<1> QED
  BY <1>3, <1>4, <1>5, <1>6 DEF RaisedToPhase

LEMMA StopAgrees ==
    ASSUME ConstantsAssumption, Always, Harmless, Stop, Agreement
    PROVE  Agreement'
<1>1. /\ py = "stop" /\ closer' = "release" /\ down \in Seq(DownLines)
      /\ UNCHANGED <<open, up, err, holder, job, keys, result, ebd>>
  BY Flows DEF Stop, Shutdown, jobvars, taskvars
<1>2. /\ ebp.proc => Stopping /\ open /\ ebp.listed # "inactive"
      /\ ~ebp.timer
  BY <1>1 DEF Agreement, Live, Gone, Timed, Conversing, Ending, Listed, Within
<1>3. CASE ~ebp.proc
  <2>1. py' = "release" /\ ebp' = ebp
    BY <1>3 DEF Stop, Shutdown, Goto
  <2> QED
    BY <1>1, <1>2, <1>3, <2>1 DEF Agreement, Live, Gone, Timed, Sourceless, KeysAreThePackagesOwn
<1>4. CASE ebp.proc
  <2>1. /\ down' = down \o <<Line("alive")>> /\ got' = <<>> /\ cont' = "down" /\ py' = "expect"
        /\ ebp'.expects = Append(ebp.expects, Line("yep!")) /\ ebp'.proc = ebp.proc
        /\ ebp'.listed = ebp.listed
    BY <1>4, Flows DEF Stop, Shutdown, AskAlive, Send, Goto, Processors
  <2>2. ebp'.expects = <<Line("yep!")>>
    BY <1>2, <1>4, <2>1, Appends DEF Stopping
  <2>3. ForDown'
    <3>1. CASE Quiet("main") \/ (Keyed /\ ebd.at = "phases")
      <4>1. down' = <<Line("alive")>> /\ up' = <<>> /\ ebd'.at \in {"main", "phases"}
        BY <1>1, <2>1, <3>1, Singles DEF Quiet, Keyed
      <4> QED
        BY <2>1, <2>2, <4>1 DEF ForDown, Asked
    <3>2. CASE Keyed /\ ebd.at = "main"
      <4>1. down' = <<Line("process_ebuild"), Line("alive")>> /\ up' = <<>> /\ ebd'.at = "main"
        BY <1>1, <2>1, <3>2, Singles DEF Keyed
      <4> QED
        BY <1>1, <2>1, <2>2, <4>1 DEF ForDown
    <3>3. CASE ebd.at = "ipc" /\ down = <<Line("error")>> /\ up = <<>>
      <4>1. down' = <<Line("error"), Line("alive")>> /\ up' = <<>> /\ ebd'.at = "ipc"
        BY <1>1, <2>1, <3>3, Singles
      <4> QED
        BY <1>1, <2>1, <2>2, <4>1 DEF ForDown
    <3>4. CASE ebd.at = "main" /\ down = <<>> /\ up = Died
      <4>1. down' = <<Line("alive")>> /\ up' = Died /\ ebd'.at = "main"
        BY <1>1, <2>1, <3>4, Singles
      <4> QED
        BY <1>1, <2>1, <2>2, <4>1 DEF ForDown
    <3> QED
      BY <1>2, <1>4, <3>1, <3>2, <3>3, <3>4 DEF Stopping, Keyed
  <2>4. Conversing' /\ Ending'
    BY <1>1, <1>2, <1>4, <2>1, <2>3 DEF Conversing, Expecting, Ending, Within
  <2> QED
    BY <1>1, <1>2, <1>4, <2>1, <2>4
       DEF Agreement, Live, Listed, Gone, Timed, Sourceless, KeysAreThePackagesOwn, Within
<1> QED
  BY <1>3, <1>4

LEMMA ReleaseAgrees ==
    ASSUME ConstantsAssumption, Always, Harmless, Release, Agreement
    PROVE  Agreement'
<1>1. /\ py = "release" /\ ebp \in Processors
      /\ UNCHANGED <<open, up, err, job, keys, result, ebd>>
  BY Flows DEF Release, taskvars
<1>2. /\ ebp.proc => Quiet("main") /\ open /\ Loaded
      /\ ~ebp.timer
  BY <1>1 DEF Agreement, Live, Gone, Timed, Conversing, AtRelease, Ending, Within
<1>3. ~ebp.locked
  BY <1>1 DEF Always, Locked, Within
<1>4. ASSUME Leave, UNCHANGED <<down, cont, closer, got>>, ebp'.proc = ebp.proc, ebp'.expects = ebp.expects,
             ebp'.known = ebp.known, ebp'.timer = ebp.timer
      PROVE  Agreement'
  <2>1. py' = "idle" /\ holder' = "none"
    BY <1>4 DEF Leave, Goto
  <2>2. ASSUME ebp.proc PROVE Conversing' /\ Loaded'
    <3>1. Resting'
      BY <1>1, <1>2, <1>4, <2>1, <2>2, RestsQuietly DEF Quiet
    <3> QED
      BY <1>1, <1>2, <1>4, <2>1, <2>2, <3>1 DEF Conversing, Loaded
  <2> QED
    BY <1>1, <1>2, <1>4, <2>1, <2>2 DEF Agreement, Live, Listed, Gone, Timed, Sourceless, KeysAreThePackagesOwn
<1>5. CASE ebp' = [ebp EXCEPT !.listed = "inactive"] /\ Leave /\ UNCHANGED <<down, cont, closer, got>>
  <2>1. /\ ebp'.proc = ebp.proc /\ ebp'.expects = ebp.expects /\ ebp'.known = ebp.known
        /\ ebp'.timer = ebp.timer
    BY <1>1, <1>5 DEF Processors
  <2> QED
    BY <1>4, <1>5, <2>1
<1>6. CASE Leave /\ UNCHANGED <<down, cont, closer, got, ebp>>
  BY <1>4, <1>6
<1>7. CASE /\ ebp.proc
           /\ Send(<<Line("alive")>>)
           /\ ebp' = [ebp EXCEPT !.listed = "dropped", !.timer = TRUE, !.expects = Append(@, Line("yep!"))]
           /\ got' = <<>>
           /\ cont' = "down"
           /\ Goto("expect")
  <2>1. /\ down' = down \o <<Line("alive")>> /\ got' = <<>> /\ cont' = "down" /\ py' = "expect"
        /\ ebp'.expects = Append(ebp.expects, Line("yep!")) /\ ebp'.proc = ebp.proc
        /\ ebp'.listed = "dropped"
    BY <1>1, <1>7 DEF Send, Goto, Processors
  <2>2. down' = <<Line("alive")>> /\ ebp'.expects = <<Line("yep!")>>
    BY <1>2, <1>7, <2>1, Singles, Appends DEF Quiet
  <2>3. ForDown'
    BY <1>1, <1>2, <1>7, <2>1, <2>2 DEF ForDown, Asked, Quiet
  <2>4. Conversing' /\ Ending'
    BY <1>1, <1>2, <1>7, <2>1, <2>3 DEF Conversing, Expecting, Ending, Within
  <2> QED
    BY <1>1, <1>2, <1>7, <2>1, <2>4
       DEF Agreement, Live, Listed, Gone, Timed, Sourceless, KeysAreThePackagesOwn, Within
<1>8. CASE /\ ~ebp.proc
           /\ ebp' = [ebp EXCEPT !.listed = "dropped"]
           /\ Goto("released")
  <2>1. ~ebp'.proc /\ ebp'.timer = ebp.timer /\ py' = "released"
    BY <1>1, <1>8 DEF Goto, Processors
  <2> QED
    BY <1>1, <1>2, <2>1 DEF Agreement, Live, Gone, Timed, Sourceless, KeysAreThePackagesOwn
<1> QED
  BY <1>5, <1>6, <1>7, <1>8 DEF Release

LEMMA ReleasedAgrees ==
    ASSUME ConstantsAssumption, Always, Harmless, Released, Agreement
    PROVE  Agreement'
<1>1. py = "released" /\ py' = "idle" /\ holder' = "none" /\ UNCHANGED <<result, ebp, ebd>>
  BY DEF Released, Leave, Goto, taskvars
<1>2. ~ebp.proc /\ ~ebp.timer
  BY <1>1 DEF Agreement, Live, Gone, Conversing
<1> QED
  BY <1>1, <1>2 DEF Agreement, Live, Gone, Timed, Sourceless, KeysAreThePackagesOwn

LEMMA ClearAgrees ==
    ASSUME ConstantsAssumption, Always, Harmless, Clear, Agreement
    PROVE  Agreement'
<1>0. py = "clear"
  BY DEF Clear
<1>2. /\ ebp.proc /\ val /\ Quiet("main") /\ closer = "release" /\ holder = "helper" /\ open
      /\ ebp.listed # "inactive"
  BY <1>0 DEF Agreement, Live, Gone, Conversing, AtClear, Listed, Within
<1>1. /\ down' = down \o <<Line("clear_preloaded_eclasses")>> /\ got' = <<>> /\ cont' = "cleared"
      /\ py' = "expect" /\ ebp'.expects = Append(ebp.expects, Cleared) /\ ebp'.proc = ebp.proc
      /\ ebp'.listed = ebp.listed
      /\ UNCHANGED <<open, up, closer, err, holder, job, keys, result, ebd>>
  BY <1>2, Flows DEF Clear, Send, Expect, Goto, Processors, jobvars, taskvars
<1>3. down' = <<Line("clear_preloaded_eclasses")>> /\ ebp'.expects = <<Cleared>>
  BY <1>1, <1>2, Singles, Appends DEF Quiet
<1>4. ForCleared'
  BY <1>1, <1>2, <1>3 DEF ForCleared, Asked, Quiet
<1>5. Conversing' /\ Ending'
  BY <1>1, <1>2, <1>4 DEF Conversing, Expecting, Ending, Within
<1> QED
  BY <1>1, <1>2, <1>5 DEF Agreement, Live, Listed, Gone, Timed, Sourceless, KeysAreThePackagesOwn, Within

LEMMA ClearAnsweredAgrees ==
    ASSUME ConstantsAssumption, Always, Harmless, ClearAnswered, Agreement
    PROVE  Agreement'
<1>0. py = "cleared"
  BY DEF ClearAnswered
<1>2. /\ ebp.proc /\ ~val /\ Quiet("main") /\ closer = "release" /\ open /\ ebp.listed # "inactive"
  BY <1>0 DEF Agreement, Live, Gone, Conversing, AtCleared, Listed, Within
<1>1. /\ down' = down \o <<Line("alive")>> /\ got' = <<>> /\ cont' = "down" /\ py' = "expect"
      /\ ebp'.expects = Append(ebp.expects, Line("yep!")) /\ ebp'.proc = ebp.proc
      /\ ebp'.listed = ebp.listed /\ closer' = "release"
      /\ UNCHANGED <<open, up, err, holder, job, keys, result, ebd>>
  BY <1>2, Flows DEF ClearAnswered, Shutdown, AskAlive, Send, Goto, Processors, jobvars, taskvars
<1>3. down' = <<Line("alive")>> /\ ebp'.expects = <<Line("yep!")>>
  BY <1>1, <1>2, Singles, Appends DEF Quiet
<1>4. ForDown'
  BY <1>1, <1>2, <1>3 DEF ForDown, Asked, Quiet
<1>5. Conversing' /\ Ending'
  BY <1>1, <1>2, <1>4 DEF Conversing, Expecting, Ending, Within
<1> QED
  BY <1>1, <1>2, <1>5 DEF Agreement, Live, Listed, Gone, Timed, Sourceless, KeysAreThePackagesOwn, Within

\* The daemon never answers that the preloads are cleared with the words awaited, so no
\* processor forgets its preloads and lives.
LEMMA NothingIsForgotten ==
    ASSUME Always, Forget, Agreement
    PROVE  FALSE
<1>1. py = "forget"
  BY DEF Forget
<1> QED
  BY <1>1 DEF Agreement, Live, Gone, Conversing

\* An answer is never so late that the alarm goes off.
LEMMA NothingIsLate == Harmless => ~TimesOut
  BY DEF Harmless, TimesOut

LEMMA DyingAgrees ==
    ASSUME ConstantsAssumption, Always, Harmless, Dying, Agreement
    PROVE  Agreement'
<1>1. /\ py = "dying" /\ up # <<>> /\ up' = Tail(up)
      /\ UNCHANGED <<down, open, cont, closer, holder, result>> /\ ebp \in Processors /\ ebd \in Daemons
  BY Flows DEF Dying, jobvars, taskvars
<1>2. /\ ebp.proc /\ Burying /\ open /\ ebp.listed # "inactive"
      /\ (cont = "handler" => Loaded /\ ~ebp.timer)
  BY <1>1 DEF Agreement, Live, Gone, Timed, Conversing, Burying, Ending, Listed, Within
<1>3. CASE /\ Head(up).cmd = "dead"
           /\ ebp' = Dropped(Disarmed)
           /\ ebd' = Killed(ebd)
           /\ Raise("processor")
  <2>1. /\ ~ebp'.proc /\ ebp'.timer = (ebp.timer /\ ebp.expects # <<Line("yep!")>>)
        /\ ebd'.at = "exited" /\ py' = "raise" /\ err' = "processor"
    BY <1>1, <1>3 DEF Dropped, Disarmed, Killed, Raise, Processors, Daemons
  <2>2. ~ebp'.timer
    BY <1>2, <2>1 DEF Burying
  <2> QED
    BY <1>1, <2>1, <2>2 DEF Agreement, Live, Gone, Timed, Sourceless, KeysAreThePackagesOwn
<1>4. CASE Head(up).cmd # "dead" /\ UNCHANGED <<ebp, ebd, py, err>>
  <2>1. \A rest \in {<<>>, <<Line("yep!")>>} : Remains(rest) => Remains(rest)'
    <3> SUFFICES ASSUME NEW rest \in {<<>>, <<Line("yep!")>>}, Remains(rest) PROVE up' = Tail(Tail(Died)) \o rest
      BY DEF Remains
    <3> DEFINE a == Line("error text")
               b == Line("dead")
               c == Phases("failed")
               S == UpLines
               s == <<a, b, c>>
               t == <<b, c>>
    <3>1. Tail(Died) = s /\ Tail(Tail(Died)) = t
      BY DeathLines
    <3>2. a \in S /\ b \in S /\ c \in S /\ rest \in Seq(S)
      BY PlainLines, OtherLines, Writing DEF PlainReports
    <3>3. b.cmd = "dead"
      BY DEF Line, Msg
    <3> HIDE DEF a, b, c, S
    <3>4. /\ s \in Seq(S) /\ s # <<>> /\ Head(s) = a /\ Tail(s) = t
          /\ t \in Seq(S) /\ t # <<>> /\ Head(t) = b
      BY <3>2
    <3> HIDE DEF s, t
    <3>5. up = s \o rest \/ up = t \o rest
      BY <3>1 DEF Remains
    <3>6. up # t \o rest
      BY <1>4, <3>2, <3>3, <3>4, TakenOfCat
    <3>7. Tail(s \o rest) = t \o rest
      BY <3>2, <3>4, TakenOfCat
    <3> QED
      BY <1>1, <3>1, <3>5, <3>6, <3>7
  <2>2. Burying'
    <3>1. Remains(<<>>) => Remains(<<>>)'
      BY <2>1
    <3>2. Remains(<<Line("yep!")>>) => Remains(<<Line("yep!")>>)'
      BY <2>1
    <3> QED
      BY <1>1, <1>2, <1>4, <3>1, <3>2 DEF Burying, Calm
  <2>3. Conversing'
    BY <1>1, <1>2, <1>4, <2>2 DEF Conversing
  <2>4. Loaded \/ Ending => Loaded' \/ Ending'
    BY <1>1, <1>4 DEF Loaded, Ending, Within
  <2> QED
    BY <1>1, <1>2, <1>4, <2>3, <2>4
       DEF Agreement, Live, Listed, Gone, Timed, Sourceless, KeysAreThePackagesOwn, Within
<1> QED
  BY <1>3, <1>4 DEF Dying

LEMMA AskedRead ==
    ASSUME Always, ReadExpected, NEW at, NEW ask, NEW reply, Line(reply) \in Hoped, Asked(at, ask, reply)
    PROVE  py' = "expect" /\ Asked(at, ask, reply)'
<1>1. up # <<>> /\ up' = Tail(up) /\ UNCHANGED <<down, ebd>>
  BY DEF ReadExpected
<1>2. ebd.at = at /\ down = <<>> /\ up = <<Line(reply)>> /\ got = <<>>
  BY <1>1 DEF Asked
<1>3. Head(up) = Line(reply) /\ Tail(up) = <<>>
  BY <1>2, Singles
<1>4. Head(up).cmd # "dying"
  BY <1>3, HopedLines
<1>5. got' = Append(got, Head(up)) /\ py' = "expect"
  BY <1>4 DEF ReadExpected
<1>6. got' = <<Line(reply)>>
  BY <1>2, <1>3, <1>5, Appends
<1> QED
  BY <1>1, <1>2, <1>3, <1>5, <1>6 DEF Asked

LEMMA MatchedRead ==
    ASSUME Always, ReadExpected, NEW u \in Seq(UpLines), NEW d \in Seq(DownLines), u # <<>>, Head(up) = Head(u),
           Matched(got, u, d, ebp.expects)
    PROVE  py' = "expect" /\ got' = Append(got, Head(up)) /\ Matched(got', Tail(u), d, ebp'.expects)
<1>1. got \in Seq(UpLines) /\ ebp.expects \in Seq(UpLines) /\ ebp.expects \in Seq(Hoped)
  BY Flows
<1>2. /\ Head(u) = ebp.expects[Len(got) + 1] /\ Len(got) + 1 \in 1 .. Len(ebp.expects)
      /\ Matched(Append(got, Head(u)), Tail(u), d, ebp.expects)
  BY <1>1, MatchRead
<1>3. Head(u) \in Hoped
  BY <1>1, <1>2, ElementOfSeq
<1>4. Head(up).cmd # "dying"
  BY <1>3, HopedLines
<1>5. got' = Append(got, Head(up)) /\ py' = "expect" /\ ebp' = ebp
  BY <1>4 DEF ReadExpected
<1> QED
  BY <1>2, <1>5

LEMMA QueuedRead ==
    ASSUME Always, ReadExpected, NEW cmds, Queued(cmds, got)
    PROVE  py' = "expect" /\ Queued(cmds, got)'
<1>1. up # <<>> /\ up' = Tail(up) /\ UNCHANGED <<down, ebd>> /\ up \in Seq(UpLines) /\ down \in Seq(DownLines)
  BY Flows DEF ReadExpected
<1>2. py' = "expect" /\ Matched(got', Tail(up), down, ebp'.expects)
  BY <1>1, MatchedRead DEF Queued
<1> QED
  BY <1>1, <1>2 DEF Queued

LEMMA SourcingRead ==
    ASSUME Always, ReadExpected, Sourcing(got)
    PROVE  py' = "expect" /\ Sourcing(got)'
<1>1. /\ up # <<>> /\ up' = Tail(up) /\ UNCHANGED <<down, job, ebd>>
      /\ up \in Seq(UpLines) /\ got \in Seq(UpLines) /\ ebp.expects \in Seq(UpLines)
      /\ Len(got) < Len(ebp.expects)
  BY Flows DEF ReadExpected, jobvars, taskvars
<1>2. ASSUME ebd.at = "main", NEW D \in Seq(DownLines), down = D \o <<Msg("gen", job)>>,
             \A i \in 1 .. Len(D) : D[i].cmd = "preload", Matched(got, up, D, ebp.expects)
      PROVE  py' = "expect" /\ Sourcing(got)'
  <2>1. py' = "expect" /\ Matched(got', up', D, ebp'.expects)
    BY <1>1, <1>2, MatchedRead
  <2>2. ebd'.at = "main" /\ down' = D \o <<Msg("gen", job')>>
    BY <1>1, <1>2
  <2> QED
    BY <1>2, <2>1, <2>2 DEF Sourcing
<1>3. ASSUME NEW R \in Seq(UpLines), NEW J \in Seq(UpLines), up = R \o J,
             Matched(got, R, <<>>, ebp.expects), Doing(job, J)
      PROVE  py' = "expect" /\ Sourcing(got)'
  <2>0. <<>> \in Seq(DownLines) /\ Len(<<>>) = 0
    BY Sending
  <2>1. R # <<>>
    <3> SUFFICES ASSUME R = <<>> PROVE FALSE
      OBVIOUS
    <3>1. Len(got) + Len(R) + Len(<<>>) = Len(ebp.expects)
      BY <1>3 DEF Matched
    <3> QED
      BY <1>1, <2>0, <3>1, LenProperties
  <2>2. Head(up) = Head(R) /\ Tail(up) = Tail(R) \o J /\ Tail(R) \in Seq(UpLines)
    BY <1>3, <2>1, TakenOfCat, Writing
  <2>3. py' = "expect" /\ Matched(got', Tail(R), <<>>, ebp'.expects)
    BY <1>3, <2>0, <2>1, <2>2, MatchedRead
  <2>4. Doing(job, J)'
    BY <1>1, <1>3 DEF Doing
  <2>5. up' = Tail(R) \o J
    BY <1>1, <2>2
  <2> DEFINE T == Tail(R)
  <2> HIDE DEF T
  <2>6. T \in Seq(UpLines) /\ up' = T \o J /\ Matched(got', T, <<>>, ebp'.expects)
    BY <2>2, <2>3, <2>5 DEF T
  <2> QED
    BY <1>3, <2>3, <2>4, <2>6 DEF Sourcing
<1> QED
  BY <1>2, <1>3 DEF Sourcing

\* The shutdown's question, behind what a death leaves.
LEMMA DownRead ==
    ASSUME Always, ReadExpected, cont = "down", ForDown
    PROVE  (py' = "expect" /\ ForDown') \/ (py' = "dying" /\ Burying')
<1>1. up # <<>> /\ up' = Tail(up) /\ UNCHANGED <<down, ebp, ebd, cont, closer>>
  BY DEF ReadExpected
<1>2. Line("yep!") \in Hoped
  BY HopedLines DEF Hopes
<1>3. CASE Asked("main", "alive", "yep!")
  <2>1. py' = "expect" /\ Asked("main", "alive", "yep!")'
    BY <1>2, <1>3, AskedRead
  <2> QED
    BY <1>1, <2>1 DEF ForDown
<1>4. CASE Asked("phases", "alive", "yep!")
  <2>1. py' = "expect" /\ Asked("phases", "alive", "yep!")'
    BY <1>2, <1>4, AskedRead
  <2> QED
    BY <1>1, <2>1 DEF ForDown
<1>5. CASE /\ closer = "release" /\ got = <<>> /\ ebd.at = "main"
           /\ \/ up = Died /\ down = <<Line("alive")>>
              \/ up = Died \o <<Line("yep!")>> /\ down = <<>>
  <2> DEFINE y == <<Line("yep!")>>
  <2>1. Died \in Seq(UpLines) /\ Died # <<>> /\ Head(Died) = Line("dying") /\ y \in Seq(UpLines)
    <3> DEFINE a == Line("dying")
               b == Line("error text")
               c == Line("dead")
               d == Phases("failed")
               S == UpLines
    <3>1. Died = <<a, b, c, d>>
      BY Zenon DEF Died
    <3>2. a \in S /\ b \in S /\ c \in S /\ d \in S /\ y \in Seq(S)
      BY PlainLines, OtherLines, Writing DEF PlainReports
    <3> HIDE DEF a, b, c, d, S, y
    <3>3. <<a, b, c, d>> \in Seq(S) /\ <<a, b, c, d>> # <<>> /\ Head(<<a, b, c, d>>) = a
      BY <3>2
    <3>4. Died \in Seq(S) /\ Died # <<>> /\ Head(Died) = a /\ y \in Seq(S)
      BY <3>1, <3>2, <3>3
    <3> QED
      BY <3>4 DEF a, S
  <2>2. Head(Died \o y) = Head(Died) /\ Tail(Died \o y) = Tail(Died) \o y
    BY <2>1, TakenOfCat
  <2>3. Head(up) = Line("dying")
    BY <1>5, <2>1, <2>2
  <2>4. py' = "dying"
    BY <2>3 DEF ReadExpected, Goto, Line, Msg
  <2>5. \/ up' = Tail(Died) \o <<>> /\ down' = <<Line("alive")>>
        \/ up' = Tail(Died) \o y /\ down' = <<>>
    BY <1>1, <1>5, <2>2, DeathLines
  <2>6. ebp'.expects = <<Line("yep!")>> /\ cont' = "down" /\ closer' = "release" /\ ebd'.at = "main"
    BY <1>1, <1>5 DEF ForDown
  <2> QED
    BY <2>4, <2>5, <2>6 DEF Burying, Remains
<1> QED
  BY <1>1, <1>3, <1>4, <1>5 DEF ForDown

LEMMA ReadExpectedAgrees ==
    ASSUME ConstantsAssumption, Always, Harmless, ReadExpected, Agreement
    PROVE  Agreement'
<1>1. /\ py = "expect" /\ up # <<>> /\ up' = Tail(up)
      /\ UNCHANGED <<down, open, cont, closer, err, holder, job, keys, result, ebp, ebd>>
  BY DEF ReadExpected, jobvars, taskvars
<1>2. ebp.proc /\ Expecting /\ open /\ (Loaded \/ Ending) /\ Listed
  BY <1>1 DEF Agreement, Live, Gone, Conversing
<1>3. cont \in Conts /\ cont # "handler"
  BY <1>1, <1>2 DEF Expecting, Always, Typed, PyTyped, Led
<1>4. \A c \in Hopes : Line(c) \in Hoped
  BY HopedLines
<1>5. (py' = "expect" /\ Expecting') \/ (py' = "dying" /\ Burying')
  <2>1. CASE cont = "hello"
    <3>1. py' = "expect" /\ Asked("boot", "ebd?", "ebd!")'
      BY <1>2, <1>4, <2>1, AskedRead DEF Expecting, ForHello, Hopes
    <3> QED
      BY <1>1, <1>2, <2>1, <3>1 DEF Expecting, ForHello, Calm
  <2>2. CASE cont = "spawned"
    <3>1. Asked("main", "sandbox?", "readonly")
      BY <1>1, <1>2, <2>2 DEF Expecting, ForSpawned, Asked
    <3>2. py' = "expect" /\ Asked("main", "sandbox?", "readonly")'
      BY <1>4, <3>1, AskedRead DEF Hopes
    <3>3. ebd'.at = "main" /\ down' = <<>> /\ up' = <<>> /\ got' = <<Line("readonly")>>
      <4>1. down = <<>> /\ up = <<Line("readonly")>> /\ got = <<>>
        BY <1>1, <1>2, <2>2 DEF Expecting, ForSpawned
      <4>2. down' = <<>> /\ up' = <<>>
        BY <1>1, <4>1, Singles
      <4> QED
        BY <3>2, <4>2, Singles DEF Asked
    <3> QED
      BY <1>1, <1>2, <2>2, <3>2, <3>3 DEF Expecting, ForSpawned, Calm
  <2>3. CASE cont = "requested"
    <3>1. py' = "expect" /\ Asked("main", "alive", "yep!")'
      BY <1>2, <1>4, <2>3, AskedRead DEF Expecting, ForRequested, Hopes
    <3> QED
      BY <1>1, <1>2, <2>3, <3>1 DEF Expecting, ForRequested, Calm
  <2>4. CASE cont = "path"
    <3>1. py' = "expect" /\ Queued({"preload", "set_metadata_path"}, got)'
      BY <1>2, <2>4, QueuedRead DEF Expecting, ForPath
    <3> QED
      BY <1>1, <1>2, <2>4, <3>1 DEF Expecting, ForPath, Calm
  <2>5. CASE cont = "synced"
    <3>1. py' = "expect" /\ Sourcing(got)'
      BY <1>2, <2>5, SourcingRead DEF Expecting, ForSynced
    <3> QED
      BY <1>1, <1>2, <2>5, <3>1 DEF Expecting, ForSynced, Calm
  <2>6. CASE cont = "bashrc"
    <3>1. py' = "expect" /\ Asked("bashrcs", "path", "next")'
      BY <1>2, <1>4, <2>6, AskedRead DEF Expecting, ForBashrc, Hopes
    <3> QED
      BY <1>1, <1>2, <2>6, <3>1 DEF Expecting, ForBashrc, Calm
  <2>7. CASE cont = "env"
    <3>1. py' = "expect" /\ Asked("phases", "start_receiving_env", "env_received")'
      BY <1>1, <1>2, <1>4, <2>7, AskedRead DEF Expecting, ForEnv, Hopes
    <3> QED
      BY <1>1, <1>2, <2>7, <3>1 DEF Expecting, ForEnv, Calm
  <2>8. CASE cont = "logging"
    <3>1. py' = "expect" /\ Asked("phases", "logging", "logging_ack")'
      BY <1>1, <1>2, <1>4, <2>8, AskedRead DEF Expecting, ForLogging, Hopes
    <3> QED
      BY <1>1, <1>2, <2>8, <3>1 DEF Expecting, ForLogging, Calm
  <2>9. CASE cont = "clear"
    <3>1. py' = "expect" /\ Queued({"preload", "alive"}, got)'
      BY <1>2, <2>9, QueuedRead DEF Expecting, ForClear
    <3> QED
      BY <1>1, <1>2, <2>9, <3>1 DEF Expecting, ForClear
  <2>10. CASE cont = "cleared"
    <3>1. Asked("main", "clear_preloaded_eclasses", "clear_preloaded_eclasses succeeded")
      BY <1>2, <2>10 DEF Expecting, ForCleared
    <3>2. up = <<Line("clear_preloaded_eclasses succeeded")>> /\ down = <<>> /\ got = <<>> /\ ebd.at = "main"
      BY <1>1, <3>1 DEF Asked
    <3>3. Head(up) = Line("clear_preloaded_eclasses succeeded") /\ Tail(up) = <<>>
      BY <3>2, Singles
    <3>4. Head(up).cmd # "dying"
      <4>1. Line("clear_preloaded_eclasses succeeded").cmd = "clear_preloaded_eclasses succeeded"
        BY DEF Line, Msg
      <4>2. Line("clear_preloaded_eclasses succeeded").cmd # "dying"
        BY <4>1
      <4> QED
        BY <3>3, <4>2, Zenon
    <3>5. got' = Append(got, Head(up)) /\ py' = "expect"
      BY <1>1, <3>4 DEF ReadExpected
    <3>6. got' = <<Line("clear_preloaded_eclasses succeeded")>>
      BY <3>2, <3>3, <3>5, Appends
    <3>7. Asked("main", "clear_preloaded_eclasses", "clear_preloaded_eclasses succeeded")'
      BY <1>1, <3>2, <3>3, <3>6 DEF Asked
    <3> QED
      BY <1>1, <1>2, <2>10, <3>5, <3>7 DEF Expecting, ForCleared
  <2>11. CASE cont = "down"
    <3>1. (py' = "expect" /\ ForDown') \/ (py' = "dying" /\ Burying')
      BY <1>2, <2>11, DownRead DEF Expecting
    <3> QED
      BY <1>1, <2>11, <3>1 DEF Expecting
  <2> QED
    BY <1>3, <2>1, <2>2, <2>3, <2>4, <2>5, <2>6, <2>7, <2>8, <2>9, <2>10, <2>11 DEF Conts
<1>6. Conversing'
  BY <1>1, <1>2, <1>5 DEF Conversing
<1>7. (Loaded' \/ Ending') /\ Listed'
  BY <1>1, <1>2, <1>5 DEF Loaded, Ending, Listed, Within
<1> QED
  BY <1>1, <1>2, <1>5, <1>6, <1>7
     DEF Agreement, Live, Gone, Timed, Sourceless, KeysAreThePackagesOwn, Within

LEMMA AskedFull ==
    ASSUME NEW at, NEW ask, NEW reply, Asked(at, ask, reply), Len(got) = 1
    PROVE  got = <<Line(reply)>> /\ ebd.at = at /\ down = <<>> /\ up = <<>>
<1>1. Len(<<>>) = 0
  OBVIOUS
<1> QED
  BY <1>1 DEF Asked

LEMMA ExpectedAgrees ==
    ASSUME ConstantsAssumption, Always, Harmless, Expected, Agreement
    PROVE  Agreement'
<1>1. /\ py = "expect" /\ Len(got) = Len(ebp.expects) /\ val' = (got = ebp.expects) /\ py' = cont
      /\ ebp'.expects = <<>> /\ ebp'.proc = ebp.proc /\ ebp'.known = ebp.known /\ ebp'.listed = ebp.listed
      /\ ebp'.timer = (ebp.timer /\ ebp.expects # <<Line("yep!")>>)
      /\ UNCHANGED <<down, open, up, cont, closer, err, holder, job, keys, result, ebd>>
  BY Flows DEF Expected, Disarmed, Goto, Processors, jobvars, taskvars
<1>2. ebp.proc /\ Expecting /\ open /\ (Loaded \/ Ending) /\ Listed
  BY <1>1 DEF Agreement, Live, Gone, Conversing
<1>3. cont \in Conts /\ cont # "handler" /\ ebp \in Processors
  BY <1>1, <1>2, Flows DEF Expecting, Always, Typed, PyTyped, Led
<1>4. \A a : Len(<<a>>) = 1
  OBVIOUS
<1>5. got \in Seq(UpLines) /\ up \in Seq(UpLines) /\ down \in Seq(DownLines) /\ ebp.expects \in Seq(UpLines)
  BY Flows
<1>6. ASSUME NEW cmds, Queued(cmds, got)
      PROVE  val' /\ Quiet("main")'
  <2>1. got = ebp.expects /\ up = <<>> /\ down = <<>>
    BY <1>1, <1>5, <1>6, MatchFull DEF Queued
  <2> QED
    BY <1>1, <1>6, <2>1 DEF Queued, Quiet
<1>7. Conversing'
  <2>1. CASE cont = "hello"
    <3>1. ebd.at = "boot" /\ down = <<>> /\ up = <<>>
      BY <1>1, <1>2, <1>4, <2>1, AskedFull DEF Expecting, ForHello
    <3>2. AtHello'
      BY <1>1, <1>2, <2>1, <3>1 DEF Expecting, ForHello, AtHello, Calm, Quiet
    <3> QED
      BY <1>1, <1>2, <2>1, <3>2 DEF Conversing
  <2>2. CASE cont = "spawned"
    <3>1. ForSpawned /\ Len(got) = 1 /\ Len(<<>>) = 0
      BY <1>1, <1>2, <1>4, <2>2 DEF Expecting, ForSpawned
    <3>2. ebd.at = "main" /\ down = <<>> /\ up = <<>>
      BY <3>1 DEF ForSpawned
    <3>3. AtSpawned'
      BY <1>1, <3>1, <3>2 DEF ForSpawned, AtSpawned, Calm, Quiet
    <3> QED
      BY <1>1, <1>2, <2>2, <3>3 DEF Conversing
  <2>3. CASE cont = "requested"
    <3>1. ForRequested /\ Len(got) = 1
      BY <1>1, <1>2, <1>4, <2>3 DEF Expecting, ForRequested
    <3>2. got = <<Line("yep!")>> /\ ebd.at = "main" /\ down = <<>> /\ up = <<>>
      BY <3>1, AskedFull DEF ForRequested
    <3>3. AtRequested'
      BY <1>1, <3>1, <3>2 DEF ForRequested, AtRequested, Calm, Quiet
    <3> QED
      BY <1>1, <1>2, <2>3, <3>3 DEF Conversing
  <2>4. CASE cont = "path"
    <3>1. ForPath
      BY <1>2, <2>4 DEF Expecting
    <3>2. val' /\ Quiet("main")'
      BY <1>6, <3>1 DEF ForPath
    <3>3. AtPath'
      BY <1>1, <3>1, <3>2 DEF ForPath, AtPath, Calm
    <3> QED
      BY <1>1, <1>2, <2>4, <3>3 DEF Conversing
  <2>5. CASE cont = "synced"
    <3>1. ForSynced
      BY <1>2, <2>5 DEF Expecting
    <3>2. /\ got = ebp.expects
          /\ \/ ebd.at = "main" /\ up = <<>> /\ down = <<Msg("gen", job)>>
             \/ Doing(job, up)
      BY <1>1, <1>5, <3>1, SourcingAlone DEF ForSynced
    <3>3. (Doing(job, up) => Doing(job, up)')
      BY <1>1 DEF Doing
    <3>4. Handling'
      BY <1>1, <3>1, <3>2, <3>3 DEF ForSynced, Handling, Calm
    <3> QED
      BY <1>1, <1>2, <2>5, <3>2, <3>4 DEF Conversing, AtSynced
  <2>6. CASE cont = "bashrc"
    <3>1. ForBashrc /\ Len(got) = 1
      BY <1>1, <1>2, <1>4, <2>6 DEF Expecting, ForBashrc
    <3>2. got = <<Line("next")>> /\ ebd.at = "bashrcs" /\ down = <<>> /\ up = <<>>
      BY <3>1, AskedFull DEF ForBashrc
    <3>3. AtBashrc'
      BY <1>1, <3>1, <3>2 DEF ForBashrc, AtBashrc, Calm, Quiet
    <3> QED
      BY <1>1, <1>2, <2>6, <3>3 DEF Conversing
  <2>7. CASE cont = "env"
    <3>1. ForEnv /\ Len(got) = 1 /\ Len(<<>>) = 0
      BY <1>1, <1>2, <1>4, <2>7 DEF Expecting, ForEnv
    <3>2. got = <<Line("env_received")>> /\ ebd.at = "phases" /\ down = <<>> /\ up = <<>>
      BY <3>1, AskedFull DEF ForEnv
    <3>3. AtEnv'
      BY <1>1, <3>1, <3>2 DEF ForEnv, AtEnv, Calm, Quiet
    <3> QED
      BY <1>1, <1>2, <2>7, <3>3 DEF Conversing
  <2>8. CASE cont = "logging"
    <3>1. ForLogging /\ Len(got) = 1 /\ Len(<<>>) = 0
      BY <1>1, <1>2, <1>4, <2>8 DEF Expecting, ForLogging
    <3>2. got = <<Line("logging_ack")>> /\ ebd.at = "phases" /\ down = <<>> /\ up = <<>>
      BY <3>1, AskedFull DEF ForLogging
    <3>3. AtEnv'
      BY <1>1, <3>1, <3>2 DEF ForLogging, AtEnv, Calm, Quiet
    <3> QED
      BY <1>1, <1>2, <2>8, <3>3 DEF Conversing
  <2>9. CASE cont = "clear"
    <3>1. ForClear
      BY <1>2, <2>9 DEF Expecting
    <3>2. val' /\ Quiet("main")'
      BY <1>6, <3>1 DEF ForClear
    <3>3. AtClear'
      BY <1>1, <3>1, <3>2 DEF ForClear, AtClear
    <3> QED
      BY <1>1, <1>2, <2>9, <3>3 DEF Conversing
  <2>10. CASE cont = "cleared"
    <3>1. ForCleared /\ Len(got) = 1
      BY <1>1, <1>2, <1>4, <2>10 DEF Expecting, ForCleared
    <3>2. /\ got = <<Line("clear_preloaded_eclasses succeeded")>> /\ ebd.at = "main" /\ down = <<>>
          /\ up = <<>>
      BY <3>1, AskedFull DEF ForCleared
    <3>3. got # ebp.expects
      <4>1. Line("clear_preloaded_eclasses succeeded") # Cleared
        BY DEF Line, Msg, Cleared
      <4>2. \A a, b : <<a>> = <<b>> => a = b
        OBVIOUS
      <4> QED
        BY <3>1, <3>2, <4>1, <4>2 DEF ForCleared
    <3>4. AtCleared'
      BY <1>1, <3>1, <3>2, <3>3 DEF ForCleared, AtCleared, Quiet
    <3> QED
      BY <1>1, <1>2, <2>10, <3>4 DEF Conversing
  <2>11. CASE cont = "down"
    <3>1. ForDown /\ Len(got) = 1 /\ Len(<<>>) = 0
      BY <1>1, <1>2, <1>4, <2>11 DEF Expecting, ForDown
    <3>2. Asked("main", "alive", "yep!") \/ Asked("phases", "alive", "yep!")
      BY <3>1 DEF ForDown
    <3>3. got = <<Line("yep!")>> /\ ebd.at \in {"main", "phases"} /\ down = <<>> /\ up = <<>>
      BY <3>1, <3>2, AskedFull
    <3>4. AtDown'
      BY <1>1, <3>1, <3>3 DEF ForDown, AtDown, Quiet
    <3> QED
      BY <1>1, <1>2, <2>11, <3>4 DEF Conversing
  <2> QED
    BY <1>3, <2>1, <2>2, <2>3, <2>4, <2>5, <2>6, <2>7, <2>8, <2>9, <2>10, <2>11 DEF Conts
<1>8. (Loaded' \/ Ending') /\ Listed'
  BY <1>1, <1>2, <1>3 DEF Loaded, Ending, Listed, Within, Conts
<1>9. Timed'
  <2>1. cont \in {"requested", "down"} => ebp.expects = <<Line("yep!")>>
    BY <1>2 DEF Expecting, ForRequested, ForDown
  <2> QED
    BY <1>1, <2>1 DEF Agreement, Timed, Within
<1> QED
  BY <1>1, <1>2, <1>7, <1>8, <1>9 DEF Agreement, Live, Gone, Sourceless, KeysAreThePackagesOwn

-----------------------------------------------------------------------------
(* The agreement is kept.                                                  *)

LEMMA InitAgrees == Init => Agreement
<1> SUFFICES ASSUME Init PROVE Agreement
  OBVIOUS
<1>1. ~ebp.proc /\ ~ebp.timer /\ py = "idle" /\ holder = "none" /\ ebd.at = "exited" /\ result.keys = {}
  BY DEF Init, Fresh, Boot
<1> QED
  BY <1>1 DEF Agreement, Live, Gone, Timed, Sourceless, KeysAreThePackagesOwn

LEMMA NextAgrees == ConstantsAssumption /\ Always /\ Harmless /\ Agreement /\ [Next]_vars => Agreement'
<1> SUFFICES ASSUME ConstantsAssumption, Always, Harmless, Agreement, [Next]_vars PROVE Agreement'
  OBVIOUS
<1>1. CASE \E h \in Holders, fds \in BOOLEAN : Request(h, fds)
  BY <1>1, RequestAgrees
<1>2. CASE \E p \in Pkgs : Gen(p)
  BY <1>2, GenAgrees
<1>3. CASE \E how \in {"strict", "lenient"} : Phase(how)
  BY <1>3, PhaseAgrees
<1>4. CASE Finish
  BY <1>4, FinishAgrees
<1>5. CASE Python
  <2>1. CASE ReadExpected
    BY <2>1, ReadExpectedAgrees
  <2>2. CASE Expected
    BY <2>2, ExpectedAgrees
  <2>3. CASE TimesOut
    BY <2>3, NothingIsLate
  <2>4. CASE Dying
    BY <2>4, DyingAgrees
  <2>5. CASE Hello
    BY <2>5, HelloAgrees
  <2>6. CASE Spawned
    BY <2>6, SpawnedAgrees
  <2>7. CASE Requested
    BY <2>7, RequestedAgrees
  <2>8. CASE PathSet
    BY <2>8, PathSetAgrees
  <2>9. CASE Sync
    BY <2>9, SyncAgrees
  <2>10. CASE Synced
    BY <2>10, SyncedAgrees
  <2>11. CASE HandleKey
    BY <2>11, HandleKeyAgrees
  <2>12. CASE HandleInherit
    BY <2>12, HandleInheritAgrees
  <2>13. CASE HandleIpc
    BY <2>13, HandleIpcAgrees
  <2>14. CASE HandleBashrcs
    BY <2>14, HandleBashrcsAgrees
  <2>15. CASE BashrcSent
    BY <2>15, BashrcSentAgrees
  <2>16. CASE HandlePhases
    BY <2>16, HandlePhasesAgrees
  <2>17. CASE HandleDying
    BY <2>17, HandleDyingAgrees
  <2>18. CASE HandleUnknown
    BY <2>18, AllIsHandled
  <2>19. CASE Preload
    BY <2>19, PreloadAgrees
  <2>20. CASE Returned
    BY <2>20, ReturnedAgrees
  <2>21. CASE EnvSent
    BY <2>21, EnvSentAgrees
  <2>22. CASE LoggingSet
    BY <2>22, LoggingSetAgrees
  <2>23. CASE AskedDown
    BY <2>23, AskedDownAgrees
  <2>24. CASE Waited
    BY <2>24, WaitedAgrees
  <2>25. CASE RaisedToHelper
    BY <2>25, RaisedToHelperAgrees
  <2>26. CASE RaisedToReader
    BY <2>26, RaisedToReaderAgrees
  <2>27. CASE RaisedToPhase
    BY <2>27, RaisedToPhaseAgrees
  <2>28. CASE Stop
    BY <2>28, StopAgrees
  <2>29. CASE Release
    BY <2>29, ReleaseAgrees
  <2>30. CASE Released
    BY <2>30, ReleasedAgrees
  <2>31. CASE Clear
    BY <2>31, ClearAgrees
  <2>32. CASE ClearAnswered
    BY <2>32, ClearAnsweredAgrees
  <2>33. CASE Forget
    BY <2>33, NothingIsForgotten
  <2> QED
    BY <2>1, <2>2, <2>3, <2>4, <2>5, <2>6, <2>7, <2>8, <2>9, <2>10, <2>11, <2>12, <2>13, <2>14,
       <2>15, <2>16, <2>17, <2>18, <2>19, <2>20, <2>21, <2>22, <2>23, <2>24, <2>25, <2>26,
       <2>27, <2>28, <2>29, <2>30, <2>31, <2>32, <2>33, <1>5 DEF Python
<1>6. CASE Bash
  BY <1>6, BashAgrees
<1>7. CASE UNCHANGED vars
  <2>1. /\ UNCHANGED <<down, open, up, py, cont, closer, val, got, err, holder, wanted, job, keys, updates>>
        /\ UNCHANGED <<result, ebp, ebd>>
    BY <1>7 DEF vars, pyvars, taskvars, jobvars
  <2>2. Conversing => Conversing'
    <3>1. /\ Resting => Resting'
          /\ Expecting => Expecting'
          /\ Burying => Burying'
      <4>2. ForSynced => ForSynced'
        BY <2>1 DEF ForSynced, Calm, Sourcing, Doing
      <4>3. /\ ForHello => ForHello'
            /\ ForSpawned => ForSpawned'
            /\ ForRequested => ForRequested'
            /\ ForBashrc => ForBashrc'
        BY <2>1 DEF Calm, ForHello, ForSpawned, ForRequested, ForBashrc, Asked
      <4>4. /\ ForPath => ForPath'
            /\ ForClear => ForClear'
            /\ Resting => Resting'
        BY <2>1 DEF Calm, ForPath, ForClear, Queued, Resting
      <4>5. /\ ForEnv => ForEnv'
            /\ ForLogging => ForLogging'
            /\ ForCleared => ForCleared'
            /\ ForDown => ForDown'
        BY <2>1 DEF Calm, ForEnv, ForLogging, ForCleared, ForDown, Asked
      <4>6. Burying => Burying'
        BY <2>1 DEF Calm, Burying, Remains
      <4> QED
        BY <2>1, <4>2, <4>3, <4>4, <4>5, <4>6 DEF Expecting
    <3>2. /\ Raised => Raised'
          /\ Stopping => Stopping'
          /\ Handling => Handling'
          /\ Syncing(<<>>) => Syncing(<<>>)'
          /\ Waiting => Waiting'
      BY <2>1 DEF Raised, Stopping, Keyed, Quiet, Calm, Handling, Phasing, Starting, Doing, Syncing, Sourcing,
                  Waiting
    <3> QED
      BY <2>1, <3>1, <3>2
         DEF Conversing, AtRelease, AtRequested, AtHello, AtSpawned, AtPath, AtSync, AtSynced, AtBashrc,
             AtEnv, AtClear, AtCleared, AtDown, Quiet, Calm
  <2>3. (Loaded => Loaded') /\ (Ending => Ending') /\ (Listed => Listed')
    BY <2>1 DEF Loaded, Ending, Listed, Within
  <2> QED
    BY <2>1, <2>2, <2>3 DEF Agreement, Live, Gone, Timed, Sourceless, KeysAreThePackagesOwn, Within
<1> QED
  BY <1>1, <1>2, <1>3, <1>4, <1>5, <1>6, <1>7 DEF Next

LEMMA FaultsStay == [Next]_vars => faults' = faults
  BY DEF Next, vars

LEMMA AgreementHolds == Spec => [](Always /\ (Harmless => Agreement))
<1> DEFINE Inv == Always /\ (Harmless => Agreement)
<1>1. Init => Inv
  BY InitAlways, InitAgrees, ConstantsAssumption
<1>2. Inv /\ [Next]_vars => Inv'
  <2> SUFFICES ASSUME Inv, [Next]_vars PROVE Inv'
    OBVIOUS
  <2>1. Always'
    BY NextAlways, ConstantsAssumption
  <2>2. Harmless' = Harmless
    BY FaultsStay DEF Harmless
  <2>3. Harmless => Agreement'
    BY NextAgrees, ConstantsAssumption
  <2> QED
    BY <2>1, <2>2, <2>3
<1> HIDE DEF Inv
<1>3. Spec => []Inv
  BY <1>1, <1>2, PTL DEF Spec
<1> QED
  BY <1>3, PTL DEF Inv

\* What the invariant says of the pipes between calls.
LEMMA PipesDoAgree == Always /\ Agreement => PipesAgree
<1> SUFFICES ASSUME Always, Agreement, py = "idle", holder # "none", err = "none"
             PROVE  /\ ebp.proc
                    /\ ebd.at = "main"
                    /\ Len(up) + Len(down) = Len(ebp.expects)
                    /\ \A i \in DOMAIN down : down[i].cmd = "preload"
                    /\ \A i \in DOMAIN up : up[i] = Line("preload_eclass succeeded")
  BY DEF PipesAgree
<1>1. ebp.proc /\ Resting
  BY DEF Agreement, Gone, Live, Conversing
<1>2. up \in Seq(UpLines) /\ down \in Seq(DownLines) /\ ebp.expects \in Seq(UpLines)
  BY Flows
<1>3. /\ Len(up) \in Nat /\ Len(down) \in Nat /\ Len(ebp.expects) \in Nat /\ Len(<<>>) = 0
      /\ DOMAIN up = 1 .. Len(up) /\ DOMAIN down = 1 .. Len(down)
  BY <1>2, LenProperties
<1>4. Matched(<<>>, up, down, ebp.expects) /\ ebd.at = "main" /\ \A i \in 1 .. Len(down) : down[i].cmd = "preload"
  BY <1>1 DEF Resting, Queued
<1>5. Len(up) + Len(down) = Len(ebp.expects)
  BY <1>3, <1>4 DEF Matched
<1>6. ASSUME NEW i \in DOMAIN up PROVE up[i] = Line("preload_eclass succeeded")
  <2>1. i \in 1 .. Len(up) /\ Len(<<>>) + i = i /\ i \in 1 .. Len(ebp.expects)
    BY <1>3, <1>5, <1>6
  <2>2. up[i] = ebp.expects[i]
    BY <1>4, <2>1 DEF Matched
  <2> QED
    BY <1>1, <2>1, <2>2 DEF Resting
<1> QED
  BY <1>1, <1>3, <1>4, <1>5, <1>6

\* Whatever the daemon finds in its pipe makes sense where it is.
LEMMA CommandsDoFit == Always /\ Agreement => CommandsFit
<1> SUFFICES ASSUME Always, Agreement, down # <<>>, ebd.at \in DOMAIN Understood
             PROVE  Head(down).cmd \in Understood[ebd.at]
  BY DEF CommandsFit
<1>1. /\ ebd.at \in {"boot", "main", "phases", "inherit", "ipc", "bashrcs"}
      /\ Understood["boot"] = {"ebd?", "sandbox?"} /\ Understood["main"] = MainCommands
      /\ Understood["phases"] = PhasesCommands /\ Understood["inherit"] = {"path"}
      /\ Understood["ipc"] = {"status", "error"} /\ Understood["bashrcs"] = {"path", "end_request"}
  BY DEF Understood
<1>2. ebp.proc
  BY <1>1 DEF Always, ProcessIsGone
<1>3. Apt(MainCommands)
  <2>1. Apt(Usual) \/ Apt(MainCommands)
    BY <1>2, ConversingApt DEF Agreement, Live
  <2> QED
    BY <2>1 DEF Apt, Usual
<1> QED
  BY <1>1, <1>3 DEF Apt

LEMMA PreloadsDoCount == Always /\ Agreement => PreloadsAreKnown
<1> SUFFICES ASSUME Always, Agreement, py = "idle", holder # "none", NEW e \in ebp.known, e \notin ebd.known
             PROVE  \E i \in DOMAIN down : down[i].arg = e
  BY DEF PreloadsAreKnown
<1>1. Loaded
  BY DEF Agreement, Gone, Live, Ending, Within
<1>2. PICK i \in 1 .. Len(down) : down[i] = Msg("preload", e)
  BY <1>1 DEF Loaded
<1>3. i \in DOMAIN down
  BY Flows, LenProperties
<1> QED
  BY <1>2, <1>3 DEF Msg

\* As long as nothing worse goes wrong than a bad variable name, the two sides stay in
\* step: no answer is taken for another question's, no command is left in the pipe for a
\* loop that does not know it, no package is sourced with less than Python believes is
\* loaded, and no alarm outlives its call.  For any packages, eclasses and preloads queued.
THEOREM SidesStayInStep == Spec => []InStep
<1>1. Always /\ (Harmless => Agreement) => InStep
  <2> SUFFICES ASSUME Always, Agreement, Harmless
               PROVE  KeysAreThePackagesOwn /\ PipesAgree /\ CommandsFit /\ PreloadsAreKnown /\ TimerStopped
    BY DEF InStep
  <2>1. KeysAreThePackagesOwn
    BY DEF Agreement
  <2>2. TimerStopped
    BY DEF Agreement, Timed, TimerStopped, Within
  <2> QED
    BY <2>1, <2>2, PipesDoAgree, CommandsDoFit, PreloadsDoCount
<1> QED
  BY <1>1, AgreementHolds, PTL

=============================================================================
