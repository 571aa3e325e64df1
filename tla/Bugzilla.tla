------------------------------ MODULE Bugzilla ------------------------------
(***************************************************************************)
(* The client of bugs.gentoo.org (bugzilla/*.py): requests that are lost,  *)
(* answered late or refused, and sent again; searches that are split and   *)
(* paged while the bugs change; closures of dependencies; changes to       *)
(* lists.                                                                  *)
(***************************************************************************)
EXTENDS Naturals, Sequences, SequencesExt, FiniteSets, FiniteSetsExt

CONSTANTS None, PageSize

-----------------------------------------------------------------------------
(* transport.py.  What becomes of an attempt: applied says whether the     *)
(* server did what was asked, status is None if no answer came, json       *)
(* whether the body can be read, and error the code it has, if any.        *)

RetryStatuses == {429, 500, 502, 503, 504}
Idempotent == {"GET", "HEAD"}

\* errors.py
CodeMap(code) ==
    CASE code \in {50, 53, 100, 104, 108, 111, 114, 115} \cup 129..134 \cup 1101..1105 -> "InvalidField"
      [] code \in {51, 101, 32614} -> "NotFound"
      [] code \in {102, 106, 109, 110, 113, 120} -> "PermissionDenied"
      [] code \in 300..307 \cup {410, 504} -> "AuthError"
      [] OTHER -> None
FromResponse(code, status) == IF CodeMap(code) # None THEN CodeMap(code) ELSE IF status >= 500 THEN "ServerError" ELSE "ResponseError"
FromStatus(status) ==
    IF status >= 500 THEN "ServerError" ELSE IF status \in {401, 403} THEN "AuthError"
    ELSE IF status = 404 THEN "NotFound" ELSE "ResponseError"
\* A failure may come with a status of success: the body is looked at first.
Decode(a) ==
    IF a.status = None THEN "ConnectionError"
    ELSE IF ~a.json THEN IF a.status \in RetryStatuses THEN "ServerError" ELSE "ProtocolError"
    ELSE IF a.error # None THEN FromResponse(a.error, a.status)
    ELSE IF a.status >= 400 THEN FromStatus(a.status)
    ELSE "ok"

\* conf: key (whether there is one), retries, retryWrites.  The outcomes of the attempts in turn.
Attempts(conf, method) == IF method \in Idempotent \/ conf.retryWrites THEN Max({1, conf.retries}) ELSE 1
Again(result) == result \in {"ServerError", "ConnectionError"}
Sent(conf, method, outcomes) ==
    LET enough == {n \in 1..Attempts(conf, method) : n = Attempts(conf, method) \/ ~Again(Decode(outcomes[n]))}
    IN IF method \notin Idempotent /\ ~conf.key THEN 0 ELSE Min(enough)
Send(conf, method, outcomes) ==
    LET n == Sent(conf, method, outcomes)
    IN IF n = 0 THEN [result |-> "AuthRequired", applied |-> 0]
       ELSE [result |-> Decode(outcomes[n]), applied |-> Cardinality({i \in 1..n : outcomes[i].applied})]

\* An answer of success is the answer of the last attempt; a write is done at most once unless one asked
\* for writes to be sent again; nothing is sent again that was answered; without a key nothing is written.
SendingAgrees(conf, method, outcomes) ==
    LET s == Send(conf, method, outcomes)
        n == Sent(conf, method, outcomes)
    IN /\ n <= Max({1, conf.retries})
       /\ s.result = "ok" => outcomes[n].status # None /\ s.applied >= 1
       /\ ~Again(s.result) /\ n > 0 => \A i \in 1..n - 1 : Again(Decode(outcomes[i]))
       /\ method \notin Idempotent => (~conf.retryWrites => s.applied <= 1) /\ (~conf.key => s.applied = 0)
       /\ Again(s.result) /\ method \in Idempotent => n = Max({1, conf.retries})

-----------------------------------------------------------------------------
(* query.py.  A query: simple (sequence of <<key, values>>), charts        *)
(* (conditions and groups), limit, offset (None: not given).               *)

Criterion(field, values, splittable) == [kind |-> "criterion", field |-> field, values |-> values, splittable |-> splittable]
ChartGroup(join, children) == [kind |-> "group", join |-> join, children |-> children]
BugQuery(simple, charts) == [simple |-> simple, charts |-> charts, limit |-> None, offset |-> None]
Lookup(simple, key) == LET at == {i \in DOMAIN simple : simple[i][1] = key} IN IF at = {} THEN <<>> ELSE simple[Min(at)][2]

MergeSimple(left, right) ==
    LET put(s, kv) ==
            LET old == Lookup(s, kv[1])
                new == old \o SelectSeq(kv[2], LAMBDA v : ~Contains(old, v))
            IN IF \E i \in DOMAIN s : s[i][1] = kv[1] THEN [i \in DOMAIN s |-> IF s[i][1] = kv[1] THEN <<kv[1], new>> ELSE s[i]]
               ELSE Append(s, <<kv[1], new>>)
    IN FoldLeft(put, left, right)
And(q, r) ==
    [simple |-> MergeSimple(q.simple, r.simple), charts |-> q.charts \o r.charts,
     limit |-> IF r.limit = None THEN q.limit ELSE r.limit, offset |-> IF r.offset = None THEN q.offset ELSE r.offset]
\* None: BugzillaUsageError.
AnyOf(queries) ==
    IF \E q \in ToSet(queries) : q.simple # <<>> THEN None
    ELSE BugQuery(<<>>, <<ChartGroup("OR", FoldLeft(LAMBDA s, q : s \o q.charts, <<>>, queries))>>)

\* Parameters of the charts: <<letter, slot, value>>, slots counted as they are rendered.
RECURSIVE Render(_, _)
Render(chart, slot) ==
    IF chart.kind = "criterion"
    THEN [params |-> <<<<"f", slot, chart.field>>>> \o [i \in DOMAIN chart.values |-> <<"v", slot, chart.values[i]>>], slot |-> slot + 1]
    ELSE LET inner == FoldLeft(LAMBDA acc, c : LET r == Render(c, acc.slot) IN [params |-> acc.params \o r.params, slot |-> r.slot],
                               [params |-> <<<<"f", slot, "OP">>, <<"j", slot, chart.join>>>>, slot |-> slot + 1], chart.children)
         IN [params |-> Append(inner.params, <<"f", inner.slot, "CP">>), slot |-> inner.slot + 1]
Params(charts) ==
    FoldLeft(LAMBDA acc, c : LET r == Render(c, acc.slot) IN [params |-> acc.params \o r.params, slot |-> r.slot], [params |-> <<>>, slot |-> 1], charts).params

\* Bugzilla's reading of the charts (external): conditions joined by AND, those between OP and CP by its join.
RECURSIVE ReadFrom(_, _, _)
ReadFrom(params, slot, is) ==
    LET field == CHOOSE f \in {p[3] : p \in {q \in ToSet(params) : q[1] = "f" /\ q[2] = slot}} : TRUE
        values == {p[3] : p \in {q \in ToSet(params) : q[1] = "v" /\ q[2] = slot}}
        closes == {p[2] : p \in {q \in ToSet(params) : q[1] = "f" /\ q[3] = "CP" /\ q[2] > slot}}
        inner == {p[2] : p \in {q \in ToSet(params) : q[1] = "f" /\ slot < q[2] /\ q[2] < Min(closes)}}
        holds(s) == \E p, q \in ToSet(params) : p[1] = "v" /\ q[1] = "f" /\ p[2] = s /\ q[2] = s /\ p[3] \in is[q[3]]
    IN IF ~\E p \in ToSet(params) : p[2] = slot THEN TRUE
       ELSE IF field = "OP"
            THEN /\ IF \E p \in ToSet(params) : p = <<"j", slot, "OR">> THEN \E s \in inner : holds(s) ELSE \A s \in inner : holds(s)
                 /\ ReadFrom(params, Min(closes) + 1, is)
       ELSE values \cap is[field] # {} /\ ReadFrom(params, slot + 1, is)
\* A bug maps each field to the words it holds.  A parameter without a value is never sent, so asks for nothing.
Chosen(q, bugs) ==
    {b \in bugs : /\ \A i \in DOMAIN q.simple : q.simple[i][2] = <<>> \/ b.is[q.simple[i][1]] \cap ToSet(q.simple[i][2]) # {}
                  /\ ReadFrom(Params(q.charts), 1, b.is)}

\* The axis to split: ids, or a splittable condition; the first of the widest.
Axes(q) ==
    SelectSeq([i \in DOMAIN q.simple |-> <<"simple", i, q.simple[i][2]>>], LAMBDA a : q.simple[a[2]][1] = "id")
    \o SelectSeq([i \in DOMAIN q.charts |-> <<"chart", i, IF q.charts[i].kind = "criterion" THEN q.charts[i].values ELSE <<>>>>],
                 LAMBDA a : q.charts[a[2]].kind = "criterion" /\ q.charts[a[2]].splittable)
Rebuild(q, axis, values) ==
    IF axis[1] = "chart" THEN [q EXCEPT !.charts[axis[2]].values = values]
    ELSE LET rest == SelectSeq(q.simple, LAMBDA kv : kv[1] # "id")
         IN [q EXCEPT !.simple = IF values = <<>> THEN rest ELSE Append(rest, <<"id", values>>)]
\* room: how many values of the axis fit beside the rest.
Batches(q, room) ==
    LET axes == Axes(q)
        widest == CHOOSE i \in DOMAIN axes : (\A j \in DOMAIN axes : Len(axes[j][3]) <= Len(axes[i][3])) /\ \A j \in 1..i - 1 : Len(axes[j][3]) < Len(axes[i][3])
        values == axes[widest][3]
        full(acc, v) == IF acc.batch # <<>> /\ Len(acc.batch) + 1 > room THEN [done |-> Append(acc.done, acc.batch), batch |-> <<v>>]
                        ELSE [acc EXCEPT !.batch = Append(@, v)]
        cut == FoldLeft(full, [done |-> <<>>, batch |-> <<>>], values)
        batches == Append(cut.done, cut.batch)
    IN IF axes = <<>> THEN <<q>> ELSE [i \in DOMAIN batches |-> Rebuild(q, axes[widest], batches[i])]

-----------------------------------------------------------------------------
(* client.py.  served: the bugs there are at each request in turn, in the  *)
(* order the server lists them; they stay as they are at the last.         *)

At(served, n) == served[Min({n, Len(served)})]
Listed(q, bugs) == SelectSeq(bugs, LAMBDA b : b \in Chosen(q, ToSet(bugs)))
Page(list, offset, size) == SubSeq(list, offset + 1, Min({Len(list), offset + size}))

\* The pages of one batch from the n-th request on; limit is what is left of it.
RECURSIVE PagedSearch(_, _, _, _, _)
NextPage(page, size, q, offset, limit, n, served) ==
    IF (limit # None /\ Len(page) >= limit) \/ Len(page) < size THEN [bugs |-> page, next |-> n + 1]
    ELSE [PagedSearch(q, offset + Len(page), IF limit = None THEN None ELSE limit - Len(page), n + 1, served)
            EXCEPT !.bugs = page \o @]
PagedSearch(q, offset, limit, n, served) ==
    LET size == IF limit \in {None, 0} THEN PageSize ELSE Min({limit, PageSize})
    IN NextPage(Page(Listed(q, At(served, n)), offset, size), size, q, offset, limit, n, served)
RawSearch(q, room, n, served) ==
    FoldLeft(LAMBDA acc, b : LET r == PagedSearch(b, IF b.offset = None THEN 0 ELSE b.offset, b.limit, acc.next, served)
                             IN [bugs |-> acc.bugs \o r.bugs, next |-> r.next],
             [bugs |-> <<>>, next |-> n], Batches(q, room))
Ids(bugs) == {b.id : b \in bugs}
Search(q, room, served) == Ids(ToSet(RawSearch(q, room, 1, served).bugs))

\* depends[b]: what b names; visible: what can be fetched in each round.
RECURSIVE ResolveDependencies(_, _, _, _, _)
ResolveDependencies(resolved, unreachable, n, depends, visible) ==
    LET missing == UNION {depends[b] : b \in resolved} \ (resolved \cup unreachable)
        fetched == missing \cap At(visible, n)
    IN IF missing = {} THEN resolved
       ELSE ResolveDependencies(resolved \cup fetched, unreachable \cup (missing \ fetched), n + 1, depends, visible)

\* Comments of one's own that are not yet obsolete get tagged one by one; `cut` is how many are before a failure.
MarkOwnCommentsObsolete(comments, name, cut) ==
    LET stale == SelectSeq(comments, LAMBDA c : c.creator = name /\ "obsolete" \notin c.tags)
        done == ToSet(SubSeq(stale, 1, Min({cut, Len(stale)})))
    IN [i \in DOMAIN comments |-> IF comments[i] \in done THEN [comments[i] EXCEPT !.tags = @ \cup {"obsolete"}] ELSE comments[i]]
LatestComment(comments, name) ==
    LET mine == {i \in DOMAIN comments : comments[i].creator = name} IN IF mine = {} THEN None ELSE comments[Max(mine)]

\* changes.py: what `|` makes of two changes to a list, and what the server does with one (external).
ListChange(add, remove, replace) == [add |-> add, remove |-> remove, replace |-> replace]
Invalid(c) == (c.replace # None /\ (c.add # {} \/ c.remove # {})) \/ c.add \cap c.remove # {}
Merged(c, d) == IF d.replace # None THEN d ELSE ListChange(c.add \cup d.add, c.remove \cup d.remove, None)
Applied(c, list) == IF c.replace # None THEN c.replace ELSE (list \cup c.add) \ c.remove

-----------------------------------------------------------------------------
(* What is promised.                                                       *)

\* Splitting a query loses and adds nothing, and no batch is longer than there is room for; "&" is both and any_of one of them, where no key is given twice and each has one condition.
QueriesAgree(q, r, room, bugs) ==
    LET batches == Batches(q, room)
        split == UNION {Chosen(batches[i], bugs) : i \in DOMAIN batches}
        keys(p) == {p.simple[i][1] : i \in DOMAIN p.simple}
        either == AnyOf(<<q, r>>)
    IN /\ split = Chosen(q, bugs)
       /\ \A i, j \in DOMAIN batches : i # j => batches[i] # batches[j]
       /\ Len(batches) > 1 => \A i \in DOMAIN batches :
            \E a \in ToSet(Axes(batches[i])) : Len(a[3]) \in 1..Max({1, room}) /\ \E b \in ToSet(Axes(q)) : a[1] = b[1] /\ Len(a[3]) < Len(b[3])
       /\ keys(q) \cap keys(r) = {} => Chosen(And(q, r), bugs) = Chosen(q, bugs) \cap Chosen(r, bugs)
       /\ either # None /\ Len(q.charts) = 1 /\ Len(r.charts) = 1 /\ {q.charts[1].kind, r.charts[1].kind} = {"criterion"} =>
            Chosen(either, bugs) = Chosen(q, bugs) \cup Chosen(r, bugs)
       /\ LET p == Params(q.charts \o r.charts)
              slots == {p[i][2] : i \in DOMAIN p}
          IN \A s \in slots : Cardinality({i \in DOMAIN p : p[i][1] = "f" /\ p[i][2] = s}) = 1

\* bugs is what came, in next - 1 requests; there[n] what there was at the n-th; still: nothing changed;
\* one: the query was not split.
Explained(q, found, bugs, there, still, one) ==
    LET ever == UNION Range(there)
        now == there[Len(there)]
        always == {b \in there[1] : \A n \in DOMAIN there : b.id \in Ids(there[n])}
        all == q.limit = None /\ q.offset = None
        some == one /\ q.limit # None /\ q.limit > 0
    IN /\ found \subseteq Ids(ever)
       /\ some => Len(bugs) <= q.limit
       /\ one /\ all => Cardinality({b \in always : b.id \notin found}) <= Cardinality(Ids(ever) \ Ids(now))
       /\ still /\ all => found = Ids(now)
       /\ still /\ some /\ q.offset = None =>
            Len(bugs) = Min({q.limit, Cardinality(now)}) /\ Cardinality(found) = Len(bugs)

\* What a search returns was there when its page was asked for.  Where nothing changes meanwhile it is all there
\* is, and with a limit and one batch that many of it.  A bug there throughout is missed only behind one that left.
SearchAgrees(q, room, served) ==
    LET r == RawSearch(q, room, 1, served)
    IN Explained(q, Search(q, room, served), r.bugs, [n \in 1..r.next |-> Chosen(q, ToSet(At(served, n)))],
                 \A n \in 2..r.next : At(served, n) = At(served, 1), Len(Batches(q, room)) = 1)

\* Every bug that can be reached over bugs that can be seen, and no other; it ends though some never can be.
ClosureAgrees(from, ids, depends, visible) ==
    LET r == ResolveDependencies(from, {}, 1, depends, visible)
        step(s) == s \cup (UNION {depends[b] : b \in s} \cap visible[1])
        reach == FoldLeft(LAMBDA s, i : step(s), from, [i \in 1..Cardinality(ids) |-> i])
    IN /\ r \subseteq from \cup UNION ToSet(visible)
       /\ Cardinality(ToSet(visible)) = 1 => r = reach

\* Tagging may break off anywhere and be started anew: no one else's comment is touched, none tagged twice,
\* and the latest of one's own is tagged last.
TaggingAgrees(comments, name, cut) ==
    LET first == MarkOwnCommentsObsolete(comments, name, cut)
        again == MarkOwnCommentsObsolete(first, name, Len(comments))
        open(cs) == {i \in DOMAIN cs : cs[i].creator = name /\ "obsolete" \notin cs[i].tags}
    IN /\ open(again) = {} /\ again = MarkOwnCommentsObsolete(comments, name, Len(comments))
       /\ \A i \in DOMAIN comments : comments[i].creator # name => again[i] = comments[i]
       /\ \A i \in open(comments) \ open(first), j \in open(first) : i < j
       /\ open(first) # {} => LatestComment(first, name) # None

\* Two changes merged do what the one does and then the other, unless the first sets the list whole or they disagree.
ChangesAgree(c, d, list) ==
    ~Invalid(c) /\ ~Invalid(d) /\ ~Invalid(Merged(c, d)) /\ (c.replace = None \/ d.replace # None) =>
        Applied(Merged(c, d), list) = Applied(d, Applied(c, list))
=============================================================================
