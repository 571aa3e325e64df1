----------------------------- MODULE ResolverMC -----------------------------
(***************************************************************************)
(* Instances of Resolver.  a1 and a2 share a slot, and so do b1, b2 and b3; *)
(* a1 and b1 are installed, the others come from an ebuild repository.     *)
(* Each world gives the packages one or two dependencies.                  *)
(***************************************************************************)
EXTENDS Resolver, TLC

CONSTANTS
    a1, a2, b1, b2, b3, c2,
    NewA, OldA, AnyB, OnlyC, Nothing, NotOldA, NotOldB, NotNewB, PastOldB, SomeB, OnlyB

MCPkgs == {a1, a2, b1, b2, b3, c2}
MCLivefs == {a1, b1}
MCSlotOf == a1 :> 1 @@ a2 :> 1 @@ b1 :> 2 @@ b2 :> 2 @@ b3 :> 2 @@ c2 :> 3
MCCpvOf == a1 :> 11 @@ a2 :> 12 @@ b1 :> 21 @@ b2 :> 22 @@ b3 :> 23 @@ c2 :> 32
MCAtoms == {NewA, OldA, AnyB, OnlyC, Nothing, NotOldA, NotOldB, NotNewB, PastOldB,
            SomeB, OnlyB}
MCMatches ==
    NewA :> {a2} @@ OldA :> {a1} @@ AnyB :> {b1, b2}
      @@ OnlyC :> {c2} @@ Nothing :> {}
      @@ NotOldA :> {a1} @@ NotOldB :> {b1} @@ NotNewB :> {b2} @@ PastOldB :> {b2}
      @@ SomeB :> {b2, b3} @@ OnlyB :> {b3}
MCBlockers == {NotOldA, NotOldB, NotNewB}
MCPast == NotOldB :> PastOldB

\* The clauses a dependency is made of.
MCClauses == {{NewA}, {OldA}, {AnyB}, {OnlyC}, {NotOldA}, {NotOldB}, {NotNewB},
              {NewA, AnyB}, {Nothing, AnyB}}

\* One dependency: a clause of one attribute of one package.  No package blocks
\* itself.
MCEdges ==
    {e \in [pkg : MCPkgs \ {b3}, attr : {"depend", "rdepend", "pdepend"}, clause : MCClauses] :
       /\ e.pkg \in MCLivefs => e.attr # "depend"
       /\ \A a \in e.clause \cap MCBlockers : e.pkg \notin MCMatches[a]}

MCDeps(es) ==
    [p \in MCPkgs |-> [attr \in Attrs |->
       {e.clause : e \in {x \in es : x.pkg = p /\ x.attr = attr}}]]

\* The strategies, newest first or what is installed first, and the two options.
Newest == <<b3, a2, b2, c2, a1, b1>>
Reuse == <<a1, b1, a2, b3, b2, c2>>

MCOpts ==
    {[requests |-> o.requests, order |-> o.order, drop_cycles |-> o.drop, built |-> FALSE] :
       o \in {[requests |-> <<OnlyC>>, order |-> Newest, drop |-> TRUE],
              [requests |-> <<OnlyC>>, order |-> Reuse, drop |-> FALSE],
              [requests |-> <<OldA, OnlyC>>, order |-> Newest, drop |-> FALSE]}}

Edge(p, attr, a) == [pkg |-> p, attr |-> attr, clause |-> {a}]

\* b3 gives way: a2, which b3 needs, counts on it, and what a2 needs after its merge
\* brings b2 in before the turn of b3 comes.
MCGiveWay ==
    [deps |-> MCDeps({Edge(b3, "rdepend", NewA), Edge(a2, "rdepend", OnlyB),
                      [pkg |-> a2, attr |-> "pdepend", clause |-> {OnlyB, OnlyC}],
                      Edge(c2, "rdepend", PastOldB)}),
     opts |-> [requests |-> <<SomeB>>, order |-> Newest, drop_cycles |-> FALSE, built |-> FALSE]]

\* The package asked for needs something, to be built or to run.
MCWorlds ==
    {[deps |-> MCDeps({d, e}), opts |-> o] :
       d \in {f \in MCEdges : f.pkg = c2 /\ f.attr # "pdepend"}, e \in MCEdges, o \in MCOpts}
      \cup {MCGiveWay}
=============================================================================
