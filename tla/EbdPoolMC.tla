----------------------------- MODULE EbdPoolMC -----------------------------
(***************************************************************************)
(* An instance of EbdPool: two workers, three packages, and up to three    *)
(* processors left idle by an earlier regeneration.                        *)
(***************************************************************************)
EXTENDS EbdPool, TLC

CONSTANTS w1, w2

MCPkgs == {"p", "q", "r"}
MCPkgList == <<"p", "q", "r">>
MCProcs == {"e1", "e2", "e3", "e4", "e5", "e6", "e7", "e8", "e9"}

Outs(p, q, r) == [k \in MCPkgs |-> CASE k = "p" -> p [] k = "q" -> q [] k = "r" -> r]
All(e) == [k \in MCPkgs |-> e]
World(outs, cached, force, caching, idle) ==
    [outcome |-> outs, cache |-> cached, force |-> force, caching |-> caching, idle |-> idle]

\* All ways of failing, each beside the others and beside idle processors.
MCWorlds ==
    {World(Outs("ok", a, b), All("stale"), FALSE, FALSE, <<>>) :
        a, b \in {"ok", "dies", "bad", "odd"}}
      \cup {World(Outs("dies", b, "ok"), All("none"), TRUE, TRUE, idle) :
              b \in {"ok", "dies", "bad"},
              idle \in {<<"e1">>, <<"e1", "e2">>, <<"e1", "e2", "e3">>}}
      \cup {World(Outs("odd", "ok", "dies"), All("none"), TRUE, TRUE, <<>>)}
      \cup {World(Outs("ok", "bad", "ok"), [All("none") EXCEPT !["p"] = "own"], FALSE, FALSE,
                  <<"e1", "e2", "e3">>)}
=============================================================================
