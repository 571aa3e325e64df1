----------------------------- MODULE RepoMemoMC -----------------------------
(***************************************************************************)
(* One category with two packages, one of them in two versions.            *)
(***************************************************************************)
EXTENDS RepoMemo, TLC

CONSTANTS x1, x2, y1, X, Y, dev

MCEntries == {x1, x2, y1}
MCKeyOf == x1 :> X @@ x2 :> X @@ y1 :> Y
MCCatOf == X :> dev @@ Y :> dev
=============================================================================
