---------------------------- MODULE PlanStateMC ----------------------------
(***************************************************************************)
(* Instances of PlanState.  v is an installed package, n its replacement   *)
(* in the same slot, and w another installed package in a slot of its own. *)
(* cv and cn are the choice points that settled on v and n, co on w.       *)
(***************************************************************************)
EXTENDS PlanState, TLC

CONSTANTS v, n, w, cv, cn, co, x, y, r

MCPkgs == {v, n, w}
MCLivefs == {v, w}
MCSlotOf == [p \in {v, n, w} |-> IF p \in {v, n} THEN 1 ELSE 2]
MCChoices == {cv, cn, co}
MCPkgOf == cv :> v @@ cn :> n @@ co :> w

\* All packages of one EAPI: one instance of each atom.
MCOneTag == [c \in {cv, cn, co} |-> 7]

\* x blocks the new package and y the old one; no package blocks itself.
MCBlocks == x :> {n} @@ y :> {v}
MCBlockers == cv :> {x} @@ cn :> {} @@ co :> {x, y}
=============================================================================
