-------------------------- MODULE MetadataCacheMC --------------------------
(***************************************************************************)
(* An instance of MetadataCache: two packages, of which one inherits an    *)
(* eclass and the other breaks when it is edited.                          *)
(***************************************************************************)
EXTENDS MetadataCache, TLC

MCInherits ==
    [p \in {"p", "q"} |-> [v \in 0 .. MaxEdits |-> IF p = "p" THEN {"e"} ELSE {}]]
MCSound == [p \in {"p", "q"} |-> IF p = "p" THEN 0 .. MaxEdits ELSE {0}]
=============================================================================
