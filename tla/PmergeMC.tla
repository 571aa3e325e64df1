------------------------------ MODULE PmergeMC ------------------------------
(* Two targets, a dependency that comes built and an installed package     *)
(* that --clean may keep; three distfiles, one of them wanted twice and one *)
(* that cannot be fetched from anywhere.                                   *)
EXTENDS Pmerge, TLC

CONSTANTS aOld, aNew, lib, tool, idle, tar, patch, lost

MCOpSeq == <<
    [desc |-> "keep",    pkg |-> idle, old |-> None, by |-> {tool}],
    [desc |-> "install", pkg |-> lib,  old |-> None, by |-> {aNew}],
    [desc |-> "replace", pkg |-> aNew, old |-> aOld, by |-> {aNew}],
    [desc |-> "install", pkg |-> tool, old |-> None, by |-> {tool}]>>

MCFilesOf == [p \in {aOld, aNew, lib, tool, idle} |->
                CASE p = aNew -> <<tar, patch>> [] p = tool -> <<patch, lost>> [] OTHER -> <<>>]
MCUris == tar :> [mirrors |-> 1, upstream |-> 1] @@ patch :> [mirrors |-> 0, upstream |-> 2]
          @@ lost :> [mirrors |-> 0, upstream |-> 0]
MCKeyOf == [p \in {aOld, aNew, lib, tool, idle} |-> IF p = aOld THEN aNew ELSE p]

MCSettings ==
    LET S(m, i, o, fo, ch, bad) ==
          [mode |-> m, ignore |-> i, oneshot |-> o, fetchonly |-> fo, change |-> ch,
           targets |-> IF m = "unmerge" THEN {aOld, idle} ELSE {aNew, tool},
           insoluble |-> bad, live |-> {aOld, idle}, world |-> {aNew, idle}]
    IN {S(m, i, FALSE, FALSE, FALSE, bad) : m \in {"merge", "clean"}, i \in BOOLEAN,
                                            bad \in SUBSET {aNew}}
       \cup {S("unmerge", i, o, ~o, FALSE, {}) : i \in BOOLEAN, o \in BOOLEAN}
       \cup {S("merge", TRUE, o, fo, ~o, {}) : o \in BOOLEAN, fo \in BOOLEAN}
=============================================================================
