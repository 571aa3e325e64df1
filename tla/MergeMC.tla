------------------------------ MODULE MergeMC ------------------------------
(***************************************************************************)
(* An instance of Merge.  a1 and a2 share a slot.  conf is a configuration  *)
(* file, gone is dropped by a2 and claimed by c, common is the same file in a1  *)
(* and b, lib64 is another name of lib, and link one of conf.               *)
(***************************************************************************)
EXTENDS Merge, TLC

CONSTANTS a1, a2, b, c, conf, gone, common, lib, lib64, link

MCPackages == {a1, a2, b, c}
MCFiles == {conf, gone, common, lib, lib64, link}
MCSlotOf == a1 :> 1 @@ a2 :> 1 @@ b :> 2 @@ c :> 3
MCPlace == [f \in MCFiles |-> CASE f = lib64 -> lib [] f = link -> conf [] OTHER -> f]
MCProtected == {conf}
MCImage ==
    a1 :> (conf :> "one" @@ gone :> "one" @@ common :> "same" @@ lib64 :> "one")
      @@ a2 :> (conf :> "two" @@ lib :> "two")
      @@ b :> (common :> "same")
      @@ c :> (gone :> "three" @@ lib :> "three" @@ link :> "three")
MCRules == {"none", "owned", "collision"}
=============================================================================
