------------------------------- MODULE MCTree --------------------------------
(***************************************************************************)
(* A branch of two nodes: a site with its two groups, and a common area    *)
(* below it with one.                                                      *)
(***************************************************************************)
EXTENDS Tree, TLC

CONSTANTS r1, r2

MCBranch == <<"site", "common">>
MCParent == [n \in {"site", "common"} |-> IF n = "site" THEN "portfolio" ELSE "site"]
MCDepth == [n \in {"portfolio", "site", "common"} |->
             CASE n = "portfolio" -> 0 [] n = "site" -> 1 [] OTHER -> 2]
MCRoles == [n \in {"portfolio", "site", "common"} |->
             CASE n = "portfolio" -> <<"property-manager">>
               [] n = "site" -> <<"installer", "concierge">>
               [] OTHER -> <<"common-operator">>]
MCSymmetry == Permutations(Runs)
=============================================================================
