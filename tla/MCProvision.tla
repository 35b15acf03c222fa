----------------------------- MODULE MCProvision -----------------------------
(***************************************************************************)
(* One demo tenant beside AXIAM's own, two runs.  Three catalogs: one      *)
(* grant; the same permission without it; one with a wildcard.             *)
(***************************************************************************)
EXTENDS Provision, TLC

CONSTANTS lakeside, r1, r2

MCCatalogs ==
  {[permissions |-> {"read"}, roles |-> {"installer"}, grants |-> {<<"installer", "read">>}],
   [permissions |-> {"read"}, roles |-> {}, grants |-> {}],
   [permissions |-> {"*"}, roles |-> {}, grants |-> {}]}

MCSymmetry == Permutations(Runs)
=============================================================================
