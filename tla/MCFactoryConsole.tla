-------------------------- MODULE MCFactoryConsole --------------------------
EXTENDS FactoryConsole

CONSTANTS a, b

MCSample == <<a, b>>
MCSelections == {StageIds, {"anchor_rank", "enrich"}}
MCRekeys == {{}, {b}}

(* A second and a third run leave less room for requests.                  *)
MCCost(n) == <<0, 2, 4, 5>>[n + 1]

Symmetry == Permutations(Requests)
=============================================================================
