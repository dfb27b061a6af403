------------------------- MODULE MCEgressSupervisor -------------------------
(* Small instances of EgressSupervisor for TLC.                            *)
EXTENDS EgressSupervisor

CONSTANTS h1, h2, s1, s2, zen, avalai

TwoHandlers   == {h1, h2}
TwoServers    == <<s1, s2>>
OneTunnelled  == {zen}
OneDirect     == {avalai}
SeedSecond    == {<<s2, zen>>}
=============================================================================
