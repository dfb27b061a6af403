----------------------------- MODULE MCAiRouter -----------------------------
(* Small instances of AiRouter for TLC.                                    *)
EXTENDS AiRouter

CONSTANTS t1, t2, main, spare

OnlySpare     == {spare}
TwoWorkers    == {t1, t2}
MainThenSpare == <<main, spare>>
OneOrTwo      == {1, 2}
=============================================================================
