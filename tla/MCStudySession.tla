-------------------------- MODULE MCStudySession --------------------------
(* Small instances of StudySession for TLC.                                *)
EXTENDS StudySession, TLC

CONSTANTS w1, w2, w3, w4, m1, m2, m3

TwoWords   == {w1, w2}
FourWords  == {w1, w2, w3, w4}
BothStaged == Activities
ReviewStaged == {"srs_review"}
TwoMsgs    == {m1, m2}
ThreeMsgs  == {m1, m2, m3}
Symmetry   == Permutations(Words) \cup Permutations(Msgs)
============================================================================
