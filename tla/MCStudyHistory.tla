-------------------------- MODULE MCStudyHistory --------------------------
(* Small instances of StudyHistory for TLC.                                *)
EXTENDS StudyHistory, TLC

CONSTANTS w1, w2, m1, m2, m3

TwoWords   == {w1, w2}
BothStaged == Activities
ThreeMsgs  == {m1, m2, m3}
============================================================================
