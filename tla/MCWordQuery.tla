---------------------------- MODULE MCWordQuery ----------------------------
(* Small instances of WordQuery for TLC.                                   *)
EXTENDS WordQuery, TLC

CONSTANTS apple, apples, pear, fruit, tree, menu, cancel

ThreeTexts == {apple, apples, pear}
TwoWords   == {fruit, tree}
=============================================================================
