---------------------------- MODULE MCSourceWatch ----------------------------
(* SourceWatch for TLC: one file that is edited twice, and two files of     *)
(* which one is edited once, with and without polling.                      *)
EXTENDS SourceWatch, TLC

CONSTANTS a, b

OneOrTwoFiles == [polling : BOOLEAN, edits : {a :> 2, a :> 1 @@ b :> 0}]
=============================================================================
