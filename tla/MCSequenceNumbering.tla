------------------------ MODULE MCSequenceNumbering ------------------------
(***************************************************************************)
(* Small instances of SequenceNumbering.  SeqMod 4 with the window (-2, 0] *)
(* keeps the shape of 256 with (-20, 0]: some numbers behind are           *)
(* discarded, some further behind and all ahead are accepted.              *)
(***************************************************************************)
EXTENDS SequenceNumbering, TLC

CONSTANTS s1, s2, s3, u1, u2

TwoSources == {s1, s2}
ThreeSources == {s1, s2, s3}
OneUniverse == {u1}
TwoUniverses == {u1, u2}
NoUniverse == {}

Lower == -2
Symmetry == Permutations(Sources)
=============================================================================
