------------------------------ MODULE MCStream ------------------------------
(***************************************************************************)
(* An instance of Stream.  SeqMod 4 with the window (-2, 0] stands for 256 *)
(* with (-20, 0]; two more streams, one of the same source and one of      *)
(* another, with numbers that are accepted after one another.              *)
(***************************************************************************)
EXTENDS Stream

CONSTANTS s1, s2, u1, u2

TwoSources == {s1, s2}
TwoUniverses == {u1, u2}
NoUniverse == {}
OtherStreams == {<<s1, u2>>, <<s2, u1>>}
EvenNumbers == {0, 2}
Lower == -2
=============================================================================
