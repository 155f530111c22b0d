------------------------ MODULE MCUniverseDiscovery ------------------------
(***************************************************************************)
(* Instances of UniverseDiscovery: with one universe to a page an advert   *)
(* has one to three pages, the last of them empty.                         *)
(***************************************************************************)
EXTENDS UniverseDiscovery

TwoUniverses == {1, 2}
=============================================================================
