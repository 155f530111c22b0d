-------------------------- MODULE MCPacketExchange --------------------------
(***************************************************************************)
(* An instance of PacketExchange: two values fit a universe, two universes *)
(* a page; data and adverts fill up to one and a half.                     *)
(***************************************************************************)
EXTENDS PacketExchange

OneCid == {7}
\* One that fits, one that leaves no room for a null character, one too long.
AnyName == {1, 2, 3}
UpToThree == {<<5>>, <<0, 5>>, <<5, 0, 6>>}
\* 4 is the universe of adverts.
Lists == {<<1, 2>>, <<4, 2>>}
Addresses == {0, 1, 4}
\* 2 is out of range.
AnyPriority == {1, 2}
Adverts == {{}, {2}, {1, 3}, {1, 2, 4}}
=============================================================================
