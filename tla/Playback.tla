------------------------------ MODULE Playback ------------------------------
(***************************************************************************)
(* What the user of a receiver is promised of one stream: the data of one  *)
(* source on one universe, its datagrams counted in the order they were    *)
(* sent.  While the stream plays nothing is shown twice and nothing after  *)
(* what was sent later.  A stream that was interrupted, by a termination,  *)
(* a timeout or the user, may start again a little further back: by less   *)
(* than the network lets one datagram overtake another.                    *)
(***************************************************************************)
EXTENDS Integers

CONSTANT Overtake   \* how far the network lets datagrams overtake each other

VARIABLES
  playing,   \* whether the stream plays
  shown,     \* the count of the datagram shown last, 0 for none
  flip       \* changes with every datagram shown: showing one again is a step

Init == playing = FALSE /\ shown = 0 /\ flip = FALSE

Show ==
  /\ playing' = TRUE /\ flip' = ~ flip
  /\ shown' \in Nat
  /\ IF playing THEN shown' > shown ELSE shown' > shown - Overtake

Stop == playing /\ playing' = FALSE /\ UNCHANGED <<shown, flip>>

Next == Show \/ Stop

Spec == Init /\ [][Next]_<<playing, shown, flip>>
=============================================================================
