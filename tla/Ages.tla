-------------------------------- MODULE Ages --------------------------------
(***************************************************************************)
(* An Instant the receiver keeps is only ever compared, as elapsed(), with *)
(* one duration: E131_NETWORK_DATA_LOSS_TIMEOUT, of which                  *)
(* UNIVERSE_DISCOVERY_SOURCE_TIMEOUT is another name (src/packet.rs).  It  *)
(* is modelled by its age in ticks, which stops growing once it is old.    *)
(***************************************************************************)
EXTENDS Integers

CONSTANT Timeout   \* E131_NETWORK_DATA_LOSS_TIMEOUT in ticks

ASSUME TimeoutAssumption == Timeout \in Nat \ {0}

AgeValues == 0 .. Timeout

\* elapsed() >= E131_NETWORK_DATA_LOSS_TIMEOUT
IsOld(age) == age >= Timeout

\* A tick of the clock.
Older(age) == IF IsOld(age) THEN age ELSE age + 1
=============================================================================
