------------------------------ MODULE MCSource ------------------------------
(***************************************************************************)
(* Instances of Source.  Three or four sequence numbers stand for 256; the *)
(* interval is two polls instead of ten.                                   *)
(***************************************************************************)
EXTENDS Source

TwoUniverses == {1, 2}
OneIllegal == {0, 1, 2}
AllKinds == {"data", "sync", "discovery", "terminate"}

Call(us, required, sync, priority) ==
  [universes |-> us, required |-> required, sync |-> sync, priority |-> priority]

\* Every way out of send, with one and two universes and a repeated one.
ManySends ==
  {Call(<<1, 2>>, 2, 1, TRUE), Call(<<2, 2>>, 2, NoSync, TRUE),
   Call(<<1, 2>>, 1, NoSync, TRUE), Call(<<1>>, 0, NoSync, TRUE), Call(<<1>>, 2, NoSync, TRUE),
   Call(<<1>>, 1, 2, TRUE), Call(<<1, 2>>, 2, NoSync, FALSE), Call(<<1, 0>>, 1, NoSync, TRUE)}
OneSend == {Call(<<1>>, 1, NoSync, TRUE)}

\* The synchronisation packets of one universe, legal or not.
Calling ==
  [register_universe |-> OneIllegal, send_sync_packet |-> {0, 1},
   terminate_stream |-> OneIllegal, set_is_sending_discovery |-> BOOLEAN]
Terminating ==
  [register_universe |-> {1}, send_sync_packet |-> {},
   terminate_stream |-> {1}, set_is_sending_discovery |-> {}]
=============================================================================
