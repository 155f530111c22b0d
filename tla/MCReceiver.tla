----------------------------- MODULE MCReceiver -----------------------------
(***************************************************************************)
(* Small instances of Receiver, one per question.  SeqMod 4 with the       *)
(* window (-2, 0] keeps the shape of 256 with (-20, 0]: some numbers       *)
(* behind the last are discarded, some further behind and all ahead are    *)
(* accepted.  The packets of an instance are chosen so that those the      *)
(* question is about meet, with every sequence number, in every order.     *)
(***************************************************************************)
EXTENDS Receiver, TLC

CONSTANTS s1, s2, u1, u2, y1, disc,
  bad   \* a universe out of range

Lower == -2
Lowest == -1
NoThing == {}

Windows4 == [windows |-> TRUE, ipv6 |-> FALSE]
Unix6 == [windows |-> FALSE, ipv6 |-> TRUE]
Windows6 == [windows |-> TRUE, ipv6 |-> TRUE]

OneSource == {s1}
TwoSources == {s1, s2}
U1 == {u1}
Y1 == {y1}
AllUniverses == {u1, u2, y1, disc}

Symmetry == Permutations(Sources)

\* A data packet but for its sequence number.
DataPacket(s, u, sync, prio, values) ==
  [src |-> s, universe |-> u, sync |-> sync, priority |-> prio,
   preview |-> FALSE, terminated |-> FALSE, values |-> values]
Terminated(p) == [p EXCEPT !.terminated = TRUE]
Preview(p) == [p EXCEPT !.preview = TRUE]
Plain(s, u, sync) == DataPacket(s, u, sync, 100, <<0>>)

\* Levels of different lengths that cross, another start code, a higher
\* priority, data that does not wait and data that waits for no legal address.
Mergeable ==
  {DataPacket(s1, u1, y1, 1, v) : v \in {<<0, 1, 2>>, <<0, 2>>, <<1, 1>>}}
    \cup {DataPacket(s1, u1, y1, 2, <<0, 1>>), Plain(s1, u1, NoSync), Plain(s1, u1, bad)}

\* Data of one universe that waits, does not wait or ends the stream.
DataEnded ==
  {Plain(s, u1, y) : s \in Sources, y \in {NoSync, y1}}
    \cup {Terminated(Plain(s, u1, NoSync)) : s \in Sources}

\* A stream of a universe nobody listens to, and its end marked as a preview.
Unlistened == {Plain(s1, u1, NoSync), Preview(Terminated(Plain(s1, u1, NoSync)))}

\* Data of two sources that is held, so that recv goes on.
Held == {Plain(s, u1, y1) : s \in Sources}

DiscoveryPage(s, us, page, last) ==
  [src |-> s, universes |-> us, page |-> page, last_page |-> last]

\* Adverts of one and of two pages of s1, and the two pages of another source.
Adverts ==
  {DiscoveryPage(s1, {u1}, k[1], k[2]) : k \in {<<0, 0>>, <<0, 1>>, <<1, 1>>}}
    \cup {DiscoveryPage(s2, {u1}, k, 1) : k \in {0, 1}}

ListenU1 == {<<u1>>, <<u1, bad>>}
ListenU1Y1 == {<<u1, y1>>}
ListenDiscovery == {<<disc>>}
MuteDiscovery == {disc}
MuteOther == {u1, bad}
WaitingCalls == {"set_merge_fn", "clear_waiting_data", "set_ipv6_only"}
CallsBetween == {"announce_timeout", "is_multicast_enabled", "reset_sources", "drop"}
AnnounceCalls == {"announce_timeout"}
DiscoveryCalls ==
  {"get_discovered_sources", "announce_source_discovery", "announce_stream_termination",
   "process_preview_data", "reset_sources", "is_multicast_enabled"}
=============================================================================
