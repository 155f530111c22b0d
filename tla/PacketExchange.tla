--------------------------- MODULE PacketExchange ---------------------------
(***************************************************************************)
(* From a call of the source to what recv makes of its datagrams: the user *)
(* sets the CID, name and preview mode that go into every packet, send     *)
(* splits the data over its universes, adverts are cut into pages, every   *)
(* packet is packed, and the receiver parses its whole buffer, in which a  *)
(* datagram is followed by zeros: recv clears it before every read.  The   *)
(* network may lose, repeat and reorder datagrams.                         *)
(***************************************************************************)
EXTENDS Packets, FiniteSetsExt

CONSTANTS
  Cids, Names,        \* what the source is called; a name is its length
  DataLists,          \* the data send is called with
  UniverseLists,      \* the universes send is called with
  SyncAddresses,      \* the synchronisation addresses, 0 for none
  Priorities,         \* the priorities send is called with
  Registered,         \* the sets of universes adverts are about
  E131_DEFAULT_PRIORITY

\* Numbers are never negative; empty data and universe 0, which send and the
\* registration of universes refuse, are in Source.
ASSUME SourceAssumption ==
  /\ Cids \subseteq Nat /\ Names \subseteq Nat /\ Priorities \subseteq Nat /\ SyncAddresses \subseteq Nat
  /\ DataLists \subseteq Seq(Nat) \ {<<>>} /\ UniverseLists \subseteq Seq(Nat \ {0})
  /\ \A us \in Registered : us \subseteq Nat /\ IsFiniteSet(us)
  /\ E131_DEFAULT_PRIORITY \in 0 .. E131_MAX_PRIORITY

VARIABLES
  source,    \* its cid, name and preview_data
  sent,      \* the packets of the last call
  call,      \* history: what the last call was to send
  parsed     \* what the receiver made of the datagram received last

vars == <<source, sent, call, parsed>>

NothingYet == [kind |-> "none"]
RefusedCall == [kind |-> "refused"]

\* with_cid_ip and set_name: as long as the field, though a name that long
\* leaves no room for the null character.
Nameable(name) == name <= E131_SOURCE_NAME_FIELD_LENGTH

\* RCV_BUF_DEFAULT_SIZE: the longest packet just fits.
BufferSize == Max({16 + UNIVERSE_CHANNEL_CAPACITY, 12 + DISCOVERY_UNI_PER_PAGE})

Init ==
  /\ \E cid \in Cids, name \in Names :
       Nameable(name) /\ source = [cid |-> cid, name |-> name, preview |-> FALSE]
  /\ sent = <<>> /\ call = NothingYet /\ parsed = NothingYet

-----------------------------------------------------------------------------
(* The source. *)

\* Mutant of Chunks: what does not fill a universe is not counted.
Chunks_floor(n) == n \div UNIVERSE_CHANNEL_CAPACITY

\* ceil(n / UNIVERSE_CHANNEL_CAPACITY)
Chunks(n) == (n + UNIVERSE_CHANNEL_CAPACITY - 1) \div UNIVERSE_CHANNEL_CAPACITY

\* The i-th part of s, counted from 0, in parts of the given size.
Part(s, i, size) == SubSeq(s, i * size + 1, Min({(i + 1) * size, Len(s)}))

\* Mutant of Chunk: one value more than fits.
Chunk_long(data, i) == Part(data, i, UNIVERSE_CHANNEL_CAPACITY + 1)

Chunk(data, i) == Part(data, i, UNIVERSE_CHANNEL_CAPACITY)

DataPacket(universe, priority, sync, terminated, values) ==
  [kind |-> "data", cid |-> source.cid, name |-> source.name, priority |-> priority, sync |-> sync,
   seq |-> 0, preview |-> source.preview, terminated |-> terminated, universe |-> universe, values |-> values]

Send(c, packets) ==
  /\ call' = c /\ sent' = packets
  /\ UNCHANGED <<source, parsed>>

\* send, when its universes are registered; sequence numbers are in Source.
send(us, data, priority, sync) ==
  IF Chunks(Len(data)) <= Len(us) /\ priority <= E131_MAX_PRIORITY
  THEN Send([kind |-> "send", universes |-> us, data |-> data],
            [i \in 1 .. Chunks(Len(data)) |->
               DataPacket(us[i], priority, sync, FALSE, Chunk(data, i - 1))])
  ELSE Send(RefusedCall, <<>>)

send_sync_packet(universe) ==
  Send(NothingYet, <<[kind |-> "sync", cid |-> source.cid, seq |-> 0, sync |-> universe]>>)

send_terminate_stream_pkt(universe) ==
  Send(NothingYet, <<DataPacket(universe, E131_DEFAULT_PRIORITY, 0, TRUE, <<0>>)>>)

\* send_universe_discovery: pages of the sorted list, the last one maybe empty.
send_universe_discovery(us) ==
  LET pages_req == Cardinality(us) \div DISCOVERY_UNI_PER_PAGE + 1 IN
  \E list \in [1 .. Cardinality(us) -> us] :
    /\ \A i, j \in DOMAIN list : i < j => list[i] < list[j]
    /\ Send([kind |-> "advert", universes |-> us],
            [i \in 1 .. pages_req |->
               [kind |-> "discovery", cid |-> source.cid, name |-> source.name, page |-> i - 1,
                last_page |-> pages_req - 1, universes |-> Part(list, i - 1, DISCOVERY_UNI_PER_PAGE)]])

Set(settings) ==
  /\ source' = settings
  /\ call' = NothingYet /\ sent' = <<>>
  /\ UNCHANGED parsed

set_cid(cid) == Set([source EXCEPT !.cid = cid])

set_name(name) ==
  IF Nameable(name) THEN Set([source EXCEPT !.name = name]) ELSE Send(RefusedCall, <<>>)

set_preview_mode(preview_mode) == Set([source EXCEPT !.preview = preview_mode])

-----------------------------------------------------------------------------
(* The receiver. *)

\* Every round of recv clears the buffer before the socket writes a datagram
\* over its beginning.
Buffered(d) == [i \in 1 .. BufferSize |-> IF i <= Len(d) THEN d[i] ELSE 0]

\* The whole buffer is parsed, whatever the length of the datagram.
Receive(p) ==
  /\ parsed' = parse(Buffered(pack(p)))
  /\ UNCHANGED <<source, sent, call>>

Next ==
  \/ \E us \in UniverseLists, data \in DataLists, priority \in Priorities, sync \in SyncAddresses :
       send(us, data, priority, sync)
  \/ \E u \in SyncAddresses \ {0} : send_sync_packet(u) \/ send_terminate_stream_pkt(u)
  \/ \E us \in Registered : send_universe_discovery(us)
  \/ \E cid \in Cids : set_cid(cid)
  \/ \E name \in Names : set_name(name)
  \/ \E preview_mode \in BOOLEAN : set_preview_mode(preview_mode)
  \/ \E i \in DOMAIN sent : Receive(sent[i])

Spec == Init /\ [][Next]_vars

-----------------------------------------------------------------------------

\* Whatever recv is given is within the limits the rest of the receiver relies
\* on: universes that are no addresses of adverts, pages up to the last, lists
\* that ascend strictly.
TypeOK ==
  /\ parsed.kind \in {"none", "refused", "data", "sync", "discovery"}
  /\ parsed.kind = "data" =>
       /\ parsed.universe \in 1 .. E131_MAX_MULTICAST_UNIVERSE
       /\ parsed.sync \in 0 .. E131_MAX_MULTICAST_UNIVERSE
       /\ parsed.priority \in 0 .. E131_MAX_PRIORITY
       /\ Len(parsed.values) <= UNIVERSE_CHANNEL_CAPACITY
  /\ parsed.kind = "sync" => parsed.sync \in 1 .. E131_MAX_MULTICAST_UNIVERSE
  /\ parsed.kind = "discovery" => parsed.page <= parsed.last_page /\ Ascending(parsed.universes)

\* send and terminate_stream unwrap the result of pack: no data, however long
\* and however it splits, and no advert makes a packet that cannot be packed.
PackNeverFails == \A i \in DOMAIN sent : Packs(sent[i])

\* The packets of a call carry all of it, in order and once: the data of send
\* over its universes, and the universes of an advert over its pages, also
\* when the last universe or page is exactly full.
CallIsCovered ==
  /\ call.kind = "send" =>
       /\ FlattenSeq([i \in DOMAIN sent |-> sent[i].values]) = call.data
       /\ \A i \in DOMAIN sent : sent[i].universe = call.universes[i]
  /\ call.kind = "advert" =>
       /\ UNION {ToSet(sent[i].universes) : i \in DOMAIN sent} = call.universes
       /\ \A i \in DOMAIN sent : sent[i].page = i - 1 /\ sent[i].last_page = Len(sent) - 1

\* What a receiver of this library can take: a name with room for the null
\* character, and no universe kept for adverts.  send lets no other priority
\* out than those in range.
Acceptable(p) ==
  /\ p.kind # "sync" => p.name < E131_SOURCE_NAME_FIELD_LENGTH
  /\ p.kind # "discovery" => p.sync <= E131_MAX_MULTICAST_UNIVERSE
  /\ p.kind = "data" => p.universe <= E131_MAX_MULTICAST_UNIVERSE

\* A datagram is understood exactly as it was meant, also when most of the
\* buffer that is parsed are the zeros behind it, and only those that are not
\* acceptable are refused.
UnderstoodAsSent ==
  [][\A i \in DOMAIN sent :
       Receive(sent[i]) => parsed' = IF Acceptable(sent[i]) THEN sent[i] ELSE Refused]_vars
=============================================================================
