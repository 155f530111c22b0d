------------------------------ MODULE Packets ------------------------------
(***************************************************************************)
(* The packets of src/packet.rs, packed and parsed.  A datagram is a       *)
(* sequence of cells, one for each field whatever its width, and lengths   *)
(* count cells, so a layer of the code keeps its shape: a cell with flags  *)
(* and length, a vector, its fields, and the layer inside it.  Constant    *)
(* fields are one cell; a name, which has no null character, is its length.*)
(***************************************************************************)
EXTENDS Integers, Sequences, SequencesExt

CONSTANTS
  E131_SOURCE_NAME_FIELD_LENGTH, E131_MAX_PRIORITY,
  E131_MAX_MULTICAST_UNIVERSE, E131_DISCOVERY_UNIVERSE,
  UNIVERSE_CHANNEL_CAPACITY, DISCOVERY_UNI_PER_PAGE,
  E131_PDU_FLAGS   \* more than any length: flags and length share a cell

ASSUME PacketsAssumption ==
  /\ E131_SOURCE_NAME_FIELD_LENGTH \in Nat \ {0} /\ E131_MAX_PRIORITY \in Nat
  /\ E131_MAX_MULTICAST_UNIVERSE \in Nat \ {0}
  /\ E131_DISCOVERY_UNIVERSE \in Nat /\ E131_DISCOVERY_UNIVERSE > E131_MAX_MULTICAST_UNIVERSE
  /\ UNIVERSE_CHANNEL_CAPACITY \in Nat \ {0} /\ DISCOVERY_UNI_PER_PAGE \in Nat \ {0}
  /\ E131_PDU_FLAGS \in Nat
  /\ E131_PDU_FLAGS > 20 + UNIVERSE_CHANNEL_CAPACITY + DISCOVERY_UNI_PER_PAGE

VECTOR_ROOT_E131_DATA == 4
VECTOR_ROOT_E131_EXTENDED == 8
VECTOR_E131_EXTENDED_SYNCHRONIZATION == 1
VECTOR_E131_EXTENDED_DISCOVERY == 2
VECTOR_E131_DATA_PACKET == 2
VECTOR_DMP_SET_PROPERTY == 2
VECTOR_UNIVERSE_DISCOVERY_UNIVERSE_LIST == 1
ROOT_PREAMBLE == 16
DMP_HEADER == 161    \* address and data type, first property address, increment
Reserved == 0

-----------------------------------------------------------------------------
(* pack *)

Layer(vector, body) == <<E131_PDU_FLAGS + Len(body) + 2, vector>> \o body

\* Mutant of Options: each option overwrites those before it.
Options_overwritten(p) == IF p.terminated THEN 1 ELSE IF p.preview THEN 2 ELSE 0

Options(p) == (IF p.preview THEN 2 ELSE 0) + (IF p.terminated THEN 1 ELSE 0)

Dmp(values) == Layer(VECTOR_DMP_SET_PROPERTY, <<DMP_HEADER, Len(values)>> \o values)

DataFraming(p) ==
  Layer(VECTOR_E131_DATA_PACKET,
        <<p.name, p.priority, p.sync, p.seq, Options(p), p.universe>> \o Dmp(p.values))

SyncFraming(p) == Layer(VECTOR_E131_EXTENDED_SYNCHRONIZATION, <<p.seq, p.sync, Reserved>>)

UniverseDiscovery(p) ==
  Layer(VECTOR_UNIVERSE_DISCOVERY_UNIVERSE_LIST, <<p.page, p.last_page>> \o p.universes)

DiscoveryFraming(p) ==
  Layer(VECTOR_E131_EXTENDED_DISCOVERY, <<p.name, Reserved>> \o UniverseDiscovery(p))

Framing(p) ==
  CASE p.kind = "data"      -> DataFraming(p)
    [] p.kind = "sync"      -> SyncFraming(p)
    [] p.kind = "discovery" -> DiscoveryFraming(p)

pack(p) ==
  <<ROOT_PREAMBLE>> \o
    Layer(IF p.kind = "data" THEN VECTOR_ROOT_E131_DATA ELSE VECTOR_ROOT_E131_EXTENDED,
          <<p.cid>> \o Framing(p))

Ascending(us) == \A i \in 1 .. Len(us) - 1 : us[i] < us[i + 1]

\* Whether pack returns Ok.
Packs(p) ==
  CASE p.kind = "data" -> Len(p.values) <= UNIVERSE_CHANNEL_CAPACITY
    [] p.kind = "sync" -> TRUE
    [] p.kind = "discovery" -> Len(p.universes) <= DISCOVERY_UNI_PER_PAGE /\ Ascending(p.universes)

-----------------------------------------------------------------------------
(* parse: the packet, or Refused for whatever ParsePacketError. *)

Refused == [kind |-> "refused"]

length(b) == b[1] - E131_PDU_FLAGS

\* The flags are right and, as every caller checks next, the length is there.
pdu_info(b) == Len(b) >= 2 /\ b[1] >= E131_PDU_FLAGS /\ Len(b) >= length(b)

Pdu(b) == SubSeq(b, 1, length(b))

\* The name is followed by a null character.
parse_source_name_str(name) == name < E131_SOURCE_NAME_FIELD_LENGTH

\* Mutant of MulticastUniverse: the universe of adverts is admitted.
MulticastUniverse_adverts(u) ==
  u \in 1 .. E131_MAX_MULTICAST_UNIVERSE \/ u = E131_DISCOVERY_UNIVERSE

MulticastUniverse(u) == u \in 1 .. E131_MAX_MULTICAST_UNIVERSE

\* The property values of the layer.
DmpAccepted(b) ==
  /\ pdu_info(b) /\ b[2] = VECTOR_DMP_SET_PROPERTY /\ b[3] = DMP_HEADER
  /\ b[4] + 4 = length(b) /\ b[4] <= UNIVERSE_CHANNEL_CAPACITY
property_values(b) == SubSeq(b, 5, length(b))

parse_data(cid, b) ==
  LET inner == SubSeq(b, 9, length(b)) IN
  IF /\ pdu_info(b) /\ b[2] = VECTOR_E131_DATA_PACKET
     /\ parse_source_name_str(b[3])
     /\ b[4] <= E131_MAX_PRIORITY
     /\ b[5] <= E131_MAX_MULTICAST_UNIVERSE
     /\ MulticastUniverse(b[8])
     /\ DmpAccepted(inner)
  THEN [kind |-> "data", cid |-> cid, name |-> b[3], priority |-> b[4], sync |-> b[5],
        seq |-> b[6], preview |-> b[7] \div 2 = 1, terminated |-> b[7] % 2 = 1,
        universe |-> b[8], values |-> property_values(inner)]
  ELSE Refused

parse_sync(cid, b) ==
  IF length(b) = 5 /\ MulticastUniverse(b[4])
  THEN [kind |-> "sync", cid |-> cid, seq |-> b[3], sync |-> b[4]]
  ELSE Refused

parse_universe_list(us) == Ascending(us)

\* The layer must fill what it was given.
parse_universe_discovery(b) ==
  /\ pdu_info(b) /\ Len(b) = length(b)
  /\ b[2] = VECTOR_UNIVERSE_DISCOVERY_UNIVERSE_LIST
  /\ length(b) - 4 \in 0 .. DISCOVERY_UNI_PER_PAGE
  /\ b[3] <= b[4]
  /\ parse_universe_list(SubSeq(b, 5, Len(b)))

parse_discovery(cid, b) ==
  LET inner == SubSeq(b, 5, length(b)) IN
  IF length(b) >= 8 /\ parse_source_name_str(b[3]) /\ parse_universe_discovery(inner)
  THEN [kind |-> "discovery", cid |-> cid, name |-> b[3], page |-> inner[3],
        last_page |-> inner[4], universes |-> SubSeq(inner, 5, Len(inner))]
  ELSE Refused

\* E131RootLayer: what follows the CID goes to the parser its vectors name.
parse_root(b) ==
  LET inner == SubSeq(Pdu(b), 4, Len(Pdu(b))) IN
  IF ~ pdu_info(b) THEN Refused
  ELSE CASE b[2] = VECTOR_ROOT_E131_DATA -> parse_data(b[3], inner)
         [] b[2] = VECTOR_ROOT_E131_EXTENDED ->
              IF ~ pdu_info(inner) THEN Refused
              ELSE IF inner[2] = VECTOR_E131_EXTENDED_SYNCHRONIZATION THEN parse_sync(b[3], inner)
              ELSE IF inner[2] = VECTOR_E131_EXTENDED_DISCOVERY THEN parse_discovery(b[3], inner)
              ELSE Refused
         [] OTHER -> Refused

parse(b) == IF b[1] = ROOT_PREAMBLE THEN parse_root(Tail(b)) ELSE Refused
=============================================================================
