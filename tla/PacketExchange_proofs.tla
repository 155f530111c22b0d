------------------------ MODULE PacketExchange_proofs ------------------------
(***************************************************************************)
(* Theorems about PacketExchange, for every width, capacity and call: what *)
(* a source sends can be packed, is parsed as it was meant, and whatever   *)
(* is parsed is within the limits.                                         *)
(***************************************************************************)
EXTENDS PacketExchange, SequenceTheorems, FiniteSetTheorems, WellFoundedInduction, TLAPS

-----------------------------------------------------------------------------
(* Layers. *)

\* A layer is its body behind a cell with its length and one with its vector,
\* and is what pdu_info and length of packet.rs take it for.
LEMMA LayerRead ==
  ASSUME NEW vector \in Nat, NEW body \in Seq(Nat)
  PROVE  LET b == Layer(vector, body) IN
         /\ b \in Seq(Nat) /\ Len(b) = Len(body) + 2
         /\ length(b) = Len(b) /\ pdu_info(b) /\ b[2] = vector
         /\ \A i \in 1 .. Len(body) : b[i + 2] = body[i]
<1>. DEFINE head == <<E131_PDU_FLAGS + Len(body) + 2, vector>>
            b == Layer(vector, body)
<1>1. E131_PDU_FLAGS \in Nat /\ Len(body) \in Nat
  BY PacketsAssumption, LenProperties
<1>2. head \in Seq(Nat) /\ Len(head) = 2
      /\ head[1] = E131_PDU_FLAGS + Len(body) + 2 /\ head[2] = vector
  BY <1>1
<1>3. b = head \o body
  BY DEF Layer
<1>. HIDE DEF head, b
<1>4. b \in Seq(Nat) /\ Len(b) = Len(body) + 2
      /\ b[1] = E131_PDU_FLAGS + Len(body) + 2 /\ b[2] = vector
      /\ \A i \in 1 .. Len(body) : b[i + 2] = body[i]
  <2>1. b \in Seq(Nat) /\ Len(b) = Len(head) + Len(body)
        /\ \A i \in 1 .. Len(head) + Len(body) :
             b[i] = IF i <= Len(head) THEN head[i] ELSE body[i - Len(head)]
    BY <1>2, <1>3, ConcatProperties
  <2>2. ASSUME NEW i \in 1 .. Len(body)
        PROVE  b[i + 2] = body[i]
    <3>1. i + 2 \in 1 .. Len(head) + Len(body) /\ ~ (i + 2 <= Len(head)) /\ (i + 2) - Len(head) = i
      BY <1>1, <1>2
    <3>. QED BY <2>1, <3>1
  <2>. QED BY <1>1, <1>2, <2>1, <2>2
<1>5. length(b) = Len(b) /\ pdu_info(b)
  BY <1>1, <1>4 DEF length, pdu_info
<1>. QED BY <1>4, <1>5 DEF b

\* What follows the first cells of a layer's body is cut out whole.
LEMMA InnerRead ==
  ASSUME NEW vector \in Nat, NEW h \in Seq(Nat), NEW t \in Seq(Nat)
  PROVE  SubSeq(Layer(vector, h \o t), Len(h) + 3, Len(h) + Len(t) + 2) = t
<1>. DEFINE b == Layer(vector, h \o t)
            s == SubSeq(b, Len(h) + 3, Len(h) + Len(t) + 2)
<1>1. h \o t \in Seq(Nat) /\ Len(h \o t) = Len(h) + Len(t)
      /\ \A i \in 1 .. Len(h) + Len(t) : (h \o t)[i] = IF i <= Len(h) THEN h[i] ELSE t[i - Len(h)]
  BY ConcatProperties
<1>2. b \in Seq(Nat) /\ Len(b) = Len(h) + Len(t) + 2
      /\ \A i \in 1 .. Len(h) + Len(t) : b[i + 2] = (h \o t)[i]
  <2>. DEFINE body == h \o t
  <2>1. body \in Seq(Nat) /\ Len(body) = Len(h) + Len(t)
    BY <1>1
  <2>. HIDE DEF body
  <2>2. LET c == Layer(vector, body) IN
        c \in Seq(Nat) /\ Len(c) = Len(body) + 2 /\ \A i \in 1 .. Len(body) : c[i + 2] = body[i]
    BY <2>1, LayerRead
  <2>. QED BY <2>1, <2>2 DEF body
<1>3. Len(h) \in Nat /\ Len(t) \in Nat
  BY LenProperties
<1>. HIDE DEF b
<1>4. s \in Seq(Nat) /\ Len(s) = Len(t)
      /\ \A i \in 1 .. Len(t) : s[i] = b[i + Len(h) + 2]
  <2>1. \A i \in Len(h) + 3 .. Len(h) + Len(t) + 2 : b[i] \in Nat
    <3>1. \A i \in 1 .. Len(b) : b[i] \in Nat
      BY <1>2, ElementOfSeq
    <3>. QED BY <1>2, <1>3, <3>1
  <2>2. /\ s \in Seq(Nat)
        /\ Len(s) = IF Len(h) + 3 <= Len(h) + Len(t) + 2
                    THEN (Len(h) + Len(t) + 2) - (Len(h) + 3) + 1 ELSE 0
        /\ \A i \in 1 .. (Len(h) + Len(t) + 2) - (Len(h) + 3) + 1 : s[i] = b[(Len(h) + 3) + i - 1]
    <3>1. Len(h) + 3 \in Int /\ Len(h) + Len(t) + 2 \in Int
      BY <1>3
    <3>. QED BY <2>1, <3>1, SubSeqProperties
  <2>3. (Len(h) + Len(t) + 2) - (Len(h) + 3) + 1 = Len(t)
    BY <1>3
  <2>4. \A i \in 1 .. Len(t) : (Len(h) + 3) + i - 1 = i + Len(h) + 2
    BY <1>3
  <2>. QED BY <1>3, <2>2, <2>3, <2>4
<1>. HIDE DEF s
<1>5. \A i \in 1 .. Len(t) : s[i] = t[i]
  <2>1. ASSUME NEW i \in 1 .. Len(t)
        PROVE  s[i] = t[i]
    <3>1. i + Len(h) \in 1 .. Len(h) + Len(t) /\ ~ (i + Len(h) <= Len(h)) /\ (i + Len(h)) - Len(h) = i
      BY <1>3
    <3>2. (h \o t)[i + Len(h)] = t[i]
      BY <1>1, <3>1
    <3>3. b[(i + Len(h)) + 2] = (h \o t)[i + Len(h)]
      BY <1>2, <3>1
    <3>. QED BY <1>3, <1>4, <3>2, <3>3
  <2>. QED BY <2>1
<1>6. s = t
  BY <1>4, <1>5, SeqEqual
<1>. QED BY <1>6 DEF b, s

\* A layer whose body begins with h, as its parser reads it.
LEMMA LayerWith ==
  ASSUME NEW vector \in Nat, NEW h \in Seq(Nat), NEW t \in Seq(Nat)
  PROVE  LET b == Layer(vector, h \o t) IN
         /\ b \in Seq(Nat) /\ Len(b) = Len(h) + Len(t) + 2
         /\ length(b) = Len(b) /\ pdu_info(b) /\ b[2] = vector
         /\ \A i \in 1 .. Len(h) : b[i + 2] = h[i]
         /\ SubSeq(b, Len(h) + 3, Len(b)) = t
<1>. DEFINE body == h \o t
            b == Layer(vector, body)
<1>1. /\ body \in Seq(Nat) /\ Len(body) = Len(h) + Len(t)
      /\ \A i \in 1 .. Len(h) + Len(t) : body[i] = IF i <= Len(h) THEN h[i] ELSE t[i - Len(h)]
  BY ConcatProperties
<1>2. Len(h) \in Nat /\ Len(t) \in Nat
  BY LenProperties
<1>3. SubSeq(b, Len(h) + 3, Len(h) + Len(t) + 2) = t
  BY InnerRead
<1>. HIDE DEF body
<1>4. /\ b \in Seq(Nat) /\ Len(b) = Len(body) + 2
      /\ length(b) = Len(b) /\ pdu_info(b) /\ b[2] = vector
      /\ \A i \in 1 .. Len(body) : b[i + 2] = body[i]
  BY <1>1, LayerRead
<1>. HIDE DEF b
<1>5. ASSUME NEW i \in 1 .. Len(h)
      PROVE  b[i + 2] = h[i]
  <2>1. i \in 1 .. Len(h) + Len(t) /\ i <= Len(h)
    BY <1>2
  <2>. QED BY <1>1, <1>4, <2>1
<1>6. Len(b) = Len(h) + Len(t) + 2
  BY <1>1, <1>4
<1>. QED BY <1>3, <1>4, <1>5, <1>6 DEF b, body

-----------------------------------------------------------------------------
(* Packets. *)

DataPackets ==
  [kind : {"data"}, cid : Nat, name : Nat, priority : 0 .. E131_MAX_PRIORITY, sync : Nat,
   seq : Nat, preview : BOOLEAN, terminated : BOOLEAN, universe : Nat \ {0}, values : Seq(Nat)]

SyncPackets == [kind : {"sync"}, cid : Nat, seq : Nat, sync : Nat \ {0}]

DiscoveryPackets ==
  [kind : {"discovery"}, cid : Nat, name : Nat, page : Nat, last_page : Nat, universes : Seq(Nat)]

\* What a source makes of its calls.
Sendable(p) ==
  /\ \/ p \in DataPackets
     \/ p \in SyncPackets
     \/ p \in DiscoveryPackets /\ p.page <= p.last_page
  /\ Packs(p)

\* The property values are parsed as they were packed.
LEMMA DmpParsed ==
  ASSUME NEW values \in Seq(Nat), Len(values) <= UNIVERSE_CHANNEL_CAPACITY
  PROVE  /\ Dmp(values) \in Seq(Nat) /\ Len(Dmp(values)) = Len(values) + 4
         /\ DmpAccepted(Dmp(values))
         /\ property_values(Dmp(values)) = values
<1>. DEFINE h == <<DMP_HEADER, Len(values)>>
            b == Dmp(values)
<1>1. Len(values) \in Nat /\ DMP_HEADER = 161
  BY LenProperties DEF DMP_HEADER
<1>2. h \in Seq(Nat) /\ Len(h) = 2 /\ h[1] = DMP_HEADER /\ h[2] = Len(values)
  BY <1>1
<1>. HIDE DEF h
<1>3. /\ b \in Seq(Nat) /\ Len(b) = Len(h) + Len(values) + 2
      /\ length(b) = Len(b) /\ pdu_info(b) /\ b[2] = VECTOR_DMP_SET_PROPERTY
      /\ \A i \in 1 .. Len(h) : b[i + 2] = h[i]
      /\ SubSeq(b, Len(h) + 3, Len(b)) = values
  BY <1>2, LayerWith DEF h, Dmp, VECTOR_DMP_SET_PROPERTY
<1>. HIDE DEF b
<1>4. b[1 + 2] = h[1] /\ b[2 + 2] = h[2]
  BY <1>2, <1>3
<1>5. b[3] = DMP_HEADER /\ b[4] = Len(values) /\ Len(b) = Len(values) + 4
  BY <1>1, <1>2, <1>3, <1>4
<1>6. DmpAccepted(b)
  BY <1>1, <1>3, <1>5 DEF DmpAccepted
<1>7. property_values(b) = values
  BY <1>2, <1>3 DEF property_values
<1>. QED BY <1>3, <1>5, <1>6, <1>7 DEF b

\* Each bit of the options is parsed as it was packed.
LEMMA OptionsParsed ==
  ASSUME NEW p \in DataPackets
  PROVE  /\ Options(p) \in Nat
         /\ (Options(p) \div 2 = 1) <=> p.preview
         /\ (Options(p) % 2 = 1) <=> p.terminated
<1>1. p.preview \in BOOLEAN /\ p.terminated \in BOOLEAN
  BY DEF DataPackets
<1>2. Options(p) = (IF p.preview THEN 2 ELSE 0) + (IF p.terminated THEN 1 ELSE 0)
  BY DEF Options
<1>. QED BY <1>1, <1>2

\* A data packet is parsed as it was meant, or refused for its name, its
\* synchronisation address or its universe.
LEMMA DataParsed ==
  ASSUME NEW p \in DataPackets, Packs(p)
  PROVE  /\ DataFraming(p) \in Seq(Nat) /\ Len(DataFraming(p)) = Len(p.values) + 12
         /\ parse_data(p.cid, DataFraming(p)) = IF Acceptable(p) THEN p ELSE Refused
<1>. DEFINE h == <<p.name, p.priority, p.sync, p.seq, Options(p), p.universe>>
            t == Dmp(p.values)
            b == DataFraming(p)
<1>0. b = Layer(2, h \o t) /\ VECTOR_E131_DATA_PACKET = 2
  BY DEF DataFraming, VECTOR_E131_DATA_PACKET
<1>1. /\ p.kind = "data" /\ p.name \in Nat /\ p.priority \in 0 .. E131_MAX_PRIORITY /\ p.sync \in Nat
      /\ p.seq \in Nat /\ p.universe \in Nat \ {0} /\ p.values \in Seq(Nat) /\ Len(p.values) \in Nat
      /\ Len(p.values) <= UNIVERSE_CHANNEL_CAPACITY /\ p.priority \in Nat /\ p.priority <= E131_MAX_PRIORITY
  <2>1. /\ p.kind = "data" /\ p.name \in Nat /\ p.priority \in 0 .. E131_MAX_PRIORITY /\ p.sync \in Nat
        /\ p.seq \in Nat /\ p.universe \in Nat \ {0} /\ p.values \in Seq(Nat)
    BY DEF DataPackets
  <2>2. Len(p.values) <= UNIVERSE_CHANNEL_CAPACITY
    BY <2>1 DEF Packs
  <2>. QED BY <2>1, <2>2, PacketsAssumption, LenProperties
<1>2. Options(p) \in Nat
  BY OptionsParsed
<1>3. /\ h \in Seq(Nat) /\ Len(h) = 6
      /\ h[1] = p.name /\ h[2] = p.priority /\ h[3] = p.sync /\ h[4] = p.seq
      /\ h[5] = Options(p) /\ h[6] = p.universe
  BY <1>1, <1>2
<1>4. /\ t \in Seq(Nat) /\ Len(t) = Len(p.values) + 4
      /\ DmpAccepted(t) /\ property_values(t) = p.values
  BY <1>1, DmpParsed
<1>. HIDE DEF h, t, b
<1>5. /\ b \in Seq(Nat) /\ Len(b) = Len(h) + Len(t) + 2
      /\ length(b) = Len(b) /\ pdu_info(b) /\ b[2] = VECTOR_E131_DATA_PACKET
      /\ \A i \in 1 .. Len(h) : b[i + 2] = h[i]
      /\ SubSeq(b, Len(h) + 3, Len(b)) = t
  <2>1. 2 \in Nat
    OBVIOUS
  <2>2. LET c == Layer(2, h \o t) IN
        /\ c \in Seq(Nat) /\ Len(c) = Len(h) + Len(t) + 2
        /\ length(c) = Len(c) /\ pdu_info(c) /\ c[2] = 2
        /\ \A i \in 1 .. Len(h) : c[i + 2] = h[i]
        /\ SubSeq(c, Len(h) + 3, Len(c)) = t
    BY <1>3, <1>4, <2>1, LayerWith
  <2>. QED BY <1>0, <2>2
<1>6. Len(b) = Len(p.values) + 12
  BY <1>1, <1>3, <1>4, <1>5
<1>7. /\ b[1 + 2] = h[1] /\ b[2 + 2] = h[2] /\ b[3 + 2] = h[3]
      /\ b[4 + 2] = h[4] /\ b[5 + 2] = h[5] /\ b[6 + 2] = h[6]
  <2>1. \A i \in {1, 2, 3, 4, 5, 6} : i \in 1 .. Len(h)
    BY <1>3
  <2>. QED BY <1>5, <2>1
<1>8. /\ b[3] = p.name /\ b[4] = p.priority /\ b[5] = p.sync /\ b[6] = p.seq
      /\ b[7] = Options(p) /\ b[8] = p.universe /\ SubSeq(b, 9, length(b)) = t
  BY <1>3, <1>5, <1>7
<1>9. CASE Acceptable(p)
  <2>1. p.name < E131_SOURCE_NAME_FIELD_LENGTH /\ p.sync <= E131_MAX_MULTICAST_UNIVERSE
        /\ MulticastUniverse(p.universe)
    BY <1>1, <1>9, PacketsAssumption DEF Acceptable, MulticastUniverse
  <2>2. parse_data(p.cid, b) =
          [kind |-> "data", cid |-> p.cid, name |-> b[3], priority |-> b[4], sync |-> b[5],
           seq |-> b[6], preview |-> b[7] \div 2 = 1, terminated |-> b[7] % 2 = 1,
           universe |-> b[8], values |-> property_values(t)]
    BY <1>1, <1>4, <1>5, <1>8, <2>1 DEF parse_data, parse_source_name_str
  <2>3. (b[7] \div 2 = 1) = p.preview /\ (b[7] % 2 = 1) = p.terminated
    <3>1. p.preview \in BOOLEAN /\ p.terminated \in BOOLEAN
      BY DEF DataPackets
    <3>. QED BY <1>8, <3>1, OptionsParsed
  <2>4. parse_data(p.cid, b) =
          [kind |-> p.kind, cid |-> p.cid, name |-> p.name, priority |-> p.priority, sync |-> p.sync,
           seq |-> p.seq, preview |-> p.preview, terminated |-> p.terminated,
           universe |-> p.universe, values |-> p.values]
    BY <1>1, <1>4, <1>8, <2>2, <2>3
  <2>5. p = [kind |-> p.kind, cid |-> p.cid, name |-> p.name, priority |-> p.priority, sync |-> p.sync,
             seq |-> p.seq, preview |-> p.preview, terminated |-> p.terminated,
             universe |-> p.universe, values |-> p.values]
    BY DEF DataPackets
  <2>. QED BY <1>9, <2>4, <2>5, <1>5, <1>6 DEF b
<1>10. CASE ~ Acceptable(p)
  <2>1. ~ (/\ p.name < E131_SOURCE_NAME_FIELD_LENGTH /\ p.sync <= E131_MAX_MULTICAST_UNIVERSE
           /\ MulticastUniverse(p.universe))
    BY <1>1, <1>10, PacketsAssumption DEF Acceptable, MulticastUniverse
  <2>2. parse_data(p.cid, b) = Refused
    BY <1>8, <2>1 DEF parse_data, parse_source_name_str
  <2>. QED BY <1>10, <2>2, <1>5, <1>6 DEF b
<1>. QED BY <1>9, <1>10

\* The fields of a synchronisation packet are parsed as they were packed.
LEMMA SyncParsed ==
  ASSUME NEW p \in SyncPackets
  PROVE  LET b == SyncFraming(p) IN
         /\ b \in Seq(Nat) /\ Len(b) = 5
         /\ pdu_info(b) /\ b[2] = VECTOR_E131_EXTENDED_SYNCHRONIZATION
         /\ parse_sync(p.cid, b) = IF Acceptable(p) THEN p ELSE Refused
<1>. DEFINE h == <<p.seq, p.sync, Reserved>>
            b == SyncFraming(p)
<1>1. p.kind = "sync" /\ p.seq \in Nat /\ p.sync \in Nat \ {0}
  BY DEF SyncPackets
<1>2. b = Layer(1, h) /\ VECTOR_E131_EXTENDED_SYNCHRONIZATION = 1
  BY DEF SyncFraming, VECTOR_E131_EXTENDED_SYNCHRONIZATION
<1>3. h \in Seq(Nat) /\ Len(h) = 3 /\ h[1] = p.seq /\ h[2] = p.sync
  BY <1>1 DEF Reserved
<1>. HIDE DEF h, b
<1>4. /\ b \in Seq(Nat) /\ Len(b) = 5
      /\ length(b) = 5 /\ pdu_info(b) /\ b[2] = VECTOR_E131_EXTENDED_SYNCHRONIZATION
      /\ b[3] = p.seq /\ b[4] = p.sync
  <2>1. LET c == Layer(1, h) IN
        /\ c \in Seq(Nat) /\ Len(c) = Len(h) + 2
        /\ length(c) = Len(c) /\ pdu_info(c) /\ c[2] = 1
        /\ \A i \in 1 .. Len(h) : c[i + 2] = h[i]
    <3>1. 1 \in Nat
      OBVIOUS
    <3>. QED BY <1>3, <3>1, LayerRead
  <2>2. 1 \in 1 .. Len(h) /\ 2 \in 1 .. Len(h)
    BY <1>3
  <2>3. b[1 + 2] = h[1] /\ b[2 + 2] = h[2]
    BY <1>2, <2>1, <2>2
  <2>4. b[3] = p.seq /\ b[4] = p.sync
    BY <1>3, <2>3
  <2>5. Len(b) = 5 /\ length(b) = 5
    <3>1. Len(b) = Len(h) + 2 /\ length(b) = Len(b)
      BY <1>2, <2>1
    <3>. QED BY <1>3, <3>1
  <2>. QED BY <1>2, <2>1, <2>4, <2>5
<1>5. parse_sync(p.cid, b) = IF Acceptable(p) THEN p ELSE Refused
  <2>1. MulticastUniverse(b[4]) <=> Acceptable(p)
    BY <1>1, <1>4, PacketsAssumption DEF MulticastUniverse, Acceptable
  <2>2. p = [kind |-> "sync", cid |-> p.cid, seq |-> p.seq, sync |-> p.sync]
    BY DEF SyncPackets
  <2>. QED BY <1>4, <2>1, <2>2 DEF parse_sync
<1>. QED BY <1>4, <1>5 DEF b

\* An advert's page is parsed as it was packed, or refused for its name.
LEMMA DiscoveryParsed ==
  ASSUME NEW p \in DiscoveryPackets, Packs(p), p.page <= p.last_page
  PROVE  LET b == DiscoveryFraming(p) IN
         /\ b \in Seq(Nat) /\ Len(b) = Len(p.universes) + 8
         /\ pdu_info(b) /\ b[2] = VECTOR_E131_EXTENDED_DISCOVERY
         /\ parse_discovery(p.cid, b) = IF Acceptable(p) THEN p ELSE Refused
<1>. DEFINE g == <<p.page, p.last_page>>
            us == p.universes
            t == UniverseDiscovery(p)
            h == <<p.name, Reserved>>
            b == DiscoveryFraming(p)
<1>1. /\ p.kind = "discovery" /\ p.name \in Nat /\ p.page \in Nat /\ p.last_page \in Nat
      /\ p.universes \in Seq(Nat) /\ Len(p.universes) \in Nat
  BY LenProperties DEF DiscoveryPackets
<1>2. Len(p.universes) <= DISCOVERY_UNI_PER_PAGE /\ Ascending(p.universes)
  BY <1>1 DEF Packs
<1>3. t = Layer(1, g \o us) /\ b = Layer(2, h \o t)
      /\ VECTOR_UNIVERSE_DISCOVERY_UNIVERSE_LIST = 1 /\ VECTOR_E131_EXTENDED_DISCOVERY = 2
  BY DEF UniverseDiscovery, DiscoveryFraming, VECTOR_UNIVERSE_DISCOVERY_UNIVERSE_LIST,
         VECTOR_E131_EXTENDED_DISCOVERY
<1>4. g \in Seq(Nat) /\ Len(g) = 2 /\ g[1] = p.page /\ g[2] = p.last_page
  BY <1>1
<1>5. h \in Seq(Nat) /\ Len(h) = 2 /\ h[1] = p.name
  BY <1>1 DEF Reserved
<1>0. us \in Seq(Nat) /\ us = p.universes
  BY <1>1
<1>. HIDE DEF g, h, t, us, b
<1>6. /\ t \in Seq(Nat) /\ Len(t) = Len(p.universes) + 4
      /\ length(t) = Len(t) /\ pdu_info(t) /\ t[2] = 1
      /\ t[3] = p.page /\ t[4] = p.last_page /\ SubSeq(t, 5, Len(t)) = p.universes
  <2>1. LET c == Layer(1, g \o us) IN
        /\ c \in Seq(Nat) /\ Len(c) = Len(g) + Len(us) + 2
        /\ length(c) = Len(c) /\ pdu_info(c) /\ c[2] = 1
        /\ \A i \in 1 .. Len(g) : c[i + 2] = g[i]
        /\ SubSeq(c, Len(g) + 3, Len(c)) = us
    <3>1. 1 \in Nat
      OBVIOUS
    <3>. QED BY <1>0, <1>4, <3>1, LayerWith
  <2>2. 1 \in 1 .. Len(g) /\ 2 \in 1 .. Len(g)
    BY <1>4
  <2>3. t[1 + 2] = g[1] /\ t[2 + 2] = g[2]
    BY <1>3, <2>1, <2>2
  <2>4. Len(g) + Len(us) + 2 = Len(p.universes) + 4 /\ Len(g) + 3 = 5
    BY <1>0, <1>1, <1>4
  <2>. QED BY <1>0, <1>3, <1>4, <2>1, <2>3, <2>4
<1>7. /\ b \in Seq(Nat) /\ Len(b) = Len(p.universes) + 8
      /\ length(b) = Len(b) /\ pdu_info(b) /\ b[2] = 2
      /\ b[3] = p.name /\ SubSeq(b, 5, Len(b)) = t
  <2>1. LET c == Layer(2, h \o t) IN
        /\ c \in Seq(Nat) /\ Len(c) = Len(h) + Len(t) + 2
        /\ length(c) = Len(c) /\ pdu_info(c) /\ c[2] = 2
        /\ \A i \in 1 .. Len(h) : c[i + 2] = h[i]
        /\ SubSeq(c, Len(h) + 3, Len(c)) = t
    <3>1. 2 \in Nat
      OBVIOUS
    <3>. QED BY <1>5, <1>6, <3>1, LayerWith
  <2>2. 1 \in 1 .. Len(h)
    BY <1>5
  <2>3. b[1 + 2] = h[1]
    BY <1>3, <2>1, <2>2
  <2>4. Len(h) + Len(t) + 2 = Len(p.universes) + 8 /\ Len(h) + 3 = 5
    BY <1>1, <1>5, <1>6
  <2>. QED BY <1>3, <1>5, <2>1, <2>3, <2>4
<1>8. parse_universe_discovery(t)
  <2>1. length(t) - 4 \in 0 .. DISCOVERY_UNI_PER_PAGE
    BY <1>1, <1>2, <1>6, PacketsAssumption
  <2>. QED BY <1>2, <1>3, <1>6, <2>1 DEF parse_universe_discovery, parse_universe_list
<1>9. parse_discovery(p.cid, b) = IF Acceptable(p) THEN p ELSE Refused
  <2>1. parse_source_name_str(b[3]) <=> Acceptable(p)
    BY <1>1, <1>7 DEF parse_source_name_str, Acceptable
  <2>2. length(b) >= 8
    BY <1>1, <1>7
  <2>3. p = [kind |-> "discovery", cid |-> p.cid, name |-> b[3], page |-> t[3],
             last_page |-> t[4], universes |-> SubSeq(t, 5, Len(t))]
    BY <1>6, <1>7 DEF DiscoveryPackets
  <2>4. SubSeq(b, 5, length(b)) = t
    BY <1>7
  <2>. QED BY <1>8, <2>1, <2>2, <2>3, <2>4 DEF parse_discovery
<1>. QED BY <1>3, <1>7, <1>9 DEF b

RootVector(p) == IF p.kind = "data" THEN VECTOR_ROOT_E131_DATA ELSE VECTOR_ROOT_E131_EXTENDED

\* A root layer is parsed as it was packed, whatever cells follow it.
LEMMA RootParsed ==
  ASSUME NEW p, Sendable(p), NEW r \in Seq(Nat),
         LET root == Layer(RootVector(p), <<p.cid>> \o Framing(p)) IN
           Len(r) >= Len(root) /\ \A i \in 1 .. Len(root) : r[i] = root[i]
  PROVE  parse_root(r) = IF Acceptable(p) THEN p ELSE Refused
<1>. DEFINE v == RootVector(p)
            h == <<p.cid>>
            f == Framing(p)
            root == Layer(v, h \o f)
<1>1. p.cid \in Nat /\ p.kind \in {"data", "sync", "discovery"} /\ v \in Nat
  BY DEF Sendable, DataPackets, SyncPackets, DiscoveryPackets, RootVector,
         VECTOR_ROOT_E131_DATA, VECTOR_ROOT_E131_EXTENDED
<1>2. /\ f \in Seq(Nat) /\ (p.kind # "data" => pdu_info(f))
      /\ p.kind = "data" => p \in DataPackets /\ f = DataFraming(p)
      /\ p.kind = "sync" => p \in SyncPackets /\ f = SyncFraming(p)
      /\ p.kind = "discovery" =>
           p \in DiscoveryPackets /\ p.page <= p.last_page /\ f = DiscoveryFraming(p)
  <2>1. CASE p \in DataPackets
    <3>1. p.kind = "data"
      BY <2>1 DEF DataPackets
    <3>2. f = DataFraming(p)
      BY <3>1 DEF Framing
    <3>3. DataFraming(p) \in Seq(Nat)
      BY <2>1, DataParsed DEF Sendable
    <3>. QED BY <2>1, <3>1, <3>2, <3>3
  <2>2. CASE p \in SyncPackets
    <3>1. p.kind = "sync"
      BY <2>2 DEF SyncPackets
    <3>2. f = SyncFraming(p)
      BY <3>1 DEF Framing
    <3>3. SyncFraming(p) \in Seq(Nat) /\ pdu_info(SyncFraming(p))
      BY <2>2, SyncParsed
    <3>. QED BY <2>2, <3>1, <3>2, <3>3
  <2>3. CASE p \in DiscoveryPackets /\ p.page <= p.last_page
    <3>1. p.kind = "discovery"
      BY <2>3 DEF DiscoveryPackets
    <3>2. f = DiscoveryFraming(p)
      BY <3>1 DEF Framing
    <3>3. DiscoveryFraming(p) \in Seq(Nat) /\ pdu_info(DiscoveryFraming(p))
      BY <2>3, DiscoveryParsed DEF Sendable
    <3>. QED BY <2>3, <3>1, <3>2, <3>3
  <2>. QED BY <2>1, <2>2, <2>3 DEF Sendable
<1>3. h \in Seq(Nat) /\ Len(h) = 1 /\ h[1] = p.cid
  BY <1>1
<1>. HIDE DEF v, h, f
<1>4. /\ root \in Seq(Nat) /\ Len(root) = Len(h) + Len(f) + 2
      /\ length(root) = Len(root) /\ pdu_info(root) /\ root[2] = v
      /\ \A i \in 1 .. Len(h) : root[i + 2] = h[i]
      /\ SubSeq(root, Len(h) + 3, Len(root)) = f
  BY <1>1, <1>2, <1>3, LayerWith
<1>5. Len(r) >= Len(root) /\ \A i \in 1 .. Len(root) : r[i] = root[i]
  BY DEF v, h, f
<1>. HIDE DEF root
<1>6. Len(f) \in Nat /\ Len(root) = Len(f) + 3 /\ Len(root) \in Nat /\ Len(r) \in Nat
  BY <1>2, <1>3, <1>4, LenProperties
<1>7. root[3] = p.cid
  <2>1. 1 \in 1 .. Len(h)
    BY <1>3
  <2>2. root[1 + 2] = h[1]
    BY <1>4, <2>1
  <2>. QED BY <1>3, <2>2
<1>8. r[1] = root[1] /\ r[2] = v /\ r[3] = p.cid
  <2>1. 1 \in 1 .. Len(root) /\ 2 \in 1 .. Len(root) /\ 3 \in 1 .. Len(root)
    BY <1>6
  <2>. QED BY <1>4, <1>5, <1>7, <2>1
<1>9. length(r) = Len(root) /\ pdu_info(r)
  <2>1. length(r) = length(root)
    BY <1>8 DEF length
  <2>2. Len(r) >= 2 /\ r[1] >= E131_PDU_FLAGS
    BY <1>4, <1>5, <1>6, <1>8 DEF pdu_info
  <2>. QED BY <1>4, <1>5, <2>1, <2>2 DEF pdu_info
<1>10. Pdu(r) = root
  <2>. DEFINE s == SubSeq(r, 1, Len(root))
  <2>1. \A i \in 1 .. Len(root) : r[i] \in Nat
    BY <1>4, <1>5, ElementOfSeq
  <2>2. /\ s \in Seq(Nat) /\ Len(s) = IF 1 <= Len(root) THEN Len(root) - 1 + 1 ELSE 0
        /\ \A i \in 1 .. Len(root) - 1 + 1 : s[i] = r[1 + i - 1]
    <3>1. 1 \in Int /\ Len(root) \in Int
      BY <1>6
    <3>. QED BY <2>1, <3>1, SubSeqProperties
  <2>. HIDE DEF s
  <2>3. Len(s) = Len(root) /\ \A i \in 1 .. Len(s) : s[i] = root[i]
    <3>1. Len(s) = Len(root) /\ Len(root) - 1 + 1 = Len(root)
      BY <1>6, <2>2
    <3>2. ASSUME NEW i \in 1 .. Len(root)
          PROVE  s[i] = root[i]
      <4>1. 1 + i - 1 = i
        OBVIOUS
      <4>2. s[i] = r[1 + i - 1]
        BY <2>2, <3>1
      <4>. QED BY <1>5, <4>1, <4>2
    <3>. QED BY <3>1, <3>2
  <2>4. s = root
    BY <1>4, <2>2, <2>3, SeqEqual
  <2>. QED BY <1>9, <2>4 DEF Pdu, s
<1>11. SubSeq(Pdu(r), 4, Len(Pdu(r))) = f
  <2>1. Len(h) + 3 = 4
    BY <1>3
  <2>. QED BY <1>4, <1>10, <2>1
<1>12. CASE p.kind = "data"
  <2>1. parse_data(p.cid, f) = IF Acceptable(p) THEN p ELSE Refused
    BY <1>2, <1>12, DataParsed DEF Sendable
  <2>2. r[2] = VECTOR_ROOT_E131_DATA /\ VECTOR_ROOT_E131_EXTENDED # VECTOR_ROOT_E131_DATA
    BY <1>8, <1>12 DEF v, RootVector, VECTOR_ROOT_E131_EXTENDED, VECTOR_ROOT_E131_DATA
  <2>3. parse_root(r) = parse_data(r[3], f)
    BY <1>9, <1>11, <2>2 DEF parse_root
  <2>. QED BY <1>8, <2>1, <2>3
<1>13. CASE p.kind = "sync"
  <2>1. /\ parse_sync(p.cid, f) = IF Acceptable(p) THEN p ELSE Refused
        /\ pdu_info(f) /\ f[2] = VECTOR_E131_EXTENDED_SYNCHRONIZATION
    BY <1>2, <1>13, SyncParsed
  <2>2. r[2] = VECTOR_ROOT_E131_EXTENDED /\ VECTOR_ROOT_E131_EXTENDED # VECTOR_ROOT_E131_DATA
    BY <1>8, <1>13 DEF v, RootVector, VECTOR_ROOT_E131_EXTENDED, VECTOR_ROOT_E131_DATA
  <2>3. parse_root(r) = parse_sync(r[3], f)
    BY <1>9, <1>11, <2>1, <2>2 DEF parse_root
  <2>. QED BY <1>8, <2>1, <2>3
<1>14. CASE p.kind = "discovery"
  <2>1. /\ parse_discovery(p.cid, f) = IF Acceptable(p) THEN p ELSE Refused
        /\ pdu_info(f) /\ f[2] = VECTOR_E131_EXTENDED_DISCOVERY
    BY <1>2, <1>14, DiscoveryParsed DEF Sendable
  <2>2. r[2] = VECTOR_ROOT_E131_EXTENDED /\ VECTOR_ROOT_E131_EXTENDED # VECTOR_ROOT_E131_DATA
        /\ VECTOR_E131_EXTENDED_DISCOVERY # VECTOR_E131_EXTENDED_SYNCHRONIZATION
    BY <1>8, <1>14 DEF v, RootVector, VECTOR_ROOT_E131_EXTENDED, VECTOR_ROOT_E131_DATA,
                       VECTOR_E131_EXTENDED_DISCOVERY, VECTOR_E131_EXTENDED_SYNCHRONIZATION
  <2>3. parse_root(r) = parse_discovery(r[3], f)
    BY <1>9, <1>11, <2>1, <2>2 DEF parse_root
  <2>. QED BY <1>8, <2>1, <2>3
<1>. QED BY <1>1, <1>12, <1>13, <1>14

-----------------------------------------------------------------------------
(* The buffer. *)

\* The buffer of recv is as long as the longest packet of either kind.
LEMMA BufferSizes ==
  /\ BufferSize \in Nat
  /\ BufferSize >= 16 + UNIVERSE_CHANNEL_CAPACITY
  /\ BufferSize >= 12 + DISCOVERY_UNI_PER_PAGE
<1>. DEFINE m == 16 + UNIVERSE_CHANNEL_CAPACITY
            n == 12 + DISCOVERY_UNI_PER_PAGE
<1>1. m \in Nat /\ n \in Nat
  BY PacketsAssumption
<1>2. BufferSize = CHOOSE x \in {m, n} : \A y \in {m, n} : x >= y
  BY DEF BufferSize, Max
<1>. HIDE DEF m, n
<1>3. \E x \in {m, n} : \A y \in {m, n} : x >= y
  BY <1>1
<1>4. BufferSize \in {m, n} /\ \A y \in {m, n} : BufferSize >= y
  BY <1>2, <1>3
<1>. QED BY <1>1, <1>4 DEF m, n

\* What a source sends is a preamble and a root layer, and fits the buffer.
LEMMA PackFits ==
  ASSUME NEW p, Sendable(p)
  PROVE  LET root == Layer(RootVector(p), <<p.cid>> \o Framing(p)) IN
         /\ root \in Seq(Nat)
         /\ pack(p) \in Seq(Nat) /\ Len(pack(p)) = Len(root) + 1
         /\ Len(pack(p)) <= BufferSize
         /\ pack(p)[1] = ROOT_PREAMBLE
         /\ \A i \in 1 .. Len(root) : pack(p)[i + 1] = root[i]
<1>. DEFINE h == <<p.cid>>
            f == Framing(p)
            root == Layer(RootVector(p), h \o f)
            pre == <<ROOT_PREAMBLE>>
<1>1. p.cid \in Nat /\ RootVector(p) \in Nat
  BY DEF Sendable, DataPackets, SyncPackets, DiscoveryPackets, RootVector,
         VECTOR_ROOT_E131_DATA, VECTOR_ROOT_E131_EXTENDED
<1>2. f \in Seq(Nat) /\ Len(f) + 4 <= BufferSize
  <2>1. CASE p \in DataPackets
    <3>1. p.kind = "data" /\ p.values \in Seq(Nat)
      BY <2>1 DEF DataPackets
    <3>2. f = DataFraming(p) /\ Len(p.values) <= UNIVERSE_CHANNEL_CAPACITY
      BY <3>1 DEF Framing, Sendable, Packs
    <3>3. DataFraming(p) \in Seq(Nat) /\ Len(DataFraming(p)) = Len(p.values) + 12
      BY <2>1, DataParsed DEF Sendable
    <3>4. Len(p.values) \in Nat
      BY <3>1, LenProperties
    <3>. QED BY <3>2, <3>3, <3>4, BufferSizes, PacketsAssumption
  <2>2. CASE p \in SyncPackets
    <3>1. p.kind = "sync"
      BY <2>2 DEF SyncPackets
    <3>2. f = SyncFraming(p)
      BY <3>1 DEF Framing
    <3>3. SyncFraming(p) \in Seq(Nat) /\ Len(SyncFraming(p)) = 5
      BY <2>2, SyncParsed
    <3>. QED BY <3>2, <3>3, BufferSizes, PacketsAssumption
  <2>3. CASE p \in DiscoveryPackets /\ p.page <= p.last_page
    <3>1. p.kind = "discovery" /\ p.universes \in Seq(Nat)
      BY <2>3 DEF DiscoveryPackets
    <3>2. f = DiscoveryFraming(p) /\ Len(p.universes) <= DISCOVERY_UNI_PER_PAGE
      BY <3>1 DEF Framing, Sendable, Packs
    <3>3. DiscoveryFraming(p) \in Seq(Nat) /\ Len(DiscoveryFraming(p)) = Len(p.universes) + 8
      BY <2>3, DiscoveryParsed DEF Sendable
    <3>4. Len(p.universes) \in Nat
      BY <3>1, LenProperties
    <3>. QED BY <3>2, <3>3, <3>4, BufferSizes, PacketsAssumption
  <2>. QED BY <2>1, <2>2, <2>3 DEF Sendable
<1>3. h \in Seq(Nat) /\ Len(h) = 1 /\ pre \in Seq(Nat) /\ Len(pre) = 1 /\ pre[1] = ROOT_PREAMBLE
  BY <1>1 DEF ROOT_PREAMBLE
<1>4. pack(p) = pre \o root
  BY DEF pack, RootVector
<1>. HIDE DEF h, f, pre
<1>5. root \in Seq(Nat) /\ Len(root) = Len(h) + Len(f) + 2
  BY <1>1, <1>2, <1>3, LayerWith
<1>6. root = Layer(RootVector(p), <<p.cid>> \o Framing(p))
  BY DEF h, f
<1>. HIDE DEF root
<1>7. Len(f) \in Nat /\ Len(root) = Len(f) + 3
  BY <1>2, <1>3, <1>5, LenProperties
<1>8. /\ pack(p) \in Seq(Nat) /\ Len(pack(p)) = Len(pre) + Len(root)
      /\ \A i \in 1 .. Len(pre) + Len(root) :
           pack(p)[i] = IF i <= Len(pre) THEN pre[i] ELSE root[i - Len(pre)]
  <2>1. /\ pre \o root \in Seq(Nat) /\ Len(pre \o root) = Len(pre) + Len(root)
        /\ \A i \in 1 .. Len(pre) + Len(root) :
             (pre \o root)[i] = IF i <= Len(pre) THEN pre[i] ELSE root[i - Len(pre)]
    BY <1>3, <1>5, ConcatProperties
  <2>. QED BY <1>4, <2>1
<1>9. Len(pack(p)) = Len(root) + 1 /\ Len(pack(p)) <= BufferSize
  BY <1>2, <1>3, <1>7, <1>8, BufferSizes
<1>10. pack(p)[1] = ROOT_PREAMBLE
  BY <1>3, <1>7, <1>8
<1>11. ASSUME NEW i \in 1 .. Len(root)
       PROVE  pack(p)[i + 1] = root[i]
  <2>1. i + 1 \in 1 .. Len(pre) + Len(root) /\ ~ (i + 1 <= Len(pre)) /\ (i + 1) - Len(pre) = i
    BY <1>3, <1>7
  <2>. QED BY <1>8, <2>1
<1>. QED BY <1>5, <1>6, <1>8, <1>9, <1>10, <1>11

\* A datagram in the cleared buffer is parsed as its packet was meant.
LEMMA ReceivedAsSent ==
  ASSUME NEW p, Sendable(p)
  PROVE  /\ Buffered(pack(p)) \in [1 .. BufferSize -> Nat]
         /\ parse(Buffered(pack(p))) = IF Acceptable(p) THEN p ELSE Refused
<1>. DEFINE d == pack(p)
            root == Layer(RootVector(p), <<p.cid>> \o Framing(p))
            o == Buffered(d)
<1>1. /\ root \in Seq(Nat)
      /\ d \in Seq(Nat) /\ Len(d) = Len(root) + 1
      /\ Len(d) <= BufferSize
      /\ d[1] = ROOT_PREAMBLE
      /\ \A i \in 1 .. Len(root) : d[i + 1] = root[i]
  BY PackFits
<1>. HIDE DEF d, root
<1>2. /\ Len(root) \in Nat /\ Len(d) \in Nat /\ BufferSize \in Nat /\ BufferSize >= 1
      /\ \A i \in 1 .. Len(d) : d[i] \in Nat
  <2>1. Len(root) \in Nat /\ Len(d) \in Nat
    BY <1>1, LenProperties
  <2>2. BufferSize \in Nat /\ BufferSize >= 1
    BY BufferSizes, PacketsAssumption
  <2>3. \A i \in 1 .. Len(d) : d[i] \in Nat
    BY <1>1, ElementOfSeq
  <2>. QED BY <2>1, <2>2, <2>3
<1>3. /\ o \in [1 .. BufferSize -> Nat]
      /\ \A i \in 1 .. Len(d) : o[i] = d[i]
  <2>1. o = [i \in 1 .. BufferSize |-> IF i <= Len(d) THEN d[i] ELSE 0]
    BY DEF Buffered
  <2>2. \A i \in 1 .. Len(d) : i \in 1 .. BufferSize /\ i <= Len(d)
    BY <1>1, <1>2
  <2>3. \A i \in 1 .. BufferSize : i <= Len(d) => i \in 1 .. Len(d)
    BY <1>2
  <2>. QED BY <1>2, <2>1, <2>2, <2>3
<1>. HIDE DEF o
<1>4. o \in Seq(Nat) /\ Len(o) = BufferSize
  <2>. DEFINE n == BufferSize
  <2>1. n \in Nat /\ o \in [1 .. n -> Nat]
    BY <1>2, <1>3
  <2>. HIDE DEF n
  <2>2. o \in Seq(Nat) /\ Len(o) = n
    BY <2>1
  <2>. QED BY <2>2 DEF n
<1>5. /\ Tail(o) \in Seq(Nat) /\ Len(Tail(o)) = BufferSize - 1
      /\ \A i \in 1 .. Len(Tail(o)) : Tail(o)[i] = o[i + 1]
  <2>1. o # <<>>
    BY <1>2, <1>4, EmptySeq
  <2>. QED BY <1>4, <2>1, HeadTailProperties
<1>6. Len(Tail(o)) >= Len(root)
  BY <1>1, <1>2, <1>5
<1>7. ASSUME NEW i \in 1 .. Len(root)
      PROVE  Tail(o)[i] = root[i]
  <2>1. i \in 1 .. Len(Tail(o)) /\ i + 1 \in 1 .. Len(d)
    BY <1>1, <1>2, <1>5
  <2>2. Tail(o)[i] = o[i + 1] /\ o[i + 1] = d[i + 1] /\ d[i + 1] = root[i]
    BY <1>1, <1>3, <1>5, <2>1
  <2>. QED BY <2>2
<1>8. parse_root(Tail(o)) = IF Acceptable(p) THEN p ELSE Refused
  <2>. DEFINE r == Tail(o)
  <2>1. r \in Seq(Nat) /\ Len(r) >= Len(root) /\ \A i \in 1 .. Len(root) : r[i] = root[i]
    BY <1>5, <1>6, <1>7
  <2>. HIDE DEF r
  <2>2. parse_root(r) = IF Acceptable(p) THEN p ELSE Refused
    BY <2>1, RootParsed DEF root
  <2>. QED BY <2>2 DEF r
<1>9. o[1] = ROOT_PREAMBLE
  <2>1. 1 \in 1 .. Len(d)
    BY <1>1, <1>2
  <2>. QED BY <1>1, <1>3, <2>1
<1>. QED BY <1>3, <1>8, <1>9 DEF parse, o, d

-----------------------------------------------------------------------------
(* Whatever is parsed. *)

\* What the rest of the receiver relies on of a packet.
WithinLimits(q) ==
  /\ q.kind \in {"refused", "data", "sync", "discovery"}
  /\ q.kind = "data" =>
       /\ q.universe \in 1 .. E131_MAX_MULTICAST_UNIVERSE
       /\ q.sync \in 0 .. E131_MAX_MULTICAST_UNIVERSE
       /\ q.priority \in 0 .. E131_MAX_PRIORITY
       /\ Len(q.values) <= UNIVERSE_CHANNEL_CAPACITY
  /\ q.kind = "sync" => q.sync \in 1 .. E131_MAX_MULTICAST_UNIVERSE
  /\ q.kind = "discovery" => q.page <= q.last_page /\ Ascending(q.universes)

\* A slice of a buffer.
LEMMA CutTyped ==
  ASSUME NEW b \in Seq(Nat), NEW m \in Nat \ {0}, NEW n \in Int, n <= Len(b)
  PROVE  /\ SubSeq(b, m, n) \in Seq(Nat)
         /\ Len(SubSeq(b, m, n)) = IF m <= n THEN n - m + 1 ELSE 0
<1>1. \A i \in m .. n : b[i] \in Nat
  <2>1. \A i \in 1 .. Len(b) : b[i] \in Nat
    BY ElementOfSeq
  <2>2. Len(b) \in Nat
    BY LenProperties
  <2>. QED BY <2>1, <2>2
<1>2. m \in Int /\ n \in Int
  OBVIOUS
<1>. QED BY <1>1, <1>2, SubSeqProperties

\* Where pdu_info admits a layer, its length lies within it.
LEMMA LengthTyped ==
  ASSUME NEW b \in Seq(Nat), pdu_info(b)
  PROVE  length(b) \in Nat /\ length(b) <= Len(b) /\ Len(b) \in Nat /\ Len(b) >= 2
<1>1. Len(b) \in Nat /\ Len(b) >= 2 /\ b[1] >= E131_PDU_FLAGS /\ Len(b) >= length(b)
  BY LenProperties DEF pdu_info
<1>2. b[1] \in Nat
  BY <1>1, ElementOfSeq
<1>. QED BY <1>1, <1>2, PacketsAssumption DEF length

\* parse_data gives a universe, an address, a priority and values in range.
LEMMA DataWithin ==
  ASSUME NEW cid, NEW b \in Seq(Nat)
  PROVE  WithinLimits(parse_data(cid, b))
<1>. DEFINE inner == SubSeq(b, 9, length(b))
            q == parse_data(cid, b)
<1>1. CASE q = Refused
  BY <1>1 DEF Refused, WithinLimits
<1>2. CASE q # Refused
  <2>1. /\ pdu_info(b) /\ b[4] <= E131_MAX_PRIORITY /\ b[5] <= E131_MAX_MULTICAST_UNIVERSE
        /\ MulticastUniverse(b[8]) /\ DmpAccepted(inner)
        /\ q = [kind |-> "data", cid |-> cid, name |-> b[3], priority |-> b[4], sync |-> b[5],
                seq |-> b[6], preview |-> b[7] \div 2 = 1, terminated |-> b[7] % 2 = 1,
                universe |-> b[8], values |-> property_values(inner)]
    BY <1>2 DEF parse_data
  <2>2. length(b) \in Nat /\ length(b) <= Len(b) /\ Len(b) \in Nat
    BY <2>1, LengthTyped
  <2>3. inner \in Seq(Nat) /\ Len(inner) = IF 9 <= length(b) THEN length(b) - 9 + 1 ELSE 0
    <3>1. 9 \in Nat \ {0} /\ length(b) \in Int
      BY <2>2
    <3>. QED BY <2>2, <3>1, CutTyped
  <2>. HIDE DEF inner, q
  <2>4. pdu_info(inner) /\ inner[4] + 4 = length(inner) /\ inner[4] <= UNIVERSE_CHANNEL_CAPACITY
    BY <2>1 DEF DmpAccepted
  <2>5. length(inner) \in Nat /\ length(inner) <= Len(inner) /\ Len(inner) \in Nat /\ Len(inner) >= 2
    BY <2>3, <2>4, LengthTyped
  <2>6. b[4] \in Nat /\ b[5] \in Nat
    <3>1. 4 \in 1 .. Len(b) /\ 5 \in 1 .. Len(b)
      BY <2>2, <2>3, <2>5
    <3>. QED BY <3>1, ElementOfSeq
  <2>7. Len(property_values(inner)) <= UNIVERSE_CHANNEL_CAPACITY
    <3>1. 5 \in Nat \ {0} /\ length(inner) \in Int
      BY <2>5
    <3>2. Len(SubSeq(inner, 5, length(inner))) =
            IF 5 <= length(inner) THEN length(inner) - 5 + 1 ELSE 0
      BY <2>3, <2>5, <3>1, CutTyped
    <3>3. 5 <= length(inner) => inner[4] \in Nat
      <4>1. 5 <= length(inner) => 4 \in 1 .. Len(inner)
        BY <2>5
      <4>. QED BY <2>3, <4>1, ElementOfSeq
    <3>4. 5 <= length(inner) => length(inner) - 5 + 1 = inner[4]
      BY <2>4, <2>5, <3>3
    <3>5. CASE 5 <= length(inner)
      <4>1. Len(SubSeq(inner, 5, length(inner))) = inner[4]
        BY <3>2, <3>4, <3>5
      <4>. QED BY <2>4, <4>1 DEF property_values
    <3>6. CASE ~ (5 <= length(inner))
      <4>1. Len(property_values(inner)) = 0
        BY <3>2, <3>6 DEF property_values
      <4>. QED BY <4>1, PacketsAssumption
    <3>. QED BY <3>5, <3>6
  <2>8. q.kind = "data" /\ q.priority = b[4] /\ q.sync = b[5] /\ q.universe = b[8]
        /\ q.values = property_values(inner)
    BY <2>1
  <2>9. b[4] \in 0 .. E131_MAX_PRIORITY /\ b[5] \in 0 .. E131_MAX_MULTICAST_UNIVERSE
        /\ b[8] \in 1 .. E131_MAX_MULTICAST_UNIVERSE
    BY <2>1, <2>6, PacketsAssumption DEF MulticastUniverse
  <2>10. WithinLimits(q)
    BY <2>7, <2>8, <2>9 DEF WithinLimits
  <2>. QED BY <2>10 DEF q
<1>. QED BY <1>1, <1>2

\* So do the parsers of the two other packets.
LEMMA SyncWithin ==
  ASSUME NEW cid, NEW b
  PROVE  WithinLimits(parse_sync(cid, b))
BY DEF parse_sync, MulticastUniverse, Refused, WithinLimits

\* So does what the discovery framing layer makes of any cells.
LEMMA DiscoveryWithin ==
  ASSUME NEW cid, NEW b
  PROVE  WithinLimits(parse_discovery(cid, b))
<1>. DEFINE inner == SubSeq(b, 5, length(b))
            q == parse_discovery(cid, b)
<1>1. CASE q = Refused
  BY <1>1 DEF Refused, WithinLimits
<1>2. CASE q # Refused
  <2>1. /\ parse_universe_discovery(inner)
        /\ q = [kind |-> "discovery", cid |-> cid, name |-> b[3], page |-> inner[3],
                last_page |-> inner[4], universes |-> SubSeq(inner, 5, Len(inner))]
    BY <1>2 DEF parse_discovery
  <2>2. inner[3] <= inner[4] /\ Ascending(SubSeq(inner, 5, Len(inner)))
    BY <2>1 DEF parse_universe_discovery, parse_universe_list
  <2>. HIDE DEF inner, q
  <2>3. q.kind = "discovery" /\ q.page <= q.last_page /\ Ascending(q.universes)
    BY <2>1, <2>2
  <2>4. WithinLimits(q)
    BY <2>3 DEF WithinLimits
  <2>. QED BY <2>4 DEF q
<1>. QED BY <1>1, <1>2

\* parse lets nothing out of range through, whatever cells it is given.
LEMMA ParseWithin ==
  ASSUME NEW b \in [1 .. BufferSize -> Nat]
  PROVE  WithinLimits(parse(b))
<1>1. WithinLimits(Refused)
  BY DEF Refused, WithinLimits
<1>2. b \in Seq(Nat) /\ Len(b) = BufferSize /\ BufferSize >= 1 /\ BufferSize \in Nat
  <2>. DEFINE n == BufferSize
  <2>1. n \in Nat /\ n >= 1 /\ b \in [1 .. n -> Nat]
    BY BufferSizes, PacketsAssumption
  <2>. HIDE DEF n
  <2>2. b \in Seq(Nat) /\ Len(b) = n
    BY <2>1
  <2>. QED BY <2>1, <2>2 DEF n
<1>. DEFINE r == Tail(b)
            inner == SubSeq(Pdu(r), 4, Len(Pdu(r)))
<1>3. r \in Seq(Nat)
  <2>1. b # <<>>
    BY <1>2, EmptySeq
  <2>. QED BY <1>2, <2>1, HeadTailProperties
<1>. HIDE DEF r
<1>4. pdu_info(r) => inner \in Seq(Nat)
  <2>1. SUFFICES ASSUME pdu_info(r) PROVE inner \in Seq(Nat)
    OBVIOUS
  <2>2. length(r) \in Nat /\ length(r) <= Len(r)
    BY <1>3, <2>1, LengthTyped
  <2>3. Pdu(r) \in Seq(Nat)
    <3>1. 1 \in Nat \ {0} /\ length(r) \in Int
      BY <2>2
    <3>. QED BY <1>3, <2>2, <3>1, CutTyped DEF Pdu
  <2>4. Len(Pdu(r)) \in Int /\ Len(Pdu(r)) <= Len(Pdu(r)) /\ 4 \in Nat \ {0}
    BY <2>3, LenProperties
  <2>. QED BY <2>3, <2>4, CutTyped
<1>5. /\ \/ parse_root(r) = Refused
         \/ parse_root(r) = parse_data(r[3], inner)
         \/ parse_root(r) = parse_sync(r[3], inner)
         \/ parse_root(r) = parse_discovery(r[3], inner)
      /\ ~ pdu_info(r) => parse_root(r) = Refused
  <2>. HIDE DEF inner
  <2>1. VECTOR_ROOT_E131_EXTENDED # VECTOR_ROOT_E131_DATA
    BY DEF VECTOR_ROOT_E131_EXTENDED, VECTOR_ROOT_E131_DATA
  <2>2. inner = SubSeq(Pdu(r), 4, Len(Pdu(r)))
    BY DEF inner
  <2>3. CASE ~ pdu_info(r)
    BY <2>3 DEF parse_root
  <2>4. CASE pdu_info(r) /\ r[2] = VECTOR_ROOT_E131_DATA
    BY <2>1, <2>2, <2>4 DEF parse_root
  <2>5. CASE pdu_info(r) /\ r[2] = VECTOR_ROOT_E131_EXTENDED
    BY <2>1, <2>2, <2>5 DEF parse_root
  <2>6. CASE pdu_info(r) /\ r[2] \notin {VECTOR_ROOT_E131_DATA, VECTOR_ROOT_E131_EXTENDED}
    BY <2>2, <2>6 DEF parse_root
  <2>. QED BY <2>3, <2>4, <2>5, <2>6
<1>6. WithinLimits(parse_root(r))
  <2>1. CASE ~ pdu_info(r)
    BY <1>1, <1>5, <2>1
  <2>2. CASE pdu_info(r)
    <3>1. inner \in Seq(Nat)
      BY <1>4, <2>2
    <3>. HIDE DEF inner
    <3>2. WithinLimits(parse_data(r[3], inner))
      BY <3>1, DataWithin
    <3>3. WithinLimits(parse_sync(r[3], inner)) /\ WithinLimits(parse_discovery(r[3], inner))
      BY SyncWithin, DiscoveryWithin
    <3>. QED BY <1>1, <1>5, <3>2, <3>3
  <2>. QED BY <2>1, <2>2
<1>. QED BY <1>1, <1>6 DEF parse, r

-----------------------------------------------------------------------------
(* Parts of a sequence. *)

\* A set of natural numbers has a least element.
LEMMA LeastElement ==
  ASSUME NEW T \in SUBSET Nat, T # {}
  PROVE  \E n \in T : \A m \in T : n <= m
<1>. DEFINE R == OpToRel(<, Nat)
<1>1. \A x, y \in Nat : <<y, x>> \in R <=> y < x
  BY DEF OpToRel
<1>2. IsWellFoundedOn(R, Nat)
  BY NatLessThanWellFounded
<1>. HIDE DEF R
<1>3. PICK x \in T : \A y \in T : ~ (<<y, x>> \in R)
  BY <1>2, WFMin
<1>4. ASSUME NEW m \in T
      PROVE  x <= m
  <2>1. x \in Nat /\ m \in Nat /\ ~ (m < x)
    BY <1>1, <1>3
  <2>. QED BY <2>1
<1>. QED BY <1>4

\* What FlattenSeq computes, given a function that satisfies its recursion:
\* another one would differ first at some part, which the parts before it fix.
LEMMA FlattenIs ==
  ASSUME NEW S, NEW seqs \in Seq(Seq(S)), Len(seqs) # 0,
         NEW g \in [1 .. Len(seqs) -> Seq(S)],
         g = [i \in 1 .. Len(seqs) |-> IF i = 1 THEN seqs[i] ELSE g[i - 1] \o seqs[i]]
  PROVE  FlattenSeq(seqs) = g[Len(seqs)]
<1>. DEFINE n == Len(seqs)
            Step(f) == [i \in 1 .. n |-> IF i = 1 THEN seqs[i] ELSE f[i - 1] \o seqs[i]]
            f == CHOOSE f : f = Step(f)
<1>1. n \in Nat /\ n # 0
  OBVIOUS
<1>2. f = Step(f)
  <2>1. \E h : h = Step(h)
    OBVIOUS
  <2>. HIDE DEF Step
  <2>. QED BY <2>1
<1>3. FlattenSeq(seqs) = f[n]
  BY DEF FlattenSeq
<1>4. ASSUME NEW i \in 1 .. n
      PROVE  f[i] = g[i]
  <2>. DEFINE T == {k \in 1 .. n : f[k] # g[k]}
  <2>. HIDE DEF f
  <2>1. \A k \in 1 .. n : f[k] = IF k = 1 THEN seqs[k] ELSE f[k - 1] \o seqs[k]
    BY <1>2
  <2>2. \A k \in 1 .. n : g[k] = IF k = 1 THEN seqs[k] ELSE g[k - 1] \o seqs[k]
    OBVIOUS
  <2>3. T = {}
    <3>1. SUFFICES ASSUME T # {} PROVE FALSE
      OBVIOUS
    <3>2. T \in SUBSET Nat
      BY <1>1
    <3>. HIDE DEF T
    <3>3. PICK k \in T : \A m \in T : k <= m
      BY <3>1, <3>2, LeastElement
    <3>4. k \in 1 .. n /\ f[k] # g[k]
      BY DEF T
    <3>5. k # 1 => f[k - 1] = g[k - 1]
      <4>1. k # 1 => k - 1 \in 1 .. n /\ k - 1 < k /\ k - 1 \notin T
        BY <1>1, <3>3, <3>4
      <4>. QED BY <4>1 DEF T
    <3>. QED BY <2>1, <2>2, <3>4, <3>5
  <2>. QED BY <2>3
<1>5. n \in 1 .. n
  BY <1>1
<1>. HIDE DEF f
<1>. QED BY <1>3, <1>4, <1>5

\* The smaller of two numbers.
LEMMA MinOfTwo ==
  ASSUME NEW a \in Int, NEW b \in Int
  PROVE  Min({a, b}) = IF a <= b THEN a ELSE b
<1>1. Min({a, b}) = CHOOSE x \in {a, b} : \A y \in {a, b} : x =< y
  BY DEF Min
<1>2. \E x \in {a, b} : \A y \in {a, b} : x =< y
  OBVIOUS
<1>3. Min({a, b}) \in {a, b} /\ \A y \in {a, b} : Min({a, b}) =< y
  BY <1>1, <1>2
<1>. QED BY <1>3

\* Products with the next number.
LEMMA NextMultiple ==
  ASSUME NEW i \in Int, NEW n \in Nat
  PROVE  i * n \in Int /\ (i + 1) * n = i * n + n
OBVIOUS

\* A part that begins within the sequence is a slice of it, as long as the
\* size or as what is left.
LEMMA PartIs ==
  ASSUME NEW s \in Seq(Nat), NEW size \in Nat \ {0}, NEW i \in Nat, i * size <= Len(s)
  PROVE  LET a == i * size
             b == IF (i + 1) * size <= Len(s) THEN (i + 1) * size ELSE Len(s)
         IN
         /\ a \in Nat /\ b \in a .. a + size /\ b <= Len(s)
         /\ Part(s, i, size) = SubSeq(s, a + 1, b)
         /\ Part(s, i, size) \in Seq(Nat) /\ Len(Part(s, i, size)) = b - a
         /\ \A k \in 1 .. b - a : Part(s, i, size)[k] = s[a + k]
<1>. DEFINE a == i * size
            c == (i + 1) * size
            b == IF c <= Len(s) THEN c ELSE Len(s)
            q == Part(s, i, size)
<1>1. a \in Nat /\ c = a + size /\ a <= Len(s) /\ Len(s) \in Nat
  BY NextMultiple, LenProperties
<1>2. q = SubSeq(s, a + 1, Min({c, Len(s)}))
  BY DEF Part
<1>. HIDE DEF a, c, q
<1>3. Min({c, Len(s)}) = b
  BY <1>1, MinOfTwo
<1>4. b \in a .. a + size /\ b <= Len(s) /\ b \in Nat
  BY <1>1
<1>. HIDE DEF b
<1>5. \A j \in a + 1 .. b : s[j] \in Nat
  <2>1. \A j \in 1 .. Len(s) : s[j] \in Nat
    BY ElementOfSeq
  <2>. QED BY <1>1, <1>4, <2>1
<1>6. /\ q \in Seq(Nat) /\ Len(q) = IF a + 1 <= b THEN b - (a + 1) + 1 ELSE 0
      /\ \A k \in 1 .. b - (a + 1) + 1 : q[k] = s[(a + 1) + k - 1]
  <2>1. a + 1 \in Int /\ b \in Int
    BY <1>1, <1>4
  <2>2. /\ SubSeq(s, a + 1, b) \in Seq(Nat)
        /\ Len(SubSeq(s, a + 1, b)) = IF a + 1 <= b THEN b - (a + 1) + 1 ELSE 0
        /\ \A k \in 1 .. b - (a + 1) + 1 : SubSeq(s, a + 1, b)[k] = s[(a + 1) + k - 1]
    BY <1>5, <2>1, SubSeqProperties
  <2>. QED BY <1>2, <1>3, <2>2
<1>7. Len(q) = b - a
  BY <1>1, <1>4, <1>6
<1>8. ASSUME NEW k \in 1 .. b - a
      PROVE  q[k] = s[a + k]
  <2>1. k \in 1 .. b - (a + 1) + 1 /\ (a + 1) + k - 1 = a + k
    BY <1>1, <1>4
  <2>2. q[k] = s[(a + 1) + k - 1]
    BY <1>6, <2>1
  <2>. QED BY <2>1, <2>2
<1>9. q = SubSeq(s, a + 1, b)
  BY <1>2, <1>3
<1>. QED BY <1>1, <1>4, <1>6, <1>7, <1>8, <1>9 DEF a, b, c, q

\* What % and \div are.
LEMMA Division ==
  ASSUME NEW a \in Nat, NEW n \in Nat \ {0}
  PROVE  /\ a = n * (a \div n) + (a % n)
         /\ a % n \in 0 .. n - 1 /\ a \div n \in Nat
OBVIOUS

\* Multiples grow.
LEMMA MultiplesGrow ==
  ASSUME NEW i \in Nat, NEW j \in Nat, i <= j, NEW n \in Nat
  PROVE  i * n <= j * n
OBVIOUS

\* send takes as many universes as hold the data, and no more.
LEMMA ChunksHold ==
  ASSUME NEW n \in Nat \ {0}
  PROVE  /\ Chunks(n) \in Nat \ {0}
         /\ (Chunks(n) - 1) * UNIVERSE_CHANNEL_CAPACITY < n
         /\ n <= Chunks(n) * UNIVERSE_CHANNEL_CAPACITY
<1>. DEFINE m == UNIVERSE_CHANNEL_CAPACITY
            a == n + m - 1
            q == a \div m
            r == a % m
<1>1. m \in Nat \ {0} /\ a \in Nat
  BY PacketsAssumption
<1>2. a = m * q + r /\ r \in 0 .. m - 1 /\ q \in Nat
  <2>. HIDE DEF a
  <2>. QED BY <1>1, Division
<1>3. Chunks(n) = q
  BY DEF Chunks
<1>. HIDE DEF q, r, m
<1>4. m * q = q * m /\ (q - 1) * m = q * m - m /\ q * m \in Nat
  BY <1>1, <1>2
<1>5. q # 0
  <2>1. q = 0 => m * q = 0
    BY <1>1
  <2>. QED BY <1>1, <1>2, <2>1
<1>6. (q - 1) * m < n /\ n <= q * m
  <2>. DEFINE x == q * m
              y == (q - 1) * m
  <2>1. x \in Nat /\ y = x - m /\ n + m - 1 = x + r
    BY <1>1, <1>2, <1>4 DEF a
  <2>. HIDE DEF x, y
  <2>2. y < n /\ n <= x
    BY <1>1, <1>2, <2>1
  <2>. QED BY <2>2 DEF x, y
<1>. QED BY <1>2, <1>3, <1>5, <1>6 DEF m

\* The chunks of the data hold all of it in order, and each fits a packet.
LEMMA ChunksCover ==
  ASSUME NEW data \in Seq(Nat), data # <<>>
  PROVE  LET seqs == [i \in 1 .. Chunks(Len(data)) |-> Chunk(data, i - 1)] IN
         /\ \A i \in 1 .. Chunks(Len(data)) :
              seqs[i] \in Seq(Nat) /\ Len(seqs[i]) <= UNIVERSE_CHANNEL_CAPACITY
         /\ FlattenSeq(seqs) = data
<1>. DEFINE n == Len(data)
            c == Chunks(n)
            m == UNIVERSE_CHANNEL_CAPACITY
            B(i) == IF i * m <= n THEN i * m ELSE n
            seqs == [i \in 1 .. c |-> Chunk(data, i - 1)]
            g == [i \in 1 .. c |-> SubSeq(data, 1, B(i))]
<1>1. n \in Nat \ {0} /\ m \in Nat \ {0}
  BY EmptySeq, PacketsAssumption
<1>2. c \in Nat \ {0} /\ (c - 1) * m < n /\ n <= c * m
  BY <1>1, ChunksHold
<1>. HIDE DEF n, c, m
<1>3. ASSUME NEW i \in 1 .. c
      PROVE  /\ i - 1 \in Nat /\ (i - 1) * m \in Nat /\ (i - 1) * m < n
             /\ i * m = (i - 1) * m + m /\ i * m \in Nat
  <2>1. i - 1 \in Nat /\ c - 1 \in Nat /\ i - 1 <= c - 1 /\ i = (i - 1) + 1
    BY <1>2
  <2>. DEFINE j == i - 1
              d == c - 1
  <2>2. (i - 1) * m \in Int /\ i * m = (i - 1) * m + m
    <3>1. j \in Int /\ m \in Nat /\ i = j + 1
      BY <1>1, <2>1
    <3>2. j * m \in Int /\ (j + 1) * m = j * m + m
      BY <3>1, NextMultiple
    <3>. QED BY <3>1, <3>2
  <2>3. (i - 1) * m <= (c - 1) * m
    <3>1. j \in Nat /\ d \in Nat /\ j <= d /\ m \in Nat
      BY <1>1, <2>1
    <3>. HIDE DEF j, d
    <3>2. j * m <= d * m
      BY <3>1, MultiplesGrow
    <3>. QED BY <3>2 DEF j, d
  <2>4. (i - 1) * m \in Nat /\ (c - 1) * m \in Int
    BY <1>1, <2>1
  <2>. QED BY <1>1, <1>2, <2>1, <2>2, <2>3, <2>4
<1>4. ASSUME NEW i \in 1 .. c
      PROVE  /\ Chunk(data, i - 1) = SubSeq(data, (i - 1) * m + 1, B(i))
             /\ Chunk(data, i - 1) \in Seq(Nat) /\ Len(Chunk(data, i - 1)) <= m
             /\ B(i) \in (i - 1) * m .. n
  <2>. DEFINE j == i - 1
              a == j * m
              b == IF (j + 1) * m <= Len(data) THEN (j + 1) * m ELSE Len(data)
  <2>1. j \in Nat /\ a <= Len(data) /\ m \in Nat \ {0} /\ a \in Nat
    BY <1>1, <1>3 DEF n
  <2>2. b = B(i)
    <3>1. (j + 1) * m = i * m
      BY <1>3
    <3>. QED BY <3>1 DEF n
  <2>. HIDE DEF j
  <2>3. /\ b \in a .. a + m /\ b <= Len(data)
        /\ Part(data, j, m) = SubSeq(data, a + 1, b)
        /\ Part(data, j, m) \in Seq(Nat) /\ Len(Part(data, j, m)) = b - a
    BY <2>1, PartIs
  <2>. HIDE DEF a, b
  <2>4. Chunk(data, j) = Part(data, j, m)
    BY DEF Chunk, m
  <2>5. b - a <= m /\ b \in a .. Len(data)
    BY <1>1, <2>1, <2>3
  <2>6. Chunk(data, j) = SubSeq(data, a + 1, b) /\ Chunk(data, j) \in Seq(Nat)
        /\ Len(Chunk(data, j)) <= m
    BY <2>3, <2>4, <2>5
  <2>. QED BY <2>2, <2>5, <2>6 DEF a, j, n
<1>5. seqs \in Seq(Seq(Nat)) /\ Len(seqs) = c
  <2>1. seqs \in [1 .. c -> Seq(Nat)]
    BY <1>4
  <2>. HIDE DEF seqs
  <2>. QED BY <1>2, <2>1
<1>6. \A i \in 1 .. c : seqs[i] = Chunk(data, i - 1)
  OBVIOUS
<1>7. \A i \in 1 .. c : g[i] = SubSeq(data, 1, B(i))
  OBVIOUS
<1>8. g \in [1 .. c -> Seq(Nat)]
  <2>1. ASSUME NEW i \in 1 .. c
        PROVE  SubSeq(data, 1, B(i)) \in Seq(Nat)
    <3>1. B(i) \in Int /\ B(i) <= Len(data) /\ 1 \in Nat \ {0}
      BY <1>1, <1>3, <1>4 DEF n
    <3>. HIDE DEF B
    <3>. QED BY <3>1, CutTyped
  <2>. QED BY <2>1
<1>9. ASSUME NEW i \in 1 .. c, i # 1
      PROVE  g[i - 1] \o seqs[i] = g[i]
  <2>1. i - 1 \in 1 .. c
    BY <1>2, <1>9
  <2>2. g[i - 1] = SubSeq(data, 1, (i - 1) * m)
    <3>1. g[i - 1] = SubSeq(data, 1, B(i - 1))
      BY <1>7, <2>1
    <3>2. B(i - 1) = (i - 1) * m
      BY <1>1, <1>3, <1>9
    <3>. QED BY <3>1, <3>2
  <2>3. seqs[i] = SubSeq(data, (i - 1) * m + 1, B(i)) /\ g[i] = SubSeq(data, 1, B(i))
        /\ B(i) \in (i - 1) * m .. n /\ (i - 1) * m \in Nat /\ (i - 1) * m < n
    BY <1>3, <1>4, <1>6, <1>7
  <2>. DEFINE k == (i - 1) * m
              l == B(i)
  <2>. HIDE DEF k, l, seqs, g
  <2>4. 1 \in 1 .. Len(data) + 1 /\ k \in 1 - 1 .. Len(data) /\ l \in k .. Len(data)
    BY <1>1, <2>3 DEF n, k, l
  <2>5. SubSeq(data, 1, k) \o SubSeq(data, k + 1, l) = SubSeq(data, 1, l)
    BY <2>4, ConcatAdjacentSubSeq
  <2>. QED BY <2>2, <2>3, <2>5 DEF k, l
<1>10. 1 \in 1 .. c => seqs[1] = g[1]
  <2>1. SUFFICES ASSUME 1 \in 1 .. c PROVE seqs[1] = g[1]
    OBVIOUS
  <2>2. seqs[1] = SubSeq(data, (1 - 1) * m + 1, B(1)) /\ g[1] = SubSeq(data, 1, B(1))
    BY <1>4, <1>6, <1>7, <2>1
  <2>3. (1 - 1) * m + 1 = 1
    BY <1>1
  <2>. QED BY <2>2, <2>3
<1>11. g[c] = data
  <2>1. c \in 1 .. c
    BY <1>2
  <2>2. g[c] = SubSeq(data, 1, B(c)) /\ B(c) = n
    BY <1>1, <1>2, <1>3, <1>7, <2>1
  <2>. QED BY <2>2, SubSeqFull DEF n
<1>12. g = [i \in 1 .. Len(seqs) |-> IF i = 1 THEN seqs[i] ELSE g[i - 1] \o seqs[i]]
  <2>1. \A i \in 1 .. c : g[i] = IF i = 1 THEN seqs[i] ELSE g[i - 1] \o seqs[i]
    BY <1>9, <1>10
  <2>2. DOMAIN g = 1 .. c /\ g = [i \in 1 .. c |-> g[i]]
    OBVIOUS
  <2>. HIDE DEF g, seqs
  <2>. QED BY <1>5, <2>1, <2>2
<1>13. FlattenSeq(seqs) = data
  <2>. HIDE DEF g, seqs
  <2>1. FlattenSeq(seqs) = g[Len(seqs)]
    BY <1>2, <1>5, <1>8, <1>12, FlattenIs
  <2>. QED BY <1>5, <1>11, <2>1
<1>. QED BY <1>4, <1>6, <1>13 DEF n, c, m

\* The sorted list of a finite set has each of its elements.
LEMMA SortedListIsAll ==
  ASSUME NEW us \in SUBSET Nat, IsFiniteSet(us), NEW list \in [1 .. Cardinality(us) -> us],
         \A i, j \in DOMAIN list : i < j => list[i] < list[j]
  PROVE  \A u \in us : \E j \in 1 .. Cardinality(us) : list[j] = u
<1>. DEFINE n == Cardinality(us)
            P == 1 .. n
<1>1. n \in Nat
  BY FS_CardinalityType
<1>2. IsFiniteSet(P) /\ Cardinality(P) = n
  <2>. HIDE DEF n
  <2>1. 1 \in Int /\ n \in Int
    BY <1>1
  <2>. QED BY <1>1, <2>1, FS_Interval
<1>3. list \in Injection(P, us)
  <2>1. list \in [P -> us] /\ DOMAIN list = P
    OBVIOUS
  <2>2. ASSUME NEW i \in P, NEW j \in P, i # j
        PROVE  list[i] # list[j]
    <3>1. i < j \/ j < i
      BY <1>1, <2>2
    <3>2. list[i] \in Nat /\ list[j] \in Nat
      BY <2>1
    <3>3. CASE i < j
      BY <2>1, <3>2, <3>3
    <3>4. CASE j < i
      BY <2>1, <3>2, <3>4
    <3>. QED BY <3>1, <3>3, <3>4
  <2>. HIDE DEF P
  <2>. QED BY <2>1, <2>2 DEF Injection, IsInjective
<1>. HIDE DEF n, P
<1>4. Cardinality(us) = n
  BY DEF n
<1>5. list \in Surjection(P, us)
  BY <1>2, <1>3, <1>4, FS_Injection
<1>. QED BY <1>5 DEF Surjection, P, n

\* The pages of an advert hold all its universes and each can be packed, also
\* the last one, which is empty when the others are exactly full.
LEMMA PagesCover ==
  ASSUME NEW us \in SUBSET Nat, IsFiniteSet(us), NEW list \in [1 .. Cardinality(us) -> us],
         \A i, j \in DOMAIN list : i < j => list[i] < list[j]
  PROVE  LET pages == Cardinality(us) \div DISCOVERY_UNI_PER_PAGE + 1
             page(i) == Part(list, i - 1, DISCOVERY_UNI_PER_PAGE)
         IN
         /\ pages \in Nat \ {0}
         /\ \A i \in 1 .. pages :
              /\ page(i) \in Seq(Nat) /\ Len(page(i)) <= DISCOVERY_UNI_PER_PAGE
              /\ Ascending(page(i))
         /\ UNION {ToSet(page(i)) : i \in 1 .. pages} = us
<1>. DEFINE n == Cardinality(us)
            m == DISCOVERY_UNI_PER_PAGE
            q == n \div m
            pages == q + 1
            page(i) == Part(list, i - 1, m)
            a(i) == (i - 1) * m
            b(i) == IF i * m <= n THEN i * m ELSE n
<1>1. n \in Nat /\ m \in Nat \ {0}
  BY FS_CardinalityType, PacketsAssumption
<1>2. q \in Nat /\ n = m * q + (n % m) /\ n % m \in 0 .. m - 1
  <2>. HIDE DEF n
  <2>. QED BY <1>1, Division
<1>. HIDE DEF q
<1>3. q * m <= n /\ n < q * m + m /\ q * m \in Nat
  <2>. DEFINE x == q * m
              r == n % m
  <2>. HIDE DEF n, m
  <2>1. x = m * q /\ x \in Nat
    BY <1>1, <1>2
  <2>2. n = x + r /\ r \in 0 .. m - 1
    BY <1>2, <2>1
  <2>. HIDE DEF x, r
  <2>3. x <= n /\ n < x + m
    BY <1>1, <2>1, <2>2
  <2>. QED BY <2>1, <2>3 DEF x
<1>4. list \in Seq(Nat) /\ Len(list) = n /\ DOMAIN list = 1 .. n /\ \A j \in 1 .. n : list[j] \in us
  <2>. HIDE DEF n
  <2>1. list \in [1 .. n -> Nat] /\ \A j \in 1 .. n : list[j] \in us
    BY DEF n
  <2>. QED BY <1>1, <2>1
<1>. HIDE DEF n, m
<1>5. ASSUME NEW i \in 1 .. pages
      PROVE  /\ a(i) \in Nat /\ b(i) \in a(i) .. a(i) + m /\ b(i) <= n
             /\ page(i) \in Seq(Nat) /\ Len(page(i)) = b(i) - a(i)
             /\ \A k \in 1 .. b(i) - a(i) : page(i)[k] = list[a(i) + k]
  <2>. DEFINE j == i - 1
  <2>1. j \in Nat /\ j <= q /\ i = j + 1
    BY <1>2
  <2>2. j * m <= n /\ j * m \in Nat
    <3>. HIDE DEF j
    <3>1. j * m <= q * m /\ m \in Nat
      BY <1>1, <1>2, <2>1, MultiplesGrow
    <3>2. j * m \in Nat
      BY <1>1, <2>1
    <3>. QED BY <1>1, <1>3, <3>1, <3>2
  <2>. HIDE DEF j
  <2>3. LET x == j * m
            y == IF (j + 1) * m <= Len(list) THEN (j + 1) * m ELSE Len(list)
        IN  /\ x \in Nat /\ y \in x .. x + m /\ y <= Len(list)
            /\ Part(list, j, m) \in Seq(Nat) /\ Len(Part(list, j, m)) = y - x
            /\ \A k \in 1 .. y - x : Part(list, j, m)[k] = list[x + k]
    BY <1>1, <1>4, <2>1, <2>2, PartIs
  <2>4. a(i) = j * m /\ b(i) = (IF (j + 1) * m <= Len(list) THEN (j + 1) * m ELSE Len(list))
        /\ page(i) = Part(list, j, m)
    BY <1>4, <2>1 DEF j
  <2>. HIDE DEF a, b, page
  <2>. QED BY <1>4, <2>3, <2>4
<1>6. ASSUME NEW i \in 1 .. pages
      PROVE  Len(page(i)) <= m /\ Ascending(page(i)) /\ ToSet(page(i)) \subseteq us
  <2>. DEFINE p == page(i)
              x == a(i)
              y == b(i)
  <2>1. /\ x \in Nat /\ y \in x .. x + m /\ y <= n
        /\ p \in Seq(Nat) /\ Len(p) = y - x
        /\ \A k \in 1 .. y - x : p[k] = list[x + k]
    BY <1>5
  <2>. HIDE DEF p, x, y
  <2>2. \A k \in 1 .. y - x : x + k \in 1 .. n
    BY <1>1, <2>1
  <2>3. ASSUME NEW k \in 1 .. Len(p) - 1
        PROVE  p[k] < p[k + 1]
    <3>1. k \in 1 .. y - x /\ k + 1 \in 1 .. y - x
      BY <1>1, <2>1
    <3>2. x + k \in 1 .. n /\ x + (k + 1) \in 1 .. n /\ x + k < x + (k + 1)
      BY <1>1, <2>1, <2>2, <3>1
    <3>3. list[x + k] < list[x + (k + 1)]
      BY <1>4, <3>2
    <3>. QED BY <2>1, <3>1, <3>3
  <2>4. ToSet(p) \subseteq us
    <3>1. DOMAIN p = 1 .. y - x
      BY <2>1, LenProperties
    <3>. QED BY <1>4, <2>1, <2>2, <3>1 DEF ToSet
  <2>5. Len(p) <= m
    BY <1>1, <2>1
  <2>. QED BY <2>3, <2>4, <2>5 DEF Ascending, p
<1>7. ASSUME NEW u \in us
      PROVE  \E i \in 1 .. pages : u \in ToSet(page(i))
  <2>1. PICK j \in 1 .. n : list[j] = u
    BY SortedListIsAll DEF n
  <2>. DEFINE i == (j - 1) \div m + 1
              d == (j - 1) \div m
              r == (j - 1) % m
  <2>2. j - 1 = m * d + r /\ r \in 0 .. m - 1 /\ d \in Nat
    <3>1. j - 1 \in Nat
      OBVIOUS
    <3>. QED BY <1>1, <3>1, Division
  <2>3. i = d + 1
    OBVIOUS
  <2>. HIDE DEF d, r, i
  <2>4. d * m = m * d /\ d * m \in Nat /\ (d + 1) * m = d * m + m
    BY <1>1, <2>2
  <2>5. d <= q
    <3>1. SUFFICES ASSUME d > q PROVE FALSE
      BY <1>2, <2>2
    <3>2. (q + 1) * m <= d * m
      <4>1. q + 1 \in Nat /\ q + 1 <= d /\ m \in Nat
        BY <1>1, <1>2, <2>2, <3>1
      <4>. QED BY <2>2, <4>1, MultiplesGrow
    <3>3. (q + 1) * m = q * m + m
      BY <1>1, <1>2
    <3>4. d * m <= j - 1 /\ j - 1 < n
      BY <1>1, <2>2, <2>4
    <3>. QED BY <1>1, <1>3, <2>4, <3>2, <3>3, <3>4
  <2>6. i \in 1 .. pages /\ i - 1 = d
    BY <1>2, <2>2, <2>3, <2>5
  <2>7. a(i) = d * m /\ i * m = d * m + m
    BY <2>3, <2>4, <2>6
  <2>8. r + 1 \in 1 .. b(i) - a(i) /\ a(i) + (r + 1) = j
    <3>. DEFINE x == d * m
    <3>1. x \in Nat /\ j - 1 = x + r /\ a(i) = x /\ i * m = x + m
      BY <2>2, <2>4, <2>7
    <3>. HIDE DEF x
    <3>2. j <= x + m /\ j <= n
      BY <1>1, <2>2, <3>1
    <3>3. b(i) >= j
      BY <1>1, <3>1, <3>2
    <3>4. b(i) \in Int
      BY <1>1, <3>1
    <3>. QED BY <1>1, <2>2, <3>1, <3>3, <3>4
  <2>. DEFINE p == page(i)
              x == a(i)
              y == b(i)
  <2>9. p \in Seq(Nat) /\ Len(p) = y - x /\ p[r + 1] = list[x + (r + 1)]
    BY <1>5, <2>6, <2>8
  <2>. HIDE DEF p, x, y
  <2>10. r + 1 \in 1 .. y - x /\ x + (r + 1) = j
    BY <2>8 DEF x, y
  <2>11. p[r + 1] = u /\ r + 1 \in DOMAIN p
    BY <2>1, <2>9, <2>10, LenProperties
  <2>12. u \in ToSet(p)
    BY <2>11 DEF ToSet
  <2>. QED BY <2>6, <2>12 DEF p
<1>8. UNION {ToSet(page(i)) : i \in 1 .. pages} = us
  <2>. HIDE DEF page, pages
  <2>. QED BY <1>6, <1>7
<1>9. pages \in Nat \ {0}
  BY <1>2
<1>. QED BY <1>5, <1>6, <1>8, <1>9 DEF q, m, n

-----------------------------------------------------------------------------
(* The exchange. *)

SourceTyped == source \in [cid : Nat, name : Nat, preview : BOOLEAN]

SentSendable == \A i \in DOMAIN sent : Sendable(sent[i])

ParsedWithin == parsed = NothingYet \/ WithinLimits(parsed)

\* The source's settings, every packet on the network and every packet parsed.
PacketInv == SourceTyped /\ SentSendable /\ ParsedWithin /\ CallIsCovered

\* A call without packets, or with packets nothing was promised of.
LEMMA NothingToCover ==
  ASSUME call' \in {NothingYet, RefusedCall}
  PROVE  CallIsCovered'
BY DEF NothingYet, RefusedCall, CallIsCovered

\* A data packet of the source can be sent when its values fit.
LEMMA DataPacketSendable ==
  ASSUME SourceTyped, NEW u \in Nat \ {0}, NEW priority \in 0 .. E131_MAX_PRIORITY, NEW sync \in Nat,
         NEW terminated \in BOOLEAN, NEW values \in Seq(Nat), Len(values) <= UNIVERSE_CHANNEL_CAPACITY
  PROVE  Sendable(DataPacket(u, priority, sync, terminated, values))
<1>. DEFINE p == DataPacket(u, priority, sync, terminated, values)
<1>1. source.cid \in Nat /\ source.name \in Nat /\ source.preview \in BOOLEAN
  BY DEF SourceTyped
<1>2. p = [kind |-> "data", cid |-> source.cid, name |-> source.name, priority |-> priority,
           sync |-> sync, seq |-> 0, preview |-> source.preview, terminated |-> terminated,
           universe |-> u, values |-> values]
  BY DEF DataPacket
<1>. HIDE DEF p
<1>3. p \in DataPackets
  BY <1>1, <1>2 DEF DataPackets
<1>4. p.kind = "data" /\ p.values = values
  BY <1>2
<1>5. Packs(p)
  BY <1>4 DEF Packs
<1>. QED BY <1>3, <1>4, <1>5 DEF Sendable, p

\* send: the chunks of the data go to the universes in their order.
LEMMA SendStep ==
  ASSUME PacketInv, NEW us \in UniverseLists, NEW data \in DataLists, NEW priority \in Priorities,
         NEW sync \in SyncAddresses, send(us, data, priority, sync)
  PROVE  SentSendable' /\ CallIsCovered'
<1>. DEFINE c == Chunks(Len(data))
            packets == [i \in 1 .. c |-> DataPacket(us[i], priority, sync, FALSE, Chunk(data, i - 1))]
<1>1. CASE ~ (c <= Len(us) /\ priority <= E131_MAX_PRIORITY)
  <2>1. sent' = <<>> /\ call' = RefusedCall
    BY <1>1 DEF send, Send
  <2>2. DOMAIN <<>> = {}
    OBVIOUS
  <2>. QED BY <2>1, <2>2, NothingToCover DEF SentSendable
<1>2. CASE c <= Len(us) /\ priority <= E131_MAX_PRIORITY
  <2>1. sent' = packets /\ call' = [kind |-> "send", universes |-> us, data |-> data]
    BY <1>2 DEF send, Send
  <2>2. /\ data \in Seq(Nat) /\ data # <<>> /\ us \in Seq(Nat \ {0}) /\ sync \in Nat
        /\ priority \in 0 .. E131_MAX_PRIORITY
    BY <1>2, SourceAssumption, PacketsAssumption
  <2>3. c \in Nat
    <3>1. Len(data) \in Nat \ {0}
      BY <2>2, EmptySeq
    <3>. QED BY <3>1, ChunksHold
  <2>4. /\ \A i \in 1 .. c : Chunk(data, i - 1) \in Seq(Nat)
                             /\ Len(Chunk(data, i - 1)) <= UNIVERSE_CHANNEL_CAPACITY
        /\ FlattenSeq([i \in 1 .. c |-> Chunk(data, i - 1)]) = data
    BY <2>2, ChunksCover
  <2>. HIDE DEF c
  <2>5. \A i \in 1 .. c : us[i] \in Nat \ {0}
    <3>1. Len(us) \in Nat /\ \A i \in 1 .. Len(us) : us[i] \in Nat \ {0}
      BY <2>2, LenProperties, ElementOfSeq
    <3>. QED BY <1>2, <2>3, <3>1
  <2>6. ASSUME NEW i \in 1 .. c
        PROVE  Sendable(packets[i]) /\ packets[i].universe = us[i]
               /\ packets[i].values = Chunk(data, i - 1)
    <3>. DEFINE values == Chunk(data, i - 1)
                u == us[i]
    <3>1. values \in Seq(Nat) /\ Len(values) <= UNIVERSE_CHANNEL_CAPACITY /\ u \in Nat \ {0}
          /\ FALSE \in BOOLEAN
      BY <2>4, <2>5
    <3>2. packets[i] = DataPacket(u, priority, sync, FALSE, values)
      OBVIOUS
    <3>. HIDE DEF values, u, packets
    <3>3. Sendable(DataPacket(u, priority, sync, FALSE, values))
      <4>1. SourceTyped
        BY DEF PacketInv
      <4>. QED BY <2>2, <3>1, <4>1, DataPacketSendable
    <3>4. /\ DataPacket(u, priority, sync, FALSE, values).universe = u
          /\ DataPacket(u, priority, sync, FALSE, values).values = values
      BY DEF DataPacket
    <3>. QED BY <3>2, <3>3, <3>4 DEF values, u
  <2>7. DOMAIN packets = 1 .. c
    OBVIOUS
  <2>. HIDE DEF packets
  <2>8. SentSendable'
    BY <2>1, <2>6, <2>7 DEF SentSendable
  <2>9. CallIsCovered'
    <3>1. [i \in DOMAIN packets |-> packets[i].values] = [i \in 1 .. c |-> Chunk(data, i - 1)]
      BY <2>6, <2>7
    <3>2. FlattenSeq([i \in DOMAIN packets |-> packets[i].values]) = data
      BY <2>4, <3>1
    <3>3. call'.kind = "send" /\ call'.data = data /\ call'.universes = us
      BY <2>1
    <3>. QED BY <2>1, <2>6, <2>7, <3>2, <3>3 DEF CallIsCovered
  <2>. QED BY <2>8, <2>9
<1>. QED BY <1>1, <1>2

\* Synchronisation and termination packets.
LEMMA OnePacketStep ==
  ASSUME PacketInv, NEW u \in SyncAddresses \ {0}, send_sync_packet(u) \/ send_terminate_stream_pkt(u)
  PROVE  SentSendable' /\ CallIsCovered'
<1>1. u \in Nat \ {0}
  BY SourceAssumption
<1>2. CASE send_sync_packet(u)
  <2>. DEFINE p == [kind |-> "sync", cid |-> source.cid, seq |-> 0, sync |-> u]
  <2>1. sent' = <<p>> /\ call' = NothingYet
    BY <1>2 DEF send_sync_packet, Send
  <2>2. p \in SyncPackets /\ p.kind = "sync"
    BY <1>1 DEF SyncPackets, PacketInv, SourceTyped
  <2>. HIDE DEF p
  <2>3. Sendable(p)
    BY <2>2 DEF Sendable, Packs
  <2>. QED BY <2>1, <2>3, NothingToCover DEF SentSendable
<1>3. CASE send_terminate_stream_pkt(u)
  <2>. DEFINE values == <<0>>
              p == DataPacket(u, E131_DEFAULT_PRIORITY, 0, TRUE, values)
  <2>1. sent' = <<p>> /\ call' = NothingYet
    BY <1>3 DEF send_terminate_stream_pkt, Send
  <2>2. values \in Seq(Nat) /\ Len(values) <= UNIVERSE_CHANNEL_CAPACITY /\ 0 \in Nat
        /\ E131_DEFAULT_PRIORITY \in 0 .. E131_MAX_PRIORITY /\ TRUE \in BOOLEAN
    BY PacketsAssumption, SourceAssumption
  <2>. HIDE DEF values
  <2>3. Sendable(p)
    <3>1. SourceTyped
      BY DEF PacketInv
    <3>. QED BY <1>1, <2>2, <3>1, DataPacketSendable
  <2>. HIDE DEF p
  <2>. QED BY <2>1, <2>3, NothingToCover DEF SentSendable
<1>. QED BY <1>2, <1>3

\* Adverts.
LEMMA AdvertStep ==
  ASSUME PacketInv, NEW us \in Registered, send_universe_discovery(us)
  PROVE  SentSendable' /\ CallIsCovered'
<1>. DEFINE m == DISCOVERY_UNI_PER_PAGE
            pages == Cardinality(us) \div m + 1
            Page(list, i) == Part(list, i - 1, m)
            Packet(list, i) == [kind |-> "discovery", cid |-> source.cid, name |-> source.name,
                                page |-> i - 1, last_page |-> pages - 1, universes |-> Page(list, i)]
<1>1. us \in SUBSET Nat /\ IsFiniteSet(us)
  BY SourceAssumption
<1>2. PICK list \in [1 .. Cardinality(us) -> us] :
        /\ \A i, j \in DOMAIN list : i < j => list[i] < list[j]
        /\ sent' = [i \in 1 .. pages |-> Packet(list, i)]
        /\ call' = [kind |-> "advert", universes |-> us]
  BY DEF send_universe_discovery, Send
<1>. DEFINE page(i) == Page(list, i)
<1>3. /\ pages \in Nat \ {0}
      /\ \A i \in 1 .. pages :
           page(i) \in Seq(Nat) /\ Len(page(i)) <= m /\ Ascending(page(i))
      /\ UNION {ToSet(page(i)) : i \in 1 .. pages} = us
  BY <1>1, <1>2, PagesCover
<1>4. \A i \in 1 .. pages : sent'[i] = [kind |-> "discovery", cid |-> source.cid, name |-> source.name,
                              page |-> i - 1, last_page |-> pages - 1, universes |-> page(i)]
  BY <1>2
<1>5. DOMAIN sent' = 1 .. pages /\ Len(sent') = pages
  <2>. HIDE DEF pages, Packet
  <2>. QED BY <1>2, <1>3
<1>. HIDE DEF page, pages, Page, Packet
<1>6. ASSUME NEW i \in 1 .. pages
      PROVE  Sendable(sent'[i])
  <2>. DEFINE p == sent'[i]
              l == page(i)
  <2>1. l \in Seq(Nat) /\ Len(l) <= m /\ Ascending(l) /\ i - 1 \in Nat /\ pages - 1 \in Nat
        /\ i - 1 <= pages - 1
    BY <1>3
  <2>2. p = [kind |-> "discovery", cid |-> source.cid, name |-> source.name,
             page |-> i - 1, last_page |-> pages - 1, universes |-> l]
    BY <1>4
  <2>3. source.cid \in Nat /\ source.name \in Nat
    BY DEF PacketInv, SourceTyped
  <2>. HIDE DEF p, l
  <2>4. p \in DiscoveryPackets /\ p.page <= p.last_page
    BY <2>1, <2>2, <2>3 DEF DiscoveryPackets
  <2>5. p.kind = "discovery" /\ p.universes = l
    BY <2>2
  <2>6. Packs(p)
    BY <2>1, <2>5 DEF Packs, m
  <2>. QED BY <2>4, <2>6 DEF Sendable, p
<1>7. CallIsCovered'
  <2>1. call'.kind = "advert" /\ call'.universes = us
    BY <1>2
  <2>2. ASSUME NEW i \in 1 .. pages
        PROVE  sent'[i].universes = page(i) /\ sent'[i].page = i - 1 /\ sent'[i].last_page = pages - 1
    <3>. DEFINE p == sent'[i]
                l == page(i)
                x == i - 1
                y == pages - 1
    <3>1. p = [kind |-> "discovery", cid |-> source.cid, name |-> source.name,
               page |-> x, last_page |-> y, universes |-> l]
      BY <1>4
    <3>. HIDE DEF p, l, x, y
    <3>2. p.universes = l /\ p.page = x /\ p.last_page = y
      BY <3>1
    <3>. QED BY <3>2 DEF p, l, x, y
  <2>3. {ToSet(sent'[i].universes) : i \in 1 .. pages} = {ToSet(page(i)) : i \in 1 .. pages}
    BY <2>2
  <2>4. UNION {ToSet(sent'[i].universes) : i \in DOMAIN sent'} = us
    BY <1>3, <1>5, <2>3
  <2>. QED BY <1>5, <2>1, <2>2, <2>4 DEF CallIsCovered
<1>. QED BY <1>5, <1>6, <1>7 DEF SentSendable

\* Settings and calls change the source and what is sent; a receive changes
\* what was parsed.
LEMMA PacketStep ==
  ASSUME PacketInv, [Next]_vars
  PROVE  PacketInv'
<1>1. CASE \E us \in UniverseLists, data \in DataLists, priority \in Priorities, sync \in SyncAddresses :
             send(us, data, priority, sync)
  <2>1. SentSendable' /\ CallIsCovered'
    BY <1>1, SendStep
  <2>2. UNCHANGED <<source, parsed>>
    BY <1>1 DEF send, Send
  <2>. QED BY <2>1, <2>2 DEF PacketInv, SourceTyped, ParsedWithin
<1>2. CASE \E u \in SyncAddresses \ {0} : send_sync_packet(u) \/ send_terminate_stream_pkt(u)
  <2>1. SentSendable' /\ CallIsCovered'
    BY <1>2, OnePacketStep
  <2>2. UNCHANGED <<source, parsed>>
    BY <1>2 DEF send_sync_packet, send_terminate_stream_pkt, Send
  <2>. QED BY <2>1, <2>2 DEF PacketInv, SourceTyped, ParsedWithin
<1>3. CASE \E us \in Registered : send_universe_discovery(us)
  <2>1. SentSendable' /\ CallIsCovered'
    BY <1>3, AdvertStep
  <2>2. UNCHANGED <<source, parsed>>
    BY <1>3 DEF send_universe_discovery, Send
  <2>. QED BY <2>1, <2>2 DEF PacketInv, SourceTyped, ParsedWithin
<1>4. CASE \/ \E cid \in Cids : set_cid(cid)
           \/ \E name \in Names : set_name(name)
           \/ \E preview_mode \in BOOLEAN : set_preview_mode(preview_mode)
  <2>1. SourceTyped'
    BY <1>4, SourceAssumption DEF PacketInv, SourceTyped, set_cid, set_name, set_preview_mode, Set, Send
  <2>2. sent' = <<>> /\ call' \in {NothingYet, RefusedCall} /\ UNCHANGED parsed
    BY <1>4 DEF set_cid, set_name, set_preview_mode, Set, Send
  <2>3. DOMAIN <<>> = {}
    OBVIOUS
  <2>4. SentSendable'
    BY <2>2, <2>3 DEF SentSendable
  <2>. QED BY <2>1, <2>2, <2>4, NothingToCover DEF PacketInv, ParsedWithin
<1>5. CASE \E i \in DOMAIN sent : Receive(sent[i])
  <2>1. PICK i \in DOMAIN sent : Receive(sent[i])
    BY <1>5
  <2>. DEFINE p == sent[i]
  <2>2. Sendable(p)
    BY <2>1 DEF PacketInv, SentSendable
  <2>3. parsed' = parse(Buffered(pack(p))) /\ UNCHANGED <<source, sent, call>>
    BY <2>1 DEF Receive
  <2>. HIDE DEF p
  <2>4. WithinLimits(parse(Buffered(pack(p))))
    BY <2>2, ReceivedAsSent, ParseWithin
  <2>5. ParsedWithin'
    BY <2>3, <2>4 DEF ParsedWithin
  <2>. QED BY <2>3, <2>5 DEF PacketInv, SourceTyped, SentSendable, CallIsCovered
<1>6. CASE UNCHANGED vars
  BY <1>6 DEF vars, PacketInv, SourceTyped, SentSendable, ParsedWithin, CallIsCovered
<1>. QED BY <1>1, <1>2, <1>3, <1>4, <1>5, <1>6 DEF Next

\* A source that has sent nothing.
LEMMA PacketInit ==
  ASSUME Init
  PROVE  PacketInv
<1>1. SourceTyped
  BY SourceAssumption DEF Init, SourceTyped
<1>2. SentSendable
  <2>1. DOMAIN <<>> = {}
    OBVIOUS
  <2>. QED BY <2>1 DEF Init, SentSendable
<1>3. ParsedWithin /\ CallIsCovered
  BY DEF Init, ParsedWithin, CallIsCovered, NothingYet
<1>. QED BY <1>1, <1>2, <1>3 DEF PacketInv

\* Every reachable state is within the limits.
LEMMA PacketInvHolds == Spec => []PacketInv
BY PacketInit, PacketStep, PTL DEF Spec

\* parse of packet.rs lets no universe, address, priority, number of values,
\* page or list through that is out of range.
THEOREM ParsedIsWithinLimits == Spec => []TypeOK
<1>1. PacketInv => TypeOK
  BY DEF PacketInv, ParsedWithin, WithinLimits, TypeOK, NothingYet
<1>. QED BY <1>1, PacketInvHolds, PTL

\* pack of packet.rs, whose result send_universe and terminate_stream of
\* source.rs unwrap, succeeds for every packet a source makes.
THEOREM PackingNeverFails == Spec => []PackNeverFails
<1>1. PacketInv => PackNeverFails
  BY DEF PacketInv, SentSendable, Sendable, PackNeverFails
<1>. QED BY <1>1, PacketInvHolds, PTL

\* send and send_universe_discovery of source.rs put all the data and all the
\* universes into their packets, in order and once, however they split.
THEOREM CallsAreCovered == Spec => []CallIsCovered
<1>1. PacketInv => CallIsCovered
  BY DEF PacketInv
<1>. QED BY <1>1, PacketInvHolds, PTL

\* recv of receive.rs, which parses its whole buffer behind the datagram it
\* read, takes each for what the source meant, or refuses what no receiver
\* accepts.
THEOREM PacketsAreUnderstood == Spec => UnderstoodAsSent
<1>1. PacketInv /\ [Next]_vars =>
        [\A i \in DOMAIN sent :
           Receive(sent[i]) => parsed' = IF Acceptable(sent[i]) THEN sent[i] ELSE Refused]_vars
  <2>1. ASSUME PacketInv, NEW i \in DOMAIN sent, Receive(sent[i])
        PROVE  parsed' = IF Acceptable(sent[i]) THEN sent[i] ELSE Refused
    <3>. DEFINE p == sent[i]
    <3>1. Sendable(p)
      BY <2>1 DEF PacketInv, SentSendable
    <3>2. parsed' = parse(Buffered(pack(p)))
      BY <2>1 DEF Receive
    <3>. HIDE DEF p
    <3>3. parse(Buffered(pack(p))) = IF Acceptable(p) THEN p ELSE Refused
      BY <3>1, ReceivedAsSent
    <3>. QED BY <3>2, <3>3 DEF p
  <2>. QED BY <2>1
<1>. QED BY <1>1, PacketInvHolds, PTL DEF Spec, UnderstoodAsSent

=============================================================================
