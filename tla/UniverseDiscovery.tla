-------------------------- MODULE UniverseDiscovery --------------------------
(***************************************************************************)
(* Universe discovery from end to end: the adverts a source's update       *)
(* thread sends (src/source.rs), a network that may lose and reorder       *)
(* datagrams, and the records a receiver makes of them (src/receive.rs).   *)
(*                                                                         *)
(* A tick is the 2.5 s after which the receiver lets a record expire, so a *)
(* datagram arrives or is lost within a tick; an advert is sent every 10 s *)
(* or, when it fails, again after 1 s.  Sources do not share records, so   *)
(* one source is enough.                                                   *)
(***************************************************************************)
EXTENDS DiscoveryRecords, FiniteSetsExt

CONSTANTS
  Universes,         \* universes the source may register: numbers, as pages are sorted
  PerPage,           \* DISCOVERY_UNI_PER_PAGE
  cid,               \* the source
  AdvertInterval,    \* E131_UNIVERSE_DISCOVERY_INTERVAL in ticks
  Terminations,      \* E131_TERMINATE_STREAM_PACKET_COUNT
  Faults,            \* bound: datagrams the network loses and sends that fail
  MaxPages           \* bound: pages kept of the partial source

ASSUME DiscoveryAssumption ==
  /\ Universes \subseteq Nat /\ IsFiniteSet(Universes)
  /\ PerPage \in Nat \ {0} /\ Terminations \in Nat \ {0}
  /\ AdvertInterval \in Nat /\ Timeout <= AdvertInterval   \* 10 s, and 2.5 s
  /\ Faults \in Nat /\ MaxPages \in Nat

VARIABLES
  universes,   \* of the source: what is registered
  since,       \* time since last_discovery_advert_timestamp
  net,         \* datagrams sent and not yet received or lost
  partial,     \* partially_discovered_sources of the receiver
  discovered,  \* discovered_sources of the receiver
  faults,      \* how many datagrams were lost and sends failed
  latest,      \* history: the universes of the latest advert
  heard,       \* history: the universes of the advert that completed the record discovered
               \* last, less those of which terminations were received since
  whole,       \* history: every page of the latest advert was sent and none lost
  gone,        \* history: universes terminated since the latest advert
  fresh,       \* history: the latest advert found no incomplete record of an earlier one
  mixing,      \* history: the incomplete record has outlived a change of what is advertised
  mixed        \* history: the record discovered last was completed from such a one

source == <<universes, since>>
history == <<latest, whole, gone, fresh>>
completion == <<mixing, mixed, heard>>
vars == <<source, net, partial, discovered, faults, history, completion>>

Init ==
  /\ universes = {} /\ since = 0 /\ net = {}
  /\ partial = [c \in {} |-> c] /\ discovered = [c \in {} |-> c]
  /\ faults = 0 /\ latest = {} /\ heard = {} /\ whole = FALSE /\ gone = {}
  /\ fresh = TRUE /\ mixing = FALSE /\ mixed = FALSE

-----------------------------------------------------------------------------
(* The source. *)

Rank(u) == Cardinality({v \in universes : v < u})

\* Mutant of Slice: a full page loses its last universe.
Slice_one_short(p) == {u \in universes : Rank(u) \div PerPage = p /\ (Rank(u) + 1) % PerPage # 0}

\* The slice of the sorted list that page p carries.
Slice(p) == {u \in universes : Rank(u) \div PerPage = p}

\* A full last page is followed by an empty one.
pages_req == (Cardinality(universes) \div PerPage) + 1

\* Mutant of PageDatagram: the last page is that of the unrounded count.
PageDatagram_unrounded(p) ==
  [kind |-> "discovery", page |-> p, last_page |-> pages_req - 2, universes |-> Slice(p)]

PageDatagram(p) ==
  [kind |-> "discovery", page |-> p, last_page |-> pages_req - 1, universes |-> Slice(p)]
TerminateDatagram(u, n) == [kind |-> "terminate", universe |-> u, copy |-> n]

register_universe(u) ==
  /\ u \notin universes
  /\ universes' = universes \cup {u}
  /\ UNCHANGED <<since, net, partial, discovered, faults, history, completion>>

\* A packet that cannot be sent leaves the universe registered.
terminate_stream(u) ==
  /\ u \in universes /\ \A d \in net : d.kind = "terminate" => d.universe # u
  /\ \E sent \in 0 .. Terminations :
       /\ sent < Terminations => faults < Faults
       /\ faults' = IF sent < Terminations THEN faults + 1 ELSE faults
       /\ net' = net \cup {TerminateDatagram(u, n) : n \in 1 .. sent}
       /\ universes' = IF sent = Terminations THEN universes \ {u} ELSE universes
       /\ gone' = IF sent = 0 THEN gone ELSE gone \cup {u}
  /\ UNCHANGED <<since, partial, discovered, latest, whole, fresh, completion>>

\* perform_periodic_update and send_universe_discovery: the first page that
\* cannot be sent ends the advert, which stays due.
Advertise ==
  /\ since = AdvertInterval /\ net = {}
  /\ \E sent \in 0 .. pages_req :
       /\ sent < pages_req => faults < Faults
       /\ faults' = IF sent < pages_req THEN faults + 1 ELSE faults
       /\ net' = {PageDatagram(p) : p \in 0 .. sent - 1}
       /\ since' = IF sent < pages_req THEN since ELSE 0
       /\ whole' = (sent = pages_req)
  /\ latest' = universes
  /\ gone' = {}
  /\ fresh' = (cid \notin DOMAIN partial)
  /\ mixing' = (cid \in DOMAIN partial /\ (mixing \/ universes # latest))
  /\ UNCHANGED <<universes, partial, discovered, mixed, heard>>

-----------------------------------------------------------------------------
(* The network and the receiver. *)

Tick ==
  /\ net = {}
  /\ since' = IF since = AdvertInterval THEN since ELSE since + 1
  /\ partial' = AgedRecords(partial) /\ discovered' = AgedRecords(discovered)
  /\ UNCHANGED <<universes, net, faults, history, completion>>

Lose(d) ==
  /\ faults < Faults
  /\ faults' = faults + 1
  /\ net' = net \ {d}
  /\ whole' = (whole /\ d.kind # "discovery")
  /\ UNCHANGED <<source, partial, discovered, latest, gone, fresh, completion>>

ReceivePage(d) ==
  LET r == handle_universe_discovery_packet(
             partial, discovered, cid, UniversePage(d.page, d.universes), d.last_page)
  IN /\ d.kind = "discovery"
     /\ \A c \in DOMAIN r.partial : Len(r.partial[c].pages) <= MaxPages
     /\ partial' = r.partial
     /\ discovered' = r.discovered
     /\ net' = net \ {d}
     /\ mixing' = (mixing /\ ~ r.found)
     /\ mixed' = IF r.found THEN mixing ELSE mixed
     /\ heard' = IF r.found THEN latest ELSE heard
     /\ UNCHANGED <<source, faults, history>>

\* The record part of the receiver's terminate_stream.
ReceiveTermination(d) ==
  /\ d.kind = "terminate"
  /\ discovered' = IF cid \in DOMAIN discovered
                   THEN [discovered EXCEPT ![cid] = terminate_universe(@, d.universe)]
                   ELSE discovered
  /\ net' = net \ {d}
  /\ heard' = heard \ {d.universe}
  /\ UNCHANGED <<source, partial, faults, history, mixing, mixed>>

\* The user asks for the list.
get_discovered_sources ==
  /\ partial' = WithoutExpired(partial) /\ discovered' = WithoutExpired(discovered)
  /\ mixing' = (mixing /\ cid \in DOMAIN partial')
  /\ UNCHANGED <<source, net, faults, history, mixed, heard>>

Next ==
  \/ \E u \in Universes : register_universe(u) \/ terminate_stream(u)
  \/ Advertise
  \/ Tick
  \/ get_discovered_sources
  \/ \E d \in net : Lose(d) \/ ReceivePage(d) \/ ReceiveTermination(d)

Spec == Init /\ [][Next]_vars

(***************************************************************************)
(* The update thread polls, time passes, and a datagram that is not lost   *)
(* arrives.                                                                *)
(***************************************************************************)
FairSpec ==
  /\ Spec
  /\ WF_vars(Tick) /\ WF_vars(Advertise)
  /\ WF_vars(\E d \in net : ReceivePage(d) \/ ReceiveTermination(d))

-----------------------------------------------------------------------------

Listed == IF cid \in DOMAIN discovered THEN get_all_universes(discovered[cid]) ELSE {}

\* The source has at most the pages of one advert in flight, and the receiver
\* keeps pages and records of that source only.
TypeOK ==
  /\ universes \subseteq Universes /\ since \in 0 .. AdvertInterval
  /\ \A d \in net : IF d.kind = "discovery"
                    THEN d.page \in 0 .. d.last_page /\ d.universes \subseteq Universes
                    ELSE d.universe \in Universes /\ d.copy \in 1 .. Terminations
  /\ \A r \in {partial, discovered} :
       /\ DOMAIN r \subseteq {cid}
       /\ \A c \in DOMAIN r : \A i \in DOMAIN r[c].pages : r[c].pages[i].universes \subseteq Universes
  /\ faults \in 0 .. Faults /\ latest \subseteq Universes /\ heard \subseteq Universes
  /\ gone \subseteq Universes
  /\ whole \in BOOLEAN /\ fresh \in BOOLEAN /\ mixing \in BOOLEAN /\ mixed \in BOOLEAN

\* An advert that leaves whole while the receiver keeps no incomplete record
\* of an earlier one, and of which nothing is lost, is listed once its pages
\* have arrived, in whatever order: all its universes, except those terminated
\* since, until the records of that advert expire.
CompleteAdvertIsListed ==
  whole /\ fresh /\ net = {} /\ since < Timeout => latest \ gone \subseteq Listed /\ Listed \subseteq latest

\* Whatever pages are lost or repeated, what a receiver lists is exactly the
\* advert whose page completed the record, less the universes of which it has
\* received terminations since, unless the source's universes changed while
\* the receiver kept the incomplete record that it then listed.
ListedWasAdvertised == cid \in DOMAIN discovered /\ ~ mixed => Listed = heard

\* When the source terminates no more streams, every universe it registers
\* is listed by the receiver again and again, whatever was lost or failed
\* before and however often records expire, as long as the receiver does not
\* keep an incomplete record for ever.
EventuallyListed ==
  /\ <>[][\A u \in Universes : ~ terminate_stream(u)]_vars
  /\ []<>(net = {} /\ cid \notin DOMAIN partial)
  => \A u \in Universes : (u \in universes) ~> (u \in Listed \/ u \notin universes)

-----------------------------------------------------------------------------
(* What receive.rs says of lost pages, which the code does not do. *)

\* "if a discovery packet is received but there are more pages the source
\* won't be discovered until all the pages are received": an advert of which
\* no page is lost is listed once all are received.
WholeAdvertIsListed ==
  whole /\ net = {} /\ since < Timeout => latest \ gone \subseteq Listed

\* "If a page is lost this therefore means the source update / discovery in
\* its entirety will be lost": no part of an advert of which a page was lost
\* is listed, so what is listed is always the one advert that arrived.
OnlyAdvertsAreListed == cid \in DOMAIN discovered => Listed = heard
=============================================================================
