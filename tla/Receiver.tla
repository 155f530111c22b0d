------------------------------ MODULE Receiver ------------------------------
(***************************************************************************)
(* SacnReceiver of src/receive.rs.  The methods take &mut self, so one     *)
(* call runs at a time; what interleaves with the steps of a recv call is  *)
(* the clock and the packets, in any order, with any sequence number, any  *)
(* number of times.  pc says where the recv call is:                       *)
(*   idle    no call is running: the user may make one                     *)
(*   loop    at the top of the loop of recv                                *)
(*   socket  blocked in SacnNetworkReceiver::recv                          *)
(*   dropped the receiver went out of scope                                *)
(* Time passes only while the code waits: in the socket or in the user.    *)
(***************************************************************************)
EXTENDS NetworkReceiver, WaitingData, DiscoveryRecords

CONSTANTS
  DataUniverses, SyncUniverses,   \* universes that packets of each kind carry
  DiscoveryUniverse,              \* E131_DISCOVERY_UNIVERSE
  NoSync,                         \* E131_NO_SYNC_ADDR
  AnnounceModes,                  \* BOOLEAN: announce_timeout may be either
  Forever,                        \* a recv timeout of None
  RecvTimeouts,                   \* the timeouts recv is called with, in ticks
  ListenCalls,                    \* the lists listen_universes is called with
  MuteCalls,                      \* the universes mute_universe is called with
  UserCalls,                      \* the other methods the user calls
  DataPackets,                    \* the data packets sources send, but for the number
  DiscoveryPackets,               \* the discovery packets sources send
  MaxPages                        \* bound: pages kept of one partial source

ASSUME ForeverAssumption == Forever \notin Int
ASSUME TimeoutsAssumption == RecvTimeouts \subseteq Nat \cup {Forever}
ASSUME UniversesAssumption ==
  /\ DataUniverses \subseteq Universes /\ SyncUniverses \subseteq Universes
  /\ DiscoveryUniverse \in Universes /\ NoSync \notin Universes
ASSUME AnnounceAssumption ==
  /\ FALSE \in AnnounceModes /\ AnnounceModes \subseteq BOOLEAN
  /\ "announce_timeout" \in UserCalls => TRUE \in AnnounceModes
ASSUME ListsAssumption == \A us \in ListenCalls : Len(us) \in Nat

(***************************************************************************)
(* What the parser lets through: a synchronisation address in range is one *)
(* that synchronisation packets carry; one out of range is none.           *)
(***************************************************************************)
ASSUME PacketsAssumption ==
  /\ \A p \in DataPackets :
       /\ p.src \in Sources /\ p.universe \in DataUniverses
       /\ p.sync \in Universes => p.sync \in SyncUniverses
       /\ p.priority \in Nat /\ p.values \in Seq(Nat)
       /\ p.preview \in BOOLEAN /\ p.terminated \in BOOLEAN
  /\ \A p \in DiscoveryPackets :
       /\ p.src \in Sources /\ p.universes \subseteq Universes
       /\ p.page \in Nat /\ p.last_page \in Nat

VARIABLES
  pc, remaining, sockwait,        \* where recv is, time left to its deadline and to
                                  \* the socket timeout
  outcome,                        \* what the last call of the user returned
  universes, joined,              \* universes listened to; multicast groups joined
  waiting_data, merge_func,
  discovered_sources, partially_discovered_sources,
  flags,                          \* the five Boolean settings
  data_sequences, sync_sequences, call, ret   \* the SequenceNumbering

Tracker == INSTANCE SequenceNumbering

tracker == <<data_sequences, sync_sequences, call, ret>>
discovery == <<discovered_sources, partially_discovered_sources>>
control == <<pc, remaining, sockwait>>
vars == <<control, outcome, universes, joined, waiting_data, merge_func,
          discovery, flags, tracker>>

Flags == {"process_preview_data", "announce_source_discovery",
          "announce_stream_termination", "announce_timeout", "is_multicast_enabled"}

NoOutcome == [res |-> "None"]
Data(d) == [res |-> "Data", data |-> d]
UniverseTerminated(s, u) == [res |-> "UniverseTerminated", src |-> s, uni |-> u]

-----------------------------------------------------------------------------

\* with_ip: the discovery universe is joined, if groups can be, or there is no
\* receiver.
Init ==
  /\ pc = "idle" /\ remaining = Forever /\ sockwait = 0
  /\ outcome = NoOutcome
  /\ universes = {DiscoveryUniverse}
  /\ joined = IF MulticastSupported THEN Groups({DiscoveryUniverse}) ELSE {}
  /\ waiting_data = EmptyMap /\ merge_func = "default"
  /\ discovered_sources = EmptyMap /\ partially_discovered_sources = EmptyMap
  /\ flags = [f \in Flags |-> f = "is_multicast_enabled" /\ MulticastSupported]
  /\ Tracker!Init

(***************************************************************************)
(* listen_universes.  A universe enters the list before its group is       *)
(* joined, and the first join that fails ends the call.  A universe out of *)
(* range, one that is not in Universes, ends the call before it changes    *)
(* anything.                                                               *)
(***************************************************************************)
Listed(us, k) == {us[i] : i \in 1 .. k}
Fresh(us, k) == Listed(us, k) \ universes
InRange(us) == Listed(us, Len(us)) \subseteq Universes

\* Mutant of Listen: the address of held data is not registered.
Listen_unregistered(us) == UNCHANGED <<universes, joined>>

Listen(us) ==
  LET enabled == flags["is_multicast_enabled"] IN
  /\ InRange(us)
  /\ enabled => Groups(Fresh(us, Len(us))) \cap joined = {}
  /\ universes' = universes \cup Listed(us, Len(us))
  /\ joined' = joined \cup IF enabled THEN Groups(Fresh(us, Len(us))) ELSE {}

ListenFails(us) ==
  /\ InRange(us)
  /\ flags["is_multicast_enabled"]
  /\ \E k \in 1 .. Len(us) :
       /\ us[k] \notin universes \cup Listed(us, k - 1)
       /\ Groups(Fresh(us, k - 1)) \cap joined = {}
       /\ universes' = universes \cup Listed(us, k)
       /\ \E o \in listen_multicast_universe(joined \cup Groups(Fresh(us, k - 1)), us[k]) :
            o.ret = Io /\ joined' = o.joined

-----------------------------------------------------------------------------
(* Calls of the user other than recv. *)

UserCall(name) == pc = "idle" /\ name \in UserCalls

listen_universes(us) ==
  /\ pc = "idle"
  /\ \/ Listen(us) /\ outcome' = Ok
     \/ ListenFails(us) /\ outcome' = Io
     \/ ~ InRange(us) /\ outcome' = Result("IllegalUniverse") /\ UNCHANGED <<universes, joined>>
  /\ UNCHANGED <<control, waiting_data, merge_func, discovery, flags, tracker>>

\* Mutant of mute_universe: the group is left but the universe stays listed.
mute_universe_listed(u) ==
  /\ pc = "idle" /\ u \in universes
  /\ \E o \in mute_multicast_universe(joined, u) : joined' = o.joined /\ outcome' = o.ret
  /\ UNCHANGED <<control, universes, waiting_data, merge_func, discovery, flags, tracker>>

\* The universe leaves the list first; leaving the group may then fail.
mute_universe(u) ==
  /\ pc = "idle"
  /\ \/ /\ u \notin universes
        /\ outcome' = IF InRange(<<u>>) THEN UniverseNotFound ELSE Result("IllegalUniverse")
        /\ UNCHANGED <<universes, joined>>
     \/ /\ u \in universes
        /\ universes' = universes \ {u}
        /\ \E o \in mute_multicast_universe(joined, u) : joined' = o.joined /\ outcome' = o.ret
  /\ UNCHANGED <<control, waiting_data, merge_func, discovery, flags, tracker>>

\* Mutant of reset_sources: the synchronisation sequences are kept.
reset_sources_data_only ==
  /\ UserCall("reset_sources")
  /\ data_sequences' = EmptyMap /\ call' = "clear" /\ ret' = Ok
  /\ discovered_sources' = EmptyMap /\ partially_discovered_sources' = EmptyMap
  /\ outcome' = Ok
  /\ UNCHANGED <<control, universes, joined, waiting_data, merge_func, flags, sync_sequences>>

reset_sources ==
  /\ UserCall("reset_sources")
  /\ Tracker!clear
  /\ discovered_sources' = EmptyMap /\ partially_discovered_sources' = EmptyMap
  /\ outcome' = Ok
  /\ UNCHANGED <<control, universes, joined, waiting_data, merge_func, flags>>

\* clear_all_waiting_data, or clear_waiting_data of one universe
ClearWaiting ==
  /\ UserCall("clear_waiting_data")
  /\ \/ waiting_data' = EmptyMap
     \/ \E u \in DataUniverses : waiting_data' = clear_waiting_data(waiting_data, u)
  /\ outcome' = Ok
  /\ UNCHANGED <<control, universes, joined, merge_func, discovery, flags, tracker>>

set_merge_fn(fn) ==
  /\ UserCall("set_merge_fn")
  /\ merge_func' = fn
  /\ outcome' = Ok
  /\ UNCHANGED <<control, universes, joined, waiting_data, discovery, flags, tracker>>

SetFlag(f, val) ==
  /\ UserCall(f) /\ f # "is_multicast_enabled"
  /\ flags' = [flags EXCEPT ![f] = val]
  /\ outcome' = Ok
  /\ UNCHANGED <<control, universes, joined, waiting_data, merge_func, discovery, tracker>>

SetMulticast(val) ==
  LET o == set_is_multicast_enabled(flags["is_multicast_enabled"], val) IN
  /\ UserCall("is_multicast_enabled")
  /\ flags' = [flags EXCEPT !["is_multicast_enabled"] = o.enabled]
  /\ outcome' = o.ret
  /\ UNCHANGED <<control, universes, joined, waiting_data, merge_func, discovery, tracker>>

set_ipv6_only ==
  /\ UserCall("set_ipv6_only")
  /\ outcome' \in set_only_v6
  /\ UNCHANGED <<control, universes, joined, waiting_data, merge_func, discovery, flags, tracker>>

\* get_discovered_sources calls remove_expired_sources, the only place that
\* forgets a discovered source.
get_discovered_sources ==
  /\ UserCall("get_discovered_sources")
  /\ discovered_sources' = WithoutExpired(discovered_sources)
  /\ partially_discovered_sources' = WithoutExpired(partially_discovered_sources)
  /\ outcome' = Ok
  /\ UNCHANGED <<control, universes, joined, waiting_data, merge_func, flags, tracker>>

\* Drop for SacnReceiver: every universe listened to is muted; what cannot be
\* left is ignored.  The universes are distinct, and so are their groups.
drop ==
  /\ UserCall("drop")
  /\ pc' = "dropped"
  /\ universes' = {}
  /\ \E left \in SUBSET universes :
       /\ \A u \in left : \E o \in mute_multicast_universe(joined, u) : o.ret = Ok
       /\ joined' = joined \ Groups(left)
  /\ outcome' = NoOutcome
  /\ UNCHANGED <<remaining, sockwait, waiting_data, merge_func, discovery, flags, tracker>>

-----------------------------------------------------------------------------
(* recv. *)

Return(o) ==
  /\ pc' = "idle" /\ remaining' = Forever /\ sockwait' = 0
  /\ outcome' = o

\* Ok(None) from a handler, or the socket timeout: once more round the loop.
GoRound ==
  /\ pc' = "loop" /\ sockwait' = 0
  /\ UNCHANGED <<remaining, outcome>>

NothingToReceive(t) ==
  universes = {DiscoveryUniverse} /\ t = Forever /\ ~ flags["announce_source_discovery"]

recv(t) ==
  /\ pc = "idle"
  /\ UNCHANGED <<universes, joined, merge_func, discovery, flags>>
  /\ \/ /\ NothingToReceive(t)
        /\ outcome' = Result("NoDataUniversesRegistered")
        /\ UNCHANGED <<control, waiting_data, tracker>>
     \/ /\ t = 0   \* timeouts are checked, but nothing is received
        /\ Tracker!check_timeouts(flags["announce_timeout"])
        /\ waiting_data' = IF ret' = Ok THEN check_waiting_data_timeouts(waiting_data)
                           ELSE waiting_data
        /\ outcome' = IF ret' = Ok THEN Result("WouldBlock") ELSE ret'
        /\ UNCHANGED control
     \/ /\ t # 0 /\ ~ NothingToReceive(t)
        /\ pc' = "loop" /\ remaining' = t
        /\ outcome' = NoOutcome
        /\ UNCHANGED <<sockwait, waiting_data, tracker>>

\* Mutants of ActualTimeout: not cut to the deadline, not cut to the data loss timeout.
ActualTimeout_no_deadline == Timeout
ActualTimeout_no_loss == IF remaining = Forever THEN Timeout ELSE remaining

\* The socket timeout: what is left to the deadline, at most the data loss timeout.
ActualTimeout == IF remaining = Forever \/ remaining > Timeout THEN Timeout ELSE remaining

\* Mutant of RecvLoop: the deadline is computed afresh and never reached.
RecvLoop_no_deadline ==
  /\ pc = "loop"
  /\ Tracker!check_timeouts(flags["announce_timeout"])
  /\ ret' = Ok
  /\ waiting_data' = check_waiting_data_timeouts(waiting_data)
  /\ pc' = "socket" /\ sockwait' = Timeout /\ remaining' = Timeout
  /\ UNCHANGED <<outcome, universes, joined, merge_func, discovery, flags>>

\* From the top of the loop to the socket.
RecvLoop ==
  /\ pc = "loop"
  /\ UNCHANGED <<universes, joined, merge_func, discovery, flags>>
  /\ Tracker!check_timeouts(flags["announce_timeout"])
  /\ \/ /\ ret' # Ok
        /\ Return(ret')
        /\ UNCHANGED waiting_data
     \/ /\ ret' = Ok
        /\ waiting_data' = check_waiting_data_timeouts(waiting_data)
        /\ IF remaining # Forever /\ remaining <= 0
           THEN Return(Result("WouldBlock"))
           ELSE /\ pc' = "socket" /\ sockwait' = ActualTimeout
                /\ UNCHANGED <<remaining, outcome>>

SocketTimeout ==
  /\ pc = "socket" /\ sockwait = 0
  /\ GoRound
  /\ UNCHANGED <<universes, joined, waiting_data, merge_func, discovery, flags, tracker>>

\* Any other error of the socket, or a datagram that does not parse.
SocketError ==
  /\ pc = "socket"
  /\ Return(Io)
  /\ UNCHANGED <<universes, joined, waiting_data, merge_func, discovery, flags, tracker>>

-----------------------------------------------------------------------------
(* Time. *)

\* A tick: every Instant is older, and a recv that waits is nearer its end.
Tick ==
  /\ \/ /\ pc = "idle"
        /\ outcome' = NoOutcome
        /\ UNCHANGED control
     \/ /\ pc = "socket" /\ sockwait > 0
        /\ sockwait' = sockwait - 1
        /\ remaining' = IF remaining = Forever THEN Forever ELSE remaining - 1
        /\ UNCHANGED <<pc, outcome>>
  /\ Tracker!Tick
  /\ waiting_data' = AgedWaiting(waiting_data)
  /\ discovered_sources' = AgedRecords(discovered_sources)
  /\ partially_discovered_sources' = AgedRecords(partially_discovered_sources)
  /\ UNCHANGED <<universes, joined, merge_func, flags>>

-----------------------------------------------------------------------------
(* handle_data_packet: one operator for each way out of it. *)

Previewed(p) == p.preview /\ ~ flags["process_preview_data"]

IgnorePreview(p) ==
  /\ Previewed(p)
  /\ GoRound
  /\ UNCHANGED <<universes, joined, waiting_data, discovered_sources, tracker>>

\* Comes before the check that the universe is listened to.
terminate_stream(p) ==
  /\ ~ Previewed(p) /\ p.terminated
  /\ Tracker!remove_seq_numbers(p.src, p.universe)
  /\ discovered_sources' =
       IF p.src \in DOMAIN discovered_sources
       THEN [discovered_sources EXCEPT ![p.src] = terminate_universe(@, p.universe)]
       ELSE discovered_sources
  /\ IF flags["announce_stream_termination"]
     THEN Return(UniverseTerminated(p.src, p.universe))
     ELSE GoRound
  /\ UNCHANGED <<universes, joined, waiting_data>>

IgnoreUnlistened(p) ==
  /\ ~ Previewed(p) /\ ~ p.terminated /\ p.universe \notin universes
  /\ GoRound
  /\ UNCHANGED <<universes, joined, waiting_data, discovered_sources, tracker>>

\* The packet is examined: its sequence number is checked, whatever follows.
Examine(p, n) ==
  /\ ~ Previewed(p) /\ ~ p.terminated /\ p.universe \in universes
  /\ Tracker!check_data_seq_number(p.src, p.universe, n, flags["announce_timeout"])
  /\ UNCHANGED discovered_sources

\* Mutant of RejectData: the error is dropped.
RejectData_silently(p, n) ==
  /\ Examine(p, n) /\ ret' # Ok
  /\ GoRound
  /\ UNCHANGED <<universes, joined, waiting_data>>

RejectData(p, n) ==
  /\ Examine(p, n) /\ ret' # Ok
  /\ Return(ret')
  /\ UNCHANGED <<universes, joined, waiting_data>>

DataOf(p, n) == DMXData(p.sync, p.priority, p.src, p.preview, p.values, n)

DeliverData(p, n) ==
  /\ p.sync = NoSync
  /\ Examine(p, n) /\ ret' = Ok
  /\ waiting_data' = clear_waiting_data(waiting_data, p.universe)
  /\ Return(Data({[universe |-> p.universe, dmx |-> DataOf(p, n)]}))
  /\ UNCHANGED <<universes, joined>>

\* The synchronisation address is listened to before the data is stored: if
\* that fails the packet is lost with its sequence number accepted.
HoldData(p, n) ==
  /\ p.sync # NoSync
  /\ Examine(p, n) /\ ret' = Ok
  /\ \/ /\ Listen(<<p.sync>>)
        /\ LET st == store_waiting_data(waiting_data, p.universe, DataOf(p, n), merge_func)
           IN /\ waiting_data' = st.waiting
              /\ IF st.ok THEN GoRound ELSE Return(Result("DmxMergeError"))
     \/ /\ ListenFails(<<p.sync>>)
        /\ Return(Io)
        /\ UNCHANGED waiting_data
     \/ /\ ~ InRange(<<p.sync>>)
        /\ Return(Result("IllegalUniverse"))
        /\ UNCHANGED <<universes, joined, waiting_data>>

handle_data_packet(p, n) ==
  /\ pc = "socket"
  /\ \/ IgnorePreview(p)
     \/ terminate_stream(p)
     \/ IgnoreUnlistened(p)
     \/ RejectData(p, n)
     \/ DeliverData(p, n)
     \/ HoldData(p, n)
  /\ UNCHANGED <<merge_func, partially_discovered_sources, flags>>

handle_sync_packet(cid, sync, n) ==
  /\ pc = "socket"
  /\ \/ /\ sync \notin universes
        /\ GoRound
        /\ UNCHANGED <<waiting_data, tracker>>
     \/ /\ sync \in universes
        /\ Tracker!check_sync_seq_number(cid, sync, n, flags["announce_timeout"])
        /\ LET released == rtrv_waiting_data(waiting_data, sync)
           IN \/ /\ ret' # Ok
                 /\ Return(ret')
                 /\ UNCHANGED waiting_data
              \/ /\ ret' = Ok
                 /\ waiting_data' = released.waiting
                 /\ IF released.data = {} THEN GoRound ELSE Return(Data(released.data))
  /\ UNCHANGED <<universes, joined, merge_func, discovery, flags>>

\* handle_universe_discovery_packet and what recv makes of its result
ReceiveDiscovery(p) ==
  LET r == handle_universe_discovery_packet(
             partially_discovered_sources, discovered_sources, p.src,
             UniversePage(p.page, p.universes), p.last_page)
  IN /\ pc = "socket"
     /\ \A c \in DOMAIN r.partial : Len(r.partial[c].pages) <= MaxPages
     /\ partially_discovered_sources' = r.partial
     /\ discovered_sources' = r.discovered
     /\ IF r.found /\ flags["announce_source_discovery"]
        THEN Return([res |-> "SourceDiscovered", src |-> p.src])
        ELSE GoRound
     /\ UNCHANGED <<universes, joined, waiting_data, merge_func, flags, tracker>>

-----------------------------------------------------------------------------

Next ==
  \/ Tick
  \/ \E us \in ListenCalls : listen_universes(us)
  \/ \E u \in MuteCalls : mute_universe(u)
  \/ reset_sources
  \/ ClearWaiting
  \/ \E fn \in MergeFns : set_merge_fn(fn)
  \/ \E f \in Flags, val \in BOOLEAN : SetFlag(f, val)
  \/ \E val \in BOOLEAN : SetMulticast(val)
  \/ set_ipv6_only
  \/ get_discovered_sources
  \/ drop
  \/ \E t \in RecvTimeouts : recv(t)
  \/ RecvLoop
  \/ SocketTimeout
  \/ SocketError
  \/ \E p \in DataPackets, n \in SeqNumbers : handle_data_packet(p, n)
  \/ \E s \in Sources, u \in SyncUniverses, n \in SeqNumbers : handle_sync_packet(s, u, n)
  \/ \E p \in DiscoveryPackets : ReceiveDiscovery(p)

Spec == Init /\ [][Next]_vars

(***************************************************************************)
(* The thread in recv is scheduled and the socket timeout fires; the clock *)
(* runs however often packets interrupt the wait.                          *)
(***************************************************************************)
FairSpec == Spec /\ SF_vars(Tick) /\ WF_vars(RecvLoop) /\ WF_vars(SocketTimeout)

-----------------------------------------------------------------------------
(* Invariants. *)

DMXRecords ==
  [sync_uni : SyncUniverses \cup {NoSync}, priority : Nat, src_cid : Sources \cup {NoSource},
   preview : BOOLEAN, values : Seq(Nat), seq : SeqNumbers, age : AgeValues]

DiscoveredSacnSource ==
  [pages : Seq([page : Nat, universes : SUBSET Universes]), last_page : Nat, age : AgeValues]

\* The tracker is in a state of SequenceNumbering, the lists of universes and
\* of waiting data hold what packets and the user may name, and a wait is at
\* most one data loss timeout long.
TypeOK ==
  /\ Tracker!TypeOK
  /\ pc \in {"idle", "loop", "socket", "dropped"}
  /\ remaining \in Int \cup {Forever} /\ sockwait \in 0 .. Timeout
  /\ universes \subseteq Universes /\ joined \subseteq Groups(Universes)
  /\ DOMAIN waiting_data \subseteq DataUniverses
  /\ \A u \in DOMAIN waiting_data : waiting_data[u] \in DMXRecords
  /\ merge_func \in MergeFns \cup {"default"}
  /\ \A records \in {discovered_sources, partially_discovered_sources} :
       /\ DOMAIN records \subseteq Sources
       /\ \A s \in DOMAIN records : records[s] \in DiscoveredSacnSource
  /\ flags \in [Flags -> BOOLEAN]

\* recv(Some(t)) is never still waiting after t: the socket timeout of each
\* round is cut to what is left of the deadline.
RecvMeetsDeadline == pc # "idle" /\ remaining # Forever => remaining >= 0

\* While recv waits for packets, however long its own timeout, held data that
\* turns stale, and with announce_timeout off a stream that times out, is seen
\* in less than a data loss timeout: the current wait ends before that, and a
\* wait of that length starts with nothing old.  (With announce_timeout on a
\* stream can stay: AnnouncedTimeoutIsDetected.)
TimeoutsSeenInTime ==
  pc = "socket" /\ (\/ \E u \in DOMAIN waiting_data : IsOld(waiting_data[u].age)
                   \/ /\ ~ flags["announce_timeout"]
                      /\ \E m \in {data_sequences, sync_sequences} :
                           \E s \in DOMAIN m : HasTimedOut(m, s))
    => sockwait < Timeout

\* Data held for synchronisation is discarded once no synchronisation packet
\* has come within the timeout, also when it turned stale during the very
\* wait that the synchronisation packet ends.
ReleasedDataIsFresh ==
  outcome.res = "Data" => \A d \in outcome.data : ~ IsOld(d.dmx.age)

\* Until it is dropped, the receiver holds data only for addresses on its
\* list, whose synchronisation packets it does not ignore (as long as the user
\* mutes none): handle_data_packet listens to the address before it stores the
\* data.  An address whose group could not be joined is on the list as well.
HeldDataIsReleasable ==
  pc # "dropped" => \A u \in DOMAIN waiting_data : waiting_data[u].sync_uni \in universes

\* With the default merge, one priority and one synchronisation address that
\* can be listened to, what waits for a universe is the packet last accepted
\* from its source, and as old as that source's stream: a release never shows
\* a level the source has already replaced.
HeldDataIsLatest ==
  \A u \in DOMAIN waiting_data :
    LET d == waiting_data[u] IN
    Tracked(data_sequences, d.src_cid, u) =>
      /\ d.seq = data_sequences[d.src_cid][u].sequence_number
      /\ d.age = data_sequences[d.src_cid][u].age

\* Where leaving a group is unsupported the receiver is a member of none: it
\* starts with multicast off, and no call can switch it on.
JoinedGroupsCanBeLeft ==
  \A g \in joined : \E o \in mute_multicast_universe(joined, g.universe) : o.ret = Ok

\* A source is announced and listed only with every page of the advert it
\* promised, whatever order, number of copies or mixture the pages came in.
DiscoveredSourcesComplete ==
  \A s \in DOMAIN discovered_sources :
    \A i \in 0 .. discovered_sources[s].last_page :
      \E k \in DOMAIN discovered_sources[s].pages : discovered_sources[s].pages[k].page = i

-----------------------------------------------------------------------------
(* Action properties. *)

\* The receiver uses its SequenceNumbering only through its methods: every
\* step is one call of it or leaves it alone, so all that is checked and
\* proved of SequenceNumbering holds of the receiver.
TrackerSpec == Tracker!Spec

ReportsOrRemoves(s, u) ==
  \/ outcome' = UniverseTimeout(s, u)
  \/ reset_sources
  \/ \E p \in DataPackets : p.src = s /\ p.universe = u /\ terminate_stream(p)

\* With announce_timeout set, a stream is forgotten only by the call of recv
\* that reports its timeout, by a termination packet or by reset_sources:
\* the user misses no timeout that is detected.
NoSilentTimeout ==
  [][flags["announce_timeout"] =>
       \A s \in Sources, u \in Universes :
         \/ Tracked(data_sequences, s, u) /\ ~ Tracked(data_sequences', s, u)
         \/ Tracked(sync_sequences, s, u) /\ ~ Tracked(sync_sequences', s, u)
         => ReportsOrRemoves(s, u)]_vars

\* htp_dmx_merge: while data of one priority waits, no slot level of it falls
\* and no slot is cut off, however long or short the packets merged into it.
HtpNeverLowers ==
  [][\A u \in DOMAIN waiting_data \cap DOMAIN waiting_data' :
       LET old == waiting_data[u]
           new == waiting_data'[u]
       IN merge_func = "htp" /\ old.priority = new.priority =>
            \A k \in DOMAIN old.values : k \in DOMAIN new.values /\ new.values[k] >= old.values[k]]_vars

\* A multicast group is left only when its universe is no longer registered,
\* and joined only for a universe that is: listening to one universe, or a
\* failure halfway through a list, never costs another its packets.
GroupsFollowUniverses ==
  [][/\ joined \ joined' \subseteq Groups(universes \ universes')
     /\ joined' \ joined \subseteq Groups(universes')]_vars

-----------------------------------------------------------------------------
(* Liveness. *)

\* recv with a timeout returns, whatever packets keep arriving.
RecvReturns == (pc # "idle" /\ remaining # Forever) ~> pc = "idle"

\* "If the announce_timeout flag is set then the recv will return a
\* UniverseTimeout error if a source fails to send on a universe within the
\* timeout [...] If it isn't detected immediately it will be detected within
\* an interval of E131_NETWORK_DATA_LOSS_TIMEOUT" (recv, receive.rs): a recv
\* in which a stream times out returns, or the stream is gone or heard again.
\* The code does not do so: a search stops at a source that has no timeout.
AnnouncedTimeoutIsDetected ==
  \A s \in Sources, u \in DataUniverses :
    (flags["announce_timeout"] /\ pc = "socket" /\ TimedOut(data_sequences, s, u))
      ~> (pc = "idle" \/ ~ TimedOut(data_sequences, s, u))
=============================================================================
