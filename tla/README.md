# A TLA+ model of sacn

sacn is a Rust library for ANSI E1.31 (streaming ACN): a *source* sends
universes of DMX levels over UDP, a *receiver* listens to universes, keeps the
packets of each source in order, holds data back until a synchronisation packet
arrives, and both take part in universe discovery. This directory models the
code of `src/src/receive.rs`, `src/src/source.rs` and `src/src/packet.rs` in TLA+, checks small
instances with TLC, and proves with TLAPS, for every size, all their invariants and
action properties and that a stream implements its abstract specification.

`PROJECT.json` relates every definition to the lines it models and lists runs,
mutants, hazards, findings and theorems.

## The system

| Component | State | Operations | Talks to |
|---|---|---|---|
| Sequence numbering (`SequenceNumbering`, receive.rs 1669-2025) | for data and for synchronisation packets: source -> universe -> last number and when it came | `clear`, `check_timeouts`, `check_data_seq_number`, `check_sync_seq_number`, `remove_seq_numbers` | called by the receiver for every packet and every round of `recv` |
| Receiver (`SacnReceiver`, 156-1010) | registered universes, flags, merge function, the three below, its network receiver | `recv` and its three packet handlers, `listen_universes`, `mute_universe`, resets, setters, drop | the network through `SacnNetworkReceiver`, the user through results and errors |
| Waiting data (`waiting_data`, 812-896, 2037-2107) | universe -> one `DMXData` waiting for a synchronisation address | store with a merge function, release on a synchronisation packet, time out | data and synchronisation handlers |
| Discovery records (`DiscoveredSacnSource`, 903-988, 1343-1370) | partial and discovered sources with their pages | add a page, complete, terminate a universe, expire | discovery handler, termination of streams, `get_discovered_sources` |
| Source (`SacnSource`, `SacnSourceInternal` of source.rs) | registered universes, next data and synchronisation numbers, `running`, time of the last advert | register, `send`, `send_sync_packet`, `terminate_stream`, drop | the update thread, through one mutex; the network |
| Update thread (source.rs 211-220, 1289-1299) | whether it is checking, asleep or updating | poll every second, advertise every ten | the source's mutex |
| Network receiver (`SacnNetworkReceiver`, receive.rs 1027-1290, 1384-1661) | the socket, the groups it is in, `is_multicast_enabled` | join, leave, read, settings; one version for Windows, one for other systems | called by the receiver; the operating system |
| Packets (packet.rs) | none | parse and pack, universe range, multicast addresses | both sides |

What is hard in them, and what makes each correct:

* **Sequence numbering.** Numbers are modulo 256, differences are signed bytes,
  a window behind the last number is discarded. Slots of `source_limit` must be
  given back by timeouts. A hash map's iteration order decides which timeout is
  announced. Correct when live streams never step back into the window, are
  never forgotten, and the limit holds exactly.
* **Receiver.** `recv` waits in rounds cut to its own deadline and to the data
  loss timeout; packets of every kind arrive at any point of a wait; joining and
  leaving groups may fail halfway. Correct when it returns in time, misses no
  timeout, and groups follow the registered universes.
* **Network receiver.** What is supported depends on the build and the IP version,
  and every operation may be refused. Correct when the receiver is in no group it
  cannot leave.
* **A stream, end to end.** Datagrams are lost, repeated and reordered while numbers
  wrap, the stream times out, ends and starts again. Correct when what is shown is
  in the order it was sent, and an ended stream is forgotten.
* **Waiting data.** Synchronised and unsynchronised data of a universe
  interleave, several sources merge, data grows stale during a wait. Correct
  when what is held is the latest, releasable, and never released stale.
* **Discovery.** Pages are lost and reordered, adverts repeat, streams end in
  between. Correct when a whole advert is listed, and what is listed is one advert and not
  parts of two.
* **Source.** Any send may fail in the middle of a call; two threads share one
  mutex; drop stops, terminates and joins in separate critical sections. Correct
  when numbers have no gaps, adverts are on time, whatever is dropped from the
  list was terminated, and drop returns.
* **Packets.** A call is cut into packets at exact multiples of a capacity, lengths
  are nested in lengths, and the receiver parses its whole buffer, whatever the
  length of the datagram. Correct when packing never fails, a call's packets
  carry all of it, and each is parsed as it was meant or refused.

## Modules

* `Ages` - time. Every `Instant` the receiver keeps is only compared, as
  `elapsed()`, with one duration, so it is its age in ticks, stopping at the
  timeout.
* `SequenceTracking` - the pure functions on one map (`check_timeouts`,
  `check_seq_number`, `remove_source_universe_seq`). An operation whose outcome
  depends on the iteration order is the set of its outcomes.
* `SequenceNumbering` - the struct: two maps, one action per method, and a
  clock. `call` and `ret` are the method called last and its result.
* `WaitingData`, `DiscoveryRecords` - pure operators on the held data and on the
  records of discovered sources, with the names of the methods they model.
* `NetworkReceiver` - the two versions of the network receiver, chosen by the constant
  `Platform`. An operation on groups is the set of its outcomes.
* `Receiver` - composes these. It instantiates `SequenceNumbering` on its own
  variables and calls its actions. `pc` is where `recv` is: `idle` (the user may
  call something), `loop`, `socket`, `dropped`. `remaining` and `sockwait` are
  the time to the deadline and to the socket timeout. Packets are not kept in
  flight: any packet of the run's sets may arrive at any time with any sequence
  number, which covers loss, duplication and reordering by every network.
* `Playback` - abstract: what a receiver promises of one stream. It plays or is
  stopped; while it plays, what is shown only moves forward.
* `Stream` - one stream from the source's numbers through a network to the receiver's
  `SequenceNumbering`, instantiated as in `Receiver`, with other streams, a clock and
  resets around it. Datagrams are counted without wrapping as history, which is what
  the refinement mapping to `Playback` needs: it plays while its entry is tracked and
  has not timed out. `Source` shows that numbers have no gaps, so `Number` is the
  count modulo `SeqMod`.
* `UniverseDiscovery` - the adverts of a source, a network that loses and reorders
  datagrams, and the receiver's `DiscoveryRecords`. A tick is the 2.5 s after which a
  record expires. There is one advert in flight at a
  time, because adverts are at least a second apart. History variables say whether the
  latest advert lost a page (`whole`), met an incomplete record (`fresh`), which advert
  completed the record listed (`heard`), and whether the universes changed around the
  incomplete record it came from (`mixed`).
* `Source` - the user's thread and the update thread; one action per critical
  section of the mutex. `wire` is what the last step sent. `last` is a history of the
  numbers used, which a failed termination starts anew, and `deadline` the time left in
  which an advert must leave or be tried. `Legal` are the universes in range.
* `Packets` - `pack` and `parse` of every layer. A datagram is a sequence of cells, one
  for each field whatever its width, and lengths count cells.
* `PacketExchange` - from a call or setting of the source (CID, name, preview mode) to what `recv` makes of its datagrams:
  splitting, packing, and a receive buffer that every round of `recv` clears before it
  reads (567-570), so that zeros stand behind the datagram. A receive takes any packet
  of the last call, any number of times.
* `MCSequenceNumbering`, `MCReceiver`, `MCStream`, `MCUniverseDiscovery`,
  `MCSource`, `MCPacketExchange` - constants for the runs.
* `SequenceTracking_proofs`, `DiscoveryRecords_proofs` - lemmas about these operators.
* `SequenceNumbering_proofs`, `Receiver_proofs`, `Source_proofs`, `Stream_proofs`,
  `UniverseDiscovery_proofs`, `PacketExchange_proofs` - the theorems about these modules,
  with the lemmas they rest on.

Definitions named after another with a suffix and commented `Mutant of` are not
part of the model: each is a plausible mistake in the code that the property
named with it in `PROJECT.json` detects.

The data is abstracted to what the properties tell apart: a source is its CID,
levels are short sequences with a start code, a discovery page is a set of
universes (the parser admits only strictly ascending lists), errors are their
names. `DMXData.seq` in the model is a history field.

## Runs

The passing runs:

| Run | Question |
|---|---|
| `SeqQuiet` | do limits, numbers and timeouts of the tracker hold with three sources and two slots, for data and synchronisation at once? |
| `StreamOrder` | does the receiver implement `Playback` behind a bad network, discard a later datagram only after a burst of losses, and forget a stream that ended? Is an announced timeout exactly the stream that was dropped, whatever the map's order and with the mode switched between calls? |
| `RecvWaits` | does `recv` meet its deadline and return under a stream of packets, see timeouts in time, release only fresh data, hold only releasable data, and does highest-takes-precedence merging ever lower or cut a level? |
| `RecvCalls` | on Windows over IPv4, with two sources, and calls of the user between packets: is held data always the latest, are all timeouts reported, do multicast groups follow the registered universes when joins and leaves fail, and does the receiver implement `SequenceNumbering` (`Tracker!Spec` as a property)? |
| `RecvDiscovery` | are only complete sources listed, for every order and mixture of pages, and, on Windows over IPv6, does the receiver stay out of groups it cannot leave? |
| `DiscoveryLossy` | with adverts of up to three pages, and a datagram lost or a send failed anywhere: is a whole advert that meets no incomplete record listed until it expires, is a list exactly the advert that completed it unless the universes changed around an incomplete record, and are registered universes listed again and again? |
| `SourceCalls` | whatever fails and however the two threads interleave: are numbers on the wire consecutive, adverts on time, also after failed ones, streams terminated before they are dropped, and does drop return? |
| `PacketsUnderstood` | do the packets of a call carry all of it, can each be packed, and does a receiver parse each as it was meant? |

Four runs end in a counterexample and are listed as findings with the sentence
of the source they contradict:

* `DiscoveryWedged` - after one lost page, adverts that arrive whole are not listed: a
  page that comes again is pushed next to the old copy, and `has_all_pages` compares
  positions (receive.rs 946, doc 15-16).
* `DiscoveryTorn` - after one lost page, pages of two different adverts complete each
  other, and what is listed is not what is advertised (942, doc 17).
* `RecvAnnounced` - with `announce_timeout`, a stream that timed out may never be
  reported, as long as the search visits a source without a timeout first (1954-1956,
  doc 492-495). The run is fair to time, to `recv` and to packets; the user only calls
  `recv`.
* `SourceLostNumber` - a termination packet that cannot be sent forgets the next number
  of its universe (source.rs 963, doc 111).

### Observations

The models also show the following, for which no run is kept; each is a few steps
of the named action away.

* The order in which a search for timeouts visits its map only matters while timeouts
  are announced (`RecvAnnounced`). `CheckLeavesNothingTimedOut` and
  `RefusalMeansLimitReached` therefore speak of `SeqQuiet`, where they are not: after
  an announcing search a dead source may keep its slot, and a new one be refused.
* The packet in hand when `check_seq_number` reports the timeout of another stream is
  lost (receive.rs 1860). `NoSilentTimeout` is about the timeout, not the packet.
* A universe is on the list before its group is joined and off it before its group is
  left (409, 440). After a failed join a retry returns `Ok` without joining, and held
  data may wait for an address that is listed but not heard; after a failed leave, or
  with multicast off, list and groups differ. `GroupsFollowUniverses` only says which
  groups may change with which universes.
* A source that is alive is off the list for up to 7.5 of every 10 s, if the user asks
  for the list then: it expires after `UNIVERSE_DISCOVERY_SOURCE_TIMEOUT`, 2.5 s
  (packet.rs 320), and the next advert comes after 10 s. Asking between two adverts
  also clears a partial record that would never complete.
* A source in preview mode marks its termination packets as previews, too (source.rs
  976), and a receiver that shows no previews ignores them as such (receive.rs 710).
* On Windows over IPv6 `mute_universe` takes the universe off the list and then
  returns `OsOperationUnsupported` (receive.rs 440, 1646), although no group was ever
  joined. `join_win_multicast` does not refuse IPv6 (1590, doc 1563), it is only never
  reached. A group is joined on the receiver's interface and left on 0.0.0.0 (1572,
  1631).
* A name of exactly 64 bytes is accepted by `with_cid_ip` and `set_name` (source.rs 197,
  1143) and packed without a null character, which the parser asks for (packet.rs 405).
  `send` takes universes and synchronisation addresses equal to the discovery
  universe; the parser refuses them (packet.rs 784, 801, 1132). `PacketsUnderstood`
  has them all, as `Acceptable`.
* `TooManyBytesRead` cannot be returned (receive.rs 1274): a read never returns more
  than the buffer has room for. The buffer is parsed whole, not up to what was read,
  but it was cleared before (568), so what is parsed are the datagram and zeros.
* `source_limit` counts each kind of packet alone (receive.rs 1863, doc 180):
  with limit 2, three sources can be tracked.
* `remove_seq_numbers` stops at the data map (1822, doc 1814): a source known
  only by synchronisation packets keeps its number.
* Held data of a muted universe is delivered by the next synchronisation packet
  (880, doc 422 and 469).
* Data for one synchronisation address replaces or is merged with data for
  another (813, doc 371 and 2033): the default merge function compares nothing.
* `recv(None)` blocks with nothing registered once the discovery universe is muted
  (497, doc 481).
* When the synchronisation address of a packet is refused, or its group cannot be
  joined, the packet's number has been accepted and older data of the source stays
  held (757). `RecvCalls` therefore sends legal addresses only and mutes none, so
  that the address is listened to once data waits for it.
* An advert can leave after `running` was cleared, as `perform_periodic_update` does
  not look at it (source.rs 1291, doc 124).
* The first termination packet that cannot be sent ends the clean-up of `drop`, so
  later universes stay unterminated (source.rs 1037, comment 538).

### Bounds

* `SeqMod` is 4 with the window (-2, 0] for 256 with (-20, 0]: there still is a
  number that is discarded without being the last one, one behind the window that
  is accepted, and one ahead; the receiver runs, whose questions are not about
  numbers, use 2 with (-1, 0]: a repeated number is discarded, the other accepted. The theorems hold for every even modulus and window.
* `Timeout` is 1 or 2 ticks: with 2 an entry can be fresh, old but alive, and timed
  out. Ages stop at `Timeout`, so time itself is not bounded.
* `SourceLimit` is 2 with 3 sources in `SeqQuiet`, so that sources are refused and
  admitted again. It has one universe: that a timeout or a termination of another
  universe of the same source forgets nothing is left to the theorem and to `StreamOrder`.
  Two sources and two universes suffice for one stream to affect
  another.
* `StreamOrder`: a datagram arrives before one sent two later, or not at all, as the
  window is two wide; five datagrams let the number wrap and a burst of losses take
  it back to the window; two data packets in flight and two termination packets let a
  packet be overtaken by the end of its stream; one repetition. The other streams are
  one of the same source and one of another, which is where timeouts, limits and
  removals of one stream can reach the other.
* `RecvTimeouts` are none, shorter than, longer than the data loss timeout, and
  infinite. Each receiver run enumerates the packets, user calls and lists its
  question needs; `MCReceiver` names them. `RecvWaits` has one source, since only
  the sequence numbers, which are not its question, depend on the sender;
  `RecvCalls` has two, so that one can time out while the other keeps sending.
* `Platform` is Windows over IPv4 in `RecvCalls`, Windows over IPv6 in `RecvDiscovery`
  and Unix over IPv6 in `RecvWaits`. Unix over IPv4 differs from Windows over IPv4
  in nothing the model has.
* `MaxPages` bounds the pages of a partial source: one more than the pages of the
  largest advert, so that a duplicate meets a full set. `PerPage` is 1 with two
  universes, for 512: adverts have one to three pages, and the full last page is
  followed by an empty one. Pages that are not full are in `PacketsUnderstood` and in
  the theorems. The interval is 2 ticks and a record expires after 1, for 4 and 1.
* `Faults` bounds lost datagrams and failed sends together: both counterexamples need
  one, and `DiscoveryLossy` has one at any place. The theorems have any number.
* `NumberMod` is 3 in `SourceCalls`, for 256: a number that is repeated and one that is
  left out are different from the right one. Only one universe has synchronisation
  packets; their numbers are independent of each other. An advert interval of two polls
  stands for ten. `since` is only compared with the interval and stops one tick past the
  interval and a poll, `deadline` at -1.
* `PacketsUnderstood`: two values for 513 and two universes for 512, with data and
  adverts that are shorter, exactly full, and one longer. Names are one short of the
  field, as long as it and one longer; priorities, universes and addresses are one in and one out of
  range. Sequence numbers are carried, not counted. Lengths in cells for bytes is sound
  since each field has one width: a layer is longer than another of its kind in cells
  exactly when it is in bytes.
* Symmetry over sources is used in `SeqQuiet` and `RecvCalls`, where they are interchangeable and no liveness is checked.

`CHECK_DEADLOCK FALSE` appears in the runs in which the receiver or the source is
dropped, after which nothing is left to do.

### Fairness

* `Receiver!FairSpec`: the thread in `recv` runs (`WF` of `RecvLoop`), the socket
  timeout fires (`WF` of `SocketTimeout`), the clock ticks. The clock is strongly
  fair since every packet takes `recv` away from the socket for a moment; real time
  passes all the same.
* `Stream!FairSpec`: a datagram arrives or is lost, and time passes. Nothing is assumed
  of the user, the source or which datagrams arrive. `EndedStreamIsForgotten` names what
  it needs of the user as a premise: that he calls `recv` without `announce_timeout` now
  and again. With the flag always set it is false, which is what `RecvAnnounced` shows.
* `UniverseDiscovery!FairSpec`: time passes, the update thread polls, datagrams not
  lost arrive. Nothing is assumed of the user or of the sends. `EventuallyListed` has
  premises instead: no more streams are terminated, and the receiver does not keep an
  incomplete record for ever (as it may, see `DiscoveryWedged`).
* `Source!FairSpec`: both threads are scheduled (a mutex is free between two critical
  sections, which are single actions), sleeping ends, and a `drop` that was begun
  goes on. Nothing is assumed of the user.

## Proofs

Each theorem below is about every value of the constants that meets the assumptions the
modules name, unless a hypothesis is given. The hypotheses are calls, failures or settings
under which the code really does otherwise; the observations above say how.

### Sequence numbering (`SequenceNumbering_proofs`)

| Theorem | Property | Hypothesis |
|---|---|---|
| `TypeCorrect`, `TrackedSourcesHaveUniverses`, `LimitHolds` | `TypeOK`, `NoEmptySource`, `SourceLimitRespected` | |
| `NoStepBack`, `NoLiveEntryLost` | `StreamsMoveForward`, `LiveEntriesPersist` | |
| `TimeoutsAreExact` | `AnnouncedTimeoutIsExact` | |
| `QuietCheckIsComplete`, `RefusalIsJustified` | `CheckLeavesNothingTimedOut`, `RefusalMeansLimitReached` | timeouts are never announced |

Assumptions: the modulus is even, the discard window lies within the signed range and at or
below 0 (`SeqAssumption`), the limit is not zero (`with_ip` refuses that, `LimitAssumption`),
a timeout is at least a tick.

The inductive invariant `IInv` says that each map is *well kept* (`SequenceTracking_proofs`):
of the right type, no source in it empty, within the limit. Type correctness is needed
because a limit is about a finite set, and because a source that is new is in sequence only
since the number made up for it, one before its packet's, differs by exactly 1
(`FirstPacketInSequence`): so `Admit` gives every source it adds an entry. Each operator has
a lemma that it keeps a map well kept, and `NextIInv` has one step per action. The action
properties follow from what a step does to each entry: `Forward` holds of the clock, of
timeouts and of accepted packets, and `CountedBackIsOutOfSequence` relates the window of
signed differences in the code to numbers counted back on the circle, which is how
`StreamsMoveForward` is stated.

### Receiver (`Receiver_proofs`)

| Theorem | Property | Hypothesis |
|---|---|---|
| `TrackerIsUsedAsSpecified` | `TrackerSpec` | |
| `ReceiverTypeCorrect` | `TypeOK` | |
| `DeadlineIsMet` | `RecvMeetsDeadline` | |
| `TimeoutsAreSeenInTime` | `TimeoutsSeenInTime` | |
| `TimeoutsAreReported` | `NoSilentTimeout` | |
| `ReleasesAreFresh` | `ReleasedDataIsFresh` | |
| `HeldDataCanBeReleased` | `HeldDataIsReleasable` | no address that data waits for is muted |
| `HeldDataIsTheLatest` | `HeldDataIsLatest` | default merge, one priority, one address, never muted |
| `HtpOnlyRaises` | `HtpNeverLowers` | |
| `GroupsFollowTheUniverses`, `GroupsCanBeLeft` | `GroupsFollowUniverses`, `JoinedGroupsCanBeLeft` | |
| `DiscoveredAreComplete` | `DiscoveredSourcesComplete` | |

Every step of the receiver is one of `SequenceNumbering` or leaves it alone
(`TrackerIsUsedAsSpecified`), so `IInv` is an invariant of the receiver, too, and what its
methods do is cited from there. The rest of the state splits into parts with an invariant
and a lemma of all its moves each, so that no proof looks at actions that leave its part
alone: `ControlInv` (where `recv` is, and that the wait never exceeds what remains),
`FlagsInv`, `GroupsInv` (without support no group is joined and the flag is off), `WaitingInv`,
`RecordsInv` (every record that is listed has each page from 0 to its last). `TimeoutsSeenInTime` is inductive only together with the fact that a round's checks
leave nothing that is old, which for streams the announcing search does not give: the
property speaks of them only while timeouts are not announced, and of held data always. `HeldDataIsLatest`
needs all three hypotheses: a merge or a lower priority keeps older data on purpose, and a
second or a refused address leaves it behind (observations). With them it rests on
`HeldDataIsReleasable`: data that replaces what waits must not fail to listen.

### Source (`Source_proofs`)

| Theorem | Property | Hypothesis |
|---|---|---|
| `SourceTypeCorrect` | `TypeOK` | |
| `NumbersFollow`, `NumbersAreConsecutive` | `NextNumberFollows`, `ConsecutiveNumbers` | |
| `AdvertsLeaveOnTime` | `AdvertsOnTime` | |
| `DeregisteredAreTerminated` | `DeregisteredWasTerminated` | |

Any datagram may fail. A failed termination starts the numbers of its universe anew,
which both properties of numbers say and `SourceLostNumber` shows. `NumbersFollow` is
inductive with `UnsentHaveNoNumber`; `NumbersAreConsecutive` counts along the datagrams of
one call, which may carry a universe several times. `AdvertsInv` bounds the time left at
each step of the update thread and relates it to the timestamp: whenever less than a poll
is left, the advert is due.

### A stream, end to end (`Stream_proofs`)

`StreamPlaysInOrder`: `Stream` implements `Playback`, for every modulus, window, number of
datagrams and network that reorders within the window (`StreamAssumption`). `StreamInv` says
that datagrams in flight are not too far behind those that arrived (`NetInv`), that the data
map is well kept, and that the number of the stream's entry, while it has one, is that of
the datagram shown last. `NotAfterIsOutOfSequence` is the arithmetic: a datagram at or behind
the last one shown, by less than the window, is out of sequence whatever the wrap. The same
invariant gives `ShortLossesCostNothing` (`DiscardedOnlyAfterBurst`). `TimeoutsAreExact`
(`AnnouncedTimeoutIsExact`) carries the theorem about `SequenceNumbering` over to the
receiver of the stream, each of whose steps is one of that specification (`TrackerMoves`).

### Universe discovery (`UniverseDiscovery_proofs`)

`DiscoveryTypeCorrect` (`TypeOK`), `ListingsAreAdverts` (`ListedWasAdvertised`) and
`AdvertsAreListed` (`CompleteAdvertIsListed`) have no hypothesis: any page may be lost, of
adverts of any size, and any send may fail. Where the code lists parts of two adverts the
property says so (`mixed`), and where it leaves a whole advert out (`fresh`); `DiscoveryTorn`
and `DiscoveryWedged` show both. The assumption that a record expires no later than the next advert
is due (`Timeout <= AdvertInterval`, 2.5 s and 10 s) is that of the module. `DiscoveryInv` adds
to the types that every termination in flight is of a universe that is gone
(`TerminationsInv`), that an incomplete record which cannot mix adverts has pages of the
latest advert only (`PartialInv`), that while the pages of an advert arrive which met no
incomplete record, the receiver has none, all, or waits for exactly those in flight
(`FreshInv`), and that once they have arrived it lists that advert (`WholeInv`, `ListedInv`).
`AllPagesInPlace` shows that a record with as many different pages as
announced has each at its index, which is what `has_all_pages` compares.

### Packets (`PacketExchange_proofs`)

`ParsedIsWithinLimits` (`TypeOK`), `PackingNeverFails`, `CallsAreCovered` and
`PacketsAreUnderstood` (`UnderstoodAsSent`) hold for every field width and capacity, list of
universes and data. The proof goes up the layers: `LayerRead` and `InnerRead` say what is read
back from a layer behind any header, then each packet is parsed as it was packed, and the
cleared buffer enters only as the cells behind the datagram, which no layer's length reaches. That
what is parsed is in range (`ParseWithin`) is shown of any cells whatever, not only of those a
source made. `PacketInv` states that the source's settings, what was parsed and every packet sent
are typed, and that the last call is covered. `CallIsCovered` speaks of `FlattenSeq`, a
recursive function of the library; `FlattenIs` shows, by the least index at which it would
fail, that the concatenation of chunks cut at multiples of the capacity is the data.

### Only model-checked

Liveness is out of the prover's reach: `RecvReturns`, `EventuallyListed`, `DropReturns` and
`EndedStreamIsForgotten` stay with TLC, as do the counterexamples. Every other property of a passing run is a theorem.
In `RecvCalls`, whose receiver may have timeouts announced, `SequenceNumbering` holds as a
specification, so the theorems of the first table with no hypothesis hold there.


## Not modelled

* The width of fields within a layer (byte order, indexes), and datagrams no source of
  this library makes. A datagram that does not parse is `SocketError` of the receiver.
* Creating, binding and configuring sockets. A join, leave, read or send may fail at
  any time where the code handles that.
* TTL and multicast loop of the source (they are options of its socket), the getters
  of both sides, and `Ord`, `Eq` and `Clone` of `DMXData`, which compare and copy
  field by field.
* Poisoned mutexes: no code panics while it holds one.
* `SenderAlreadyTerminated`: `running` is false only while the source is being
  dropped, when nobody can call `send`.
* Error types, examples, tests and build files.

## Plan

Done, in this order: the tracker and its proofs; the receiver with waiting data and
records; discovery end to end; the source and its update thread; packets; one stream
end to end with the specification it implements; discovery with real times; the
network receiver of both builds; the settings that go into packets; the proofs of all
invariants, action properties and of the refinement.

Next:

1. An abstract receiver of one universe (what is held, what was delivered), refined by
   `Receiver`, and the proof of that.
2. `HeldDataIsLatest` with several priorities: held data is the latest of those with the
   highest priority.
3. The merge functions against a reference definition over bounded inputs.

