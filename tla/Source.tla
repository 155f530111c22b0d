------------------------------- MODULE Source -------------------------------
(***************************************************************************)
(* SacnSource of src/source.rs: the user's thread, which makes one call at *)
(* a time and finally drops the source, and the update thread, which polls *)
(* for the next universe discovery advert.  Both reach SacnSourceInternal  *)
(* through one mutex; every critical section is one action, and the two    *)
(* threads interleave between them.                                        *)
(*                                                                         *)
(* Any send_to may fail when its kind is in FailingSends.  An advert is    *)
(* one datagram here: its pages are in UniverseDiscovery.  Time passes     *)
(* while the update thread sleeps; code takes none.                        *)
(***************************************************************************)
EXTENDS Integers, Sequences, SequencesExt, FiniteSetsExt

CONSTANTS
  Universes,      \* the universes the user names: numbers, as the list is sorted
  Legal,          \* those in range
  NumberMod,      \* 256 in the code: sequence numbers are u8
  Terminations,   \* E131_TERMINATE_STREAM_PACKET_COUNT
  PollPeriod,     \* DEFAULT_POLL_PERIOD in ticks
  AdvertInterval, \* E131_UNIVERSE_DISCOVERY_INTERVAL in ticks
  FailingSends,   \* the kinds of datagram whose send_to may fail
  SendCalls,      \* the calls of send: universes, universes required, sync, priority legal
  UserCalls,      \* the other calls: for each name, the arguments it is called with
  NoSync          \* None as synchronisation_addr

ASSUME SourceAssumption ==
  /\ Universes \subseteq Nat /\ IsFiniteSet(Universes) /\ Legal \subseteq Universes
  /\ NumberMod \in Nat \ {0} /\ Terminations \in Nat \ {0}
  /\ PollPeriod \in Nat \ {0} /\ AdvertInterval \in Nat \ {0}
  /\ NoSync \notin Nat

\* A list of universes may be any, also one with repetitions.
ASSUME SendAssumption == \A c \in SendCalls : c.universes \in Seq(Universes) /\ c.required \in Nat

STARTING_SEQUENCE_NUMBER == 0

VARIABLES
  user,                  \* calls, then the stages of drop: stopped, terminated, dropped
  thread, nap,           \* the update thread: check, sleep, update, done; sleep left
  universes, running, is_sending_discovery,
  data_sequences, sync_sequences,   \* the next number of each universe used
  since,                 \* time since last_discovery_advert_timestamp
  result,                \* what the last call returned
  wire,                  \* the datagrams the last step put on the network
  last,                  \* history: the last data number sent on each universe since a
                         \* failed termination forgot its number, or -1
  deadline               \* history: time left in which an advert must leave or be tried

adverts == <<since, deadline>>
internal == <<universes, running, is_sending_discovery, data_sequences, sync_sequences, adverts>>
vars == <<user, thread, nap, internal, result, wire, last>>

EmptyMap == [x \in {} |-> x]

Init ==
  /\ user = "calls" /\ thread = "check" /\ nap = 0
  /\ universes = {} /\ running = TRUE /\ is_sending_discovery = TRUE
  /\ data_sequences = EmptyMap /\ sync_sequences = EmptyMap /\ since = 0
  /\ result = "Ok" /\ wire = <<>> /\ last = [u \in Universes |-> -1]
  /\ deadline = AdvertInterval + PollPeriod

-----------------------------------------------------------------------------
(* Sequence numbers and datagrams. *)

NextNumber(seqs, u) == IF u \in DOMAIN seqs THEN seqs[u] ELSE STARTING_SEQUENCE_NUMBER

\* Mutant of Incremented: does not wrap.
Incremented_unwrapped(n) == n + 1

\* The number after a datagram was sent: 0 after 255.
Incremented(n) == (n + 1) % NumberMod

Datagram(kind, u, n) == [kind |-> kind, universe |-> u, number |-> n]

(***************************************************************************)
(* Data or termination packets sent one after the other, to the universes  *)
(* of the list us: each takes the number its predecessor on the universe   *)
(* left.                                                                   *)
(***************************************************************************)
Count(us, u) == Cardinality({i \in DOMAIN us : us[i] = u})

\* Mutants of Packets and NumbersAfter: the number is looked up once per call.
Packets_same_number(kind, us) ==
  [i \in DOMAIN us |-> Datagram(kind, us[i], NextNumber(data_sequences, us[i]))]
NumbersAfter_once(us) ==
  [u \in DOMAIN data_sequences \cup Range(us) |->
     (NextNumber(data_sequences, u) + (IF u \in Range(us) THEN 1 ELSE 0)) % NumberMod]

Packets(kind, us) ==
  [i \in DOMAIN us |-> Datagram(kind, us[i],
     (NextNumber(data_sequences, us[i]) + Count(SubSeq(us, 1, i - 1), us[i])) % NumberMod)]

NumbersAfter(us) ==
  [u \in DOMAIN data_sequences \cup Range(us) |->
     (NextNumber(data_sequences, u) + Count(us, u)) % NumberMod]

\* send_terminate_stream_pkt takes the number out of the map before it sends:
\* a failure leaves it out.
WithoutNumber(seqs, u) == Restrict(seqs, DOMAIN seqs \ {u})

\* The datagrams that use up a data sequence number of u.
OnUniverse(w, u) ==
  {i \in DOMAIN w : w[i].kind \in {"data", "terminate"} /\ w[i].universe = u}

\* The last data number that has left on u, after the first datagrams of w.
NumberBefore(w, u, first) ==
  IF first = {} THEN last[u] ELSE w[Max(first)].number

\* What a step puts on the network.
SendsBut(w, lost) ==
  /\ wire' = w
  /\ last' = [u \in Universes |->
               IF u \in lost THEN -1 ELSE NumberBefore(w, u, OnUniverse(w, u))]

Sends(w) == SendsBut(w, {})

Quiet == wire' = <<>> /\ UNCHANGED last

Fails(r) == result' = r /\ Quiet /\ UNCHANGED internal

-----------------------------------------------------------------------------
(* The user's calls. *)

Calls(name, arg) ==
  user = "calls" /\ arg \in UserCalls[name] /\ UNCHANGED <<user, thread, nap>>

\* universe_allowed
Allowed(u) ==
  IF u \notin Legal THEN "IllegalUniverse"
  ELSE IF u \notin universes THEN "UniverseNotRegistered" ELSE "Ok"

\* register_universes does this for each universe, up to one out of range.
register_universe(u) ==
  /\ Calls("register_universe", u)
  /\ \/ u \notin Legal /\ Fails("IllegalUniverse")
     \/ /\ u \in Legal
        /\ universes' = universes \cup {u}
        /\ result' = "Ok" /\ Quiet
        /\ UNCHANGED <<running, is_sending_discovery, data_sequences, sync_sequences, adverts>>

\* c.universes is the list, c.required how many of it the data needs (0: no
\* data), c.priority whether the priority is legal.
ArgumentError(c) ==
  LET refused == {i \in DOMAIN c.universes : Allowed(c.universes[i]) # "Ok"} IN
  IF c.required = 0 THEN "DataArrayEmpty"
  ELSE IF refused # {} THEN Allowed(c.universes[Min(refused)])
  ELSE IF c.sync \notin universes \cup {NoSync} THEN "IllegalSyncUniverse"
  ELSE IF Len(c.universes) < c.required THEN "UniverseListEmpty"
  ELSE IF ~ c.priority THEN "InvalidPriority"
  ELSE "Ok"

\* The data goes to the first universes of the list, until a send_to fails.
send(c) ==
  /\ user = "calls" /\ UNCHANGED <<user, thread, nap>>
  /\ IF ArgumentError(c) # "Ok"
     THEN Fails(ArgumentError(c))
     ELSE \E k \in 0 .. c.required :
            LET us == SubSeq(c.universes, 1, k) IN
            /\ k < c.required => "data" \in FailingSends
            /\ data_sequences' = NumbersAfter(us)
            /\ Sends(Packets("data", us))
            /\ result' = IF k < c.required THEN "Io" ELSE "Ok"
            /\ UNCHANGED <<universes, running, is_sending_discovery, sync_sequences, adverts>>

send_sync_packet(u) ==
  /\ Calls("send_sync_packet", u)
  /\ \/ u \notin universes /\ Fails(Allowed(u))
     \/ u \in universes /\ "sync" \in FailingSends /\ Fails("Io")
     \/ /\ u \in universes
        /\ LET n == NextNumber(sync_sequences, u) IN
           /\ sync_sequences' = [v \in DOMAIN sync_sequences \cup {u} |->
                                   IF v = u THEN Incremented(n) ELSE sync_sequences[v]]
           /\ Sends(<<Datagram("sync", u, n)>>)
        /\ result' = "Ok"
        /\ UNCHANGED <<universes, running, is_sending_discovery, data_sequences, adverts>>

\* Mutant of TerminateStreams: the universes are deregistered first.
TerminateStreams_deregisters(list) ==
  \E k \in 0 .. Terminations * Len(list) :
    LET us == [i \in 1 .. k |-> list[(i - 1) \div Terminations + 1]] IN
    /\ data_sequences' = NumbersAfter(us)
    /\ Sends(Packets("terminate", us))
    /\ universes' = universes \ Range(list)
    /\ result' = "Io"

(***************************************************************************)
(* terminate_stream for each universe of a list, with three packets each,  *)
(* until the first that cannot be sent.  Only what was terminated whole is *)
(* deregistered.                                                           *)
(***************************************************************************)
TerminateStreams(list) ==
  LET all == [i \in 1 .. Terminations * Len(list) |-> list[(i - 1) \div Terminations + 1]] IN
  \/ /\ data_sequences' = NumbersAfter(all)
     /\ Sends(Packets("terminate", all))
     /\ universes' = universes \ Range(list)
     /\ result' = "Ok"
  \/ \E k \in 0 .. Len(all) - 1 :
       LET us == SubSeq(all, 1, k) IN
       /\ "terminate" \in FailingSends
       /\ data_sequences' = WithoutNumber(NumbersAfter(us), all[k + 1])
       /\ SendsBut(Packets("terminate", us), {all[k + 1]})
       /\ universes' = universes \ Range(SubSeq(list, 1, k \div Terminations))
       /\ result' = "Io"

terminate_stream(u) ==
  /\ Calls("terminate_stream", u)
  /\ \/ u \notin universes /\ Fails(Allowed(u))
     \/ /\ u \in universes /\ TerminateStreams(<<u>>)
        /\ UNCHANGED <<running, is_sending_discovery, sync_sequences, adverts>>

\* Adverts that are switched on need not leave before the next poll.
set_is_sending_discovery(val) ==
  /\ Calls("set_is_sending_discovery", val)
  /\ is_sending_discovery' = val
  /\ deadline' = IF is_sending_discovery \/ deadline > PollPeriod THEN deadline ELSE PollPeriod
  /\ result' = "Ok" /\ Quiet
  /\ UNCHANGED <<universes, running, data_sequences, sync_sequences, since>>

-----------------------------------------------------------------------------
(* drop: two critical sections and a join. *)

DropStop ==
  /\ user = "calls"
  /\ user' = "stopped" /\ running' = FALSE /\ result' = "Ok" /\ Quiet
  /\ UNCHANGED <<thread, nap, universes, is_sending_discovery, data_sequences, sync_sequences, adverts>>

\* The list of universes, which register_universes keeps sorted.
Ascending(S) ==
  {s \in [1 .. Cardinality(S) -> S] : \A i, j \in 1 .. Cardinality(S) : i < j => s[i] < s[j]}

\* terminate: the streams in the order of the list; drop ignores an error.
DropTerminate ==
  /\ user = "stopped"
  /\ user' = "terminated" /\ running' = FALSE
  /\ \E list \in Ascending(universes) : TerminateStreams(list)
  /\ UNCHANGED <<thread, nap, is_sending_discovery, sync_sequences, adverts>>

DropJoin ==
  /\ user = "terminated" /\ thread = "done"
  /\ user' = "dropped" /\ result' = "Ok" /\ Quiet
  /\ UNCHANGED <<thread, nap, internal>>

-----------------------------------------------------------------------------
(* The update thread. *)

\* Mutant of CheckRunning: never ends.
CheckRunning_always ==
  /\ thread = "check"
  /\ thread' = "sleep" /\ nap' = PollPeriod
  /\ Quiet
  /\ UNCHANGED <<user, internal, result>>

\* while trd_src.lock().unwrap().running
CheckRunning ==
  /\ thread = "check"
  /\ IF running THEN thread' = "sleep" /\ nap' = PollPeriod ELSE thread' = "done" /\ nap' = 0
  /\ Quiet
  /\ UNCHANGED <<user, internal, result>>

Wake ==
  /\ thread = "sleep" /\ nap = 0
  /\ thread' = "update" /\ Quiet
  /\ UNCHANGED <<user, nap, internal, result>>

AdvertIsDue == is_sending_discovery /\ since > AdvertInterval

SendAdvert ==
  /\ Sends(<<[kind |-> "discovery", universes |-> universes]>>)
  /\ since' = 0 /\ deadline' = AdvertInterval + PollPeriod

\* Mutant of AdvertFails: the timestamp is set before the advert is sent.
AdvertFails_stamped ==
  /\ "discovery" \in FailingSends /\ Quiet
  /\ since' = 0 /\ deadline' = PollPeriod

\* An advert that fails is tried again at the next poll.
AdvertFails ==
  /\ "discovery" \in FailingSends /\ Quiet
  /\ UNCHANGED since /\ deadline' = PollPeriod

\* It does not look at running.
perform_periodic_update ==
  /\ thread = "update" /\ thread' = "check"
  /\ \/ ~ AdvertIsDue /\ Quiet /\ UNCHANGED adverts
     \/ AdvertIsDue /\ (SendAdvert \/ AdvertFails)
  /\ UNCHANGED <<user, nap, universes, running, is_sending_discovery, data_sequences,
                 sync_sequences, result>>

\* since is only compared with the interval: it is counted up to a poll later.
Tick ==
  /\ thread = "sleep" /\ nap > 0
  /\ nap' = nap - 1
  /\ since' = IF since > AdvertInterval + PollPeriod THEN since ELSE since + 1
  /\ deadline' = IF deadline < 0 THEN deadline ELSE deadline - 1
  /\ Quiet
  /\ UNCHANGED <<user, thread, universes, running, is_sending_discovery, data_sequences,
                 sync_sequences, result>>

-----------------------------------------------------------------------------

Next ==
  \/ \E u \in Universes : register_universe(u) \/ send_sync_packet(u) \/ terminate_stream(u)
  \/ \E c \in SendCalls : send(c)
  \/ \E val \in BOOLEAN : set_is_sending_discovery(val)
  \/ DropStop \/ DropTerminate \/ DropJoin
  \/ CheckRunning \/ Wake \/ perform_periodic_update
  \/ Tick

Spec == Init /\ [][Next]_vars

\* Both threads are scheduled, std's mutex being free between two steps, and
\* sleeping ends; the user need not call anything.
FairSpec ==
  /\ Spec
  /\ WF_vars(CheckRunning \/ Wake \/ perform_periodic_update) /\ WF_vars(Tick)
  /\ WF_vars(DropTerminate \/ DropJoin)

-----------------------------------------------------------------------------
(* Properties. *)

Results == {"Ok", "Io", "DataArrayEmpty", "UniverseNotRegistered", "IllegalSyncUniverse",
            "UniverseListEmpty", "InvalidPriority", "IllegalUniverse"}

Numbers == 0 .. NumberMod - 1

\* Numbers stay those of a u8, the list holds universes that were registered,
\* and each thread is at one of its steps.
TypeOK ==
  /\ user \in {"calls", "stopped", "terminated", "dropped"}
  /\ thread \in {"check", "sleep", "update", "done"} /\ nap \in 0 .. PollPeriod
  /\ universes \subseteq Legal /\ running \in BOOLEAN /\ is_sending_discovery \in BOOLEAN
  /\ \A seqs \in {data_sequences, sync_sequences} :
       DOMAIN seqs \subseteq Universes /\ \A u \in DOMAIN seqs : seqs[u] \in Numbers
  /\ since \in Nat /\ deadline \in Int /\ result \in Results /\ last \in [Universes -> Numbers \cup {-1}]

\* The number kept for a universe is the one after the last sent on it,
\* through data, terminations, failures and new registrations, except that a
\* termination packet that cannot be sent makes it start again.
NextNumberFollows ==
  \A u \in Universes : last[u] # -1 => NextNumber(data_sequences, u) = Incremented(last[u])

\* Data and termination packets of a universe leave with consecutive numbers,
\* also when one call sends several: otherwise receivers take them for old
\* packets.  The first has the starting number, and so has the first after a
\* termination packet that could not be sent.
ConsecutiveNumbers ==
  [][\A u \in Universes :
       LET own == OnUniverse(wire', u) IN
       \A i \in own :
         LET before == NumberBefore(wire', u, {j \in own : j < i}) IN
         wire'[i].number = IF before = -1 THEN STARTING_SEQUENCE_NUMBER ELSE Incremented(before)]_vars

\* data_sequences "keeps a reference of the next sequence number to use for
\* each universe": a universe that has one keeps one.
NumbersAreKept == [][DOMAIN data_sequences \subseteq DOMAIN data_sequences']_vars

\* While adverts are on, one leaves or is tried at most a poll period after
\* the interval, and one that could not be sent, or that was switched on late,
\* at most a poll period after that, however often it fails.
AdvertsOnTime == thread # "done" /\ is_sending_discovery => deadline >= 0

TerminationsOf(w, u) == {i \in DOMAIN w : w[i].kind = "terminate" /\ w[i].universe = u}

\* A universe leaves the list only when all its termination packets have been
\* sent, by the same call: whatever fails, a receiver is never left waiting
\* for a stream its source no longer lists.
DeregisteredWasTerminated ==
  [][\A u \in universes \ universes' : Cardinality(TerminationsOf(wire', u)) = Terminations]_vars

\* drop returns: the update thread sees running, or its poll does, and ends.
DropReturns == (user = "stopped") ~> (user = "dropped")
=============================================================================
