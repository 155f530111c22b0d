--------------------------- MODULE Receiver_proofs ---------------------------
(***************************************************************************)
(* Theorems about Receiver for every set of packets, calls, flags and      *)
(* recv timeouts, every number of sources and universes, and every build.  *)
(***************************************************************************)
EXTENDS Receiver, SequenceTracking_proofs, DiscoveryRecords_proofs

-----------------------------------------------------------------------------
(* The receiver's SequenceNumbering.  Tracker is an instance, with a copy  *)
(* of each operator of SequenceTracking; Numbering is an instance of the   *)
(* module its theorems are in, with another.                               *)

Numbering == INSTANCE SequenceNumbering_proofs

\* The copies Tracker has of the operators are those of the receiver.
LEMMA TrackerOperators ==
  /\ \A m, a : Tracker!CheckTimeouts(m, a) = CheckTimeouts(m, a)
  /\ \A m, s, u, n, a : Tracker!CheckSeqNumber(m, s, u, n, a) = CheckSeqNumber(m, s, u, n, a)
  /\ \A m, s, u : Tracker!RemoveSourceUniverseSeq(m, s, u) = RemoveSourceUniverseSeq(m, s, u)
  /\ \A m : Tracker!Aged(m) = Aged(m)
  /\ Tracker!EmptyMap = EmptyMap /\ Tracker!Ok = Ok
  /\ Tracker!SequenceMaps = SequenceMaps
<1>1. \A m, a : Tracker!CheckTimeouts(m, a) = CheckTimeouts(m, a)
  BY DEF Tracker!CheckTimeouts, CheckTimeouts, Tracker!WithoutUniverse, WithoutUniverse,
         Tracker!WithoutTimedOut, WithoutTimedOut, Tracker!HasTimedOut, HasTimedOut,
         Tracker!TimedOut, TimedOut, Tracker!Tracked, Tracked, Tracker!IsOld, IsOld,
         Tracker!Restrict, Restrict, Tracker!Ok, Ok, Tracker!UniverseTimeout, UniverseTimeout
<1>2. \A m, s, u, n : Tracker!Admit(m, s, u, n) = Admit(m, s, u, n)
  <2>1. \A S : Tracker!Cardinality(S) = Cardinality(S)
    BY DEF Tracker!Cardinality, Cardinality
  <2>2. \A m : Tracker!LimitReached(m) = LimitReached(m)
    BY <2>1 DEF Tracker!LimitReached, LimitReached
  <2>3. \A m, s : Tracker!WithSource(m, s) = WithSource(m, s)
    BY DEF Tracker!WithSource, WithSource, Tracker!EmptyMap, EmptyMap
  <2>4. \A m, s, u, n : Tracker!WithEntry(m, s, u, n) = WithEntry(m, s, u, n)
    BY DEF Tracker!WithEntry, WithEntry
  <2>5. \A n, e : Tracker!IsOutOfSequence(n, e) = IsOutOfSequence(n, e)
    BY DEF Tracker!IsOutOfSequence, IsOutOfSequence, Tracker!SeqDiff, SeqDiff
  <2>. QED BY <2>2, <2>3, <2>4, <2>5
           DEF Tracker!Admit, Admit, Tracker!Ok, Ok, Tracker!OutOfSequence, OutOfSequence,
               Tracker!SourcesExceeded, SourcesExceeded
<1>3. \A m, s, u, n, a : Tracker!CheckSeqNumber(m, s, u, n, a) = CheckSeqNumber(m, s, u, n, a)
  BY <1>1, <1>2 DEF Tracker!CheckSeqNumber, CheckSeqNumber, Tracker!Ok, Ok
<1>4. \A m, s, u : Tracker!RemoveSourceUniverseSeq(m, s, u) = RemoveSourceUniverseSeq(m, s, u)
  BY DEF Tracker!RemoveSourceUniverseSeq, RemoveSourceUniverseSeq, Tracker!WithoutUniverse,
         WithoutUniverse, Tracker!Restrict, Restrict, Tracker!Ok, Ok, Tracker!SourceNotFound,
         SourceNotFound, Tracker!UniverseNotFound, UniverseNotFound
<1>5. \A m : Tracker!Aged(m) = Aged(m)
  BY DEF Tracker!Aged, Aged, Tracker!Older, Older, Tracker!IsOld, IsOld
<1>6. Tracker!EmptyMap = EmptyMap /\ Tracker!Ok = Ok
  BY DEF Tracker!EmptyMap, EmptyMap, Tracker!Ok, Ok
<1>7. Tracker!SequenceMaps = SequenceMaps
  <2>1. \A S, T : Tracker!PartialFunctions(S, T) = PartialFunctions(S, T)
    BY DEF Tracker!PartialFunctions, PartialFunctions
  <2>2. Tracker!TimedStampedSeqNo = TimedStampedSeqNo
    BY DEF Tracker!TimedStampedSeqNo, TimedStampedSeqNo, Tracker!SeqNumbers, SeqNumbers,
           Tracker!AgeValues, AgeValues
  <2>. QED BY <2>1, <2>2 DEF Tracker!SequenceMaps, SequenceMaps
<1>. QED BY <1>1, <1>3, <1>4, <1>5, <1>6, <1>7

-----------------------------------------------------------------------------
(* The flags. *)

FlagsInv ==
  /\ flags \in [Flags -> BOOLEAN]
  /\ flags["announce_timeout"] \in AnnounceModes

\* Only the setters change a flag.
LEMMA FlagsMoves ==
  ASSUME [Next]_vars
  PROVE  \/ UNCHANGED flags
         \/ \E f \in Flags, val \in BOOLEAN : SetFlag(f, val)
         \/ \E val \in BOOLEAN : SetMulticast(val)
BY DEF Next, vars, Tick, listen_universes, mute_universe, reset_sources, ClearWaiting,
       set_merge_fn, set_ipv6_only, get_discovered_sources, drop, recv, RecvLoop,
       SocketTimeout, SocketError, handle_data_packet, handle_sync_packet, ReceiveDiscovery

\* The setting of announce_timeout is one the tracker may be given.
LEMMA FlagsStep == FlagsInv /\ [Next]_vars => FlagsInv'
<1> SUFFICES ASSUME FlagsInv, [Next]_vars
             PROVE  FlagsInv'
  OBVIOUS
<1>1. CASE UNCHANGED flags
  BY <1>1 DEF FlagsInv
<1>2. ASSUME NEW f \in Flags, NEW val \in BOOLEAN, SetFlag(f, val)
      PROVE  FlagsInv'
  <2>1. flags' = [flags EXCEPT ![f] = val] /\ f \in UserCalls
    BY <1>2 DEF SetFlag, UserCall
  <2>. QED BY <2>1, AnnounceAssumption DEF FlagsInv, Flags
<1>3. ASSUME NEW val \in BOOLEAN, SetMulticast(val)
      PROVE  FlagsInv'
  <2>1. flags' = [flags EXCEPT !["is_multicast_enabled"] =
                    set_is_multicast_enabled(flags["is_multicast_enabled"], val).enabled]
    BY <1>3 DEF SetMulticast
  <2>2. set_is_multicast_enabled(flags["is_multicast_enabled"], val).enabled \in BOOLEAN
    BY DEF set_is_multicast_enabled, FlagsInv, Flags
  <2>. QED BY <2>1, <2>2 DEF FlagsInv, Flags
<1>. QED BY <1>1, <1>2, <1>3, FlagsMoves

-----------------------------------------------------------------------------
(* Every step uses the tracker through its methods. *)

\* A step of the receiver is one call of its SequenceNumbering, or none.
LEMMA TrackerMoves ==
  ASSUME FlagsInv, [Next]_vars
  PROVE  [Tracker!Next]_(Tracker!vars)
<1> DEFINE Goal == [Tracker!Next]_(Tracker!vars)
<1>a. UNCHANGED tracker => Goal
  BY DEF tracker, Tracker!vars
<1>b. flags["announce_timeout"] \in AnnounceModes
  BY DEF FlagsInv
<1>c. Tracker!check_timeouts(flags["announce_timeout"]) => Goal
  BY <1>b DEF Tracker!Next
<1>d. Tracker!SeqNumbers = SeqNumbers
  BY DEF Tracker!SeqNumbers, SeqNumbers
<1>1. CASE Tick \/ reset_sources
  BY <1>1 DEF Tick, reset_sources, Tracker!Next
<1>2. CASE RecvLoop \/ \E t \in RecvTimeouts : recv(t)
  BY <1>2, <1>a, <1>c DEF RecvLoop, recv
<1>3. ASSUME NEW p \in DataPackets, NEW n \in SeqNumbers, handle_data_packet(p, n)
      PROVE  Goal
  <2>1. p.src \in Sources /\ p.universe \in DataUniverses /\ p.universe \in Universes
    BY PacketsAssumption, UniversesAssumption
  <2>2. Examine(p, n) => Goal
    BY <2>1, <1>b, <1>d DEF Examine, Tracker!Next
  <2>3. terminate_stream(p) => Goal
    BY <2>1 DEF terminate_stream, Tracker!Next
  <2>. QED BY <1>3, <1>a, <2>2, <2>3
           DEF handle_data_packet, IgnorePreview, IgnoreUnlistened, RejectData, DeliverData, HoldData
<1>4. ASSUME NEW s \in Sources, NEW u \in SyncUniverses, NEW n \in SeqNumbers,
             handle_sync_packet(s, u, n)
      PROVE  Goal
  BY <1>4, <1>a, <1>b, <1>d DEF handle_sync_packet, Tracker!Next
<1>5. CASE \/ \E us \in ListenCalls : listen_universes(us)
           \/ \E u \in MuteCalls : mute_universe(u)
           \/ ClearWaiting
           \/ \E fn \in MergeFns : set_merge_fn(fn)
           \/ \E f \in Flags, val \in BOOLEAN : SetFlag(f, val)
           \/ \E val \in BOOLEAN : SetMulticast(val)
           \/ set_ipv6_only \/ get_discovered_sources \/ drop
           \/ SocketTimeout \/ SocketError
           \/ \E p \in DiscoveryPackets : ReceiveDiscovery(p)
           \/ UNCHANGED vars
  BY <1>5, <1>a
     DEF listen_universes, mute_universe, ClearWaiting, set_merge_fn, SetFlag, SetMulticast,
         set_ipv6_only, get_discovered_sources, drop, SocketTimeout, SocketError,
         ReceiveDiscovery, vars
<1>. QED BY <1>1, <1>2, <1>3, <1>4, <1>5 DEF Next

\* with_ip starts with every flag off but the one for multicast.
LEMMA InitFlags == Init => FlagsInv
BY AnnounceAssumption DEF Init, FlagsInv, Flags, MulticastSupported

\* The receiver implements SequenceNumbering: its recv, its handlers and
\* reset_sources change the sequence numbers only by calls of that struct.
THEOREM TrackerIsUsedAsSpecified == Spec => TrackerSpec
<1>1. Init => Tracker!Init
  BY DEF Init
<1>. QED BY <1>1, InitFlags, FlagsStep, TrackerMoves, PTL DEF Spec, TrackerSpec, Tracker!Spec

\* The copies that Tracker and Numbering have of the methods are the same.
LEMMA TrackerIsNumbering ==
  /\ Tracker!Init => Numbering!Init
  /\ Tracker!Next => Numbering!Next
  /\ Tracker!vars = Numbering!vars
<1>1. Tracker!Init => Numbering!Init
  BY DEF Tracker!Init, Numbering!Init, Tracker!EmptyMap, Numbering!EmptyMap, Tracker!Ok, Numbering!Ok
<1>2. Tracker!Next => Numbering!Next
  BY DEF Tracker!Next, Numbering!Next, Tracker!Tick, Numbering!Tick, Tracker!clear, Numbering!clear,
         Tracker!check_timeouts, Numbering!check_timeouts, Tracker!check_data_seq_number,
         Numbering!check_data_seq_number, Tracker!check_sync_seq_number,
         Numbering!check_sync_seq_number, Tracker!remove_seq_numbers,
         Numbering!remove_seq_numbers, Tracker!CheckTimeouts, Numbering!CheckTimeouts,
         Tracker!CheckSeqNumber, Numbering!CheckSeqNumber, Tracker!RemoveSourceUniverseSeq,
         Numbering!RemoveSourceUniverseSeq, Tracker!Admit, Numbering!Admit,
         Tracker!LimitReached, Numbering!LimitReached, Tracker!WithEntry,
         Numbering!WithEntry, Tracker!WithSource, Numbering!WithSource, Tracker!Aged,
         Numbering!Aged, Tracker!WithoutTimedOut, Numbering!WithoutTimedOut,
         Tracker!WithoutUniverse, Numbering!WithoutUniverse, Tracker!EmptyMap,
         Numbering!EmptyMap, Tracker!HasTimedOut, Numbering!HasTimedOut, Tracker!TimedOut,
         Numbering!TimedOut, Tracker!Tracked, Numbering!Tracked, Tracker!IsOutOfSequence,
         Numbering!IsOutOfSequence, Tracker!SeqDiff, Numbering!SeqDiff, Tracker!Ok,
         Numbering!Ok, Tracker!OutOfSequence, Numbering!OutOfSequence,
         Tracker!SourcesExceeded, Numbering!SourcesExceeded, Tracker!SourceNotFound,
         Numbering!SourceNotFound, Tracker!UniverseNotFound, Numbering!UniverseNotFound,
         Tracker!UniverseTimeout, Numbering!UniverseTimeout, Tracker!SeqNumbers,
         Numbering!SeqNumbers, Tracker!Restrict, Numbering!Restrict, Tracker!Cardinality,
         Numbering!Cardinality, Tracker!IsOld, Numbering!IsOld, Tracker!Older,
         Numbering!Older
<1>3. Tracker!vars = Numbering!vars
  BY DEF Tracker!vars, Numbering!vars
<1>. QED BY <1>1, <1>2, <1>3

\* The assumptions the theorems about SequenceNumbering make hold here.
LEMMA NumberingAssumptions ==
  /\ Numbering!IsFiniteSet(Sources)
  /\ DataUniverses \subseteq Universes /\ SyncUniverses \subseteq Universes
  /\ AnnounceModes \subseteq BOOLEAN
BY SourcesAssumption, UniversesAssumption, AnnounceAssumption DEF IsFiniteSet, Numbering!IsFiniteSet

\* Its inductive invariant is one of the receiver.
LEMMA NumberingStep ==
  /\ Init => Numbering!IInv
  /\ FlagsInv /\ Numbering!IInv /\ [Next]_vars => Numbering!IInv'
<1>1. Numbering!Init => Numbering!IInv
  BY Numbering!InitIInv, TimeoutAssumption, SeqAssumption, LimitAssumption, NumberingAssumptions
<1>2. Numbering!IInv /\ [Numbering!Next]_(Numbering!vars) => Numbering!IInv'
  BY Numbering!NextIInv, TimeoutAssumption, SeqAssumption, LimitAssumption, NumberingAssumptions
<1>3. Init => Tracker!Init
  BY DEF Init
<1>4. ASSUME FlagsInv, [Next]_vars
      PROVE  [Numbering!Next]_(Numbering!vars)
  <2>1. CASE Tracker!Next
    BY <2>1, TrackerIsNumbering
  <2>2. CASE UNCHANGED Tracker!vars
    BY <2>2 DEF Tracker!vars, Numbering!vars
  <2>. QED BY <1>4, <2>1, <2>2, TrackerMoves
<1>. QED BY <1>1, <1>2, <1>3, <1>4, TrackerIsNumbering

-----------------------------------------------------------------------------
(* What the tracker guarantees, in the receiver's own operators. *)

\* The maps are well kept and ret is a result of the tracker's methods.
MapsInv ==
  /\ WellKept(data_sequences) /\ WellKept(sync_sequences)
  /\ ret.res \in {"Ok", "OutOfSequence", "SourcesExceededError", "SourceNotFound",
                  "UniverseNotFound", "UniverseTimeout"}

\* The invariant of SequenceNumbering says as much, and more.
LEMMA NumberingInvImplies == Numbering!IInv => MapsInv /\ Tracker!TypeOK
<1>1. \A S, T : Numbering!PartialFunctions(S, T) = PartialFunctions(S, T)
  BY DEF Numbering!PartialFunctions, PartialFunctions
<1>2. Numbering!TimedStampedSeqNo = TimedStampedSeqNo
  BY DEF Numbering!TimedStampedSeqNo, TimedStampedSeqNo, Numbering!SeqNumbers, SeqNumbers,
         Numbering!AgeValues, AgeValues
<1>3. Numbering!SequenceMaps = SequenceMaps
  BY <1>1, <1>2 DEF Numbering!SequenceMaps, SequenceMaps
<1>4. \A S : Numbering!Cardinality(S) = Cardinality(S)
  BY DEF Numbering!Cardinality, Cardinality
<1>5. \A m : Numbering!WellKept(m) <=> WellKept(m)
  BY <1>3, <1>4 DEF Numbering!WellKept, WellKept, Numbering!WithinLimit, WithinLimit
<1>6. Numbering!Results = Tracker!Results
  BY DEF Numbering!Results, Tracker!Results, Numbering!Ok, Tracker!Ok, Numbering!OutOfSequence,
         Tracker!OutOfSequence, Numbering!SourcesExceeded, Tracker!SourcesExceeded,
         Numbering!SourceNotFound, Tracker!SourceNotFound, Numbering!UniverseNotFound,
         Tracker!UniverseNotFound, Numbering!UniverseTimeout, Tracker!UniverseTimeout
<1>7. \A r \in Tracker!Results :
        r.res \in {"Ok", "OutOfSequence", "SourcesExceededError", "SourceNotFound",
                   "UniverseNotFound", "UniverseTimeout"}
  BY DEF Tracker!Results, Tracker!Ok, Tracker!OutOfSequence, Tracker!SourcesExceeded,
         Tracker!SourceNotFound, Tracker!UniverseNotFound, Tracker!UniverseTimeout
<1>8. Numbering!Calls = Tracker!Calls
  BY DEF Numbering!Calls, Tracker!Calls
<1>9. SUFFICES ASSUME Numbering!IInv
               PROVE  MapsInv /\ Tracker!TypeOK
  OBVIOUS
<1>10. /\ WellKept(data_sequences) /\ WellKept(sync_sequences)
       /\ call \in Tracker!Calls /\ ret \in Tracker!Results
  BY <1>5, <1>6, <1>8, <1>9 DEF Numbering!IInv
<1>11. data_sequences \in Tracker!SequenceMaps /\ sync_sequences \in Tracker!SequenceMaps
  BY <1>10, TrackerOperators DEF WellKept
<1>. QED BY <1>7, <1>10, <1>11 DEF MapsInv, Tracker!TypeOK

-----------------------------------------------------------------------------
(* Where recv is. *)

ControlInv ==
  /\ pc \in {"idle", "loop", "socket", "dropped"}
  /\ remaining \in Nat \cup {Forever}
  /\ sockwait \in 0 .. Timeout
  /\ pc = "socket" /\ remaining # Forever => sockwait <= remaining

\* Every way a step moves recv.
LEMMA ControlMoves ==
  ASSUME [Next]_vars
  PROVE  \/ UNCHANGED control /\ (pc # "socket" \/ UNCHANGED vars)
         \/ pc \in {"loop", "socket"} /\ pc' = "idle" /\ remaining' = Forever /\ sockwait' = 0
         \/ pc = "socket" /\ pc' = "loop" /\ sockwait' = 0 /\ remaining' = remaining
         \/ pc = "idle" /\ pc' = "dropped" /\ UNCHANGED <<remaining, sockwait>>
         \/ /\ pc = "idle" /\ pc' = "loop" /\ sockwait' = sockwait
            /\ remaining' \in RecvTimeouts
         \/ /\ RecvLoop /\ ret' = Ok
            /\ waiting_data' = check_waiting_data_timeouts(waiting_data)
            /\ ~ (remaining # Forever /\ remaining <= 0)
            /\ pc' = "socket" /\ sockwait' = ActualTimeout /\ remaining' = remaining
         \/ /\ pc = "socket" /\ pc' = "socket" /\ sockwait > 0 /\ sockwait' = sockwait - 1
            /\ remaining' = IF remaining = Forever THEN Forever ELSE remaining - 1
<1> DEFINE Goal ==
         \/ UNCHANGED control /\ (pc # "socket" \/ UNCHANGED vars)
         \/ pc \in {"loop", "socket"} /\ pc' = "idle" /\ remaining' = Forever /\ sockwait' = 0
         \/ pc = "socket" /\ pc' = "loop" /\ sockwait' = 0 /\ remaining' = remaining
         \/ pc = "idle" /\ pc' = "dropped" /\ UNCHANGED <<remaining, sockwait>>
         \/ /\ pc = "idle" /\ pc' = "loop" /\ sockwait' = sockwait
            /\ remaining' \in RecvTimeouts
         \/ /\ RecvLoop /\ ret' = Ok
            /\ waiting_data' = check_waiting_data_timeouts(waiting_data)
            /\ ~ (remaining # Forever /\ remaining <= 0)
            /\ pc' = "socket" /\ sockwait' = ActualTimeout /\ remaining' = remaining
         \/ /\ pc = "socket" /\ pc' = "socket" /\ sockwait > 0 /\ sockwait' = sockwait - 1
            /\ remaining' = IF remaining = Forever THEN Forever ELSE remaining - 1
<1>1. CASE Tick
  BY <1>1 DEF Tick, control
<1>2. CASE RecvLoop
  BY <1>2 DEF RecvLoop, Return
<1>3. CASE \E t \in RecvTimeouts : recv(t)
  BY <1>3 DEF recv, control
<1>4. CASE drop
  BY <1>4 DEF drop, UserCall
<1>5. ASSUME NEW p \in DataPackets, NEW n \in SeqNumbers, handle_data_packet(p, n)
      PROVE  Goal
  BY <1>5 DEF handle_data_packet, IgnorePreview, terminate_stream, IgnoreUnlistened, RejectData,
              DeliverData, HoldData, GoRound, Return
<1>6. CASE \/ SocketTimeout \/ SocketError
           \/ \E s \in Sources, u \in SyncUniverses, n \in SeqNumbers : handle_sync_packet(s, u, n)
           \/ \E p \in DiscoveryPackets : ReceiveDiscovery(p)
  BY <1>6 DEF SocketTimeout, SocketError, handle_sync_packet, ReceiveDiscovery, GoRound, Return
<1>7. CASE \/ \E us \in ListenCalls : listen_universes(us)
           \/ \E u \in MuteCalls : mute_universe(u)
           \/ reset_sources \/ ClearWaiting
           \/ \E fn \in MergeFns : set_merge_fn(fn)
           \/ \E f \in Flags, val \in BOOLEAN : SetFlag(f, val)
           \/ \E val \in BOOLEAN : SetMulticast(val)
           \/ set_ipv6_only \/ get_discovered_sources
  BY <1>7 DEF listen_universes, mute_universe, reset_sources, ClearWaiting, set_merge_fn, SetFlag,
              SetMulticast, set_ipv6_only, get_discovered_sources, UserCall
<1>8. CASE UNCHANGED vars
  BY <1>8 DEF vars
<1>. QED BY <1>1, <1>2, <1>3, <1>4, <1>5, <1>6, <1>7, <1>8 DEF Next

\* The socket never waits beyond the deadline of recv.
LEMMA ControlStep == ControlInv /\ [Next]_vars => ControlInv'
<1> SUFFICES ASSUME ControlInv, [Next]_vars
             PROVE  ControlInv'
  OBVIOUS
<1>1. CASE UNCHANGED control
  BY <1>1 DEF ControlInv, control
<1>2. CASE RecvLoop /\ ret' = Ok /\ pc' = "socket" /\ sockwait' = ActualTimeout /\ remaining' = remaining
  BY <1>2, TimeoutAssumption, ForeverAssumption DEF ControlInv, ActualTimeout, RecvLoop
<1>3. CASE pc' = "socket" /\ sockwait > 0 /\ sockwait' = sockwait - 1 /\ pc = "socket"
           /\ remaining' = IF remaining = Forever THEN Forever ELSE remaining - 1
  BY <1>3, TimeoutAssumption, ForeverAssumption DEF ControlInv
<1>4. CASE /\ pc' \in {"idle", "loop", "dropped"}
           /\ remaining' \in RecvTimeouts \cup {remaining, Forever}
           /\ sockwait' \in {0, sockwait}
  BY <1>4, TimeoutsAssumption, TimeoutAssumption DEF ControlInv
<1>. QED BY <1>1, <1>2, <1>3, <1>4, ControlMoves

\* with_ip leaves recv idle.
LEMMA InitControl == Init => ControlInv
BY TimeoutAssumption DEF Init, ControlInv

\* recv(Some(t)) is never still waiting after t (recv, receive.rs): the socket
\* timeout of every round is cut to what is left of the deadline.
THEOREM DeadlineIsMet == Spec => []RecvMeetsDeadline
<1>1. ControlInv => RecvMeetsDeadline
  BY DEF ControlInv, RecvMeetsDeadline
<1>. QED BY <1>1, InitControl, ControlStep, PTL DEF Spec

-----------------------------------------------------------------------------
(* Timeouts are seen in time. *)

\* The tracker's methods that check timeouts or sequence numbers, in the
\* receiver's own operators.
LEMMA TrackerMethods ==
  /\ \A a : Tracker!check_timeouts(a) =>
       \E d \in CheckTimeouts(data_sequences, a) :
         /\ data_sequences' = d.seqs
         /\ \/ d.ret # Ok /\ ret' = d.ret /\ sync_sequences' = sync_sequences
            \/ /\ d.ret = Ok
               /\ \E y \in CheckTimeouts(sync_sequences, a) :
                    sync_sequences' = y.seqs /\ ret' = y.ret
  /\ \A s, u, n, a : Tracker!check_data_seq_number(s, u, n, a) =>
       /\ sync_sequences' = sync_sequences
       /\ \E o \in CheckSeqNumber(data_sequences, s, u, n, a) :
            data_sequences' = o.seqs /\ ret' = o.ret
  /\ \A s, u, n, a : Tracker!check_sync_seq_number(s, u, n, a) =>
       /\ data_sequences' = data_sequences
       /\ \E o \in CheckSeqNumber(sync_sequences, s, u, n, a) :
            sync_sequences' = o.seqs /\ ret' = o.ret
BY TrackerOperators DEF Tracker!check_timeouts, Tracker!check_data_seq_number,
                        Tracker!check_sync_seq_number

NothingOld(m) == \A s \in DOMAIN m : ~ HasTimedOut(m, s)

\* With announce_timeout off, recv comes to the socket with no stream timed out.
LEMMA LoopLeavesNothingOld ==
  ASSUME FlagsInv, MapsInv, RecvLoop, ret' = Ok, ~ flags["announce_timeout"]
  PROVE  NothingOld(data_sequences') /\ NothingOld(sync_sequences')
<1> DEFINE a == flags["announce_timeout"]
<1>1. a \in {FALSE}
  <2>1. a \in BOOLEAN
    BY AnnounceAssumption DEF FlagsInv
  <2>. QED BY <2>1
<1>2. PICK d \in CheckTimeouts(data_sequences, a) :
        /\ data_sequences' = d.seqs
        /\ d.ret = Ok => \E y \in CheckTimeouts(sync_sequences, a) : sync_sequences' = y.seqs
  BY TrackerMethods DEF RecvLoop
<1>3. d.seqs = WithoutTimedOut(data_sequences) /\ d.ret = Ok
  BY <1>1, <1>2, QuietCheck
<1>4. PICK y \in CheckTimeouts(sync_sequences, a) : sync_sequences' = y.seqs
  BY <1>2, <1>3
<1>5. y.seqs = WithoutTimedOut(sync_sequences)
  BY <1>1, <1>4, QuietCheck
<1>. QED BY <1>2, <1>3, <1>4, <1>5, QuietLeavesOnlyLive DEF MapsInv, WellKept, NothingOld, HasTimedOut

\* The wait that RecvLoop starts is at most a data loss timeout long, and one
\* in which anything is old has been going on for a tick.
LEMMA SeenInTimeStep ==
  ASSUME FlagsInv, MapsInv, ControlInv, TimeoutsSeenInTime, [Next]_vars
  PROVE  TimeoutsSeenInTime'
<1>1. CASE UNCHANGED control /\ pc # "socket"
  BY <1>1 DEF TimeoutsSeenInTime, control
<1>2. CASE UNCHANGED vars
  BY <1>2 DEF TimeoutsSeenInTime, vars, control, tracker, HasTimedOut, TimedOut, Tracked
<1>3. CASE pc' # "socket"
  BY <1>3 DEF TimeoutsSeenInTime
<1>4. CASE RecvLoop /\ ret' = Ok /\ waiting_data' = check_waiting_data_timeouts(waiting_data)
  <2>1. \A u \in DOMAIN waiting_data' : ~ IsOld(waiting_data'[u].age)
    BY <1>4 DEF check_waiting_data_timeouts, Restrict
  <2>2. flags' = flags
    BY <1>4 DEF RecvLoop
  <2>. QED BY <1>4, <2>1, <2>2, LoopLeavesNothingOld DEF TimeoutsSeenInTime, NothingOld
<1>5. CASE sockwait > 0 /\ sockwait' = sockwait - 1
  BY <1>5, TimeoutAssumption DEF TimeoutsSeenInTime, ControlInv
<1>. QED BY <1>1, <1>2, <1>3, <1>4, <1>5, ControlMoves

\* Whatever modes the user switches: the wait of recv in which held data turns
\* stale, or with announce_timeout off a stream times out, always ends less
\* than a data loss timeout later.
THEOREM TimeoutsAreSeenInTime == Spec => []TimeoutsSeenInTime
<1>1. Init => TimeoutsSeenInTime
  BY DEF Init, TimeoutsSeenInTime
<1>2. FlagsInv /\ MapsInv /\ ControlInv /\ TimeoutsSeenInTime /\ [Next]_vars => TimeoutsSeenInTime'
  BY SeenInTimeStep
<1>3. Numbering!IInv => MapsInv
  BY NumberingInvImplies
<1>. QED BY <1>1, <1>2, <1>3, InitFlags, FlagsStep, InitControl, ControlStep, NumberingStep,
            PTL DEF Spec

-----------------------------------------------------------------------------
(* What recv returns. *)

\* The results of the network receiver's operations are no data.
LEMMA NetworkResults ==
  /\ \A j, u : \A o \in mute_multicast_universe(j, u) : o.ret.res # "Data"
  /\ \A old, val : set_is_multicast_enabled(old, val).ret.res # "Data"
  /\ \A r \in set_only_v6 : r.res # "Data"
BY DEF mute_multicast_universe, leave_win_multicast, leave_unix_multicast, Outcomes,
       set_is_multicast_enabled, set_only_v6, Ok, Io, OsOperationUnsupported, Result

\* What a data packet that does not wait, or a synchronisation packet, releases.
LEMMA DeliveredIsFresh ==
  /\ \A p, n : ~ IsOld(DataOf(p, n).age)
  /\ \A w, sync : \A d \in rtrv_waiting_data(w, sync).data : ~ IsOld(d.dmx.age)
BY TimeoutAssumption DEF DataOf, DMXData, IsOld, rtrv_waiting_data

\* Only a data packet or a synchronisation packet makes recv return data, and
\* the tracker's results are none.
LEMMA ReleasedFreshStep ==
  ASSUME MapsInv', ReleasedDataIsFresh, [Next]_vars
  PROVE  ReleasedDataIsFresh'
<1> DEFINE Goal == ReleasedDataIsFresh'
<1>a. outcome' = outcome => Goal
  BY DEF ReleasedDataIsFresh
<1>b. outcome'.res # "Data" => Goal
  BY DEF ReleasedDataIsFresh
<1>c. outcome' = ret' => Goal
  BY DEF ReleasedDataIsFresh, MapsInv
<1>d. \A D : outcome' = Data(D) /\ (\A d \in D : ~ IsOld(d.dmx.age)) => Goal
  BY DEF ReleasedDataIsFresh, Data
<1>1. CASE Tick \/ SocketTimeout \/ SocketError
  BY <1>1, <1>a, <1>b DEF Tick, NoOutcome, SocketTimeout, SocketError, GoRound, Return, Io, Result
<1>2. CASE RecvLoop \/ \E t \in RecvTimeouts : recv(t)
  BY <1>2, <1>a, <1>b, <1>c DEF RecvLoop, recv, Return, Result, NoOutcome
<1>3. ASSUME NEW p \in DataPackets, NEW n \in SeqNumbers, handle_data_packet(p, n)
      PROVE  Goal
  <2>1. DeliverData(p, n) => Goal
    BY <1>d, DeliveredIsFresh DEF DeliverData, Return
  <2>2. HoldData(p, n) => Goal
    BY <1>a, <1>b DEF HoldData, GoRound, Return, Result, Io
  <2>3. IgnorePreview(p) \/ terminate_stream(p) \/ IgnoreUnlistened(p) \/ RejectData(p, n) => Goal
    BY <1>a, <1>b, <1>c DEF IgnorePreview, terminate_stream, IgnoreUnlistened, RejectData,
                            GoRound, Return, UniverseTerminated
  <2>. QED BY <1>3, <2>1, <2>2, <2>3 DEF handle_data_packet
<1>4. ASSUME NEW s \in Sources, NEW u \in SyncUniverses, NEW n \in SeqNumbers,
             handle_sync_packet(s, u, n)
      PROVE  Goal
  BY <1>4, <1>a, <1>c, <1>d, DeliveredIsFresh DEF handle_sync_packet, GoRound, Return
<1>5. ASSUME NEW p \in DiscoveryPackets, ReceiveDiscovery(p)
      PROVE  Goal
  BY <1>5, <1>a, <1>b DEF ReceiveDiscovery, GoRound, Return
<1>6. CASE \/ \E us \in ListenCalls : listen_universes(us)
           \/ \E u \in MuteCalls : mute_universe(u)
           \/ \E val \in BOOLEAN : SetMulticast(val)
           \/ set_ipv6_only
  <2>1. \A us : listen_universes(us) => Goal
    BY <1>b DEF listen_universes, Ok, Io, Result
  <2>2. \A u : mute_universe(u) => Goal
    BY <1>b, NetworkResults DEF mute_universe, UniverseNotFound, Result
  <2>3. \A val : SetMulticast(val) => Goal
    BY <1>b, NetworkResults DEF SetMulticast
  <2>4. set_ipv6_only => Goal
    BY <1>b, NetworkResults DEF set_ipv6_only
  <2>. QED BY <1>6, <2>1, <2>2, <2>3, <2>4
<1>7. CASE \/ reset_sources \/ ClearWaiting \/ get_discovered_sources \/ drop
           \/ \E fn \in MergeFns : set_merge_fn(fn)
           \/ \E f \in Flags, val \in BOOLEAN : SetFlag(f, val)
  BY <1>7, <1>b DEF reset_sources, ClearWaiting, get_discovered_sources, drop, set_merge_fn,
                    SetFlag, Ok, NoOutcome
<1>8. CASE UNCHANGED vars
  BY <1>8, <1>a DEF vars
<1>. QED BY <1>1, <1>2, <1>3, <1>4, <1>5, <1>6, <1>7, <1>8 DEF Next

\* Whatever held data a synchronisation packet releases, recv returns none of
\* it that is as old as the data loss timeout.
THEOREM ReleasesAreFresh == Spec => []ReleasedDataIsFresh
<1>1. Init => ReleasedDataIsFresh
  BY DEF Init, ReleasedDataIsFresh, NoOutcome
<1>2. MapsInv' /\ ReleasedDataIsFresh /\ [Next]_vars => ReleasedDataIsFresh'
  BY ReleasedFreshStep
<1>3. Numbering!IInv => MapsInv
  BY NumberingInvImplies
<1>. QED BY <1>1, <1>2, <1>3, InitFlags, FlagsStep, NumberingStep, PTL DEF Spec

-----------------------------------------------------------------------------
(* Universes and their multicast groups. *)

\* What listening does, whether it succeeds or fails halfway: nothing is
\* unregistered or left, and only groups of registered universes are joined.
ListensTo ==
  /\ universes \subseteq universes'
  /\ universes' \subseteq universes \cup Universes
  /\ joined \subseteq joined'
  /\ joined' \subseteq joined \cup Groups(universes')
  /\ ~ flags["is_multicast_enabled"] => joined' = joined

\* Groups is monotone.
LEMMA GroupsMonotone == \A S, T : S \subseteq T => Groups(S) \subseteq Groups(T)
BY DEF Groups

\* listen_universes and the listening of handle_data_packet.
LEMMA ListenIsListening ==
  ASSUME NEW us, Len(us) \in Nat, Listen(us) \/ ListenFails(us)
  PROVE  ListensTo
<1>1. CASE Listen(us)
  <2>1. Fresh(us, Len(us)) \subseteq universes'
    BY <1>1 DEF Listen, Fresh
  <2>2. Groups(Fresh(us, Len(us))) \subseteq Groups(universes')
    BY <2>1, GroupsMonotone
  <2>. QED BY <1>1, <2>2 DEF Listen, InRange, ListensTo
<1>2. CASE ListenFails(us)
  <2>1. PICK k \in 1 .. Len(us) :
          /\ universes' = universes \cup Listed(us, k)
          /\ \E o \in listen_multicast_universe(joined \cup Groups(Fresh(us, k - 1)), us[k]) :
               o.ret = Io /\ joined' = o.joined
    BY <1>2 DEF ListenFails
  <2>2. joined' = joined \cup Groups(Fresh(us, k - 1))
    BY <2>1 DEF listen_multicast_universe, join_win_multicast, join_unix_multicast, Outcomes, Ok,
                Io, Result
  <2>3. Listed(us, k - 1) \subseteq Listed(us, k) /\ Listed(us, k) \subseteq Listed(us, Len(us))
    BY <2>1 DEF Listed
  <2>4. Fresh(us, k - 1) \subseteq universes'
    BY <2>1, <2>3 DEF Fresh
  <2>5. Groups(Fresh(us, k - 1)) \subseteq Groups(universes')
    BY <2>4, GroupsMonotone
  <2>6. Listed(us, Len(us)) \subseteq Universes /\ flags["is_multicast_enabled"]
    BY <1>2 DEF ListenFails, InRange
  <2>. QED BY <2>1, <2>2, <2>3, <2>5, <2>6 DEF ListensTo
<1>. QED BY <1>1, <1>2

\* Leaving a group takes it alone away, or nothing.
LEMMA LeavingOneGroup ==
  ASSUME NEW j, NEW u, NEW o \in mute_multicast_universe(j, u)
  PROVE  o.joined \in {j, j \ {MulticastGroup(u)}}
BY DEF mute_multicast_universe, leave_win_multicast, leave_unix_multicast, Outcomes

\* Every way a step changes the universes and the groups.
LEMMA UniversesMoves ==
  ASSUME [Next]_vars
  PROVE  \/ UNCHANGED <<universes, joined>>
         \/ ListensTo /\ pc' # "dropped"
         \/ \E u \in MuteCalls \cap universes :
              /\ universes' = universes \ {u}
              /\ joined' \in {joined, joined \ {MulticastGroup(u)}}
              /\ pc = "idle" /\ UNCHANGED <<pc, waiting_data>>
         \/ /\ universes' = {} /\ pc' = "dropped" /\ UNCHANGED waiting_data
            /\ \E left \in SUBSET universes : joined' = joined \ Groups(left)
<1> DEFINE Goal ==
         \/ UNCHANGED <<universes, joined>>
         \/ ListensTo /\ pc' # "dropped"
         \/ \E u \in MuteCalls \cap universes :
              /\ universes' = universes \ {u}
              /\ joined' \in {joined, joined \ {MulticastGroup(u)}}
              /\ pc = "idle" /\ UNCHANGED <<pc, waiting_data>>
         \/ /\ universes' = {} /\ pc' = "dropped" /\ UNCHANGED waiting_data
            /\ \E left \in SUBSET universes : joined' = joined \ Groups(left)
<1>1. ASSUME NEW us \in ListenCalls, listen_universes(us)
      PROVE  Goal
  <2>1. Len(us) \in Nat
    BY ListsAssumption
  <2>. QED BY <1>1, <2>1, ListenIsListening DEF listen_universes, control
<1>2. ASSUME NEW u \in MuteCalls, mute_universe(u)
      PROVE  Goal
  <2>1. CASE UNCHANGED <<universes, joined>>
    BY <2>1
  <2>2. CASE ~ UNCHANGED <<universes, joined>>
    <3>1. /\ u \in universes /\ universes' = universes \ {u} /\ pc = "idle"
          /\ UNCHANGED <<pc, waiting_data>>
          /\ \E o \in mute_multicast_universe(joined, u) : joined' = o.joined
      BY <1>2, <2>2 DEF mute_universe, control
    <3>. QED BY <3>1, LeavingOneGroup
  <2>. QED BY <2>1, <2>2
<1>3. CASE drop
  BY <1>3 DEF drop
<1>4. ASSUME NEW p \in DataPackets, NEW n \in SeqNumbers, handle_data_packet(p, n)
      PROVE  Goal
  <2>1. CASE HoldData(p, n)
    <3>1. pc' # "dropped" \/ UNCHANGED <<universes, joined>>
      BY <2>1 DEF HoldData, GoRound, Return
    <3>. QED BY <2>1, <3>1, ListenIsListening DEF HoldData, GoRound, Return
  <2>2. CASE ~ HoldData(p, n)
    BY <1>4, <2>2 DEF handle_data_packet, IgnorePreview, terminate_stream, IgnoreUnlistened,
                      RejectData, DeliverData
  <2>. QED BY <2>1, <2>2
<1>5. CASE \/ Tick \/ reset_sources \/ ClearWaiting \/ set_ipv6_only \/ get_discovered_sources
           \/ RecvLoop \/ SocketTimeout \/ SocketError
           \/ \E t \in RecvTimeouts : recv(t)
           \/ \E s \in Sources, u \in SyncUniverses, n \in SeqNumbers : handle_sync_packet(s, u, n)
           \/ \E p \in DiscoveryPackets : ReceiveDiscovery(p)
           \/ \E fn \in MergeFns : set_merge_fn(fn)
           \/ \E f \in Flags, val \in BOOLEAN : SetFlag(f, val)
           \/ \E val \in BOOLEAN : SetMulticast(val)
           \/ UNCHANGED vars
  BY <1>5 DEF Tick, reset_sources, ClearWaiting, set_ipv6_only, get_discovered_sources, RecvLoop,
              SocketTimeout, SocketError, recv, handle_sync_packet, ReceiveDiscovery,
              set_merge_fn, SetFlag, SetMulticast, vars
<1>. QED BY <1>1, <1>2, <1>3, <1>4, <1>5 DEF Next

\* One step joins and leaves groups as GroupsFollowUniverses says.
GroupsFollow ==
  /\ joined \ joined' \subseteq Groups(universes \ universes')
  /\ joined' \ joined \subseteq Groups(universes')

\* Every step of the receiver does.
LEMMA GroupsFollowStep == [Next]_vars => GroupsFollow
<1> SUFFICES ASSUME [Next]_vars
             PROVE  GroupsFollow
  OBVIOUS
<1>1. CASE UNCHANGED <<universes, joined>>
  BY <1>1 DEF GroupsFollow
<1>2. CASE ListensTo
  BY <1>2 DEF ListensTo, GroupsFollow
<1>3. ASSUME NEW u \in universes, universes' = universes \ {u},
             joined' \in {joined, joined \ {MulticastGroup(u)}}
      PROVE  GroupsFollow
  BY <1>3 DEF GroupsFollow, Groups
<1>4. CASE universes' = {} /\ \E left \in SUBSET universes : joined' = joined \ Groups(left)
  BY <1>4, GroupsMonotone DEF GroupsFollow
<1>. QED BY <1>1, <1>2, <1>3, <1>4, UniversesMoves

\* Listening, muting and dropping, and every failure on the way, leave only
\* groups of universes that are unregistered in the same step, and join only
\* groups of universes registered then.
THEOREM GroupsFollowTheUniverses == Spec => GroupsFollowUniverses
<1>1. [Next]_vars => [GroupsFollow]_vars
  BY GroupsFollowStep
<1>. QED BY <1>1, PTL DEF Spec, GroupsFollowUniverses, GroupsFollow

\* The universes are known ones, and where groups cannot be left none is
\* joined: multicast is off from the start and stays off.
GroupsInv ==
  /\ universes \subseteq Universes
  /\ joined \subseteq Groups(Universes)
  /\ ~ MulticastSupported => joined = {} /\ ~ flags["is_multicast_enabled"]

\* with_ip.
LEMMA InitGroups == Init => GroupsInv
BY UniversesAssumption DEF Init, GroupsInv, Groups, Flags

\* set_is_multicast_enabled refuses to switch multicast on, so no listening joins.
LEMMA GroupsStep ==
  ASSUME FlagsInv, GroupsInv, [Next]_vars
  PROVE  GroupsInv'
<1>1. ~ MulticastSupported => ~ flags'["is_multicast_enabled"]
  <2>1. CASE UNCHANGED flags
    BY <2>1 DEF GroupsInv
  <2>2. ASSUME NEW f \in Flags, NEW val \in BOOLEAN, SetFlag(f, val)
        PROVE  flags'["is_multicast_enabled"] = flags["is_multicast_enabled"]
    BY <2>2 DEF SetFlag, FlagsInv
  <2>3. ASSUME NEW val \in BOOLEAN, SetMulticast(val), ~ MulticastSupported
        PROVE  ~ flags'["is_multicast_enabled"]
    BY <2>3 DEF SetMulticast, set_is_multicast_enabled, FlagsInv, Flags, GroupsInv
  <2>. QED BY <2>1, <2>2, <2>3, FlagsMoves DEF GroupsInv
<1>2. /\ universes' \subseteq Universes
      /\ joined' \subseteq joined \cup Groups(universes')
      /\ ~ flags["is_multicast_enabled"] => joined' \subseteq joined
  BY UniversesMoves DEF GroupsInv, ListensTo
<1>3. Groups(universes') \subseteq Groups(Universes)
  BY <1>2, GroupsMonotone
<1>. QED BY <1>1, <1>2, <1>3 DEF GroupsInv, MulticastSupported

\* No receiver is ever a member of a group that it cannot leave: on Windows
\* over IPv6 nothing is joined, elsewhere a group that was joined can be left.
THEOREM GroupsCanBeLeft == Spec => []JoinedGroupsCanBeLeft
<1>1. ASSUME GroupsInv, NEW g \in joined
      PROVE  \E o \in mute_multicast_universe(joined, g.universe) : o.ret = Ok
  <2>1. MulticastSupported /\ g \in Groups(Universes)
    BY <1>1 DEF GroupsInv
  <2>2. MulticastGroup(g.universe) = g
    BY <2>1 DEF Groups, MulticastGroup, universe_to_ipv4_multicast_addr,
                universe_to_ipv6_multicast_addr
  <2>3. Platform.windows => ~ g.ipv6
    BY <2>1, PlatformAssumption DEF Groups, MulticastGroup, universe_to_ipv4_multicast_addr,
                universe_to_ipv6_multicast_addr, MulticastSupported
  <2> DEFINE o == [joined |-> joined \ {g}, ret |-> Ok]
  <2>4. o \in Outcomes(joined, joined \ {g}, g \in joined)
    BY <1>1 DEF Outcomes
  <2>5. o \in mute_multicast_universe(joined, g.universe)
    BY <2>2, <2>3, <2>4, PlatformAssumption
       DEF mute_multicast_universe, leave_win_multicast, leave_unix_multicast
  <2>. QED BY <2>5
<1>2. FlagsInv /\ GroupsInv /\ [Next]_vars => GroupsInv'
  BY GroupsStep
<1>3. GroupsInv => JoinedGroupsCanBeLeft
  BY <1>1 DEF JoinedGroupsCanBeLeft
<1>. QED BY <1>2, <1>3, InitGroups, InitFlags, FlagsStep, PTL DEF Spec

-----------------------------------------------------------------------------
(* Merging and keeping data. *)

\* The synchronisation addresses that held data can have.
HeldSyncs == {p.sync : p \in DataPackets} \cap Universes

\* The longer of two universes gives the length, the higher of two levels the slot.
LEMMA SlotMergeRaises ==
  ASSUME NEW v \in Seq(Nat), NEW w \in Seq(Nat)
  PROVE  /\ SlotMerge(v, w) \in Seq(Nat)
         /\ \A k \in DOMAIN v : k \in DOMAIN SlotMerge(v, w) /\ SlotMerge(v, w)[k] >= v[k]
<1> DEFINE n == Higher(Len(v), Len(w))
           level(k) == IF k > Len(v) THEN w[k] ELSE IF k > Len(w) THEN v[k] ELSE Higher(v[k], w[k])
<1>1. Len(v) \in Nat /\ Len(w) \in Nat /\ DOMAIN v = 1 .. Len(v) /\ DOMAIN w = 1 .. Len(w)
  OBVIOUS
<1>2. n \in Nat /\ n >= Len(v) /\ (n = Len(v) \/ n = Len(w))
  BY <1>1 DEF Higher
<1>3. SlotMerge(v, w) = [k \in 1 .. n |-> level(k)]
  BY DEF SlotMerge
<1>4. ASSUME NEW k \in 1 .. n
      PROVE  level(k) \in Nat /\ (k <= Len(v) => level(k) >= v[k])
  <2>1. CASE k > Len(v)
    <3>1. k \in 1 .. Len(w)
      BY <1>1, <1>2, <2>1
    <3>. QED BY <1>1, <2>1, <3>1
  <2>2. CASE k <= Len(v)
    <3>1. v[k] \in Nat
      BY <1>1, <1>2, <2>2
    <3>2. k <= Len(w) => w[k] \in Nat
      BY <1>1, <1>2
    <3>. QED BY <1>1, <2>2, <3>1, <3>2 DEF Higher
  <2>. QED BY <1>1, <1>2, <2>1, <2>2
<1>5. [k \in 1 .. n |-> level(k)] \in [1 .. n -> Nat]
  BY <1>4
<1>6. SlotMerge(v, w) \in Seq(Nat)
  <2>1. SlotMerge(v, w) \in [1 .. n -> Nat]
    BY <1>3, <1>5
  <2> HIDE DEF n
  <2>. QED BY <1>2, <2>1, SeqDef
<1>. QED BY <1>1, <1>2, <1>3, <1>4, <1>6

\* What a merge that succeeds keeps: a record, of one of the two addresses.
LEMMA MergeKeeps ==
  ASSUME NEW fn, NEW i \in DMXRecords, NEW d \in DMXRecords, Merge(fn, i, d).ok
  PROVE  /\ Merge(fn, i, d).data \in DMXRecords
         /\ Merge(fn, i, d).data.sync_uni \in {i.sync_uni, d.sync_uni}
         /\ fn = "htp" /\ Merge(fn, i, d).data.priority = i.priority =>
              \A k \in DOMAIN i.values : /\ k \in DOMAIN Merge(fn, i, d).data.values
                                         /\ Merge(fn, i, d).data.values[k] >= i.values[k]
<1> DEFINE merged == [i EXCEPT !.src_cid = NoSource, !.preview = i.preview \/ d.preview,
                               !.values = SlotMerge(i.values, d.values)]
<1>1. i.values \in Seq(Nat) /\ d.values \in Seq(Nat) /\ i.priority \in Nat /\ d.priority \in Nat
  BY DEF DMXRecords
<1>2. \A k \in DOMAIN i.values : i.values[k] \in Nat
  BY <1>1
<1>3. CASE Merge(fn, i, d).data = i
  BY <1>2, <1>3
<1>4. CASE Merge(fn, i, d).data = d /\ (fn = "htp" => d.priority > i.priority)
  BY <1>1, <1>4
<1>5. CASE Merge(fn, i, d).data = merged
  <2>1. SlotMerge(i.values, d.values) \in Seq(Nat)
    BY <1>1, SlotMergeRaises
  <2>2. merged \in DMXRecords /\ merged.sync_uni = i.sync_uni
        /\ merged.values = SlotMerge(i.values, d.values)
    BY <2>1 DEF DMXRecords
  <2>. QED BY <1>1, <1>5, <2>2, SlotMergeRaises
<1>6. \/ Merge(fn, i, d).data = i
      \/ Merge(fn, i, d).data = d /\ (fn = "htp" => d.priority > i.priority)
      \/ Merge(fn, i, d).data = merged
  BY DEF Merge, htp_dmx_merge, discard_lowest_priority_then_previous
<1>. QED BY <1>3, <1>4, <1>5, <1>6

\* Storing changes the data of one universe: it becomes the new data, or what
\* the merge makes of old and new.
LEMMA StoreKeeps ==
  ASSUME NEW w, NEW u, NEW d, NEW fn
  PROVE  LET st == store_waiting_data(w, u, d, fn) IN
         /\ DOMAIN st.waiting \subseteq DOMAIN w \cup {u}
         /\ \A v \in DOMAIN st.waiting : v # u => st.waiting[v] = w[v]
         /\ u \in DOMAIN st.waiting =>
              \/ u \notin DOMAIN w /\ st.waiting[u] = d
              \/ /\ u \in DOMAIN w /\ Merge(fn, w[u], d).ok
                 /\ st.waiting[u] = Merge(fn, w[u], d).data
<1> DEFINE rest == clear_waiting_data(w, u)
           m == IF u \in DOMAIN w THEN Merge(fn, w[u], d) ELSE [ok |-> TRUE, data |-> d]
           st == store_waiting_data(w, u, d, fn)
<1>1. rest = [v \in DOMAIN w \ {u} |-> w[v]]
  BY DEF clear_waiting_data, Restrict
<1>2. CASE m.ok
  <2>1. st.waiting = [v \in DOMAIN w \cup {u} |-> IF v = u THEN m.data ELSE rest[v]]
    BY <1>2 DEF store_waiting_data
  <2>. QED BY <1>1, <1>2, <2>1
<1>3. CASE ~ m.ok
  <2>1. st.waiting = rest
    BY <1>3 DEF store_waiting_data
  <2>. QED BY <1>1, <2>1
<1>. QED BY <1>2, <1>3

-----------------------------------------------------------------------------
(* Held data. *)

Fewer(w, ww) == DOMAIN ww \subseteq DOMAIN w /\ \A u \in DOMAIN ww : ww[u] = w[u]

\* Storing the data of packet p with number n.
Stores(p, n) ==
  /\ pc = "socket" /\ HoldData(p, n)
  /\ p.sync # NoSync /\ p.sync \in Universes
  /\ p.sync \in universes' /\ universes \subseteq universes'
  /\ waiting_data' =
       store_waiting_data(waiting_data, p.universe, DataOf(p, n), merge_func).waiting

\* Every way a step changes the data held.
LEMMA WaitingMoves ==
  ASSUME [Next]_vars
  PROVE  \/ Fewer(waiting_data, waiting_data')
         \/ Tick /\ waiting_data' = AgedWaiting(waiting_data)
         \/ \E p \in DataPackets, n \in SeqNumbers : Stores(p, n)
<1> DEFINE Goal == \/ Fewer(waiting_data, waiting_data')
                   \/ Tick /\ waiting_data' = AgedWaiting(waiting_data)
                   \/ \E p \in DataPackets, n \in SeqNumbers : Stores(p, n)
<1>a. UNCHANGED waiting_data => Goal
  BY DEF Fewer
<1>b. /\ waiting_data' = EmptyMap => Goal
      /\ \A u : waiting_data' = clear_waiting_data(waiting_data, u) => Goal
      /\ waiting_data' = check_waiting_data_timeouts(waiting_data) => Goal
      /\ \A u : waiting_data' = rtrv_waiting_data(waiting_data, u).waiting => Goal
  BY DEF Fewer, EmptyMap, clear_waiting_data, check_waiting_data_timeouts, rtrv_waiting_data,
         Restrict
<1>1. CASE Tick
  BY <1>1 DEF Tick
<1>2. CASE RecvLoop \/ ClearWaiting \/ \E t \in RecvTimeouts : recv(t)
  BY <1>2, <1>a, <1>b DEF RecvLoop, ClearWaiting, recv
<1>3. ASSUME NEW p \in DataPackets, NEW n \in SeqNumbers, handle_data_packet(p, n)
      PROVE  Goal
  <2>1. CASE HoldData(p, n) /\ ~ UNCHANGED waiting_data
    <3>1. /\ p.sync # NoSync /\ Listen(<<p.sync>>)
          /\ waiting_data' =
               store_waiting_data(waiting_data, p.universe, DataOf(p, n), merge_func).waiting
      BY <2>1 DEF HoldData
    <3>2. Listed(<<p.sync>>, Len(<<p.sync>>)) = {p.sync}
      BY DEF Listed
    <3>. QED BY <1>3, <2>1, <3>1, <3>2 DEF handle_data_packet, Listen, InRange, Stores
  <2>2. CASE ~ HoldData(p, n)
    BY <1>3, <1>a, <1>b, <2>2
       DEF handle_data_packet, IgnorePreview, terminate_stream, IgnoreUnlistened, RejectData,
           DeliverData
  <2>. QED BY <1>a, <2>1, <2>2
<1>4. CASE \E s \in Sources, u \in SyncUniverses, n \in SeqNumbers : handle_sync_packet(s, u, n)
  BY <1>4, <1>a, <1>b DEF handle_sync_packet
<1>5. CASE \/ \E us \in ListenCalls : listen_universes(us)
           \/ \E u \in MuteCalls : mute_universe(u)
           \/ reset_sources \/ set_ipv6_only \/ get_discovered_sources \/ drop
           \/ SocketTimeout \/ SocketError
           \/ \E p \in DiscoveryPackets : ReceiveDiscovery(p)
           \/ \E fn \in MergeFns : set_merge_fn(fn)
           \/ \E f \in Flags, val \in BOOLEAN : SetFlag(f, val)
           \/ \E val \in BOOLEAN : SetMulticast(val)
           \/ UNCHANGED vars
  BY <1>5, <1>a DEF listen_universes, mute_universe, reset_sources, set_ipv6_only,
                    get_discovered_sources, drop, SocketTimeout, SocketError, ReceiveDiscovery,
                    set_merge_fn, SetFlag, SetMulticast, vars
<1>. QED BY <1>1, <1>2, <1>3, <1>4, <1>5 DEF Next

\* Held data is of data universes, well typed, and waits for an address that a
\* packet named and the receiver could listen to.
WaitingInv ==
  /\ DOMAIN waiting_data \subseteq DataUniverses
  /\ \A u \in DOMAIN waiting_data :
       waiting_data[u] \in DMXRecords /\ waiting_data[u].sync_uni \in HeldSyncs

\* What a packet stores is a record.
LEMMA DataOfTyped ==
  ASSUME NEW p \in DataPackets, NEW n \in SeqNumbers, p.sync \in Universes
  PROVE  DataOf(p, n) \in DMXRecords /\ DataOf(p, n).sync_uni \in HeldSyncs
BY PacketsAssumption, TimeoutAssumption DEF DataOf, DMXData, DMXRecords, AgeValues, HeldSyncs

\* Nothing is held at first.
LEMMA InitWaiting == Init => WaitingInv
BY DEF Init, WaitingInv, EmptyMap

\* Data keeps its type while it ages, is merged and released.
LEMMA WaitingStep == WaitingInv /\ [Next]_vars => WaitingInv'
<1> SUFFICES ASSUME WaitingInv, [Next]_vars
             PROVE  WaitingInv'
  OBVIOUS
<1>1. CASE Fewer(waiting_data, waiting_data')
  BY <1>1 DEF Fewer, WaitingInv
<1>2. CASE waiting_data' = AgedWaiting(waiting_data)
  <2>1. \A a \in AgeValues : Older(a) \in AgeValues
    BY TimeoutAssumption DEF AgeValues, Older, IsOld
  <2>. QED BY <1>2, <2>1 DEF AgedWaiting, WaitingInv, DMXRecords
<1>3. ASSUME NEW p \in DataPackets, NEW n \in SeqNumbers, Stores(p, n)
      PROVE  WaitingInv'
  <2> DEFINE u == p.universe
             d == DataOf(p, n)
  <2>1. d \in DMXRecords /\ d.sync_uni \in HeldSyncs
    BY <1>3, DataOfTyped DEF Stores
  <2>2. /\ DOMAIN waiting_data' \subseteq DOMAIN waiting_data \cup {u}
        /\ \A v \in DOMAIN waiting_data' : v # u => waiting_data'[v] = waiting_data[v]
        /\ u \in DOMAIN waiting_data' =>
              \/ waiting_data'[u] = d
              \/ /\ u \in DOMAIN waiting_data /\ Merge(merge_func, waiting_data[u], d).ok
                 /\ waiting_data'[u] = Merge(merge_func, waiting_data[u], d).data
    BY <1>3, StoreKeeps DEF Stores
  <2>3. u \in DataUniverses
    BY PacketsAssumption
  <2>4. ASSUME NEW v \in DOMAIN waiting_data'
        PROVE  waiting_data'[v] \in DMXRecords /\ waiting_data'[v].sync_uni \in HeldSyncs
    <3>1. CASE v # u
      BY <2>2, <3>1 DEF WaitingInv
    <3>2. CASE v = u /\ waiting_data'[u] = d
      BY <2>1, <3>2
    <3>3. CASE /\ v = u /\ u \in DOMAIN waiting_data
               /\ Merge(merge_func, waiting_data[u], d).ok
               /\ waiting_data'[u] = Merge(merge_func, waiting_data[u], d).data
      <4>1. waiting_data[u] \in DMXRecords /\ waiting_data[u].sync_uni \in HeldSyncs
        BY <3>3 DEF WaitingInv
      <4>2. Merge(merge_func, waiting_data[u], d).data \in DMXRecords
        BY <2>1, <3>3, <4>1, MergeKeeps
      <4>3. Merge(merge_func, waiting_data[u], d).data.sync_uni \in {waiting_data[u].sync_uni, d.sync_uni}
        BY <2>1, <3>3, <4>1, MergeKeeps
      <4> HIDE DEF d
      <4>. QED BY <2>1, <3>3, <4>1, <4>2, <4>3
    <3>. QED BY <2>2, <3>1, <3>2, <3>3
  <2>. QED BY <2>2, <2>3, <2>4 DEF WaitingInv
<1>. QED BY <1>1, <1>2, <1>3, WaitingMoves

\* While a universe's data waits and the merge function is htp_dmx_merge, data
\* of the same priority never takes a level or a slot away.
THEOREM HtpOnlyRaises == Spec => HtpNeverLowers
<1> DEFINE Raises ==
      \A u \in DOMAIN waiting_data \cap DOMAIN waiting_data' :
        LET old == waiting_data[u]
            new == waiting_data'[u]
        IN merge_func = "htp" /\ old.priority = new.priority =>
             \A k \in DOMAIN old.values : k \in DOMAIN new.values /\ new.values[k] >= old.values[k]
<1>1. ASSUME WaitingInv, [Next]_vars
      PROVE  Raises
  <2>1. SUFFICES ASSUME NEW u \in DOMAIN waiting_data \cap DOMAIN waiting_data',
                        merge_func = "htp",
                        waiting_data[u].priority = waiting_data'[u].priority,
                        NEW k \in DOMAIN waiting_data[u].values
                 PROVE  /\ k \in DOMAIN waiting_data'[u].values
                        /\ waiting_data'[u].values[k] >= waiting_data[u].values[k]
    OBVIOUS
  <2>2. waiting_data[u] \in DMXRecords /\ waiting_data[u].values \in Seq(Nat)
    BY <1>1 DEF WaitingInv, DMXRecords
  <2>3. waiting_data[u].values[k] \in Nat
    BY <2>2
  <2>4. CASE waiting_data'[u].values = waiting_data[u].values
    BY <2>3, <2>4
  <2>5. CASE Fewer(waiting_data, waiting_data')
    BY <2>4, <2>5 DEF Fewer
  <2>6. CASE waiting_data' = AgedWaiting(waiting_data)
    BY <2>2, <2>4, <2>6 DEF AgedWaiting, DMXRecords
  <2>7. ASSUME NEW p \in DataPackets, NEW n \in SeqNumbers, Stores(p, n)
        PROVE  /\ k \in DOMAIN waiting_data'[u].values
               /\ waiting_data'[u].values[k] >= waiting_data[u].values[k]
    <3>1. DataOf(p, n) \in DMXRecords
      BY <2>7, DataOfTyped DEF Stores
    <3>2. CASE u # p.universe
      BY <2>4, <2>7, <3>2, StoreKeeps DEF Stores
    <3>3. CASE u = p.universe
      <4>1. /\ Merge(merge_func, waiting_data[u], DataOf(p, n)).ok
            /\ waiting_data'[u] = Merge(merge_func, waiting_data[u], DataOf(p, n)).data
        BY <2>7, <3>3, StoreKeeps DEF Stores
      <4>. QED BY <2>1, <2>2, <3>1, <4>1, MergeKeeps
    <3>. QED BY <3>2, <3>3
  <2>. QED BY <1>1, <2>5, <2>6, <2>7, WaitingMoves
<1>2. WaitingInv /\ [Next]_vars => [Raises]_vars
  BY <1>1
<1>. QED BY <1>2, InitWaiting, WaitingStep, PTL DEF Spec, HtpNeverLowers

-----------------------------------------------------------------------------
(* Held data can be released. *)

\* A dropped receiver does nothing more.
LEMMA DroppedStays ==
  ASSUME ControlInv, [Next]_vars, pc = "dropped"
  PROVE  pc' = "dropped"
BY ControlMoves DEF control, vars, RecvLoop

\* Listening comes before storing, and what is listened to stays listened to
\* but for the universes that are muted.
LEMMA ReleasableStep ==
  ASSUME MuteCalls \cap HeldSyncs = {}, ControlInv, WaitingInv, HeldDataIsReleasable, [Next]_vars
  PROVE  HeldDataIsReleasable'
<1> SUFFICES ASSUME pc' # "dropped", NEW u \in DOMAIN waiting_data'
             PROVE  waiting_data'[u].sync_uni \in universes'
  BY DEF HeldDataIsReleasable
<1>1. pc # "dropped"
  BY DroppedStays
<1>2. \A v \in DOMAIN waiting_data :
        waiting_data[v].sync_uni \in universes /\ waiting_data[v].sync_uni \in HeldSyncs
  BY <1>1 DEF HeldDataIsReleasable, WaitingInv
<1>3. \A v \in DOMAIN waiting_data : waiting_data[v].sync_uni \in universes'
  <2>1. CASE universes \subseteq universes'
    BY <1>2, <2>1
  <2>2. CASE \E m \in MuteCalls : universes' = universes \ {m}
    BY <1>2, <2>2
  <2>. QED BY <2>1, <2>2, UniversesMoves DEF ListensTo
<1>4. CASE Fewer(waiting_data, waiting_data')
  BY <1>3, <1>4 DEF Fewer
<1>5. CASE waiting_data' = AgedWaiting(waiting_data)
  BY <1>3, <1>5 DEF AgedWaiting, WaitingInv, DMXRecords
<1>6. ASSUME NEW p \in DataPackets, NEW n \in SeqNumbers, Stores(p, n)
      PROVE  waiting_data'[u].sync_uni \in universes'
  <2> DEFINE d == DataOf(p, n)
  <2>1. d \in DMXRecords /\ d.sync_uni \in universes'
    BY <1>6, DataOfTyped DEF Stores, DataOf, DMXData
  <2>2. CASE u # p.universe \/ waiting_data'[u] = d
    BY <1>3, <1>6, <2>1, <2>2, StoreKeeps DEF Stores
  <2>3. CASE /\ u \in DOMAIN waiting_data /\ Merge(merge_func, waiting_data[u], d).ok
             /\ waiting_data'[u] = Merge(merge_func, waiting_data[u], d).data
    <3>1. waiting_data[u] \in DMXRecords
      BY <2>3 DEF WaitingInv
    <3>2. Merge(merge_func, waiting_data[u], d).data.sync_uni
            \in {waiting_data[u].sync_uni, d.sync_uni}
      BY <2>1, <2>3, <3>1, MergeKeeps
    <3> HIDE DEF d
    <3>. QED BY <1>3, <2>1, <2>3, <3>2
  <2>. QED BY <1>6, <2>2, <2>3, StoreKeeps DEF Stores
<1>. QED BY <1>4, <1>5, <1>6, WaitingMoves

\* As long as the user mutes no address that data waits for, the receiver
\* accepts the synchronisation packets of all data it holds.
THEOREM HeldDataCanBeReleased ==
  ASSUME MuteCalls \cap HeldSyncs = {}
  PROVE  Spec => []HeldDataIsReleasable
<1>1. Init => HeldDataIsReleasable
  BY DEF Init, HeldDataIsReleasable, EmptyMap
<1>2. ControlInv /\ WaitingInv /\ HeldDataIsReleasable /\ [Next]_vars => HeldDataIsReleasable'
  BY ReleasableStep
<1>. QED BY <1>1, <1>2, InitControl, ControlStep, InitWaiting, WaitingStep, PTL DEF Spec

-----------------------------------------------------------------------------
(* Held data is the latest. *)

\* m and mm agree on every entry of mm.
FewerEntries(m, mm) == \A t, v : Tracked(mm, t, v) => Tracked(m, t, v) /\ mm[t][v] = m[t][v]

\* The packet p with number n is accepted, and its data delivered or held.
Accepts(p, n) ==
  /\ pc = "socket" /\ Examine(p, n) /\ ret' = Ok
  /\ DeliverData(p, n) \/ HoldData(p, n)

\* Every way a step changes the entries of the data sequences.
LEMMA DataSequencesMove ==
  ASSUME FlagsInv, MapsInv, [Next]_vars
  PROVE  \/ FewerEntries(data_sequences, data_sequences')
         \/ Tick /\ data_sequences' = Aged(data_sequences)
         \/ \E p \in DataPackets, n \in SeqNumbers : Accepts(p, n)
<1> DEFINE Goal == \/ FewerEntries(data_sequences, data_sequences')
                   \/ Tick /\ data_sequences' = Aged(data_sequences)
                   \/ \E p \in DataPackets, n \in SeqNumbers : Accepts(p, n)
<1>a. UNCHANGED data_sequences => Goal
  BY DEF FewerEntries
<1>b. data_sequences \in SequenceMaps
  BY DEF MapsInv, WellKept
<1>c. flags["announce_timeout"] \in BOOLEAN
  BY AnnounceAssumption DEF FlagsInv
<1>d. Tracker!check_timeouts(flags["announce_timeout"]) => Goal
  <2>1. \A d \in CheckTimeouts(data_sequences, flags["announce_timeout"]) :
          FewerEntries(data_sequences, d.seqs)
    BY <1>b, <1>c, CheckTimeoutsEntries DEF OnlyTimedOutLost, FewerEntries
  <2>. QED BY <2>1, TrackerMethods
<1>1. CASE Tick
  BY <1>1, TrackerOperators DEF Tick, Tracker!Tick
<1>2. CASE reset_sources
  <2>1. data_sequences' = EmptyMap
    BY <1>2, TrackerOperators DEF reset_sources, Tracker!clear
  <2>. QED BY <2>1 DEF FewerEntries, EmptyMap, Tracked
<1>3. CASE RecvLoop \/ \E t \in RecvTimeouts : recv(t)
  BY <1>3, <1>a, <1>d DEF RecvLoop, recv, tracker
<1>4. ASSUME NEW p \in DataPackets, NEW n \in SeqNumbers, handle_data_packet(p, n)
      PROVE  Goal
  <2>1. p.src \in Sources /\ p.universe \in Universes
    BY PacketsAssumption, UniversesAssumption
  <2>2. CASE RejectData(p, n)
    <3>1. PICK o \in CheckSeqNumber(data_sequences, p.src, p.universe, n, flags["announce_timeout"]) :
            data_sequences' = o.seqs /\ ret' = o.ret /\ o.ret # Ok
      BY <2>2, TrackerMethods DEF RejectData, Examine
    <3>2. OnlyTimedOutLost(data_sequences, o.seqs)
      BY <1>c, <2>1, <3>1, CheckSeqNumberEntries DEF MapsInv
    <3>. QED BY <3>1, <3>2 DEF OnlyTimedOutLost, FewerEntries
  <2>3. CASE DeliverData(p, n) \/ HoldData(p, n)
    BY <1>4, <2>3 DEF handle_data_packet, DeliverData, HoldData, Accepts
  <2>4. CASE terminate_stream(p)
    <3>1. data_sequences' = RemoveSourceUniverseSeq(data_sequences, p.src, p.universe).seqs
      BY <2>4, TrackerOperators DEF terminate_stream, Tracker!remove_seq_numbers
    <3>2. CASE data_sequences' = data_sequences
      BY <1>a, <3>2
    <3>3. CASE data_sequences' # data_sequences
      <4>1. /\ p.src \in DOMAIN data_sequences
            /\ data_sequences' = WithoutUniverse(data_sequences, p.src, p.universe)
        BY <3>1, <3>3 DEF RemoveSourceUniverseSeq
      <4>. QED BY <1>b, <4>1, WithoutUniverseEntries DEF FewerEntries
    <3>. QED BY <3>2, <3>3
  <2>5. CASE IgnorePreview(p) \/ IgnoreUnlistened(p)
    BY <1>a, <2>5 DEF IgnorePreview, IgnoreUnlistened, tracker
  <2>. QED BY <1>4, <2>2, <2>3, <2>4, <2>5 DEF handle_data_packet
<1>5. CASE \E s \in Sources, u \in SyncUniverses, n \in SeqNumbers : handle_sync_packet(s, u, n)
  BY <1>5, <1>a, TrackerMethods DEF handle_sync_packet, tracker
<1>6. CASE \/ \E us \in ListenCalls : listen_universes(us)
           \/ \E u \in MuteCalls : mute_universe(u)
           \/ ClearWaiting \/ set_ipv6_only \/ get_discovered_sources \/ drop
           \/ SocketTimeout \/ SocketError
           \/ \E p \in DiscoveryPackets : ReceiveDiscovery(p)
           \/ \E fn \in MergeFns : set_merge_fn(fn)
           \/ \E f \in Flags, val \in BOOLEAN : SetFlag(f, val)
           \/ \E val \in BOOLEAN : SetMulticast(val)
           \/ UNCHANGED vars
  BY <1>6, <1>a DEF listen_universes, mute_universe, ClearWaiting, set_ipv6_only,
                    get_discovered_sources, drop, SocketTimeout, SocketError, ReceiveDiscovery,
                    set_merge_fn, SetFlag, SetMulticast, vars, tracker
<1>. QED BY <1>1, <1>2, <1>3, <1>4, <1>5, <1>6 DEF Next

\* All held data has one priority, and the merge function is the default one.
OnePriority(prio) ==
  /\ merge_func = "default"
  /\ \A u \in DOMAIN waiting_data : waiting_data[u].priority = prio

\* The default merge at equal priority keeps the new data.
LEMMA DefaultKeepsNew ==
  ASSUME NEW prio \in Nat, NEW i, NEW d, i.priority = prio, d.priority = prio
  PROVE  Merge("default", i, d) = [ok |-> TRUE, data |-> d]
<1>1. ~ (i.priority > d.priority)
  OBVIOUS
<1>2. Merge("default", i, d) = discard_lowest_priority_then_previous(i, d)
  BY DEF Merge
<1>. QED BY <1>1, <1>2 DEF discard_lowest_priority_then_previous

\* Only packets bring priorities in, and only set_merge_fn a merge function.
LEMMA OnePriorityStep ==
  ASSUME MergeFns \subseteq {"default"}, NEW prio \in Nat,
         \A p \in DataPackets : p.priority = prio,
         WaitingInv, OnePriority(prio), [Next]_vars
  PROVE  OnePriority(prio)'
<1>1. merge_func' = "default"
  <2>1. merge_func' = merge_func \/ \E fn \in MergeFns : set_merge_fn(fn)
    BY DEF Next, vars, Tick, listen_universes, mute_universe, reset_sources, ClearWaiting, SetFlag,
           SetMulticast, set_ipv6_only, get_discovered_sources, drop, recv, RecvLoop,
           SocketTimeout, SocketError, handle_data_packet, handle_sync_packet, ReceiveDiscovery
  <2>. QED BY <2>1 DEF OnePriority, set_merge_fn
<1>2. ASSUME NEW u \in DOMAIN waiting_data'
      PROVE  waiting_data'[u].priority = prio
  <2>1. CASE Fewer(waiting_data, waiting_data')
    BY <2>1 DEF Fewer, OnePriority
  <2>2. CASE waiting_data' = AgedWaiting(waiting_data)
    BY <2>2 DEF AgedWaiting, OnePriority, WaitingInv, DMXRecords
  <2>3. ASSUME NEW p \in DataPackets, NEW n \in SeqNumbers, Stores(p, n)
        PROVE  waiting_data'[u].priority = prio
    <3>1. DataOf(p, n).priority = prio
      BY DEF DataOf, DMXData
    <3>2. u \in DOMAIN waiting_data =>
            Merge(merge_func, waiting_data[u], DataOf(p, n)) = [ok |-> TRUE, data |-> DataOf(p, n)]
      BY <3>1, DefaultKeepsNew DEF OnePriority
    <3>3. merge_func = "default"
      BY DEF OnePriority
    <3>. QED BY <2>3, <3>1, <3>2, StoreKeeps DEF Stores, OnePriority
  <2>. QED BY <2>1, <2>2, <2>3, WaitingMoves
<1>. QED BY <1>1, <1>2 DEF OnePriority

\* An accepted packet replaces what waits for its universe, or takes it away:
\* an address that data already waits for is one the receiver listens to, so
\* the packet is not lost between the sequence number and the store.
LEMMA AcceptedIsLatest ==
  ASSUME NEW prio \in Nat, NEW y \in Universes,
         \A p \in DataPackets : p.priority = prio /\ p.sync \in {NoSync, y},
         FlagsInv, MapsInv, WaitingInv, HeldDataIsReleasable, OnePriority(prio), HeldDataIsLatest,
         NEW p \in DataPackets, NEW n \in SeqNumbers, Accepts(p, n)
  PROVE  HeldDataIsLatest'
<1> DEFINE u == p.universe
           s == p.src
           d == DataOf(p, n)
<1>1. s \in Sources /\ u \in Universes
  BY PacketsAssumption, UniversesAssumption
<1>2. PICK o \in CheckSeqNumber(data_sequences, s, u, n, flags["announce_timeout"]) :
        data_sequences' = o.seqs /\ ret' = o.ret
  BY TrackerMethods DEF Accepts, Examine
<1>3. flags["announce_timeout"] \in BOOLEAN
  BY AnnounceAssumption DEF FlagsInv
<1>4. /\ data_sequences'[s][u] = [sequence_number |-> n, age |-> 0]
      /\ \A t, v : Tracked(data_sequences', t, v) /\ v # u =>
           Tracked(data_sequences, t, v) /\ data_sequences'[t][v] = data_sequences[t][v]
  BY <1>1, <1>2, <1>3, CheckSeqNumberEntries DEF MapsInv, Accepts
<1>5. /\ \A v \in DOMAIN waiting_data' : v # u => v \in DOMAIN waiting_data
                                                  /\ waiting_data'[v] = waiting_data[v]
      /\ u \in DOMAIN waiting_data' => waiting_data'[u] = d
  <2>1. CASE DeliverData(p, n)
    BY <2>1 DEF DeliverData, clear_waiting_data, Restrict
  <2>2. CASE HoldData(p, n)
    <3>1. p.sync = y
      BY <2>2 DEF HoldData
    <3>2. Listed(<<y>>, Len(<<y>>)) = {y}
      BY DEF Listed
    <3>3. InRange(<<y>>)
      BY <3>2 DEF InRange
    <3>4. CASE /\ ListenFails(<<y>>)
               /\ UNCHANGED waiting_data
      <4>1. y \notin universes
        BY <3>4 DEF ListenFails, Listed
      <4>2. \A v \in DOMAIN waiting_data : waiting_data[v].sync_uni = y
        BY UniversesAssumption DEF WaitingInv, HeldSyncs
      <4>3. \A v \in DOMAIN waiting_data : waiting_data[v].sync_uni \in universes
        BY DEF HeldDataIsReleasable, Accepts
      <4>. QED BY <3>4, <4>1, <4>2, <4>3
    <3>5. CASE waiting_data' = store_waiting_data(waiting_data, u, d, merge_func).waiting
      <4>1. d.priority = prio
        BY DEF DataOf, DMXData
      <4>2. u \in DOMAIN waiting_data =>
              Merge(merge_func, waiting_data[u], d) = [ok |-> TRUE, data |-> d]
        BY <4>1, DefaultKeepsNew DEF OnePriority
      <4> HIDE DEF d
      <4>. QED BY <3>5, <4>2, StoreKeeps
    <3>. QED BY <2>2, <3>1, <3>3, <3>4, <3>5 DEF HoldData
  <2>. QED BY <2>1, <2>2 DEF Accepts
<1>6. ASSUME NEW v \in DOMAIN waiting_data', Tracked(data_sequences', waiting_data'[v].src_cid, v)
      PROVE  /\ waiting_data'[v].seq
                  = data_sequences'[waiting_data'[v].src_cid][v].sequence_number
             /\ waiting_data'[v].age = data_sequences'[waiting_data'[v].src_cid][v].age
  <2>1. CASE v = u
    <3>1. d.src_cid = s /\ d.seq = n /\ d.age = 0
      BY DEF DataOf, DMXData
    <3>. QED BY <1>4, <1>5, <2>1, <3>1
  <2>2. CASE v # u
    BY <1>4, <1>5, <1>6, <2>2 DEF HeldDataIsLatest
  <2>. QED BY <2>1, <2>2
<1>. QED BY <1>6 DEF HeldDataIsLatest

\* Whatever else happens takes entries or data away, or ages both alike.
LEMMA LatestStep ==
  ASSUME NEW prio \in Nat, NEW y \in Universes,
         \A p \in DataPackets : p.priority = prio /\ p.sync \in {NoSync, y},
         FlagsInv, MapsInv, WaitingInv, HeldDataIsReleasable, OnePriority(prio), HeldDataIsLatest,
         [Next]_vars
  PROVE  HeldDataIsLatest'
<1>a. data_sequences \in SequenceMaps
  BY DEF MapsInv, WellKept
<1>1. ASSUME NEW p \in DataPackets, NEW n \in SeqNumbers, Accepts(p, n)
      PROVE  HeldDataIsLatest'
  BY <1>1, AcceptedIsLatest
<1>2. CASE Tick
  <2>1. data_sequences' = Aged(data_sequences) /\ waiting_data' = AgedWaiting(waiting_data)
    BY <1>2, TrackerOperators DEF Tick, Tracker!Tick
  <2>2. SUFFICES ASSUME NEW u \in DOMAIN waiting_data',
                        Tracked(data_sequences', waiting_data'[u].src_cid, u)
                 PROVE  /\ waiting_data'[u].seq
                             = data_sequences'[waiting_data'[u].src_cid][u].sequence_number
                        /\ waiting_data'[u].age = data_sequences'[waiting_data'[u].src_cid][u].age
    BY DEF HeldDataIsLatest
  <2> DEFINE d == waiting_data[u]
             e == data_sequences[d.src_cid][u]
  <2>3. u \in DOMAIN waiting_data /\ d \in DMXRecords
    BY <2>1 DEF AgedWaiting, WaitingInv
  <2>4. waiting_data'[u] = [d EXCEPT !.age = Older(@)]
    BY <2>1, <2>3 DEF AgedWaiting
  <2>5. /\ waiting_data'[u].src_cid = d.src_cid /\ waiting_data'[u].seq = d.seq
        /\ waiting_data'[u].age = Older(d.age)
    BY <2>3, <2>4 DEF DMXRecords
  <2>6. Tracked(data_sequences, d.src_cid, u)
    BY <1>a, <2>1, <2>2, <2>5, AgedEntries
  <2>7. data_sequences'[d.src_cid][u] = [e EXCEPT !.age = Older(@)]
    BY <1>a, <2>1, <2>6, AgedEntries
  <2>8. e \in TimedStampedSeqNo
    BY <1>a, <2>6, TrackedTyped
  <2>9. d.seq = e.sequence_number /\ d.age = e.age
    BY <2>3, <2>6 DEF HeldDataIsLatest
  <2>. QED BY <2>5, <2>7, <2>8, <2>9 DEF TimedStampedSeqNo
<1>3. CASE FewerEntries(data_sequences, data_sequences') /\ Fewer(waiting_data, waiting_data')
  BY <1>3 DEF FewerEntries, Fewer, HeldDataIsLatest
<1>4. \A p \in DataPackets, n \in SeqNumbers : Stores(p, n) => Accepts(p, n)
  BY DEF Stores, Accepts, HoldData
<1>. QED BY <1>1, <1>2, <1>3, <1>4, DataSequencesMove, WaitingMoves

\* With the default merge, one priority and one synchronisation address that
\* can be listened to and is not muted, what waits for a universe is the
\* packet last accepted from its source and as old as that source's stream.
THEOREM HeldDataIsTheLatest ==
  ASSUME MergeFns \subseteq {"default"}, NEW prio \in Nat, NEW y \in Universes \ MuteCalls,
         \A p \in DataPackets : p.priority = prio /\ p.sync \in {NoSync, y}
  PROVE  Spec => []HeldDataIsLatest
<1>1. MuteCalls \cap HeldSyncs = {}
  BY UniversesAssumption DEF HeldSyncs
<1>2. Init => OnePriority(prio) /\ HeldDataIsReleasable /\ HeldDataIsLatest
  BY DEF Init, OnePriority, HeldDataIsReleasable, HeldDataIsLatest, EmptyMap
<1>3. WaitingInv /\ OnePriority(prio) /\ [Next]_vars => OnePriority(prio)'
  BY OnePriorityStep
<1>4. ControlInv /\ WaitingInv /\ HeldDataIsReleasable /\ [Next]_vars => HeldDataIsReleasable'
  BY <1>1, ReleasableStep
<1>5. /\ FlagsInv /\ MapsInv /\ WaitingInv /\ HeldDataIsReleasable /\ OnePriority(prio)
      /\ HeldDataIsLatest /\ [Next]_vars
      => HeldDataIsLatest'
  BY LatestStep
<1>6. Numbering!IInv => MapsInv
  BY NumberingInvImplies
<1>. QED BY <1>2, <1>3, <1>4, <1>5, <1>6, InitFlags, FlagsStep, NumberingStep, InitControl,
            ControlStep, InitWaiting, WaitingStep, PTL DEF Spec

-----------------------------------------------------------------------------
(* No timeout passes unreported. *)

\* The stream of s and u is in m but not in mm.
Lost(m, mm, s, u) == Tracked(m, s, u) /\ ~ Tracked(mm, s, u)

\* An announcing check reports whatever entry it loses, of either map.
LEMMA AnnouncingCheckReports ==
  ASSUME MapsInv, flags["announce_timeout"] \in {TRUE},
         Tracker!check_timeouts(flags["announce_timeout"]), NEW s, NEW u,
         \/ Lost(data_sequences, data_sequences', s, u)
         \/ Lost(sync_sequences, sync_sequences', s, u)
  PROVE  ret' = UniverseTimeout(s, u) /\ ret' # Ok
<1> DEFINE a == flags["announce_timeout"]
<1>1. data_sequences \in SequenceMaps /\ sync_sequences \in SequenceMaps
  BY DEF MapsInv, WellKept
<1>2. PICK d \in CheckTimeouts(data_sequences, a) :
        /\ data_sequences' = d.seqs
        /\ \/ d.ret # Ok /\ ret' = d.ret /\ sync_sequences' = sync_sequences
           \/ /\ d.ret = Ok
              /\ \E y \in CheckTimeouts(sync_sequences, a) :
                   sync_sequences' = y.seqs /\ ret' = y.ret
  BY TrackerMethods
<1>3. Lost(data_sequences, data_sequences', s, u) => d.ret = UniverseTimeout(s, u)
  BY <1>1, <1>2, CheckTimeoutsLosses DEF Lost
<1>4. UniverseTimeout(s, u) # Ok
  BY DEF UniverseTimeout, Ok
<1>5. CASE d.ret # Ok
  BY <1>2, <1>3, <1>5 DEF Lost
<1>6. CASE d.ret = Ok
  <2>1. PICK y \in CheckTimeouts(sync_sequences, a) : sync_sequences' = y.seqs /\ ret' = y.ret
    BY <1>2, <1>6
  <2>2. Lost(sync_sequences, sync_sequences', s, u)
    BY <1>3, <1>4, <1>6
  <2>3. \A t, v : Tracked(sync_sequences, t, v) /\ ~ Tracked(y.seqs, t, v) =>
          y.ret = UniverseTimeout(t, v)
    BY <1>1, <2>1, CheckTimeoutsLosses
  <2>4. y.ret = UniverseTimeout(s, u)
    BY <2>1, <2>2, <2>3 DEF Lost
  <2>. QED BY <1>4, <2>1, <2>4
<1>. QED BY <1>5, <1>6

\* A packet that makes an announcing check lose an entry is rejected with its report.
LEMMA AnnouncingPacketReports ==
  ASSUME NEW m, WellKept(m), NEW t \in Sources, NEW v \in Universes, NEW n \in SeqNumbers,
         NEW announce \in {TRUE}, NEW o \in CheckSeqNumber(m, t, v, n, announce)
  PROVE  \A s, u : Lost(m, o.seqs, s, u) => o.ret = UniverseTimeout(s, u) /\ o.ret # Ok
<1>1. \A s, u : UniverseTimeout(s, u) # Ok
  BY DEF UniverseTimeout, Ok
<1>2. \A s, u : Tracked(m, s, u) /\ ~ Tracked(o.seqs, s, u) => o.ret = UniverseTimeout(s, u)
  BY CheckSeqNumberLosses
<1>. QED BY <1>1, <1>2 DEF Lost

\* One step loses an entry only by reporting its timeout, or removing it.
LEMMA LossesAreReported ==
  ASSUME FlagsInv, MapsInv, [Next]_vars, flags["announce_timeout"] \in {TRUE},
         NEW s, NEW u,
         \/ Lost(data_sequences, data_sequences', s, u)
         \/ Lost(sync_sequences, sync_sequences', s, u)
  PROVE  ReportsOrRemoves(s, u)
<1> DEFINE a == flags["announce_timeout"]
           Goal == ReportsOrRemoves(s, u)
<1>a. a \in {TRUE}
  OBVIOUS
<1>b. ~ (data_sequences' = data_sequences /\ sync_sequences' = sync_sequences)
  BY DEF Lost
<1>c. ~ UNCHANGED tracker
  BY <1>b DEF tracker
<1>d. Tracker!check_timeouts(a) => ret' = UniverseTimeout(s, u) /\ ret' # Ok
  BY <1>a, AnnouncingCheckReports
<1>e. ASSUME NEW t \in Sources, NEW v \in Universes, NEW n \in SeqNumbers,
             NEW o \in CheckSeqNumber(data_sequences, t, v, n, a),
             Lost(data_sequences, o.seqs, s, u)
      PROVE  o.ret = UniverseTimeout(s, u) /\ o.ret # Ok
  BY <1>a, <1>e, AnnouncingPacketReports DEF MapsInv
<1>1. CASE Tick
  <2>1. data_sequences' = Aged(data_sequences) /\ sync_sequences' = Aged(sync_sequences)
    BY <1>1, TrackerOperators DEF Tick, Tracker!Tick
  <2>. QED BY <2>1, AgedEntries DEF Lost, MapsInv, WellKept
<1>2. CASE reset_sources
  BY <1>2 DEF ReportsOrRemoves
<1>3. CASE RecvLoop
  BY <1>3, <1>d DEF RecvLoop, Return, ReportsOrRemoves
<1>4. CASE \E t \in RecvTimeouts : recv(t)
  BY <1>4, <1>c, <1>d DEF recv, ReportsOrRemoves
<1>5. ASSUME NEW p \in DataPackets, NEW n \in SeqNumbers, handle_data_packet(p, n)
      PROVE  Goal
  <2>1. p.src \in Sources /\ p.universe \in Universes
    BY PacketsAssumption, UniversesAssumption
  <2>2. ASSUME Examine(p, n)
        PROVE  ret' = UniverseTimeout(s, u) /\ ret' # Ok
    <3>a. Tracker!check_data_seq_number(p.src, p.universe, n, a)
      BY <2>2 DEF Examine
    <3>1. PICK o \in CheckSeqNumber(data_sequences, p.src, p.universe, n, a) :
            data_sequences' = o.seqs /\ ret' = o.ret
      BY <3>a, TrackerMethods
    <3>2. sync_sequences' = sync_sequences
      BY <2>2, TrackerMethods DEF Examine
    <3>3. Lost(data_sequences, o.seqs, s, u)
      BY <3>1, <3>2 DEF Lost
    <3>. QED BY <1>e, <2>1, <3>1, <3>3
  <2>3. CASE RejectData(p, n)
    BY <2>2, <2>3 DEF RejectData, Return, ReportsOrRemoves
  <2>4. CASE DeliverData(p, n) \/ HoldData(p, n)
    BY <2>2, <2>4 DEF DeliverData, HoldData
  <2>5. CASE terminate_stream(p)
    <3>1. /\ data_sequences' = RemoveSourceUniverseSeq(data_sequences, p.src, p.universe).seqs
          /\ sync_sequences' \in
               {RemoveSourceUniverseSeq(sync_sequences, p.src, p.universe).seqs, sync_sequences}
      BY <2>5, TrackerOperators DEF terminate_stream, Tracker!remove_seq_numbers
    <3>2. ASSUME NEW m \in SequenceMaps,
                 Lost(m, RemoveSourceUniverseSeq(m, p.src, p.universe).seqs, s, u)
          PROVE  p.src = s /\ p.universe = u
      <4>1. /\ p.src \in DOMAIN m
            /\ RemoveSourceUniverseSeq(m, p.src, p.universe).seqs = WithoutUniverse(m, p.src, p.universe)
        BY <3>2 DEF RemoveSourceUniverseSeq, Lost
      <4>. QED BY <3>2, <4>1, WithoutUniverseEntries DEF Lost
    <3>3. data_sequences \in SequenceMaps /\ sync_sequences \in SequenceMaps
      BY DEF MapsInv, WellKept
    <3>4. p.src = s /\ p.universe = u
      BY <3>1, <3>2, <3>3 DEF Lost
    <3>. QED BY <2>5, <3>4 DEF ReportsOrRemoves
  <2>6. ~ IgnorePreview(p) /\ ~ IgnoreUnlistened(p)
    BY <1>c DEF IgnorePreview, IgnoreUnlistened
  <2>. QED BY <1>5, <2>3, <2>4, <2>5, <2>6 DEF handle_data_packet
<1>6. ASSUME NEW t \in Sources, NEW v \in SyncUniverses, NEW n \in SeqNumbers,
             handle_sync_packet(t, v, n)
      PROVE  Goal
  <2>1. v \in Universes
    BY UniversesAssumption
  <2>2. Tracker!check_sync_seq_number(t, v, n, a) /\ (ret' # Ok => outcome' = ret')
    BY <1>6, <1>c DEF handle_sync_packet, Return
  <2>3. PICK o \in CheckSeqNumber(sync_sequences, t, v, n, a) :
          sync_sequences' = o.seqs /\ ret' = o.ret
    BY <2>2, TrackerMethods
  <2>4. data_sequences' = data_sequences
    BY <2>2, TrackerMethods
  <2>5. Lost(sync_sequences, o.seqs, s, u)
    BY <2>3, <2>4 DEF Lost
  <2>6. ret' = UniverseTimeout(s, u) /\ ret' # Ok
    BY <1>a, <2>1, <2>3, <2>5, AnnouncingPacketReports DEF MapsInv
  <2>. QED BY <2>2, <2>6 DEF ReportsOrRemoves
<1>7. ~ \/ \E us \in ListenCalls : listen_universes(us)
        \/ \E v \in MuteCalls : mute_universe(v)
        \/ ClearWaiting \/ set_ipv6_only \/ get_discovered_sources \/ drop
        \/ SocketTimeout \/ SocketError
        \/ \E p \in DiscoveryPackets : ReceiveDiscovery(p)
        \/ \E fn \in MergeFns : set_merge_fn(fn)
        \/ \E f \in Flags, val \in BOOLEAN : SetFlag(f, val)
        \/ \E val \in BOOLEAN : SetMulticast(val)
        \/ UNCHANGED vars
  BY <1>c DEF listen_universes, mute_universe, ClearWaiting, set_ipv6_only,
              get_discovered_sources, drop, SocketTimeout, SocketError, ReceiveDiscovery,
              set_merge_fn, SetFlag, SetMulticast, vars
<1>. QED BY <1>1, <1>2, <1>3, <1>4, <1>5, <1>6, <1>7 DEF Next

\* With announce_timeout set, the user is told of every stream the receiver
\* forgets, unless a termination packet or reset_sources took it away.
THEOREM TimeoutsAreReported == Spec => NoSilentTimeout
<1> DEFINE Reported ==
      flags["announce_timeout"] =>
        \A s \in Sources, u \in Universes :
          \/ Tracked(data_sequences, s, u) /\ ~ Tracked(data_sequences', s, u)
          \/ Tracked(sync_sequences, s, u) /\ ~ Tracked(sync_sequences', s, u)
          => ReportsOrRemoves(s, u)
<1>1. FlagsInv /\ MapsInv /\ [Next]_vars => [Reported]_vars
  BY LossesAreReported DEF Lost
<1>2. Numbering!IInv => MapsInv
  BY NumberingInvImplies
<1>. QED BY <1>1, <1>2, InitFlags, FlagsStep, NumberingStep, PTL DEF Spec, NoSilentTimeout

-----------------------------------------------------------------------------
(* The sources discovered. *)

\* The two lists are well kept, and nothing in the list of discovered sources
\* misses a page.
RecordsInv ==
  /\ KeepsRecords(discovered_sources, Sources, Universes)
  /\ KeepsRecords(partially_discovered_sources, Sources, Universes)
  /\ AllComplete(discovered_sources)

\* Every way a step changes the lists.
LEMMA RecordsMoves ==
  ASSUME [Next]_vars
  PROVE  \/ UNCHANGED discovery
         \/ /\ discovered_sources' = EmptyMap /\ partially_discovered_sources' = EmptyMap
         \/ /\ discovered_sources' = AgedRecords(discovered_sources)
            /\ partially_discovered_sources' = AgedRecords(partially_discovered_sources)
         \/ /\ discovered_sources' = WithoutExpired(discovered_sources)
            /\ partially_discovered_sources' = WithoutExpired(partially_discovered_sources)
         \/ /\ UNCHANGED partially_discovered_sources
            /\ \E s \in DOMAIN discovered_sources : \E u :
                 discovered_sources' =
                   [discovered_sources EXCEPT ![s] = terminate_universe(@, u)]
         \/ \E p \in DiscoveryPackets :
              LET r == handle_universe_discovery_packet(
                         partially_discovered_sources, discovered_sources, p.src,
                         UniversePage(p.page, p.universes), p.last_page)
              IN partially_discovered_sources' = r.partial /\ discovered_sources' = r.discovered
BY DEF Next, vars, discovery, Tick, listen_universes, mute_universe, reset_sources, ClearWaiting,
       set_merge_fn, SetFlag, SetMulticast, set_ipv6_only, get_discovered_sources, drop, recv,
       RecvLoop, SocketTimeout, SocketError, handle_data_packet, IgnorePreview, terminate_stream,
       IgnoreUnlistened, RejectData, DeliverData, HoldData, Examine, handle_sync_packet,
       ReceiveDiscovery

\* No source is known at first.
LEMMA InitRecords == Init => RecordsInv
BY DEF Init, RecordsInv, EmptyMap, KeepsRecords, AllComplete

\* Pages, terminations, the clock and expiry keep the lists.
LEMMA RecordsStep == RecordsInv /\ [Next]_vars => RecordsInv'
<1> SUFFICES ASSUME RecordsInv, [Next]_vars
             PROVE  RecordsInv'
  OBVIOUS
<1>1. CASE UNCHANGED discovery
  BY <1>1 DEF RecordsInv, discovery
<1>2. CASE discovered_sources' = EmptyMap /\ partially_discovered_sources' = EmptyMap
  BY <1>2 DEF RecordsInv, EmptyMap, KeepsRecords, AllComplete
<1>3. CASE /\ discovered_sources' = AgedRecords(discovered_sources)
           /\ partially_discovered_sources' = AgedRecords(partially_discovered_sources)
  BY <1>3, AgedRecordsKept DEF RecordsInv
<1>4. CASE /\ discovered_sources' = WithoutExpired(discovered_sources)
           /\ partially_discovered_sources' = WithoutExpired(partially_discovered_sources)
  BY <1>4, WithoutExpiredRecords DEF RecordsInv
<1>5. ASSUME NEW s \in DOMAIN discovered_sources, NEW u, UNCHANGED partially_discovered_sources,
             discovered_sources' = [discovered_sources EXCEPT ![s] = terminate_universe(@, u)]
      PROVE  RecordsInv'
  <2>1. /\ terminate_universe(discovered_sources[s], u) \in Records(Universes)
        /\ Complete(terminate_universe(discovered_sources[s], u))
    BY TerminateUniverseKept DEF RecordsInv, KeepsRecords, AllComplete
  <2>2. /\ DOMAIN discovered_sources' = DOMAIN discovered_sources
        /\ \A c \in DOMAIN discovered_sources :
             discovered_sources'[c] = IF c = s THEN terminate_universe(discovered_sources[s], u)
                                      ELSE discovered_sources[c]
    BY <1>5
  <2>. QED BY <1>5, <2>1, <2>2 DEF RecordsInv, KeepsRecords, AllComplete
<1>6. ASSUME NEW p \in DiscoveryPackets,
             LET r == handle_universe_discovery_packet(
                        partially_discovered_sources, discovered_sources, p.src,
                        UniversePage(p.page, p.universes), p.last_page)
             IN partially_discovered_sources' = r.partial /\ discovered_sources' = r.discovered
      PROVE  RecordsInv'
  <2>1. /\ p.src \in Sources /\ p.last_page \in Nat
        /\ UniversePage(p.page, p.universes) \in Pages(Universes)
    BY PacketsAssumption DEF UniversePage, Pages
  <2>. QED BY <1>6, <2>1, HandlerKeepsRecords DEF RecordsInv
<1>. QED BY <1>1, <1>2, <1>3, <1>4, <1>5, <1>6, RecordsMoves

\* A source is announced and listed only with every page of the advert it
\* promised (handle_universe_discovery_packet and has_all_pages, receive.rs),
\* whatever order, number of copies or mixture of adverts its pages came in.
THEOREM DiscoveredAreComplete == Spec => []DiscoveredSourcesComplete
<1>1. RecordsInv => DiscoveredSourcesComplete
  BY DEF RecordsInv, AllComplete, Complete, DiscoveredSourcesComplete
<1>. QED BY <1>1, InitRecords, RecordsStep, PTL DEF Spec

-----------------------------------------------------------------------------
(* Types. *)

\* The merge function is the default or one the user set.
LEMMA MergeFnStep ==
  /\ Init => merge_func \in MergeFns \cup {"default"}
  /\ merge_func \in MergeFns \cup {"default"} /\ [Next]_vars
       => merge_func' \in MergeFns \cup {"default"}
<1>1. Init => merge_func \in MergeFns \cup {"default"}
  BY DEF Init
<1>2. [Next]_vars => merge_func' \in MergeFns \cup {merge_func}
  BY DEF Next, vars, Tick, listen_universes, mute_universe, reset_sources, ClearWaiting,
         set_merge_fn, SetFlag, SetMulticast, set_ipv6_only, get_discovered_sources, drop, recv,
         RecvLoop, SocketTimeout, SocketError, handle_data_packet, handle_sync_packet,
         ReceiveDiscovery
<1>. QED BY <1>1, <1>2

\* Every field of the receiver keeps to its type (struct SacnReceiver,
\* receive.rs), and every wait in the socket to the data loss timeout.
THEOREM ReceiverTypeCorrect == Spec => []TypeOK
<1> DEFINE MergeInv == merge_func \in MergeFns \cup {"default"}
<1>1. ASSUME Tracker!TypeOK, FlagsInv, ControlInv, GroupsInv, WaitingInv, RecordsInv, MergeInv
      PROVE  TypeOK
  <2>1. remaining \in Int \cup {Forever} /\ sockwait \in 0 .. Timeout
    BY <1>1 DEF ControlInv
  <2>2. \A records \in {discovered_sources, partially_discovered_sources} :
          /\ DOMAIN records \subseteq Sources
          /\ \A s \in DOMAIN records : records[s] \in DiscoveredSacnSource
    BY <1>1 DEF RecordsInv, KeepsRecords, Records, Pages, DiscoveredSacnSource
  <2>. QED BY <1>1, <2>1, <2>2 DEF TypeOK, ControlInv, GroupsInv, WaitingInv, FlagsInv
<1>2. Numbering!IInv => Tracker!TypeOK
  BY NumberingInvImplies
<1>3. (Init => MergeInv) /\ (MergeInv /\ [Next]_vars => MergeInv')
  BY MergeFnStep
<1>4. FlagsInv /\ GroupsInv /\ [Next]_vars => GroupsInv'
  BY GroupsStep
<1> HIDE DEF MergeInv
<1>. QED BY <1>1, <1>2, <1>3, <1>4, InitFlags, FlagsStep, InitControl, ControlStep, InitGroups,
            InitWaiting, WaitingStep, InitRecords, RecordsStep, NumberingStep, PTL DEF Spec

=============================================================================
