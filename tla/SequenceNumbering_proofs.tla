----------------------- MODULE SequenceNumbering_proofs -----------------------
(***************************************************************************)
(* Theorems about SequenceNumbering for every number of sources and        *)
(* universes, every modulus and window, every timeout and source limit.    *)
(***************************************************************************)
EXTENDS SequenceNumbering, SequenceTracking_proofs

(***************************************************************************)
(* The inductive invariant: each map is well kept, whatever the other one  *)
(* is.  NoEmptySource and SourceLimitRespected need the types in the       *)
(* induction step: a limit is about a finite set of known sources, and it  *)
(* is with numbers in range that a new source is never out of sequence, so *)
(* that Admit always gives the source it adds an entry.                    *)
(***************************************************************************)
IInv ==
  /\ WellKept(data_sequences)
  /\ WellKept(sync_sequences)
  /\ call \in Calls
  /\ ret \in Results

\* The inductive invariant implies the three invariants the runs check.
LEMMA IInvImplies == IInv => TypeOK /\ NoEmptySource /\ SourceLimitRespected
BY DEF IInv, WellKept, WithinLimit, TypeOK, NoEmptySource, SourceLimitRespected

\* SequenceNumbering::new establishes the inductive invariant.
LEMMA InitIInv == Init => IInv
BY EmptyMapWellKept DEF Init, IInv, Calls, Results

\* The parameters Next gives its actions have the types the lemmas ask for.
LEMMA NextIInv == IInv /\ [Next]_vars => IInv'
<1> SUFFICES ASSUME IInv, [Next]_vars
             PROVE  IInv'
  OBVIOUS
<1> USE DEF IInv
<1>1. CASE Tick
  BY <1>1, AgedWellKept DEF Tick, Calls, Results
<1>2. CASE clear
  BY <1>2, EmptyMapWellKept DEF clear, Calls, Results
<1>3. ASSUME NEW announce \in AnnounceModes, check_timeouts(announce)
      PROVE  IInv'
  <2>1. announce \in BOOLEAN
    BY AnnounceAssumption
  <2>2. call' = "check_timeouts"
    BY <1>3 DEF check_timeouts
  <2>3. PICK d \in CheckTimeouts(data_sequences, announce) :
          /\ data_sequences' = d.seqs
          /\ \/ /\ d.ret # Ok
                /\ ret' = d.ret
                /\ UNCHANGED sync_sequences
             \/ /\ d.ret = Ok
                /\ \E y \in CheckTimeouts(sync_sequences, announce) :
                     /\ sync_sequences' = y.seqs
                     /\ ret' = y.ret
    BY <1>3 DEF check_timeouts
  <2>4. /\ WellKept(d.seqs)
        /\ d.ret \in Results
    BY <2>1, CheckTimeoutsWellKept DEF Results
  <2>5. \A y \in CheckTimeouts(sync_sequences, announce) : WellKept(y.seqs) /\ y.ret \in Results
    BY <2>1, CheckTimeoutsWellKept DEF Results
  <2>. QED BY <2>2, <2>3, <2>4, <2>5 DEF Calls
<1>4. ASSUME NEW s \in Sources, NEW u \in DataUniverses, NEW n \in SeqNumbers,
             NEW announce \in AnnounceModes, check_data_seq_number(s, u, n, announce)
      PROVE  IInv'
  <2>1. announce \in BOOLEAN /\ u \in Universes
    BY AnnounceAssumption, UniversesAssumption
  <2>2. \A o \in CheckSeqNumber(data_sequences, s, u, n, announce) :
          WellKept(o.seqs) /\ o.ret \in Results
    BY <2>1, CheckSeqNumberWellKept DEF Results
  <2>. QED BY <1>4, <2>2 DEF check_data_seq_number, Calls
<1>5. ASSUME NEW s \in Sources, NEW u \in SyncUniverses, NEW n \in SeqNumbers,
             NEW announce \in AnnounceModes, check_sync_seq_number(s, u, n, announce)
      PROVE  IInv'
  <2>1. announce \in BOOLEAN /\ u \in Universes
    BY AnnounceAssumption, UniversesAssumption
  <2>2. \A o \in CheckSeqNumber(sync_sequences, s, u, n, announce) :
          WellKept(o.seqs) /\ o.ret \in Results
    BY <2>1, CheckSeqNumberWellKept DEF Results
  <2>. QED BY <1>5, <2>2 DEF check_sync_seq_number, Calls
<1>6. ASSUME NEW s \in Sources, NEW u \in Universes, remove_seq_numbers(s, u)
      PROVE  IInv'
  BY <1>6, RemovalWellKept DEF remove_seq_numbers, Calls, Results
<1>7. CASE UNCHANGED vars
  BY <1>7 DEF vars
<1>. QED BY <1>1, <1>2, <1>3, <1>4, <1>5, <1>6, <1>7 DEF Next

\* Whatever calls are made, both maps relate known sources to known universes
\* to stamped numbers in range: the type invariant of SequenceNumbering.
THEOREM TypeCorrect == Spec => []TypeOK
BY InitIInv, NextIInv, IInvImplies, PTL DEF Spec

\* A tracked source always has a universe (SequenceNumbering, check_timeouts,
\* remove_source_universe_seq), so every slot of the limit can time out.
THEOREM TrackedSourcesHaveUniverses == Spec => []NoEmptySource
BY InitIInv, NextIInv, IInvImplies, PTL DEF Spec

\* check_seq_number never lets a map track more sources than source_limit.
THEOREM LimitHolds == Spec => []SourceLimitRespected
BY InitIInv, NextIInv, IInvImplies, PTL DEF Spec

-----------------------------------------------------------------------------
(* How entries move in one step. *)

\* An entry that lives through the step moves on, and none is dropped alive.
Forward(m, mm) ==
  /\ AllMoveOn(m, mm)
  /\ \A s \in Sources, u \in Universes : ~ Drops(m, mm, s, u)

\* Losing entries that timed out is a forward step for those that did not.
LEMMA OnlyTimedOutLostIsForward ==
  ASSUME NEW m, NEW mm, OnlyTimedOutLost(m, mm)
  PROVE  Forward(m, mm)
BY DEF OnlyTimedOutLost, Forward, AllMoveOn, MovesOn, Drops, Tracked

\* A map left alone makes a forward step.
LEMMA SameIsForward ==
  ASSUME NEW m
  PROVE  Forward(m, m)
BY DEF Forward, AllMoveOn, MovesOn, Drops

\* The clock makes a forward step.
LEMMA AgedIsForward ==
  ASSUME NEW m \in SequenceMaps
  PROVE  Forward(m, Aged(m))
<1>1. ASSUME NEW s \in DOMAIN m, NEW u \in DOMAIN m[s]
      PROVE  MovesOn(m, Aged(m), s, u)
  <2>1. Tracked(m, s, u)
    BY DEF Tracked
  <2>2. Aged(m)[s][u] = [m[s][u] EXCEPT !.age = Older(@)]
    BY <2>1, AgedEntries
  <2>. QED BY <2>2 DEF MovesOn
<1>2. \A s, u : ~ Drops(m, Aged(m), s, u)
  BY AgedEntries DEF Drops
<1>. QED BY <1>1, <1>2 DEF Forward, AllMoveOn

\* A packet that is accepted is not one its stream has just passed: the
\* window counted on the circle is the window of signed differences.
LEMMA AcceptedIsForward ==
  ASSUME NEW m \in SequenceMaps, NEW s \in Sources, NEW u \in Universes, NEW n \in SeqNumbers,
         Tracked(m, s, u) => ~ IsOutOfSequence(n, m[s][u].sequence_number)
  PROVE  Forward(m, WithEntry(WithSource(m, s), s, u, n))
<1> DEFINE mm == WithEntry(WithSource(m, s), s, u, n)
<1>1. \A t, v : /\ Tracked(mm, t, v) <=> Tracked(m, t, v) \/ (t = s /\ v = u)
                /\ ~ (t = s /\ v = u) /\ Tracked(m, t, v) => mm[t][v] = m[t][v]
                /\ mm[s][u] = [sequence_number |-> n, age |-> 0]
  BY WithEntryEntries
<1>2. ASSUME Tracked(m, s, u)
      PROVE  ~ JustPassed(n, m[s][u].sequence_number)
  <2>1. m[s][u].sequence_number \in SeqNumbers
    BY <1>2, TrackedTyped DEF TimedStampedSeqNo
  <2>. QED BY <1>2, <2>1, CountedBackIsOutOfSequence DEF JustPassed
<1>3. Tracked(m, s, u) => MovesOn(m, mm, s, u)
  BY <1>1, <1>2 DEF MovesOn
<1>4. \A t, v : Tracked(m, t, v) => MovesOn(m, mm, t, v)
  BY <1>1, <1>3 DEF MovesOn
<1>5. AllMoveOn(m, mm)
  BY <1>4 DEF AllMoveOn, Tracked
<1>6. \A t, v : ~ Drops(m, mm, t, v)
  BY <1>1 DEF Drops
<1>. QED BY <1>5, <1>6 DEF Forward

\* The timeouts checked first lose entries, the packet then moves one: for an
\* entry that had not timed out the two together are one forward move.
LEMMA CheckSeqNumberIsForward ==
  ASSUME NEW m, WellKept(m), NEW s \in Sources, NEW u \in Universes, NEW n \in SeqNumbers,
         NEW announce \in BOOLEAN,
         NEW o \in CheckSeqNumber(m, s, u, n, announce)
  PROVE  Forward(m, o.seqs)
<1>1. PICK c \in CheckTimeouts(m, announce) :
        o = IF c.ret = Ok THEN Admit(c.seqs, s, u, n) ELSE c
  BY DEF CheckSeqNumber
<1>2. WellKept(c.seqs) /\ c.seqs \in SequenceMaps /\ m \in SequenceMaps
  BY CheckTimeoutsWellKept DEF WellKept
<1>3. OnlyTimedOutLost(m, c.seqs)
  BY <1>2, CheckTimeoutsEntries
<1>4. Forward(m, c.seqs)
  BY <1>3, OnlyTimedOutLostIsForward
<1>5. CASE o.seqs = c.seqs
  BY <1>4, <1>5
<1>6. CASE o.seqs # c.seqs
  <2> DEFINE mm == WithEntry(WithSource(c.seqs, s), s, u, n)
  <2>1. c.ret = Ok /\ o = Admit(c.seqs, s, u, n)
    BY <1>1, <1>6
  <2>2. /\ o.seqs = mm
        /\ Tracked(c.seqs, s, u) => ~ IsOutOfSequence(n, c.seqs[s][u].sequence_number)
    BY <1>2, <1>6, <2>1, AdmitOutcomes
  <2>3. Forward(c.seqs, mm)
    BY <1>2, <2>2, AcceptedIsForward
  <2>4. ASSUME NEW t, NEW v, Tracked(m, t, v), ~ TimedOut(m, t, v)
        PROVE  /\ Tracked(c.seqs, t, v) /\ ~ TimedOut(c.seqs, t, v)
               /\ c.seqs[t][v] = m[t][v]
    BY <1>3, <2>4 DEF OnlyTimedOutLost, TimedOut
  <2>5. AllMoveOn(m, mm)
    BY <2>3, <2>4 DEF Forward, AllMoveOn, MovesOn, Tracked
  <2>6. \A t \in Sources, v \in Universes : ~ Drops(m, mm, t, v)
    BY <2>3, <2>4 DEF Forward, Drops
  <2>. QED BY <2>2, <2>5, <2>6 DEF Forward
<1>. QED BY <1>5, <1>6

\* Removal leaves every other entry as it was.
LEMMA RemovalMovesOn ==
  ASSUME NEW m \in SequenceMaps, NEW s, NEW u
  PROVE  LET mm == RemoveSourceUniverseSeq(m, s, u).seqs IN
         /\ AllMoveOn(m, mm)
         /\ \A t, v : Drops(m, mm, t, v) => t = s /\ v = u
<1>1. CASE RemoveSourceUniverseSeq(m, s, u).seqs = m
  BY <1>1 DEF AllMoveOn, MovesOn, Drops
<1>2. CASE RemoveSourceUniverseSeq(m, s, u).seqs # m
  <2>1. s \in DOMAIN m /\ RemoveSourceUniverseSeq(m, s, u).seqs = WithoutUniverse(m, s, u)
    BY <1>2 DEF RemoveSourceUniverseSeq
  <2>. QED BY <2>1, WithoutUniverseEntries DEF AllMoveOn, MovesOn, Drops, Tracked
<1>. QED BY <1>1, <1>2

\* clear keeps no entry, so none moves backwards.
LEMMA EmptyMapMovesOn ==
  ASSUME NEW m
  PROVE  AllMoveOn(m, EmptyMap)
BY DEF AllMoveOn, Tracked, EmptyMap

\* One step of any kind, seen on the entries of both maps.
LEMMA StepMovesOn ==
  ASSUME IInv, [Next]_vars
  PROVE  /\ AllMoveOn(data_sequences, data_sequences')
         /\ AllMoveOn(sync_sequences, sync_sequences')
         /\ \A s \in Sources, u \in Universes :
              Drops(data_sequences, data_sequences', s, u)
                \/ Drops(sync_sequences, sync_sequences', s, u)
              => clear \/ remove_seq_numbers(s, u)
<1> DEFINE Goal ==
             /\ AllMoveOn(data_sequences, data_sequences')
             /\ AllMoveOn(sync_sequences, sync_sequences')
             /\ \A s \in Sources, u \in Universes :
                  Drops(data_sequences, data_sequences', s, u)
                    \/ Drops(sync_sequences, sync_sequences', s, u)
                  => clear \/ remove_seq_numbers(s, u)
<1>a. /\ WellKept(data_sequences) /\ WellKept(sync_sequences)
      /\ data_sequences \in SequenceMaps /\ sync_sequences \in SequenceMaps
  BY DEF IInv, WellKept
<1>b. Forward(data_sequences, data_sequences') /\ Forward(sync_sequences, sync_sequences') => Goal
  BY DEF Forward
<1>1. CASE Tick
  BY <1>1, <1>a, <1>b, AgedIsForward DEF Tick
<1>2. CASE clear
  BY <1>2, EmptyMapMovesOn DEF clear
<1>3. ASSUME NEW announce \in AnnounceModes, check_timeouts(announce)
      PROVE  Goal
  <2>1. announce \in BOOLEAN
    BY AnnounceAssumption
  <2>2. Forward(data_sequences, data_sequences')
    BY <1>3, <1>a, <2>1, CheckTimeoutsEntries, OnlyTimedOutLostIsForward DEF check_timeouts
  <2>3. Forward(sync_sequences, sync_sequences')
    BY <1>3, <1>a, <2>1, CheckTimeoutsEntries, OnlyTimedOutLostIsForward, SameIsForward
       DEF check_timeouts
  <2>. QED BY <2>2, <2>3, <1>b
<1>4. ASSUME NEW s \in Sources, NEW u \in DataUniverses, NEW n \in SeqNumbers,
             NEW announce \in AnnounceModes, check_data_seq_number(s, u, n, announce)
      PROVE  Goal
  <2>1. announce \in BOOLEAN /\ u \in Universes
    BY AnnounceAssumption, UniversesAssumption
  <2>2. Forward(data_sequences, data_sequences')
    BY <1>4, <1>a, <2>1, CheckSeqNumberIsForward DEF check_data_seq_number
  <2>3. Forward(sync_sequences, sync_sequences')
    BY <1>4, SameIsForward DEF check_data_seq_number
  <2>. QED BY <2>2, <2>3, <1>b
<1>5. ASSUME NEW s \in Sources, NEW u \in SyncUniverses, NEW n \in SeqNumbers,
             NEW announce \in AnnounceModes, check_sync_seq_number(s, u, n, announce)
      PROVE  Goal
  <2>1. announce \in BOOLEAN /\ u \in Universes
    BY AnnounceAssumption, UniversesAssumption
  <2>2. Forward(sync_sequences, sync_sequences')
    BY <1>5, <1>a, <2>1, CheckSeqNumberIsForward DEF check_sync_seq_number
  <2>3. Forward(data_sequences, data_sequences')
    BY <1>5, SameIsForward DEF check_sync_seq_number
  <2>. QED BY <2>2, <2>3, <1>b
<1>6. ASSUME NEW s \in Sources, NEW u \in Universes, remove_seq_numbers(s, u)
      PROVE  Goal
  <2> DEFINE d == RemoveSourceUniverseSeq(data_sequences, s, u).seqs
             y == RemoveSourceUniverseSeq(sync_sequences, s, u).seqs
  <2>1. data_sequences' = d /\ (sync_sequences' = y \/ sync_sequences' = sync_sequences)
    BY <1>6 DEF remove_seq_numbers
  <2>2. /\ AllMoveOn(data_sequences, d) /\ AllMoveOn(sync_sequences, y)
        /\ \A t, v : Drops(data_sequences, d, t, v) \/ Drops(sync_sequences, y, t, v)
                       => t = s /\ v = u
    BY <1>a, RemovalMovesOn
  <2>3. AllMoveOn(sync_sequences, sync_sequences)
        /\ \A t \in Sources, v \in Universes : ~ Drops(sync_sequences, sync_sequences, t, v)
    BY SameIsForward DEF Forward
  <2>. QED BY <1>6, <2>1, <2>2, <2>3
<1>7. CASE UNCHANGED vars
  BY <1>7, <1>b, SameIsForward DEF vars
<1>. QED BY <1>1, <1>2, <1>3, <1>4, <1>5, <1>6, <1>7 DEF Next

\* A stream's sequence number never steps back into the discard window while
\* the stream has not timed out (check_seq_number).
THEOREM NoStepBack == Spec => StreamsMoveForward
<1>1. IInv /\ [Next]_vars =>
        [AllMoveOn(data_sequences, data_sequences') /\ AllMoveOn(sync_sequences, sync_sequences')]_vars
  BY StepMovesOn
<1>. QED BY <1>1, InitIInv, NextIInv, PTL DEF Spec, StreamsMoveForward

\* Only clear, or the removal of that very source and universe, forgets a
\* stream that has not timed out.
THEOREM NoLiveEntryLost == Spec => LiveEntriesPersist
<1>1. IInv /\ [Next]_vars =>
        [\A s \in Sources, u \in Universes :
           Drops(data_sequences, data_sequences', s, u) \/ Drops(sync_sequences, sync_sequences', s, u)
             => clear \/ remove_seq_numbers(s, u)]_vars
  BY StepMovesOn
<1>. QED BY <1>1, InitIInv, NextIInv, PTL DEF Spec, LiveEntriesPersist

-----------------------------------------------------------------------------
(* What a check of the timeouts leaves, and what it reports. *)

\* Where timeouts are not announced, what CheckLeavesNothingTimedOut and
\* RefusalMeansLimitReached say of the state after a step follows from the
\* call the step makes.
LEMMA QuietStep ==
  ASSUME AnnounceModes \subseteq {FALSE}, IInv, CheckLeavesNothingTimedOut,
         RefusalMeansLimitReached, [Next]_vars
  PROVE  CheckLeavesNothingTimedOut' /\ RefusalMeansLimitReached'
<1> DEFINE Goal == CheckLeavesNothingTimedOut' /\ RefusalMeansLimitReached'
<1>a. /\ data_sequences \in SequenceMaps /\ WellKept(data_sequences)
      /\ sync_sequences \in SequenceMaps /\ WellKept(sync_sequences)
  BY DEF IInv, WellKept
<1>b. ASSUME NEW m, WellKept(m), NEW s \in Sources, NEW u \in Universes, NEW n \in SeqNumbers,
             NEW announce \in AnnounceModes, NEW o \in CheckSeqNumber(m, s, u, n, announce),
             o.ret = SourcesExceeded
      PROVE  Cardinality(LiveSources(o.seqs)) >= SourceLimit
  <2> DEFINE mm == WithoutTimedOut(m)
  <2>1. m \in SequenceMaps
    BY <1>b DEF WellKept
  <2>2. WellKept(mm)
    BY <1>b, WithoutTimedOutWellKept
  <2>3. o = Admit(mm, s, u, n)
    <3>1. PICK c \in CheckTimeouts(m, announce) :
            o = IF c.ret = Ok THEN Admit(c.seqs, s, u, n) ELSE c
      BY DEF CheckSeqNumber
    <3>2. c.seqs = mm /\ c.ret = Ok
      BY QuietCheck
    <3>. QED BY <3>1, <3>2
  <2>4. o.seqs = mm /\ LimitReached(mm)
    BY <1>b, <2>2, <2>3, AdmitOutcomes DEF OutOfSequence, SourcesExceeded, Ok
  <2>5. LiveSources(mm) = DOMAIN mm
    BY <2>1, <2>2, QuietLeavesOnlyLive DEF LiveSources, WellKept
  <2>. QED BY <2>4, <2>5 DEF LimitReached
<1>1. CASE Tick
  BY <1>1 DEF Tick, CheckLeavesNothingTimedOut, RefusalMeansLimitReached, Ok, SourcesExceeded
<1>2. CASE clear
  BY <1>2 DEF clear, CheckLeavesNothingTimedOut, RefusalMeansLimitReached, Ok, SourcesExceeded
<1>3. ASSUME NEW announce \in AnnounceModes, check_timeouts(announce)
      PROVE  Goal
  <2>1. /\ data_sequences' = WithoutTimedOut(data_sequences)
        /\ sync_sequences' = WithoutTimedOut(sync_sequences)
        /\ ret' = Ok
    <3>1. PICK d \in CheckTimeouts(data_sequences, announce) :
            /\ data_sequences' = d.seqs
            /\ d.ret = Ok =>
                 \E y \in CheckTimeouts(sync_sequences, announce) :
                   sync_sequences' = y.seqs /\ ret' = y.ret
      BY <1>3 DEF check_timeouts
    <3>2. d.seqs = WithoutTimedOut(data_sequences) /\ d.ret = Ok
      BY QuietCheck
    <3>3. \A y \in CheckTimeouts(sync_sequences, announce) :
            y.seqs = WithoutTimedOut(sync_sequences) /\ y.ret = Ok
      BY QuietCheck
    <3>. QED BY <3>1, <3>2, <3>3
  <2>2. CheckLeavesNothingTimedOut'
    BY <1>a, <2>1, QuietLeavesOnlyLive DEF CheckLeavesNothingTimedOut, HasTimedOut
  <2>. QED BY <2>1, <2>2 DEF RefusalMeansLimitReached, Ok, SourcesExceeded
<1>4. ASSUME NEW s \in Sources, NEW u \in DataUniverses, NEW n \in SeqNumbers,
             NEW announce \in AnnounceModes, check_data_seq_number(s, u, n, announce)
      PROVE  Goal
  <2>1. announce = FALSE /\ u \in Universes
    BY UniversesAssumption
  <2>2. call' = "data"
    BY <1>4 DEF check_data_seq_number
  <2>3. ret' = SourcesExceeded => Cardinality(LiveSources(data_sequences')) >= SourceLimit
    BY <1>4, <1>a, <1>b, <2>1 DEF check_data_seq_number
  <2>. QED BY <2>2, <2>3 DEF CheckLeavesNothingTimedOut, RefusalMeansLimitReached, LiveSources
<1>5. ASSUME NEW s \in Sources, NEW u \in SyncUniverses, NEW n \in SeqNumbers,
             NEW announce \in AnnounceModes, check_sync_seq_number(s, u, n, announce)
      PROVE  Goal
  <2>1. announce = FALSE /\ u \in Universes
    BY UniversesAssumption
  <2>2. call' = "sync"
    BY <1>5 DEF check_sync_seq_number
  <2>3. ret' = SourcesExceeded => Cardinality(LiveSources(sync_sequences')) >= SourceLimit
    BY <1>5, <1>a, <1>b, <2>1 DEF check_sync_seq_number
  <2>. QED BY <2>2, <2>3 DEF CheckLeavesNothingTimedOut, RefusalMeansLimitReached, LiveSources
<1>6. ASSUME NEW s \in Sources, NEW u \in Universes, remove_seq_numbers(s, u)
      PROVE  Goal
  BY <1>6 DEF remove_seq_numbers, RemoveSourceUniverseSeq, CheckLeavesNothingTimedOut,
              RefusalMeansLimitReached, Ok, SourcesExceeded, SourceNotFound, UniverseNotFound
<1>7. CASE UNCHANGED vars
  BY <1>7 DEF vars, CheckLeavesNothingTimedOut, RefusalMeansLimitReached, LiveSources,
              HasTimedOut, TimedOut, Tracked
<1>. QED BY <1>1, <1>2, <1>3, <1>4, <1>5, <1>6, <1>7 DEF Next

\* While announce_timeout stays off, as it is unless the user sets it, a
\* check that reports no timeout leaves no entry that has timed out.
THEOREM QuietCheckIsComplete ==
  ASSUME AnnounceModes \subseteq {FALSE}
  PROVE  Spec => []CheckLeavesNothingTimedOut
<1>1. Init => CheckLeavesNothingTimedOut /\ RefusalMeansLimitReached
  BY DEF Init, CheckLeavesNothingTimedOut, RefusalMeansLimitReached, Ok, SourcesExceeded
<1>2. /\ IInv /\ CheckLeavesNothingTimedOut /\ RefusalMeansLimitReached /\ [Next]_vars
      => CheckLeavesNothingTimedOut' /\ RefusalMeansLimitReached'
  BY QuietStep
<1>. QED BY <1>1, <1>2, InitIInv, NextIInv, PTL DEF Spec

\* While announce_timeout stays off, check_seq_number turns a source away only
\* when as many live ones as the limit allows are tracked.
THEOREM RefusalIsJustified ==
  ASSUME AnnounceModes \subseteq {FALSE}
  PROVE  Spec => []RefusalMeansLimitReached
<1>1. Init => CheckLeavesNothingTimedOut /\ RefusalMeansLimitReached
  BY DEF Init, CheckLeavesNothingTimedOut, RefusalMeansLimitReached, Ok, SourcesExceeded
<1>2. /\ IInv /\ CheckLeavesNothingTimedOut /\ RefusalMeansLimitReached /\ [Next]_vars
      => CheckLeavesNothingTimedOut' /\ RefusalMeansLimitReached'
  BY QuietStep
<1>. QED BY <1>1, <1>2, InitIInv, NextIInv, PTL DEF Spec

-----------------------------------------------------------------------------
(* An announced timeout. *)

\* The entry named by r is the one mm has lost of m, and it had timed out.
Announced(m, mm, r) ==
  /\ Forgotten(m, mm) = {<<r.src, r.uni>>}
  /\ TimedOut(m, r.src, r.uni)
  /\ \A s \in DOMAIN mm : \A u \in DOMAIN mm[s] : Tracked(m, s, u) /\ mm[s][u] = m[s][u]

\* What the other map may lose meanwhile.
LosesOnlyTimedOut(m, mm) ==
  \A s \in DOMAIN m : \A u \in DOMAIN m[s] : Tracked(mm, s, u) \/ TimedOut(m, s, u)

\* A check_timeouts that reports a timeout drops the entry it names.
LEMMA CheckTimeoutsAnnounces ==
  ASSUME NEW m \in SequenceMaps, NEW announce \in BOOLEAN,
         NEW o \in CheckTimeouts(m, announce), o.ret # Ok
  PROVE  Announced(m, o.seqs, o.ret)
<1>1. PICK p \in Sources \X Universes :
        /\ TimedOut(m, p[1], p[2])
        /\ o = [seqs |-> WithoutUniverse(m, p[1], p[2]), ret |-> UniverseTimeout(p[1], p[2])]
  BY DEF CheckTimeouts
<1> DEFINE s == p[1]
           u == p[2]
           mm == WithoutUniverse(m, s, u)
<1>2. o.seqs = mm /\ o.ret.src = s /\ o.ret.uni = u
  BY <1>1 DEF UniverseTimeout
<1>3. s \in DOMAIN m /\ s \in Sources /\ u \in Universes /\ Tracked(m, s, u)
  BY <1>1 DEF TimedOut, Tracked
<1>4. \A t, v : /\ Tracked(mm, t, v) <=> Tracked(m, t, v) /\ ~ (t = s /\ v = u)
                /\ Tracked(mm, t, v) => mm[t][v] = m[t][v]
  BY <1>3, WithoutUniverseEntries
<1>5. Forgotten(m, mm) = {<<s, u>>}
  <2>1. ASSUME NEW q \in Sources \X Universes
        PROVE  Tracked(m, q[1], q[2]) /\ ~ Tracked(mm, q[1], q[2]) <=> q = <<s, u>>
    BY <1>3, <1>4
  <2>2. <<s, u>> \in Sources \X Universes
    BY <1>3
  <2>. QED BY <2>1, <2>2 DEF Forgotten
<1>6. \A t \in DOMAIN mm : \A v \in DOMAIN mm[t] : Tracked(m, t, v) /\ mm[t][v] = m[t][v]
  BY <1>4 DEF Tracked
<1>. QED BY <1>1, <1>2, <1>5, <1>6 DEF Announced

\* The check before a packet is the only part of check_seq_number that
\* reports a timeout, and then the packet has no effect.
LEMMA CheckSeqNumberAnnounces ==
  ASSUME NEW m, WellKept(m), NEW s \in Sources, NEW u \in Universes, NEW n \in SeqNumbers,
         NEW announce \in BOOLEAN, NEW o \in CheckSeqNumber(m, s, u, n, announce),
         o.ret.res = "UniverseTimeout"
  PROVE  Announced(m, o.seqs, o.ret)
<1>1. PICK c \in CheckTimeouts(m, announce) :
        o = IF c.ret = Ok THEN Admit(c.seqs, s, u, n) ELSE c
  BY DEF CheckSeqNumber
<1>2. WellKept(c.seqs)
  BY CheckTimeoutsWellKept
<1>3. Admit(c.seqs, s, u, n).ret \in {SourcesExceeded, OutOfSequence, Ok}
  BY <1>2, AdmitOutcomes
<1>4. c.ret # Ok /\ o = c
  BY <1>1, <1>3 DEF SourcesExceeded, OutOfSequence, Ok
<1>. QED BY <1>4, CheckTimeoutsAnnounces DEF WellKept

\* A step that reports a timeout is a check that found it in one of the maps.
LEMMA StepAnnounces ==
  ASSUME IInv, Next, ret'.res = "UniverseTimeout"
  PROVE  \/ /\ Announced(data_sequences, data_sequences', ret')
            /\ LosesOnlyTimedOut(sync_sequences, sync_sequences')
         \/ /\ Announced(sync_sequences, sync_sequences', ret')
            /\ LosesOnlyTimedOut(data_sequences, data_sequences')
<1> DEFINE D == Announced(data_sequences, data_sequences', ret')
           Y == Announced(sync_sequences, sync_sequences', ret')
           LD == LosesOnlyTimedOut(data_sequences, data_sequences')
           LY == LosesOnlyTimedOut(sync_sequences, sync_sequences')
           Goal == (D /\ LY) \/ (Y /\ LD)
<1>a. /\ data_sequences \in SequenceMaps /\ WellKept(data_sequences)
      /\ sync_sequences \in SequenceMaps /\ WellKept(sync_sequences)
  BY DEF IInv, WellKept
<1>b. \A m : LosesOnlyTimedOut(m, m)
  BY DEF LosesOnlyTimedOut, Tracked
<1>c. \A m, mm : OnlyTimedOutLost(m, mm) => LosesOnlyTimedOut(m, mm)
  BY DEF OnlyTimedOutLost, LosesOnlyTimedOut, Tracked
<1>1. ASSUME NEW announce \in AnnounceModes, check_timeouts(announce)
      PROVE  Goal
  <2>1. announce \in BOOLEAN
    BY AnnounceAssumption
  <2>2. PICK d \in CheckTimeouts(data_sequences, announce) :
          /\ data_sequences' = d.seqs
          /\ \/ /\ d.ret # Ok
                /\ ret' = d.ret
                /\ UNCHANGED sync_sequences
             \/ \E y \in CheckTimeouts(sync_sequences, announce) :
                  /\ sync_sequences' = y.seqs
                  /\ ret' = y.ret
    BY <1>1 DEF check_timeouts
  <2>3. CASE d.ret # Ok /\ ret' = d.ret /\ UNCHANGED sync_sequences
    BY <1>a, <1>b, <2>1, <2>2, <2>3, CheckTimeoutsAnnounces
  <2>4. ASSUME NEW y \in CheckTimeouts(sync_sequences, announce),
               sync_sequences' = y.seqs, ret' = y.ret
        PROVE  Goal
    <3>1. y.ret # Ok
      BY <2>4 DEF Ok
    <3>2. Y
      BY <1>a, <2>1, <2>4, <3>1, CheckTimeoutsAnnounces
    <3>3. LD
      BY <1>a, <1>c, <2>1, <2>2, CheckTimeoutsEntries
    <3>. QED BY <3>2, <3>3
  <2>. QED BY <2>2, <2>3, <2>4
<1>2. ASSUME NEW s \in Sources, NEW u \in DataUniverses, NEW n \in SeqNumbers,
             NEW announce \in AnnounceModes, check_data_seq_number(s, u, n, announce)
      PROVE  Goal
  <2>1. announce \in BOOLEAN /\ u \in Universes
    BY AnnounceAssumption, UniversesAssumption
  <2>2. PICK o \in CheckSeqNumber(data_sequences, s, u, n, announce) :
          data_sequences' = o.seqs /\ ret' = o.ret /\ sync_sequences' = sync_sequences
    BY <1>2 DEF check_data_seq_number
  <2>. QED BY <1>a, <1>b, <2>1, <2>2, CheckSeqNumberAnnounces
<1>3. ASSUME NEW s \in Sources, NEW u \in SyncUniverses, NEW n \in SeqNumbers,
             NEW announce \in AnnounceModes, check_sync_seq_number(s, u, n, announce)
      PROVE  Goal
  <2>1. announce \in BOOLEAN /\ u \in Universes
    BY AnnounceAssumption, UniversesAssumption
  <2>2. PICK o \in CheckSeqNumber(sync_sequences, s, u, n, announce) :
          sync_sequences' = o.seqs /\ ret' = o.ret /\ data_sequences' = data_sequences
    BY <1>3 DEF check_sync_seq_number
  <2>. QED BY <1>a, <1>b, <2>1, <2>2, CheckSeqNumberAnnounces
<1>4. ~ Tick /\ ~ clear
  BY DEF Tick, clear, Ok
<1>5. \A s \in Sources, u \in Universes : ~ remove_seq_numbers(s, u)
  BY DEF remove_seq_numbers, RemoveSourceUniverseSeq, Ok, SourceNotFound, UniverseNotFound
<1>. QED BY <1>1, <1>2, <1>3, <1>4, <1>5 DEF Next

\* Every UniverseTimeout that check_timeouts or check_seq_number returns names
\* the one entry it dropped, which had timed out, in either announcing mode.
THEOREM TimeoutsAreExact == Spec => AnnouncedTimeoutIsExact
<1> DEFINE Exact ==
      ret'.res = "UniverseTimeout" =>
        \E k \in {<<data_sequences, data_sequences', sync_sequences, sync_sequences'>>,
                  <<sync_sequences, sync_sequences', data_sequences, data_sequences'>>} :
          /\ Forgotten(k[1], k[2]) = {<<ret'.src, ret'.uni>>}
          /\ TimedOut(k[1], ret'.src, ret'.uni)
          /\ \A s \in DOMAIN k[2] : \A u \in DOMAIN k[2][s] :
               Tracked(k[1], s, u) /\ k[2][s][u] = k[1][s][u]
          /\ \A s \in DOMAIN k[3] : \A u \in DOMAIN k[3][s] :
               Tracked(k[4], s, u) \/ TimedOut(k[3], s, u)
<1>1. ASSUME IInv, Next PROVE Exact
  <2> SUFFICES ASSUME ret'.res = "UniverseTimeout"
               PROVE  Exact
    OBVIOUS
  <2>1. CASE /\ Announced(data_sequences, data_sequences', ret')
             /\ LosesOnlyTimedOut(sync_sequences, sync_sequences')
    <3> DEFINE k == <<data_sequences, data_sequences', sync_sequences, sync_sequences'>>
    <3>. QED BY <2>1 DEF Announced, LosesOnlyTimedOut
  <2>2. CASE /\ Announced(sync_sequences, sync_sequences', ret')
             /\ LosesOnlyTimedOut(data_sequences, data_sequences')
    BY <2>2 DEF Announced, LosesOnlyTimedOut
  <2>. QED BY <1>1, <2>1, <2>2, StepAnnounces
<1>2. IInv /\ [Next]_vars => [Exact]_vars
  BY <1>1
<1>. QED BY <1>2, InitIInv, NextIInv, PTL DEF Spec, AnnouncedTimeoutIsExact

=============================================================================
