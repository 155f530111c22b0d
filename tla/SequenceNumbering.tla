-------------------------- MODULE SequenceNumbering --------------------------
(***************************************************************************)
(* struct SequenceNumbering of src/receive.rs: the sequence numbers the    *)
(* receiver tracks for data packets and, separately, for synchronisation   *)
(* packets, with one action per method.  Every argument a packet or the    *)
(* receiver can supply is enumerated; the clock advances between calls.    *)
(***************************************************************************)
EXTENDS SequenceTracking

CONSTANTS
  DataUniverses,  \* universes that carry data packets
  SyncUniverses,  \* universes that carry synchronisation packets
  AnnounceModes   \* the values announce_timeout is given: a subset of BOOLEAN

ASSUME UniversesAssumption ==
  DataUniverses \subseteq Universes /\ SyncUniverses \subseteq Universes
ASSUME AnnounceAssumption == AnnounceModes \subseteq BOOLEAN

VARIABLES
  data_sequences,  \* HashMap<Uuid, HashMap<u16, TimedStampedSeqNo>>
  sync_sequences,  \* the same for synchronisation packets
  call,            \* the method called last
  ret              \* what it returned

vars == <<data_sequences, sync_sequences, call, ret>>

Calls == {"new", "tick", "clear", "check_timeouts", "data", "sync", "remove"}

Results ==
  {Ok, OutOfSequence, SourcesExceeded, SourceNotFound, UniverseNotFound}
    \cup {UniverseTimeout(s, u) : s \in Sources, u \in Universes}

-----------------------------------------------------------------------------

\* SequenceNumbering::new
Init ==
  /\ data_sequences = EmptyMap
  /\ sync_sequences = EmptyMap
  /\ call = "new"
  /\ ret = Ok

\* Time passes: every Instant is one tick older.
Tick ==
  /\ data_sequences' = Aged(data_sequences)
  /\ sync_sequences' = Aged(sync_sequences)
  /\ call' = "tick"
  /\ ret' = Ok

clear ==
  /\ data_sequences' = EmptyMap
  /\ sync_sequences' = EmptyMap
  /\ call' = "clear"
  /\ ret' = Ok

\* Mutant of check_timeouts: forgets the synchronisation sequences.
check_timeouts_data_only(announce) ==
  /\ \E d \in CheckTimeouts(data_sequences, announce) :
       data_sequences' = d.seqs /\ ret' = d.ret
  /\ call' = "check_timeouts"
  /\ UNCHANGED sync_sequences

\* The data map is checked first; an error there leaves the other unchecked.
check_timeouts(announce) ==
  /\ \E d \in CheckTimeouts(data_sequences, announce) :
       /\ data_sequences' = d.seqs
       /\ \/ /\ d.ret # Ok
             /\ ret' = d.ret
             /\ UNCHANGED sync_sequences
          \/ /\ d.ret = Ok
             /\ \E y \in CheckTimeouts(sync_sequences, announce) :
                  /\ sync_sequences' = y.seqs
                  /\ ret' = y.ret
  /\ call' = "check_timeouts"

check_data_seq_number(cid, universe, sequence_number, announce) ==
  /\ \E o \in CheckSeqNumber(data_sequences, cid, universe, sequence_number, announce) :
       /\ data_sequences' = o.seqs
       /\ ret' = o.ret
  /\ call' = "data"
  /\ UNCHANGED sync_sequences

check_sync_seq_number(cid, sync_uni, sequence_number, announce) ==
  /\ \E o \in CheckSeqNumber(sync_sequences, cid, sync_uni, sequence_number, announce) :
       /\ sync_sequences' = o.seqs
       /\ ret' = o.ret
  /\ call' = "sync"
  /\ UNCHANGED data_sequences

\* An error from the data map returns before the sync map is touched.
remove_seq_numbers(src_cid, universe) ==
  LET d == RemoveSourceUniverseSeq(data_sequences, src_cid, universe)
      y == RemoveSourceUniverseSeq(sync_sequences, src_cid, universe)
  IN /\ data_sequences' = d.seqs
     /\ sync_sequences' = IF d.ret = Ok THEN y.seqs ELSE sync_sequences
     /\ ret' = IF d.ret = Ok THEN y.ret ELSE d.ret
     /\ call' = "remove"

Next ==
  \/ Tick
  \/ clear
  \/ \E announce \in AnnounceModes : check_timeouts(announce)
  \/ \E s \in Sources, u \in DataUniverses, n \in SeqNumbers, announce \in AnnounceModes :
       check_data_seq_number(s, u, n, announce)
  \/ \E s \in Sources, u \in SyncUniverses, n \in SeqNumbers, announce \in AnnounceModes :
       check_sync_seq_number(s, u, n, announce)
  \/ \E s \in Sources, u \in Universes : remove_seq_numbers(s, u)

Spec == Init /\ [][Next]_vars

-----------------------------------------------------------------------------
(* Invariants. *)

\* Both maps relate tracked sources to universes to stamped numbers, and a
\* call returns one of the results the methods document.
TypeOK ==
  /\ data_sequences \in SequenceMaps
  /\ sync_sequences \in SequenceMaps
  /\ call \in Calls
  /\ ret \in Results

\* A tracked source has a universe: check_timeouts and
\* remove_source_universe_seq take a source away with its last one.  A source
\* left with none would never time out again, hold its slot of the limit for
\* ever and stop the announcing search for timeouts.
NoEmptySource ==
  \A m \in {data_sequences, sync_sequences} : \A s \in DOMAIN m : DOMAIN m[s] # {}

\* check_seq_number admits a source only below the limit, so neither map ever
\* tracks more sources than source_limit.
SourceLimitRespected ==
  SourceLimit # Unlimited =>
    \A m \in {data_sequences, sync_sequences} : Cardinality(DOMAIN m) <= SourceLimit

\* "Removes any universes for which the last_recv time was at least the given
\* timeout amount of time ago" (check_timeouts): a check that reports no
\* timeout leaves no entry that has timed out.  Only while timeouts are not
\* announced: the announcing search ends at the first source without one.
CheckLeavesNothingTimedOut ==
  call = "check_timeouts" /\ ret = Ok =>
    \A m \in {data_sequences, sync_sequences} : \A s \in DOMAIN m : ~ HasTimedOut(m, s)

LiveSources(m) == {s \in DOMAIN m : \E u \in DOMAIN m[s] : ~ TimedOut(m, s, u)}

\* check_seq_number checks the timeouts of every source first, because a dead
\* universe "would continue to take up space": a source is turned away only
\* when as many others as the limit allows have been heard from in time.  Only
\* while timeouts are not announced: a search that announces may leave a dead
\* source in its slot.
RefusalMeansLimitReached ==
  ret = SourcesExceeded =>
    LET m == IF call = "data" THEN data_sequences ELSE sync_sequences
    IN Cardinality(LiveSources(m)) >= SourceLimit

-----------------------------------------------------------------------------
(* Action properties. *)

\* n is the number last, or one of those just before it that the protocol has
\* a receiver discard: stated by counting back, not with signed differences.
JustPassed(n, last) ==
  \E k \in -DiscardUpper .. -DiscardLower - 1 : n = (last - k) % SeqMod

\* What may become of one entry in one step while it has not timed out: it
\* stays, ages with the clock, or is replaced by a fresh entry whose number is
\* not one just passed.
MovesOn(m, mm, s, u) ==
  \/ mm[s][u] = m[s][u]
  \/ mm[s][u] = [m[s][u] EXCEPT !.age = Older(@)]
  \/ /\ mm[s][u].age = 0
     /\ ~ JustPassed(mm[s][u].sequence_number, m[s][u].sequence_number)

AllMoveOn(m, mm) ==
  \A s \in DOMAIN m : \A u \in DOMAIN m[s] :
    ~ TimedOut(m, s, u) /\ Tracked(mm, s, u) => MovesOn(m, mm, s, u)

\* While a stream has not timed out its sequence number never steps back into
\* the discard window, and a packet that is rejected neither changes the
\* number nor keeps the stream alive.
StreamsMoveForward ==
  [][AllMoveOn(data_sequences, data_sequences') /\ AllMoveOn(sync_sequences, sync_sequences')]_vars

Drops(m, mm, s, u) == Tracked(m, s, u) /\ ~ TimedOut(m, s, u) /\ ~ Tracked(mm, s, u)

\* An entry that has not timed out is forgotten only by clear or by the
\* removal of that source and universe: never because another universe of the
\* source timed out, was terminated, or another source was refused.
LiveEntriesPersist ==
  [][\A s \in Sources, u \in Universes :
       Drops(data_sequences, data_sequences', s, u) \/ Drops(sync_sequences, sync_sequences', s, u)
         => clear \/ remove_seq_numbers(s, u)]_vars

Forgotten(m, mm) ==
  {p \in Sources \X Universes : Tracked(m, p[1], p[2]) /\ ~ Tracked(mm, p[1], p[2])}

\* A UniverseTimeout names exactly the one entry that was dropped, and that
\* entry had timed out: no timeout is reported twice, none is reported for a
\* stream that is alive, and the packet being checked changes nothing.
AnnouncedTimeoutIsExact ==
  [][ret'.res = "UniverseTimeout" =>
       \E k \in {<<data_sequences, data_sequences', sync_sequences, sync_sequences'>>,
                 <<sync_sequences, sync_sequences', data_sequences, data_sequences'>>} :
         /\ Forgotten(k[1], k[2]) = {<<ret'.src, ret'.uni>>}
         /\ TimedOut(k[1], ret'.src, ret'.uni)
         /\ \A s \in DOMAIN k[2] : \A u \in DOMAIN k[2][s] :
              Tracked(k[1], s, u) /\ k[2][s][u] = k[1][s][u]
         /\ \A s \in DOMAIN k[3] : \A u \in DOMAIN k[3][s] :
              Tracked(k[4], s, u) \/ TimedOut(k[3], s, u)]_vars

=============================================================================
