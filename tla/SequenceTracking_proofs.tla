----------------------- MODULE SequenceTracking_proofs -----------------------
(***************************************************************************)
(* What the operations on one map of sequence numbers preserve, for every  *)
(* set of sources and universes, every modulus, window, timeout and limit. *)
(***************************************************************************)
EXTENDS SequenceTracking, FiniteSetTheorems, TLAPS

Inner == PartialFunctions(Universes, TimedStampedSeqNo)

WithinLimit(m) == SourceLimit # Unlimited => Cardinality(DOMAIN m) <= SourceLimit

\* The three things that hold of each map between calls.
WellKept(m) ==
  /\ m \in SequenceMaps
  /\ \A s \in DOMAIN m : DOMAIN m[s] # {}
  /\ WithinLimit(m)

-----------------------------------------------------------------------------
(* Partial functions. *)

\* Membership in PartialFunctions, spelt out.
LEMMA PartialIntro ==
  ASSUME NEW S, NEW T, NEW D \in SUBSET S, NEW f \in [D -> T]
  PROVE  f \in PartialFunctions(S, T)
BY DEF PartialFunctions

\* What membership in PartialFunctions gives.
LEMMA PartialElim ==
  ASSUME NEW S, NEW T, NEW f \in PartialFunctions(S, T)
  PROVE  /\ DOMAIN f \subseteq S
         /\ f \in [DOMAIN f -> T]
BY DEF PartialFunctions

\* What one may use of a map of sequence numbers.
LEMMA MapElim ==
  ASSUME NEW m \in SequenceMaps
  PROVE  /\ DOMAIN m \subseteq Sources
         /\ m \in [DOMAIN m -> Inner]
         /\ \A s \in DOMAIN m : /\ DOMAIN m[s] \subseteq Universes
                                /\ m[s] \in [DOMAIN m[s] -> TimedStampedSeqNo]
<1>1. DOMAIN m \subseteq Sources /\ m \in [DOMAIN m -> Inner]
  BY PartialElim DEF SequenceMaps, Inner
<1>2. ASSUME NEW s \in DOMAIN m
      PROVE  DOMAIN m[s] \subseteq Universes /\ m[s] \in [DOMAIN m[s] -> TimedStampedSeqNo]
  <2>1. m[s] \in Inner
    BY <1>1
  <2>. QED BY <2>1, PartialElim DEF Inner
<1>. QED BY <1>1, <1>2

\* How a function is shown to be a map of sequence numbers.
LEMMA MapIntro ==
  ASSUME NEW D \in SUBSET Sources, NEW m \in [D -> Inner]
  PROVE  m \in SequenceMaps
BY PartialIntro DEF SequenceMaps, Inner

\* A map whose sources are among those of a map within the limit is within it.
LEMMA FewerSources ==
  ASSUME NEW m \in SequenceMaps, NEW mm \in SequenceMaps,
         DOMAIN mm \subseteq DOMAIN m, WithinLimit(m)
  PROVE  WithinLimit(mm)
<1>1. IsFiniteSet(DOMAIN m)
  BY MapElim, FS_Subset, SourcesAssumption
<1>2. /\ IsFiniteSet(DOMAIN mm)
      /\ Cardinality(DOMAIN mm) <= Cardinality(DOMAIN m)
  BY <1>1, FS_Subset
<1>3. Cardinality(DOMAIN m) \in Nat /\ Cardinality(DOMAIN mm) \in Nat
  BY <1>1, <1>2, FS_CardinalityType
<1>. QED BY <1>2, <1>3, LimitAssumption DEF WithinLimit

-----------------------------------------------------------------------------
(* The steps the operations are made of. *)

\* HashMap::new() is well kept: the maps after new and clear.
LEMMA EmptyMapWellKept == WellKept(EmptyMap)
<1>1. DOMAIN EmptyMap = {} /\ EmptyMap \in [{} -> Inner]
  BY DEF EmptyMap
<1>2. EmptyMap \in SequenceMaps
  BY <1>1, MapIntro
<1>3. WithinLimit(EmptyMap)
  BY <1>1, FS_EmptySet, LimitAssumption DEF WithinLimit
<1>. QED BY <1>1, <1>2, <1>3 DEF WellKept

\* Restricting the universes of a source leaves a partial function.
LEMMA RestrictInner ==
  ASSUME NEW m \in SequenceMaps, NEW s \in DOMAIN m, NEW D \in SUBSET DOMAIN m[s]
  PROVE  Restrict(m[s], D) \in Inner /\ DOMAIN Restrict(m[s], D) = D
<1>1. Restrict(m[s], D) \in [D -> TimedStampedSeqNo]
  BY MapElim DEF Restrict
<1>2. D \in SUBSET Universes
  BY MapElim
<1>. QED BY <1>1, <1>2, PartialIntro DEF Inner

\* Removing one universe of a source takes the source along with its last one.
LEMMA WithoutUniverseWellKept ==
  ASSUME NEW m, WellKept(m), NEW s \in DOMAIN m, NEW u
  PROVE  WellKept(WithoutUniverse(m, s, u))
<1> DEFINE mm == WithoutUniverse(m, s, u)
           left == DOMAIN m[s] \ {u}
<1>1. m \in SequenceMaps
  BY DEF WellKept
<1>2. DOMAIN m \subseteq Sources /\ m \in [DOMAIN m -> Inner]
  BY <1>1, MapElim
<1>3. CASE left = {}
  <2>1. mm = Restrict(m, DOMAIN m \ {s})
    BY <1>3 DEF WithoutUniverse
  <2>2. mm \in [DOMAIN m \ {s} -> Inner]
    BY <2>1, <1>2 DEF Restrict
  <2>3. mm \in SequenceMaps /\ DOMAIN mm \subseteq DOMAIN m
    BY <2>2, <1>2, MapIntro
  <2>4. \A t \in DOMAIN mm : DOMAIN mm[t] # {}
    BY <2>1 DEF WellKept, Restrict
  <2>. QED BY <2>3, <2>4, <1>1, FewerSources DEF WellKept
<1>4. CASE left # {}
  <2>1. mm = [m EXCEPT ![s] = Restrict(m[s], left)]
    BY <1>4 DEF WithoutUniverse
  <2>2. Restrict(m[s], left) \in Inner /\ DOMAIN Restrict(m[s], left) = left
    BY <1>1, RestrictInner
  <2>3. mm \in [DOMAIN m -> Inner]
    BY <2>1, <2>2, <1>2
  <2>4. mm \in SequenceMaps /\ DOMAIN mm \subseteq DOMAIN m
    BY <2>3, <1>2, MapIntro
  <2>5. \A t \in DOMAIN mm : DOMAIN mm[t] # {}
    BY <2>1, <2>2, <1>2, <1>4 DEF WellKept
  <2>. QED BY <2>4, <2>5, <1>1, FewerSources DEF WellKept
<1>. QED BY <1>3, <1>4

\* The quiet branch of check_timeouts leaves no source without a universe.
LEMMA WithoutTimedOutWellKept ==
  ASSUME NEW m, WellKept(m)
  PROVE  WellKept(WithoutTimedOut(m))
<1> DEFINE mm == WithoutTimedOut(m)
           live(s) == {u \in DOMAIN m[s] : ~ TimedOut(m, s, u)}
           D == {t \in DOMAIN m : live(t) # {}}
<1>1. m \in SequenceMaps
  BY DEF WellKept
<1>2. mm = [s \in D |-> Restrict(m[s], live(s))]
  BY DEF WithoutTimedOut
<1>3. \A s \in D : /\ Restrict(m[s], live(s)) \in Inner
                   /\ DOMAIN Restrict(m[s], live(s)) = live(s)
  BY <1>1, RestrictInner
<1>4. mm \in [D -> Inner] /\ DOMAIN mm = D
  BY <1>2, <1>3
<1>5. mm \in SequenceMaps /\ DOMAIN mm \subseteq DOMAIN m
  BY <1>4, <1>1, MapElim, MapIntro
<1>6. \A s \in DOMAIN mm : DOMAIN mm[s] # {}
  BY <1>2, <1>3, <1>4
<1>. QED BY <1>5, <1>6, <1>1, FewerSources DEF WellKept

\* The clock changes ages only, and within their range.
LEMMA AgedWellKept ==
  ASSUME NEW m, WellKept(m)
  PROVE  WellKept(Aged(m))
<1> DEFINE row(s) == [u \in DOMAIN m[s] |-> [m[s][u] EXCEPT !.age = Older(@)]]
<1>1. m \in SequenceMaps
  BY DEF WellKept
<1>2. Aged(m) = [s \in DOMAIN m |-> row(s)]
  BY DEF Aged
<1>3. ASSUME NEW s \in DOMAIN m
      PROVE  row(s) \in Inner /\ DOMAIN row(s) = DOMAIN m[s]
  <2>1. DOMAIN m[s] \subseteq Universes /\ m[s] \in [DOMAIN m[s] -> TimedStampedSeqNo]
    BY <1>1, MapElim
  <2>2. \A e \in TimedStampedSeqNo : [e EXCEPT !.age = Older(@)] \in TimedStampedSeqNo
    BY TimeoutAssumption DEF TimedStampedSeqNo, Older, IsOld, AgeValues
  <2>3. row(s) \in [DOMAIN m[s] -> TimedStampedSeqNo]
    BY <2>1, <2>2
  <2>. QED BY <2>1, <2>3, PartialIntro DEF Inner
<1>4. Aged(m) \in [DOMAIN m -> Inner] /\ DOMAIN Aged(m) = DOMAIN m
  BY <1>2, <1>3
<1>5. Aged(m) \in SequenceMaps
  BY <1>4, <1>1, MapElim, MapIntro
<1>6. \A s \in DOMAIN Aged(m) : DOMAIN Aged(m)[s] # {}
  BY <1>2, <1>3 DEF WellKept
<1>. QED BY <1>4, <1>5, <1>6, <1>1, FewerSources DEF WellKept

-----------------------------------------------------------------------------
(* Sequence number arithmetic. *)

\* Remainders are the numbers themselves on one period, and shift by a period.
LEMMA ModSmall ==
  ASSUME NEW x \in SeqNumbers
  PROVE  x % SeqMod = x
BY SeqAssumption DEF SeqNumbers

\* A negative number of the period before comes back as that number plus a period.
LEMMA ModBelow ==
  ASSUME NEW x \in Int, x < 0, -SeqMod <= x
  PROVE  x % SeqMod = x + SeqMod
<1>1. x + SeqMod \in SeqNumbers /\ SeqMod \in Nat \ {0}
  BY SeqAssumption DEF SeqNumbers
<1>. QED BY <1>1, SeqAssumption DEF SeqNumbers

\* The number check_seq_number makes up for a universe it does not know, one
\* before the packet's, never puts that packet out of sequence.
LEMMA FirstPacketInSequence ==
  ASSUME NEW n \in SeqNumbers
  PROVE  /\ (n - 1) % SeqMod \in SeqNumbers
         /\ ~ IsOutOfSequence(n, (n - 1) % SeqMod)
<1>1. SeqMod \in Nat /\ SeqMod >= 2
  BY SeqAssumption
<1>2. CASE n = 0
  <2>1. (n - 1) % SeqMod = SeqMod - 1
    BY <1>1, <1>2, ModBelow
  <2>2. (n - (SeqMod - 1)) % SeqMod = 1
    BY <1>1, <1>2, ModBelow
  <2>. QED BY <1>1, <2>1, <2>2, SeqAssumption DEF IsOutOfSequence, SeqDiff, SeqNumbers
<1>3. CASE n # 0
  <2>1. n - 1 \in SeqNumbers /\ 1 \in SeqNumbers
    BY <1>1, <1>3 DEF SeqNumbers
  <2>2. (n - 1) % SeqMod = n - 1 /\ (n - (n - 1)) % SeqMod = 1
    BY <2>1, ModSmall DEF SeqNumbers
  <2>. QED BY <1>1, <2>1, <2>2, SeqAssumption DEF IsOutOfSequence, SeqDiff, SeqNumbers
<1>. QED BY <1>2, <1>3

\* A number k behind on the circle differs by -k, when k is less than half of it.
LEMMA DiffOfStepBack ==
  ASSUME NEW n \in Int, NEW last \in Int, NEW k \in Nat, 2 * k < SeqMod,
         n - last = -k \/ (n - last = SeqMod - k /\ k > 0),
         -k <= DiscardUpper, -k > DiscardLower
  PROVE  IsOutOfSequence(n, last)
<1>1. SeqMod \in Nat /\ SeqMod >= 2 /\ 0 \in SeqNumbers
  BY SeqAssumption DEF SeqNumbers
<1>2. CASE k = 0
  <2>1. (n - last) % SeqMod = 0
    BY <1>1, <1>2, ModSmall
  <2>. QED BY <1>1, <1>2, <2>1 DEF IsOutOfSequence, SeqDiff
<1>3. CASE k > 0
  <2>1. (n - last) % SeqMod = SeqMod - k
    <3>1. CASE n - last = -k
      BY <1>1, <1>3, <3>1, ModBelow
    <3>2. CASE n - last = SeqMod - k
      BY <1>1, <1>3, <3>2, ModSmall DEF SeqNumbers
    <3>. QED BY <3>1, <3>2
  <2>2. SeqDiff(n, last) = -k
    BY <1>1, <1>3, <2>1 DEF SeqDiff
  <2>. QED BY <2>2 DEF IsOutOfSequence
<1>. QED BY <1>2, <1>3

\* A number counted back from the last one by a step inside the window is
\* out of sequence.
LEMMA CountedBackIsOutOfSequence ==
  ASSUME NEW last \in SeqNumbers, NEW k \in -DiscardUpper .. -DiscardLower - 1
  PROVE  IsOutOfSequence((last - k) % SeqMod, last)
<1> DEFINE n == (last - k) % SeqMod
<1>1. /\ SeqMod \in Nat /\ SeqMod >= 2
      /\ k \in Nat /\ 2 * k < SeqMod /\ k < SeqMod
      /\ -k <= DiscardUpper /\ -k > DiscardLower
  BY SeqAssumption
<1>2. CASE last >= k
  <2>1. n = last - k
    BY <1>1, <1>2, ModSmall DEF SeqNumbers
  <2>2. n - last = -k
    BY <1>1, <2>1 DEF SeqNumbers
  <2>. QED BY <1>1, <2>2, DiffOfStepBack DEF SeqNumbers
<1>3. CASE last < k
  <2>1. n = last - k + SeqMod
    BY <1>1, <1>3, ModBelow DEF SeqNumbers
  <2>2. n - last = SeqMod - k
    BY <1>1, <2>1 DEF SeqNumbers
  <2>. QED BY <1>1, <1>3, <2>2, DiffOfStepBack DEF SeqNumbers
<1>. QED BY <1>2, <1>3 DEF SeqNumbers

-----------------------------------------------------------------------------
(* The operations. *)

\* The source and universe of every entry are known ones.
LEMMA TrackedTyped ==
  ASSUME NEW m \in SequenceMaps, NEW s, NEW u, Tracked(m, s, u)
  PROVE  s \in Sources /\ u \in Universes /\ m[s][u] \in TimedStampedSeqNo
BY MapElim DEF Tracked

\* Every outcome of check_timeouts is well kept and tracks no new source.
LEMMA CheckTimeoutsWellKept ==
  ASSUME NEW m, WellKept(m), NEW announce \in BOOLEAN,
         NEW o \in CheckTimeouts(m, announce)
  PROVE  /\ WellKept(o.seqs)
         /\ \/ o.ret = Ok
            \/ \E s \in Sources, u \in Universes : o.ret = UniverseTimeout(s, u)
<1>1. CASE announce = FALSE
  <2>1. o = [seqs |-> WithoutTimedOut(m), ret |-> Ok]
    BY <1>1 DEF CheckTimeouts
  <2>. QED BY <2>1, WithoutTimedOutWellKept
<1>2. CASE announce = TRUE
  <2>1. CASE o \in {[seqs |-> WithoutUniverse(m, p[1], p[2]),
                     ret  |-> UniverseTimeout(p[1], p[2])] :
                      p \in {q \in Sources \X Universes : TimedOut(m, q[1], q[2])}}
    <3>1. PICK p \in Sources \X Universes :
            /\ TimedOut(m, p[1], p[2])
            /\ o = [seqs |-> WithoutUniverse(m, p[1], p[2]),
                    ret  |-> UniverseTimeout(p[1], p[2])]
      BY <2>1
    <3>2. p[1] \in DOMAIN m /\ p[1] \in Sources /\ p[2] \in Universes
      BY <3>1 DEF TimedOut, Tracked
    <3>3. WellKept(WithoutUniverse(m, p[1], p[2]))
      BY <3>2, WithoutUniverseWellKept
    <3>. QED BY <3>1, <3>2, <3>3
  <2>2. CASE o = [seqs |-> m, ret |-> Ok]
    BY <2>2
  <2>. QED BY <1>2, <2>1, <2>2 DEF CheckTimeouts
<1>. QED BY <1>1, <1>2

\* Giving a tracked or new source an entry keeps the map well kept when the
\* source was known already or the limit is not reached.
LEMMA WithEntryWellKept ==
  ASSUME NEW m, WellKept(m), NEW s \in Sources, NEW u \in Universes, NEW n \in SeqNumbers,
         s \in DOMAIN m \/ ~ LimitReached(m)
  PROVE  WellKept(WithEntry(WithSource(m, s), s, u, n))
<1> DEFINE known == WithSource(m, s)
           row == [v \in DOMAIN known[s] \cup {u} |->
                     IF v = u THEN [sequence_number |-> n, age |-> 0] ELSE known[s][v]]
           mm == [known EXCEPT ![s] = row]
<1>1. m \in SequenceMaps /\ DOMAIN m \subseteq Sources /\ m \in [DOMAIN m -> Inner]
  BY MapElim DEF WellKept
<1>2. /\ DOMAIN EmptyMap = {}
      /\ EmptyMap \in [{} -> TimedStampedSeqNo]
      /\ EmptyMap \in Inner
  <2>1. DOMAIN EmptyMap = {} /\ EmptyMap \in [{} -> TimedStampedSeqNo]
    BY DEF EmptyMap
  <2>. QED BY <2>1, PartialIntro DEF Inner
<1>3. /\ known \in [DOMAIN m \cup {s} -> Inner]
      /\ \A t \in DOMAIN m : known[t] = m[t]
  BY <1>1, <1>2 DEF WithSource
<1>4. known[s] \in Inner
  BY <1>3
<1>5. DOMAIN known[s] \subseteq Universes /\ known[s] \in [DOMAIN known[s] -> TimedStampedSeqNo]
  BY <1>4, PartialElim DEF Inner
<1>6. [sequence_number |-> n, age |-> 0] \in TimedStampedSeqNo
  BY TimeoutAssumption DEF TimedStampedSeqNo, AgeValues
<1>7. row \in [DOMAIN known[s] \cup {u} -> TimedStampedSeqNo]
  BY <1>5, <1>6
<1>8. row \in Inner /\ u \in DOMAIN row
  BY <1>5, <1>7, PartialIntro DEF Inner
<1>9. mm = WithEntry(known, s, u, n)
  BY DEF WithEntry
<1>10. mm \in [DOMAIN m \cup {s} -> Inner] /\ DOMAIN mm = DOMAIN m \cup {s}
  BY <1>3, <1>8
<1>11. mm \in SequenceMaps
  BY <1>10, <1>1, MapIntro
<1>12. \A t \in DOMAIN mm : DOMAIN mm[t] # {}
  BY <1>3, <1>8, <1>10 DEF WellKept
<1>13. WithinLimit(mm)
  <2>1. IsFiniteSet(DOMAIN m)
    BY <1>1, FS_Subset, SourcesAssumption
  <2>2. Cardinality(DOMAIN m \cup {s}) =
          IF s \in DOMAIN m THEN Cardinality(DOMAIN m) ELSE Cardinality(DOMAIN m) + 1
    BY <2>1, FS_AddElement
  <2>3. Cardinality(DOMAIN m) \in Nat
    BY <2>1, FS_CardinalityType
  <2>. QED BY <1>10, <2>2, <2>3, LimitAssumption DEF WithinLimit, LimitReached, WellKept
<1>. QED BY <1>9, <1>11, <1>12, <1>13 DEF WellKept

\* A source that is admitted always gets its entry: an out of sequence packet
\* is one of a universe the source is tracked on, and changes nothing.
LEMMA AdmitOutcomes ==
  ASSUME NEW m, WellKept(m), NEW s \in Sources, NEW u \in Universes, NEW n \in SeqNumbers
  PROVE  LET o == Admit(m, s, u, n) IN
         \/ o = [seqs |-> m, ret |-> SourcesExceeded] /\ LimitReached(m) /\ s \notin DOMAIN m
         \/ /\ o = [seqs |-> m, ret |-> OutOfSequence]
            /\ Tracked(m, s, u)
            /\ IsOutOfSequence(n, m[s][u].sequence_number)
         \/ /\ o = [seqs |-> WithEntry(WithSource(m, s), s, u, n), ret |-> Ok]
            /\ s \in DOMAIN m \/ ~ LimitReached(m)
            /\ Tracked(m, s, u) => ~ IsOutOfSequence(n, m[s][u].sequence_number)
<1> DEFINE known == WithSource(m, s)
<1>1. m \in SequenceMaps /\ m \in [DOMAIN m -> Inner]
  BY MapElim DEF WellKept
<1>2. s \in DOMAIN m => known[s] = m[s] /\ known = m
  BY <1>1 DEF WithSource
<1>3. s \notin DOMAIN m => DOMAIN known[s] = {}
  BY DEF WithSource, EmptyMap
<1>4. u \in DOMAIN known[s] <=> Tracked(m, s, u)
  BY <1>2, <1>3 DEF Tracked
<1>5. ~ IsOutOfSequence(n, (n - 1) % SeqMod)
  BY FirstPacketInSequence
<1>6. CASE s \notin DOMAIN m /\ LimitReached(m)
  BY <1>6 DEF Admit
<1>7. CASE ~ (s \notin DOMAIN m /\ LimitReached(m)) /\ Tracked(m, s, u)
  <2>1. s \in DOMAIN m
    BY <1>7 DEF Tracked
  <2>. QED BY <1>7, <2>1, <1>2, <1>4 DEF Admit
<1>8. CASE ~ (s \notin DOMAIN m /\ LimitReached(m)) /\ ~ Tracked(m, s, u)
  <2>1. Admit(m, s, u, n) = [seqs |-> WithEntry(known, s, u, n), ret |-> Ok]
    BY <1>8, <1>4, <1>5 DEF Admit
  <2>. QED BY <1>8, <2>1
<1>. QED BY <1>6, <1>7, <1>8

\* Every outcome of check_seq_number is well kept and one of the documented results.
LEMMA CheckSeqNumberWellKept ==
  ASSUME NEW m, WellKept(m), NEW s \in Sources, NEW u \in Universes, NEW n \in SeqNumbers,
         NEW announce \in BOOLEAN,
         NEW o \in CheckSeqNumber(m, s, u, n, announce)
  PROVE  /\ WellKept(o.seqs)
         /\ \/ o.ret \in {Ok, OutOfSequence, SourcesExceeded}
            \/ \E t \in Sources, v \in Universes : o.ret = UniverseTimeout(t, v)
<1>1. PICK c \in CheckTimeouts(m, announce) :
        o = IF c.ret = Ok THEN Admit(c.seqs, s, u, n) ELSE c
  BY DEF CheckSeqNumber
<1>2. /\ WellKept(c.seqs)
      /\ \/ c.ret = Ok
         \/ \E t \in Sources, v \in Universes : c.ret = UniverseTimeout(t, v)
  BY CheckTimeoutsWellKept
<1>3. CASE c.ret = Ok
  <2>1. o = Admit(c.seqs, s, u, n)
    BY <1>1, <1>3
  <2>. QED BY <2>1, <1>2, AdmitOutcomes, WithEntryWellKept
<1>4. CASE c.ret # Ok
  BY <1>1, <1>2, <1>4
<1>. QED BY <1>3, <1>4

\* Every outcome of remove_source_universe_seq is well kept.
LEMMA RemovalWellKept ==
  ASSUME NEW m, WellKept(m), NEW s, NEW u
  PROVE  /\ WellKept(RemoveSourceUniverseSeq(m, s, u).seqs)
         /\ RemoveSourceUniverseSeq(m, s, u).ret \in {Ok, SourceNotFound, UniverseNotFound}
BY WithoutUniverseWellKept DEF RemoveSourceUniverseSeq

-----------------------------------------------------------------------------
(* What the operations do to single entries. *)

\* mm is m without some entries, all of which had timed out.
OnlyTimedOutLost(m, mm) ==
  /\ \A t, v : Tracked(mm, t, v) => Tracked(m, t, v) /\ mm[t][v] = m[t][v]
  /\ \A t, v : Tracked(m, t, v) /\ ~ TimedOut(m, t, v) => Tracked(mm, t, v)

\* Removing a universe from a source touches no other entry.
LEMMA WithoutUniverseEntries ==
  ASSUME NEW m \in SequenceMaps, NEW s \in DOMAIN m, NEW u
  PROVE  \A t, v : /\ Tracked(WithoutUniverse(m, s, u), t, v)
                        <=> Tracked(m, t, v) /\ ~ (t = s /\ v = u)
                   /\ Tracked(WithoutUniverse(m, s, u), t, v)
                        => WithoutUniverse(m, s, u)[t][v] = m[t][v]
<1> DEFINE left == DOMAIN m[s] \ {u}
           mm == WithoutUniverse(m, s, u)
<1> SUFFICES ASSUME NEW t, NEW v
             PROVE  /\ Tracked(mm, t, v) <=> Tracked(m, t, v) /\ ~ (t = s /\ v = u)
                    /\ Tracked(mm, t, v) => mm[t][v] = m[t][v]
  OBVIOUS
<1>1. m \in [DOMAIN m -> Inner]
  BY MapElim
<1>2. CASE left = {}
  <2>1. mm = [x \in DOMAIN m \ {s} |-> m[x]]
    BY <1>2 DEF WithoutUniverse, Restrict
  <2>. QED BY <1>2, <2>1 DEF Tracked
<1>3. CASE left # {}
  <2>1. mm = [m EXCEPT ![s] = [x \in left |-> m[s][x]]]
    BY <1>3 DEF WithoutUniverse, Restrict
  <2>2. DOMAIN mm = DOMAIN m /\ mm[s] = [x \in left |-> m[s][x]]
    BY <2>1, <1>1
  <2>3. \A x \in DOMAIN m : x # s => mm[x] = m[x]
    BY <2>1, <1>1
  <2>. QED BY <2>2, <2>3 DEF Tracked
<1>. QED BY <1>2, <1>3

\* The quiet branch of check_timeouts loses only entries that timed out.
LEMMA WithoutTimedOutEntries ==
  ASSUME NEW m \in SequenceMaps
  PROVE  OnlyTimedOutLost(m, WithoutTimedOut(m))
<1> DEFINE live(s) == {u \in DOMAIN m[s] : ~ TimedOut(m, s, u)}
           mm == WithoutTimedOut(m)
<1>1. mm = [s \in {t \in DOMAIN m : live(t) # {}} |-> [x \in live(s) |-> m[s][x]]]
  BY DEF WithoutTimedOut, Restrict
<1>2. \A t, v : Tracked(mm, t, v) <=> t \in DOMAIN m /\ v \in live(t)
  BY <1>1 DEF Tracked
<1>3. \A t, v : Tracked(mm, t, v) => mm[t][v] = m[t][v]
  BY <1>1 DEF Tracked
<1>. QED BY <1>2, <1>3 DEF OnlyTimedOutLost, Tracked

\* check_timeouts, in either mode, loses only entries that timed out.
LEMMA CheckTimeoutsEntries ==
  ASSUME NEW m \in SequenceMaps, NEW announce \in BOOLEAN,
         NEW o \in CheckTimeouts(m, announce)
  PROVE  OnlyTimedOutLost(m, o.seqs)
<1>1. CASE announce = FALSE
  BY <1>1, WithoutTimedOutEntries DEF CheckTimeouts
<1>2. CASE announce = TRUE /\ o.seqs = m
  BY <1>2 DEF OnlyTimedOutLost
<1>3. CASE announce = TRUE /\ o.seqs # m
  <2>1. PICK p \in Sources \X Universes :
          TimedOut(m, p[1], p[2]) /\ o.seqs = WithoutUniverse(m, p[1], p[2])
    BY <1>3 DEF CheckTimeouts
  <2>2. p[1] \in DOMAIN m
    BY <2>1 DEF TimedOut, Tracked
  <2>. QED BY <2>1, <2>2, WithoutUniverseEntries DEF OnlyTimedOutLost
<1>. QED BY <1>1, <1>2, <1>3

\* The clock keeps every entry and moves its age by one tick.
LEMMA AgedEntries ==
  ASSUME NEW m \in SequenceMaps
  PROVE  \A t, v : /\ Tracked(Aged(m), t, v) <=> Tracked(m, t, v)
                   /\ Tracked(m, t, v) => Aged(m)[t][v] = [m[t][v] EXCEPT !.age = Older(@)]
BY DEF Aged, Tracked

\* Accepting a packet writes the entry of its source and universe only.
LEMMA WithEntryEntries ==
  ASSUME NEW m \in SequenceMaps, NEW s, NEW u, NEW n
  PROVE  LET mm == WithEntry(WithSource(m, s), s, u, n) IN
         \A t, v : /\ Tracked(mm, t, v) <=> Tracked(m, t, v) \/ (t = s /\ v = u)
                   /\ ~ (t = s /\ v = u) /\ Tracked(m, t, v) => mm[t][v] = m[t][v]
                   /\ mm[s][u] = [sequence_number |-> n, age |-> 0]
<1> DEFINE known == WithSource(m, s)
           row == [v \in DOMAIN known[s] \cup {u} |->
                     IF v = u THEN [sequence_number |-> n, age |-> 0] ELSE known[s][v]]
           mm == [known EXCEPT ![s] = row]
<1>1. /\ DOMAIN known = DOMAIN m \cup {s}
      /\ \A t \in DOMAIN m : known[t] = m[t]
      /\ s \notin DOMAIN m => DOMAIN known[s] = {}
  BY DEF WithSource, EmptyMap
<1>2. /\ DOMAIN mm = DOMAIN m \cup {s}
      /\ mm[s] = row
      /\ \A t \in DOMAIN m : t # s => mm[t] = m[t]
  BY <1>1
<1>3. mm = WithEntry(known, s, u, n)
  BY DEF WithEntry
<1>. QED BY <1>1, <1>2, <1>3 DEF Tracked

\* The quiet branch of check_timeouts leaves no entry that has timed out.
LEMMA QuietLeavesOnlyLive ==
  ASSUME NEW m \in SequenceMaps
  PROVE  \A s \in DOMAIN WithoutTimedOut(m) :
           \A u \in DOMAIN WithoutTimedOut(m)[s] : ~ TimedOut(WithoutTimedOut(m), s, u)
<1> DEFINE live(s) == {u \in DOMAIN m[s] : ~ TimedOut(m, s, u)}
<1>1. WithoutTimedOut(m) =
        [s \in {t \in DOMAIN m : live(t) # {}} |-> [u \in live(s) |-> m[s][u]]]
  BY DEF WithoutTimedOut, Restrict
<1>. QED BY <1>1 DEF TimedOut, Tracked

\* It has one outcome, which reports nothing.
LEMMA QuietCheck ==
  ASSUME NEW m, NEW announce \in {FALSE}, NEW o \in CheckTimeouts(m, announce)
  PROVE  o.seqs = WithoutTimedOut(m) /\ o.ret = Ok
BY DEF CheckTimeouts


\* An announcing check drops only the entry its result names.
LEMMA CheckTimeoutsLosses ==
  ASSUME NEW m \in SequenceMaps, NEW announce \in {TRUE},
         NEW o \in CheckTimeouts(m, announce)
  PROVE  \A t, v : Tracked(m, t, v) /\ ~ Tracked(o.seqs, t, v) => o.ret = UniverseTimeout(t, v)
<1>1. CASE o.seqs = m
  BY <1>1
<1>2. CASE o.seqs # m
  <2>1. PICK p \in Sources \X Universes :
          /\ TimedOut(m, p[1], p[2])
          /\ o = [seqs |-> WithoutUniverse(m, p[1], p[2]), ret |-> UniverseTimeout(p[1], p[2])]
    BY <1>2 DEF CheckTimeouts
  <2>2. p[1] \in DOMAIN m
    BY <2>1 DEF TimedOut, Tracked
  <2>. QED BY <2>1, <2>2, WithoutUniverseEntries
<1>. QED BY <1>1, <1>2

\* check_seq_number stamps the entry of a packet it accepts, and changes no
\* entry otherwise.
LEMMA CheckSeqNumberEntries ==
  ASSUME NEW m, WellKept(m), NEW s \in Sources, NEW u \in Universes, NEW n \in SeqNumbers,
         NEW announce \in BOOLEAN, NEW o \in CheckSeqNumber(m, s, u, n, announce)
  PROVE  /\ o.ret # Ok => OnlyTimedOutLost(m, o.seqs)
         /\ o.ret = Ok => /\ Tracked(o.seqs, s, u)
                          /\ o.seqs[s][u] = [sequence_number |-> n, age |-> 0]
         /\ \A t, v : Tracked(o.seqs, t, v) /\ (o.ret # Ok \/ t # s \/ v # u) =>
              Tracked(m, t, v) /\ o.seqs[t][v] = m[t][v]
<1>1. PICK c \in CheckTimeouts(m, announce) :
        o = IF c.ret = Ok THEN Admit(c.seqs, s, u, n) ELSE c
  BY DEF CheckSeqNumber
<1>2. WellKept(c.seqs) /\ c.seqs \in SequenceMaps /\ m \in SequenceMaps
  BY CheckTimeoutsWellKept DEF WellKept
<1>3. OnlyTimedOutLost(m, c.seqs)
  BY <1>2, CheckTimeoutsEntries
<1>4. CASE c.ret # Ok
  BY <1>1, <1>3, <1>4 DEF OnlyTimedOutLost
<1>5. CASE c.ret = Ok
  <2> DEFINE mm == WithEntry(WithSource(c.seqs, s), s, u, n)
  <2>1. \/ o.seqs = c.seqs /\ o.ret # Ok
        \/ o.seqs = mm /\ o.ret = Ok
    BY <1>1, <1>2, <1>5, AdmitOutcomes DEF Ok, SourcesExceeded, OutOfSequence
  <2>2. CASE o.seqs = c.seqs /\ o.ret # Ok
    BY <1>3, <2>2 DEF OnlyTimedOutLost
  <2>3. CASE o.seqs = mm /\ o.ret = Ok
    <3>1. \A t, v : /\ Tracked(mm, t, v) <=> Tracked(c.seqs, t, v) \/ (t = s /\ v = u)
                    /\ ~ (t = s /\ v = u) /\ Tracked(c.seqs, t, v) => mm[t][v] = c.seqs[t][v]
                    /\ mm[s][u] = [sequence_number |-> n, age |-> 0]
      BY <1>2, WithEntryEntries
    <3>. QED BY <1>3, <2>3, <3>1 DEF OnlyTimedOutLost
  <2>. QED BY <2>1, <2>2, <2>3
<1>. QED BY <1>4, <1>5

\* An announcing check_seq_number drops only the entry its result names.
LEMMA CheckSeqNumberLosses ==
  ASSUME NEW m, WellKept(m), NEW s \in Sources, NEW u \in Universes, NEW n \in SeqNumbers,
         NEW announce \in {TRUE}, NEW o \in CheckSeqNumber(m, s, u, n, announce)
  PROVE  \A t, v : Tracked(m, t, v) /\ ~ Tracked(o.seqs, t, v) => o.ret = UniverseTimeout(t, v)
<1> SUFFICES ASSUME NEW t, NEW v, Tracked(m, t, v), ~ Tracked(o.seqs, t, v)
             PROVE  o.ret = UniverseTimeout(t, v)
  OBVIOUS
<1>1. PICK c \in CheckTimeouts(m, announce) :
        o = IF c.ret = Ok THEN Admit(c.seqs, s, u, n) ELSE c
  BY DEF CheckSeqNumber
<1>2. WellKept(c.seqs) /\ c.seqs \in SequenceMaps /\ m \in SequenceMaps
  BY CheckTimeoutsWellKept DEF WellKept
<1>3. ~ Tracked(c.seqs, t, v) => c.ret = UniverseTimeout(t, v)
  <2>1. \A x, y : Tracked(m, x, y) /\ ~ Tracked(c.seqs, x, y) => c.ret = UniverseTimeout(x, y)
    BY <1>1, <1>2, CheckTimeoutsLosses
  <2>. QED BY <2>1
<1>4. Ok # UniverseTimeout(t, v)
  BY DEF Ok, UniverseTimeout
<1>5. CASE c.ret # Ok
  BY <1>1, <1>3, <1>5
<1>6. CASE c.ret = Ok
  <2>1. o = Admit(c.seqs, s, u, n) /\ Tracked(c.seqs, t, v)
    BY <1>1, <1>3, <1>4, <1>6
  <2>2. o.seqs \in {c.seqs, WithEntry(WithSource(c.seqs, s), s, u, n)}
    BY <1>2, <2>1, AdmitOutcomes
  <2>3. Tracked(WithEntry(WithSource(c.seqs, s), s, u, n), t, v)
    BY <1>2, <2>1, WithEntryEntries
  <2>. QED BY <2>1, <2>2, <2>3
<1>. QED BY <1>5, <1>6

\* It loses no entry that has not timed out, and the outcome of a packet
\* depends on the number accepted last, if that is not too long ago.
LEMMA CheckSeqNumberJudges ==
  ASSUME NEW m, WellKept(m), NEW s \in Sources, NEW u \in Universes, NEW n \in SeqNumbers,
         NEW announce \in BOOLEAN, NEW o \in CheckSeqNumber(m, s, u, n, announce)
  PROVE  /\ \A t, v : Tracked(m, t, v) /\ ~ TimedOut(m, t, v) => Tracked(o.seqs, t, v)
         /\ o.ret = Ok /\ Tracked(m, s, u) /\ ~ TimedOut(m, s, u) =>
              ~ IsOutOfSequence(n, m[s][u].sequence_number)
         /\ o.ret = OutOfSequence =>
              Tracked(m, s, u) /\ IsOutOfSequence(n, m[s][u].sequence_number)
<1>1. PICK c \in CheckTimeouts(m, announce) :
        o = IF c.ret = Ok THEN Admit(c.seqs, s, u, n) ELSE c
  BY DEF CheckSeqNumber
<1>2. WellKept(c.seqs) /\ c.seqs \in SequenceMaps
  BY CheckTimeoutsWellKept DEF WellKept
<1>3. OnlyTimedOutLost(m, c.seqs)
  BY CheckTimeoutsEntries DEF WellKept
<1>4. CASE c.ret # Ok
  <2>1. c.ret # OutOfSequence
    <3>1. \A t, v : UniverseTimeout(t, v) # OutOfSequence
      BY DEF UniverseTimeout, OutOfSequence
    <3>. QED BY <1>4, <3>1, CheckTimeoutsWellKept
  <2>. QED BY <1>1, <1>3, <1>4, <2>1 DEF OnlyTimedOutLost
<1>5. CASE c.ret = Ok
  <2>1. o = Admit(c.seqs, s, u, n)
    BY <1>1, <1>5
  <2>2. CASE o.seqs = c.seqs /\ o.ret = SourcesExceeded
    BY <1>3, <2>2 DEF OnlyTimedOutLost, SourcesExceeded, Ok, OutOfSequence
  <2>3. CASE /\ o.seqs = c.seqs /\ o.ret = OutOfSequence
             /\ Tracked(c.seqs, s, u) /\ IsOutOfSequence(n, c.seqs[s][u].sequence_number)
    BY <1>3, <2>3 DEF OnlyTimedOutLost, Ok, OutOfSequence
  <2>4. CASE /\ o.seqs = WithEntry(WithSource(c.seqs, s), s, u, n) /\ o.ret = Ok
             /\ Tracked(c.seqs, s, u) => ~ IsOutOfSequence(n, c.seqs[s][u].sequence_number)
    <3> DEFINE mm == WithEntry(WithSource(c.seqs, s), s, u, n)
    <3>1. \A t, v : /\ Tracked(mm, t, v) <=> Tracked(c.seqs, t, v) \/ (t = s /\ v = u)
                    /\ ~ (t = s /\ v = u) /\ Tracked(c.seqs, t, v) => mm[t][v] = c.seqs[t][v]
                    /\ mm[s][u] = [sequence_number |-> n, age |-> 0]
      BY <1>2, WithEntryEntries
    <3>. QED BY <1>3, <2>4, <3>1 DEF OnlyTimedOutLost, Ok, OutOfSequence
  <2>. QED BY <1>2, <2>1, <2>2, <2>3, <2>4, AdmitOutcomes
<1>. QED BY <1>4, <1>5

=============================================================================
