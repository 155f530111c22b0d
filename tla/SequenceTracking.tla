-------------------------- MODULE SequenceTracking --------------------------
(***************************************************************************)
(* The pure part of the receiver's sequence numbering (src/receive.rs):    *)
(* what check_timeouts, check_seq_number and remove_source_universe_seq    *)
(* do to one HashMap<Uuid, HashMap<u16, TimedStampedSeqNo>>.  The map is a *)
(* function from the tracked sources to functions from universes to        *)
(* entries, an Instant being its age (Ages).                               *)
(*                                                                         *)
(* A HashMap is iterated in an unspecified order, so an operation whose    *)
(* result depends on that order is the SET of its possible outcomes.       *)
(***************************************************************************)
EXTENDS Ages, FiniteSets, Functions

CONSTANTS
  Sources,        \* the CIDs that may send to this receiver
  Universes,      \* the universes a source may use
  SeqMod,         \* 256 in the code: sequence numbers are u8
  DiscardLower,   \* E131_SEQ_DIFF_DISCARD_LOWER_BOUND, exclusive
  DiscardUpper,   \* E131_SEQ_DIFF_DISCARD_UPPER_BOUND, inclusive
  SourceLimit,    \* Some(n), or Unlimited for None
  Unlimited

(***************************************************************************)
(* with_ip refuses a limit of zero.  The modulus is even because a         *)
(* difference is read as a signed number of the same width; the discard    *)
(* window lies inside that signed range and never holds the difference 1,  *)
(* so that a source seen for the first time is always in sequence.         *)
(***************************************************************************)
ASSUME SeqAssumption ==
  /\ SeqMod \in Nat \ {0} /\ SeqMod % 2 = 0
  /\ DiscardLower \in Int /\ DiscardUpper \in Int
  /\ -SeqMod <= 2 * DiscardLower
  /\ DiscardLower < DiscardUpper /\ DiscardUpper <= 0
ASSUME LimitAssumption ==
  /\ Unlimited \notin Nat
  /\ SourceLimit \in Nat \ {0} \/ SourceLimit = Unlimited
ASSUME SourcesAssumption == IsFiniteSet(Sources)

-----------------------------------------------------------------------------
(* Types. *)

SeqNumbers == 0 .. (SeqMod - 1)

\* TimedStampedSeqNo: the last number accepted and how long ago that was.
TimedStampedSeqNo == [sequence_number : SeqNumbers, age : AgeValues]

PartialFunctions(S, T) == UNION {[D -> T] : D \in SUBSET S}

SequenceMaps ==
  PartialFunctions(Sources, PartialFunctions(Universes, TimedStampedSeqNo))

(***************************************************************************)
(* The values of Result<()> these functions return: Ok and the SacnErrors. *)
(***************************************************************************)
Ok == [res |-> "Ok"]
OutOfSequence == [res |-> "OutOfSequence"]
SourcesExceeded == [res |-> "SourcesExceededError"]
SourceNotFound == [res |-> "SourceNotFound"]
UniverseNotFound == [res |-> "UniverseNotFound"]
UniverseTimeout(s, u) == [res |-> "UniverseTimeout", src |-> s, uni |-> u]

-----------------------------------------------------------------------------
(* The map. *)

Tracked(m, s, u) == s \in DOMAIN m /\ u \in DOMAIN m[s]

\* seq_num.last_recv.elapsed() >= timeout
TimedOut(m, s, u) == Tracked(m, s, u) /\ IsOld(m[s][u].age)

HasTimedOut(m, s) == \E u \in DOMAIN m[s] : TimedOut(m, s, u)

\* HashMap::new()
EmptyMap == [x \in {} |-> x]

\* Mutant of WithoutUniverse: the source goes with its first universe.
WithoutUniverse_source(m, s, u) == Restrict(m, DOMAIN m \ {s})

\* universes.remove(u), then the source if nothing is left of it
WithoutUniverse(m, s, u) ==
  LET left == DOMAIN m[s] \ {u} IN
  IF left = {}
  THEN Restrict(m, DOMAIN m \ {s})
  ELSE [m EXCEPT ![s] = Restrict(m[s], left)]

\* Mutants of WithoutTimedOut: the second retain is missing; a tick too early.
WithoutTimedOut_sources_stay(m) ==
  [s \in DOMAIN m |-> Restrict(m[s], {u \in DOMAIN m[s] : ~ TimedOut(m, s, u)})]
WithoutTimedOut_early(m) ==
  LET live(s) == {u \in DOMAIN m[s] : m[s][u].age < Timeout - 1} IN
  [s \in {t \in DOMAIN m : live(t) # {}} |-> Restrict(m[s], live(s))]

\* both retain calls of the quiet branch of check_timeouts
WithoutTimedOut(m) ==
  LET live(s) == {u \in DOMAIN m[s] : ~ TimedOut(m, s, u)} IN
  [s \in {t \in DOMAIN m : live(t) # {}} |-> Restrict(m[s], live(s))]

\* src_sequences.insert(cid, HashMap::new()) unless cid is known
WithSource(m, s) ==
  [t \in DOMAIN m \cup {s} |-> IF t \in DOMAIN m THEN m[t] ELSE EmptyMap]

\* Mutant of WithEntry: keeps the number expected next, without wrapping it.
WithEntry_next(m, s, u, n) ==
  [m EXCEPT ![s] = [v \in DOMAIN m[s] \cup {u} |->
     IF v = u THEN [sequence_number |-> n + 1, age |-> 0] ELSE m[s][v]]]

\* src.insert(universe, TimedStampedSeqNo::new(sequence_number, now))
WithEntry(m, s, u, n) ==
  [m EXCEPT ![s] = [v \in DOMAIN m[s] \cup {u} |->
     IF v = u THEN [sequence_number |-> n, age |-> 0] ELSE m[s][v]]]

\* A tick of the clock.
Aged(m) ==
  [s \in DOMAIN m |-> [u \in DOMAIN m[s] |-> [m[s][u] EXCEPT !.age = Older(@)]]]

-----------------------------------------------------------------------------
(* Sequence number arithmetic. *)

\* sequence_number.wrapping_sub(expected) as i8
SeqDiff(n, expected) ==
  LET d == (n - expected) % SeqMod IN
  IF 2 * d < SeqMod THEN d ELSE d - SeqMod

\* Mutant of IsOutOfSequence: a duplicate of the last packet passes.
IsOutOfSequence_exclusive(n, expected) ==
  /\ SeqDiff(n, expected) < DiscardUpper
  /\ SeqDiff(n, expected) > DiscardLower

IsOutOfSequence(n, expected) ==
  /\ SeqDiff(n, expected) <= DiscardUpper
  /\ SeqDiff(n, expected) > DiscardLower

-----------------------------------------------------------------------------
(* The operations, each as the set of its outcomes. *)

\* Mutant of CheckTimeouts: the quiet branch forgets to remove what it skips.
CheckTimeouts_kept(m, announce) ==
  {[seqs |-> WithoutUniverse(m, p[1], p[2]), ret |-> UniverseTimeout(p[1], p[2])] :
     p \in {q \in Sources \X Universes : announce /\ TimedOut(m, q[1], q[2])}}
  \cup {o \in {[seqs |-> m, ret |-> Ok]} :
          ~ announce \/ DOMAIN m = {} \/ \E s \in DOMAIN m : ~ HasTimedOut(m, s)}

(***************************************************************************)
(* check_timeouts.  The quiet branch drops every entry that timed out.     *)
(* The announcing branch stops at the first source it visits that has no   *)
(* entry timed out unless an earlier one had; it reports and drops one     *)
(* entry, of the last source it saw with any.                              *)
(***************************************************************************)
CheckTimeouts(m, announce) ==
  IF announce
  THEN {[seqs |-> WithoutUniverse(m, p[1], p[2]),
         ret  |-> UniverseTimeout(p[1], p[2])] :
           p \in {q \in Sources \X Universes : TimedOut(m, q[1], q[2])}}
       \cup {o \in {[seqs |-> m, ret |-> Ok]} :
               DOMAIN m = {} \/ \E s \in DOMAIN m : ~ HasTimedOut(m, s)}
  ELSE {[seqs |-> WithoutTimedOut(m), ret |-> Ok]}

\* Mutant of LimitReached: one source too many.
LimitReached_late(m) == SourceLimit # Unlimited /\ Cardinality(DOMAIN m) > SourceLimit

LimitReached(m) == SourceLimit # Unlimited /\ Cardinality(DOMAIN m) >= SourceLimit

(***************************************************************************)
(* What check_seq_number does once no timeout has been reported: admit the *)
(* source if the limit allows, then accept the number or reject it.        *)
(***************************************************************************)
Admit(m, s, u, n) ==
  LET known == WithSource(m, s)
      expected == IF u \in DOMAIN known[s]
                  THEN known[s][u].sequence_number
                  ELSE (n - 1) % SeqMod
  IN IF s \notin DOMAIN m /\ LimitReached(m)
     THEN [seqs |-> m, ret |-> SourcesExceeded]
     ELSE IF IsOutOfSequence(n, expected)
          THEN [seqs |-> known, ret |-> OutOfSequence]
          ELSE [seqs |-> WithEntry(known, s, u, n), ret |-> Ok]

\* Mutant of CheckSeqNumber: the timeouts are not checked first.
CheckSeqNumber_unchecked(m, s, u, n, announce) == {Admit(m, s, u, n)}

\* check_seq_number: a reported timeout leaves the packet unexamined.
CheckSeqNumber(m, s, u, n, announce) ==
  {IF o.ret = Ok THEN Admit(o.seqs, s, u, n) ELSE o : o \in CheckTimeouts(m, announce)}

\* remove_source_universe_seq
RemoveSourceUniverseSeq(m, s, u) ==
  IF s \notin DOMAIN m
  THEN [seqs |-> m, ret |-> SourceNotFound]
  ELSE IF u \notin DOMAIN m[s]
       THEN [seqs |-> m, ret |-> UniverseNotFound]
       ELSE [seqs |-> WithoutUniverse(m, s, u), ret |-> Ok]

=============================================================================
