---------------------------- MODULE Stream_proofs ----------------------------
(***************************************************************************)
(* Theorems about Stream for every number of sources, universes and        *)
(* numbers, every discard window, whatever the network loses, repeats and  *)
(* lets overtake, and whatever the other streams do.                       *)
(***************************************************************************)
EXTENDS Stream, SequenceTracking_proofs

\* The theorems about SequenceNumbering, on the receiver's variables.
Numbering == INSTANCE SequenceNumbering_proofs

-----------------------------------------------------------------------------
(* Remainders. *)

\* Quotient and remainder, also of a negative number.
LEMMA Division ==
  ASSUME NEW a \in Int, NEW n \in Nat \ {0}
  PROVE  /\ a = n * (a \div n) + (a % n)
         /\ a % n \in 0 .. n - 1 /\ a \div n \in Int
OBVIOUS

\* They are determined by that.
LEMMA DivisionIsUnique ==
  ASSUME NEW n \in Nat \ {0}, NEW q \in Int, NEW r \in 0 .. n - 1
  PROVE  (n * q + r) % n = r
OBVIOUS

\* A difference may be taken before or after the numbers wrap.
LEMMA DifferenceOfRemainders ==
  ASSUME NEW a \in Int, NEW b \in Int, NEW n \in Nat \ {0}
  PROVE  ((a % n) - (b % n)) % n = (a - b) % n
<1> DEFINE p == a \div n
           q == b \div n
           r == a % n
           s == b % n
           d == (r - s) \div n
           e == (r - s) % n
<1>1. a = n * p + r /\ r \in 0 .. n - 1 /\ p \in Int
  BY Division
<1>2. b = n * q + s /\ s \in 0 .. n - 1 /\ q \in Int
  BY Division
<1> HIDE DEF p, q, r, s
<1>3. r - s = n * d + e /\ e \in 0 .. n - 1 /\ d \in Int
  BY <1>1, <1>2, Division
<1> HIDE DEF d, e
<1>4. a - b = n * (p - q + d) + e
  <2>1. n * (p - q + d) = n * p - n * q + n * d
    BY <1>1, <1>2, <1>3
  <2>2. n * p \in Int /\ n * q \in Int /\ n * d \in Int
    BY <1>1, <1>2, <1>3
  <2>. QED BY <1>1, <1>2, <1>3, <2>1, <2>2
<1>5. p - q + d \in Int
  BY <1>1, <1>2, <1>3
<1>6. (a - b) % n = e
  BY <1>3, <1>4, <1>5, DivisionIsUnique
<1>. QED BY <1>6 DEF e, r, s

\* Datagrams k apart have numbers k apart.
LEMMA NumbersApart ==
  ASSUME NEW i \in Int, NEW j \in Int
  PROVE  /\ Number(i) \in SeqNumbers
         /\ (Number(i) - Number(j)) % SeqMod = (i - j) % SeqMod
<1>1. SeqMod \in Nat \ {0}
  BY SeqAssumption
<1>2. Number(i) \in SeqNumbers
  BY <1>1, Division DEF Number, SeqNumbers
<1>3. (Number(i) - Number(j)) % SeqMod = ((i - 1) - (j - 1)) % SeqMod
  <2> DEFINE a == i - 1
             b == j - 1
  <2>1. a \in Int /\ b \in Int
    OBVIOUS
  <2> HIDE DEF a, b
  <2>2. ((a % SeqMod) - (b % SeqMod)) % SeqMod = (a - b) % SeqMod
    BY <1>1, <2>1, DifferenceOfRemainders
  <2>. QED BY <2>2 DEF Number, a, b
<1>4. (i - 1) - (j - 1) = i - j
  OBVIOUS
<1>. QED BY <1>2, <1>3, <1>4

\* What was sent no later than the datagram shown last, and by less than the
\* network lets overtake, is out of sequence.
LEMMA NotAfterIsOutOfSequence ==
  ASSUME NEW i \in Nat, NEW j \in Nat, i <= j, i > j - Overtake
  PROVE  IsOutOfSequence(Number(i), Number(j))
<1>1. SeqMod \in Nat \ {0} /\ DiscardLower \in Int /\ Overtake \in Nat
      /\ Overtake <= -DiscardLower /\ DiscardUpper = 0
  BY SeqAssumption, StreamAssumption
<1>2. j - i \in -DiscardUpper .. -DiscardLower - 1
  BY <1>1
<1>3. SeqDiff(Number(i), Number(j)) = SeqDiff((Number(j) - (j - i)) % SeqMod, Number(j))
  <2> DEFINE a == Number(j) - (j - i)
  <2>1. Number(j) \in Int
    BY NumbersApart DEF SeqNumbers
  <2>2. ((a % SeqMod) - (Number(j) % SeqMod)) % SeqMod = (a - Number(j)) % SeqMod
    <3>1. a \in Int
      BY <2>1
    <3> HIDE DEF a
    <3>. QED BY <1>1, <2>1, <3>1, DifferenceOfRemainders
  <2>3. Number(j) % SeqMod = Number(j)
    BY NumbersApart, ModSmall
  <2>4. a - Number(j) = i - j
    BY <2>1
  <2>5. (Number(i) - Number(j)) % SeqMod = (i - j) % SeqMod
    BY NumbersApart
  <2>6. ((a % SeqMod) - Number(j)) % SeqMod = (Number(i) - Number(j)) % SeqMod
    BY <2>2, <2>3, <2>4, <2>5
  <2>. QED BY <2>6 DEF SeqDiff
<1>4. IsOutOfSequence((Number(j) - (j - i)) % SeqMod, Number(j))
  BY <1>2, NumbersApart, CountedBackIsOutOfSequence
<1>. QED BY <1>3, <1>4 DEF IsOutOfSequence

\* A later datagram is out of sequence only if the numbers have almost
\* come round.
LEMMA AfterIsInSequence ==
  ASSUME NEW i \in Nat, NEW j \in Nat, i > j, IsOutOfSequence(Number(i), Number(j))
  PROVE  i - j > SeqMod + DiscardLower
<1>1. SeqMod \in Nat \ {0} /\ DiscardLower \in Int /\ DiscardUpper = 0 /\ DiscardLower < 0
  BY SeqAssumption, StreamAssumption
<1>2. SUFFICES ASSUME i - j <= SeqMod + DiscardLower
               PROVE  FALSE
  BY <1>1
<1>3. (Number(i) - Number(j)) % SeqMod = i - j
  <2>1. i - j \in SeqNumbers
    BY <1>1, <1>2 DEF SeqNumbers
  <2>. QED BY <2>1, ModSmall, NumbersApart
<1>4. SeqDiff(Number(i), Number(j)) = IF 2 * (i - j) < SeqMod THEN i - j ELSE i - j - SeqMod
  BY <1>3 DEF SeqDiff
<1>. QED BY <1>1, <1>2, <1>4 DEF IsOutOfSequence

-----------------------------------------------------------------------------
(* The receiver's SequenceNumbering.  Tracker is an instance, with a copy  *)
(* of each operator of SequenceTracking.                                   *)

\* The copies Tracker has of the operators are those of the receiver.
LEMMA TrackerOperators ==
  /\ \A m, a : Tracker!CheckTimeouts(m, a) = CheckTimeouts(m, a)
  /\ \A m, s, u, n, a : Tracker!CheckSeqNumber(m, s, u, n, a) = CheckSeqNumber(m, s, u, n, a)
  /\ \A m, s, u : Tracker!RemoveSourceUniverseSeq(m, s, u) = RemoveSourceUniverseSeq(m, s, u)
  /\ \A m : Tracker!Aged(m) = Aged(m)
  /\ Tracker!EmptyMap = EmptyMap /\ Tracker!Ok = Ok
  /\ Tracker!SequenceMaps = SequenceMaps
<1>1. \A m, a : Tracker!CheckTimeouts(m, a) = CheckTimeouts(m, a)
  BY DEF Tracker!CheckTimeouts, CheckTimeouts, Tracker!WithoutUniverse, WithoutUniverse,
         Tracker!WithoutTimedOut, WithoutTimedOut, Tracker!HasTimedOut, HasTimedOut,
         Tracker!TimedOut, TimedOut, Tracker!Tracked, Tracked, Tracker!IsOld, IsOld,
         Tracker!Restrict, Restrict, Tracker!Ok, Ok, Tracker!UniverseTimeout, UniverseTimeout
<1>2. \A m, s, u, n : Tracker!Admit(m, s, u, n) = Admit(m, s, u, n)
  <2>1. \A S : Tracker!Cardinality(S) = Cardinality(S)
    BY DEF Tracker!Cardinality, Cardinality
  <2>2. \A m : Tracker!LimitReached(m) = LimitReached(m)
    BY <2>1 DEF Tracker!LimitReached, LimitReached
  <2>3. \A m, s : Tracker!WithSource(m, s) = WithSource(m, s)
    BY DEF Tracker!WithSource, WithSource, Tracker!EmptyMap, EmptyMap
  <2>4. \A m, s, u, n : Tracker!WithEntry(m, s, u, n) = WithEntry(m, s, u, n)
    BY DEF Tracker!WithEntry, WithEntry
  <2>5. \A n, e : Tracker!IsOutOfSequence(n, e) = IsOutOfSequence(n, e)
    BY DEF Tracker!IsOutOfSequence, IsOutOfSequence, Tracker!SeqDiff, SeqDiff
  <2>. QED BY <2>2, <2>3, <2>4, <2>5
           DEF Tracker!Admit, Admit, Tracker!Ok, Ok, Tracker!OutOfSequence, OutOfSequence,
               Tracker!SourcesExceeded, SourcesExceeded
<1>3. \A m, s, u, n, a : Tracker!CheckSeqNumber(m, s, u, n, a) = CheckSeqNumber(m, s, u, n, a)
  BY <1>1, <1>2 DEF Tracker!CheckSeqNumber, CheckSeqNumber, Tracker!Ok, Ok
<1>4. \A m, s, u : Tracker!RemoveSourceUniverseSeq(m, s, u) = RemoveSourceUniverseSeq(m, s, u)
  BY DEF Tracker!RemoveSourceUniverseSeq, RemoveSourceUniverseSeq, Tracker!WithoutUniverse,
         WithoutUniverse, Tracker!Restrict, Restrict, Tracker!Ok, Ok, Tracker!SourceNotFound,
         SourceNotFound, Tracker!UniverseNotFound, UniverseNotFound
<1>5. \A m : Tracker!Aged(m) = Aged(m)
  BY DEF Tracker!Aged, Aged, Tracker!Older, Older, Tracker!IsOld, IsOld
<1>6. Tracker!EmptyMap = EmptyMap /\ Tracker!Ok = Ok
  BY DEF Tracker!EmptyMap, EmptyMap, Tracker!Ok, Ok
<1>7. Tracker!SequenceMaps = SequenceMaps
  <2>1. \A S, T : Tracker!PartialFunctions(S, T) = PartialFunctions(S, T)
    BY DEF Tracker!PartialFunctions, PartialFunctions
  <2>2. Tracker!TimedStampedSeqNo = TimedStampedSeqNo
    BY DEF Tracker!TimedStampedSeqNo, TimedStampedSeqNo, Tracker!SeqNumbers, SeqNumbers,
           Tracker!AgeValues, AgeValues
  <2>. QED BY <2>1, <2>2 DEF Tracker!SequenceMaps, SequenceMaps
<1>. QED BY <1>1, <1>3, <1>4, <1>5, <1>6, <1>7

\* What each of its methods makes of the data sequences.
LEMMA TrackerMethods ==
  /\ \A a : Tracker!check_timeouts(a) =>
       \E o \in CheckTimeouts(data_sequences, a) : data_sequences' = o.seqs
  /\ \A s, u, n, a : Tracker!check_data_seq_number(s, u, n, a) =>
       \E o \in CheckSeqNumber(data_sequences, s, u, n, a) :
         data_sequences' = o.seqs /\ ret' = o.ret
  /\ \A s, u : Tracker!remove_seq_numbers(s, u) =>
       /\ data_sequences' = RemoveSourceUniverseSeq(data_sequences, s, u).seqs
       /\ ret' # OutOfSequence
  /\ Tracker!clear => data_sequences' = EmptyMap
  /\ Tracker!Tick => data_sequences' = Aged(data_sequences)
<1>1. \A a : Tracker!check_timeouts(a) =>
        \E o \in CheckTimeouts(data_sequences, a) : data_sequences' = o.seqs
  BY TrackerOperators DEF Tracker!check_timeouts
<1>2. \A s, u, n, a : Tracker!check_data_seq_number(s, u, n, a) =>
        \E o \in CheckSeqNumber(data_sequences, s, u, n, a) :
          data_sequences' = o.seqs /\ ret' = o.ret
  BY TrackerOperators DEF Tracker!check_data_seq_number
<1>3. ASSUME NEW s, NEW u, Tracker!remove_seq_numbers(s, u)
      PROVE  /\ data_sequences' = RemoveSourceUniverseSeq(data_sequences, s, u).seqs
             /\ ret' # OutOfSequence
  <2>1. \A m : RemoveSourceUniverseSeq(m, s, u).ret # OutOfSequence
    BY DEF RemoveSourceUniverseSeq, Ok, SourceNotFound, UniverseNotFound, OutOfSequence
  <2>. QED BY <1>3, <2>1, TrackerOperators DEF Tracker!remove_seq_numbers
<1>4. Tracker!clear => data_sequences' = EmptyMap
  BY TrackerOperators DEF Tracker!clear
<1>5. Tracker!Tick => data_sequences' = Aged(data_sequences)
  BY TrackerOperators DEF Tracker!Tick
<1>. QED BY <1>1, <1>2, <1>3, <1>4, <1>5

-----------------------------------------------------------------------------
(* The network. *)

\* What is in flight was sent, and was not overtaken too far.
NetInv ==
  /\ sent \in Nat /\ arrived \in 0 .. sent
  /\ \A d \in net : d.id \in 1 .. sent /\ d.id > arrived - Overtake

\* Every way a step changes what is sent, in flight and arrived.
LEMMA NetMoves ==
  ASSUME [Next]_vars
  PROVE  \/ UNCHANGED <<sent, arrived>> /\ net' \subseteq net
         \/ \E kind \in {"data", "end"}, count \in {1, Terminations} : Put(kind, count)
         \/ \E d \in net : Arrive(d)
BY DEF Next, vars, tracker, send, terminate_stream, Put, Lose, Receive, handle_data, handle_end,
       Poll, Reset, Tick, OtherTraffic

\* Datagrams stay numbered up to sent, the receiver's arrived among them.
LEMMA NetInvHolds == NetInv /\ [Next]_vars => NetInv'
<1> SUFFICES ASSUME NetInv, [Next]_vars
             PROVE  NetInv'
  OBVIOUS
<1>1. Overtake \in Nat \ {0} /\ Terminations \in Nat \ {0}
  BY StreamAssumption
<1>2. CASE UNCHANGED <<sent, arrived>> /\ net' \subseteq net
  BY <1>2 DEF NetInv
<1>3. ASSUME NEW kind \in {"data", "end"}, NEW count \in {1, Terminations}, Put(kind, count)
      PROVE  NetInv'
  <2>1. count \in Nat \ {0} /\ sent' = sent + count /\ arrived' = arrived
    BY <1>1, <1>3 DEF Put
  <2>2. \A d \in net' : d \in net \/ \E k \in 1 .. count : d.id = sent + k
    BY <1>3 DEF Put, Datagrams
  <2>. QED BY <1>1, <2>1, <2>2 DEF NetInv
<1>4. ASSUME NEW d \in net, Arrive(d)
      PROVE  NetInv'
  <2>1. sent' = sent /\ arrived' = IF d.id > arrived THEN d.id ELSE arrived
    BY <1>4 DEF Arrive
  <2>2. \A e \in net' : e \in net /\ e.id > arrived' - Overtake
    BY <1>4 DEF Arrive
  <2>. QED BY <1>1, <2>1, <2>2 DEF NetInv
<1>. QED BY <1>2, <1>3, <1>4, NetMoves

-----------------------------------------------------------------------------
(* The stream. *)

\* Between calls: the sequence numbers are well kept, what was shown last has
\* arrived, and an entry for the stream holds its number.
StreamInv ==
  /\ NetInv
  /\ WellKept(data_sequences)
  /\ shown \in 0 .. arrived
  /\ Tracked(data_sequences, src, uni) =>
       data_sequences[src][uni].sequence_number = Number(shown)

\* What a step that accepts no datagram of the stream may do to its entry.
KeptAtMost(m, mm) ==
  Tracked(mm, src, uni) =>
    /\ Tracked(m, src, uni)
    /\ mm[src][uni].sequence_number = m[src][uni].sequence_number
    /\ TimedOut(m, src, uni) => TimedOut(mm, src, uni)

\* Dropping entries is one thing it may do.
LEMMA LossKeepsAtMost ==
  ASSUME NEW m, NEW mm, OnlyTimedOutLost(m, mm)
  PROVE  KeptAtMost(m, mm)
BY DEF OnlyTimedOutLost, KeptAtMost, TimedOut

\* So is every step of the tracker in which the stream is not the one called about.
LEMMA OtherSteps ==
  ASSUME WellKept(data_sequences),
         \/ UNCHANGED data_sequences
         \/ \E a \in BOOLEAN : Tracker!check_timeouts(a)
         \/ Tracker!clear
         \/ Tracker!Tick
         \/ \E s, u : Tracker!remove_seq_numbers(s, u)
         \/ \E p \in Others, n \in SeqNumbers, a \in BOOLEAN :
              Tracker!check_data_seq_number(p[1], p[2], n, a)
  PROVE  WellKept(data_sequences') /\ KeptAtMost(data_sequences, data_sequences')
<1> DEFINE m == data_sequences
           mm == data_sequences'
<1>m. m \in SequenceMaps
  BY DEF WellKept
<1>1. CASE UNCHANGED data_sequences
  BY <1>1 DEF WellKept, KeptAtMost, WithinLimit, Tracked, TimedOut
<1>2. ASSUME NEW a \in BOOLEAN, Tracker!check_timeouts(a)
      PROVE  WellKept(mm) /\ KeptAtMost(m, mm)
  <2>1. PICK o \in CheckTimeouts(m, a) : mm = o.seqs
    BY <1>2, TrackerMethods
  <2>. QED BY <1>m, <2>1, CheckTimeoutsWellKept, CheckTimeoutsEntries, LossKeepsAtMost
<1>3. CASE Tracker!clear
  BY <1>3, TrackerMethods, EmptyMapWellKept DEF KeptAtMost, Tracked, EmptyMap
<1>4. CASE Tracker!Tick
  <2>1. mm = Aged(m)
    BY <1>4, TrackerMethods
  <2>2. \A t, v : /\ Tracked(Aged(m), t, v) <=> Tracked(m, t, v)
                  /\ Tracked(m, t, v) => Aged(m)[t][v] = [m[t][v] EXCEPT !.age = Older(@)]
    BY <1>m, AgedEntries
  <2>3. Tracked(m, src, uni) =>
          /\ Aged(m)[src][uni].sequence_number = m[src][uni].sequence_number
          /\ Aged(m)[src][uni].age = Older(m[src][uni].age)
    <3> SUFFICES ASSUME Tracked(m, src, uni)
                 PROVE  /\ Aged(m)[src][uni].sequence_number = m[src][uni].sequence_number
                        /\ Aged(m)[src][uni].age = Older(m[src][uni].age)
      OBVIOUS
    <3> DEFINE r == m[src][uni]
    <3>1. r \in TimedStampedSeqNo
      BY <1>m, TrackedTyped
    <3>2. Aged(m)[src][uni] = [r EXCEPT !.age = Older(r.age)]
      BY <2>2
    <3> HIDE DEF r
    <3>3. /\ [r EXCEPT !.age = Older(r.age)].sequence_number = r.sequence_number
          /\ [r EXCEPT !.age = Older(r.age)].age = Older(r.age)
      BY <3>1 DEF TimedStampedSeqNo
    <3>. QED BY <3>2, <3>3 DEF r
  <2>4. \A age : IsOld(age) => IsOld(Older(age))
    BY DEF IsOld, Older
  <2>. QED BY <2>1, <2>2, <2>3, <2>4, AgedWellKept DEF KeptAtMost, TimedOut
<1>5. ASSUME NEW s, NEW u, Tracker!remove_seq_numbers(s, u)
      PROVE  WellKept(mm) /\ KeptAtMost(m, mm)
  <2>1. mm = RemoveSourceUniverseSeq(m, s, u).seqs
    BY <1>5, TrackerMethods
  <2>2. mm = m \/ (s \in DOMAIN m /\ mm = WithoutUniverse(m, s, u))
    BY <2>1 DEF RemoveSourceUniverseSeq
  <2>3. ASSUME s \in DOMAIN m
        PROVE  \A t, v : /\ Tracked(WithoutUniverse(m, s, u), t, v)
                              <=> Tracked(m, t, v) /\ ~ (t = s /\ v = u)
                         /\ Tracked(WithoutUniverse(m, s, u), t, v)
                              => WithoutUniverse(m, s, u)[t][v] = m[t][v]
    BY <1>m, <2>3, WithoutUniverseEntries
  <2>. QED BY <2>1, <2>2, <2>3, RemovalWellKept DEF KeptAtMost, TimedOut
<1>6. ASSUME NEW p \in Others, NEW n \in SeqNumbers, NEW a \in BOOLEAN,
             Tracker!check_data_seq_number(p[1], p[2], n, a)
      PROVE  WellKept(mm) /\ KeptAtMost(m, mm)
  <2>1. PICK o \in CheckSeqNumber(m, p[1], p[2], n, a) : mm = o.seqs
    BY <1>6, TrackerMethods
  <2>2. p[1] \in Sources /\ p[2] \in Universes /\ ~ (src = p[1] /\ uni = p[2])
    BY StreamAssumption
  <2>3. WellKept(mm)
    BY <2>1, <2>2, CheckSeqNumberWellKept
  <2>4. \A t, v : Tracked(mm, t, v) /\ (o.ret # Ok \/ t # p[1] \/ v # p[2]) =>
                   Tracked(m, t, v) /\ mm[t][v] = m[t][v]
    <3> DEFINE s == p[1]
               u == p[2]
    <3>1. s \in Sources /\ u \in Universes /\ o \in CheckSeqNumber(m, s, u, n, a)
      BY <2>1, <2>2
    <3> HIDE DEF s, u
    <3>2. /\ o.ret # Ok => OnlyTimedOutLost(m, o.seqs)
          /\ o.ret = Ok => /\ Tracked(o.seqs, s, u)
                           /\ o.seqs[s][u] = [sequence_number |-> n, age |-> 0]
          /\ \A t, v : Tracked(o.seqs, t, v) /\ (o.ret # Ok \/ t # s \/ v # u) =>
               Tracked(m, t, v) /\ o.seqs[t][v] = m[t][v]
      BY <3>1, CheckSeqNumberEntries
    <3>. QED BY <2>1, <3>2 DEF s, u
  <2>. QED BY <2>2, <2>3, <2>4 DEF KeptAtMost, TimedOut
<1>. QED BY <1>1, <1>2, <1>3, <1>4, <1>5, <1>6

\* A datagram of the stream is judged by the number of the one shown last.
LEMMA DataSteps ==
  ASSUME StreamInv, NEW d \in net, NEW a \in BOOLEAN, handle_data(d, a)
  PROVE  /\ WellKept(data_sequences')
         /\ d.id \in Nat \ {0} /\ d.id > shown - Overtake
         /\ ret' = OutOfSequence =>
              Tracked(data_sequences, src, uni) /\ IsOutOfSequence(Number(d.id), Number(shown))
         /\ \/ /\ ret' # Ok /\ UNCHANGED <<shown, flip>>
               /\ KeptAtMost(data_sequences, data_sequences')
            \/ /\ ret' = Ok /\ shown' = d.id /\ flip' = ~ flip
               /\ Tracked(data_sequences', src, uni)
               /\ data_sequences'[src][uni] = [sequence_number |-> Number(d.id), age |-> 0]
               /\ playing => ~ IsOutOfSequence(Number(d.id), Number(shown))
<1> DEFINE m == data_sequences
           mm == data_sequences'
           n == Number(d.id)
<1>1. d.id \in Nat \ {0} /\ d.id > shown - Overtake
  <2>1. d.id \in 1 .. sent /\ d.id > arrived - Overtake
    BY DEF StreamInv, NetInv
  <2>. QED BY <2>1, StreamAssumption DEF StreamInv, NetInv
<1>2. /\ WellKept(m) /\ src \in Sources /\ uni \in Universes /\ n \in SeqNumbers
      /\ Tracked(m, src, uni) => m[src][uni].sequence_number = Number(shown)
  <2>1. n \in SeqNumbers
    <3>1. d.id \in Int
      BY <1>1
    <3>. QED BY <3>1, NumbersApart
  <2>2. src \in Sources /\ uni \in Universes
    BY StreamAssumption
  <2>. QED BY <2>1, <2>2 DEF StreamInv
<1> HIDE DEF n
<1>3. PICK o \in CheckSeqNumber(m, src, uni, n, a) : mm = o.seqs /\ ret' = o.ret
  BY TrackerMethods DEF handle_data, n
<1>4. WellKept(mm)
  BY <1>2, <1>3, CheckSeqNumberWellKept
<1>5. /\ o.ret = Ok /\ Tracked(m, src, uni) /\ ~ TimedOut(m, src, uni) =>
           ~ IsOutOfSequence(n, m[src][uni].sequence_number)
      /\ o.ret = OutOfSequence =>
           Tracked(m, src, uni) /\ IsOutOfSequence(n, m[src][uni].sequence_number)
  <2>1. /\ \A t, v : Tracked(m, t, v) /\ ~ TimedOut(m, t, v) => Tracked(o.seqs, t, v)
        /\ o.ret = Ok /\ Tracked(m, src, uni) /\ ~ TimedOut(m, src, uni) =>
             ~ IsOutOfSequence(n, m[src][uni].sequence_number)
        /\ o.ret = OutOfSequence =>
             Tracked(m, src, uni) /\ IsOutOfSequence(n, m[src][uni].sequence_number)
    BY <1>2, <1>3, CheckSeqNumberJudges
  <2>. QED BY <2>1
<1>6. /\ o.ret # Ok => OnlyTimedOutLost(m, o.seqs)
      /\ o.ret = Ok => /\ Tracked(o.seqs, src, uni)
                       /\ o.seqs[src][uni] = [sequence_number |-> n, age |-> 0]
      /\ \A t, v : Tracked(o.seqs, t, v) /\ (o.ret # Ok \/ t # src \/ v # uni) =>
           Tracked(m, t, v) /\ o.seqs[t][v] = m[t][v]
  BY <1>2, <1>3, CheckSeqNumberEntries
<1>7. CASE ret' = Ok
  <2>1. shown' = d.id /\ flip' = ~ flip
    BY <1>7 DEF handle_data
  <2>. QED BY <1>1, <1>2, <1>3, <1>4, <1>5, <1>6, <1>7, <2>1 DEF n, playing, Ok, OutOfSequence
<1>8. CASE ret' # Ok
  <2>1. UNCHANGED <<shown, flip>>
    BY <1>8 DEF handle_data
  <2>2. KeptAtMost(m, mm)
    BY <1>3, <1>6, <1>8, LossKeepsAtMost
  <2>. QED BY <1>1, <1>2, <1>3, <1>4, <1>5, <1>8, <2>1, <2>2 DEF n
<1>. QED BY <1>7, <1>8

\* Every step accepts a datagram of the stream, or keeps its entry at most.
LEMMA StreamSteps ==
  ASSUME StreamInv, [Next]_vars
  PROVE  /\ WellKept(data_sequences')
         /\ \/ UNCHANGED <<shown, flip>> /\ KeptAtMost(data_sequences, data_sequences')
            \/ \E d \in net :
                 /\ Arrive(d) /\ shown' = d.id /\ flip' = ~ flip
                 /\ d.id \in Nat \ {0} /\ d.id > shown - Overtake
                 /\ Tracked(data_sequences', src, uni)
                 /\ data_sequences'[src][uni] = [sequence_number |-> Number(d.id), age |-> 0]
                 /\ playing => ~ IsOutOfSequence(Number(d.id), Number(shown))
<1>1. \/ \E d \in net, a \in BOOLEAN : handle_data(d, a)
      \/ /\ UNCHANGED <<shown, flip>>
         /\ \/ UNCHANGED data_sequences
            \/ \E a \in BOOLEAN : Tracker!check_timeouts(a)
            \/ Tracker!clear
            \/ Tracker!Tick
            \/ \E s, u : Tracker!remove_seq_numbers(s, u)
            \/ \E p \in Others, n \in SeqNumbers, a \in BOOLEAN :
                 Tracker!check_data_seq_number(p[1], p[2], n, a)
  <2>. AnnounceModes \subseteq BOOLEAN /\ OtherNumbers \subseteq SeqNumbers
    BY StreamAssumption
  <2>1. CASE \/ send \/ terminate_stream \/ UNCHANGED vars
             \/ \E d \in net : Lose(d)
    BY <2>1 DEF send, terminate_stream, Put, Lose, vars, tracker
  <2>2. CASE \E d \in net : Receive(d)
    BY <2>2 DEF Receive, handle_end
  <2>3. CASE \/ \E announce \in AnnounceModes : Poll(announce)
             \/ Reset
             \/ Tick
             \/ \E p \in Others : OtherTraffic(p)
    BY <2>3 DEF Poll, Reset, Tick, OtherTraffic
  <2>. QED BY <2>1, <2>2, <2>3 DEF Next
<1>2. ASSUME NEW d \in net, NEW a \in BOOLEAN, handle_data(d, a)
      PROVE  /\ WellKept(data_sequences')
             /\ \/ UNCHANGED <<shown, flip>> /\ KeptAtMost(data_sequences, data_sequences')
                \/ /\ Arrive(d) /\ shown' = d.id /\ flip' = ~ flip
                   /\ d.id \in Nat \ {0} /\ d.id > shown - Overtake
                   /\ Tracked(data_sequences', src, uni)
                   /\ data_sequences'[src][uni] =
                        [sequence_number |-> Number(d.id), age |-> 0]
                   /\ playing => ~ IsOutOfSequence(Number(d.id), Number(shown))
  BY <1>2, DataSteps DEF handle_data
<1>3. WellKept(data_sequences)
  BY DEF StreamInv
<1>. QED BY <1>1, <1>2, <1>3, OtherSteps

\* The strengthening of InOrder holds initially and is kept by every step.
LEMMA StreamInvHolds == Spec => []StreamInv
<1>1. Init => StreamInv
  <2>1. SUFFICES ASSUME Init
                 PROVE  StreamInv
    OBVIOUS
  <2>2. data_sequences = EmptyMap
    BY <2>1, TrackerOperators DEF Init, Tracker!Init
  <2>. QED BY <2>1, <2>2, EmptyMapWellKept DEF Init, StreamInv, NetInv, Tracked, EmptyMap
<1>2. StreamInv /\ [Next]_vars => StreamInv'
  <2>1. SUFFICES ASSUME StreamInv, [Next]_vars
                 PROVE  StreamInv'
    OBVIOUS
  <2>2. NetInv'
    BY <2>1, NetInvHolds DEF StreamInv
  <2>3. WellKept(data_sequences)'
    BY <2>1, StreamSteps DEF WellKept, WithinLimit
  <2>4. arrived \in Nat /\ arrived' \in Nat /\ arrived' >= arrived
    <3>1. arrived \in Nat /\ sent \in Nat /\ \A d \in net : d.id \in Nat
      BY <2>1 DEF StreamInv, NetInv
    <3>. QED BY <2>1, <3>1, NetMoves DEF Put, Arrive
  <2>5. CASE UNCHANGED <<shown, flip>> /\ KeptAtMost(data_sequences, data_sequences')
    <3>1. (shown \in 0 .. arrived)'
      BY <2>1, <2>4, <2>5 DEF StreamInv
    <3>2. (Tracked(data_sequences, src, uni) =>
             data_sequences[src][uni].sequence_number = Number(shown))'
      BY <2>1, <2>5 DEF StreamInv, KeptAtMost, Tracked, Number
    <3>. QED BY <2>2, <2>3, <3>1, <3>2 DEF StreamInv
  <2>6. ASSUME NEW d \in net, Arrive(d), shown' = d.id, d.id \in Nat \ {0},
               data_sequences'[src][uni] = [sequence_number |-> Number(d.id), age |-> 0]
        PROVE  StreamInv'
    <3>1. (shown \in 0 .. arrived)'
      BY <2>4, <2>6 DEF Arrive
    <3>2. (Tracked(data_sequences, src, uni) =>
             data_sequences[src][uni].sequence_number = Number(shown))'
      BY <2>6 DEF Number
    <3>. QED BY <2>2, <2>3, <3>1, <3>2 DEF StreamInv
  <2>. QED BY <2>1, <2>5, <2>6, StreamSteps
<1>. QED BY <1>1, <1>2, PTL DEF Spec

-----------------------------------------------------------------------------
(* Theorems. *)

\* The receiver implements Playback: while the stream is alive nothing is
\* accepted twice or after what was sent later, whatever the network, the
\* clock, the user and the other streams do; and when it starts again, it
\* starts less than one reordering back.
THEOREM StreamPlaysInOrder == Spec => InOrder
<1>1. Init => PlaybackSpec!Init
  <2>1. Init => data_sequences = EmptyMap
    BY TrackerOperators DEF Init, Tracker!Init
  <2>. QED BY <2>1 DEF Init, PlaybackSpec!Init, playing, Tracked, EmptyMap
<1>2. StreamInv /\ [Next]_vars => [PlaybackSpec!Next]_<<playing, shown, flip>>
  <2>1. SUFFICES ASSUME StreamInv, [Next]_vars
                 PROVE  [PlaybackSpec!Next]_<<playing, shown, flip>>
    OBVIOUS
  <2>2. playing \in BOOLEAN /\ playing' \in BOOLEAN
    BY DEF playing
  <2>3. CASE UNCHANGED <<shown, flip>> /\ KeptAtMost(data_sequences, data_sequences')
    <3>1. playing' => playing
      BY <2>3 DEF KeptAtMost, playing, Tracked, TimedOut
    <3>. QED BY <2>2, <2>3, <3>1 DEF PlaybackSpec!Next, PlaybackSpec!Stop
  <2>4. ASSUME NEW d \in net, shown' = d.id, flip' = ~ flip,
               d.id \in Nat \ {0}, d.id > shown - Overtake,
               Tracked(data_sequences', src, uni),
               data_sequences'[src][uni] = [sequence_number |-> Number(d.id), age |-> 0],
               playing => ~ IsOutOfSequence(Number(d.id), Number(shown))
        PROVE  PlaybackSpec!Show
    <3>1. playing'
      <4>1. data_sequences'[src][uni].age = 0
        BY <2>4
      <4>. QED BY <2>4, <4>1, TimeoutAssumption DEF playing, Tracked, TimedOut, IsOld
    <3>2. shown \in Nat
      BY <2>1 DEF StreamInv, NetInv
    <3>3. playing => d.id > shown
      BY <2>4, <3>2, NotAfterIsOutOfSequence
    <3>. QED BY <2>2, <2>4, <3>1, <3>3 DEF PlaybackSpec!Show
  <2>. QED BY <2>1, <2>3, <2>4, StreamSteps DEF PlaybackSpec!Next
<1>. QED BY <1>1, <1>2, StreamInvHolds, PTL DEF Spec, InOrder, PlaybackSpec!Spec

\* No shorter burst of losses than one that takes the numbers round almost to
\* where they were makes check_data_seq_number discard a later datagram.
THEOREM ShortLossesCostNothing == Spec => DiscardedOnlyAfterBurst
<1>1. ASSUME StreamInv, NEW d \in net, Receive(d), ret' = OutOfSequence, d.id > shown
      PROVE  d.id - shown > SeqMod + DiscardLower
  <2>1. ~ handle_end(d)
    BY <1>1, TrackerMethods DEF handle_end
  <2>2. PICK a \in BOOLEAN : handle_data(d, a)
    BY <1>1, <2>1, StreamAssumption DEF Receive
  <2>3. d.id \in Nat \ {0} /\ IsOutOfSequence(Number(d.id), Number(shown))
    BY <1>1, <2>2, DataSteps
  <2>4. shown \in Nat
    BY <1>1 DEF StreamInv, NetInv
  <2>. QED BY <1>1, <2>3, <2>4, AfterIsInSequence
<1>2. StreamInv =>
        [\A d \in net : Receive(d) /\ ret' = OutOfSequence /\ d.id > shown =>
           d.id - shown > SeqMod + DiscardLower]_vars
  BY <1>1
<1>. QED BY <1>2, StreamInvHolds, PTL DEF DiscardedOnlyAfterBurst

-----------------------------------------------------------------------------
(* Announced timeouts. *)

\* Every step of the stream, its network and its surroundings is a call of the
\* receiver's SequenceNumbering or leaves it alone.
LEMMA TrackerMoves ==
  ASSUME StreamInv, [Next]_vars
  PROVE  [Tracker!Next]_(Tracker!vars)
<1>0. /\ src \in Sources /\ uni \in DataUniverses /\ DataUniverses \subseteq Universes
      /\ Others \subseteq Sources \X DataUniverses /\ OtherNumbers \subseteq Tracker!SeqNumbers
  BY StreamAssumption DEF SeqNumbers, Tracker!SeqNumbers
<1>1. ASSUME NEW d \in net, Receive(d)
      PROVE  Tracker!Next
  <2>1. Number(d.id) \in Tracker!SeqNumbers
    <3>1. d.id \in Int
      BY DEF StreamInv, NetInv
    <3>. QED BY <3>1, NumbersApart DEF SeqNumbers, Tracker!SeqNumbers
  <2>. QED BY <1>0, <1>1, <2>1 DEF Receive, handle_end, handle_data, Tracker!Next
<1>2. ASSUME NEW p \in Others, OtherTraffic(p)
      PROVE  Tracker!Next
  <2>1. p[1] \in Sources /\ p[2] \in DataUniverses /\ p[2] \in Universes
    BY <1>0
  <2>. QED BY <1>0, <1>2, <2>1 DEF OtherTraffic, Tracker!Next
<1>3. CASE (\E a \in AnnounceModes : Poll(a)) \/ Reset \/ Tick
  BY <1>3 DEF Poll, Reset, Tick, Tracker!Next
<1>4. CASE send \/ terminate_stream \/ (\E d \in net : Lose(d)) \/ UNCHANGED vars
  BY <1>4 DEF send, terminate_stream, Put, Lose, vars, tracker, Tracker!vars
<1>. QED BY <1>1, <1>2, <1>3, <1>4 DEF Next

\* The copies that Tracker and Numbering have of the methods are the same.
LEMMA TrackerIsNumbering ==
  /\ Tracker!Init => Numbering!Init
  /\ Tracker!Next => Numbering!Next
  /\ Tracker!vars = Numbering!vars
<1>1. Tracker!Init => Numbering!Init
  BY DEF Tracker!Init, Numbering!Init, Tracker!EmptyMap, Numbering!EmptyMap, Tracker!Ok, Numbering!Ok
<1>2. Tracker!Next => Numbering!Next
  BY DEF Tracker!Next, Numbering!Next, Tracker!Tick, Numbering!Tick, Tracker!clear, Numbering!clear,
         Tracker!check_timeouts, Numbering!check_timeouts, Tracker!check_data_seq_number,
         Numbering!check_data_seq_number, Tracker!check_sync_seq_number,
         Numbering!check_sync_seq_number, Tracker!remove_seq_numbers,
         Numbering!remove_seq_numbers, Tracker!CheckTimeouts, Numbering!CheckTimeouts,
         Tracker!CheckSeqNumber, Numbering!CheckSeqNumber, Tracker!RemoveSourceUniverseSeq,
         Numbering!RemoveSourceUniverseSeq, Tracker!Admit, Numbering!Admit,
         Tracker!LimitReached, Numbering!LimitReached, Tracker!WithEntry,
         Numbering!WithEntry, Tracker!WithSource, Numbering!WithSource, Tracker!Aged,
         Numbering!Aged, Tracker!WithoutTimedOut, Numbering!WithoutTimedOut,
         Tracker!WithoutUniverse, Numbering!WithoutUniverse, Tracker!EmptyMap,
         Numbering!EmptyMap, Tracker!HasTimedOut, Numbering!HasTimedOut, Tracker!TimedOut,
         Numbering!TimedOut, Tracker!Tracked, Numbering!Tracked, Tracker!IsOutOfSequence,
         Numbering!IsOutOfSequence, Tracker!SeqDiff, Numbering!SeqDiff, Tracker!Ok,
         Numbering!Ok, Tracker!OutOfSequence, Numbering!OutOfSequence,
         Tracker!SourcesExceeded, Numbering!SourcesExceeded, Tracker!SourceNotFound,
         Numbering!SourceNotFound, Tracker!UniverseNotFound, Numbering!UniverseNotFound,
         Tracker!UniverseTimeout, Numbering!UniverseTimeout, Tracker!SeqNumbers,
         Numbering!SeqNumbers, Tracker!Restrict, Numbering!Restrict, Tracker!Cardinality,
         Numbering!Cardinality, Tracker!IsOld, Numbering!IsOld, Tracker!Older,
         Numbering!Older
<1>3. Tracker!vars = Numbering!vars
  BY DEF Tracker!vars, Numbering!vars
<1>. QED BY <1>1, <1>2, <1>3

\* The receiver of the stream runs SequenceNumbering, so a UniverseTimeout it
\* reports names the one entry it dropped, amid all the other traffic.
THEOREM TimeoutsAreExact == Spec => AnnouncedTimeoutIsExact
<1> DEFINE Exact ==
           ret'.res = "UniverseTimeout" =>
             \E k \in {<<data_sequences, data_sequences', sync_sequences, sync_sequences'>>,
                       <<sync_sequences, sync_sequences', data_sequences, data_sequences'>>} :
               /\ Tracker!Forgotten(k[1], k[2]) = {<<ret'.src, ret'.uni>>}
               /\ Tracker!TimedOut(k[1], ret'.src, ret'.uni)
               /\ \A s \in DOMAIN k[2] : \A u \in DOMAIN k[2][s] :
                    Tracker!Tracked(k[1], s, u) /\ k[2][s][u] = k[1][s][u]
               /\ \A s \in DOMAIN k[3] : \A u \in DOMAIN k[3][s] :
                    Tracker!Tracked(k[4], s, u) \/ Tracker!TimedOut(k[3], s, u)
           NumberingExact ==
           ret'.res = "UniverseTimeout" =>
             \E k \in {<<data_sequences, data_sequences', sync_sequences, sync_sequences'>>,
                       <<sync_sequences, sync_sequences', data_sequences, data_sequences'>>} :
               /\ Numbering!Forgotten(k[1], k[2]) = {<<ret'.src, ret'.uni>>}
               /\ Numbering!TimedOut(k[1], ret'.src, ret'.uni)
               /\ \A s \in DOMAIN k[2] : \A u \in DOMAIN k[2][s] :
                    Numbering!Tracked(k[1], s, u) /\ k[2][s][u] = k[1][s][u]
               /\ \A s \in DOMAIN k[3] : \A u \in DOMAIN k[3][s] :
                    Numbering!Tracked(k[4], s, u) \/ Numbering!TimedOut(k[3], s, u)
<1>1. Init => Numbering!Init
  BY TrackerIsNumbering DEF Init
<1>2. StreamInv /\ [Next]_vars => [Numbering!Next]_(Numbering!vars)
  <2>1. SUFFICES ASSUME StreamInv, [Next]_vars
                 PROVE  [Numbering!Next]_(Numbering!vars)
    OBVIOUS
  <2>2. CASE Tracker!Next
    BY <2>2, TrackerIsNumbering
  <2>3. CASE UNCHANGED Tracker!vars
    BY <2>3 DEF Tracker!vars, Numbering!vars
  <2>. QED BY <2>1, <2>2, <2>3, TrackerMoves
<1>3. Numbering!Spec => Numbering!AnnouncedTimeoutIsExact
  <2>1. /\ Numbering!IsFiniteSet(Sources)
        /\ DataUniverses \subseteq Universes /\ SyncUniverses \subseteq Universes
        /\ AnnounceModes \subseteq BOOLEAN
    BY SourcesAssumption, StreamAssumption DEF IsFiniteSet, Numbering!IsFiniteSet
  <2>. QED BY <2>1, Numbering!TimeoutsAreExact, TimeoutAssumption, SeqAssumption, LimitAssumption
<1>4. [NumberingExact]_(Numbering!vars) => [Exact]_(Tracker!vars)
  <2>1. NumberingExact => Exact
    BY DEF Numbering!Forgotten, Tracker!Forgotten, Numbering!TimedOut, Tracker!TimedOut,
           Numbering!Tracked, Tracker!Tracked, Numbering!IsOld, Tracker!IsOld
  <2>. QED BY <2>1 DEF Numbering!vars, Tracker!vars
<1>. QED
  BY <1>1, <1>2, <1>3, <1>4, StreamInvHolds, PTL
     DEF Spec, Numbering!Spec, AnnouncedTimeoutIsExact, Numbering!AnnouncedTimeoutIsExact,
         Tracker!AnnouncedTimeoutIsExact

=============================================================================
