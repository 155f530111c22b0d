---------------------------- MODULE Source_proofs ----------------------------
(***************************************************************************)
(* Theorems about Source for every set of universes, every modulus of the  *)
(* sequence numbers, every number of termination packets, every list of a  *)
(* call of send, and every interleaving of the two threads.                *)
(***************************************************************************)
EXTENDS Source, SequenceTheorems, FiniteSetTheorems, TLAPS

-----------------------------------------------------------------------------
(* Division. *)

\* What % and \div are.
LEMMA Division ==
  ASSUME NEW a \in Nat, NEW n \in Nat \ {0}
  PROVE  /\ a = n * (a \div n) + (a % n)
         /\ a % n \in 0 .. n - 1 /\ a \div n \in Nat
OBVIOUS

\* They are determined by that.
LEMMA DivisionIsUnique ==
  ASSUME NEW n \in Nat \ {0}, NEW q \in Int, NEW r \in 0 .. n - 1
  PROVE  (n * q + r) % n = r /\ (n * q + r) \div n = q
OBVIOUS

\* A number that is in range already.
LEMMA SmallRemainder ==
  ASSUME NEW n \in Nat \ {0}, NEW r \in 0 .. n - 1
  PROVE  r % n = r
OBVIOUS

\* One more, before or after the wrap.
LEMMA RemainderPlusOne ==
  ASSUME NEW a \in Nat, NEW n \in Nat \ {0}
  PROVE  ((a % n) + 1) % n = (a + 1) % n
<1> DEFINE q == a \div n
           r == a % n
<1>1. a = n * q + r /\ r \in 0 .. n - 1 /\ q \in Nat
  BY Division
<1> HIDE DEF q, r
<1>2. CASE r + 1 \in 0 .. n - 1
  <2>1. a + 1 = n * q + (r + 1) /\ q \in Int
    <3>1. n * q \in Int
      BY <1>1
    <3>. QED BY <1>1, <3>1
  <2>2. (n * q + (r + 1)) % n = r + 1
    BY <1>2, <2>1, DivisionIsUnique
  <2>3. (r + 1) % n = r + 1
    BY <1>2, SmallRemainder
  <2>4. (a + 1) % n = r + 1
    BY <2>1, <2>2
  <2>. QED BY <2>3, <2>4 DEF r
<1>3. CASE r + 1 = n
  <2>1. a + 1 = n * (q + 1) + 0
    BY <1>1, <1>3
  <2>2. 0 \in 0 .. n - 1 /\ q + 1 \in Int
    BY <1>1
  <2>3. (n * (q + 1) + 0) % n = 0
    BY <2>2, DivisionIsUnique
  <2>4. n % n = 0
    <3>1. n = n * 1 + 0 /\ 1 \in Int
      OBVIOUS
    <3>. QED BY <2>2, <3>1, DivisionIsUnique
  <2>5. (a + 1) % n = 0
    BY <2>1, <2>3
  <2>. QED BY <1>3, <2>4, <2>5 DEF r
<1>. QED BY <1>1, <1>2, <1>3

\* The i-th of several packets for each stream of a list is for its j-th
\* stream exactly when i is in the j-th block.
LEMMA Blocks ==
  ASSUME NEW n \in Nat \ {0}, NEW i \in Nat \ {0}, NEW j \in Nat \ {0}
  PROVE  (i - 1) \div n + 1 = j <=> i \in n * (j - 1) + 1 .. n * j
<1> DEFINE q == (i - 1) \div n
           r == (i - 1) % n
<1>1. i - 1 \in Nat
  OBVIOUS
<1>2. i - 1 = n * q + r /\ r \in 0 .. n - 1 /\ q \in Nat
  BY <1>1, Division
<1>3. ASSUME i \in n * (j - 1) + 1 .. n * j
      PROVE  q = j - 1
  <2> DEFINE s == i - 1 - n * (j - 1)
  <2>1. n * j = n * (j - 1) + n /\ n * (j - 1) \in Int
    OBVIOUS
  <2>2. s \in 0 .. n - 1 /\ i - 1 = n * (j - 1) + s /\ j - 1 \in Int
    BY <1>3, <2>1
  <2> HIDE DEF s
  <2>3. (n * (j - 1) + s) \div n = j - 1
    BY <2>2, DivisionIsUnique
  <2>. QED BY <2>2, <2>3
<1> HIDE DEF q, r
<1>4. ASSUME q = j - 1
      PROVE  i \in n * (j - 1) + 1 .. n * j
  <2>1. n * j = n * (j - 1) + n /\ n * (j - 1) \in Int
    OBVIOUS
  <2>. QED BY <1>2, <1>4, <2>1
<1>5. q + 1 = j <=> q = j - 1
  BY <1>2
<1>6. q + 1 = j <=> i \in n * (j - 1) + 1 .. n * j
  BY <1>3, <1>4, <1>5 DEF q
<1>. QED BY <1>6 DEF q

-----------------------------------------------------------------------------
(* Counting the packets of a universe in a list. *)

Upto(us, u, k) == {i \in 1 .. k : us[i] = u}

\* There are finitely many.
LEMMA UptoFinite ==
  ASSUME NEW us, NEW u, NEW k \in Nat
  PROVE  IsFiniteSet(Upto(us, u, k)) /\ Cardinality(Upto(us, u, k)) \in Nat
<1>1. IsFiniteSet(1 .. k)
  BY 1 \in Int, k \in Int, FS_Interval
<1>2. Upto(us, u, k) \in SUBSET (1 .. k)
  BY DEF Upto
<1>. QED BY <1>1, <1>2, FS_Subset, FS_CardinalityType

\* With none there are 0.
LEMMA UptoNone ==
  ASSUME NEW us, NEW u, NEW k \in Nat, \A i \in 1 .. k : us[i] # u
  PROVE  Cardinality(Upto(us, u, k)) = 0
<1>1. Upto(us, u, k) = {}
  BY DEF Upto
<1>. QED BY <1>1, FS_EmptySet

\* With the last at m there is one more than before m.
LEMMA UptoLast ==
  ASSUME NEW us, NEW u, NEW k \in Nat, NEW m \in 1 .. k, us[m] = u,
         \A i \in m + 1 .. k : us[i] # u
  PROVE  Cardinality(Upto(us, u, k)) = Cardinality(Upto(us, u, m - 1)) + 1
<1>1. m - 1 \in Nat
  OBVIOUS
<1>2. Upto(us, u, k) = Upto(us, u, m - 1) \cup {m}
  <2>1. ASSUME NEW i \in Upto(us, u, k), i # m
        PROVE  i \in Upto(us, u, m - 1)
    <3>1. i \in 1 .. k /\ us[i] = u /\ ~ (i \in m + 1 .. k)
      BY DEF Upto
    <3>2. i \in 1 .. m - 1
      BY <2>1, <3>1
    <3>. QED BY <3>1, <3>2 DEF Upto
  <2>2. ASSUME NEW i \in Upto(us, u, m - 1)
        PROVE  i \in Upto(us, u, k)
    BY DEF Upto
  <2>3. m \in Upto(us, u, k)
    BY DEF Upto
  <2>. QED BY <2>1, <2>2, <2>3
<1>3. m \notin Upto(us, u, m - 1)
  BY DEF Upto
<1>. QED BY <1>1, <1>2, <1>3, UptoFinite, FS_AddElement

\* Count over the first packets of a list.
LEMMA CountIsUpto ==
  ASSUME NEW us \in Seq(Universes), NEW u, NEW k \in 0 .. Len(us)
  PROVE  Count(SubSeq(us, 1, k), u) = Cardinality(Upto(us, u, k))
<1>1. Len(us) \in Nat /\ DOMAIN us = 1 .. Len(us) /\ \A i \in 1 .. Len(us) : us[i] \in Universes
  BY LenProperties
<1> DEFINE s == SubSeq(us, 1, k)
<1>2. s \in Seq(Universes) /\ Len(s) = k /\ \A i \in 1 .. k : s[i] = us[i]
  <2>1. \A i \in 1 .. k : us[i] \in Universes
    BY <1>1
  <2>2. k \in Int /\ 1 \in Int /\ k >= 0
    BY <1>1
  <2>. QED BY <2>1, <2>2, SubSeqProperties
<1>3. DOMAIN s = 1 .. k
  BY <1>2, LenProperties
<1> HIDE DEF s
<1>4. {i \in DOMAIN s : s[i] = u} = Upto(us, u, k)
  BY <1>2, <1>3 DEF Upto
<1>. QED BY <1>4 DEF Count, s

\* Count over the whole list.
LEMMA CountAll ==
  ASSUME NEW us \in Seq(Universes), NEW u
  PROVE  Count(us, u) = Cardinality(Upto(us, u, Len(us)))
BY LenProperties DEF Count, Upto

\* A nonempty set of positions has a last one, found without induction: the
\* positions up to one of the set are as many as the last of them.
LEMMA LastPosition ==
  ASSUME NEW n \in Nat, NEW S \in SUBSET (1 .. n), S # {}
  PROVE  Max(S) \in S /\ \A i \in S : i <= Max(S)
<1> DEFINE below == {j \in 1 .. n : \E i \in S : j <= i}
           m == Cardinality(below)
<1>1. IsFiniteSet(1 .. n)
  BY 1 \in Int, n \in Int, FS_Interval
<1>2. below \in SUBSET (1 .. n) /\ IsFiniteSet(below) /\ m \in Nat
  BY <1>1, FS_Subset, FS_CardinalityType
<1>3. below \subseteq 1 .. m
  <2> SUFFICES ASSUME NEW j \in below
               PROVE  j \in 1 .. m
    OBVIOUS
  <2>1. j \in Nat /\ j >= 1 /\ (1 .. j) \in SUBSET below
    OBVIOUS
  <2>2. Cardinality(1 .. j) = j
    BY <2>1, 1 \in Int, j \in Int, FS_Interval
  <2>3. Cardinality(1 .. j) <= m
    BY <1>2, <2>1, FS_Subset
  <2>. QED BY <1>2, <2>1, <2>2, <2>3
<1>4. below = 1 .. m
  <2> HIDE DEF m
  <2>1. IsFiniteSet(1 .. m) /\ Cardinality(1 .. m) = m
    BY <1>2, 1 \in Int, m \in Int, FS_Interval
  <2>. QED BY <1>3, <2>1, FS_Subset DEF m
<1>5. S \subseteq below
  OBVIOUS
<1>6. m \in below
  <2>1. PICK i \in S : TRUE
    OBVIOUS
  <2>2. i \in below
    BY <1>5, <2>1
  <2> HIDE DEF m, below
  <2>3. i \in 1 .. m
    BY <1>4, <2>2
  <2>4. m \in 1 .. m
    BY <1>2, <2>3
  <2>. QED BY <1>4, <2>4
<1>7. PICK i \in S : m <= i
  BY <1>6
<1>8. i \in 1 .. m /\ \A j \in S : j \in 1 .. m
  BY <1>4, <1>5
<1> HIDE DEF m
<1>9. i \in S /\ \A j \in S : i >= j
  BY <1>2, <1>7, <1>8
<1>. QED BY <1>9 DEF Max

\* It has a first one as well: the last, counted from the end.
LEMMA FirstPosition ==
  ASSUME NEW n \in Nat, NEW S \in SUBSET (1 .. n), S # {}
  PROVE  Min(S) \in S
<1> DEFINE T == {n + 1 - i : i \in S}
           m == Max(T)
<1>1. T \in SUBSET (1 .. n) /\ T # {}
  <2>1. \A i \in S : n + 1 - i \in 1 .. n /\ n + 1 - i \in T
    OBVIOUS
  <2>2. T \subseteq 1 .. n
    BY <2>1
  <2>3. PICK i \in S : TRUE
    OBVIOUS
  <2>. QED BY <2>1, <2>2, <2>3
<1>2. m \in T /\ \A i \in T : i <= m
  BY <1>1, LastPosition
<1> HIDE DEF m
<1>3. PICK k \in S : m = n + 1 - k
  BY <1>2
<1>4. ASSUME NEW i \in S
      PROVE  k <= i
  <2>1. n + 1 - i <= m /\ i \in Int /\ k \in Int
    BY <1>2
  <2>. QED BY <1>3, <2>1
<1>5. k \in S /\ \A i \in S : k =< i
  BY <1>4
<1>. QED BY <1>5 DEF Min

-----------------------------------------------------------------------------
(* The invariants. *)

\* The maps hold numbers of a u8, and no universe has a number before
\* something was sent on it.
SequencesTyped ==
  /\ \A seqs \in {data_sequences, sync_sequences} :
       DOMAIN seqs \subseteq Universes /\ \A u \in DOMAIN seqs : seqs[u] \in Numbers
  /\ last \in [Universes -> Numbers \cup {-1}]

UnsentHaveNoNumber == \A u \in Universes : last[u] = -1 => u \notin DOMAIN data_sequences

\* A universe that has a number has one of a u8; the others start with one.
LEMMA NextNumberTyped ==
  ASSUME SequencesTyped
  PROVE  /\ \A u : NextNumber(data_sequences, u) \in Numbers
         /\ \A u : NextNumber(sync_sequences, u) \in Numbers
<1>1. 0 \in Numbers
  BY SourceAssumption DEF Numbers
<1>. QED BY <1>1 DEF SequencesTyped, NextNumber, STARTING_SEQUENCE_NUMBER

\* A remainder is a number of a u8.
LEMMA RemainderTyped == \A a \in Nat : a % NumberMod \in Numbers
BY SourceAssumption, Division DEF Numbers

-----------------------------------------------------------------------------
(* What a list of packets does to the numbers. *)

\* The packets of a list, and which of them are of one universe.
LEMMA PacketsOf ==
  ASSUME NEW us \in Seq(Universes), NEW kind \in {"data", "terminate"}
  PROVE  /\ DOMAIN Packets(kind, us) = 1 .. Len(us)
         /\ \A i \in 1 .. Len(us) :
              /\ Packets(kind, us)[i].kind = kind /\ Packets(kind, us)[i].universe = us[i]
              /\ Packets(kind, us)[i].number =
                   (NextNumber(data_sequences, us[i]) + Cardinality(Upto(us, us[i], i - 1)))
                     % NumberMod
         /\ \A u : OnUniverse(Packets(kind, us), u) = Upto(us, u, Len(us))
<1> DEFINE w == Packets(kind, us)
<1>1. Len(us) \in Nat /\ DOMAIN us = 1 .. Len(us) /\ \A i \in 1 .. Len(us) : us[i] \in Universes
  BY LenProperties
<1>2. DOMAIN w = 1 .. Len(us)
  BY <1>1 DEF Packets
<1>3. ASSUME NEW i \in 1 .. Len(us)
      PROVE  /\ w[i].kind = kind /\ w[i].universe = us[i]
             /\ w[i].number = (NextNumber(data_sequences, us[i])
                                 + Cardinality(Upto(us, us[i], i - 1))) % NumberMod
  <2>1. i - 1 \in 0 .. Len(us)
    BY <1>1
  <2>2. Count(SubSeq(us, 1, i - 1), us[i]) = Cardinality(Upto(us, us[i], i - 1))
    BY <2>1, CountIsUpto
  <2>. QED BY <1>1, <2>2 DEF Packets, Datagram
<1>4. \A u : OnUniverse(w, u) = Upto(us, u, Len(us))
  BY <1>2, <1>3 DEF OnUniverse, Upto
<1>. QED BY <1>2, <1>3, <1>4

\* The number each universe has after a list, and where the last of its
\* packets was.
LEMMA NumbersAfterOf ==
  ASSUME SequencesTyped, NEW us \in Seq(Universes), NEW u \in Universes
  PROVE  LET n == NextNumber(data_sequences, u)
             own == Upto(us, u, Len(us))
         IN /\ own = {} => NextNumber(NumbersAfter(us), u) = n
            /\ own # {} =>
                 /\ u \in DOMAIN NumbersAfter(us)
                 /\ NextNumber(NumbersAfter(us), u) =
                      Incremented((n + Cardinality(Upto(us, u, Max(own) - 1))) % NumberMod)
<1> DEFINE n == NextNumber(data_sequences, u)
           own == Upto(us, u, Len(us))
           after == NumbersAfter(us)
<1>1. Len(us) \in Nat /\ DOMAIN us = 1 .. Len(us) /\ \A i \in 1 .. Len(us) : us[i] \in Universes
  BY LenProperties
<1>2. n \in Nat /\ n \in 0 .. NumberMod - 1 /\ NumberMod \in Nat \ {0}
  BY NextNumberTyped, SourceAssumption DEF Numbers
<1>3. u \in Range(us) <=> own # {}
  BY <1>1 DEF Range, Upto
<1>4. DOMAIN after = DOMAIN data_sequences \cup Range(us)
  BY DEF NumbersAfter
<1>5. u \in DOMAIN after => after[u] = (n + Cardinality(own)) % NumberMod
  BY CountAll DEF NumbersAfter
<1>6. ASSUME own = {}
      PROVE  NextNumber(after, u) = n
  <2>1. Cardinality(own) = 0
    BY <1>6, FS_EmptySet
  <2>2. (n + 0) % NumberMod = n
    BY <1>2, SmallRemainder
  <2>3. u \in DOMAIN after => after[u] = n
    BY <1>5, <2>1, <2>2
  <2>4. u \notin DOMAIN after => n = STARTING_SEQUENCE_NUMBER
    BY <1>4 DEF NextNumber
  <2>. QED BY <2>3, <2>4 DEF NextNumber
<1>7. ASSUME own # {}
      PROVE  /\ u \in DOMAIN after
             /\ NextNumber(after, u) =
                  Incremented((n + Cardinality(Upto(us, u, Max(own) - 1))) % NumberMod)
  <2> DEFINE m == Max(own)
             c == Cardinality(Upto(us, u, m - 1))
  <2>1. own \in SUBSET (1 .. Len(us))
    BY DEF Upto
  <2>2. m \in own /\ \A i \in own : i <= m
    BY <1>1, <1>7, <2>1, LastPosition
  <2>3. m \in 1 .. Len(us) /\ us[m] = u
    BY <2>2 DEF Upto
  <2>4. \A i \in m + 1 .. Len(us) : us[i] # u
    <3> HIDE DEF m
    <3>. QED BY <1>1, <2>2, <2>3 DEF Upto
  <2> HIDE DEF m
  <2>5. Cardinality(own) = c + 1
    BY <1>1, <2>3, <2>4, UptoLast
  <2>6. m - 1 \in Nat
    BY <1>1, <2>3
  <2>7. c \in Nat
    BY <2>6, UptoFinite
  <2>8. u \in DOMAIN after
    BY <1>3, <1>4, <1>7
  <2> HIDE DEF c, own, n
  <2>9. n + c \in Nat /\ n + (c + 1) = n + c + 1
    BY <1>2, <2>7
  <2>10. (n + c + 1) % NumberMod = Incremented((n + c) % NumberMod)
    BY <1>2, <2>9, RemainderPlusOne DEF Incremented
  <2>11. after[u] = Incremented((n + c) % NumberMod)
    BY <1>5, <2>5, <2>8, <2>9, <2>10
  <2>. QED BY <2>8, <2>11 DEF NextNumber, c, m
<1>. QED BY <1>6, <1>7

\* The map holds numbers of a u8 after a list, for known universes.
LEMMA NumbersAfterTyped ==
  ASSUME SequencesTyped, NEW us \in Seq(Universes)
  PROVE  /\ DOMAIN NumbersAfter(us) \subseteq Universes
         /\ \A u \in DOMAIN NumbersAfter(us) : NumbersAfter(us)[u] \in Numbers
<1>1. \A i \in DOMAIN us : us[i] \in Universes
  BY LenProperties
<1>2. Range(us) \subseteq Universes
  BY <1>1 DEF Range
<1>3. \A u : NextNumber(data_sequences, u) \in Nat
  BY NextNumberTyped, SourceAssumption DEF Numbers
<1>4. \A u : Count(us, u) \in Nat
  BY CountAll, UptoFinite, LenProperties
<1>5. \A u : NextNumber(data_sequences, u) + Count(us, u) \in Nat
  BY <1>3, <1>4
<1>. QED BY <1>2, <1>5, RemainderTyped DEF NumbersAfter, SequencesTyped

\* What the last number of each universe is after a list, but for those whose
\* number was lost.
LEMMA ListSent ==
  ASSUME SequencesTyped, NEW us \in Seq(Universes), NEW kind \in {"data", "terminate"},
         NEW lost, SendsBut(Packets(kind, us), lost)
  PROVE  /\ last' \in [Universes -> Numbers \cup {-1}]
         /\ \A u \in Universes \ lost :
              LET own == Upto(us, u, Len(us)) IN
              /\ own = {} => last'[u] = last[u]
              /\ own # {} =>
                   /\ last'[u] = (NextNumber(data_sequences, u)
                                    + Cardinality(Upto(us, u, Max(own) - 1))) % NumberMod
                   /\ last'[u] \in Numbers
<1>1. Len(us) \in Nat
  BY LenProperties
<1>2. \A u \in Universes \ lost :
        last'[u] = NumberBefore(Packets(kind, us), u, Upto(us, u, Len(us)))
  BY PacketsOf DEF SendsBut
<1>3. ASSUME NEW u \in Universes \ lost, Upto(us, u, Len(us)) # {}
      PROVE  /\ last'[u] = (NextNumber(data_sequences, u)
                 + Cardinality(Upto(us, u, Max(Upto(us, u, Len(us))) - 1))) % NumberMod
             /\ last'[u] \in Numbers
  <2> DEFINE own == Upto(us, u, Len(us))
             m == Max(own)
  <2>1. own \in SUBSET (1 .. Len(us))
    BY DEF Upto
  <2>2. m \in own
    BY <1>1, <1>3, <2>1, LastPosition
  <2>3. m \in 1 .. Len(us) /\ us[m] = u
    BY <2>2 DEF Upto
  <2>4. last'[u] = Packets(kind, us)[m].number
    BY <1>2, <1>3 DEF NumberBefore
  <2> HIDE DEF m
  <2>5. last'[u] = (NextNumber(data_sequences, u) + Cardinality(Upto(us, u, m - 1))) % NumberMod
    BY <2>3, <2>4, PacketsOf
  <2>6. m - 1 \in Nat
    BY <1>1, <2>3
  <2>7. NextNumber(data_sequences, u) + Cardinality(Upto(us, u, m - 1)) \in Nat
    BY <2>6, UptoFinite, NextNumberTyped, SourceAssumption DEF Numbers
  <2>. QED BY <2>5, <2>7, RemainderTyped DEF m
<1>4. \A u \in Universes \ lost : Upto(us, u, Len(us)) = {} => last'[u] = last[u]
  BY <1>2 DEF NumberBefore
<1>5. last' \in [Universes -> Numbers \cup {-1}]
  <2>1. last' = [u \in Universes |-> last'[u]]
    BY DEF SendsBut
  <2>2. \A u \in Universes \cap lost : last'[u] = -1
    BY DEF SendsBut
  <2>3. \A u \in Universes \ lost : last'[u] \in Numbers \cup {-1}
    BY <1>3, <1>4 DEF SequencesTyped
  <2>. QED BY <2>1, <2>2, <2>3
<1>. QED BY <1>3, <1>4, <1>5

\* After a list that is sent, the map still holds the number after the last.
LEMMA ListFollows ==
  ASSUME SequencesTyped, UnsentHaveNoNumber, NextNumberFollows, NEW us \in Seq(Universes),
         NEW kind \in {"data", "terminate"}, NEW lost, SendsBut(Packets(kind, us), lost),
         NEW u \in Universes \ lost
  PROVE  /\ last'[u] # -1 => NextNumber(NumbersAfter(us), u) = Incremented(last'[u])
         /\ last'[u] = -1 => u \notin DOMAIN NumbersAfter(us)
<1> DEFINE own == Upto(us, u, Len(us))
<1>1. CASE own = {}
  <2>1. last'[u] = last[u] /\ NextNumber(NumbersAfter(us), u) = NextNumber(data_sequences, u)
    BY <1>1, ListSent, NumbersAfterOf
  <2>2. u \in DOMAIN NumbersAfter(us) <=> u \in DOMAIN data_sequences
    <3>1. u \notin Range(us)
      BY <1>1, LenProperties DEF Range, Upto
    <3>. QED BY <3>1 DEF NumbersAfter
  <2>. QED BY <2>1, <2>2 DEF NextNumberFollows, UnsentHaveNoNumber
<1>2. CASE own # {}
  <2>1. last'[u] = (NextNumber(data_sequences, u)
                      + Cardinality(Upto(us, u, Max(own) - 1))) % NumberMod
    BY <1>2, ListSent
  <2>2. last'[u] \in Numbers
    BY <1>2, ListSent
  <2>3. NextNumber(NumbersAfter(us), u) = Incremented(last'[u])
    BY <1>2, <2>1, NumbersAfterOf
  <2>4. last'[u] # -1
    BY <2>2, SourceAssumption DEF Numbers
  <2>. QED BY <2>3, <2>4
<1>. QED BY <1>1, <1>2

\* The numbers of one step follow those before it.
Consecutive ==
  \A u \in Universes :
    LET own == OnUniverse(wire', u) IN
    \A i \in own :
      LET before == NumberBefore(wire', u, {j \in own : j < i}) IN
      wire'[i].number = IF before = -1 THEN STARTING_SEQUENCE_NUMBER ELSE Incremented(before)

\* The packets of a list have consecutive numbers on each universe.
LEMMA ListConsecutive ==
  ASSUME SequencesTyped, UnsentHaveNoNumber, NextNumberFollows, NEW us \in Seq(Universes),
         NEW kind \in {"data", "terminate"}, wire' = Packets(kind, us)
  PROVE  Consecutive
<1>1. Len(us) \in Nat
  BY LenProperties
<1>2. SUFFICES ASSUME NEW u \in Universes, NEW i \in Upto(us, u, Len(us))
               PROVE  LET before == NumberBefore(wire', u, {j \in Upto(us, u, Len(us)) : j < i})
                      IN wire'[i].number = IF before = -1 THEN STARTING_SEQUENCE_NUMBER
                                           ELSE Incremented(before)
  BY PacketsOf DEF Consecutive
<1> DEFINE n == NextNumber(data_sequences, u)
           c == Cardinality(Upto(us, u, i - 1))
<1>3. i \in 1 .. Len(us) /\ us[i] = u /\ i - 1 \in Nat
  BY <1>1, <1>2 DEF Upto
<1>4. {j \in Upto(us, u, Len(us)) : j < i} = Upto(us, u, i - 1)
  BY <1>1, <1>3 DEF Upto
<1>5. wire'[i].number = (n + c) % NumberMod
  BY <1>3, PacketsOf
<1>6. n \in Nat /\ n \in 0 .. NumberMod - 1 /\ NumberMod \in Nat \ {0}
  BY NextNumberTyped, SourceAssumption DEF Numbers
<1>7. CASE Upto(us, u, i - 1) = {}
  <2>1. NumberBefore(wire', u, Upto(us, u, i - 1)) = last[u]
    BY <1>7 DEF NumberBefore
  <2>2. c = 0
    BY <1>7, FS_EmptySet
  <2>3. (n + 0) % NumberMod = n
    BY <1>6, SmallRemainder
  <2>4. n = IF last[u] = -1 THEN STARTING_SEQUENCE_NUMBER ELSE Incremented(last[u])
    BY DEF UnsentHaveNoNumber, NextNumberFollows, NextNumber
  <2>. QED BY <1>4, <1>5, <2>1, <2>2, <2>3, <2>4
<1>8. CASE Upto(us, u, i - 1) # {}
  <2> DEFINE m == Max(Upto(us, u, i - 1))
             d == Cardinality(Upto(us, u, m - 1))
  <2>1. Upto(us, u, i - 1) \in SUBSET (1 .. i - 1)
    BY DEF Upto
  <2>2. m \in Upto(us, u, i - 1) /\ \A j \in Upto(us, u, i - 1) : j <= m
    BY <1>3, <1>8, <2>1, LastPosition
  <2>3. NumberBefore(wire', u, Upto(us, u, i - 1)) = wire'[m].number
    BY <1>8 DEF NumberBefore
  <2> HIDE DEF m
  <2>4. m \in 1 .. i - 1 /\ us[m] = u /\ m - 1 \in Nat
    BY <1>3, <2>2 DEF Upto
  <2>5. \A j \in m + 1 .. i - 1 : us[j] # u
    BY <1>3, <2>2, <2>4 DEF Upto
  <2>6. c = d + 1
    BY <1>3, <2>4, <2>5, UptoLast
  <2>7. wire'[m].number = (n + d) % NumberMod
    <3>1. m \in 1 .. Len(us)
      BY <1>1, <1>3, <2>4
    <3>. QED BY <2>4, <3>1, PacketsOf
  <2>8. d \in Nat
    BY <2>4, UptoFinite
  <2> HIDE DEF c, d, n
  <2>9. n + d \in Nat /\ n + c = n + d + 1
    BY <1>6, <2>6, <2>8
  <2>10. (n + c) % NumberMod = Incremented((n + d) % NumberMod)
    BY <1>6, <2>9, RemainderPlusOne DEF Incremented
  <2>11. (n + d) % NumberMod # -1
    BY <1>6, <2>9, RemainderTyped DEF Numbers
  <2>. QED BY <1>4, <1>5, <2>3, <2>7, <2>10, <2>11 DEF c, d, n
<1>. QED BY <1>7, <1>8

-----------------------------------------------------------------------------
(* The lists that are sent. *)

\* A first part of a list is a list.
LEMMA FirstPart ==
  ASSUME NEW us \in Seq(Universes), NEW k \in 0 .. Len(us)
  PROVE  /\ SubSeq(us, 1, k) \in Seq(Universes) /\ Len(SubSeq(us, 1, k)) = k
         /\ \A i \in 1 .. k : SubSeq(us, 1, k)[i] = us[i]
<1>1. Len(us) \in Nat /\ \A i \in 1 .. Len(us) : us[i] \in Universes
  BY LenProperties
<1>2. k \in Int /\ 1 \in Int /\ k >= 0 /\ \A i \in 1 .. k : us[i] \in Universes
  BY <1>1
<1>. QED BY <1>2, SubSeqProperties

\* Every packet is in the block of one of the streams.
LEMMA BlockInRange ==
  ASSUME NEW n \in Nat, NEW i \in 1 .. Terminations * n
  PROVE  (i - 1) \div Terminations + 1 \in 1 .. n
<1> DEFINE a == i - 1
           q == a \div Terminations
<1>1. Terminations \in Nat \ {0} /\ Terminations * n \in Nat
  BY SourceAssumption
<1>2. a \in Nat /\ a < Terminations * n
  BY <1>1
<1> HIDE DEF a
<1>3. q \in Nat /\ a % Terminations \in Nat /\ a = Terminations * q + (a % Terminations)
  BY <1>1, <1>2, Division
<1> HIDE DEF q
<1>4. ASSUME n <= q
      PROVE  FALSE
  <2>1. Terminations * n <= Terminations * q /\ Terminations * q \in Nat
    BY <1>1, <1>3, <1>4
  <2>. QED BY <1>1, <1>2, <1>3, <2>1
<1>5. q + 1 \in 1 .. n
  BY <1>3, <1>4
<1>. QED BY <1>5 DEF q, a

AllPackets(list) ==
  [i \in 1 .. Terminations * Len(list) |-> list[(i - 1) \div Terminations + 1]]

\* The streams of a list, each as often as it has termination packets.
LEMMA AllPacketsOf ==
  ASSUME NEW list \in Seq(Universes)
  PROVE  /\ AllPackets(list) \in Seq(Universes)
         /\ Len(AllPackets(list)) = Terminations * Len(list)
         /\ Terminations * Len(list) \in Nat
<1> DEFINE n == Terminations * Len(list)
<1>1. Len(list) \in Nat /\ Terminations \in Nat \ {0} /\ \A i \in 1 .. Len(list) : list[i] \in Universes
  BY LenProperties, SourceAssumption
<1>2. n \in Nat
  BY <1>1
<1>3. ASSUME NEW i \in 1 .. n
      PROVE  (i - 1) \div Terminations + 1 \in 1 .. Len(list)
  BY <1>1, BlockInRange
<1>4. AllPackets(list) \in [1 .. n -> Universes]
  BY <1>1, <1>3 DEF AllPackets
<1> HIDE DEF n
<1>5. AllPackets(list) \in Seq(Universes)
  BY <1>2, <1>4, SeqDef
<1>6. Len(AllPackets(list)) = n
  BY <1>2, <1>4, <1>5, LenProperties
<1>. QED BY <1>2, <1>5, <1>6 DEF n

\* The two ways out of TerminateStreams.
LEMMA TerminateStreamsMoves ==
  ASSUME NEW list \in Seq(Universes), TerminateStreams(list)
  PROVE  \/ /\ data_sequences' = NumbersAfter(AllPackets(list))
            /\ Sends(Packets("terminate", AllPackets(list)))
            /\ universes' = universes \ Range(list) /\ result' = "Ok"
         \/ \E k \in 0 .. Len(AllPackets(list)) - 1 :
              LET us == SubSeq(AllPackets(list), 1, k) IN
              /\ "terminate" \in FailingSends
              /\ data_sequences' = WithoutNumber(NumbersAfter(us), AllPackets(list)[k + 1])
              /\ SendsBut(Packets("terminate", us), {AllPackets(list)[k + 1]})
              /\ universes' = universes \ Range(SubSeq(list, 1, k \div Terminations))
              /\ result' = "Io"
BY DEF TerminateStreams, AllPackets

\* The universes are a list for terminate: each once.
LEMMA AscendingList ==
  ASSUME universes \subseteq Universes, NEW list \in Ascending(universes)
  PROVE  /\ list \in Seq(Universes)
         /\ \A i, j \in 1 .. Len(list) : list[i] = list[j] => i = j
<1> DEFINE n == Cardinality(universes)
<1>1. n \in Nat
  <2>1. IsFiniteSet(universes)
    BY SourceAssumption, FS_Subset
  <2>. QED BY <2>1, FS_CardinalityType
<1>2. list \in [1 .. n -> Universes] /\ \A i, j \in 1 .. n : i < j => list[i] < list[j]
  BY DEF Ascending
<1>3. \A i \in 1 .. n : list[i] \in Nat
  BY <1>2, SourceAssumption
<1> HIDE DEF n
<1>4. list \in Seq(Universes)
  BY <1>1, <1>2, SeqDef
<1>5. Len(list) = n
  BY <1>1, <1>2, <1>4, LenProperties
<1>6. \A i, j \in 1 .. n : list[i] = list[j] => i = j
  BY <1>1, <1>2, <1>3
<1>. QED BY <1>4, <1>5, <1>6

\* A list with one universe.
LEMMA OneUniverseList ==
  ASSUME NEW u \in Universes
  PROVE  /\ <<u>> \in Seq(Universes)
         /\ \A i, j \in 1 .. Len(<<u>>) : <<u>>[i] = <<u>>[j] => i = j
OBVIOUS

\* Every way a step changes the data sequence numbers and the wire.
LEMMA DataMoves ==
  ASSUME TypeOK, [Next]_vars
  PROVE  \/ UNCHANGED vars
         \/ /\ UNCHANGED <<data_sequences, last>>
            /\ \A u \in Universes : OnUniverse(wire', u) = {}
         \/ \E us \in Seq(Universes), kind \in {"data", "terminate"} :
              data_sequences' = NumbersAfter(us) /\ Sends(Packets(kind, us))
         \/ /\ "terminate" \in FailingSends
            /\ \E us \in Seq(Universes) : \E u :
                 /\ data_sequences' = WithoutNumber(NumbersAfter(us), u)
                 /\ SendsBut(Packets("terminate", us), {u})
<1> DEFINE Same == /\ UNCHANGED <<data_sequences, last>>
                   /\ \A u \in Universes : OnUniverse(wire', u) = {}
           Listed == \E us \in Seq(Universes), kind \in {"data", "terminate"} :
                       data_sequences' = NumbersAfter(us) /\ Sends(Packets(kind, us))
           Lost == /\ "terminate" \in FailingSends
                   /\ \E us \in Seq(Universes) : \E u :
                        /\ data_sequences' = WithoutNumber(NumbersAfter(us), u)
                        /\ SendsBut(Packets("terminate", us), {u})
<1>a. Quiet /\ data_sequences' = data_sequences => Same
  BY DEF Quiet, OnUniverse
<1>b. \A r : Fails(r) => Same
  BY <1>a DEF Fails, internal
<1>c. ASSUME NEW d, d.kind \notin {"data", "terminate"}, Sends(<<d>>), UNCHANGED data_sequences
      PROVE  Same
  <2>1. \A u : OnUniverse(<<d>>, u) = {}
    BY <1>c DEF OnUniverse
  <2>2. \A u \in Universes : last'[u] = last[u]
    BY <1>c, <2>1 DEF Sends, SendsBut, NumberBefore
  <2>3. last' = last
    BY <1>c, <2>2 DEF Sends, SendsBut, TypeOK
  <2>. QED BY <1>c, <2>1, <2>3 DEF Sends, SendsBut
<1>d. ASSUME NEW list \in Seq(Universes), TerminateStreams(list)
      PROVE  Listed \/ Lost
  <2>1. AllPackets(list) \in Seq(Universes)
    BY AllPacketsOf
  <2>2. ASSUME NEW k \in 0 .. Len(AllPackets(list)) - 1
        PROVE  SubSeq(AllPackets(list), 1, k) \in Seq(Universes)
    BY <2>1, FirstPart, LenProperties
  <2>. QED BY <1>d, <2>1, <2>2, TerminateStreamsMoves
<1>1. ASSUME NEW u \in Universes, register_universe(u)
      PROVE  Same
  BY <1>1, <1>a, <1>b DEF register_universe
<1>2. ASSUME NEW u \in Universes, send_sync_packet(u)
      PROVE  Same
  <2>1. \A n : Datagram("sync", u, n).kind \notin {"data", "terminate"}
    BY DEF Datagram
  <2>. QED BY <1>2, <1>b, <1>c, <2>1 DEF send_sync_packet
<1>3. ASSUME NEW u \in Universes, terminate_stream(u)
      PROVE  Same \/ Listed \/ Lost
  BY <1>3, <1>b, <1>d, OneUniverseList DEF terminate_stream
<1>4. ASSUME NEW c \in SendCalls, send(c)
      PROVE  Same \/ Listed
  <2>1. CASE ArgumentError(c) # "Ok"
    BY <1>4, <1>b, <2>1 DEF send
  <2>2. CASE ArgumentError(c) = "Ok"
    <3>1. c.universes \in Seq(Universes) /\ c.required \in Nat /\ Len(c.universes) \in Nat
      BY SendAssumption, LenProperties
    <3>2. c.required <= Len(c.universes)
      <4> DEFINE refused == {i \in DOMAIN c.universes : Allowed(c.universes[i]) # "Ok"}
      <4>1. refused \in SUBSET (1 .. Len(c.universes))
        BY <3>1, LenProperties
      <4>2. refused # {} => Min(refused) \in refused
        BY <3>1, <4>1, FirstPosition
      <4>3. refused # {} => Allowed(c.universes[Min(refused)]) # "Ok"
        BY <4>2
      <4>. QED BY <2>2, <3>1, <4>3 DEF ArgumentError
    <3>3. ASSUME NEW k \in 0 .. c.required
          PROVE  SubSeq(c.universes, 1, k) \in Seq(Universes)
      BY <3>1, <3>2, FirstPart
    <3>. QED BY <1>4, <2>2, <3>3 DEF send
  <2>. QED BY <2>1, <2>2
<1>5. ASSUME NEW val \in BOOLEAN, set_is_sending_discovery(val)
      PROVE  Same
  BY <1>5, <1>a DEF set_is_sending_discovery
<1>6. CASE DropStop \/ DropJoin \/ CheckRunning \/ Wake \/ Tick
  BY <1>6, <1>a DEF DropStop, DropJoin, CheckRunning, Wake, Tick, internal
<1>7. CASE DropTerminate
  <2>1. universes \subseteq Universes
    BY SourceAssumption DEF TypeOK
  <2>. QED BY <1>7, <1>d, <2>1, AscendingList DEF DropTerminate
<1>8. CASE perform_periodic_update
  <2>1. [kind |-> "discovery", universes |-> universes].kind \notin {"data", "terminate"}
    OBVIOUS
  <2>. QED BY <1>8, <1>a, <1>c, <2>1 DEF perform_periodic_update, SendAdvert, AdvertFails
<1>. QED BY <1>1, <1>2, <1>3, <1>4, <1>5, <1>6, <1>7, <1>8 DEF Next

-----------------------------------------------------------------------------
(* Types. *)

\* Of the type invariant, what is not about sequence numbers.
Control ==
  /\ user \in {"calls", "stopped", "terminated", "dropped"}
  /\ thread \in {"check", "sleep", "update", "done"} /\ nap \in 0 .. PollPeriod
  /\ universes \subseteq Legal /\ running \in BOOLEAN /\ is_sending_discovery \in BOOLEAN
  /\ since \in Nat /\ deadline \in Int /\ result \in Results

\* TypeOK is that and the sequence numbers.
LEMMA TypeParts == TypeOK <=> Control /\ SequencesTyped
BY DEF TypeOK, Control, SequencesTyped

\* Terminating streams only takes universes out.
LEMMA TerminateStreamsControl ==
  ASSUME NEW list, TerminateStreams(list)
  PROVE  universes' \subseteq universes /\ result' \in {"Ok", "Io"}
BY DEF TerminateStreams

\* The threads' places, the list of universes and the clocks keep their types.
LEMMA ControlStep ==
  ASSUME TypeOK, [Next]_vars
  PROVE  Control'
<1>a. Control
  BY TypeParts
<1>b. \A u : Allowed(u) \in Results
  BY DEF Allowed, Results
<1>c. \A c : ArgumentError(c) \in Results
  BY <1>b DEF ArgumentError, Results
<1>d. {"Ok", "Io", "IllegalUniverse"} \subseteq Results
  BY DEF Results
<1>e. \A r \in Results : Fails(r) /\ UNCHANGED <<user, thread, nap>> => Control'
  BY <1>a DEF Control, adverts, Fails, internal
<1> HIDE DEF Results
<1>1. ASSUME NEW u \in Universes, register_universe(u)
      PROVE  Control'
  BY <1>1, <1>a, <1>d, <1>e DEF register_universe, Calls, Control, adverts
<1>2. ASSUME NEW u \in Universes, send_sync_packet(u)
      PROVE  Control'
  BY <1>2, <1>a, <1>b, <1>d, <1>e DEF send_sync_packet, Calls, Control, adverts
<1>3. ASSUME NEW u \in Universes, terminate_stream(u)
      PROVE  Control'
  <2>1. CASE TerminateStreams(<<u>>) /\ UNCHANGED <<running, is_sending_discovery, sync_sequences, adverts>>
    BY <1>3, <1>a, <1>d, <2>1, TerminateStreamsControl DEF terminate_stream, Calls, Control, adverts
  <2>2. CASE Fails(Allowed(u))
    BY <1>3, <1>b, <1>e, <2>2 DEF terminate_stream, Calls
  <2>. QED BY <1>3, <2>1, <2>2 DEF terminate_stream
<1>4. ASSUME NEW c \in SendCalls, send(c)
      PROVE  Control'
  <2>1. CASE Fails(ArgumentError(c))
    BY <1>4, <1>c, <1>e, <2>1 DEF send
  <2>2. CASE /\ result' \in {"Io", "Ok"}
             /\ UNCHANGED <<universes, running, is_sending_discovery, sync_sequences, adverts>>
    BY <1>4, <1>a, <1>d, <2>2 DEF send, Control, adverts
  <2>. QED BY <1>4, <2>1, <2>2 DEF send
<1>5. ASSUME NEW val \in BOOLEAN, set_is_sending_discovery(val)
      PROVE  Control'
  BY <1>5, <1>a, <1>d, SourceAssumption DEF set_is_sending_discovery, Calls, Control, adverts
<1>6. CASE DropStop \/ DropJoin
  BY <1>6, <1>a, <1>d DEF DropStop, DropJoin, internal, Control, adverts
<1>7. CASE DropTerminate
  <2>1. PICK list \in Ascending(universes) : TerminateStreams(list)
    BY <1>7 DEF DropTerminate
  <2>. QED BY <1>7, <1>a, <1>d, <2>1, TerminateStreamsControl DEF DropTerminate, Control, adverts
<1>8. CASE CheckRunning \/ Wake \/ Tick \/ perform_periodic_update
  <2>1. /\ PollPeriod \in Nat /\ AdvertInterval \in Nat /\ nap \in Nat /\ nap <= PollPeriod
        /\ since \in Nat /\ deadline \in Int
    BY <1>a, SourceAssumption DEF Control
  <2>2. nap' \in 0 .. PollPeriod
    BY <1>8, <2>1 DEF CheckRunning, Wake, Tick, perform_periodic_update
  <2>3. since' \in Nat /\ deadline' \in Int
    BY <1>8, <2>1 DEF CheckRunning, Wake, Tick, perform_periodic_update, SendAdvert, AdvertFails,
                      internal, adverts
  <2>4. thread' \in {"check", "sleep", "update", "done"}
    BY <1>8, <1>a DEF CheckRunning, Wake, Tick, perform_periodic_update, Control, adverts
  <2>5. UNCHANGED <<user, universes, running, is_sending_discovery, result>>
    BY <1>8 DEF CheckRunning, Wake, Tick, perform_periodic_update, internal
  <2>. QED BY <1>a, <2>2, <2>3, <2>4, <2>5 DEF Control, adverts
<1>9. CASE UNCHANGED vars
  BY <1>9, <1>a DEF vars, internal, Control, adverts
<1>. QED BY <1>1, <1>2, <1>3, <1>4, <1>5, <1>6, <1>7, <1>8, <1>9 DEF Next

\* Only send_sync_packet changes the numbers of synchronisation packets.
LEMMA SyncMoves ==
  ASSUME [Next]_vars
  PROVE  \/ UNCHANGED sync_sequences
         \/ \E u \in Universes :
              sync_sequences' =
                [v \in DOMAIN sync_sequences \cup {u} |->
                   IF v = u THEN Incremented(NextNumber(sync_sequences, u)) ELSE sync_sequences[v]]
BY DEF Next, vars, internal, register_universe, send_sync_packet, terminate_stream, send,
       set_is_sending_discovery, DropStop, DropTerminate, DropJoin, CheckRunning, Wake,
       perform_periodic_update, Tick, Fails

\* The numbers keep their type.
LEMMA SequencesStep ==
  ASSUME TypeOK, [Next]_vars
  PROVE  SequencesTyped'
<1>a. SequencesTyped
  BY TypeParts
<1>1. DOMAIN sync_sequences' \subseteq Universes /\ \A u \in DOMAIN sync_sequences' : sync_sequences'[u] \in Numbers
  <2>1. CASE UNCHANGED sync_sequences
    BY <1>a, <2>1 DEF SequencesTyped
  <2>2. ASSUME NEW u \in Universes,
               sync_sequences' =
                 [v \in DOMAIN sync_sequences \cup {u} |->
                    IF v = u THEN Incremented(NextNumber(sync_sequences, u)) ELSE sync_sequences[v]]
        PROVE  DOMAIN sync_sequences' \subseteq Universes /\ \A v \in DOMAIN sync_sequences' : sync_sequences'[v] \in Numbers
    <3>1. NextNumber(sync_sequences, u) \in Numbers
      BY <1>a, NextNumberTyped
    <3>2. NextNumber(sync_sequences, u) + 1 \in Nat
      BY <3>1, SourceAssumption DEF Numbers
    <3>3. Incremented(NextNumber(sync_sequences, u)) \in Numbers
      BY <3>2, RemainderTyped DEF Incremented
    <3>. QED BY <1>a, <2>2, <3>3 DEF SequencesTyped
  <2>. QED BY <2>1, <2>2, SyncMoves
<1>2. ASSUME data_sequences' = data_sequences, last' = last
      PROVE  SequencesTyped'
  BY <1>a, <1>1, <1>2 DEF SequencesTyped
<1>3. ASSUME NEW us \in Seq(Universes), NEW kind \in {"data", "terminate"},
             data_sequences' = NumbersAfter(us), Sends(Packets(kind, us))
      PROVE  SequencesTyped'
  <2>1. SendsBut(Packets(kind, us), {})
    BY <1>3 DEF Sends
  <2>2. last' \in [Universes -> Numbers \cup {-1}]
    BY <1>a, <2>1, ListSent
  <2>. QED BY <1>a, <1>1, <1>3, <2>2, NumbersAfterTyped DEF SequencesTyped
<1>4. ASSUME NEW us \in Seq(Universes), NEW u,
             data_sequences' = WithoutNumber(NumbersAfter(us), u),
             SendsBut(Packets("terminate", us), {u})
      PROVE  SequencesTyped'
  <2>1. last' \in [Universes -> Numbers \cup {-1}]
    BY <1>a, <1>4, ListSent
  <2>2. /\ DOMAIN NumbersAfter(us) \subseteq Universes
        /\ \A v \in DOMAIN NumbersAfter(us) : NumbersAfter(us)[v] \in Numbers
    BY <1>a, NumbersAfterTyped
  <2>3. /\ DOMAIN data_sequences' \subseteq Universes
        /\ \A v \in DOMAIN data_sequences' : data_sequences'[v] \in Numbers
    BY <1>4, <2>2 DEF WithoutNumber, Restrict
  <2>. QED BY <1>1, <2>1, <2>3 DEF SequencesTyped
<1>. QED BY <1>2, <1>3, <1>4, DataMoves DEF vars, internal

\* Nothing is registered or sent at first.
LEMMA InitType == Init => TypeOK
BY SourceAssumption DEF Init, TypeOK, EmptyMap, Results, Numbers

\* The numbers stay those of a u8, the list of universes one of legal
\* universes, and each thread at one of its steps (SacnSourceInternal, source.rs).
THEOREM SourceTypeCorrect == Spec => []TypeOK
<1>1. TypeOK /\ [Next]_vars => TypeOK'
  <2>1. ASSUME TypeOK, [Next]_vars
        PROVE  TypeOK'
    <3>1. Control' /\ SequencesTyped'
      BY <2>1, ControlStep, SequencesStep
    <3>. QED BY <3>1 DEF TypeOK, Control, SequencesTyped
  <2>. QED BY <2>1
<1>. QED BY <1>1, InitType, PTL DEF Spec

-----------------------------------------------------------------------------
(* Sequence numbers. *)

\* Nothing was sent at first.
LEMMA InitNumbers == Init => NextNumberFollows /\ UnsentHaveNoNumber
BY DEF Init, NextNumberFollows, UnsentHaveNoNumber, EmptyMap

\* A step leaves the map one number ahead of the wire, and what it sends
\* follows what was sent.
LEMMA NumbersStep ==
  ASSUME TypeOK, NextNumberFollows, UnsentHaveNoNumber, [Next]_vars
  PROVE  /\ NextNumberFollows' /\ UnsentHaveNoNumber'
         /\ Consecutive \/ UNCHANGED vars
<1>1. SequencesTyped
  BY TypeParts
<1>2. ASSUME data_sequences' = data_sequences, last' = last
      PROVE  NextNumberFollows' /\ UnsentHaveNoNumber'
  BY <1>2 DEF NextNumberFollows, UnsentHaveNoNumber
<1>3. CASE UNCHANGED vars
  BY <1>2, <1>3 DEF vars, internal
<1>4. CASE /\ UNCHANGED <<data_sequences, last>>
           /\ \A u \in Universes : OnUniverse(wire', u) = {}
  BY <1>2, <1>4 DEF Consecutive
<1>5. ASSUME NEW us \in Seq(Universes), NEW kind \in {"data", "terminate"},
             data_sequences' = NumbersAfter(us), Sends(Packets(kind, us))
      PROVE  NextNumberFollows' /\ UnsentHaveNoNumber' /\ Consecutive
  <2>1. SendsBut(Packets(kind, us), {}) /\ wire' = Packets(kind, us)
    BY <1>5 DEF Sends, SendsBut
  <2>2. ASSUME NEW u \in Universes
        PROVE  /\ last'[u] # -1 => NextNumber(data_sequences', u) = Incremented(last'[u])
               /\ last'[u] = -1 => u \notin DOMAIN data_sequences'
    BY <1>1, <1>5, <2>1, ListFollows
  <2>3. NextNumberFollows' /\ UnsentHaveNoNumber'
    BY <2>2 DEF NextNumberFollows, UnsentHaveNoNumber
  <2>. QED BY <1>1, <2>1, <2>3, ListConsecutive
<1>6. ASSUME NEW us \in Seq(Universes), NEW w,
             data_sequences' = WithoutNumber(NumbersAfter(us), w),
             SendsBut(Packets("terminate", us), {w})
      PROVE  NextNumberFollows' /\ UnsentHaveNoNumber' /\ Consecutive
  <2>1. wire' = Packets("terminate", us) /\ (w \in Universes => last'[w] = -1)
    BY <1>6 DEF SendsBut
  <2>2. /\ DOMAIN data_sequences' = DOMAIN NumbersAfter(us) \ {w}
        /\ \A u \in DOMAIN data_sequences' : data_sequences'[u] = NumbersAfter(us)[u]
    BY <1>6 DEF WithoutNumber, Restrict
  <2>3. ASSUME NEW u \in Universes
        PROVE  /\ last'[u] # -1 => NextNumber(data_sequences', u) = Incremented(last'[u])
               /\ last'[u] = -1 => u \notin DOMAIN data_sequences'
    <3>1. CASE u = w
      BY <2>1, <2>2, <3>1
    <3>2. CASE u # w
      <4>1. /\ last'[u] # -1 => NextNumber(NumbersAfter(us), u) = Incremented(last'[u])
            /\ last'[u] = -1 => u \notin DOMAIN NumbersAfter(us)
        BY <1>1, <1>6, <3>2, ListFollows
      <4>2. NextNumber(data_sequences', u) = NextNumber(NumbersAfter(us), u)
        BY <2>2, <3>2 DEF NextNumber
      <4>. QED BY <2>2, <4>1, <4>2
    <3>. QED BY <3>1, <3>2
  <2>4. NextNumberFollows' /\ UnsentHaveNoNumber'
    BY <2>3 DEF NextNumberFollows, UnsentHaveNoNumber
  <2>. QED BY <1>1, <2>1, <2>4, ListConsecutive
<1>. QED BY <1>3, <1>4, <1>5, <1>6, DataMoves

\* data_sequences holds the number after the last one sent on a universe
\* (send_universe and send_terminate_stream_pkt, source.rs), through data,
\* terminations, failures and new registrations, until a termination packet
\* that cannot be sent takes the number with it.
THEOREM NumbersFollow == Spec => []NextNumberFollows
<1>1. TypeOK /\ NextNumberFollows /\ UnsentHaveNoNumber /\ [Next]_vars
        => NextNumberFollows' /\ UnsentHaveNoNumber'
  BY NumbersStep
<1>. QED BY <1>1, InitNumbers, SourceTypeCorrect, PTL DEF Spec

\* Data and termination packets of a universe leave with consecutive numbers,
\* from the starting number on (send, source.rs), whatever one call sends and
\* whichever of its datagrams fail; after a termination packet that could not
\* be sent they start again.
THEOREM NumbersAreConsecutive == Spec => ConsecutiveNumbers
<1>1. TypeOK /\ NextNumberFollows /\ UnsentHaveNoNumber /\ [Next]_vars
        => NextNumberFollows' /\ UnsentHaveNoNumber' /\ [Consecutive]_vars
  BY NumbersStep
<1>. QED BY <1>1, InitNumbers, SourceTypeCorrect, PTL DEF Spec, ConsecutiveNumbers, Consecutive

-----------------------------------------------------------------------------
(* Adverts. *)

\* The time left at each step of the update thread; an advert is due whenever
\* less than a poll is left.
AdvertsInv ==
  /\ deadline >= -1 /\ deadline + since >= AdvertInterval + PollPeriod
  /\ is_sending_discovery =>
       /\ thread = "check" => deadline >= PollPeriod
       /\ thread = "sleep" => deadline >= nap
       /\ thread = "update" => deadline >= 0

\* The thread polls before it sleeps, and an update leaves no advert due.
LEMMA AdvertsStep ==
  ASSUME TypeOK, AdvertsInv, [Next]_vars
  PROVE  AdvertsInv'
<1>1. /\ PollPeriod \in Nat /\ AdvertInterval \in Nat /\ since \in Nat /\ nap \in Nat
      /\ nap <= PollPeriod /\ deadline \in Int
  BY SourceAssumption DEF TypeOK
<1>2. CASE UNCHANGED <<thread, nap, since, deadline, is_sending_discovery>>
  BY <1>2 DEF AdvertsInv
<1>3. CASE CheckRunning
  <2>1. UNCHANGED <<since, deadline, is_sending_discovery>>
    BY <1>3 DEF CheckRunning, internal, adverts
  <2>. QED BY <1>1, <1>3, <2>1 DEF CheckRunning, AdvertsInv
<1>4. CASE Wake
  <2>1. UNCHANGED <<since, deadline, is_sending_discovery>>
    BY <1>4 DEF Wake, internal, adverts
  <2>. QED BY <1>1, <1>4, <2>1 DEF Wake, AdvertsInv
<1>5. CASE perform_periodic_update
  <2>1. thread = "update" /\ thread' = "check" /\ UNCHANGED is_sending_discovery
    BY <1>5 DEF perform_periodic_update
  <2>2. CASE ~ AdvertIsDue /\ UNCHANGED adverts
    BY <1>1, <2>1, <2>2 DEF AdvertIsDue, adverts, AdvertsInv
  <2>3. CASE AdvertIsDue /\ (SendAdvert \/ AdvertFails)
    BY <1>1, <2>1, <2>3 DEF AdvertIsDue, SendAdvert, AdvertFails, AdvertsInv
  <2>. QED BY <1>5, <2>2, <2>3 DEF perform_periodic_update
<1>6. CASE Tick
  BY <1>1, <1>6 DEF Tick, AdvertsInv
<1>7. ASSUME NEW val \in BOOLEAN, set_is_sending_discovery(val)
      PROVE  AdvertsInv'
  BY <1>1, <1>7 DEF set_is_sending_discovery, Calls, AdvertsInv
<1>8. CASE \/ \E u \in Universes : register_universe(u) \/ send_sync_packet(u) \/ terminate_stream(u)
           \/ \E c \in SendCalls : send(c)
           \/ DropStop \/ DropTerminate \/ DropJoin \/ UNCHANGED vars
  <2>1. UNCHANGED <<thread, nap, since, deadline, is_sending_discovery>>
    BY <1>8 DEF register_universe, send_sync_packet, terminate_stream, send, Calls, Fails,
                DropStop, DropTerminate, DropJoin, vars, internal, adverts
  <2>. QED BY <1>2, <2>1
<1>. QED BY <1>3, <1>4, <1>5, <1>6, <1>7, <1>8 DEF Next

\* As long as adverts are on, one leaves or is tried at most a poll period
\* after the interval, and again at most a poll period after one that failed
\* (perform_periodic_update and the update thread of with_cid_ip, source.rs),
\* however the two threads interleave.
THEOREM AdvertsLeaveOnTime == Spec => []AdvertsOnTime
<1>1. Init => AdvertsInv
  BY SourceAssumption DEF Init, AdvertsInv
<1>2. TypeOK /\ AdvertsInv /\ [Next]_vars => AdvertsInv'
  BY AdvertsStep
<1>3. TypeOK /\ AdvertsInv => AdvertsOnTime
  <2>1. TypeOK => /\ PollPeriod \in Nat /\ deadline \in Int /\ nap \in Nat
                  /\ thread \in {"check", "sleep", "update", "done"}
    BY SourceAssumption DEF TypeOK
  <2>. QED BY <2>1 DEF AdvertsInv, AdvertsOnTime
<1>. QED BY <1>1, <1>2, <1>3, SourceTypeCorrect, PTL DEF Spec

-----------------------------------------------------------------------------
(* Terminations. *)

\* The termination packets of the j-th stream of a list, when all of them
\* are among the first k.
LEMMA BlockOf ==
  ASSUME NEW list \in Seq(Universes), NEW j \in 1 .. Len(list),
         \A h, i \in 1 .. Len(list) : list[h] = list[i] => h = i,
         NEW k \in 0 .. Terminations * Len(list), Terminations * j <= k
  PROVE  Cardinality(Upto(AllPackets(list), list[j], k)) = Terminations
<1> DEFINE first == Terminations * (j - 1) + 1
           final == Terminations * j
<1>1. Len(list) \in Nat /\ Terminations \in Nat \ {0} /\ Terminations * Len(list) \in Nat
  BY LenProperties, AllPacketsOf, SourceAssumption
<1>2. first \in Nat \ {0} /\ final \in Nat /\ final = first + Terminations - 1
  BY <1>1
<1>3. \A i \in 1 .. k : /\ i \in Nat \ {0} /\ i \in 1 .. Terminations * Len(list)
                        /\ AllPackets(list)[i] = list[(i - 1) \div Terminations + 1]
  BY <1>1 DEF AllPackets
<1>4. ASSUME NEW i \in 1 .. k
      PROVE  AllPackets(list)[i] = list[j] <=> i \in first .. final
  <2>1. (i - 1) \div Terminations + 1 \in 1 .. Len(list)
    BY <1>1, <1>3, BlockInRange
  <2>2. AllPackets(list)[i] = list[j] <=> (i - 1) \div Terminations + 1 = j
    BY <1>3, <2>1
  <2>3. (i - 1) \div Terminations + 1 = j <=> i \in first .. final
    <3>1. j \in Nat \ {0} /\ i \in Nat \ {0}
      BY <1>1, <1>3
    <3>. QED BY <1>1, <3>1, Blocks
  <2>. QED BY <2>2, <2>3
<1> HIDE DEF first
<1>5. final <= k /\ k \in Nat
  BY <1>1
<1> HIDE DEF final
<1>6. Upto(AllPackets(list), list[j], k) = first .. final
  <2>1. first .. final \subseteq 1 .. k
    BY <1>2, <1>5
  <2>. QED BY <1>4, <2>1 DEF Upto
<1>7. Cardinality(first .. final) = final - first + 1
  <2>1. first \in Int /\ final \in Int /\ ~ (first > final)
    BY <1>1, <1>2
  <2>. QED BY <2>1, FS_Interval
<1>. QED BY <1>1, <1>2, <1>6, <1>7

Terminated ==
  \A u \in universes \ universes' : Cardinality(TerminationsOf(wire', u)) = Terminations

\* TerminateStreams takes out of the list only what it terminated whole.
LEMMA StreamsTerminated ==
  ASSUME NEW list \in Seq(Universes), TerminateStreams(list),
         \A h, i \in 1 .. Len(list) : list[h] = list[i] => h = i
  PROVE  Terminated
<1> DEFINE all == AllPackets(list)
<1>1. /\ all \in Seq(Universes) /\ Len(all) = Terminations * Len(list)
      /\ Len(all) \in Nat /\ Len(list) \in Nat /\ Terminations \in Nat \ {0}
  BY AllPacketsOf, LenProperties, SourceAssumption
<1>2. ASSUME NEW us \in Seq(Universes), NEW u
      PROVE  TerminationsOf(Packets("terminate", us), u) = Upto(us, u, Len(us))
  <2> DEFINE w == Packets("terminate", us)
  <2>1. DOMAIN w = 1 .. Len(us) /\ \A i \in 1 .. Len(us) : w[i].kind = "terminate" /\ w[i].universe = us[i]
    BY PacketsOf
  <2> HIDE DEF w
  <2>2. TerminationsOf(w, u) = Upto(us, u, Len(us))
    BY <2>1 DEF TerminationsOf, Upto
  <2>. QED BY <2>2 DEF w
<1> HIDE DEF all
<1>3. CASE /\ Sends(Packets("terminate", all))
           /\ universes' = universes \ Range(list)
  <2> SUFFICES ASSUME NEW u \in universes \ universes'
               PROVE  Cardinality(TerminationsOf(wire', u)) = Terminations
    BY DEF Terminated
  <2>1. PICK j \in 1 .. Len(list) : list[j] = u
    BY <1>3, LenProperties DEF Range
  <2>2. Len(all) \in 0 .. Terminations * Len(list) /\ Terminations * j <= Len(all)
    BY <1>1
  <2>3. Cardinality(Upto(all, u, Len(all))) = Terminations
    BY <2>1, <2>2, BlockOf DEF all
  <2>. QED BY <1>1, <1>2, <1>3, <2>3 DEF Sends, SendsBut
<1>4. ASSUME NEW k \in 0 .. Len(all) - 1,
             wire' = Packets("terminate", SubSeq(all, 1, k)),
             universes' = universes \ Range(SubSeq(list, 1, k \div Terminations))
      PROVE  Terminated
  <2> SUFFICES ASSUME NEW u \in universes \ universes'
               PROVE  Cardinality(TerminationsOf(wire', u)) = Terminations
    BY DEF Terminated
  <2> DEFINE us == SubSeq(all, 1, k)
             q == k \div Terminations
  <2>1. k \in Nat /\ k \in 0 .. Len(all) /\ k < Terminations * Len(list)
    BY <1>1
  <2>2. us \in Seq(Universes) /\ Len(us) = k /\ \A i \in 1 .. k : us[i] = all[i]
    BY <1>1, <2>1, FirstPart
  <2>3. q \in Nat /\ k % Terminations \in Nat /\ k = Terminations * q + (k % Terminations)
    <3>1. /\ k = Terminations * (k \div Terminations) + (k % Terminations)
          /\ k % Terminations \in 0 .. Terminations - 1 /\ k \div Terminations \in Nat
      BY <1>1, <2>1, Division
    <3>. QED BY <1>1, <3>1
  <2> HIDE DEF us, q
  <2>4. q \in 0 .. Len(list)
    <3>1. ASSUME Len(list) <= q
          PROVE  FALSE
      <4>1. Terminations * Len(list) <= Terminations * q /\ Terminations * q \in Nat
        BY <1>1, <2>3, <3>1
      <4>. QED BY <1>1, <2>1, <2>3, <4>1
    <3>. QED BY <1>1, <2>3, <3>1
  <2>5. PICK j \in 1 .. q : list[j] = u
    <3> DEFINE done == SubSeq(list, 1, q)
    <3>1. done \in Seq(Universes) /\ Len(done) = q /\ \A i \in 1 .. q : done[i] = list[i]
      BY <2>4, FirstPart
    <3>2. DOMAIN done = 1 .. q
      BY <3>1, LenProperties
    <3>3. u \in Range(done)
      BY <1>4 DEF q
    <3> HIDE DEF done
    <3>. QED BY <3>1, <3>2, <3>3 DEF Range
  <2>6. j \in 1 .. Len(list)
    BY <1>1, <2>4
  <2>7. Terminations * j <= k
    <3>1. Terminations * j <= Terminations * q /\ Terminations * q \in Nat /\ Terminations * j \in Nat
      BY <1>1, <2>3, <2>5
    <3>. QED BY <2>1, <2>3, <3>1
  <2>8. Cardinality(Upto(all, u, k)) = Terminations
    <3>1. k \in 0 .. Terminations * Len(list)
      BY <1>1, <2>1
    <3>. QED BY <2>5, <2>6, <2>7, <3>1, BlockOf DEF all
  <2>9. Upto(us, u, k) = Upto(all, u, k)
    BY <2>2 DEF Upto
  <2>10. wire' = Packets("terminate", us)
    BY <1>4 DEF us
  <2>. QED BY <1>2, <2>2, <2>8, <2>9, <2>10
<1>. QED BY <1>3, <1>4, TerminateStreamsMoves DEF all, SendsBut

\* Only TerminateStreams takes universes out of the list.
LEMMA TerminatedStep ==
  ASSUME TypeOK, [Next]_vars
  PROVE  Terminated
<1>a. universes \subseteq universes' => Terminated
  BY DEF Terminated
<1>b. \A r : Fails(r) => Terminated
  BY <1>a DEF Fails, internal
<1>1. ASSUME NEW u \in Universes, terminate_stream(u)
      PROVE  Terminated
  BY <1>1, <1>b, OneUniverseList, StreamsTerminated DEF terminate_stream
<1>2. CASE DropTerminate
  <2>1. universes \subseteq Universes
    BY SourceAssumption DEF TypeOK
  <2>2. PICK list \in Ascending(universes) : TerminateStreams(list)
    BY <1>2 DEF DropTerminate
  <2>. QED BY <2>1, <2>2, AscendingList, StreamsTerminated
<1>3. CASE \/ \E u \in Universes : register_universe(u) \/ send_sync_packet(u)
           \/ \E c \in SendCalls : send(c)
           \/ \E val \in BOOLEAN : set_is_sending_discovery(val)
           \/ DropStop \/ DropJoin \/ CheckRunning \/ Wake \/ perform_periodic_update \/ Tick
           \/ UNCHANGED vars
  <2>1. universes \subseteq universes'
    BY <1>3 DEF register_universe, send_sync_packet, send, set_is_sending_discovery, Fails,
                DropStop, DropJoin, CheckRunning, Wake, perform_periodic_update, Tick, vars,
                internal
  <2>. QED BY <1>a, <2>1
<1>. QED BY <1>1, <1>2, <1>3 DEF Next

\* A universe leaves the list only when all its termination packets have left
\* in the same call (terminate_stream and terminate, source.rs), whichever
\* send_to fails: a receiver is never left with a stream no source lists.
THEOREM DeregisteredAreTerminated == Spec => DeregisteredWasTerminated
<1>1. TypeOK /\ [Next]_vars => [Terminated]_vars
  BY TerminatedStep
<1>. QED BY <1>1, SourceTypeCorrect, PTL DEF Spec, DeregisteredWasTerminated, Terminated

=============================================================================
