----------------------- MODULE DiscoveryRecords_proofs -----------------------
(***************************************************************************)
(* What the operations on the records of discovered sources preserve, for  *)
(* every set of universes and every number of pages.                       *)
(***************************************************************************)
EXTENDS DiscoveryRecords, SequenceTheorems, FiniteSetTheorems, TLAPS

Pages(U) == [page : Nat, universes : SUBSET U]

Records(U) == [pages : Seq(Pages(U)), last_page : Nat, age : AgeValues]

\* The pages of a record are in the order that has_all_pages sorts them in.
Sorted(pages) ==
  \A i, j \in DOMAIN pages : i <= j => pages[i].page <= pages[j].page

\* Every page up to the last one is there.
Complete(src) ==
  \A i \in 0 .. src.last_page : \E k \in DOMAIN src.pages : src.pages[k].page = i

-----------------------------------------------------------------------------
(* Pages. *)

\* An initial segment of the naturals from 1 is counted by its last element.
LEMMA InitialSegment ==
  ASSUME NEW n \in Nat, NEW S \in SUBSET (1 .. n),
         \A i \in S : \A j \in 1 .. i : j \in S
  PROVE  S = 1 .. Cardinality(S)
<1> DEFINE m == Cardinality(S)
<1>1. IsFiniteSet(1 .. n)
  BY 1 \in Int, n \in Int, FS_Interval
<1>2. IsFiniteSet(S) /\ m \in Nat
  BY <1>1, FS_Subset, FS_CardinalityType
<1>3. S \subseteq 1 .. m
  <2> SUFFICES ASSUME NEW i \in S
               PROVE  i \in 1 .. m
    OBVIOUS
  <2>1. i \in Nat /\ i >= 1 /\ (1 .. i) \subseteq S
    OBVIOUS
  <2>2. Cardinality(1 .. i) = i
    BY <2>1, 1 \in Int, i \in Int, FS_Interval
  <2>3. Cardinality(1 .. i) <= m
    BY <1>2, <2>1, FS_Subset
  <2>. QED BY <1>2, <2>1, <2>2, <2>3
<1>4. IsFiniteSet(1 .. m) /\ Cardinality(1 .. m) = m
  <2> HIDE DEF m
  <2>1. m \in Int /\ m >= 0
    BY <1>2
  <2>. QED BY <2>1, 1 \in Int, FS_Interval
<1>. QED BY <1>3, <1>4, FS_Subset

\* A page is put after some of the pages there are, before the others.
LEMMA WithPageIsInsertion ==
  ASSUME NEW U, NEW pages \in Seq(Pages(U)), NEW p \in Pages(U)
  PROVE  /\ WithPage(pages, p) \in Seq(Pages(U))
         /\ \E k \in 0 .. Len(pages) :
              /\ k = Cardinality({i \in DOMAIN pages : pages[i].page <= p.page})
              /\ DOMAIN WithPage(pages, p) = 1 .. Len(pages) + 1
              /\ \A i \in 1 .. Len(pages) + 1 :
                   WithPage(pages, p)[i] =
                     IF i <= k THEN pages[i] ELSE IF i = k + 1 THEN p ELSE pages[i - 1]
<1> DEFINE low == {i \in DOMAIN pages : pages[i].page <= p.page}
           k == Cardinality(low)
           n == Len(pages)
           front == SubSeq(pages, 1, k)
           back == SubSeq(pages, k + 1, n)
<1>1. n \in Nat /\ DOMAIN pages = 1 .. n /\ \A i \in 1 .. n : pages[i] \in Pages(U)
  BY LenProperties
<1>2. k \in 0 .. n
  <2>1. IsFiniteSet(1 .. n) /\ Cardinality(1 .. n) = n
    <3> HIDE DEF n
    <3>1. n \in Int /\ n >= 0
      BY <1>1
    <3>. QED BY <3>1, 1 \in Int, FS_Interval
  <2>2. IsFiniteSet(low) /\ k <= n
    BY <1>1, <2>1, FS_Subset
  <2>3. k \in Nat
    BY <2>2, FS_CardinalityType
  <2>. QED BY <1>1, <2>2, <2>3
<1> HIDE DEF k, n
<1>3. /\ front \in Seq(Pages(U)) /\ Len(front) = k
      /\ \A i \in 1 .. k : front[i] = pages[i]
  BY <1>1, <1>2, SubSeqProperties
<1>4. /\ back \in Seq(Pages(U)) /\ Len(back) = n - k
      /\ \A i \in 1 .. n - k : back[i] = pages[k + i]
  <2>1. \A i \in k + 1 .. n : pages[i] \in Pages(U)
    BY <1>1, <1>2
  <2>2. k + 1 \in Int /\ n \in Int
    BY <1>1, <1>2
  <2>3. /\ back \in Seq(Pages(U))
        /\ Len(back) = IF k + 1 <= n THEN n - (k + 1) + 1 ELSE 0
        /\ \A i \in 1 .. n - (k + 1) + 1 : back[i] = pages[k + 1 + i - 1]
    BY <2>1, <2>2, SubSeqProperties
  <2>. QED BY <1>1, <1>2, <2>3
<1> HIDE DEF front, back
<1>5. <<p>> \in Seq(Pages(U)) /\ Len(<<p>>) = 1 /\ <<p>>[1] = p
  OBVIOUS
<1>6. /\ front \o <<p>> \in Seq(Pages(U)) /\ Len(front \o <<p>>) = k + 1
      /\ \A i \in 1 .. k + 1 : (front \o <<p>>)[i] = IF i <= k THEN pages[i] ELSE p
  <2>1. /\ front \o <<p>> \in Seq(Pages(U))
        /\ Len(front \o <<p>>) = k + 1
        /\ \A i \in 1 .. k + 1 :
             (front \o <<p>>)[i] = IF i <= k THEN front[i] ELSE <<p>>[i - k]
    BY <1>3, <1>5, ConcatProperties
  <2>. QED BY <1>2, <1>3, <2>1
<1> DEFINE pre == front \o <<p>>
<1> HIDE DEF pre
<1>7. /\ pre \o back \in Seq(Pages(U)) /\ Len(pre \o back) = n + 1
      /\ \A i \in 1 .. n + 1 :
           (pre \o back)[i] = IF i <= k + 1 THEN pre[i] ELSE back[i - (k + 1)]
  <2>1. pre \in Seq(Pages(U)) /\ Len(pre) = k + 1
    BY <1>6 DEF pre
  <2>2. /\ pre \o back \in Seq(Pages(U)) /\ Len(pre \o back) = (k + 1) + (n - k)
        /\ \A i \in 1 .. (k + 1) + (n - k) :
             (pre \o back)[i] = IF i <= k + 1 THEN pre[i] ELSE back[i - (k + 1)]
    <3>1. /\ pre \o back \in Seq(Pages(U)) /\ Len(pre \o back) = Len(pre) + Len(back)
          /\ \A i \in 1 .. Len(pre) + Len(back) :
               (pre \o back)[i] = IF i <= Len(pre) THEN pre[i] ELSE back[i - Len(pre)]
      BY <1>4, <2>1, ConcatProperties
    <3>. QED BY <1>4, <2>1, <3>1
  <2>. QED BY <1>1, <1>2, <2>2
<1>8. WithPage(pages, p) = pre \o back
  BY DEF WithPage, pre, front, back, k, n
<1>9. DOMAIN (pre \o back) = 1 .. n + 1
  BY <1>7, LenProperties
<1>10. ASSUME NEW i \in 1 .. n + 1
       PROVE  (pre \o back)[i] =
                IF i <= k THEN pages[i] ELSE IF i = k + 1 THEN p ELSE pages[i - 1]
  <2>1. CASE i <= k + 1
    <3>1. i \in 1 .. k + 1
      BY <1>1, <1>2, <2>1
    <3>2. (pre \o back)[i] = pre[i]
      BY <1>7, <2>1
    <3>3. pre[i] = IF i <= k THEN pages[i] ELSE p
      BY <1>6, <3>1 DEF pre
    <3>. QED BY <1>1, <1>2, <2>1, <3>2, <3>3
  <2>2. CASE i > k + 1
    <3>1. i - (k + 1) \in 1 .. n - k /\ k + (i - (k + 1)) = i - 1
      BY <1>1, <1>2, <2>2
    <3>2. (pre \o back)[i] = back[i - (k + 1)]
      BY <1>1, <1>2, <1>7, <2>2
    <3>3. back[i - (k + 1)] = pages[k + (i - (k + 1))]
      BY <1>4, <3>1
    <3>4. (pre \o back)[i] = pages[i - 1]
      BY <3>1, <3>2, <3>3
    <3>5. ~ (i <= k) /\ i # k + 1
      BY <1>1, <1>2, <2>2
    <3>. QED BY <3>4, <3>5
  <2>3. i <= k + 1 \/ i > k + 1
    BY <1>1, <1>2
  <2>. QED BY <2>1, <2>2, <2>3
<1>. QED BY <1>2, <1>7, <1>8, <1>9, <1>10 DEF k, n

\* Putting a page into sorted pages leaves them sorted: the insertion is the
\* push and the stable sort of the code.
LEMMA WithPageSorted ==
  ASSUME NEW U, NEW pages \in Seq(Pages(U)), NEW p \in Pages(U), Sorted(pages)
  PROVE  Sorted(WithPage(pages, p))
<1> DEFINE low == {i \in DOMAIN pages : pages[i].page <= p.page}
           n == Len(pages)
           new == WithPage(pages, p)
<1>1. /\ n \in Nat /\ DOMAIN pages = 1 .. n /\ p.page \in Nat
      /\ \A i \in 1 .. n : pages[i].page \in Nat
  <2>1. \A i \in 1 .. n : pages[i] \in Pages(U)
    BY LenProperties
  <2>. QED BY <2>1, LenProperties DEF Pages
<1>2. PICK k \in 0 .. n :
        /\ k = Cardinality(low)
        /\ DOMAIN new = 1 .. n + 1
        /\ \A i \in 1 .. n + 1 :
             new[i] = IF i <= k THEN pages[i] ELSE IF i = k + 1 THEN p ELSE pages[i - 1]
  BY WithPageIsInsertion
<1>3. low = 1 .. k
  <2>1. low \in SUBSET (1 .. n)
    BY <1>1
  <2>2. ASSUME NEW i \in low, NEW j \in 1 .. i
        PROVE  j \in low
    BY <1>1 DEF Sorted
  <2>. QED BY <1>1, <1>2, <2>1, <2>2, InitialSegment
<1>4. /\ \A i \in 1 .. k : pages[i].page <= p.page
      /\ \A i \in k + 1 .. n : p.page < pages[i].page
  <2>1. ASSUME NEW i \in 1 .. n
        PROVE  i \in 1 .. k <=> pages[i].page <= p.page
    BY <1>1, <1>3
  <2>2. k \in Nat /\ k <= n
    BY <1>1, <1>2
  <2> HIDE DEF n, low, new
  <2>3. ASSUME NEW i \in 1 .. k
        PROVE  pages[i].page <= p.page
    BY <1>1, <2>1, <2>2
  <2>4. ASSUME NEW i \in k + 1 .. n
        PROVE  p.page < pages[i].page
    <3>1. i \in 1 .. n /\ ~ (i \in 1 .. k)
      BY <1>1, <2>2
    <3>. QED BY <1>1, <2>1, <3>1
  <2>. QED BY <2>3, <2>4
<1> HIDE DEF low, n, new
<1>5. ASSUME NEW i \in 1 .. n + 1, NEW j \in 1 .. n + 1, i <= j
      PROVE  new[i].page <= new[j].page
  <2>1. CASE j <= k
    BY <1>1, <1>2, <1>5, <2>1 DEF Sorted
  <2>2. CASE i <= k /\ j > k
    <3>1. CASE j = k + 1
      BY <1>1, <1>2, <1>4, <2>2, <3>1
    <3>2. CASE j > k + 1
      <4>1. j - 1 \in 1 .. n /\ i \in 1 .. n /\ i <= j - 1
        BY <1>1, <1>2, <2>2, <3>2
      <4>2. new[i] = pages[i] /\ new[j] = pages[j - 1]
        BY <1>1, <1>2, <2>2, <3>2
      <4>. QED BY <1>1, <4>1, <4>2 DEF Sorted
    <3>. QED BY <1>1, <1>2, <2>2, <3>1, <3>2
  <2>3. CASE i = k + 1
    <3>1. CASE j = k + 1
      BY <1>1, <1>2, <2>3, <3>1
    <3>2. CASE j > k + 1
      <4>1. j - 1 \in k + 1 .. n /\ new[j] = pages[j - 1] /\ new[i] = p
        BY <1>1, <1>2, <2>3, <3>2
      <4>. QED BY <1>1, <1>2, <1>4, <4>1
    <3>. QED BY <1>1, <1>2, <1>5, <2>3, <3>1, <3>2
  <2>4. CASE i > k + 1
    <3>1. /\ i - 1 \in 1 .. n /\ j - 1 \in 1 .. n /\ i - 1 <= j - 1
          /\ new[i] = pages[i - 1] /\ new[j] = pages[j - 1]
      BY <1>1, <1>2, <1>5, <2>4
    <3>. QED BY <1>1, <3>1 DEF Sorted
  <2>. QED BY <1>1, <1>2, <1>5, <2>1, <2>2, <2>3, <2>4
<1>6. DOMAIN new = 1 .. n + 1
  BY <1>2
<1>7. Sorted(new)
  BY <1>5, <1>6 DEF Sorted
<1>. QED BY <1>7 DEF new

-----------------------------------------------------------------------------
(* The two lists of records. *)

\* The sources in S have records, of universes in U.
KeepsRecords(records, S, U) ==
  /\ DOMAIN records \subseteq S
  /\ \A s \in DOMAIN records : records[s] \in Records(U)

AllComplete(records) == \A s \in DOMAIN records : Complete(records[s])

\* A push and a stable sort lose no page.
LEMMA WithPageRecord ==
  ASSUME NEW U, NEW src \in Records(U), NEW p \in Pages(U)
  PROVE  [src EXCEPT !.pages = WithPage(@, p), !.age = 0] \in Records(U)
<1>1. WithPage(src.pages, p) \in Seq(Pages(U))
  BY WithPageIsInsertion DEF Records
<1>2. 0 \in AgeValues
  BY TimeoutAssumption DEF AgeValues
<1>. QED BY <1>1, <1>2 DEF Records

\* has_all_pages is true only of records that have them.
LEMMA HasAllPagesComplete ==
  ASSUME NEW src, has_all_pages(src)
  PROVE  Complete(src)
BY DEF has_all_pages, Complete

\* Adding a record to a list, or taking one out, keeps the others.
LEMMA RecordedRecords ==
  ASSUME NEW S, NEW U, NEW records, NEW cid \in S, NEW src
  PROVE  /\ KeepsRecords(records, S, U) /\ src \in Records(U)
              => KeepsRecords(Recorded(records, cid, src), S, U)
         /\ AllComplete(records) /\ Complete(src)
              => AllComplete(Recorded(records, cid, src))
         /\ KeepsRecords(records, S, U) => KeepsRecords(Without(records, cid), S, U)
BY DEF KeepsRecords, AllComplete, Recorded, Without, Restrict

\* Expiry only takes records out.
LEMMA WithoutExpiredRecords ==
  ASSUME NEW S, NEW U, NEW records
  PROVE  /\ KeepsRecords(records, S, U) => KeepsRecords(WithoutExpired(records), S, U)
         /\ AllComplete(records) => AllComplete(WithoutExpired(records))
BY DEF KeepsRecords, AllComplete, WithoutExpired, Restrict

\* Time changes the age of a record and nothing else of it.
LEMMA AgedRecordsKept ==
  ASSUME NEW S, NEW U, NEW records, KeepsRecords(records, S, U)
  PROVE  /\ KeepsRecords(AgedRecords(records), S, U)
         /\ AllComplete(records) => AllComplete(AgedRecords(records))
<1>1. \A s \in DOMAIN records :
        /\ AgedRecords(records)[s] = [records[s] EXCEPT !.age = Older(@)]
        /\ Older(records[s].age) \in AgeValues
  BY TimeoutAssumption DEF AgedRecords, KeepsRecords, Records, Older, AgeValues, IsOld
<1>2. DOMAIN AgedRecords(records) = DOMAIN records
  BY DEF AgedRecords
<1>3. \A s \in DOMAIN records :
        /\ AgedRecords(records)[s] \in Records(U)
        /\ AgedRecords(records)[s].pages = records[s].pages
        /\ AgedRecords(records)[s].last_page = records[s].last_page
  BY <1>1 DEF KeepsRecords, Records
<1>. QED BY <1>2, <1>3 DEF KeepsRecords, AllComplete, Complete

\* A universe that a source ends is taken out of its pages, which stay.
LEMMA TerminateUniverseKept ==
  ASSUME NEW U, NEW src \in Records(U), NEW u
  PROVE  /\ terminate_universe(src, u) \in Records(U)
         /\ Complete(src) => Complete(terminate_universe(src, u))
<1> DEFINE n == Len(src.pages)
           new == [i \in DOMAIN src.pages |->
                     [src.pages[i] EXCEPT !.universes = @ \ {u}]]
<1>1. n \in Nat /\ DOMAIN src.pages = 1 .. n /\ \A i \in 1 .. n : src.pages[i] \in Pages(U)
  BY LenProperties DEF Records
<1>2. \A i \in 1 .. n : new[i] \in Pages(U) /\ new[i].page = src.pages[i].page
  BY <1>1 DEF Pages
<1>3. new \in [1 .. n -> Pages(U)]
  BY <1>1, <1>2
<1>4. terminate_universe(src, u) = [src EXCEPT !.pages = new]
  BY DEF terminate_universe
<1>5. DOMAIN new = DOMAIN src.pages
  OBVIOUS
<1> HIDE DEF n, new
<1>6. new \in Seq(Pages(U))
  BY <1>1, <1>3, SeqDef
<1>7. /\ terminate_universe(src, u) \in Records(U)
      /\ terminate_universe(src, u).pages = new
      /\ terminate_universe(src, u).last_page = src.last_page
  BY <1>4, <1>6 DEF Records
<1>. QED BY <1>1, <1>2, <1>5, <1>7 DEF Complete

\* What a page does to the two lists keeps them, and records a source as
\* discovered only when every page of it is there: the page that is alone,
\* or the one that completes the record.
LEMMA HandlerKeepsRecords ==
  ASSUME NEW S, NEW U, NEW partial, NEW discovered, NEW cid \in S, NEW p \in Pages(U),
         NEW last \in Nat, KeepsRecords(partial, S, U), KeepsRecords(discovered, S, U)
  PROVE  LET r == handle_universe_discovery_packet(partial, discovered, cid, p, last)
         IN /\ KeepsRecords(r.partial, S, U)
            /\ KeepsRecords(r.discovered, S, U)
            /\ AllComplete(discovered) => AllComplete(r.discovered)
<1> DEFINE known == cid \in DOMAIN partial
           src == IF known
                  THEN [partial[cid] EXCEPT !.pages = WithPage(@, p), !.age = 0]
                  ELSE [pages |-> <<p>>, last_page |-> last, age |-> 0]
           found == IF known THEN has_all_pages(src) ELSE p.page = 0 /\ last = 0
           r == handle_universe_discovery_packet(partial, discovered, cid, p, last)
<1>1. /\ r.partial = IF found THEN Without(partial, cid) ELSE Recorded(partial, cid, src)
      /\ r.discovered = IF found THEN Recorded(discovered, cid, src) ELSE discovered
  BY DEF handle_universe_discovery_packet
<1>2. src \in Records(U)
  <2>1. CASE known
    BY <2>1, WithPageRecord DEF KeepsRecords
  <2>2. CASE ~ known
    <3>1. <<p>> \in Seq(Pages(U)) /\ 0 \in AgeValues
      BY TimeoutAssumption DEF AgeValues
    <3>. QED BY <2>2, <3>1 DEF Records
  <2>. QED BY <2>1, <2>2
<1>3. found => Complete(src)
  <2>1. CASE known
    BY <2>1, HasAllPagesComplete
  <2>2. ASSUME ~ known, p.page = 0, last = 0
        PROVE  Complete(src)
    <3>1. src.last_page = 0 /\ src.pages = <<p>>
      BY <2>2
    <3>2. 1 \in DOMAIN <<p>> /\ <<p>>[1].page = 0
      BY <2>2
    <3> HIDE DEF src
    <3>3. 0 .. src.last_page = {0}
      BY <3>1
    <3>. QED BY <3>1, <3>2, <3>3 DEF Complete
  <2>. QED BY <2>1, <2>2
<1> HIDE DEF src, found, r
<1>4. KeepsRecords(r.partial, S, U) /\ KeepsRecords(r.discovered, S, U)
  BY <1>1, <1>2, RecordedRecords
<1>5. AllComplete(discovered) => AllComplete(r.discovered)
  BY <1>1, <1>3, RecordedRecords
<1>. QED BY <1>4, <1>5 DEF r

=============================================================================
