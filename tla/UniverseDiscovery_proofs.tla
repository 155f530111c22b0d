----------------------- MODULE UniverseDiscovery_proofs -----------------------
(***************************************************************************)
(* Theorems about UniverseDiscovery for every set of universes, page size, *)
(* interval, timeout and number of termination packets.                    *)
(***************************************************************************)
EXTENDS UniverseDiscovery, DiscoveryRecords_proofs

\* How an advert of the universes in S is cut into pages.
Pieces(S, q) == {u \in S : Cardinality({v \in S : v < u}) \div PerPage = q}

LastPage(S) == Cardinality(S) \div PerPage

\* The datagram with page q of the latest advert, and whether the receiver has it.
AdvertPage(q) ==
  [kind |-> "discovery", page |-> q, last_page |-> LastPage(latest), universes |-> Pieces(latest, q)]

AdvertPages == {AdvertPage(q) : q \in 0 .. LastPage(latest)}

Receivable == AdvertPages \cup {TerminateDatagram(u, n) : u \in Universes, n \in 1 .. Terminations}

\* Strictly ascending: no page is there twice.
Ascends(pages) == \A i, j \in DOMAIN pages : i < j => pages[i].page < pages[j].page

\* A record with pages of the latest advert only, whatever pages those are.
OfAdvert(src) ==
  /\ src.last_page = LastPage(latest)
  /\ \A i \in DOMAIN src.pages :
       /\ src.pages[i].page \in 0 .. LastPage(latest)
       /\ src.pages[i].universes = Pieces(latest, src.pages[i].page)

\* A record just changed that has every page of the latest advert but those in
\* flight, each once.
WaitsFor(src, flight) ==
  /\ src.age = 0 /\ Ascends(src.pages)
  /\ \A i \in DOMAIN src.pages : AdvertPage(src.pages[i].page) \notin flight
  /\ \A q \in 0 .. LastPage(latest) :
       AdvertPage(q) \in flight \/ \E i \in DOMAIN src.pages : src.pages[i].page = q

TypesInv ==
  /\ universes \subseteq Universes /\ since \in 0 .. AdvertInterval
  /\ net \subseteq Receivable
  /\ KeepsRecords(partial, {cid}, Universes) /\ KeepsRecords(discovered, {cid}, Universes)
  /\ faults \in 0 .. Faults /\ latest \subseteq Universes /\ heard \subseteq Universes
  /\ gone \subseteq Universes
  /\ whole \in BOOLEAN /\ fresh \in BOOLEAN /\ mixing \in BOOLEAN /\ mixed \in BOOLEAN

\* A termination in flight is of a universe that is gone.
TerminationsInv == \A d \in net : d.kind = "terminate" => d.universe \in gone

\* Only an incomplete record can mix adverts; one that does not has pages of
\* the latest advert, of this time or of an earlier one of the same universes.
PartialInv ==
  /\ mixing => cid \in DOMAIN partial
  /\ cid \in DOMAIN partial /\ ~ mixing => OfAdvert(partial[cid])

\* The receiver lists the advert it heard last.
ListedInv == cid \in DOMAIN discovered /\ ~ mixed => Listed = heard

\* While the pages of an advert that found no incomplete record arrive, the
\* receiver has none of them, all of them, or a record that waits for the rest.
FreshInv ==
  whole /\ fresh =>
    IF cid \in DOMAIN partial
    THEN /\ ~ mixing /\ WaitsFor(partial[cid], net)
         /\ AdvertPages \cap net # {}
    ELSE AdvertPages \subseteq net \/ AdvertPages \cap net = {}

\* Once they have arrived it lists that advert until the record expires.
WholeInv ==
  whole /\ fresh /\ AdvertPages \cap net = {} /\ since < Timeout =>
    /\ cid \in DOMAIN discovered /\ discovered[cid].age <= since
    /\ ~ mixed /\ latest \ gone \subseteq heard /\ heard \subseteq latest

DiscoveryInv ==
  TypesInv /\ TerminationsInv /\ PartialInv /\ ListedInv /\ FreshInv /\ WholeInv

-----------------------------------------------------------------------------
(* Adverts and their pages. *)

\* Every set of universes is finite; its pages are disjoint parts of it, and
\* none of it is left over.
LEMMA PiecesCover ==
  ASSUME NEW S \in SUBSET Universes
  PROVE  /\ IsFiniteSet(S) /\ Cardinality(S) \in Nat /\ LastPage(S) \in Nat
         /\ \A q : Pieces(S, q) \subseteq S
         /\ \A u \in S : \E q \in 0 .. LastPage(S) : u \in Pieces(S, q)
<1>0. PerPage \in Nat \ {0}
  BY DiscoveryAssumption
<1>1. IsFiniteSet(S) /\ Cardinality(S) \in Nat
  BY DiscoveryAssumption, FS_Subset, FS_CardinalityType
<1>2. LastPage(S) \in Nat
  <2> DEFINE c == Cardinality(S)
  <2>1. c \in Nat
    BY <1>1
  <2> HIDE DEF c
  <2>2. c \div PerPage \in Nat
    BY <1>0, <2>1
  <2>. QED BY <2>2 DEF LastPage, c
<1>3. ASSUME NEW u \in S
      PROVE  \E q \in 0 .. LastPage(S) : u \in Pieces(S, q)
  <2> DEFINE b == Cardinality({v \in S : v < u})
             c == Cardinality(S)
  <2>1. b \in Nat /\ c \in Nat /\ b <= c
    BY <1>1, {v \in S : v < u} \subseteq S, FS_Subset, FS_CardinalityType
  <2> HIDE DEF b, c
  <2>2. b \div PerPage \in Nat /\ b \div PerPage <= c \div PerPage
    BY <1>0, <2>1
  <2>3. u \in Pieces(S, b \div PerPage)
    BY DEF Pieces, b
  <2>4. c \div PerPage = LastPage(S)
    BY DEF LastPage, c
  <2>. QED BY <1>2, <2>2, <2>3, <2>4
<1>. QED BY <1>1, <1>2, <1>3 DEF Pieces

\* What Advertise sends are these pages.
LEMMA PagesSent ==
  /\ pages_req = LastPage(universes) + 1
  /\ \A p : PageDatagram(p) = [kind |-> "discovery", page |-> p,
                               last_page |-> pages_req - 1, universes |-> Pieces(universes, p)]
BY DEF pages_req, PageDatagram, LastPage, Slice, Rank, Pieces

\* What can be received is a page or a termination.
LEMMA ReceivableKinds ==
  ASSUME NEW d \in Receivable
  PROVE  \/ /\ d.kind = "discovery" /\ d \in AdvertPages
            /\ d.page \in 0 .. LastPage(latest) /\ d = AdvertPage(d.page)
            /\ d.last_page = LastPage(latest) /\ d.universes = Pieces(latest, d.page)
         \/ /\ d.kind = "terminate" /\ d \notin AdvertPages
            /\ d.universe \in Universes /\ d.copy \in 1 .. Terminations
            /\ d = TerminateDatagram(d.universe, d.copy)
<1>1. \A q : AdvertPage(q).kind = "discovery" /\ AdvertPage(q).page = q
             /\ AdvertPage(q).last_page = LastPage(latest)
             /\ AdvertPage(q).universes = Pieces(latest, q)
  BY DEF AdvertPage
<1>2. \A u, n : TerminateDatagram(u, n).kind = "terminate" /\ TerminateDatagram(u, n).universe = u
                /\ TerminateDatagram(u, n).copy = n
  BY DEF TerminateDatagram
<1>. QED BY <1>1, <1>2 DEF Receivable, AdvertPages

-----------------------------------------------------------------------------
(* Types. *)

\* While the latest advert is the same, so are its pages.
LEMMA SameAdvert ==
  ASSUME UNCHANGED latest
  PROVE  /\ AdvertPages' = AdvertPages /\ Receivable' = Receivable
         /\ \A q : AdvertPage(q)' = AdvertPage(q)
BY DEF AdvertPages, Receivable, AdvertPage, LastPage, Pieces, TerminateDatagram

\* The pages an advert sends are pages of the set it is about.
LEMMA AdvertSends ==
  ASSUME universes \subseteq Universes, Advertise
  PROVE  /\ LastPage(universes) \in Nat /\ pages_req = LastPage(universes) + 1
         /\ AdvertPages' = {PageDatagram(p) : p \in 0 .. LastPage(universes)}
<1>1. LastPage(universes) \in Nat /\ pages_req = LastPage(universes) + 1
  BY PiecesCover, PagesSent
<1>2. latest' = universes
  BY DEF Advertise
<1>3. LastPage(latest)' = LastPage(universes) /\ \A q : Pieces(latest, q)' = Pieces(universes, q)
  BY <1>2 DEF LastPage, Pieces
<1>4. \A q : AdvertPage(q)' = PageDatagram(q)
  BY <1>1, <1>3, PagesSent DEF AdvertPage
<1>5. AdvertPages' = {PageDatagram(p) : p \in 0 .. LastPage(universes)}
  BY <1>3, <1>4 DEF AdvertPages
<1>. QED BY <1>1, <1>5

\* Every step keeps the datagrams, the records and the history typed.
LEMMA TypesStep ==
  ASSUME TypesInv, [Next]_vars
  PROVE  TypesInv'
<1>0. /\ Terminations \in Nat \ {0} /\ Faults \in Nat /\ AdvertInterval \in Nat
      /\ \A S, U, r : KeepsRecords(r, S, U) =>
           KeepsRecords(AgedRecords(r), S, U) /\ KeepsRecords(WithoutExpired(r), S, U)
  BY DiscoveryAssumption, AgedRecordsKept, WithoutExpiredRecords
<1>1. ASSUME NEW u \in Universes, register_universe(u)
      PROVE  TypesInv'
  <2>1. Receivable' = Receivable
    BY <1>1, SameAdvert DEF register_universe, history
  <2>. QED BY <1>1, <2>1 DEF register_universe, history, completion, TypesInv, KeepsRecords
<1>2. ASSUME NEW u \in Universes, terminate_stream(u)
      PROVE  TypesInv'
  <2>1. PICK n \in 0 .. Terminations :
          /\ net' = net \cup {TerminateDatagram(u, k) : k \in 1 .. n}
          /\ gone' = IF n = 0 THEN gone ELSE gone \cup {u}
          /\ n < Terminations => faults < Faults
          /\ faults' = IF n < Terminations THEN faults + 1 ELSE faults
    BY <1>2 DEF terminate_stream
  <2>2. {TerminateDatagram(u, k) : k \in 1 .. n} \subseteq Receivable
    BY <1>0 DEF Receivable
  <2>3. net' \subseteq Receivable'
    BY <1>2, <2>1, <2>2, SameAdvert DEF terminate_stream, TypesInv
  <2>4. gone' \subseteq Universes /\ faults' \in 0 .. Faults
    BY <1>0, <2>1 DEF TypesInv
  <2>5. /\ universes' \subseteq Universes
        /\ UNCHANGED <<since, partial, discovered, latest, whole, fresh, completion>>
    BY <1>2 DEF terminate_stream, TypesInv
  <2>. QED BY <2>3, <2>4, <2>5 DEF TypesInv, KeepsRecords, completion
<1>3. ASSUME Advertise
      PROVE  TypesInv'
  <2>1. PICK n \in 0 .. pages_req :
          /\ net' = {PageDatagram(p) : p \in 0 .. n - 1}
          /\ n < pages_req => faults < Faults
          /\ faults' = IF n < pages_req THEN faults + 1 ELSE faults
          /\ since' = IF n < pages_req THEN since ELSE 0
          /\ whole' = (n = pages_req)
    BY <1>3 DEF Advertise
  <2>2. 0 .. n - 1 \subseteq 0 .. LastPage(universes)
    BY <1>3, AdvertSends DEF TypesInv
  <2>3. net' \subseteq Receivable'
    BY <1>3, <2>1, <2>2, AdvertSends DEF Receivable, TypesInv
  <2>4. since' \in 0 .. AdvertInterval /\ whole' \in BOOLEAN /\ faults' \in 0 .. Faults
    BY <1>0, <2>1 DEF TypesInv
  <2>5. fresh' \in BOOLEAN /\ mixing' \in BOOLEAN
    BY <1>3 DEF Advertise
  <2>. QED BY <1>3, <2>3, <2>4, <2>5 DEF Advertise, TypesInv, KeepsRecords
<1>4. ASSUME Tick
      PROVE  TypesInv'
  <2>1. since' \in 0 .. AdvertInterval
    BY <1>0, <1>4 DEF Tick, TypesInv
  <2>2. net' \subseteq Receivable'
    BY <1>4 DEF Tick
  <2>. QED BY <1>0, <1>4, <2>1, <2>2 DEF Tick, history, completion, TypesInv
<1>5. ASSUME NEW d \in net, Lose(d)
      PROVE  TypesInv'
  <2>1. net' \subseteq Receivable'
    BY <1>5, SameAdvert DEF Lose, TypesInv
  <2>2. faults' \in 0 .. Faults /\ whole' \in BOOLEAN
    BY <1>0, <1>5 DEF Lose, TypesInv
  <2>. QED BY <1>5, <2>1, <2>2 DEF Lose, source, completion, TypesInv, KeepsRecords
<1>6. ASSUME NEW d \in net, ReceivePage(d)
      PROVE  TypesInv'
  <2> DEFINE p == UniversePage(d.page, d.universes)
             r == handle_universe_discovery_packet(partial, discovered, cid, p, d.last_page)
  <2>1. /\ d.kind = "discovery" /\ partial' = r.partial /\ discovered' = r.discovered
        /\ net' = net \ {d}
        /\ mixing' = (mixing /\ ~ r.found) /\ mixed' = (IF r.found THEN mixing ELSE mixed)
        /\ heard' = IF r.found THEN latest ELSE heard
        /\ UNCHANGED <<source, faults, history>>
    BY <1>6 DEF ReceivePage
  <2>2. d.page \in Nat /\ d.last_page \in Nat /\ p \in Pages(Universes)
    <3>1. /\ d.page \in 0 .. LastPage(latest) /\ d.last_page = LastPage(latest)
          /\ d.universes = Pieces(latest, d.page)
      BY <2>1, ReceivableKinds DEF TypesInv
    <3>2. LastPage(latest) \in Nat /\ Pieces(latest, d.page) \subseteq Universes
      BY PiecesCover DEF TypesInv
    <3>. QED BY <3>1, <3>2 DEF UniversePage, Pages
  <2> HIDE DEF p
  <2>3. KeepsRecords(r.partial, {cid}, Universes) /\ KeepsRecords(r.discovered, {cid}, Universes)
    <3>1. KeepsRecords(partial, {cid}, Universes) /\ KeepsRecords(discovered, {cid}, Universes)
      BY DEF TypesInv
    <3>. QED BY <2>2, <3>1, cid \in {cid}, HandlerKeepsRecords
  <2>4. net' \subseteq Receivable'
    BY <2>1, SameAdvert DEF history, TypesInv
  <2> HIDE DEF r
  <2>5. mixing' \in BOOLEAN /\ mixed' \in BOOLEAN /\ heard' \subseteq Universes
    BY <2>1 DEF TypesInv
  <2>. QED BY <2>1, <2>3, <2>4, <2>5 DEF source, history, TypesInv, KeepsRecords
<1>7. ASSUME NEW d \in net, ReceiveTermination(d)
      PROVE  TypesInv'
  <2>1. net' \subseteq Receivable'
    BY <1>7, SameAdvert DEF ReceiveTermination, history, TypesInv
  <2>2. KeepsRecords(discovered', {cid}, Universes)
    <3>1. CASE cid \in DOMAIN discovered
      <4>1. terminate_universe(discovered[cid], d.universe) \in Records(Universes)
        BY <3>1, TerminateUniverseKept DEF TypesInv, KeepsRecords
      <4>2. discovered' = [discovered EXCEPT ![cid] =
                             terminate_universe(discovered[cid], d.universe)]
        BY <1>7, <3>1 DEF ReceiveTermination
      <4>. QED BY <4>1, <4>2 DEF TypesInv, KeepsRecords
    <3>2. CASE cid \notin DOMAIN discovered
      BY <1>7, <3>2 DEF ReceiveTermination, TypesInv
    <3>. QED BY <3>1, <3>2
  <2>. QED BY <1>7, <2>1, <2>2 DEF ReceiveTermination, source, history, TypesInv, KeepsRecords
<1>8. ASSUME get_discovered_sources
      PROVE  TypesInv'
  <2>1. net' \subseteq Receivable'
    BY <1>8, SameAdvert DEF get_discovered_sources, history, TypesInv
  <2>. QED BY <1>0, <1>8, <2>1 DEF get_discovered_sources, source, history, TypesInv
<1>9. CASE UNCHANGED vars
  <2>1. Receivable' = Receivable
    BY <1>9, SameAdvert DEF vars, history
  <2>. QED BY <1>9, <2>1 DEF vars, source, history, completion, TypesInv, KeepsRecords
<1>. QED BY <1>1, <1>2, <1>3, <1>4, <1>5, <1>6, <1>7, <1>8, <1>9 DEF Next

\* At first nothing is advertised, in flight or recorded.
LEMMA InitDiscovery == Init => DiscoveryInv
<1>1. KeepsRecords([c \in {} |-> c], {cid}, Universes)
  BY DEF KeepsRecords
<1>2. 0 \in 0 .. AdvertInterval /\ 0 \in 0 .. Faults
  BY DiscoveryAssumption
<1>3. Init => TypesInv
  BY <1>1, <1>2 DEF Init, TypesInv
<1>4. Init => TerminationsInv /\ PartialInv /\ FreshInv /\ ListedInv /\ WholeInv
  BY DEF Init, TerminationsInv, PartialInv, FreshInv, ListedInv, WholeInv
<1>. QED BY <1>3, <1>4 DEF DiscoveryInv

-----------------------------------------------------------------------------
(* Pages in order. *)

\* A page goes in and the others stay.
LEMMA WithPageHas ==
  ASSUME NEW U, NEW pages \in Seq(Pages(U)), NEW p \in Pages(U)
  PROVE  /\ WithPage(pages, p) \in Seq(Pages(U))
         /\ \A i \in DOMAIN WithPage(pages, p) :
              WithPage(pages, p)[i] = p
              \/ \E j \in DOMAIN pages : WithPage(pages, p)[i] = pages[j]
         /\ \E i \in DOMAIN WithPage(pages, p) : WithPage(pages, p)[i] = p
         /\ \A j \in DOMAIN pages :
              \E i \in DOMAIN WithPage(pages, p) : WithPage(pages, p)[i] = pages[j]
<1> DEFINE n == Len(pages)
           new == WithPage(pages, p)
<1>1. n \in Nat /\ DOMAIN pages = 1 .. n
  BY LenProperties
<1>2. PICK k \in 0 .. n :
        /\ DOMAIN new = 1 .. n + 1
        /\ \A i \in 1 .. n + 1 :
             new[i] = IF i <= k THEN pages[i] ELSE IF i = k + 1 THEN p ELSE pages[i - 1]
  BY WithPageIsInsertion
<1>3. new \in Seq(Pages(U))
  BY WithPageIsInsertion
<1> HIDE DEF n, new
<1>4. ASSUME NEW i \in 1 .. n + 1
      PROVE  new[i] = p \/ \E j \in 1 .. n : new[i] = pages[j]
  <2>1. CASE i <= k
    BY <1>1, <1>2, <2>1
  <2>2. CASE i > k + 1
    <3>1. i - 1 \in 1 .. n /\ new[i] = pages[i - 1]
      BY <1>1, <1>2, <2>2
    <3>. QED BY <3>1
  <2>. QED BY <1>1, <1>2, <2>1, <2>2
<1>5. k + 1 \in 1 .. n + 1 /\ new[k + 1] = p
  BY <1>1, <1>2
<1>6. ASSUME NEW j \in 1 .. n
      PROVE  \E i \in 1 .. n + 1 : new[i] = pages[j]
  <2>1. CASE j <= k
    BY <1>1, <1>2, <2>1
  <2>2. CASE j > k
    <3>1. j + 1 \in 1 .. n + 1 /\ new[j + 1] = pages[j]
      BY <1>1, <1>2, <2>2
    <3>. QED BY <3>1
  <2>. QED BY <1>1, <1>2, <2>1, <2>2
<1>. QED BY <1>1, <1>2, <1>3, <1>4, <1>5, <1>6 DEF n, new

\* A page that was not there yet goes between the others.
LEMMA WithPageAscends ==
  ASSUME NEW U, NEW pages \in Seq(Pages(U)), NEW p \in Pages(U), Ascends(pages),
         \A i \in DOMAIN pages : pages[i].page # p.page
  PROVE  Ascends(WithPage(pages, p))
<1> DEFINE n == Len(pages)
           new == WithPage(pages, p)
<1>1. n \in Nat /\ DOMAIN pages = 1 .. n
  BY LenProperties
<1>2. \A i \in 1 .. n : pages[i].page \in Nat
  <2>1. \A i \in 1 .. n : pages[i] \in Pages(U)
    BY <1>1
  <2>. QED BY <2>1 DEF Pages
<1>3. Sorted(pages)
  BY <1>1, <1>2 DEF Ascends, Sorted
<1>4. Sorted(new)
  BY <1>3, WithPageSorted
<1>5. PICK k \in 0 .. n :
        /\ DOMAIN new = 1 .. n + 1
        /\ \A i \in 1 .. n + 1 :
             new[i] = IF i <= k THEN pages[i] ELSE IF i = k + 1 THEN p ELSE pages[i - 1]
  <2>1. /\ new \in Seq(Pages(U))
        /\ \E k \in 0 .. Len(pages) :
              /\ k = Cardinality({i \in DOMAIN pages : pages[i].page <= p.page})
              /\ DOMAIN new = 1 .. Len(pages) + 1
              /\ \A i \in 1 .. Len(pages) + 1 :
                   new[i] = IF i <= k THEN pages[i] ELSE IF i = k + 1 THEN p ELSE pages[i - 1]
    BY WithPageIsInsertion
  <2>. QED BY <2>1
<1> HIDE DEF n, new
<1>6. \A i \in 1 .. n + 1 : new[i] = p \/ \E j \in 1 .. n : new[i] = pages[j]
  BY <1>1, <1>5
<1>7. Ascends(new)
  <2> SUFFICES ASSUME NEW i \in 1 .. n + 1, NEW j \in 1 .. n + 1, i < j
               PROVE  new[i].page < new[j].page
    BY <1>5 DEF Ascends
  <2>1. new[i].page <= new[j].page
    BY <1>1, <1>4, <1>5 DEF Sorted
  <2>2. new[i].page # new[j].page
    <3>1. \A a, b \in 1 .. n : a < b => pages[a].page # pages[b].page
      BY <1>1, <1>2 DEF Ascends
    <3>2. \A a \in 1 .. n : pages[a].page # p.page
      BY <1>1
    <3>3. CASE i <= k /\ j <= k
      BY <1>1, <1>5, <3>1, <3>3
    <3>4. CASE i <= k /\ j = k + 1
      BY <1>1, <1>5, <3>2, <3>4
    <3>5. CASE i <= k /\ j > k + 1
      <4>1. new[i] = pages[i] /\ new[j] = pages[j - 1] /\ i \in 1 .. n /\ j - 1 \in 1 .. n /\ i < j - 1
        BY <1>1, <1>5, <3>5
      <4>. QED BY <3>1, <4>1
    <3>6. CASE i = k + 1
      <4>1. new[i] = p /\ new[j] = pages[j - 1] /\ j - 1 \in 1 .. n
        BY <1>1, <1>5, <3>6
      <4>. QED BY <3>2, <4>1
    <3>7. CASE i > k + 1
      <4>1. /\ new[i] = pages[i - 1] /\ new[j] = pages[j - 1]
            /\ i - 1 \in 1 .. n /\ j - 1 \in 1 .. n /\ i - 1 < j - 1
        BY <1>1, <1>5, <3>7
      <4>. QED BY <3>1, <4>1
    <3>. QED BY <1>1, <1>5, <3>3, <3>4, <3>5, <3>6, <3>7
  <2>3. new[i].page \in Nat /\ new[j].page \in Nat
    BY <1>2, <1>6 DEF Pages
  <2>. QED BY <2>1, <2>2, <2>3
<1>. QED BY <1>7 DEF new

\* When pages that ascend are all of 0 to last, has_all_pages finds them.
LEMMA AllPagesInPlace ==
  ASSUME NEW U, NEW src \in Records(U), Ascends(src.pages), Complete(src),
         \A i \in DOMAIN src.pages : src.pages[i].page \in 0 .. src.last_page
  PROVE  has_all_pages(src)
<1> DEFINE n == Len(src.pages)
           page == [i \in 1 .. n |-> src.pages[i].page]
           last == src.last_page
<1>1. n \in Nat /\ DOMAIN src.pages = 1 .. n /\ last \in Nat
  BY LenProperties DEF Records
<1>2. /\ \A i \in 1 .. n : page[i] \in 0 .. last
      /\ \A i, j \in 1 .. n : i < j => page[i] < page[j]
      /\ \A q \in 0 .. last : \E i \in 1 .. n : page[i] = q
  BY <1>1 DEF Ascends, Complete
<1> HIDE DEF n, page, last
<1>3. ASSUME NEW i \in 1 .. n
      PROVE  page[i] = i - 1
  <2> DEFINE k == page[i]
             f == [j \in 1 .. i - 1 |-> page[j]]
  <2>1. k \in 0 .. last /\ i - 1 \in Nat /\ \A j \in 1 .. i - 1 : j \in 1 .. n
    BY <1>1, <1>2
  <2>2. \A j \in 1 .. i - 1 : f[j] \in 0 .. k - 1
    BY <1>1, <1>2, <2>1
  <2>3. \A a, b \in 1 .. i - 1 : f[a] = f[b] => a = b
    <3> SUFFICES ASSUME NEW a \in 1 .. i - 1, NEW b \in 1 .. i - 1, f[a] = f[b], a # b
                 PROVE  FALSE
      OBVIOUS
    <3>1. a \in 1 .. n /\ b \in 1 .. n /\ (a < b \/ b < a) /\ page[a] = page[b]
      BY <2>1
    <3>. QED BY <1>1, <1>2, <3>1
  <2>4. \A q \in 0 .. k - 1 : \E j \in 1 .. i - 1 : f[j] = q
    <3> SUFFICES ASSUME NEW q \in 0 .. k - 1
                 PROVE  \E j \in 1 .. i - 1 : f[j] = q
      OBVIOUS
    <3>1. PICK j \in 1 .. n : page[j] = q
      BY <1>1, <1>2, <2>1
    <3>2. ~ (i < j) /\ i # j
      BY <1>1, <1>2, <2>1, <3>1
    <3>. QED BY <1>1, <3>1, <3>2
  <2>5. f \in Bijection(1 .. i - 1, 0 .. k - 1)
    BY <2>2, <2>3, <2>4 DEF Bijection, Injection, Surjection, IsInjective
  <2>6. ExistsBijection(1 .. i - 1, 0 .. k - 1)
    BY <2>5 DEF ExistsBijection
  <2> HIDE DEF k, f
  <2>7. IsFiniteSet(1 .. i - 1) /\ Cardinality(1 .. i - 1) = i - 1
    BY <2>1, 1 \in Int, i - 1 \in Int, FS_Interval
  <2>8. Cardinality(0 .. k - 1) = k
    BY <1>1, <2>1, 0 \in Int, k - 1 \in Int, FS_Interval
  <2>9. Cardinality(0 .. k - 1) = Cardinality(1 .. i - 1)
    BY <2>6, <2>7, FS_Bijection
  <2>. QED BY <2>7, <2>8, <2>9 DEF k
<1>4. ASSUME NEW q \in 0 .. last
      PROVE  q + 1 \in 1 .. n /\ page[q + 1] = q
  <2>1. PICK i \in 1 .. n : page[i] = q
    BY <1>2
  <2>2. q = i - 1
    BY <1>3, <2>1
  <2>3. q + 1 = i
    BY <1>1, <2>2
  <2>. QED BY <2>1, <2>3
<1>. QED BY <1>1, <1>4 DEF has_all_pages, last, page

-----------------------------------------------------------------------------
(* The steps. *)

\* What is listed after a termination.
LEMMA TerminatedIsNotListed ==
  ASSUME NEW U, NEW src \in Records(U), NEW u
  PROVE  /\ get_all_universes(terminate_universe(src, u)) = get_all_universes(src) \ {u}
         /\ terminate_universe(src, u).age = src.age
<1> DEFINE pages == src.pages
           new == [i \in DOMAIN pages |-> [pages[i] EXCEPT !.universes = @ \ {u}]]
<1>1. \A i \in DOMAIN pages : pages[i] \in Pages(U)
  BY LenProperties DEF Records
<1>2. \A i \in DOMAIN pages : new[i].universes = pages[i].universes \ {u}
  BY <1>1 DEF Pages
<1>3. terminate_universe(src, u) = [src EXCEPT !.pages = new]
  BY DEF terminate_universe
<1>4. DOMAIN new = DOMAIN pages
  OBVIOUS
<1> HIDE DEF new
<1>5. terminate_universe(src, u).pages = new /\ terminate_universe(src, u).age = src.age
  BY <1>3 DEF Records
<1>. QED BY <1>2, <1>4, <1>5 DEF get_all_universes

\* A step that leaves the incomplete record alone keeps what is known of it.
LEMMA PartialStays ==
  ASSUME PartialInv, UNCHANGED <<partial, latest, mixing>>
  PROVE  PartialInv'
BY DEF PartialInv, OfAdvert, LastPage, Pieces

\* So does one that loses or receives none of the pages of a whole advert.
LEMMA FreshStays ==
  ASSUME FreshInv, PartialInv, UNCHANGED <<partial, latest, mixing, fresh>>, whole' => whole,
         whole' => AdvertPages \cap net' = AdvertPages \cap net
  PROVE  FreshInv'
<1>1. SUFFICES ASSUME whole', fresh'
               PROVE  FreshInv'
  BY DEF FreshInv
<1>2. whole /\ fresh /\ AdvertPages \cap net' = AdvertPages \cap net
  BY <1>1
<1>3. /\ AdvertPages' = AdvertPages /\ LastPage(latest)' = LastPage(latest)
      /\ \A q : AdvertPage(q)' = AdvertPage(q)
  BY SameAdvert DEF LastPage
<1>4. CASE cid \notin DOMAIN partial
  BY <1>2, <1>3, <1>4 DEF FreshInv
<1>5. CASE cid \in DOMAIN partial
  <2> DEFINE r == partial[cid]
  <2>1. ~ mixing /\ WaitsFor(r, net) /\ AdvertPages \cap net # {}
    BY <1>2, <1>5 DEF FreshInv
  <2>2. \A q \in 0 .. LastPage(latest) : AdvertPage(q) \in net' <=> AdvertPage(q) \in net
    BY <1>2 DEF AdvertPages
  <2>3. \A i \in DOMAIN r.pages : r.pages[i].page \in 0 .. LastPage(latest)
    BY <1>5, <2>1 DEF PartialInv, OfAdvert
  <2>. QED BY <1>3, <1>5, <2>1, <2>2, <2>3 DEF FreshInv, WaitsFor
<1>. QED BY <1>4, <1>5

\* Registering and terminating universes changes no record.
LEMMA SourceSteps ==
  ASSUME DiscoveryInv, NEW u \in Universes, register_universe(u) \/ terminate_stream(u)
  PROVE  DiscoveryInv'
<1>1. UNCHANGED <<since, partial, discovered, latest, whole, fresh, mixing, mixed, heard>>
  BY DEF register_universe, terminate_stream, history, completion
<1>2. PICK n \in 0 .. Terminations :
        /\ net' = net \cup {TerminateDatagram(u, k) : k \in 1 .. n}
        /\ gone' = IF n = 0 THEN gone ELSE gone \cup {u}
  <2>1. CASE register_universe(u)
    <3>1. 0 \in 0 .. Terminations /\ 1 .. 0 = {}
      BY DiscoveryAssumption
    <3>. QED BY <2>1, <3>1 DEF register_universe, history
  <2>2. CASE terminate_stream(u)
    BY <2>2 DEF terminate_stream
  <2>. QED BY <2>1, <2>2
<1>3. \A d \in {TerminateDatagram(u, k) : k \in 1 .. n} :
        d \notin AdvertPages /\ d.universe = u /\ n # 0
  <2>1. \A k : TerminateDatagram(u, k).kind = "terminate" /\ TerminateDatagram(u, k).universe = u
    BY DEF TerminateDatagram
  <2>2. \A d \in AdvertPages : d.kind = "discovery"
    BY DEF AdvertPages, AdvertPage
  <2>3. n = 0 => 1 .. n = {}
    OBVIOUS
  <2>. QED BY <2>1, <2>2, <2>3
<1>4. AdvertPages \cap net' = AdvertPages \cap net
  BY <1>2, <1>3
<1>5. TypesInv'
  BY TypesStep DEF DiscoveryInv, Next
<1>6. TerminationsInv'
  <2>1. ASSUME NEW d \in net', d.kind = "terminate"
        PROVE  d.universe \in gone'
    BY <1>2, <1>3, <2>1 DEF DiscoveryInv, TerminationsInv
  <2>. QED BY <2>1 DEF TerminationsInv
<1>7. PartialInv' /\ FreshInv'
  BY <1>1, <1>4, PartialStays, FreshStays DEF DiscoveryInv
<1>8. ListedInv'
  BY <1>1 DEF DiscoveryInv, ListedInv, Listed
<1>9. WholeInv'
  <2>1. gone \subseteq gone'
    BY <1>2
  <2>. QED BY <1>1, <1>4, <2>1, SameAdvert DEF DiscoveryInv, WholeInv
<1>. QED BY <1>5, <1>6, <1>7, <1>8, <1>9 DEF DiscoveryInv

\* An advert starts with nothing in flight.  An incomplete record goes on
\* holding pages of the latest advert only if the universes are the same.
LEMMA AdvertiseStep ==
  ASSUME DiscoveryInv, Advertise
  PROVE  DiscoveryInv'
<1>1. PICK sent \in 0 .. pages_req :
        net' = {PageDatagram(p) : p \in 0 .. sent - 1} /\ whole' = (sent = pages_req)
  BY DEF Advertise
<1>2. /\ latest' = universes /\ fresh' = (cid \notin DOMAIN partial)
      /\ mixing' = (cid \in DOMAIN partial /\ (mixing \/ universes # latest))
      /\ UNCHANGED <<partial, discovered, mixed, heard>>
  BY DEF Advertise
<1>3. /\ LastPage(universes) \in Nat /\ pages_req = LastPage(universes) + 1
      /\ AdvertPages' = {PageDatagram(p) : p \in 0 .. LastPage(universes)}
  BY AdvertSends DEF DiscoveryInv, TypesInv
<1>4. whole' => net' = AdvertPages'
  <2>1. pages_req - 1 = LastPage(universes)
    BY <1>3
  <2>. QED BY <1>1, <1>3, <2>1
<1>5. AdvertPages' # {}
  BY <1>3
<1>6. TypesInv'
  BY TypesStep DEF DiscoveryInv, Next
<1>7. TerminationsInv'
  <2>1. \A d \in net' : d.kind = "discovery"
    BY <1>1 DEF PageDatagram
  <2>. QED BY <2>1 DEF TerminationsInv
<1>8. PartialInv'
  <2>1. CASE mixing' \/ cid \notin DOMAIN partial
    BY <1>2, <2>1 DEF PartialInv
  <2>2. CASE ~ mixing' /\ cid \in DOMAIN partial
    <3>1. ~ mixing /\ latest' = latest
      BY <1>2, <2>2
    <3>. QED BY <1>2, <2>2, <3>1 DEF DiscoveryInv, PartialInv, OfAdvert, LastPage, Pieces
  <2>. QED BY <2>1, <2>2
<1>9. ListedInv'
  BY <1>2 DEF DiscoveryInv, ListedInv, Listed
<1>10. FreshInv'
  BY <1>2, <1>4 DEF FreshInv
<1>11. WholeInv'
  BY <1>4, <1>5 DEF WholeInv
<1>. QED BY <1>6, <1>7, <1>8, <1>9, <1>10, <1>11 DEF DiscoveryInv

\* The clock runs only while nothing is in flight, so it never ages the
\* record of an advert that is still arriving.
LEMMA TickStep ==
  ASSUME DiscoveryInv, Tick
  PROVE  DiscoveryInv'
<1>1. /\ net = {} /\ partial' = AgedRecords(partial) /\ discovered' = AgedRecords(discovered)
      /\ since' = IF since = AdvertInterval THEN since ELSE since + 1
      /\ UNCHANGED <<universes, net, latest, whole, gone, fresh, mixing, mixed, heard>>
  BY DEF Tick, history, completion
<1>2. TypesInv'
  BY TypesStep DEF DiscoveryInv, Next
<1>3. ASSUME NEW r, NEW r1, r1 = AgedRecords(r), KeepsRecords(r, {cid}, Universes)
      PROVE  /\ cid \in DOMAIN r1 <=> cid \in DOMAIN r
             /\ cid \in DOMAIN r => /\ r1[cid].pages = r[cid].pages
                                    /\ r1[cid].last_page = r[cid].last_page
                                    /\ r1[cid].age = Older(r[cid].age)
                                    /\ r[cid].age \in Nat
  <2>1. DOMAIN r1 = DOMAIN r
    BY <1>3 DEF AgedRecords
  <2>2. ASSUME cid \in DOMAIN r
        PROVE  /\ r1[cid].pages = r[cid].pages /\ r1[cid].last_page = r[cid].last_page
               /\ r1[cid].age = Older(r[cid].age) /\ r[cid].age \in Nat
    <3> DEFINE x == r[cid]
    <3>1. x \in Records(Universes)
      BY <1>3, <2>2 DEF KeepsRecords
    <3>2. r1[cid] = [x EXCEPT !.age = Older(x.age)]
      BY <1>3, <2>2 DEF AgedRecords
    <3> HIDE DEF x
    <3>3. LET y == [x EXCEPT !.age = Older(x.age)]
          IN /\ y.pages = x.pages /\ y.last_page = x.last_page
             /\ y.age = Older(x.age) /\ x.age \in Nat
      BY <3>1, TimeoutAssumption DEF Records, AgeValues
    <3>. QED BY <3>2, <3>3 DEF x
  <2>. QED BY <2>1, <2>2
<1>4. KeepsRecords(partial, {cid}, Universes) /\ KeepsRecords(discovered, {cid}, Universes)
  BY DEF DiscoveryInv, TypesInv
<1>5. /\ cid \in DOMAIN partial' <=> cid \in DOMAIN partial
      /\ cid \in DOMAIN partial => /\ partial'[cid].pages = partial[cid].pages
                                   /\ partial'[cid].last_page = partial[cid].last_page
  BY <1>1, <1>3, <1>4
<1>6. /\ cid \in DOMAIN discovered' <=> cid \in DOMAIN discovered
      /\ cid \in DOMAIN discovered => /\ discovered'[cid].pages = discovered[cid].pages
                                      /\ discovered'[cid].age = Older(discovered[cid].age)
                                      /\ discovered[cid].age \in Nat
  BY <1>1, <1>3, <1>4
<1>7. TerminationsInv'
  BY <1>1 DEF DiscoveryInv, TerminationsInv
<1>8. PartialInv'
  <2>1. LastPage(latest)' = LastPage(latest) /\ \A q : Pieces(latest, q)' = Pieces(latest, q)
    BY <1>1 DEF LastPage, Pieces
  <2>2. ASSUME cid \in DOMAIN partial, OfAdvert(partial[cid])
        PROVE  OfAdvert(partial[cid])'
    BY <1>5, <2>1, <2>2 DEF OfAdvert
  <2>. QED BY <1>1, <1>5, <2>2 DEF DiscoveryInv, PartialInv
<1>9. ListedInv'
  BY <1>1, <1>6 DEF DiscoveryInv, ListedInv, Listed, get_all_universes
<1>10. FreshInv'
  BY <1>1, <1>5 DEF DiscoveryInv, FreshInv
<1>11. WholeInv'
  <2>1. SUFFICES ASSUME whole, fresh, since' < Timeout
                 PROVE  /\ cid \in DOMAIN discovered' /\ discovered'[cid].age <= since'
                        /\ ~ mixed /\ latest \ gone \subseteq heard /\ heard \subseteq latest
    BY <1>1 DEF WholeInv
  <2>2. since \in Nat /\ since < Timeout /\ since' = since + 1
    BY <1>1, <2>1, DiscoveryAssumption, TimeoutAssumption DEF DiscoveryInv, TypesInv
  <2>3. /\ cid \in DOMAIN discovered /\ discovered[cid].age <= since
        /\ ~ mixed /\ latest \ gone \subseteq heard /\ heard \subseteq latest
    BY <1>1, <2>1, <2>2 DEF DiscoveryInv, WholeInv
  <2>. QED BY <1>6, <2>2, <2>3 DEF Older
<1>. QED BY <1>2, <1>7, <1>8, <1>9, <1>10, <1>11 DEF DiscoveryInv

\* An advert that loses a page is not whole.
LEMMA LoseStep ==
  ASSUME DiscoveryInv, NEW d \in net, Lose(d)
  PROVE  DiscoveryInv'
<1>1. /\ net' = net \ {d} /\ whole' = (whole /\ d.kind # "discovery")
      /\ UNCHANGED <<since, partial, discovered, latest, gone, fresh, mixing, mixed, heard>>
  BY DEF Lose, source, completion
<1>2. TypesInv'
  BY TypesStep DEF DiscoveryInv, Next
<1>3. TerminationsInv'
  BY <1>1 DEF DiscoveryInv, TerminationsInv
<1>4. whole' => whole /\ AdvertPages \cap net' = AdvertPages \cap net
  <2>1. \A e \in AdvertPages : e.kind = "discovery"
    BY DEF AdvertPages, AdvertPage
  <2>. QED BY <1>1, <2>1
<1>5. PartialInv' /\ FreshInv'
  BY <1>1, <1>4, PartialStays, FreshStays DEF DiscoveryInv
<1>6. ListedInv'
  BY <1>1 DEF DiscoveryInv, ListedInv, Listed
<1>7. WholeInv'
  BY <1>1, <1>4, SameAdvert DEF DiscoveryInv, WholeInv
<1>. QED BY <1>2, <1>3, <1>5, <1>6, <1>7 DEF DiscoveryInv

\* get_discovered_sources drops whole records, by their age.
LEMMA ListStep ==
  ASSUME DiscoveryInv, get_discovered_sources
  PROVE  DiscoveryInv'
<1>1. /\ partial' = WithoutExpired(partial) /\ discovered' = WithoutExpired(discovered)
      /\ mixing' = (mixing /\ cid \in DOMAIN partial')
      /\ UNCHANGED <<since, net, latest, whole, gone, fresh, mixed, heard>>
  BY DEF get_discovered_sources, source, history
<1>2. \A r : /\ DOMAIN WithoutExpired(r) = {c \in DOMAIN r : ~ IsOld(r[c].age)}
             /\ \A c \in DOMAIN WithoutExpired(r) : WithoutExpired(r)[c] = r[c]
  BY DEF WithoutExpired, Restrict
<1>3. TypesInv'
  BY TypesStep DEF DiscoveryInv, Next
<1>4. TerminationsInv'
  BY <1>1 DEF DiscoveryInv, TerminationsInv
<1>5. cid \in DOMAIN partial' => cid \in DOMAIN partial /\ partial'[cid] = partial[cid]
  BY <1>1, <1>2
<1>6. cid \in DOMAIN discovered' => cid \in DOMAIN discovered /\ discovered'[cid] = discovered[cid]
  BY <1>1, <1>2
<1>7. PartialInv'
  <2>1. mixing' => mixing /\ cid \in DOMAIN partial'
    BY <1>1
  <2>2. cid \in DOMAIN partial' /\ ~ mixing' => ~ mixing
    BY <1>1 DEF DiscoveryInv, TypesInv
  <2>3. LastPage(latest)' = LastPage(latest) /\ \A q : Pieces(latest, q)' = Pieces(latest, q)
    BY <1>1 DEF LastPage, Pieces
  <2>4. ASSUME cid \in DOMAIN partial', OfAdvert(partial[cid])
        PROVE  OfAdvert(partial[cid])'
    BY <1>5, <2>3, <2>4 DEF OfAdvert
  <2>. QED BY <1>5, <2>1, <2>2, <2>4 DEF DiscoveryInv, PartialInv
<1>8. ListedInv'
  BY <1>1, <1>6 DEF DiscoveryInv, ListedInv, Listed
<1>9. FreshInv'
  <2>1. SUFFICES ASSUME whole, fresh
                 PROVE  FreshInv'
    BY <1>1 DEF FreshInv
  <2>2. CASE cid \notin DOMAIN partial
    BY <1>1, <1>5, <2>1, <2>2, SameAdvert DEF DiscoveryInv, FreshInv
  <2>3. CASE cid \in DOMAIN partial
    <3>1. ~ mixing /\ WaitsFor(partial[cid], net) /\ AdvertPages \cap net # {}
      BY <2>1, <2>3 DEF DiscoveryInv, FreshInv
    <3>2. ~ IsOld(partial[cid].age)
      BY <3>1, TimeoutAssumption DEF WaitsFor, IsOld
    <3>3. cid \in DOMAIN partial' /\ partial'[cid] = partial[cid] /\ ~ mixing'
      BY <1>1, <1>2, <2>3, <3>1, <3>2
    <3>4. /\ AdvertPages' = AdvertPages /\ LastPage(latest)' = LastPage(latest)
          /\ \A q : AdvertPage(q)' = AdvertPage(q)
      BY <1>1, SameAdvert DEF LastPage
    <3>. QED BY <1>1, <3>1, <3>3, <3>4 DEF FreshInv, WaitsFor
  <2>. QED BY <2>2, <2>3
<1>10. WholeInv'
  <2>1. SUFFICES ASSUME whole, fresh, AdvertPages \cap net = {}, since < Timeout
                 PROVE  /\ cid \in DOMAIN discovered' /\ discovered'[cid].age <= since
                        /\ ~ mixed /\ latest \ gone \subseteq heard /\ heard \subseteq latest
    BY <1>1, SameAdvert DEF WholeInv
  <2>2. /\ cid \in DOMAIN discovered /\ discovered[cid].age <= since
        /\ ~ mixed /\ latest \ gone \subseteq heard /\ heard \subseteq latest
    BY <2>1 DEF DiscoveryInv, WholeInv
  <2>3. since \in Nat /\ discovered[cid].age \in Nat
    BY <2>2, TimeoutAssumption, DiscoveryAssumption
       DEF DiscoveryInv, TypesInv, KeepsRecords, Records, AgeValues
  <2>4. cid \in DOMAIN discovered'
    <3>1. ~ IsOld(discovered[cid].age)
      BY <2>1, <2>2, <2>3, TimeoutAssumption DEF IsOld
    <3>. QED BY <1>1, <1>2, <2>2, <3>1
  <2>. QED BY <1>6, <2>2, <2>4
<1>. QED BY <1>3, <1>4, <1>7, <1>8, <1>9, <1>10 DEF DiscoveryInv

\* A termination takes its universe off what is listed and off what was heard.
LEMMA TerminationStep ==
  ASSUME DiscoveryInv, NEW d \in net, ReceiveTermination(d)
  PROVE  DiscoveryInv'
<1>1. /\ d.kind = "terminate" /\ net' = net \ {d} /\ heard' = heard \ {d.universe}
      /\ discovered' = IF cid \in DOMAIN discovered
                       THEN [discovered EXCEPT ![cid] = terminate_universe(discovered[cid], d.universe)]
                       ELSE discovered
      /\ UNCHANGED <<since, partial, latest, whole, gone, fresh, mixing, mixed>>
  BY DEF ReceiveTermination, source, history
<1>2. AdvertPages \cap net' = AdvertPages \cap net
  <2>1. d \notin AdvertPages
    BY <1>1, ReceivableKinds DEF DiscoveryInv, TypesInv
  <2>. QED BY <1>1, <2>1
<1>3. d.universe \in gone
  BY <1>1 DEF DiscoveryInv, TerminationsInv
<1>4. ASSUME cid \in DOMAIN discovered
      PROVE  /\ cid \in DOMAIN discovered'
             /\ discovered'[cid].age = discovered[cid].age
             /\ Listed' = Listed \ {d.universe}
  <2> DEFINE r == discovered[cid]
  <2>1. r \in Records(Universes)
    BY <1>4 DEF DiscoveryInv, TypesInv, KeepsRecords
  <2>2. discovered'[cid] = terminate_universe(r, d.universe)
    BY <1>1, <1>4
  <2> HIDE DEF r
  <2>3. /\ get_all_universes(terminate_universe(r, d.universe)) = get_all_universes(r) \ {d.universe}
        /\ terminate_universe(r, d.universe).age = r.age
    BY <2>1, TerminatedIsNotListed
  <2>. QED BY <1>1, <1>4, <2>2, <2>3 DEF Listed, r
<1>5. cid \notin DOMAIN discovered => discovered' = discovered
  BY <1>1
<1>6. TypesInv'
  BY TypesStep DEF DiscoveryInv, Next
<1>7. TerminationsInv'
  BY <1>1 DEF DiscoveryInv, TerminationsInv
<1>8. PartialInv' /\ FreshInv'
  BY <1>1, <1>2, PartialStays, FreshStays DEF DiscoveryInv
<1>9. ListedInv'
  BY <1>1, <1>4, <1>5 DEF DiscoveryInv, ListedInv
<1>10. WholeInv'
  BY <1>1, <1>2, <1>3, <1>4, SameAdvert DEF DiscoveryInv, WholeInv
<1>. QED BY <1>6, <1>7, <1>8, <1>9, <1>10 DEF DiscoveryInv

\* The record that the receiver makes of a page and what it had.
RecordWith(d) ==
  LET p == UniversePage(d.page, d.universes)
  IN IF cid \in DOMAIN partial
     THEN [partial[cid] EXCEPT !.pages = WithPage(partial[cid].pages, p), !.age = 0]
     ELSE [pages |-> <<p>>, last_page |-> d.last_page, age |-> 0]

\* It is typed, and of the latest advert if what it had was.
LEMMA PageJoins ==
  ASSUME DiscoveryInv, NEW d \in net, d.kind = "discovery"
  PROVE  RecordWith(d) \in Records(Universes) /\ (~ mixing => OfAdvert(RecordWith(d)))
<1> DEFINE p == UniversePage(d.page, d.universes)
           L == LastPage(latest)
           src == RecordWith(d)
<1>1. d.page \in 0 .. L /\ d.last_page = L /\ d.universes = Pieces(latest, d.page)
  BY ReceivableKinds DEF DiscoveryInv, TypesInv
<1>2. L \in Nat /\ Pieces(latest, d.page) \subseteq Universes /\ 0 \in AgeValues
  <2>1. latest \in SUBSET Universes
    BY DEF DiscoveryInv, TypesInv
  <2>2. L \in Nat /\ Pieces(latest, d.page) \subseteq latest
    BY <2>1, PiecesCover
  <2>. QED BY <2>1, <2>2, TimeoutAssumption DEF AgeValues
<1>3. p \in Pages(Universes) /\ p.page \in 0 .. L /\ p.universes = Pieces(latest, p.page)
  BY <1>1, <1>2 DEF UniversePage, Pages
<1>4. CASE cid \notin DOMAIN partial
  <2>1. src = [pages |-> <<p>>, last_page |-> L, age |-> 0]
    BY <1>1, <1>4 DEF RecordWith
  <2> HIDE DEF p, src, L
  <2>2. <<p>> \in Seq(Pages(Universes)) /\ DOMAIN <<p>> = {1} /\ <<p>>[1] = p
    BY <1>3
  <2>3. src \in Records(Universes) /\ src.pages = <<p>> /\ src.last_page = L
    BY <1>2, <2>1, <2>2 DEF Records
  <2>. QED BY <1>3, <2>2, <2>3 DEF OfAdvert, src, L
<1>5. CASE cid \in DOMAIN partial
  <2> DEFINE r == partial[cid]
             new == WithPage(r.pages, p)
  <2>1. src = [r EXCEPT !.pages = new, !.age = 0]
    BY <1>5 DEF RecordWith
  <2>2. r \in Records(Universes) /\ r.pages \in Seq(Pages(Universes))
    BY <1>5 DEF DiscoveryInv, TypesInv, KeepsRecords, Records
  <2>3. ~ mixing => OfAdvert(r)
    BY <1>5 DEF DiscoveryInv, PartialInv
  <2> HIDE DEF r, p, src
  <2>4. /\ new \in Seq(Pages(Universes))
        /\ \A i \in DOMAIN new : new[i] = p \/ \E j \in DOMAIN r.pages : new[i] = r.pages[j]
    <3> DEFINE ps == r.pages
    <3>1. ps \in Seq(Pages(Universes)) /\ p \in Pages(Universes)
      BY <1>3, <2>2
    <3> HIDE DEF ps
    <3>2. /\ WithPage(ps, p) \in Seq(Pages(Universes))
          /\ \A i \in DOMAIN WithPage(ps, p) :
               WithPage(ps, p)[i] = p \/ \E j \in DOMAIN ps : WithPage(ps, p)[i] = ps[j]
      BY <3>1, WithPageHas
    <3>. QED BY <3>2 DEF ps
  <2> HIDE DEF new, L
  <2>5. src \in Records(Universes) /\ src.pages = new /\ src.last_page = r.last_page
    BY <1>2, <2>1, <2>2, <2>4 DEF Records
  <2>. QED BY <1>3, <2>3, <2>4, <2>5 DEF OfAdvert, src, L
<1>. QED BY <1>4, <1>5

\* While a whole advert arrives that found no incomplete record, the record
\* has every page but those still in flight, each once.
LEMMA PageArrives ==
  ASSUME DiscoveryInv, whole, fresh, NEW d \in net, d.kind = "discovery"
  PROVE  /\ ~ mixing /\ WaitsFor(RecordWith(d), net \ {d})
         /\ cid \notin DOMAIN partial => AdvertPages \subseteq net
<1> DEFINE p == UniversePage(d.page, d.universes)
           L == LastPage(latest)
           src == RecordWith(d)
<1>1. d \in AdvertPages /\ d.page \in 0 .. L /\ d = AdvertPage(d.page)
  BY ReceivableKinds DEF DiscoveryInv, TypesInv
<1>2. p \in Pages(Universes) /\ p.page = d.page
  <2>1. L \in Nat /\ d.universes \subseteq Universes
    BY ReceivableKinds, PiecesCover DEF DiscoveryInv, TypesInv
  <2>. QED BY <1>1, <2>1 DEF UniversePage, Pages
<1>3. \A q : q # d.page => AdvertPage(q) # d
  BY <1>1 DEF AdvertPage
<1>4. ~ mixing
  BY DEF DiscoveryInv, PartialInv, FreshInv
<1>5. CASE cid \notin DOMAIN partial
  <2>1. AdvertPages \subseteq net
    BY <1>1, <1>5 DEF DiscoveryInv, FreshInv
  <2>2. \A q \in 0 .. L : AdvertPage(q) \in net
    BY <2>1 DEF AdvertPages
  <2>3. src.pages = <<p>> /\ src.age = 0
    BY <1>5 DEF RecordWith
  <2> HIDE DEF p, src, L
  <2>4. DOMAIN <<p>> = {1} /\ <<p>>[1] = p
    OBVIOUS
  <2>5. Ascends(src.pages)
    BY <2>3, <2>4 DEF Ascends
  <2>6. \A i \in DOMAIN src.pages : AdvertPage(src.pages[i].page) \notin net \ {d}
    BY <1>1, <1>2, <2>3, <2>4
  <2>7. \A q \in 0 .. L : AdvertPage(q) \in net \ {d} \/ \E i \in DOMAIN src.pages : src.pages[i].page = q
    BY <1>2, <1>3, <2>2, <2>3, <2>4
  <2>. QED BY <1>4, <2>1, <2>3, <2>5, <2>6, <2>7 DEF WaitsFor, src, L
<1>6. CASE cid \in DOMAIN partial
  <2> DEFINE r == partial[cid]
             new == WithPage(r.pages, p)
  <2>1. src = [r EXCEPT !.pages = new, !.age = 0]
    BY <1>6 DEF RecordWith
  <2>2. r \in Records(Universes) /\ r.pages \in Seq(Pages(Universes))
    BY <1>6 DEF DiscoveryInv, TypesInv, KeepsRecords, Records
  <2>3. WaitsFor(r, net)
    BY <1>6 DEF DiscoveryInv, FreshInv
  <2> HIDE DEF r, p, src, L
  <2>4. \A i \in DOMAIN r.pages : r.pages[i].page # p.page
    BY <1>1, <1>2, <2>3 DEF WaitsFor
  <2>5. /\ Ascends(new)
        /\ \A i \in DOMAIN new : new[i] = p \/ \E j \in DOMAIN r.pages : new[i] = r.pages[j]
        /\ \E i \in DOMAIN new : new[i] = p
        /\ \A j \in DOMAIN r.pages : \E i \in DOMAIN new : new[i] = r.pages[j]
    <3>1. Ascends(r.pages)
      BY <2>3 DEF WaitsFor
    <3>2. Ascends(new)
      BY <1>2, <2>2, <2>4, <3>1, WithPageAscends
    <3> DEFINE ps == r.pages
    <3>3. ps \in Seq(Pages(Universes)) /\ p \in Pages(Universes)
      BY <1>2, <2>2
    <3> HIDE DEF ps
    <3>4. \A i \in DOMAIN WithPage(ps, p) :
            WithPage(ps, p)[i] = p \/ \E j \in DOMAIN ps : WithPage(ps, p)[i] = ps[j]
      BY <3>3, WithPageHas
    <3>5. \E i \in DOMAIN WithPage(ps, p) : WithPage(ps, p)[i] = p
      BY <3>3, WithPageHas
    <3>6. \A j \in DOMAIN ps : \E i \in DOMAIN WithPage(ps, p) : WithPage(ps, p)[i] = ps[j]
      BY <3>3, WithPageHas
    <3>. QED BY <3>2, <3>4, <3>5, <3>6 DEF ps
  <2> HIDE DEF new
  <2>6. src.pages = new /\ src.age = 0
    BY <2>1, <2>2 DEF Records
  <2>7. \A i \in DOMAIN new : AdvertPage(new[i].page) \notin net \ {d}
    BY <1>1, <1>2, <2>3, <2>5 DEF WaitsFor
  <2>8. \A q \in 0 .. L : AdvertPage(q) \in net \ {d} \/ \E i \in DOMAIN new : new[i].page = q
    <3> SUFFICES ASSUME NEW q \in 0 .. L, AdvertPage(q) \notin net \ {d}
                 PROVE  \E i \in DOMAIN new : new[i].page = q
      OBVIOUS
    <3>1. CASE q = d.page
      BY <1>2, <2>5, <3>1
    <3>2. CASE q # d.page
      <4>1. \E j \in DOMAIN r.pages : r.pages[j].page = q
        BY <1>3, <2>3, <3>2 DEF WaitsFor, L
      <4>. QED BY <2>5, <4>1
    <3>. QED BY <3>1, <3>2
  <2>. QED BY <1>4, <1>6, <2>5, <2>6, <2>7, <2>8 DEF WaitsFor, src, L
<1>. QED BY <1>5, <1>6

\* A page that arrives completes its record, which is then listed, or leaves
\* it waiting; a record of one advert lists that advert.
LEMMA PageStep ==
  ASSUME DiscoveryInv, NEW d \in net, ReceivePage(d)
  PROVE  DiscoveryInv'
<1> DEFINE L == LastPage(latest)
           known == cid \in DOMAIN partial
           src == RecordWith(d)
           found == IF known THEN has_all_pages(src) ELSE d.page = 0 /\ d.last_page = 0
<1>1. /\ d.kind = "discovery" /\ net' = net \ {d}
      /\ UNCHANGED <<universes, since, faults, latest, whole, gone, fresh>>
  BY DEF ReceivePage, source, history
<1>2. /\ partial' = IF found THEN Without(partial, cid) ELSE Recorded(partial, cid, src)
      /\ discovered' = IF found THEN Recorded(discovered, cid, src) ELSE discovered
      /\ mixing' = (mixing /\ ~ found) /\ mixed' = (IF found THEN mixing ELSE mixed)
      /\ heard' = IF found THEN latest ELSE heard
  BY DEF ReceivePage, handle_universe_discovery_packet, RecordWith, UniversePage
<1>3. d \in AdvertPages /\ d.page \in 0 .. L /\ d.last_page = L /\ L \in Nat
  BY <1>1, ReceivableKinds, PiecesCover DEF DiscoveryInv, TypesInv
<1>4. src \in Records(Universes) /\ (~ mixing => OfAdvert(src))
  BY <1>1, PageJoins
<1>5. found => has_all_pages(src)
  <2> SUFFICES ASSUME ~ known, d.page = 0, L = 0
               PROVE  has_all_pages(src)
    BY <1>3
  <2> DEFINE p == UniversePage(d.page, d.universes)
  <2>1. src.pages = <<p>> /\ src.last_page = 0
    BY <1>3 DEF RecordWith
  <2>2. p.page = 0
    BY DEF UniversePage
  <2> HIDE DEF p, src
  <2>3. <<p>>[1] = p /\ DOMAIN <<p>> = {1} /\ 0 .. 0 = {0}
    OBVIOUS
  <2>. QED BY <2>1, <2>2, <2>3 DEF has_all_pages
<1>6. whole /\ fresh => ~ mixing /\ WaitsFor(src, net \ {d}) /\ (~ known => AdvertPages \subseteq net)
  BY <1>1, PageArrives
<1> HIDE DEF src
<1>7. whole /\ fresh /\ ~ found => AdvertPages \cap net' # {}
  <2> SUFFICES ASSUME whole, fresh, ~ found, AdvertPages \cap net' = {}
               PROVE  FALSE
    OBVIOUS
  <2>1. \A q \in 0 .. L : AdvertPage(q) \notin net \ {d}
    BY <1>1 DEF AdvertPages
  <2>2. Complete(src) /\ Ascends(src.pages) /\ OfAdvert(src)
    BY <1>4, <1>6, <2>1 DEF Complete, WaitsFor, OfAdvert
  <2>3. has_all_pages(src)
    BY <1>4, <2>2, AllPagesInPlace DEF OfAdvert
  <2>4. ~ known /\ L # 0
    BY <1>3, <2>3
  <2>5. PICK q \in 0 .. L : q # d.page
    BY <1>3, <2>4
  <2>6. AdvertPage(q) \in net /\ AdvertPage(q) # d
    BY <1>6, <2>4, <2>5 DEF AdvertPages, AdvertPage
  <2>. QED BY <2>1, <2>6
<1>8. whole /\ fresh /\ found => AdvertPages \cap net' = {}
  <2> SUFFICES ASSUME whole, fresh, found, NEW q \in 0 .. L
               PROVE  AdvertPage(q) \notin net'
    BY DEF AdvertPages
  <2>1. q + 1 \in DOMAIN src.pages /\ src.pages[q + 1].page = q
    BY <1>4, <1>5, <1>6 DEF has_all_pages, OfAdvert
  <2>. QED BY <1>1, <1>6, <2>1 DEF WaitsFor
<1>9. found /\ ~ mixing => get_all_universes(src) = latest
  <2> SUFFICES ASSUME found, ~ mixing
               PROVE  get_all_universes(src) = latest
    OBVIOUS
  <2>1. /\ \A i \in 0 .. L : i + 1 \in DOMAIN src.pages /\ src.pages[i + 1].page = i
        /\ \A i \in DOMAIN src.pages : src.pages[i].universes = Pieces(latest, src.pages[i].page)
    BY <1>4, <1>5 DEF has_all_pages, OfAdvert
  <2>2. latest \in SUBSET Universes /\ \A q : Pieces(latest, q) \subseteq latest
    BY DEF Pieces, DiscoveryInv, TypesInv
  <2>3. ASSUME NEW u \in latest
        PROVE  \E i \in DOMAIN src.pages : u \in src.pages[i].universes
    <3>1. PICK q \in 0 .. L : u \in Pieces(latest, q)
      BY <2>2, PiecesCover DEF L
    <3>. QED BY <2>1, <3>1
  <2>. QED BY <2>1, <2>2, <2>3 DEF get_all_universes
<1>10. \A x : cid \in DOMAIN Recorded(x, cid, src) /\ Recorded(x, cid, src)[cid] = src
              /\ cid \notin DOMAIN Without(x, cid)
  BY DEF Recorded, Without, Restrict
<1>11. TypesInv'
  BY TypesStep DEF DiscoveryInv, Next
<1>12. TerminationsInv'
  BY <1>1 DEF DiscoveryInv, TerminationsInv
<1>13. /\ AdvertPages' = AdvertPages /\ LastPage(latest)' = L
       /\ \A q : AdvertPage(q)' = AdvertPage(q) /\ Pieces(latest, q)' = Pieces(latest, q)
  BY <1>1, SameAdvert DEF LastPage, Pieces
<1>14. CASE found
  <2>1. /\ cid \notin DOMAIN partial' /\ cid \in DOMAIN discovered' /\ discovered'[cid] = src
        /\ ~ mixing' /\ mixed' = mixing /\ heard' = latest
    BY <1>2, <1>10, <1>14
  <2>2. PartialInv'
    BY <2>1 DEF PartialInv
  <2>3. ListedInv'
    BY <1>9, <1>14, <2>1 DEF ListedInv, Listed
  <2>4. FreshInv'
    BY <1>1, <1>8, <1>13, <1>14, <2>1 DEF FreshInv
  <2>5. WholeInv'
    <3>1. since \in Nat /\ (whole /\ fresh => src.age = 0)
      BY <1>6, DiscoveryAssumption DEF DiscoveryInv, TypesInv, WaitsFor
    <3>. QED BY <1>1, <1>6, <2>1, <3>1 DEF WholeInv
  <2>. QED BY <1>11, <1>12, <2>2, <2>3, <2>4, <2>5 DEF DiscoveryInv
<1>15. CASE ~ found
  <2>1. /\ cid \in DOMAIN partial' /\ partial'[cid] = src
        /\ UNCHANGED <<discovered, mixing, mixed, heard>>
    <3>1. mixing' = mixing
      BY <1>2, <1>15 DEF DiscoveryInv, TypesInv
    <3>. QED BY <1>2, <1>10, <1>15, <3>1
  <2>2. PartialInv'
    BY <1>4, <1>13, <2>1 DEF PartialInv, OfAdvert
  <2>3. ListedInv'
    BY <2>1 DEF DiscoveryInv, ListedInv, Listed
  <2>4. FreshInv'
    BY <1>1, <1>6, <1>7, <1>13, <1>15, <2>1 DEF FreshInv, WaitsFor
  <2>5. WholeInv'
    BY <1>1, <1>7, <1>13, <1>15 DEF WholeInv
  <2>. QED BY <1>11, <1>12, <2>2, <2>3, <2>4, <2>5 DEF DiscoveryInv
<1>. QED BY <1>14, <1>15

\* The invariant is inductive.
LEMMA DiscoveryStep ==
  ASSUME DiscoveryInv, [Next]_vars
  PROVE  DiscoveryInv'
<1>1. CASE UNCHANGED vars
  <2>1. TypesInv'
    BY <1>1, TypesStep DEF DiscoveryInv
  <2>2. PartialInv' /\ FreshInv'
    BY <1>1, PartialStays, FreshStays DEF vars, history, completion, DiscoveryInv
  <2>3. AdvertPages' = AdvertPages /\ Listed' = Listed
    BY <1>1, SameAdvert DEF vars, history, Listed
  <2>. QED BY <1>1, <2>1, <2>2, <2>3
           DEF vars, source, history, completion, DiscoveryInv, TerminationsInv, ListedInv, WholeInv
<1>. QED BY <1>1, SourceSteps, AdvertiseStep, TickStep, LoseStep, ListStep, TerminationStep, PageStep
         DEF Next

-----------------------------------------------------------------------------
(* Theorems. *)

\* Whatever is lost or fails: the datagrams in flight are pages of one advert
\* and terminations, and the receiver records only universes of the source.
THEOREM DiscoveryTypeCorrect == Spec => []TypeOK
<1>1. TypesInv => TypeOK
  <2>1. SUFFICES ASSUME TypesInv
                 PROVE  TypeOK
    OBVIOUS
  <2>2. \A d \in net : IF d.kind = "discovery"
                       THEN d.page \in 0 .. d.last_page /\ d.universes \subseteq Universes
                       ELSE d.universe \in Universes /\ d.copy \in 1 .. Terminations
    <3>1. \A q : Pieces(latest, q) \subseteq Universes
      BY <2>1 DEF TypesInv, Pieces
    <3>. QED BY <2>1, <3>1, ReceivableKinds DEF TypesInv
  <2>3. \A r \in {partial, discovered} :
          /\ DOMAIN r \subseteq {cid}
          /\ \A c \in DOMAIN r : \A i \in DOMAIN r[c].pages :
               r[c].pages[i].universes \subseteq Universes
    <3>1. \A x \in Records(Universes) : \A i \in DOMAIN x.pages :
            x.pages[i].universes \subseteq Universes
      <4> SUFFICES ASSUME NEW x \in Records(Universes), NEW i \in DOMAIN x.pages
                   PROVE  x.pages[i].universes \subseteq Universes
        OBVIOUS
      <4>1. x.pages \in Seq(Pages(Universes))
        BY DEF Records
      <4>2. x.pages[i] \in Pages(Universes)
        BY <4>1, LenProperties
      <4>. QED BY <4>2 DEF Pages
    <3>. QED BY <2>1, <3>1 DEF TypesInv, KeepsRecords
  <2>. QED BY <2>1, <2>2, <2>3 DEF TypesInv, TypeOK
<1>2. TypesInv /\ [Next]_vars => TypesInv'
  BY TypesStep
<1>3. Init => TypesInv
  BY InitDiscovery DEF DiscoveryInv
<1>. QED BY <1>1, <1>2, <1>3, PTL DEF Spec

\* It holds in every state.
LEMMA DiscoveryInvHolds == Spec => []DiscoveryInv
<1>1. DiscoveryInv /\ [Next]_vars => DiscoveryInv'
  BY DiscoveryStep
<1>. QED BY <1>1, InitDiscovery, PTL DEF Spec

\* Whatever is lost, fails, expires or is terminated, and in whatever order:
\* a receiver lists exactly the advert that completed its record, less what
\* it heard terminated, unless the incomplete record outlived a change of the
\* source's universes.
THEOREM ListingsAreAdverts == Spec => []ListedWasAdvertised
<1>1. DiscoveryInv => ListedWasAdvertised
  BY DEF DiscoveryInv, ListedInv, ListedWasAdvertised
<1>. QED BY <1>1, DiscoveryInvHolds, PTL

\* An advert that arrives whole where no incomplete record is kept is listed
\* until its records expire.
THEOREM AdvertsAreListed == Spec => []CompleteAdvertIsListed
<1>1. DiscoveryInv => CompleteAdvertIsListed
  BY DEF DiscoveryInv, ListedInv, WholeInv, CompleteAdvertIsListed
<1>. QED BY <1>1, DiscoveryInvHolds, PTL

=============================================================================
