-------------------------- MODULE DiscoveryRecords --------------------------
(***************************************************************************)
(* The receiver's records of the sources it discovers (src/receive.rs,     *)
(* DiscoveredSacnSource).  find_discovered_src looks a source up by CID    *)
(* and a CID is never in a list twice, so discovered_sources and           *)
(* partially_discovered_sources are functions from CIDs to records.  A     *)
(* page holds the set of its universes: the parser admits only strictly    *)
(* ascending lists.                                                        *)
(***************************************************************************)
EXTENDS Ages, Sequences, FiniteSets, Functions

UniversePage(page, universes) == [page |-> page, universes |-> universes]

\* A push followed by the stable sort_by of has_all_pages: pages are sorted
\* already, so the new one comes after those with its number.
WithPage(pages, p) ==
  LET k == Cardinality({i \in DOMAIN pages : pages[i].page <= p.page})
  IN SubSeq(pages, 1, k) \o <<p>> \o SubSeq(pages, k + 1, Len(pages))

\* Mutant of has_all_pages: the last page is not looked for.
has_all_pages_but_last(src) ==
  \A i \in 0 .. src.last_page - 1 : i + 1 \in DOMAIN src.pages /\ src.pages[i + 1].page = i

\* Entry i of the sorted list is page i, up to the last page.
has_all_pages(src) ==
  \A i \in 0 .. src.last_page : i + 1 \in DOMAIN src.pages /\ src.pages[i + 1].page = i

get_all_universes(src) == UNION {src.pages[i].universes : i \in DOMAIN src.pages}

\* Mutant of terminate_universe: the test of retain is inverted.
terminate_universe_inverted(src, u) ==
  [src EXCEPT !.pages =
     [i \in DOMAIN src.pages |-> [src.pages[i] EXCEPT !.universes = @ \cap {u}]]]

terminate_universe(src, u) ==
  [src EXCEPT !.pages =
     [i \in DOMAIN src.pages |-> [src.pages[i] EXCEPT !.universes = @ \ {u}]]]

\* Mutant of Recorded: a source already recorded is not updated.
Recorded_first(records, cid, src) ==
  [c \in DOMAIN records \cup {cid} |-> IF c \in DOMAIN records THEN records[c] ELSE src]

Recorded(records, cid, src) ==
  [c \in DOMAIN records \cup {cid} |-> IF c = cid THEN src ELSE records[c]]

Without(records, cid) == Restrict(records, DOMAIN records \ {cid})

(***************************************************************************)
(* handle_universe_discovery_packet: what one page does to the two lists,  *)
(* and whether it completes a source.  The last page number is taken from  *)
(* the first page received and never looked at again.                      *)
(***************************************************************************)
handle_universe_discovery_packet(partial, discovered, cid, p, last_page) ==
  LET known == cid \in DOMAIN partial
      src == IF known
             THEN [partial[cid] EXCEPT !.pages = WithPage(@, p), !.age = 0]
             ELSE [pages |-> <<p>>, last_page |-> last_page, age |-> 0]
      found == IF known THEN has_all_pages(src) ELSE p.page = 0 /\ last_page = 0
  IN [partial    |-> IF found THEN Without(partial, cid) ELSE Recorded(partial, cid, src),
      discovered |-> IF found THEN Recorded(discovered, cid, src) ELSE discovered,
      found      |-> found]

\* One retain of remove_expired_sources.
WithoutExpired(records) == Restrict(records, {c \in DOMAIN records : ~ IsOld(records[c].age)})

AgedRecords(records) == [c \in DOMAIN records |-> [records[c] EXCEPT !.age = Older(@)]]
=============================================================================
