----------------------------- MODULE WaitingData -----------------------------
(***************************************************************************)
(* Data the receiver holds back until a synchronisation packet arrives     *)
(* (src/receive.rs, waiting_data): a function from data universes to one   *)
(* DMXData each, and the merge functions that decide which data stays.     *)
(* Operators with the name of a method give the map it leaves behind.      *)
(***************************************************************************)
EXTENDS Ages, Sequences, FiniteSets, Functions

CONSTANTS
  MergeFns,     \* the merge functions the user may set: of {"default", "htp"}
  NoSource      \* src_cid of data merged from two packets

ASSUME MergeAssumption == MergeFns \subseteq {"default", "htp"}

(***************************************************************************)
(* DMXData: its universe is the key.  values is the start code followed by *)
(* slot levels; seq, the sequence number of the packet that carried it,    *)
(* is a history field no operator reads.                                   *)
(***************************************************************************)
DMXData(sync, prio, src, preview, values, n) ==
  [sync_uni |-> sync, priority |-> prio, src_cid |-> src, preview |-> preview,
   values |-> values, seq |-> n, age |-> 0]

\* Mutant: at equal priority the previous data is kept.
discard_lowest_priority_then_newest(i, n) ==
  [ok |-> TRUE, data |-> IF i.priority >= n.priority THEN i ELSE n]

discard_lowest_priority_then_previous(i, n) ==
  [ok |-> TRUE, data |-> IF i.priority > n.priority THEN i ELSE n]

Higher(a, b) == IF a > b THEN a ELSE b

\* Mutant of SlotMerge: stops at the end of the shorter universe.
SlotMerge_shorter(v, w) ==
  [k \in 1 .. (IF Len(v) < Len(w) THEN Len(v) ELSE Len(w)) |-> Higher(v[k], w[k])]

\* Slot by slot the higher level; the longer universe gives the rest.
SlotMerge(v, w) ==
  [k \in 1 .. Higher(Len(v), Len(w)) |->
     IF k > Len(v) THEN w[k] ELSE IF k > Len(w) THEN v[k] ELSE Higher(v[k], w[k])]

\* The universes are equal: store_waiting_data merges data of one universe.
htp_dmx_merge(i, n) ==
  IF i.values = <<>> \/ n.values = <<>> \/ i.sync_uni # n.sync_uni
  THEN [ok |-> FALSE]
  ELSE IF i.values[1] # n.values[1]
  THEN [ok |-> FALSE]
  ELSE [ok |-> TRUE,
        data |-> IF i.priority > n.priority THEN i
                 ELSE IF n.priority > i.priority THEN n
                 ELSE [i EXCEPT !.src_cid = NoSource,
                                !.preview = i.preview \/ n.preview,
                                !.values = SlotMerge(i.values, n.values)]]

Merge(fn, i, n) ==
  IF fn = "htp" THEN htp_dmx_merge(i, n) ELSE discard_lowest_priority_then_previous(i, n)

-----------------------------------------------------------------------------

\* waiting_data.remove(universe)
clear_waiting_data(w, u) == Restrict(w, DOMAIN w \ {u})

\* The old data is taken out before the merge, which may fail.
store_waiting_data(w, u, d, fn) ==
  LET rest == clear_waiting_data(w, u)
      m == IF u \in DOMAIN w THEN Merge(fn, w[u], d) ELSE [ok |-> TRUE, data |-> d]
  IN IF m.ok
     THEN [ok |-> TRUE, waiting |-> [v \in DOMAIN w \cup {u} |-> IF v = u THEN m.data ELSE rest[v]]]
     ELSE [ok |-> FALSE, waiting |-> rest]

WaitingOn(w, sync) == {u \in DOMAIN w : w[u].sync_uni = sync}

\* Mutant of rtrv_waiting_data: stale data is released as well.
rtrv_waiting_data_stale(w, sync) ==
  [waiting |-> Restrict(w, DOMAIN w \ WaitingOn(w, sync)),
   data    |-> {[universe |-> u, dmx |-> w[u]] : u \in WaitingOn(w, sync)}]

\* All data waiting on the address leaves the map; what is too old is dropped.
rtrv_waiting_data(w, sync) ==
  [waiting |-> Restrict(w, DOMAIN w \ WaitingOn(w, sync)),
   data    |-> {[universe |-> u, dmx |-> w[u]] :
                  u \in {v \in WaitingOn(w, sync) : ~ IsOld(w[v].age)}}]

check_waiting_data_timeouts(w) == Restrict(w, {u \in DOMAIN w : ~ IsOld(w[u].age)})

AgedWaiting(w) == [u \in DOMAIN w |-> [w[u] EXCEPT !.age = Older(@)]]
=============================================================================
