------------------------------- MODULE Stream -------------------------------
(***************************************************************************)
(* One stream from end to end: the numbers the source gives its datagrams  *)
(* (src/source.rs), a network that loses, repeats and reorders them, and   *)
(* what the receiver's SequenceNumbering (src/receive.rs) makes of them    *)
(* amid the traffic of other streams.                                      *)
(*                                                                         *)
(* Datagrams are counted from 1.  Source shows that numbers follow one     *)
(* another through data, terminations and new registrations, so datagram k *)
(* carries k - 1 modulo SeqMod.                                            *)
(***************************************************************************)
EXTENDS SequenceTracking

CONSTANTS
  DataUniverses, SyncUniverses, AnnounceModes,   \* of SequenceNumbering
  src, uni,        \* the stream that is followed: its source and universe
  Terminations,    \* E131_TERMINATE_STREAM_PACKET_COUNT
  Overtake,        \* the network: a datagram arrives before one sent so much later, or not at all
  Others,          \* the other streams: pairs of a source and a universe
  OtherNumbers,    \* the numbers these carry
  MaxSent,         \* bound: datagrams the source sends
  InFlight,        \* bound: data in flight
  Repeats          \* bound: datagrams the network repeats

(***************************************************************************)
(* The discard window of the receiver is what absorbs reordering: it must  *)
(* be as wide as the network's, and reach up to the number shown last.     *)
(***************************************************************************)
ASSUME StreamAssumption ==
  /\ src \in Sources /\ uni \in DataUniverses
  /\ DataUniverses \subseteq Universes /\ SyncUniverses \subseteq Universes
  /\ AnnounceModes \subseteq BOOLEAN
  /\ Others \subseteq (Sources \X DataUniverses) \ {<<src, uni>>}
  /\ OtherNumbers \subseteq SeqNumbers
  /\ Terminations \in Nat \ {0} /\ Overtake \in Nat \ {0}
  /\ Overtake <= -DiscardLower /\ DiscardUpper = 0
  /\ MaxSent \in Nat /\ InFlight \in Nat /\ Repeats \in Nat

VARIABLES
  sent,        \* how many datagrams the source has sent
  net,         \* those in flight
  arrived,     \* the latest that reached the receiver
  repeated,    \* how many were repeated
  shown, flip, \* history: the one accepted last; changes with every one accepted
  data_sequences, sync_sequences, call, ret   \* the receiver's SequenceNumbering

Tracker == INSTANCE SequenceNumbering

tracker == <<data_sequences, sync_sequences, call, ret>>
vars == <<sent, net, arrived, repeated, shown, flip, tracker>>

Init ==
  /\ sent = 0 /\ net = {} /\ arrived = 0 /\ repeated = 0 /\ shown = 0 /\ flip = FALSE
  /\ Tracker!Init

-----------------------------------------------------------------------------
(* The source. *)

Datagrams(kind, count) == {[kind |-> kind, id |-> sent + k] : k \in 1 .. count}

\* Mutant of Number: the counter starts again before 255.
Number_short(id) == (id - 1) % (SeqMod - 1)

Number(id) == (id - 1) % SeqMod

Put(kind, count) ==
  /\ sent + count <= MaxSent
  /\ net' = net \cup Datagrams(kind, count)
  /\ sent' = sent + count
  /\ UNCHANGED <<arrived, repeated, shown, flip, tracker>>

send == Cardinality(net) < InFlight /\ Put("data", 1)

\* A stream that was terminated may be registered and sent again.
terminate_stream == Put("end", Terminations)

-----------------------------------------------------------------------------
(* The network. *)

Lose(d) ==
  /\ net' = net \ {d}
  /\ UNCHANGED <<sent, arrived, repeated, shown, flip, tracker>>

\* d reaches the receiver; what it overtook too far is lost.
Arrive(d) ==
  /\ arrived' = IF d.id > arrived THEN d.id ELSE arrived
  /\ \E again \in BOOLEAN :
       /\ again => repeated < Repeats
       /\ repeated' = IF again THEN repeated + 1 ELSE repeated
       /\ net' = {e \in net : (e # d \/ again) /\ e.id > arrived' - Overtake}
  /\ UNCHANGED sent

-----------------------------------------------------------------------------
(* The receiver, which listens to the universe. *)

handle_data(d, announce) ==
  /\ d.kind = "data"
  /\ Arrive(d)
  /\ Tracker!check_data_seq_number(src, uni, Number(d.id), announce)
  /\ IF ret' = Ok THEN shown' = d.id /\ flip' = ~ flip ELSE UNCHANGED <<shown, flip>>

\* Comes before the sequence number is looked at.
handle_end(d) ==
  /\ d.kind = "end"
  /\ Arrive(d)
  /\ Tracker!remove_seq_numbers(src, uni)
  /\ UNCHANGED <<shown, flip>>

Receive(d) == handle_end(d) \/ \E announce \in AnnounceModes : handle_data(d, announce)

\* A round of recv: the timeouts are checked, nothing may have come.
Poll(announce) ==
  /\ Tracker!check_timeouts(announce)
  /\ UNCHANGED <<sent, net, arrived, repeated, shown, flip>>

\* reset_sources
Reset ==
  /\ Tracker!clear
  /\ UNCHANGED <<sent, net, arrived, repeated, shown, flip>>

Tick ==
  /\ Tracker!Tick
  /\ UNCHANGED <<sent, net, arrived, repeated, shown, flip>>

OtherTraffic(p) ==
  /\ \/ \E n \in OtherNumbers, announce \in AnnounceModes :
          Tracker!check_data_seq_number(p[1], p[2], n, announce)
     \/ Tracker!remove_seq_numbers(p[1], p[2])
  /\ UNCHANGED <<sent, net, arrived, repeated, shown, flip>>

-----------------------------------------------------------------------------

Next ==
  \/ send
  \/ terminate_stream
  \/ \E d \in net : Lose(d) \/ Receive(d)
  \/ \E announce \in AnnounceModes : Poll(announce)
  \/ Reset
  \/ Tick
  \/ \E p \in Others : OtherTraffic(p)

Spec == Init /\ [][Next]_vars

(***************************************************************************)
(* A datagram arrives or is lost, and time passes.  What the user does is  *)
(* not assumed.                                                            *)
(***************************************************************************)
FairSpec == Spec /\ WF_vars(\E d \in net : Lose(d) \/ Receive(d)) /\ WF_vars(Tick)

-----------------------------------------------------------------------------
(* Properties. *)

playing == Tracked(data_sequences, src, uni) /\ ~ TimedOut(data_sequences, src, uni)

\* The receiver implements Playback: whatever the network loses, repeats or
\* lets overtake within the window, while a stream is alive no datagram is
\* accepted twice or after a later one, also when numbers wrap and other
\* streams come, go and time out; and a datagram delayed beyond the
\* termination packets restarts the stream at most one reordering back.
PlaybackSpec == INSTANCE Playback WITH playing <- playing, shown <- shown, flip <- flip
InOrder == PlaybackSpec!Spec

\* A datagram later than the one shown last is discarded only after a burst of
\* losses that took the numbers round almost to where they were (237 in the
\* code): no shorter loss costs a datagram that arrives.
DiscardedOnlyAfterBurst ==
  [][\A d \in net :
       Receive(d) /\ ret' = OutOfSequence /\ d.id > shown =>
         d.id - shown > SeqMod + DiscardLower]_vars

\* When the source sends no more, a receiver whose user goes on calling recv
\* with announce_timeout off, whatever calls come between, forgets the stream
\* for good: by a termination packet or the timeout, and also if a datagram
\* overtaken by the termination starts it again.  A user who only calls recv
\* with announce_timeout on has no such promise: a search stops at the first
\* source without a timeout.
EndedStreamIsForgotten ==
  <>[][sent' = sent]_vars /\ WF_vars(Poll(FALSE)) => <>[]~ Tracked(data_sequences, src, uni)

AnnouncedTimeoutIsExact == Tracker!AnnouncedTimeoutIsExact
=============================================================================
