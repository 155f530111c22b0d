--------------------------- MODULE NetworkReceiver ---------------------------
(***************************************************************************)
(* SacnNetworkReceiver of src/receive.rs: the socket of a receiver and the *)
(* multicast groups it is a member of, in the two versions the library is  *)
(* built in, for Windows and for other systems.  An operation is the set   *)
(* of its outcomes: the groups after it and what it returns.               *)
(***************************************************************************)
EXTENDS SequenceTracking

CONSTANT Platform   \* the build, and the address the receiver is bound to

ASSUME PlatformAssumption == Platform \in [windows : BOOLEAN, ipv6 : BOOLEAN]

Result(r) == [res |-> r]
Io == Result("Io")
OsOperationUnsupported == Result("OsOperationUnsupported")

\* The address of a universe's group: 239.255.h.l or ff18::8300:u, where the
\* universe can be read off, so that no two universes share a group.
universe_to_ipv4_multicast_addr(u) == [ipv6 |-> FALSE, universe |-> u]
universe_to_ipv6_multicast_addr(u) == [ipv6 |-> TRUE, universe |-> u]

MulticastGroup(u) ==
  IF Platform.ipv6 THEN universe_to_ipv6_multicast_addr(u) ELSE universe_to_ipv4_multicast_addr(u)

Groups(us) == {MulticastGroup(u) : u \in us}

\* IPv6 multicast on Windows is switched off.
MulticastSupported == ~ (Platform.windows /\ Platform.ipv6)

-----------------------------------------------------------------------------
(* Groups.  The operating system may refuse any operation; it refuses to   *)
(* join a group twice, and to leave one that was not joined.               *)

Outcomes(joined, groups, allowed) ==
  {o \in {[joined |-> groups, ret |-> Ok], [joined |-> joined, ret |-> Io]} : o.ret = Ok => allowed}

join_unix_multicast(joined, g) == Outcomes(joined, joined \cup {g}, g \notin joined)

\* The same, of groups of either version: that IPv6 is unsupported shows
\* only when a group is left.
join_win_multicast(joined, g) == Outcomes(joined, joined \cup {g}, g \notin joined)

leave_unix_multicast(joined, g) == Outcomes(joined, joined \ {g}, g \in joined)

leave_win_multicast(joined, g) ==
  IF g.ipv6 THEN {[joined |-> joined, ret |-> OsOperationUnsupported]}
            ELSE Outcomes(joined, joined \ {g}, g \in joined)

listen_multicast_universe(joined, u) ==
  IF Platform.windows THEN join_win_multicast(joined, MulticastGroup(u))
                      ELSE join_unix_multicast(joined, MulticastGroup(u))

mute_multicast_universe(joined, u) ==
  IF Platform.windows THEN leave_win_multicast(joined, MulticastGroup(u))
                      ELSE leave_unix_multicast(joined, MulticastGroup(u))

-----------------------------------------------------------------------------
(* Settings of the socket. *)

\* Mutant of set_is_multicast_enabled: the platform is not looked at.
set_is_multicast_enabled_anywhere(old, val) == [enabled |-> val, ret |-> Ok]

set_is_multicast_enabled(old, val) ==
  IF val /\ ~ MulticastSupported
  THEN [enabled |-> old, ret |-> OsOperationUnsupported]
  ELSE [enabled |-> val, ret |-> Ok]

\* What setting the socket to receive IPv6 only may return.
set_only_v6 == IF Platform.ipv6 THEN {Ok, Io} ELSE {Result("IpVersionError")}
=============================================================================
