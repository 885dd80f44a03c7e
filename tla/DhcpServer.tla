----------------------------- MODULE DhcpServer -----------------------------
(***************************************************************************)
(* The DHCP server of the access point (network/dhcpserver.c): a table of  *)
(* leases, each with the MAC it belongs to and an expiry that keeps only   *)
(* the upper half of a millisecond counter that wraps.                     *)
(*                                                                         *)
(* The counter has Wrap values (2^32 in the code) of which an expiry keeps *)
(* every Grain-th (2^16); a lease lasts Lease ticks (24 hours).  Clients   *)
(* may discover and request at any time, request any address, and lose or  *)
(* repeat messages, so the messages themselves carry no state.  A client   *)
(* uses an address for the lease it was acknowledged, counted by its own   *)
(* clock, in the ghost held.                                               *)
(***************************************************************************)
EXTENDS Integers, FiniteSetsExt

CONSTANTS
    Macs,     \* the clients' hardware addresses
    NoMac,    \* the all-zero address of a free lease
    MaxIp,    \* DHCPS_MAX_IP
    Wrap,     \* 2^32: values of cyw43_hal_ticks_ms
    Grain,    \* 2^16: ticks per unit of expiry
    Lease     \* DEFAULT_LEASE_TIME_S in ticks

ASSUME MacsAssumption == NoMac \notin Macs
ASSUME TicksAssumption ==
    /\ {MaxIp, Wrap, Grain, Lease} \subseteq Nat \ {0}
    /\ Wrap % (2 * Grain) = 0
    /\ 2 * (Lease + Grain) < Wrap

VARIABLES
    mac,      \* lease[i].mac
    expiry,   \* lease[i].expiry
    ticks,    \* cyw43_hal_ticks_ms()
    held,     \* ghost: ticks for which client m may still use address i
    stale     \* ghost: ticks since a lease ran out, up to half of Wrap

dhcp == <<mac, expiry, ticks, held, stale>>

Slots == 0..(MaxIp - 1)

\* Mutant of Expired: the low half of the expiry is left zero.
ExpiredEarly(i) == (expiry[i] * Grain - ticks) % Wrap >= Wrap \div 2
\* Mutant of Expired: the times are compared as unsigned numbers.
ExpiredUnsigned(i) == expiry[i] * Grain + Grain - 1 < ticks

\* (int32_t)((expiry << 16 | 0xffff) - ticks) < 0
Expired(i) == (expiry[i] * Grain + Grain - 1 - ticks) % Wrap >= Wrap \div 2

DhcpInit ==
    /\ mac = [i \in Slots |-> NoMac]
    /\ expiry = [i \in Slots |-> 0]
    /\ ticks = 0
    /\ held = [m \in Macs |-> [i \in Slots |-> 0]]
    /\ stale = [i \in Slots |-> 0]

-----------------------------------------------------------------------------
Match(m) == {i \in Slots : mac[i] = m}
Usable == {i \in Slots : mac[i] = NoMac \/ Expired(i)}

\* DHCPDISCOVER offers the lease with the client's MAC, or else the first that is
\* free or expired; a client requests that one or any other.  The loop wipes the
\* first lease that is free or expired when it is expired, unless it met one with
\* the client's MAC before.
Discover(m) ==
    /\ mac' = [i \in Slots |->
                 IF /\ Usable # {} /\ i = Min(Usable) /\ Expired(i)
                    /\ \A j \in Match(m) : i < j
                 THEN NoMac ELSE mac[i]]
    /\ UNCHANGED <<expiry, ticks, held, stale>>

\* The expiry the server notes for a lease acknowledged now.
NewExpiry == ((ticks + Lease) % Wrap) \div Grain

\* Request i of client m is acknowledged when the lease is its own or free.
Granted(m, i) == mac[i] \in {m, NoMac}

\* DHCPREQUEST for address i; one that is not granted is ignored.
Request(m, i) ==
    /\ Granted(m, i)
    /\ mac' = [mac EXCEPT ![i] = m]
    /\ expiry' = [expiry EXCEPT ![i] = NewExpiry]
    /\ held' = [held EXCEPT ![m][i] = Lease]
    /\ stale' = [stale EXCEPT ![i] = 0]
    /\ UNCHANGED ticks

\* A millisecond passes.
InUse(i) == \E m \in Macs : held[m][i] > 0
Tick ==
    /\ ticks' = (ticks + 1) % Wrap
    /\ held' = [m \in Macs |-> [i \in Slots |-> IF held[m][i] > 0 THEN held[m][i] - 1 ELSE 0]]
    /\ stale' = [i \in Slots |-> IF InUse(i) THEN 0
                                 ELSE IF stale[i] < Wrap \div 2 THEN stale[i] + 1 ELSE stale[i]]
    /\ UNCHANGED <<mac, expiry>>

\* dhcp_server_deinit and dhcp_server_init: the access point stops, its
\* clients lose the link and their addresses, and it starts again later.
Restart ==
    /\ mac' = [i \in Slots |-> NoMac]
    /\ expiry' = [i \in Slots |-> 0]
    /\ held' = [m \in Macs |-> [i \in Slots |-> 0]]
    /\ stale' = [i \in Slots |-> 0]
    /\ UNCHANGED ticks

DhcpNext == \/ \E m \in Macs : Discover(m) \/ (\E i \in Slots : Request(m, i))
        \/ Tick
        \/ Restart

DhcpSpec == DhcpInit /\ [][DhcpNext]_dhcp

-----------------------------------------------------------------------------
(* Properties                                                               *)

\* Leases belong to clients or are free, and an expiry fits its 16 bits.
DhcpTypeOK ==
    /\ mac \in [Slots -> Macs \cup {NoMac}]
    /\ expiry \in [Slots -> 0..(Wrap \div Grain - 1)]
    /\ ticks \in 0..(Wrap - 1)
    /\ held \in [Macs -> [Slots -> 0..Lease]]
    /\ stale \in [Slots -> 0..(Wrap \div 2)]

\* A client's lease stays in the table for as long as the client may use it:
\* dhcp_server_process never gives away a lease whose 24 hours are not over,
\* whatever the rounding of expiry and the wrap of the millisecond counter.  So
\* no two clients may use the same address.
LeaseKept == \A m \in Macs, i \in Slots : held[m][i] > 0 => mac[i] = m

\* A lease that ran out is seen as expired, from when the rounding of its expiry
\* is over and until half the counter's range has passed.
ExpiryNoticed ==
    \A i \in Slots : (/\ mac[i] # NoMac /\ ~InUse(i)
                      /\ stale[i] \in Grain..(Wrap \div 2 - 1))
                      => Expired(i)
=============================================================================
