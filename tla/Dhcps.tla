------------------------------- MODULE Dhcps -------------------------------
(* The AP's DHCP server (components/dhcpserver/dhcpserver.c): its pool, its*)
(* lease list, the coarse timer, the answer to each message, and restarts, *)
(* which drop the list.  Stations keep the address they were given until   *)
(* their own lease runs out; answers may be lost.                          *)
EXTENDS Integers, FiniteSets, FiniteSetsExt

CONSTANTS
  Macs, Reserved,   \* stations; Reserved[m]: dhcp_reservations_lookup, 0 if none
  Hosts,            \* addresses of a subnet (also the base of the last octet)
  MaxLease,         \* DHCPS_MAX_LEASE
  MaxStations,      \* MAX_STATION_NUM
  LeaseTicks,       \* lease time in ticks of the coarse timer
  DefaultIp, ApIps, \* address of the AP at its first start, and after that
  MaxStarts         \* bound: restarts of the server

VARIABLES
  server, pool,  \* server_address; dhcps_poll: [enable, start, end]
  leases,        \* plist: [ip, mac, timer]
  plus,          \* client_address_plus
  declined,      \* has_declined_ip
  offer, bound,  \* per station: address offered to it; [ip, left] it uses
  dropped,       \* history: stations whose lease the server dropped by itself
  starts

vars == <<server, pool, leases, plus, declined, offer, bound, dropped, starts>>

(* Addresses are compared as they lie in memory, last octet first, but     *)
(* incremented in host order.                                              *)
Raw(ip) == (ip % Hosts) * Hosts + ip \div Hosts
Net(ip) == ip \div Hosts

-----------------------------------------------------------------------------
(* dhcps_poll_set: an earlier pool is kept if it still fits; else the      *)
(* larger side of the subnet, at most DHCPS_MAX_LEASE addresses.           *)
Fits(p, s) ==
  /\ p.enable /\ ~(p.start <= s /\ s <= p.end)
  /\ Net(p.start) = Net(s) /\ Net(p.end) = Net(s)
  /\ p.end - p.start + 1 <= MaxLease

LargerSide(s) ==
  LET lo == Net(s) * Hosts  hi == lo + Hosts - 1
  IN  IF s - lo > hi - s THEN <<lo + 1, s - 1>> ELSE <<s + 1, hi - 1>>

PollSet(s, p) ==
  IF Fits(p, s) THEN p
  ELSE [enable |-> TRUE, start |-> LargerSide(s)[1],
        end |-> Min({LargerSide(s)[2], LargerSide(s)[1] + MaxLease - 1})]

NoPool == [enable |-> FALSE, start |-> 0, end |-> 0]

(* wifi_init_softap starts the server on the default address, then stops   *)
(* it and starts it on the one of NVS.                                     *)
Init ==
  /\ server \in ApIps
  /\ pool = PollSet(server, PollSet(DefaultIp, NoPool))
  /\ leases = {} /\ plus = pool.start /\ declined = FALSE
  /\ offer = [m \in Macs |-> 0] /\ bound = [m \in Macs |-> [ip |-> 0, left |-> 0]]
  /\ dropped = {} /\ starts = 0

-----------------------------------------------------------------------------
(* The loop of parse_msg over the list, in its order: it ends at the       *)
(* sender's own lease; client_address_plus steps over addresses in use,    *)
(* first_address looks for the first hole.                                 *)
ByAddress ==
  CHOOSE list \in [1..Cardinality(leases) -> leases] :
    \A i, j \in DOMAIN list : i < j => Raw(list[i].ip) < Raw(list[j].ip)

Visit(m, at, l) ==
  IF at.own # 0 THEN at
  ELSE IF l.mac = m THEN [at EXCEPT !.own = l.ip]
  ELSE [own   |-> 0,
        plus  |-> IF l.ip = at.plus THEN at.plus + 1 ELSE at.plus,
        hole  |-> at.hole \/ Raw(at.first) < Raw(l.ip),
        first |-> IF at.hole \/ Raw(at.first) < Raw(l.ip) THEN at.first ELSE at.first + 1]

Scan(m) ==
  LET list == ByAddress
      after[i \in 0..Cardinality(leases)] ==
        IF i = 0 THEN [own |-> 0, plus |-> plus, hole |-> FALSE, first |-> pool.start]
        ELSE Visit(m, after[i - 1], list[i])
  IN  after[Cardinality(leases)]

(* The address for a station without a lease; 0 when it is refused: above  *)
(* the pool's end, a reserved one too.                                     *)
NextAddress_Unscanned(m, s) == IF leases = {} THEN pool.start ELSE plus
NextAddress(m, s) ==
  IF Raw(s.plus) > Raw(pool.end) THEN s.first
  ELSE IF leases = {} /\ ~declined THEN pool.start ELSE s.plus

Chosen(m, s) == IF Reserved[m] # 0 THEN Reserved[m] ELSE NextAddress(m, s)

Refused(ip) == Raw(ip) > Raw(pool.end)

After(ip) == IF ip = pool.end THEN pool.start ELSE ip + 1

(* parse_options: what the message's type, with the address it names in    *)
(* option 50 or, in a renewal, in ciaddr, makes of the address found for   *)
(* the station.                                                            *)
Verdict(ask, known, ip) ==
  CASE ask.type = "discover" -> "offer"
    [] ask.type = "request"  -> IF ip = ask.ip THEN "ack" ELSE "nak"
    [] ask.type = "renew"    -> IF known /\ ip = ask.ip THEN "ack" ELSE "nak"
    [] ask.type = "giveback" -> "gone"

(* What parse_msg makes of a message: the answer, the address, and the new *)
(* values of the list and of client_address_plus.                          *)
Answer(m, ask) ==
  LET s     == Scan(m)
      known == s.own # 0
      ip    == IF known THEN s.own ELSE Chosen(m, s)
      kind  == IF ~known /\ Refused(ip) THEN "refuse" ELSE Verdict(ask, known, ip)
      mine  == {l \in leases : l.mac = m}
  IN  [kind |-> kind, ip |-> ip,
       plus |-> IF known THEN s.plus ELSE IF Refused(ip) THEN pool.start ELSE After(ip),
       leases |-> IF kind \in {"offer", "ack"}
                  THEN (leases \ mine) \cup {[ip |-> ip, mac |-> m, timer |-> LeaseTicks]}
                  ELSE leases \ mine]

Handle(a, isDecline) ==
  /\ leases' = a.leases /\ plus' = a.plus
  /\ declined' = isDecline
  /\ UNCHANGED <<server, pool, starts>>

(* send_offer, send_ack, and what a NAK does; any message may be lost. *)
SendOffer(m, a) ==
  offer' \in {offer} \cup IF a.kind = "offer" THEN {[offer EXCEPT ![m] = a.ip]} ELSE {}

SendAck(m, a) ==
  /\ bound' = [bound EXCEPT ![m] = [ip |-> a.ip, left |-> LeaseTicks]]
  /\ dropped' = dropped \ {m}

Unbound(m) ==
  /\ bound' = [bound EXCEPT ![m] = [ip |-> 0, left |-> 0]]
  /\ dropped' = dropped \ {m}

Lost == UNCHANGED <<bound, dropped>>

Asking(type, ip) == [type |-> type, ip |-> ip]

Discover(m) ==
  /\ bound[m].ip = 0
  /\ LET a == Answer(m, Asking("discover", 0)) IN Handle(a, FALSE) /\ SendOffer(m, a)
  /\ UNCHANGED <<bound, dropped>>

(* A request by option 50 for the address offered last, now or before the  *)
(* station lost its lease.                                                 *)
Request(m, want) ==
  /\ bound[m].ip = 0
  /\ LET a == Answer(m, Asking("request", want))
     IN  Handle(a, FALSE) /\ (Lost \/ (a.kind = "ack" /\ SendAck(m, a)))
  /\ UNCHANGED offer

(* A renewal names the address in ciaddr and carries no option 50. *)
Renew(m) ==
  /\ bound[m].ip # 0
  /\ LET a == Answer(m, Asking("renew", bound[m].ip))
     IN  /\ Handle(a, FALSE)
         /\ Lost \/ IF a.kind = "ack" THEN SendAck(m, a) ELSE Unbound(m)
  /\ UNCHANGED offer

(* RELEASE and DECLINE: the lease goes; a decline is remembered. *)
GiveBack(m, isDecline) ==
  /\ bound[m].ip # 0
  /\ Handle(Answer(m, Asking("giveback", 0)), isDecline)
  /\ Unbound(m) /\ UNCHANGED offer

-----------------------------------------------------------------------------
(* The first in the list of those with the least time left.                *)
Oldest(L) ==
  CHOOSE l \in L :
    \A k \in L : l.timer < k.timer \/ (l.timer = k.timer /\ Raw(l.ip) <= Raw(k.ip))

(* dhcps_tmr: every lease ages, those at zero go, and one more goes when   *)
(* there are more than MAX_STATION_NUM.                                    *)
Aged(L) == {[l EXCEPT !.timer = @ - 1] : l \in L}
Expired(L) == {l \in L : l.timer # 0}

Tick ==
  LET live == Expired(Aged(leases))
      kept == IF Cardinality(live) > MaxStations THEN live \ {Oldest(live)} ELSE live
      stay == [m \in Macs |-> IF bound[m].left > 1
                              THEN [bound[m] EXCEPT !.left = @ - 1]
                              ELSE [ip |-> 0, left |-> 0]]
  IN  /\ leases # {} \/ \E m \in Macs : bound[m].ip # 0
      /\ leases' = kept /\ bound' = stay
      /\ dropped' = {m \in Macs : stay[m].ip # 0 /\
                       (m \in dropped \/ \E l \in live \ kept : l.mac = m)}
      /\ UNCHANGED <<server, pool, plus, declined, offer, starts>>

(* softap_set_dns_addr stops the server and starts it again: the list is   *)
(* dropped, the pool found anew, has_declined_ip left as it was.           *)
Restart ==
  /\ starts < MaxStarts /\ starts' = starts + 1
  /\ leases' = {} /\ pool' = PollSet(server, pool) /\ plus' = pool'.start
  /\ dropped' = {m \in Macs : bound[m].ip # 0}
  /\ UNCHANGED <<server, declined, offer, bound>>

Addresses == pool.start..pool.end

Next ==
  \/ \E m \in Macs : Discover(m) \/ Renew(m)
  \/ \E m \in Macs : offer[m] # 0 /\ Request(m, offer[m])
  \/ \E m \in Macs, d \in BOOLEAN : GiveBack(m, d)
  \/ Tick \/ Restart

Spec == Init /\ [][Next]_vars

-----------------------------------------------------------------------------
(* dhcps_poll_set: on whatever address the server is started next, the     *)
(* pool never holds that address or the subnet's two special ones, and     *)
(* never more than DHCPS_MAX_LEASE.                                        *)
PoolSound ==
  \A s \in {i \in 1..(2 * Hosts - 2) : i % Hosts \notin {0, Hosts - 1}} :
    LET p == PollSet(s, pool)  all == p.start..p.end IN
    /\ s \notin all /\ Cardinality(all) \in 1..MaxLease
    /\ \A a \in all : Net(a) = Net(s) /\ a % Hosts \notin {0, Hosts - 1}

(* No two stations use one address, however offers, losses, releases and   *)
(* expiries interleave, unless the server itself threw away the lease of   *)
(* one of them: at a restart, or at the limit of stations.                 *)
NoSharedAddress ==
  \A m, n \in Macs \ dropped :
    m # n /\ bound[m].ip # 0 => bound[m].ip # bound[n].ip

(* While the pool has a free address, a station that asks is offered one   *)
(* that no lease holds.                                                    *)
FreeAddressOffered ==
  \A m \in Macs :
    LET a == Answer(m, Asking("discover", 0))
    IN  Reserved[m] = 0 /\ ~(\E l \in leases : l.mac = m)
        /\ Cardinality({l.ip : l \in leases} \cap Addresses) < Cardinality(Addresses)
        => a.kind = "offer" /\ ~\E l \in leases : l.ip = a.ip

(* A station that asks gets an address of a pool that is sound, for       *)
(* itself alone, as long as there is one and the server has dropped no    *)
(* lease. The pool changes only while the list is empty.                  *)
LeasesSound == (leases = {} => PoolSound) /\ NoSharedAddress /\ FreeAddressOffered
=============================================================================
