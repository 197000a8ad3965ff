----------------------------- MODULE RouteHook ------------------------------
(* Where a packet goes (main/lwip_route_hook.c): the hook that lwIP asks,  *)
(* the explanation of its answer on the diagnostics page, and the decision *)
(* to translate a forwarded packet. Addresses have Width bits: the top     *)
(* quarter is the tailnet range, the second quarter is private. A          *)
(* situation s is the input of all three.                                  *)
EXTENDS Integers, Sequences, FiniteSets, SequencesExt

CONSTANTS Width

Space == 0 .. 2^Width - 1
Covers(net, len, a) == a \div 2^(Width - len) = net \div 2^(Width - len)

Tailnet == 3 * 2^(Width - 2) .. 2^Width - 1      \* TAILSCALE_CGNAT_NET
Private == 2^(Width - 2) .. 2^(Width - 1) - 1    \* RFC 1918
Public == Space \ (Tailnet \cup Private)

(* A netif: [name, ip, len, up]; ip 0 is none, a netif that is up has link.*)
(* A situation: [netifs, default, exit, bypass, accept, routes, src, dst]  *)
(* with netifs in netif_list's order and src 0 for an unbound socket.      *)
Names == {"ap", "st", "wg"}
Present(s) == {s.netifs[i] : i \in DOMAIN s.netifs}
OnLink(s, n) == Covers(n.ip, n.len, s.dst)
NameOf(s, Test(_)) ==
  LET i == SelectInSeq(s.netifs, Test) IN IF i = 0 THEN "none" ELSE s.netifs[i].name

(* find_wg_netif: the first netif with an address in the tailnet range. *)
InTailnet(n) == n.ip \in Tailnet
Wg(s) == NameOf(s, InTailnet)
WgUp(s) == \E n \in Present(s) : n.name = Wg(s) /\ n.up
UpSta(n) == n.name = "st" /\ n.up
UplinkOf(s) == NameOf(s, UpSta)

OwnAddress(s) == \E n \in Present(s) : n.ip = s.src
SelfOrigin(s) == s.src = 0 \/ OwnAddress(s)

(* The accept-routes table; a default route in it is not honoured. *)
Accepted(s) ==
  /\ s.accept
  /\ \E i \in DOMAIN s.routes : s.routes[i].len # 0 /\ Covers(s.routes[i].net, s.routes[i].len, s.dst)

(* A netif other than the tunnel whose own prefix has the destination. *)
Attached(s) ==
  LET Has(n) == n.ip # 0 /\ ~InTailnet(n) /\ OnLink(s, n) IN NameOf(s, Has)

-----------------------------------------------------------------------------
(* __wrap_ip4_route_src_hook, "none" when it leaves the choice to IDF. *)
Lan(s) ==
  IF Attached(s) # "none" THEN Attached(s)
  ELSE IF s.dst \in Private THEN UplinkOf(s) ELSE "none"

Split(s) ==
  IF s.dst \in Private THEN "none"
  ELSE IF SelfOrigin(s) THEN UplinkOf(s)
  ELSE IF WgUp(s) THEN Wg(s) ELSE "none"

(* IDF's own hook: the netif that has the source address. *)
Bound(s) == LET Has(n) == s.src # 0 /\ n.ip = s.src /\ n.up IN NameOf(s, Has)

Hook(s) ==
  IF s.dst \in Tailnet THEN Wg(s)
  ELSE IF s.src # 0 /\ ~OwnAddress(s) /\ Accepted(s) THEN Wg(s)
  ELSE IF s.exit /\ s.bypass /\ Lan(s) # "none" THEN Lan(s)
  ELSE IF s.exit /\ Split(s) # "none" THEN Split(s)
  ELSE Bound(s)

(* lwIP's ip4_route when the hook answers nothing: the first netif that is *)
(* up and has the destination in its prefix, else the default one.         *)
Fallback(s) ==
  LET Has(n) == n.up /\ n.ip # 0 /\ OnLink(s, n)
  IN  IF NameOf(s, Has) # "none" THEN NameOf(s, Has) ELSE s.default

Route(s) == IF Hook(s) # "none" THEN Hook(s) ELSE Fallback(s)

-----------------------------------------------------------------------------
(* route_explain: the netif it names. *)
Explained_Local(s) == Accepted(s)
Explained(s) == ~SelfOrigin(s) /\ Accepted(s)

Explain(s) ==
  IF s.dst \in Tailnet THEN Wg(s)
  ELSE IF Explained(s) THEN Wg(s)
  ELSE IF s.exit /\ s.bypass /\ Lan(s) # "none" THEN Lan(s)
  ELSE IF s.exit /\ Split(s) # "none" THEN Split(s)
  ELSE Fallback(s)

-----------------------------------------------------------------------------
(* __wrap_ip_napt_forward for a packet from netif "from", which the route  *)
(* sends out of another one. lwIP translates the source when the netif it  *)
(* came in by has napt set, and only the access point has. A forwarder's   *)
(* flow and the opt-in for subnet routes set it for the one call.          *)
Flow(s, p) ==
  p.rule /\ \/ p.from = "st" /\ Route(s) = Wg(s)
            \/ p.from = Wg(s) /\ Route(s) = "st"

KeepsSource(s, p) == s.dst \in Tailnet /\ p.tcp
SourceNat(s, p) == p.snat /\ s.dst \notin Tailnet /\ p.from = Wg(s) /\ Route(s) = "st"

Translated(s, p) ==
  IF Flow(s, p) THEN TRUE
  ELSE IF KeepsSource(s, p) THEN FALSE
  ELSE SourceNat(s, p) \/ p.from = "ap"
=============================================================================
