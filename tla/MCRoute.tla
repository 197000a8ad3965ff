------------------------------- MODULE MCRoute -------------------------------
(* Configurations of the router's interfaces and settings, and packets     *)
(* that meet them: one step chooses source and destination of the packet.  *)
EXTENDS RouteHook

CONSTANTS Interfaces, RouteTables   \* netif lists; accepted routes

VARIABLE s    \* the argument of RouteHook's operators; dst is 0 before the packet
vars == s

Defaults(l) == {"none"} \cup {l[i].name : i \in {k \in DOMAIN l : l[k].up}}

Plain == [netifs |-> <<>>, default |-> "none", exit |-> FALSE, bypass |-> FALSE,
          accept |-> FALSE, routes |-> <<>>, src |-> 0, dst |-> 0]
Init ==
  \E l \in Interfaces, e, b, a \in BOOLEAN, r \in RouteTables : \E d \in Defaults(l) :
    s = [Plain EXCEPT !.netifs = l, !.default = d, !.exit = e, !.bypass = b,
                      !.accept = a, !.routes = r]
Packet == s.dst # 0
Next == \E x \in Space, y \in Space \ {0} : ~Packet /\ s' = [s EXCEPT !.src = x, !.dst = y]
Spec == Init /\ [][Next]_vars

-----------------------------------------------------------------------------
Tunnelled == Wg(s) # "none"      \* the tunnel has an address
Local == s.src = 0 \/ OwnAddress(s)

(* The diagnostics page names the netif that the packet would take, for a  *)
(* forwarded source and an unbound socket, while the tunnel has an address.*)
ExplainAgrees ==
  Packet /\ (s.src = 0 \/ ~Local) /\ Tunnelled => Explain(s) = Route(s)

(* The router's own packets to public addresses keep out of the tunnel     *)
(* they sustain: with an exit node they leave by the uplink.               *)
SelfPublicOutside ==
  Packet /\ s.exit /\ UplinkOf(s) # "none" /\ Local /\ s.dst \in Public /\ Tunnelled
    => Route(s) # Wg(s)

(* A client's traffic to the internet enters the exit node's tunnel when   *)
(* there is one, whatever esp_netif made of the default route.             *)
ForwardedPublicInside ==
  Packet /\ s.exit /\ WgUp(s) /\ ~Local /\ s.dst \in Public
    => Route(s) = Wg(s) \/ (s.bypass /\ Route(s) = Attached(s))

(* With the LAN bypass, private destinations no peer advertises keep out.  *)
LanStaysOutside ==
  Packet /\ s.exit /\ s.bypass /\ s.dst \in Private /\ Tunnelled =>
    UplinkOf(s) = "none" \/ Accepted(s) \/ Route(s) # Wg(s)

(* Tailnet peers see the address of the client that opened a TCP           *)
(* connection, and an answer by UDP or ICMP finds its way back: the rest   *)
(* of what the access point sends into the tunnel is translated.           *)
SourceKept ==
  Packet =>
    \A p \in [from : {"ap", "wg"}, rule : {FALSE}, tcp : BOOLEAN, snat : BOOLEAN] :
      /\ p.tcp /\ s.dst \in Tailnet => ~Translated(s, p)
      /\ p.from = "ap" /\ ~(p.tcp /\ s.dst \in Tailnet) => Translated(s, p)
      /\ p.from = "wg" /\ p.snat /\ s.dst \notin Tailnet /\ Tunnelled /\ Route(s) = "st"
           => Translated(s, p)

(* What the hook, its explanation and the decision to translate say of    *)
(* one packet agrees, with each other and with the exit-node rules.       *)
RoutesAgree ==
  /\ ExplainAgrees /\ SelfPublicOutside /\ ForwardedPublicInside
  /\ LanStaysOutside /\ SourceKept
=============================================================================
