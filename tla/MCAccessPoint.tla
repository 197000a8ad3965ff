--------------------------- MODULE MCAccessPoint ----------------------------
(* The access point and what it does for its stations, one component at a  *)
(* time: the Wi-Fi core, the stations it turns away, the DHCP server, the  *)
(* packet filter, the forwarded ports, the 4via6 translation and the       *)
(* record of the resets between boots.  In the models they share no        *)
(* state: "running" says which one runs, the others stay where they began.*)
EXTENDS MCWifiCore, FiniteSets

CONSTANTS
  Guests, Aids, MaxJoins, MaxSaves,                       \* ApClients
  Macs, Hosts, MaxLease, MaxStations, LeaseTicks,         \* Dhcps
  DefaultIp, ApIps, MaxStarts,
  MaxEntries, BlobMayFail, MaxHits, MaxEdits,             \* Firewall
  FwdPorts, WebPort, Addrs, MaxRules, TableSize, MaxStimuli, \* Forwarding
  Sites, Flows, Timeout, MaxChanges,                      \* FourVia6
  Rows, MaxBoots                                          \* ResetHistory

ASSUME BoundsAssumption == MaxEntries \in Nat /\ Rows \in Nat \ {0}
ASSUME GuestsAssumption == "none" \notin Guests /\ 0 \notin Aids
ASSUME SubnetAssumption ==
  /\ Hosts \in Nat /\ Hosts >= 4 /\ {MaxLease, LeaseTicks} \subseteq Nat \ {0}
  /\ \A s \in {DefaultIp} \cup ApIps : s \in Nat /\ s % Hosts \notin {0, Hosts - 1}
ASSUME PortsAssumption ==
  /\ Addrs \cap {"none", "lan"} = {} /\ {TableSize, MaxRules} \subseteq Nat
  /\ IsFiniteSet(FwdPorts)

VARIABLES
  running,
  assoc, joined, deauthing, deny, denyNvs, httpd, count, joins, saves, denyFailed,
  server, pool, leases, plus, declined, offer, bound, dropped, starts,
  acl, stats, stored, web, verdict, edits,
  pm, pmNvs, rules, rulesNvs, rt, lwip, installed, task, mgr, addr, cb, queued,
  fwdSta, gotIp, stimuli, raced, failed,
  keys, ram, setter, flows, input, output, asked, astray, swapped, spared, changes,
  boot, reason, image, former, staged, trial, invalid, flashed, dump, sha, hist, lastCrash,
  why, bootPc, label, cause, told, cut, bare

av == <<assoc, joined, deauthing, deny, denyNvs, httpd, count, joins, saves, denyFailed>>
dv == <<server, pool, leases, plus, declined, offer, bound, dropped, starts>>
fv == <<acl, stats, stored, web, verdict, edits>>
pv == <<pm, pmNvs, rules, rulesNvs, rt, lwip, installed, task, mgr, addr, cb, queued,
        fwdSta, gotIp, stimuli, raced, failed>>
xv == <<keys, ram, setter, flows, input, output, asked, astray, swapped, spared, changes>>
rv == <<boot, reason, image, former, staged, trial, invalid, flashed, dump, sha, hist, lastCrash,
        why, bootPc, label, cause, told, cut, bare>>

A == INSTANCE ApClients WITH Macs <- Guests, events <- joined, http <- httpd, failed <- denyFailed
D == INSTANCE Dhcps WITH Reserved <- [m \in Macs |-> 0]
FilterNames == <<"to_esp", "to_ap">>
FilterRules ==
  {[src |-> {1, 2}, proto |-> "any", port |-> 80, allow |-> FALSE],
   [src |-> {1}, proto |-> "tcp", port |-> 0, allow |-> TRUE],
   [src |-> {2}, proto |-> "any", port |-> 0, allow |-> FALSE]}
FilterPackets ==
  {[src |-> s, proto |-> p[1], port |-> p[2]] :
     s \in 1..2, p \in {<<"tcp", 80>>, <<"tcp", 0>>, <<"icmp", 0>>}}
F == INSTANCE Firewall WITH
  Names <- FilterNames, Rules <- FilterRules, Packets <- FilterPackets
P == INSTANCE Forwarding WITH
  Ports <- FwdPorts, Tasks <- {"http", "mqtt"}, sta <- fwdSta
X == INSTANCE FourVia6 WITH
  Conversations <- {[client |-> "a", key |-> 1], [client |-> "b", key |-> 1],
                    [client |-> "b", key |-> 2]},
  Lans <- {{1, 2}}, Tasks <- {"http", "mqtt"}, raced <- swapped, nvs <- keys
R == INSTANCE ResetHistory WITH pc <- bootPc, changes <- flashed

(* A component that does not run has one of its initial states.  Stations *)
(* are interchangeable, and so are tailnet addresses: "m1" is the one that *)
(* is denied at first when one is, "a1" what the name resolves to at first.*)
ApInit ==
  /\ running \in {"wifi", "stations", "dhcp", "filter", "ports", "via6", "history"}
  /\ Init /\ (running # "wifi" => nets = 0 /\ ~autoOff /\ ~roams /\ chan = DefaultChannel)
  /\ A!Init /\ deny # {"m2"} /\ (running # "stations" => deny = {})
  /\ D!Init /\ F!Init
  /\ P!Init /\ addr # "a2" /\ (running # "ports" => addr = "none" /\ ~fwdSta)
  /\ X!Init /\ ram.site = 1 /\ R!Init

ApNext ==
  \/ running = "wifi" /\ Next /\ UNCHANGED <<running, av, dv, fv, pv, xv, rv>>
  \/ running = "stations" /\ A!Next /\ UNCHANGED <<running, vars, dv, fv, pv, xv, rv>>
  \/ running = "dhcp" /\ D!Next /\ UNCHANGED <<running, vars, av, fv, pv, xv, rv>>
  \/ running = "filter" /\ F!Next /\ UNCHANGED <<running, vars, av, dv, pv, xv, rv>>
  \/ running = "ports" /\ P!Next /\ UNCHANGED <<running, vars, av, dv, fv, xv, rv>>
  \/ running = "via6" /\ X!Next /\ UNCHANGED <<running, vars, av, dv, fv, pv, rv>>
  \/ running = "history" /\ R!Next /\ UNCHANGED <<running, vars, av, dv, fv, pv, xv>>

ApSpec == ApInit /\ [][ApNext]_<<running, vars, av, dv, fv, pv, xv, rv>>

-----------------------------------------------------------------------------
(* The properties of the components, each while it runs: the stations and *)
(* the deny list,                                                         *)
StationsSettled == running = "stations" => A!StationsSettled
(* the addresses the DHCP server gives out,                               *)
LeasesSound == running = "dhcp" => D!LeasesSound
(* the rules that are in force now and after the next boot,               *)
SavedIsSaved == running = "filter" => F!SavedIsSaved
(* each step of the filter as one of ordered lists of rules (said this way *)
(* TLC passes over the steps of the others, which leave fv alone),         *)
FirstMatchDecides ==
  F!Policy!Init /\ [][UNCHANGED fv \/ F!Policy!Next]_F!Policy!vars
(* the ports that are forwarded,                                          *)
PortsHold == running = "ports" => P!PortsHold
(* the flows of the 4via6 translation, and which of them gives way,       *)
FlowsTrue == running = "via6" => X!FlowsTrue
OldestGivesWay == running = "via6" => X!OldestGivesWay
(* and what the history of the resets tells.                              *)
HistoryTrue == running = "history" => R!HistoryTrue
=============================================================================
