----------------------------- MODULE NetifHooks -----------------------------
(* Which input function each lwIP interface has (main/netif_hooks.c): the  *)
(* shims put on the uplink and the AP at boot, and the one put on the      *)
(* tunnel by a refresh that looks for it by its address, because every     *)
(* reconnect of the tailnet makes a new interface.                         *)
EXTENDS Naturals, Sequences, SequencesExt

CONSTANTS
  Tunnels,       \* places in memory where a tunnel interface may be
  UplinkCgnat    \* whether the uplink may hand out an address of 100.64/10

VARIABLES
  list,       \* netif_list, newest first
  input,      \* input function of each interface
  cgnat,      \* interfaces with an address of 100.64/10
  original,   \* original_sta_input, original_ap_input, original_wg_input
  hookedWg    \* hooked_wg

vars == <<list, input, cgnat, original, hookedWg>>

Netifs == {"sta", "ap"} \cup Tunnels
Own(n) == CASE n = "sta" -> "sta_input" [] n = "ap" -> "ap_input" [] OTHER -> "tunnel_input"

Init ==
  /\ list = <<"ap", "sta">>
  /\ input = [n \in Netifs |-> Own(n)] /\ cgnat = {}
  /\ original = [h \in {"sta_hook", "ap_hook", "wg_hook"} |-> "null"]
  /\ hookedWg = "null"

(* netif_hooks_init, once. *)
HooksInit ==
  /\ original["sta_hook"] = "null"
  /\ original' = [original EXCEPT !["sta_hook"] = input["sta"], !["ap_hook"] = input["ap"]]
  /\ input' = [input EXCEPT !["sta"] = "sta_hook", !["ap"] = "ap_hook"]
  /\ UNCHANGED <<list, cgnat, hookedWg>>

(* The interface that a refresh takes for the tunnel's: the first of the   *)
(* list with such an address.                                              *)
IsTunnel(n) == n \in cgnat
Found == SelectInSeq(list, IsTunnel)

AlreadyHooked_ByPlace(n) == n = hookedWg
AlreadyHooked(n) == n = hookedWg /\ input[n] = "wg_hook"

(* netif_hooks_refresh_cb on lwIP's thread. *)
Refresh ==
  /\ Found # 0
  /\ LET n == list[Found] IN
     /\ ~AlreadyHooked(n)
     /\ original' = [original EXCEPT !["wg_hook"] = input[n]]
     /\ hookedWg' = n
     /\ input' = [input EXCEPT ![n] = "wg_hook"]
  /\ UNCHANGED <<list, cgnat>>

(* The tunnel library adds an interface, perhaps where an old one was, and *)
(* removes it with the instance; there is one instance at a time.          *)
TunnelUp(n) ==
  /\ Tunnels \cap ToSet(list) = {}
  /\ list' = <<n>> \o list /\ cgnat' = cgnat \cup {n}
  /\ input' = [input EXCEPT ![n] = Own(n)]
  /\ UNCHANGED <<original, hookedWg>>

TunnelDown(n) ==
  /\ \E i \in DOMAIN list : list[i] = n /\ list' = RemoveAt(list, i)
  /\ cgnat' = cgnat \ {n}
  /\ UNCHANGED <<input, original, hookedWg>>

(* The uplink's address. *)
UplinkAddr ==
  /\ cgnat' \in {cgnat \ {"sta"}} \cup IF UplinkCgnat THEN {cgnat \cup {"sta"}} ELSE {}
  /\ UNCHANGED <<list, input, original, hookedWg>>

Next ==
  \/ HooksInit \/ Refresh \/ UplinkAddr
  \/ \E n \in Tunnels : TunnelUp(n) \/ TunnelDown(n)

Spec == Init /\ [][Next]_vars /\ WF_vars(Refresh)

-----------------------------------------------------------------------------
(* What a shim calls for a packet that it lets through, up to three deep:  *)
(* the interface's own function, or another shim.                          *)
Reaches(f) ==
  LET Call(g) == IF g \in DOMAIN original THEN original[g] ELSE g
  IN  Call(Call(Call(f)))

(* A packet that the shims let through reaches the rest of the stack       *)
(* unmodified: the input function the interface came with, and not a shim  *)
(* that calls itself.                                                      *)
PacketsReachTheStack == \A n \in ToSet(list) : Reaches(input[n]) = Own(n)

(* The tunnel filter is put back after every reconnect: the newest tunnel  *)
(* interface does not go without it for ever.                              *)
TunnelFiltered ==
  \A n \in Tunnels :
    [](n = list[1] => <>(input[n] = "wg_hook" \/ n # list[1]))

(* The shims hold over reconnects: every packet that they let through goes *)
(* on, and the tunnel's packets do not go around them for ever.            *)
ShimsHold == []PacketsReachTheStack /\ TunnelFiltered
=============================================================================
