---------------------------- MODULE DnsListener ----------------------------
(* The control side of the DNS relay (components/dns_relay/dns_relay.c):   *)
(* the listener task, the tasks that switch the relay on and off, the one  *)
(* call that gives it its address, and softap_set_dns_addr (main/main.c),  *)
(* which decides from the relay's health which resolver DHCP offers.       *)
EXTENDS TLC

CONSTANTS
  Setters,      \* tasks that call dns_relay_set_enabled: httpd, the CLI
  Appliers,     \* tasks other than the listener that call softap_set_dns_addr
  Listener,
  BindMayFail   \* whether socket() or bind() may fail

ASSUME ConstantsAssumption ==
  /\ Listener \notin Appliers
  /\ BindMayFail \in BOOLEAN

VARIABLES
  enabled, nvsEnabled,     \* s_enabled and its NVS mirror
  bindSet,                 \* s_bind_nbo # 0
  dirty,                   \* s_socket_dirty
  sock, published,         \* listener's socket is open; s_listen_sock >= 0
  healthy,                 \* s_healthy
  want, lpc,               \* listener: local want_listening and location
  setter,                  \* per setter: [pc, on]
  boot,                    \* app_main in dns_relay_set_bind_addr: location
  apply, choice,           \* softap_set_dns_addr: location and chosen resolver
  offered                  \* the resolver DHCP offers

switch == <<enabled, nvsEnabled, setter>>
socket == <<sock, published, healthy>>
dhcp   == <<apply, choice, offered>>
vars == <<switch, bindSet, dirty, socket, want, lpc, boot, dhcp>>

Callers == Appliers \cup {Listener}

TypeOK ==
  /\ enabled \in BOOLEAN /\ nvsEnabled \in BOOLEAN /\ bindSet \in BOOLEAN
  /\ dirty \in BOOLEAN /\ sock \in BOOLEAN /\ published \in BOOLEAN
  /\ healthy \in BOOLEAN /\ want \in BOOLEAN
  /\ lpc \in {"loop", "decide", "close", "open", "opened", "closed", "notify", "serve"}
  /\ setter \in [Setters -> [pc : {"idle", "dirty", "nvs"}, on : BOOLEAN]]
  /\ boot \in {"start", "dirty", "done"}
  /\ apply \in [Callers -> {"idle", "choose", "set"}]
  /\ choice \in [Callers -> {"ap", "uplink"}]
  /\ offered \in {"unset", "ap", "uplink"}

Init ==
  /\ enabled \in BOOLEAN /\ nvsEnabled = enabled
  /\ bindSet = FALSE /\ dirty = FALSE
  /\ sock = FALSE /\ published = FALSE /\ healthy = FALSE
  /\ want = FALSE /\ lpc = "loop"
  /\ setter = [s \in Setters |-> [pc |-> "idle", on |-> FALSE]]
  /\ boot = "start"
  /\ apply = [c \in Callers |-> "idle"] /\ choice = [c \in Callers |-> "uplink"]
  /\ offered = "unset"

-----------------------------------------------------------------------------
(* dns_relay_set_bind_addr, called once by app_main: address, then flag. *)
SetBindAddr ==
  /\ boot = "start"
  /\ bindSet' = TRUE /\ boot' = "dirty"
  /\ UNCHANGED <<switch, dirty, socket, want, lpc, dhcp>>

BindAddrDirty ==
  /\ boot = "dirty"
  /\ dirty' = TRUE /\ boot' = "done"
  /\ UNCHANGED <<switch, bindSet, socket, want, lpc, dhcp>>

(* dns_relay_set_enabled: RAM, dirty flag, NVS, each visible to the others. *)
SetEnabled(s, v) ==
  /\ setter[s].pc = "idle" /\ enabled # v
  /\ enabled' = v
  /\ setter' = [setter EXCEPT ![s] = [pc |-> "dirty", on |-> v]]
  /\ UNCHANGED <<nvsEnabled, bindSet, dirty, socket, want, lpc, boot, dhcp>>

SetDirty(s) ==
  /\ setter[s].pc = "dirty"
  /\ dirty' = TRUE
  /\ setter' = [setter EXCEPT ![s].pc = "nvs"]
  /\ UNCHANGED <<enabled, nvsEnabled, bindSet, socket, want, lpc, boot, dhcp>>

StoreEnabled(s) ==
  /\ setter[s].pc = "nvs"
  /\ nvsEnabled' = setter[s].on
  /\ setter' = [setter EXCEPT ![s].pc = "idle"]
  /\ UNCHANGED <<enabled, bindSet, dirty, socket, want, lpc, boot, dhcp>>

-----------------------------------------------------------------------------
(* softap_set_dns_addr: the health check, then the DHCP server's option. *)
StartApply(c) ==
  /\ c \in Appliers /\ apply[c] = "idle"
  /\ apply' = [apply EXCEPT ![c] = "choose"]
  /\ UNCHANGED <<switch, bindSet, dirty, socket, want, lpc, boot, choice, offered>>

Resolver == IF enabled /\ healthy THEN "ap" ELSE "uplink"

ChooseResolver(c) ==
  /\ apply[c] = "choose"
  /\ choice' = [choice EXCEPT ![c] = Resolver]
  /\ apply' = [apply EXCEPT ![c] = "set"]
  /\ UNCHANGED <<switch, bindSet, dirty, socket, want, lpc, boot, offered>>

SetOffer(c) ==
  /\ apply[c] = "set"
  /\ offered' = choice[c]
  /\ apply' = [apply EXCEPT ![c] = "idle"]
  /\ lpc' = IF c = Listener THEN "serve" ELSE lpc
  /\ UNCHANGED <<switch, bindSet, dirty, socket, want, boot, choice>>

-----------------------------------------------------------------------------
(* listener_task. *)
ReadWant ==
  /\ lpc = "loop"
  /\ want' = (enabled /\ bindSet)
  /\ lpc' = "decide"
  /\ UNCHANGED <<switch, bindSet, dirty, socket, boot, dhcp>>

(* Whether the socket at hand has to go: it is to be rebound, or the relay *)
(* was switched off.                                                       *)
MustClose == sock /\ (~want \/ dirty)

(* A worker may reply through s_listen_sock until it is set to -1. *)
Unpublished_Late == published
Unpublished == FALSE

Decide ==
  /\ lpc = "decide"
  /\ \/ MustClose /\ published' = Unpublished /\ lpc' = "close"
     \/ want /\ ~sock /\ lpc' = "open" /\ UNCHANGED published
     \/ ~MustClose /\ ~(want /\ ~sock) /\ lpc' = "serve" /\ UNCHANGED published
  /\ UNCHANGED <<switch, bindSet, dirty, sock, healthy, want, boot, dhcp>>

CloseSocket ==
  /\ lpc = "close"
  /\ sock' = FALSE
  /\ lpc' = IF want THEN "open" ELSE "closed"
  /\ UNCHANGED <<switch, bindSet, dirty, published, healthy, want, boot, dhcp>>

(* The disable branch: healthy goes, and the callback hears of it. *)
NotifyClosed == IF healthy THEN "notify" ELSE "serve"

Closed ==
  /\ lpc = "closed"
  /\ healthy' = FALSE
  /\ lpc' = NotifyClosed
  /\ UNCHANGED <<switch, bindSet, dirty, sock, published, want, boot, dhcp>>

OpenSocket ==
  /\ lpc = "open"
  /\ sock' = TRUE /\ lpc' = "opened"
  /\ UNCHANGED <<switch, bindSet, dirty, published, healthy, want, boot, dhcp>>

OpenFails ==
  /\ BindMayFail /\ lpc = "open"
  /\ lpc' = "opened"
  /\ UNCHANGED <<switch, bindSet, dirty, socket, want, boot, dhcp>>

DirtyAfterOpen_Kept == dirty
DirtyAfterOpen == FALSE

(* After open_listen_sock: back off, or publish the socket and report the  *)
(* first healthy transition.                                               *)
Opened ==
  /\ lpc = "opened"
  /\ dirty' = DirtyAfterOpen
  /\ healthy' = sock
  /\ published' = sock
  /\ lpc' = IF ~sock THEN "loop" ELSE IF healthy THEN "serve" ELSE "notify"
  /\ UNCHANGED <<switch, bindSet, sock, want, boot, dhcp>>

(* notify_state -> dns_relay_state_cb -> softap_set_dns_addr. *)
Notify ==
  /\ lpc = "notify" /\ apply[Listener] = "idle"
  /\ apply' = [apply EXCEPT ![Listener] = "choose"]
  /\ UNCHANGED <<switch, bindSet, dirty, socket, want, lpc, boot, choice, offered>>

(* One query, the receive timeout, or the pause without a socket. *)
Serve ==
  /\ lpc = "serve"
  /\ healthy' = (healthy /\ sock)
  /\ lpc' = "loop"
  /\ UNCHANGED <<switch, bindSet, dirty, sock, published, want, boot, dhcp>>

-----------------------------------------------------------------------------
ListenerStep ==
  \/ ReadWant \/ Decide \/ CloseSocket \/ Closed \/ OpenSocket \/ OpenFails
  \/ Opened \/ Notify \/ Serve
  \/ ChooseResolver(Listener) \/ SetOffer(Listener)

SetterStep(s) ==
  \/ \E v \in BOOLEAN : SetEnabled(s, v)
  \/ SetDirty(s) \/ StoreEnabled(s)

ApplierStep(c) == StartApply(c) \/ ChooseResolver(c) \/ SetOffer(c)

Next ==
  \/ SetBindAddr \/ BindAddrDirty
  \/ \E s \in Setters : SetterStep(s)
  \/ \E c \in Appliers : ApplierStep(c)
  \/ ListenerStep

Spec == Init /\ [][Next]_vars

(* Every task runs, and the bind does not fail for ever. *)
FairSpec ==
  /\ Spec
  /\ WF_vars(SetBindAddr \/ BindAddrDirty)
  /\ \A s \in Setters : WF_vars(SetDirty(s) \/ StoreEnabled(s))
  /\ \A c \in Appliers : WF_vars(ChooseResolver(c) \/ SetOffer(c))
  /\ WF_vars(ListenerStep) /\ SF_vars(OpenSocket)

-----------------------------------------------------------------------------
(* Workers reply through s_listen_sock: what it names is an open socket.   *)
PublishedIsOpen == published => sock

(* Switched on and left on, the relay ends up serving without an end, even *)
(* when a switch or app_main raises the dirty flag around a rebind.        *)
EnabledServes == <>[]enabled => <>[](healthy /\ published)

(* Switched off and left off, the socket goes and so does the health. *)
DisabledCloses == <>[]~enabled => <>[](~sock /\ ~published /\ ~healthy)

(* The relay ends up as it was last switched, however the switches of the *)
(* two tasks, failed binds and rebinds interleave.                        *)
SwitchFollowed == EnabledServes /\ DisabledCloses
=============================================================================
