------------------------------ MODULE MCLinks -------------------------------
(* What is switched on and off, or lost and made again, while the router   *)
(* runs, one component at a time: the DNS relay's control side, the packet *)
(* shims, the tunnel with the route supervisor, and the remote console.    *)
(* In the models they share no state: "on" says which of them runs, and    *)
(* the others stay where they began.                                       *)
EXTENDS MCDnsListener

CONSTANTS
  Tunnels, UplinkCgnat,                        \* NetifHooks
  Connectors, MaxInstances, Exits, TunnelEvents, \* Tunnel
  Tasks, MaxAttempts, ConsoleEvents            \* RemoteConsole

ASSUME TunnelsAssumption == Tunnels \cap {"sta", "ap"} = {}

VARIABLES
  on,
  list, input, cgnat, original, hookedWg,
  inst, ml, sd, sampling, caller, exit, sta, default, sup, firstDefault, pinned,
  pin, keepalive, tunnelEvents, overlapped,
  rcEnabled, bind, nvs, server, state, handle, kick, shutdown, mutex, pc,
  tries, api, pwSet, rcEvents, early

hv == <<list, input, cgnat, original, hookedWg>>
tv == <<inst, ml, sd, sampling, caller, exit, sta, default, sup, firstDefault, pinned,
        pin, keepalive, tunnelEvents, overlapped>>
cv == <<rcEnabled, bind, nvs, server, state, handle, kick, shutdown, mutex, pc,
        tries, api, pwSet, rcEvents, early>>

H == INSTANCE NetifHooks
T == INSTANCE Tunnel WITH
  Callers <- Connectors, original <- firstDefault, events <- tunnelEvents, MaxEvents <- TunnelEvents
C == INSTANCE RemoteConsole WITH
  enabled <- rcEnabled, events <- rcEvents, MaxEvents <- ConsoleEvents

(* A component that does not run has one of its initial states. *)
LinksInit ==
  /\ on \in {"relay", "shims", "tunnel", "console"}
  /\ Init /\ (on # "relay" => ~enabled)
  /\ H!Init
  /\ T!Init /\ (on # "tunnel" => exit = 0)
  /\ C!Init /\ (on # "console" => nvs.bind = 3 /\ pwSet)

LinksNext ==
  \/ on = "relay" /\ Next /\ UNCHANGED <<on, hv, tv, cv>>
  \/ on = "shims" /\ H!Next /\ UNCHANGED <<on, vars, tv, cv>>
  \/ on = "tunnel" /\ T!Next /\ UNCHANGED <<on, vars, hv, cv>>
  \/ on = "console" /\ C!Next /\ UNCHANGED <<on, vars, hv, tv>>

(* The fairness of each component, while it runs. *)
RelayFair ==
  /\ WF_vars(on = "relay" /\ (SetBindAddr \/ BindAddrDirty))
  /\ \A s \in Setters : WF_vars(on = "relay" /\ (SetDirty(s) \/ StoreEnabled(s)))
  /\ \A c \in Appliers : WF_vars(on = "relay" /\ (ChooseResolver(c) \/ SetOffer(c)))
  /\ WF_vars(on = "relay" /\ ListenerStep) /\ SF_vars(on = "relay" /\ OpenSocket)
Fair ==
  /\ RelayFair
  /\ WF_hv(on = "shims" /\ H!Refresh)
  /\ WF_tv(on = "tunnel" /\ T!Look) /\ WF_tv(on = "tunnel" /\ T!Act)
  /\ \A c \in Connectors : WF_tv(on = "tunnel" /\ T!CallerStep(c))
  /\ \A t \in Tasks : WF_cv(on = "console" /\ C!TaskStep(t))
  /\ WF_cv(on = "console" /\ C!DisableReturns)

LinksSpec == LinksInit /\ [][LinksNext]_<<on, vars, hv, tv, cv>> /\ Fair

-----------------------------------------------------------------------------
(* The properties of the components that are instances here: the shims    *)
(* keep packets moving and the tunnel filtered,                           *)
ShimsHold == H!ShimsHold
(* the tunnel has one instance and the route follows the exit node,       *)
InstanceSound == T!InstanceSound
ExitFollowed == T!ExitFollowed
(* and the console has one task and ends when it is disabled.             *)
ServedByOne == C!ServedByOne
EventuallyOff == C!EventuallyOff
=============================================================================
