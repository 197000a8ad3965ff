------------------------------- MODULE Tunnel -------------------------------
(* The one microlink instance and those who handle it: tailscale_connect   *)
(* and tailscale_disconnect (main/tailscale_manager.c), called by a task   *)
(* that every GOT_IP starts and by the MQTT bridge; the flight recorder,   *)
(* which samples the instance; and the route supervisor                    *)
(* (main/lwip_route_hook.c), which points the default route at it.         *)
(* A netif is 0 for none, Sta, or the number of the instance it belongs to.*)
EXTENDS Integers, FiniteSets

CONSTANTS
  Callers,        \* tasks that connect or disconnect
  MaxInstances,   \* bound: instances created
  Exits,          \* exit nodes, positive numbers
  MaxEvents       \* bound: GOT_IPs, restarts, changes of setting or uplink

Instances == 1..MaxInstances
Sta == 100

VARIABLES
  inst,        \* per instance: unused, made, run, up (it has an address), freed
  ml,          \* s_microlink
  sd,          \* the recorder's handle, sdlog_set_microlink
  sampling,    \* the handle the recorder read and still uses, or 0
  caller,      \* per caller: [pc, again], where again is a connect to follow
  exit,        \* tailscale_exit_node_ip, 0 when none
  sta,         \* the STA netif is up
  default,     \* netif_default
  sup,         \* the supervisor: [pc, wg, sta], what it found
  original,    \* s_original_default
  pinned,      \* s_wg_udp_pinned
  pin,         \* instances whose UDP socket is pinned to the uplink
  keepalive,   \* s_keepalive_target, 0 when stopped
  events, overlapped   \* bound; history: two callers at once

net == <<exit, sta, default>>
supervisor == <<sup, original, pinned, pin, keepalive>>
vars == <<inst, ml, sd, sampling, caller, net, supervisor, events, overlapped>>

Idle == [pc |-> "idle", again |-> FALSE]
Asleep == [pc |-> "sleep", wg |-> 0, sta |-> FALSE]

Init ==
  /\ inst = [i \in Instances |-> "unused"] /\ ml = 0 /\ sd = 0 /\ sampling = 0
  /\ caller = [c \in Callers |-> Idle]
  /\ exit \in {0} \cup Exits /\ sta = FALSE /\ default = 0
  /\ sup = Asleep /\ original = 0 /\ pinned = FALSE /\ pin = {} /\ keepalive = 0
  /\ events = 0 /\ overlapped = FALSE

Event == events < MaxEvents /\ events' = events + 1

-----------------------------------------------------------------------------
(* A GOT_IP starts tailscale_connect_task, which tears down an instance it *)
(* finds. The MQTT bridge disconnects and, half a second later, connects.  *)
First == IF ml # 0 THEN "detach" ELSE "make"

Begin(c, pc, again) ==
  /\ caller[c].pc = "idle" /\ Event
  /\ caller' = [caller EXCEPT ![c] = [pc |-> pc, again |-> again]]
  /\ overlapped' = (overlapped \/ \E d \in Callers \ {c} : caller[d].pc # "idle")
  /\ UNCHANGED <<inst, ml, sd, sampling, net, supervisor>>

GotIp(c) == sta /\ Begin(c, First, FALSE)
MqttRestart(c) == Begin(c, IF ml # 0 THEN "detach" ELSE "pause", TRUE)

Step(c, from, to) ==
  /\ caller[c].pc = from
  /\ caller' = [caller EXCEPT ![c] = [pc |-> to, again |-> caller[c].again]]
  /\ UNCHANGED <<sampling, exit, sta, supervisor, events, overlapped>>

Detached_Late == sd
Detached == 0
Detach(c) ==
  /\ Step(c, "detach", "destroy") /\ sd' = Detached
  /\ UNCHANGED <<inst, ml, default>>

(* Removing the netif of an instance leaves no default route to it. *)
Freed(i) ==
  /\ inst' = IF i = 0 THEN inst ELSE [inst EXCEPT ![i] = "freed"]
  /\ default' = IF i # 0 /\ default = i THEN 0 ELSE default

Destroy(c) ==
  /\ Step(c, "destroy", "forget") /\ Freed(ml) /\ UNCHANGED <<ml, sd>>

Forget(c) ==
  /\ Step(c, "forget", IF caller[c].again THEN "pause" ELSE "make")
  /\ ml' = 0 /\ UNCHANGED <<inst, sd, default>>

Connect(c) ==
  /\ caller[c].pc = "pause" /\ caller' = [caller EXCEPT ![c] = [pc |-> First, again |-> FALSE]]
  /\ UNCHANGED <<inst, ml, sd, sampling, net, supervisor, events, overlapped>>

(* Instances are numbered as they are made. *)
Fresh == {i \in Instances : inst[i] = "unused" /\ \A k \in 1 .. i - 1 : inst[k] # "unused"}

(* microlink_init, which may fail. *)
Make(c) ==
  /\ Fresh # {}
  /\ \/ /\ Step(c, "make", "hand") /\ ml' \in Fresh
        /\ inst' = [inst EXCEPT ![ml'] = "made"]
     \/ Step(c, "make", "idle") /\ ml' = 0 /\ UNCHANGED inst
  /\ UNCHANGED <<sd, default>>

Hand(c) ==
  /\ Step(c, "hand", "start") /\ sd' = ml /\ UNCHANGED <<inst, ml, default>>

(* microlink_start; when it fails the instance is given up again. *)
Start(c) ==
  \/ /\ Step(c, "start", "idle")
     /\ inst' = IF ml = 0 THEN inst ELSE [inst EXCEPT ![ml] = "run"]
     /\ UNCHANGED <<ml, sd, default>>
  \/ Step(c, "start", "idle") /\ sd' = 0 /\ Freed(ml) /\ ml' = 0

-----------------------------------------------------------------------------
(* The recorder's snapshot reads its handle once and then asks it. *)
SampleBegin ==
  /\ sampling = 0 /\ sd # 0 /\ sampling' = sd
  /\ UNCHANGED <<inst, ml, sd, caller, net, supervisor, events, overlapped>>

SampleEnd ==
  /\ sampling # 0 /\ sampling' = 0
  /\ UNCHANGED <<inst, ml, sd, caller, net, supervisor, events, overlapped>>

(* The control plane answers: the instance's netif gets its address. *)
Up(i) ==
  /\ inst[i] = "run" /\ sta /\ inst' = [inst EXCEPT ![i] = "up"]
  /\ UNCHANGED <<ml, sd, sampling, caller, net, supervisor, events, overlapped>>

(* The uplink comes and goes; esp_netif then sets the default route. *)
StaChange ==
  /\ Event /\ sta' = ~sta /\ default' = IF sta' THEN Sta ELSE default
  /\ UNCHANGED <<inst, ml, sd, sampling, caller, exit, supervisor, overlapped>>

(* A renewed lease makes esp_netif set it again. *)
Renewed ==
  /\ sta /\ Event /\ default' = Sta
  /\ UNCHANGED <<inst, ml, sd, sampling, caller, exit, sta, supervisor, overlapped>>

SetExit(e) ==
  /\ Event /\ exit' = e
  /\ UNCHANGED <<inst, ml, sd, sampling, caller, sta, default, supervisor, overlapped>>

-----------------------------------------------------------------------------
(* route_supervisor_task. It first looks for the netifs and remembers the  *)
(* default route it found before the tunnel ever had it.                   *)
Look ==
  /\ sup.pc = "sleep"
  /\ \E w \in {i \in Instances : inst[i] = "up"} \cup {0} :
       /\ w = 0 => \A i \in Instances : inst[i] # "up"
       /\ sup' = [pc |-> "act", wg |-> w, sta |-> sta]
       /\ original' = IF original = 0 /\ default # w THEN default ELSE original
  /\ UNCHANGED <<inst, ml, sd, sampling, caller, net, pinned, pin, keepalive, events, overlapped>>

Ready == sup.wg # 0 /\ sup.sta

(* The pin, once; it is undone when the exit node is switched off. *)
Pin ==
  IF exit # 0
  THEN IF Ready /\ ~pinned /\ ml # 0
       THEN pinned' = TRUE /\ pin' = pin \cup {ml} ELSE UNCHANGED <<pinned, pin>>
  ELSE pinned' = FALSE /\ pin' = IF pinned THEN pin \ {ml} ELSE pin

Want == IF exit = 0 THEN original ELSE IF Ready THEN sup.wg ELSE 0

Target_First == IF exit = 0 THEN 0 ELSE IF Ready /\ keepalive = 0 THEN exit ELSE keepalive
Target == IF exit = 0 THEN 0 ELSE IF Ready THEN exit ELSE keepalive

Act ==
  /\ sup.pc = "act" /\ sup' = Asleep
  /\ Pin /\ keepalive' = Target
  /\ default' = IF Want # 0 THEN Want ELSE default
  /\ UNCHANGED <<inst, ml, sd, sampling, caller, exit, sta, original, events, overlapped>>

CallerStep(c) ==
  Detach(c) \/ Destroy(c) \/ Forget(c) \/ Connect(c) \/ Make(c) \/ Hand(c) \/ Start(c)

Next ==
  \/ \E c \in Callers : GotIp(c) \/ MqttRestart(c) \/ CallerStep(c)
  \/ SampleBegin \/ SampleEnd \/ StaChange \/ Renewed \/ Look \/ Act
  \/ \E i \in Instances : Up(i)
  \/ \E e \in {0} \cup Exits : SetExit(e)

Spec == Init /\ [][Next]_vars
FairSpec ==
  Spec /\ WF_vars(Look) /\ WF_vars(Act) /\ \A c \in Callers : WF_vars(CallerStep(c))

-----------------------------------------------------------------------------
Alive(i) == inst[i] \in {"made", "run", "up"}
Quiet == \A c \in Callers : caller[c].pc = "idle"

(* Calls that never overlap keep one instance: what is alive is what       *)
(* s_microlink names, and between calls nothing else is.                   *)
OneInstance ==
  ~overlapped =>
    /\ \A i \in Instances : Alive(i) => i = ml
    /\ Quiet /\ ml # 0 => Alive(ml)

(* ... and the recorder's handle never names an instance that is gone.     *)
HandleLive == ~overlapped => sd = 0 \/ Alive(sd)

(* With an exit node, an uplink and a tunnel that stay, the default route  *)
(* settles on the tunnel and the keepalive on the exit node, however often *)
(* esp_netif had put it back.                                              *)
Steady == exit # 0 /\ sta /\ Quiet /\ ml # 0 /\ inst[ml] = "up" /\ ~overlapped
ExitTaken == (<>[]Steady) => <>[](default = ml /\ keepalive = exit)

(* Switched off for good, the exit node loses default route and keepalive. *)
ExitLeft == (<>[](exit = 0)) => <>[](default \notin Instances /\ keepalive = 0)

(* The one instance, as s_microlink and as the recorder hold it.          *)
InstanceSound == OneInstance /\ HandleLive

(* Default route and keepalive follow the exit node, on and off.          *)
ExitFollowed == ExitTaken /\ ExitLeft
=============================================================================
