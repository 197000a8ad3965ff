------------------------------ MODULE WifiCore ------------------------------
(***************************************************************************)
(* The Wi-Fi core of main/main.c: the default event loop's handler for the *)
(* STA events, the tasks that change the access-point policy, the one-shot *)
(* ap_policy workers, the network rotation, the channel-realign reboot     *)
(* with its NVS loop guard, and the reset that throws all of RAM away.     *)
(*                                                                         *)
(* The ESP-IDF driver (association, its event queue, the AP interface) is  *)
(* external and modelled from how main.c uses it.  What the handlers do to *)
(* the Tailscale manager, the DHCP-offered DNS and the port maps changes   *)
(* none of the state of this module.                                       *)
(***************************************************************************)
EXTENDS Integers, Sequences

CONSTANTS
  Callers,          \* tasks that set the AP policy: httpd, the MQTT task
  EvLoop,           \* the default event-loop task
  Workers,          \* ap_policy tasks the heap has room for at one time
  GenMod,           \* the generation counter wraps here (2^32 in the code)
  MaxNets,          \* slots of the saved-network list
  RetriesPerNet,    \* WIFI_RETRIES_PER_NETWORK
  Channels,         \* channels an uplink may answer on
  DefaultChannel,   \* EXAMPLE_ESP_WIFI_CHANNEL
  MaxRealign,       \* realign reboots before running degraded (3)
  MaxEvents,        \* bound: events waiting in the loop's queue
  MaxStreak,        \* bound: realign reboots the history counter tells apart
  Scans, Resets, Faults, NvsMayFail   \* which environment steps may happen

ASSUME ConstantsAssumption ==
  /\ EvLoop \notin Callers
  /\ GenMod \in Nat \ {0}
  /\ MaxNets \in Nat \ {0}
  /\ RetriesPerNet \in Nat \ {0}
  /\ Channels \subseteq 1..14
  /\ DefaultChannel \in 1..13
  /\ MaxRealign \in Nat
  /\ MaxEvents \in Nat \ {0}
  /\ MaxStreak \in Nat /\ MaxStreak > MaxRealign
  /\ {Scans, Resets, Faults, NvsMayFail} \subseteq BOOLEAN

Procs == Callers \cup {EvLoop}
Gens == 0..(GenMod - 1)

VARIABLES
  nvsAutoOff, nvsLearned, nvsRealign,   \* NVS keys (survive a reset)
  nets,                      \* length of the saved-network list (NVS + RAM)
  autoOff, apConnect,        \* s_ap_auto_off, ap_connect
  target, generation,        \* s_ap_target_on, s_ap_policy_generation
  scanning,                  \* s_manual_scan_active
  netCurrent, netRetries,    \* s_net_current, s_net_retries
  pc, on, loaded,            \* per task: location, the argument `on`, ++'s load
  worker,                    \* per ap_policy task: [pc, gen, tgt]
  mode, apChan,              \* driver: AP up ("APSTA") or not, AP channel
  sta, chan, events,         \* driver: association, its channel, event queue
  roams,                     \* environment: the uplink may change its channel
  streak,                    \* history: realign reboots since channels matched
  everAutoOff                \* history: recovery-only was on since boot

nvs     == <<nvsAutoOff, nvsLearned, nvsRealign>>
policy  == <<target, generation>>
rot     == <<netCurrent, netRetries>>
driver  == <<sta, chan, events>>
history == <<streak, everAutoOff>>
vars == <<nvs, nets, autoOff, apConnect, policy, scanning, rot, pc, on, loaded,
          worker, mode, apChan, driver, roams, history>>

CallerLabels  == {"idle", "assign", "eval", "req_target", "req_load", "req_store"}
HandlerLabels == CallerLabels \cup
  {"disc_policy", "disc_reconnect", "ip_learn", "ip_realign",
   "ip_restart", "ip_policy"}
NoWorker == [pc |-> "none", gen |-> 0, tgt |-> TRUE]

FlagsOK ==
  /\ nvsAutoOff \in BOOLEAN
  /\ autoOff \in BOOLEAN /\ apConnect \in BOOLEAN
  /\ target \in BOOLEAN /\ scanning \in BOOLEAN
  /\ on \in [Procs -> BOOLEAN]
  /\ roams \in BOOLEAN /\ everAutoOff \in BOOLEAN

RangesOK ==
  /\ nvsLearned \in 0..13 /\ nvsRealign \in 0..MaxRealign
  /\ nets \in 0..MaxNets /\ generation \in Gens
  /\ netCurrent \in 0..(MaxNets - 1) /\ netRetries \in 0..(RetriesPerNet - 1)
  /\ pc \in [Procs -> HandlerLabels] /\ loaded \in [Procs -> Gens]
  /\ mode \in {"APSTA", "STA"} /\ apChan \in 1..14
  /\ sta \in {"idle", "connecting", "up"} /\ chan \in Channels
  /\ events \in Seq({"disconnected", "got_ip"})
  /\ streak \in 0..MaxStreak

WorkerType ==
  [pc : {"none", "ready", "delay", "apply", "set"}, gen : Gens, tgt : BOOLEAN]
WorkersOK == worker \in [Workers -> WorkerType]

TypeOK == FlagsOK /\ RangesOK /\ WorkersOK

-----------------------------------------------------------------------------
(* The channel wifi_init_softap gives the AP at boot. *)
BootChannel_Kconfig(learned) == DefaultChannel
BootChannel(learned) == IF learned \in 1..13 THEN learned ELSE DefaultChannel

(* esp_wifi_connect(): starts an association unless one is under way. *)
Connected(s) == IF s = "idle" THEN "connecting" ELSE s

Init ==
  /\ nvsAutoOff \in BOOLEAN /\ nvsLearned = 0 /\ nvsRealign = 0
  /\ nets \in 0..MaxNets
  /\ autoOff = nvsAutoOff /\ apConnect = FALSE
  /\ target = TRUE /\ generation = 0 /\ scanning = FALSE
  /\ netCurrent = 0 /\ netRetries = 0
  /\ pc = [p \in Procs |-> "idle"] /\ on = [p \in Procs |-> TRUE]
  /\ loaded = [p \in Procs |-> 0]
  /\ worker = [w \in Workers |-> NoWorker]
  /\ mode = "APSTA" /\ apChan = DefaultChannel
  /\ sta = (IF nets > 0 THEN "connecting" ELSE "idle") /\ chan \in Channels
  /\ events = <<>>
  /\ roams \in BOOLEAN
  /\ streak = 0 /\ everAutoOff = nvsAutoOff

(* A reset and the boot that follows: RAM is fresh, NVS is read back, the  *)
(* AP starts with the learned channel, STA_START connects when a network   *)
(* is saved.                                                               *)
Boot ==
  /\ autoOff' = nvsAutoOff /\ apConnect' = FALSE
  /\ target' = TRUE /\ generation' = 0 /\ scanning' = FALSE
  /\ netCurrent' = 0 /\ netRetries' = 0
  /\ pc' = [p \in Procs |-> "idle"] /\ on' = [p \in Procs |-> TRUE]
  /\ loaded' = [p \in Procs |-> 0]
  /\ worker' = [w \in Workers |-> NoWorker]
  /\ mode' = "APSTA" /\ apChan' = BootChannel(nvsLearned)
  /\ sta' = (IF nets > 0 THEN "connecting" ELSE "idle")
  /\ events' = <<>>
  /\ everAutoOff' = nvsAutoOff
  /\ UNCHANGED <<nvsAutoOff, nvsLearned, nvsRealign, nets, chan, roams>>

(* A panic, a watchdog, a power cut, or a restart asked for by a user. *)
Reset ==
  /\ Resets
  /\ Boot
  /\ UNCHANGED streak

-----------------------------------------------------------------------------
(* The driver. *)
AssocUp ==
  /\ sta = "connecting" /\ Len(events) < MaxEvents
  /\ sta' = "up" /\ chan' \in (IF roams THEN Channels ELSE {chan})
  /\ events' = Append(events, "got_ip")
  /\ UNCHANGED <<nvs, nets, autoOff, apConnect, policy, scanning, rot, pc, on,
                 loaded, worker, mode, apChan, roams, history>>

AssocFail ==
  /\ sta = "connecting" /\ Len(events) < MaxEvents
  /\ sta' = "idle" /\ events' = Append(events, "disconnected")
  /\ UNCHANGED <<nvs, nets, autoOff, apConnect, policy, scanning, rot, pc, on,
                 loaded, worker, mode, apChan, chan, roams, history>>

LinkLost ==
  /\ sta = "up" /\ Len(events) < MaxEvents
  /\ sta' = "idle" /\ events' = Append(events, "disconnected")
  /\ UNCHANGED <<nvs, nets, autoOff, apConnect, policy, scanning, rot, pc, on,
                 loaded, worker, mode, apChan, chan, roams, history>>

-----------------------------------------------------------------------------
(* ap_policy_request(on[p]): three statements of any task. *)
ReqTarget(p) ==
  /\ pc[p] = "req_target"
  /\ target' = on[p]
  /\ pc' = [pc EXCEPT ![p] = "req_load"]
  /\ UNCHANGED <<nvs, nets, autoOff, apConnect, generation, scanning, rot, on,
                 loaded, worker, mode, apChan, driver, roams, history>>

ReqLoad(p) ==
  /\ pc[p] = "req_load"
  /\ loaded' = [loaded EXCEPT ![p] = generation]
  /\ pc' = [pc EXCEPT ![p] = "req_store"]
  /\ UNCHANGED <<nvs, nets, autoOff, apConnect, policy, scanning, rot, on,
                 worker, mode, apChan, driver, roams, history>>

(* Where the caller of ap_policy_request goes on: the disconnect handler   *)
(* still has the reconnect to do, the others are finished.                 *)
AfterRequest_NoReconnect(p) == "idle"
AfterRequest(p) == IF p = EvLoop /\ on[p] THEN "disc_reconnect" ELSE "idle"

NextGen(p) == (loaded[p] + 1) % GenMod

(* The store of ++generation and xTaskCreate, which fails when the heap    *)
(* has no room; the failure is only logged.  The locals `on` and `loaded`  *)
(* are dead from here on.                                                  *)
ReqStore(p) ==
  /\ pc[p] = "req_store"
  /\ generation' = NextGen(p)
  /\ pc' = [pc EXCEPT ![p] = AfterRequest(p)]
  /\ on' = [on EXCEPT ![p] = TRUE] /\ loaded' = [loaded EXCEPT ![p] = 0]
  /\ \/ \E w \in Workers :
          /\ worker[w].pc = "none"
          /\ worker' = [worker EXCEPT
                          ![w] = [pc |-> "ready", gen |-> NextGen(p), tgt |-> TRUE]]
     \/ /\ Faults \/ \A w \in Workers : worker[w].pc # "none"
        /\ UNCHANGED worker
  /\ UNCHANGED <<nvs, nets, autoOff, apConnect, target, scanning, rot,
                 mode, apChan, driver, roams, history>>

(* network_save_handler and the MQTT ap_always_on command: the NVS write,  *)
(* then wifi_ap_policy_set_auto_off(v), which is skipped when it failed.   *)
SaveAutoOff(c, v) ==
  /\ pc[c] = "idle"
  /\ nvsAutoOff' = v
  /\ on' = [on EXCEPT ![c] = v]
  /\ pc' = [pc EXCEPT ![c] = "assign"]
  /\ UNCHANGED <<nvsLearned, nvsRealign, nets, autoOff, apConnect,
                 policy, scanning, rot, loaded, worker, mode, apChan, driver,
                 roams, history>>

AssignAutoOff(c) ==
  /\ pc[c] = "assign"
  /\ autoOff' = on[c]
  /\ everAutoOff' = (everAutoOff \/ on[c])
  /\ pc' = [pc EXCEPT ![c] = "eval"]
  /\ UNCHANGED <<nvs, nets, apConnect, policy, scanning, rot, on, loaded,
                 worker, mode, apChan, driver, roams, streak>>

(* The argument of ap_policy_request: !auto_off || !ap_connect. *)
ApWanted_LinkOnly(auto) == ~apConnect
ApWanted(auto) == ~auto \/ ~apConnect

EvalPolicy(c) ==
  /\ pc[c] = "eval"
  /\ on' = [on EXCEPT ![c] = ApWanted(on[c])]
  /\ pc' = [pc EXCEPT ![c] = "req_target"]
  /\ UNCHANGED <<nvs, nets, autoOff, apConnect, policy, scanning, rot, loaded,
                 worker, mode, apChan, driver, roams, history>>

(* The saved-network list is replaced: the driver keeps its configuration. *)
SaveNetworks(n) ==
  /\ nets # n
  /\ nets' = n
  /\ UNCHANGED <<nvs, autoOff, apConnect, policy, scanning, rot, pc, on,
                 loaded, worker, mode, apChan, driver, roams, history>>

(* wifi_sta_pause_for_scan: taken when the driver refuses a scan because   *)
(* it is associating; the disconnect it asks for posts an event.           *)
ScanPause ==
  /\ Scans /\ ~scanning
  /\ sta = "connecting" /\ Len(events) < MaxEvents
  /\ scanning' = TRUE
  /\ sta' = "idle" /\ events' = Append(events, "disconnected")
  /\ UNCHANGED <<nvs, nets, autoOff, apConnect, policy, rot, pc, on, loaded,
                 worker, mode, apChan, chan, roams, history>>

(* wifi_sta_resume_after_scan, from SCAN_DONE or from a scan that failed. *)
ScanResume ==
  /\ scanning
  /\ scanning' = FALSE
  /\ sta' = IF nets > 0 THEN Connected(sta) ELSE sta
  /\ UNCHANGED <<nvs, nets, autoOff, apConnect, policy, rot, pc, on, loaded,
                 worker, mode, apChan, chan, events, roams, history>>

-----------------------------------------------------------------------------
(* ap_policy_worker. *)
WorkerStart(w) ==
  /\ worker[w].pc = "ready"
  /\ worker' = [worker EXCEPT
                  ![w] = [pc |-> "delay", gen |-> worker[w].gen, tgt |-> target]]
  /\ UNCHANGED <<nvs, nets, autoOff, apConnect, policy, scanning, rot, pc, on,
                 loaded, mode, apChan, driver, roams, history>>

Current(w) == worker[w].gen = generation /\ worker[w].tgt = target

(* After the delay: only the latest request is applied (the worker's copy  *)
(* of the generation is dead afterwards).                                  *)
WorkerCheck(w) ==
  /\ worker[w].pc = "delay"
  /\ worker' = [worker EXCEPT ![w] =
                  IF Current(w)
                  THEN [pc |-> "apply", gen |-> 0, tgt |-> worker[w].tgt]
                  ELSE NoWorker]
  /\ UNCHANGED <<nvs, nets, autoOff, apConnect, policy, scanning, rot, pc, on,
                 loaded, mode, apChan, driver, roams, history>>

(* The channel ap_policy_apply_runtime gives an AP it is about to start;   *)
(* the driver may refuse the new configuration, which is ignored.          *)
AlignedChannel ==
  IF sta = "up" THEN chan ELSE IF nvsLearned \in 1..13 THEN nvsLearned ELSE apChan

(* esp_wifi_get_mode and the early return when there is nothing to do. *)
WorkerApply(w) ==
  /\ worker[w].pc = "apply"
  /\ IF mode = (IF worker[w].tgt THEN "APSTA" ELSE "STA")
     THEN /\ worker' = [worker EXCEPT ![w] = NoWorker]
          /\ UNCHANGED apChan
     ELSE /\ worker' = [worker EXCEPT
                          ![w] = [pc |-> "set", gen |-> 0, tgt |-> worker[w].tgt]]
          /\ IF worker[w].tgt
             THEN apChan' = AlignedChannel \/ (Faults /\ UNCHANGED apChan)
             ELSE UNCHANGED apChan
  /\ UNCHANGED <<nvs, nets, autoOff, apConnect, policy, scanning, rot, pc, on,
                 loaded, mode, driver, roams, history>>

(* esp_wifi_set_mode; an error is only logged. *)
WorkerSetMode(w) ==
  /\ worker[w].pc = "set"
  /\ mode' = IF worker[w].tgt THEN "APSTA" ELSE "STA"
  /\ worker' = [worker EXCEPT ![w] = NoWorker]
  /\ UNCHANGED <<nvs, nets, autoOff, apConnect, policy, scanning, rot, pc, on,
                 loaded, apChan, driver, roams, history>>

WorkerSetModeFails(w) ==
  /\ Faults /\ worker[w].pc = "set"
  /\ worker' = [worker EXCEPT ![w] = NoWorker]
  /\ UNCHANGED <<nvs, nets, autoOff, apConnect, policy, scanning, rot, pc, on,
                 loaded, mode, apChan, driver, roams, history>>

-----------------------------------------------------------------------------
(* wifi_event_handler, WIFI_EVENT_STA_DISCONNECTED. *)
HandleDisconnected ==
  /\ pc[EvLoop] = "idle" /\ events # <<>> /\ Head(events) = "disconnected"
  /\ events' = Tail(events)
  /\ apConnect' = FALSE
  /\ pc' = [pc EXCEPT ![EvLoop] = "disc_policy"]
  /\ UNCHANGED <<nvs, nets, autoOff, policy, scanning, rot, on, loaded, worker,
                 mode, apChan, sta, chan, roams, history>>

DiscPolicy ==
  /\ pc[EvLoop] = "disc_policy"
  /\ on' = [on EXCEPT ![EvLoop] = TRUE]
  /\ pc' = [pc EXCEPT ![EvLoop] =
              IF autoOff THEN "req_target" ELSE "disc_reconnect"]
  /\ UNCHANGED <<nvs, nets, autoOff, apConnect, policy, scanning, rot, loaded,
                 worker, mode, apChan, driver, roams, history>>

(* The rotation: RetriesPerNet failures on one network, then the next. *)
NextNet_NoWrap(n) == netCurrent + 1
NextNet_SkipLast(n) == (netCurrent + 1) % (n - 1)
NextNet(n) == (netCurrent + 1) % n

Rotate ==
  IF nets <= 1 THEN UNCHANGED rot
  ELSE IF netRetries + 1 >= RetriesPerNet
       THEN netCurrent' = NextNet(nets) /\ netRetries' = 0
       ELSE netRetries' = netRetries + 1 /\ UNCHANGED netCurrent

DiscReconnect ==
  /\ pc[EvLoop] = "disc_reconnect"
  /\ pc' = [pc EXCEPT ![EvLoop] = "idle"]
  /\ IF scanning
     THEN UNCHANGED <<rot, sta>>
     ELSE /\ Rotate
          /\ sta' = IF nets > 0 THEN Connected(sta) ELSE sta
  /\ UNCHANGED <<nvs, nets, autoOff, apConnect, policy, scanning, on, loaded,
                 worker, mode, apChan, chan, events, roams, history>>

(* wifi_event_handler, IP_EVENT_STA_GOT_IP. *)
HandleGotIp ==
  /\ pc[EvLoop] = "idle" /\ events # <<>> /\ Head(events) = "got_ip"
  /\ events' = Tail(events)
  /\ netRetries' = 0 /\ apConnect' = TRUE
  /\ pc' = [pc EXCEPT ![EvLoop] = "ip_learn"]
  /\ UNCHANGED <<nvs, nets, autoOff, policy, scanning, netCurrent, on, loaded,
                 worker, mode, apChan, sta, chan, roams, history>>

(* esp_wifi_sta_get_ap_info fails once the link has gone again. *)
IpLearn ==
  /\ pc[EvLoop] = "ip_learn"
  /\ IF sta = "up" /\ chan \in 1..13
     THEN /\ nvsLearned' \in {chan} \cup (IF NvsMayFail THEN {nvsLearned} ELSE {})
          /\ pc' = [pc EXCEPT ![EvLoop] = "ip_realign"]
          /\ on' = on
     ELSE /\ pc' = [pc EXCEPT ![EvLoop] = "ip_policy"]
          /\ UNCHANGED <<nvsLearned, on>>
  /\ UNCHANGED <<nvsAutoOff, nvsRealign, nets, autoOff, apConnect,
                 policy, scanning, rot, loaded, worker, mode, apChan, driver,
                 roams, history>>

(* The loop guard of the realign reboot. *)
RealignAllowed_OneMore == nvsRealign <= MaxRealign
RealignAllowed_OneLess == nvsRealign + 1 < MaxRealign
RealignAllowed == nvsRealign < MaxRealign

(* The comparison uses ap_info, read before: a link lost meanwhile does    *)
(* not change it, and no new association starts before the handler ends.   *)
IpRealign ==
  /\ pc[EvLoop] = "ip_realign"
  /\ \/ /\ apChan = chan                               \* aligned
        /\ nvsRealign' \in {0} \cup (IF NvsMayFail THEN {nvsRealign} ELSE {})
        /\ streak' = 0
        /\ pc' = [pc EXCEPT ![EvLoop] = "ip_policy"]
     \/ /\ apChan # chan
        /\ autoOff \/ ~RealignAllowed                   \* no reboot
        /\ pc' = [pc EXCEPT ![EvLoop] = "ip_policy"]
        /\ UNCHANGED <<nvsRealign, streak>>
     \/ /\ apChan # chan /\ ~autoOff /\ RealignAllowed
        /\ nvsRealign' \in {nvsRealign + 1} \cup
                           (IF NvsMayFail THEN {nvsRealign} ELSE {})
        /\ pc' = [pc EXCEPT ![EvLoop] = "ip_restart"]
        /\ UNCHANGED streak
  /\ UNCHANGED <<nvsAutoOff, nvsLearned, nets, autoOff, apConnect,
                 policy, scanning, rot, on, loaded, worker, mode, apChan,
                 driver, roams, everAutoOff>>

(* The reason is stored, sdlog_flush waits up to 1.75 s, then esp_restart. *)
IpRestart ==
  /\ pc[EvLoop] = "ip_restart"
  /\ Boot
  /\ streak' = IF streak < MaxStreak THEN streak + 1 ELSE streak

IpPolicy ==
  /\ pc[EvLoop] = "ip_policy"
  /\ on' = [on EXCEPT ![EvLoop] = FALSE]
  /\ pc' = [pc EXCEPT ![EvLoop] = IF autoOff THEN "req_target" ELSE "idle"]
  /\ UNCHANGED <<nvs, nets, autoOff, apConnect, policy, scanning, rot, loaded,
                 worker, mode, apChan, driver, roams, history>>

-----------------------------------------------------------------------------
Request(p) == ReqTarget(p) \/ ReqLoad(p) \/ ReqStore(p)

CallerStep(c) ==
  \/ \E v \in BOOLEAN : SaveAutoOff(c, v)
  \/ AssignAutoOff(c) \/ EvalPolicy(c) \/ Request(c)

WorkerStep(w) ==
  \/ WorkerStart(w) \/ WorkerCheck(w) \/ WorkerApply(w)
  \/ WorkerSetMode(w) \/ WorkerSetModeFails(w)

HandlerStep ==
  \/ HandleDisconnected \/ DiscPolicy \/ DiscReconnect
  \/ HandleGotIp \/ IpLearn \/ IpRealign \/ IpRestart \/ IpPolicy
  \/ Request(EvLoop)

Next ==
  \/ \E c \in Callers : CallerStep(c)
  \/ \E n \in 0..MaxNets : SaveNetworks(n)
  \/ \E w \in Workers : WorkerStep(w)
  \/ HandlerStep
  \/ AssocUp \/ AssocFail \/ LinkLost
  \/ ScanPause \/ ScanResume
  \/ Reset

Spec == Init /\ [][Next]_vars

-----------------------------------------------------------------------------
(* Fairness.  Every task runs, the driver ends every association attempt   *)
(* and every scan.  The strong conditions say that what may fail does not  *)
(* fail for ever, and that some attempt to associate outlasts the start    *)
(* and the 100 ms delay of a recovery worker, so that the worker is not    *)
(* superseded for ever.                                                    *)
RecoveryStarted == \E w \in Workers : worker[w].gen = generation /\ WorkerStart(w)
RecoveryChecked == \E w \in Workers : Current(w) /\ worker[w].tgt /\ WorkerCheck(w)
RecoveryApplied == \E w \in Workers : worker[w].tgt /\ WorkerSetMode(w)
WorkerCreated   == ReqStore(EvLoop) /\ worker' # worker

Fairness ==
  /\ WF_vars(HandlerStep)
  /\ \A c \in Callers : WF_vars(AssignAutoOff(c) \/ EvalPolicy(c) \/ Request(c))
  /\ \A w \in Workers : WF_vars(WorkerStep(w))
  /\ WF_vars(AssocUp \/ AssocFail)
  /\ WF_vars(ScanResume)
  /\ SF_vars(WorkerCreated) /\ SF_vars(RecoveryStarted)
  /\ SF_vars(RecoveryChecked) /\ SF_vars(RecoveryApplied)

FairSpec == Spec /\ Fairness

-----------------------------------------------------------------------------
(* Nothing is under way: no event, handler, policy change or worker. *)
Settled ==
  /\ events = <<>> /\ pc = [p \in Procs |-> "idle"]
  /\ \A w \in Workers : worker[w].pc = "none"

(* The loop guard on realign reboots (IP_EVENT_STA_GOT_IP handler): an     *)
(* uplink that changes channel every boot, with resets anywhere between    *)
(* the NVS writes, restarts the device at most MaxRealign times before it  *)
(* has been seen on the AP's own channel again.                            *)
RealignBounded == streak <= MaxRealign

(* An uplink that stays on one channel costs at most one realign reboot:   *)
(* the channel learned before the restart is the one the next boot uses.   *)
SteadyUplinkRealignsOnce == ~roams => streak <= 1

(* Once the handler is done with an associated uplink, the AP shares its   *)
(* channel, unless the loop guard has given up (always-on policy).         *)
SettledAligned ==
  (/\ sta = "up" /\ chan \in 1..13 /\ ~everAutoOff
   /\ events = <<>> /\ pc[EvLoop] = "idle")
  => apChan = chan \/ nvsRealign = MaxRealign

(* The default policy keeps the AP up: whatever the interleaving of two    *)
(* tasks saving it, the handler and stale workers, the AP never goes down  *)
(* in a boot in which recovery-only mode was never switched on.            *)
AlwaysOnKeepsAp == ~everAutoOff => mode = "APSTA"

(* The inductive strengthenings of the two invariants above that do not    *)
(* depend on the uplink's channels, and of SteadyUplinkRealignsOnce.       *)
RealignInv ==
  /\ streak <= nvsRealign
  /\ pc[EvLoop] \in {"ip_why", "ip_restart"} => streak + 1 <= nvsRealign

AlwaysOnInv ==
  ~everAutoOff =>
    /\ ~autoOff /\ target /\ mode = "APSTA"
    /\ \A p \in Procs :
         /\ pc[p] = "eval" => ~on[p]
         /\ pc[p] \in {"req_target", "req_load", "req_store"} => on[p]
    /\ \A w \in Workers : worker[w].tgt

SteadyInv ==
  ~roams =>
    /\ streak <= 1
    /\ streak > 0 => chan \in 1..13 /\ nvsLearned = chan /\ apChan = chan
    /\ pc[EvLoop] \in {"ip_realign", "ip_restart"} =>
         chan \in 1..13 /\ nvsLearned = chan
    /\ pc[EvLoop] \in {"ip_why", "ip_restart"} => streak = 0

(* Recovery-only mode: while the uplink stays lost, the AP comes back and  *)
(* stays, although tasks race with the handler, worker creation or the     *)
(* mode change may fail and requests supersede each other: every failed    *)
(* association asks again.  (Nobody keeps saving the setting, and the list *)
(* is never empty: STA then stays idle until the restart the page asks     *)
(* for.)                                                                   *)
RecoveryHeals ==
  [](nets > 0) /\ <>[](sta # "up" /\ autoOff /\ \A c \in Callers : pc[c] = "idle")
    => <>[](mode = "APSTA")

(* The rotation reaches every saved network while none of them answers, no *)
(* manual scan keeps suppressing the reconnect and the device, which       *)
(* starts over at the first network, is not restarted for ever.            *)
EveryNetworkTried ==
  [](nets > 0) /\ <>[](sta # "up" /\ nets = MaxNets /\ ~scanning)
               /\ <>[][~(Reset \/ IpRestart)]_vars
    => \A i \in 0..(MaxNets - 1) : []<>(netCurrent = i)

(* The comment on the AP policy: the AP comes back whenever STA            *)
(* disconnects, so an outage never locks the operator out of the device.   *)
NeverLockedOut == Settled /\ sta = "idle" /\ ~scanning => mode = "APSTA"
=============================================================================
