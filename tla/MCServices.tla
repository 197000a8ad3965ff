----------------------------- MODULE MCServices -----------------------------
(* The services that run beside the packet path, one at a time: the SD     *)
(* card's files and its recorder, the MQTT bridge, and the two halves of   *)
(* the ntfy integration.  In the models they share no state: "on" says     *)
(* which of them runs, and the others stay where they began.               *)
EXTENDS SdFiles

CONSTANTS
  evloop, MaxLines, QueueDepth, CardFaults, SlowClose,     \* SdLog
  MaxRules, Timeout, MaxAttempt, BridgeEvents,             \* MqttBridge
  Topics, Buffer, MaxSent, MaxListens, MaxCrashes, MidPoll,  \* NtfyCommands
  Delay, RetryAfter, AlertEvents                           \* NtfyAlert

ASSUME LinesAssumption == MaxLines \in Nat
ASSUME ListensAssumption == MaxListens \in Nat \ {0}

VARIABLES
  on,
  enabled, queueUp, queue, fp, done, wpc, item, hpc, fpc, due, place,
  mqttCfg, notified, mgr, conn, client, connected, triggered, silence, wait,
  broker, retained, rules, wol, stateReq, discReq, mqttWeb, command, runs,
  mqttEvents, bursts,
  ntfyServer, ntfyCfg, stored, cursor, last, poll, web, topic, carried, crashes,
  alertCfg, world, alertPc, down, retry, alerted, lastOk, given, mixed, alertEvents

lv == <<enabled, queueUp, queue, fp, done, wpc, item, hpc, fpc, due, place>>
bv == <<mqttCfg, notified, mgr, conn, client, connected, triggered, silence, wait,
        broker, retained, rules, wol, stateReq, discReq, mqttWeb, command, runs,
        mqttEvents, bursts>>
nv == <<ntfyServer, ntfyCfg, stored, cursor, last, poll, web, topic, carried, crashes>>
av == <<alertCfg, world, alertPc, down, retry, alerted, lastOk, given, mixed, alertEvents>>

L == INSTANCE SdLog WITH Flushers <- {evloop}
B == INSTANCE MqttBridge WITH
  cfg <- mqttCfg, web <- mqttWeb, events <- mqttEvents, MaxEvents <- BridgeEvents
N == INSTANCE NtfyCommands WITH server <- ntfyServer, cfg <- ntfyCfg
A == INSTANCE NtfyAlert WITH
  cfg <- alertCfg, pc <- alertPc, events <- alertEvents, MaxEvents <- AlertEvents

(* A component that does not run has one of its initial states. *)
ServicesInit ==
  /\ on \in {"files", "recorder", "bridge", "commands", "alert"}
  /\ Init /\ (on # "files" => pc = "off")
  /\ L!Init /\ (on # "recorder" => ~enabled)
  /\ B!Init /\ (on # "bridge" => broker)
  /\ N!Init /\ ntfyCfg.topic = "a"
  /\ A!Init /\ (on # "alert" => ~alertCfg.alerts /\ world.server)

ServicesNext ==
  \/ on = "files" /\ Next /\ UNCHANGED <<on, lv, bv, nv, av>>
  \/ on = "recorder" /\ L!Next /\ UNCHANGED <<on, vars, bv, nv, av>>
  \/ on = "bridge" /\ B!Next /\ UNCHANGED <<on, vars, lv, nv, av>>
  \/ on = "commands" /\ N!Next /\ UNCHANGED <<on, vars, lv, bv, av>>
  \/ on = "alert" /\ A!Next /\ UNCHANGED <<on, vars, lv, bv, nv>>

(* The fairness of each component, while it runs. *)
Fair ==
  /\ WF_lv(on = "recorder" /\ L!WriterStep) /\ WF_lv(on = "recorder" /\ L!PeriodicSync)
  /\ WF_lv(on = "recorder" /\ L!SendPoison) /\ WF_lv(on = "recorder" /\ L!StopWait)
  /\ WF_lv(on = "recorder" /\ L!DeleteQueue)
  /\ WF_bv(on = "bridge" /\ B!Manager) /\ WF_bv(on = "bridge" /\ B!Client)
  /\ WF_bv(on = "bridge" /\ B!Tick) /\ WF_bv(on = "bridge" /\ B!Notice)
  /\ WF_nv(on = "commands" /\ N!Task) /\ WF_nv(on = "commands" /\ N!Httpd)
  /\ SF_nv(on = "commands" /\ N!Answered)
  /\ WF_av(on = "alert" /\ (A!Tick \/ A!Read)) /\ WF_av(on = "alert" /\ A!Alert)
  /\ SF_av(on = "alert" /\ A!Alert /\ lastOk')

ServicesSpec ==
  ServicesInit /\ [][ServicesNext]_<<on, vars, lv, bv, nv, av>> /\ Fair

-----------------------------------------------------------------------------
(* The properties of the components that are instances here: the          *)
(* recorder's calls and the lines it is given,                            *)
CallsKeepWord == L!CallsKeepWord
LinesSettle == L!LinesSettle
(* the bridge over outages and reconnects of the broker,                  *)
OnceEach == B!OnceEach
BrokerFollows == B!BrokerFollows
(* and ntfy's commands and alerts.                                        *)
NoReplay == N!NoReplay
ReachesTheLast == N!ReachesTheLast
OncePerOutage == A!OncePerOutage
OutageReported == A!OutageReported
=============================================================================
