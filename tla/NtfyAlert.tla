----------------------------- MODULE NtfyAlert ------------------------------
(* The outage alert (main/ntfy_integration.c, task_main): one turn of the  *)
(* task's loop a second. An alert is published when the tunnel has been    *)
(* down for the delay, tried again later when that failed, and given once  *)
(* per outage. Whether it was given is read from s_status.last_publish_ok, *)
(* which every publisher writes, httpd's test message included.            *)
EXTENDS Naturals

CONSTANTS
  Delay,      \* failure_delay_seconds, in turns
  RetryAfter, \* turns until an alert is tried again, 60 in the code
  MaxEvents   \* bound: changes of the world and of the configuration

VARIABLES
  cfg,        \* [enabled, alerts]
  world,      \* [uplink, tunnel, server]: which of them work
  pc,         \* the task: idle, publish, between (the publisher has left its result), info
  down, retry, alerted,  \* task_main's locals
  lastOk,     \* s_status.last_publish_ok
  given,      \* history: alerts published in this outage
  mixed,      \* history: in this outage another result came in between, or no
              \* memory was left and the task read an older result
  events

vars == <<cfg, world, pc, down, retry, alerted, lastOk, given, mixed, events>>
locals == <<down, retry, alerted>>
history == <<given, mixed>>

Init ==
  /\ cfg \in [enabled : {TRUE}, alerts : BOOLEAN]
  /\ world \in [uplink : {TRUE}, tunnel : {FALSE}, server : BOOLEAN]
  /\ pc = "idle" /\ down = 0 /\ retry = 0 /\ alerted = FALSE /\ lastOk = FALSE
  /\ given = 0 /\ mixed = FALSE /\ events = 0

Uplink == world.uplink
Down == Uplink /\ ~world.tunnel

-----------------------------------------------------------------------------
(* The head of a turn: without an uplink everything starts over.           *)
Reset ==
  /\ ~cfg.enabled \/ ~Uplink
  /\ down' = 0 /\ retry' = 0 /\ alerted' = FALSE /\ given' = 0 /\ mixed' = FALSE
  /\ UNCHANGED pc

Due(d, r) == cfg.alerts /\ Down /\ d >= Delay /\ ~alerted /\ r = 0

Waited_Stuck == retry
Waited == IF retry > 0 THEN retry - 1 ELSE 0

Count ==
  LET d == IF down < Delay THEN down + 1 ELSE Delay
  IN  /\ cfg.enabled /\ Uplink
      /\ retry' = Waited
      /\ \/ /\ Down /\ down' = d
            /\ pc' = IF Due(d, Waited) THEN "publish" ELSE pc
            /\ UNCHANGED <<alerted, given, mixed>>
         \/ /\ ~Down /\ down' = 0 /\ alerted' = FALSE
            /\ given' = 0 /\ mixed' = FALSE /\ UNCHANGED pc

Tick == pc = "idle" /\ (Reset \/ Count) /\ UNCHANGED <<cfg, world, lastOk, events>>

(* publish_message, to its result: it needs the uplink and the server.     *)
Posted(ok) == (ok => Uplink /\ world.server) /\ lastOk' = ok

Alert ==
  /\ pc = "publish" /\ pc' = "between"
  /\ \E ok \in BOOLEAN : Posted(ok) /\ given' = IF ok THEN given + 1 ELSE given
  /\ UNCHANGED <<cfg, world, locals, mixed, events>>

NoMemory ==
  /\ pc = "publish" /\ pc' = "between" /\ mixed' = TRUE
  /\ UNCHANGED <<cfg, world, locals, lastOk, given, events>>

Latched_Always == TRUE
Latched == lastOk
Retry == IF Latched THEN retry ELSE RetryAfter

Read ==
  /\ pc = "between" /\ pc' = "idle" /\ alerted' = Latched /\ retry' = Retry
  /\ UNCHANGED <<cfg, world, down, lastOk, history, events>>

-----------------------------------------------------------------------------
(* httpd publishes its test message in its own task.                       *)
Event == events < MaxEvents /\ events' = events + 1

Test ==
  /\ Event /\ cfg.enabled /\ \E ok \in BOOLEAN : Posted(ok)
  /\ mixed' = (mixed \/ pc = "between")
  /\ UNCHANGED <<cfg, world, pc, locals, given>>

(* The answer to info, in parts: the last one leaves its result.           *)
Info ==
  /\ Event /\ pc = "idle" /\ cfg.enabled /\ \E ok \in BOOLEAN : Posted(ok)
  /\ UNCHANGED <<cfg, world, pc, locals, history>>

Configure ==
  /\ Event /\ \E c \in [enabled : BOOLEAN, alerts : BOOLEAN] : c # cfg /\ cfg' = c
  /\ UNCHANGED <<world, pc, locals, lastOk, history>>

World ==
  /\ Event /\ \E w \in {"uplink", "tunnel", "server"} : world' = [world EXCEPT ![w] = ~@]
  /\ UNCHANGED <<cfg, pc, locals, lastOk, history>>

Next == Tick \/ Alert \/ NoMemory \/ Read \/ Test \/ Info \/ Configure \/ World

(* The task runs; a server that works answers one of many attempts.        *)
Spec ==
  /\ Init /\ [][Next]_vars /\ WF_vars(Tick \/ Read) /\ WF_vars(Alert)
  /\ SF_vars(Alert /\ lastOk')

-----------------------------------------------------------------------------
(* One alert for an outage, and the task is done with it when it was given *)
(* and not before: unless another publisher's result came in between.      *)
OncePerOutage ==
  ~mixed => /\ given <= 1
            /\ pc = "idle" => (alerted <=> given = 1)

(* An outage that lasts while alerts are on and the server works is        *)
(* settled: the attempts that fail are made again until one is given.      *)
OutageReported ==
  <>[](cfg.enabled /\ cfg.alerts /\ Down /\ world.server) => <>[]alerted
=============================================================================
