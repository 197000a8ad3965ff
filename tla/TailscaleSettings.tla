------------------------- MODULE TailscaleSettings --------------------------
(* The exit-node settings of the tailnet and who changes them: the web     *)
(* UI's save (main/web_ui.c) on httpd's task, the MQTT commands            *)
(* (main/mqtt_integration.c) on the client's task, the reconnect they      *)
(* start, and the load at boot (main/tailscale_manager.c). adv stands for  *)
(* the switches that both may set, exit for the exit node, 0 when none.    *)
EXTENDS Integers

CONSTANTS
  Exits,       \* exit nodes that may be selected
  Sizes,       \* fixed MTUs
  MaxChanges,  \* bound: saves, commands and resets
  NvsMayFail

VARIABLES
  ram, nvs,    \* the tailscale_* globals and their NVS keys: [adv, exit, mtu]
  http,        \* tailscale_save_handler: [pc, adv, exit, mtu], sets of at most one value
  errs, reply, \* s_save_err.count; the last answer: none, ok, failed
  mq,          \* handle_command: [pc, on]
  pending, rc, \* s_tailscale_reconnect_pending; the reconnect task: [pc, adv]
  registered,  \* the advertisement that the control plane was given
  changes,
  overlapped, missed, saved  \* history: see the properties

web  == <<http, errs, reply>>
task == <<pending, rc, registered>>
hist == <<overlapped, missed, saved>>
vars == <<ram, nvs, web, mq, task, changes, hist>>

Optional(S) == {{}} \cup {{x} : x \in S}
Given(S, old) == IF S = {} THEN old ELSE CHOOSE x \in S : TRUE
Rest == [pc |-> "idle", adv |-> {}, exit |-> {}, mtu |-> {}]
Done == [pc |-> "idle", adv |-> FALSE]

Init ==
  /\ nvs = [adv |-> FALSE, exit |-> 0, mtu |-> 0] /\ ram = nvs
  /\ http = Rest /\ errs = 0 /\ reply = "none" /\ mq = [pc |-> "idle", on |-> FALSE]
  /\ pending = FALSE /\ rc = Done /\ registered = FALSE
  /\ changes = 0 /\ overlapped = FALSE /\ missed = FALSE /\ saved = FALSE

Change == changes < MaxChanges /\ changes' = changes + 1
Outcome == IF NvsMayFail THEN {TRUE, FALSE} ELSE {TRUE}

-----------------------------------------------------------------------------
(* tailscale_save_handler. A request that leaves both modes on is refused  *)
(* before anything is written.                                             *)
Both(adv, exit) == Given(adv, ram.adv) /\ Given(exit, ram.exit) # 0

Save(adv, exit, mtu) ==
  /\ http.pc = "idle" /\ Change /\ ~Both(adv, exit)
  /\ http' = [pc |-> "mirror", adv |-> adv, exit |-> exit, mtu |-> mtu]
  /\ errs' = 0 /\ reply' = "none"
  /\ overlapped' = (overlapped \/ mq.pc # "idle")
  /\ UNCHANGED <<ram, nvs, mq, task, missed, saved>>

Go(from, to) == http.pc = from /\ http' = [http EXCEPT !.pc = to]

(* The switches are mirrored to RAM at once ... *)
Mirror ==
  /\ Go("mirror", "adv") /\ ram' = [ram EXCEPT !.adv = Given(http.adv, ram.adv)]
  /\ saved' = (saved \/ http.adv # {})
  /\ UNCHANGED <<nvs, errs, reply, mq, task, changes, overlapped, missed>>

(* ... and then each setting is stored; nvs_save_int counts a failure.     *)
Errors(ok) == IF ok THEN errs ELSE errs + 1

StoreAdv ==
  /\ Go("adv", "exit")
  /\ \E ok \in Outcome :
       /\ nvs' = IF ok THEN [nvs EXCEPT !.adv = Given(http.adv, @)] ELSE nvs
       /\ errs' = IF http.adv = {} THEN errs ELSE Errors(ok)
  /\ UNCHANGED <<ram, reply, mq, task, changes, hist>>

StoreExit ==
  /\ Go("exit", "mirrorExit")
  /\ \E ok \in Outcome :
       /\ nvs' = IF ok THEN [nvs EXCEPT !.exit = Given(http.exit, @)] ELSE nvs
       /\ errs' = IF http.exit = {} THEN errs ELSE Errors(ok)
  /\ UNCHANGED <<ram, reply, mq, task, changes, hist>>

MirrorExit ==
  /\ Go("mirrorExit", "mtu") /\ ram' = [ram EXCEPT !.exit = Given(http.exit, @)]
  /\ UNCHANGED <<nvs, errs, reply, mq, task, changes, hist>>

(* tailscale_mtu_set stores without looking at the result. *)
SetMtu ==
  /\ Go("mtu", "answer") /\ ram' = [ram EXCEPT !.mtu = Given(http.mtu, @)]
  /\ \E ok \in Outcome : nvs' = IF ok THEN [nvs EXCEPT !.mtu = ram'.mtu] ELSE nvs
  /\ UNCHANGED <<errs, reply, mq, task, changes, hist>>

Answer ==
  /\ Go("answer", "idle")
  /\ reply' = IF errs = 0 THEN "ok" ELSE "failed"
  /\ UNCHANGED <<ram, nvs, errs, mq, task, changes, hist>>

-----------------------------------------------------------------------------
(* handle_command, "advertise_exit_node". *)
Allowed_Always(on) == TRUE
Allowed(on) == on => ram.exit = 0

Command(on) ==
  /\ mq.pc = "idle" /\ Change /\ Allowed(on)
  /\ mq' = [pc |-> "store", on |-> on]
  /\ overlapped' = (overlapped \/ http.pc # "idle")
  /\ UNCHANGED <<ram, nvs, web, task, missed, saved>>

(* set_tailscale_flag: RAM follows only a write that succeeded. *)
CommandStore ==
  /\ mq.pc = "store"
  /\ \E ok \in Outcome :
       /\ nvs' = IF ok THEN [nvs EXCEPT !.adv = mq.on] ELSE nvs
       /\ mq' = [mq EXCEPT !.pc = IF ok THEN "apply" ELSE "kick"]
  /\ UNCHANGED <<ram, web, task, changes, hist>>

CommandApply ==
  /\ mq.pc = "apply" /\ ram' = [ram EXCEPT !.adv = mq.on] /\ mq' = [mq EXCEPT !.pc = "kick"]
  /\ UNCHANGED <<nvs, web, task, changes, hist>>

(* A reconnect is started unless one is pending; the task may not start.   *)
Kick ==
  /\ mq.pc = "kick" /\ mq' = [mq EXCEPT !.pc = "idle"]
  /\ \/ ~pending /\ pending' = TRUE /\ rc' = [rc EXCEPT !.pc = "down"] /\ UNCHANGED missed
     \/ missed' = TRUE /\ UNCHANGED <<pending, rc>>
  /\ UNCHANGED <<ram, nvs, web, registered, changes, overlapped, saved>>

(* reconnect_tailscale_task: the routes are put together, with the default *)
(* routes of an exit node, and registered after that.                      *)
Captured == ram.adv

Build ==
  /\ rc.pc = "down" /\ rc' = [pc |-> "up", adv |-> Captured]
  /\ missed' = FALSE /\ saved' = FALSE
  /\ UNCHANGED <<ram, nvs, web, mq, pending, registered, changes, overlapped>>

Register ==
  /\ rc.pc = "up" /\ rc' = Done /\ registered' = rc.adv /\ pending' = FALSE
  /\ UNCHANGED <<ram, nvs, web, mq, changes, hist>>

-----------------------------------------------------------------------------
Loaded == IF nvs.adv /\ nvs.exit # 0 THEN [nvs EXCEPT !.adv = FALSE] ELSE nvs

Boot ==
  /\ Change /\ ram' = Loaded
  /\ \E ok \in Outcome : nvs' = IF ok THEN Loaded ELSE nvs
  /\ http' = Rest /\ errs' = 0 /\ reply' = "none" /\ mq' = [pc |-> "idle", on |-> FALSE]
  /\ pending' = FALSE /\ rc' = Done /\ registered' = ram'.adv
  /\ overlapped' = FALSE /\ missed' = FALSE /\ saved' = FALSE

Next ==
  \/ \E a \in Optional(BOOLEAN), e \in Optional({0} \cup Exits), m \in Optional(Sizes) : Save(a, e, m)
  \/ Mirror \/ StoreAdv \/ StoreExit \/ MirrorExit \/ SetMtu \/ Answer
  \/ \E on \in BOOLEAN : Command(on)
  \/ CommandStore \/ CommandApply \/ Kick \/ Build \/ Register \/ Boot

Spec == Init /\ [][Next]_vars

-----------------------------------------------------------------------------
(* The router does not advertise itself as an exit node while it uses      *)
(* another one, whatever order saves, commands, failed writes and resets   *)
(* come in, unless a save and a command ran at the same time since boot.   *)
(* During a save RAM holds the one mode before it holds the other.         *)
OneMode == ~overlapped /\ http.pc = "idle" => ~(ram.adv /\ ram.exit # 0)

(* What a save that answered ok was asked to change is in NVS as it runs,  *)
(* so the next boot finds it, unless a command ran at the same time.       *)
OkMeansSaved ==
  reply = "ok" /\ ~overlapped /\ mq.pc = "idle" =>
    /\ http.adv # {} => nvs.adv = ram.adv
    /\ http.exit # {} => nvs.exit = ram.exit

(* What the control plane was told is the switch as it is, once the        *)
(* commands have run out: unless a save changed it, which asks for a       *)
(* restart, or a command came while a reconnect was on its way.            *)
AdvertRegistered ==
  mq.pc = "idle" /\ rc.pc = "idle" /\ ~missed /\ ~saved => registered = ram.adv

(* The settings of the tailnet are what the operator, the next boot and   *)
(* the control plane were told, and of the two exit-node modes one at     *)
(* most.                                                                  *)
SettingsHold == OneMode /\ OkMeansSaved /\ AdvertRegistered
=============================================================================
