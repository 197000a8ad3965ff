----------------------------- MODULE Forwarding -----------------------------
(* The port map (main/portmap.c) and the LAN-to-tailnet forwarder          *)
(* (main/tailnet_forward.c) over lwIP's one port-map table: two tables     *)
(* edited by httpd and the MQTT task, a manager that resolves every three  *)
(* seconds, and the callback that rebuilds lwIP's table on its own thread. *)
(* A port stands for protocol and port; a mapping of the port map leads to *)
(* the LAN, one of a rule to the tailnet address the rule resolved to.     *)
EXTENDS Integers, Sequences, FiniteSets

CONSTANTS
  Ports, WebPort,   \* listen ports; the one of the web UI
  Addrs,            \* tailnet addresses
  MaxRules,         \* TAILNET_FORWARD_MAX
  TableSize,        \* entries of lwIP's table
  Tasks,            \* tasks that edit the tables: httpd, the MQTT bridge
  MaxStimuli        \* bound: edits, reboots and changes of the network

VARIABLES
  pm, pmNvs,        \* portmap.c: s_table and its NVS blob, as sets of ports
  rules, rulesNvs,  \* tailnet_forward.c: s_rules: Seq([port, on]) and its blob
  rt,               \* s_runtime: Seq([addr, installed])
  lwip, installed,  \* lwIP's table: port -> destination; s_installed
  task,             \* per task: [pc, pm, rules], its location and new table
  mgr, addr,        \* manager's location; what the destination resolves to
  cb, queued,       \* install callback: [pc, i, ok]; callbacks posted
  sta, gotIp,       \* the STA has an address; its event is to be handled
  stimuli, raced, failed  \* history: edits overlapped; an NVS write failed

tables == <<pm, pmNvs, rules, rulesNvs, rt>>
net    == <<addr, sta, gotIp>>
hist   == <<stimuli, raced, failed>>
vars == <<tables, lwip, installed, task, mgr, cb, queued, net, hist>>

Rule == [port : Ports, on : BOOLEAN]
Tables(n) == UNION {[1..k -> Rule] : k \in 0..n}
Unresolved == [addr |-> "none", installed |-> FALSE]
Idle == [pc |-> "idle", pm |-> {}, rules |-> <<>>]
Waiting == [pc |-> "idle", i |-> 0, ok |-> FALSE]

Init ==
  /\ pm = {} /\ pmNvs = {} /\ rules = <<>> /\ rulesNvs = <<>> /\ rt = <<>>
  /\ lwip = [p \in Ports |-> "none"] /\ installed = {}
  /\ task = [t \in Tasks |-> Idle]
  /\ mgr = "sleep" /\ addr \in {"none"} \cup Addrs /\ cb = Waiting /\ queued = 0
  /\ sta \in BOOLEAN /\ gotIp = FALSE
  /\ stimuli = 0 /\ raced = FALSE /\ failed = FALSE

Stimulus == stimuli < MaxStimuli /\ stimuli' = stimuli + 1

-----------------------------------------------------------------------------
EnabledPorts(rs) == {rs[i].port : i \in {k \in DOMAIN rs : rs[k].on}}

(* portmap_listen_conflicts, tailnet_forward_listen_conflicts: what each   *)
(* table asks of the other before it is replaced.                          *)
PortmapFree(rs) == EnabledPorts(rs) \cap pm = {}
ForwardFree(S) == EnabledPorts(rules) \cap S = {}

(* No two enabled rules on a port, none on the web UI's. *)
SoundRules(rs) ==
  /\ WebPort \notin EnabledPorts(rs)
  /\ \A i, j \in DOMAIN rs :
       i # j /\ rs[i].on /\ rs[j].on => rs[i].port # rs[j].port

(* portmap_set_all and tailnet_forward_set_all up to their return on a     *)
(* conflict, which changes nothing.                                        *)
Begin(t, next) ==
  /\ task' = [task EXCEPT ![t] = next]
  /\ raced' = (raced \/ \E u \in Tasks \ {t} : task[u].pc # "idle")
  /\ Stimulus
  /\ UNCHANGED <<tables, lwip, installed, mgr, cb, queued, net, failed>>

SetPortmap(t, S) ==
  /\ task[t].pc = "idle" /\ ForwardFree(S) /\ WebPort \notin S
  /\ Begin(t, [Idle EXCEPT !.pc = "pmClear", !.pm = S])

SetRules(t, rs) ==
  /\ task[t].pc = "idle" /\ SoundRules(rs) /\ PortmapFree(rs)
  /\ Begin(t, [Idle EXCEPT !.pc = "tnStore", !.rules = rs])

(* tailnet_forward_set_enabled copies the table, then calls set_all. *)
CopyRules(t, i) ==
  /\ task[t].pc = "idle" /\ i \in DOMAIN rules
  /\ \E on \in BOOLEAN :
       Begin(t, [Idle EXCEPT !.pc = "tnCheck", !.rules = [rules EXCEPT ![i].on = on]])

CheckCopy(t) ==
  /\ task[t].pc = "tnCheck"
  /\ task' = IF SoundRules(task[t].rules) /\ PortmapFree(task[t].rules)
             THEN [task EXCEPT ![t].pc = "tnStore"] ELSE [task EXCEPT ![t] = Idle]
  /\ UNCHANGED <<tables, lwip, installed, mgr, cb, queued, net, hist>>

(* portmap_set_all: the table is emptied, then filled, without a lock;     *)
(* NVS comes last, and lwIP is left alone when it fails.                   *)
ClearPortmap(t) ==
  /\ task[t].pc = "pmClear"
  /\ pm' = {} /\ task' = [task EXCEPT ![t].pc = "pmFill"]
  /\ UNCHANGED <<pmNvs, rules, rulesNvs, rt, lwip, installed, mgr, cb, queued, net, hist>>

FillPortmap(t) ==
  /\ task[t].pc = "pmFill"
  /\ pm' = task[t].pm /\ task' = [task EXCEPT ![t].pc = "pmStore"]
  /\ UNCHANGED <<pmNvs, rules, rulesNvs, rt, lwip, installed, mgr, cb, queued, net, hist>>

StorePortmap(t) ==
  /\ task[t].pc = "pmStore"
  /\ \/ /\ pmNvs' = pm /\ task' = [task EXCEPT ![t].pc = "install"]
        /\ UNCHANGED failed
     \/ /\ failed' = TRUE /\ task' = [task EXCEPT ![t] = Idle]
        /\ UNCHANGED pmNvs
  /\ UNCHANGED <<pm, rules, rulesNvs, rt, lwip, installed, mgr, cb, queued, net, stimuli, raced>>

(* tailnet_forward_set_all: NVS first, and nothing else when it fails. *)
StoreRules(t) ==
  /\ task[t].pc = "tnStore"
  /\ \/ /\ rulesNvs' = task[t].rules /\ task' = [task EXCEPT ![t].pc = "tnLock"]
        /\ UNCHANGED failed
     \/ /\ failed' = TRUE /\ task' = [task EXCEPT ![t] = Idle]
        /\ UNCHANGED rulesNvs
  /\ UNCHANGED <<pm, pmNvs, rules, rt, lwip, installed, mgr, cb, queued, net, stimuli, raced>>

(* resolve_rule: a rule stays installed only while its address stands. *)
Resolved(r, old) ==
  LET a == IF r.on THEN addr ELSE "none"
  IN  [addr |-> a, installed |-> a # "none" /\ a = old.addr /\ old.installed]

LockRules(t) ==
  /\ task[t].pc = "tnLock"
  /\ rules' = task[t].rules
  /\ rt' = [i \in DOMAIN rules' |-> Resolved(rules'[i], Unresolved)]
  /\ task' = [task EXCEPT ![t].pc = "install"]
  /\ UNCHANGED <<pm, pmNvs, rulesNvs, lwip, installed, mgr, cb, queued, net, hist>>

(* portmap_install_all posts the callback to lwIP's thread. *)
Install(t) ==
  /\ task[t].pc = "install"
  /\ task' = [task EXCEPT ![t] = Idle] /\ queued' = queued + 1
  /\ UNCHANGED <<tables, lwip, installed, mgr, cb, net, hist>>

-----------------------------------------------------------------------------
(* manager: every rule resolved under the lock, then the table rebuilt if  *)
(* an address changed.                                                     *)
ManagerChanged_Never(new) == FALSE
ManagerChanged(new) == \E i \in DOMAIN rt : new[i].addr # rt[i].addr

ManagerResolve ==
  /\ mgr = "sleep"
  /\ rt' = [i \in DOMAIN rt |-> Resolved(rules[i], rt[i])]
  /\ mgr' = IF ManagerChanged(rt') THEN "install" ELSE "sleep"
  /\ UNCHANGED <<pm, pmNvs, rules, rulesNvs, lwip, installed, task, cb, queued, net, hist>>

ManagerInstall ==
  /\ mgr = "install" /\ mgr' = "sleep" /\ queued' = queued + 1
  /\ UNCHANGED <<tables, lwip, installed, task, cb, net, hist>>

(* lwIP replaces an entry of the same port or takes a free one. *)
Room(table, p) ==
  table[p] # "none" \/ Cardinality({q \in Ports : table[q] # "none"}) < TableSize

Fill(table, S) ==
  CHOOSE new \in [Ports -> {"none", "lan"} \cup Addrs] :
    /\ \A q \in Ports \ S : new[q] = table[q]
    /\ \A q \in S : new[q] \in {"lan", table[q]}
    /\ Cardinality({q \in S : new[q] = "lan"}) =
         LET free == TableSize - Cardinality({q \in Ports : table[q] # "none"})
         IN  IF Cardinality(S) <= free THEN Cardinality(S) ELSE free

Removed(table) == [p \in Ports |-> IF p \in installed THEN "none" ELSE table[p]]

(* portmap_install_cb: without an address it gives up; otherwise what it   *)
(* installed last time is removed, every rule is marked not installed and  *)
(* the port map's entries are added.                                       *)
CbBegin ==
  /\ cb.pc = "idle" /\ queued > 0 /\ queued' = queued - 1
  /\ IF ~sta
     THEN UNCHANGED <<lwip, installed, rt, cb>>
     ELSE /\ lwip' = Fill(Removed(lwip), pm)
          /\ installed' = {p \in pm : lwip'[p] = "lan"}
          /\ rt' = [i \in DOMAIN rt |-> [rt[i] EXCEPT !.installed = FALSE]]
          /\ cb' = [pc |-> "map", i |-> 1, ok |-> FALSE]
  /\ UNCHANGED <<pm, pmNvs, rules, rulesNvs, task, mgr, net, hist>>

Mapped(i) == i \in DOMAIN rules /\ rules[i].on /\ rt[i].addr # "none"

(* tailnet_forward_get_mapping under the lock, then the entry is added. *)
CbMap ==
  /\ cb.pc = "map"
  /\ IF cb.i > MaxRules
     THEN cb' = Waiting /\ UNCHANGED <<lwip, installed>>
     ELSE IF ~Mapped(cb.i)
     THEN cb' = [cb EXCEPT !.i = @ + 1] /\ UNCHANGED <<lwip, installed>>
     ELSE LET p == rules[cb.i].port  ok == Room(lwip, p) IN
          /\ lwip' = IF ok THEN [lwip EXCEPT ![p] = rt[cb.i].addr] ELSE lwip
          /\ installed' = IF ok THEN installed \cup {p} ELSE installed
          /\ cb' = [cb EXCEPT !.pc = "mark", !.ok = ok]
  /\ UNCHANGED <<tables, task, mgr, queued, net, hist>>

(* tailnet_forward_mark_installed: by index, whatever rule is there now. *)
CbMark ==
  /\ cb.pc = "mark"
  /\ rt' = [i \in DOMAIN rt |->
             IF i = cb.i THEN [rt[i] EXCEPT !.installed = cb.ok] ELSE rt[i]]
  /\ cb' = [pc |-> "map", i |-> cb.i + 1, ok |-> FALSE]
  /\ UNCHANGED <<pm, pmNvs, rules, rulesNvs, lwip, installed, task, mgr, queued, net, hist>>

-----------------------------------------------------------------------------
(* The tailnet comes and goes, or a name gets another address. *)
AddrChange ==
  /\ addr' \in ({"none"} \cup Addrs) \ {addr} /\ Stimulus
  /\ UNCHANGED <<tables, lwip, installed, task, mgr, cb, queued, sta, gotIp, raced, failed>>

StaDown ==
  /\ sta /\ sta' = FALSE /\ Stimulus
  /\ UNCHANGED <<tables, lwip, installed, task, mgr, cb, queued, addr, gotIp, raced, failed>>

StaUp ==
  /\ ~sta /\ sta' = TRUE /\ gotIp' = TRUE /\ Stimulus
  /\ UNCHANGED <<tables, lwip, installed, task, mgr, cb, queued, addr, raced, failed>>

(* The GOT_IP handler rebuilds lwIP's table. *)
GotIp ==
  /\ gotIp /\ gotIp' = FALSE /\ queued' = queued + 1
  /\ UNCHANGED <<tables, lwip, installed, task, mgr, cb, addr, sta, hist>>

(* A reset: tailnet_forward_init and portmap_init load what NVS holds. *)
Boot ==
  /\ Stimulus
  /\ pm' = pmNvs /\ rules' = rulesNvs
  /\ rt' = [i \in DOMAIN rulesNvs |-> Unresolved]
  /\ lwip' = [p \in Ports |-> "none"] /\ installed' = {}
  /\ task' = [t \in Tasks |-> Idle] /\ mgr' = "sleep" /\ addr' = "none"
  /\ cb' = Waiting /\ queued' = 0 /\ sta' = FALSE /\ gotIp' = FALSE
  /\ UNCHANGED <<pmNvs, rulesNvs, raced, failed>>

TaskStep(t) ==
  \/ \E S \in SUBSET Ports : SetPortmap(t, S)
  \/ \E rs \in Tables(MaxRules) : SetRules(t, rs)
  \/ \E i \in 1..MaxRules : CopyRules(t, i)
  \/ CheckCopy(t) \/ ClearPortmap(t) \/ FillPortmap(t) \/ StorePortmap(t)
  \/ StoreRules(t) \/ LockRules(t) \/ Install(t)

Next ==
  \/ \E t \in Tasks : TaskStep(t)
  \/ ManagerResolve \/ ManagerInstall \/ CbBegin \/ CbMap \/ CbMark
  \/ AddrChange \/ StaDown \/ StaUp \/ GotIp \/ Boot

Spec == Init /\ [][Next]_vars

-----------------------------------------------------------------------------
Quiet ==
  /\ \A t \in Tasks : task[t].pc = "idle"
  /\ mgr = "sleep" /\ cb.pc = "idle" /\ queued = 0 /\ ~gotIp

(* tailnet_forward_allow_uplink_packet finds a rule for the port; without  *)
(* one the packet passes unfiltered.                                       *)
Filtered(p) == \E i \in DOMAIN rules : rules[i].on /\ rules[i].port = p

(* Once nobody is editing and no rebuild is under way, what lwIP forwards  *)
(* into the tailnet is what an enabled rule asks for, and the uplink       *)
(* filter lets a rule's packets in only when its mapping is in the table:  *)
(* no rule replaced, switched off or re-resolved during a rebuild leaves a *)
(* mapping that no source check guards.                                    *)
MappingsGuarded ==
  Quiet /\ sta =>
    /\ \A p \in Ports : lwip[p] \in Addrs => Filtered(p)
    /\ \A i \in DOMAIN rt : rt[i].installed => lwip[rules[i].port] = rt[i].addr

(* While edits do not overlap and NVS takes every write, no port is in     *)
(* both tables, neither in RAM nor as the next boot loads them.            *)
NoPortTwice ==
  ~raced /\ ~failed =>
    /\ EnabledPorts(rules) \cap pm = {}
    /\ Quiet => EnabledPorts(rulesNvs) \cap pmNvs = {}

(* The two tables of forwarded ports stay apart, and lwIP's follows them, *)
(* whatever the two tasks that edit them and the manager do in between.   *)
PortsHold == MappingsGuarded /\ NoPortTwice
=============================================================================
