------------------------------ MODULE FourVia6 ------------------------------
(* 4via6 translation (main/fourvia6.c): the settings, kept in three NVS    *)
(* keys and edited by httpd and the MQTT task, and the flow table by which *)
(* the tunnel's task turns packets to the site into IPv4 and lwIP's thread *)
(* turns the LAN's replies back. A conversation is [client, key]: the key  *)
(* stands for what a reply shows of it, the peer's IPv4 address, the       *)
(* target, the protocol and the ports. Checksums and headers are left out. *)
EXTENDS Naturals, FiniteSets

CONSTANTS
  Conversations,  \* set of [client, key], keys from 1
  Sites, Lans,    \* site ids; subnets, each the set of keys with a target in it
  Flows,          \* FOURVIA6_FLOW_COUNT
  Timeout,        \* ticks after which a flow is no longer valid
  Tasks, MaxChanges

VARIABLES
  nvs, ram,       \* ts_4v6_en, ts_4v6_lan, ts_4v6_site and what is in force
  setter,         \* where each task is in fourvia6_set_config
  flows,          \* s_flows
  input, output,  \* the packet in each direction's translation
  asked,          \* history: <<client, key, site>> of the packets let in
  astray,         \* history: a reply left for a client that had not asked it
  raced,          \* history: settings were replaced under a translation or an edit
  spared,         \* history: ticks by which the flow displaced last was not the oldest
  changes

vars == <<nvs, ram, setter, flows, input, output, asked, astray, raced, spared, changes>>

Settings == [on : BOOLEAN, lan : Lans, site : Sites]
None == [client |-> "none", key |-> 0]
Free == [conv |-> None, age |-> 0]
Slots == 1..Flows
Used(table) == {i \in Slots : table[i] # Free}
Idle == [pc |-> "idle", want |-> {}, got |-> {}]

Init ==
  /\ ram \in [on : {TRUE}, lan : Lans, site : Sites] /\ nvs = ram
  /\ setter = [t \in Tasks |-> Idle]
  /\ flows = [i \in Slots |-> Free]
  /\ input = None /\ output = None
  /\ asked = {} /\ astray = FALSE /\ raced = FALSE /\ spared = 0 /\ changes = 0

-----------------------------------------------------------------------------
(* fourvia6_set_config: a write that fails ends it, then fourvia6_init     *)
(* reads the keys back and replaces settings and flows under the lock.     *)
Begin(t) ==
  /\ setter[t].pc = "idle" /\ changes < MaxChanges
  /\ \E c \in Settings :
       /\ t = "mqtt" => c = [ram EXCEPT !.on = ~ram.on]
       /\ setter' = [setter EXCEPT ![t] = [pc |-> "on", want |-> {c}, got |-> {}]]
  /\ raced' = (raced \/ \E u \in Tasks : setter[u].pc # "idle")
  /\ changes' = changes + 1
  /\ UNCHANGED <<nvs, ram, flows, input, output, asked, astray, spared>>

Only(S) == CHOOSE x \in S : TRUE
After == [on |-> "lan", lan |-> "site", site |-> "load"]

Store(t) ==
  /\ setter[t].pc \in {"on", "lan", "site"}
  /\ LET k == setter[t].pc IN
     \/ /\ nvs' = [nvs EXCEPT ![k] = Only(setter[t].want)[k]]
        /\ setter' = [setter EXCEPT ![t].pc = After[k]]
     \/ setter' = [setter EXCEPT ![t] = Idle] /\ UNCHANGED nvs
  /\ UNCHANGED <<ram, flows, input, output, asked, astray, raced, spared, changes>>

Load(t) ==
  /\ setter[t].pc = "load"
  /\ setter' = [setter EXCEPT ![t] = [pc |-> "swap", want |-> {}, got |-> {nvs}]]
  /\ UNCHANGED <<nvs, ram, flows, input, output, asked, astray, raced, spared, changes>>

Emptied_Kept == flows
Emptied == [i \in Slots |-> Free]

Swap(t) ==
  /\ setter[t].pc = "swap"
  /\ ram' = Only(setter[t].got) /\ flows' = Emptied
  /\ setter' = [setter EXCEPT ![t] = Idle]
  /\ raced' = (raced \/ input # None \/ output # None)
  /\ UNCHANGED <<nvs, input, output, asked, astray, spared, changes>>

-----------------------------------------------------------------------------
(* fourvia6_translate_wg_input, to the point where the packet is built:    *)
(* the settings are read without the lock.                                 *)
Accept(c, site) ==
  /\ input = None
  /\ ram.on /\ site = ram.site /\ c.key \in ram.lan
  /\ input' = c
  /\ asked' = asked \cup {<<c.client, c.key, site>>}
  /\ UNCHANGED <<nvs, ram, setter, flows, output, astray, raced, spared, changes>>

(* flow_remember: the conversation's own slot, else the last free one, and *)
(* in a full table the first: once slot is set nothing is older.           *)
Largest(S) == CHOOSE i \in S : \A j \in S : j <= i
Place(c) ==
  LET own == {i \in Used(flows) : flows[i].conv = c}
      free == Slots \ Used(flows)
  IN  IF own # {} THEN CHOOSE i \in own : \A j \in own : i <= j
      ELSE IF free # {} THEN Largest(free) ELSE 1

Remember ==
  /\ input # None
  /\ LET i == Place(input) IN
     /\ flows' = [flows EXCEPT ![i] = [conv |-> input, age |-> 0]]
     /\ spared' = IF flows[i] = Free \/ flows[i].conv = input THEN 0
                  ELSE Largest({flows[j].age : j \in Slots}) - flows[i].age
  /\ input' = None
  /\ UNCHANGED <<nvs, ram, setter, output, asked, astray, raced, changes>>

(* No memory for the packet, or one that is too short. *)
Drop ==
  /\ \/ input # None /\ input' = None /\ UNCHANGED output
     \/ output # None /\ output' = None /\ UNCHANGED input
  /\ UNCHANGED <<nvs, ram, setter, flows, asked, astray, raced, spared, changes>>

(* flow_lookup: flows that timed out are freed on the way to the match.    *)
Late(f) == f.age > Timeout
Hits(k) == {i \in Used(flows) : ~Late(flows[i]) /\ flows[i].conv.key = k}
Swept(n) == [i \in Slots |-> IF i < n /\ Late(flows[i]) THEN Free ELSE flows[i]]

Lookup(k) ==
  /\ output = None /\ ram.on
  /\ IF Hits(k) = {} THEN flows' = Swept(Flows + 1) /\ output' = None
     ELSE LET n == CHOOSE i \in Hits(k) : \A j \in Hits(k) : i <= j IN
          /\ flows' = [Swept(n) EXCEPT ![n].age = 0]
          /\ output' = flows[n].conv
  /\ UNCHANGED <<nvs, ram, setter, input, asked, astray, raced, spared, changes>>

(* fourvia6_translate_wg_output: the source address has the site of now.   *)
Translate ==
  /\ output # None
  /\ output' = None /\ astray' = (astray \/ <<output.client, output.key, ram.site>> \notin asked)
  /\ UNCHANGED <<nvs, ram, setter, flows, input, asked, raced, spared, changes>>

Older(f) == IF f = Free \/ Late(f) THEN f ELSE [f EXCEPT !.age = @ + 1]

Tick ==
  /\ flows' = [i \in Slots |-> Older(flows[i])]
  /\ UNCHANGED <<nvs, ram, setter, input, output, asked, astray, raced, spared, changes>>

Next ==
  \/ \E t \in Tasks : Begin(t) \/ Store(t) \/ Load(t) \/ Swap(t)
  \/ \E c \in Conversations, s \in Sites : Accept(c, s)
  \/ Remember \/ Drop \/ Translate \/ Tick
  \/ \E c \in Conversations : Lookup(c.key)

Spec == Init /\ [][Next]_vars

-----------------------------------------------------------------------------
(* A reply leaves for a client that wrote under the same key, and from the *)
(* address that this client wrote to: flows do not outlive the settings    *)
(* they were made under. Settings replaced in the middle of a translation, *)
(* which holds no lock, are excepted.                                      *)
RepliesAsked == ~raced => ~astray

(* A conversation has one flow, however it comes and goes: two would age   *)
(* apart and use up the table.                                             *)
OneFlowEach ==
  \A i, j \in Used(flows) : flows[i].conv = flows[j].conv => i = j

(* "A small flow table translates the corresponding IPv4 replies back to   *)
(* IPv6": when it is full, the flow that gives way to a new one is the one *)
(* not used for longest ("oldest" in flow_remember).                       *)
OldestGivesWay == spared = 0

(* The flow table keeps one flow for each conversation, and only flows    *)
(* that were made under the settings in force answer.                     *)
FlowsTrue == RepliesAsked /\ OneFlowEach
=============================================================================
