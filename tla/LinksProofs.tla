----------------------------- MODULE LinksProofs -----------------------------
(* Proofs about what MCLinks composes, for all values of the constants:    *)
(* the DNS relay's listener, whose types and published socket are those of *)
(* DnsListener, the remote console, and the tunnel.                        *)
EXTENDS MCLinks, Integers, SequenceTheorems, TLAPS

(* The listener.  The socket is only closed once it is no longer published.*)
Withdrawn == lpc = "close" => ~published

SocketInv == PublishedIsOpen /\ Withdrawn

-----------------------------------------------------------------------------
LEMMA TypeInit == Init => TypeOK
<1> SUFFICES ASSUME Init PROVE TypeOK
  OBVIOUS
<1>1. setter \in [Setters -> [pc : {"idle", "dirty", "nvs"}, on : BOOLEAN]]
  BY DEF Init
<1>2. apply \in [Callers -> {"idle", "choose", "set"}] /\ choice \in [Callers -> {"ap", "uplink"}]
  BY DEF Init
<1>3. enabled \in BOOLEAN /\ nvsEnabled \in BOOLEAN
  BY DEF Init
<1> QED
  BY <1>1, <1>2, <1>3 DEF Init, TypeOK

(* The setters and app_main.                                               *)
LEMMA TypeControl ==
  TypeOK /\ (SetBindAddr \/ BindAddrDirty \/ \E s \in Setters : SetterStep(s)) => TypeOK'
<1>1. ASSUME TypeOK, SetBindAddr PROVE TypeOK'
  BY <1>1 DEF SetBindAddr, switch, socket, dhcp, TypeOK
<1>2. ASSUME TypeOK, BindAddrDirty PROVE TypeOK'
  BY <1>2 DEF BindAddrDirty, switch, socket, dhcp, TypeOK
<1>3. ASSUME TypeOK, NEW s \in Setters, NEW v \in BOOLEAN, SetEnabled(s, v)
      PROVE  TypeOK'
  BY <1>3 DEF SetEnabled, socket, dhcp, TypeOK
<1>4. ASSUME TypeOK, NEW s \in Setters, SetDirty(s)
      PROVE  TypeOK'
  BY <1>4 DEF SetDirty, socket, dhcp, TypeOK
<1>5. ASSUME TypeOK, NEW s \in Setters, StoreEnabled(s)
      PROVE  TypeOK'
  BY <1>5 DEF StoreEnabled, socket, dhcp, TypeOK
<1> QED
  BY <1>1, <1>2, <1>3, <1>4, <1>5 DEF SetterStep

(* softap_set_dns_addr, from whichever task.                               *)
LEMMA TypeApply ==
  ASSUME TypeOK, NEW c \in Callers, StartApply(c) \/ ChooseResolver(c) \/ SetOffer(c)
  PROVE  TypeOK'
<1>1. CASE StartApply(c)
  BY <1>1 DEF StartApply, switch, socket, Callers, TypeOK
<1>2. CASE ChooseResolver(c)
  BY <1>2 DEF ChooseResolver, Resolver, switch, socket, TypeOK
<1>3. CASE SetOffer(c)
  BY <1>3 DEF SetOffer, switch, socket, TypeOK
<1> QED
  BY <1>1, <1>2, <1>3

(* listener_task itself.                                                   *)
LEMMA TypeListener ==
  TypeOK /\ (ReadWant \/ Decide \/ CloseSocket \/ Closed \/ OpenSocket
                \/ OpenFails \/ Opened \/ Notify \/ Serve)
    => TypeOK'
<1>1. ASSUME TypeOK, ReadWant PROVE TypeOK'
  <2>1. want' \in BOOLEAN /\ lpc' = "decide" /\ UNCHANGED <<switch, bindSet, dirty, socket, boot, dhcp>>
    BY <1>1 DEF ReadWant
  <2>2. UNCHANGED <<enabled, nvsEnabled, setter>>
    BY <2>1 DEF switch
  <2>3. UNCHANGED <<sock, published, healthy>>
    BY <2>1 DEF socket
  <2>4. UNCHANGED <<apply, choice, offered>>
    BY <2>1 DEF dhcp
  <2> QED
    BY <1>1, <2>1, <2>2, <2>3, <2>4 DEF TypeOK
<1>2. ASSUME TypeOK, Decide PROVE TypeOK'
  <2>1. /\ published' \in BOOLEAN /\ lpc' \in {"close", "open", "closed", "notify", "serve"}
        /\ UNCHANGED <<switch, bindSet, dirty, sock, healthy, want, boot, dhcp>>
    BY <1>2 DEF Decide, Unpublished, TypeOK
  <2>2. UNCHANGED <<enabled, nvsEnabled, setter>>
    BY <2>1 DEF switch
  <2>3. UNCHANGED <<apply, choice, offered>>
    BY <2>1 DEF dhcp
  <2> QED
    BY <1>2, <2>1, <2>2, <2>3 DEF TypeOK
<1>3. ASSUME TypeOK, CloseSocket PROVE TypeOK'
  <2>1. /\ sock' \in BOOLEAN
        /\ lpc' \in {"loop", "decide", "close", "open", "opened", "closed", "notify", "serve"}
        /\ UNCHANGED <<switch, bindSet, dirty, published, healthy, want, boot, dhcp>>
    BY <1>3 DEF CloseSocket
  <2>2. UNCHANGED <<enabled, nvsEnabled, setter>>
    BY <2>1 DEF switch
  <2>3. UNCHANGED <<apply, choice, offered>>
    BY <2>1 DEF dhcp
  <2> QED
    BY <1>3, <2>1, <2>2, <2>3 DEF TypeOK
<1>4. ASSUME TypeOK, Closed PROVE TypeOK'
  <2>1. /\ healthy' \in BOOLEAN
        /\ lpc' \in {"loop", "decide", "close", "open", "opened", "closed", "notify", "serve"}
        /\ UNCHANGED <<switch, bindSet, dirty, sock, published, want, boot, dhcp>>
    BY <1>4 DEF Closed, NotifyClosed
  <2>2. UNCHANGED <<enabled, nvsEnabled, setter>>
    BY <2>1 DEF switch
  <2>3. UNCHANGED <<apply, choice, offered>>
    BY <2>1 DEF dhcp
  <2> QED
    BY <1>4, <2>1, <2>2, <2>3 DEF TypeOK
<1>5. ASSUME TypeOK, OpenSocket PROVE TypeOK'
  BY <1>5 DEF OpenSocket, switch, dhcp, TypeOK
<1>6. ASSUME TypeOK, OpenFails PROVE TypeOK'
  BY <1>6 DEF OpenFails, switch, socket, dhcp, TypeOK
<1>7. ASSUME TypeOK, Opened PROVE TypeOK'
  BY <1>7 DEF Opened, DirtyAfterOpen, switch, dhcp, TypeOK
<1>8. ASSUME TypeOK, Notify PROVE TypeOK'
  BY <1>8 DEF Notify, switch, socket, Callers, TypeOK
<1>9. ASSUME TypeOK, Serve PROVE TypeOK'
  BY <1>9 DEF Serve, switch, dhcp, TypeOK
<1> QED
  BY <1>1, <1>2, <1>3, <1>4, <1>5, <1>6, <1>7, <1>8, <1>9

LEMMA TypeNext == TypeOK /\ [Next]_vars => TypeOK'
<1>1. ASSUME TypeOK, UNCHANGED vars PROVE TypeOK'
  BY <1>1 DEF vars, switch, socket, dhcp, TypeOK
<1>2. Next => \/ SetBindAddr \/ BindAddrDirty \/ \E s \in Setters : SetterStep(s)
              \/ \E c \in Callers : StartApply(c) \/ ChooseResolver(c) \/ SetOffer(c)
              \/ ReadWant \/ Decide \/ CloseSocket \/ Closed \/ OpenSocket
                   \/ OpenFails \/ Opened \/ Notify \/ Serve
  BY DEF Next, ApplierStep, ListenerStep, Callers
<1> QED
  BY <1>1, <1>2, TypeControl, TypeApply, TypeListener

(* Every variable of dns_relay.c's control side stays in its range.        *)
THEOREM ListenerTyped == Spec => []TypeOK
  BY TypeInit, TypeNext, PTL DEF Spec

-----------------------------------------------------------------------------
LEMMA SocketNext == SocketInv /\ [Next]_vars => SocketInv'
<1> SUFFICES ASSUME SocketInv, [Next]_vars PROVE SocketInv'
  OBVIOUS
<1> USE DEF SocketInv, PublishedIsOpen, Withdrawn
<1>1. CASE UNCHANGED <<sock, published, lpc>>
  BY <1>1
<1>2. CASE ReadWant
  BY <1>2 DEF ReadWant, socket
<1>3. CASE Decide
  BY <1>3 DEF Decide, Unpublished
<1>4. CASE CloseSocket
  BY <1>4 DEF CloseSocket
<1>5. CASE Closed
  BY <1>5 DEF Closed, NotifyClosed
<1>6. CASE OpenSocket
  BY <1>6 DEF OpenSocket
<1>7. CASE OpenFails
  BY <1>7 DEF OpenFails, socket
<1>8. CASE Opened
  BY <1>8 DEF Opened
<1>9. CASE Serve
  BY <1>9 DEF Serve
<1>10. ASSUME NEW c \in Callers, SetOffer(c) PROVE SocketInv'
  BY <1>10 DEF SetOffer, socket
<1>11. Next => \/ UNCHANGED <<sock, published, lpc>>
               \/ ReadWant \/ Decide \/ CloseSocket \/ Closed \/ OpenSocket
               \/ OpenFails \/ Opened \/ Serve \/ \E c \in Callers : SetOffer(c)
  BY DEF Next, SetBindAddr, BindAddrDirty, SetterStep, SetEnabled, SetDirty, StoreEnabled,
         ApplierStep, StartApply, ChooseResolver, ListenerStep, Notify, Callers, socket
<1> QED
  BY <1>1, <1>2, <1>3, <1>4, <1>5, <1>6, <1>7, <1>8, <1>9, <1>10, <1>11 DEF vars, socket

(* What s_listen_sock names is open, wherever a switch, app_main or a      *)
(* failed bind catches the listener: it is withdrawn before the socket is  *)
(* closed and published after the next one is open.                        *)
THEOREM PublishedStaysOpen == Spec => []PublishedIsOpen
<1>1. Init => SocketInv
  BY DEF Init, SocketInv, PublishedIsOpen, Withdrawn
<1>2. SocketInv => PublishedIsOpen
  BY DEF SocketInv
<1> QED
  BY <1>1, <1>2, SocketNext, PTL DEF Spec

-----------------------------------------------------------------------------
(* The remote console.  A byte in NVS names the interfaces it was made     *)
(* from: no two choices share one.                                         *)
LEMMA ByteIsInjective ==
  ASSUME NEW S \in SUBSET C!Interfaces, NEW U \in SUBSET C!Interfaces, C!Byte(S) = C!Byte(U)
  PROVE  S = U
<1>1. ("ap" \in S <=> "ap" \in U) /\ ("sta" \in S <=> "sta" \in U) /\ ("vpn" \in S <=> "vpn" \in U)
  <2> DEFINE a(Z) == IF "ap" \in Z THEN 1 ELSE 0
             b(Z) == IF "sta" \in Z THEN 2 ELSE 0
             c(Z) == IF "vpn" \in Z THEN 4 ELSE 0
  <2>1. \A Z : a(Z) \in {0, 1} /\ b(Z) \in {0, 2} /\ c(Z) \in {0, 4}
    OBVIOUS
  <2>2. \A Z : (a(Z) = 1 <=> "ap" \in Z) /\ (b(Z) = 2 <=> "sta" \in Z) /\ (c(Z) = 4 <=> "vpn" \in Z)
    OBVIOUS
  <2>3. a(S) + b(S) + c(S) = a(U) + b(U) + c(U)
    BY DEF C!Byte
  <2> HIDE DEF a, b, c
  <2>4. a(S) = a(U) /\ b(S) = b(U) /\ c(S) = c(U)
    BY <2>1, <2>3
  <2> QED
    BY <2>2, <2>4
<1>2. \A i \in C!Interfaces : i \in S <=> i \in U
  BY <1>1 DEF C!Interfaces
<1> QED
  BY <1>2

LEMMA BitsOfByte ==
  ASSUME NEW S \in SUBSET C!Interfaces
  PROVE  C!Bits(C!Byte(S)) = S
  BY ByteIsInjective DEF C!Bits

(* Every byte a set of interfaces may have, of the older enum or not, is   *)
(* read as one.                                                            *)
LEMMA EveryByteHasBits ==
  ASSUME NEW b \in 0..7
  PROVE  C!Bits(b) \in SUBSET C!Interfaces /\ (b # 0 => C!Bits(b) # {})
<1> DEFINE S == {i \in C!Interfaces : \/ i = "ap" /\ b \in {1, 3, 5, 7}
                                      \/ i = "sta" /\ b \in {2, 3, 6, 7}
                                      \/ i = "vpn" /\ b \in {4, 5, 6, 7}}
<1>1. ("ap" \in S <=> b \in {1, 3, 5, 7}) /\ ("sta" \in S <=> b \in {2, 3, 6, 7})
      /\ ("vpn" \in S <=> b \in {4, 5, 6, 7})
  BY DEF C!Interfaces
<1>2. b \in {0, 1, 2, 3, 4, 5, 6, 7}
  OBVIOUS
<1> HIDE DEF S
<1>3. C!Byte(S) = b
  BY <1>1, <1>2 DEF C!Byte
<1>4. S \in SUBSET C!Interfaces
  BY DEF S
<1>5. C!Bits(b) = S
  BY <1>3, <1>4, BitsOfByte
<1>6. b # 0 => S # {}
  BY <1>1, <1>2
<1> QED
  BY <1>4, <1>5, <1>6

LEMMA StoredBindIsRead ==
  ASSUME NEW S \in SUBSET C!Interfaces, S # {}
  PROVE  C!Loaded(C!Byte(S)) = S
<1>1. C!Byte(S) # 0
  <2>1. "ap" \in S \/ "sta" \in S \/ "vpn" \in S
    BY DEF C!Interfaces
  <2> QED
    BY <2>1 DEF C!Byte
<1> QED
  BY <1>1, BitsOfByte DEF C!Loaded

(* What the tasks, the API and the handle of the task agree on.  Until the *)
(* console is enabled too early there is one task, and the console's state *)
(* is what that task last wrote.                                           *)
Locations == {"open", "accept", "auth", "delay", "session", "close", "dead"}

ConsoleTyped ==
  /\ rcEnabled \in BOOLEAN /\ nvs.enabled = rcEnabled /\ early \in BOOLEAN /\ api \in {"idle", "wait"}
  /\ pc \in [Tasks -> Locations]

Alone ==
  ~early => /\ \A t, u \in Tasks : pc[t] # "dead" /\ pc[u] # "dead" => t = u
            /\ \A t \in Tasks : pc[t] = "session" => state = "active" \/ ~rcEnabled

ApiTells ==
  /\ api = "wait" => ~rcEnabled
  /\ api = "idle" /\ ~rcEnabled => handle = "none"

BindKept == bind \in SUBSET C!Interfaces /\ bind # {} /\ bind = C!Loaded(nvs.bind)

ConsoleInv == ConsoleTyped /\ Alone /\ ApiTells /\ BindKept
LEMMA ConsoleInit == C!Init => ConsoleInv
<1> SUFFICES ASSUME C!Init PROVE ConsoleInv
  OBVIOUS
<1> USE DEF C!Init
<1>1. nvs.bind \in 0..7 /\ ~nvs.enabled
  OBVIOUS
<1>2. BindKept
  <2>1. CASE nvs.bind = 0
    BY <2>1 DEF BindKept, C!Loaded, C!Interfaces
  <2>2. CASE nvs.bind # 0
    BY <1>1, <2>2, EveryByteHasBits DEF BindKept, C!Loaded
  <2> QED
    BY <2>1, <2>2
<1>3. ConsoleTyped /\ Alone /\ ApiTells
  BY <1>1 DEF ConsoleTyped, Alone, ApiTells, Locations
<1> QED
  BY <1>2, <1>3 DEF ConsoleInv

(* The calls of the API, by whichever of the web server and the CLI.       *)
LEMMA ConsoleCalls ==
  ASSUME ConsoleInv,
         C!Enable \/ C!EnableFails \/ C!Disable \/ C!DisableReturns \/ C!Kick \/ C!Password
           \/ \E S \in SUBSET C!Interfaces : C!SetBind(S)
  PROVE  ConsoleInv'
<1> USE DEF ConsoleInv, ConsoleTyped, Alone, ApiTells, BindKept
<1>1. CASE C!Enable
  <2>1. PICK t \in Tasks \ C!Live :
          /\ handle' = t /\ state' = "listening"
          /\ pc' = [pc EXCEPT ![t] = "open"] /\ early' = (early \/ C!Live # {})
    BY <1>1 DEF C!Enable
  <2>2. ConsoleTyped' /\ Alone' /\ ApiTells'
    BY <1>1, <2>1 DEF C!Enable, C!Live, Locations
  <2>3. BindKept'
    BY <1>1, StoredBindIsRead DEF C!Enable
  <2> QED
    BY <2>2, <2>3
<1>2. CASE C!EnableFails
  <2>1. BindKept'
    BY <1>2, StoredBindIsRead DEF C!EnableFails
  <2> QED
    BY <1>2, <2>1 DEF C!EnableFails, C!tasks
<1>3. CASE C!Disable
  <2>1. BindKept'
    BY <1>3, StoredBindIsRead DEF C!Disable
  <2> QED
    BY <1>3, <2>1 DEF C!Disable, C!tasks
<1>4. CASE C!DisableReturns
  BY <1>4 DEF C!DisableReturns, C!config, C!tasks, C!hist
<1>5. CASE C!Kick
  BY <1>5 DEF C!Kick, C!config, C!tasks
<1>6. CASE C!Password
  BY <1>6 DEF C!Password, C!config, C!control, C!tasks
<1>7. ASSUME NEW S \in SUBSET C!Interfaces, C!SetBind(S) PROVE ConsoleInv'
  <2>1. bind' \in SUBSET C!Interfaces /\ bind' # {} /\ nvs'.bind = C!Byte(bind')
    BY <1>7 DEF C!SetBind, C!Interfaces
  <2>2. BindKept'
    BY <2>1, StoredBindIsRead
  <2> QED
    BY <1>7, <2>2 DEF C!SetBind, C!control, C!tasks
<1> QED
  BY <1>1, <1>2, <1>3, <1>4, <1>5, <1>6, <1>7

(* A reset at any point: what NVS held is what runs.                       *)
LEMMA ConsoleReset ==
  ASSUME ConsoleInv, C!Reset
  PROVE  ConsoleInv'
<1> USE DEF ConsoleInv
<1>1. PICK t \in Tasks :
        /\ rcEnabled' = nvs.enabled /\ bind' = C!Loaded(nvs.bind) /\ api' = "idle"
        /\ handle' = IF nvs.enabled THEN t ELSE "none"
        /\ pc' = [u \in Tasks |-> IF nvs.enabled /\ u = t THEN "open" ELSE "dead"]
        /\ UNCHANGED <<nvs, early>>
  BY DEF C!Reset, C!Booted
<1>2. BindKept'
  BY <1>1 DEF BindKept
<1>3. ConsoleTyped' /\ Alone' /\ ApiTells'
  BY <1>1 DEF ConsoleTyped, Alone, ApiTells, Locations
<1> QED
  BY <1>2, <1>3

(* One step of the task t: its loops, a client, the client's lines.        *)
LEMMA ConsoleTask ==
  ASSUME ConsoleInv, NEW t \in Tasks,
         C!TaskStep(t) \/ \E i \in {"ap", "sta"}, tailnet \in BOOLEAN : C!Accept(t, i, tailnet)
  PROVE  ConsoleInv'
<1> USE DEF ConsoleInv, ConsoleTyped, Alone, ApiTells, BindKept, Locations
<1>1. CASE C!OpenServer(t)
  BY <1>1 DEF C!OpenServer, C!Move, C!config, C!hist
<1>2. CASE C!Exit(t)
  BY <1>2 DEF C!Exit, C!config, C!hist
<1>3. CASE C!NoLine(t)
  BY <1>3 DEF C!NoLine, C!config, C!control, C!hist
<1>4. CASE C!Wrong(t)
  BY <1>4 DEF C!Wrong, C!Move, C!AfterWrong, C!config, C!control, C!hist
<1>5. CASE C!Delayed(t)
  BY <1>5 DEF C!Delayed, C!Move, C!config, C!control, C!hist
<1>6. CASE C!Right(t)
  BY <1>6 DEF C!Right, C!Move, C!SessionState, C!config, C!hist
<1>7. CASE C!Close(t)
  BY <1>7 DEF C!Close, C!Move, C!config, C!hist
<1>8. ASSUME NEW i \in {"ap", "sta"}, NEW tailnet \in BOOLEAN, C!Accept(t, i, tailnet)
      PROVE  ConsoleInv'
  BY <1>8 DEF C!Accept, C!Move, C!config, C!tasks
<1> QED
  BY <1>1, <1>2, <1>3, <1>4, <1>5, <1>6, <1>7, <1>8 DEF C!TaskStep

LEMMA ConsoleNext == ConsoleInv /\ [C!Next]_cv => ConsoleInv'
<1>1. ASSUME ConsoleInv, UNCHANGED cv PROVE ConsoleInv'
  BY <1>1 DEF cv, ConsoleInv, ConsoleTyped, Alone, ApiTells, BindKept
<1>2. ASSUME ConsoleInv, C!Next PROVE ConsoleInv'
  BY <1>2, ConsoleCalls, ConsoleReset, ConsoleTask DEF C!Next
<1> QED
  BY <1>1, <1>2

LEMMA ConsoleServed == ConsoleInv => ServedByOne
  BY DEF ConsoleInv, Alone, BindKept, ServedByOne, C!ServedByOne, C!OneTask, C!BindSurvives,
         C!Live

(* Unless the console is enabled again while the task it ended still runs, *)
(* one task serves it and the session flag is true of the client a kick    *)
(* would reach; and the interfaces it answers on are those in NVS.         *)
THEOREM OneServes == LinksSpec => []ServedByOne
<1>1. LinksInit => ConsoleInv
  BY ConsoleInit DEF LinksInit
<1>2. ConsoleInv /\ [LinksNext]_<<on, vars, hv, tv, cv>> => ConsoleInv'
  <2>1. [LinksNext]_<<on, vars, hv, tv, cv>> => [C!Next]_cv
    BY DEF LinksNext
  <2> QED
    BY <2>1, ConsoleNext
<1> QED
  BY <1>1, <1>2, ConsoleServed, PTL DEF LinksSpec

-----------------------------------------------------------------------------
(* The tunnel.  As long as no two connects or disconnects overlap, there   *)
(* is one microlink instance, the one that s_microlink names, and the      *)
(* recorder's handle names no other.                                       *)
InstanceStates == {"unused", "made", "run", "up", "freed"}
Places == {"idle", "detach", "destroy", "forget", "pause", "make", "hand", "start"}

TunnelTyped ==
  /\ inst \in [T!Instances -> InstanceStates]
  /\ ml \in T!Instances \cup {0} /\ sd \in T!Instances \cup {0}
  /\ caller \in [Connectors -> [pc : Places, again : BOOLEAN]]

NoneAlive == \A i \in T!Instances : ~T!Alive(i)
OnlyAlive(m) == m \in T!Instances /\ T!Alive(m) /\ \A i \in T!Instances : T!Alive(i) => i = m

(* What there is while the one caller is at a place in its work: at rest   *)
(* an instance with the recorder on it or not, or none of either.          *)
TunnelAt(place) ==
  /\ place = "idle" => (OnlyAlive(ml) /\ sd \in {0, ml}) \/ (NoneAlive /\ ml = 0 /\ sd = 0)
  /\ place = "detach" => OnlyAlive(ml) /\ sd \in {0, ml}
  /\ place = "destroy" => OnlyAlive(ml) /\ sd = 0
  /\ place = "forget" => NoneAlive /\ sd = 0
  /\ place \in {"pause", "make"} => NoneAlive /\ ml = 0 /\ sd = 0
  /\ place = "hand" => OnlyAlive(ml) /\ sd = 0
  /\ place = "start" => OnlyAlive(ml) /\ sd = ml

OneAtWork == \A c, d \in Connectors : caller[c].pc # "idle" /\ caller[d].pc # "idle" => c = d

AtPlace ==
  /\ OneAtWork
  /\ T!Quiet => TunnelAt("idle")
  /\ \A c \in Connectors : caller[c].pc # "idle" => TunnelAt(caller[c].pc)

TunnelInv == TunnelTyped /\ (~overlapped => AtPlace)

-----------------------------------------------------------------------------
LEMMA NumberedFromOne == 0 \notin T!Instances
  BY DEF T!Instances

LEMMA TunnelInit == T!Init => TunnelInv
<1> SUFFICES ASSUME T!Init PROVE TunnelInv
  OBVIOUS
<1>1. \A c \in Connectors : caller[c] = T!Idle /\ caller[c].pc = "idle"
  BY DEF T!Init, T!Idle
<1>2. TunnelTyped
  <2>1. T!Idle \in [pc : Places, again : BOOLEAN]
    BY DEF T!Idle, Places
  <2> QED
    BY <2>1 DEF T!Init, TunnelTyped, InstanceStates
<1>3. NoneAlive /\ ml = 0 /\ sd = 0
  BY DEF T!Init, NoneAlive, T!Alive
<1>4. AtPlace
  BY <1>1, <1>3 DEF AtPlace, OneAtWork, TunnelAt
<1> QED
  BY <1>2, <1>4 DEF TunnelInv

(* A caller that moves while the others rest.                              *)
LEMMA ConnectorAlone ==
  ASSUME NEW c \in Connectors, NEW to \in Places, NEW a \in BOOLEAN, TunnelTyped,
         caller' = [caller EXCEPT ![c] = [pc |-> to, again |-> a]],
         \A d \in Connectors \ {c} : caller[d].pc = "idle",
         TunnelAt(to)'
  PROVE  AtPlace'
<1>1. caller'[c].pc = to /\ \A d \in Connectors \ {c} : caller'[d].pc = "idle"
  BY DEF TunnelTyped
<1>2. OneAtWork'
  BY <1>1 DEF OneAtWork
<1>3. T!Quiet' => TunnelAt("idle")'
  BY <1>1 DEF T!Quiet
<1>4. \A d \in Connectors : caller'[d].pc # "idle" => d = c
  BY <1>1
<1>5. ASSUME NEW d \in Connectors, caller'[d].pc # "idle" PROVE TunnelAt(caller[d].pc)'
  <2>1. caller'[d].pc = to
    BY <1>1, <1>4, <1>5
  <2> QED
    BY <2>1 DEF TunnelAt
<1> QED
  BY <1>2, <1>3, <1>5 DEF AtPlace

(* What holds for a caller at work when nothing overlapped.                *)
LEMMA AtWork ==
  ASSUME NEW c \in Connectors, TunnelInv, ~overlapped, caller[c].pc # "idle"
  PROVE  TunnelAt(caller[c].pc) /\ \A d \in Connectors \ {c} : caller[d].pc = "idle"
  BY DEF TunnelInv, AtPlace, OneAtWork

(* A step of a caller: where it leads is all there is to show.             *)
LEMMA CallerMoves ==
  ASSUME NEW c \in Connectors, NEW from \in Places \ {"idle"}, NEW to \in Places,
         TunnelInv, T!Step(c, from, to),
         inst' \in [T!Instances -> InstanceStates],
         ml' \in T!Instances \cup {0}, sd' \in T!Instances \cup {0},
         ~overlapped /\ TunnelAt(from) => TunnelAt(to)'
  PROVE  TunnelInv'
<1>1. /\ caller' = [caller EXCEPT ![c] = [pc |-> to, again |-> caller[c].again]]
      /\ caller[c].pc = from /\ overlapped' = overlapped
  BY DEF T!Step, T!supervisor
<1>2. caller[c].again \in BOOLEAN
  BY DEF TunnelInv, TunnelTyped
<1>3. [pc |-> to, again |-> caller[c].again] \in [pc : Places, again : BOOLEAN]
  BY <1>2
<1>4. TunnelTyped'
  BY <1>1, <1>3 DEF TunnelInv, TunnelTyped
<1>5. ASSUME ~overlapped PROVE AtPlace'
  <2>1. TunnelAt(to)' /\ \A d \in Connectors \ {c} : caller[d].pc = "idle"
    BY <1>1, <1>5, AtWork
  <2> QED
    BY <1>1, <1>2, <2>1, ConnectorAlone DEF TunnelInv
<1> QED
  BY <1>1, <1>4, <1>5 DEF TunnelInv

(* At a place, as long as what is alive, s_microlink and the handle stay.  *)
LEMMA SamePlace ==
  ASSUME NEW place, \A i \in T!Instances : T!Alive(i)' <=> T!Alive(i), ml' = ml, sd' = sd
  PROVE  TunnelAt(place)' <=> TunnelAt(place)
<1>1. NoneAlive' <=> NoneAlive
  BY DEF NoneAlive
<1>2. \A i \in T!Instances : OnlyAlive(i)' <=> OnlyAlive(i)
  BY DEF OnlyAlive
<1>3. OnlyAlive(ml)' <=> OnlyAlive(ml)
  BY DEF OnlyAlive
<1> QED
  BY <1>1, <1>3 DEF TunnelAt

LEMMA SameTunnel ==
  ASSUME TunnelInv, TunnelTyped', \A i \in T!Instances : T!Alive(i)' <=> T!Alive(i),
         UNCHANGED <<ml, sd, caller, overlapped>>
  PROVE  TunnelInv'
<1>1. \A place : TunnelAt(place)' <=> TunnelAt(place)
  BY SamePlace
<1> QED
  BY <1>1 DEF TunnelInv, AtPlace, OneAtWork, T!Quiet

-----------------------------------------------------------------------------
(* A GOT_IP and the bridge's restart begin from rest.                      *)
LEMMA BeginStep ==
  ASSUME NEW c \in Connectors, NEW a \in BOOLEAN, NEW none \in {"make", "pause"},
         TunnelInv, T!Begin(c, IF ml # 0 THEN "detach" ELSE none, a)
  PROVE  TunnelInv'
<1> DEFINE to == IF ml # 0 THEN "detach" ELSE none
<1>1. /\ caller[c].pc = "idle" /\ UNCHANGED <<inst, ml, sd>>
      /\ caller' = [caller EXCEPT ![c] = [pc |-> to, again |-> a]]
      /\ ~overlapped' => ~overlapped /\ \A d \in Connectors \ {c} : caller[d].pc = "idle"
  BY DEF T!Begin
<1>2. to \in Places
  BY DEF Places
<1>3. [pc |-> to, again |-> a] \in [pc : Places, again : BOOLEAN]
  BY <1>2
<1>4. TunnelTyped'
  BY <1>1, <1>3 DEF TunnelInv, TunnelTyped
<1>5. ASSUME ~overlapped' PROVE AtPlace'
  <2>1. TunnelAt("idle")
    BY <1>1, <1>5 DEF TunnelInv, AtPlace, T!Quiet
  <2>2. TunnelAt(to)
    BY <2>1, NumberedFromOne DEF TunnelAt, OnlyAlive
  <2>3. TunnelAt(to)'
    BY <1>1, <2>2 DEF TunnelAt, NoneAlive, OnlyAlive, T!Alive
  <2> QED
    BY <1>1, <1>2, <1>5, <2>3, ConnectorAlone DEF TunnelInv
<1> QED
  BY <1>4, <1>5 DEF TunnelInv

LEMMA GotIpStep ==
  ASSUME NEW c \in Connectors, TunnelInv, T!GotIp(c) \/ T!MqttRestart(c)
  PROVE  TunnelInv'
  BY BeginStep DEF T!GotIp, T!MqttRestart, T!First

(* tailscale_disconnect, in its order: the recorder's handle, the          *)
(* instance, s_microlink.                                                  *)
LEMMA DetachStep ==
  ASSUME NEW c \in Connectors, TunnelInv, T!Detach(c)
  PROVE  TunnelInv'
<1>1. T!Step(c, "detach", "destroy") /\ sd' = 0 /\ UNCHANGED <<inst, ml>>
  BY DEF T!Detach, T!Detached
<1>2. TunnelAt("detach") => TunnelAt("destroy")'
  BY <1>1 DEF TunnelAt, NoneAlive, OnlyAlive, T!Alive
<1> QED
  BY <1>1, <1>2, CallerMoves DEF TunnelInv, TunnelTyped, Places

LEMMA DestroyStep ==
  ASSUME NEW c \in Connectors, TunnelInv, T!Destroy(c)
  PROVE  TunnelInv'
<1>1. T!Step(c, "destroy", "forget") /\ UNCHANGED <<ml, sd>>
  BY DEF T!Destroy
<1>2. inst' = IF ml = 0 THEN inst ELSE [inst EXCEPT ![ml] = "freed"]
  BY DEF T!Destroy, T!Freed
<1>3. inst' \in [T!Instances -> InstanceStates]
  BY <1>2 DEF TunnelInv, TunnelTyped, InstanceStates
<1>4. ASSUME TunnelAt("destroy") PROVE TunnelAt("forget")'
  <2>1. OnlyAlive(ml) /\ sd = 0
    BY <1>4 DEF TunnelAt
  <2>2. inst' = [inst EXCEPT ![ml] = "freed"]
    BY <1>2, <2>1, NumberedFromOne DEF OnlyAlive
  <2>3. NoneAlive'
    BY <2>1, <2>2 DEF NoneAlive, OnlyAlive, T!Alive, TunnelInv, TunnelTyped
  <2> QED
    BY <1>1, <2>1, <2>3 DEF TunnelAt
<1> QED
  BY <1>1, <1>3, <1>4, CallerMoves DEF TunnelInv, TunnelTyped, Places

LEMMA ForgetStep ==
  ASSUME NEW c \in Connectors, TunnelInv, T!Forget(c)
  PROVE  TunnelInv'
<1>1. PICK to \in {"pause", "make"} : T!Step(c, "forget", to)
  BY DEF T!Forget
<1>2. ml' = 0 /\ UNCHANGED <<inst, sd>>
  BY DEF T!Forget
<1>3. TunnelAt("forget") => TunnelAt(to)'
  BY <1>2 DEF TunnelAt, NoneAlive, T!Alive
<1> QED
  BY <1>1, <1>2, <1>3, CallerMoves DEF TunnelInv, TunnelTyped, Places

(* The bridge's connect, after its pause, finds no instance.               *)
LEMMA ConnectStep ==
  ASSUME NEW c \in Connectors, TunnelInv, T!Connect(c)
  PROVE  TunnelInv'
<1> DEFINE to == IF ml # 0 THEN "detach" ELSE "make"
<1>1. /\ caller[c].pc = "pause" /\ UNCHANGED <<inst, ml, sd, overlapped>>
      /\ caller' = [caller EXCEPT ![c] = [pc |-> to, again |-> FALSE]]
  BY DEF T!Connect, T!First
<1>2. to \in Places
  BY DEF Places
<1>3. [pc |-> to, again |-> FALSE] \in [pc : Places, again : BOOLEAN]
  BY <1>2
<1>4. TunnelTyped'
  BY <1>1, <1>3 DEF TunnelInv, TunnelTyped
<1>5. ASSUME ~overlapped PROVE AtPlace'
  <2>1. TunnelAt("pause") /\ \A d \in Connectors \ {c} : caller[d].pc = "idle"
    BY <1>1, <1>5, AtWork
  <2>2. to = "make" /\ TunnelAt("make")'
    BY <1>1, <2>1 DEF TunnelAt, NoneAlive, OnlyAlive, T!Alive
  <2> QED
    BY <1>1, <1>2, <2>1, <2>2, ConnectorAlone DEF TunnelInv
<1> QED
  BY <1>1, <1>4, <1>5 DEF TunnelInv

(* tailscale_connect: a fresh instance, the recorder's handle, the start;  *)
(* where one fails nothing is left.                                        *)
LEMMA MakeStep ==
  ASSUME NEW c \in Connectors, TunnelInv, T!Make(c)
  PROVE  TunnelInv'
<1>1. sd' = sd
  BY DEF T!Make
<1>2. ASSUME NEW i \in T!Fresh, T!Step(c, "make", "hand"), ml' = i,
             inst' = [inst EXCEPT ![i] = "made"]
      PROVE  TunnelInv'
  <2>1. i \in T!Instances /\ inst' \in [T!Instances -> InstanceStates]
    BY <1>2 DEF T!Fresh, TunnelInv, TunnelTyped, InstanceStates
  <2>2. ASSUME TunnelAt("make") PROVE TunnelAt("hand")'
    <3>1. NoneAlive /\ sd = 0
      BY <2>2 DEF TunnelAt
    <3>2. OnlyAlive(ml)'
      BY <1>2, <2>1, <3>1 DEF OnlyAlive, NoneAlive, T!Alive, TunnelInv, TunnelTyped
    <3> QED
      BY <1>1, <3>1, <3>2 DEF TunnelAt
  <2> QED
    BY <1>1, <1>2, <2>1, <2>2, CallerMoves DEF TunnelInv, TunnelTyped, Places
<1>3. ASSUME T!Step(c, "make", "idle"), ml' = 0, inst' = inst
      PROVE  TunnelInv'
  <2>1. TunnelAt("make") => TunnelAt("idle")'
    BY <1>1, <1>3 DEF TunnelAt, NoneAlive, T!Alive
  <2> QED
    BY <1>1, <1>3, <2>1, CallerMoves DEF TunnelInv, TunnelTyped, Places
<1> QED
  BY <1>2, <1>3 DEF T!Make

LEMMA HandStep ==
  ASSUME NEW c \in Connectors, TunnelInv, T!Hand(c)
  PROVE  TunnelInv'
<1>1. T!Step(c, "hand", "start") /\ sd' = ml /\ UNCHANGED <<inst, ml>>
  BY DEF T!Hand
<1>2. TunnelAt("hand") => TunnelAt("start")'
  BY <1>1 DEF TunnelAt, NoneAlive, OnlyAlive, T!Alive
<1> QED
  BY <1>1, <1>2, CallerMoves DEF TunnelInv, TunnelTyped, Places

LEMMA StartStep ==
  ASSUME NEW c \in Connectors, TunnelInv, T!Start(c)
  PROVE  TunnelInv'
<1>1. T!Step(c, "start", "idle")
  BY DEF T!Start
<1>2. ASSUME inst' = IF ml = 0 THEN inst ELSE [inst EXCEPT ![ml] = "run"],
             UNCHANGED <<ml, sd>>
      PROVE  TunnelInv'
  <2>1. inst' \in [T!Instances -> InstanceStates]
    BY <1>2 DEF TunnelInv, TunnelTyped, InstanceStates
  <2>2. ASSUME TunnelAt("start") PROVE TunnelAt("idle")'
    <3>1. OnlyAlive(ml) /\ sd = ml
      BY <2>2 DEF TunnelAt
    <3>2. OnlyAlive(ml)'
      BY <1>2, <3>1, NumberedFromOne DEF OnlyAlive, T!Alive, TunnelInv, TunnelTyped
    <3>3. sd' \in {0, ml'}
      BY <1>2, <3>1
    <3> QED
      BY <3>2, <3>3 DEF TunnelAt
  <2> QED
    BY <1>1, <1>2, <2>1, <2>2, CallerMoves DEF TunnelInv, TunnelTyped, Places
<1>3. ASSUME sd' = 0, ml' = 0, inst' = IF ml = 0 THEN inst ELSE [inst EXCEPT ![ml] = "freed"]
      PROVE  TunnelInv'
  <2>1. inst' \in [T!Instances -> InstanceStates]
    BY <1>3 DEF TunnelInv, TunnelTyped, InstanceStates
  <2>2. ASSUME TunnelAt("start") PROVE TunnelAt("idle")'
    <3>1. OnlyAlive(ml) /\ ml # 0
      BY <2>2, NumberedFromOne DEF TunnelAt, OnlyAlive
    <3>2. NoneAlive'
      BY <1>3, <3>1 DEF NoneAlive, OnlyAlive, T!Alive, TunnelInv, TunnelTyped
    <3> QED
      BY <1>3, <3>2 DEF TunnelAt
  <2> QED
    BY <1>1, <1>3, <2>1, <2>2, CallerMoves DEF TunnelInv, TunnelTyped, Places
<1> QED
  BY <1>2, <1>3 DEF T!Start, T!Freed

(* The control plane's answer.                                             *)
LEMMA InstanceUp ==
  ASSUME NEW i \in T!Instances, TunnelInv, T!Up(i)
  PROVE  TunnelInv'
<1>1. /\ inst[i] = "run" /\ inst' = [inst EXCEPT ![i] = "up"]
      /\ UNCHANGED <<ml, sd, caller, overlapped>>
  BY DEF T!Up
<1>2. TunnelTyped'
  BY <1>1 DEF TunnelInv, TunnelTyped, InstanceStates
<1>3. \A j \in T!Instances : T!Alive(j)' <=> T!Alive(j)
  BY <1>1 DEF T!Alive, TunnelInv, TunnelTyped
<1> QED
  BY <1>1, <1>2, <1>3, SameTunnel

(* The recorder, the uplink, the web UI and the supervisor touch none of   *)
(* this.                                                                   *)
LEMMA TunnelRest ==
  ASSUME TunnelInv, UNCHANGED <<inst, ml, sd, caller, overlapped>>
  PROVE  TunnelInv'
<1>1. TunnelTyped'
  BY DEF TunnelInv, TunnelTyped
<1>2. \A j \in T!Instances : T!Alive(j)' <=> T!Alive(j)
  BY DEF T!Alive
<1> QED
  BY <1>1, <1>2, SameTunnel

LEMMA TunnelNext == TunnelInv /\ [T!Next]_tv => TunnelInv'
<1> SUFFICES ASSUME TunnelInv, [T!Next]_tv PROVE TunnelInv'
  OBVIOUS
<1>1. ASSUME NEW c \in Connectors, T!GotIp(c) \/ T!MqttRestart(c) PROVE TunnelInv'
  BY <1>1, GotIpStep
<1>2. ASSUME NEW c \in Connectors, T!CallerStep(c) PROVE TunnelInv'
  BY <1>2, DetachStep, DestroyStep, ForgetStep, ConnectStep, MakeStep, HandStep, StartStep
     DEF T!CallerStep
<1>3. ASSUME NEW i \in T!Instances, T!Up(i) PROVE TunnelInv'
  BY <1>3, InstanceUp
<1>4. CASE T!SampleBegin \/ T!SampleEnd \/ T!StaChange \/ T!Renewed
  BY <1>4, TunnelRest DEF T!SampleBegin, T!SampleEnd, T!StaChange, T!Renewed
<1>5. CASE T!Look \/ T!Act \/ \E e \in {0} \cup Exits : T!SetExit(e)
  BY <1>5, TunnelRest DEF T!Look, T!Act, T!SetExit
<1>6. CASE UNCHANGED tv
  BY <1>6, TunnelRest DEF tv
<1> QED
  BY <1>1, <1>2, <1>3, <1>4, <1>5, <1>6 DEF T!Next

LEMMA TunnelHolds == LinksSpec => []TunnelInv
<1>1. LinksInit => TunnelInv
  BY TunnelInit DEF LinksInit
<1>2. TunnelInv /\ [LinksNext]_<<on, vars, hv, tv, cv>> => TunnelInv'
  <2>1. [LinksNext]_<<on, vars, hv, tv, cv>> => [T!Next]_tv
    BY DEF LinksNext
  <2> QED
    BY <2>1, TunnelNext
<1> QED
  BY <1>1, <1>2, PTL DEF LinksSpec

-----------------------------------------------------------------------------
(* tailscale_connect and tailscale_disconnect keep one microlink instance, *)
(* whatever fails, as long as no two of their calls overlap...             *)
THEOREM SingleInstance == LinksSpec => []T!OneInstance
<1>1. TunnelInv => T!OneInstance
  <2> SUFFICES ASSUME TunnelInv, ~overlapped
               PROVE  /\ \A i \in T!Instances : T!Alive(i) => i = ml
                      /\ T!Quiet /\ ml # 0 => T!Alive(ml)
    BY DEF T!OneInstance
  <2>1. \E place \in Places : TunnelAt(place)
    BY DEF TunnelInv, AtPlace, T!Quiet, Places, TunnelTyped
  <2>2. \A i \in T!Instances : T!Alive(i) => i = ml
    BY <2>1 DEF TunnelAt, OnlyAlive, NoneAlive, Places
  <2>3. T!Quiet /\ ml # 0 => T!Alive(ml)
    BY DEF TunnelInv, AtPlace, TunnelAt, OnlyAlive
  <2> QED
    BY <2>2, <2>3
<1> QED
  BY <1>1, TunnelHolds, PTL

(* ...and the handle that they give the recorder never names an instance   *)
(* that is gone.                                                           *)
THEOREM HandleStaysLive == LinksSpec => []T!HandleLive
<1>1. TunnelInv => T!HandleLive
  <2>1. ASSUME TunnelInv, ~overlapped PROVE \E place \in Places : TunnelAt(place)
    BY <2>1 DEF TunnelInv, AtPlace, T!Quiet, Places, TunnelTyped
  <2> QED
    BY <2>1 DEF T!HandleLive, TunnelAt, OnlyAlive, Places
<1> QED
  BY <1>1, TunnelHolds, PTL

(* Both of them for the router as a whole: calls that never overlap keep   *)
(* one microlink instance, the one that s_microlink names, and the         *)
(* recorder holds no handle of another.                                    *)
THEOREM OneTunnel == LinksSpec => []InstanceSound
  BY SingleInstance, HandleStaysLive, PTL DEF InstanceSound, T!InstanceSound

-----------------------------------------------------------------------------
(* The shims.  There is one tunnel interface at most, before the others,   *)
(* and only it has an address of 100.64/10.                                *)
TunnelOnly(n) == list = <<n, "ap", "sta">>
ListInv ==
  /\ list = <<"ap", "sta">> \/ \E n \in Tunnels : TunnelOnly(n)
  /\ cgnat \in SUBSET Tunnels

Own == {"sta_input", "ap_input", "tunnel_input"}
Shims == {"sta_hook", "ap_hook", "wg_hook"}

HooksTyped ==
  /\ input \in [H!Netifs -> Own \cup Shims]
  /\ original \in [Shims -> Own \cup Shims \cup {"null"}]

(* Uplink and access point have their own functions until both shims are   *)
(* in; a tunnel interface with the shim is the one that it was put on last.*)
ShimsInv ==
  /\ \/ original["sta_hook"] = "null" /\ input["sta"] = "sta_input" /\ input["ap"] = "ap_input"
     \/ /\ input["sta"] = "sta_hook" /\ original["sta_hook"] = "sta_input"
        /\ input["ap"] = "ap_hook" /\ original["ap_hook"] = "ap_input"
  /\ \A n \in Tunnels : TunnelOnly(n) =>
       \/ input[n] = "tunnel_input"
       \/ input[n] = "wg_hook" /\ hookedWg = n /\ original["wg_hook"] = "tunnel_input"

HooksInv == ListInv /\ HooksTyped /\ ShimsInv

LEMMA HooksBegin == H!Init => HooksInv
<1> SUFFICES ASSUME H!Init PROVE HooksInv
  OBVIOUS
<1>1. /\ list = <<"ap", "sta">> /\ cgnat = {}
      /\ input = [n \in H!Netifs |-> H!Own(n)]
      /\ original = [h \in Shims |-> "null"]
  BY DEF H!Init, Shims
<1>2. H!Own("sta") = "sta_input" /\ H!Own("ap") = "ap_input"
  BY DEF H!Own
<1>3. \A n : H!Own(n) \in Own
  BY DEF H!Own, Own
<1>4. ListInv /\ \A n \in Tunnels : ~TunnelOnly(n)
  <2>1. \A n \in Tunnels : n # "ap"
    BY TunnelsAssumption
  <2> QED
    BY <1>1, <2>1 DEF ListInv, TunnelOnly
<1>5. HooksTyped
  BY <1>1, <1>3 DEF HooksTyped
<1>6. ShimsInv
  <2>1. original["sta_hook"] = "null"
    BY <1>1 DEF Shims
  <2>2. input["sta"] = "sta_input" /\ input["ap"] = "ap_input"
    BY <1>1, <1>2 DEF H!Netifs
  <2> QED
    BY <1>4, <2>1, <2>2 DEF ShimsInv
<1> QED
  BY <1>4, <1>5, <1>6 DEF HooksInv

(* Linking an interface before the two, and unlinking it.                  *)
LEMMA Linked ==
  ASSUME NEW n
  PROVE  <<n>> \o <<"ap", "sta">> = <<n, "ap", "sta">>
<1> DEFINE S == {n, "ap", "sta"}
           s == <<n>>
           t == <<"ap", "sta">>
           u == <<n, "ap", "sta">>
<1>1. s \in Seq(S) /\ t \in Seq(S) /\ u \in Seq(S)
  OBVIOUS
<1>2. Len(s) = 1 /\ Len(t) = 2 /\ Len(u) = 3
  OBVIOUS
<1>3. /\ s \o t \in Seq(S) /\ Len(s \o t) = Len(s) + Len(t)
      /\ \A i \in 1 .. Len(s) + Len(t) :
           (s \o t)[i] = IF i <= Len(s) THEN s[i] ELSE t[i - Len(s)]
  BY <1>1, ConcatProperties
<1>4. s[1] = n /\ t[1] = "ap" /\ t[2] = "sta" /\ u[1] = n /\ u[2] = "ap" /\ u[3] = "sta"
  OBVIOUS
<1> HIDE DEF s, t, u
<1> DEFINE w == s \o t
<1>5. w \in Seq(S) /\ Len(w) = 3 /\ \A i \in 1 .. 3 : w[i] = IF i <= 1 THEN s[i] ELSE t[i - 1]
  BY <1>2, <1>3
<1> HIDE DEF w, S
<1>6. w[1] = u[1] /\ w[2] = u[2] /\ w[3] = u[3]
  BY <1>4, <1>5
<1>7. \A i \in 1 .. 3 : w[i] = u[i]
  <2> SUFFICES ASSUME NEW i \in 1 .. 3 PROVE w[i] = u[i]
    OBVIOUS
  <2>1. i = 1 \/ i = 2 \/ i = 3
    OBVIOUS
  <2> QED
    BY <1>6, <2>1
<1>8. w = u
  BY <1>1, <1>2, <1>5, <1>7, SeqEqual
<1> QED
  BY <1>8 DEF s, t, u, w

LEMMA Unlinked ==
  ASSUME NEW n
  PROVE  H!RemoveAt(<<n, "ap", "sta">>, 1) = <<"ap", "sta">>
<1> DEFINE S == {n, "ap", "sta"}
           t == <<"ap", "sta">>
           u == <<n, "ap", "sta">>
           v == SubSeq(u, 2, 3)
<1>1. t \in Seq(S) /\ Len(t) = 2 /\ Len(u) = 3
  OBVIOUS
<1>2. t[1] = "ap" /\ t[2] = "sta" /\ u[1] = n /\ u[2] = "ap" /\ u[3] = "sta"
  OBVIOUS
<1>3. SubSeq(u, 1, 0) = <<>>
  BY SubSeqEmpty
<1> HIDE DEF t, u
<1>4. \A i \in 2 .. 3 : u[i] \in S
  BY <1>2
<1>5. /\ v \in Seq(S) /\ Len(v) = IF 2 <= 3 THEN 3 - 2 + 1 ELSE 0
      /\ \A i \in 1 .. 3 - 2 + 1 : v[i] = u[2 + i - 1]
  BY <1>4, SubSeqProperties
<1> HIDE DEF v
<1>6. Len(v) = 2 /\ v[1] = u[2] /\ v[2] = u[3]
  BY <1>5
<1>7. \A i \in 1 .. 2 : v[i] = t[i]
  BY <1>2, <1>6
<1>8. v = t
  BY <1>1, <1>5, <1>6, <1>7, SeqEqual
<1>9. <<>> \o v = v
  BY <1>5, ConcatEmptySeq
<1>10. H!RemoveAt(u, 1) = SubSeq(u, 1, 0) \o v
  BY <1>1 DEF H!RemoveAt, v
<1> QED
  BY <1>3, <1>8, <1>9, <1>10 DEF t, u

LEMMA HooksInitKeeps ==
  ASSUME HooksInv, H!HooksInit
  PROVE  HooksInv'
<1>1. /\ original["sta_hook"] = "null" /\ UNCHANGED <<list, cgnat, hookedWg>>
      /\ original' = [original EXCEPT !["sta_hook"] = input["sta"], !["ap_hook"] = input["ap"]]
      /\ input' = [input EXCEPT !["sta"] = "sta_hook", !["ap"] = "ap_hook"]
  BY DEF H!HooksInit
<1>2. /\ input \in [H!Netifs -> Own \cup Shims] /\ {"sta", "ap"} \subseteq H!Netifs
      /\ original \in [Shims -> Own \cup Shims \cup {"null"}]
  BY DEF HooksInv, HooksTyped, H!Netifs
<1>3. input["sta"] = "sta_input" /\ input["ap"] = "ap_input"
  BY <1>1 DEF HooksInv, ShimsInv
<1>4. HooksTyped'
  BY <1>1, <1>2 DEF HooksTyped, Shims
<1>5. /\ input'["sta"] = "sta_hook" /\ input'["ap"] = "ap_hook"
      /\ \A n \in Tunnels : input'[n] = input[n]
  BY <1>1, <1>2, TunnelsAssumption DEF H!Netifs
<1>6. /\ original'["sta_hook"] = "sta_input" /\ original'["ap_hook"] = "ap_input"
      /\ original'["wg_hook"] = original["wg_hook"]
  BY <1>1, <1>2, <1>3 DEF Shims
<1>7. ShimsInv'
  BY <1>1, <1>5, <1>6 DEF HooksInv, ShimsInv, TunnelOnly
<1>8. ListInv'
  BY <1>1 DEF HooksInv, ListInv, TunnelOnly
<1> QED
  BY <1>4, <1>7, <1>8 DEF HooksInv

(* A refresh finds the tunnel interface, and not one that has the shim.    *)
LEMMA FoundTunnel ==
  ASSUME HooksInv, H!Found # 0
  PROVE  list[H!Found] \in Tunnels /\ TunnelOnly(list[H!Found])
<1> DEFINE I == {i \in 1 .. Len(list) : list[i] \in cgnat}
<1>1. I # {} /\ H!Found = CHOOSE x \in I : \A y \in I : x <= y
  BY DEF H!Found, H!SelectInSeq, H!IsTunnel, H!Min
<1>2. Len(list) \in {2, 3}
  BY DEF HooksInv, ListInv, TunnelOnly
<1>3. I \subseteq 1 .. 3
  BY <1>2
<1>4. \E x \in I : \A y \in I : x <= y
  <2> HIDE DEF I
  <2>1. CASE 1 \in I
    BY <1>3, <2>1
  <2>2. CASE 1 \notin I /\ 2 \in I
    <3>1. \A y \in I : y \in 1 .. 3 /\ y # 1
      BY <1>3, <2>2
    <3>2. \A y \in I : 2 <= y
      BY <3>1
    <3> QED
      BY <2>2, <3>2
  <2>3. CASE 1 \notin I /\ 2 \notin I
    <3>1. \A y \in I : y = 3
      BY <1>3, <2>3
    <3>2. PICK y \in I : TRUE
      BY <1>1
    <3> QED
      BY <3>1, <3>2
  <2> QED
    BY <2>1, <2>2, <2>3
<1>5. H!Found \in I
  <2> HIDE DEF I
  <2> QED
    BY <1>1, <1>4
<1>6. list[H!Found] \in Tunnels /\ H!Found \in 1 .. Len(list)
  BY <1>5 DEF HooksInv, ListInv
<1>7. TunnelOnly(list[H!Found])
  <2>1. "ap" \notin Tunnels /\ "sta" \notin Tunnels
    BY TunnelsAssumption
  <2>2. list # <<"ap", "sta">>
    BY <1>6, <2>1
  <2>3. PICK n \in Tunnels : list = <<n, "ap", "sta">>
    BY <2>2 DEF HooksInv, ListInv, TunnelOnly
  <2>4. H!Found \in {1, 2, 3}
    BY <1>6, <2>3
  <2>5. H!Found = 1
    BY <1>6, <2>1, <2>3, <2>4
  <2> QED
    BY <2>3, <2>5 DEF TunnelOnly
<1> QED
  BY <1>6, <1>7

LEMMA RefreshKeeps ==
  ASSUME HooksInv, H!Refresh
  PROVE  HooksInv'
<1> DEFINE n == list[H!Found]
<1>1. /\ H!Found # 0 /\ ~H!AlreadyHooked(n) /\ UNCHANGED <<list, cgnat>>
      /\ original' = [original EXCEPT !["wg_hook"] = input[n]]
      /\ hookedWg' = n /\ input' = [input EXCEPT ![n] = "wg_hook"]
  BY DEF H!Refresh
<1>2. n \in Tunnels /\ TunnelOnly(n)
  BY <1>1, FoundTunnel
<1> HIDE DEF n
<1>3. input[n] = "tunnel_input"
  BY <1>1, <1>2 DEF HooksInv, ShimsInv, H!AlreadyHooked
<1>4. /\ input \in [H!Netifs -> Own \cup Shims] /\ n \in H!Netifs
      /\ original \in [Shims -> Own \cup Shims \cup {"null"}]
  BY <1>2 DEF HooksInv, HooksTyped, H!Netifs
<1>5. n # "sta" /\ n # "ap"
  BY <1>2, TunnelsAssumption
<1>6. /\ input'["sta"] = input["sta"] /\ input'["ap"] = input["ap"] /\ input'[n] = "wg_hook"
      /\ original'["sta_hook"] = original["sta_hook"] /\ original'["ap_hook"] = original["ap_hook"]
      /\ original'["wg_hook"] = "tunnel_input"
  BY <1>1, <1>3, <1>4, <1>5 DEF Shims, H!Netifs
<1>7. HooksTyped'
  BY <1>1, <1>3, <1>4 DEF HooksTyped, Shims, Own
<1>8. \A k \in Tunnels : TunnelOnly(k)' => k = n
  BY <1>1, <1>2 DEF TunnelOnly
<1>9. ShimsInv'
  BY <1>1, <1>6, <1>8 DEF HooksInv, ShimsInv
<1>10. ListInv'
  BY <1>1 DEF HooksInv, ListInv, TunnelOnly
<1> QED
  BY <1>7, <1>9, <1>10 DEF HooksInv

(* An interface comes without the shim, wherever it is in memory.          *)
LEMMA TunnelUpKeeps ==
  ASSUME NEW n \in Tunnels, HooksInv, H!TunnelUp(n)
  PROVE  HooksInv'
<1>1. /\ Tunnels \cap H!ToSet(list) = {} /\ list' = <<n>> \o list /\ cgnat' = cgnat \cup {n}
      /\ input' = [input EXCEPT ![n] = H!Own(n)] /\ UNCHANGED <<original, hookedWg>>
  BY DEF H!TunnelUp
<1>2. n # "sta" /\ n # "ap"
  BY TunnelsAssumption
<1>3. H!Own(n) = "tunnel_input"
  BY <1>2 DEF H!Own
<1>4. list = <<"ap", "sta">>
  <2>1. ASSUME NEW k \in Tunnels, list = <<k, "ap", "sta">> PROVE FALSE
    <3>1. k \in H!ToSet(list)
      BY <2>1 DEF H!ToSet
    <3> QED
      BY <1>1, <3>1
  <2> QED
    BY <2>1 DEF HooksInv, ListInv, TunnelOnly
<1>5. list' = <<n, "ap", "sta">>
  BY <1>1, <1>4, Linked
<1>6. ListInv'
  BY <1>1, <1>5 DEF HooksInv, ListInv, TunnelOnly
<1>7. /\ input \in [H!Netifs -> Own \cup Shims] /\ n \in H!Netifs
      /\ original \in [Shims -> Own \cup Shims \cup {"null"}]
  BY DEF HooksInv, HooksTyped, H!Netifs
<1>8. /\ input'["sta"] = input["sta"] /\ input'["ap"] = input["ap"]
      /\ input'[n] = "tunnel_input"
  BY <1>1, <1>2, <1>3, <1>7 DEF H!Netifs
<1>9. HooksTyped'
  BY <1>1, <1>3, <1>7 DEF HooksTyped, Own
<1>10. \A k \in Tunnels : TunnelOnly(k)' => k = n
  BY <1>5 DEF TunnelOnly
<1>11. ShimsInv'
  BY <1>1, <1>8, <1>10 DEF HooksInv, ShimsInv
<1> QED
  BY <1>6, <1>9, <1>11 DEF HooksInv

LEMMA TunnelDownKeeps ==
  ASSUME NEW n \in Tunnels, HooksInv, H!TunnelDown(n)
  PROVE  HooksInv'
<1>1. /\ cgnat' = cgnat \ {n} /\ UNCHANGED <<input, original, hookedWg>>
  BY DEF H!TunnelDown
<1>2. PICK i \in DOMAIN list : list[i] = n /\ list' = H!RemoveAt(list, i)
  BY DEF H!TunnelDown
<1>3. n # "sta" /\ n # "ap"
  BY TunnelsAssumption
<1>4. i = 1 /\ list = <<n, "ap", "sta">>
  <2>1. list # <<"ap", "sta">>
    BY <1>2, <1>3
  <2>2. PICK k \in Tunnels : list = <<k, "ap", "sta">>
    BY <2>1 DEF HooksInv, ListInv, TunnelOnly
  <2>3. i \in {1, 2, 3}
    BY <1>2, <2>2
  <2> QED
    BY <1>2, <1>3, <2>2, <2>3
<1>5. list' = <<"ap", "sta">>
  BY <1>2, <1>4, Unlinked
<1>6. \A k \in Tunnels : ~TunnelOnly(k)'
  <2>1. \A k \in Tunnels : k # "ap"
    BY TunnelsAssumption
  <2> QED
    BY <1>5, <2>1 DEF TunnelOnly
<1>7. ListInv' /\ HooksTyped'
  BY <1>1, <1>5 DEF HooksInv, ListInv, HooksTyped
<1>8. ShimsInv'
  BY <1>1, <1>6 DEF HooksInv, ShimsInv
<1> QED
  BY <1>7, <1>8 DEF HooksInv

LEMMA HooksNext ==
  ASSUME UplinkCgnat = FALSE, HooksInv, H!Next \/ UNCHANGED hv
  PROVE  HooksInv'
<1>1. CASE H!UplinkAddr
  <2>1. cgnat' = cgnat \ {"sta"} /\ UNCHANGED <<list, input, original, hookedWg>>
    BY <1>1 DEF H!UplinkAddr
  <2> QED
    BY <2>1 DEF HooksInv, ListInv, HooksTyped, ShimsInv, TunnelOnly
<1>2. CASE UNCHANGED hv
  BY <1>2 DEF hv, HooksInv, ListInv, HooksTyped, ShimsInv, TunnelOnly
<1> QED
  BY <1>1, <1>2, HooksInitKeeps, RefreshKeeps, TunnelUpKeeps, TunnelDownKeeps DEF H!Next

LEMMA HooksReach == HooksInv => H!PacketsReachTheStack
<1> SUFFICES ASSUME HooksInv, NEW n \in H!ToSet(list) PROVE H!Reaches(input[n]) = H!Own(n)
  BY DEF H!PacketsReachTheStack
<1>1. DOMAIN original = Shims
  BY DEF HooksInv, HooksTyped
<1>2. \A f \in Own : H!Reaches(f) = f
  BY <1>1 DEF H!Reaches, Own, Shims
<1>3. ASSUME NEW h \in Shims, NEW f \in Own, original[h] = f PROVE H!Reaches(h) = f
  BY <1>1, <1>3 DEF H!Reaches, Own, Shims
<1>4. CASE n = "sta"
  BY <1>2, <1>3, <1>4 DEF HooksInv, ShimsInv, H!Own, Own, Shims
<1>5. CASE n = "ap"
  BY <1>2, <1>3, <1>5 DEF HooksInv, ShimsInv, H!Own, Own, Shims
<1>6. CASE n # "sta" /\ n # "ap"
  <2>1. n \in Tunnels /\ TunnelOnly(n)
    BY <1>6 DEF H!ToSet, HooksInv, ListInv, TunnelOnly
  <2>2. H!Own(n) = "tunnel_input"
    BY <1>6 DEF H!Own
  <2> QED
    BY <1>2, <1>3, <2>1, <2>2 DEF HooksInv, ShimsInv, Own, Shims
<1> QED
  BY <1>4, <1>5, <1>6

(* A packet that a shim lets through goes on to the function that its      *)
(* interface came with, over any reconnects and wherever in memory they    *)
(* put the interface: no refresh makes a shim call itself. (The other half *)
(* of ShimsHold is liveness.)                                              *)
THEOREM PacketsGoOn ==
  ASSUME UplinkCgnat = FALSE
  PROVE  LinksSpec => []H!PacketsReachTheStack
<1>1. LinksInit => HooksInv
  BY HooksBegin DEF LinksInit
<1>2. HooksInv /\ [LinksNext]_<<on, vars, hv, tv, cv>> => HooksInv'
  <2>1. [LinksNext]_<<on, vars, hv, tv, cv>> => H!Next \/ UNCHANGED hv
    BY DEF LinksNext
  <2> QED
    BY <2>1, HooksNext
<1> QED
  BY <1>1, <1>2, HooksReach, PTL DEF LinksSpec
=============================================================================
