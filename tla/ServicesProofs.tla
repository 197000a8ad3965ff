--------------------------- MODULE ServicesProofs ---------------------------
(* Proofs about what MCServices composes, for all values of the constants: *)
(* the recorder's files, which are those of SdFiles, the recorder's calls, *)
(* the MQTT bridge, the remote commands and the outage alert.              *)
EXTENDS MCServices, SequenceTheorems, FiniteSetTheorems, WellFoundedInduction, TLAPS

-----------------------------------------------------------------------------
(* The smallest of a set of file numbers exists: prune_old_files always    *)
(* finds a victim, and it is the oldest.                                   *)
LEMMA MinIsSmallest ==
  ASSUME NEW S \in SUBSET Nat, S # {}
  PROVE  Min(S) \in S /\ \A y \in S : Min(S) <= y
<1>1. \E x \in S : \A y \in S : ~ (<<y, x>> \in OpToRel(<, Nat))
  BY NatLessThanWellFounded, WFMin
<1>2. \E x \in S : \A y \in S : x <= y
  <2>1. PICK x \in S : \A y \in S : ~ (<<y, x>> \in OpToRel(<, Nat))
    BY <1>1
  <2>2. \A y \in S : x <= y
    <3> SUFFICES ASSUME NEW y \in S PROVE x <= y
      OBVIOUS
    <3>1. ~ (<<y, x>> \in OpToRel(<, Nat))
      BY <2>1
    <3>2. x \in Nat /\ y \in Nat
      OBVIOUS
    <3>3. ~ (y < x)
      BY <3>1, <3>2 DEF OpToRel
    <3> QED BY <3>2, <3>3
  <2> QED BY <2>2
<1> QED BY <1>2 DEF Min

(* Every variable keeps its type, in particular the number a boot loads.   *)
THEOREM TypeCorrect == Spec => []TypeOK
<1> USE ConstantsAssumption DEF TypeOK, Seqs
<1>1. Init => TypeOK
  <2>1. Init => truncated \in BOOLEAN
    BY DEF Init
  <2>2. Init => nextSeq = 1 /\ nvsSeq = 0 /\ files = {} /\ logged = {}
                /\ active = 0 /\ pc \in {"off", "closed"}
    BY Zenon DEF Init, LoadSeq
  <2> QED BY <2>1, <2>2
<1>2. TypeOK /\ [Next]_vars => TypeOK'
  <2> SUFFICES ASSUME TypeOK, [Next]_vars PROVE TypeOK'
    OBVIOUS
  <2>1. CASE OpenNew
    BY <2>1 DEF OpenNew
  <2>2. CASE SaveSeq
    BY <2>2 DEF SaveSeq, Saved
  <2>3. CASE Prune
    BY <2>3 DEF Prune
  <2>4. CASE WriteLine
    BY <2>4 DEF WriteLine
  <2>5. CASE Stop
    BY <2>5 DEF Stop
  <2>6. CASE Start
    BY <2>6 DEF Start
  <2>7. CASE EraseAll
    BY <2>7 DEF EraseAll
  <2>8. CASE Boot
    BY <2>8 DEF Boot, Found, LoadSeq
  <2>9. CASE UNCHANGED vars
    BY <2>9 DEF vars
  <2> QED BY <2>1, <2>2, <2>3, <2>4, <2>5, <2>6, <2>7, <2>8, <2>9 DEF Next
<1> QED BY <1>1, <1>2, PTL DEF Spec

-----------------------------------------------------------------------------
(* FilesInv is inductive while NVS keeps what is written to it. *)
LEMMA FilesInvInit == Init => FilesInv
BY DEF Init, FilesInv, SeqInv, ActiveInv, NeverTruncates, LoadSeq

LEMMA FilesInvStep ==
  ASSUME ~NvsMayFail, ~FactoryResets, TypeOK, FilesInv, [Next]_vars
  PROVE  FilesInv'
<1> USE ConstantsAssumption
    DEF TypeOK, Seqs, FilesInv, SeqInv, ActiveInv, NeverTruncates, LoadSeq
<1>1. CASE OpenNew
  BY <1>1 DEF OpenNew
<1>2. CASE SaveSeq
  BY <1>2 DEF SaveSeq, Saved
<1>3. CASE Prune
  <2>1. CASE PruneDone
    BY <1>3, <2>1 DEF Prune
  <2>2. CASE ~PruneDone
    <3>1. files # {} /\ active \in files /\ files \in SUBSET Nat
      BY <1>3 DEF Prune
    <3>2. Victim \in files /\ \A f \in files : Victim <= f
      BY <3>1, MinIsSmallest DEF Victim
    <3>3. Victim # active
      <4> SUFFICES ASSUME Victim = active PROVE FALSE
        OBVIOUS
      <4>1. \A f \in files : f <= active
        BY <1>3 DEF Prune
      <4>2. \A f \in files : f = active
        <5> SUFFICES ASSUME NEW f \in files PROVE f = active
          OBVIOUS
        <5>1. f <= active /\ active <= f /\ f \in Nat /\ active \in Nat
          BY <3>1, <3>2, <4>1
        <5> QED BY <5>1
      <4>3. files = {active}
        BY <3>1, <4>2, Zenon
      <4>4. Cardinality(files) = 1
        BY <4>3, FS_Singleton
      <4> QED BY <2>2, <4>4 DEF PruneDone
    <3>4. /\ files' = files \ {Victim} /\ logged' = logged \ {Victim}
          /\ UNCHANGED <<active, nextSeq, nvsSeq, pc, truncated>>
      BY <1>3, <2>2 DEF Prune
    <3> QED BY <1>3, <3>3, <3>4 DEF Prune
  <2> QED BY <2>1, <2>2
<1>4. CASE WriteLine
  BY <1>4 DEF WriteLine
<1>5. CASE Stop
  BY <1>5 DEF Stop
<1>6. CASE Start
  BY <1>6 DEF Start
<1>7. CASE EraseAll
  BY <1>7 DEF EraseAll
<1>8. CASE Boot
  BY <1>8 DEF Boot, Found
<1>9. CASE UNCHANGED vars
  BY <1>9 DEF vars
<1> QED
  BY <1>1, <1>2, <1>3, <1>4, <1>5, <1>6, <1>7, <1>8, <1>9 DEF Next

(* The two facts about the recorder's log: while NVS keeps the number, no  *)
(* file that holds lines is opened for writing again, wherever a reset     *)
(* falls between fopen, save_seq and the pruning, and pruning never takes  *)
(* the open file.                                                          *)
THEOREM NothingLost ==
  ~NvsMayFail /\ ~FactoryResets =>
    (Spec => [](NeverTruncates /\ ActiveSurvives))
<1> SUFFICES ASSUME ~NvsMayFail, ~FactoryResets
             PROVE  Spec => [](NeverTruncates /\ ActiveSurvives)
  OBVIOUS
<1>1. Init => FilesInv
  BY FilesInvInit
<1>2. TypeOK /\ FilesInv /\ [Next]_vars => FilesInv'
  BY FilesInvStep
<1>3. FilesInv => NeverTruncates /\ ActiveSurvives
  BY DEF FilesInv, ActiveInv, ActiveSurvives
<1> QED BY <1>1, <1>2, <1>3, TypeCorrect, PTL DEF Spec

(* The part of it about pruning: the file that the recorder writes to      *)
(* stays on the card.                                                      *)
THEOREM ActiveFileStays ==
  ~NvsMayFail /\ ~FactoryResets => (Spec => []ActiveSurvives)
  BY NothingLost, PTL

(* The card never holds more files than the limit while the recorder       *)
(* writes, even when NVS fails or is erased.                               *)
THEOREM FilesStayBounded == Spec => []FilesBounded
<1>1. Init => FilesBounded
  BY DEF Init, FilesBounded
<1>2. FilesBounded /\ [Next]_vars => FilesBounded'
  BY DEF FilesBounded, Next, vars, OpenNew, SaveSeq, Prune, PruneDone,
         WriteLine, Stop, Start, EraseAll, Boot
<1> QED BY <1>1, <1>2, PTL DEF Spec

-----------------------------------------------------------------------------
(* The outage alert. *)
Counted(yes) == (yes => given = 1) /\ (~yes => given = 0)

(* While no other publisher's result came in between: the latch, a due     *)
(* alert and the result just left each say how many alerts were given.     *)
AlertInv ==
  /\ alertPc \in {"idle", "publish", "between"}
  /\ ~mixed => /\ alertPc = "idle" => Counted(alerted)
               /\ alertPc = "publish" => given = 0
               /\ alertPc = "between" => Counted(lastOk)

LEMMA AlertInit == A!Init => AlertInv
  BY DEF A!Init, AlertInv, Counted

(* One step of each kind preserves it.                                     *)
LEMMA AlertNext == AlertInv /\ [A!Next]_av => AlertInv'
<1> SUFFICES ASSUME AlertInv, [A!Next]_av PROVE AlertInv'
  OBVIOUS
<1>1. CASE A!Tick
  <2>1. CASE A!Reset
    BY <1>1, <2>1 DEF A!Tick, A!Reset, AlertInv, Counted
  <2>2. CASE A!Count /\ A!Down
    <3>1. /\ alertPc = "idle" /\ UNCHANGED <<alerted, given, mixed, lastOk>>
          /\ alertPc' = "idle" \/ (alertPc' = "publish" /\ ~alerted)
      BY <1>1, <2>2 DEF A!Tick, A!Count, A!Due
    <3> QED
      BY <3>1 DEF AlertInv, Counted
  <2>3. CASE A!Count /\ ~A!Down
    BY <1>1, <2>3 DEF A!Tick, A!Count, AlertInv, Counted
  <2> QED
    BY <1>1, <2>1, <2>2, <2>3 DEF A!Tick
<1>2. CASE A!Alert
  <2>1. /\ alertPc = "publish" /\ alertPc' = "between" /\ mixed' = mixed
        /\ \E ok \in BOOLEAN : lastOk' = ok /\ given' = IF ok THEN given + 1 ELSE given
    BY <1>2 DEF A!Alert, A!Posted
  <2>2. CASE lastOk' /\ given' = given + 1
    BY <2>1, <2>2 DEF AlertInv, Counted
  <2>3. CASE ~lastOk' /\ given' = given
    BY <2>1, <2>3 DEF AlertInv, Counted
  <2> QED
    BY <2>1, <2>2, <2>3
<1>3. CASE A!NoMemory
  BY <1>3 DEF A!NoMemory, AlertInv
<1>4. CASE A!Read
  BY <1>4 DEF A!Read, A!Latched, A!history, AlertInv, Counted
<1>5. CASE A!Test
  BY <1>5 DEF A!Test, A!locals, AlertInv, Counted
<1>6. CASE A!Info
  BY <1>6 DEF A!Info, A!locals, A!history, AlertInv, Counted
<1>7. CASE A!Configure
  BY <1>7 DEF A!Configure, A!locals, A!history, AlertInv, Counted
<1>8. CASE A!World
  BY <1>8 DEF A!World, A!locals, A!history, AlertInv, Counted
<1>9. CASE UNCHANGED av
  BY <1>9 DEF av, AlertInv, Counted
<1> QED
  BY <1>1, <1>2, <1>3, <1>4, <1>5, <1>6, <1>7, <1>8, <1>9 DEF A!Next

(* task_main gives one alert for an outage and is done with it when it was *)
(* given, whatever fails, is switched or is published beside it, unless    *)
(* another publisher's result was read for its own.                        *)
THEOREM OneAlert == ServicesSpec => []OncePerOutage
<1>1. ServicesInit => AlertInv
  BY AlertInit DEF ServicesInit
<1>2. AlertInv /\ [ServicesNext]_<<on, vars, lv, bv, nv, av>> => AlertInv'
  <2>1. [ServicesNext]_<<on, vars, lv, bv, nv, av>> => [A!Next]_av
    BY DEF ServicesNext
  <2> QED
    BY <2>1, AlertNext
<1>3. AlertInv => OncePerOutage
  <2> SUFFICES ASSUME AlertInv, ~mixed
               PROVE  given <= 1 /\ (alertPc = "idle" => (alerted <=> given = 1))
    BY DEF OncePerOutage, A!OncePerOutage
  <2>1. given = 0 \/ given = 1
    BY DEF AlertInv, Counted
  <2>2. given <= 1
    BY <2>1
  <2>3. alertPc = "idle" => (alerted => given = 1) /\ (~alerted => given # 1)
    BY DEF AlertInv, Counted
  <2> QED
    BY <2>2, <2>3
<1> QED
  BY <1>1, <1>2, <1>3, PTL DEF ServicesSpec

-----------------------------------------------------------------------------
(* The MQTT bridge.  The places of the manager's turn, and what the watch- *)
(* dog's latch and the kept command say of the bursts and the restarts.    *)
MgrPcs ==
  {"start", "state", "send", "ask", "disc", "watch", "burst", "loop", "stop"}

BridgeTyped == mgr \in [pc : MgrPcs, n : Int, i : Int] /\ rules \in Int

(* A burst is due or the latch is open only in an outage without one.      *)
BurstInv ==
  /\ bursts = 0 \/ bursts = 1
  /\ ~triggered \/ mgr.pc = "burst" => bursts = 0

(* A command the broker does not hold has restarted nothing yet.           *)
CommandInv ==
  /\ runs = 0 \/ runs = 1
  /\ command = "none" => runs = 0

BridgeInv == BridgeTyped /\ BurstInv /\ CommandInv

LEMMA PlaceTyped == \A at \in MgrPcs : B!At(at) \in [pc : MgrPcs, n : Int, i : Int]
  BY DEF B!At

LEMMA BridgeInit == B!Init => BridgeInv
  BY PlaceTyped DEF B!Init, BridgeInv, BridgeTyped, BurstInv, CommandInv, B!At, MgrPcs

(* A step of the manager that is neither the latch's nor the burst's.      *)
LEMMA ManagerMoves ==
  ASSUME BridgeInv, mgr' \in [pc : MgrPcs, n : Int, i : Int], mgr'.pc # "burst",
         UNCHANGED <<rules, bursts, triggered, command, runs>>
  PROVE  BridgeInv'
  BY DEF BridgeInv, BridgeTyped, BurstInv, CommandInv

LEMMA BridgeManager ==
  ASSUME BridgeInv, B!Manager
  PROVE  BridgeInv'
<1> USE DEF B!commands, B!settings, B!rest, B!tables, B!flags, B!clock
<1>1. CASE B!Notified
  BY <1>1, PlaceTyped, ManagerMoves DEF B!Notified, B!At, MgrPcs
<1>2. CASE B!StopClient
  BY <1>2, PlaceTyped, ManagerMoves DEF B!StopClient, B!At, MgrPcs
<1>3. CASE B!StartClient
  <2>1. mgr' = B!At("state") /\ UNCHANGED <<rules, command, runs>>
    BY <1>3 DEF B!StartClient
  <2>2. mgr' \in [pc : MgrPcs, n : Int, i : Int] /\ mgr'.pc = "state"
    BY <2>1, PlaceTyped DEF B!At, MgrPcs
  <2>3. (triggered' = FALSE /\ bursts' = 0) \/ UNCHANGED <<triggered, bursts>>
    BY <1>3 DEF B!StartClient
  <2> QED
    BY <2>1, <2>2, <2>3 DEF BridgeInv, BridgeTyped, BurstInv, CommandInv
<1>4. CASE B!Wake
  BY <1>4, PlaceTyped, ManagerMoves DEF B!Wake, B!At, MgrPcs, B!link
<1>5. CASE B!StateWanted
  <2>1. mgr' \in [pc : MgrPcs, n : Int, i : Int] /\ mgr'.pc = "send"
    BY <1>5 DEF B!StateWanted, BridgeInv, BridgeTyped, MgrPcs
  <2> QED
    BY <1>5, <2>1, ManagerMoves DEF B!StateWanted, B!link
<1>6. CASE B!NoState
  BY <1>6, PlaceTyped, ManagerMoves DEF B!NoState, B!At, MgrPcs, B!link
<1>7. CASE B!SendState
  BY <1>7, PlaceTyped, ManagerMoves DEF B!SendState, B!At, MgrPcs, B!link
<1>8. CASE B!Ask
  <2>1. mgr' \in [pc : MgrPcs, n : Int, i : Int] /\ mgr'.pc \in {"disc", "watch"}
    BY <1>8, PlaceTyped DEF B!Ask, B!Counting, B!At, BridgeInv, BridgeTyped, MgrPcs
  <2> QED
    BY <1>8, <2>1, ManagerMoves DEF B!Ask, B!link
<1>9. CASE B!MgrDiscover
  <2>1. mgr' \in [pc : MgrPcs, n : Int, i : Int] /\ mgr'.pc \in {"disc", "watch"}
    BY <1>9, PlaceTyped
    DEF B!MgrDiscover, B!Discover, B!After, B!At, BridgeInv, BridgeTyped, MgrPcs
  <2> QED
    BY <1>9, <2>1, ManagerMoves DEF B!MgrDiscover, B!link
<1>10. CASE B!Watch
  <2>1. CASE B!Silent
    BY <1>10, <2>1, PlaceTyped
    DEF B!Watch, B!Silent, B!At, MgrPcs, B!link, BridgeInv, BridgeTyped, BurstInv, CommandInv
  <2>2. CASE ~B!Silent
    BY <1>10, <2>2, PlaceTyped, ManagerMoves DEF B!Watch, B!At, MgrPcs, B!link
  <2> QED
    BY <2>1, <2>2
<1>11. CASE B!Burst
  <2>1. mgr' = B!At("loop") /\ triggered' = TRUE /\ bursts' = bursts + 1 /\ bursts = 0
    BY <1>11 DEF B!Burst, B!Armed, BridgeInv, BurstInv
  <2> QED
    BY <1>11, <2>1, PlaceTyped
    DEF B!Burst, B!At, MgrPcs, BridgeInv, BridgeTyped, BurstInv, CommandInv
<1> QED
  BY <1>1, <1>2, <1>3, <1>4, <1>5, <1>6, <1>7, <1>8, <1>9, <1>10, <1>11 DEF B!Manager

(* A step that leaves the manager, the latch and the commands alone.       *)
LEMMA BridgeRests ==
  ASSUME BridgeInv, rules' \in Int, UNCHANGED <<mgr, bursts, triggered, command, runs>>
  PROVE  BridgeInv'
  BY DEF BridgeInv, BridgeTyped, BurstInv, CommandInv

(* The client's own task: a new connection arms the watchdog again.        *)
LEMMA BridgeClient ==
  ASSUME BridgeInv, B!Client
  PROVE  BridgeInv'
<1> USE DEF B!commands, B!settings, B!rest, B!tables, B!flags, B!link
<1>0. rules \in Int
  BY DEF BridgeInv, BridgeTyped
<1>1. CASE B!Connected
  BY <1>1 DEF B!Connected, BridgeInv, BridgeTyped, BurstInv, CommandInv
<1>2. CASE B!Greet \/ B!ConnDiscover \/ B!ConnState \/ B!ConnSend
  BY <1>0, <1>2, BridgeRests DEF B!Greet, B!ConnDiscover, B!ConnState, B!ConnSend
<1>3. CASE B!Disconnected \/ B!AttemptFails
  BY <1>0, <1>3, BridgeRests DEF B!Disconnected, B!AttemptFails, B!Lost
<1> QED
  BY <1>1, <1>2, <1>3 DEF B!Client

(* A retained command is ignored; a live one restarts the router and is    *)
(* kept by the broker from then on.                                        *)
LEMMA BridgeCommand ==
  ASSUME BridgeInv, B!CommandSent \/ B!CommandOffered
  PROVE  BridgeInv'
<1> USE DEF B!settings, B!link, B!tables, B!flags
<1>0. rules \in Int
  BY DEF BridgeInv, BridgeTyped
<1>1. CASE B!CommandSent /\ B!Restart
  <2>1. runs = 0 /\ runs' = 1 /\ command' = "kept"
    BY <1>1 DEF B!CommandSent, B!Restart, B!Capped, BridgeInv, CommandInv
  <2> QED
    BY <1>1, <2>1, PlaceTyped
    DEF B!Restart, B!At, MgrPcs, BridgeInv, BridgeTyped, BurstInv, CommandInv
<1>2. CASE B!CommandSent /\ ~B!Restart
  BY <1>2 DEF B!CommandSent, BridgeInv, BridgeTyped, BurstInv, CommandInv
<1>3. CASE B!CommandOffered
  BY <1>3 DEF B!CommandOffered, B!Ignored, BridgeInv, BridgeTyped, BurstInv, CommandInv
<1> QED
  BY <1>1, <1>2, <1>3

LEMMA BridgeNext == BridgeInv /\ [B!Next]_bv => BridgeInv'
<1> SUFFICES ASSUME BridgeInv, [B!Next]_bv PROVE BridgeInv'
  OBVIOUS
<1> USE DEF B!commands, B!settings, B!link, B!tables, B!flags, B!clock
<1>0. rules \in Int
  BY DEF BridgeInv, BridgeTyped
<1>1. CASE B!Tick \/ B!Notice \/ B!EditWol \/ B!BrokerChange
  BY <1>0, <1>1, BridgeRests DEF B!Tick, B!Notice, B!EditWol, B!BrokerChange, B!rest
<1>2. ASSUME NEW c \in [on : BOOLEAN, watch : BOOLEAN], B!SetConfig(c) PROVE BridgeInv'
  BY <1>0, <1>2, BridgeRests DEF B!SetConfig
<1>3. ASSUME NEW n \in 0..MaxRules, B!EditRules(n) PROVE BridgeInv'
  BY <1>0, <1>3, BridgeRests DEF B!EditRules
<1>4. CASE UNCHANGED bv
  BY <1>0, <1>4, BridgeRests DEF bv
<1> QED
  BY <1>1, <1>2, <1>3, <1>4, BridgeManager, BridgeClient, BridgeCommand DEF B!Next

(* One burst of wake packets for an outage of the broker and one restart   *)
(* for a command, whatever the client, the settings and the broker do.     *)
THEOREM OnceIsOnce == ServicesSpec => []OnceEach
<1>1. ServicesInit => BridgeInv
  BY BridgeInit DEF ServicesInit
<1>2. BridgeInv /\ [ServicesNext]_<<on, vars, lv, bv, nv, av>> => BridgeInv'
  <2>1. [ServicesNext]_<<on, vars, lv, bv, nv, av>> => [B!Next]_bv
    BY DEF ServicesNext
  <2> QED
    BY <2>1, BridgeNext
<1>3. BridgeInv => OnceEach
  BY DEF BridgeInv, BurstInv, CommandInv, OnceEach, B!OnceEach, B!OneBurst, B!RestartsOnce
<1> QED
  BY <1>1, <1>2, <1>3, PTL DEF ServicesSpec

-----------------------------------------------------------------------------
(* The recorder, with the one task that flushes before it restarts.        *)
RecorderTyped ==
  /\ enabled \in BOOLEAN /\ queueUp \in BOOLEAN /\ done \in BOOLEAN /\ fp \in BOOLEAN
  /\ queue \in Seq(L!Items) /\ item \in L!Items
  /\ wpc \in {"none", "start", "recv", "have", "give", "end"}
  /\ hpc \in {"idle", "poison", "wait", "delete"}
  /\ fpc \in [{evloop} -> {"idle", "send", "wait", "ok", "failed"}]
  /\ due \in [{evloop} -> SUBSET L!Lines]
  /\ place \in [L!Lines -> {"new", "queue", "file", "card", "gone"}]

Queued == 1 .. Len(queue)
Holds(x) == wpc = "have" /\ item = x

(* A line that is in the queue is there once, or with the writer; one in   *)
(* the file has an open file.                                              *)
LinesInv ==
  /\ \A i \in Queued : queue[i] \in L!Lines => place[queue[i]] = "queue" /\ ~Holds(queue[i])
  /\ \A i, j \in Queued : queue[i] \in L!Lines /\ queue[i] = queue[j] => i = j
  /\ \A l \in L!Lines : Holds(l) => place[l] = "queue"
  /\ \A l \in L!Lines : place[l] = "queue" => Holds(l) \/ \E i \in Queued : queue[i] = l
  /\ \A l \in L!Lines : place[l] = "file" => fp
  /\ wpc \in {"none", "start"} => ~fp
  /\ wpc = "have" => item # L!Poison

(* Where disable is, and how far the writer has come.  Behind the poison   *)
(* there are no lines.                                                     *)
NoPoison == \A i \in Queued : queue[i] # L!Poison
OnlyMarkers == \A i \in Queued : queue[i] = L!Marker
StopInv ==
  /\ hpc # "idle" => ~enabled
  /\ hpc = "idle" /\ enabled => queueUp /\ wpc \notin {"none", "end"} /\ NoPoison
  /\ hpc = "idle" /\ ~enabled => ~queueUp /\ wpc = "none" /\ queue = <<>>
  /\ hpc = "poison" => queueUp /\ wpc \notin {"none", "end"} /\ NoPoison
  /\ hpc = "wait" /\ wpc \in {"none", "end"} => OnlyMarkers
  /\ hpc = "wait" /\ wpc \notin {"none", "end"} =>
       \A i, k \in Queued : queue[k] = L!Poison /\ k < i => queue[i] = L!Marker
  /\ hpc = "delete" => wpc = "none" /\ OnlyMarkers

(* The flush marker: it comes after the lines that are due, and when the   *)
(* writer has dealt with it none of them is in flight.                     *)
Marked == (\E i \in Queued : queue[i] = L!Marker) \/ Holds(L!Marker) \/ wpc = "give" \/ done
FlushInv ==
  /\ fpc[evloop] \in {"idle", "send"} => ~Marked
  /\ \A l \in due[evloop] : place[l] # "new"
  /\ \A i, j \in Queued : queue[i] = L!Marker /\ queue[j] \in due[evloop] => j < i
  /\ Holds(L!Marker) => \A l \in due[evloop] : place[l] # "queue"
  /\ wpc = "give" \/ done \/ fpc[evloop] = "ok" => due[evloop] \cap L!InFlight = {}

RecorderInv == RecorderTyped /\ LinesInv /\ StopInv /\ FlushInv

LEMMA Kinds == L!Poison \notin L!Lines /\ L!Marker \notin L!Lines /\ L!Poison # L!Marker
               /\ L!Lines \subseteq L!Items /\ L!Poison \in L!Items /\ L!Marker \in L!Items
  BY LinesAssumption DEF L!Poison, L!Marker, L!Lines, L!Items

(* The queue after a message is sent, and after one is received.           *)
LEMMA Sent ==
  ASSUME queue \in Seq(L!Items), NEW x \in L!Items, queue' = Append(queue, x)
  PROVE  /\ queue' \in Seq(L!Items) /\ Len(queue) \in Nat /\ Queued' = 1 .. Len(queue) + 1
         /\ \A i \in Queued : queue'[i] = queue[i]
         /\ queue'[Len(queue) + 1] = x
         /\ \A i \in Queued' : i \in Queued \/ i = Len(queue) + 1
         /\ \A i \in Queued : i \in Queued' /\ i < Len(queue) + 1
  BY DEF Queued

LEMMA Received ==
  ASSUME queue \in Seq(L!Items), queue # <<>>, queue' = Tail(queue)
  PROVE  /\ queue' \in Seq(L!Items) /\ Len(queue) \in Nat /\ 1 \in Queued
         /\ Head(queue) = queue[1] /\ Head(queue) \in L!Items
         /\ \A i \in Queued' : i + 1 \in Queued /\ queue'[i] = queue[i + 1] /\ i + 1 > 1 /\ i \in Nat
         /\ \A i \in Queued : i = 1 \/ (i - 1 \in Queued' /\ queue'[i - 1] = queue[i])
  BY DEF Queued

LEMMA RecorderInit == L!Init => RecorderInv
<1> SUFFICES ASSUME L!Init PROVE RecorderInv
  OBVIOUS
<1> USE DEF L!Init
<1>1. queue = <<>> /\ Queued = {}
  BY DEF Queued
<1>2. RecorderTyped
  <2>1. queue \in Seq(L!Items) /\ item \in L!Items
    BY <1>1, Kinds
  <2>2. fpc \in [{evloop} -> {"idle", "send", "wait", "ok", "failed"}]
        /\ due \in [{evloop} -> SUBSET L!Lines]
        /\ place \in [L!Lines -> {"new", "queue", "file", "card", "gone"}]
    OBVIOUS
  <2> QED
    BY <2>1, <2>2 DEF RecorderTyped
<1>3. LinesInv
  BY <1>1 DEF LinesInv, Holds
<1>4. StopInv
  BY <1>1 DEF StopInv, NoPoison, OnlyMarkers
<1>5. FlushInv
  BY <1>1 DEF FlushInv, Marked, Holds
<1> QED
  BY <1>2, <1>3, <1>4, <1>5 DEF RecorderInv

(* sdlog_vprintf: a line that finds the queue full is gone.                *)
LEMMA RecorderLog ==
  ASSUME RecorderInv, NEW l \in L!Lines, L!Log(l)
  PROVE  RecorderInv'
<1> USE DEF RecorderInv, L!recorder, L!writer, L!flushers
<1>0. /\ place[l] = "new" /\ place \in [L!Lines -> {"new", "queue", "file", "card", "gone"}]
      /\ enabled /\ hpc = "idle" /\ NoPoison /\ queueUp
      /\ UNCHANGED <<enabled, queueUp, wpc, item, fp, done, hpc, fpc, due>>
  BY DEF L!Log, StopInv, RecorderTyped
<1>1. CASE L!QueueFull
  <2>1. place' = [place EXCEPT ![l] = "gone"] /\ queue' = queue
    BY <1>1 DEF L!Log
  <2>2. RecorderTyped'
    BY <1>0, <2>1 DEF RecorderTyped
  <2>3. LinesInv'
    BY <1>0, <2>1 DEF LinesInv, Queued, Holds
  <2>4. StopInv'
    BY <1>0, <2>1 DEF StopInv, NoPoison, OnlyMarkers, Queued
  <2>5. FlushInv'
    BY <1>0, <2>1 DEF FlushInv, Marked, Queued, Holds, L!InFlight
  <2> QED
    BY <2>2, <2>3, <2>4, <2>5
<1>2. CASE ~L!QueueFull
  <2>1. place' = [place EXCEPT ![l] = "queue"] /\ queue' = Append(queue, l)
    BY <1>2 DEF L!Log
  <2>2. queue \in Seq(L!Items) /\ l \in L!Items
    BY Kinds DEF RecorderTyped
  <2>3. RecorderTyped'
    BY <1>0, <2>1, <2>2, Sent DEF RecorderTyped
  <2>4. LinesInv'
    BY <1>0, <2>1, <2>2, Sent, Kinds DEF LinesInv, Holds
  <2>5. StopInv'
    BY <1>0, <2>1, <2>2, Sent, Kinds DEF StopInv, NoPoison
  <2>6. FlushInv'
    BY <1>0, <2>1, <2>2, Sent, Kinds DEF FlushInv, Marked, Holds, L!InFlight
  <2> QED
    BY <2>3, <2>4, <2>5, <2>6
<1> QED
  BY <1>1, <1>2

(* The writer's turns on a message, its timed sync and its reopening.       *)
LEMMA RecorderWriter ==
  ASSUME RecorderInv
  PROVE  L!WriterStep \/ L!Reopen \/ L!PeriodicSync => RecorderInv'
<1> USE DEF RecorderInv, L!recorder, L!writer, L!flushers
<1>1. ASSUME L!WriterStart PROVE RecorderInv'
  <2>1. RecorderTyped'
    BY <1>1, Kinds DEF L!WriterStart, L!Opened, RecorderTyped
  <2>2. LinesInv'
    BY <1>1, Kinds DEF L!WriterStart, L!Opened, RecorderTyped, LinesInv, Queued, Holds
  <2>3. StopInv'
    BY <1>1, Kinds DEF L!WriterStart, L!Opened, RecorderTyped, StopInv, NoPoison, OnlyMarkers, Queued, LinesInv
  <2>4. FlushInv'
    BY <1>1, Kinds DEF L!WriterStart, L!Opened, RecorderTyped, LinesInv, FlushInv, Marked, Queued, Holds, L!InFlight
  <2> QED
    BY <2>1, <2>2, <2>3, <2>4
<1>2. ASSUME L!Receive PROVE RecorderInv'
  <2>1. RecorderTyped'
    BY <1>2, Kinds DEF L!Receive, RecorderTyped
  <2>2. LinesInv'
    <3>1. /\ queue \in Seq(L!Items) /\ queue # <<>> /\ queue' = Tail(queue) /\ wpc = "recv"
          /\ item' = queue[1] /\ UNCHANGED <<place, fp>>
          /\ wpc' = IF queue[1] = L!Poison THEN "end" ELSE "have"
      BY <1>2, Received DEF L!Receive, RecorderTyped
    <3>2. /\ 1 \in Queued
          /\ \A i \in Queued' : i + 1 \in Queued /\ queue'[i] = queue[i + 1] /\ i + 1 > 1 /\ i \in Nat
          /\ \A i \in Queued : i = 1 \/ (i - 1 \in Queued' /\ queue'[i - 1] = queue[i])
      BY <3>1, Received
    <3>3. ASSUME NEW l \in L!Lines, place[l] = "queue"
          PROVE  Holds(l)' \/ \E i \in Queued' : queue'[i] = l
      <4>1. PICK i \in Queued : queue[i] = l
        BY <3>1, <3>3 DEF LinesInv, Holds
      <4>2. CASE i = 1
        BY <3>1, <4>1, <4>2, Kinds DEF Holds
      <4>3. CASE i # 1
        BY <3>2, <4>1, <4>3
      <4> QED
        BY <4>2, <4>3
    <3>4. ASSUME NEW i \in Queued', queue'[i] \in L!Lines
          PROVE  place[queue'[i]] = "queue" /\ ~(wpc' = "have" /\ item' = queue'[i])
      <4>1. queue'[i] = queue[i + 1] /\ i + 1 \in Queued /\ i + 1 # 1
        BY <3>2
      <4>2. place[queue[i + 1]] = "queue" /\ queue[1] # queue[i + 1]
        BY <3>2, <3>4, <4>1 DEF LinesInv
      <4> QED
        BY <3>1, <4>1, <4>2
    <3>5. ASSUME NEW i \in Queued', NEW j \in Queued', queue'[i] \in L!Lines, queue'[i] = queue'[j]
          PROVE  i = j
      <4>1. queue'[i] = queue[i + 1] /\ i + 1 \in Queued /\ queue'[j] = queue[j + 1] /\ j + 1 \in Queued
            /\ i \in Nat /\ j \in Nat
        BY <3>2
      <4>2. queue[i + 1] \in L!Lines /\ queue[i + 1] = queue[j + 1]
        BY <3>5, <4>1
      <4>3. \A k, m \in Queued : queue[k] \in L!Lines /\ queue[k] = queue[m] => k = m
        BY DEF LinesInv
      <4>4. i + 1 = j + 1
        BY <4>1, <4>2, <4>3
      <4> QED
        BY <4>1, <4>4
    <3>6. /\ \A i \in Queued : queue[i] \in L!Lines => place[queue[i]] = "queue"
          /\ \A l \in L!Lines : place[l] = "file" => fp
      BY DEF LinesInv
    <3>7. UNCHANGED <<place, fp>> /\ wpc' \notin {"none", "start"} /\ (wpc' = "have" => item' # L!Poison)
      BY <3>1
    <3> HIDE DEF RecorderInv
    <3>8. \A l \in L!Lines : Holds(l)' => place'[l] = "queue"
      BY <3>1, <3>2, <3>6 DEF Holds
    <3>9. \A i \in Queued' : queue'[i] \in L!Lines => place'[queue'[i]] = "queue" /\ ~Holds(queue[i])'
      BY <3>4, <3>7 DEF Holds
    <3>10. \A i, j \in Queued' : queue'[i] \in L!Lines /\ queue'[i] = queue'[j] => i = j
      BY <3>5
    <3>11. \A l \in L!Lines : place'[l] = "queue" => Holds(l)' \/ \E i \in Queued' : queue'[i] = l
      BY <3>3, <3>7
    <3>12. \A l \in L!Lines : place'[l] = "file" => fp'
      BY <3>6, <3>7
    <3> QED
      BY <3>7, <3>8, <3>9, <3>10, <3>11, <3>12 DEF LinesInv
  <2>3. StopInv'
    BY <1>2, Kinds DEF L!Receive, RecorderTyped, StopInv, NoPoison, OnlyMarkers, Queued, LinesInv
  <2>4. FlushInv'
    BY <1>2, Kinds DEF L!Receive, RecorderTyped, LinesInv, FlushInv, Marked, Queued, Holds, L!InFlight
  <2> QED
    BY <2>1, <2>2, <2>3, <2>4
<1>3. ASSUME L!WriteLine PROVE RecorderInv'
  <2>1. RecorderTyped'
    BY <1>3, Kinds DEF L!WriteLine, L!Opened, L!Synced, RecorderTyped
  <2>2. LinesInv'
    <3>1. /\ wpc = "have" /\ item \in L!Lines /\ wpc' = "recv" /\ UNCHANGED <<queue, item>>
          /\ place \in [L!Lines -> {"new", "queue", "file", "card", "gone"}]
          /\ \A l \in L!Lines : place[l] = "file" => fp
      BY <1>3 DEF L!WriteLine, RecorderTyped, LinesInv
    <3>2. PICK up \in (IF fp THEN {TRUE} ELSE L!Opened) :
             LET written == [place EXCEPT ![item] = IF up THEN "file" ELSE "gone"]
             IN  \/ fp' = up /\ place' = written
                 \/ up /\ fp' \in L!Opened /\ place' = L!Synced(written)
      BY <1>3 DEF L!WriteLine
    <3>3. up \in BOOLEAN /\ (fp => up)
      BY <3>2 DEF L!Opened
    <3> DEFINE written == [place EXCEPT ![item] = IF up THEN "file" ELSE "gone"]
    <3>4. /\ \A l \in L!Lines \ {item} : written[l] = place[l]
          /\ written[item] = IF up THEN "file" ELSE "gone"
      BY <3>1
    <3>5. \A l \in L!Lines : L!Synced(written)[l] = IF written[l] = "file" THEN "card" ELSE written[l]
      BY DEF L!Synced
    <3>6. (fp' = up /\ place' = written) \/ (up /\ place' = L!Synced(written))
      BY <3>2
    <3> HIDE DEF written
    <3>7. /\ \A l \in L!Lines \ {item} : place'[l] = place[l] \/ (place[l] = "file" /\ place'[l] = "card")
          /\ place'[item] \in {"file", "card", "gone"}
      BY <3>1, <3>4, <3>5, <3>6
    <3>8. ASSUME NEW l \in L!Lines, place'[l] = "file" PROVE fp'
      <4>1. place' = written /\ fp' = up
        BY <3>5, <3>6, <3>8
      <4> QED
        BY <3>1, <3>3, <3>4, <3>8, <4>1
    <3>9. /\ \A i \in Queued : queue[i] # item
          /\ \A l \in L!Lines \ {item} : place[l] = "queue" => \E i \in Queued : queue[i] = l
          /\ \A i \in Queued : queue[i] \in L!Lines => place[queue[i]] = "queue"
          /\ \A i, j \in Queued : queue[i] \in L!Lines /\ queue[i] = queue[j] => i = j
      BY <3>1 DEF LinesInv, Holds
    <3>10. Queued' = Queued
      BY <3>1 DEF Queued
    <3> HIDE DEF RecorderInv
    <3>11. \A l \in L!Lines : place'[l] = "queue" => \E i \in Queued' : queue'[i] = l
      BY <3>1, <3>7, <3>9, <3>10
    <3>12. \A i \in Queued' : queue'[i] \in L!Lines => place'[queue'[i]] = "queue"
      BY <3>1, <3>7, <3>9, <3>10
    <3>13. \A i, j \in Queued' : queue'[i] \in L!Lines /\ queue'[i] = queue'[j] => i = j
      BY <3>1, <3>9, <3>10
    <3>14. \A x : ~Holds(x)'
      BY <3>1 DEF Holds
    <3>15. \A l \in L!Lines : place'[l] = "file" => fp'
      BY <3>8
    <3>16. wpc' \notin {"none", "start", "have"}
      BY <3>1
    <3> QED
      BY <3>11, <3>12, <3>13, <3>14, <3>15, <3>16 DEF LinesInv
  <2>3. StopInv'
    BY <1>3, Kinds DEF L!WriteLine, L!Opened, L!Synced, RecorderTyped, StopInv, NoPoison, OnlyMarkers, Queued, LinesInv
  <2>a. /\ wpc = "have" /\ item \in L!Lines /\ wpc' = "recv" /\ place[item] = "queue"
        /\ UNCHANGED <<queue, done, fpc, due>>
    BY <1>3 DEF L!WriteLine, LinesInv, Holds
  <2>b. \A l \in L!Lines : place'[l] = place[l] \/ (place[l] \in {"queue", "file"} /\ place'[l] \in {"file", "card", "gone"})
    <3>1. place \in [L!Lines -> {"new", "queue", "file", "card", "gone"}]
      BY DEF RecorderTyped
    <3>2. PICK up \in BOOLEAN :
             LET written == [place EXCEPT ![item] = IF up THEN "file" ELSE "gone"]
             IN  place' = written \/ place' = L!Synced(written)
      BY <1>3 DEF L!WriteLine, L!Opened
    <3> HIDE DEF RecorderInv
    <3> QED
      BY <2>a, <3>1, <3>2 DEF L!Synced
  <2>c. due[evloop] \subseteq L!Lines
    BY DEF RecorderTyped
  <2>d. ~Holds(L!Marker) /\ ~Holds(L!Marker)' /\ Queued' = Queued /\ (Marked' => Marked)
    BY <2>a, Kinds DEF Holds, Queued, Marked
  <2>e. FlushInv
    OBVIOUS
  <2>4. FlushInv'
    <3> HIDE DEF RecorderInv
    <3>1. \A l \in due[evloop] : place'[l] # "new"
      BY <2>b, <2>c, <2>e DEF FlushInv
    <3>2. \A l \in L!Lines : l \in L!InFlight' => l \in L!InFlight
      BY <2>b DEF L!InFlight
    <3>3. wpc' = "give" \/ done' \/ fpc'[evloop] = "ok" => due'[evloop] \cap L!InFlight' = {}
      <4>1. wpc' = "give" \/ done' \/ fpc'[evloop] = "ok" => due[evloop] \cap L!InFlight = {}
        BY <2>a, <2>e DEF FlushInv
      <4> QED
        BY <2>a, <2>c, <3>2, <4>1
    <3>4. fpc'[evloop] \in {"idle", "send"} => ~Marked'
      BY <2>a, <2>d, <2>e DEF FlushInv
    <3>5. \A i, j \in Queued' : queue'[i] = L!Marker /\ queue'[j] \in due'[evloop] => j < i
      BY <2>a, <2>d, <2>e DEF FlushInv
    <3> QED
      BY <2>a, <2>d, <3>1, <3>3, <3>4, <3>5 DEF FlushInv
  <2> QED
    BY <2>1, <2>2, <2>3, <2>4
<1>4. ASSUME L!WriterFlush PROVE RecorderInv'
  <2>1. RecorderTyped'
    BY <1>4, Kinds DEF L!WriterFlush, L!FlushSync, L!Synced, RecorderTyped
  <2>2. LinesInv'
    BY <1>4, Kinds DEF L!WriterFlush, L!FlushSync, L!Synced, RecorderTyped, LinesInv, Queued, Holds
  <2>3. StopInv'
    BY <1>4, Kinds DEF L!WriterFlush, L!FlushSync, L!Synced, RecorderTyped, StopInv, NoPoison, OnlyMarkers, Queued, LinesInv
  <2>4. FlushInv'
    BY <1>4, Kinds DEF L!WriterFlush, L!FlushSync, L!Synced, RecorderTyped, LinesInv, FlushInv, Marked, Queued, Holds, L!InFlight
  <2> QED
    BY <2>1, <2>2, <2>3, <2>4
<1>5. ASSUME L!WriterGive PROVE RecorderInv'
  <2>1. RecorderTyped'
    BY <1>5, Kinds DEF L!WriterGive, RecorderTyped
  <2>2. LinesInv'
    BY <1>5, Kinds DEF L!WriterGive, RecorderTyped, LinesInv, Queued, Holds
  <2>3. StopInv'
    BY <1>5, Kinds DEF L!WriterGive, RecorderTyped, StopInv, NoPoison, OnlyMarkers, Queued, LinesInv
  <2>4. FlushInv'
    BY <1>5, Kinds DEF L!WriterGive, RecorderTyped, LinesInv, FlushInv, Marked, Queued, Holds, L!InFlight
  <2> QED
    BY <2>1, <2>2, <2>3, <2>4
<1>6. ASSUME L!WriterEnd PROVE RecorderInv'
  <2>1. RecorderTyped'
    BY <1>6, Kinds DEF L!WriterEnd, L!Synced, RecorderTyped
  <2>2. LinesInv'
    BY <1>6, Kinds DEF L!WriterEnd, L!Synced, RecorderTyped, LinesInv, Queued, Holds
  <2>3. StopInv'
    BY <1>6, Kinds DEF L!WriterEnd, L!Synced, RecorderTyped, StopInv, NoPoison, OnlyMarkers, Queued, LinesInv
  <2>4. FlushInv'
    BY <1>6, Kinds DEF L!WriterEnd, L!Synced, RecorderTyped, LinesInv, FlushInv, Marked, Queued, Holds, L!InFlight
  <2> QED
    BY <2>1, <2>2, <2>3, <2>4
<1>7. ASSUME L!Reopen PROVE RecorderInv'
  <2>1. RecorderTyped'
    BY <1>7, Kinds DEF L!Reopen, L!Opened, RecorderTyped
  <2>2. LinesInv'
    BY <1>7, Kinds DEF L!Reopen, L!Opened, RecorderTyped, LinesInv, Queued, Holds
  <2>3. StopInv'
    BY <1>7, Kinds DEF L!Reopen, L!Opened, RecorderTyped, StopInv, NoPoison, OnlyMarkers, Queued, LinesInv
  <2>4. FlushInv'
    BY <1>7, Kinds DEF L!Reopen, L!Opened, RecorderTyped, LinesInv, FlushInv, Marked, Queued, Holds, L!InFlight
  <2> QED
    BY <2>1, <2>2, <2>3, <2>4
<1>8. ASSUME L!PeriodicSync PROVE RecorderInv'
  <2>1. RecorderTyped'
    BY <1>8, Kinds DEF L!PeriodicSync, L!SyncDue, L!Synced, RecorderTyped
  <2>2. LinesInv'
    BY <1>8, Kinds DEF L!PeriodicSync, L!SyncDue, L!Synced, RecorderTyped, LinesInv, Queued, Holds
  <2>3. StopInv'
    BY <1>8, Kinds DEF L!PeriodicSync, L!SyncDue, L!Synced, RecorderTyped, StopInv, NoPoison, OnlyMarkers, Queued, LinesInv
  <2>4. FlushInv'
    BY <1>8, Kinds DEF L!PeriodicSync, L!SyncDue, L!Synced, RecorderTyped, LinesInv, FlushInv, Marked, Queued, Holds, L!InFlight
  <2> QED
    BY <2>1, <2>2, <2>3, <2>4
<1> QED
  BY <1>1, <1>2, <1>3, <1>4, <1>5, <1>6, <1>7, <1>8 DEF L!WriterStep

(* The web server's task: enable, the steps of disable, and erase.         *)
LEMMA RecorderServer ==
  ASSUME RecorderInv, ~SlowClose,
         L!Enable \/ L!Disable \/ L!SendPoison \/ L!StopWait \/ L!DeleteQueue \/ L!EraseAll
  PROVE  RecorderInv'
<1> USE DEF RecorderInv, L!recorder, L!writer, L!flushers
<1>1. CASE L!Enable
  <2>1. RecorderTyped'
    BY <1>1, Kinds DEF L!Enable, RecorderTyped
  <2>2. LinesInv'
    BY <1>1, Kinds DEF L!Enable, RecorderTyped, LinesInv, Queued, Holds
  <2>3. StopInv'
    BY <1>1, Kinds DEF L!Enable, RecorderTyped, StopInv, NoPoison, OnlyMarkers, Queued, LinesInv
  <2>4. FlushInv'
    BY <1>1, Kinds DEF L!Enable, RecorderTyped, LinesInv, FlushInv, Marked, Queued, Holds, L!InFlight
  <2> QED
    BY <2>1, <2>2, <2>3, <2>4
<1>2. CASE L!Disable
  <2>1. RecorderTyped'
    BY <1>2, Kinds DEF L!Disable, RecorderTyped
  <2>2. LinesInv'
    BY <1>2, Kinds DEF L!Disable, RecorderTyped, LinesInv, Queued, Holds
  <2>3. StopInv'
    BY <1>2, Kinds DEF L!Disable, RecorderTyped, StopInv, NoPoison, OnlyMarkers, Queued, LinesInv
  <2>4. FlushInv'
    BY <1>2, Kinds DEF L!Disable, RecorderTyped, LinesInv, FlushInv, Marked, Queued, Holds, L!InFlight
  <2> QED
    BY <2>1, <2>2, <2>3, <2>4
<1>3. CASE L!SendPoison
  <2>1. RecorderTyped'
    BY <1>3, Kinds DEF L!SendPoison, RecorderTyped
  <2>2. LinesInv'
    BY <1>3, Kinds DEF L!SendPoison, RecorderTyped, LinesInv, Queued, Holds
  <2>3. StopInv'
    BY <1>3, Kinds DEF L!SendPoison, RecorderTyped, StopInv, NoPoison, OnlyMarkers, Queued, LinesInv
  <2>4. FlushInv'
    BY <1>3, Kinds DEF L!SendPoison, RecorderTyped, LinesInv, FlushInv, Marked, Queued, Holds, L!InFlight
  <2> QED
    BY <2>1, <2>2, <2>3, <2>4
<1>4. CASE L!StopWait
  <2>1. RecorderTyped'
    BY <1>4, Kinds DEF L!StopWait, L!WriterAwaited, RecorderTyped
  <2>2. LinesInv'
    BY <1>4, Kinds DEF L!StopWait, L!WriterAwaited, RecorderTyped, LinesInv, Queued, Holds
  <2>3. StopInv'
    BY <1>4, Kinds DEF L!StopWait, L!WriterAwaited, RecorderTyped, StopInv, NoPoison, OnlyMarkers, Queued, LinesInv
  <2>4. FlushInv'
    BY <1>4, Kinds DEF L!StopWait, L!WriterAwaited, RecorderTyped, LinesInv, FlushInv, Marked, Queued, Holds, L!InFlight
  <2> QED
    BY <2>1, <2>2, <2>3, <2>4
<1>5. CASE L!DeleteQueue
  <2>0. queue' = <<>> /\ queue' \in Seq(L!Items) /\ Queued' = {}
    BY <1>5 DEF L!DeleteQueue, Queued
  <2>1. RecorderTyped'
    BY <1>5, <2>0 DEF L!DeleteQueue, RecorderTyped
  <2>2. LinesInv'
    BY <1>5, <2>0, Kinds DEF L!DeleteQueue, LinesInv, Holds, StopInv, OnlyMarkers
  <2>3. StopInv'
    BY <1>5, Kinds DEF L!DeleteQueue, RecorderTyped, StopInv, NoPoison, OnlyMarkers, Queued, LinesInv
  <2>4. FlushInv'
    BY <1>5, Kinds DEF L!DeleteQueue, RecorderTyped, LinesInv, FlushInv, Marked, Queued, Holds, L!InFlight
  <2> QED
    BY <2>1, <2>2, <2>3, <2>4
<1>6. CASE L!EraseAll
  <2>1. RecorderTyped'
    BY <1>6, Kinds DEF L!EraseAll, RecorderTyped
  <2>2. LinesInv'
    BY <1>6, Kinds DEF L!EraseAll, RecorderTyped, LinesInv, Queued, Holds
  <2>3. StopInv'
    BY <1>6, Kinds DEF L!EraseAll, RecorderTyped, StopInv, NoPoison, OnlyMarkers, Queued, LinesInv
  <2>4. FlushInv'
    BY <1>6, Kinds DEF L!EraseAll, RecorderTyped, LinesInv, FlushInv, Marked, Queued, Holds, L!InFlight
  <2> QED
    BY <2>1, <2>2, <2>3, <2>4
<1> QED
  BY <1>1, <1>2, <1>3, <1>4, <1>5, <1>6

(* sdlog_flush, which queues its marker behind the lines that are due.     *)
LEMMA RecorderFlusher ==
  ASSUME RecorderInv, NEW f \in {evloop},
         L!FlushStart(f) \/ L!FlushSend(f) \/ L!FlushDone(f) \/ L!FlushTimeout(f)
  PROVE  RecorderInv'
<1> USE DEF RecorderInv, L!recorder, L!writer, L!flushers
<1>1. CASE L!FlushStart(f)
  <2>1. RecorderTyped'
    BY <1>1, Kinds DEF L!FlushStart, L!InFlight, RecorderTyped
  <2>2. LinesInv'
    BY <1>1, Kinds DEF L!FlushStart, RecorderTyped, LinesInv, Queued, Holds
  <2>3. StopInv'
    BY <1>1, Kinds DEF L!FlushStart, RecorderTyped, StopInv, NoPoison, OnlyMarkers, Queued, LinesInv
  <2>4. FlushInv'
    BY <1>1, Kinds DEF L!FlushStart, RecorderTyped, LinesInv, FlushInv, Marked, Queued, Holds, L!InFlight
  <2> QED
    BY <2>1, <2>2, <2>3, <2>4
<1>2. CASE L!FlushSend(f)
  <2>1. RecorderTyped'
    BY <1>2, Kinds DEF L!FlushSend, RecorderTyped
  <2>2. LinesInv'
    BY <1>2, Kinds DEF L!FlushSend, RecorderTyped, LinesInv, Queued, Holds
  <2>3. StopInv'
    BY <1>2, Kinds DEF L!FlushSend, RecorderTyped, StopInv, NoPoison, OnlyMarkers, Queued, LinesInv
  <2>4. FlushInv'
    BY <1>2, Kinds DEF L!FlushSend, RecorderTyped, LinesInv, FlushInv, Marked, Queued, Holds, L!InFlight
  <2> QED
    BY <2>1, <2>2, <2>3, <2>4
<1>3. CASE L!FlushDone(f)
  <2>1. RecorderTyped'
    BY <1>3, Kinds DEF L!FlushDone, RecorderTyped
  <2>2. LinesInv'
    BY <1>3, Kinds DEF L!FlushDone, RecorderTyped, LinesInv, Queued, Holds
  <2>3. StopInv'
    BY <1>3, Kinds DEF L!FlushDone, RecorderTyped, StopInv, NoPoison, OnlyMarkers, Queued, LinesInv
  <2>4. FlushInv'
    BY <1>3, Kinds DEF L!FlushDone, RecorderTyped, LinesInv, FlushInv, Marked, Queued, Holds, L!InFlight
  <2> QED
    BY <2>1, <2>2, <2>3, <2>4
<1>4. CASE L!FlushTimeout(f)
  <2>1. RecorderTyped'
    BY <1>4, Kinds DEF L!FlushTimeout, RecorderTyped
  <2>2. LinesInv'
    BY <1>4, Kinds DEF L!FlushTimeout, RecorderTyped, LinesInv, Queued, Holds
  <2>3. StopInv'
    BY <1>4, Kinds DEF L!FlushTimeout, RecorderTyped, StopInv, NoPoison, OnlyMarkers, Queued, LinesInv
  <2>4. FlushInv'
    BY <1>4, Kinds DEF L!FlushTimeout, RecorderTyped, LinesInv, FlushInv, Marked, Queued, Holds, L!InFlight
  <2> QED
    BY <2>1, <2>2, <2>3, <2>4
<1> QED
  BY <1>1, <1>2, <1>3, <1>4

LEMMA RecorderNext == ~SlowClose /\ RecorderInv /\ [L!Next]_lv => RecorderInv'
<1>1. ASSUME RecorderInv, UNCHANGED lv PROVE RecorderInv'
  BY <1>1 DEF lv, RecorderInv, RecorderTyped, LinesInv, StopInv, FlushInv, NoPoison, OnlyMarkers,
              Marked, Holds, Queued, L!InFlight
<1>2. ASSUME RecorderInv, ~SlowClose, L!Next PROVE RecorderInv'
  BY <1>2, RecorderLog, RecorderWriter, RecorderServer, RecorderFlusher DEF L!Next
<1> QED
  BY <1>1, <1>2

LEMMA RecorderKeepsWord == RecorderInv => CallsKeepWord
<1> SUFFICES ASSUME RecorderInv PROVE CallsKeepWord
  OBVIOUS
<1>1. \A f \in {evloop} : fpc[f] = "ok" => due[f] \cap L!InFlight = {}
  BY DEF RecorderInv, FlushInv
<1>2. ~enabled /\ hpc = "idle" => L!InFlight = {} /\ ~fp
  BY DEF RecorderInv, RecorderTyped, LinesInv, StopInv, Queued, Holds, L!InFlight
<1>3. enabled /\ hpc = "idle" => queueUp /\ wpc # "none"
  BY DEF RecorderInv, StopInv
<1> QED
  BY <1>1, <1>2, <1>3
  DEF CallsKeepWord, L!CallsKeepWord, L!FlushDurable, L!StopDurable, L!EnabledRecords

(* What the recorder's calls return is true, with any number of lines and  *)
(* any depth of the queue: after a flush that returned ESP_OK no line that *)
(* was queued or buffered at the call is in flight, a disable leaves none  *)
(* and a closed file, an enable a queue and a writer.  SlowClose is the    *)
(* card that takes more than disable's second to close a file.             *)
THEOREM RecorderCalls ==
  ASSUME ~SlowClose
  PROVE  ServicesSpec => []CallsKeepWord
<1>1. ServicesInit => RecorderInv
  BY RecorderInit DEF ServicesInit
<1>2. RecorderInv /\ [ServicesNext]_<<on, vars, lv, bv, nv, av>> => RecorderInv'
  <2>1. [ServicesNext]_<<on, vars, lv, bv, nv, av>> => [L!Next]_lv
    BY DEF ServicesNext
  <2> QED
    BY <2>1, RecorderNext
<1> QED
  BY <1>1, <1>2, RecorderKeepsWord, PTL DEF ServicesSpec

-----------------------------------------------------------------------------
(* Remote commands implement RemoteOrders, for any number of messages, of  *)
(* topics and of crashes and any size of the response buffer.              *)
Configs == [on : BOOLEAN, topic : Topics]
Ids == {<<>>} \cup (Topics \X Nat)
Polls ==
  [pc : {"idle", "copied", "asked", "line", "save", "seen", "handle", "answer", "next"},
   topic : Topics \cup {""}, listen : Nat, since : Ids, lines : Seq(Nat)]
Webs ==
  [pc : {"idle", "on", "topic", "ram", "clear", "erase"}, new : Configs, moved : BOOLEAN]
CommandTyped ==
  /\ ntfyServer \in [Topics -> Seq({"wake", "own"})]
  /\ ntfyCfg \in Configs /\ stored \in Configs
  /\ cursor \in Ids /\ last \in Ids
  /\ topic \in Seq(Topics) /\ carried \in [1 .. MaxListens -> Seq(Nat)]
  /\ poll \in Polls /\ web \in Webs

(* What a poll knows, wherever it is: the listening it was begun by, and   *)
(* lines of that listening's topic, in order, that follow what the router  *)
(* has carried out.                                                        *)
Carrying == {"line", "save", "seen", "handle", "answer", "next"}
Done(l) == N!Orders!Last(carried[l])
Safe(id, l) == carried[l] = <<>> \/ (id # N!None /\ id[1] = topic[l] /\ id[2] >= Done(l))

PollInv ==
  /\ poll.pc # "idle" => /\ poll.listen \in 1 .. Len(topic) /\ poll.topic = topic[poll.listen]
                         /\ \A l \in poll.listen + 1 .. MaxListens : carried[l] = <<>>
  /\ poll.pc = "copied" => poll.listen = Len(topic)
  /\ poll.pc = "asked" => Safe(poll.since, poll.listen)
PolledLines ==
  poll.pc \in Carrying =>
    /\ poll.lines # <<>>
    /\ \A i \in 1 .. Len(poll.lines) : poll.lines[i] \in 1 .. Len(ntfyServer[poll.topic])
    /\ \A i, j \in 1 .. Len(poll.lines) : i < j => poll.lines[i] < poll.lines[j]
    /\ Head(poll.lines) >= Done(poll.listen)
    /\ poll.pc \in {"line", "save", "seen", "handle"} => Head(poll.lines) > Done(poll.listen)
CursorInv ==
  /\ Safe(cursor, Len(topic)) /\ Safe(last, Len(topic))
  /\ poll.listen = Len(topic) =>
       /\ poll.pc \in {"save", "seen", "handle"} => cursor = N!This
       /\ poll.pc = "handle" => last = N!This
WebInv ==
  /\ Len(topic) \in 1 .. MaxListens /\ topic[Len(topic)] = ntfyCfg.topic
  /\ \A l \in Len(topic) + 1 .. MaxListens : carried[l] = <<>>
  /\ web.pc \in {"on", "topic", "ram"} =>
       (web.moved <=> web.new.topic # ntfyCfg.topic) /\ (web.moved => Len(topic) < MaxListens)
  /\ web.pc \in {"clear", "erase"} =>
       carried[Len(topic)] = <<>> /\ (poll.listen = Len(topic) => poll.pc \notin Carrying)
OrdersInv == PollInv /\ PolledLines /\ CursorInv /\ WebInv

LEMMA CommandsStart == N!Init => CommandTyped /\ OrdersInv
<1> SUFFICES ASSUME N!Init PROVE CommandTyped /\ OrdersInv
  OBVIOUS
<1>1. /\ ntfyServer = [t \in Topics |-> <<>>] /\ ntfyCfg \in Configs /\ stored = ntfyCfg
      /\ cursor = <<>> /\ last = <<>> /\ poll = N!Idle /\ web = N!WebIdle(ntfyCfg)
      /\ topic = <<ntfyCfg.topic>> /\ carried = [l \in 1 .. MaxListens |-> <<>>]
  BY DEF N!Init, N!None, Configs
<1>2. <<>> \in Ids /\ <<>> \in Seq(Nat) /\ <<>> \in Seq({"wake", "own"})
  BY DEF Ids
<1>3. topic \in Seq(Topics) /\ Len(topic) = 1 /\ topic[1] = ntfyCfg.topic
  BY <1>1 DEF Configs
<1>4. poll.pc = "idle" /\ poll.listen = 0 /\ web.pc = "idle"
  BY <1>1 DEF N!Idle, N!WebIdle
<1>5. CommandTyped
  BY <1>1, <1>2, <1>3 DEF CommandTyped, Polls, Webs, N!Idle, N!WebIdle, N!None
<1>6. \A l \in 1 .. MaxListens : carried[l] = <<>>
  BY <1>1
<1>7. PollInv /\ PolledLines
  BY <1>4 DEF PollInv, PolledLines, Carrying
<1>8. CursorInv
  BY <1>3, <1>4, <1>6, ListensAssumption DEF CursorInv, Safe
<1>9. WebInv
  BY <1>3, <1>4, <1>6, ListensAssumption DEF WebInv
<1> QED
  BY <1>5, <1>7, <1>8, <1>9 DEF OrdersInv

(* What the server answers follows what the router has carried out.        *)
Follows(lines, t, n) ==
  /\ lines \in Seq(Nat)
  /\ \A i \in 1 .. Len(lines) : lines[i] \in n + 1 .. Len(ntfyServer[t])
  /\ \A i, j \in 1 .. Len(lines) : i < j => lines[i] < lines[j]

LEMMA SuffixFollows ==
  ASSUME CommandTyped, NEW t \in Topics, NEW n \in Nat,
         NEW s, s = [i \in 1 .. Len(ntfyServer[t]) - n |-> n + i]
  PROVE  Follows(s, t, n)
<1> DEFINE k == Len(ntfyServer[t])
<1>1. k \in Nat
  <2>1. ntfyServer[t] \in Seq({"wake", "own"})
    BY DEF CommandTyped
  <2> QED
    BY <2>1, LenProperties
<1>2. CASE k - n \in Nat
  <2>1. s \in Seq(Nat) /\ Len(s) = k - n
    BY <1>1, <1>2
  <2> QED
    BY <1>1, <1>2, <2>1 DEF Follows
<1>3. CASE k - n \notin Nat
  <2>1. 1 .. k - n = {}
    BY <1>1, <1>3
  <2>2. s = [i \in {} |-> n + i] /\ DOMAIN s = {}
    BY <2>1
  <2>3. s = <<>> /\ <<>> \in Seq(Nat) /\ Len(<<>>) = 0
    BY <2>2
  <2>4. s \in Seq(Nat) /\ Len(s) = 0
    BY <2>3, Zenon
  <2>5. 1 .. Len(s) = {}
    <3>1. 1 .. 0 = {}
      OBVIOUS
    <3> QED
      BY <2>4, <3>1, Zenon
  <2> QED
    BY <2>4, <2>5, Zenon DEF Follows
<1> QED
  BY <1>2, <1>3

LEMMA HeardFollows ==
  ASSUME NEW t \in Topics, NEW n \in Nat, NEW s, Follows(s, t, n), NEW u \in N!Heard(s)
  PROVE  Follows(u, t, n)
<1>1. CASE u = s
  BY <1>1
<1>2. CASE u # s
  <2>1. PICK m \in 1 .. Len(s) : u \in [1 .. m -> {s[i] : i \in DOMAIN s}]
    BY <1>2 DEF N!Heard
  <2>2. \A i, j \in DOMAIN u : i < j => u[i] < u[j]
    BY <1>2 DEF N!Heard
  <2>3. s \in Seq(Nat) /\ DOMAIN s = 1 .. Len(s)
    BY DEF Follows
  <2>4. m \in Nat /\ DOMAIN u = 1 .. m
    BY <2>1, <2>3
  <2>5. \A i \in 1 .. m : u[i] \in n + 1 .. Len(ntfyServer[t]) /\ u[i] \in Nat
    <3> SUFFICES ASSUME NEW i \in 1 .. m PROVE u[i] \in n + 1 .. Len(ntfyServer[t]) /\ u[i] \in Nat
      OBVIOUS
    <3>1. PICK j \in 1 .. Len(s) : u[i] = s[j]
      BY <2>1, <2>3, Zenon
    <3>2. s[j] \in Nat
      BY <2>3, <3>1
    <3>3. s[j] \in n + 1 .. Len(ntfyServer[t])
      BY <3>1, Zenon DEF Follows
    <3> QED
      BY <3>1, <3>2, <3>3, Zenon
  <2>6. u \in [1 .. m -> Nat]
    BY <2>1, <2>5
  <2>7. u \in Seq(Nat) /\ Len(u) = m
    BY <2>4, <2>6, SeqDef
  <2> QED
    BY <2>2, <2>4, <2>5, <2>7 DEF Follows
<1> QED
  BY <1>1, <1>2
(* What follows of them, for the steps below.                              *)
CommandFacts ==
  /\ Len(topic) \in 1 .. MaxListens /\ Len(topic) \in Nat /\ ntfyCfg.topic \in Topics
  /\ stored.topic \in Topics /\ web.new \in Configs /\ <<>> \in Ids /\ N!Idle \in Polls
  /\ \A t \in Topics : ntfyServer[t] \in Seq({"wake", "own"}) /\ Len(ntfyServer[t]) \in Nat
  /\ \A l \in 1 .. MaxListens : carried[l] \in Seq(Nat) /\ Done(l) \in Nat
  /\ poll.pc # "idle" => /\ poll.topic \in Topics /\ poll.listen \in 1 .. Len(topic)
                         /\ poll.listen \in 1 .. MaxListens /\ poll.topic = topic[poll.listen]
  /\ poll.pc \in Carrying => /\ poll.lines \in Seq(Nat) /\ poll.lines # <<>> /\ Len(poll.lines) \in Nat \ {0}
                             /\ Head(poll.lines) = poll.lines[1] /\ Head(poll.lines) \in Nat
                             /\ Head(poll.lines) \in 1 .. Len(ntfyServer[poll.topic])
                             /\ N!This \in Ids /\ N!This # <<>>
                             /\ N!This[1] = poll.topic /\ N!This[2] = Head(poll.lines)

LEMMA CommandFactsHold == ASSUME CommandTyped, OrdersInv PROVE CommandFacts
<1>1. Len(topic) \in 1 .. MaxListens /\ Len(topic) \in Nat
  BY ListensAssumption DEF OrdersInv, WebInv
<1>2. ntfyCfg.topic \in Topics /\ stored.topic \in Topics /\ web.new \in Configs /\ <<>> \in Ids
  BY DEF CommandTyped, Configs, Webs, Ids
<1>8. N!Idle \in Polls
  <2>1. <<>> \in Seq(Nat)
    OBVIOUS
  <2> QED
    BY <1>2, <2>1 DEF Polls, N!Idle, N!None
<1>3. \A t \in Topics : ntfyServer[t] \in Seq({"wake", "own"}) /\ Len(ntfyServer[t]) \in Nat
  <2> SUFFICES ASSUME NEW t \in Topics PROVE ntfyServer[t] \in Seq({"wake", "own"}) /\ Len(ntfyServer[t]) \in Nat
    OBVIOUS
  <2>1. ntfyServer[t] \in Seq({"wake", "own"})
    BY DEF CommandTyped
  <2> QED
    BY <2>1, LenProperties
<1>4. ASSUME NEW l \in 1 .. MaxListens PROVE carried[l] \in Seq(Nat) /\ Done(l) \in Nat
  <2>1. carried[l] \in Seq(Nat)
    BY DEF CommandTyped
  <2>2. carried[l] # <<>> => Len(carried[l]) \in 1 .. Len(carried[l])
    BY <2>1
  <2>3. carried[l] # <<>> => carried[l][Len(carried[l])] \in Nat
    BY <2>1, <2>2
  <2> QED
    BY <2>1, <2>3 DEF Done, N!Orders!Last
<1>5. poll.pc # "idle" => /\ poll.listen \in 1 .. Len(topic) /\ poll.topic = topic[poll.listen]
                          /\ poll.topic \in Topics /\ poll.listen \in 1 .. MaxListens
  <2>1. topic \in Seq(Topics)
    BY DEF CommandTyped
  <2> QED
    BY <1>1, <2>1, ListensAssumption DEF OrdersInv, PollInv
<1>6. ASSUME poll.pc \in Carrying
      PROVE  /\ poll.lines \in Seq(Nat) /\ poll.lines # <<>> /\ Len(poll.lines) \in Nat \ {0}
             /\ Head(poll.lines) = poll.lines[1] /\ Head(poll.lines) \in Nat
             /\ Head(poll.lines) \in 1 .. Len(ntfyServer[poll.topic])
  <2>1. poll.lines \in Seq(Nat) /\ poll.lines # <<>>
    BY <1>6 DEF CommandTyped, Polls, OrdersInv, PolledLines
  <2>2. Len(poll.lines) \in Nat \ {0} /\ Head(poll.lines) = poll.lines[1] /\ Head(poll.lines) \in Nat
    BY <2>1
  <2>3. poll.lines[1] \in 1 .. Len(ntfyServer[poll.topic])
    BY <1>6, <2>2 DEF OrdersInv, PolledLines
  <2> QED
    BY <2>1, <2>2, <2>3
<1>7. ASSUME poll.pc \in Carrying
      PROVE  N!This \in Ids /\ N!This # <<>> /\ N!This[1] = poll.topic /\ N!This[2] = Head(poll.lines)
  <2>1. poll.topic \in Topics /\ Head(poll.lines) \in Nat
    BY <1>5, <1>6, <1>7 DEF Carrying
  <2> QED
    BY <2>1 DEF N!This, Ids
<1> QED
  BY <1>1, <1>2, <1>3, <1>4, <1>5, <1>6, <1>7, <1>8 DEF CommandFacts

(* What a step that leaves the history alone keeps of the four parts.       *)
LEMMA PollStays ==
  ASSUME PollInv, UNCHANGED <<topic, carried>>,
         poll'.pc # "idle" => poll.pc # "idle" /\ poll'.listen = poll.listen /\ poll'.topic = poll.topic,
         poll'.pc = "copied" => poll.pc = "copied",
         poll'.pc = "asked" => poll.pc = "asked" /\ poll'.since = poll.since
  PROVE  PollInv'
<1>1. \A id, l : Safe(id, l) <=> Safe(id, l)'
  BY DEF Safe, Done
<1> QED
  BY <1>1 DEF PollInv

LEMMA LinesStay ==
  ASSUME PolledLines, UNCHANGED <<carried, ntfyServer>>,
         poll'.pc \in Carrying => /\ poll.pc \in Carrying /\ poll'.lines = poll.lines
                                  /\ poll'.listen = poll.listen /\ poll'.topic = poll.topic,
         poll'.pc \in {"line", "save", "seen", "handle"} => poll.pc \in {"line", "save", "seen", "handle"}
  PROVE  PolledLines'
<1>1. \A l : Done(l)' = Done(l)
  BY DEF Done
<1> QED
  BY <1>1 DEF PolledLines

LEMMA CursorStays ==
  ASSUME CursorInv, UNCHANGED <<cursor, last, topic, carried>>,
         poll'.pc \notin {"save", "seen", "handle"}
  PROVE  CursorInv'
<1>1. \A id, l : Safe(id, l) <=> Safe(id, l)'
  BY DEF Safe, Done
<1> QED
  BY <1>1 DEF CursorInv

LEMMA WebStays ==
  ASSUME WebInv, UNCHANGED <<topic, carried, ntfyCfg, web>>,
         poll'.pc \in Carrying => poll.pc \in Carrying /\ poll'.listen = poll.listen
  PROVE  WebInv'
  BY DEF WebInv

LEMMA CopyKeeps ==
  ASSUME CommandTyped, OrdersInv, N!Copy
  PROVE  CommandTyped' /\ OrdersInv'
<1> USE DEF OrdersInv, N!Copy, N!history, N!None
<1>0. CommandFacts
  BY CommandFactsHold
<1>1. CommandTyped'
  <2>1. poll' = [N!Idle EXCEPT !.pc = "copied", !.topic = ntfyCfg.topic, !.listen = Len(topic)]
    OBVIOUS
  <2>2. poll' \in Polls
    BY <1>0, <2>1 DEF CommandFacts, Polls
  <2> QED
    BY <2>2 DEF CommandTyped
<1>a. /\ poll'.pc = "copied" /\ poll'.topic = ntfyCfg.topic /\ poll'.listen = Len(topic)
  BY <1>0 DEF CommandFacts, Polls
<1>u. UNCHANGED <<ntfyServer, ntfyCfg, cursor, last, web, topic, carried>>
  OBVIOUS
<1>2. PollInv'
  <2>1. topic' = topic /\ carried' = carried
    OBVIOUS
  <2> QED
    BY <1>0, <1>a, <2>1 DEF CommandFacts, PollInv, WebInv
<1>3. PolledLines'
  BY <1>a DEF PolledLines, Carrying
<1>4. CursorInv'
  BY <1>a, <1>u, CursorStays
<1>5. WebInv'
  BY <1>a, <1>u, WebStays DEF Carrying
<1> QED
  BY <1>1, <1>2, <1>3, <1>4, <1>5

LEMMA AskKeeps ==
  ASSUME CommandTyped, OrdersInv, N!Ask
  PROVE  CommandTyped' /\ OrdersInv'
<1> USE DEF OrdersInv, N!Ask, N!history, N!None
<1>0. CommandFacts
  BY CommandFactsHold
<1>1. CommandTyped'
  BY <1>0 DEF CommandFacts, CommandTyped, Polls, Webs, Configs, N!This, N!Idle, N!WebIdle, N!Kept, N!Listening
<1>u. UNCHANGED <<ntfyServer, ntfyCfg, cursor, last, web, topic, carried>>
  OBVIOUS
<1>a. /\ poll.pc = "copied" /\ poll'.pc = "asked" /\ poll'.since = cursor
      /\ poll'.listen = poll.listen /\ poll'.topic = poll.topic
  BY DEF CommandTyped, Polls
<1>2. PollInv'
  BY <1>a, <1>u DEF PollInv, CursorInv, Safe, Done
<1>3. PolledLines'
  BY <1>a DEF PolledLines, Carrying
<1>4. CursorInv'
  BY <1>a, <1>u, CursorStays
<1>5. WebInv'
  BY <1>a, <1>u, WebStays DEF Carrying
<1> QED
  BY <1>1, <1>2, <1>3, <1>4, <1>5

LEMMA PollFailsKeeps ==
  ASSUME CommandTyped, OrdersInv, N!PollFails
  PROVE  CommandTyped' /\ OrdersInv'
<1> USE DEF OrdersInv, N!PollFails, N!history, N!None
<1>0. CommandFacts
  BY CommandFactsHold
<1>1. CommandTyped'
  BY <1>0 DEF CommandFacts, CommandTyped
<1>u. UNCHANGED <<ntfyServer, ntfyCfg, cursor, last, web, topic, carried>>
  OBVIOUS
<1>a. poll'.pc = "idle"
  BY DEF N!Idle
<1>2. PollInv'
  BY <1>a DEF PollInv
<1>3. PolledLines'
  BY <1>a DEF PolledLines, Carrying
<1>4. CursorInv'
  BY <1>a, <1>u, CursorStays
<1>5. WebInv'
  BY <1>a, <1>u, WebStays DEF Carrying
<1> QED
  BY <1>1, <1>2, <1>3, <1>4, <1>5

LEMMA NoteKeeps ==
  ASSUME CommandTyped, OrdersInv, N!Note
  PROVE  CommandTyped' /\ OrdersInv'
<1> USE DEF OrdersInv, N!Note, N!history, N!None
<1>0. CommandFacts
  BY CommandFactsHold
<1>1. CommandTyped'
  <2>1. cursor' \in Ids
    BY <1>0 DEF CommandFacts, Carrying
  <2>2. poll' \in Polls
    BY DEF CommandTyped, Polls
  <2> QED
    BY <2>1, <2>2 DEF CommandTyped
<1>a. /\ poll.pc = "line" /\ cursor' = N!This /\ N!This' = N!This
      /\ poll'.pc \in {"seen", "save"} /\ poll'.listen = poll.listen
  BY DEF CommandTyped, Polls, N!This
<1>u. UNCHANGED <<ntfyServer, ntfyCfg, web, topic, carried>>
  OBVIOUS
<1>b. poll'.topic = poll.topic /\ poll'.lines = poll.lines
  BY DEF CommandTyped, Polls
<1>2. PollInv'
  BY <1>a, <1>b, <1>u, PollStays
<1>3. PolledLines'
  BY <1>a, <1>b, <1>u, LinesStay DEF Carrying
<1>4. CursorInv'
  <2>1. CASE poll.listen = Len(topic)
    <3>1. Safe(N!This, Len(topic))
      BY <1>0, <1>a, <2>1 DEF CommandFacts, Safe, PolledLines, Carrying
    <3> QED
      BY <1>a, <2>1, <3>1 DEF CursorInv, Safe, Done
  <2>2. CASE poll.listen # Len(topic)
    <3>1. carried[Len(topic)] = <<>>
      BY <1>0, <1>a, <2>2 DEF CommandFacts, PollInv
    <3> QED
      BY <1>a, <2>2, <3>1 DEF CursorInv, Safe, Done
  <2> QED
    BY <2>1, <2>2
<1>5. WebInv'
  BY <1>a, <1>u, WebStays DEF Carrying
<1> QED
  BY <1>1, <1>2, <1>3, <1>4, <1>5

LEMMA SaveKeeps ==
  ASSUME CommandTyped, OrdersInv, N!Save
  PROVE  CommandTyped' /\ OrdersInv'
<1> USE DEF OrdersInv, N!Save, N!history, N!None
<1>0. CommandFacts
  BY CommandFactsHold
<1>1. CommandTyped'
  <2>1. last' \in Ids
    BY <1>0 DEF CommandFacts, Carrying, N!Kept
  <2>2. poll' \in Polls
    BY DEF CommandTyped, Polls
  <2> QED
    BY <2>1, <2>2 DEF CommandTyped
<1>a. /\ poll.pc \in {"save", "seen"} /\ last' = N!This /\ N!This' = N!This /\ cursor' = cursor
      /\ poll'.pc \in {"next", "handle"} /\ poll'.listen = poll.listen
  BY DEF CommandTyped, Polls, N!This, N!Kept
<1>u. UNCHANGED <<ntfyServer, ntfyCfg, web, topic, carried>>
  OBVIOUS
<1>b. poll'.topic = poll.topic /\ poll'.lines = poll.lines
  BY DEF CommandTyped, Polls
<1>2. PollInv'
  BY <1>a, <1>b, <1>u, PollStays
<1>3. PolledLines'
  BY <1>a, <1>b, <1>u, LinesStay DEF Carrying
<1>4. CursorInv'
  <2>1. CASE poll.listen = Len(topic)
    <3>1. Safe(N!This, Len(topic))
      BY <1>0, <1>a, <2>1 DEF CommandFacts, Safe, PolledLines, Carrying
    <3>2. cursor = N!This
      BY <1>a, <2>1 DEF CursorInv
    <3> QED
      BY <1>a, <2>1, <3>1, <3>2 DEF CursorInv, Safe, Done
  <2>2. CASE poll.listen # Len(topic)
    <3>1. carried[Len(topic)] = <<>>
      BY <1>0, <1>a, <2>2 DEF CommandFacts, PollInv, Carrying
    <3> QED
      BY <1>a, <2>2, <3>1 DEF CursorInv, Safe, Done
  <2> QED
    BY <2>1, <2>2
<1>5. WebInv'
  BY <1>a, <1>u, WebStays DEF Carrying
<1> QED
  BY <1>1, <1>2, <1>3, <1>4, <1>5

(* The rest of an increasing sequence.                                     *)
LEMMA TailIncreases ==
  ASSUME NEW q \in Seq(Nat), q # <<>>, Len(q) # 1, NEW n \in Nat,
         \A i \in 1 .. Len(q) : q[i] \in 1 .. n,
         \A i, j \in 1 .. Len(q) : i < j => q[i] < q[j]
  PROVE  /\ Tail(q) # <<>> /\ \A i \in 1 .. Len(Tail(q)) : Tail(q)[i] \in 1 .. n
         /\ \A i, j \in 1 .. Len(Tail(q)) : i < j => Tail(q)[i] < Tail(q)[j]
         /\ Head(Tail(q)) > Head(q) /\ Head(Tail(q)) \in Nat /\ Head(q) \in Nat
<1>1. Len(q) \in Nat \ {0} /\ Head(q) = q[1]
  OBVIOUS
<1>2. PICK r \in Seq(Nat) : r = Tail(q)
  BY HeadTailProperties
<1>3. Len(r) = Len(q) - 1 /\ \A i \in 1 .. Len(r) : r[i] = q[i + 1]
  BY <1>2, HeadTailProperties
<1>4. Len(r) \in Nat \ {0}
  BY <1>1, <1>3
<1>5. r # <<>>
  <2>1. Len(<<>>) = 0
    OBVIOUS
  <2> QED
    BY <1>4, <2>1
<1>6. Head(r) = r[1]
  BY <1>5
<1>a. 1 \in 1 .. Len(q) /\ 2 \in 1 .. Len(q) /\ 1 \in 1 .. Len(r) /\ 1 + 1 = 2 /\ 1 < 2
  BY <1>1, <1>3, <1>4
<1>b. q[1] \in Nat /\ q[2] \in Nat /\ q[1] < q[2] /\ r[1] = q[2]
  <2>1. r[1] = q[2]
    <3>1. r[1] = q[1 + 1]
      BY <1>3, <1>a, Zenon
    <3> QED
      BY <3>1, <1>a, Zenon
  <2>2. q[1] < q[2]
    BY <1>a, Zenon
  <2>3. q[1] \in Nat /\ q[2] \in Nat
    BY <1>a, ElementOfSeq
  <2> QED
    BY <2>1, <2>2, <2>3
<1>7. r[1] = q[2] /\ q[2] > q[1] /\ q[1] \in Nat /\ q[2] \in Nat
  BY <1>b
<1>0. \A i \in 1 .. Len(r) : i + 1 \in 1 .. Len(q) /\ r[i] = q[i + 1] /\ i \in Nat
  BY <1>1, <1>3
<1>8. \A i \in 1 .. Len(r) : r[i] \in 1 .. n
  BY <1>0
<1>9. ASSUME NEW i \in 1 .. Len(r), NEW j \in 1 .. Len(r), i < j PROVE r[i] < r[j]
  <2>1. i + 1 \in 1 .. Len(q) /\ j + 1 \in 1 .. Len(q) /\ i + 1 < j + 1
    BY <1>0, <1>9
  <2>2. q[i + 1] < q[j + 1]
    BY <2>1
  <2> QED
    BY <1>0, <2>2
<1> QED
  BY <1>1, <1>2, <1>5, <1>6, <1>7, <1>8, <1>9

LEMMA NextLineKeeps ==
  ASSUME CommandTyped, OrdersInv, N!NextLine
  PROVE  CommandTyped' /\ OrdersInv'
<1> USE DEF OrdersInv, N!NextLine, N!history, N!None
<1>0. CommandFacts
  BY CommandFactsHold
<1>1. CommandTyped'
  <2>1. poll.lines \in Seq(Nat) /\ poll.lines # <<>>
    BY <1>0 DEF CommandFacts, Carrying
  <2>2. Tail(poll.lines) \in Seq(Nat)
    BY <2>1
  <2>3. poll' \in Polls
    BY <1>0, <2>2 DEF CommandFacts, CommandTyped, Polls
  <2> QED
    BY <2>3 DEF CommandTyped
<1>u. UNCHANGED <<ntfyServer, ntfyCfg, cursor, last, web, topic, carried>>
  OBVIOUS
<1>a. /\ poll.pc = "next" /\ poll'.pc \in {"idle", "line"}
      /\ poll'.pc # "idle" => poll'.listen = poll.listen /\ poll'.topic = poll.topic
  BY DEF CommandTyped, Polls, N!Idle
<1>2. PollInv'
  BY <1>a, <1>u, PollStays
<1>3. PolledLines'
  <2>1. CASE Len(poll.lines) = 1
    BY <2>1 DEF PolledLines, Carrying, N!Idle
  <2>2. CASE Len(poll.lines) # 1
    <3> DEFINE q == poll.lines
    <3>1. q \in Seq(Nat) /\ q # <<>> /\ Len(q) \in Nat \ {0} /\ Len(q) # 1
      BY <1>0, <2>2 DEF CommandFacts, Carrying
    <3>3. /\ \A i \in 1 .. Len(q) : q[i] \in 1 .. Len(ntfyServer[poll.topic])
          /\ \A i, j \in 1 .. Len(q) : i < j => q[i] < q[j]
          /\ Head(q) >= Done(poll.listen) /\ Head(q) = q[1] /\ Done(poll.listen) \in Nat
      BY <1>0 DEF PolledLines, CommandFacts, Carrying
    <3>4. /\ poll'.pc = "line" /\ poll'.lines = Tail(q) /\ poll'.topic = poll.topic
          /\ poll'.listen = poll.listen /\ Done(poll.listen)' = Done(poll.listen)
          /\ ntfyServer' = ntfyServer
      BY <2>2 DEF CommandTyped, Polls, Done
    <3>5. Len(ntfyServer[poll.topic]) \in Nat
      BY <1>0 DEF CommandFacts, Carrying
    <3> HIDE DEF q
    <3>6. /\ Tail(q) # <<>>
          /\ \A i \in 1 .. Len(Tail(q)) : Tail(q)[i] \in 1 .. Len(ntfyServer[poll.topic])
          /\ \A i, j \in 1 .. Len(Tail(q)) : i < j => Tail(q)[i] < Tail(q)[j]
          /\ Head(Tail(q)) > Head(q) /\ Head(Tail(q)) \in Nat /\ Head(q) \in Nat
      BY <3>1, <3>3, <3>5, TailIncreases
    <3>7. Head(Tail(q)) > Done(poll.listen) /\ Head(Tail(q)) >= Done(poll.listen)
      BY <3>3, <3>6
    <3> QED
      BY <3>4, <3>6, <3>7 DEF PolledLines, Done
  <2> QED
    BY <2>1, <2>2
<1>4. CursorInv'
  BY <1>a, <1>u, CursorStays
<1>5. WebInv'
  BY <1>a, <1>u, WebStays DEF Carrying
<1> QED
  BY <1>1, <1>2, <1>3, <1>4, <1>5

LEMMA SetConfigKeeps ==
  ASSUME CommandTyped, OrdersInv, NEW b \in BOOLEAN, NEW t \in Topics, N!SetConfig([on |-> b, topic |-> t])
  PROVE  CommandTyped' /\ OrdersInv'
<1> USE DEF OrdersInv, N!SetConfig, N!history, N!None
<1>0. CommandFacts
  BY CommandFactsHold
<1>1. CommandTyped'
  BY <1>0 DEF CommandFacts, CommandTyped, Polls, Webs, Configs, N!This, N!Idle, N!WebIdle, N!Kept, N!Listening
<1>2. PollInv'
  BY <1>1 DEF CommandTyped, Polls, Webs, Configs, Ids, PollInv, PolledLines, CursorInv, WebInv, Carrying, Done, N!Orders!Last, Safe, N!This, N!Idle, N!WebIdle, N!Kept, N!Listening
<1>3. PolledLines'
  BY <1>1 DEF CommandTyped, Polls, Webs, Configs, Ids, PollInv, PolledLines, CursorInv, WebInv, Carrying, Done, N!Orders!Last, Safe, N!This, N!Idle, N!WebIdle, N!Kept, N!Listening
<1>4. CursorInv'
  BY <1>1 DEF CommandTyped, Polls, Webs, Configs, Ids, PollInv, PolledLines, CursorInv, WebInv, Carrying, Done, N!Orders!Last, Safe, N!This, N!Idle, N!WebIdle, N!Kept, N!Listening
<1>5. WebInv'
  BY <1>1 DEF CommandTyped, Polls, Webs, Configs, Ids, PollInv, PolledLines, CursorInv, WebInv, Carrying, Done, N!Orders!Last, Safe, N!This, N!Idle, N!WebIdle, N!Kept, N!Listening
<1> QED
  BY <1>1, <1>2, <1>3, <1>4, <1>5

LEMMA KeySavedKeeps ==
  ASSUME CommandTyped, OrdersInv, N!KeySaved
  PROVE  CommandTyped' /\ OrdersInv'
<1> USE DEF OrdersInv, N!KeySaved, N!history, N!None
<1>0. CommandFacts
  BY CommandFactsHold
<1>1. CommandTyped'
  <2>1. stored' \in Configs
    <3>1. web.new \in Configs /\ stored \in Configs
      BY DEF CommandTyped, Webs
    <3>2. \/ stored' = [stored EXCEPT !.on = web.new.on]
          \/ stored' = [stored EXCEPT !.topic = web.new.topic]
      OBVIOUS
    <3> HIDE DEF N!KeySaved
    <3> QED
      BY <3>1, <3>2 DEF Configs
  <2>2. web' \in Webs
    BY DEF CommandTyped, Webs
  <2> QED
    BY <2>1, <2>2 DEF CommandTyped
<1>u. UNCHANGED <<ntfyServer, ntfyCfg, cursor, last, poll, topic, carried>>
  OBVIOUS
<1>a. /\ web.pc \in {"on", "topic"} /\ web'.pc \in {"topic", "ram"}
      /\ web'.new = web.new /\ web'.moved = web.moved
  BY DEF CommandTyped, Webs
<1>2. PollInv'
  BY <1>1 DEF CommandTyped, Polls, Webs, Configs, Ids, PollInv, PolledLines, CursorInv, WebInv, Carrying, Done, N!Orders!Last, Safe, N!This, N!Idle, N!WebIdle, N!Kept, N!Listening
<1>3. PolledLines'
  BY <1>1 DEF CommandTyped, Polls, Webs, Configs, Ids, PollInv, PolledLines, CursorInv, WebInv, Carrying, Done, N!Orders!Last, Safe, N!This, N!Idle, N!WebIdle, N!Kept, N!Listening
<1>4. CursorInv'
  BY <1>1 DEF CommandTyped, Polls, Webs, Configs, Ids, PollInv, PolledLines, CursorInv, WebInv, Carrying, Done, N!Orders!Last, Safe, N!This, N!Idle, N!WebIdle, N!Kept, N!Listening
<1>5. WebInv'
  BY <1>a, <1>u DEF WebInv
<1> QED
  BY <1>1, <1>2, <1>3, <1>4, <1>5

LEMMA KeyFailsKeeps ==
  ASSUME CommandTyped, OrdersInv, N!KeyFails
  PROVE  CommandTyped' /\ OrdersInv'
<1> USE DEF OrdersInv, N!KeyFails, N!history, N!None
<1>0. CommandFacts
  BY CommandFactsHold
<1>1. CommandTyped'
  BY <1>0 DEF CommandFacts, CommandTyped, Polls, Webs, Configs, N!This, N!Idle, N!WebIdle, N!Kept, N!Listening
<1>2. PollInv'
  BY <1>1 DEF CommandTyped, Polls, Webs, Configs, Ids, PollInv, PolledLines, CursorInv, WebInv, Carrying, Done, N!Orders!Last, Safe, N!This, N!Idle, N!WebIdle, N!Kept, N!Listening
<1>3. PolledLines'
  BY <1>1 DEF CommandTyped, Polls, Webs, Configs, Ids, PollInv, PolledLines, CursorInv, WebInv, Carrying, Done, N!Orders!Last, Safe, N!This, N!Idle, N!WebIdle, N!Kept, N!Listening
<1>4. CursorInv'
  BY <1>1 DEF CommandTyped, Polls, Webs, Configs, Ids, PollInv, PolledLines, CursorInv, WebInv, Carrying, Done, N!Orders!Last, Safe, N!This, N!Idle, N!WebIdle, N!Kept, N!Listening
<1>5. WebInv'
  BY <1>1 DEF CommandTyped, Polls, Webs, Configs, Ids, PollInv, PolledLines, CursorInv, WebInv, Carrying, Done, N!Orders!Last, Safe, N!This, N!Idle, N!WebIdle, N!Kept, N!Listening
<1> QED
  BY <1>1, <1>2, <1>3, <1>4, <1>5

LEMMA SwapKeeps ==
  ASSUME CommandTyped, OrdersInv, ~MidPoll, N!Swap
  PROVE  CommandTyped' /\ OrdersInv'
<1> USE DEF OrdersInv, N!Swap, N!history, N!None
<1>0. CommandFacts
  BY CommandFactsHold
<1>a. /\ web.pc = "ram" /\ ntfyCfg' = web.new /\ poll' = poll /\ cursor' = cursor /\ last' = last
      /\ carried' = carried /\ ntfyServer' = ntfyServer /\ N!This' = N!This
      /\ web'.pc = (IF web.moved THEN "clear" ELSE "idle") /\ web'.new = web.new /\ web'.moved = web.moved
      /\ (web.moved => poll.pc # "copied") /\ topic \in Seq(Topics)
      /\ (web.moved <=> web.new.topic # ntfyCfg.topic) /\ (web.moved => Len(topic) < MaxListens)
  BY DEF CommandTyped, Webs, WebInv, N!This
<1>b. /\ web.moved => topic' = Append(topic, web.new.topic)
      /\ ~web.moved => topic' = topic
  BY <1>a DEF N!Listening
<1>c. web.new \in Configs /\ web.new.topic \in Topics
  BY DEF CommandTyped, Webs, Configs
<1>1. CommandTyped'
  <2>1. topic' \in Seq(Topics)
    <3>1. Append(topic, web.new.topic) \in Seq(Topics)
      BY <1>a, <1>c
    <3> QED
      BY <1>a, <1>b, <3>1
  <2>2. web' \in Webs
    BY DEF CommandTyped, Webs
  <2> QED
    BY <1>a, <1>c, <2>1, <2>2 DEF CommandTyped
<1>d. /\ web.moved => /\ Len(topic') = Len(topic) + 1 /\ topic'[Len(topic) + 1] = web.new.topic
                      /\ \A l \in 1 .. Len(topic) : topic'[l] = topic[l]
      /\ web.moved \in BOOLEAN
  BY <1>a, <1>b, <1>c DEF CommandTyped, Webs
<1>2. PollInv'
  <2>1. CASE web.moved
    BY <1>0, <1>a, <1>d, <2>1 DEF PollInv, Safe, CommandFacts, Done
  <2>2. CASE ~web.moved
    BY <1>a, <1>b, <2>2 DEF PollInv, Safe, Done
  <2> QED
    BY <2>1, <2>2
<1>3. PolledLines'
  BY <1>a DEF PolledLines, Done
<1>4. CursorInv'
  <2>1. CASE web.moved
    <3>0. Len(topic) + 1 \in Len(topic) + 1 .. MaxListens /\ Len(topic) + 1 \in 1 .. MaxListens
          /\ Len(topic') = Len(topic) + 1
      BY <1>0, <1>a, <1>b, <1>d, <2>1, ListensAssumption DEF CommandFacts
    <3>1. carried[Len(topic')] = <<>> /\ Len(topic') = Len(topic) + 1
      BY <3>0 DEF WebInv
    <3>2. poll.listen = Len(topic') => poll.pc = "idle"
      BY <1>0, <3>1 DEF CommandFacts
    <3> QED
      BY <1>a, <3>1, <3>2 DEF CursorInv, Safe, Done
  <2>2. CASE ~web.moved
    BY <1>a, <1>b, <2>2 DEF CursorInv, Safe, Done
  <2> QED
    BY <2>1, <2>2
<1>5. WebInv'
  <2>1. CASE web.moved
    <3>0. Len(topic) + 1 \in Len(topic) + 1 .. MaxListens /\ Len(topic) + 1 \in 1 .. MaxListens
          /\ Len(topic') = Len(topic) + 1
      BY <1>0, <1>a, <1>b, <1>d, <2>1, ListensAssumption DEF CommandFacts
    <3>1. carried[Len(topic')] = <<>> /\ Len(topic') = Len(topic) + 1 /\ Len(topic') \in 1 .. MaxListens
      BY <3>0 DEF WebInv
    <3>2. poll.listen = Len(topic') => poll.pc = "idle"
      BY <1>0, <3>1 DEF CommandFacts
    <3>3. topic'[Len(topic')] = ntfyCfg'.topic
      BY <1>a, <1>d, <2>1
    <3>4. \A l \in Len(topic') + 1 .. MaxListens : carried[l] = <<>>
      BY <1>0, <3>1 DEF CommandFacts, WebInv
    <3> QED
      BY <1>a, <2>1, <3>1, <3>2, <3>3, <3>4 DEF WebInv, Carrying
  <2>2. CASE ~web.moved
    BY <1>a, <1>b, <2>2 DEF WebInv
  <2> QED
    BY <2>1, <2>2
<1> QED
  BY <1>1, <1>2, <1>3, <1>4, <1>5

LEMMA ForgetKeeps ==
  ASSUME CommandTyped, OrdersInv, N!Forget
  PROVE  CommandTyped' /\ OrdersInv'
<1> USE DEF OrdersInv, N!Forget, N!history, N!None
<1>0. CommandFacts
  BY CommandFactsHold
<1>1. CommandTyped'
  BY <1>0 DEF CommandFacts, CommandTyped, Polls, Webs, Configs, N!This, N!Idle, N!WebIdle, N!Kept, N!Listening
<1>2. PollInv'
  BY <1>1 DEF CommandTyped, Polls, Webs, Configs, Ids, PollInv, PolledLines, CursorInv, WebInv, Carrying, Done, N!Orders!Last, Safe, N!This, N!Idle, N!WebIdle, N!Kept, N!Listening
<1>3. PolledLines'
  BY <1>1 DEF CommandTyped, Polls, Webs, Configs, Ids, PollInv, PolledLines, CursorInv, WebInv, Carrying, Done, N!Orders!Last, Safe, N!This, N!Idle, N!WebIdle, N!Kept, N!Listening
<1>4. CursorInv'
  BY <1>1 DEF CommandTyped, Polls, Webs, Configs, Ids, PollInv, PolledLines, CursorInv, WebInv, Carrying, Done, N!Orders!Last, Safe, N!This, N!Idle, N!WebIdle, N!Kept, N!Listening
<1>5. WebInv'
  BY <1>1 DEF CommandTyped, Polls, Webs, Configs, Ids, PollInv, PolledLines, CursorInv, WebInv, Carrying, Done, N!Orders!Last, Safe, N!This, N!Idle, N!WebIdle, N!Kept, N!Listening
<1> QED
  BY <1>1, <1>2, <1>3, <1>4, <1>5

LEMMA EraseKeeps ==
  ASSUME CommandTyped, OrdersInv, N!Erase
  PROVE  CommandTyped' /\ OrdersInv'
<1> USE DEF OrdersInv, N!Erase, N!history, N!None
<1>0. CommandFacts
  BY CommandFactsHold
<1>1. CommandTyped'
  BY <1>0 DEF CommandFacts, CommandTyped, Polls, Webs, Configs, N!This, N!Idle, N!WebIdle, N!Kept, N!Listening
<1>2. PollInv'
  BY <1>1 DEF CommandTyped, Polls, Webs, Configs, Ids, PollInv, PolledLines, CursorInv, WebInv, Carrying, Done, N!Orders!Last, Safe, N!This, N!Idle, N!WebIdle, N!Kept, N!Listening
<1>3. PolledLines'
  BY <1>1 DEF CommandTyped, Polls, Webs, Configs, Ids, PollInv, PolledLines, CursorInv, WebInv, Carrying, Done, N!Orders!Last, Safe, N!This, N!Idle, N!WebIdle, N!Kept, N!Listening
<1>4. CursorInv'
  BY <1>1 DEF CommandTyped, Polls, Webs, Configs, Ids, PollInv, PolledLines, CursorInv, WebInv, Carrying, Done, N!Orders!Last, Safe, N!This, N!Idle, N!WebIdle, N!Kept, N!Listening
<1>5. WebInv'
  BY <1>1 DEF CommandTyped, Polls, Webs, Configs, Ids, PollInv, PolledLines, CursorInv, WebInv, Carrying, Done, N!Orders!Last, Safe, N!This, N!Idle, N!WebIdle, N!Kept, N!Listening
<1> QED
  BY <1>1, <1>2, <1>3, <1>4, <1>5

LEMMA RestartKeeps ==
  ASSUME CommandTyped, OrdersInv, N!Restart
  PROVE  CommandTyped' /\ OrdersInv'
<1> USE DEF OrdersInv, N!Restart, N!history, N!None
<1>0. CommandFacts
  BY CommandFactsHold
<1>a. /\ ntfyCfg' = stored /\ cursor' = last /\ last' = last /\ carried' = carried /\ poll' = N!Idle
      /\ ntfyServer' = ntfyServer /\ stored' = stored /\ web' = N!WebIdle(stored)
      /\ poll'.pc = "idle" /\ poll'.listen = 0 /\ web'.pc = "idle" /\ topic \in Seq(Topics)
      /\ stored \in Configs /\ stored.topic \in Topics
  BY <1>0 DEF N!Idle, N!WebIdle, CommandTyped, CommandFacts
<1>b. \/ stored.topic = ntfyCfg.topic /\ topic' = topic
      \/ /\ stored.topic # ntfyCfg.topic /\ topic' = Append(topic, stored.topic) /\ Len(topic) < MaxListens
  BY DEF N!Listening
<1>d. topic' # topic => /\ Len(topic') = Len(topic) + 1 /\ topic'[Len(topic) + 1] = stored.topic
  BY <1>a, <1>b
<1>1. CommandTyped'
  <2>1. topic' \in Seq(Topics)
    BY <1>a, <1>b
  <2>2. web' \in Webs
    BY <1>a DEF Webs, N!WebIdle
  <2> QED
    BY <1>0, <1>a, <2>1, <2>2 DEF CommandTyped, CommandFacts
<1>2. PollInv'
  BY <1>a DEF PollInv
<1>3. PolledLines'
  BY <1>a DEF PolledLines, Carrying
<1>4. CursorInv'
  <2>1. CASE topic' = topic
    BY <1>a, <2>1 DEF CursorInv, Safe, Done
  <2>2. CASE topic' # topic
    <3>0. Len(topic) + 1 \in Len(topic) + 1 .. MaxListens /\ Len(topic) + 1 \in 1 .. MaxListens
          /\ Len(topic') = Len(topic) + 1
      BY <1>0, <1>a, <1>b, <1>d, <2>2, ListensAssumption DEF CommandFacts
    <3>1. carried[Len(topic')] = <<>>
      BY <3>0 DEF WebInv
    <3> QED
      BY <1>a, <3>1 DEF CursorInv, Safe, Done
  <2> QED
    BY <2>1, <2>2
<1>5. WebInv'
  <2>1. CASE topic' = topic
    BY <1>a, <1>b, <2>1 DEF WebInv
  <2>2. CASE topic' # topic
    <3>0. Len(topic) + 1 \in Len(topic) + 1 .. MaxListens /\ Len(topic) + 1 \in 1 .. MaxListens
          /\ Len(topic') = Len(topic) + 1
      BY <1>0, <1>a, <1>b, <1>d, <2>2, ListensAssumption DEF CommandFacts
    <3>1. Len(topic') \in 1 .. MaxListens /\ topic'[Len(topic')] = ntfyCfg'.topic
      BY <1>a, <1>d, <2>2, <3>0
    <3>2. \A l \in Len(topic') + 1 .. MaxListens : carried[l] = <<>>
      <4>1. \A l \in Len(topic) + 1 .. MaxListens : carried[l] = <<>>
        BY DEF WebInv
      <4>2. Len(topic) \in Nat /\ MaxListens \in Nat
        BY <1>0, ListensAssumption DEF CommandFacts
      <4>3. Len(topic') + 1 .. MaxListens \subseteq Len(topic) + 1 .. MaxListens
        <5> HIDE DEF OrdersInv, N!Restart
        <5> QED
          BY <3>0, <4>2
      <4> QED
        BY <4>1, <4>3
    <3> QED
      BY <1>a, <3>1, <3>2 DEF WebInv
  <2> QED
    BY <2>1, <2>2
<1> QED
  BY <1>1, <1>2, <1>3, <1>4, <1>5

(* A topic only grows, by one message.                                     *)
LEMMA TopicGrows ==
  ASSUME CommandTyped, NEW t \in Topics, NEW m \in {"wake", "own"},
         ntfyServer' = [ntfyServer EXCEPT ![t] = Append(@, m)]
  PROVE  /\ ntfyServer' \in [Topics -> Seq({"wake", "own"})]
         /\ N!Published' = [N!Published EXCEPT ![t] = @ + 1]
         /\ \A u \in Topics : Len(ntfyServer[u]) \in Nat /\ Len(ntfyServer'[u]) \in Nat
                              /\ Len(ntfyServer'[u]) >= Len(ntfyServer[u])
<1>1. ntfyServer \in [Topics -> Seq({"wake", "own"})]
  BY DEF CommandTyped
<1>2. \A u \in Topics : ntfyServer[u] \in Seq({"wake", "own"}) /\ Len(ntfyServer[u]) \in Nat
  <2> SUFFICES ASSUME NEW u \in Topics
               PROVE  ntfyServer[u] \in Seq({"wake", "own"}) /\ Len(ntfyServer[u]) \in Nat
    OBVIOUS
  <2>1. ntfyServer[u] \in Seq({"wake", "own"})
    BY <1>1
  <2> QED
    BY <2>1, LenProperties
<1>3. Append(ntfyServer[t], m) \in Seq({"wake", "own"}) /\ Len(Append(ntfyServer[t], m)) = Len(ntfyServer[t]) + 1
  BY <1>2
<1>4. ntfyServer' \in [Topics -> Seq({"wake", "own"})]
  BY <1>1, <1>3
<1>5. \A u \in Topics : Len(ntfyServer'[u]) = IF u = t THEN Len(ntfyServer[u]) + 1 ELSE Len(ntfyServer[u])
  BY <1>1, <1>3
<1>6. N!Published' = [N!Published EXCEPT ![t] = @ + 1]
  BY <1>5 DEF N!Published
<1> QED
  BY <1>2, <1>4, <1>5, <1>6

LEMMA PublishKeeps ==
  ASSUME CommandTyped, OrdersInv, NEW t \in Topics, N!Publish(t)
  PROVE  CommandTyped' /\ OrdersInv'
<1> USE DEF OrdersInv, N!Publish, N!history, N!None
<1>0. CommandFacts
  BY CommandFactsHold
<1>a. ntfyServer' \in [Topics -> Seq({"wake", "own"})]
      /\ \A u \in Topics : Len(ntfyServer[u]) \in Nat /\ Len(ntfyServer'[u]) \in Nat
                           /\ Len(ntfyServer'[u]) >= Len(ntfyServer[u])
  BY TopicGrows
<1>1. CommandTyped'
  BY <1>a DEF CommandTyped
<1>2. PollInv'
  BY <1>1 DEF CommandTyped, Polls, Webs, Configs, Ids, PollInv, PolledLines, CursorInv, WebInv, Carrying, Done, N!Orders!Last, Safe, N!This, N!Idle, N!WebIdle, N!Kept, N!Listening
<1>3. PolledLines'
  <2>1. poll.pc \in Carrying =>
          \A i \in 1 .. Len(poll.lines) : poll.lines[i] \in 1 .. Len(ntfyServer'[poll.topic])
    <3> SUFFICES ASSUME poll.pc \in Carrying, NEW i \in 1 .. Len(poll.lines)
                 PROVE  poll.lines[i] \in 1 .. Len(ntfyServer'[poll.topic])
      OBVIOUS
    <3>1. poll.topic \in Topics
      BY <1>0 DEF CommandFacts, Carrying
    <3>2. poll.lines[i] \in 1 .. Len(ntfyServer[poll.topic])
      BY DEF PolledLines
    <3>3. /\ Len(ntfyServer[poll.topic]) \in Nat /\ Len(ntfyServer'[poll.topic]) \in Nat
          /\ Len(ntfyServer'[poll.topic]) >= Len(ntfyServer[poll.topic])
      BY <1>a, <3>1
    <3> HIDE DEF N!Publish
    <3> QED
      BY <3>2, <3>3
  <2> QED
    BY <2>1 DEF PolledLines, Done
<1>4. CursorInv'
  BY <1>1 DEF CommandTyped, Polls, Webs, Configs, Ids, PollInv, PolledLines, CursorInv, WebInv, Carrying, Done, N!Orders!Last, Safe, N!This, N!Idle, N!WebIdle, N!Kept, N!Listening
<1>5. WebInv'
  BY <1>1 DEF CommandTyped, Polls, Webs, Configs, Ids, PollInv, PolledLines, CursorInv, WebInv, Carrying, Done, N!Orders!Last, Safe, N!This, N!Idle, N!WebIdle, N!Kept, N!Listening
<1> QED
  BY <1>1, <1>2, <1>3, <1>4, <1>5

LEMMA AnswerKeeps ==
  ASSUME CommandTyped, OrdersInv, N!Answer
  PROVE  CommandTyped' /\ OrdersInv'
<1> USE DEF OrdersInv, N!Answer, N!history, N!None
<1>0. CommandFacts
  BY CommandFactsHold
<1>a. poll.pc = "answer" /\ poll.topic \in Topics /\ poll' = [poll EXCEPT !.pc = "next"]
      /\ poll'.pc = "next" /\ poll'.lines = poll.lines /\ poll'.listen = poll.listen
      /\ poll'.topic = poll.topic /\ poll' \in Polls
  BY <1>0 DEF CommandFacts, CommandTyped, Polls
<1>b. \/ ntfyServer' = [ntfyServer EXCEPT ![poll.topic] = Append(@, "own")]
      \/ UNCHANGED ntfyServer
  OBVIOUS
<1>c. ntfyServer' \in [Topics -> Seq({"wake", "own"})]
      /\ \A u \in Topics : Len(ntfyServer[u]) \in Nat /\ Len(ntfyServer'[u]) \in Nat
                           /\ Len(ntfyServer'[u]) >= Len(ntfyServer[u])
  <2>1. CASE ntfyServer' = [ntfyServer EXCEPT ![poll.topic] = Append(@, "own")]
    BY <1>a, <2>1, TopicGrows
  <2>2. CASE UNCHANGED ntfyServer
    BY <1>0, <2>2 DEF CommandTyped, CommandFacts
  <2> QED
    BY <1>b, <2>1, <2>2
<1>1. CommandTyped'
  BY <1>a, <1>c DEF CommandTyped
<1>2. PollInv'
  BY <1>1 DEF CommandTyped, Polls, Webs, Configs, Ids, PollInv, PolledLines, CursorInv, WebInv, Carrying, Done, N!Orders!Last, Safe, N!This, N!Idle, N!WebIdle, N!Kept, N!Listening
<1>3. PolledLines'
  <2>1. \A i \in 1 .. Len(poll.lines) : poll.lines[i] \in 1 .. Len(ntfyServer'[poll.topic])
    BY <1>a, <1>c DEF PolledLines, Carrying
  <2> QED
    BY <1>a, <2>1 DEF PolledLines, Done, Carrying
<1>4. CursorInv'
  BY <1>1 DEF CommandTyped, Polls, Webs, Configs, Ids, PollInv, PolledLines, CursorInv, WebInv, Carrying, Done, N!Orders!Last, Safe, N!This, N!Idle, N!WebIdle, N!Kept, N!Listening
<1>5. WebInv'
  BY <1>1 DEF CommandTyped, Polls, Webs, Configs, Ids, PollInv, PolledLines, CursorInv, WebInv, Carrying, Done, N!Orders!Last, Safe, N!This, N!Idle, N!WebIdle, N!Kept, N!Listening
<1> QED
  BY <1>1, <1>2, <1>3, <1>4, <1>5

LEMMA AppendedLast ==
  ASSUME NEW q \in Seq(Nat), NEW n \in Nat
  PROVE  Append(q, n) # <<>> /\ Append(q, n)[Len(Append(q, n))] = n
<1>1. Len(Append(q, n)) = Len(q) + 1 /\ Append(q, n)[Len(q) + 1] = n /\ Append(q, n) # <<>>
  BY AppendProperties
<1> QED
  BY <1>1

LEMMA HandleKeeps ==
  ASSUME CommandTyped, OrdersInv, N!Handle
  PROVE  CommandTyped' /\ OrdersInv'
<1> USE DEF OrdersInv, N!Handle, N!history, N!None
<1>0. CommandFacts
  BY CommandFactsHold
<1> DEFINE n == Head(poll.lines)
           l == poll.listen
<1>a. /\ poll.pc = "handle" /\ poll.topic \in Topics /\ l \in 1 .. MaxListens /\ l \in 1 .. Len(topic)
      /\ n \in Nat /\ carried[l] \in Seq(Nat) /\ n > Done(l) /\ Done(l) \in Nat
      /\ poll.topic = topic[l] /\ n \in 1 .. Len(ntfyServer[topic[l]])
  BY <1>0 DEF CommandFacts, Carrying, PolledLines
<1>b. /\ poll'.pc \in {"next", "answer"} /\ poll'.lines = poll.lines /\ poll'.listen = l
      /\ poll'.topic = poll.topic /\ poll' \in Polls /\ N!This' = N!This
  BY DEF CommandTyped, Polls, N!This
<1>c. carried' = carried \/ carried' = [carried EXCEPT ![l] = Append(@, n)]
  OBVIOUS
<1>d. carried' = carried \/ Done(l)' = n
  <2>1. CASE carried' = [carried EXCEPT ![l] = Append(@, n)]
    <3>1. carried'[l] = Append(carried[l], n)
      BY <1>a, <2>1 DEF CommandTyped
    <3>2. Append(carried[l], n) # <<>> /\ Append(carried[l], n)[Len(Append(carried[l], n))] = n
      BY <1>a, AppendedLast
    <3>3. l' = l
      BY <1>b
    <3> QED
      BY <3>1, <3>2, <3>3, Zenon DEF Done, N!Orders!Last
  <2> QED
    BY <1>c, <2>1
<1>e. \A k \in 1 .. MaxListens : k # l => carried'[k] = carried[k]
  BY <1>c DEF CommandTyped
<1>1. CommandTyped'
  <2>1. Append(carried[l], n) \in Seq(Nat)
    BY <1>a
  <2>2. carried' \in [1 .. MaxListens -> Seq(Nat)]
    BY <1>c, <2>1 DEF CommandTyped
  <2> QED
    BY <1>b, <2>2 DEF CommandTyped
<1>f. /\ cursor' = cursor /\ last' = last /\ topic' = topic /\ ntfyServer' = ntfyServer
      /\ web' = web /\ ntfyCfg' = ntfyCfg
  OBVIOUS
<1>g. l = Len(topic) => cursor = N!This /\ last = N!This /\ N!This[1] = topic[l] /\ N!This[2] = n /\ N!This # <<>>
  BY <1>0, <1>a DEF CursorInv, CommandFacts, Carrying
<1>2. PollInv'
  BY <1>a, <1>b, <1>e, <1>f DEF PollInv
<1>3. PolledLines'
  <2>1. n >= Done(l)'
    BY <1>a, <1>d DEF Done
  <2> QED
    BY <1>a, <1>b, <1>f, <2>1 DEF PolledLines, Carrying
<1>4. CursorInv'
  <2>1. CASE l = Len(topic)
    <3>1. N!This # N!None /\ N!This[1] = topic[Len(topic)] /\ N!This[2] >= Done(l)'
      BY <1>a, <1>d, <1>g, <2>1 DEF Done
    <3> QED
      BY <1>b, <1>f, <1>g, <2>1, <3>1 DEF CursorInv, Safe, Done
  <2>2. CASE l # Len(topic)
    <3>1. carried'[Len(topic)] = carried[Len(topic)]
      BY <1>0, <1>e, <2>2 DEF CommandFacts
    <3> QED
      BY <1>b, <1>f, <2>2, <3>1 DEF CursorInv, Safe, Done
  <2> QED
    BY <2>1, <2>2
<1>5. WebInv'
  <2>1. \A k \in Len(topic) + 1 .. MaxListens : carried'[k] = carried[k]
    BY <1>0, <1>a, <1>e DEF CommandFacts
  <2>2. web.pc \in {"clear", "erase"} => l # Len(topic) /\ carried'[Len(topic)] = carried[Len(topic)]
    BY <1>0, <1>a, <1>e DEF CommandFacts, WebInv, Carrying
  <2>3. WebInv
    OBVIOUS
  <2> HIDE DEF OrdersInv, N!Handle
  <2>5. /\ Len(topic') \in 1 .. MaxListens /\ topic'[Len(topic')] = ntfyCfg'.topic
        /\ \A k \in Len(topic') + 1 .. MaxListens : carried'[k] = <<>>
    BY <1>f, <2>1, <2>3 DEF WebInv
  <2>6. web'.pc \in {"clear", "erase"} =>
          carried'[Len(topic')] = <<>> /\ (poll'.listen = Len(topic') => poll'.pc \notin Carrying)
    BY <1>b, <1>f, <2>2, <2>3 DEF WebInv
  <2>7. web'.pc \in {"on", "topic", "ram"} =>
          (web'.moved <=> web'.new.topic # ntfyCfg'.topic) /\ (web'.moved => Len(topic') < MaxListens)
    BY <1>f, <2>3 DEF WebInv
  <2> QED
    BY <2>5, <2>6, <2>7 DEF WebInv
<1> QED
  BY <1>1, <1>2, <1>3, <1>4, <1>5

LEMMA FollowsMore ==
  ASSUME NEW t, NEW n \in Nat, NEW m \in Nat, m <= n, NEW s, Follows(s, t, n)
  PROVE  Follows(s, t, m)
<1>1. \A i \in 1 .. Len(s) : s[i] \in n + 1 .. Len(ntfyServer[t])
  BY DEF Follows
<1>2. \A i \in 1 .. Len(s) : s[i] \in m + 1 .. Len(ntfyServer[t])
  BY <1>1
<1> QED
  BY <1>2 DEF Follows

LEMMA AnsweredKeeps ==
  ASSUME CommandTyped, OrdersInv, N!Answered
  PROVE  CommandTyped' /\ OrdersInv'
<1> USE DEF OrdersInv, N!Answered, N!history, N!None
<1>0. CommandFacts
  BY CommandFactsHold
<1> DEFINE l == poll.listen
           t == poll.topic
<1>a. /\ poll.pc = "asked" /\ web.pc \notin {"clear", "erase"} /\ t \in Topics /\ l \in 1 .. MaxListens
      /\ t = topic[l] /\ Safe(poll.since, l) /\ poll.since \in Ids /\ Done(l) \in Nat
  BY <1>0 DEF CommandFacts, PollInv, CommandTyped, Polls
<1>b. PICK u \in N!Suffixes(t, poll.since) : \E lines \in N!Heard(u) :
         poll' = IF lines = <<>> THEN N!Idle ELSE [poll EXCEPT !.pc = "line", !.lines = lines]
  OBVIOUS
<1>h. PICK lines \in N!Heard(u) :
         poll' = IF lines = <<>> THEN N!Idle ELSE [poll EXCEPT !.pc = "line", !.lines = lines]
  BY <1>b
<1>c. Follows(u, t, Done(l))
  <2> DEFINE from(n) == [i \in 1 .. Len(ntfyServer[t]) - n |-> n + i]
  <2>1. CASE carried[l] = <<>>
    <3>1. Done(l) = 0
      BY <2>1, Zenon DEF Done, N!Orders!Last
    <3>2. \E n \in Nat : u = from(n)
      <4>1. CASE poll.since = <<>>
        <5>1. \E n \in 0 .. Len(ntfyServer[t]) : u = from(n)
          BY <1>b, <4>1 DEF N!Suffixes
        <5> QED
          BY <5>1
      <4>2. CASE poll.since # <<>> /\ poll.since[1] = t
        <5>1. u = from(poll.since[2])
          BY <1>b, <4>2 DEF N!Suffixes
        <5>2. poll.since[2] \in Nat
          BY <1>a, <4>2 DEF Ids
        <5> QED
          BY <5>1, <5>2
      <4>3. CASE poll.since # <<>> /\ poll.since[1] # t
        <5>1. u = from(0)
          BY <1>b, <4>3 DEF N!Suffixes
        <5> QED
          BY <5>1
      <4> QED
        BY <4>1, <4>2, <4>3
    <3>3. PICK n \in Nat : u = from(n)
      BY <3>2
    <3>4. Follows(u, t, n)
      BY <1>a, <3>3, SuffixFollows
    <3> QED
      BY <3>1, <3>4, FollowsMore
  <2>2. CASE carried[l] # <<>>
    <3>1. poll.since # <<>> /\ poll.since[1] = t /\ poll.since[2] >= Done(l)
      BY <1>a, <2>2 DEF Safe
    <3>2. u = from(poll.since[2])
      BY <1>b, <3>1 DEF N!Suffixes
    <3>3. poll.since[2] \in Nat
      BY <1>a, <3>1 DEF Ids
    <3>4. Follows(u, t, poll.since[2])
      BY <1>a, <3>2, <3>3, SuffixFollows
    <3> QED
      BY <1>a, <3>1, <3>3, <3>4, FollowsMore
  <2> QED
    BY <2>1, <2>2
<1>d. Follows(lines, t, Done(l))
  BY <1>a, <1>c, HeardFollows
<1>e. \/ lines = <<>> /\ poll' = N!Idle /\ poll'.pc = "idle" /\ poll'.listen = 0
      \/ /\ lines # <<>> /\ poll'.pc = "line" /\ poll'.listen = l /\ poll'.topic = t /\ poll'.lines = lines
         /\ poll' \in Polls
  <2>1. CASE lines = <<>>
    BY <1>h, <2>1 DEF N!Idle
  <2>2. CASE lines # <<>>
    <3>1. lines \in Seq(Nat)
      BY <1>d DEF Follows
    <3>2. poll' = [poll EXCEPT !.pc = "line", !.lines = lines]
      BY <1>h, <2>2
    <3> QED
      BY <2>2, <3>1, <3>2 DEF CommandTyped, Polls
  <2> QED
    BY <2>1, <2>2
<1>f. /\ cursor' = cursor /\ last' = last /\ topic' = topic /\ ntfyServer' = ntfyServer
      /\ web' = web /\ ntfyCfg' = ntfyCfg /\ carried' = carried /\ stored' = stored
  OBVIOUS
<1>1. CommandTyped'
  BY <1>0, <1>e, <1>f DEF CommandTyped, CommandFacts
<1>2. PollInv'
  BY <1>0, <1>a, <1>e, <1>f DEF PollInv, CommandFacts
<1>3. PolledLines'
  <2>1. CASE lines = <<>>
    BY <1>e, <2>1 DEF PolledLines, Carrying
  <2>2. CASE lines # <<>>
    <3>1. /\ lines \in Seq(Nat) /\ \A i \in 1 .. Len(lines) : lines[i] \in Done(l) + 1 .. Len(ntfyServer[t])
          /\ \A i, j \in 1 .. Len(lines) : i < j => lines[i] < lines[j]
      BY <1>d DEF Follows
    <3>2. Len(ntfyServer[t]) \in Nat
      BY <1>0, <1>a DEF CommandFacts
    <3>3. \A i \in 1 .. Len(lines) : lines[i] \in 1 .. Len(ntfyServer[t]) /\ lines[i] > Done(l)
      BY <1>a, <3>1, <3>2
    <3>4. Len(lines) \in Nat \ {0} /\ Head(lines) = lines[1]
      BY <2>2, <3>1
    <3>5. Head(lines) > Done(l) /\ Head(lines) >= Done(l)
      BY <1>a, <3>1, <3>3, <3>4
    <3> QED
      BY <1>e, <1>f, <2>2, <3>1, <3>3, <3>5 DEF PolledLines, Done
  <2> QED
    BY <2>1, <2>2
<1>4. CursorInv'
  BY <1>e, <1>f DEF CursorInv, Safe, Done
<1>5. WebInv'
  BY <1>a, <1>f DEF WebInv
<1> QED
  BY <1>1, <1>2, <1>3, <1>4, <1>5

LEMMA CommandsStep ==
  ASSUME ~MidPoll, CommandTyped, OrdersInv, N!Next
  PROVE  CommandTyped' /\ OrdersInv'
<1>1. N!Task => CommandTyped' /\ OrdersInv'
  BY CopyKeeps, AskKeeps, AnsweredKeeps, NoteKeeps, SaveKeeps, HandleKeeps, AnswerKeeps, NextLineKeeps
  DEF N!Task
<1>2. N!Httpd => CommandTyped' /\ OrdersInv'
  BY KeySavedKeeps, KeyFailsKeeps, SwapKeeps, ForgetKeeps, EraseKeeps DEF N!Httpd
<1> QED
  BY <1>1, <1>2, PollFailsKeeps, RestartKeeps, PublishKeeps, SetConfigKeeps DEF N!Next

(* Every step of the component is one of RemoteOrders, or none.            *)
LEMMA CommandsImplement ==
  ASSUME CommandTyped, OrdersInv, N!Next
  PROVE  [N!Orders!Next]_(N!Orders!vars)
<1>0. CommandFacts
  BY CommandFactsHold
<1> DEFINE Same == topic' = topic /\ carried' = carried /\ ntfyServer' = ntfyServer
<1>1. Same => UNCHANGED N!Orders!vars
  BY DEF N!Orders!vars, N!Published
<1>2. ASSUME NEW t \in Topics, N!Publish(t) PROVE N!Orders!Next
  <2>1. N!Published' = [N!Published EXCEPT ![t] = @ + 1]
    BY <1>2, TopicGrows DEF N!Publish
  <2> QED
    BY <1>2, <2>1 DEF N!Publish, N!history, N!Orders!Next, N!Orders!Publish
<1>3. CASE N!Answer
  <2>1. poll.topic \in Topics /\ topic' = topic /\ carried' = carried
    BY <1>0, <1>3 DEF N!Answer, N!history, CommandFacts
  <2>2. CASE ntfyServer' = [ntfyServer EXCEPT ![poll.topic] = Append(@, "own")]
    <3>1. N!Published' = [N!Published EXCEPT ![poll.topic] = @ + 1]
      BY <2>1, <2>2, TopicGrows
    <3> QED
      BY <2>1, <3>1 DEF N!Orders!Next, N!Orders!Publish
  <2>3. CASE UNCHANGED ntfyServer
    BY <1>1, <2>1, <2>3
  <2> QED
    BY <1>3, <2>2, <2>3 DEF N!Answer
<1>4. CASE N!Handle
  <2> DEFINE l == poll.listen
             n == Head(poll.lines)
  <2>0. poll.pc \in Carrying /\ poll.pc = "handle" /\ poll.pc # "idle" /\ topic \in Seq(Topics)
    BY <1>4 DEF N!Handle, Carrying, CommandTyped
  <2>a. /\ l \in 1 .. Len(topic) /\ l \in 1 .. MaxListens /\ poll.topic = topic[l] /\ poll.topic \in Topics
        /\ n \in Nat /\ n \in 1 .. Len(ntfyServer[poll.topic])
    BY <1>0, <2>0 DEF CommandFacts
  <2>b. Done(l) \in Nat /\ Len(ntfyServer[poll.topic]) \in Nat
    BY <1>0, <2>a DEF CommandFacts
  <2>c. n > Done(l)
    BY <2>0 DEF OrdersInv, PolledLines
  <2>1. /\ l \in 1 .. Len(topic) /\ n \in Nat /\ Done(l) \in Nat /\ n > Done(l)
        /\ n <= Len(ntfyServer[topic[l]]) /\ topic[l] \in Topics /\ topic \in Seq(Topics)
    BY <2>0, <2>a, <2>b, <2>c
  <2>2. n \in N!Orders!Last(carried[l]) + 1 .. N!Published[topic[l]] /\ l \in DOMAIN topic
    <3>1. Len(ntfyServer[topic[l]]) \in Nat
      BY <1>0, <2>1 DEF CommandFacts
    <3> QED
      BY <2>1, <3>1 DEF Done, N!Published
  <2>3. topic' = topic /\ N!Published' = N!Published /\ ntfyServer' = ntfyServer
    BY <1>4 DEF N!Handle, N!Published
  <2>4. CASE carried' = [carried EXCEPT ![l] = Append(@, n)]
    BY <2>2, <2>3, <2>4 DEF N!Orders!Next, N!Orders!CarryOut
  <2>5. CASE carried' = carried
    BY <1>1, <2>3, <2>5
  <2> QED
    BY <1>4, <2>4, <2>5 DEF N!Handle
<1>5. CASE N!Swap
  <2>1. topic' = topic \/ topic' = Append(topic, web.new.topic)
    BY <1>5 DEF N!Swap, N!Listening
  <2>2. web.new.topic \in Topics
    BY <1>0 DEF CommandFacts, Configs
  <2>3. carried' = carried /\ ntfyServer' = ntfyServer /\ N!Published' = N!Published
    BY <1>5 DEF N!Swap, N!Published
  <2> QED
    BY <1>1, <2>1, <2>2, <2>3 DEF N!Orders!Next, N!Orders!Listen
<1>6. CASE N!Restart
  <2>1. topic' = topic \/ topic' = Append(topic, stored.topic)
    BY <1>6 DEF N!Restart, N!Listening
  <2>2. stored.topic \in Topics
    BY <1>0 DEF CommandFacts
  <2>3. carried' = carried /\ ntfyServer' = ntfyServer /\ N!Published' = N!Published
    BY <1>6 DEF N!Restart, N!Published
  <2> QED
    BY <1>1, <2>1, <2>2, <2>3 DEF N!Orders!Next, N!Orders!Listen
<1>7. N!Copy \/ N!Ask \/ N!Answered \/ N!Note \/ N!Save \/ N!NextLine => Same
  BY DEF N!Copy, N!Ask, N!Answered, N!Note, N!Save, N!NextLine, N!history
<1>8. N!PollFails \/ N!KeySaved \/ N!KeyFails \/ N!Forget \/ N!Erase => Same
  BY DEF N!PollFails, N!KeySaved, N!KeyFails, N!Forget, N!Erase, N!history
<1>9. ASSUME NEW b \in BOOLEAN, NEW t \in Topics, N!SetConfig([on |-> b, topic |-> t]) PROVE Same
  BY <1>9 DEF N!SetConfig, N!history
<1> QED
  BY <1>1, <1>2, <1>3, <1>4, <1>5, <1>6, <1>7, <1>8, <1>9 DEF N!Next, N!Task, N!Httpd

(* N!NoReplay, "replay-protected ntfy commands": by each listening the     *)
(* router carries out messages of its topic in their order and none twice, *)
(* whatever restarts, lost answers and changes of topic lie in between.    *)
(* MidPoll is the alert that is published between the two reads of a poll, *)
(* while httpd changes the topic.                                          *)
THEOREM CommandsOnce ==
  ASSUME ~MidPoll
  PROVE  ServicesSpec => NoReplay
<1>1. ServicesInit => CommandTyped /\ OrdersInv
  BY CommandsStart DEF ServicesInit
<1>2. CommandTyped /\ OrdersInv /\ [ServicesNext]_<<on, vars, lv, bv, nv, av>>
      => CommandTyped' /\ OrdersInv' /\ [N!Orders!Next]_(N!Orders!vars)
  <2> SUFFICES ASSUME CommandTyped, OrdersInv, [ServicesNext]_<<on, vars, lv, bv, nv, av>>
               PROVE  CommandTyped' /\ OrdersInv' /\ [N!Orders!Next]_(N!Orders!vars)
    OBVIOUS
  <2>1. N!Next \/ UNCHANGED nv
    BY DEF ServicesNext
  <2>2. CASE N!Next
    BY <2>2, CommandsStep, CommandsImplement
  <2>3. CASE UNCHANGED nv
    <3>1. CommandTyped'
      BY <2>3 DEF nv, CommandTyped
    <3>2. OrdersInv'
      BY <2>3 DEF nv, OrdersInv, PollInv, PolledLines, CursorInv, WebInv, Safe, Done, N!This
    <3>3. UNCHANGED N!Orders!vars
      BY <2>3 DEF nv, N!Orders!vars, N!Published
    <3> QED
      BY <3>1, <3>2, <3>3
  <2> QED
    BY <2>1, <2>2, <2>3
<1>3. ServicesInit => N!Orders!Init
  <2> SUFFICES ASSUME ServicesInit PROVE N!Orders!Init
    OBVIOUS
  <2>1. N!Init
    BY DEF ServicesInit
  <2>2. ntfyCfg.topic \in Topics /\ topic = <<ntfyCfg.topic>>
    BY <2>1 DEF N!Init
  <2>3. topic \in [1 .. 1 -> Topics]
    BY <2>2
  <2>4. carried = [l \in 1 .. MaxListens |-> <<>>]
    BY <2>1 DEF N!Init
  <2>5. N!Published = [t \in Topics |-> 0]
    BY <2>1 DEF N!Init, N!Published
  <2> QED
    BY <2>3, <2>4, <2>5 DEF N!Orders!Init
<1> QED
  BY <1>1, <1>2, <1>3, PTL DEF ServicesSpec, NoReplay, N!NoReplay, N!Orders!Spec

=============================================================================
