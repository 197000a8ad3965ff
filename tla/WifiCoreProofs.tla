--------------------------- MODULE WifiCoreProofs ---------------------------
(* Theorems of WifiCore for every number of tasks, workers, networks and   *)
(* channels.                                                               *)
EXTENDS WifiCore, TLAPS

(* What the wrap of the generation counter returns. *)
LEMMA WrapInRange ==
  ASSUME NEW a \in Nat, NEW b \in Nat \ {0}
  PROVE  a % b \in 0..(b - 1)
  OBVIOUS

-----------------------------------------------------------------------------
(* Every variable keeps its type: in particular the index of the current   *)
(* network stays inside the list and the NVS reboot counter inside its     *)
(* bound, whatever a reset interrupts.                                     *)
THEOREM TypeCorrect == Spec => []TypeOK
<1> USE ConstantsAssumption DEF Procs, Gens, HandlerLabels, CallerLabels,
           nvs, driver, history, rot, policy
<1>1. Init => TypeOK
  <2> SUFFICES ASSUME Init PROVE TypeOK
    OBVIOUS
  <2>1. FlagsOK
    BY DEF Init, FlagsOK
  <2>2. RangesOK
    BY DEF Init, RangesOK
  <2>3. WorkersOK
    BY DEF Init, WorkersOK, WorkerType, NoWorker
  <2> QED BY <2>1, <2>2, <2>3 DEF TypeOK
<1>2. TypeOK /\ [Next]_vars => TypeOK'
  <2> SUFFICES ASSUME TypeOK, [Next]_vars PROVE TypeOK'
    OBVIOUS
  <2> USE DEF TypeOK
  <2>1. ASSUME Boot, streak' \in 0..MaxStreak
        PROVE  TypeOK'
    <3>1. FlagsOK'
      BY <2>1 DEF FlagsOK, Boot, BootChannel, NoWorker
    <3>2. RangesOK'
      BY <2>1 DEF RangesOK, Boot, BootChannel, NoWorker
    <3>3. WorkersOK'
      BY <2>1 DEF WorkersOK, WorkerType, Boot, BootChannel, NoWorker
    <3> QED BY <3>1, <3>2, <3>3
  <2>2. ASSUME NEW p \in Procs, Request(p) PROVE TypeOK'
    <3>1. CASE ReqTarget(p)
      <4>1. FlagsOK'
        BY <3>1 DEF FlagsOK, ReqTarget
      <4>2. RangesOK'
        BY <3>1 DEF RangesOK, ReqTarget
      <4>3. WorkersOK'
        BY <3>1 DEF WorkersOK, WorkerType, ReqTarget
      <4> QED BY <4>1, <4>2, <4>3
    <3>2. CASE ReqLoad(p)
      <4>1. FlagsOK'
        BY <3>2 DEF FlagsOK, ReqLoad
      <4>2. RangesOK'
        BY <3>2 DEF RangesOK, ReqLoad
      <4>3. WorkersOK'
        BY <3>2 DEF WorkersOK, WorkerType, ReqLoad
      <4> QED BY <4>1, <4>2, <4>3
    <3>3. CASE ReqStore(p)
      <4>1. FlagsOK'
        BY <3>3 DEF FlagsOK, ReqStore, NextGen, AfterRequest
      <4>2. RangesOK'
        BY <3>3 DEF RangesOK, ReqStore, NextGen, AfterRequest
      <4>3. WorkersOK'
        <5>1. [pc |-> "ready", gen |-> NextGen(p), tgt |-> TRUE] \in WorkerType
          <6>1. loaded[p] \in 0..(GenMod - 1) /\ GenMod \in Nat \ {0}
            BY DEF RangesOK
          <6>2. loaded[p] + 1 \in Nat
            BY <6>1
          <6>3. NextGen(p) \in Gens
            BY <6>1, <6>2, WrapInRange DEF NextGen
          <6> QED BY <6>3 DEF WorkerType
        <5>2. \/ UNCHANGED worker
              \/ \E w \in Workers :
                   worker' = [worker EXCEPT
                               ![w] = [pc |-> "ready", gen |-> NextGen(p), tgt |-> TRUE]]
          BY <3>3 DEF ReqStore
        <5> QED BY <5>1, <5>2 DEF WorkersOK
      <4> QED BY <4>1, <4>2, <4>3
    <3> QED BY <2>2, <3>1, <3>2, <3>3 DEF Request
  <2>3. ASSUME NEW c \in Callers, CallerStep(c) PROVE TypeOK'
    <3>1. ASSUME NEW v \in BOOLEAN, SaveAutoOff(c, v) PROVE TypeOK'
      <4>1. FlagsOK'
        BY <3>1 DEF FlagsOK, SaveAutoOff
      <4>2. RangesOK'
        BY <3>1 DEF RangesOK, SaveAutoOff
      <4>3. WorkersOK'
        BY <3>1 DEF WorkersOK, WorkerType, SaveAutoOff
      <4> QED BY <4>1, <4>2, <4>3
    <3>2. CASE AssignAutoOff(c)
      <4>1. FlagsOK'
        BY <3>2 DEF FlagsOK, AssignAutoOff
      <4>2. RangesOK'
        BY <3>2 DEF RangesOK, AssignAutoOff
      <4>3. WorkersOK'
        BY <3>2 DEF WorkersOK, WorkerType, AssignAutoOff
      <4> QED BY <4>1, <4>2, <4>3
    <3>3. CASE EvalPolicy(c)
      <4>1. FlagsOK'
        BY <3>3 DEF FlagsOK, EvalPolicy, ApWanted
      <4>2. RangesOK'
        BY <3>3 DEF RangesOK, EvalPolicy, ApWanted
      <4>3. WorkersOK'
        BY <3>3 DEF WorkersOK, WorkerType, EvalPolicy, ApWanted
      <4> QED BY <4>1, <4>2, <4>3
    <3> QED BY <2>2, <2>3, <3>1, <3>2, <3>3 DEF CallerStep
  <2>4. ASSUME NEW n \in 0..MaxNets, SaveNetworks(n) PROVE TypeOK'
    <3>1. FlagsOK'
      BY <2>4 DEF FlagsOK, SaveNetworks
    <3>2. RangesOK'
      BY <2>4 DEF RangesOK, SaveNetworks
    <3>3. WorkersOK'
      BY <2>4 DEF WorkersOK, WorkerType, SaveNetworks
    <3> QED BY <3>1, <3>2, <3>3
  <2>5. ASSUME NEW w \in Workers, WorkerStep(w) PROVE TypeOK'
    <3>1. CASE WorkerStart(w)
      <4>1. FlagsOK'
        BY <3>1 DEF FlagsOK, WorkerStart
      <4>2. RangesOK'
        BY <3>1 DEF RangesOK, WorkerStart
      <4>3. WorkersOK'
        <5>1. target \in BOOLEAN
          BY DEF FlagsOK
        <5> QED BY <3>1, <5>1 DEF WorkersOK, WorkerType, WorkerStart
      <4> QED BY <4>1, <4>2, <4>3
    <3>2. CASE WorkerCheck(w)
      <4>1. FlagsOK'
        BY <3>2 DEF FlagsOK, WorkerCheck, NoWorker
      <4>2. RangesOK'
        BY <3>2 DEF RangesOK, WorkerCheck, NoWorker
      <4>3. WorkersOK'
        BY <3>2 DEF WorkersOK, WorkerType, WorkerCheck, NoWorker
      <4> QED BY <4>1, <4>2, <4>3
    <3>3. CASE WorkerApply(w)
      <4>1. FlagsOK'
        BY <3>3 DEF FlagsOK, WorkerApply, AlignedChannel, NoWorker
      <4>2. RangesOK'
        <5>1. AlignedChannel \in 1..14
          <6>1. chan \in 1..14 /\ apChan \in 1..14 /\ nvsLearned \in 0..13
            BY DEF RangesOK
          <6>2. 1..13 \subseteq 1..14
            OBVIOUS
          <6>3. \/ AlignedChannel = chan
                \/ nvsLearned \in 1..13 /\ AlignedChannel = nvsLearned
                \/ AlignedChannel = apChan
            BY Zenon DEF AlignedChannel
          <6> QED BY <6>1, <6>2, <6>3, Zenon
        <5>2. apChan' = AlignedChannel \/ apChan' = apChan
          BY <3>3 DEF WorkerApply
        <5>3. apChan' \in 1..14
          BY <5>1, <5>2 DEF RangesOK
        <5> QED BY <3>3, <5>3 DEF RangesOK, WorkerApply
      <4>3. WorkersOK'
        <5>1. NoWorker \in WorkerType
          BY DEF WorkerType, NoWorker
        <5>2. [pc |-> "set", gen |-> 0, tgt |-> worker[w].tgt] \in WorkerType
          BY DEF WorkersOK, WorkerType
        <5>3. \/ worker' = [worker EXCEPT ![w] = NoWorker]
              \/ worker' = [worker EXCEPT
                             ![w] = [pc |-> "set", gen |-> 0, tgt |-> worker[w].tgt]]
          BY <3>3 DEF WorkerApply
        <5> QED BY <5>1, <5>2, <5>3 DEF WorkersOK
      <4> QED BY <4>1, <4>2, <4>3
    <3>4. CASE WorkerSetMode(w)
      <4>1. FlagsOK'
        BY <3>4 DEF FlagsOK, WorkerSetMode, NoWorker
      <4>2. RangesOK'
        BY <3>4 DEF RangesOK, WorkerSetMode, NoWorker
      <4>3. WorkersOK'
        BY <3>4 DEF WorkersOK, WorkerType, WorkerSetMode, NoWorker
      <4> QED BY <4>1, <4>2, <4>3
    <3>5. CASE WorkerSetModeFails(w)
      <4>1. FlagsOK'
        BY <3>5 DEF FlagsOK, WorkerSetModeFails, NoWorker
      <4>2. RangesOK'
        BY <3>5 DEF RangesOK, WorkerSetModeFails, NoWorker
      <4>3. WorkersOK'
        BY <3>5 DEF WorkersOK, WorkerType, WorkerSetModeFails, NoWorker
      <4> QED BY <4>1, <4>2, <4>3
    <3> QED BY <2>5, <3>1, <3>2, <3>3, <3>4, <3>5 DEF WorkerStep
  <2>6. CASE HandlerStep
    <3>1. CASE HandleDisconnected
      <4>1. FlagsOK'
        BY <3>1 DEF FlagsOK, HandleDisconnected
      <4>2. RangesOK'
        BY <3>1 DEF RangesOK, HandleDisconnected
      <4>3. WorkersOK'
        BY <3>1 DEF WorkersOK, WorkerType, HandleDisconnected
      <4> QED BY <4>1, <4>2, <4>3
    <3>2. CASE DiscPolicy
      <4>1. FlagsOK'
        BY <3>2 DEF FlagsOK, DiscPolicy
      <4>2. RangesOK'
        BY <3>2 DEF RangesOK, DiscPolicy
      <4>3. WorkersOK'
        BY <3>2 DEF WorkersOK, WorkerType, DiscPolicy
      <4> QED BY <4>1, <4>2, <4>3
    <3>3. CASE DiscReconnect
      <4>1. FlagsOK'
        BY <3>3 DEF FlagsOK, DiscReconnect, Rotate, NextNet, Connected
      <4>2. RangesOK'
        BY <3>3 DEF RangesOK, DiscReconnect, Rotate, NextNet, Connected
      <4>3. WorkersOK'
        BY <3>3 DEF WorkersOK, WorkerType, DiscReconnect, Rotate, NextNet, Connected
      <4> QED BY <4>1, <4>2, <4>3
    <3>4. CASE HandleGotIp
      <4>1. FlagsOK'
        BY <3>4 DEF FlagsOK, HandleGotIp
      <4>2. RangesOK'
        BY <3>4 DEF RangesOK, HandleGotIp
      <4>3. WorkersOK'
        BY <3>4 DEF WorkersOK, WorkerType, HandleGotIp
      <4> QED BY <4>1, <4>2, <4>3
    <3>5. CASE IpLearn
      <4>1. FlagsOK'
        BY <3>5 DEF FlagsOK, IpLearn
      <4>2. RangesOK'
        <5>1. nvsLearned' = nvsLearned \/ (chan \in 1..13 /\ nvsLearned' = chan)
          BY <3>5 DEF IpLearn
        <5>2. nvsLearned' \in 0..13
          BY <5>1 DEF RangesOK
        <5>3. pc' = [pc EXCEPT ![EvLoop] = "ip_realign"] \/ pc' = [pc EXCEPT ![EvLoop] = "ip_policy"]
          BY <3>5, Zenon DEF IpLearn
        <5>4. pc' \in [Procs -> HandlerLabels]
          BY <5>3 DEF RangesOK, Procs, HandlerLabels
        <5>5. UNCHANGED <<nvsRealign, nets, generation, netCurrent, netRetries, loaded, mode, apChan,
                          sta, chan, events, streak>>
          BY <3>5, Zenon DEF IpLearn, policy, rot, driver, history
        <5> QED BY <5>2, <5>4, <5>5 DEF RangesOK
      <4>3. WorkersOK'
        <5>1. UNCHANGED worker
          BY <3>5, Zenon DEF IpLearn
        <5> QED BY <5>1 DEF WorkersOK
      <4> QED BY <4>1, <4>2, <4>3
    <3>6. CASE IpRealign
      <4>1. FlagsOK'
        BY <3>6 DEF FlagsOK, IpRealign, RealignAllowed
      <4>2. RangesOK'
        BY <3>6 DEF RangesOK, IpRealign, RealignAllowed
      <4>3. WorkersOK'
        BY <3>6 DEF WorkersOK, WorkerType, IpRealign, RealignAllowed
      <4> QED BY <4>1, <4>2, <4>3
    <3>8. CASE IpRestart
      <4>1. streak' \in 0..MaxStreak
        BY <3>8 DEF IpRestart, RangesOK
      <4> QED BY <2>1, <3>8, <4>1 DEF IpRestart
    <3>9. CASE IpPolicy
      <4>1. FlagsOK'
        BY <3>9 DEF FlagsOK, IpPolicy
      <4>2. RangesOK'
        BY <3>9 DEF RangesOK, IpPolicy
      <4>3. WorkersOK'
        BY <3>9 DEF WorkersOK, WorkerType, IpPolicy
      <4> QED BY <4>1, <4>2, <4>3
    <3> QED BY <2>2, <2>6, <3>1, <3>2, <3>3, <3>4, <3>5, <3>6, <3>8, <3>9
            DEF HandlerStep
  <2>7. CASE AssocUp
    <3>1. FlagsOK'
      BY <2>7 DEF FlagsOK, AssocUp
    <3>2. RangesOK'
      BY <2>7 DEF RangesOK, AssocUp
    <3>3. WorkersOK'
      BY <2>7 DEF WorkersOK, WorkerType, AssocUp
    <3> QED BY <3>1, <3>2, <3>3
  <2>8. CASE AssocFail
    <3>1. FlagsOK'
      BY <2>8 DEF FlagsOK, AssocFail
    <3>2. RangesOK'
      BY <2>8 DEF RangesOK, AssocFail
    <3>3. WorkersOK'
      BY <2>8 DEF WorkersOK, WorkerType, AssocFail
    <3> QED BY <3>1, <3>2, <3>3
  <2>9. CASE LinkLost
    <3>1. FlagsOK'
      BY <2>9 DEF FlagsOK, LinkLost
    <3>2. RangesOK'
      BY <2>9 DEF RangesOK, LinkLost
    <3>3. WorkersOK'
      BY <2>9 DEF WorkersOK, WorkerType, LinkLost
    <3> QED BY <3>1, <3>2, <3>3
  <2>10. CASE ScanPause
    <3>1. FlagsOK'
      BY <2>10 DEF FlagsOK, ScanPause
    <3>2. RangesOK'
      BY <2>10 DEF RangesOK, ScanPause
    <3>3. WorkersOK'
      BY <2>10 DEF WorkersOK, WorkerType, ScanPause
    <3> QED BY <3>1, <3>2, <3>3
  <2>11. CASE ScanResume
    <3>1. FlagsOK'
      BY <2>11 DEF FlagsOK, ScanResume, Connected
    <3>2. RangesOK'
      BY <2>11 DEF RangesOK, ScanResume, Connected
    <3>3. WorkersOK'
      BY <2>11 DEF WorkersOK, WorkerType, ScanResume, Connected
    <3> QED BY <3>1, <3>2, <3>3
  <2>12. CASE Reset
    <3>1. streak' \in 0..MaxStreak
      BY <2>12 DEF Reset, RangesOK
    <3> QED BY <2>1, <2>12, <3>1 DEF Reset
  <2>13. CASE UNCHANGED vars
    <3>1. FlagsOK'
      BY <2>13 DEF FlagsOK, vars
    <3>2. RangesOK'
      BY <2>13 DEF RangesOK, vars
    <3>3. WorkersOK'
      BY <2>13 DEF WorkersOK, WorkerType, vars
    <3> QED BY <3>1, <3>2, <3>3
  <2> QED BY <2>3, <2>4, <2>5, <2>6, <2>7, <2>8, <2>9, <2>10, <2>11, <2>12, <2>13
          DEF Next
<1> QED BY <1>1, <1>2, PTL DEF Spec

-----------------------------------------------------------------------------
(* The loop guard holds: when no NVS write fails, the device restarts at   *)
(* most MaxRealign times to realign its channel before it has seen the     *)
(* uplink on the AP's own channel, whatever the uplink does and wherever a *)
(* reset cuts the handler short.  Inductive with the order of the writes:  *)
(* the counter is in NVS before the restart it stands for.                 *)
THEOREM RealignBoundedCorrect ==
  ASSUME NvsMayFail = FALSE
  PROVE  Spec => []RealignBounded
<1> USE ConstantsAssumption DEF TypeOK, RangesOK, Procs,
           nvs, driver, history, rot, policy
<1>1. Init => RealignInv
  BY DEF Init, RealignInv
<1>2. TypeOK /\ RealignInv /\ [Next]_vars => RealignInv'
  <2> SUFFICES ASSUME TypeOK, RealignInv, [Next]_vars PROVE RealignInv'
    OBVIOUS
  <2>1. ASSUME NEW p \in Procs, Request(p) PROVE RealignInv'
    <3>1. CASE ReqTarget(p)
      BY <3>1 DEF RealignInv, ReqTarget
    <3>2. CASE ReqLoad(p)
      BY <3>2 DEF RealignInv, ReqLoad
    <3>3. CASE ReqStore(p)
      BY <3>3 DEF RealignInv, ReqStore, AfterRequest
    <3> QED BY <2>1, <3>1, <3>2, <3>3 DEF Request
  <2>2. ASSUME NEW c \in Callers, CallerStep(c) PROVE RealignInv'
    <3>1. ASSUME NEW v \in BOOLEAN, SaveAutoOff(c, v) PROVE RealignInv'
      BY <3>1 DEF RealignInv, SaveAutoOff
    <3>2. CASE AssignAutoOff(c)
      BY <3>2 DEF RealignInv, AssignAutoOff
    <3>3. CASE EvalPolicy(c)
      BY <3>3 DEF RealignInv, EvalPolicy
    <3> QED BY <2>1, <2>2, <3>1, <3>2, <3>3 DEF CallerStep, Procs
  <2>3. ASSUME NEW w \in Workers, WorkerStep(w) PROVE RealignInv'
    <3>1. CASE WorkerStart(w)
      BY <3>1 DEF RealignInv, WorkerStart
    <3>2. CASE WorkerCheck(w)
      BY <3>2 DEF RealignInv, WorkerCheck
    <3>3. CASE WorkerApply(w)
      BY <3>3 DEF RealignInv, WorkerApply
    <3>4. CASE WorkerSetMode(w)
      BY <3>4 DEF RealignInv, WorkerSetMode
    <3>5. CASE WorkerSetModeFails(w)
      BY <3>5 DEF RealignInv, WorkerSetModeFails
    <3> QED BY <2>3, <3>1, <3>2, <3>3, <3>4, <3>5 DEF WorkerStep
  <2>4. CASE HandlerStep
    <3>1. CASE HandleDisconnected
      BY <3>1 DEF RealignInv, HandleDisconnected
    <3>2. CASE DiscPolicy
      BY <3>2 DEF RealignInv, DiscPolicy
    <3>3. CASE DiscReconnect
      BY <3>3 DEF RealignInv, DiscReconnect
    <3>4. CASE HandleGotIp
      BY <3>4 DEF RealignInv, HandleGotIp
    <3>5. CASE IpLearn
      BY <3>5 DEF RealignInv, IpLearn
    <3>6. CASE IpRealign
      BY <3>6 DEF RealignInv, IpRealign, RealignAllowed
    <3>8. CASE IpRestart
      BY <3>8 DEF RealignInv, IpRestart, Boot
    <3>9. CASE IpPolicy
      BY <3>9 DEF RealignInv, IpPolicy
    <3>10. CASE Request(EvLoop)
      BY <2>1, <3>10 DEF Procs
    <3> QED BY <2>4, <3>1, <3>2, <3>3, <3>4, <3>5, <3>6, <3>8, <3>9, <3>10
            DEF HandlerStep
  <2>5. CASE AssocUp
    BY <2>5 DEF RealignInv, AssocUp
  <2>6. CASE AssocFail
    BY <2>6 DEF RealignInv, AssocFail
  <2>7. CASE LinkLost
    BY <2>7 DEF RealignInv, LinkLost
  <2>8. CASE ScanPause
    BY <2>8 DEF RealignInv, ScanPause
  <2>9. CASE ScanResume
    BY <2>9 DEF RealignInv, ScanResume
  <2>10. CASE Reset
    BY <2>10 DEF RealignInv, Reset, Boot
  <2>11. ASSUME NEW n \in 0..MaxNets, SaveNetworks(n) PROVE RealignInv'
    BY <2>11 DEF RealignInv, SaveNetworks
  <2>12. CASE UNCHANGED vars
    BY <2>12 DEF RealignInv, vars
  <2> QED BY <2>2, <2>3, <2>4, <2>5, <2>6, <2>7, <2>8, <2>9, <2>10, <2>11, <2>12 DEF Next
<1>3. TypeOK /\ RealignInv => RealignBounded
  BY DEF TypeOK, RangesOK, RealignInv, RealignBounded
<1> QED BY <1>1, <1>2, <1>3, TypeCorrect, PTL DEF Spec

-----------------------------------------------------------------------------
(* No interleaving of the tasks that save the setting, the event handler   *)
(* and the ap_policy workers takes the AP down while recovery-only mode is *)
(* off: every request and every worker then asks for the AP.               *)
LEMMA AlwaysOnHolds == Spec => []AlwaysOnInv
<1> USE ConstantsAssumption DEF TypeOK, FlagsOK, Procs,
           nvs, driver, history, rot, policy
<1>1. Init => AlwaysOnInv
  BY DEF Init, AlwaysOnInv, NoWorker
<1>2. TypeOK /\ AlwaysOnInv /\ [Next]_vars => AlwaysOnInv'
  <2> SUFFICES ASSUME TypeOK, AlwaysOnInv, [Next]_vars PROVE AlwaysOnInv'
    OBVIOUS
  <2>1. ASSUME NEW p \in Procs, Request(p) PROVE AlwaysOnInv'
    <3>1. CASE ReqTarget(p)
      BY <3>1 DEF AlwaysOnInv, ReqTarget
    <3>2. CASE ReqLoad(p)
      BY <3>2 DEF AlwaysOnInv, ReqLoad
    <3>3. CASE ReqStore(p)
      <4>1. pc' = [pc EXCEPT ![p] = AfterRequest(p)] /\ on' = [on EXCEPT ![p] = TRUE]
        BY <3>3 DEF ReqStore
      <4>2. \A w \in Workers : worker[w].tgt => worker'[w].tgt
        BY <3>3 DEF ReqStore, WorkersOK
      <4>3. UNCHANGED <<autoOff, target, mode, everAutoOff>>
        BY <3>3 DEF ReqStore, history, policy
      <4> QED BY <4>1, <4>2, <4>3 DEF AlwaysOnInv, AfterRequest, RangesOK
    <3> QED BY <2>1, <3>1, <3>2, <3>3 DEF Request
  <2>2. ASSUME NEW c \in Callers, CallerStep(c) PROVE AlwaysOnInv'
    <3>1. ASSUME NEW v \in BOOLEAN, SaveAutoOff(c, v) PROVE AlwaysOnInv'
      BY <3>1 DEF AlwaysOnInv, SaveAutoOff
    <3>2. CASE AssignAutoOff(c)
      BY <3>2 DEF AlwaysOnInv, AssignAutoOff
    <3>3. CASE EvalPolicy(c)
      <4>1. everAutoOff' = everAutoOff
        BY <3>3 DEF EvalPolicy, history
      <4>2. CASE ~everAutoOff
        <5>1. on' = [on EXCEPT ![c] = TRUE]
          BY <3>3, <4>2 DEF EvalPolicy, ApWanted, AlwaysOnInv
        <5> QED BY <3>3, <4>2, <5>1 DEF AlwaysOnInv, EvalPolicy, RangesOK, history, policy
      <4> QED BY <4>1, <4>2 DEF AlwaysOnInv
    <3> QED BY <2>1, <2>2, <3>1, <3>2, <3>3 DEF CallerStep, Procs
  <2>3. ASSUME NEW w \in Workers, WorkerStep(w) PROVE AlwaysOnInv'
    <3>1. CASE WorkerStart(w)
      BY <3>1 DEF AlwaysOnInv, WorkerStart
    <3>2. CASE WorkerCheck(w)
      BY <3>2 DEF AlwaysOnInv, WorkerCheck, NoWorker
    <3>3. CASE WorkerApply(w)
      <4>1. UNCHANGED <<autoOff, target, mode, everAutoOff, pc, on>>
        BY <3>3 DEF WorkerApply, history, policy
      <4>2. CASE ~everAutoOff
        <5>1. mode = (IF worker[w].tgt THEN "APSTA" ELSE "STA")
          BY <4>2 DEF AlwaysOnInv
        <5>2. worker' = [worker EXCEPT ![w] = NoWorker]
          BY <3>3, <5>1 DEF WorkerApply
        <5> QED BY <4>1, <4>2, <5>2 DEF AlwaysOnInv, NoWorker, WorkersOK
      <4> QED BY <4>1, <4>2 DEF AlwaysOnInv
    <3>4. CASE WorkerSetMode(w)
      BY <3>4 DEF AlwaysOnInv, WorkerSetMode, NoWorker
    <3>5. CASE WorkerSetModeFails(w)
      BY <3>5 DEF AlwaysOnInv, WorkerSetModeFails, NoWorker
    <3> QED BY <2>3, <3>1, <3>2, <3>3, <3>4, <3>5 DEF WorkerStep
  <2>4. CASE HandlerStep
    <3>1. CASE HandleDisconnected
      BY <3>1 DEF AlwaysOnInv, HandleDisconnected
    <3>2. CASE DiscPolicy
      BY <3>2 DEF AlwaysOnInv, DiscPolicy
    <3>3. CASE DiscReconnect
      BY <3>3 DEF AlwaysOnInv, DiscReconnect
    <3>4. CASE HandleGotIp
      BY <3>4 DEF AlwaysOnInv, HandleGotIp
    <3>5. CASE IpLearn
      <4>1. \E l \in {"ip_realign", "ip_policy"} : pc' = [pc EXCEPT ![EvLoop] = l]
        BY <3>5 DEF IpLearn
      <4>2. UNCHANGED <<autoOff, target, mode, everAutoOff, on, worker>>
        BY <3>5 DEF IpLearn, history, policy
      <4> QED BY <4>1, <4>2 DEF AlwaysOnInv, RangesOK
    <3>6. CASE IpRealign
      <4>1. \E l \in {"ip_policy", "ip_restart"} : pc' = [pc EXCEPT ![EvLoop] = l]
        BY <3>6 DEF IpRealign
      <4>2. UNCHANGED <<autoOff, target, mode, everAutoOff, on, worker>>
        BY <3>6 DEF IpRealign, policy
      <4> QED BY <4>1, <4>2 DEF AlwaysOnInv, RangesOK
    <3>8. CASE IpRestart
      BY <3>8 DEF AlwaysOnInv, IpRestart, Boot, NoWorker
    <3>9. CASE IpPolicy
      BY <3>9 DEF AlwaysOnInv, IpPolicy
    <3>10. CASE Request(EvLoop)
      BY <2>1, <3>10 DEF Procs
    <3> QED BY <2>4, <3>1, <3>2, <3>3, <3>4, <3>5, <3>6, <3>8, <3>9, <3>10
            DEF HandlerStep
  <2>5. CASE AssocUp
    BY <2>5 DEF AlwaysOnInv, AssocUp
  <2>6. CASE AssocFail
    BY <2>6 DEF AlwaysOnInv, AssocFail
  <2>7. CASE LinkLost
    BY <2>7 DEF AlwaysOnInv, LinkLost
  <2>8. CASE ScanPause
    BY <2>8 DEF AlwaysOnInv, ScanPause
  <2>9. CASE ScanResume
    BY <2>9 DEF AlwaysOnInv, ScanResume
  <2>10. CASE Reset
    BY <2>10 DEF AlwaysOnInv, Reset, Boot, NoWorker
  <2>11. ASSUME NEW n \in 0..MaxNets, SaveNetworks(n) PROVE AlwaysOnInv'
    BY <2>11 DEF AlwaysOnInv, SaveNetworks
  <2>12. CASE UNCHANGED vars
    BY <2>12 DEF AlwaysOnInv, vars
  <2> QED BY <2>2, <2>3, <2>4, <2>5, <2>6, <2>7, <2>8, <2>9, <2>10, <2>11, <2>12 DEF Next
<1> QED BY <1>1, <1>2, TypeCorrect, PTL DEF Spec

(* The default policy keeps the AP up: in a boot in which recovery-only    *)
(* mode was never switched on, no interleaving of the tasks that save the  *)
(* setting, the event handler and the ap_policy workers takes the AP down. *)
THEOREM AlwaysOnCorrect == Spec => []AlwaysOnKeepsAp
<1>1. AlwaysOnInv => AlwaysOnKeepsAp
  BY DEF AlwaysOnInv, AlwaysOnKeepsAp
<1> QED BY <1>1, AlwaysOnHolds, PTL

-----------------------------------------------------------------------------
(* An uplink that stays on one channel costs at most one realign reboot,   *)
(* when no NVS write fails: the channel learned before the restart is the  *)
(* one the AP boots on, and no worker or reset moves it away again.        *)
THEOREM SteadyUplinkCorrect ==
  ASSUME NvsMayFail = FALSE
  PROVE  Spec => []SteadyUplinkRealignsOnce
<1> USE ConstantsAssumption DEF TypeOK, RangesOK, Procs,
           nvs, driver, history, rot, policy
<1>1. Init => SteadyInv
  BY DEF Init, SteadyInv
<1>2. TypeOK /\ SteadyInv /\ [Next]_vars => SteadyInv'
  <2> SUFFICES ASSUME TypeOK, SteadyInv, [Next]_vars PROVE SteadyInv'
    OBVIOUS
  <2>1. ASSUME NEW p \in Procs, Request(p) PROVE SteadyInv'
    <3>1. CASE ReqTarget(p)
      BY <3>1 DEF SteadyInv, ReqTarget
    <3>2. CASE ReqLoad(p)
      BY <3>2 DEF SteadyInv, ReqLoad
    <3>3. CASE ReqStore(p)
      BY <3>3 DEF SteadyInv, ReqStore, AfterRequest
    <3> QED BY <2>1, <3>1, <3>2, <3>3 DEF Request
  <2>2. ASSUME NEW c \in Callers, CallerStep(c) PROVE SteadyInv'
    <3>1. ASSUME NEW v \in BOOLEAN, SaveAutoOff(c, v) PROVE SteadyInv'
      BY <3>1 DEF SteadyInv, SaveAutoOff
    <3>2. CASE AssignAutoOff(c)
      BY <3>2 DEF SteadyInv, AssignAutoOff
    <3>3. CASE EvalPolicy(c)
      BY <3>3 DEF SteadyInv, EvalPolicy
    <3> QED BY <2>1, <2>2, <3>1, <3>2, <3>3 DEF CallerStep, Procs
  <2>3. ASSUME NEW w \in Workers, WorkerStep(w) PROVE SteadyInv'
    <3>1. CASE WorkerStart(w)
      BY <3>1 DEF SteadyInv, WorkerStart
    <3>2. CASE WorkerCheck(w)
      BY <3>2 DEF SteadyInv, WorkerCheck
    <3>3. CASE WorkerApply(w)
      BY <3>3 DEF SteadyInv, WorkerApply, AlignedChannel
    <3>4. CASE WorkerSetMode(w)
      BY <3>4 DEF SteadyInv, WorkerSetMode
    <3>5. CASE WorkerSetModeFails(w)
      BY <3>5 DEF SteadyInv, WorkerSetModeFails
    <3> QED BY <2>3, <3>1, <3>2, <3>3, <3>4, <3>5 DEF WorkerStep
  <2>4. CASE HandlerStep
    <3>1. CASE HandleDisconnected
      BY <3>1 DEF SteadyInv, HandleDisconnected
    <3>2. CASE DiscPolicy
      BY <3>2 DEF SteadyInv, DiscPolicy
    <3>3. CASE DiscReconnect
      BY <3>3 DEF SteadyInv, DiscReconnect
    <3>4. CASE HandleGotIp
      BY <3>4 DEF SteadyInv, HandleGotIp
    <3>5. CASE IpLearn
      BY <3>5 DEF SteadyInv, IpLearn
    <3>6. CASE IpRealign
      BY <3>6 DEF SteadyInv, IpRealign
    <3>8. CASE IpRestart
      BY <3>8 DEF SteadyInv, IpRestart, Boot, BootChannel
    <3>9. CASE IpPolicy
      BY <3>9 DEF SteadyInv, IpPolicy
    <3>10. CASE Request(EvLoop)
      BY <2>1, <3>10 DEF Procs
    <3> QED BY <2>4, <3>1, <3>2, <3>3, <3>4, <3>5, <3>6, <3>8, <3>9, <3>10
            DEF HandlerStep
  <2>5. CASE AssocUp
    <3>1. roams' = roams /\ (~roams => chan' = chan)
      BY <2>5 DEF AssocUp
    <3> QED BY <2>5, <3>1 DEF SteadyInv, AssocUp, nvs, history
  <2>6. CASE AssocFail
    BY <2>6 DEF SteadyInv, AssocFail
  <2>7. CASE LinkLost
    BY <2>7 DEF SteadyInv, LinkLost
  <2>8. CASE ScanPause
    BY <2>8 DEF SteadyInv, ScanPause
  <2>9. CASE ScanResume
    BY <2>9 DEF SteadyInv, ScanResume
  <2>10. CASE Reset
    BY <2>10 DEF SteadyInv, Reset, Boot, BootChannel
  <2>11. ASSUME NEW n \in 0..MaxNets, SaveNetworks(n) PROVE SteadyInv'
    BY <2>11 DEF SteadyInv, SaveNetworks
  <2>12. CASE UNCHANGED vars
    BY <2>12 DEF SteadyInv, vars
  <2> QED BY <2>2, <2>3, <2>4, <2>5, <2>6, <2>7, <2>8, <2>9, <2>10, <2>11, <2>12 DEF Next
<1>3. TypeOK /\ SteadyInv => SteadyUplinkRealignsOnce
  BY DEF SteadyInv, SteadyUplinkRealignsOnce
<1> QED BY <1>1, <1>2, <1>3, TypeCorrect, PTL DEF Spec

-----------------------------------------------------------------------------
(* The AP shares the uplink's channel once the handler is done with it,    *)
(* unless the loop guard has given up: while the uplink is associated and  *)
(* recovery-only mode was never on, either its GOT_IP event or the handler *)
(* of one is still to come to the comparison, or the channels agree, or    *)
(* the counter is at its limit.  No worker moves the AP's channel then.    *)
Compared ==
  \/ \E i \in 1..Len(events) : events[i] = "got_ip"
  \/ pc[EvLoop] \in {"ip_learn", "ip_realign", "ip_restart"}
  \/ apChan = chan \/ nvsRealign = MaxRealign
AlignInv == ~everAutoOff /\ sta = "up" /\ chan \in 1..13 => Compared

(* A step that associates nothing, takes no event and leaves the handler   *)
(* where it is on its way to the comparison, and both channels.            *)
LEMMA StillAligned ==
  ASSUME AlignInv, everAutoOff' = everAutoOff, sta' = "up" => sta = "up",
         UNCHANGED <<events, chan, apChan, nvsRealign>>,
         pc[EvLoop] \in {"ip_learn", "ip_realign", "ip_restart"} => pc'[EvLoop] = pc[EvLoop]
  PROVE  AlignInv'
BY DEF AlignInv, Compared

THEOREM SettledAlignedCorrect == Spec => []SettledAligned
<1> USE ConstantsAssumption DEF RangesOK, Procs, nvs, driver, history, rot, policy
<1>1. Init => AlignInv
  BY DEF Init, AlignInv
<1>2. TypeOK /\ AlwaysOnInv /\ AlignInv /\ [Next]_vars => AlignInv'
  <2> SUFFICES ASSUME TypeOK, AlwaysOnInv, AlignInv, [Next]_vars PROVE AlignInv'
    OBVIOUS
  <2>0. pc \in [Procs -> HandlerLabels] /\ EvLoop \in Procs
    BY DEF TypeOK
  <2>1. ASSUME NEW p \in Procs, Request(p) PROVE AlignInv'
    BY <2>0, <2>1, StillAligned DEF Request, ReqTarget, ReqLoad, ReqStore
  <2>2. ASSUME NEW c \in Callers, CallerStep(c) PROVE AlignInv'
    <3>1. ASSUME NEW v \in BOOLEAN, SaveAutoOff(c, v) PROVE AlignInv'
      BY <2>0, <3>1, StillAligned DEF SaveAutoOff
    <3>2. CASE AssignAutoOff(c)
      <4>1. everAutoOff' \in BOOLEAN /\ (~everAutoOff' => ~everAutoOff)
        BY <3>2 DEF AssignAutoOff, TypeOK, FlagsOK
      <4>2. UNCHANGED <<sta, events, chan, apChan, nvsRealign>> /\ pc'[EvLoop] = pc[EvLoop]
        BY <2>0, <3>2 DEF AssignAutoOff
      <4> QED BY <4>1, <4>2 DEF AlignInv, Compared
    <3>3. CASE EvalPolicy(c)
      BY <2>0, <3>3, StillAligned DEF EvalPolicy
    <3> QED BY <2>1, <2>2, <3>1, <3>2, <3>3 DEF CallerStep
  <2>3. ASSUME NEW w \in Workers, WorkerStep(w) PROVE AlignInv'
    <3>1. CASE WorkerApply(w)
      <4>1. UNCHANGED <<everAutoOff, sta, events, chan, nvsRealign, pc>>
        BY <3>1 DEF WorkerApply
      <4>2. ~everAutoOff => apChan' = apChan
        BY <3>1 DEF WorkerApply, AlwaysOnInv
      <4> QED BY <4>1, <4>2 DEF AlignInv, Compared
    <3>2. CASE WorkerStart(w) \/ WorkerCheck(w) \/ WorkerSetMode(w) \/ WorkerSetModeFails(w)
      BY <3>2, StillAligned DEF WorkerStart, WorkerCheck, WorkerSetMode, WorkerSetModeFails
    <3> QED BY <2>3, <3>1, <3>2 DEF WorkerStep
  <2>4. ASSUME events # <<>>, events' = Tail(events)
        PROVE  \A i \in 1..Len(events) : events[i] = "got_ip" =>
                 Head(events) = "got_ip" \/ \E k \in 1..Len(events') : events'[k] = "got_ip"
    <3>1. events \in Seq({"disconnected", "got_ip"})
      BY DEF TypeOK
    <3>2. Len(events') = Len(events) - 1 /\ \A k \in 1..Len(events') : events'[k] = events[k + 1]
      BY <2>4, <3>1
    <3> SUFFICES ASSUME NEW i \in 1..Len(events), events[i] = "got_ip", i # 1
                 PROVE  \E k \in 1..Len(events') : events'[k] = "got_ip"
      BY <2>4, <3>1
    <3>3. i - 1 \in 1..Len(events') /\ events'[i - 1] = "got_ip"
      BY <3>1, <3>2
    <3> QED BY <3>3
  <2>5. CASE HandlerStep
    <3>1. CASE HandleDisconnected
      <4>1. /\ UNCHANGED <<everAutoOff, sta, chan, apChan, nvsRealign>>
            /\ pc[EvLoop] = "idle" /\ events # <<>> /\ events' = Tail(events) /\ Head(events) = "disconnected"
        BY <3>1 DEF HandleDisconnected
      <4> QED BY <2>4, <4>1 DEF AlignInv, Compared
    <3>2. CASE HandleGotIp
      <4>1. pc'[EvLoop] = "ip_learn"
        BY <2>0, <3>2 DEF HandleGotIp
      <4> QED BY <4>1 DEF AlignInv, Compared
    <3>3. CASE IpLearn
      <4>1. /\ UNCHANGED <<everAutoOff, sta, events, chan, apChan, nvsRealign>>
            /\ sta = "up" /\ chan \in 1..13 => pc'[EvLoop] = "ip_realign"
        BY <2>0, <3>3 DEF IpLearn
      <4> QED BY <4>1 DEF AlignInv, Compared
    <3>4. CASE IpRealign
      <4>1. UNCHANGED <<everAutoOff, sta, events, chan, apChan>>
        BY <3>4 DEF IpRealign
      <4>2. nvsRealign \in 0..MaxRealign /\ (~everAutoOff => ~autoOff)
        BY DEF TypeOK, AlwaysOnInv
      <4>3. apChan = chan \/ (~everAutoOff => nvsRealign' = MaxRealign) \/ pc'[EvLoop] = "ip_restart"
        BY <2>0, <3>4, <4>2 DEF IpRealign, RealignAllowed
      <4> QED BY <4>1, <4>3 DEF AlignInv, Compared
    <3>5. CASE IpRestart
      BY <3>5 DEF AlignInv, IpRestart, Boot
    <3>6. CASE DiscReconnect
      <4>1. sta' = "up" => sta = "up"
        BY <3>6 DEF DiscReconnect, Connected
      <4> QED BY <2>0, <3>6, <4>1, StillAligned DEF DiscReconnect
    <3>7. CASE DiscPolicy \/ IpPolicy
      BY <2>0, <3>7, StillAligned DEF DiscPolicy, IpPolicy
    <3> QED BY <2>0, <2>1, <2>5, <3>1, <3>2, <3>3, <3>4, <3>5, <3>6, <3>7 DEF HandlerStep
  <2>6. CASE AssocUp
    <3>1. events \in Seq({"disconnected", "got_ip"}) /\ events' = Append(events, "got_ip")
      BY <2>6 DEF AssocUp, TypeOK
    <3>2. Len(events') \in 1..Len(events') /\ events'[Len(events')] = "got_ip"
      BY <3>1
    <3> QED BY <3>2 DEF AlignInv, Compared
  <2>7. CASE AssocFail \/ LinkLost \/ ScanPause
    BY <2>7 DEF AlignInv, AssocFail, LinkLost, ScanPause
  <2>8. CASE ScanResume
    <3>1. sta' = "up" => sta = "up"
      BY <2>8 DEF ScanResume, Connected
    <3> QED BY <2>8, <3>1, StillAligned DEF ScanResume
  <2>9. CASE Reset
    BY <2>9 DEF AlignInv, Reset, Boot
  <2>10. ASSUME NEW n \in 0..MaxNets, SaveNetworks(n) PROVE AlignInv'
    BY <2>10, StillAligned DEF SaveNetworks
  <2>11. CASE UNCHANGED vars
    BY <2>11, StillAligned DEF vars
  <2> QED BY <2>2, <2>3, <2>5, <2>6, <2>7, <2>8, <2>9, <2>10, <2>11 DEF Next
<1>3. TypeOK /\ AlignInv => SettledAligned
  BY DEF TypeOK, AlignInv, Compared, SettledAligned
<1> QED BY <1>1, <1>2, <1>3, TypeCorrect, AlwaysOnHolds, PTL DEF Spec
=============================================================================
