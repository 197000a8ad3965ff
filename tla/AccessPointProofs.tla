-------------------------- MODULE AccessPointProofs --------------------------
(* Proofs about what MCAccessPoint composes, for all values of the         *)
(* constants.                                                              *)
EXTENDS MCAccessPoint, SequenceTheorems, FiniteSetTheorems, WellFoundedInduction, TLAPS

(* The packet filter.  FirewallProofs proves it for the component by       *)
(* itself; here the component is an instance with the variables, lists and *)
(* rules of MCAccessPoint.                                                 *)
FP == INSTANCE FirewallProofs WITH
  Names <- FilterNames, Rules <- FilterRules, Packets <- FilterPackets

LEMMA FilterInit == F!Init <=> FP!Init
  BY DEF F!Init, FP!Init, F!EmptyTables, FP!EmptyTables, F!EmptyList, FP!EmptyList,
         F!NoEntry, FP!NoEntry, F!NoRule, FP!NoRule, F!Lists, FP!Lists, F!Slots, FP!Slots,
         F!Done, FP!Done, F!ToSet, FP!ToSet

LEMMA FilterNext == F!Next <=> FP!Next
  BY DEF F!Lists, FP!Lists, F!Slots, FP!Slots, F!NoRule, FP!NoRule, F!NoEntry, FP!NoEntry,
         F!EmptyList, FP!EmptyList, F!EmptyTables, FP!EmptyTables, F!Saving, FP!Saving,
         F!Done, FP!Done, F!Valid, FP!Valid, F!Matches, FP!Matches, F!Deciding, FP!Deciding,
         F!Decided, FP!Decided, F!Counted, FP!Counted, F!Check, FP!Check, F!Edit, FP!Edit,
         F!Add, FP!Add, F!Compacted, FP!Compacted, F!Delete, FP!Delete, F!Clear, FP!Clear,
         F!Snapshot, FP!Snapshot, F!LastBlob, FP!LastBlob, F!Blob, FP!Blob, F!Commit,
         FP!Commit, F!Zeroed, FP!Zeroed, F!Restart, FP!Restart, F!Next, FP!Next, F!Min,
         FP!Min, F!ToSet, FP!ToSet, F!FoldSet, FP!FoldSet, F!MapThenFoldSet,
         FP!MapThenFoldSet

LEMMA FilterRuns == ApSpec => FP!Spec
<1>1. ApInit => FP!Init
  BY FilterInit DEF ApInit
<1>2. ApNext => FP!Next \/ UNCHANGED FP!vars
  BY FilterNext DEF ApNext, fv, FP!vars
<1>3. UNCHANGED <<running, vars, av, dv, fv, pv, xv, rv>> => UNCHANGED FP!vars
  BY DEF fv, FP!vars
<1> QED
  BY <1>1, <1>2, <1>3, PTL DEF ApSpec, FP!Spec

(* A save that is answered with ok has saved the rules in force, as long   *)
(* as NVS takes the blob of every list.                                    *)
THEOREM FilterSaved ==
  ASSUME ~BlobMayFail
  PROVE  ApSpec => []SavedIsSaved
<1>1. FilterNames \in Seq({"to_esp", "to_ap"}) /\ Len(FilterNames) > 0
  BY DEF FilterNames
<1>2. FP!NoRule \notin FilterRules
  BY DEF FP!NoRule, FilterRules
<1>3. FP!Spec => []FP!SavedIsSaved
  BY <1>1, <1>2, BoundsAssumption, FP!SavedWhenBlobsFit
<1>4. FP!SavedIsSaved => SavedIsSaved
  BY DEF SavedIsSaved, F!SavedIsSaved, FP!SavedIsSaved, F!Lists, FP!Lists, F!Slots, FP!Slots, F!ToSet,
         FP!ToSet
<1> QED
  BY <1>3, <1>4, FilterRuns, PTL

-----------------------------------------------------------------------------
(* The stations and the deny list.                                         *)
ApEvents == [joined : BOOLEAN, mac : Guests, aid : Aids]
KickPcs == {"idle", "fill", "store", "list", "aid", "kick"}
StationsTyped ==
  /\ assoc \in [Aids -> Guests \cup {"none"}] /\ joined \in Seq(ApEvents)
  /\ deauthing \in Aids \cup {0} /\ deny \in SUBSET Guests /\ denyNvs \in SUBSET Guests
  /\ httpd \in [pc : KickPcs, new : SUBSET Guests, kick : SUBSET Guests, aid : Aids \cup {0}]
  /\ httpd.pc = "kick" => httpd.aid # 0
  /\ count \in Nat /\ denyFailed \in BOOLEAN

(* A station has one association.                                          *)
OneAid == \A a, b \in Aids : assoc[a] = assoc[b] /\ assoc[a] # "none" => a = b

(* Somebody is still to turn a denied station away: the event loop, when   *)
(* it comes to the join or next, or the handler that saved the list.       *)
Due(a) ==
  \/ deauthing = a \/ \E i \in 1 .. Len(joined) : joined[i] = [joined |-> TRUE, mac |-> assoc[a], aid |-> a]
  \/ httpd.pc \in {"fill", "store", "list"}
  \/ httpd.pc \in {"aid", "kick"} /\ assoc[a] \in httpd.kick
  \/ httpd.pc = "kick" /\ httpd.aid = a
DeniedDue == ~denyFailed => \A a \in Aids : assoc[a] \in deny => Due(a)

(* How many stations there were when the i-th event was posted: the count  *)
(* is behind by the events that wait.                                      *)
Follows(h, ev) ==
  /\ h \in [0 .. Len(ev) -> Nat]
  /\ \A i \in 1 .. Len(ev) : h[i] = IF ev[i].joined THEN h[i - 1] + 1 ELSE h[i - 1] - 1
CountBehind ==
  /\ IsFiniteSet(A!Stations)
  /\ \E h : Follows(h, joined) /\ h[Len(joined)] = Cardinality(A!Stations) /\ count <= h[0]

StationsInv == StationsTyped /\ OneAid /\ DeniedDue /\ CountBehind

LEMMA SameCardinality == \A S : A!Cardinality(S) = Cardinality(S)
BY DEF A!Cardinality, Cardinality

(* What happens to the population: an event is posted with each change,    *)
(* and handled from the front.                                             *)
LEMMA Posted ==
  ASSUME NEW ev \in Seq(ApEvents), NEW h, Follows(h, ev), NEW e \in ApEvents, NEW n \in Nat,
         n = IF e.joined THEN h[Len(ev)] + 1 ELSE h[Len(ev)] - 1
  PROVE  \E g : Follows(g, Append(ev, e)) /\ g[Len(Append(ev, e))] = n /\ g[0] = h[0]
<1> DEFINE l == Len(ev)
           w == Append(ev, e)
           g == [i \in 0 .. l + 1 |-> IF i = l + 1 THEN n ELSE h[i]]
<1>1. l \in Nat /\ Len(w) = l + 1 /\ w[l + 1] = e /\ \A i \in 1 .. l : w[i] = ev[i]
  BY AppendProperties
<1>2. g \in [0 .. Len(w) -> Nat]
  BY <1>1 DEF Follows
<1>3. ASSUME NEW i \in 1 .. Len(w) PROVE g[i] = IF w[i].joined THEN g[i - 1] + 1 ELSE g[i - 1] - 1
  <2>1. CASE i = l + 1
    BY <1>1, <2>1
  <2>2. CASE i # l + 1
    <3>1. i \in 1 .. l /\ i - 1 \in 0 .. l
      BY <1>1, <2>2
    <3> QED
      BY <1>1, <3>1 DEF Follows
  <2> QED
    BY <2>1, <2>2
<1>4. g[Len(w)] = n /\ g[0] = h[0]
  BY <1>1
<1> QED
  BY <1>2, <1>3, <1>4 DEF Follows

LEMMA HandledFirst ==
  ASSUME NEW ev \in Seq(ApEvents), ev # <<>>, NEW h, Follows(h, ev)
  PROVE  /\ Head(ev) \in ApEvents /\ h[0] \in Nat
         /\ \E g : /\ Follows(g, Tail(ev)) /\ g[Len(Tail(ev))] = h[Len(ev)] /\ g[0] \in Nat
                   /\ g[0] = IF Head(ev).joined THEN h[0] + 1 ELSE h[0] - 1
<1> DEFINE l == Len(ev)
           w == Tail(ev)
           g == [i \in 0 .. l - 1 |-> h[i + 1]]
<1>1. /\ l \in Nat \ {0} /\ w \in Seq(ApEvents) /\ Len(w) = l - 1 /\ Head(ev) = ev[1] /\ ev[1] \in ApEvents
      /\ \A i \in 1 .. l - 1 : w[i] = ev[i + 1]
  BY EmptySeq, HeadTailProperties, LenProperties
<1>2. g \in [0 .. Len(w) -> Nat] /\ h[0] \in Nat
  BY <1>1 DEF Follows
<1>3. ASSUME NEW i \in 1 .. Len(w) PROVE g[i] = IF w[i].joined THEN g[i - 1] + 1 ELSE g[i - 1] - 1
  <2>1. i + 1 \in 1 .. l /\ i - 1 \in 0 .. l - 1 /\ i \in 1 .. l - 1 /\ i - 1 + 1 = i /\ i + 1 - 1 = i
    BY <1>1
  <2> QED
    BY <1>1, <2>1 DEF Follows
<1>4. g[Len(w)] = h[l] /\ g[0] = IF Head(ev).joined THEN h[0] + 1 ELSE h[0] - 1
  <2>1. 1 \in 1 .. l /\ 0 \in 0 .. l - 1 /\ l - 1 \in 0 .. l - 1 /\ l - 1 + 1 = l /\ 1 - 1 = 0 /\ 0 + 1 = 1
    BY <1>1
  <2> QED
    BY <1>1, <2>1 DEF Follows
<1>5. g[0] \in Nat
  <2>1. 0 \in 0 .. Len(w)
    BY <1>1
  <2> HIDE DEF g
  <2> QED
    BY <1>2, <2>1
<1> HIDE DEF g
<1> QED
  BY <1>1, <1>2, <1>3, <1>4, <1>5 DEF Follows

LEMMA CountSame == ASSUME CountBehind, UNCHANGED <<assoc, joined, count>> PROVE CountBehind'
<1>1. A!Stations' = A!Stations
  BY DEF A!Stations
<1>2. PICK h : Follows(h, joined) /\ h[Len(joined)] = Cardinality(A!Stations) /\ count <= h[0]
  BY DEF CountBehind
<1>3. Follows(h, joined') /\ h[Len(joined')] = Cardinality(A!Stations') /\ count' <= h[0]
  BY <1>1, <1>2
<1> QED
  BY <1>1, <1>3 DEF CountBehind

-----------------------------------------------------------------------------
LEMMA JoinSettles == ASSUME StationsInv, NEW m \in Guests, NEW a \in Aids, A!Join(m, a) PROVE StationsInv'
<1> USE GuestsAssumption
<1> DEFINE e == [joined |-> TRUE, mac |-> m, aid |-> a]
<1>1. /\ m \notin A!Stations /\ assoc[a] = "none" /\ assoc' = [assoc EXCEPT ![a] = m] /\ joined' = Append(joined, e)
      /\ UNCHANGED <<deauthing, deny, denyNvs, denyFailed, httpd, count>>
  BY DEF A!Join, A!Event, A!denials
<1>2. e \in ApEvents /\ joined \in Seq(ApEvents)
  BY DEF ApEvents, StationsInv, StationsTyped
<1> HIDE DEF e
<1>3. /\ joined' \in Seq(ApEvents) /\ Len(joined) \in Nat /\ Len(joined') = Len(joined) + 1
      /\ joined'[Len(joined) + 1] = e /\ \A i \in 1 .. Len(joined) : joined'[i] = joined[i]
  BY <1>1, <1>2, AppendProperties
<1>4. StationsTyped'
  BY <1>1, <1>3 DEF StationsInv, StationsTyped
<1>5. \A b \in Aids : assoc'[b] = IF b = a THEN m ELSE assoc[b]
  BY <1>1 DEF StationsInv, StationsTyped
<1>6. \A b \in Aids : assoc[b] # m
  BY <1>1 DEF A!Stations
<1>7. OneAid'
  BY <1>5, <1>6 DEF StationsInv, OneAid
<1>8. ASSUME ~denyFailed', NEW b \in Aids, assoc'[b] \in deny' PROVE Due(b)'
  <2>1. CASE b = a
    <3>1. Len(joined) + 1 \in 1 .. Len(joined') /\ joined'[Len(joined) + 1] = [joined |-> TRUE, mac |-> assoc'[b], aid |-> b]
      <4>1. Len(joined) + 1 \in 1 .. Len(joined')
        BY <1>3
      <4>2. e = [joined |-> TRUE, mac |-> assoc'[b], aid |-> b]
        BY <2>1, <1>5 DEF e
      <4> QED
        BY <4>1, <4>2, <1>3
    <3> QED
      BY <3>1 DEF Due
  <2>2. CASE b # a
    <3>1. Due(b) /\ assoc'[b] = assoc[b]
      BY <1>1, <1>5, <1>8, <2>2 DEF StationsInv, DeniedDue
    <3>2. \A i \in 1 .. Len(joined) : i \in 1 .. Len(joined') /\ joined'[i] = joined[i]
      BY <1>3
    <3> QED
      BY <1>1, <3>1, <3>2 DEF Due
  <2> QED
    BY <2>1, <2>2
<1>9. CountBehind'
  <2>1. A!Stations' = A!Stations \cup {m}
    BY <1>1, <1>5 DEF A!Stations
  <2>2. IsFiniteSet(A!Stations') /\ Cardinality(A!Stations') = Cardinality(A!Stations) + 1
        /\ Cardinality(A!Stations) \in Nat
    BY <1>1, <2>1, FS_AddElement, FS_CardinalityType DEF StationsInv, CountBehind
  <2>3. PICK h : Follows(h, joined) /\ h[Len(joined)] = Cardinality(A!Stations) /\ count <= h[0]
    BY DEF StationsInv, CountBehind
  <2>4. e.joined
    BY DEF e
  <2>5. \E g : Follows(g, joined') /\ g[Len(joined')] = Cardinality(A!Stations') /\ g[0] = h[0]
    BY <1>1, <1>2, <2>2, <2>3, <2>4, Posted
  <2> QED
    BY <1>1, <2>2, <2>3, <2>5 DEF CountBehind
<1> QED
  BY <1>4, <1>7, <1>8, <1>9 DEF StationsInv, DeniedDue

(* A station of the driver's list leaves, whoever sent it away.            *)
LEMMA DropSettles ==
  ASSUME StationsInv, NEW a \in Aids, A!Dropped(a), count' = count
  PROVE  /\ assoc' \in [Aids -> Guests \cup {"none"}] /\ joined' \in Seq(ApEvents)
         /\ OneAid' /\ CountBehind'
         /\ \A b \in Aids : assoc'[b] \in {assoc[b], "none"}
         /\ assoc'[a] = "none"
         /\ \A i \in 1 .. Len(joined) : i \in 1 .. Len(joined') /\ joined'[i] = joined[i]
<1> USE GuestsAssumption
<1>1. CASE assoc[a] = "none"
  <2>1. UNCHANGED <<assoc, joined>>
    BY <1>1 DEF A!Dropped, A!driver
  <2> QED
    BY <1>1, <2>1, CountSame DEF StationsInv, StationsTyped, OneAid
<1>2. CASE assoc[a] # "none"
  <2> DEFINE e == [joined |-> FALSE, mac |-> assoc[a], aid |-> a]
  <2>1. assoc' = [assoc EXCEPT ![a] = "none"] /\ joined' = Append(joined, e)
    BY <1>2 DEF A!Dropped, A!Event
  <2>2. e \in ApEvents /\ joined \in Seq(ApEvents) /\ ~e.joined
    BY <1>2 DEF ApEvents, StationsInv, StationsTyped
  <2> HIDE DEF e
  <2>3. /\ joined' \in Seq(ApEvents) /\ Len(joined) \in Nat /\ Len(joined') = Len(joined) + 1
        /\ \A i \in 1 .. Len(joined) : joined'[i] = joined[i]
    BY <2>1, <2>2, AppendProperties
  <2>4. \A b \in Aids : assoc'[b] = IF b = a THEN "none" ELSE assoc[b]
    BY <2>1 DEF StationsInv, StationsTyped
  <2>5. assoc' \in [Aids -> Guests \cup {"none"}]
    BY <2>1 DEF StationsInv, StationsTyped
  <2>6. OneAid'
    BY <2>4 DEF StationsInv, OneAid
  <2>7. CountBehind'
    <3>1. A!Stations' = A!Stations \ {assoc[a]} /\ assoc[a] \in A!Stations
      <4>1. \A b \in Aids : b # a => assoc[b] # assoc[a]
        BY <1>2 DEF StationsInv, OneAid
      <4> QED
        BY <1>2, <2>4, <4>1 DEF A!Stations
    <3>2. IsFiniteSet(A!Stations') /\ Cardinality(A!Stations') = Cardinality(A!Stations) - 1
          /\ Cardinality(A!Stations') \in Nat
      BY <3>1, FS_RemoveElement, FS_CardinalityType DEF StationsInv, CountBehind
    <3>3. PICK h : Follows(h, joined) /\ h[Len(joined)] = Cardinality(A!Stations) /\ count <= h[0]
      BY DEF StationsInv, CountBehind
    <3>4. \E g : Follows(g, joined') /\ g[Len(joined')] = Cardinality(A!Stations') /\ g[0] = h[0]
      BY <2>1, <2>2, <3>2, <3>3, Posted
    <3> QED
      BY <3>2, <3>3, <3>4 DEF CountBehind
  <2>8. \A i \in 1 .. Len(joined) : i \in 1 .. Len(joined') /\ joined'[i] = joined[i]
    BY <2>3
  <2> QED
    BY <2>3, <2>4, <2>5, <2>6, <2>7, <2>8
<1> QED
  BY <1>1, <1>2

LEMMA LeaveSettles == ASSUME StationsInv, NEW a \in Aids, A!Leave(a) PROVE StationsInv'
<1> USE GuestsAssumption
<1>1. A!Dropped(a) /\ UNCHANGED <<deauthing, deny, denyNvs, denyFailed, httpd, count>>
  BY DEF A!Leave, A!denials
<1>2. StationsTyped' /\ OneAid' /\ CountBehind'
  BY <1>1, DropSettles DEF StationsInv, StationsTyped
<1>3. ASSUME ~denyFailed', NEW b \in Aids, assoc'[b] \in deny' PROVE Due(b)'
  <2>1. assoc'[b] # "none" /\ assoc'[b] = assoc[b]
    BY <1>1, <1>3, DropSettles DEF StationsInv, StationsTyped
  <2>2. Due(b)
    BY <1>1, <1>3, <2>1 DEF StationsInv, DeniedDue
  <2> QED
    BY <1>1, <2>1, <2>2, DropSettles DEF Due
<1> QED
  BY <1>2, <1>3 DEF StationsInv, DeniedDue

LEMMA DeauthSettles == ASSUME StationsInv, A!Deauth PROVE StationsInv'
<1> USE GuestsAssumption
<1>1. A!Dropped(deauthing) /\ deauthing \in Aids /\ deauthing' = 0 /\ UNCHANGED <<deny, denyNvs, denyFailed, httpd, count>>
  BY DEF A!Deauth, A!denials, StationsInv, StationsTyped
<1>2. StationsTyped' /\ OneAid' /\ CountBehind'
  BY <1>1, DropSettles DEF StationsInv, StationsTyped
<1>3. ASSUME ~denyFailed', NEW b \in Aids, assoc'[b] \in deny' PROVE Due(b)'
  <2>1. assoc'[b] # "none" /\ assoc'[b] = assoc[b] /\ b # deauthing
    BY <1>1, <1>3, DropSettles DEF StationsInv, StationsTyped
  <2>2. Due(b)
    BY <1>1, <1>3, <2>1 DEF StationsInv, DeniedDue
  <2> QED
    BY <1>1, <2>1, <2>2, DropSettles DEF Due
<1> QED
  BY <1>2, <1>3 DEF StationsInv, DeniedDue

LEMMA KickSettles == ASSUME StationsInv, A!Kick PROVE StationsInv'
<1> USE GuestsAssumption
<1>1. /\ A!Dropped(httpd.aid) /\ httpd.aid \in Aids /\ httpd' = [httpd EXCEPT !.pc = "aid", !.aid = 0]
      /\ httpd.pc = "kick" /\ UNCHANGED <<deny, denyNvs, denyFailed, deauthing, count>>
  BY DEF A!Kick, A!denials, StationsInv, StationsTyped
<1>2. /\ httpd' \in [pc : KickPcs, new : SUBSET Guests, kick : SUBSET Guests, aid : Aids \cup {0}]
      /\ httpd'.pc = "aid" /\ httpd'.kick = httpd.kick
  BY <1>1 DEF StationsInv, StationsTyped, KickPcs
<1>3. StationsTyped' /\ OneAid' /\ CountBehind'
  BY <1>1, <1>2, DropSettles DEF StationsInv, StationsTyped
<1>4. ASSUME ~denyFailed', NEW b \in Aids, assoc'[b] \in deny' PROVE Due(b)'
  <2>1. assoc'[b] # "none" /\ assoc'[b] = assoc[b] /\ b # httpd.aid
    BY <1>1, <1>4, DropSettles DEF StationsInv, StationsTyped
  <2>2. Due(b)
    BY <1>1, <1>4, <2>1 DEF StationsInv, DeniedDue
  <2> QED
    BY <1>1, <1>2, <2>1, <2>2, DropSettles DEF Due
<1> QED
  BY <1>3, <1>4 DEF StationsInv, DeniedDue

(* The event loop takes the first event: a join of a denied station is     *)
(* what it acts on at once.                                                *)
LEMMA FrontSettles ==
  ASSUME StationsInv, joined # <<>>, joined' = Tail(joined), deauthing = 0, deauthing' \in Aids \cup {0},
         UNCHANGED <<assoc, deny, denyNvs, denyFailed, httpd>>,
         count' = (IF Head(joined).joined THEN (IF deauthing' = 0 THEN count + 1 ELSE count) ELSE A!AfterLeave),
         Head(joined).joined /\ Head(joined).mac \in deny => deauthing' = Head(joined).aid
  PROVE  StationsInv'
<1> USE GuestsAssumption
<1>1. /\ joined \in Seq(ApEvents) /\ Head(joined) = joined[1] /\ joined' \in Seq(ApEvents) /\ Len(joined) \in Nat
      /\ Len(joined') = Len(joined) - 1 /\ \A i \in 1 .. Len(joined) - 1 : joined'[i] = joined[i + 1]
  BY EmptySeq, HeadTailProperties, LenProperties DEF StationsInv, StationsTyped
<1>2. A!AfterLeave \in Nat /\ (count = 0 => A!AfterLeave = 0) /\ (count > 0 => A!AfterLeave = count - 1) /\ count \in Nat
  BY DEF A!AfterLeave, StationsInv, StationsTyped
<1>3. StationsTyped'
  BY <1>1, <1>2 DEF StationsInv, StationsTyped
<1>4. OneAid'
  BY DEF StationsInv, OneAid
<1>5. ASSUME ~denyFailed', NEW b \in Aids, assoc'[b] \in deny' PROVE Due(b)'
  <2>1. Due(b)
    BY <1>5 DEF StationsInv, DeniedDue
  <2>2. CASE \E i \in 1 .. Len(joined) : joined[i] = [joined |-> TRUE, mac |-> assoc[b], aid |-> b]
    <3>1. PICK i \in 1 .. Len(joined) : joined[i] = [joined |-> TRUE, mac |-> assoc[b], aid |-> b]
      BY <2>2
    <3>2. CASE i = 1
      <4>1. deauthing' = b
        BY <1>1, <1>5, <3>1, <3>2
      <4> QED
        BY <4>1 DEF Due
    <3>3. CASE i # 1
      <4>1. i - 1 \in 1 .. Len(joined') /\ joined'[i - 1] = joined[i]
        BY <1>1, <3>3
      <4> QED
        BY <3>1, <4>1 DEF Due
    <3> QED
      BY <3>2, <3>3
  <2> QED
    BY <2>1, <2>2 DEF Due
<1>6. CountBehind'
  <2>1. PICK h : Follows(h, joined) /\ h[Len(joined)] = Cardinality(A!Stations) /\ count <= h[0]
    BY DEF StationsInv, CountBehind
  <2>2. PICK g : /\ Follows(g, joined') /\ g[Len(joined')] = h[Len(joined)] /\ g[0] \in Nat /\ h[0] \in Nat
                 /\ g[0] = IF Head(joined).joined THEN h[0] + 1 ELSE h[0] - 1
    BY <1>1, <2>1, HandledFirst
  <2>3. count' <= g[0]
    BY <1>2, <2>1, <2>2
  <2>4. A!Stations' = A!Stations
    BY DEF A!Stations
  <2> QED
    BY <2>1, <2>2, <2>3, <2>4 DEF CountBehind, StationsInv
<1> QED
  BY <1>3, <1>4, <1>5, <1>6 DEF StationsInv, DeniedDue

LEMMA HandleSettles == ASSUME StationsInv, A!HandleJoined \/ A!HandleLeft PROVE StationsInv'
<1> USE GuestsAssumption
<1>1. joined \in Seq(ApEvents) /\ (joined # <<>> => Head(joined) \in ApEvents)
  BY HeadTailProperties DEF StationsInv, StationsTyped
<1>2. CASE A!HandleJoined
  <2>1. Head(joined).aid \in Aids /\ Head(joined).joined
    BY <1>1, <1>2 DEF A!HandleJoined, ApEvents
  <2> QED
    BY <1>2, <2>1, FrontSettles DEF A!HandleJoined, A!Blocked, A!denials
<1>3. CASE A!HandleLeft
  BY <1>3, FrontSettles DEF A!HandleLeft, A!denials
<1> QED
  BY <1>2, <1>3

(* The handler's other steps change no association.                        *)
LEMMA HttpSettles ==
  ASSUME StationsInv, UNCHANGED <<assoc, joined, deauthing, count>>, deny' \in SUBSET Guests, denyNvs' \in SUBSET Guests,
         denyFailed' \in BOOLEAN, httpd' \in [pc : KickPcs, new : SUBSET Guests, kick : SUBSET Guests, aid : Aids \cup {0}],
         httpd'.pc = "kick" => httpd'.aid # 0,
         ~denyFailed' => \A a \in Aids : assoc[a] \in deny' => Due(a)'
  PROVE  StationsInv'
BY CountSame DEF StationsInv, StationsTyped, OneAid, DeniedDue

LEMMA SaveSettles == ASSUME StationsInv, NEW S \in SUBSET Guests, A!Save(S) PROVE StationsInv'
<1>1. httpd' = [pc |-> "fill", new |-> S, kick |-> {}, aid |-> 0] /\ deny' = {}
      /\ UNCHANGED <<assoc, joined, deauthing, count, denyNvs, denyFailed>>
  BY DEF A!Save, A!Resting, A!driver
<1> QED
  BY <1>1, HttpSettles DEF StationsInv, StationsTyped, KickPcs

LEMMA FillSettles == ASSUME StationsInv, A!Fill PROVE StationsInv'
<1>1. httpd' = [httpd EXCEPT !.pc = "store"] /\ deny' = httpd.new
      /\ UNCHANGED <<assoc, joined, deauthing, count, denyNvs, denyFailed>>
  BY DEF A!Fill, A!driver
<1>2. httpd' \in [pc : KickPcs, new : SUBSET Guests, kick : SUBSET Guests, aid : Aids \cup {0}] /\ httpd'.pc = "store"
      /\ httpd.new \in SUBSET Guests
  BY <1>1 DEF StationsInv, StationsTyped, KickPcs
<1> QED
  BY <1>1, <1>2, HttpSettles DEF StationsInv, StationsTyped, Due

LEMMA StoreSettles == ASSUME StationsInv, A!Store PROVE StationsInv'
<1>1. UNCHANGED <<assoc, joined, deauthing, count, deny>>
  BY DEF A!Store, A!driver
<1>2. CASE denyNvs' = deny /\ httpd' = [httpd EXCEPT !.pc = "list"] /\ denyFailed' = denyFailed
  <2>1. httpd' \in [pc : KickPcs, new : SUBSET Guests, kick : SUBSET Guests, aid : Aids \cup {0}] /\ httpd'.pc = "list"
    BY <1>2 DEF StationsInv, StationsTyped, KickPcs
  <2> QED
    BY <1>1, <1>2, <2>1, HttpSettles DEF StationsInv, StationsTyped, Due
<1>3. CASE denyFailed' = TRUE /\ httpd' = A!Resting /\ denyNvs' = denyNvs
  <2>1. httpd' \in [pc : KickPcs, new : SUBSET Guests, kick : SUBSET Guests, aid : Aids \cup {0}] /\ httpd'.pc = "idle"
    BY <1>3 DEF A!Resting, KickPcs
  <2> QED
    BY <1>1, <1>3, <2>1, HttpSettles DEF StationsInv, StationsTyped
<1> QED
  BY <1>2, <1>3 DEF A!Store

LEMMA ListSettles == ASSUME StationsInv, A!List PROVE StationsInv'
<1>1. httpd' = [httpd EXCEPT !.pc = "aid", !.kick = A!Stations \cap deny]
      /\ UNCHANGED <<assoc, joined, deauthing, count, deny, denyNvs, denyFailed>>
  BY DEF A!List, A!ToKick, A!driver, A!denials
<1>2. httpd' \in [pc : KickPcs, new : SUBSET Guests, kick : SUBSET Guests, aid : Aids \cup {0}] /\ httpd'.pc = "aid"
      /\ httpd'.kick = A!Stations \cap deny
  BY <1>1 DEF StationsInv, StationsTyped, KickPcs
<1>3. \A a \in Aids : assoc[a] \in deny => assoc[a] \in httpd'.kick
  BY <1>2, GuestsAssumption DEF A!Stations, StationsInv, StationsTyped
<1> QED
  BY <1>1, <1>2, <1>3, HttpSettles DEF StationsInv, StationsTyped, Due

LEMMA ByHandSettles == ASSUME StationsInv, NEW m \in Guests, A!KickByHand(m) PROVE StationsInv'
<1>1. httpd.pc = "idle" /\ httpd' = [pc |-> "aid", new |-> {}, kick |-> {m} \cap A!Stations, aid |-> 0]
      /\ UNCHANGED <<assoc, joined, deauthing, count, deny, denyNvs, denyFailed>>
  BY DEF A!KickByHand, A!Resting, A!driver, A!denials
<1>2. ~denyFailed => \A a \in Aids : assoc[a] \in deny => Due(a)'
  BY <1>1 DEF StationsInv, DeniedDue, Due
<1> QED
  BY <1>1, <1>2, HttpSettles DEF StationsInv, StationsTyped, KickPcs

LEMMA NextSettles == ASSUME StationsInv, A!KickNext PROVE StationsInv'
<1> USE GuestsAssumption
<1>1. httpd.pc = "aid" /\ UNCHANGED <<assoc, joined, deauthing, count, deny, denyNvs, denyFailed>>
  BY DEF A!KickNext, A!driver, A!denials
<1>2. CASE httpd.kick = {} /\ httpd' = A!Resting
  <2>1. httpd' \in [pc : KickPcs, new : SUBSET Guests, kick : SUBSET Guests, aid : Aids \cup {0}] /\ httpd'.pc = "idle"
    BY <1>2 DEF A!Resting, KickPcs
  <2>2. ~denyFailed => \A a \in Aids : assoc[a] \in deny => Due(a)'
    BY <1>1, <1>2, <2>1 DEF StationsInv, DeniedDue, Due
  <2> QED
    BY <1>1, <2>1, <2>2, HttpSettles DEF StationsInv, StationsTyped
<1>3. ASSUME NEW m \in httpd.kick, m \in A!Stations,
             httpd' = [httpd EXCEPT !.kick = @ \ {m}, !.pc = "kick", !.aid = CHOOSE a \in Aids : assoc[a] = m]
      PROVE  StationsInv'
  <2> DEFINE c == CHOOSE a \in Aids : assoc[a] = m
  <2>1. c \in Aids /\ assoc[c] = m /\ m # "none"
    BY <1>3 DEF A!Stations
  <2> HIDE DEF c
  <2>2. httpd' = [httpd EXCEPT !.kick = @ \ {m}, !.pc = "kick", !.aid = c]
    BY <1>3 DEF c
  <2>3. /\ httpd' \in [pc : KickPcs, new : SUBSET Guests, kick : SUBSET Guests, aid : Aids \cup {0}]
        /\ httpd'.pc = "kick" /\ httpd'.aid = c /\ httpd'.kick = httpd.kick \ {m}
    BY <2>1, <2>2 DEF StationsInv, StationsTyped, KickPcs
  <2>4. \A a \in Aids : assoc[a] = m => a = c
    BY <2>1 DEF StationsInv, OneAid
  <2>5. ~denyFailed => \A a \in Aids : assoc[a] \in deny => Due(a)'
    BY <1>1, <2>3, <2>4 DEF StationsInv, DeniedDue, Due
  <2> QED
    BY <1>1, <2>1, <2>3, <2>5, HttpSettles DEF StationsInv, StationsTyped
<1>4. ASSUME NEW m \in httpd.kick, m \notin A!Stations, httpd' = [httpd EXCEPT !.kick = @ \ {m}, !.pc = "aid", !.aid = 0]
      PROVE  StationsInv'
  <2>1. /\ httpd' \in [pc : KickPcs, new : SUBSET Guests, kick : SUBSET Guests, aid : Aids \cup {0}]
        /\ httpd'.pc = "aid" /\ httpd'.kick = httpd.kick \ {m} /\ m \in Guests
    BY <1>4 DEF StationsInv, StationsTyped, KickPcs
  <2>2. \A a \in Aids : assoc[a] # m
    BY <1>4, <2>1 DEF A!Stations
  <2>3. ~denyFailed => \A a \in Aids : assoc[a] \in deny => Due(a)'
    BY <1>1, <2>1, <2>2 DEF StationsInv, DeniedDue, Due
  <2> QED
    BY <1>1, <2>1, <2>3, HttpSettles DEF StationsInv, StationsTyped
<1> QED
  BY <1>2, <1>3, <1>4 DEF A!KickNext

LEMMA StationsStart == A!Init => StationsInv
<1> SUFFICES ASSUME A!Init PROVE StationsInv
  OBVIOUS
<1> USE GuestsAssumption DEF A!Init
<1>1. <<>> \in Seq(ApEvents) /\ Len(<<>>) = 0
  OBVIOUS
<1>2. StationsTyped
  BY <1>1 DEF StationsTyped, KickPcs, A!Resting
<1>3. OneAid /\ DeniedDue
  BY DEF OneAid, DeniedDue
<1>4. A!Stations = {}
  BY DEF A!Stations
<1>5. Follows([i \in 0 .. 0 |-> 0], joined)
  BY <1>1 DEF Follows
<1>6. CountBehind
  BY <1>1, <1>4, <1>5, FS_EmptySet DEF CountBehind
<1> QED
  BY <1>2, <1>3, <1>6 DEF StationsInv

(* A!StationsSettled: once the events are handled no station is connected  *)
(* whose MAC is denied, and connect_count is not above the number of       *)
(* stations, for any number of stations, ids, joins and edits: of which    *)
(* event is handled when, and of an id that is reused under the handler's  *)
(* eyes, nothing is assumed.                                               *)
THEOREM StationsTurnedAway == ApSpec => []StationsSettled
<1>1. ApInit => StationsInv
  BY StationsStart DEF ApInit
<1>2. StationsInv /\ [ApNext]_<<running, vars, av, dv, fv, pv, xv, rv>> => StationsInv'
  <2> SUFFICES ASSUME StationsInv, [ApNext]_<<running, vars, av, dv, fv, pv, xv, rv>> PROVE StationsInv'
    OBVIOUS
  <2>1. A!Next \/ UNCHANGED av
    BY DEF ApNext
  <2>2. CASE UNCHANGED av
    BY <2>2, CountSame DEF av, StationsInv, StationsTyped, OneAid, DeniedDue, Due
  <2>3. CASE A!Next
    <3>1. CASE (\E m \in Guests, a \in Aids : A!Join(m, a)) \/ (\E a \in Aids : A!Leave(a))
      BY <3>1, JoinSettles, LeaveSettles
    <3>2. CASE A!HandleJoined \/ A!Deauth \/ A!HandleLeft
      BY <3>2, HandleSettles, DeauthSettles
    <3>3. CASE (\E S \in SUBSET Guests : A!Save(S)) \/ (\E m \in Guests : A!KickByHand(m))
      BY <3>3, SaveSettles, ByHandSettles
    <3>4. CASE A!Fill \/ A!Store \/ A!List \/ A!KickNext \/ A!Kick
      BY <3>4, FillSettles, StoreSettles, ListSettles, NextSettles, KickSettles
    <3> QED
      BY <2>3, <3>1, <3>2, <3>3, <3>4 DEF A!Next
  <2> QED
    BY <2>1, <2>2, <2>3
<1>3. StationsInv => StationsSettled
  <2> SUFFICES ASSUME StationsInv, A!Handled PROVE A!StationsSettled
    BY DEF StationsSettled, A!StationsSettled, A!DeniedStationsLeave, A!CountNotAbove
  <2>1. joined = <<>> /\ Len(joined) = 0 /\ deauthing = 0 /\ httpd.pc = "idle"
    BY DEF A!Handled
  <2>2. A!DeniedStationsLeave
    <3> SUFFICES ASSUME ~denyFailed, NEW m \in A!Stations, m \in deny PROVE FALSE
      BY DEF A!DeniedStationsLeave
    <3>1. PICK a \in Aids : assoc[a] = m
      BY DEF A!Stations
    <3>2. Due(a)
      BY <3>1 DEF StationsInv, DeniedDue
    <3> QED
      BY <2>1, <3>1, <3>2, GuestsAssumption DEF Due
  <2>3. A!CountNotAbove
    <3>1. count <= Cardinality(A!Stations)
      BY <2>1 DEF StationsInv, CountBehind
    <3> QED
      BY <3>1, SameCardinality DEF A!CountNotAbove
  <2> QED
    BY <2>2, <2>3 DEF A!StationsSettled
<1> QED
  BY <1>1, <1>2, <1>3, PTL DEF ApSpec

(* What the record of the resets knows, for each part of it.  A dump of    *)
(* the crash that led to a boot is the only one a row with a crash's       *)
(* reason can be given, and while the row of this boot still awaits it,    *)
(* that row is the first.                                                  *)
BootPcs == {"classify", "record", "note", "attach", "erase", "why", "clear", "run", "tagged"}
BootReasons == {"POWERON", "PANIC", "WDT", "SW"}
RowOf == [boot : Nat, change : Nat, reason : BootReasons \cup {"FLASH", "ROLLBACK"}, crash : Nat]
NewImage(r) == r \in {"FLASH", "ROLLBACK"}

HistTyped ==
  /\ boot \in Nat \ {0} /\ reason \in BootReasons /\ bootPc \in BootPcs
  /\ image \in Nat /\ former \in Nat /\ staged \in Nat /\ flashed \in Nat
  /\ dump \in Nat /\ sha \in Nat /\ why \in Nat /\ cause \in Nat
  /\ trial \in BOOLEAN /\ invalid \in BOOLEAN /\ cut \in BOOLEAN /\ bare \in BOOLEAN
  /\ hist \in Seq(RowOf) /\ told \in Seq(Nat)
  /\ bootPc # "classify" => label \in {reason, "FLASH", "ROLLBACK"}

CrashKept ==
  ~bare =>
    /\ reason = "PANIC" => dump \in {0, boot}
    /\ reason = "WDT" => dump = 0
    /\ \A i \in 1..Len(hist) : R!Crashed(hist[i].reason) => hist[i].crash \in {0, hist[i].boot}
    /\ bootPc \in {"note", "attach"} => Len(hist) > 0 /\ hist[1].boot = boot /\ hist[1].reason = label

(* Which firmware runs: a new one always differs from the one before.      *)
ImagesDiffer ==
  /\ image <= flashed + 1 /\ former <= flashed + 1
  /\ trial => former # image
  /\ staged # 0 => staged = flashed + 2
  /\ bootPc # "classify" => sha = image

RowsOnce ==
  /\ \A i \in 1..Len(hist) : hist[i].change <= flashed
  /\ \A i, j \in 1..Len(hist) :
       NewImage(hist[i].reason) /\ NewImage(hist[j].reason) /\ hist[i].change = hist[j].change => i = j
  /\ sha # image \/ (bootPc = "record" /\ NewImage(label)) =>
       \A i \in 1..Len(hist) : NewImage(hist[i].reason) => hist[i].change # flashed

Telling(n) == \E i \in 1..Len(hist) : NewImage(hist[i].reason) /\ hist[i].change = n
Awaits == (bootPc = "classify" /\ sha # image) \/ (bootPc = "record" /\ NewImage(label))
RowsThere ==
  /\ Len(hist) <= (IF bootPc \in {"classify", "record"} THEN boot - 1 ELSE boot)
  /\ ~cut /\ boot <= Rows => \A n \in 0..flashed : Telling(n) \/ (n = flashed /\ Awaits)

ToldBefore ==
  /\ \A i \in 1..Len(told) : told[i] \in 1..(boot - 1) /\ told[i] # why
  /\ \A i, j \in 1..Len(told) : told[i] = told[j] => i = j
  /\ why <= boot /\ (bootPc # "tagged" => why < boot)
  /\ bootPc = "clear" => cause = why /\ why # 0

HistInv == HistTyped /\ CrashKept /\ ImagesDiffer /\ RowsOnce /\ RowsThere /\ ToldBefore

(* Steps that leave the rows as they are. *)
LEMMA TellSame == ASSUME UNCHANGED hist PROVE \A n \in Nat : Telling(n)' <=> Telling(n)
  BY DEF Telling

LEMMA HistQuiet ==
  ASSUME HistInv,
         R!Classify \/ R!Note \/ R!Erase \/ R!ReadWhy \/ R!Tag \/ R!Upload \/ R!Confirm
  PROVE  HistInv'
<1> USE DEF HistInv
<1> USE DEF R!Classify, R!Note, R!Erase, R!ReadWhy, R!Tag, R!Upload, R!Confirm,
            R!chip, R!nvsv, R!Changed, R!Stored
<1>1. UNCHANGED <<boot, reason, image, former, flashed, hist, told>>
  OBVIOUS
<1>1a. UNCHANGED <<cut, bare>>
  OBVIOUS
<1>2. HistTyped'
  <2>1. trial' \in BOOLEAN /\ invalid' \in BOOLEAN /\ cut' \in BOOLEAN /\ bare' \in BOOLEAN
    BY DEF HistTyped
  <2>2. staged' \in Nat /\ dump' \in Nat /\ sha' \in Nat /\ why' \in Nat /\ cause' \in Nat
    <3>1. /\ staged \in Nat /\ flashed \in Nat /\ dump \in Nat /\ sha \in Nat /\ image \in Nat
          /\ why \in Nat /\ boot \in Nat /\ cause \in Nat
      BY DEF HistTyped
    <3>2. (staged' = staged \/ staged' = flashed + 2) /\ (dump' = dump \/ dump' = 0)
      OBVIOUS
    <3>3. (sha' = sha \/ sha' = image) /\ (why' = why \/ why' = boot) /\ (cause' = cause \/ cause' = why)
      OBVIOUS
    <3> HIDE DEF HistInv, R!Classify, R!Note, R!Erase, R!ReadWhy, R!Tag, R!Upload, R!Confirm
    <3> QED
      BY <3>1, <3>2, <3>3
  <2>3. bootPc' \in BootPcs /\ (bootPc' # "classify" => label' \in {reason', "FLASH", "ROLLBACK"})
    BY <1>1 DEF HistTyped, BootPcs
  <2> QED
    BY <1>1, <2>1, <2>2, <2>3 DEF HistTyped
<1>3. CrashKept'
  BY <1>1, <1>1a DEF HistTyped, CrashKept, R!Crashed
<1>4. ImagesDiffer'
  BY <1>1 DEF HistTyped, ImagesDiffer
<1>5. RowsOnce'
  BY <1>1 DEF HistTyped, ImagesDiffer, RowsOnce, NewImage, BootReasons
<1>6. RowsThere'
  BY <1>1, <1>1a, TellSame DEF HistTyped, ImagesDiffer, RowsThere, Awaits, NewImage, BootReasons
<1>7. ToldBefore'
  BY <1>1 DEF HistTyped, ToldBefore
<1> QED
  BY <1>2, <1>3, <1>4, <1>5, <1>6, <1>7

LEMMA HistClears == ASSUME HistInv, R!ClearWhy PROVE HistInv'
<1> USE DEF HistInv, R!ClearWhy, R!chip, R!Reported
<1>1. /\ Len(told') = Len(told) + 1 /\ told' \in Seq(Nat) /\ told'[Len(told) + 1] = cause
      /\ \A i \in 1..Len(told) : told'[i] = told[i]
  BY AppendProperties DEF HistTyped
<1>2. Len(told) \in Nat
  BY DEF HistTyped
<1>3. ToldBefore'
  BY <1>1, <1>2 DEF HistTyped, ToldBefore
<1>4. HistTyped'
  BY <1>1 DEF HistTyped, BootPcs
<1>5. CrashKept' /\ ImagesDiffer' /\ RowsOnce' 
  BY DEF HistTyped, CrashKept, ImagesDiffer, RowsOnce, R!Crashed, NewImage
<1>6. RowsThere'
  BY TellSame DEF HistTyped, RowsThere, Awaits, NewImage
<1> QED
  BY <1>3, <1>4, <1>5, <1>6

(* The row of this boot comes first, and the others move down. *)
LEMMA HistRecords == ASSUME HistInv, R!Record PROVE HistInv'
<1> USE DEF HistInv
<1> DEFINE row == [boot |-> boot, change |-> flashed, reason |-> label, crash |-> 0]
           all == <<row>> \o R!Shown
           n == IF Len(all) < Rows THEN Len(all) ELSE Rows
<1>1. /\ bootPc = "record" /\ hist' = SubSeq(all, 1, n)
      /\ bootPc' = IF dump # 0 THEN "note" ELSE "why"
      /\ UNCHANGED <<boot, reason, image, former, staged, trial, invalid, flashed, dump, sha, why,
                     label, cause, told, cut, bare>>
  BY DEF R!Record, R!chip, R!Inherited
<1>2. row \in RowOf /\ Len(hist) \in Nat /\ DOMAIN hist = 1..Len(hist)
  BY <1>1 DEF HistTyped, RowOf
<1>3. \A i \in 1..Len(hist) : hist[i] \in RowOf
  BY DEF HistTyped
<1>4. /\ R!Shown \in Seq(RowOf) /\ Len(R!Shown) = Len(hist)
      /\ \A i \in 1..Len(hist) :
           /\ R!Shown[i].boot = hist[i].boot /\ R!Shown[i].change = hist[i].change
           /\ R!Shown[i].reason = hist[i].reason
           /\ R!Crashed(hist[i].reason) => R!Shown[i].crash = hist[i].crash
  <2>1. \A i \in 1..Len(hist) :
           /\ R!Clean(hist[i]) \in RowOf
           /\ R!Clean(hist[i]).boot = hist[i].boot /\ R!Clean(hist[i]).change = hist[i].change
           /\ R!Clean(hist[i]).reason = hist[i].reason
           /\ R!Crashed(hist[i].reason) => R!Clean(hist[i]).crash = hist[i].crash
    BY <1>3 DEF R!Clean, RowOf
  <2>2. R!Shown = [i \in 1..Len(hist) |-> R!Clean(hist[i])]
    BY <1>2 DEF R!Shown
  <2>3. R!Shown \in Seq(RowOf)
    BY <1>2, <2>1, <2>2, SeqDef
  <2>4. Len(R!Shown) = Len(hist)
    BY <1>2, <2>2, <2>3, LenProperties
  <2> QED
    BY <2>1, <2>2, <2>3, <2>4
<1> HIDE DEF row
<1>5. <<row>> \in Seq(RowOf) /\ Len(<<row>>) = 1 /\ <<row>>[1] = row
  BY <1>2
<1>6. /\ all \in Seq(RowOf) /\ Len(all) = Len(hist) + 1 /\ all[1] = row
      /\ \A i \in 2..Len(hist) + 1 : all[i] = R!Shown[i - 1]
  <2>1. all \in Seq(RowOf) /\ Len(all) = 1 + Len(hist)
    BY <1>4, <1>5, ConcatProperties
  <2>2. \A i \in 1..Len(hist) + 1 : all[i] = IF i <= 1 THEN <<row>>[i] ELSE R!Shown[i - 1]
    BY <1>2, <1>4, <1>5, ConcatProperties
  <2> QED
    BY <1>2, <1>5, <2>1, <2>2
<1> HIDE DEF all
<1>7. n \in 1..Rows /\ n <= Len(hist) + 1 /\ (Len(hist) < Rows => n = Len(hist) + 1)
  BY <1>2, <1>6, BoundsAssumption
<1> HIDE DEF n
<1>8. /\ hist' \in Seq(RowOf) /\ Len(hist') = n
      /\ \A i \in 1..n : hist'[i] = all[i]
  BY <1>1, <1>2, <1>6, <1>7, SubSeqProperties, BoundsAssumption
<1>9. /\ hist'[1].boot = boot /\ hist'[1].change = flashed /\ hist'[1].reason = label /\ hist'[1].crash = 0
      /\ \A i \in 2..n :
           /\ i - 1 \in 1..Len(hist)
           /\ hist'[i].boot = hist[i - 1].boot /\ hist'[i].change = hist[i - 1].change
           /\ hist'[i].reason = hist[i - 1].reason
           /\ R!Crashed(hist[i - 1].reason) => hist'[i].crash = hist[i - 1].crash
  <2>1. hist'[1] = row
    BY <1>6, <1>7, <1>8, BoundsAssumption
  <2>2. \A i \in 2..n : i - 1 \in 1..Len(hist) /\ hist'[i] = R!Shown[i - 1]
    BY <1>2, <1>6, <1>7, <1>8, BoundsAssumption
  <2> QED
    BY <1>4, <2>1, <2>2 DEF row
<1>10. n \in Nat \ {0}
  BY <1>7, BoundsAssumption
<1>11. HistTyped'
  BY <1>1, <1>8 DEF HistTyped, BootPcs
<1>12. CrashKept'
  <2> SUFFICES ASSUME ~bare PROVE
        /\ \A i \in 1..n : R!Crashed(hist'[i].reason) => hist'[i].crash \in {0, hist'[i].boot}
        /\ hist'[1].boot = boot /\ hist'[1].reason = label
    BY <1>1, <1>8, <1>10 DEF CrashKept
  <2>1. \A i \in 2..n : R!Crashed(hist'[i].reason) => hist'[i].crash \in {0, hist'[i].boot}
    BY <1>9 DEF CrashKept
  <2> QED
    BY <1>9, <1>10, <2>1
<1>13. ImagesDiffer' /\ ToldBefore'
  BY <1>1 DEF ImagesDiffer, ToldBefore
<1>14. RowsOnce'
  <2>1. sha = image /\ flashed \in Nat
    BY <1>1 DEF ImagesDiffer, HistTyped
  <2>2. \A i \in 1..n : i = 1 \/ i \in 2..n
    BY <1>10
  <2>3. \A i \in 1..n : hist'[i].change <= flashed
    BY <1>9, <2>1, <2>2 DEF RowsOnce
  <2>4. \A i \in 2..n : NewImage(hist'[i].reason) /\ NewImage(label) => hist'[i].change # flashed
    <3>1. NewImage(label) => \A j \in 1..Len(hist) : NewImage(hist[j].reason) => hist[j].change # flashed
      BY <1>1 DEF RowsOnce
    <3>2. \A i \in 2..n : /\ i - 1 \in 1..Len(hist) /\ hist'[i].change = hist[i - 1].change
                         /\ hist'[i].reason = hist[i - 1].reason
      BY <1>9
    <3> QED
      BY <3>1, <3>2
  <2>5. \A i, j \in 2..n :
          NewImage(hist'[i].reason) /\ NewImage(hist'[j].reason) /\ hist'[i].change = hist'[j].change => i = j
    <3> SUFFICES ASSUME NEW i \in 2..n, NEW j \in 2..n, NewImage(hist'[i].reason), NewImage(hist'[j].reason),
                        hist'[i].change = hist'[j].change
                 PROVE  i = j
      OBVIOUS
    <3>1. i - 1 = j - 1
      <4>1. /\ i - 1 \in 1..Len(hist) /\ j - 1 \in 1..Len(hist)
            /\ hist'[i].change = hist[i - 1].change /\ hist'[i].reason = hist[i - 1].reason
            /\ hist'[j].change = hist[j - 1].change /\ hist'[j].reason = hist[j - 1].reason
        BY <1>9
      <4>2. \A k, m \in 1..Len(hist) :
              NewImage(hist[k].reason) /\ NewImage(hist[m].reason) /\ hist[k].change = hist[m].change => k = m
        BY DEF RowsOnce
      <4>3. /\ NewImage(hist[i - 1].reason) /\ NewImage(hist[j - 1].reason)
            /\ hist[i - 1].change = hist[j - 1].change
        BY <4>1
      <4> QED
        BY <4>1, <4>2, <4>3
    <3> QED
      BY <1>10, <3>1
  <2>6. \A i, j \in 1..n :
          NewImage(hist'[i].reason) /\ NewImage(hist'[j].reason) /\ hist'[i].change = hist'[j].change => i = j
    BY <1>9, <2>2, <2>4, <2>5
  <2> QED
    BY <1>1, <1>8, <2>1, <2>3, <2>6 DEF RowsOnce
<1>15. RowsThere'
  <2>1. Len(hist) <= boot - 1 /\ boot \in Nat /\ Len(hist) \in Nat /\ Rows \in Nat
    BY <1>1, <1>2, BoundsAssumption DEF RowsThere, HistTyped
  <2>2. n <= boot
    BY <1>7, <2>1
  <2>3. ASSUME ~cut, boot <= Rows, NEW c \in 0..flashed PROVE Telling(c)'
    <3>1. n = Len(hist) + 1
      BY <1>7, <2>1, <2>3
    <3>2. CASE Telling(c)
      <4>1. PICK i \in 1..Len(hist) : NewImage(hist[i].reason) /\ hist[i].change = c
        BY <3>2 DEF Telling
      <4>2. i + 1 \in 2..n /\ (i + 1) - 1 = i
        BY <2>1, <3>1
      <4>3. hist'[i + 1].reason = hist[i].reason /\ hist'[i + 1].change = hist[i].change
        BY <1>9, <4>2
      <4>4. i + 1 \in 1..n
        BY <4>2
      <4> QED
        BY <1>8, <4>1, <4>3, <4>4 DEF Telling
    <3>3. CASE c = flashed /\ NewImage(label)
      BY <1>8, <1>9, <1>10, <3>3 DEF Telling
    <3> QED
      BY <1>1, <2>3, <3>2, <3>3 DEF RowsThere, Awaits
  <2> QED
    BY <1>1, <1>8, <2>2, <2>3 DEF RowsThere
<1> QED
  BY <1>11, <1>12, <1>13, <1>14, <1>15

(* The dump of the crash before goes to the first row only. *)
LEMMA HistAttaches == ASSUME HistInv, R!Attach PROVE HistInv'
<1> USE DEF HistInv
<1>1. /\ bootPc = "attach" /\ bootPc' = "erase" /\ hist' = [hist EXCEPT ![1].crash = dump]
      /\ UNCHANGED <<boot, reason, image, former, staged, trial, invalid, flashed, dump, sha, why,
                     label, cause, told, cut, bare>>
  BY DEF R!Attach, R!chip
<1>2. Len(hist) \in Nat /\ DOMAIN hist = 1..Len(hist) /\ \A i \in 1..Len(hist) : hist[i] \in RowOf
  BY DEF HistTyped
<1>3. /\ hist' \in Seq(RowOf) /\ Len(hist') = Len(hist)
      /\ \A i \in 1..Len(hist) :
           /\ hist'[i].boot = hist[i].boot /\ hist'[i].change = hist[i].change
           /\ hist'[i].reason = hist[i].reason
           /\ hist'[i].crash = IF i = 1 THEN dump ELSE hist[i].crash
  <2>1. DOMAIN hist' = 1..Len(hist)
    BY <1>1, <1>2
  <2>2. \A i \in 1..Len(hist) : hist'[i] = IF i = 1 THEN [hist[i] EXCEPT !.crash = dump] ELSE hist[i]
    BY <1>1, <1>2
  <2>3. dump \in Nat
    BY DEF HistTyped
  <2>4. \A i \in 1..Len(hist) : 
           /\ hist'[i] \in RowOf
           /\ hist'[i].boot = hist[i].boot /\ hist'[i].change = hist[i].change
           /\ hist'[i].reason = hist[i].reason
           /\ hist'[i].crash = IF i = 1 THEN dump ELSE hist[i].crash
    <3> SUFFICES ASSUME NEW i \in 1..Len(hist)
                 PROVE  /\ hist'[i] \in RowOf
                        /\ hist'[i].boot = hist[i].boot /\ hist'[i].change = hist[i].change
                        /\ hist'[i].reason = hist[i].reason
                        /\ hist'[i].crash = IF i = 1 THEN dump ELSE hist[i].crash
      OBVIOUS
    <3>1. hist[i] \in RowOf /\ hist'[i] = IF i = 1 THEN [hist[i] EXCEPT !.crash = dump] ELSE hist[i]
      BY <1>2, <2>2
    <3>2. CASE i = 1
      BY <2>3, <3>1, <3>2 DEF RowOf
    <3>3. CASE i # 1
      BY <3>1, <3>3
    <3> QED
      BY <3>2, <3>3
  <2>5. hist' = [i \in 1..Len(hist) |-> hist'[i]]
    BY <1>1, <2>1
  <2>6. hist' \in Seq(RowOf)
    BY <1>2, <2>4, <2>5, SeqDef
  <2> QED
    BY <1>2, <2>1, <2>4, <2>6, LenProperties
<1>4. \A m \in Nat : Telling(m)' <=> Telling(m)
  BY <1>3 DEF Telling
<1>5. HistTyped'
  BY <1>1, <1>3 DEF HistTyped, BootPcs
<1>6. CrashKept'
  BY <1>1, <1>2, <1>3 DEF HistTyped, CrashKept, R!Crashed
<1>7. ImagesDiffer' /\ ToldBefore'
  BY <1>1 DEF ImagesDiffer, ToldBefore
<1>8. RowsOnce'
  BY <1>1, <1>3 DEF RowsOnce
<1>9. RowsThere'
  BY <1>1, <1>3, <1>4 DEF HistTyped, RowsThere, Awaits
<1> QED
  BY <1>5, <1>6, <1>7, <1>8, <1>9

(* A reset. *)
LEMMA HistResets ==
  ASSUME HistInv, R!PowerLoss \/ R!Panic \/ R!Watchdog \/ R!Restart
  PROVE  HistInv'
<1> USE DEF HistInv
<1>0. /\ boot \in Nat \ {0} /\ image \in Nat /\ former \in Nat /\ staged \in Nat /\ flashed \in Nat
      /\ dump \in Nat /\ sha \in Nat /\ why \in Nat /\ Len(hist) \in Nat /\ Len(told) \in Nat
      /\ bootPc \in BootPcs
  BY DEF HistTyped
<1>1. /\ boot' = boot + 1 /\ bootPc' = "classify" /\ cause' = 0
      /\ UNCHANGED <<sha, hist, why, told>>
  BY DEF R!PowerLoss, R!Panic, R!Watchdog, R!Restart, R!Reset, R!nvsv
<1>1a. cut' \in BOOLEAN /\ (~cut' => ~cut /\ bootPc \notin {"classify", "record"})
  BY DEF R!PowerLoss, R!Panic, R!Watchdog, R!Restart, R!Reset, HistTyped
<1>1b. R!Bootloader
  BY DEF R!PowerLoss, R!Panic, R!Watchdog, R!Restart
<1>1c. /\ staged' = 0 /\ trial' \in BOOLEAN /\ invalid' \in BOOLEAN
       /\ \/ /\ staged # 0 /\ image' = staged /\ former' = image /\ flashed' = flashed + 1
          \/ /\ staged = 0 /\ trial /\ image' = former /\ former' = image /\ flashed' = flashed + 1
             /\ ~trial'
          \/ /\ staged = 0 /\ ~trial /\ image' = image /\ former' = former /\ flashed' = flashed
             /\ ~trial'
  BY <1>1b DEF R!Bootloader, HistTyped
<1>2. /\ reason' \in BootReasons
      /\ \/ reason' \in {"POWERON", "SW"} /\ UNCHANGED <<dump, bare>>
         \/ reason' = "PANIC" /\ dump' = boot + 1 /\ UNCHANGED bare
         \/ reason' = "WDT" /\ bare' = (bare \/ dump # 0) /\ UNCHANGED dump
  BY DEF R!PowerLoss, R!Panic, R!Watchdog, R!Restart, R!Reset, BootReasons
<1>3. HistTyped'
  <2>1. dump' \in Nat /\ boot' \in Nat \ {0}
    BY <1>0, <1>1, <1>2
  <2>1a. bare' \in BOOLEAN
    BY <1>2 DEF HistTyped
  <2>2. image' \in Nat /\ former' \in Nat /\ staged' \in Nat /\ flashed' \in Nat
    BY <1>1c DEF HistTyped
  <2> QED
    BY <1>1, <1>1a, <1>1c, <1>2, <2>1, <2>1a, <2>2 DEF HistTyped, BootPcs
<1>4. CrashKept'
  <2> SUFFICES ASSUME ~bare' PROVE
        /\ reason' = "PANIC" => dump' \in {0, boot'}
        /\ reason' = "WDT" => dump' = 0
        /\ \A i \in 1..Len(hist') : R!Crashed(hist'[i].reason) => hist'[i].crash \in {0, hist'[i].boot}
    BY <1>1 DEF CrashKept
  <2>1. ~bare
    BY <1>2
  <2> QED
    BY <1>1, <1>2, <2>1 DEF CrashKept
<1>5. ImagesDiffer'
  <2>1. image <= flashed + 1 /\ former <= flashed + 1 /\ (trial => former # image)
        /\ (staged # 0 => staged = flashed + 2)
    BY DEF ImagesDiffer
  <2>2. image' <= flashed' + 1 /\ former' <= flashed' + 1 /\ (trial' => former' # image')
    BY <1>0, <1>1c, <2>1
  <2> QED
    BY <1>1, <1>1c, <2>2 DEF ImagesDiffer
<1>6. flashed' \in {flashed, flashed + 1} /\ (flashed' = flashed => image' = image)
  BY <1>1c DEF HistTyped
<1>7. RowsOnce'
  <2>0. \A i \in 1..Len(hist) : hist[i].change \in Nat
    <3>1. \A i \in 1..Len(hist) : hist[i] \in RowOf
      BY DEF HistTyped
    <3> QED
      BY <3>1 DEF RowOf
  <2>1. /\ \A i \in 1..Len(hist) : hist[i].change <= flashed
        /\ \A i, j \in 1..Len(hist) :
             NewImage(hist[i].reason) /\ NewImage(hist[j].reason) /\ hist[i].change = hist[j].change => i = j
        /\ sha # image => \A i \in 1..Len(hist) : NewImage(hist[i].reason) => hist[i].change # flashed
    BY DEF RowsOnce
  <2>2. \A i \in 1..Len(hist) : hist[i].change <= flashed'
    BY <1>0, <1>6, <2>0, <2>1
  <2>3. sha # image' => \A i \in 1..Len(hist) : NewImage(hist[i].reason) => hist[i].change # flashed'
    BY <1>0, <1>6, <2>0, <2>1
  <2> QED
    BY <1>1, <2>1, <2>2, <2>3 DEF RowsOnce
<1>8. RowsThere'
  <2>1. Len(hist) <= boot /\ Len(hist) \in Nat
    BY <1>0 DEF RowsThere
  <2>2. ASSUME ~cut', boot' <= Rows, NEW c \in 0..flashed'
        PROVE  Telling(c)' \/ (c = flashed' /\ Awaits')
    <3>1. ~cut /\ boot <= Rows /\ bootPc \notin {"classify", "record"} /\ sha = image
      BY <1>0, <1>1, <1>1a, <2>2, BoundsAssumption DEF BootPcs, ImagesDiffer
    <3>2. CASE c <= flashed
      BY <1>0, <1>1, <1>6, <2>2, <3>1, <3>2, TellSame DEF RowsThere, Awaits
    <3>3. CASE c = flashed + 1
      <4>1. flashed' = c /\ image' # image
        BY <1>1c, <2>2, <3>3 DEF HistTyped, ImagesDiffer
      <4> QED
        BY <1>1, <3>1, <4>1 DEF Awaits
    <3> QED
      BY <1>0, <1>6, <2>2, <3>2, <3>3
  <2>3. Len(hist) <= boot' - 1
    BY <1>0, <1>1, <2>1
  <2> QED
    BY <1>1, <2>2, <2>3 DEF RowsThere
<1>9. ToldBefore'
  <2>1. /\ \A i \in 1..Len(told) : told[i] \in 1..(boot - 1) /\ told[i] # why
        /\ \A i, j \in 1..Len(told) : told[i] = told[j] => i = j
        /\ why <= boot
    BY DEF ToldBefore
  <2>2. \A i \in 1..Len(told) : told[i] \in 1..(boot' - 1)
    BY <1>0, <1>1, <2>1
  <2>3. why <= boot' /\ why < boot'
    BY <1>0, <1>1, <2>1
  <2> QED
    BY <1>1, <2>1, <2>2, <2>3 DEF ToldBefore
<1> QED
  BY <1>3, <1>4, <1>5, <1>7, <1>8, <1>9

LEMMA HistStart == R!Init => HistInv
<1> SUFFICES ASSUME R!Init PROVE HistInv
  OBVIOUS
<1>0. /\ boot = 1 /\ reason = "POWERON" /\ image = 1 /\ former = 0 /\ staged = 0 /\ dump = 0
      /\ trial = FALSE /\ invalid = FALSE /\ flashed = 0 /\ sha = 0 /\ hist = <<>> /\ why = 0
      /\ bootPc = "classify" /\ cause = 0 /\ told = <<>> /\ cut = FALSE /\ bare = FALSE
  BY Zenon DEF R!Init
<1>1. <<>> \in Seq(RowOf) /\ <<>> \in Seq(Nat) /\ Len(<<>>) = 0
  BY EmptySeq
<1>2. HistTyped
  <2>1. trial \in BOOLEAN /\ invalid \in BOOLEAN /\ cut \in BOOLEAN /\ bare \in BOOLEAN
    BY <1>0
  <2>2. hist \in Seq(RowOf) /\ told \in Seq(Nat) /\ bootPc = "classify"
    BY <1>0, <1>1
  <2>3. reason \in BootReasons /\ bootPc \in BootPcs
    BY <1>0 DEF BootPcs, BootReasons
  <2> QED
    BY <1>0, <2>1, <2>2, <2>3 DEF HistTyped
<1>3. CrashKept /\ ImagesDiffer
  BY <1>0, <1>1 DEF CrashKept, ImagesDiffer
<1>4. RowsOnce /\ ToldBefore
  BY <1>0, <1>1 DEF RowsOnce, ToldBefore
<1>5. RowsThere
  BY <1>0, <1>1 DEF RowsThere, Awaits
<1> QED
  BY <1>2, <1>3, <1>4, <1>5 DEF HistInv

(* R!HistoryTrue: the crash, the new firmware and the cause of a restart   *)
(* that the page tells of a boot are what happened before it, each once,   *)
(* for a table of any size and any number of boots, wherever resets fall.  *)
THEOREM HistoryHolds == ApSpec => []HistoryTrue
<1>1. ApInit => HistInv
  BY HistStart DEF ApInit
<1>2. HistInv /\ [ApNext]_<<running, vars, av, dv, fv, pv, xv, rv>> => HistInv'
  <2> SUFFICES ASSUME HistInv, [ApNext]_<<running, vars, av, dv, fv, pv, xv, rv>> PROVE HistInv'
    OBVIOUS
  <2>1. R!Next \/ UNCHANGED rv
    BY DEF ApNext
  <2>2. CASE UNCHANGED rv
    BY <2>2 DEF rv, HistInv, HistTyped, CrashKept, ImagesDiffer, RowsOnce, RowsThere, Telling, Awaits,
                ToldBefore
  <2>3. CASE R!Next
    BY <2>3, HistQuiet, HistClears, HistRecords, HistAttaches, HistResets DEF R!Next
  <2> QED
    BY <2>1, <2>2, <2>3
<1>3. HistInv => HistoryTrue
  <2> SUFFICES ASSUME HistInv PROVE R!HistoryTrue
    BY DEF HistoryTrue
  <2>1. Len(hist) \in Nat /\ DOMAIN hist = 1..Len(hist) /\ \A i \in 1..Len(hist) : hist[i] \in RowOf
    BY DEF HistInv, HistTyped
  <2>2. R!CrashUnderItsRow
    BY <2>1 DEF HistInv, CrashKept, R!CrashUnderItsRow, R!Shown, R!Clean, R!Crashed, RowOf
  <2>3. R!ChangeToldOnce
    <3>1. \A c \in 0..flashed : \A i, j \in R!ChangeRows(c) : i = j
      BY <2>1 DEF HistInv, RowsOnce, R!ChangeRows, NewImage
    <3>2. ASSUME NEW c \in 0..flashed, bootPc = "run", ~cut, boot <= Rows PROVE R!ChangeRows(c) # {}
      <4>1. Telling(c)
        BY <3>2 DEF HistInv, RowsThere, Awaits
      <4> QED
        BY <2>1, <4>1 DEF Telling, R!ChangeRows, NewImage
    <3> QED
      BY <3>1, <3>2 DEF R!ChangeToldOnce
  <2>4. R!CauseToldOnce
    <3>1. told \in Seq(Nat) /\ \A i, j \in 1..Len(told) : told[i] = told[j] => i = j
      BY DEF HistInv, HistTyped, ToldBefore
    <3>2. DOMAIN told = 1..Len(told)
      BY <3>1
    <3> HIDE DEF HistInv
    <3> QED
      BY <3>1, <3>2, Zenon DEF R!CauseToldOnce, R!IsInjective
  <2> QED
    BY <2>2, <2>3, <2>4 DEF R!HistoryTrue
<1> QED
  BY <1>1, <1>2, <1>3, PTL DEF ApSpec

(* What the filter decides, and what it shows, is what FirewallProofs has  *)
(* of the component.                                                       *)
LEMMA FilterShown ==
  /\ F!Ordered(acl) = FP!Ordered(acl)
  /\ F!Ordered(F!Zeroed(stored)) = FP!Ordered(FP!Zeroed(stored))
  BY DEF F!Ordered, FP!Ordered, F!Page, FP!Page, F!Free, FP!Free, F!Zeroed, FP!Zeroed, F!Lists, FP!Lists,
         F!ToSet, FP!ToSet, F!Slots, FP!Slots, F!Valid, FP!Valid, F!NoRule, FP!NoRule, F!Min, FP!Min

LEMMA FilterPolicy ==
  /\ FP!Policy!Init => F!Policy!Init
  /\ FP!Policy!Next => F!Policy!Next
  /\ UNCHANGED FP!Policy!vars => UNCHANGED F!Policy!vars
<1>1. F!Lists = FP!Lists
  BY DEF F!Lists, FP!Lists, F!ToSet, FP!ToSet
<1>2. /\ F!Ordered(acl)' = FP!Ordered(acl)'
      /\ F!Ordered(F!Zeroed(stored))' = FP!Ordered(FP!Zeroed(stored))'
  BY DEF F!Ordered, FP!Ordered, F!Page, FP!Page, F!Free, FP!Free, F!Zeroed, FP!Zeroed, F!Lists, FP!Lists,
         F!ToSet, FP!ToSet, F!Slots, FP!Slots, F!Valid, FP!Valid, F!NoRule, FP!NoRule, F!Min, FP!Min
<1>3. FP!Policy!Init => F!Policy!Init
  BY <1>1, FilterShown DEF FP!Policy!Init, F!Policy!Init
<1>4. UNCHANGED FP!Policy!vars => UNCHANGED F!Policy!vars
  BY <1>2, FilterShown DEF FP!Policy!vars, F!Policy!vars
<1>5. FP!Policy!Restart => F!Policy!Restart
  BY <1>2, FilterShown DEF FP!Policy!Restart, F!Policy!Restart
<1>6. ASSUME NEW l, NEW r PROVE FP!Policy!Add(l, r) => F!Policy!Add(l, r)
  BY <1>2, FilterShown DEF FP!Policy!Add, F!Policy!Add
<1>7. ASSUME NEW l, NEW i PROVE FP!Policy!Delete(l, i) => F!Policy!Delete(l, i)
  BY <1>2, FilterShown DEF FP!Policy!Delete, F!Policy!Delete, FP!Policy!RemoveAt, F!Policy!RemoveAt
<1>8. ASSUME NEW l PROVE (FP!Policy!Clear(l) => F!Policy!Clear(l)) /\ (FP!Policy!Save(l) => F!Policy!Save(l))
  BY <1>2, FilterShown DEF FP!Policy!Clear, F!Policy!Clear, FP!Policy!Save, F!Policy!Save,
     FP!Policy!Anew, F!Policy!Anew
<1>9. ASSUME NEW l, NEW p PROVE FP!Policy!Pass(l, p) => F!Policy!Pass(l, p)
  <2> DEFINE o == F!Ordered(acl)
             I == {k \in 1..Len(o[l]) : F!Matches(o[l][k].rule, p)}
             i == IF I # {} THEN CHOOSE x \in I : \A y \in I : x =< y ELSE 0
             Step(n) == IF n = 0 THEN verdict' = "passed" /\ UNCHANGED <<o, F!Ordered(F!Zeroed(stored))>>
                        ELSE /\ verdict' = IF o[l][n].rule.allow THEN "passed" ELSE "dropped"
                             /\ o' = [o EXCEPT ![l][n].hits = @ + 1]
                             /\ UNCHANGED F!Ordered(F!Zeroed(stored))
  <2> DEFINE v == FP!Ordered(acl)
             J == {k \in 1..Len(v[l]) : FP!Matches(v[l][k].rule, p)}
             j == IF J # {} THEN CHOOSE x \in J : \A y \in J : x =< y ELSE 0
             PStep(n) == IF n = 0 THEN verdict' = "passed" /\ UNCHANGED <<v, FP!Ordered(FP!Zeroed(stored))>>
                         ELSE /\ verdict' = IF v[l][n].rule.allow THEN "passed" ELSE "dropped"
                              /\ v' = [v EXCEPT ![l][n].hits = @ + 1]
                              /\ UNCHANGED FP!Ordered(FP!Zeroed(stored))
  <2>1. I = J
    BY FilterShown DEF F!Matches, FP!Matches
  <2>2. F!Policy!Pass(l, p) <=> Step(i)
    BY Zenon DEF F!Policy!Pass, F!Policy!SelectInSeq, F!Policy!Min
  <2>3. FP!Policy!Pass(l, p) <=> PStep(j)
    BY Zenon DEF FP!Policy!Pass, FP!Policy!SelectInSeq, FP!Policy!Min
  <2>4. i = j
    <3> HIDE DEF I, J
    <3> QED
      BY <2>1
  <2>5. \A n : PStep(n) => Step(n)
    <3> HIDE DEF I, J
    <3> QED
      BY <1>2, FilterShown
  <2> HIDE DEF i, j, Step, PStep
  <2> QED
    BY <2>2, <2>3, <2>4, <2>5
<1>10. FP!Policy!Next => F!Policy!Next
  BY <1>1, <1>5, <1>6, <1>7, <1>8, <1>9, FilterShown DEF FP!Policy!Next, F!Policy!Next
<1> QED
  BY <1>3, <1>4, <1>10

(* The first rule of a list that matches decides, in the access point's    *)
(* own lists.                                                              *)
THEOREM FilterDecides == ApSpec => FirstMatchDecides
<1>1. FilterNames \in Seq({"to_esp", "to_ap"}) /\ Len(FilterNames) > 0
  BY DEF FilterNames
<1>2. FP!NoRule \notin FilterRules
  BY DEF FP!NoRule, FilterRules
<1>3. FP!Spec => FP!FirstMatchDecides
  BY <1>1, <1>2, BoundsAssumption, FP!DecidesInOrder
<1>4. FP!FirstMatchDecides => F!FirstMatchDecides
  BY FilterPolicy, PTL DEF FP!FirstMatchDecides, F!FirstMatchDecides, FP!Policy!Spec, F!Policy!Spec
<1>5. F!FirstMatchDecides => FirstMatchDecides
  BY PTL DEF FirstMatchDecides, F!FirstMatchDecides, F!Policy!Spec
<1> QED
  BY <1>3, <1>4, <1>5, FilterRuns, PTL

-----------------------------------------------------------------------------
(* The 4via6 flows.  While no settings were replaced in the middle of a    *)
(* translation, whatever is in the table or in either translation was let  *)
(* in under the site of now.                                               *)
Talks == {[client |-> "a", key |-> 1], [client |-> "b", key |-> 1], [client |-> "b", key |-> 2]}
FlowsTyped ==
  /\ flows \in [X!Slots -> [conv : Talks \cup {X!None}, age : Nat]]
  /\ input \in Talks \cup {X!None} /\ output \in Talks \cup {X!None}
  /\ swapped \in BOOLEAN /\ astray \in BOOLEAN
  /\ \A i \in X!Slots : flows[i].conv = X!None => flows[i] = X!Free

LetIn(c) == c = X!None \/ <<c.client, c.key, ram.site>> \in asked
AllLetIn ==
  ~swapped => ~astray /\ LetIn(input) /\ LetIn(output) /\ \A i \in X!Slots : LetIn(flows[i].conv)

OneSlot == \A i, j \in X!Slots : flows[i].conv = flows[j].conv /\ flows[i].conv # X!None => i = j

FlowsInv == FlowsTyped /\ AllLetIn /\ OneSlot

LEMMA NoTalk == X!None \notin Talks /\ X!Free.conv = X!None /\ X!Free.age = 0
                /\ X!Free \in [conv : Talks \cup {X!None}, age : Nat]
  BY DEF X!None, Talks, X!Free

LEMMA UsedSlots == ASSUME FlowsTyped PROVE \A i \in X!Slots : i \in X!Used(flows) <=> flows[i].conv # X!None
  BY NoTalk DEF FlowsTyped, X!Used

(* Steps that leave the flows and what was asked.                          *)
LEMMA SettingsFlow ==
  ASSUME FlowsInv, NEW t \in {"http", "mqtt"}, X!Begin(t) \/ X!Store(t) \/ X!Load(t)
  PROVE  FlowsInv'
<1>1. UNCHANGED <<ram, flows, input, output, asked, astray>>
  BY DEF X!Begin, X!Store, X!Load
<1>2. swapped' \in BOOLEAN /\ (~swapped' => ~swapped)
  BY DEF X!Begin, X!Store, X!Load, FlowsInv, FlowsTyped
<1> QED
  BY <1>1, <1>2 DEF FlowsInv, FlowsTyped, AllLetIn, LetIn, OneSlot

LEMMA SwapFlow == ASSUME FlowsInv, NEW t \in {"http", "mqtt"}, X!Swap(t) PROVE FlowsInv'
<1>1. flows' = [i \in X!Slots |-> X!Free] /\ UNCHANGED <<input, output, asked, astray>>
  BY DEF X!Swap, X!Emptied
<1>2. swapped' \in BOOLEAN /\ (~swapped' => ~swapped /\ input = X!None /\ output = X!None)
  BY DEF X!Swap, FlowsInv, FlowsTyped
<1>3. \A i \in X!Slots : flows'[i] = X!Free
  BY <1>1
<1>4. FlowsTyped'
  BY <1>1, <1>2, <1>3, NoTalk DEF FlowsInv, FlowsTyped
<1>5. AllLetIn'
  BY <1>1, <1>2, <1>3, NoTalk DEF FlowsInv, AllLetIn, LetIn
<1> QED
  BY <1>3, <1>4, <1>5, NoTalk DEF FlowsInv, OneSlot

LEMMA AcceptFlow ==
  ASSUME FlowsInv, NEW c \in Talks, NEW s \in Sites, X!Accept(c, s)
  PROVE  FlowsInv'
<1>1. /\ s = ram.site /\ input' = c /\ asked' = asked \cup {<<c.client, c.key, s>>}
      /\ UNCHANGED <<ram, flows, output, astray, swapped>>
  BY DEF X!Accept
<1> QED
  BY <1>1 DEF FlowsInv, FlowsTyped, AllLetIn, LetIn, OneSlot

LEMMA RememberFlow == ASSUME FlowsInv, X!Remember PROVE FlowsInv'
<1> DEFINE i == X!Place(input)
           own == {j \in X!Used(flows) : flows[j].conv = input}
           new == [conv |-> input, age |-> 0]
<1>1. /\ input # X!None /\ input' = X!None /\ flows' = [flows EXCEPT ![i] = new]
      /\ UNCHANGED <<ram, output, asked, astray, swapped>>
  BY DEF X!Remember
<1>2. own # {} => i \in own
  <2> SUFFICES ASSUME own # {} PROVE i \in own
    OBVIOUS
  <2>1. PICK k \in own : TRUE
    OBVIOUS
  <2>2. k \in X!Slots /\ \A j \in own : j = k
    BY <1>1, <2>1 DEF FlowsInv, OneSlot, X!Used
  <2>3. k \in Nat
    BY <2>2 DEF X!Slots
  <2>4. \A j \in own : k <= j
    BY <2>2, <2>3
  <2>5. i = CHOOSE x \in own : \A j \in own : x <= j
    BY DEF X!Place
  <2> HIDE DEF i, own
  <2> QED
    BY <2>1, <2>4, <2>5
<1>3. \A j \in X!Slots : flows[j].conv = input => j = i
  <2> SUFFICES ASSUME NEW j \in X!Slots, flows[j].conv = input PROVE j = i
    OBVIOUS
  <2>1. j \in own
    BY <1>1, UsedSlots DEF FlowsInv
  <2>2. i \in X!Slots /\ flows[i].conv = input
    BY <1>2, <2>1 DEF X!Used
  <2> HIDE DEF i
  <2> QED
    BY <1>1, <2>2 DEF FlowsInv, OneSlot
<1> HIDE DEF i
<1>4. /\ flows' \in [X!Slots -> [conv : Talks \cup {X!None}, age : Nat]]
      /\ \A j \in X!Slots : flows'[j] = IF j = i THEN new ELSE flows[j]
  BY <1>1 DEF FlowsInv, FlowsTyped
<1>5. FlowsTyped'
  BY <1>1, <1>4 DEF FlowsInv, FlowsTyped
<1>6. AllLetIn'
  BY <1>1, <1>4 DEF FlowsInv, AllLetIn, LetIn
<1>7. OneSlot'
  BY <1>3, <1>4 DEF FlowsInv, OneSlot
<1> QED
  BY <1>5, <1>6, <1>7 DEF FlowsInv

(* Steps by which a slot keeps its conversation or becomes free.           *)
LEMMA SlotsKept ==
  ASSUME FlowsInv, UNCHANGED <<ram, input, asked, swapped>>,
         flows' \in [X!Slots -> [conv : Talks \cup {X!None}, age : Nat]],
         \A i \in X!Slots : flows'[i] = X!Free \/ (flows'[i].conv = flows[i].conv /\ flows'[i].conv # X!None)
                            \/ flows'[i] = flows[i],
         output' \in Talks \cup {X!None}, astray' \in BOOLEAN,
         ~swapped => LetIn(output') /\ ~astray'
  PROVE  FlowsInv'
<1>1. \A i \in X!Slots : flows'[i].conv \in {X!None, flows[i].conv}
  BY NoTalk
<1>2. FlowsTyped'
  BY NoTalk DEF FlowsInv, FlowsTyped
<1>3. AllLetIn'
  <2>1. \A c : LetIn(c)' <=> LetIn(c)
    BY DEF LetIn
  <2>2. ~swapped => \A i \in X!Slots : LetIn(flows'[i].conv)
    BY <1>1 DEF FlowsInv, AllLetIn, LetIn
  <2>3. ~swapped => ~astray' /\ LetIn(input) /\ LetIn(output')
    BY DEF FlowsInv, AllLetIn
  <2> QED
    BY <2>1, <2>2, <2>3 DEF AllLetIn, LetIn
<1>4. OneSlot'
  BY <1>1 DEF FlowsInv, OneSlot
<1> QED
  BY <1>2, <1>3, <1>4 DEF FlowsInv

LEMMA LookupFlow == ASSUME FlowsInv, NEW k, X!Lookup(k) PROVE FlowsInv'
<1>1. UNCHANGED <<ram, input, asked, astray, swapped>>
  BY DEF X!Lookup
<1>2. \A n : /\ X!Swept(n) \in [X!Slots -> [conv : Talks \cup {X!None}, age : Nat]]
             /\ \A i \in X!Slots : X!Swept(n)[i] \in {X!Free, flows[i]}
  BY NoTalk DEF X!Swept, FlowsInv, FlowsTyped
<1>3. CASE X!Hits(k) = {}
  <2>1. flows' = X!Swept(Flows + 1) /\ output' = X!None
    BY <1>3 DEF X!Lookup
  <2> QED
    BY <1>1, <1>2, <2>1, SlotsKept DEF FlowsInv, FlowsTyped, AllLetIn, LetIn
<1>4. CASE X!Hits(k) # {}
  <2> DEFINE n == CHOOSE i \in X!Hits(k) : \A j \in X!Hits(k) : i <= j
  <2>1. flows' = [X!Swept(n) EXCEPT ![n].age = 0] /\ output' = flows[n].conv
    BY <1>4 DEF X!Lookup
  <2>2. n \in X!Hits(k)
    <3>1. X!Hits(k) \in SUBSET Nat
      BY DEF X!Hits, X!Used, X!Slots
    <3>2. PICK x \in X!Hits(k) : \A y \in X!Hits(k) : ~ (<<y, x>> \in OpToRel(<, Nat))
      BY <1>4, <3>1, NatLessThanWellFounded, WFMin
    <3>3. \A y \in X!Hits(k) : x <= y
      <4> SUFFICES ASSUME NEW y \in X!Hits(k) PROVE x <= y
        OBVIOUS
      <4>1. x \in Nat /\ y \in Nat
        BY <3>1
      <4>2. ~ (<<y, x>> \in OpToRel(<, Nat))
        BY <3>2
      <4>3. ~(y < x)
        BY <4>1, <4>2 DEF OpToRel
      <4> QED
        BY <4>1, <4>3
    <3> QED
      BY <3>3
  <2> HIDE DEF n
  <2>3. n \in X!Slots /\ flows[n].conv # X!None /\ X!Swept(n)[n] = flows[n]
    <3>1. n \in X!Slots /\ n \in X!Used(flows)
      BY <2>2 DEF X!Hits, X!Used
    <3>2. X!Swept(n)[n] = flows[n]
      BY <3>1 DEF X!Swept, X!Slots
    <3> QED
      BY <3>1, <3>2, UsedSlots DEF FlowsInv
  <2>4. /\ flows' \in [X!Slots -> [conv : Talks \cup {X!None}, age : Nat]]
        /\ \A i \in X!Slots : i # n => flows'[i] = X!Swept(n)[i]
        /\ flows'[n].conv = flows[n].conv
    BY <1>2, <2>1, <2>3
  <2>5. \A i \in X!Slots : flows'[i] = X!Free \/ (flows'[i].conv = flows[i].conv /\ flows'[i].conv # X!None)
                           \/ flows'[i] = flows[i]
    BY <1>2, <2>3, <2>4
  <2>6. output' \in Talks \cup {X!None} /\ (~swapped => LetIn(output'))
    BY <2>1, <2>3 DEF FlowsInv, FlowsTyped, AllLetIn
  <2> QED
    BY <1>1, <2>4, <2>5, <2>6, SlotsKept DEF FlowsInv, FlowsTyped, AllLetIn
<1> QED
  BY <1>3, <1>4

LEMMA TickFlow == ASSUME FlowsInv, X!Tick PROVE FlowsInv'
<1>1. flows' = [i \in X!Slots |-> X!Older(flows[i])] /\ UNCHANGED <<ram, input, output, asked, astray, swapped>>
  BY DEF X!Tick
<1>2. \A f \in [conv : Talks \cup {X!None}, age : Nat] :
        /\ X!Older(f) \in [conv : Talks \cup {X!None}, age : Nat]
        /\ X!Older(f) = f \/ (f # X!Free /\ X!Older(f).conv = f.conv)
  BY DEF X!Older
<1>3. \A i \in X!Slots : flows[i] # X!Free => flows[i].conv # X!None
  BY DEF FlowsInv, FlowsTyped
<1>4. \A i \in X!Slots : flows[i] \in [conv : Talks \cup {X!None}, age : Nat] /\ flows'[i] = X!Older(flows[i])
  BY <1>1 DEF FlowsInv, FlowsTyped
<1>5. flows' \in [X!Slots -> [conv : Talks \cup {X!None}, age : Nat]]
  BY <1>1, <1>2, <1>4
<1>6. \A i \in X!Slots : flows'[i] = X!Free \/ (flows'[i].conv = flows[i].conv /\ flows'[i].conv # X!None)
                         \/ flows'[i] = flows[i]
  BY <1>2, <1>3, <1>4
<1> QED
  BY <1>1, <1>5, <1>6, SlotsKept DEF FlowsInv, FlowsTyped, AllLetIn

LEMMA SentFlow == ASSUME FlowsInv, X!Drop \/ X!Translate PROVE FlowsInv'
<1>1. UNCHANGED <<ram, flows, asked, swapped>>
  BY DEF X!Drop, X!Translate
<1>2. input' \in {input, X!None} /\ output' \in {output, X!None}
  BY DEF X!Drop, X!Translate
<1>3. astray' \in BOOLEAN /\ (~swapped => ~astray')
  BY DEF X!Drop, X!Translate, FlowsInv, FlowsTyped, AllLetIn, LetIn
<1> QED
  BY <1>1, <1>2, <1>3 DEF FlowsInv, FlowsTyped, AllLetIn, LetIn, OneSlot

(* X!FlowsTrue: a reply that comes back from the LAN leaves for a client   *)
(* that wrote to that target under the site in force, and a conversation   *)
(* has one flow, for any number of slots, any sites and any edits: while   *)
(* no settings are replaced in the middle of a translation.                *)
THEOREM FlowsHold == ApSpec => []FlowsTrue
<1>1. ApInit => FlowsInv
  <2> SUFFICES ASSUME X!Init PROVE FlowsInv
    BY DEF ApInit
  <2>1. \A i \in X!Slots : flows[i] = X!Free
    BY DEF X!Init
  <2>2. FlowsTyped
    BY <2>1, NoTalk DEF X!Init, FlowsTyped
  <2> QED
    BY <2>1, <2>2, NoTalk DEF X!Init, FlowsInv, AllLetIn, LetIn, OneSlot
<1>2. FlowsInv /\ [ApNext]_<<running, vars, av, dv, fv, pv, xv, rv>> => FlowsInv'
  <2> SUFFICES ASSUME FlowsInv, [ApNext]_<<running, vars, av, dv, fv, pv, xv, rv>> PROVE FlowsInv'
    OBVIOUS
  <2>1. X!Next \/ UNCHANGED xv
    BY DEF ApNext
  <2>2. CASE UNCHANGED xv
    BY <2>2 DEF xv, FlowsInv, FlowsTyped, AllLetIn, LetIn, OneSlot
  <2>3. CASE X!Next
    <3>1. CASE \E t \in {"http", "mqtt"} : X!Begin(t) \/ X!Store(t) \/ X!Load(t) \/ X!Swap(t)
      BY <3>1, SettingsFlow, SwapFlow
    <3>2. CASE \E c \in Talks, s \in Sites : X!Accept(c, s)
      BY <3>2, AcceptFlow
    <3>3. CASE \E c \in Talks : X!Lookup(c.key)
      BY <3>3, LookupFlow
    <3>4. CASE X!Remember \/ X!Drop \/ X!Translate \/ X!Tick
      BY <3>4, RememberFlow, SentFlow, TickFlow
    <3> QED
      BY <2>3, <3>1, <3>2, <3>3, <3>4 DEF X!Next, Talks
  <2> QED
    BY <2>1, <2>2, <2>3
<1>3. FlowsInv => FlowsTrue
  <2> SUFFICES ASSUME FlowsInv PROVE X!FlowsTrue
    BY DEF FlowsTrue
  <2>1. X!RepliesAsked
    BY DEF FlowsInv, AllLetIn, X!RepliesAsked
  <2>2. X!OneFlowEach
    BY UsedSlots DEF FlowsInv, OneSlot, X!OneFlowEach, X!Used
  <2> QED
    BY <2>1, <2>2 DEF X!FlowsTrue
<1> QED
  BY <1>1, <1>2, <1>3, PTL DEF ApSpec

-----------------------------------------------------------------------------
(* The forwarded ports.                                                    *)
FwTasks == {"http", "mqtt"}
FwTables == P!Tables(MaxRules)
RtRow == [addr : {"none"} \cup Addrs, installed : BOOLEAN]
TaskPcs == {"idle", "pmClear", "pmFill", "pmStore", "tnCheck", "tnStore", "tnLock", "install"}
TaskRow == [pc : TaskPcs, pm : SUBSET FwdPorts, rules : FwTables]

PortsTyped ==
  /\ pm \in SUBSET FwdPorts /\ pmNvs \in SUBSET FwdPorts
  /\ rules \in FwTables /\ rulesNvs \in FwTables /\ rt \in [DOMAIN rules -> RtRow]
  /\ lwip \in [FwdPorts -> {"none", "lan"} \cup Addrs] /\ installed \in SUBSET FwdPorts
  /\ task \in [FwTasks -> TaskRow]
  /\ mgr \in {"sleep", "install"} /\ addr \in {"none"} \cup Addrs
  /\ cb \in [pc : {"idle", "map", "mark"}, i : Nat, ok : BOOLEAN] /\ queued \in Nat
FlagsTyped ==
  fwdSta \in BOOLEAN /\ gotIp \in BOOLEAN /\ raced \in BOOLEAN /\ failed \in BOOLEAN

(* No table that is in force, or will be, has two rules for one port.      *)
RulesSound ==
  /\ P!SoundRules(rules) /\ P!SoundRules(rulesNvs)
  /\ \A t \in FwTasks : task[t].pc \in {"tnStore", "tnLock"} => P!SoundRules(task[t].rules)

(* Edits that do not overlap keep the two tables apart, in RAM and in NVS, *)
(* which an edit leaves different only between its two writes.             *)
Apart(rs, S) == P!EnabledPorts(rs) \cap S = {}
TablesApart ==
  ~raced /\ ~failed =>
    /\ \A t, u \in FwTasks : t # u => task[t].pc = "idle" \/ task[u].pc = "idle"
    /\ Apart(rules, pm) /\ Apart(rulesNvs, pmNvs)
    /\ \A t \in FwTasks :
         /\ task[t].pc \in {"pmClear", "pmFill", "pmStore"} => Apart(rules, task[t].pm)
         /\ task[t].pc = "pmStore" => pm = task[t].pm
         /\ task[t].pc \in {"tnStore", "tnLock"} => Apart(task[t].rules, pm)
         /\ task[t].pc = "tnLock" => rulesNvs = task[t].rules
    /\ (\A t \in FwTasks : task[t].pc \notin {"pmFill", "pmStore"}) => pm = pmNvs
    /\ (\A t \in FwTasks : task[t].pc # "tnLock") => rules = rulesNvs

(* What lwIP's table has, the callback knows of and will remove first.     *)
AllKnown == \A p \in FwdPorts : lwip[p] # "none" => p \in installed

(* Whatever alters the rules or their addresses leaves a rebuild to do;    *)
(* without one, lwIP's table and the marks are those of the rules, also in *)
(* the middle of the callback.                                             *)
ToRebuild ==
  \/ queued > 0 \/ mgr = "install" \/ gotIp \/ ~fwdSta
  \/ \E t \in FwTasks : task[t].pc = "install"
InTable(i) == rules[i].on /\ lwip[rules[i].port] = rt[i].addr
TableTrue ==
  /\ \A p \in FwdPorts : lwip[p] \in Addrs => P!Filtered(p)
  /\ \A i \in DOMAIN rules : rt[i].installed => InTable(i)
  /\ cb.pc = "mark" /\ cb.ok /\ cb.i \in DOMAIN rules => InTable(cb.i)

PortsInv == PortsTyped /\ FlagsTyped /\ RulesSound /\ TablesApart /\ AllKnown /\ (ToRebuild \/ TableTrue)

(* Tables of rules.                                                        *)
LEMMA TableFacts ==
  ASSUME NEW rs \in FwTables
  PROVE  /\ \A i \in DOMAIN rs : rs[i] \in P!Rule /\ rs[i].port \in FwdPorts /\ rs[i].on \in BOOLEAN
         /\ \A i \in DOMAIN rs, flag \in BOOLEAN : [rs EXCEPT ![i].on = flag] \in FwTables
         /\ DOMAIN rs \subseteq Nat
<1>1. PICK k \in 0..MaxRules : rs \in [1..k -> P!Rule]
  BY DEF FwTables, P!Tables
<1>2. \A i \in DOMAIN rs : rs[i] \in P!Rule /\ rs[i].port \in FwdPorts /\ rs[i].on \in BOOLEAN
  BY <1>1 DEF P!Rule
<1>3. ASSUME NEW i \in DOMAIN rs, NEW flag \in BOOLEAN PROVE [rs EXCEPT ![i].on = flag] \in FwTables
  <2>1. [rs[i] EXCEPT !.on = flag] \in P!Rule
    BY <1>2 DEF P!Rule
  <2>2. [rs EXCEPT ![i].on = flag] = [rs EXCEPT ![i] = [rs[i] EXCEPT !.on = flag]]
    OBVIOUS
  <2>3. [rs EXCEPT ![i].on = flag] \in [1..k -> P!Rule]
    BY <1>1, <2>1, <2>2
  <2> QED
    BY <2>3 DEF FwTables, P!Tables
<1> QED
  BY <1>1, <1>2, <1>3

LEMMA NoRules == <<>> \in FwTables /\ DOMAIN <<>> = {} /\ P!EnabledPorts(<<>>) = {}
<1>1. <<>> \in [1..0 -> P!Rule] /\ DOMAIN <<>> = {}
  OBVIOUS
<1>2. 0 \in 0..MaxRules
  BY PortsAssumption
<1> QED
  BY <1>1, <1>2 DEF FwTables, P!Tables, P!EnabledPorts

LEMMA SameSize == \A S : P!Cardinality(S) = Cardinality(S)
BY DEF P!Cardinality, Cardinality

(* A finite set has a subset of each size up to its own.                   *)
LEMMA SubsetOfSize ==
  ASSUME NEW S, IsFiniteSet(S), NEW n \in 0..Cardinality(S)
  PROVE  \E T \in SUBSET S : Cardinality(T) = n
<1>1. Cardinality(S) \in Nat /\ ExistsBijection(1..Cardinality(S), S)
  BY FS_CardinalityType
<1>2. PICK f \in Bijection(1..Cardinality(S), S) : TRUE
  BY <1>1 DEF ExistsBijection
<1>3. /\ f \in [1..Cardinality(S) -> S]
      /\ \A i, j \in 1..Cardinality(S) : f[i] = f[j] => i = j
  BY <1>2 DEF Bijection, Injection, IsInjective
<1> DEFINE T == {f[i] : i \in 1..n}
           g == [i \in 1..n |-> f[i]]
<1>4. \A i \in 1..n : i \in 1..Cardinality(S)
  BY <1>1
<1>5. T \in SUBSET S
  BY <1>3, <1>4
<1>6. g \in Bijection(1..n, T)
  <2>1. g \in [1..n -> T] /\ \A i, j \in 1..n : g[i] = g[j] => i = j
    BY <1>3, <1>4
  <2>2. \A t \in T : \E i \in 1..n : g[i] = t
    OBVIOUS
  <2> QED
    BY <2>1, <2>2 DEF Bijection, Injection, Surjection, IsInjective
<1>7. n \in Nat
  BY <1>1
<1>8. Cardinality(T) = n
  BY <1>6, <1>7, FS_CountingElements DEF ExistsBijection
<1> QED
  BY <1>5, <1>8

(* The port map's entries go into an empty table.                          *)
LEMMA FilledFacts ==
  ASSUME NEW table, \A p \in FwdPorts : table[p] = "none", NEW S \in SUBSET FwdPorts
  PROVE  /\ P!Fill(table, S) \in [FwdPorts -> {"none", "lan"} \cup Addrs]
         /\ \A p \in FwdPorts : P!Fill(table, S)[p] # "none" => p \in S /\ P!Fill(table, S)[p] = "lan"
<1> DEFINE used == Cardinality({q \in FwdPorts : table[q] # "none"})
           free == TableSize - used
           size == Cardinality(S)
           n == IF size <= free THEN size ELSE free
<1>1. {q \in FwdPorts : table[q] # "none"} = {} /\ used = 0
  <2>1. {q \in FwdPorts : table[q] # "none"} = {}
    OBVIOUS
  <2> QED
    BY <2>1, FS_EmptySet
<1>2. IsFiniteSet(S) /\ size \in Nat
  BY FS_Subset, FS_CardinalityType, PortsAssumption
<1> HIDE DEF used, size
<1>3. n \in 0..size
  BY <1>1, <1>2, PortsAssumption
<1>4. PICK T \in SUBSET S : Cardinality(T) = n
  BY <1>2, <1>3, SubsetOfSize DEF size
<1> DEFINE Good(new) ==
    /\ \A q \in FwdPorts \ S : new[q] = table[q]
    /\ \A q \in S : new[q] \in {"lan", table[q]}
    /\ P!Cardinality({q \in S : new[q] = "lan"}) =
         LET f == TableSize - P!Cardinality({q \in FwdPorts : table[q] # "none"})
         IN  IF P!Cardinality(S) <= f THEN P!Cardinality(S) ELSE f
           pick == [q \in FwdPorts |-> IF q \in T THEN "lan" ELSE "none"]
<1>5. \A new : Good(new) <=>
        /\ \A q \in FwdPorts \ S : new[q] = table[q]
        /\ \A q \in S : new[q] \in {"lan", table[q]}
        /\ Cardinality({q \in S : new[q] = "lan"}) = n
  <2> HIDE DEF n
  <2>1. n = LET f == TableSize - Cardinality({q \in FwdPorts : table[q] # "none"})
            IN  IF Cardinality(S) <= f THEN Cardinality(S) ELSE f
    BY DEF n, size, used
  <2> QED
    BY <2>1, SameSize
<1> HIDE DEF n
<1>6. Good(pick) /\ pick \in [FwdPorts -> {"none", "lan"} \cup Addrs]
  <2>1. {q \in S : pick[q] = "lan"} = T
    BY <1>4
  <2>2. \A q \in FwdPorts : pick[q] = IF q \in T THEN "lan" ELSE "none"
    OBVIOUS
  <2>3. pick \in [FwdPorts -> {"none", "lan"} \cup Addrs]
    OBVIOUS
  <2> HIDE DEF pick, Good
  <2> QED
    BY <1>4, <1>5, <2>1, <2>2, <2>3
<1>7. P!Fill(table, S) = CHOOSE new \in [FwdPorts -> {"none", "lan"} \cup Addrs] : Good(new)
  BY DEF P!Fill
<1> HIDE DEF Good, pick
<1>8. P!Fill(table, S) \in [FwdPorts -> {"none", "lan"} \cup Addrs] /\ Good(P!Fill(table, S))
  BY <1>6, <1>7
<1> QED
  BY <1>8 DEF Good

-----------------------------------------------------------------------------
(* What each step does to the tasks.                                       *)
LEMMA Started ==
  ASSUME PortsTyped, FlagsTyped, NEW t \in FwTasks, NEW next \in TaskRow, task[t].pc = "idle", P!Begin(t, next)
  PROVE  /\ task' \in [FwTasks -> TaskRow] /\ task'[t] = next /\ \A u \in FwTasks : u # t => task'[u] = task[u]
         /\ raced' \in BOOLEAN /\ (~raced' => ~raced /\ \A u \in FwTasks : task[u].pc = "idle")
         /\ UNCHANGED <<pm, pmNvs, rules, rulesNvs, rt, lwip, installed, mgr, cb, queued, addr, fwdSta, gotIp,
                        failed>>
<1>1. task' = [task EXCEPT ![t] = next]
      /\ UNCHANGED <<pm, pmNvs, rules, rulesNvs, rt, lwip, installed, mgr, cb, queued, addr, fwdSta, gotIp, failed>>
  BY DEF P!Begin, P!tables, P!net
<1>2. raced' \in BOOLEAN /\ (~raced' => ~raced /\ \A u \in FwTasks \ {t} : task[u].pc = "idle")
  BY DEF P!Begin, FlagsTyped, FwTasks
<1> QED
  BY <1>1, <1>2 DEF PortsTyped

LEMMA Moved ==
  ASSUME PortsTyped, NEW t \in FwTasks, NEW next \in TaskRow, task' = [task EXCEPT ![t] = next]
  PROVE  /\ task' \in [FwTasks -> TaskRow] /\ task'[t] = next /\ \A u \in FwTasks : u # t => task'[u] = task[u]
  BY DEF PortsTyped

LEMMA AtPlace ==
  ASSUME PortsTyped, NEW t \in FwTasks, NEW c \in TaskPcs
  PROVE  /\ [task[t] EXCEPT !.pc = c] \in TaskRow
         /\ [task[t] EXCEPT !.pc = c].pc = c /\ [task[t] EXCEPT !.pc = c].pm = task[t].pm
         /\ [task[t] EXCEPT !.pc = c].rules = task[t].rules
         /\ [task EXCEPT ![t].pc = c] = [task EXCEPT ![t] = [task[t] EXCEPT !.pc = c]]
         /\ P!Idle \in TaskRow /\ P!Idle.pc = "idle"
<1>1. task[t] \in TaskRow
  BY DEF PortsTyped
<1>2. P!Idle \in TaskRow
  BY NoRules DEF P!Idle, TaskRow, TaskPcs
<1> QED
  BY <1>1, <1>2 DEF TaskRow, P!Idle

(* What a step of a task leaves to prove: others alone, what lwIP's table  *)
(* is made from alone.                                                     *)
LEMMA Rebuilt ==
  ASSUME PortsInv, UNCHANGED <<rules, rt, lwip, cb>>, ToRebuild => ToRebuild'
  PROVE  (ToRebuild \/ TableTrue)'
BY DEF PortsInv, TableTrue, InTable, P!Filtered

LEMMA KnownSame ==
  ASSUME PortsInv, UNCHANGED <<lwip, installed>>
  PROVE  AllKnown'
BY DEF PortsInv, AllKnown

(* While edits do not overlap, a task at work is alone at it.              *)
LEMMA Alone ==
  ASSUME TablesApart, ~raced, ~failed, NEW t \in FwTasks, task[t].pc # "idle"
  PROVE  \A u \in FwTasks : u # t => task[u].pc = "idle"
BY DEF TablesApart

LEMMA StartedRebuilt ==
  ASSUME PortsInv, NEW t \in FwTasks, task[t].pc # "install", \A u \in FwTasks : u # t => task'[u] = task[u],
         UNCHANGED <<rules, rt, lwip, cb, queued, mgr, gotIp, fwdSta>>
  PROVE  (ToRebuild \/ TableTrue)'
<1>1. ToRebuild => ToRebuild'
  BY DEF ToRebuild
<1> QED
  BY <1>1, Rebuilt

LEMMA SetPortmapHolds ==
  ASSUME PortsInv, NEW t \in FwTasks, NEW S \in SUBSET FwdPorts, P!SetPortmap(t, S)
  PROVE  PortsInv'
<1> DEFINE next == [P!Idle EXCEPT !.pc = "pmClear", !.pm = S]
<1>1. task[t].pc = "idle" /\ Apart(rules, S) /\ P!Begin(t, next)
  BY DEF P!SetPortmap, P!ForwardFree, Apart
<1>2. next \in TaskRow /\ next.pc = "pmClear" /\ next.pm = S
  BY NoRules DEF P!Idle, TaskRow, TaskPcs
<1> HIDE DEF next
<1>3. /\ task' \in [FwTasks -> TaskRow] /\ task'[t] = next /\ \A u \in FwTasks : u # t => task'[u] = task[u]
      /\ raced' \in BOOLEAN /\ (~raced' => ~raced /\ \A u \in FwTasks : task[u].pc = "idle")
      /\ UNCHANGED <<pm, pmNvs, rules, rulesNvs, rt, lwip, installed, mgr, cb, queued, addr, fwdSta, gotIp,
                     failed>>
  BY <1>1, <1>2, Started DEF PortsInv
<1>4. PortsTyped' /\ FlagsTyped'
  BY <1>3 DEF PortsInv, PortsTyped, FlagsTyped
<1>5. RulesSound'
  BY <1>2, <1>3 DEF PortsInv, RulesSound, P!SoundRules, P!EnabledPorts
<1>6. TablesApart'
  BY <1>1, <1>2, <1>3 DEF PortsInv, TablesApart, Apart, P!EnabledPorts
<1>7. AllKnown' /\ (ToRebuild \/ TableTrue)'
  BY <1>1, <1>3, KnownSame, StartedRebuilt
<1> QED
  BY <1>4, <1>5, <1>6, <1>7 DEF PortsInv

LEMMA SetRulesHolds ==
  ASSUME PortsInv, NEW t \in FwTasks, NEW rs \in FwTables, P!SetRules(t, rs)
  PROVE  PortsInv'
<1> DEFINE next == [P!Idle EXCEPT !.pc = "tnStore", !.rules = rs]
<1>1. task[t].pc = "idle" /\ P!SoundRules(rs) /\ Apart(rs, pm) /\ P!Begin(t, next)
  BY DEF P!SetRules, P!PortmapFree, Apart
<1>2. next \in TaskRow /\ next.pc = "tnStore" /\ next.rules = rs
  BY NoRules DEF P!Idle, TaskRow, TaskPcs
<1> HIDE DEF next
<1>3. /\ task' \in [FwTasks -> TaskRow] /\ task'[t] = next /\ \A u \in FwTasks : u # t => task'[u] = task[u]
      /\ raced' \in BOOLEAN /\ (~raced' => ~raced /\ \A u \in FwTasks : task[u].pc = "idle")
      /\ UNCHANGED <<pm, pmNvs, rules, rulesNvs, rt, lwip, installed, mgr, cb, queued, addr, fwdSta, gotIp,
                     failed>>
  BY <1>1, <1>2, Started DEF PortsInv
<1>4. PortsTyped' /\ FlagsTyped'
  BY <1>3 DEF PortsInv, PortsTyped, FlagsTyped
<1>5. RulesSound'
  BY <1>1, <1>2, <1>3 DEF PortsInv, RulesSound, P!SoundRules, P!EnabledPorts
<1>6. TablesApart'
  BY <1>1, <1>2, <1>3 DEF PortsInv, TablesApart, Apart, P!EnabledPorts
<1>7. AllKnown' /\ (ToRebuild \/ TableTrue)'
  BY <1>1, <1>3, KnownSame, StartedRebuilt
<1> QED
  BY <1>4, <1>5, <1>6, <1>7 DEF PortsInv

LEMMA CopyRulesHolds ==
  ASSUME PortsInv, NEW t \in FwTasks, NEW i, P!CopyRules(t, i)
  PROVE  PortsInv'
<1>1. PICK flag \in BOOLEAN :
        /\ task[t].pc = "idle" /\ i \in DOMAIN rules
        /\ P!Begin(t, [P!Idle EXCEPT !.pc = "tnCheck", !.rules = [rules EXCEPT ![i].on = flag]])
  BY DEF P!CopyRules
<1> DEFINE next == [P!Idle EXCEPT !.pc = "tnCheck", !.rules = [rules EXCEPT ![i].on = flag]]
<1>2. next \in TaskRow /\ next.pc = "tnCheck"
  <2>1. rules \in FwTables
    BY DEF PortsInv, PortsTyped
  <2>2. [rules EXCEPT ![i].on = flag] \in FwTables
    BY <1>1, <2>1, TableFacts
  <2> QED
    BY <2>2 DEF P!Idle, TaskRow, TaskPcs
<1>3. P!Begin(t, next)
  BY <1>1
<1> HIDE DEF next
<1>4. /\ task' \in [FwTasks -> TaskRow] /\ task'[t] = next /\ \A u \in FwTasks : u # t => task'[u] = task[u]
      /\ raced' \in BOOLEAN /\ (~raced' => ~raced /\ \A u \in FwTasks : task[u].pc = "idle")
      /\ UNCHANGED <<pm, pmNvs, rules, rulesNvs, rt, lwip, installed, mgr, cb, queued, addr, fwdSta, gotIp,
                     failed>>
  BY <1>1, <1>2, <1>3, Started DEF PortsInv
<1>5. PortsTyped' /\ FlagsTyped'
  BY <1>4 DEF PortsInv, PortsTyped, FlagsTyped
<1>6. RulesSound'
  BY <1>2, <1>4 DEF PortsInv, RulesSound, P!SoundRules, P!EnabledPorts
<1>7. TablesApart'
  BY <1>2, <1>4 DEF PortsInv, TablesApart, Apart, P!EnabledPorts
<1>8. AllKnown' /\ (ToRebuild \/ TableTrue)'
  BY <1>1, <1>4, KnownSame, StartedRebuilt
<1> QED
  BY <1>5, <1>6, <1>7, <1>8 DEF PortsInv

(* A task that starts nothing anew.                                        *)
LEMMA CheckCopyHolds ==
  ASSUME PortsInv, NEW t \in FwTasks, P!CheckCopy(t)
  PROVE  PortsInv'
<1>1. task[t].pc = "tnCheck"
      /\ UNCHANGED <<pm, pmNvs, rules, rulesNvs, rt, lwip, installed, mgr, cb, queued, addr, fwdSta, gotIp,
                     raced, failed>>
  BY DEF P!CheckCopy, P!tables, P!net, P!hist
<1>2. PICK next \in TaskRow :
        /\ task' = [task EXCEPT ![t] = next]
        /\ \/ next.pc = "tnStore" /\ next.rules = task[t].rules
              /\ P!SoundRules(next.rules) /\ Apart(next.rules, pm)
           \/ next.pc = "idle"
  <2>1. CASE P!SoundRules(task[t].rules) /\ P!PortmapFree(task[t].rules)
    <3>1. task' = [task EXCEPT ![t] = [task[t] EXCEPT !.pc = "tnStore"]]
      BY <2>1, AtPlace DEF P!CheckCopy, PortsInv, TaskPcs
    <3> QED
      <4> DEFINE moved == [task[t] EXCEPT !.pc = "tnStore"]
      <4>1. PortsTyped /\ "tnStore" \in TaskPcs
        BY DEF PortsInv, TaskPcs
      <4>2. moved \in TaskRow /\ moved.pc = "tnStore" /\ moved.rules = task[t].rules
        BY <4>1, AtPlace
      <4>3. P!SoundRules(task[t].rules) /\ Apart(task[t].rules, pm)
        BY <2>1 DEF P!PortmapFree, Apart
      <4> HIDE DEF moved
      <4>4. task' = [task EXCEPT ![t] = moved] /\ P!SoundRules(moved.rules) /\ Apart(moved.rules, pm)
        BY <3>1, <4>2, <4>3 DEF moved
      <4> QED
        BY <4>2, <4>4
  <2>2. CASE ~(P!SoundRules(task[t].rules) /\ P!PortmapFree(task[t].rules))
    <3>1. task' = [task EXCEPT ![t] = P!Idle]
      BY <2>2 DEF P!CheckCopy
    <3>2. P!Idle \in TaskRow /\ P!Idle.pc = "idle"
      BY NoRules DEF P!Idle, TaskRow, TaskPcs
    <3> QED
      BY <3>1, <3>2
  <2> QED
    BY <2>1, <2>2
<1>3. task' \in [FwTasks -> TaskRow] /\ task'[t] = next /\ \A u \in FwTasks : u # t => task'[u] = task[u]
  BY <1>2, Moved DEF PortsInv
<1>4. PortsTyped' /\ FlagsTyped'
  BY <1>1, <1>3 DEF PortsInv, PortsTyped, FlagsTyped
<1>5. RulesSound'
  BY <1>1, <1>2, <1>3 DEF PortsInv, RulesSound, P!SoundRules, P!EnabledPorts
<1>6. TablesApart'
  BY <1>1, <1>2, <1>3, Alone DEF PortsInv, TablesApart, Apart, P!EnabledPorts
<1>7. AllKnown' /\ (ToRebuild \/ TableTrue)'
  BY <1>1, <1>3, KnownSame, StartedRebuilt
<1> QED
  BY <1>4, <1>5, <1>6, <1>7 DEF PortsInv

LEMMA ClearPortmapHolds ==
  ASSUME PortsInv, NEW t \in FwTasks, P!ClearPortmap(t)
  PROVE  PortsInv'
<1> DEFINE next == [task[t] EXCEPT !.pc = "pmFill"]
<1>1. task[t].pc = "pmClear" /\ pm' = {} /\ task' = [task EXCEPT ![t].pc = "pmFill"]
      /\ UNCHANGED <<pmNvs, rules, rulesNvs, rt, lwip, installed, mgr, cb, queued, addr, fwdSta, gotIp,
                     raced, failed>>
  BY DEF P!ClearPortmap, P!net, P!hist
<1>2. next \in TaskRow /\ next.pc = "pmFill" /\ next.pm = task[t].pm /\ task' = [task EXCEPT ![t] = next]
  BY <1>1, AtPlace DEF PortsInv, TaskPcs
<1> HIDE DEF next
<1>3. task' \in [FwTasks -> TaskRow] /\ task'[t] = next /\ \A u \in FwTasks : u # t => task'[u] = task[u]
  BY <1>2, Moved DEF PortsInv
<1>4. PortsTyped' /\ FlagsTyped'
  BY <1>1, <1>3 DEF PortsInv, PortsTyped, FlagsTyped
<1>5. RulesSound'
  BY <1>1, <1>2, <1>3 DEF PortsInv, RulesSound, P!SoundRules, P!EnabledPorts
<1>6. TablesApart'
  BY <1>1, <1>2, <1>3, Alone DEF PortsInv, TablesApart, Apart, P!EnabledPorts
<1>7. AllKnown' /\ (ToRebuild \/ TableTrue)'
  BY <1>1, <1>3, KnownSame, StartedRebuilt
<1> QED
  BY <1>4, <1>5, <1>6, <1>7 DEF PortsInv

LEMMA FillPortmapHolds ==
  ASSUME PortsInv, NEW t \in FwTasks, P!FillPortmap(t)
  PROVE  PortsInv'
<1> DEFINE next == [task[t] EXCEPT !.pc = "pmStore"]
<1>1. task[t].pc = "pmFill" /\ pm' = task[t].pm /\ task' = [task EXCEPT ![t].pc = "pmStore"]
      /\ UNCHANGED <<pmNvs, rules, rulesNvs, rt, lwip, installed, mgr, cb, queued, addr, fwdSta, gotIp,
                     raced, failed>>
  BY DEF P!FillPortmap, P!net, P!hist
<1>2. next \in TaskRow /\ next.pc = "pmStore" /\ next.pm = task[t].pm /\ task' = [task EXCEPT ![t] = next]
  BY <1>1, AtPlace DEF PortsInv, TaskPcs
<1> HIDE DEF next
<1>3. task' \in [FwTasks -> TaskRow] /\ task'[t] = next /\ \A u \in FwTasks : u # t => task'[u] = task[u]
  BY <1>2, Moved DEF PortsInv
<1>4. PortsTyped' /\ FlagsTyped'
  BY <1>1, <1>2, <1>3 DEF PortsInv, PortsTyped, FlagsTyped, TaskRow
<1>5. RulesSound'
  BY <1>1, <1>2, <1>3 DEF PortsInv, RulesSound, P!SoundRules, P!EnabledPorts
<1>6. TablesApart'
  BY <1>1, <1>2, <1>3, Alone DEF PortsInv, TablesApart, Apart, P!EnabledPorts
<1>7. AllKnown' /\ (ToRebuild \/ TableTrue)'
  BY <1>1, <1>3, KnownSame, StartedRebuilt
<1> QED
  BY <1>4, <1>5, <1>6, <1>7 DEF PortsInv

LEMMA StorePortmapHolds ==
  ASSUME PortsInv, NEW t \in FwTasks, P!StorePortmap(t)
  PROVE  PortsInv'
<1>1. task[t].pc = "pmStore"
      /\ UNCHANGED <<pm, rules, rulesNvs, rt, lwip, installed, mgr, cb, queued, addr, fwdSta, gotIp, raced>>
  BY DEF P!StorePortmap, P!net
<1>2. PICK next \in TaskRow :
        /\ task' = [task EXCEPT ![t] = next]
        /\ \/ next.pc = "install" /\ pmNvs' = pm /\ failed' = failed
           \/ next.pc = "idle" /\ pmNvs' = pmNvs /\ failed' = TRUE
  <2>1. CASE pmNvs' = pm /\ task' = [task EXCEPT ![t].pc = "install"] /\ UNCHANGED failed
    BY <2>1, AtPlace DEF PortsInv, TaskPcs
  <2>2. CASE failed' = TRUE /\ task' = [task EXCEPT ![t] = P!Idle] /\ UNCHANGED pmNvs
    BY <2>2, AtPlace DEF PortsInv, TaskPcs
  <2> QED
    BY <2>1, <2>2 DEF P!StorePortmap
<1>3. task' \in [FwTasks -> TaskRow] /\ task'[t] = next /\ \A u \in FwTasks : u # t => task'[u] = task[u]
  BY <1>2, Moved DEF PortsInv
<1>4. PortsTyped' /\ FlagsTyped'
  BY <1>1, <1>2, <1>3 DEF PortsInv, PortsTyped, FlagsTyped
<1>5. RulesSound'
  BY <1>1, <1>2, <1>3 DEF PortsInv, RulesSound, P!SoundRules, P!EnabledPorts
<1>6. TablesApart'
  <2>1. CASE failed'
    BY <2>1 DEF TablesApart
  <2>2. CASE ~failed' /\ ~raced'
    <3>1. next.pc = "install" /\ pmNvs' = pm /\ ~failed /\ ~raced
      BY <1>1, <1>2, <2>2
    <3>2. rules = rulesNvs /\ Apart(rules, pm)
      BY <1>1, <3>1, Alone DEF PortsInv, TablesApart
    <3> QED
      BY <1>1, <1>3, <3>1, <3>2, Alone DEF PortsInv, TablesApart, Apart, P!EnabledPorts
  <2> QED
    BY <2>1, <2>2 DEF TablesApart
<1>7. AllKnown' /\ (ToRebuild \/ TableTrue)'
  BY <1>1, <1>3, KnownSame, StartedRebuilt
<1> QED
  BY <1>4, <1>5, <1>6, <1>7 DEF PortsInv

LEMMA StoreRulesHolds ==
  ASSUME PortsInv, NEW t \in FwTasks, P!StoreRules(t)
  PROVE  PortsInv'
<1>1. task[t].pc = "tnStore"
      /\ UNCHANGED <<pm, pmNvs, rules, rt, lwip, installed, mgr, cb, queued, addr, fwdSta, gotIp, raced>>
  BY DEF P!StoreRules, P!net
<1>2. PICK next \in TaskRow :
        /\ task' = [task EXCEPT ![t] = next]
        /\ \/ next.pc = "tnLock" /\ next.rules = task[t].rules /\ rulesNvs' = task[t].rules /\ failed' = failed
           \/ next.pc = "idle" /\ rulesNvs' = rulesNvs /\ failed' = TRUE
  <2>1. CASE rulesNvs' = task[t].rules /\ task' = [task EXCEPT ![t].pc = "tnLock"] /\ UNCHANGED failed
    BY <2>1, AtPlace DEF PortsInv, TaskPcs
  <2>2. CASE failed' = TRUE /\ task' = [task EXCEPT ![t] = P!Idle] /\ UNCHANGED rulesNvs
    BY <2>2, AtPlace DEF PortsInv, TaskPcs
  <2> QED
    BY <2>1, <2>2 DEF P!StoreRules
<1>3. task' \in [FwTasks -> TaskRow] /\ task'[t] = next /\ \A u \in FwTasks : u # t => task'[u] = task[u]
  BY <1>2, Moved DEF PortsInv
<1>4. PortsTyped' /\ FlagsTyped'
  <2>1. PortsTyped /\ FlagsTyped
    BY DEF PortsInv
  <2>2. task[t].rules \in FwTables
    BY <2>1 DEF PortsTyped, TaskRow
  <2>3. rulesNvs' \in FwTables
    BY <1>2, <2>1, <2>2 DEF PortsTyped
  <2>4. PortsTyped'
    BY <1>1, <1>3, <2>1, <2>3 DEF PortsTyped
  <2>5. failed' \in BOOLEAN
    <3>1. failed \in BOOLEAN
      BY <2>1 DEF FlagsTyped
    <3>2. failed' = failed \/ failed' = TRUE
      BY <1>2
    <3> QED
      BY <3>1, <3>2
  <2>6. FlagsTyped'
    BY <1>1, <2>1, <2>5 DEF FlagsTyped
  <2> QED
    BY <2>4, <2>6
<1>5. RulesSound'
  BY <1>1, <1>2, <1>3 DEF PortsInv, RulesSound, P!SoundRules, P!EnabledPorts
<1>6. TablesApart'
  <2>1. CASE failed'
    BY <2>1 DEF TablesApart
  <2>2. CASE ~failed' /\ ~raced'
    <3>1. next.pc = "tnLock" /\ rulesNvs' = task[t].rules /\ next.rules = task[t].rules /\ ~failed /\ ~raced
      BY <1>1, <1>2, <2>2
    <3>2. pm = pmNvs /\ Apart(task[t].rules, pm)
      BY <1>1, <3>1, Alone DEF PortsInv, TablesApart
    <3> QED
      BY <1>1, <1>3, <3>1, <3>2, Alone DEF PortsInv, TablesApart, Apart, P!EnabledPorts
  <2> QED
    BY <2>1, <2>2 DEF TablesApart
<1>7. AllKnown' /\ (ToRebuild \/ TableTrue)'
  BY <1>1, <1>3, KnownSame, StartedRebuilt
<1> QED
  BY <1>4, <1>5, <1>6, <1>7 DEF PortsInv

LEMMA LockRulesHolds ==
  ASSUME PortsInv, NEW t \in FwTasks, P!LockRules(t)
  PROVE  PortsInv'
<1> DEFINE next == [task[t] EXCEPT !.pc = "install"]
<1>1. task[t].pc = "tnLock" /\ rules' = task[t].rules /\ task' = [task EXCEPT ![t].pc = "install"]
      /\ rt' = [i \in DOMAIN rules' |-> P!Resolved(rules'[i], P!Unresolved)]
      /\ UNCHANGED <<pm, pmNvs, rulesNvs, lwip, installed, mgr, cb, queued, addr, fwdSta, gotIp, raced, failed>>
  BY DEF P!LockRules, P!net, P!hist
<1>2. next \in TaskRow /\ next.pc = "install" /\ task' = [task EXCEPT ![t] = next]
  BY <1>1, AtPlace DEF PortsInv, TaskPcs
<1> HIDE DEF next
<1>3. task' \in [FwTasks -> TaskRow] /\ task'[t] = next /\ \A u \in FwTasks : u # t => task'[u] = task[u]
  BY <1>2, Moved DEF PortsInv
<1>4. task[t] \in TaskRow /\ addr \in {"none"} \cup Addrs
  BY DEF PortsInv, PortsTyped
<1>5. rules' \in FwTables
  BY <1>1, <1>4 DEF TaskRow
<1>6. \A r : P!Resolved(r, P!Unresolved) \in RtRow
  BY <1>4 DEF P!Resolved, P!Unresolved, RtRow
<1>7. rt' \in [DOMAIN rules' -> RtRow]
  BY <1>1, <1>6
<1>8. PortsTyped' /\ FlagsTyped'
  BY <1>1, <1>3, <1>5, <1>7 DEF PortsInv, PortsTyped, FlagsTyped
<1>9. RulesSound'
  BY <1>1, <1>2, <1>3 DEF PortsInv, RulesSound, P!SoundRules, P!EnabledPorts
<1>10. TablesApart'
  BY <1>1, <1>2, <1>3, Alone DEF PortsInv, TablesApart, Apart, P!EnabledPorts
<1>11. AllKnown'
  BY <1>1, KnownSame
<1>12. ToRebuild'
  BY <1>2, <1>3 DEF ToRebuild
<1> QED
  BY <1>8, <1>9, <1>10, <1>11, <1>12 DEF PortsInv

LEMMA InstallHolds ==
  ASSUME PortsInv, NEW t \in FwTasks, P!Install(t)
  PROVE  PortsInv'
<1>1. task[t].pc = "install" /\ task' = [task EXCEPT ![t] = P!Idle] /\ queued' = queued + 1
      /\ UNCHANGED <<pm, pmNvs, rules, rulesNvs, rt, lwip, installed, mgr, cb, addr, fwdSta, gotIp, raced,
                     failed>>
  BY DEF P!Install, P!tables, P!net, P!hist
<1>2. P!Idle \in TaskRow /\ P!Idle.pc = "idle"
  BY NoRules DEF P!Idle, TaskRow, TaskPcs
<1>3. task' \in [FwTasks -> TaskRow] /\ task'[t] = P!Idle /\ \A u \in FwTasks : u # t => task'[u] = task[u]
  BY <1>1, <1>2, Moved DEF PortsInv
<1>4. queued' \in Nat /\ queued' > 0
  BY <1>1 DEF PortsInv, PortsTyped
<1>5. PortsTyped' /\ FlagsTyped'
  BY <1>1, <1>3, <1>4 DEF PortsInv, PortsTyped, FlagsTyped
<1>6. RulesSound'
  BY <1>1, <1>2, <1>3 DEF PortsInv, RulesSound, P!SoundRules, P!EnabledPorts
<1>7. TablesApart'
  BY <1>1, <1>2, <1>3, Alone DEF PortsInv, TablesApart, Apart, P!EnabledPorts
<1>8. AllKnown'
  BY <1>1, KnownSame
<1> QED
  BY <1>4, <1>5, <1>6, <1>7, <1>8 DEF PortsInv, ToRebuild

LEMMA TaskStepHolds ==
  ASSUME PortsInv, NEW t \in FwTasks, P!TaskStep(t)
  PROVE  PortsInv'
<1>1. CASE \E S \in SUBSET FwdPorts : P!SetPortmap(t, S)
  BY <1>1, SetPortmapHolds
<1>2. CASE \E rs \in P!Tables(MaxRules) : P!SetRules(t, rs)
  BY <1>2, SetRulesHolds DEF FwTables
<1>3. CASE \E i \in 1..MaxRules : P!CopyRules(t, i)
  BY <1>3, CopyRulesHolds
<1>4. CASE P!CheckCopy(t) \/ P!ClearPortmap(t) \/ P!FillPortmap(t) \/ P!StorePortmap(t)
  BY <1>4, CheckCopyHolds, ClearPortmapHolds, FillPortmapHolds, StorePortmapHolds
<1>5. CASE P!StoreRules(t) \/ P!LockRules(t) \/ P!Install(t)
  BY <1>5, StoreRulesHolds, LockRulesHolds, InstallHolds
<1> QED
  BY <1>1, <1>2, <1>3, <1>4, <1>5 DEF P!TaskStep

(* The steps that leave the tables of both components and the tasks alone. *)
LEMMA TablesStay ==
  ASSUME PortsInv, UNCHANGED <<pm, pmNvs, rules, rulesNvs, task, raced, failed>>
  PROVE  RulesSound' /\ TablesApart'
BY DEF PortsInv, RulesSound, TablesApart, Apart, P!SoundRules, P!EnabledPorts

LEMMA ManagerResolveHolds ==
  ASSUME PortsInv, P!ManagerResolve
  PROVE  PortsInv'
<1>1. /\ mgr = "sleep" /\ rt' = [i \in DOMAIN rt |-> P!Resolved(rules[i], rt[i])]
      /\ mgr' = (IF P!ManagerChanged(rt') THEN "install" ELSE "sleep")
      /\ UNCHANGED <<pm, pmNvs, rules, rulesNvs, lwip, installed, task, cb, queued, addr, fwdSta, gotIp, raced,
                     failed>>
  BY DEF P!ManagerResolve, P!net, P!hist
<1>2. rt \in [DOMAIN rules -> RtRow] /\ addr \in {"none"} \cup Addrs
  BY DEF PortsInv, PortsTyped
<1>3. \A i \in DOMAIN rt : P!Resolved(rules[i], rt[i]) \in RtRow
  BY <1>2 DEF P!Resolved, RtRow
<1>4. rt' \in [DOMAIN rules -> RtRow]
  BY <1>1, <1>2, <1>3
<1>5. PortsTyped' /\ FlagsTyped'
  BY <1>1, <1>4 DEF PortsInv, PortsTyped, FlagsTyped
<1>6. RulesSound' /\ TablesApart' /\ AllKnown'
  BY <1>1, TablesStay, KnownSame
<1>7. (ToRebuild \/ TableTrue)'
  <2>1. CASE ToRebuild
    BY <1>1, <2>1 DEF ToRebuild
  <2>2. CASE mgr' = "install"
    BY <2>2 DEF ToRebuild
  <2>3. CASE TableTrue /\ mgr' # "install"
    <3>1. \A i \in DOMAIN rules : rt'[i].addr = rt[i].addr
      BY <1>1, <1>2, <2>3 DEF P!ManagerChanged
    <3>2. \A i \in DOMAIN rules : rt'[i].installed => rt[i].installed
      BY <1>1, <1>2 DEF P!Resolved
    <3> QED
      BY <1>1, <2>3, <3>1, <3>2 DEF TableTrue, InTable, P!Filtered
  <2> QED
    BY <2>1, <2>2, <2>3 DEF PortsInv
<1> QED
  BY <1>5, <1>6, <1>7 DEF PortsInv

LEMMA CbBeginHolds ==
  ASSUME PortsInv, P!CbBegin
  PROVE  PortsInv'
<1>1. /\ cb.pc = "idle" /\ queued > 0 /\ queued' = queued - 1
      /\ UNCHANGED <<pm, pmNvs, rules, rulesNvs, task, mgr, addr, fwdSta, gotIp, raced, failed>>
  BY DEF P!CbBegin, P!net, P!hist
<1>2. queued' \in Nat
  BY <1>1 DEF PortsInv, PortsTyped
<1>3. RulesSound' /\ TablesApart'
  BY <1>1, TablesStay
<1>4. CASE ~fwdSta
  <2>1. UNCHANGED <<lwip, installed, rt, cb>>
    BY <1>4 DEF P!CbBegin
  <2>2. PortsTyped' /\ FlagsTyped' /\ AllKnown' /\ ToRebuild'
    BY <1>1, <1>2, <1>4, <2>1, KnownSame DEF PortsInv, PortsTyped, FlagsTyped, ToRebuild
  <2> QED
    BY <1>3, <2>2 DEF PortsInv
<1>5. CASE fwdSta
  <2>1. /\ lwip' = P!Fill(P!Removed(lwip), pm) /\ installed' = {p \in pm : lwip'[p] = "lan"}
        /\ rt' = [i \in DOMAIN rt |-> [rt[i] EXCEPT !.installed = FALSE]]
        /\ cb' = [pc |-> "map", i |-> 1, ok |-> FALSE]
    BY <1>5 DEF P!CbBegin
  <2>2. \A p \in FwdPorts : P!Removed(lwip)[p] = "none"
    BY DEF PortsInv, AllKnown, P!Removed
  <2>3. pm \in SUBSET FwdPorts /\ rt \in [DOMAIN rules -> RtRow]
    BY DEF PortsInv, PortsTyped
  <2>4. /\ lwip' \in [FwdPorts -> {"none", "lan"} \cup Addrs]
        /\ \A p \in FwdPorts : lwip'[p] # "none" => p \in pm /\ lwip'[p] = "lan"
    BY <2>1, <2>2, <2>3, FilledFacts
  <2>5. rt' \in [DOMAIN rules -> RtRow] /\ \A i \in DOMAIN rules : ~rt'[i].installed
    BY <2>1, <2>3 DEF RtRow
  <2>6. PortsTyped' /\ FlagsTyped'
    BY <1>1, <1>2, <2>1, <2>3, <2>4, <2>5 DEF PortsInv, PortsTyped, FlagsTyped
  <2>7. AllKnown'
    BY <2>1, <2>4 DEF AllKnown
  <2>8. TableTrue'
    BY <1>1, <2>1, <2>4, <2>5, PortsAssumption DEF TableTrue
  <2> QED
    BY <1>3, <2>6, <2>7, <2>8 DEF PortsInv
<1> QED
  BY <1>4, <1>5

LEMMA CbMapHolds ==
  ASSUME PortsInv, P!CbMap
  PROVE  PortsInv'
<1>1. cb.pc = "map"
      /\ UNCHANGED <<pm, pmNvs, rules, rulesNvs, rt, task, mgr, queued, addr, fwdSta, gotIp, raced, failed>>
  BY DEF P!CbMap, P!tables, P!net, P!hist
<1>2. RulesSound' /\ TablesApart'
  BY <1>1, TablesStay
<1>3. ToRebuild => ToRebuild'
  BY <1>1 DEF ToRebuild
<1>4. cb.i \in Nat /\ rules \in FwTables /\ rt \in [DOMAIN rules -> RtRow]
  BY DEF PortsInv, PortsTyped
<1>5. CASE cb' = P!Waiting /\ UNCHANGED <<lwip, installed>>
  <2>1. cb'.pc = "idle" /\ cb' \in [pc : {"idle", "map", "mark"}, i : Nat, ok : BOOLEAN]
    BY <1>5 DEF P!Waiting
  <2>2. PortsTyped' /\ FlagsTyped' /\ AllKnown'
    BY <1>1, <1>5, <2>1, KnownSame DEF PortsInv, PortsTyped, FlagsTyped
  <2>3. TableTrue => TableTrue'
    BY <1>1, <1>5, <2>1 DEF TableTrue, InTable, P!Filtered
  <2> QED
    BY <1>2, <1>3, <2>2, <2>3 DEF PortsInv
<1>6. CASE cb' = [cb EXCEPT !.i = @ + 1] /\ UNCHANGED <<lwip, installed>>
  <2>1. cb'.pc = "map" /\ cb' \in [pc : {"idle", "map", "mark"}, i : Nat, ok : BOOLEAN]
    BY <1>1, <1>6 DEF PortsInv, PortsTyped
  <2>2. PortsTyped' /\ FlagsTyped' /\ AllKnown'
    BY <1>1, <1>6, <2>1, KnownSame DEF PortsInv, PortsTyped, FlagsTyped
  <2>3. TableTrue => TableTrue'
    BY <1>1, <1>6, <2>1 DEF TableTrue, InTable, P!Filtered
  <2> QED
    BY <1>2, <1>3, <2>2, <2>3 DEF PortsInv
<1>7. CASE ~(cb.i > MaxRules) /\ P!Mapped(cb.i)
  <2> DEFINE p == rules[cb.i].port
             ok == P!Room(lwip, p)
  <2>1. /\ lwip' = (IF ok THEN [lwip EXCEPT ![p] = rt[cb.i].addr] ELSE lwip)
        /\ installed' = (IF ok THEN installed \cup {p} ELSE installed)
        /\ cb' = [cb EXCEPT !.pc = "mark", !.ok = ok]
    BY <1>7 DEF P!CbMap
  <2>2. ok \in BOOLEAN
    BY DEF P!Room
  <2>3. cb.i \in DOMAIN rules /\ rules[cb.i].on /\ rt[cb.i].addr # "none"
    BY <1>7 DEF P!Mapped
  <2>4. p \in FwdPorts /\ rt[cb.i].addr \in Addrs
    <3>1. p \in FwdPorts
      BY <1>4, <2>3, TableFacts
    <3>2. rt[cb.i].addr \in Addrs
      BY <1>4, <2>3 DEF RtRow
    <3> QED
      BY <3>1, <3>2
  <2> HIDE DEF ok
  <2>5. /\ cb'.pc = "mark" /\ cb'.i = cb.i /\ cb'.ok = ok
        /\ cb' \in [pc : {"idle", "map", "mark"}, i : Nat, ok : BOOLEAN]
    BY <2>1, <2>2 DEF PortsInv, PortsTyped
  <2>6. PortsTyped' /\ FlagsTyped' /\ AllKnown'
    BY <1>1, <2>1, <2>4, <2>5 DEF PortsInv, PortsTyped, FlagsTyped, AllKnown
  <2>7. ASSUME TableTrue PROVE TableTrue'
    <3>1. CASE ok
      <4>1. \A q \in FwdPorts : lwip'[q] = IF q = p THEN rt[cb.i].addr ELSE lwip[q]
        BY <2>1, <3>1 DEF PortsInv, PortsTyped
      <4>2. \A q \in FwdPorts : lwip'[q] \in Addrs => P!Filtered(q)'
        BY <1>1, <2>3, <2>7, <4>1 DEF TableTrue, P!Filtered
      <4>0. PICK k : k = cb.i
        OBVIOUS
      <4>3. InTable(k)'
        BY <1>1, <2>3, <2>4, <4>0, <4>1 DEF InTable
      <4>4. ASSUME NEW j \in DOMAIN rules, rt[j].installed PROVE InTable(j)'
        <5>1. InTable(j) /\ rules[j].port \in FwdPorts
          BY <1>4, <2>7, <4>4, TableFacts DEF TableTrue
        <5>2. CASE rules[j].port = p
          <6>1. j = k
            BY <2>3, <4>0, <5>1, <5>2 DEF PortsInv, RulesSound, P!SoundRules, InTable
          <6> QED
            BY <4>3, <6>1
        <5>3. CASE rules[j].port # p
          BY <1>1, <4>1, <5>1, <5>3 DEF InTable
        <5> QED
          BY <5>2, <5>3
      <4> QED
        BY <1>1, <2>5, <4>0, <4>2, <4>3, <4>4 DEF TableTrue
    <3>2. CASE ~ok
      BY <1>1, <2>1, <2>5, <2>7, <3>2 DEF TableTrue, InTable, P!Filtered
    <3> QED
      BY <2>2, <3>1, <3>2
  <2> QED
    BY <1>2, <1>3, <2>6, <2>7 DEF PortsInv
<1> QED
  BY <1>5, <1>6, <1>7 DEF P!CbMap

LEMMA CbMarkHolds ==
  ASSUME PortsInv, P!CbMark
  PROVE  PortsInv'
<1>1. /\ cb.pc = "mark"
      /\ rt' = [i \in DOMAIN rt |-> IF i = cb.i THEN [rt[i] EXCEPT !.installed = cb.ok] ELSE rt[i]]
      /\ cb' = [pc |-> "map", i |-> cb.i + 1, ok |-> FALSE]
      /\ UNCHANGED <<pm, pmNvs, rules, rulesNvs, lwip, installed, task, mgr, queued, addr, fwdSta, gotIp, raced,
                     failed>>
  BY DEF P!CbMark, P!net, P!hist
<1>2. RulesSound' /\ TablesApart' /\ AllKnown'
  BY <1>1, TablesStay, KnownSame
<1>3. ToRebuild => ToRebuild'
  BY <1>1 DEF ToRebuild
<1>4. cb.i \in Nat /\ cb.ok \in BOOLEAN /\ rt \in [DOMAIN rules -> RtRow]
  BY DEF PortsInv, PortsTyped
<1>5. /\ rt' \in [DOMAIN rules -> RtRow]
      /\ \A i \in DOMAIN rules : rt'[i].addr = rt[i].addr
                                 /\ rt'[i].installed = IF i = cb.i THEN cb.ok ELSE rt[i].installed
  BY <1>1, <1>4 DEF RtRow
<1>6. PortsTyped' /\ FlagsTyped'
  BY <1>1, <1>4, <1>5 DEF PortsInv, PortsTyped, FlagsTyped
<1>7. TableTrue => TableTrue'
  BY <1>1, <1>5 DEF TableTrue, InTable, P!Filtered
<1> QED
  BY <1>2, <1>3, <1>6, <1>7 DEF PortsInv

LEMMA BootHolds ==
  ASSUME PortsInv, P!Boot
  PROVE  PortsInv'
<1>1. /\ pm' = pmNvs /\ rules' = rulesNvs /\ rt' = [i \in DOMAIN rulesNvs |-> P!Unresolved]
      /\ lwip' = [p \in FwdPorts |-> "none"] /\ installed' = {}
      /\ task' = [t \in FwTasks |-> P!Idle] /\ mgr' = "sleep" /\ addr' = "none"
      /\ cb' = P!Waiting /\ queued' = 0 /\ fwdSta' = FALSE /\ gotIp' = FALSE
      /\ UNCHANGED <<pmNvs, rulesNvs, raced, failed>>
  BY DEF P!Boot, FwTasks
<1>2. P!Idle \in TaskRow /\ P!Idle.pc = "idle"
  BY NoRules DEF P!Idle, TaskRow, TaskPcs
<1>3. P!Unresolved \in RtRow /\ P!Waiting \in [pc : {"idle", "map", "mark"}, i : Nat, ok : BOOLEAN]
  BY DEF P!Unresolved, P!Waiting, RtRow
<1>4. PortsTyped' /\ FlagsTyped'
  BY <1>1, <1>2, <1>3 DEF PortsInv, PortsTyped, FlagsTyped
<1>5. RulesSound'
  BY <1>1, <1>2 DEF PortsInv, RulesSound, P!SoundRules, P!EnabledPorts
<1>6. TablesApart'
  BY <1>1, <1>2 DEF PortsInv, TablesApart, Apart, P!EnabledPorts
<1>7. AllKnown' /\ ToRebuild'
  BY <1>1 DEF AllKnown, ToRebuild
<1> QED
  BY <1>4, <1>5, <1>6, <1>7 DEF PortsInv

(* The other steps alter no table: the manager posts a callback, the       *)
(* tailnet's address and the station's come and go.                        *)
LEMMA WorldHolds ==
  ASSUME PortsInv,
         \/ P!ManagerInstall \/ P!AddrChange \/ P!StaDown \/ P!StaUp \/ P!GotIp
         \/ UNCHANGED <<pm, pmNvs, rules, rulesNvs, rt, lwip, installed, task, mgr, addr, cb, queued, fwdSta,
                        gotIp, raced, failed>>
  PROVE  PortsInv'
<1>1. UNCHANGED <<pm, pmNvs, rules, rulesNvs, rt, lwip, installed, task, cb, raced, failed>>
  BY DEF P!ManagerInstall, P!AddrChange, P!StaDown, P!StaUp, P!GotIp, P!tables, P!net, P!hist
<1>2. mgr' \in {"sleep", "install"} /\ addr' \in {"none"} \cup Addrs /\ fwdSta' \in BOOLEAN /\ gotIp' \in BOOLEAN
  BY DEF PortsInv, PortsTyped, FlagsTyped, P!ManagerInstall, P!AddrChange, P!StaDown, P!StaUp, P!GotIp, P!tables,
         P!net, P!hist
<1>3. queued' \in Nat /\ (ToRebuild => ToRebuild')
  <2>1. queued \in Nat
    BY DEF PortsInv, PortsTyped
  <2>2. CASE P!ManagerInstall \/ P!GotIp
    <3>1. queued' = queued + 1
      BY <2>2 DEF P!ManagerInstall, P!GotIp
    <3> QED
      BY <2>1, <3>1 DEF ToRebuild
  <2>3. CASE P!AddrChange \/ P!StaDown \/ P!StaUp
    <3>1. UNCHANGED <<task, queued, mgr>> /\ (gotIp => gotIp') /\ (~fwdSta => ~fwdSta' \/ gotIp')
      BY <2>3 DEF P!AddrChange, P!StaDown, P!StaUp, P!net, FlagsTyped, PortsInv
    <3> QED
      BY <2>1, <3>1 DEF ToRebuild
  <2>4. CASE UNCHANGED <<task, queued, mgr, gotIp, fwdSta>>
    BY <2>1, <2>4 DEF ToRebuild
  <2> QED
    BY <2>2, <2>3, <2>4
<1>4. PortsTyped' /\ FlagsTyped'
  BY <1>1, <1>2, <1>3 DEF PortsInv, PortsTyped, FlagsTyped
<1> QED
  BY <1>1, <1>3, <1>4, TablesStay, KnownSame, Rebuilt DEF PortsInv

LEMMA PortsBegin == P!Init => PortsInv
<1> SUFFICES ASSUME P!Init PROVE PortsInv
  OBVIOUS
<1>1. /\ pm = {} /\ pmNvs = {} /\ rules = <<>> /\ rulesNvs = <<>> /\ rt = <<>>
      /\ lwip = [p \in FwdPorts |-> "none"] /\ installed = {} /\ task = [t \in FwTasks |-> P!Idle]
      /\ mgr = "sleep" /\ addr \in {"none"} \cup Addrs /\ cb = P!Waiting /\ queued = 0
      /\ fwdSta \in BOOLEAN /\ gotIp = FALSE /\ raced = FALSE /\ failed = FALSE
  BY DEF P!Init, FwTasks
<1>2. P!Idle \in TaskRow /\ P!Idle.pc = "idle"
  BY NoRules DEF P!Idle, TaskRow, TaskPcs
<1>3. P!Waiting \in [pc : {"idle", "map", "mark"}, i : Nat, ok : BOOLEAN] /\ P!Waiting.pc = "idle"
  BY DEF P!Waiting
<1>4. <<>> \in [DOMAIN <<>> -> RtRow]
  BY NoRules
<1>5. PortsTyped /\ FlagsTyped
  BY <1>1, <1>2, <1>3, <1>4, NoRules DEF PortsTyped, FlagsTyped
<1>6. RulesSound /\ TablesApart
  BY <1>1, <1>2, NoRules DEF RulesSound, TablesApart, Apart, P!SoundRules
<1>7. AllKnown /\ TableTrue
  BY <1>1, <1>3, NoRules, PortsAssumption DEF AllKnown, TableTrue
<1> QED
  BY <1>5, <1>6, <1>7 DEF PortsInv

LEMMA PortsSuffice == PortsInv => P!PortsHold
<1> SUFFICES ASSUME PortsInv PROVE P!PortsHold
  OBVIOUS
<1>1. P!MappingsGuarded
  <2> SUFFICES ASSUME P!Quiet, fwdSta
               PROVE  /\ \A p \in FwdPorts : lwip[p] \in Addrs => P!Filtered(p)
                      /\ \A i \in DOMAIN rt : rt[i].installed => lwip[rules[i].port] = rt[i].addr
    BY DEF P!MappingsGuarded
  <2>1. ~ToRebuild
    BY DEF P!Quiet, ToRebuild, FwTasks
  <2>2. DOMAIN rt = DOMAIN rules /\ TableTrue
    BY <2>1 DEF PortsInv, PortsTyped
  <2> QED
    BY <2>2 DEF TableTrue, InTable
<1>2. P!NoPortTwice
  BY DEF PortsInv, TablesApart, Apart, P!NoPortTwice
<1> QED
  BY <1>1, <1>2 DEF P!PortsHold

(* The forwarded ports: with nobody editing and no rebuild to come, lwIP   *)
(* forwards into the tailnet only where an enabled rule filters and a rule *)
(* lets packets in only when its mapping is in the table; edits that do    *)
(* not overlap put no port in both tables.  For any ports, addresses,      *)
(* number of rules and size of lwIP's table.                               *)
THEOREM PortsStay == ApSpec => []PortsHold
<1>1. ApInit => PortsInv
  BY PortsBegin DEF ApInit
<1>2. PortsInv /\ [ApNext]_<<running, vars, av, dv, fv, pv, xv, rv>> => PortsInv'
  <2> SUFFICES ASSUME PortsInv, [ApNext]_<<running, vars, av, dv, fv, pv, xv, rv>> PROVE PortsInv'
    OBVIOUS
  <2>1. CASE P!Next
    <3>1. CASE \E t \in FwTasks : P!TaskStep(t)
      BY <3>1, TaskStepHolds
    <3>2. CASE P!ManagerResolve \/ P!CbBegin \/ P!CbMap \/ P!CbMark
      BY <3>2, ManagerResolveHolds, CbBeginHolds, CbMapHolds, CbMarkHolds
    <3>3. CASE P!ManagerInstall \/ P!AddrChange \/ P!StaDown \/ P!StaUp \/ P!GotIp
      BY <3>3, WorldHolds
    <3>4. CASE P!Boot
      BY <3>4, BootHolds
    <3> QED
      BY <2>1, <3>1, <3>2, <3>3, <3>4 DEF P!Next, FwTasks
  <2>2. CASE UNCHANGED pv
    BY <2>2, WorldHolds DEF pv
  <2> QED
    BY <2>1, <2>2 DEF ApNext
<1>3. PortsInv => PortsHold
  BY PortsSuffice DEF PortsHold
<1> QED
  BY <1>1, <1>2, <1>3, PTL DEF ApSpec
=============================================================================
