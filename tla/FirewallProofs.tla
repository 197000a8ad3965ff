--------------------------- MODULE FirewallProofs ---------------------------
(* Proofs about Firewall, for any lists, rules and packets: the slots stay *)
(* without holes, in the tables and in NVS; and where NVS takes every blob *)
(* a save that answered ok has saved the rules in force.                   *)
EXTENDS Firewall, SequenceTheorems, WellFoundedInduction, TLAPS

Entries == [rule : Rules \cup {NoRule}, hits : Nat]
Tables == [Lists -> [Slots -> Entries]]
Places == {"idle", "snapshot", "blob", "commit"}

TypeInv ==
  /\ acl \in Tables /\ stored \in Tables
  /\ web.pc \in Places /\ web.snapshot \in Tables /\ web.next \in Nat

(* No valid slot after a free one.                                         *)
Whole(list) == \A i, j \in Slots : i < j /\ Valid(list[j]) => Valid(list[i])
WholeInv == \A l \in Lists : Whole(acl[l]) /\ Whole(stored[l]) /\ Whole(web.snapshot[l])

(* The same rules; hits are counted on while a save is under way.          *)
Same(a, b, l) == \A i \in Slots : a[l][i].rule = b[l][i].rule

(* How far a save has come when every blob is taken.                       *)
SavedInv ==
  /\ web.pc = "blob" => /\ \A l \in Lists : Same(web.snapshot, acl, l)
                        /\ web.next \in 1..Len(Names)
                        /\ \A k \in 1 .. web.next - 1 : Same(stored, web.snapshot, Names[k])
  /\ web.pc = "commit" => \A l \in Lists : Same(stored, acl, l)
  /\ web.answer = "ok" => web.pc = "idle" /\ \A l \in Lists : Same(stored, acl, l)

-----------------------------------------------------------------------------
LEMMA EmptyFacts ==
  /\ NoEntry \in Entries /\ EmptyTables \in Tables
  /\ \A l \in Lists : EmptyTables[l] = EmptyList /\ Whole(EmptyList)
<1>1. NoEntry \in Entries /\ ~Valid(NoEntry)
  BY DEF NoEntry, Entries, Valid
<1>2. EmptyList \in [Slots -> Entries] /\ \A i \in Slots : ~Valid(EmptyList[i])
  BY <1>1 DEF EmptyList
<1> QED
  BY <1>1, <1>2 DEF EmptyTables, Tables, Whole

(* What a step does to the handler's record.                               *)
LEMMA WebFields ==
  ASSUME NEW pc, NEW table, NEW n, NEW a
  PROVE  /\ Saving(pc, table, n).pc = pc /\ Saving(pc, table, n).snapshot = table
         /\ Saving(pc, table, n).next = n /\ Saving(pc, table, n).answer = "none"
         /\ Done(a).pc = "idle" /\ Done(a).snapshot = EmptyTables
         /\ Done(a).next = 1 /\ Done(a).answer = a
  BY DEF Saving, Done

LEMMA TypeInit == Init => TypeInv /\ WholeInv /\ SavedInv
<1> SUFFICES ASSUME Init PROVE TypeInv /\ WholeInv /\ SavedInv
  OBVIOUS
<1>1. /\ acl = EmptyTables /\ stored = EmptyTables
      /\ web.pc = "idle" /\ web.snapshot = EmptyTables /\ web.next = 1 /\ web.answer = "none"
  BY WebFields DEF Init
<1> QED
  BY <1>1, EmptyFacts DEF TypeInv, WholeInv, SavedInv, Places

-----------------------------------------------------------------------------
(* A packet changes hits only.                                             *)
LEMMA CheckFacts ==
  ASSUME NEW l \in Lists, NEW p \in Packets, TypeInv, Check(l, p)
  PROVE  /\ acl' \in Tables /\ UNCHANGED <<stored, web>>
         /\ \A m \in Lists, k \in Slots : acl'[m][k].rule = acl[m][k].rule
<1>1. UNCHANGED <<stored, web>>
  BY DEF Check
<1>2. CASE acl' = acl
  BY <1>1, <1>2 DEF TypeInv
<1>3. ASSUME NEW i, acl' = [acl EXCEPT ![l] = Counted(acl[l], i)]
      PROVE  acl' \in Tables /\ \A m \in Lists, k \in Slots : acl'[m][k].rule = acl[m][k].rule
  <2> DEFINE hit == [rule |-> acl[l][i].rule, hits |-> acl[l][i].hits + 1]
  <2>1. Counted(acl[l], i) = [acl[l] EXCEPT ![i] = hit]
    BY DEF Counted
  <2>2. i \in Slots => hit \in Entries /\ hit.rule = acl[l][i].rule
    BY DEF TypeInv, Tables, Entries
  <2> HIDE DEF hit
  <2>3. acl' \in Tables
    <3>1. Counted(acl[l], i) \in [Slots -> Entries]
      <4>1. acl[l] \in [Slots -> Entries]
        BY DEF TypeInv, Tables
      <4>2. \A list \in [Slots -> Entries] :
              (i \in Slots => hit \in Entries) => [list EXCEPT ![i] = hit] \in [Slots -> Entries]
        OBVIOUS
      <4> QED
        BY <2>1, <2>2, <4>1, <4>2
    <3> QED
      BY <1>3, <3>1 DEF TypeInv, Tables
  <2>4. \A m \in Lists, k \in Slots :
          acl'[m][k] = IF m = l /\ k = i THEN hit ELSE acl[m][k]
    BY <1>3, <2>1 DEF TypeInv, Tables
  <2> QED
    BY <2>2, <2>3, <2>4
<1>4. CASE Deciding(l, p) = 0
  BY <1>1, <1>2, <1>4 DEF Check
<1>5. CASE Deciding(l, p) # 0
  <2> DEFINE i == Deciding(l, p)
  <2>1. acl' = [acl EXCEPT ![l] = Counted(acl[l], i)]
    BY <1>5 DEF Check
  <2> HIDE DEF i
  <2> QED
    BY <1>1, <1>3, <2>1
<1> QED
  BY <1>4, <1>5

(* An edit alters one list and starts a save.                              *)
LEMMA EditFacts ==
  ASSUME Edit
  PROVE  /\ web.pc = "idle" /\ stored' = stored
         /\ web'.pc = "snapshot" /\ web'.snapshot = EmptyTables /\ web'.next = 1
         /\ web'.answer = "none"
  BY WebFields DEF Edit

LEMMA AddFacts ==
  ASSUME NEW l \in Lists, NEW r \in Rules, NoRule \notin Rules, TypeInv, WholeInv, Add(l, r)
  PROVE  acl' \in Tables /\ \A m \in Lists : Whole(acl'[m])
<1> DEFINE e == [rule |-> r, hits |-> 0]
<1>1. PICK i \in Slots : /\ ~Valid(acl[l][i])
                         /\ \A j \in 1 .. i - 1 : Valid(acl[l][j])
                         /\ acl' = [acl EXCEPT ![l] = [acl[l] EXCEPT ![i] = e]]
  BY DEF Add
<1>2. e \in Entries /\ Valid(e)
  BY DEF Entries, Valid
<1> HIDE DEF e
<1>3. acl' \in Tables
  BY <1>1, <1>2 DEF TypeInv, Tables
<1>4. Whole(acl'[l])
  <2>1. \A k \in Slots : acl'[l][k] = IF k = i THEN e ELSE acl[l][k]
    BY <1>1 DEF TypeInv, Tables
  <2>2. \A j \in Slots : j < i => Valid(acl[l][j])
    BY <1>1 DEF Slots
  <2>3. \A j \in Slots : i < j => ~Valid(acl[l][j])
    BY <1>1 DEF WholeInv, Whole
  <2> QED
    BY <1>2, <2>1, <2>2, <2>3 DEF Whole, Slots
<1>5. \A m \in Lists : m # l => acl'[m] = acl[m]
  BY <1>1 DEF TypeInv, Tables
<1> QED
  BY <1>3, <1>4, <1>5 DEF WholeInv

(* acl_delete moves the slots that follow up by one.                       *)
LEMMA DeleteFacts ==
  ASSUME NEW l \in Lists, NEW i \in Slots, MaxEntries \in Nat, TypeInv, WholeInv, Delete(l, i)
  PROVE  acl' \in Tables /\ \A m \in Lists : Whole(acl'[m])
<1>1. acl' = [acl EXCEPT ![l] = Compacted(acl[l], i)]
  BY DEF Delete
<1>2. Compacted(acl[l], i) \in [Slots -> Entries]
  <2>1. \A j \in Slots : j # MaxEntries => j + 1 \in Slots
    BY DEF Slots
  <2> QED
    BY <2>1, EmptyFacts DEF Compacted, TypeInv, Tables
<1>3. Whole(Compacted(acl[l], i))
  <2> DEFINE s == acl[l]
             c == Compacted(acl[l], i)
  <2>1. \A j \in Slots : c[j] = IF j < i THEN s[j] ELSE IF j = MaxEntries THEN NoEntry ELSE s[j + 1]
    BY DEF Compacted
  <2>2. ~Valid(NoEntry)
    BY DEF NoEntry, Valid
  <2>3. Whole(s)
    BY DEF WholeInv
  <2> HIDE DEF s, c
  <2>4. ASSUME NEW j \in Slots, NEW k \in Slots, j < k, Valid(c[k])
        PROVE  Valid(c[j])
    <3>1. \E m \in Slots : Valid(s[m]) /\ (m = k \/ (m = k + 1 /\ k >= i))
      BY <2>1, <2>2, <2>4 DEF Slots
    <3>2. \E m \in Slots : c[j] = s[m] /\ ((m = j /\ j < i) \/ m = j + 1)
      BY <2>1, <2>4 DEF Slots
    <3> QED
      BY <2>3, <2>4, <3>1, <3>2 DEF Whole, Slots
  <2> QED
    BY <2>4 DEF Whole, c
<1>4. acl' \in Tables /\ acl'[l] = Compacted(acl[l], i) /\ \A m \in Lists : m # l => acl'[m] = acl[m]
  BY <1>1, <1>2 DEF TypeInv, Tables
<1> QED
  BY <1>3, <1>4 DEF WholeInv

LEMMA ClearFacts ==
  ASSUME NEW l \in Lists, TypeInv, WholeInv, Clear(l)
  PROVE  acl' \in Tables /\ \A m \in Lists : Whole(acl'[m])
<1>1. acl' = [acl EXCEPT ![l] = EmptyList] /\ EmptyList \in [Slots -> Entries]
  BY EmptyFacts DEF Clear, Tables
<1>2. acl' \in Tables /\ acl'[l] = EmptyList /\ \A m \in Lists : m # l => acl'[m] = acl[m]
  BY <1>1 DEF TypeInv, Tables
<1> QED
  BY <1>2, EmptyFacts DEF WholeInv

-----------------------------------------------------------------------------
(* The handler's own steps.                                                *)
LEMMA SnapshotFacts ==
  ASSUME TypeInv, Snapshot
  PROVE  /\ UNCHANGED <<acl, stored>>
         /\ \/ /\ web'.pc = "blob" /\ web'.snapshot = acl /\ web'.next = 1
               /\ web'.answer = "none"
            \/ /\ web'.pc = "idle" /\ web'.snapshot = EmptyTables /\ web'.next = 1
               /\ web'.answer = "nvs_save_error"
  BY WebFields DEF Snapshot

LEMMA BlobFacts ==
  ASSUME TypeInv, Blob
  PROVE  /\ web.pc = "blob" /\ acl' = acl /\ stored' \in Tables
         /\ \A m \in Lists : stored'[m] \in {stored[m], web.snapshot[m]}
         /\ ~BlobMayFail => \A m \in Lists :
              stored'[m] = IF m = Names[web.next] THEN web.snapshot[m] ELSE stored[m]
         /\ web'.snapshot = web.snapshot /\ web'.answer = "none"
         /\ \/ web.next = Len(Names) /\ web'.pc = "commit" /\ web'.next = web.next
            \/ web.next # Len(Names) /\ web'.pc = "blob" /\ web'.next = web.next + 1
<1>1. web.pc = "blob" /\ acl' = acl
  BY DEF Blob
<1>2. /\ web'.snapshot = web.snapshot /\ web'.answer = "none"
      /\ \/ web.next = Len(Names) /\ web'.pc = "commit" /\ web'.next = web.next
         \/ web.next # Len(Names) /\ web'.pc = "blob" /\ web'.next = web.next + 1
  <2>1. CASE web.next = Len(Names)
    BY <2>1, WebFields DEF Blob, LastBlob
  <2>2. CASE web.next # Len(Names)
    BY <2>2, WebFields DEF Blob, LastBlob
  <2> QED
    BY <2>1, <2>2
<1> DEFINE n == Names[web.next]
<1>3. CASE stored' = [stored EXCEPT ![n] = web.snapshot[n]]
  <2>1. \A m \in Lists : stored'[m] = IF m = n THEN web.snapshot[m] ELSE stored[m]
    BY <1>3 DEF TypeInv, Tables
  <2>2. stored' \in Tables
    <3> HIDE DEF n
    <3>1. n \in Lists => web.snapshot[n] \in [Slots -> Entries]
      BY DEF TypeInv, Tables
    <3>2. \A list : \A table \in [Lists -> [Slots -> Entries]] :
            (n \in Lists => list \in [Slots -> Entries])
              => [table EXCEPT ![n] = list] \in [Lists -> [Slots -> Entries]]
      OBVIOUS
    <3> QED
      BY <1>3, <3>1, <3>2 DEF TypeInv, Tables
  <2> QED
    BY <1>1, <1>2, <2>1, <2>2
<1>4. CASE BlobMayFail /\ stored' = stored
  BY <1>1, <1>2, <1>4 DEF TypeInv
<1> QED
  BY <1>3, <1>4 DEF Blob

LEMMA CommitFacts ==
  ASSUME Commit
  PROVE  /\ web.pc = "commit" /\ UNCHANGED <<acl, stored>>
         /\ web'.pc = "idle" /\ web'.snapshot = EmptyTables /\ web'.next = 1
  BY WebFields DEF Commit

LEMMA RestartFacts ==
  ASSUME TypeInv, Restart
  PROVE  /\ acl' \in Tables /\ stored' = stored
         /\ \A l \in Lists, i \in Slots : acl'[l][i].rule = stored[l][i].rule
         /\ web'.pc = "idle" /\ web'.snapshot = EmptyTables /\ web'.next = 1
         /\ web'.answer = "none"
<1>1. acl' = [l \in Lists |-> [i \in Slots |-> [rule |-> stored[l][i].rule, hits |-> 0]]]
  BY DEF Restart, Zeroed
<1>2. \A l \in Lists, i \in Slots : stored[l][i].rule \in Rules \cup {NoRule}
  BY DEF TypeInv, Tables, Entries
<1>3. acl' \in Tables
  BY <1>1, <1>2 DEF Tables, Entries
<1>4. \A l \in Lists, i \in Slots : acl'[l][i].rule = stored[l][i].rule
  BY <1>1
<1> QED
  BY <1>3, <1>4, WebFields DEF Restart

(* Holes are a matter of the rules alone.                                  *)
LEMMA WholeByRules ==
  ASSUME NEW a, NEW b, \A i \in Slots : a[i].rule = b[i].rule, Whole(a)
  PROVE  Whole(b)
  BY DEF Whole, Valid

LEMMA WholeNext ==
  ASSUME NoRule \notin Rules, MaxEntries \in Nat, TypeInv, WholeInv, [Next]_vars
  PROVE  TypeInv' /\ WholeInv'
<1>1. CASE UNCHANGED vars
  BY <1>1 DEF vars, TypeInv, WholeInv
<1>2. ASSUME NEW l \in Lists, NEW p \in Packets, Check(l, p)
      PROVE  TypeInv' /\ WholeInv'
  <2>1. /\ acl' \in Tables /\ UNCHANGED <<stored, web>>
        /\ \A m \in Lists, k \in Slots : acl'[m][k].rule = acl[m][k].rule
    BY <1>2, CheckFacts
  <2>2. \A m \in Lists : Whole(acl'[m])
    BY <2>1, WholeByRules DEF WholeInv
  <2> QED
    BY <2>1, <2>2 DEF TypeInv, WholeInv
<1>3. ASSUME Edit, acl' \in Tables, \A m \in Lists : Whole(acl'[m])
      PROVE  TypeInv' /\ WholeInv'
  BY <1>3, EditFacts, EmptyFacts DEF TypeInv, WholeInv, Places
<1>4. ASSUME NEW l \in Lists, (\E r \in Rules : Add(l, r)) \/ (\E i \in Slots : Delete(l, i)) \/ Clear(l)
      PROVE  TypeInv' /\ WholeInv'
  <2>1. acl' \in Tables /\ \A m \in Lists : Whole(acl'[m])
    BY <1>4, AddFacts, DeleteFacts, ClearFacts
  <2>2. Edit
    BY <1>4 DEF Add, Delete, Clear
  <2> QED
    BY <1>3, <2>1, <2>2
<1>5. CASE Snapshot
  BY <1>5, SnapshotFacts, EmptyFacts DEF TypeInv, WholeInv, Places
<1>6. CASE Blob
  BY <1>6, BlobFacts DEF TypeInv, WholeInv, Places
<1>7. CASE Commit
  BY <1>7, CommitFacts, EmptyFacts DEF TypeInv, WholeInv, Places
<1>8. CASE Restart
  <2>1. \A m \in Lists : Whole(acl'[m])
    BY <1>8, RestartFacts, WholeByRules DEF WholeInv
  <2> QED
    BY <1>8, <2>1, RestartFacts, EmptyFacts DEF TypeInv, WholeInv, Places
<1> QED
  BY <1>1, <1>2, <1>4, <1>5, <1>6, <1>7, <1>8 DEF Next

-----------------------------------------------------------------------------
(* How far a save has come, when NVS takes every blob.                     *)
LEMMA ListNames ==
  ASSUME NEW S, Names \in Seq(S)
  PROVE  Lists = {Names[k] : k \in 1..Len(Names)}
  BY DEF Lists, ToSet

LEMMA SavedNext ==
  ASSUME NEW S, Names \in Seq(S), Len(Names) > 0, ~BlobMayFail,
         TypeInv, SavedInv, [Next]_vars
  PROVE  SavedInv'
<1>1. CASE UNCHANGED vars
  BY <1>1 DEF vars, SavedInv, Same
<1>2. ASSUME NEW l \in Lists, NEW p \in Packets, Check(l, p)
      PROVE  SavedInv'
  <2>1. /\ UNCHANGED <<stored, web>>
        /\ \A m \in Lists, k \in Slots : acl'[m][k].rule = acl[m][k].rule
    BY <1>2, CheckFacts
  <2> QED
    BY <2>1 DEF SavedInv, Same
<1>3. ASSUME Edit PROVE SavedInv'
  BY <1>3, EditFacts DEF SavedInv
<1>4. ASSUME NEW l \in Lists, (\E r \in Rules : Add(l, r)) \/ (\E i \in Slots : Delete(l, i)) \/ Clear(l)
      PROVE  SavedInv'
  BY <1>3, <1>4 DEF Add, Delete, Clear
<1>5. CASE Snapshot
  <2>1. Len(Names) \in Nat
    OBVIOUS
  <2> QED
    BY <1>5, <2>1, SnapshotFacts DEF SavedInv, Same
<1>6. CASE Blob
  <2>1. /\ \A l \in Lists : Same(web.snapshot, acl, l)
        /\ web.next \in 1..Len(Names)
        /\ \A k \in 1 .. web.next - 1 : Same(stored, web.snapshot, Names[k])
    BY <1>6, BlobFacts DEF SavedInv
  <2>2. \A k \in 1..Len(Names) : Names[k] \in Lists
    BY ListNames
  <2>3. \A m \in Lists : stored'[m] = IF m = Names[web.next] THEN web.snapshot[m] ELSE stored[m]
    BY <1>6, BlobFacts
  <2>4. \A k \in 1 .. web.next : Same(stored', web.snapshot, Names[k])
    <3> SUFFICES ASSUME NEW k \in 1 .. web.next PROVE Same(stored', web.snapshot, Names[k])
      OBVIOUS
    <3>1. Names[k] \in Lists /\ (k = web.next \/ k \in 1 .. web.next - 1)
      BY <2>1, <2>2
    <3> QED
      BY <2>1, <2>3, <3>1 DEF Same
  <2>5. CASE web.next # Len(Names)
    <3>1. /\ web'.pc = "blob" /\ web'.next = web.next + 1 /\ web'.snapshot = web.snapshot
          /\ web'.answer = "none" /\ acl' = acl
      BY <1>6, <2>5, BlobFacts
    <3>2. web'.next \in 1..Len(Names) /\ 1 .. web'.next - 1 = 1 .. web.next
      BY <2>1, <2>5, <3>1
    <3> QED
      BY <2>1, <2>4, <3>1, <3>2 DEF SavedInv
  <2>6. CASE web.next = Len(Names)
    <3>1. web'.pc = "commit" /\ web'.answer = "none" /\ acl' = acl
      BY <1>6, <2>6, BlobFacts
    <3>2. \A l \in Lists : Same(stored', web.snapshot, l)
      BY <2>4, <2>6, ListNames
    <3>3. \A l \in Lists : Same(stored', acl, l)
      BY <2>1, <3>2 DEF Same
    <3> QED
      BY <3>1, <3>3 DEF SavedInv
  <2> QED
    BY <2>5, <2>6
<1>7. CASE Commit
  BY <1>7, CommitFacts DEF SavedInv, Same
<1>8. CASE Restart
  BY <1>8, RestartFacts DEF SavedInv
<1> QED
  BY <1>1, <1>2, <1>4, <1>5, <1>6, <1>7, <1>8 DEF Next

-----------------------------------------------------------------------------
(* acl_delete and acl_add leave no hole before a rule, nor does a save     *)
(* that a reset cuts short: the page, which stops at the first free slot,  *)
(* shows all rules, for lists of any length.                               *)
THEOREM ListsStayWhole ==
  ASSUME NoRule \notin Rules, MaxEntries \in Nat
  PROVE  Spec => []ShownWhole
<1>1. Init => TypeInv /\ WholeInv
  BY TypeInit
<1>2. TypeInv /\ WholeInv /\ [Next]_vars => TypeInv' /\ WholeInv'
  BY WholeNext
<1>3. WholeInv => ShownWhole
  BY DEF WholeInv, Whole, ShownWhole
<1> QED
  BY <1>1, <1>2, <1>3, PTL DEF Spec

(* save_acl_rules keeps what "Saved" says as long as nvs_set_blob fails    *)
(* for no list: the copy taken under the lock is what is in force when the *)
(* commit is answered, and each list of it is in NVS.                      *)
THEOREM SavedWhenBlobsFit ==
  ASSUME NEW S, Names \in Seq(S), Len(Names) > 0, ~BlobMayFail,
         NoRule \notin Rules, MaxEntries \in Nat
  PROVE  Spec => []SavedIsSaved
<1>1. Init => TypeInv /\ WholeInv /\ SavedInv
  BY TypeInit
<1>2. TypeInv /\ WholeInv /\ SavedInv /\ [Next]_vars => TypeInv' /\ WholeInv' /\ SavedInv'
  BY WholeNext, SavedNext
<1>3. SavedInv => SavedIsSaved
  BY DEF SavedInv, Same, SavedIsSaved
<1> QED
  BY <1>1, <1>2, <1>3, PTL DEF Spec

-----------------------------------------------------------------------------
(* What the page shows of a list without holes.                            *)
LEMMA LeastOf ==
  ASSUME NEW T \in SUBSET Nat, T # {}
  PROVE  Min(T) \in T /\ \A y \in T : Min(T) <= y
<1>1. PICK x \in T : \A y \in T : ~ (<<y, x>> \in OpToRel(<, Nat))
  BY NatLessThanWellFounded, WFMin
<1>2. \A y \in T : x <= y
  <2> SUFFICES ASSUME NEW y \in T PROVE x <= y
    OBVIOUS
  <2>1. ~ (<<y, x>> \in OpToRel(<, Nat))
    BY <1>1
  <2>2. x \in Nat /\ y \in Nat
    OBVIOUS
  <2>3. ~ (y < x)
    BY <2>1, <2>2 DEF OpToRel
  <2> QED
    BY <2>2, <2>3
<1> QED
  BY <1>2 DEF Min

LEMMA FreeFacts ==
  ASSUME MaxEntries \in Nat, NEW s, Whole(s)
  PROVE  Free(s) \in 1 .. MaxEntries + 1 /\ \A i \in Slots : Valid(s[i]) <=> i < Free(s)
<1> DEFINE T == {i \in 1 .. MaxEntries + 1 : i \in Slots => ~Valid(s[i])}
<1>1. T \in SUBSET Nat /\ MaxEntries + 1 \in T
  BY DEF Slots
<1>2. Free(s) \in T /\ \A y \in T : Free(s) <= y
  <2>1. Min(T) \in T /\ \A y \in T : Min(T) <= y
    BY <1>1, LeastOf
  <2> QED
    BY <2>1 DEF Free
<1>3. ASSUME NEW i \in Slots PROVE Valid(s[i]) <=> i < Free(s)
  <2>1. i \in T <=> ~Valid(s[i])
    BY DEF Slots
  <2>2. Free(s) \in Slots => ~Valid(s[Free(s)])
    BY <1>2
  <2>3. i \in Nat /\ i <= MaxEntries /\ Free(s) \in 1 .. MaxEntries + 1
    BY <1>2 DEF Slots
  <2>4. ~Valid(s[i]) => Free(s) <= i
    BY <1>2, <2>1
  <2>5. ASSUME Free(s) <= i PROVE ~Valid(s[i])
    <3>1. Free(s) \in Slots
      BY <2>3, <2>5 DEF Slots
    <3> QED
      BY <2>2, <2>3, <2>5, <3>1 DEF Whole
  <2> QED
    BY <2>3, <2>4, <2>5
<1> QED
  BY <1>2, <1>3

LEMMA PageFacts ==
  ASSUME MaxEntries \in Nat, NEW s \in [Slots -> Entries], Whole(s)
  PROVE  /\ Page(s) \in Seq(Entries) /\ Len(Page(s)) = Free(s) - 1
         /\ Len(Page(s)) \in 0..MaxEntries
         /\ \A i \in 1..Len(Page(s)) : Page(s)[i] = s[i]
         /\ \A i \in Slots : Valid(s[i]) <=> i <= Len(Page(s))
<1>1. s \in Seq(Entries) /\ Len(s) = MaxEntries
  BY SeqDef DEF Slots
<1>2. Free(s) \in 1 .. MaxEntries + 1 /\ \A i \in Slots : Valid(s[i]) <=> i < Free(s)
  BY FreeFacts
<1> DEFINE n == Free(s) - 1
<1>3. n \in 0..MaxEntries
  BY <1>2
<1> HIDE DEF n
<1>4. SubSeq(s, 1, n) \in Seq(Entries) /\ Len(SubSeq(s, 1, n)) = n
      /\ \A i \in 1..n : SubSeq(s, 1, n)[i] = s[i]
  BY <1>1, <1>3, SubSeqProperties
<1>5. Page(s) = SubSeq(s, 1, n)
  BY DEF Page, n
<1>6. \A i \in Slots : i < Free(s) <=> i <= n
  BY <1>2, <1>3 DEF n, Slots
<1>7. n = Free(s) - 1
  BY DEF n
<1> QED
  BY <1>2, <1>3, <1>4, <1>5, <1>6, <1>7

(* A list of which the first slots hold a sequence, and the others nothing, *)
(* is shown as that sequence.                                              *)
LEMMA PageIs ==
  ASSUME MaxEntries \in Nat, NEW s \in [Slots -> Entries], NEW q \in Seq(Entries),
         Len(q) <= MaxEntries, \A i \in Slots : Valid(s[i]) <=> i <= Len(q),
         \A i \in 1..Len(q) : s[i] = q[i]
  PROVE  Whole(s) /\ Page(s) = q
<1>1. Len(q) \in 0..MaxEntries
  OBVIOUS
<1>2. Whole(s)
  BY <1>1 DEF Whole, Slots
<1>3. Len(Page(s)) = Len(q)
  <2> DEFINE n == Len(Page(s))
             m == Len(q)
  <2>1. n \in 0..MaxEntries /\ m \in 0..MaxEntries /\ \A i \in Slots : i <= n <=> i <= m
    BY <1>1, <1>2, PageFacts
  <2> HIDE DEF n, m
  <2>2. ~(n < m)
    <3> SUFFICES ASSUME n < m PROVE FALSE
      OBVIOUS
    <3>1. m \in Slots
      BY <2>1 DEF Slots
    <3> QED
      BY <2>1, <3>1
  <2>3. ~(m < n)
    <3> SUFFICES ASSUME m < n PROVE FALSE
      OBVIOUS
    <3>1. n \in Slots
      BY <2>1 DEF Slots
    <3> QED
      BY <2>1, <3>1
  <2> QED
    BY <2>1, <2>2, <2>3 DEF n, m
<1>4. Page(s) \in Seq(Entries) /\ \A i \in 1..Len(q) : Page(s)[i] = q[i]
  BY <1>2, <1>3, PageFacts
<1> QED
  BY <1>2, <1>3, <1>4, SeqEqual

(* The lists as the page shows them, before and after a step.              *)
LEMMA OrderedSame ==
  ASSUME NEW a, NEW b, \A l \in Lists : Page(a[l]) = Page(b[l])
  PROVE  Ordered(a) = Ordered(b)
  BY DEF Ordered

LEMMA OneListShown ==
  ASSUME NEW l \in Lists, NEW table, NEW q, Page(table[l]) = q,
         \A m \in Lists : m # l => table[m] = acl[m]
  PROVE  Ordered(table) = [Ordered(acl) EXCEPT ![l] = q]
  BY DEF Ordered

LEMMA OrderCheck ==
  ASSUME MaxEntries \in Nat, TypeInv, WholeInv, NEW l \in Lists, NEW p \in Packets, Check(l, p)
  PROVE  Policy!Pass(l, p)
<1> DEFINE q == Page(acl[l])
           i == Deciding(l, p)
           S == {k \in Slots : Valid(acl[l][k]) /\ Matches(acl[l][k].rule, p)}
           I == {k \in 1..Len(q) : Matches(q[k].rule, p)}
<1>1. acl[l] \in [Slots -> Entries] /\ Whole(acl[l]) /\ Ordered(acl)[l] = q
  BY DEF TypeInv, Tables, WholeInv, Ordered
<1>2. /\ q \in Seq(Entries) /\ Len(q) \in 0..MaxEntries
      /\ \A k \in 1..Len(q) : q[k] = acl[l][k]
      /\ \A k \in Slots : Valid(acl[l][k]) <=> k <= Len(q)
  BY <1>1, PageFacts
<1>3. S = I
  <2>1. \A k : k \in S <=> k \in I
    BY <1>2 DEF Slots
  <2> QED
    BY <2>1
<1>4. i = IF I = {} THEN 0 ELSE Min(I)
  <2>1. i = IF S = {} THEN 0 ELSE Min(S)
    BY DEF Deciding
  <2> QED
    BY <1>3, <2>1
<1>5. Policy!Pass(l, p) <=>
        IF i = 0 THEN verdict' = "passed" /\ Ordered(acl)' = Ordered(acl) /\ UNCHANGED Ordered(Zeroed(stored))
        ELSE /\ verdict' = IF q[i].rule.allow THEN "passed" ELSE "dropped"
             /\ Ordered(acl)' = [Ordered(acl) EXCEPT ![l] = [q EXCEPT ![i] = [q[i] EXCEPT !.hits = @ + 1]]]
             /\ UNCHANGED Ordered(Zeroed(stored))
  <2> HIDE DEF i, q
  <2>1. i = IF {k \in 1..Len(q) : Matches(q[k].rule, p)} # {}
             THEN Min({k \in 1..Len(q) : Matches(q[k].rule, p)}) ELSE 0
    BY <1>4
  <2> QED
    BY <1>1, <2>1 DEF Policy!Pass, Policy!SelectInSeq, Policy!Min, Min
<1>6. UNCHANGED Ordered(Zeroed(stored))
  BY DEF Check, Ordered, Zeroed
<1>7. CASE i = 0
  <2>1. verdict' = "passed" /\ acl' = acl
    BY <1>7 DEF Check
  <2> HIDE DEF i
  <2> QED
    BY <1>5, <1>6, <1>7, <2>1 DEF Ordered
<1>8. CASE i # 0
  <2>1. I \in SUBSET Nat /\ I # {}
    BY <1>4, <1>8
  <2>2. i \in I
    BY <1>4, <1>8, <2>1, LeastOf
  <2>3. i \in 1..Len(q) /\ q[i] = acl[l][i] /\ i \in Slots
    BY <1>2, <2>2 DEF Slots
  <2>4. /\ acl' = [acl EXCEPT ![l] = Counted(acl[l], i)]
        /\ verdict' = IF acl[l][i].rule.allow THEN "passed" ELSE "dropped"
    BY <1>8 DEF Check
  <2> HIDE DEF i, I, S
  <2> DEFINE hit == [rule |-> acl[l][i].rule, hits |-> acl[l][i].hits + 1]
             c == [acl[l] EXCEPT ![i] = hit]
             r == [q EXCEPT ![i] = [q[i] EXCEPT !.hits = @ + 1]]
  <2>5. hit \in Entries /\ hit.rule = acl[l][i].rule /\ hit = [q[i] EXCEPT !.hits = @ + 1]
    BY <1>1, <2>3 DEF Entries
  <2> HIDE DEF hit, q
  <2>6. /\ c \in [Slots -> Entries]
        /\ \A k \in Slots : c[k] = IF k = i THEN hit ELSE acl[l][k]
    BY <1>1, <2>3, <2>5
  <2>7. /\ r \in Seq(Entries) /\ Len(r) = Len(q)
        /\ \A k \in 1..Len(q) : r[k] = IF k = i THEN hit ELSE q[k]
    BY <1>2, <2>3, <2>5, ExceptSeq
  <2>8. acl' = [acl EXCEPT ![l] = c]
    BY <2>4 DEF Counted, hit
  <2> HIDE DEF c, r
  <2>9. Page(c) = r
    <3>1. \A k \in Slots : Valid(c[k]) <=> k <= Len(r)
      BY <1>2, <2>5, <2>6, <2>7 DEF Valid
    <3>2. \A k \in 1..Len(r) : c[k] = r[k]
      BY <1>2, <2>6, <2>7 DEF Slots
    <3> QED
      BY <1>2, <2>6, <2>7, <3>1, <3>2, PageIs
  <2>10. acl'[l] = c /\ \A m \in Lists : m # l => acl'[m] = acl[m]
    BY <2>8 DEF TypeInv, Tables
  <2>11. Ordered(acl') = [Ordered(acl) EXCEPT ![l] = r]
    BY <2>9, <2>10, OneListShown
  <2>12. Ordered(acl)' = [Ordered(acl) EXCEPT ![l] = [q EXCEPT ![i] = [q[i] EXCEPT !.hits = @ + 1]]]
    BY <2>11 DEF r, Ordered
  <2> QED
    BY <1>5, <1>6, <1>8, <2>3, <2>4, <2>12
<1> QED
  BY <1>7, <1>8

LEMMA OrderAdd ==
  ASSUME MaxEntries \in Nat, NoRule \notin Rules, TypeInv, WholeInv,
         NEW l \in Lists, NEW r \in Rules, Add(l, r)
  PROVE  Policy!Add(l, r)
<1> DEFINE q == Page(acl[l])
           e == [rule |-> r, hits |-> 0]
<1>1. acl[l] \in [Slots -> Entries] /\ Whole(acl[l]) /\ Ordered(acl)[l] = q
  BY DEF TypeInv, Tables, WholeInv, Ordered
<1>2. /\ q \in Seq(Entries) /\ Len(q) \in 0..MaxEntries
      /\ \A k \in 1..Len(q) : q[k] = acl[l][k]
      /\ \A k \in Slots : Valid(acl[l][k]) <=> k <= Len(q)
  BY <1>1, PageFacts
<1>3. PICK i \in Slots : /\ ~Valid(acl[l][i]) /\ \A j \in 1 .. i - 1 : Valid(acl[l][j])
                         /\ acl' = [acl EXCEPT ![l] = [acl[l] EXCEPT ![i] = e]]
  BY DEF Add
<1>4. e \in Entries /\ Valid(e)
  BY DEF Entries, Valid
<1> HIDE DEF e, q
<1>5. i = Len(q) + 1
  <2>1. i > Len(q) /\ i \in 1..MaxEntries
    BY <1>2, <1>3 DEF Slots
  <2>2. i - 1 >= 1 => Valid(acl[l][i - 1]) /\ i - 1 \in Slots
    BY <1>3, <2>1 DEF Slots
  <2> QED
    BY <1>2, <2>1, <2>2
<1> DEFINE c == [acl[l] EXCEPT ![i] = e]
           t == Append(q, e)
<1>6. /\ c \in [Slots -> Entries] /\ \A k \in Slots : c[k] = IF k = i THEN e ELSE acl[l][k]
  BY <1>1, <1>4
<1>7. /\ t \in Seq(Entries) /\ Len(t) = Len(q) + 1
      /\ \A k \in 1..Len(t) : t[k] = IF k = i THEN e ELSE q[k]
  BY <1>2, <1>4, <1>5, AppendProperties
<1>8. acl'[l] = c /\ \A m \in Lists : m # l => acl'[m] = acl[m]
  BY <1>3 DEF TypeInv, Tables
<1> HIDE DEF c, t
<1>9. Page(c) = t
  <2>1. \A k \in Slots : Valid(c[k]) <=> k <= Len(t)
    BY <1>2, <1>4, <1>5, <1>6, <1>7 DEF Slots
  <2>2. \A k \in 1..Len(t) : c[k] = t[k]
    BY <1>2, <1>5, <1>6, <1>7 DEF Slots
  <2>3. Len(t) <= MaxEntries
    BY <1>3, <1>5, <1>7 DEF Slots
  <2> QED
    BY <1>6, <1>7, <2>1, <2>2, <2>3, PageIs
<1>10. Ordered(acl') = [Ordered(acl) EXCEPT ![l] = t]
  BY <1>8, <1>9, OneListShown
<1>11. UNCHANGED <<stored, verdict>>
  BY DEF Add, Edit
<1> QED
  BY <1>1, <1>10, <1>11 DEF Policy!Add, t, e, Ordered, Zeroed

LEMMA OrderDelete ==
  ASSUME MaxEntries \in Nat, TypeInv, WholeInv, NEW l \in Lists, NEW i \in Slots, Delete(l, i)
  PROVE  i \in DOMAIN Ordered(acl)[l] /\ Policy!Delete(l, i)
<1> DEFINE q == Page(acl[l])
<1>1. acl[l] \in [Slots -> Entries] /\ Whole(acl[l]) /\ Ordered(acl)[l] = q
  BY DEF TypeInv, Tables, WholeInv, Ordered
<1>2. /\ q \in Seq(Entries) /\ Len(q) \in 0..MaxEntries
      /\ \A k \in 1..Len(q) : q[k] = acl[l][k]
      /\ \A k \in Slots : Valid(acl[l][k]) <=> k <= Len(q)
  BY <1>1, PageFacts
<1>3. Valid(acl[l][i]) /\ acl' = [acl EXCEPT ![l] = Compacted(acl[l], i)]
  BY DEF Delete
<1> HIDE DEF q
<1>4. i \in 1..Len(q) /\ DOMAIN q = 1..Len(q) /\ Len(q) \in Nat \ {0}
  BY <1>2, <1>3 DEF Slots
<1> DEFINE c == Compacted(acl[l], i)
           a == SubSeq(q, 1, i - 1)
           b == SubSeq(q, i + 1, Len(q))
           t == a \o b
<1>5. /\ c \in [Slots -> Entries]
      /\ \A k \in Slots : c[k] = IF k < i THEN acl[l][k] ELSE IF k = MaxEntries THEN NoEntry ELSE acl[l][k + 1]
  <2>1. \A j \in Slots : j # MaxEntries => j + 1 \in Slots
    BY DEF Slots
  <2> QED
    BY <1>1, <2>1, EmptyFacts DEF Compacted
<1>6. /\ a \in Seq(Entries) /\ Len(a) = i - 1 /\ \A k \in 1..i - 1 : a[k] = q[k]
  BY <1>2, <1>4, SubSeqProperties
<1>7. /\ b \in Seq(Entries) /\ Len(b) = Len(q) - i /\ \A k \in 1..Len(q) - i : b[k] = q[k + i]
  <2> DEFINE m == i + 1
             n == Len(q)
  <2>1. m \in Int /\ n \in Int /\ \A k \in m..n : q[k] \in Entries
    BY <1>2, <1>4
  <2>1a. (IF m <= n THEN n - m + 1 ELSE 0) = n - i /\ n - m + 1 = n - i
    <3>1. n \in Nat /\ i \in Nat /\ i <= n
      BY <1>4
    <3> HIDE DEF n
    <3> QED
      BY <3>1
  <2>1b. /\ SubSeq(q, m, n) \in Seq(Entries)
         /\ Len(SubSeq(q, m, n)) = IF m <= n THEN n - m + 1 ELSE 0
         /\ \A k \in 1 .. n - m + 1 : SubSeq(q, m, n)[k] = q[m + k - 1]
    <3> HIDE DEF m, n
    <3> QED
      BY <2>1, SubSeqProperties
  <2>2. b \in Seq(Entries) /\ Len(b) = Len(q) - i /\ \A k \in 1..Len(q) - i : b[k] = q[(i + 1) + k - 1]
    BY <2>1a, <2>1b
  <2>3. \A k \in 1..Len(q) - i : (i + 1) + k - 1 = k + i
    BY <1>4
  <2> QED
    BY <2>2, <2>3
<1>8. /\ t \in Seq(Entries) /\ Len(t) = Len(q) - 1
      /\ \A k \in 1..Len(q) - 1 : t[k] = IF k < i THEN q[k] ELSE q[k + 1]
  <2> HIDE DEF a, b
  <2>1. t \in Seq(Entries) /\ Len(t) = Len(a) + Len(b)
        /\ \A k \in 1..Len(a) + Len(b) : t[k] = IF k <= Len(a) THEN a[k] ELSE b[k - Len(a)]
    BY <1>6, <1>7, ConcatProperties
  <2>2. Len(a) + Len(b) = Len(q) - 1
    BY <1>4, <1>6, <1>7
  <2>3. ASSUME NEW k \in 1..Len(q) - 1 PROVE t[k] = IF k < i THEN q[k] ELSE q[k + 1]
    <3>1. CASE k < i
      <4>1. k <= Len(a) /\ k \in 1..i - 1
        BY <1>4, <1>6, <3>1
      <4> QED
        BY <1>6, <2>1, <2>2, <3>1, <4>1
    <3>2. CASE ~(k < i)
      <4>1. ~(k <= Len(a)) /\ k - Len(a) \in 1..Len(q) - i /\ (k - Len(a)) + i = k + 1
        BY <1>4, <1>6, <3>2
      <4>2. t[k] = b[k - Len(a)] /\ b[k - Len(a)] = q[k + 1]
        BY <1>7, <2>1, <2>2, <4>1
      <4> QED
        BY <3>2, <4>2
    <3> QED
      BY <3>1, <3>2
  <2> QED
    BY <2>1, <2>2, <2>3
<1>9. t = RemoveAt(q, i)
  BY DEF RemoveAt
<1>10. acl'[l] = c /\ \A m \in Lists : m # l => acl'[m] = acl[m]
  BY <1>3 DEF TypeInv, Tables
<1> HIDE DEF c, t
<1>11. Page(c) = t
  <2>0. ~Valid(NoEntry)
    BY DEF NoEntry, Valid
  <2>1. \A k \in Slots : Valid(c[k]) <=> k <= Len(t)
    <3> SUFFICES ASSUME NEW k \in Slots PROVE Valid(c[k]) <=> k <= Len(q) - 1
      BY <1>8
    <3>1. CASE k < i
      BY <1>2, <1>4, <1>5, <3>1 DEF Slots
    <3>2. CASE ~(k < i) /\ k = MaxEntries
      BY <1>2, <1>4, <1>5, <2>0, <3>2 DEF Slots
    <3>3. CASE ~(k < i) /\ k # MaxEntries
      <4>1. k + 1 \in Slots
        BY <3>3 DEF Slots
      <4> QED
        BY <1>2, <1>4, <1>5, <3>3, <4>1 DEF Slots
    <3> QED
      BY <3>1, <3>2, <3>3
  <2>2. \A k \in 1..Len(t) : c[k] = t[k]
    <3> SUFFICES ASSUME NEW k \in 1..Len(q) - 1 PROVE c[k] = t[k]
      BY <1>8
    <3>1. k \in Slots /\ k # MaxEntries /\ k \in 1..Len(q) /\ k + 1 \in 1..Len(q)
      BY <1>2, <1>4 DEF Slots
    <3> QED
      BY <1>2, <1>5, <1>8, <3>1
  <2>3. Len(t) <= MaxEntries
    BY <1>2, <1>8
  <2> QED
    BY <1>5, <1>8, <2>1, <2>2, <2>3, PageIs
<1>12. Ordered(acl') = [Ordered(acl) EXCEPT ![l] = t]
  BY <1>10, <1>11, OneListShown
<1>13. UNCHANGED <<stored, verdict>>
  BY DEF Delete, Edit
<1>14. Ordered(acl)[l] = q
  BY <1>1 DEF Ordered
<1>15. Ordered(acl') = [Ordered(acl) EXCEPT ![l] = Policy!RemoveAt(@, i)]
  BY <1>9, <1>12, <1>14 DEF Policy!RemoveAt, RemoveAt
<1>16. Ordered(Zeroed(stored')) = Ordered(Zeroed(stored))
  BY <1>13
<1> QED
  BY <1>4, <1>13, <1>14, <1>15, <1>16 DEF Policy!Delete

LEMMA OrderClear ==
  ASSUME MaxEntries \in Nat, TypeInv, WholeInv, NEW l \in Lists, Clear(l)
  PROVE  Policy!Clear(l)
<1>1. acl' = [acl EXCEPT ![l] = EmptyList] /\ UNCHANGED <<stored, verdict>>
  BY DEF Clear, Edit
<1>2. EmptyList \in [Slots -> Entries] /\ \A k \in Slots : ~Valid(EmptyList[k])
  BY EmptyFacts DEF EmptyList, NoEntry, Valid
<1>3. <<>> \in Seq(Entries) /\ Len(<<>>) = 0
  BY EmptySeq
<1>4. Page(EmptyList) = <<>>
  <2>1. \A k \in Slots : Valid(EmptyList[k]) <=> k <= Len(<<>>)
    BY <1>2, <1>3 DEF Slots
  <2>2. \A k \in 1..Len(<<>>) : EmptyList[k] = <<>>[k]
    BY <1>3
  <2>3. Len(<<>>) <= MaxEntries
    BY <1>3
  <2> QED
    BY <1>2, <1>3, <2>1, <2>2, <2>3, PageIs
<1>5. acl'[l] = EmptyList /\ \A m \in Lists : m # l => acl'[m] = acl[m]
  BY <1>1 DEF TypeInv, Tables
<1>6. Ordered(acl') = [Ordered(acl) EXCEPT ![l] = <<>>]
  BY <1>4, <1>5, OneListShown
<1> QED
  BY <1>1, <1>6 DEF Policy!Clear, Ordered, Zeroed

(* A blob that is taken saves a list as it is in force.                    *)
SnapshotInv ==
  web.pc = "blob" => web.next \in 1..Len(Names) /\ \A l \in Lists : Same(web.snapshot, acl, l)

LEMMA SnapshotNext ==
  ASSUME NEW S, Names \in Seq(S), Len(Names) > 0, TypeInv, SnapshotInv, [Next]_vars
  PROVE  SnapshotInv'
<1>0. Len(Names) \in Nat
  OBVIOUS
<1>1. CASE UNCHANGED vars
  BY <1>1 DEF vars, SnapshotInv, Same
<1>2. ASSUME NEW l \in Lists, NEW p \in Packets, Check(l, p)
      PROVE  SnapshotInv'
  BY <1>2, CheckFacts DEF SnapshotInv, Same
<1>3. ASSUME Edit PROVE SnapshotInv'
  BY <1>3, EditFacts DEF SnapshotInv
<1>4. ASSUME NEW l \in Lists, (\E r \in Rules : Add(l, r)) \/ (\E i \in Slots : Delete(l, i)) \/ Clear(l)
      PROVE  SnapshotInv'
  BY <1>3, <1>4 DEF Add, Delete, Clear
<1>5. CASE Snapshot
  BY <1>0, <1>5, SnapshotFacts DEF SnapshotInv, Same
<1>6. CASE Blob
  <2>1. web.next \in 1..Len(Names) /\ \A l \in Lists : Same(web.snapshot, acl, l)
    BY <1>6, BlobFacts DEF SnapshotInv
  <2> QED
    BY <1>0, <1>6, <2>1, BlobFacts DEF SnapshotInv, Same
<1>7. CASE Commit
  BY <1>7, CommitFacts DEF SnapshotInv
<1>8. CASE Restart
  BY <1>8, RestartFacts DEF SnapshotInv
<1> QED
  BY <1>1, <1>2, <1>4, <1>5, <1>6, <1>7, <1>8 DEF Next

(* The rules of a list without their hits, as the page shows them.         *)
LEMMA AnewPage ==
  ASSUME MaxEntries \in Nat, NEW s \in [Slots -> Entries], Whole(s),
         NEW z \in [Slots -> Entries], \A i \in Slots : z[i] = [rule |-> s[i].rule, hits |-> 0]
  PROVE  Page(z) = Policy!Anew(Page(s))
<1> DEFINE q == Page(s)
           t == Policy!Anew(q)
<1>1. /\ q \in Seq(Entries) /\ Len(q) \in 0..MaxEntries
      /\ \A k \in 1..Len(q) : q[k] = s[k]
      /\ \A k \in Slots : Valid(s[k]) <=> k <= Len(q)
  BY PageFacts
<1> HIDE DEF q
<1>2. \A k \in 1..Len(q) : k \in Slots /\ [q[k] EXCEPT !.hits = 0] = z[k]
  <2>1. \A k \in 1..Len(q) : k \in Slots /\ q[k] = s[k]
    BY <1>1 DEF Slots
  <2>2. \A k \in Slots : [s[k] EXCEPT !.hits = 0] = [rule |-> s[k].rule, hits |-> 0]
    BY DEF Entries
  <2> QED
    BY <2>1, <2>2
<1>3. t = [k \in 1..Len(q) |-> z[k]]
  <2>1. DOMAIN q = 1..Len(q)
    BY <1>1
  <2> QED
    BY <1>2, <2>1 DEF Policy!Anew
<1> HIDE DEF t
<1>4. t \in Seq(Entries)
  <2>1. \A k \in 1..Len(q) : z[k] \in Entries
    BY <1>2
  <2> QED
    BY <1>1, <1>3, <2>1, SeqDef
<1>5. Len(t) = Len(q) /\ \A k \in 1..Len(t) : z[k] = t[k]
  BY <1>1, <1>3, <1>4, LenProperties
<1>6. \A k \in Slots : Valid(z[k]) <=> k <= Len(t)
  BY <1>1, <1>5 DEF Valid
<1>7. Len(t) <= MaxEntries
  BY <1>1, <1>5
<1>8. Page(z) = t
  BY <1>4, <1>5, <1>6, <1>7, PageIs
<1> QED
  BY <1>8 DEF t, q

LEMMA ZeroedFacts ==
  ASSUME NEW table \in Tables
  PROVE  /\ Zeroed(table) \in Tables
         /\ \A l \in Lists, i \in Slots : Zeroed(table)[l][i] = [rule |-> table[l][i].rule, hits |-> 0]
<1>1. \A l \in Lists, i \in Slots : [rule |-> table[l][i].rule, hits |-> 0] \in Entries
  BY DEF Tables, Entries
<1> QED
  BY <1>1 DEF Zeroed, Tables

LEMMA OrderBlob ==
  ASSUME MaxEntries \in Nat, NEW S, Names \in Seq(S), TypeInv, WholeInv, SnapshotInv, Blob
  PROVE  (\E l \in Lists : Policy!Save(l)) \/ UNCHANGED Policy!vars
<1> DEFINE l == Names[web.next]
<1>1. web.next \in 1..Len(Names) /\ \A m \in Lists : Same(web.snapshot, acl, m)
  BY DEF Blob, SnapshotInv
<1>2. l \in Lists
  BY <1>1, ListNames
<1>3. UNCHANGED <<acl, verdict>>
  BY DEF Blob
<1>4. CASE stored' = stored
  BY <1>3, <1>4 DEF Policy!vars, Ordered, Zeroed
<1>5. CASE stored' = [stored EXCEPT ![l] = web.snapshot[l]]
  <2> DEFINE z == Zeroed(stored')
  <2> HIDE DEF l
  <2>1. stored' \in Tables /\ stored'[l] = web.snapshot[l] /\ \A m \in Lists : m # l => stored'[m] = stored[m]
    <3>1. web.snapshot[l] \in [Slots -> Entries]
      BY <1>2 DEF TypeInv, Tables
    <3> QED
      BY <1>2, <1>5, <3>1 DEF TypeInv, Tables
  <2>2. z \in Tables /\ \A m \in Lists, i \in Slots : z[m][i] = [rule |-> stored'[m][i].rule, hits |-> 0]
    BY <2>1, ZeroedFacts
  <2>3. \A m \in Lists : m # l => z[m] = Zeroed(stored)[m]
    BY <2>1 DEF Zeroed
  <2> HIDE DEF z
  <2>4. \A i \in Slots : z[l][i] = [rule |-> acl[l][i].rule, hits |-> 0]
    BY <1>1, <1>2, <2>1, <2>2 DEF Same
  <2>5. z[l] \in [Slots -> Entries] /\ acl[l] \in [Slots -> Entries] /\ Whole(acl[l])
    BY <1>2, <2>2 DEF Tables, TypeInv, WholeInv
  <2>6. Page(z[l]) = Policy!Anew(Page(acl[l]))
    BY <2>4, <2>5, AnewPage
  <2>7. Ordered(z) = [Ordered(Zeroed(stored)) EXCEPT ![l] = Policy!Anew(Ordered(acl)[l])]
    BY <1>2, <2>3, <2>6 DEF Ordered
  <2>8. Ordered(Zeroed(stored))' = Ordered(z)
    BY DEF Ordered, Zeroed, z
  <2> QED
    BY <1>2, <1>3, <2>7, <2>8 DEF Policy!Save, Ordered
<1> QED
  BY <1>4, <1>5 DEF Blob

LEMMA OrderStart ==
  ASSUME MaxEntries \in Nat
  PROVE  Init => Policy!Init
<1> SUFFICES ASSUME Init PROVE Policy!Init
  OBVIOUS
<1>1. EmptyList \in [Slots -> Entries] /\ \A k \in Slots : ~Valid(EmptyList[k]) /\ EmptyList[k] = NoEntry
  BY EmptyFacts DEF EmptyList, NoEntry, Valid
<1>2. <<>> \in Seq(Entries) /\ Len(<<>>) = 0
  BY EmptySeq
<1>3. Page(EmptyList) = <<>>
  <2>1. \A k \in Slots : Valid(EmptyList[k]) <=> k <= Len(<<>>)
    BY <1>1, <1>2 DEF Slots
  <2>2. \A k \in 1..Len(<<>>) : EmptyList[k] = <<>>[k]
    BY <1>2
  <2>3. Len(<<>>) <= MaxEntries
    BY <1>2
  <2> QED
    BY <1>1, <1>2, <2>1, <2>2, <2>3, PageIs
<1>4. acl = EmptyTables /\ stored = EmptyTables /\ verdict = "passed"
  BY DEF Init
<1>5. Zeroed(EmptyTables) = EmptyTables
  BY DEF Zeroed, EmptyTables, EmptyList, NoEntry
<1> QED
  BY <1>3, <1>4, <1>5 DEF Policy!Init, Ordered, EmptyTables

(* acl_check_packet decides by the list that the page shows: the first     *)
(* rule of it that matches, in the order in which they were added, and the *)
(* hit is that rule's; through acl_delete, which moves rules to other      *)
(* slots, through edits while packets pass, through saves that fail or are *)
(* cut short, and after any restart.                                       *)
THEOREM DecidesInOrder ==
  ASSUME NEW S, Names \in Seq(S), Len(Names) > 0, NoRule \notin Rules, MaxEntries \in Nat
  PROVE  Spec => FirstMatchDecides
<1>1. Init => TypeInv /\ WholeInv /\ SnapshotInv /\ Policy!Init
  <2>1. Init => SnapshotInv
    BY WebFields DEF Init, SnapshotInv
  <2> QED
    BY <2>1, TypeInit, OrderStart
<1>2. TypeInv /\ WholeInv /\ SnapshotInv /\ [Next]_vars => TypeInv' /\ WholeInv' /\ SnapshotInv'
  BY WholeNext, SnapshotNext
<1>3. TypeInv /\ WholeInv /\ SnapshotInv /\ [Next]_vars => [Policy!Next]_Policy!vars
  <2> SUFFICES ASSUME TypeInv, WholeInv, SnapshotInv, [Next]_vars PROVE [Policy!Next]_Policy!vars
    OBVIOUS
  <2>1. CASE UNCHANGED vars \/ Snapshot \/ Commit
    <3>1. UNCHANGED <<acl, stored, verdict>>
      BY <2>1 DEF vars, Snapshot, Commit
    <3> QED
      BY <3>1 DEF Policy!vars, Ordered, Zeroed
  <2>2. ASSUME NEW l \in Lists, NEW p \in Packets, Check(l, p) PROVE Policy!Next
    BY <2>2, OrderCheck DEF Policy!Next
  <2>3. ASSUME NEW l \in Lists, NEW r \in Rules, Add(l, r) PROVE Policy!Next
    BY <2>3, OrderAdd DEF Policy!Next
  <2>4. ASSUME NEW l \in Lists, NEW i \in Slots, Delete(l, i) PROVE Policy!Next
    BY <2>4, OrderDelete DEF Policy!Next
  <2>5. ASSUME NEW l \in Lists, Clear(l) PROVE Policy!Next
    BY <2>5, OrderClear DEF Policy!Next
  <2>6. CASE Blob
    BY <2>6, OrderBlob DEF Policy!Next
  <2>7. CASE Restart
    <3>1. acl' = Zeroed(stored) /\ UNCHANGED <<stored, verdict>>
      BY <2>7 DEF Restart
    <3> QED
      BY <3>1 DEF Policy!Next, Policy!Restart, Ordered, Zeroed
  <2> QED
    BY <2>1, <2>2, <2>3, <2>4, <2>5, <2>6, <2>7 DEF Next
<1> QED
  BY <1>1, <1>2, <1>3, PTL DEF Spec, FirstMatchDecides, Policy!Spec
=============================================================================
