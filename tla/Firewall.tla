------------------------------ MODULE Firewall ------------------------------
(* The packet filter (components/acl): tables of slots that httpd edits    *)
(* and lwIP's thread walks for each packet, and their copy in NVS, which   *)
(* is written list by list after each edit.                                *)
EXTENDS Naturals, Sequences, SequencesExt, FiniteSetsExt

CONSTANTS
  Names,       \* the lists, in the order in which they are saved
  MaxEntries,  \* MAX_ACL_ENTRIES
  Rules,       \* records [src, proto, port, allow]: src a set of addresses,
               \* proto "any" or one, port 0 for any
  Packets,     \* records [src, proto, port]: port 0 when there is none to read
  BlobMayFail, \* whether NVS may refuse the blob of a list
  MaxHits,     \* bound: packets that rules decide
  MaxEdits     \* bound

VARIABLES
  acl,       \* acl_lists: slots, each NoEntry or [rule, hits]
  stats,     \* acl_stats: [allowed, denied]
  stored,    \* NVS: the rules of each list, or the entry that says there is no blob
  web,       \* the handler: [pc, snapshot, next, err, answer]
  verdict,   \* on the last packet
  edits

vars == <<acl, stats, stored, web, verdict, edits>>

Lists == ToSet(Names)
Slots == 1..MaxEntries
NoRule == [src |-> {}, proto |-> "none", port |-> 0, allow |-> FALSE]
NoEntry == [rule |-> NoRule, hits |-> 0]
EmptyList == [i \in Slots |-> NoEntry]
EmptyTables == [l \in Lists |-> EmptyList]
Saving(pc, snapshot, next) ==
  [pc |-> pc, snapshot |-> snapshot, next |-> next, answer |-> "none"]
Done(answer) == [pc |-> "idle", snapshot |-> EmptyTables, next |-> 1, answer |-> answer]

Init ==
  /\ acl = EmptyTables /\ stored = EmptyTables
  /\ stats = [l \in Lists |-> [allowed |-> 0, denied |-> 0]]
  /\ web = Done("none") /\ verdict = "passed" /\ edits = 0

Valid(e) == e.rule # NoRule

-----------------------------------------------------------------------------
(* acl_check_packet, under the lock, and acl_drops.                        *)
Matches(r, p) ==
  /\ r.proto \in {"any", p.proto} /\ p.src \in r.src
  /\ r.port = 0 \/ (p.proto \in {"tcp", "udp"} /\ r.port = p.port)

Deciding_Last(l, p) ==
  LET S == {i \in Slots : Valid(acl[l][i]) /\ Matches(acl[l][i].rule, p)}
  IN  IF S = {} THEN 0 ELSE Max(S)
Deciding(l, p) ==
  LET S == {i \in Slots : Valid(acl[l][i]) /\ Matches(acl[l][i].rule, p)}
  IN  IF S = {} THEN 0 ELSE Min(S)

Decided == FoldSet(LAMBDA l, n : n + stats[l].allowed + stats[l].denied, 0, Lists)

Counted(list, i) ==
  [list EXCEPT ![i] = [rule |-> list[i].rule, hits |-> list[i].hits + 1]]

Check(l, p) ==
  LET i == Deciding(l, p) IN
  /\ Decided < MaxHits
  /\ IF i = 0 THEN verdict' = "passed" /\ UNCHANGED <<acl, stats>>
     ELSE /\ acl' = [acl EXCEPT ![l] = Counted(@, i)]
          /\ IF acl[l][i].rule.allow
             THEN verdict' = "passed" /\ stats' = [stats EXCEPT ![l].allowed = @ + 1]
             ELSE verdict' = "dropped" /\ stats' = [stats EXCEPT ![l].denied = @ + 1]
  /\ UNCHANGED <<stored, web, edits>>

-----------------------------------------------------------------------------
(* The handlers edit a list and then save all of them.                     *)
Edit ==
  /\ web.pc = "idle" /\ edits < MaxEdits /\ edits' = edits + 1
  /\ web' = Saving("snapshot", EmptyTables, 1)
  /\ UNCHANGED <<stats, stored, verdict>>

Add(l, r) ==
  /\ \E i \in Slots :
       /\ ~Valid(acl[l][i]) /\ \A j \in 1..i - 1 : Valid(acl[l][j])
       /\ acl' = [acl EXCEPT ![l] = [@ EXCEPT ![i] = [rule |-> r, hits |-> 0]]]
  /\ Edit

(* The slots after a deleted one move up.                                  *)
Compacted(s, i) ==
  [j \in Slots |-> IF j < i THEN s[j] ELSE IF j = MaxEntries THEN NoEntry ELSE s[j + 1]]

Delete(l, i) == Valid(acl[l][i]) /\ acl' = [acl EXCEPT ![l] = Compacted(@, i)] /\ Edit
Clear(l) == acl' = [acl EXCEPT ![l] = EmptyList] /\ Edit

(* save_acl_rules: a copy under the lock; then NVS, where what a blob says *)
(* is logged and forgotten, and only the commit is answered for.           *)
Snapshot ==
  /\ web.pc = "snapshot"
  /\ \/ web' = Saving("blob", acl, 1)
     \/ web' = Done("nvs_save_error")   \* nvs_open failed
  /\ UNCHANGED <<acl, stats, stored, verdict, edits>>

LastBlob_Early == Len(Names) - 1
LastBlob == Len(Names)

Blob ==
  /\ web.pc = "blob"
  /\ LET l == Names[web.next]
     IN  \/ stored' = [stored EXCEPT ![l] = web.snapshot[l]]
         \/ BlobMayFail /\ UNCHANGED stored
  /\ web' = IF web.next = LastBlob THEN Saving("commit", web.snapshot, web.next)
            ELSE Saving("blob", web.snapshot, web.next + 1)
  /\ UNCHANGED <<acl, stats, verdict, edits>>

Commit ==
  /\ web.pc = "commit" /\ \E a \in {"ok", "nvs_save_error"} : web' = Done(a)
  /\ UNCHANGED <<acl, stats, stored, verdict, edits>>

(* load_acl_rules: the tables are cleared, then read; hits start over.     *)
Zeroed(table) == [l \in Lists |-> [i \in Slots |-> [rule |-> table[l][i].rule, hits |-> 0]]]

Restart ==
  /\ acl' = Zeroed(stored) /\ stats' = [l \in Lists |-> [allowed |-> 0, denied |-> 0]]
  /\ web' = Done("none") /\ UNCHANGED <<stored, verdict, edits>>

Next ==
  \/ \E l \in Lists, p \in Packets : Check(l, p)
  \/ \E l \in Lists, r \in Rules : Add(l, r)
  \/ \E l \in Lists, i \in Slots : Delete(l, i)
  \/ \E l \in Lists : Clear(l)
  \/ Snapshot \/ Blob \/ Commit \/ Restart

Spec == Init /\ [][Next]_vars

-----------------------------------------------------------------------------
(* firewall_handler: a list as the page shows it, up to its first free     *)
(* slot.                                                                   *)
Free(list) == Min({i \in 1 .. MaxEntries + 1 : i \in Slots => ~Valid(list[i])})
Page(list) == SubSeq(list, 1, Free(list) - 1)

(* What the page shows behaves as lists of rules in the order of their     *)
(* addition of which the first that matches decides, whatever was deleted  *)
(* between, and each rule keeps its own hits.                              *)
Ordered(table) == [l \in Lists |-> Page(table[l])]
Policy == INSTANCE RuleLists WITH rules <- Ordered(acl), saved <- Ordered(Zeroed(stored))
FirstMatchDecides == Policy!Spec

(* "operator sees the silent NVS-out-of-space failure instead of a green   *)
(* "Saved" lie" (web_ui.c:664): after an edit that was answered with ok a  *)
(* restart brings back the very rules that are in force.                   *)
SavedIsSaved ==
  web.answer = "ok" => \A l \in Lists, i \in Slots : stored[l][i].rule = acl[l][i].rule

(* "list is compacted" (web_ui.c:1497): the page shows a list up to the    *)
(* first free slot, and that is all of it, also after a restart in the     *)
(* middle of a save.                                                       *)
ShownWhole ==
  \A l \in Lists, i, j \in Slots :
    i < j => /\ Valid(acl[l][j]) => Valid(acl[l][i])
             /\ Valid(stored[l][j]) => Valid(stored[l][i])
=============================================================================
