---------------------------- MODULE ResetHistory ----------------------------
(* What a boot makes of the reset before it: the row of the reset history  *)
(* (main/reset_history.c), the core dump's line attached to that row, and  *)
(* the cause of a deliberate restart (both main/main.c). Each NVS write is *)
(* a step of its own, so that a reset may fall between any two. A boot is  *)
(* its number, a crash the number of the boot it led to, the tag of a      *)
(* restart the number of the boot that wrote it.                           *)
EXTENDS Naturals, Sequences, SequencesExt

CONSTANTS
  Rows,          \* RESET_HISTORY_MAX
  MaxBoots

VARIABLES
  boot, reason,  \* this boot and esp_reset_reason()
  image, former, \* the firmware that runs, and the one in the other partition
  staged,        \* the firmware uploaded for the next boot, 0 when none
  trial,         \* the firmware that runs has not marked itself valid
  invalid,       \* esp_ota_get_last_invalid_partition() # NULL
  changes,       \* how often the firmware that runs has changed
  dump,          \* the core dump in flash, 0 when none
  sha, hist,     \* app_sha8 and rst_hist in NVS
  lastCrash,     \* last_crash in NVS
  why,           \* reboot_why in NVS, 0 when empty
  pc, label,     \* where app_main is, and classify_reset's result
  cause,         \* g_reboot_why
  told,          \* history: the causes that boots which got to run have reported
  cut,           \* history: a boot was reset before its row was written
  bare           \* history: a watchdog reset the chip with a core dump unread

nvsv == <<sha, hist, lastCrash, why>>
chip == <<boot, reason, image, former, staged, trial, invalid, changes>>
vars == <<chip, dump, nvsv, pc, label, cause, told, cut, bare>>

Init ==
  /\ boot = 1 /\ reason = "POWERON" /\ image = 1 /\ former = 0 /\ staged = 0 /\ dump = 0
  /\ trial = FALSE /\ invalid = FALSE /\ changes = 0
  /\ sha = 0 /\ hist = <<>> /\ lastCrash = 0 /\ why = 0
  /\ pc = "classify" /\ label = "" /\ cause = 0 /\ told = <<>> /\ cut = FALSE
  /\ bare = FALSE

-----------------------------------------------------------------------------
(* classify_reset: a new fingerprint is stored at once. The keys last_rst, *)
(* rst_count and rst_who are left out: the first two are never read, and   *)
(* nothing calls reset_history_note_restart, which sets the third.         *)
Changed == sha # image

Stored == image

Classify ==
  /\ pc = "classify"
  /\ label' = IF ~Changed THEN reason ELSE IF invalid THEN "ROLLBACK" ELSE "FLASH"
  /\ sha' = Stored
  /\ pc' = "record"
  /\ UNCHANGED <<chip, dump, hist, lastCrash, why, cause, told, cut, bare>>

(* reset_history_record_boot: the older rows lose a crash that is not      *)
(* theirs (sanitize_blob) and move down.                                   *)
Crashed(r) == r \in {"PANIC", "WDT"}
Clean(r) == IF Crashed(r.reason) THEN r ELSE [r EXCEPT !.crash = 0]
Shown == [i \in DOMAIN hist |-> Clean(hist[i])]

Inherited_Kept == IF hist = <<>> THEN 0 ELSE hist[1].crash
Inherited == 0

Record ==
  /\ pc = "record"
  /\ LET row == [boot |-> boot, change |-> changes, reason |-> label, crash |-> Inherited]
         all == <<row>> \o Shown
     IN  hist' = SubSeq(all, 1, IF Len(all) < Rows THEN Len(all) ELSE Rows)
  /\ pc' = IF dump # 0 THEN "note" ELSE "why"
  /\ UNCHANGED <<chip, dump, sha, lastCrash, why, label, cause, told, cut, bare>>

(* app_main: last_crash and the row take the dump's summary, and the dump  *)
(* is erased; one that cannot be read is erased only.                      *)
Note ==
  /\ pc = "note"
  /\ \/ lastCrash' = dump /\ pc' = "attach"
     \/ pc' = "erase" /\ UNCHANGED lastCrash
  /\ UNCHANGED <<chip, dump, sha, hist, why, label, cause, told, cut, bare>>

Attach ==
  /\ pc = "attach"
  /\ hist' = [hist EXCEPT ![1].crash = dump]
  /\ pc' = "erase"
  /\ UNCHANGED <<chip, dump, sha, lastCrash, why, label, cause, told, cut, bare>>

Erase ==
  /\ pc = "erase"
  /\ dump' = 0
  /\ pc' = "why"
  /\ UNCHANGED <<chip, nvsv, label, cause, told, cut, bare>>

ReadWhy ==
  /\ pc = "why"
  /\ cause' = why /\ pc' = IF why = 0 THEN "run" ELSE "clear"
  /\ UNCHANGED <<chip, dump, nvsv, label, told, cut, bare>>

Reported == 0

ClearWhy ==
  /\ pc = "clear"
  /\ why' = Reported /\ told' = Append(told, cause)
  /\ pc' = "run"
  /\ UNCHANGED <<chip, dump, sha, hist, lastCrash, label, cause, cut, bare>>

-----------------------------------------------------------------------------
(* A reset for a reason; RAM is lost. *)
Reset(r) ==
  /\ boot < MaxBoots
  /\ boot' = boot + 1 /\ reason' = r
  /\ pc' = "classify" /\ label' = "" /\ cause' = 0
  /\ cut' = (cut \/ pc \in {"classify", "record"})
  /\ UNCHANGED <<nvsv, told>>

(* The bootloader takes the uploaded firmware, on trial, or goes back to   *)
(* the former one when the firmware on trial did not confirm itself.       *)
Bootloader ==
  /\ image' = IF staged # 0 THEN staged ELSE IF trial THEN former ELSE image
  /\ former' = IF staged # 0 \/ trial THEN image ELSE former
  /\ invalid' = (invalid \/ trial)
  /\ trial' = (staged # 0) /\ staged' = 0
  /\ changes' = IF staged # 0 \/ trial THEN changes + 1 ELSE changes

PowerLoss == Reset("POWERON") /\ Bootloader /\ UNCHANGED <<dump, bare>>

(* The panic handler writes the core dump over the one before; a watchdog  *)
(* that resets the chip by itself leaves none.                             *)
Panic == Reset("PANIC") /\ Bootloader /\ dump' = boot + 1 /\ UNCHANGED bare
Watchdog ==
  Reset("WDT") /\ Bootloader /\ bare' = (bare \/ dump # 0) /\ UNCHANGED dump

(* esp_restart, by the realign handler after it stored the cause, or by    *)
(* one of the others.                                                      *)
Tag ==
  /\ pc = "run" /\ pc' = "tagged"
  /\ why' = boot
  /\ UNCHANGED <<chip, dump, sha, hist, lastCrash, label, cause, told, cut, bare>>
Restart == pc \in {"run", "tagged"} /\ Reset("SW") /\ Bootloader /\ UNCHANGED <<dump, bare>>

(* ota_upload_handler: new firmware over the air takes the other           *)
(* partition, and waits there for whatever reset comes next.               *)
Upload ==
  /\ pc = "run" /\ ~trial /\ boot < MaxBoots
  /\ staged' = changes + 2 /\ invalid' = FALSE
  /\ UNCHANGED <<boot, reason, image, former, trial, changes, dump, nvsv>>
  /\ UNCHANGED <<pc, label, cause, told, cut, bare>>

Confirm ==
  /\ pc = "run" /\ trial /\ trial' = FALSE
  /\ UNCHANGED <<boot, reason, image, former, staged, invalid, changes, dump, nvsv>>
  /\ UNCHANGED <<pc, label, cause, told, cut, bare>>

Next ==
  \/ Classify \/ Record \/ Note \/ Attach \/ Erase \/ ReadWhy \/ ClearWhy
  \/ PowerLoss \/ Panic \/ Watchdog \/ Tag \/ Restart \/ Upload \/ Confirm

Spec == Init /\ [][Next]_vars

-----------------------------------------------------------------------------
(* The line of a core dump is shown in the row of the boot that followed   *)
(* the crash, and in no other, wherever resets fall; a watchdog that fires *)
(* while a boot is still to read the dump of the crash before is excepted. *)
CrashUnderItsRow ==
  ~bare => \A i \in DOMAIN Shown : Shown[i].crash \in {0, Shown[i].boot}

(* A change of firmware is told by one row, FLASH or ROLLBACK: never by    *)
(* two, and by one as long as none has moved out of the table, unless a    *)
(* reset fell before the row of a boot was written.                        *)
ChangeRows(n) ==
  {i \in DOMAIN hist : hist[i].change = n /\ hist[i].reason \in {"FLASH", "ROLLBACK"}}
ChangeToldOnce ==
  \A n \in 0..changes :
    /\ \A i, j \in ChangeRows(n) : i = j
    /\ pc = "run" /\ ~cut /\ boot <= Rows => ChangeRows(n) # {}

(* "Clear so it's one-shot (a later untagged SW reset then shows a plain   *)
(* reason)": no two boots that got as far as running report one restart.   *)
CauseToldOnce == IsInjective(told)

(* What the page tells of a boot is what happened before it, once: the    *)
(* crash, the new image and the cause of a deliberate restart.            *)
HistoryTrue == CrashUnderItsRow /\ ChangeToldOnce /\ CauseToldOnce
=============================================================================
