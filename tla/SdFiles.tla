------------------------------ MODULE SdFiles ------------------------------
(* The files of the SD recorder (components/sdlog/sdlog.c): numbered log   *)
(* files on the card, the next number in RAM and in NVS, rotation and      *)
(* pruning.  The file mutex makes open_new_file and sdlog_erase_all atomic *)
(* for other tasks, so only a reset comes between their steps.  A card     *)
(* that refuses an operation is left out, except that fopen may fail: then *)
(* nothing changes and the writer tries again on its next tick.            *)
EXTENDS Integers, FiniteSets, FiniteSetsExt

CONSTANTS
  MaxFiles,       \* s_max_files
  MaxSeq,         \* bound: highest file number used
  NvsMayFail,     \* whether a write to NVS may fail
  FactoryResets   \* whether NVS may be erased (the card is not)

ASSUME ConstantsAssumption ==
  /\ MaxFiles \in Nat \ {0} /\ MaxSeq \in Nat \ {0}
  /\ NvsMayFail \in BOOLEAN /\ FactoryResets \in BOOLEAN

VARIABLES
  files,      \* numbers of the *.LOG files on the card
  logged,     \* those that hold log lines (the others hold a header)
  active,     \* number of the file s_fp is open on, 0 when s_fp is NULL
  nextSeq,    \* s_next_seq
  nvsSeq,     \* NVS "sdlog_seq", 0 when the key is absent
  pc,         \* the recorder: off, or its place in open_new_file
  truncated   \* history: a file that held log lines was opened for writing

vars == <<files, logged, active, nextSeq, nvsSeq, pc, truncated>>

Seqs == 1..MaxSeq

TypeOK ==
  /\ files \subseteq Seqs /\ logged \subseteq files
  /\ active \in 0..MaxSeq
  /\ nextSeq \in 1..(MaxSeq + 1) /\ nvsSeq \in 0..(MaxSeq + 1)
  /\ pc \in {"off", "closed", "opened", "prune", "open"}
  /\ truncated \in BOOLEAN

(* load_config: an absent key leaves s_next_seq at its initial 1. *)
LoadSeq(v) == IF v = 0 THEN 1 ELSE v

(* The first boot with an empty card. *)
Init ==
  /\ files = {} /\ logged = {} /\ active = 0
  /\ nvsSeq = 0 /\ nextSeq = LoadSeq(nvsSeq)
  /\ pc \in {"off", "closed"} /\ truncated = FALSE

-----------------------------------------------------------------------------
(* fopen(name, "w") under the next number, which is then advanced. *)
OpenNew ==
  /\ pc = "closed" /\ nextSeq <= MaxSeq
  /\ files' = files \cup {nextSeq} /\ logged' = logged \ {nextSeq}
  /\ truncated' = (truncated \/ nextSeq \in logged)
  /\ active' = nextSeq /\ nextSeq' = nextSeq + 1
  /\ pc' = "opened"
  /\ UNCHANGED nvsSeq

(* save_seq, whose result is not looked at. *)
Saved_Before == nextSeq - 1
Saved == nextSeq

SaveSeq ==
  /\ pc = "opened"
  /\ nvsSeq' \in {Saved} \cup (IF NvsMayFail THEN {nvsSeq} ELSE {})
  /\ pc' = "prune"
  /\ UNCHANGED <<files, logged, active, nextSeq, truncated>>

(* prune_old_files, one deletion at a time: the smallest name goes. *)
Victim == Min(files)

(* count <= s_max_files ends the loop. *)
PruneDone == Cardinality(files) <= MaxFiles

Prune ==
  /\ pc = "prune"
  /\ IF PruneDone
     THEN pc' = "open" /\ UNCHANGED <<files, logged>>
     ELSE /\ files' = files \ {Victim} /\ logged' = logged \ {Victim}
          /\ UNCHANGED pc
  /\ UNCHANGED <<active, nextSeq, nvsSeq, truncated>>

(* The writer writes a line; a file that reached SDLOG_FILE_MAX_BYTES is   *)
(* closed for the next one.  What is written to a file that was unlinked   *)
(* is not on the card.                                                     *)
WriteLine ==
  /\ pc = "open"
  /\ logged' = logged \cup ({active} \cap files)
  /\ \/ UNCHANGED <<active, pc>>
     \/ active' = 0 /\ pc' = "closed"
  /\ UNCHANGED <<files, nextSeq, nvsSeq, truncated>>

(* The poison pill: the writer closes the file and ends. *)
Stop ==
  /\ pc \in {"open", "closed"}
  /\ active' = 0 /\ pc' = "off"
  /\ UNCHANGED <<files, logged, nextSeq, nvsSeq, truncated>>

(* start_writer: the new task opens a file at once. *)
Start ==
  /\ pc = "off"
  /\ pc' = "closed"
  /\ UNCHANGED <<files, logged, active, nextSeq, nvsSeq, truncated>>

(* sdlog_erase_all closes the active file and unlinks all of them; the     *)
(* writer notices that s_fp is NULL and opens a new one.                   *)
EraseAll ==
  /\ pc \in {"open", "closed", "off"}
  /\ files' = {} /\ logged' = {} /\ active' = 0
  /\ pc' = IF pc = "off" THEN "off" ELSE "closed"
  /\ UNCHANGED <<nextSeq, nvsSeq, truncated>>

(* NVS as a boot may find it: as it was left, or erased by the factory     *)
(* reset of the CLI or the web UI, or by app_main for want of free pages.  *)
Found == {nvsSeq} \cup (IF FactoryResets THEN {0} ELSE {})

(* A reset anywhere; the recorder starts if NVS says that it is enabled. *)
Boot ==
  /\ nvsSeq' \in Found /\ nextSeq' = LoadSeq(nvsSeq')
  /\ active' = 0 /\ pc' \in {"off", "closed"}
  /\ UNCHANGED <<files, logged, truncated>>

Next ==
  \/ OpenNew \/ SaveSeq \/ Prune \/ WriteLine \/ Stop \/ Start \/ EraseAll
  \/ Boot

Spec == Init /\ [][Next]_vars

-----------------------------------------------------------------------------
(* The comment on the file numbers: the next file, and the next boot, get  *)
(* a unique name.  No file with log lines is ever opened for writing again,*)
(* wherever a reset cuts the writer short.                                 *)
NeverTruncates == ~truncated

(* prune_old_files deletes the oldest files: never the one that the writer *)
(* has open.                                                               *)
ActiveSurvives == active # 0 => active \in files

(* prune_old_files: at most s_max_files files while the recorder writes. *)
FilesBounded == pc = "open" => Cardinality(files) <= MaxFiles

(* Why: outside the window between fopen and save_seq the number in RAM is *)
(* the one the next boot loads; a file that carries it, left by a reset in *)
(* that window, holds no line; and the open file has the largest number.   *)
SeqInv ==
  /\ nextSeq = IF pc = "opened" THEN LoadSeq(nvsSeq) + 1 ELSE LoadSeq(nvsSeq)
  /\ \A f \in logged : f < LoadSeq(nvsSeq)
  /\ \A f \in files : f <= LoadSeq(nvsSeq)

ActiveInv ==
  IF pc \in {"off", "closed"}
  THEN active = 0
  ELSE /\ active = nextSeq - 1 /\ active \in files
       /\ \A f \in files : f <= active

FilesInv == SeqInv /\ ActiveInv /\ NeverTruncates
=============================================================================
