------------------------------ MODULE NandPart ------------------------------
(***************************************************************************)
(* sunxi-nand-part (nand-part.c, nand-part-main.c): the four copies of the *)
(* partition table are read, the last good one is changed and written over *)
(* all four.  A write may fail, which the program does not look at, and it *)
(* may be interrupted, also within a write.                                *)
(*                                                                         *)
(* A table is a sequence of <<start, length>>; the checksum covers index   *)
(* and table.                                                              *)
(***************************************************************************)
EXTENDS Integers, Sequences, FiniteSets

CONSTANTS OldTable,         \* what a good copy holds at first
          PartArgs,         \* sets of [start, lens, force]; start -1: not given
          MinStart,         \* MBR_SIZE * MBR_COPY_NUM / 512
          StackStart,       \* values an uninitialised start may have
          MaxParts          \* MAX_PART_COUNT

Copies == 0 .. 3            \* MBR_COPY_NUM

VARIABLES np_pc, np_arg, np_disk, np_was,
          np_mbr,           \* the record mbr points to, freed before it is written
          np_start,         \* start, uninitialised when argv[0] is no number
          np_i, np_said,
          np_failed, np_spoilt  \* copies whose write failed; left half written

npVars == <<np_pc, np_arg, np_disk, np_was, np_mbr, np_start, np_i, np_said,
            np_failed, np_spoilt>>

NpOff ==
    /\ np_pc = "off" /\ np_arg = <<>> /\ np_disk = <<>> /\ np_was = <<>> /\ np_mbr = <<>>
    /\ np_start = 0 /\ np_i = 0 /\ np_said = "none"
    /\ np_failed = {} /\ np_spoilt = {}

(* A copy as it lies on the device: sum is what its checksum was taken of. *)
Copy(i, table) == [magic |-> TRUE, index |-> i, table |-> table, sum |-> <<i, table>>]
Bad == [magic |-> FALSE, index |-> 0, table |-> <<>>, sum |-> <<0, <<>>>>]

NpInit ==
    /\ np_disk \in {[i \in Copies |-> IF i \in good THEN Copy(i, OldTable) ELSE Bad] :
                       good \in SUBSET Copies}
    /\ np_arg \in PartArgs /\ np_was = np_disk
    /\ np_start \in (IF np_arg.start = -1 THEN StackStart ELSE {np_arg.start})
    /\ np_pc = "args" /\ np_mbr = <<>> /\ np_i = 0 /\ np_said = "none"
    /\ np_failed = {} /\ np_spoilt = {}

NpKeep == UNCHANGED <<np_arg, np_was, np_start>>

(* _get_mbr; -f takes every copy as it is and repairs its header. *)
Good(m) == m.magic /\ m.sum = <<m.index, m.table>>
Usable(disk, force) == {i \in Copies : force \/ Good(disk[i])}

(* main and nand_part up to checkmbrs. *)
Arguments ==
    /\ np_pc = "args"
    /\ np_pc' = IF \/ np_arg.start = -1 /\ np_arg.force
                   \/ np_start < MinStart
                   \/ Len(np_arg.lens) > MaxParts - (IF np_arg.start = -1 THEN 1 ELSE 0)
                   \/ ~np_arg.force /\ Usable(np_disk, FALSE) = {}
                THEN "exit" ELSE "change"
    /\ NpKeep /\ UNCHANGED <<np_disk, np_mbr, np_i, np_said, np_failed, np_spoilt>>

(* The table from the parameters; without a start the first partition is   *)
(* kept and the others follow it.                                          *)
NewTable(old) ==
    LET kept == IF np_arg.start = -1 THEN SubSeq(old, 1, 1) ELSE <<>>
        base == IF np_arg.start = -1 THEN old[1][1] + old[1][2] ELSE np_start
        lens == np_arg.lens
        at[k \in 1 .. Len(lens) + 1] == IF k = 1 THEN base ELSE at[k - 1] + lens[k - 1]
    IN  kept \o [k \in 1 .. Len(lens) |-> <<at[k], lens[k]>>]

(* writembrs up to the question.  mbr is the last usable copy.  The record *)
(* is freed (235-238) before it is used (246-252): what the allocator does *)
(* to its head, version and magic, is seen in the copies.                  *)
Change ==
    /\ np_pc = "change"
    /\ LET last == CHOOSE i \in Usable(np_disk, np_arg.force) :
                       \A j \in Usable(np_disk, np_arg.force) : j <= i
           old == np_disk[last].table
       IN  \E magic \in BOOLEAN :
               np_mbr' = [Copy(np_disk[last].index, NewTable(old)) EXCEPT !.magic = magic]
    /\ np_pc' \in {"write", "exit"}         \* the answer, or no backup file
    /\ NpKeep /\ UNCHANGED <<np_disk, np_i, np_said, np_failed, np_spoilt>>

SumOf(i) == <<i, np_mbr.table>>

NextCopy == [np_mbr EXCEPT !.index = np_i, !.sum = SumOf(np_i)]

WriteCopy ==
    /\ np_pc = "write" /\ np_i \in Copies
    /\ np_disk' = [np_disk EXCEPT ![np_i] = NextCopy]
    /\ np_i' = np_i + 1
    /\ NpKeep /\ UNCHANGED <<np_pc, np_mbr, np_said, np_failed, np_spoilt>>

(* The results of lseek and write are not looked at (250-251): a copy that *)
(* could not be written is as it was, or spoilt, and the loop goes on.     *)
WriteFails ==
    /\ np_pc = "write" /\ np_i \in Copies
    /\ \/ UNCHANGED <<np_disk, np_spoilt>>
       \/ /\ np_disk' = [np_disk EXCEPT ![np_i] = Bad]
          /\ np_spoilt' = np_spoilt \cup {np_i}
    /\ np_failed' = np_failed \cup {np_i}
    /\ np_i' = np_i + 1
    /\ NpKeep /\ UNCHANGED <<np_pc, np_mbr, np_said>>

(* checkmbrs on what was written: one good copy is enough, and the last    *)
(* one is shown.                                                           *)
Verify ==
    /\ np_pc = "write" /\ np_i \notin Copies
    /\ np_pc' = "exit"
    /\ np_said' = IF Usable(np_disk, FALSE) = {} THEN "all bad" ELSE "verified"
    /\ NpKeep /\ UNCHANGED <<np_disk, np_mbr, np_i, np_failed, np_spoilt>>

(* The program or the power goes away, within a write as well. *)
Interrupted ==
    /\ np_pc = "write"
    /\ np_pc' = "exit"
    /\ \/ UNCHANGED <<np_disk, np_spoilt>>
       \/ /\ np_i \in Copies
          /\ np_disk' = [np_disk EXCEPT ![np_i] = Bad]
          /\ np_spoilt' = np_spoilt \cup {np_i}
    /\ NpKeep /\ UNCHANGED <<np_mbr, np_i, np_said, np_failed>>

NpNext == Arguments \/ Change \/ WriteCopy \/ WriteFails \/ Verify \/ Interrupted

-----------------------------------------------------------------------------
(* While the copies are rewritten one by one there is always a good one,   *)
(* with the old or the whole new table, if more were good than writes were *)
(* cut short, by an error or by the end of the program: so long as the     *)
(* freed record keeps its head (nand-part.c:235-252).                      *)
OneCopyGood ==
    /\ np_pc # "off" /\ Cardinality(Usable(np_was, FALSE)) > Cardinality(np_spoilt)
    /\ np_mbr # <<>> => np_mbr.magic
    => \E i \in Copies : /\ Good(np_disk[i])
                         /\ np_disk[i].table \in {OldTable, NewTable(OldTable)}

(* What the last check finds good (nand-part.c:145-172, 317-318): every    *)
(* copy whose write did not fail, and these are copies of one table whose  *)
(* partitions follow each other behind the copies.  It does not find that  *)
(* a write failed: such a copy may still hold the old table, and be the    *)
(* one that is shown.                                                      *)
VerifiedWhole ==
    np_said = "verified" =>
        LET new == Copies \ np_failed IN
        /\ np_mbr.magic => \A i \in new : Good(np_disk[i])
        /\ \A i \in new : /\ np_disk[i].index = i
                           /\ np_disk[i].table = np_mbr.table
        /\ LET t == np_mbr.table IN
           /\ \A k \in 1 .. Len(t) - 1 : t[k + 1][1] = t[k][1] + t[k][2]
           /\ np_arg.start # -1 => t[1][1] >= MinStart
=============================================================================
