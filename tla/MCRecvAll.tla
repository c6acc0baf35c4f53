----------------------------- MODULE MCRecvAll -----------------------------
(* Two instances of RecvImage: a receiver that writes to a flash device,    *)
(* and one that writes to a file while a server of another erasesize sends  *)
(* in the same group.  A behaviour is one of the first or of the second;    *)
(* the other stays in its initial state.                                    *)
EXTENDS RecvImage

CONSTANTS FileImages, FileWrongSize, FileMaxIgnored

VARIABLES to,           \* what is written to: "mtd" or "file"
    f_phase, f_image_crc, f_eraseblocks, f_mtdoffset, f_total_pkts,
    f_block_nr, f_flash, f_bad, f_wfails, f_dfails

F == INSTANCE RecvImage WITH
    Images <- FileImages, WrongSize <- FileWrongSize, DevBlocks <- NrBlocks,
    FileMode <- TRUE, MaxBad <- 0, MaxIgnored <- FileMaxIgnored,
    phase <- f_phase, image_crc <- f_image_crc, eraseblocks <- f_eraseblocks,
    mtdoffset <- f_mtdoffset, total_pkts <- f_total_pkts,
    block_nr <- f_block_nr, flash <- f_flash, bad <- f_bad,
    wfails <- f_wfails, dfails <- f_dfails

f_vars == <<f_phase, f_image_crc, f_eraseblocks, f_mtdoffset, f_total_pkts,
            f_block_nr, f_flash, f_bad, f_wfails, f_dfails>>

AllInit ==
    /\ to \in {"mtd", "file"}
    /\ Init /\ F!Init
    /\ to = "file" => bad = {}

AllNext ==
    \/ to = "mtd" /\ Next /\ UNCHANGED <<to, f_vars>>
    \/ to = "file" /\ F!Next /\ UNCHANGED <<to, vars>>

AllSpec == AllInit /\ [][AllNext]_<<to, vars, f_vars>>

(* The receiver that writes to a file (recv_image.c:83-94): a block with    *)
(* enough packets can be decoded, though nothing is erased and every block  *)
(* is overwritten with its decoded data, and what was left behind by the    *)
(* decode loop is installed (recv_image.c:357-474).                         *)
FileReceived == F!CompleteIsRecoverable /\ F!Delivered
=============================================================================
