----------------------------- MODULE MCUbiAll ------------------------------
(* Two instances of UbiFormat: a small device on which the program is cut   *)
(* short and started again, and a larger one whose eraseblocks die in       *)
(* numbers.  A behaviour is one of the first or of the second; the other    *)
(* stays in an initial state.                                               *)
EXTENDS UbiFormat

CONSTANTS DyingEbCnt, DyingImageSizes, DyingForcedEcs, DyingEcs, DyingFaults

VARIABLES device,       \* "small" or "dying"
    d_flash, d_bad, d_pc, d_image_seq, d_image, d_novtbl, d_override_ec,
    d_forced_ec, d_si_ec, d_mean_ec, d_eb, d_written_ebs, d_skip_data_read,
    d_buf, d_fpos, d_eb1, d_eb2, d_caller, d_pattern, d_prev_bb,
    d_consecutive_bad_blocks, d_wear, d_passed, d_bad0, d_faults, d_runs

D == INSTANCE UbiFormat WITH
    EbCnt <- DyingEbCnt, ImageSizes <- DyingImageSizes,
    ForcedEcs <- DyingForcedEcs, Enough <- 95, OldEcs <- DyingEcs,
    OldKinds <- {}, MaxFaults <- DyingFaults, MaxRuns <- 1,
    flash <- d_flash, bad <- d_bad, pc <- d_pc, image_seq <- d_image_seq,
    image <- d_image, novtbl <- d_novtbl, override_ec <- d_override_ec,
    forced_ec <- d_forced_ec, si_ec <- d_si_ec, mean_ec <- d_mean_ec,
    eb <- d_eb, written_ebs <- d_written_ebs,
    skip_data_read <- d_skip_data_read, buf <- d_buf, fpos <- d_fpos,
    eb1 <- d_eb1, eb2 <- d_eb2, caller <- d_caller, pattern <- d_pattern,
    prev_bb <- d_prev_bb, consecutive_bad_blocks <- d_consecutive_bad_blocks,
    wear <- d_wear, passed <- d_passed, bad0 <- d_bad0, faults <- d_faults,
    runs <- d_runs

d_vars == <<d_flash, d_bad, d_pc, d_image_seq, d_image, d_novtbl,
    d_override_ec, d_forced_ec, d_si_ec, d_mean_ec, d_eb, d_written_ebs,
    d_skip_data_read, d_buf, d_fpos, d_eb1, d_eb2, d_caller, d_pattern,
    d_prev_bb, d_consecutive_bad_blocks, d_wear, d_passed, d_bad0, d_faults,
    d_runs>>

(* The device that is not looked at has no bad eraseblocks, and no contents *)
(* to tell apart.                                                           *)
AllInit ==
    /\ device \in {"small", "dying"}
    /\ Init /\ D!Init
    /\ device = "small" => d_bad = {} /\ \A b, c \in D!Ebs : d_flash[b] = d_flash[c]
    /\ device = "dying" => bad = {} /\ \A b \in Ebs : flash[b] = Blank

AllNext ==
    \/ device = "small" /\ Next /\ UNCHANGED <<device, d_vars>>
    \/ device = "dying" /\ D!Next /\ UNCHANGED <<device, vars>>

AllSpec == AllInit /\ [][AllNext]_<<device, vars, d_vars>>

(* On the device whose eraseblocks die the image keeps its order around     *)
(* those that turned bad, and a run in which MaxConsecutive of them in a    *)
(* row turn bad ends there (ubiformat.c:362-384, 418-550).                  *)
DyingDevice == D!ImageInOrder /\ D!NoRunaway
=============================================================================
