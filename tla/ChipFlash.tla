----------------------------- MODULE ChipFlash ------------------------------
(***************************************************************************)
(* chip-update-firmware.sh with common.sh: download the images into a      *)
(* cache, find out the type of the NAND with a U-Boot uploaded over FEL,   *)
(* then upload SPL, U-Boot and a U-Boot script that erases and writes the  *)
(* NAND, and flash the UBI image over fastboot.                            *)
(*                                                                         *)
(* Board, network and user are external.  Downloads and runs of the script *)
(* may be cut off; the cache and the board survive.                        *)
(***************************************************************************)
EXTENDS Integers, Sequences, FiniteSets

CONSTANTS NandTypes,        \* erase, write and oob size, as in the file names
          CfMaxRuns         \* bound: runs of the script

VARIABLES cf_pc, cf_run, cf_format,   \* format: the -F option, or "detect"
          cf_dir, cf_cache,           \* the cache directory and its files
          cf_k,                       \* the next of PROBES or of the steps
          cf_board,                   \* [type, mode]
          cf_type,                    \* nand_* variables and UBI_TYPE
          cf_mem, cf_nand, cf_rc, cf_said

cfVars == <<cf_pc, cf_run, cf_format, cf_dir, cf_cache, cf_k, cf_board, cf_type, cf_mem,
            cf_nand, cf_rc, cf_said>>

(* The files of a build; those with a type in their name once per type. *)
Plain == {<<"sunxi-spl", "any">>, <<"u-boot-dtb", "any">>}
Probes == Plain \cup ({"spl", "uboot"} \X NandTypes)
CacheFiles == Probes \cup ({"ubi"} \X NandTypes)
NoFiles == [f \in CacheFiles |-> "none"]
Erased == [spl |-> "erased", uboot |-> "erased", ubi |-> "erased"]

CfOff ==
    /\ cf_pc = "off" /\ cf_run = 0 /\ cf_format = "none" /\ cf_dir = FALSE /\ cf_cache = <<>>
    /\ cf_k = 0 /\ cf_board = <<>> /\ cf_type = "none" /\ cf_mem = <<>> /\ cf_nand = <<>>
    /\ cf_rc = 0 /\ cf_said = "none"

CfInit ==
    /\ cf_pc = "start" /\ cf_run = 1 /\ cf_format \in NandTypes \cup {"detect"}
    /\ cf_dir = FALSE /\ cf_cache = NoFiles /\ cf_k = 0
    /\ cf_board \in [type : NandTypes, mode : {"fel", "off"}]
    /\ cf_type = "none" /\ cf_nand = Erased
    /\ cf_mem = [spl |-> "none", uboot |-> "none", script |-> "none"]
    /\ cf_rc = 0 /\ cf_said = "none"

CfKeep == UNCHANGED <<cf_run, cf_format>>
Board(mode) == cf_board' = [cf_board EXCEPT !.mode = mode]
Quit(said) == cf_pc' = "quit" /\ cf_said' = said

-----------------------------------------------------------------------------
(* The options and the first part of dl_probe: a directory that is there   *)
(* is taken for complete.                                                  *)
Begin ==
    /\ cf_pc = "start"
    /\ \E force \in BOOLEAN :
          IF cf_dir /\ ~force
          THEN cf_pc' = "stage" /\ UNCHANGED <<cf_dir, cf_cache>>
          ELSE cf_pc' = "fetch" /\ cf_dir' = TRUE /\ cf_cache' = NoFiles
    /\ CfKeep /\ UNCHANGED <<cf_k, cf_board, cf_type, cf_mem, cf_nand, cf_rc, cf_said>>

(* wget of a file: "exit $?" behind the message exits with 0. *)
Wget(file, next) ==
    \/ cf_cache' = [cf_cache EXCEPT ![file] = "good"] /\ cf_pc' = next /\ UNCHANGED cf_said
    \/ /\ \E left \in {"none", "part"} : cf_cache' = [cf_cache EXCEPT ![file] = left]
       /\ Quit("download failed")

FetchProbe ==
    /\ cf_pc = "fetch"
    /\ IF \A f \in Probes : cf_cache[f] = "good"
       THEN cf_pc' = "stage" /\ UNCHANGED <<cf_cache, cf_said>>
       ELSE \E f \in Probes : cf_cache[f] = "none" /\ Wget(f, "fetch")
    /\ CfKeep /\ UNCHANGED <<cf_dir, cf_k, cf_board, cf_type, cf_mem, cf_nand, cf_rc>>

(* -F, or detect_nand: SPL, U-Boot and a script that leaves the sizes in   *)
(* SRAM and resets; every step that fails ends the script.                 *)
Stage ==
    /\ cf_pc = "stage"
    /\ \/ /\ cf_format # "detect"
          /\ cf_type' = cf_format /\ cf_pc' = "ubi" /\ UNCHANGED <<cf_board, cf_mem, cf_said>>
       \/ /\ cf_format = "detect" /\ cf_board.mode = "fel"
          /\ \A f \in Plain : cf_cache[f] = "good"
          /\ cf_type' = cf_board.type /\ cf_pc' = "ubi"
          /\ cf_mem' = [cf_mem EXCEPT !.uboot = "u-boot-dtb", !.script = "detect"]
          /\ UNCHANGED <<cf_board, cf_said>>
       \/ /\ cf_format = "detect" /\ Quit("detect failed")
          /\ Board("off") /\ UNCHANGED <<cf_type, cf_mem>>
    /\ CfKeep /\ UNCHANGED <<cf_dir, cf_cache, cf_k, cf_nand, cf_rc>>

FetchUbi ==
    /\ cf_pc = "ubi"
    /\ IF cf_cache[<<"ubi", cf_type>>] # "none"
       THEN cf_pc' = "flash" /\ UNCHANGED <<cf_cache, cf_said>>
       ELSE Wget(<<"ubi", cf_type>>, "flash")
    /\ cf_rc' = 0 /\ cf_k' = 1
    /\ CfKeep /\ UNCHANGED <<cf_dir, cf_board, cf_type, cf_mem, cf_nand>>

-----------------------------------------------------------------------------
(* flash_images.  A step that fails sets RC, and the next one is taken.    *)
FlashSteps == <<"mkimage", "wait", "spl", "uboot", "wspl", "script", "exe", "fastboot", "ubi",
                "return">>
At(step) == cf_pc = "flash" /\ FlashSteps[cf_k] = step

ReturnCodeOfLast(ok) == IF ok THEN 0 ELSE 1      \* mutant: only the last step counts
ReturnCode(ok) == IF ok THEN cf_rc ELSE 1
Step(ok) ==
    /\ cf_rc' = ReturnCode(ok) /\ cf_k' = cf_k + 1
    /\ CfKeep /\ UNCHANGED <<cf_pc, cf_dir, cf_cache, cf_type, cf_said>>
StepFails == Step(FALSE) /\ UNCHANGED <<cf_board, cf_mem, cf_nand>>

Prepare ==
    /\ \/ At("mkimage") /\ \E ok \in BOOLEAN : Step(ok)
       \/ At("wait") /\ Step(cf_board.mode = "fel")
    /\ UNCHANGED <<cf_board, cf_mem, cf_nand>>

UploadSpl ==
    /\ At("spl")
    /\ \/ /\ cf_board.mode = "fel" /\ cf_cache[<<"sunxi-spl", "any">>] = "good"
          /\ Board("dram") /\ Step(TRUE) /\ UNCHANGED <<cf_mem, cf_nand>>
       \/ StepFails

(* sunxi-fel write, of a whole file or of one that was cut off. *)
Write(step, field, content) ==
    /\ At(step)
    /\ \/ /\ cf_board.mode = "dram" /\ content # "none"
          /\ cf_mem' = [cf_mem EXCEPT ![field] = content]
          /\ Step(TRUE) /\ UNCHANGED <<cf_board, cf_nand>>
       \/ StepFails

Content(name) == IF cf_cache[<<name, cf_type>>] = "good" THEN cf_type
                 ELSE cf_cache[<<name, cf_type>>]
UploadImages ==
    \/ Write("uboot", "uboot", Content("uboot"))
    \/ Write("wspl", "spl", Content("spl"))
    \/ Write("script", "script", "flash")

(* U-Boot and its script, external: the script erases the NAND, writes SPL *)
(* and U-Boot from memory and enters fastboot, whether its "nand" commands *)
(* succeeded or not: nobody looks at their results.                        *)
Execute ==
    /\ At("exe")
    /\ \/ /\ cf_board.mode = "dram" /\ cf_mem.script = "flash"
          /\ \E base \in {Erased, cf_nand} :
                \E spl \in {cf_mem.spl, "failed"}, uboot \in {cf_mem.uboot, "failed"} :
                   cf_nand' = [base EXCEPT !.spl = spl, !.uboot = uboot]
          /\ Board("fastboot") /\ Step(TRUE)
       \/ /\ cf_board.mode = "dram" /\ Board("off") /\ Step(TRUE) /\ UNCHANGED cf_nand
       \/ Step(FALSE) /\ UNCHANGED <<cf_board, cf_nand>>
    /\ UNCHANGED cf_mem

Fastboot ==
    /\ \/ /\ At("fastboot")
          /\ IF cf_board.mode = "fastboot"
             THEN Step(TRUE)
             ELSE /\ cf_rc' = 1 /\ cf_k' = Len(FlashSteps)   \* wait_for_fastboot: TIMEOUT
                  /\ CfKeep /\ UNCHANGED <<cf_pc, cf_dir, cf_cache, cf_type, cf_said>>
          /\ UNCHANGED <<cf_board, cf_nand>>
       \/ /\ At("ubi")
          /\ \/ /\ cf_nand' = [cf_nand EXCEPT !.ubi = Content("ubi")]
                /\ Board("off") /\ Step(TRUE)
             \/ Step(FALSE) /\ UNCHANGED <<cf_board, cf_nand>>
    /\ UNCHANGED cf_mem

(* flash_images && ready_to_roll || ... *)
Return ==
    /\ At("return")
    /\ Quit(IF cf_rc = 0 THEN "ready to roll" ELSE "verification failed")
    /\ CfKeep /\ UNCHANGED <<cf_dir, cf_cache, cf_k, cf_board, cf_type, cf_mem, cf_nand, cf_rc>>

(* The user interrupts a download, or tries again with the board in FEL    *)
(* mode.                                                                   *)
CutOff ==
    /\ cf_pc \in {"fetch", "ubi"}
    /\ \E f \in CacheFiles : /\ cf_cache[f] = "none"
                             /\ f \in Probes <=> cf_pc = "fetch"
                             /\ cf_cache' = [cf_cache EXCEPT ![f] = "part"]
    /\ Quit("interrupted")
    /\ CfKeep /\ UNCHANGED <<cf_dir, cf_k, cf_board, cf_type, cf_mem, cf_nand, cf_rc>>

TryAgain ==
    /\ cf_pc = "quit" /\ cf_run < CfMaxRuns
    /\ cf_run' = cf_run + 1 /\ cf_pc' = "start" /\ cf_said' = "none" /\ cf_rc' = 0
    /\ cf_k' = 0 /\ Board("fel")
    /\ UNCHANGED <<cf_format, cf_dir, cf_cache, cf_type, cf_mem, cf_nand>>

CfNext ==
    \/ Begin \/ FetchProbe \/ Stage \/ FetchUbi \/ Prepare \/ UploadSpl \/ UploadImages
    \/ Execute \/ Fastboot \/ Return \/ CutOff \/ TryAgain

-----------------------------------------------------------------------------
(* "CHIP is ready to roll!" (common.sh 274) is said only of a board that   *)
(* was given the SPL, the U-Boot and the UBI image of one type, its own if *)
(* it was detected, however many steps of however many runs failed before: *)
(* nothing of another type or of an earlier run is in its NAND.  Files     *)
(* that were cut off are excepted, as the cache is not checked ("Download  *)
(* could be corrupt"), and so are SPL and U-Boot when U-Boot's script      *)
(* could not write them (156-158), which the host is not told.             *)
ReadyMeansFlashed ==
    cf_said = "ready to roll" =>
        /\ cf_format = "detect" => cf_type = cf_board.type
        /\ \A part \in {"spl", "uboot", "ubi"} :
              \/ cf_nand[part] = cf_type
              \/ cf_nand[part] = "part" /\ cf_cache[<<part, cf_type>>] = "part"
              \/ cf_nand[part] = "failed" /\ part # "ubi"

-----------------------------------------------------------------------------
(***************************************************************************)
(* chip-fel-flash.sh and chip-flash: the older scripts that flash a local  *)
(* build, with assert_error behind the steps, and verify.sh, which logs in *)
(* over the serial gadget afterwards.  Commands, board and chat are        *)
(* external: each may fail.                                                *)
(***************************************************************************)

CONSTANTS VerifyTries       \* 3

VARIABLES ff_pc, ff_script, ff_method, ff_stages, ff_k,
          ff_failed,        \* steps whose command failed
          ff_said, ff_try, ff_getty, ff_getty0, ff_disabled

ffVars == <<ff_pc, ff_script, ff_method, ff_stages, ff_k, ff_failed, ff_said, ff_try, ff_getty,
            ff_getty0, ff_disabled>>

FfOff ==
    /\ ff_pc = "off" /\ ff_script = "none" /\ ff_method = "none" /\ ff_stages = {} /\ ff_k = 0
    /\ ff_failed = {} /\ ff_said = "none" /\ ff_try = 0 /\ ff_getty = FALSE
    /\ ff_getty0 = FALSE /\ ff_disabled = FALSE

(* The commands in their order, with the stage of chip-flash and whether a *)
(* failure reaches assert_error: "|| ( echo ... && exit $? )" leaves the   *)
(* status of the echo, "rm" none.                                          *)
Cmd(name, stage, stops) == [name |-> name, stage |-> stage, stops |-> stops]
FelFlashCmds(method) ==
    <<Cmd("spl", 0, TRUE), Cmd("write spl", 1, FALSE), Cmd("write uboot", 2, FALSE),
      Cmd("write script", 3, FALSE)>>
    \o IF method = "fel" THEN <<Cmd("write ubi", 4, FALSE), Cmd("exe", 5, FALSE)>>
       ELSE <<Cmd("exe", 4, TRUE), Cmd("img2simg", 5, TRUE), Cmd("wait_for_fastboot", 5, TRUE),
              Cmd("flash UBI", 5, TRUE), Cmd("continue", 5, TRUE)>>
ChipFlashCmds(method) ==
    <<Cmd("spl", 0, TRUE), Cmd("write spl", 1, TRUE), Cmd("write uboot", 2, TRUE),
      Cmd("write script", 3, FALSE)>>
    \o IF method = "fel" THEN <<Cmd("write ubi", 4, TRUE), Cmd("exe", 5, TRUE)>>
       ELSE <<Cmd("exe", 4, TRUE), Cmd("img2simg", 5, TRUE), Cmd("wait_for_fastboot", 5, TRUE),
              Cmd("flash UBI", 5, TRUE), Cmd("continue", 5, TRUE)>>

Cmds == IF ff_script = "chip-fel-flash" THEN FelFlashCmds(ff_method)
        ELSE LET wanted(c) == c.stage \in ff_stages
             IN  SelectSeq(ChipFlashCmds(ff_method), wanted)

FfInit ==
    /\ \/ ff_script = "chip-fel-flash" /\ ff_stages = {}
       \/ /\ ff_script = "chip-flash"          \* --stage, or all of them
          /\ ff_stages \in {0 .. 5} \cup {{s} : s \in 0 .. 5} \cup {{1, 2, 3}}
    /\ ff_method \in {"fel", "fastboot"} /\ ff_pc = "run" /\ ff_k = 1 /\ ff_failed = {}
    /\ ff_said = "none" /\ ff_try = 0 /\ ff_getty0 \in BOOLEAN /\ ff_getty = ff_getty0
    /\ ff_disabled = FALSE

FfKeep == UNCHANGED <<ff_script, ff_method, ff_stages, ff_getty0>>

(* assert_error: a failure it sees ends the script. *)
Seen(c) == c.stops

(* The board, external: without U-Boot it hangs, without the script U-Boot *)
(* boots what the NAND holds and does not enter fastboot.                  *)
Hangs == ff_failed \cap {"write uboot", "exe"} # {}
Works(name) == name = "wait_for_fastboot" => ~Hangs /\ "write script" \notin ff_failed

Command ==
    /\ ff_pc = "run" /\ ff_k <= Len(Cmds)
    /\ \/ Works(Cmds[ff_k].name) /\ ff_k' = ff_k + 1 /\ UNCHANGED <<ff_pc, ff_failed>>
       \/ /\ ff_failed' = ff_failed \cup {Cmds[ff_k].name}
          /\ IF Seen(Cmds[ff_k]) THEN ff_pc' = "exit" /\ UNCHANGED ff_k
             ELSE ff_k' = ff_k + 1 /\ UNCHANGED ff_pc
    /\ FfKeep /\ UNCHANGED <<ff_said, ff_try, ff_getty, ff_disabled>>

(* wait_for_linuxboot, and verify.sh up to its loop. *)
Booted ==
    /\ ff_pc = "run" /\ ff_k > Len(Cmds)
    /\ IF ff_script = "chip-flash" THEN ff_pc' = "exit" /\ UNCHANGED <<ff_getty, ff_disabled>>
       ELSE IF ff_method = "fastboot" THEN ff_pc' = "ready" /\ UNCHANGED <<ff_getty, ff_disabled>>
       ELSE \/ ff_pc' = "exit" /\ UNCHANGED <<ff_getty, ff_disabled>>
            \/ /\ ~Hangs /\ ff_pc' = "verify"
               /\ ff_disabled' = ff_getty /\ ff_getty' = FALSE
    /\ FfKeep /\ UNCHANGED <<ff_k, ff_failed, ff_said, ff_try>>

(* A login with chat; "exit 1" leaves a subshell, and the loop goes on. *)
Login ==
    /\ ff_pc = "verify" /\ ff_try < VerifyTries
    /\ \/ ff_try' = VerifyTries + 1             \* break
       \/ ff_try' = ff_try + 1
    /\ FfKeep /\ UNCHANGED <<ff_pc, ff_k, ff_failed, ff_said, ff_getty, ff_disabled>>

Restart == ff_getty' = IF ff_disabled THEN TRUE ELSE ff_getty

Verified ==
    /\ ff_pc = "verify" /\ ff_try >= VerifyTries
    /\ ff_said' = "SUCCESS: CHIP is powering down" /\ ff_pc' = "ready"
    /\ Restart
    /\ FfKeep /\ UNCHANGED <<ff_k, ff_failed, ff_try, ff_disabled>>

Ready ==
    /\ ff_pc = "ready" /\ ff_pc' = "exit" /\ ff_said' = "ready to roll"
    /\ FfKeep /\ UNCHANGED <<ff_k, ff_failed, ff_try, ff_getty, ff_disabled>>

FfNext == Command \/ Booted \/ Login \/ Verified \/ Ready

-----------------------------------------------------------------------------
(* The getty on the serial gadget that verify.sh stops runs again when the *)
(* script has ended, whether the login ever succeeded or not.              *)
GettyBack == ff_pc = "exit" => ff_getty = ff_getty0

(* chip-fel-flash.sh says that the board is ready only when U-Boot was     *)
(* uploaded and started, and with fastboot also its script and the UBI     *)
(* image, although the assert_error behind these uploads never sees one    *)
(* fail ("|| ( echo ... && exit $? )", 169-178): the board does not come   *)
(* up then, and the waits run out.  Nothing is said of the padded SPL and, *)
(* with fel, of the script and the UBI image: they may be missing unseen.  *)
ReadyMeansRun ==
    ff_said = "ready to roll" =>
        /\ ff_failed \subseteq {"write spl", "write script", "write ubi"}
        /\ ff_method = "fastboot" => ff_failed \subseteq {"write spl"}
=============================================================================
