---------------------------- MODULE MCDeviceTools ----------------------------
(***************************************************************************)
(* The programs that work on raw flash, on a board over USB and on UBI     *)
(* devices and volumes, one of which is run: their state spaces side by    *)
(* side.                                                                   *)
(***************************************************************************)
EXTENDS Integers, Sequences, FiniteSets

VARIABLES tool, flash, bad, wpc, opt, pos, imglen, mtdoffset, blockstart, filebuf,
    writebuf, faults, hole, dpc, dopt, ofs, end_addr, dblock, badblock, out, tflash, tbad,
    tpc, topt, pass, test_ofs, kbuf, reported, tfaults, eflash, ebad, epc, eopt, eb, told,
    efaults, cflash, file, cpc, st_size, verbose, start, written, compared, cfaults,
    fm_at, fm_op, fm_arg, fm_mem, r0, r1, r2, fm_addr, fm_count, fm_buf, sp_pc, sp_soc,
    sp_len, sp_mem, sp_mmu, sp_icache, sp_ttbr0, sp_tt, sp_cur, sp_left, sp_limit, sp_i,
    sp_runs, fd_pc, fd_opt, fd_bus, fd_driver, fd_claimed, fd_detached, fd_i, fd_list,
    fd_sel, fa_pc, fa_given, fa_argv, fa_log, fa_mem, fa_poked, uboot_entry, uboot_size,
    uboot_autostart, fa_image, fa_header, fa_info, fa_count, fa_started, sf_pc, sf_op,
    sf_start, sf_total, sf_flash, sf_sram, sf_offset, sf_len, sf_hoff, sf_hlen, sf_erase,
    sf_cmds, cmd_idx, np_pc, np_arg, np_disk, np_was, np_mbr, np_start, np_i, np_said,
    np_failed, np_spoilt, cf_pc, cf_run, cf_format, cf_dir, cf_cache, cf_k, cf_board, cf_type, cf_mem, cf_nand,
    cf_rc, cf_said, ff_pc, ff_script, ff_method, ff_stages, ff_k, ff_failed, ff_said,
    ff_try, ff_getty, ff_getty0, ff_disabled, ud_pc, ud_cmd, ud_old, ud_sys, ud_i,
    ud_high, ud_dev, ud_result, ud_mine, ud_gone, ud_beb, ud_always, ud_ever, ud_other,
    uv_pc, uv_cmd, uv_tab, uv_avail, uv_range, uv_i, uv_arg, uv_info, uv_ids, uv_result,
    uv_done, uv_always, uv_ever, uv_other, ini_pc, ini_file, ini_at, ini_section,
    ini_errs, ini_last, ini_slot, ini_n, ini_map, ini_calls, un_pc, un_in, un_i, un_vi,
    un_vtbl, un_auto, un_out, un_layout, un_left, un_lnum, un_exists, un_status, uu_pc,
    uu_cmd, uu_file, uu_bytes, uu_pos, uu_buf, uu_eintr, uu_total, uu_vol, uu_status

rtVars == <<flash, bad, wpc, opt, pos, imglen, mtdoffset, blockstart, filebuf, writebuf,
    faults, hole, dpc, dopt, ofs, end_addr, dblock, badblock, out>>
ntVars == <<tflash, tbad, tpc, topt, pass, test_ofs, kbuf, reported, tfaults>>
feVars == <<eflash, ebad, epc, eopt, eb, told, efaults>>
fcVars == <<cflash, file, cpc, st_size, verbose, start, written, compared, cfaults>>
fmVars == <<fm_at, fm_op, fm_arg, fm_mem, r0, r1, r2, fm_addr, fm_count, fm_buf>>
spVars == <<sp_pc, sp_soc, sp_len, sp_mem, sp_mmu, sp_icache, sp_ttbr0, sp_tt, sp_cur,
    sp_left, sp_limit, sp_i, sp_runs>>
fdVars == <<fd_pc, fd_opt, fd_bus, fd_driver, fd_claimed, fd_detached, fd_i, fd_list,
    fd_sel>>
faVars == <<fa_pc, fa_given, fa_argv, fa_log, fa_mem, fa_poked, uboot_entry, uboot_size,
    uboot_autostart, fa_image, fa_header, fa_info, fa_count, fa_started>>
sfVars == <<sf_pc, sf_op, sf_start, sf_total, sf_flash, sf_sram, sf_offset, sf_len,
    sf_hoff, sf_hlen, sf_erase, sf_cmds, cmd_idx>>
npVars == <<np_pc, np_arg, np_disk, np_was, np_mbr, np_start, np_i, np_said,
    np_failed, np_spoilt>>
cfVars == <<cf_pc, cf_run, cf_format, cf_dir, cf_cache, cf_k, cf_board, cf_type, cf_mem,
    cf_nand, cf_rc, cf_said>>
ffVars == <<ff_pc, ff_script, ff_method, ff_stages, ff_k, ff_failed, ff_said, ff_try,
    ff_getty, ff_getty0, ff_disabled>>
udVars == <<ud_pc, ud_cmd, ud_old, ud_sys, ud_i, ud_high, ud_dev, ud_result, ud_mine,
    ud_gone, ud_beb, ud_always, ud_ever, ud_other>>
uvVars == <<uv_pc, uv_cmd, uv_tab, uv_avail, uv_range, uv_i, uv_arg, uv_info, uv_ids,
    uv_result, uv_done, uv_always, uv_ever, uv_other>>
ipVars == <<ini_pc, ini_file, ini_at, ini_section, ini_errs, ini_last, ini_slot, ini_n,
    ini_map, ini_calls>>
unVars == <<un_pc, un_in, un_i, un_vi, un_vtbl, un_auto, un_out, un_layout, un_left,
    un_lnum, un_exists, un_status>>
uuVars == <<uu_pc, uu_cmd, uu_file, uu_bytes, uu_pos, uu_buf, uu_eintr, uu_total, uu_vol,
    uu_status>>
allVars == <<tool, rtVars, ntVars, feVars, fcVars, fmVars, spVars, fdVars, faVars, sfVars,
    npVars, cfVars, ffVars, udVars, uvVars, ipVars, unVars, uuVars>>

WriteOptions ==
    [start : {0, 1}, align : {1}, len : {3, 6, 9}, skip : {0}, size : {0},
     stdin : BOOLEAN, pad : BOOLEAN, markbad : BOOLEAN, noskipbad : {FALSE},
     writeoob : BOOLEAN, onlyoob : BOOLEAN]
    \cup
    [start : {2}, align : {1, 2}, len : {5}, skip : {0, 1}, size : {0, 3, 4},
     stdin : BOOLEAN, pad : BOOLEAN, markbad : {TRUE}, noskipbad : BOOLEAN,
     writeoob : {FALSE}, onlyoob : {FALSE}]

NandTestOptions ==
    [offset : {0, 1, 7}, length : {2, 7}, passes : {2}, reads : {0, 1},
     keep : BOOLEAN, markbad : BOOLEAN]

FlashEraseOptions ==
    [start : {0, 1, 4}, cnt : {0, 1, 4}, jffs2 : BOOLEAN, noskipbad : BOOLEAN,
     unlock : BOOLEAN, isNAND : BOOLEAN]


PartitionArgs ==
    [start : {-1, 7, 8, 10}, lens : {<<3>>, <<2, 6>>, <<1, 2, 3>>, <<1, 1, 1, 1>>},
     force : BOOLEAN]

Moves == [dst : 0 .. 8, src : 0 .. 8, size : 0 .. 7]
WordTransfers == [addr : {0, 2}, count : 0 .. 7]

UsbBuses ==
    {<<[fel |-> f1, sid |-> s1, driver |-> d1], [fel |-> TRUE, sid |-> 2, driver |-> d2],
       [fel |-> TRUE, sid |-> 2, driver |-> FALSE]>> :
        f1 \in BOOLEAN, s1 \in {1, 2}, d1 \in BOOLEAN, d2 \in BOOLEAN}
UsbOptions == [list : BOOLEAN, sid : 0 .. 3, dev : {0, 1, 2}]

W(w) == [w |-> w, n |-> 0]
N(n) == [w |-> "", n |-> n]
File(size, kind, spl, entry, image) ==
    [size |-> size, kind |-> kind, spl |-> spl, entry |-> entry, image |-> image]
FelFiles ==
    [full |-> File(9, "plain", "sunxi", 3, 2), moved |-> File(9, "plain", "sunxi", 4, 2),
     boot0 |-> File(4, "plain", "other", 0, 0), script |-> File(1, "script", "none", 0, 0),
     uenv |-> File(2, "uEnv", "none", 0, 0), data |-> File(3, "plain", "none", 0, 0),
     empty |-> File(0, "plain", "none", 0, 0)]
FelCommands ==
    {<<W("uboot"), W("full")>>, <<W("spl"), W("moved")>>, <<W("uboot"), W("boot0")>>,
     <<W("write"), N(6), W("script")>>, <<W("write"), N(0), W("data")>>,
     <<W("write"), N(1), W("data")>>, <<W("write"), N(4), W("empty")>>,
     <<W("multi"), N(2), N(7), W("uenv"), N(0), W("script")>>,
     <<W("multi"), N(1), N(6), W("data")>>,
     <<W("fill"), N(0), N(2), N(1)>>, <<W("clear"), N(5), N(0)>>, <<W("clear"), N(2), N(2)>>,
     <<W("fill"), N(8)>>, <<W("memmove"), N(3), N(6), N(2)>>,
     <<W("writel"), N(4), N(0)>>, <<W("exe"), N(1)>>, <<W("ver")>>, <<W("reset64"), N(5)>>}

(* Inputs of sunxi-fexc: words of four bits, names of two characters. *)

UbiDev(mtd, major) == [mtd |-> mtd, major |-> major, vols |-> IF mtd = 1 THEN {0} ELSE {}]
NoDev == [mtd |-> -1, major |-> -1, vols |-> {}]
UbiTrees ==
    {[d \in 0 .. 2 |-> IF d \in ds THEN UbiDev(d, 10 + d) ELSE NoDev] : ds \in {{}, {1}, {0, 2}, {0, 1, 2}}}
UbiCommands ==
    [op : {"attach"}, devn : {-1, 1}, mtdn : {-1, 1}, minor : {-1, 5}, beb : {0, 20, 769}]
    \cup [op : {"detach"}, devn : {-1, 1}, mtdn : {-1, 1}, minor : {-1, 1, 2}]
    \cup [op : {"devinfo", "volinfo"}, major : {11, 12}, minor : 0 .. 2]

NoVolume == [name |-> "", lebs |-> 0, align |-> 1]
Volume(name, lebs, align) == [name |-> name, lebs |-> lebs, align |-> align]
VolumeTables ==
    {[v \in 0 .. 2 |-> t[v + 1]] :
        t \in {<<NoVolume, Volume("a", 2, 4), Volume("b", 1, 1)>>,
               <<NoVolume, NoVolume, Volume("a", 1, 1)>>, <<NoVolume, NoVolume, NoVolume>>}}
VolumeCommands ==
    LET None == {-1} IN
    [op : {"mkvol"}, id : {-1, 1}, name : {"c"}, bytes : {-1, 13}, lebs : None, max : {-1, 1}, align : {1, 4}]
    \cup [op : {"mkvol"}, id : None, name : {"", "c"}, bytes : None, lebs : {1, 2}, max : None, align : {1, 4}]
    \cup [op : {"rmvol"}, id : {-1, 1}, name : {"", "a"}]
    \cup [op : {"rsvol"}, id : {-1, 1}, name : {"", "b"}, bytes : {-1, 9}, lebs : {-1, 3}, max : None]
    \cup [op : {"rename"}, pairs : {<<>>, <<<<"a", "b">>>>, <<<<"a", "b">>, <<"b", "a">>>>}]

IniLine(kind, name, val, more) == [kind |-> kind, name |-> name, val |-> val, more |-> more]
IniLines ==
    {IniLine("section", "s", "", FALSE), IniLine("section", "t", "", FALSE),
     IniLine("value", "k", "1", FALSE), IniLine("value", "k", "2", TRUE),
     IniLine("blank", "", "4", FALSE),
     IniLine("error", "", "5", FALSE)}
IniFileSet == UNION {[1 .. n -> IniLines] : n \in 0 .. 4}

UbiSection(mode, type, img, id, size, name, align, flags) ==
    [mode |-> mode, type |-> type, img |-> img, id |-> id, size |-> size, name |-> name,
     align |-> align, flags |-> flags]
UbiSections ==
    {UbiSection("ubi", "static", n, 0, size, "a", al, fl) :
        n \in {0, 7, 10, 21}, size \in {-1, 0, 15, 40}, al \in {-1, 0, 4, 10}, fl \in {"", "autoresize", "x"}}
    \cup {UbiSection("ubi", t, n, id, size, name, al, "autoresize") :
        t \in {"", "dynamic", "y"}, n \in {0, 10, 13}, id \in {-1, 0, 1, 2}, size \in {-1, 15},
        name \in {"", "a", "b"}, al \in {1, 4}}
    \cup {UbiSection("", "", 7, 1, -1, "b", -1, ""), UbiSection("jffs2", "", 7, 1, -1, "b", -1, "")}
UbiInputs ==
    {<<>>} \cup {<<s>> : s \in UbiSections}
    \cup {<<s, t>> : s \in {x \in UbiSections : /\ x.type = "static" /\ x.size \in {-1, 40}
                                              /\ x.img \in {10, 21} /\ x.align \in {-1, 4} /\ x.flags # "x"},
                      t \in {x \in UbiSections : x.type # "static"}}
    \cup {<<s, s, s>> : s \in {x \in UbiSections : x.type = ""}}

RT == INSTANCE NandWrite WITH
        EbCnt <- 3, PagesPerEb <- 2, PageUnits <- 2, OobUnits <- 1, Options <- WriteOptions,
        MaxFaults <- 2, Methods <- {"skipbad", "padbad", "dumpbad"}
NT == INSTANCE FlashTools WITH
        TestEbs <- 3, Uint32 <- 8, TestOptions <- NandTestOptions, TestMaxFaults <- 2, EraseEbs <-
        3, Uint <- 8, EraseOptions <- FlashEraseOptions, EraseMaxFaults <- 2, CpEbs <- 3, CpEbSize
        <- 3, BufSize <- 2, FileSizes <- {0, 3, 5, 9, 10}, CpMaxFaults <- 2
FM == INSTANCE FelMemory WITH
        FelTop <- 20, MoveArgs <- Moves, WordArgs <- WordTransfers, LcodeMax <- 3, Socs <- {"A10",
        "H3", "A31", "A33", "A64", "A80", "H6", "generic"}, SplLens <- {1, 10, 14, 15, 16, 17, 42,
        43, 44, 46, 47, 60, 63, 64, 65}, SplMaxRuns <- 2
FD == INSTANCE FelMain WITH
        Buses <- UsbBuses, FdOptions <- UsbOptions, Top <- 9, Files <- DOMAIN FelFiles, FileInfo
        <- FelFiles, Templates <- FelCommands, MaxCommands <- 3,
        SfPages <- 96, ProgramSize <- 256, SmallErase <- 16, LargeErase <- 32, MaxChunk <- 4096,
        SfOffsets <- {0, 8, 16, 32}, SfLens <- {1, 256, 3000, 4096, 4097, 8191, 8192, 12288,
        16000}
NP == INSTANCE NandPart WITH
        OldTable <- <<<<8, 4>>, <<12, 5>>>>, PartArgs <- PartitionArgs, MinStart <- 8, StackStart
        <- {0, 9}, MaxParts <- 3
CF == INSTANCE ChipFlash WITH
        NandTypes <- {"mlc", "slc"}, CfMaxRuns <- 2, VerifyTries <- 3
UD == INSTANCE UbiDevices WITH
        UdDevs <- 0 .. 2, UdMtds <- 0 .. 2, UdMajors <- 10 .. 12, UdTrees <- UbiTrees, UdCommands
        <- UbiCommands, UdMaxOther <- 2
UV == INSTANCE UbiVolumes WITH
        UvIds <- 0 .. 2, UvNames <- {"a", "b", "c"}, UvLebSize <- 10, UvTotal <- 5, UvTables <-
        VolumeTables, UvCommands <- VolumeCommands, UvMaxOther <- 2, UuFileSizes <- {0, 3, 5},
        UuCommands <- [truncate : BOOLEAN, img : {"", "file", "-"}, size : {0, 3, 9}, skip : {0,
        2}], UuRsvd <- 8, UuLeb <- 2
IP == INSTANCE Ubinize WITH
        IniFiles <- IniFileSet, DictMinSz <- 2, IniMaxCalls <- 2, UnLeb <- 10, UnMaxVols <- 2,
        UnInputs <- UbiInputs

Init ==
    \/ tool = "nandwrite" /\ RT!RtInit /\ NT!TestOff /\ NT!EraseOff /\ NT!CpOff
       /\ FM!FelOff /\ FM!SplOff /\ FD!FdOff /\ FD!FaOff /\ FD!SfOff /\ NP!NpOff
       /\ CF!CfOff /\ CF!FfOff /\ UD!UdOff /\ UV!UvOff /\ IP!IniOff /\ IP!UnOff
       /\ UV!UuOff
    \/ tool = "nandtest" /\ NT!TestInit /\ RT!RtOff /\ NT!EraseOff /\ NT!CpOff
       /\ FM!FelOff /\ FM!SplOff /\ FD!FdOff /\ FD!FaOff /\ FD!SfOff /\ NP!NpOff
       /\ CF!CfOff /\ CF!FfOff /\ UD!UdOff /\ UV!UvOff /\ IP!IniOff /\ IP!UnOff
       /\ UV!UuOff
    \/ tool = "flash_erase" /\ NT!EraseInit /\ RT!RtOff /\ NT!TestOff /\ NT!CpOff
       /\ FM!FelOff /\ FM!SplOff /\ FD!FdOff /\ FD!FaOff /\ FD!SfOff /\ NP!NpOff
       /\ CF!CfOff /\ CF!FfOff /\ UD!UdOff /\ UV!UvOff /\ IP!IniOff /\ IP!UnOff
       /\ UV!UuOff
    \/ tool = "flashcp" /\ NT!CpInit /\ RT!RtOff /\ NT!TestOff /\ NT!EraseOff /\ FM!FelOff
       /\ FM!SplOff /\ FD!FdOff /\ FD!FaOff /\ FD!SfOff /\ NP!NpOff /\ CF!CfOff
       /\ CF!FfOff /\ UD!UdOff /\ UV!UvOff /\ IP!IniOff /\ IP!UnOff /\ UV!UuOff
    \/ tool = "memory" /\ FM!FelInit /\ RT!RtOff /\ NT!TestOff /\ NT!EraseOff /\ NT!CpOff
       /\ FM!SplOff /\ FD!FdOff /\ FD!FaOff /\ FD!SfOff /\ NP!NpOff /\ CF!CfOff
       /\ CF!FfOff /\ UD!UdOff /\ UV!UvOff /\ IP!IniOff /\ IP!UnOff /\ UV!UuOff
    \/ tool = "spl" /\ FM!SplInit /\ RT!RtOff /\ NT!TestOff /\ NT!EraseOff /\ NT!CpOff
       /\ FM!FelOff /\ FD!FdOff /\ FD!FaOff /\ FD!SfOff /\ NP!NpOff /\ CF!CfOff
       /\ CF!FfOff /\ UD!UdOff /\ UV!UvOff /\ IP!IniOff /\ IP!UnOff /\ UV!UuOff
    \/ tool = "usb" /\ FD!FdInit /\ RT!RtOff /\ NT!TestOff /\ NT!EraseOff /\ NT!CpOff
       /\ FM!FelOff /\ FM!SplOff /\ FD!FaOff /\ FD!SfOff /\ NP!NpOff /\ CF!CfOff
       /\ CF!FfOff /\ UD!UdOff /\ UV!UvOff /\ IP!IniOff /\ IP!UnOff /\ UV!UuOff
    \/ tool = "commands" /\ FD!FaInit /\ RT!RtOff /\ NT!TestOff /\ NT!EraseOff /\ NT!CpOff
       /\ FM!FelOff /\ FM!SplOff /\ FD!FdOff /\ FD!SfOff /\ NP!NpOff /\ CF!CfOff
       /\ CF!FfOff /\ UD!UdOff /\ UV!UvOff /\ IP!IniOff /\ IP!UnOff /\ UV!UuOff
    \/ tool = "spiflash" /\ FD!SfInit /\ RT!RtOff /\ NT!TestOff /\ NT!EraseOff /\ NT!CpOff
       /\ FM!FelOff /\ FM!SplOff /\ FD!FdOff /\ FD!FaOff /\ NP!NpOff /\ CF!CfOff
       /\ CF!FfOff /\ UD!UdOff /\ UV!UvOff /\ IP!IniOff /\ IP!UnOff /\ UV!UuOff
    \/ tool = "nand-part" /\ NP!NpInit /\ RT!RtOff /\ NT!TestOff /\ NT!EraseOff
       /\ NT!CpOff /\ FM!FelOff /\ FM!SplOff /\ FD!FdOff /\ FD!FaOff /\ FD!SfOff
       /\ CF!CfOff /\ CF!FfOff /\ UD!UdOff /\ UV!UvOff /\ IP!IniOff /\ IP!UnOff
       /\ UV!UuOff
    \/ tool = "update" /\ CF!CfInit /\ RT!RtOff /\ NT!TestOff /\ NT!EraseOff /\ NT!CpOff
       /\ FM!FelOff /\ FM!SplOff /\ FD!FdOff /\ FD!FaOff /\ FD!SfOff /\ NP!NpOff
       /\ CF!FfOff /\ UD!UdOff /\ UV!UvOff /\ IP!IniOff /\ IP!UnOff /\ UV!UuOff
    \/ tool = "fel-flash" /\ CF!FfInit /\ RT!RtOff /\ NT!TestOff /\ NT!EraseOff
       /\ NT!CpOff /\ FM!FelOff /\ FM!SplOff /\ FD!FdOff /\ FD!FaOff /\ FD!SfOff
       /\ NP!NpOff /\ CF!CfOff /\ UD!UdOff /\ UV!UvOff /\ IP!IniOff /\ IP!UnOff
       /\ UV!UuOff
    \/ tool = "ubi devices" /\ UD!UdInit /\ RT!RtOff /\ NT!TestOff /\ NT!EraseOff
       /\ NT!CpOff /\ FM!FelOff /\ FM!SplOff /\ FD!FdOff /\ FD!FaOff /\ FD!SfOff
       /\ NP!NpOff /\ CF!CfOff /\ CF!FfOff /\ UV!UvOff /\ IP!IniOff /\ IP!UnOff
       /\ UV!UuOff
    \/ tool = "ubi volumes" /\ UV!UvInit /\ RT!RtOff /\ NT!TestOff /\ NT!EraseOff
       /\ NT!CpOff /\ FM!FelOff /\ FM!SplOff /\ FD!FdOff /\ FD!FaOff /\ FD!SfOff
       /\ NP!NpOff /\ CF!CfOff /\ CF!FfOff /\ UD!UdOff /\ IP!IniOff /\ IP!UnOff
       /\ UV!UuOff
    \/ tool = "ini file" /\ IP!IniInit /\ RT!RtOff /\ NT!TestOff /\ NT!EraseOff
       /\ NT!CpOff /\ FM!FelOff /\ FM!SplOff /\ FD!FdOff /\ FD!FaOff /\ FD!SfOff
       /\ NP!NpOff /\ CF!CfOff /\ CF!FfOff /\ UD!UdOff /\ UV!UvOff /\ IP!UnOff /\ UV!UuOff
    \/ tool = "ubinize" /\ IP!UnInit /\ RT!RtOff /\ NT!TestOff /\ NT!EraseOff /\ NT!CpOff
       /\ FM!FelOff /\ FM!SplOff /\ FD!FdOff /\ FD!FaOff /\ FD!SfOff /\ NP!NpOff
       /\ CF!CfOff /\ CF!FfOff /\ UD!UdOff /\ UV!UvOff /\ IP!IniOff /\ UV!UuOff
    \/ tool = "ubiupdatevol" /\ UV!UuInit /\ RT!RtOff /\ NT!TestOff /\ NT!EraseOff
       /\ NT!CpOff /\ FM!FelOff /\ FM!SplOff /\ FD!FdOff /\ FD!FaOff /\ FD!SfOff
       /\ NP!NpOff /\ CF!CfOff /\ CF!FfOff /\ UD!UdOff /\ UV!UvOff /\ IP!IniOff
       /\ IP!UnOff

Next ==
    /\ UNCHANGED tool
    /\ \/ tool = "nandwrite" /\ RT!RtNext
          /\ UNCHANGED <<ntVars, feVars, fcVars, fmVars, spVars, fdVars, faVars, sfVars,
                          npVars, cfVars, ffVars, udVars, uvVars, ipVars, unVars, uuVars>>
       \/ tool = "nandtest" /\ NT!TestNext
          /\ UNCHANGED <<rtVars, feVars, fcVars, fmVars, spVars, fdVars, faVars, sfVars,
                          npVars, cfVars, ffVars, udVars, uvVars, ipVars, unVars, uuVars>>
       \/ tool = "flash_erase" /\ NT!EraseNext
          /\ UNCHANGED <<rtVars, ntVars, fcVars, fmVars, spVars, fdVars, faVars, sfVars,
                          npVars, cfVars, ffVars, udVars, uvVars, ipVars, unVars, uuVars>>
       \/ tool = "flashcp" /\ NT!CpNext
          /\ UNCHANGED <<rtVars, ntVars, feVars, fmVars, spVars, fdVars, faVars, sfVars,
                          npVars, cfVars, ffVars, udVars, uvVars, ipVars, unVars, uuVars>>
       \/ tool = "memory" /\ FM!FelNext
          /\ UNCHANGED <<rtVars, ntVars, feVars, fcVars, spVars, fdVars, faVars, sfVars,
                          npVars, cfVars, ffVars, udVars, uvVars, ipVars, unVars, uuVars>>
       \/ tool = "spl" /\ FM!SplNext
          /\ UNCHANGED <<rtVars, ntVars, feVars, fcVars, fmVars, fdVars, faVars, sfVars,
                          npVars, cfVars, ffVars, udVars, uvVars, ipVars, unVars, uuVars>>
       \/ tool = "usb" /\ FD!FdNext
          /\ UNCHANGED <<rtVars, ntVars, feVars, fcVars, fmVars, spVars, faVars, sfVars,
                          npVars, cfVars, ffVars, udVars, uvVars, ipVars, unVars, uuVars>>
       \/ tool = "commands" /\ FD!FaNext
          /\ UNCHANGED <<rtVars, ntVars, feVars, fcVars, fmVars, spVars, fdVars, sfVars,
                          npVars, cfVars, ffVars, udVars, uvVars, ipVars, unVars, uuVars>>
       \/ tool = "spiflash" /\ FD!SfNext
          /\ UNCHANGED <<rtVars, ntVars, feVars, fcVars, fmVars, spVars, fdVars, faVars,
                          npVars, cfVars, ffVars, udVars, uvVars, ipVars, unVars, uuVars>>
       \/ tool = "nand-part" /\ NP!NpNext
          /\ UNCHANGED <<rtVars, ntVars, feVars, fcVars, fmVars, spVars, fdVars, faVars,
                          sfVars, cfVars, ffVars, udVars, uvVars, ipVars, unVars, uuVars>>
       \/ tool = "update" /\ CF!CfNext
          /\ UNCHANGED <<rtVars, ntVars, feVars, fcVars, fmVars, spVars, fdVars, faVars,
                          sfVars, npVars, ffVars, udVars, uvVars, ipVars, unVars, uuVars>>
       \/ tool = "fel-flash" /\ CF!FfNext
          /\ UNCHANGED <<rtVars, ntVars, feVars, fcVars, fmVars, spVars, fdVars, faVars,
                          sfVars, npVars, cfVars, udVars, uvVars, ipVars, unVars, uuVars>>
       \/ tool = "ubi devices" /\ UD!UdNext
          /\ UNCHANGED <<rtVars, ntVars, feVars, fcVars, fmVars, spVars, fdVars, faVars,
                          sfVars, npVars, cfVars, ffVars, uvVars, ipVars, unVars, uuVars>>
       \/ tool = "ubi volumes" /\ UV!UvNext
          /\ UNCHANGED <<rtVars, ntVars, feVars, fcVars, fmVars, spVars, fdVars, faVars,
                          sfVars, npVars, cfVars, ffVars, udVars, ipVars, unVars, uuVars>>
       \/ tool = "ini file" /\ IP!IniNext
          /\ UNCHANGED <<rtVars, ntVars, feVars, fcVars, fmVars, spVars, fdVars, faVars,
                          sfVars, npVars, cfVars, ffVars, udVars, uvVars, unVars, uuVars>>
       \/ tool = "ubinize" /\ IP!UnNext
          /\ UNCHANGED <<rtVars, ntVars, feVars, fcVars, fmVars, spVars, fdVars, faVars,
                          sfVars, npVars, cfVars, ffVars, udVars, uvVars, ipVars, uuVars>>
       \/ tool = "ubiupdatevol" /\ UV!UuNext
          /\ UNCHANGED <<rtVars, ntVars, feVars, fcVars, fmVars, spVars, fdVars, faVars,
                          sfVars, npVars, cfVars, ffVars, udVars, uvVars, ipVars, unVars>>

Ended ==
    \/ tool = "nandwrite" /\ RT!RtDone
    \/ tool = "nandtest" /\ tpc \in {"done", "exit"}
    \/ tool = "flash_erase" /\ epc \in {"done", "exit"}
    \/ tool = "flashcp" /\ cpc \in {"done", "failed"}
    \/ tool = "memory" /\ fm_at = "done"
    \/ tool = "spl" /\ sp_pc \in {"exit", "done"}
    \/ tool = "usb" /\ fd_pc \in {"exit", "done"}
    \/ tool = "commands" /\ fa_pc \in {"exit", "done"}
    \/ tool = "spiflash" /\ sf_pc \in {"exit", "done", "unsupported"}
    \/ tool = "nand-part" /\ np_pc = "exit"
    \/ tool = "update" /\ cf_pc = "quit"
    \/ tool = "fel-flash" /\ ff_pc = "exit"
    \/ tool = "ubi devices" /\ ud_pc = "exit"
    \/ tool = "ubi volumes" /\ uv_pc = "exit"
    \/ tool = "ini file" /\ ini_pc \in {"loaded", "null"}
    \/ tool = "ubinize" /\ un_pc \in {"exit", "crash"}
    \/ tool = "ubiupdatevol" /\ uu_pc \in {"exit", "killed"}

Spec == Init /\ [][Next \/ (Ended /\ UNCHANGED allVars)]_allVars

(* What nandwrite reported as written is what nanddump reads back, past    *)
(* bad eraseblocks and failed writes (nandwrite.c), and with padbad and    *)
(* dumpbad a page of nanddump's output is where it is on the device        *)
(* (nanddump.c). What the first needs is stated with Comparable.           *)
NandInverse ==
    /\ RT!InverseOfNanddump /\ RT!DumpKeepsPlace

(* nandwrite leaves bad eraseblocks alone, those included that turn up in  *)
(* the middle of a replay, as long as a block is a single eraseblock       *)
(* (nandwrite.c:372-437).                                                  *)
BadNotWritten == RT!BadNotWritten

(* nandtest -k puts contents back unless it printed an error, and stays in *)
(* its range (nandtest.c); flash_erase erases its range and nothing else,  *)
(* or prints an error (flash_erase.c); flashcp ends well only if the       *)
(* device holds the file (flashcp.c); while nand-part rewrites the copies  *)
(* of the table one is always good, if more were than writes are cut       *)
(* short, and the copies it could write are good and of one table          *)
(* (nand-part.c).                                                          *)
FlashKept ==
    /\ NT!KeepsContents /\ NT!OnlyTheRange /\ NT!EraseExact /\ NT!CopyVerified
    /\ NP!OneCopyGood /\ NP!VerifiedWhole

(* fel's transfers move exactly the bytes that were asked for, short       *)
(* copies upwards from an unaligned source excepted (fel_lib.c); its       *)
(* upload of an SPL keeps the stacks of the boot ROM whole outside of the  *)
(* thunk, puts the SPL together again, and the MMU is on only with a whole *)
(* table, also after a run that failed (fel.c, soc_info.c).                *)
BoardUploaded ==
    /\ FM!MemmoveExact /\ FM!WordsExact /\ FM!BromIntact /\ FM!SplComplete
    /\ FM!MmuTableWhole

(* fel that ends normally gives the kernel its drivers back and talks to   *)
(* the board that was named, a --sid without a match beside a --dev        *)
(* excepted (fel_lib.c, fel.c); it starts U-Boot last and as uploads,      *)
(* fills and clears left it, and carries its commands out in order up to   *)
(* an execute or a fill or clear without its last argument (fel.c).        *)
FelSession ==
    /\ FD!DriversBack /\ FD!RightBoard /\ FD!UbootIntact /\ FD!StartsLast
    /\ FD!InOrder

(* After a write the flash holds the data at its address, and outside of   *)
(* it at most the rest of the last small erase block is lost; a batch fits *)
(* the command buffer, and the SRAM is put back, read on a SoC it refuses  *)
(* excepted (fel-spiflash.c).                                              *)
SpiExact ==
    /\ FD!FlashExact /\ FD!CmdBufFits /\ FD!SramRestored

(* A board that is said to be ready was given the images of one NAND type, *)
(* its own if that was detected, unless a cached file was cut off or       *)
(* U-Boot's own writes failed (common.sh, chip-update-firmware.sh), and    *)
(* has run the U-Boot it was sent (chip-fel-flash.sh); verify.sh starts    *)
(* the getty again that it stopped.                                        *)
ScriptsHonest ==
    /\ CF!ReadyMeansFlashed /\ CF!GettyBack /\ CF!ReadyMeansRun

(* The programs for UBI devices and volumes act on a device or a volume    *)
(* that carried the name they were given at some time during the command,  *)
(* whatever comes and goes meanwhile, and with the sizes that were asked   *)
(* for; an update leaves the old contents, the marker of an update, or all *)
(* of the new contents (libubi.c, ubiattach.c, ubidetach.c, ubimkvol.c,    *)
(* ubirmvol.c, ubirename.c, ubirsvol.c, ubiupdatevol.c).                   *)
UbiAsNamed ==
    /\ UD!NodeFound /\ UD!DetachedNamed /\ UD!AttachAsAsked /\ UV!LebsAsAsked
    /\ UV!VolumeFound /\ UV!ActsOnNamed /\ UV!UpdateWhole /\ UV!UpdateDone

(* The dictionary that ubinize reads its configuration into is a map that  *)
(* keeps the order of sections (dictionary.c, libiniparser.c), and a UBI   *)
(* image of ubinize reads back as its volumes, reserves what they need if  *)
(* they have no padding, and is not left half written but at a second      *)
(* autoresize flag (ubinize.c, libubigen.c).                               *)
UbinizeExact ==
    /\ IP!DictIsMap /\ IP!SectionOrder /\ IP!LateErrorRefused
    /\ IP!ImageReadsBack /\ IP!ReservedCovers /\ IP!NoHalfImage
=============================================================================
