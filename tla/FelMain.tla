------------------------------ MODULE FelMain -------------------------------
(***************************************************************************)
(* Finding, claiming and releasing the board (fel_lib.c, and the options   *)
(* --list, --dev and --sid of fel.c).  libusb and the kernel's driver are  *)
(* external.                                                               *)
(***************************************************************************)
EXTENDS Integers, Sequences, FiniteSets

CONSTANTS Buses,            \* sets of sequences of [fel, sid, driver]
          FdOptions         \* sets of [list, sid, dev], 0: not given

VARIABLES fd_pc, fd_opt, fd_bus,
          fd_driver,        \* devices the kernel's driver is attached to
          fd_claimed,       \* the device whose interface is claimed
          fd_detached,      \* iface_detached
          fd_i, fd_list,    \* list_fel_devices: the next device, the entries
          fd_sel            \* busnum, devnum: -1 for any

fdVars == <<fd_pc, fd_opt, fd_bus, fd_driver, fd_claimed, fd_detached, fd_i, fd_list, fd_sel>>

FdOff ==
    /\ fd_pc = "off" /\ fd_opt = <<>> /\ fd_bus = <<>> /\ fd_driver = {} /\ fd_claimed = {}
    /\ fd_detached = FALSE /\ fd_i = 0 /\ fd_list = <<>> /\ fd_sel = -1

Drivers(bus) == {d \in DOMAIN bus : bus[d].driver}

FdInit ==
    /\ fd_bus \in Buses /\ fd_opt \in FdOptions
    /\ fd_pc = "options" /\ fd_driver = Drivers(fd_bus) /\ fd_claimed = {}
    /\ fd_detached = FALSE /\ fd_i = 1 /\ fd_list = <<>> /\ fd_sel = -1

FdKeep == UNCHANGED <<fd_opt, fd_bus>>

(* The prefix options. *)
Options ==
    /\ fd_pc = "options"
    /\ fd_sel' = IF fd_opt.dev = 0 THEN -1 ELSE fd_opt.dev
    /\ fd_pc' = IF fd_opt.list \/ fd_opt.sid # 0 THEN "listing" ELSE "open"
    /\ FdKeep /\ UNCHANGED <<fd_driver, fd_claimed, fd_detached, fd_i, fd_list>>

(* feldev_claim: on a failure without a driver there is nothing to detach, *)
(* and the second attempt fails too.                                       *)
Claim(d, next) ==
    \/ /\ fd_claimed' = {d} /\ fd_pc' = next
       /\ fd_detached' = (d \in fd_driver) /\ fd_driver' = fd_driver \ {d}
    \/ /\ fd_pc' = "exit"           \* usb_error, also of aw_fel_get_version
       /\ fd_detached' = (d \in fd_driver) /\ fd_driver' = fd_driver \ {d}
       /\ UNCHANGED fd_claimed

ReleaseOnly ==                      \* mutant: the driver is not attached again
    /\ fd_claimed' = {} /\ fd_detached' = FALSE /\ UNCHANGED fd_driver
(* feldev_release; the next handle is zeroed by calloc. *)
Release ==
    /\ fd_claimed' = {}
    /\ fd_driver' = fd_driver \cup (IF fd_detached THEN fd_claimed ELSE {})
    /\ fd_detached' = FALSE

(* list_fel_devices: open, ask and close every device with the right IDs. *)
ListOpen ==
    /\ fd_pc = "listing" /\ fd_i <= Len(fd_bus)
    /\ IF ~fd_bus[fd_i].fel
       THEN fd_i' = fd_i + 1 /\ UNCHANGED <<fd_pc, fd_driver, fd_claimed, fd_detached>>
       ELSE Claim(fd_i, "asking") /\ UNCHANGED fd_i
    /\ FdKeep /\ UNCHANGED <<fd_list, fd_sel>>

ListClose ==
    /\ fd_pc = "asking" /\ fd_pc' = "listing"
    /\ fd_list' = Append(fd_list, [dev |-> fd_i, sid |-> fd_bus[fd_i].sid])
    /\ fd_i' = fd_i + 1
    /\ Release
    /\ FdKeep /\ UNCHANGED fd_sel

Match(list, sid) ==
    {k \in DOMAIN list : list[k].sid = sid /\ \A j \in 1 .. k - 1 : list[j].sid # sid}

(* felusb_list_devices ends the program; select_by_sid leaves busnum and   *)
(* devnum of --dev as they are when no entry matches.                      *)
Select ==
    /\ fd_pc = "listing" /\ fd_i > Len(fd_bus)
    /\ IF fd_opt.list THEN fd_pc' = "done" /\ UNCHANGED fd_sel
       ELSE LET hit == Match(fd_list, fd_opt.sid) IN
            /\ fd_sel' = IF hit = {} THEN fd_sel ELSE fd_list[CHOOSE k \in hit : TRUE].dev
            /\ fd_pc' = IF fd_sel' <= 0 THEN "exit" ELSE "open"
    /\ FdKeep /\ UNCHANGED <<fd_driver, fd_claimed, fd_detached, fd_i, fd_list>>

(* feldev_open for the commands. *)
Open ==
    /\ fd_pc = "open"
    /\ LET fels == {d \in DOMAIN fd_bus : fd_bus[d].fel}
           wanted == IF fd_sel = -1
                     THEN {d \in fels : \A e \in fels : d <= e}
                     ELSE fels \cap {fd_sel}
       IN  IF wanted = {} THEN fd_pc' = "exit" /\ UNCHANGED <<fd_driver, fd_claimed, fd_detached>>
           ELSE \E d \in wanted : Claim(d, "commands")
    /\ FdKeep /\ UNCHANGED <<fd_i, fd_list, fd_sel>>

(* feldev_done after the last command. *)
Done ==
    /\ fd_pc = "commands" /\ fd_pc' = "done"
    /\ Release
    /\ FdKeep /\ UNCHANGED <<fd_i, fd_list, fd_sel>>

FdNext == Options \/ ListOpen \/ ListClose \/ Select \/ Open \/ Done

-----------------------------------------------------------------------------
(* A program that ends normally leaves the kernel's driver attached where  *)
(* it was, at the board it used and at all those it only asked for their   *)
(* SID, and no interface claimed.                                          *)
DriversBack == fd_pc = "done" => fd_driver = Drivers(fd_bus) /\ fd_claimed = {}

(* The commands go to the board that was asked for: by SID to the first    *)
(* with it and to none if there is none (--sid, "exact match", fel.c       *)
(* 1151), else by number, else to the first.  Nothing is said of a --sid   *)
(* without a match beside a --dev: the code then uses the board of --dev.  *)
RightBoard ==
    fd_pc = "commands" =>
        \E d \in fd_claimed :
            LET fels == {e \in DOMAIN fd_bus : fd_bus[e].fel}
                same == {e \in fels : fd_bus[e].sid = fd_opt.sid}
            IN  IF fd_opt.sid = 0
                THEN d \in fels /\ IF fd_opt.dev # 0 THEN d = fd_opt.dev
                                   ELSE \A e \in fels : d <= e
                ELSE \/ d \in same /\ \A e \in same : d <= e
                     \/ same = {} /\ fd_opt.dev # 0

-----------------------------------------------------------------------------
(***************************************************************************)
(* The commands of sunxi-fel, executed in the order of the command line    *)
(* (main of fel.c): uploads around an already loaded U-Boot, the boot      *)
(* information passed through the header of the SPL, and the start of      *)
(* U-Boot at the end.  An SPL is executed as in FelMemory; here it leaves  *)
(* its header in SRAM.                                                     *)
(***************************************************************************)

CONSTANTS Top,              \* DRAM addresses 0 .. Top
          Files,            \* names of files
          FileInfo,         \* name -> [size, kind, spl, entry, image]: entry and
                            \*   image of the U-Boot behind the SPL, image 0: none
          Templates,        \* sets of commands, each a sequence of arguments
          MaxCommands       \* bound: commands on the command line

Word(w) == [w |-> w, n |-> 0]
Num(n) == [w |-> "", n |-> n]

VARIABLES fa_pc, fa_given, fa_argv, fa_log,
          fa_mem, fa_poked,             \* poked: written past the safeguard
          uboot_entry, uboot_size, uboot_autostart, fa_image,
          fa_header, fa_info,           \* the SPL's header in SRAM
          fa_count, fa_started

faVars == <<fa_pc, fa_given, fa_argv, fa_log, fa_mem, fa_poked, uboot_entry, uboot_size,
            uboot_autostart, fa_image, fa_header, fa_info, fa_count, fa_started>>
ubVars == <<uboot_entry, uboot_size, fa_image>>

FaOff ==
    /\ fa_pc = "off" /\ fa_given = <<>> /\ fa_argv = <<>> /\ fa_log = <<>> /\ fa_mem = <<>>
    /\ fa_poked = {} /\ uboot_entry = 0 /\ uboot_size = 0 /\ uboot_autostart = FALSE
    /\ fa_image = "" /\ fa_header = "none" /\ fa_info = <<>> /\ fa_count = 0 /\ fa_started = -1

Flat(cmds) == LET f[k \in 0 .. Len(cmds)] == IF k = 0 THEN <<>> ELSE f[k - 1] \o cmds[k]
              IN  f[Len(cmds)]

FaInit ==
    /\ \E k \in 1 .. MaxCommands : fa_given \in [1 .. k -> Templates]
    /\ fa_pc = "next" /\ fa_argv = Flat(fa_given) /\ fa_log = <<>>
    /\ fa_mem = [a \in 0 .. Top |-> "dram"] /\ fa_poked = {}
    /\ uboot_entry = 0 /\ uboot_size = 0 /\ uboot_autostart = FALSE /\ fa_image = ""
    /\ fa_header = "none" /\ fa_info = <<>> /\ fa_count = 0 /\ fa_started = -1

(* The arguments without which a command is not recognised. *)
Needs == [spl |-> 1, uboot |-> 1, write |-> 2, multi |-> 3, fill |-> 2, clear |-> 1,
          memmove |-> 3, writel |-> 2, exe |-> 1, ver |-> 0, reset64 |-> 1]

Enough == fa_argv[1].w \in DOMAIN Needs /\ Len(fa_argv) > Needs[fa_argv[1].w]
Is(w) == fa_pc = "next" /\ fa_argv # <<>> /\ fa_argv[1].w = w /\ Enough
Arg(i) == fa_argv[i + 1]
Drop(s, n) == IF n >= Len(s) THEN <<>> ELSE SubSeq(s, n + 1, Len(s))

(* The end of a turn of the loop. *)
Took(w, skip) ==
    /\ fa_pc' = "next" /\ fa_argv' = Drop(fa_argv, skip) /\ fa_log' = Append(fa_log, w)

FaFatal ==
    /\ fa_pc' = "exit"
    /\ UNCHANGED <<fa_argv, fa_log, fa_mem, fa_poked, ubVars, uboot_autostart, fa_header,
                   fa_info, fa_count, fa_started>>

(* The safeguard of aw_write_buffer. *)
HitsUboot(offset, len) ==
    uboot_size > 0 /\ offset <= uboot_entry + uboot_size /\ offset + len >= uboot_entry

Stored(mem, offset, len, what) ==
    [a \in 0 .. Top |-> IF a \in offset .. offset + len - 1 THEN what ELSE mem[a]]

-----------------------------------------------------------------------------
(* "spl" and "uboot": aw_fel_process_spl_and_uboot; the SPL may fail. *)
SplOrUboot(w) ==
    /\ Is(w)
    /\ LET f == FileInfo[Arg(1).w] IN
       \/ FaFatal
       \/ /\ f.spl # "none"
          /\ fa_header' = f.spl /\ fa_info' = <<>>
          /\ IF f.image = 0 THEN UNCHANGED <<fa_mem, ubVars>>
             ELSE /\ ~HitsUboot(f.entry, f.image)
                  /\ fa_mem' = Stored(fa_mem, f.entry, f.image, Arg(1).w)
                  /\ uboot_entry' = f.entry /\ uboot_size' = f.image /\ fa_image' = Arg(1).w
          /\ uboot_autostart' = IF w = "uboot" THEN uboot_entry' > 0 /\ uboot_size' > 0
                                ELSE uboot_autostart
          /\ Took(w, 2)
          /\ fa_poked' = IF f.image = 0 THEN fa_poked ELSE {}
          /\ UNCHANGED <<fa_count, fa_started>>

(* file_upload: one file of "write" or "multi", and pass_fel_information. *)
Upload(at) ==
    LET offset == Arg(at).n
        f == FileInfo[Arg(at + 1).w]
    IN  IF f.size = 0 THEN UNCHANGED <<fa_mem, fa_info>>
        ELSE /\ ~HitsUboot(offset, f.size)
             /\ fa_mem' = Stored(fa_mem, offset, f.size, Arg(at + 1).w)
             /\ fa_info' = IF fa_header = "sunxi" /\ f.kind \in {"script", "uEnv"}
                           THEN <<offset, IF f.kind = "uEnv" THEN f.size ELSE 0>>
                           ELSE fa_info

WriteFile ==
    /\ Is("write")
    /\ \/ Upload(1) /\ Took("write", 3) /\ UNCHANGED <<fa_poked, ubVars, uboot_autostart,
                                                       fa_header, fa_count, fa_started>>
       \/ FaFatal

MultiStart ==
    /\ Is("multi")
    /\ IF Len(fa_argv) - 2 < 2 * Arg(1).n THEN FaFatal
       ELSE /\ fa_pc' = "multi" /\ fa_count' = 0
            /\ UNCHANGED <<fa_argv, fa_log, fa_mem, fa_poked, ubVars, uboot_autostart,
                           fa_header, fa_info, fa_started>>

MultiFile ==
    /\ fa_pc = "multi" /\ fa_count < Arg(1).n
    /\ \/ /\ Upload(2 + 2 * fa_count) /\ fa_count' = fa_count + 1
          /\ UNCHANGED <<fa_pc, fa_argv, fa_log, fa_poked, ubVars, uboot_autostart,
                         fa_header, fa_started>>
       \/ FaFatal

MultiEnd ==
    /\ fa_pc = "multi" /\ fa_count = Arg(1).n
    /\ Took("multi", 2 + 2 * fa_count)
    /\ UNCHANGED <<fa_mem, fa_poked, ubVars, uboot_autostart, fa_header, fa_info,
                   fa_count, fa_started>>

SkipOfFill == 4

(* "fill" and "clear": aw_fel_fill.  Each asks for an argument less than   *)
(* it reads: strtoul of a missing one (NULL) ends the program.             *)
FillArgs == IF fa_argv[1].w = "fill" THEN 3 ELSE 2
FillHits == Arg(2).n > 0 /\ HitsUboot(Arg(1).n, Arg(2).n)

Fill ==
    /\ \/ Is("fill") /\ Took("fill", SkipOfFill)
       \/ Is("clear") /\ Took("clear", 3)
    /\ Len(fa_argv) > FillArgs /\ ~FillHits
    /\ fa_mem' = Stored(fa_mem, Arg(1).n, Arg(2).n, "fill")
    /\ UNCHANGED <<fa_poked, ubVars, uboot_autostart, fa_header, fa_info, fa_count, fa_started>>

FillRefused ==
    /\ Is("fill") \/ Is("clear")
    /\ Len(fa_argv) > FillArgs => FillHits
    /\ FaFatal

(* "writel" and "memmove" do not pass the safeguard. *)
Poke(w, skip, offset, len, mem) ==
    /\ Took(w, skip) /\ fa_mem' = mem
    /\ fa_poked' = fa_poked \cup offset .. offset + len - 1
    /\ UNCHANGED <<ubVars, uboot_autostart, fa_header, fa_info, fa_count, fa_started>>

Writel == Is("writel") /\ Poke("writel", 3, Arg(1).n, 1, Stored(fa_mem, Arg(1).n, 1, "word"))

(* The bytes of fel_memmove are in FelMemory. *)
MemmoveCmd ==
    /\ Is("memmove")
    /\ Poke("memmove", 4, Arg(1).n, Arg(3).n,
            [a \in 0 .. Top |-> IF a \in Arg(1).n .. Arg(1).n + Arg(3).n - 1
                                THEN fa_mem[Arg(2).n + a - Arg(1).n] ELSE fa_mem[a]])

(* "execute" has one parameter and skips two. *)
Execute ==
    /\ Is("exe") /\ Took("exe", 3)
    /\ UNCHANGED <<fa_mem, fa_poked, ubVars, uboot_autostart, fa_header, fa_info, fa_count,
                   fa_started>>

(* The commands that only report. *)
Report ==
    /\ Is("ver") /\ Took("ver", 1)
    /\ UNCHANGED <<fa_mem, fa_poked, ubVars, uboot_autostart, fa_header, fa_info, fa_count,
                   fa_started>>

Reset64 ==
    /\ Is("reset64")
    /\ fa_pc' = "end" /\ fa_log' = Append(fa_log, "reset64") /\ uboot_autostart' = FALSE
    /\ UNCHANGED <<fa_argv, fa_mem, fa_poked, ubVars, fa_header, fa_info, fa_count, fa_started>>

(* Also a command with too few arguments. *)
Invalid == fa_pc = "next" /\ fa_argv # <<>> /\ ~Enough /\ FaFatal

(* U-Boot is started when the last command is done. *)
AutoStart ==
    /\ \/ fa_pc = "next" /\ fa_argv = <<>>
       \/ fa_pc = "end"
    /\ fa_pc' = "done"
    /\ fa_started' = IF uboot_autostart THEN uboot_entry ELSE -1
    /\ UNCHANGED <<fa_argv, fa_log, fa_mem, fa_poked, ubVars, uboot_autostart, fa_header,
                   fa_info, fa_count>>

FaNext ==
    /\ \/ SplOrUboot("spl") \/ SplOrUboot("uboot") \/ WriteFile
       \/ MultiStart \/ MultiFile \/ MultiEnd
       \/ Fill \/ FillRefused \/ Writel \/ MemmoveCmd \/ Execute \/ Report
       \/ Reset64 \/ Invalid \/ AutoStart
    /\ UNCHANGED fa_given

-----------------------------------------------------------------------------
(* Whatever is uploaded, filled or cleared after it, in single files or by *)
(* multi, U-Boot stays as it was loaded up to its start ("safeguards       *)
(* against overwriting an already loaded U-Boot binary", fel.c 118).       *)
(* Nothing is said of the words that writel and memmove put there: these   *)
(* commands of fel.c do not go through aw_write_buffer.                    *)
UbootIntact ==
    uboot_size > 0 =>
        \A a \in uboot_entry .. uboot_entry + uboot_size - 1 :
            a \in fa_poked \/ fa_mem[a] = fa_image

(* U-Boot is started only behind the last command, where the latest image  *)
(* was loaded, for a "uboot" command, and never once reset64 has taken the *)
(* CPU away ("Cancel U-Boot autostart, and stop processing args").         *)
StartsLast ==
    fa_started # -1 =>
        /\ fa_pc = "done" /\ fa_argv = <<>>
        /\ fa_started = FileInfo[fa_image].entry
        /\ \E k \in DOMAIN fa_log : fa_log[k] = "uboot"
        /\ \A k \in DOMAIN fa_log : fa_log[k] # "reset64"

(* The commands are executed "in order of appearance" (fel.c 1270), none   *)
(* is left out and no parameter is taken for one.  Not so behind an        *)
(* "execute", which swallows the argument after its parameter, and a       *)
(* "fill" or "clear" without its last argument.                            *)
InOrder ==
    fa_pc = "done" =>
        LET names == [k \in DOMAIN fa_given |-> fa_given[k][1].w]
            short == {k \in DOMAIN names :
                        Len(fa_given[k]) < (CASE names[k] = "fill" -> 4
                                              [] names[k] = "clear" -> 3 [] OTHER -> 0)}
            stops == short \cup {k \in DOMAIN names : names[k] \in {"exe", "reset64"}}
            upto == IF stops = {} THEN Len(names) ELSE CHOOSE k \in stops : \A j \in stops : k <= j
        IN  Len(fa_log) >= upto /\ \A k \in 1 .. upto : fa_log[k] = names[k]

-----------------------------------------------------------------------------
(***************************************************************************)
(* sunxi-fel's spiflash-write, -read and -info (fel-spiflash.c): batches   *)
(* of SPI commands are put together in a buffer on the host, copied over   *)
(* the beginning of the SRAM and executed there.                           *)
(*                                                                         *)
(* Flash addresses are in pages of ProgramSize bytes, the length of the    *)
(* data and the command buffer in bytes.                                   *)
(***************************************************************************)

CONSTANTS SfPages,          \* pages of the flash
          ProgramSize,      \* bytes of a page
          SmallErase, LargeErase,  \* pages erased by the two commands
          MaxChunk,         \* bytes of the command buffer
          SfOffsets, SfLens \* addresses (pages) and lengths (bytes) to write

VARIABLES sf_pc, sf_op, sf_start, sf_total,
          sf_flash, sf_sram,
          sf_offset, sf_len,      \* page and bytes left of the loop in write
          sf_hoff, sf_hlen, sf_erase,  \* those of write_helper
          sf_cmds, cmd_idx

sfVars == <<sf_pc, sf_op, sf_start, sf_total, sf_flash, sf_sram, sf_offset, sf_len,
            sf_hoff, sf_hlen, sf_erase, sf_cmds, cmd_idx>>

SfOff ==
    /\ sf_pc = "off" /\ sf_op = "none" /\ sf_start = 0 /\ sf_total = 0 /\ sf_flash = <<>>
    /\ sf_sram = "none" /\ sf_offset = 0 /\ sf_len = 0 /\ sf_hoff = 0 /\ sf_hlen = 0
    /\ sf_erase = 1 /\ sf_cmds = <<>> /\ cmd_idx = 0

SfInit ==
    /\ sf_op \in {"read", "write", "info"} /\ sf_start \in SfOffsets /\ sf_total \in SfLens
    /\ sf_pc = "start" /\ sf_flash = [p \in 0 .. SfPages - 1 |-> "old"] /\ sf_sram = "spl"
    /\ sf_offset = sf_start /\ sf_len = sf_total
    /\ sf_hoff = 0 /\ sf_hlen = 0 /\ sf_erase = 1 /\ sf_cmds = <<>> /\ cmd_idx = 0

SfKeep == UNCHANGED <<sf_op, sf_start, sf_total>>
SfIdle == UNCHANGED <<sf_hoff, sf_hlen, sf_erase, sf_cmds, cmd_idx>>
SfMin(x, y) == IF x < y THEN x ELSE y

(* Backup of the SRAM; aw_fel_spiflash_read clears it before spi0_init;    *)
(* spi0_init may refuse the SoC, and then nothing is restored.             *)
Start ==
    /\ sf_pc = "start"
    /\ sf_sram' = IF sf_op = "read" THEN "buffer" ELSE sf_sram
    /\ \/ sf_op = "write" /\ sf_start % SmallErase # 0 /\ sf_pc' = "exit"
       \/ sf_op = "write" /\ sf_start % SmallErase = 0 /\ sf_pc' \in {"write", "unsupported"}
       \/ sf_op # "write" /\ sf_pc' \in {sf_op, "unsupported"}
    /\ SfKeep /\ SfIdle /\ UNCHANGED <<sf_flash, sf_offset, sf_len>>

(* aw_fel_spiflash_write: the next erase block. *)
UseLarge(offset, len) == offset % LargeErase = 0 /\ len >= LargeErase * ProgramSize

NextBlock ==
    /\ sf_pc = "write" /\ sf_len > 0
    /\ LET erase == IF UseLarge(sf_offset, sf_len) THEN LargeErase ELSE SmallErase
           count == SfMin(erase * ProgramSize, sf_len)
       IN  /\ sf_erase' = erase /\ sf_hoff' = sf_offset /\ sf_hlen' = count
           /\ sf_len' = sf_len - count
           /\ sf_offset' = sf_offset + erase
    /\ sf_pc' = "emit"
    /\ SfKeep /\ UNCHANGED <<sf_flash, sf_sram, sf_cmds, cmd_idx>>

RoomTight == MaxChunk - cmd_idx > 64                       \* mutant: the page is forgotten
Room == MaxChunk - cmd_idx > ProgramSize + 64

(* aw_fel_spiflash_write_helper: the commands for one page; 11 bytes for   *)
(* an erase, 11 and the data for a program command.                        *)
EmitPage ==
    /\ sf_pc = "emit" /\ sf_hlen > 0 /\ Room
    /\ LET count == SfMin(ProgramSize, sf_hlen)
           first == sf_hoff % sf_erase = 0
       IN  /\ sf_cmds' = sf_cmds \o (IF first THEN <<[erase |-> sf_erase, page |-> sf_hoff]>>
                                              ELSE <<>>)
                                 \o <<[erase |-> 0, page |-> sf_hoff]>>
           /\ cmd_idx' = cmd_idx + (IF first THEN 11 ELSE 0) + 11 + count
           /\ sf_hlen' = sf_hlen - count /\ sf_hoff' = sf_hoff + 1
    /\ SfKeep /\ UNCHANGED <<sf_pc, sf_flash, sf_sram, sf_offset, sf_len, sf_erase>>

(* The end marker takes two bytes more; spi_batch_data_transfer executes   *)
(* the commands up to it.  Programming only clears bits.                   *)
Applied(flash, c) ==
    [p \in DOMAIN flash |->
        IF c.erase > 0 THEN (IF p \in c.page .. c.page + c.erase - 1 THEN "erased" ELSE flash[p])
        ELSE IF p # c.page THEN flash[p]
        ELSE IF flash[p] = "erased" THEN "new" ELSE "mixed"]

Flush ==
    /\ sf_pc = "emit" /\ ~(sf_hlen > 0 /\ Room)
    /\ LET f[k \in 0 .. Len(sf_cmds)] ==
               IF k = 0 THEN sf_flash ELSE Applied(f[k - 1], sf_cmds[k])
       IN  sf_flash' = f[Len(sf_cmds)]
    /\ sf_sram' = "buffer" /\ sf_cmds' = <<>> /\ cmd_idx' = 0
    /\ sf_pc' = IF sf_hlen > 0 THEN "emit" ELSE "write"
    /\ SfKeep /\ UNCHANGED <<sf_offset, sf_len, sf_hoff, sf_hlen, sf_erase>>

(* aw_fel_spiflash_read and _info: a chunk through the buffer. *)
ReadChunk ==
    /\ \/ sf_pc = "read" /\ sf_len > 0 /\ sf_len' = sf_len - SfMin(sf_len, MaxChunk - 8)
          /\ UNCHANGED sf_pc
       \/ sf_pc = "info" /\ sf_pc' = "read" /\ sf_len' = 0
    /\ sf_sram' = "buffer"
    /\ SfKeep /\ SfIdle /\ UNCHANGED <<sf_flash, sf_offset>>

Restore == sf_sram' = "spl"

Finish ==
    /\ sf_pc \in {"write", "read"} /\ sf_len = 0
    /\ sf_pc' = "done" /\ Restore
    /\ SfKeep /\ SfIdle /\ UNCHANGED <<sf_flash, sf_offset, sf_len>>

SfNext == Start \/ NextBlock \/ EmitPage \/ Flush \/ ReadChunk \/ Finish

-----------------------------------------------------------------------------
SfCovered == (sf_total + ProgramSize - 1) \div ProgramSize

(* After a write the flash holds the data at its address, and outside at   *)
(* most the rest of the last small erase block has lost its contents,      *)
(* however large and small erases and batches fall together.               *)
FlashExact ==
    sf_pc = "done" /\ sf_op = "write" =>
        \A p \in DOMAIN sf_flash :
            LET blocks == (SfCovered + SmallErase - 1) \div SmallErase IN
            IF p \in sf_start .. sf_start + SfCovered - 1 THEN sf_flash[p] = "new"
            ELSE IF p \in sf_start .. sf_start + blocks * SmallErase - 1
            THEN sf_flash[p] = "erased"
            ELSE sf_flash[p] = "old"

(* A batch with its end marker fits the command buffer and the SRAM in     *)
(* front of the scratch area.                                              *)
CmdBufFits == cmd_idx + 2 <= MaxChunk

(* The SRAM, where a loaded SPL may be, is put back by a command that does *)
(* its work, and left alone by one that refuses the SoC, read excepted.    *)
SramRestored ==
    sf_pc \in {"done", "exit", "unsupported"} =>
        sf_sram = "spl" \/ (sf_op = "read" /\ sf_pc = "unsupported")
=============================================================================
