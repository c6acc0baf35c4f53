# A verification project for the CHIP flashing tools

The repository collects what is needed to flash a C.H.I.P. board: scripts that
drive the flashing (`CHIP-tools`), the USB boot tools they call
(`sunxi-tools`), the flash utilities (`CHIP-mtd-utils`) and a buildroot tree
(`CHIP-buildroot`). The tools write to raw flash over links and devices that
fail, and build the images that are written. That is where they are hard to
test: a write that fails half way, a block that turns bad, a packet that comes
twice, power that goes away between an erase and a write, a table whose size
depends on the space that is left for it.

This directory models those programs in TLA+, model-checks them with TLC on
small instances, and proves the properties that matter most with TLAPS for
every value of the constants. `PROJECT.json` lists the components, the runs,
the source lines behind every definition, the hazards and the theorems.

## The system

| part | what it does | here |
|---|---|---|
| `recv_image.c` | receives an image by multicast onto flash or into a file | `RecvImage`, `ImageDelivery` |
| `serve_image.c` | sends an image by multicast, for ever, with redundancy | `McastImage` |
| the network between them | loses, repeats, reorders, damages | `McastImage` |
| `lib/libfec.c` | the erasure code both of them use | `Fec` |
| `ubiformat.c`, `libscan.c`, `lib/libmtd.c` | prepares a device for UBI, keeping its erase counters | `UbiFormat` |
| `ubihealthd.c` | daemon that reads and scrubs all eraseblocks in turn | `UbiHealthd` |
| `nandwrite.c`, `nanddump.c` | raw access to NAND | `NandWrite` |
| `nandtest.c`, `flash_erase.c`, `flashcp.c` | test, erase, copy | `FlashTools` |
| `ubiattach.c`, `ubidetach.c`, `libubi.c` | attach and detach devices | `UbiDevices` |
| `ubimkvol.c`, `ubirmvol.c`, `ubirsvol.c`, `ubirename.c`, `ubiupdatevol.c` | change volumes | `UbiVolumes` |
| `ubinize.c`, `libubigen.c`, `libiniparser.c`, `dictionary.c` | UBI images from an ini file | `Ubinize` |
| `mkfs.jffs2.c` | JFFS2 images | `Jffs2Tree`, `Jffs2Image` |
| `compr.c`, `compr_rtime.c`, `mkfs.ubifs/compr.c` | the choice of compressors, and rtime | `Compressors` |
| `jffs2reader.c` | lists an image | `Jffs2Reader` |
| `sumtool.c`, `jffs2dump.c` | add summaries; dump and convert | `Jffs2Tools` |
| `mkfs.ubifs.c`, `devtable.c`, `lpt.c` | UBIFS images | `UbifsOptions`, `UbifsTree`, `UbifsLayout`, `LptGeometry`, `UbifsLpt` |
| `hashtable*.c`, `rbtree.c` | the containers they use | `Containers` |
| `sunxi-tools/fel_lib.c`, `fel.c`, `soc_info.c` | the USB boot protocol, uploads | `FelMemory`, `FelMain` |
| `fel-spiflash.c` | SPI flash over USB | `FelMain` |
| `nand-part*.c` | the four copies of the partition table | `NandPart` |
| `nand-image-builder.c` | raw NAND images with ECC and scrambling | `NandImage` |
| `fexc.c`, `script*.c` | board configurations, text and binary | `Fexc` |
| `CHIP-tools/*.sh`, `chip-flash` | wait for the board, upload, flash, verify | `ChipFlash` |
| `support/kconfig` | Buildroot's configuration program | `KcExpr`, `KcSymtab`, `KcConf`, `KcParse` |

The programs are run at different times and meet on a device or in a file, so
they are separate specifications. Where two of them meet, a module composes
them: `McastImage` (both multicast programs and the network), `NandWrite`
(`nandwrite`, then `nanddump`: what was written is read back) and `Jffs2Image` (with
`INSTANCE Jffs2Reader`: what was built is listed). Where one program is started
twice, the second start is part of the model: `ubiformat`, `ubihealthd`,
`sunxi-fel spl`, the flashing scripts, `fexc` on its own output, `jffs2dump -e`
on its own output, kconfig on the file it wrote.

## Conventions

* A program has a place (`..._pc`), its variables and options, and the outside
  world it works on. `...Init` picks an input out of a set that is a constant,
  `...Next` has one action per step at which something can fail or others can
  get in between, `...Off` is the state of a program that is not run.
* Names of the code are kept; prefixes keep the variables of different
  programs apart.
* What the kernel, a board, a network or a user does is an action marked as
  external in the map.
* Modules that hold several programs have a part for each, in which the
  program's properties stand behind its `...Next`.
* `\* mutant` marks a changed form of the definition that follows it: with it in
  place of the original one of the properties fails.

## The multicast image tools

`serve_image` sends every eraseblock of an image as `total_pkts_per_block`
packets, of which any `pkts_per_block` different ones rebuild the block.
`recv_image` stores the first `pkts_per_block` packets of every block, raw, in
the eraseblock where the block will live, through a write buffer of
`WBUF_SIZE` bytes per block; when all blocks are complete it reads the packets
back, decodes each block, erases the eraseblock and writes the decoded data.

`RecvImage` has one variable for each piece of state of `main()`:
`eraseblocks` (the `struct eraseblock` of every block, `flash_offset` split
into the number of an eraseblock and of a `WBUF_SIZE` cell in it),
`image_crc`, `mtdoffset`, `total_pkts`, `block_nr`, and `phase`, which says in
which loop the program is. `flash` and `bad` are the device: a cell is erased,
holds a slice of the packet stream of a block, decoded data, or garbage
(programmed twice). `wfails` and `dfails` only bound the failures.

| action | code (`recv_image.c`) |
|---|---|
| `FirstPacket` | 173-215, then the rest of the iteration |
| `NextPacket` (`Process`) | 216-351: duplicate, not needed, damaged, buffered, flushed, flush failed |
| `FatalPacket` | the packets that make it exit, 177-181, 199-202, 216-227 |
| `ReadError` | 164-167 |
| `DecodeBlock`, `DecodeFails` | 357-426 |
| `WriteBlock`, `WriteBlockFails`, `WriteBlockExit` | 427-474 |

`ImageDelivery` is what a user wants of the receiver: blocks are installed one
at a time, an installed block stays, and success means the whole image. The
receiver is shown to implement it under the mapping at the end of `RecvImage`.

`McastImage` has the two loops of the sender, its write errors and its end;
`offered` records the packets of a cycle, `sent` those the network took. The
network lets anything in `sent` arrive, any number of times, in any order,
intact or damaged, or never.

`Fec` makes the field and the code (`fec_new`), encodes packets and decodes
them: the shuffle, the matrix, its inversion and the product. Source packet i
is 1 at its i-th symbol, so the decoded packets show the whole linear map. It
is what `RecvImage` assumes when it counts packets.

## ubiformat

`UbiFormat` follows the program from the scan to its exit. `pc` is the place in
the code: one step per operation on the device, because each of them can fail
and the program can be cut short between any two. Memory is lost with the
program (`Afresh`), the device stays. `wear` counts what really happened to an
eraseblock and is compared with the counter in its header.

| action | code (`ubiformat.c` unless named) |
|---|---|
| `Start` | `ubi_scan` (`libscan.c` 47-205) and the choice of counters, 682-924 |
| `FlashSkipBad`, `FlashErase`, `FlashWrite`, `FlashEnd` | `flash_image` |
| `FormatSkipBad`, `FormatErase`, `FormatWrite`, `FormatEnd` | `format` |
| `WriteLayout` | `ubigen_write_layout_vol` (`libubigen.c`) |
| `Torture` | `mtd_torture` (`libmtd.c`), one step per pattern |
| `MarkBad` | `mark_bad`, `consecutive_bad_check` |
| `Crash` | external: the operation under way leaves its eraseblock spoiled |

## ubihealthd

`UbiHealthd` has one step per turn of the `poll()` loop. The two lists are
sequences that begin as `PebList`, the PEBs in the order of their numbers, or, with
a file, as that list from the PEB the file names (`From`); `armed` and `ready` are the timers that will expire and that have
expired; `file` is the statistics file, absent, whole or torn. Time is not
modelled: a timer may expire whenever it is armed, which includes every real
schedule. A timer whose interval is 0 is armed for one expiry only.

| action | code (`ubihealthd.c`) |
|---|---|
| `Start` | 523-607, `init_stats`, `read_stats_file` |
| `Turn` | 608-679 without a signal: update, hot PEBs, one read, one scrub |
| `TurnSaves` | with `SIGUSR1`, 624-628 |
| `TurnStops` | with any other signal, then 680-685 |
| `PollFails` | 609-613: a last turn with the `revents` of the one before |
| `Expire`, `Signal`, `KernelReads`, `KernelErases`, `Crash` | the kernel and the power supply |

Reading a file that is shorter than it says is undefined in the code
(`fread`'s result is ignored): the counters of the missing entries and, for a
file cut in its header, the place in the lists are then any value.
`since`, `erased`, `hot`, `rounds` and `clean` record what the properties speak
of and nothing depends on them. The difference of two read counters is one of
unsigned numbers, as in the code.

## Raw flash

`NandWrite` names every unit of the input by its place, so that the flash shows
what was written where; a page holds units of data and of OOB. One step is one
turn of the loop: the bad-block test (`CheckBlock`), reading with padding
(`EndOfInput`, `ShortInput`), a page written or not (`WritePage`, `WriteFails`
with erase, `-m` and the replay of the block, 535-600). Its second part is
`nanddump` with the three ways to treat bad blocks. `NandInverse` is the round trip; `Comparable` lists the
cases the two programs do not agree on.

`FlashTools` has the loops of `nandtest` (`Skip`, `Read`, `WriteTest`, `Restore`,
`EndPass`, `EndTest`; an exit anywhere), of `flash_erase` (`SkipBad`, `NoTest`,
`Erase`, `EraseEnd`), both with their unsigned arithmetic, and of `flashcp`,
whose input file may change (`FileChanges`).

`NandPart` reads four copies, changes one and writes all four. A write may fail,
which the program does not look at, and the program may be interrupted, also
within a write. The record that is used after `free` (246) is a
choice: it still holds what it held, or not.

## The board over USB

`FelMemory` runs the uploaded copy routines instruction by instruction over a
small memory and compares the result with a move, but for the short copies that
move one byte too many (`OneTooMany`), and puts word transfers together from
chunks. Its second part is the `spl` command on eight SoCs: the pieces around
the stacks of the boot ROM, the thunk that swaps them, the MMU and its table;
any request may fail and a second run follows. Addresses are in units of 0x200
bytes.

`FelMain` finds, claims and releases boards, and walks over a command line: how
many arguments a command asks for and how many it consumes, which of them pass
the safeguard around a loaded U-Boot and which do not, the header of the SPL, the
start at the end. A command that only reads from the board or prints is one that
changes nothing.

The last part of `FelMain` puts batches together in the command buffer with the two erase sizes
and restores the SRAM.

`ChipFlash` has the steps of `chip-update-firmware.sh`, and of the functions of
`common.sh` it calls, that change the cache or the board or whose failure is
treated in some way; the cache and the board survive a run that was cut off. The
script that U-Boot runs on the board is one step, in which any of its writes to
the NAND may fail unseen. Then come the older scripts with `assert_error`, and
`verify.sh`.

## UBI devices, volumes and images

In `UbiDevices` and `UbiVolumes` a look-up takes one number per step, a volume in
two (its name is read last), and another process (`Other`) attaches, detaches,
makes, removes and renames between any two steps and before the ioctl. What is
gone is passed over; what goes between the open and the read of its file breaks
the look-up off (`LookFailed`). `UbiVolumes` ends with `ubiupdatevol`: short reads and writes,
interrupts, an input that becomes shorter (`Shrink`), a kill.

`Ubinize` has the line loop and the dictionary with its growth (`IniNext`), and
the sections, volumes and layout copies with every error path (`UnNext`); the
properties read the image as UBI attaches it.

## JFFS2

`Jffs2Tree` is the scan of the host and the lines of the device table;
`Jffs2Image` the writer: cleanmarkers and padding, hard links, data nodes of
whatever size compression gave, extended attributes, of which some cannot be
read, the extension of an existing image. Then `jffs2reader` lists the image (`RtNext`).

`Jffs2Reader` keeps pointers as indexes of items; the loop of `collectdir` with
its four version variables is there turn by turn. It is checked on the images
of `Jffs2Image` and on all short sequences of entries and padding.

`Jffs2Tools`: `sumtool` collects nodes in a buffer and closes a block when the
next node and the summary do not fit; `jffs2dump` walks words and converts into a
file that may have been there before, whose opening and writing may fail.

`Compressors`: the sorted list and the choice of `compr.c`, with compressors that
keep to their contract and nothing else; `compr_rtime.c` as it is; and
`compress_data` of `mkfs.ubifs`.

## UBIFS

`UbifsOptions` has what happens before and after the image: defaults that depend
on each other, checks, the target. `UbifsTree` walks the host's tree with the
device table, or the table alone, and makes inodes, entries and data nodes with
their numbers.
`UbifsLayout` puts nodes into LEBs, sorts the index and writes it level by level,
and writes the areas in the order of `mkfs()`. `LptGeometry` has the sizes of the
tree of LEB properties, `UbifsLpt` writes that tree, and packs its nodes bit by
bit. `Containers` has the hash table with its iterators and, one turn of a loop
at a time, the red-black tree.

## The host

`KcExpr` rewrites expressions with the rules of `expr.c` and compares values, and
puts an entry below the one before it as `menu_finalize` does, which may take it
back (`Lift`). `KcSymtab` has the calculation of symbols, choices, ranges and
selects with the flags of the code, the visibility of menu entries, which leaves
marks, and the files; a program stands for a parsed Kconfig file with its tree of
menu entries. `KcConf` uses it three times: a front end that starts from nothing or
from a file, shows and sets in any order, then writes, which may fail, and a later
run that reads; `conf` with its walks; and
`conf_write_autoconf`, stopped anywhere, with the build that follows. `KcParse`
is the reader with blocks and included files, and `sym_check_deps`.

`Fexc` holds a line of text as a record of what it says, as long as it fits the
buffer; a longer one is cut in two as `fgets` does. Names and strings are written
raw, also those that do not read back as what they were. The binary form is words
at their offsets; two runs follow each other. `NandImage` has the BCH
encoder with its tables and the image page by page.

## What is checked

`tlc -config X.cfg M`, one run per question:

| run | module | shows |
|---|---|---|
| `recv` | `MCRecvAll` | on flash, with a bad block and a failing write of each kind: a complete block can be decoded (`CompleteIsRecoverable`), blocks keep apart (`HomesDisjoint`), the packet count that ends the loop is exact (`TotalIsExact`), what is installed stays (`Delivered`), the inductive invariant (`IInv`, which contains `TypeOK`), and the receiver implements `ImageDelivery` (`DeliverySpec`); the two central properties for a file, with packets of an image of another erasesize around (`FileReceived`) |
| `mcast_safety` | `McastImage` | two servers in one group: only one image reaches the flash (`OneImage`); a cycle of the server leaves out no packet (`CycleOffersAll`) |
| `mcast_liveness` | `McastImage` | the receiver ends while a server goes on sending (`ReceiverFinishes`) |
| `ubi_format` | `MCUbiAll` | every mixture of old contents, a failing operation, a crash anywhere, a second run: counters are exact (`CountersExact`), success means headers of this run only, one volume table, the image in order (`Formatted`), bad eraseblocks are left alone (`BadUntouched`); three failing operations: the image keeps its order, and the program gives up when eraseblocks turn bad in a row (`DyingDevice`) |
| `health` | `MCHealthAll` | whatever the file holds no PEB falls off a list (`TurnsKept`), clean restarts keep the turns even (`EvenTurns`), every PEB is read and scrubbed again and again, and no expiry of a timer is used up without a turn (`EveryPebServed`); a PEB read too often is read at the next update, and no other is (`HotPebRead`) |
| `device_tools` | `MCDeviceTools` | raw flash (`NandInverse`, `BadNotWritten`, `FlashKept`), a board over USB (`BoardUploaded`, `FelSession`, `SpiExact`, `ScriptsHonest`), UBI (`UbiAsNamed`, `UbinizeExact`) |
| `file_systems` | `MCFileSystems` | JFFS2 (`Jffs2Holds`, `Jffs2Reads`, `Jffs2Converts`), compression (`Compressed`), both device tables and trees (`TreesBuilt`), UBIFS (`UbifsIndexed`, `UbifsSpace`), containers (`TablesKept`) |
| `host_tools` | `MCHostTools` | kconfig (`ExprPreserved`, `ConfigKept`, `KconfigRead`), `fexc` (`FexcExact`), the codes and NAND images (`CodesRight`) |

The last three modules put the state spaces of independent programs side by
side: `tool` says which one runs, the variables of the others stay at `...Off`.
Each of their properties is a conjunction over the programs that share a
subject, at the end of the module; the conjuncts are stated, with what they are
about and what they except, in the component modules. `MCRecvAll`, `MCUbiAll` and
`MCHealthAll` do the same for two instances of one specification.

Four runs end in a violation of what the code says of itself:

| run | what the code says | what it does |
|---|---|---|
| `recv_two_moves` | "wrote image block" (`recv_image.c:471`) | `mtdoffset` stays at the eraseblock a decoded block moved to, and the next one that moves is put in the same place |
| `ubi_torture` | "passed torture test, do not mark it a bad" (`libmtd.c:1004`) | `mtd_torture` returns -1 all the same and the eraseblock is marked |
| `ubi_short_image` | an image too large is an error (`ubiformat.c:431`) | if eraseblocks turn bad until the rest of the image does not fit, the exit status is 0 |
| `health_one_shot` | "Timeframe for reading all PEBs in seconds" (`ubihealthd.c:138`) | with fewer seconds than PEBs the timer's interval is 0: one PEB is read, and no other |

### Bounds

* Multicast: two blocks and four eraseblocks leave room for a bad one and for a
  block that moves; packets of 3 bytes in cells of 4 make packets straddle the
  write buffer, with one left over and with none. Two images are enough to mix
  two. One failure of each kind: a second failing write of decoded data is what
  `recv_two_moves` is about, and the theorems cover any number.
* `ubiformat`: three eraseblocks are the two of the volume table and one more;
  the counters 1 and 3 have a mean different from both; two runs are one that
  is cut short and the one that follows it. The dying device has a fourth
  eraseblock for three failures, of which two in a row reach the limit. The
  limit and the percentages are constants.
* `ubihealthd`: three PEBs, whose numbers have a gap, are the fewest on which
  the order of a round can be wrong; the device counts four, so that the file
  is short of an entry. Two starts are one restart. Hot PEBs do not influence
  each other, so there is one; a counter up to 2 lets it be at the threshold of
  1 from 0 and from 1, and go back. That daemon is followed until it crashes or
  fails to write its file, behind which its property says nothing. A PEB is counted as at most `MaxAhead` = 2
  turns ahead, one more than `EvenTurns` allows.
* Raw flash: three eraseblocks of two pages, two faults: a failed block, its
  replay, and one more bad or failing block. For `nandtest` and `flash_erase`
  2^32 is 8 eraseblocks, so that sums wrap around.
* FEL: 21 memory cells with every overlap and alignment of moves of up to 7; SPLs
  of 15 lengths around the boundaries of the layouts of eight SoCs, twice in a
  row; command lines of up to three commands out of sixteen. SPI: 96 pages, lengths around
  the sizes of sectors, of a large block and of the command buffer.
* UBI tools: three devices or volumes, two changes by the other process.
  Volumes of up to a few LEBs with and without padding.
* JFFS2: four trees with links, attributes, deep and empty directories, files
  of several blocks; all images of up to four entries in any order of versions
  with padding between them; device tables of up to three lines. UBIFS: tables
  of up to two lines, up to 16 nodes, so the index has two and three levels; LPTs
  written for up to 200 LEBs, in one and in several LEBs, small and big trees;
  sizes and packing also for real geometries, up to 5000 LEBs of 2 MB.
* Containers: a table of four keys that grows twice over eight operations; every red-black
  tree of up to eight nodes and every way to it.
* kconfig: all expressions of two operators over a bool and a tristate; seven
  Kconfig programs for selects, modules, ranges, the kinds of choices and an
  entry above a visible one, without a file or with a file of numbers, two
  operations between reading and writing; three changes between two writes of
  `autoconf`; all dependency graphs of three symbols, and a choice with a symbol;
  texts of up to four statements with an included file.
* Codes: fields of 4, 8 and 256 elements, BCH codes over fields of 16, 32 and 64.
  `fexc`: names of two characters, words below 16, lines that are cut once.

### Fairness

* `mcast_liveness`: a server that is not stopped goes on sending (its loop has
  no other wait than pacing), a packet whose turn comes again and again is sent
  some time, a packet sent again and again arrives intact some time, and the
  decode loop, sequential code, runs on. Nothing is assumed of failures.
* `health`, `health_one_shot`: the loop runs when `poll` has something to
  return, and an armed timer expires. Calls fail at most `MaxFaults` times: an
  `update_stats` that failed for ever would skip the other timers whenever they
  expire together. Fairness is for the daemon of several PEBs only.

The other programs are sequential and end by themselves; that they do is a
bound on turns where it is in doubt (`ScansBounded`, `WalksBounded`,
`InclusionBounded`, `CallProgress`).

Deadlock is checked, with an explicit stuttering step where a program has
ended, in all runs but `mcast_*` and `health*`, where the environment may stop: a
server or a daemon that is not started again.

## What is proved

Three programs are proved correct with `tlapm`, for every value of the
constants: every number of blocks, PEBs and eraseblocks, every size, any number
of failures and, for `ubiformat` and `ubihealthd`, of power cuts and restarts.
`ubiformat` finds any mixture of contents on the device. The receiver starts on
an erased device: `recv_image` does not erase an eraseblock before it stores
packets there, so it has to find it erased.

| module | theorem | statement |
|---|---|---|
| `RecvImage_proofs` | `Invariance` | `Spec => []IInv` |
| | `TypeCorrect` | `Spec => []TypeOK` |
| | `StoredBlocksDecode` | `Spec => []CompleteIsRecoverable` |
| | `BlocksKeepApart` | `Spec => []HomesDisjoint` |
| | `ImageIsDelivered` | `Spec => []Delivered` |
| | `ReceiverDelivers` | `Spec => DeliverySpec`, if `MaxDecodeFails <= 1` |
| `McastImage_proofs` | `CountIsExact` | `Spec => []TotalIsExact` |
| | `NoPacketSkipped` | `McSafety => []CycleOffersAll` |
| | `NetworkAddsNothing` | `McSafety => Spec` |
| | `OnlyOneImage` | `McSafety => []OneImage` |
| `UbiFormat_proofs` | `UbiInvariance` | `Spec => []IInv` |
| | `CountersAreExact` | `Spec => []CountersExact` |
| | `ExitZeroIsFormatted` | `Spec => []Formatted` |
| | `RowOfBadEndsRun` | `Spec => []NoRunaway` |
| | `BadIsLeftAlone` | `Spec => BadUntouched` |
| `UbiHealthd_proofs` | `HealthInvariance` | `Spec => []IInv` |
| | `NoPebIsLost` | `Spec => []TurnsKept` |
| | `TurnsStayEven` | `Spec => []EvenTurns` |
| | `HotIsRead` | `Spec => HotPebsRead`, if `NumPebs = NrPebs` |

`RecvLoop_proofs` has the receive loop, `UbiDevice_proofs` and `UbiLoops_proofs`
what the operations of the device and the steps of the loops of `ubiformat` do,
`Sums` the facts about sums and least elements.

### The receiver

From `RecvAssumption`: positive sizes, a packet smaller than the write buffer (so
that one packet causes at most one flush), and a file large enough for the
image.

The properties are not inductive: that a complete block can be decoded depends
on how each packet came to its place. `IInv` adds, while packets are collected,
that every block, complete or not, has different packets in store, that its
cells hold exactly the slices of that stream and the write buffer the rest
(`BlockOK`), that the eraseblocks of the blocks are different, not bad and below
`mtdoffset`, and that everything from `mtdoffset` on is erased (`StoreOK`), which
is why a block whose write failed can move there. While blocks are decoded it
keeps this for the blocks to come and adds that those before are installed
(`DecodeOK`). After a first move of a decoded block `mtdoffset` is itself in
use; from the second move on only the blocks to come are still safe, and
`HomesDisjoint` and `Delivered` hold up to there.

`ReceiverDelivers` shows that every step is one of `ImageDelivery` or leaves it
alone: a block that is installed is added, nothing is taken away, and the end is
"complete" only with all of them. It asks for at most one failing write of
decoded data, because with two the promise is broken: that is the run
`recv_two_moves`.

`CountIsExact` is about a sum over the blocks. That a sum changes by what one
element changes, and is at its maximum only if all elements are, is proved in
`Sums` without an induction rule: if it failed for some length, it would fail
for a least one (`Least`), and not for the one before.

`NetworkAddsNothing` shows that server, network and receiver together do nothing
to the receiver that it could not do alone: a packet that arrives is one of the
packets `RecvImage` allows. What is proved of the receiver is thus proved of it
in the network. `OnlyOneImage` adds to `IInv` that all stored slices and decoded
data are of the image of `image_crc`.

### ubiformat

From `UbiAssumption`, which only gives the constants their types. What is
on an eraseblock when the program ends well depends on where the loops were, so
`IInv` says it for every point in between: `si_ec` knows the bad eraseblocks
(`ScanOK`); an eraseblock whose counter is carried over was erased once if its
turn has come, not at all before (`WearOK`), without which `CountersExact` is not
inductive; those behind the loops carry their header and their block of the
image or of the volume table (`PassedOK`); the number of blocks written is the
number of good eraseblocks passed, and the buffer holds the next one when it was
read before a write that failed (`ImageOK`); and the row of eraseblocks that
turned bad is as long as `consecutive_bad_blocks` says (`RowOK`).

### ubihealthd

From `HealthAssumption`: a finite set of PEBs, not more than the device counts.
The two lists are always `PebList` turned by some number (`Lists`). As long as
every file was written, the number by which the list of reads is turned is the
number of PEBs that are one turn ahead, in memory and, while the daemon is
stopped, in the file (`Places`): this is why restarts keep the turns even. What
is remembered of a read counter and the reads since then do not exceed the
counter (`Remembered`), so the difference that `update_stats` takes is not
smaller than the reads it missed.

`HotIsRead` assumes that the kernel reports all PEBs that the device counts.
Otherwise the file announces more entries than it has (418-435) and the daemon
takes counters from memory that was never written.

### How the proofs are written

Every proof module says once how long a leaf may take (`USE SMTT(60)`). A leaf
that names Zenon is one for first-order reasoning, which the SMT solver does
not find or finds slowly. Citing a property's `LET` or a large action in many
leaves is expensive, so an action is taken apart once, at the head of its lemma.

### What is only model-checked

* Liveness (`ReceiverFinishes`, `EveryPebServed`): the prover has neither
  fairness nor ENABLED. The two action properties that stand beside the proved
  ones in `health`, `OnlyHotRead` and `ExpiriesServed`.
* `DyingDevice` and `FileReceived`, as they are stated: they are about a second
  instance of `UbiFormat` and of `RecvImage`. What they say of it
  (`ImageInOrder`, a part of `Formatted`, and `NoRunaway`; `CompleteIsRecoverable`
  and `Delivered`) is proved for every instance. The same is true of `HotPebsRead`
  as a part of `HotPebRead`.
* Everything outside of these three programs: device tools, file systems, host
  tools. Many of those modules describe recursive code by RECURSIVE operators,
  which the prover cannot use; what the others compute from their inputs is
  checked over all small inputs.

## Limits

* In `RecvImage` and `McastImage` FEC, CRCs and headers are taken to do their
  work: damage to a packet is seen, `pkts_per_block` different packets decode
  (that part is `Fec`).
* A failed or interrupted operation of the flash affects the eraseblock it was
  applied to and no other (no paired pages, no read disturb).
* `ubihealthd`: `malloc` succeeds; a statistics file that is there can be opened
  for reading; the kernel lists PEBs by their numbers. After a crash the file is
  older than the kernel's counters, or torn, and then `HotPebsRead` does not
  hold: the older counters of the file replace the fresh ones (431), and if the
  PEB has been erased in between the next difference is taken for 0.
* A checksum is right or wrong; text is a sequence of what its words say.
* `NandImage`: the layouts are those whose usable part of a page is a multiple of
  the step; the results of `fwrite`, which the program does not look at, are good.
* Options that only change what is printed, messages, statistics, pacing and
  time stamps are left out.

## Not modelled

* Checksums (`crc32.c`, `mtd_crc32`): a table and a loop over bytes, which need
  an induction over data; the models keep whether a checksum is right.
* Tools that make one request or print a report (`flash_lock`, `flash_otp_*`,
  `mtdinfo`, `ubinfo`, `ubiblock`, `ubicrc32`, ...): they keep no
  state between two steps. `sunxi-bootinfo`, `meminfo`, `pio`, `phoenix_info`
  likewise, and the boot stubs, which run before any other program.
* FTL, NFTL, RFD and DiskOnChip formatters: translation layers this board does
  not use.
* The test programs of mtd-utils: they need a device, and test the kernel.
* `jffs2reader -f`, which inflates; the third-party compressors themselves,
  which are a contract in `Compressors`.
* Of `libmtd` and `libubi`, the probing of sysfs and of old kernels beyond the
  look-ups the tools race with.
* Of kconfig, the interactive front ends (`mconf`, `nconf`, `gconf`, `qconf`), which
  work on the same symbols as `KcConf`; strings and hexadecimal symbols, words
  and help texts, `randconfig`.
* Buildroot's package recipes, the image and SDK set-up scripts: straight lines
  of commands, without state the program itself keeps.

## Seen while modelling

Places where the code does something a reader may not expect, or not what a
comment says. The models do what the code does, and where a property would not
hold for that reason its comment says what it excepts. None of these is the
subject of a run.

**`ubihealthd`, `ubiformat`, `libscan`.** `update_stats` takes the reads after
an erasure for 0 (298-299), against the help text (140-141). A counter of
`EC_MAX` becomes `EC_MAX + 1` (493), which the next scan refuses. Between 50
and 95 percent of valid counters the mean is announced "for the rest of
eraseblock" (870) and used for all. `consecutive_bad_check` stops at the limit,
not when the number "exceeds" it (359-360). An EC header with a wrong data
offset is counted as corrupted, but if it is the first its offsets are kept
(`libscan.c` 139-154).

**`nandwrite`, `nanddump`.** With `-b` the mark of another eraseblock is tested
(405) than the comments say (372-377, 401). The two programs skip differently
when they start in the middle of a bad block, although one is the "inverse
operation" of the other (12-14). A full device is no error for standard input
(572). Without `-m` a failed block stays as it is. A failed write in the first
block erases the pages before the start. `--input-size` is ignored for standard
input, and with padding more than that is read.

**`nandtest`, `flash_erase`, `libmtd`.** `-k` does not restore a block whose
test failed. `len < meminfo.erasesize` (295) misses -1 in 32-bit builds.
`flash_erase` exits with 0 after failed erases, and cannot reach its
`EOPNOTSUPP` path (250-253). An error of `MEMGETBADBLOCK` is taken for a bad
eraseblock. `do_oob_op` takes any error for "not supported".
`mtd_read` does not advance its buffer after a short read.

**`ubi-utils`.** `ubiattach -b` on an old kernel attaches and exits with -1
(225-230). `ubimkvol -m` with an alignment that pads asks for more LEBs than
there are (248-251). `ubirsvol` goes on after a failed probe (197-202).
`ubidetach` by MTD device may detach a number that was used again, and says
`ENODEV` when some other device goes while it is looked at (`libubi.c` 815-818);
`ubirename` says "not found" of any failure of its look-up (58-63, 122).
`ubiupdatevol` goes round for ever when a read returns 0 while `errno` is still
`EINTR` (261-264).

**`ubinize`, `libubigen`, `libiniparser`.** A section of another mode is not
skipped ("If mode is not UBI, skip this section", 310; 541-543 only test for
-1). `vol_alignment=0` divides by 0 (443); the test for a negative alignment
looks at `vi->id` (423). `reserved_pebs` is computed from the LEB size and not
from the usable part of it (`libubigen.c` 108, `ubi-media.h` 329). A second
`autoresize` returns without removing the output (569); several error exits
return 0 (481-508, 551-565). `errs = dictionary_set(...)` (596, 601) overwrites
an earlier syntax error; a file that ends in a continued line loses it; a blank
line reads `line[-1]` (583).

**`mkfs.jffs2`.** Versions of entries start at 0, which `jffs2reader` does not
see (437, 505, "XXX what is smallest version number used?"). `-i` starts
versions and xids again. The attributes of a file that is too large are written
for inode 0; those of a non-empty subdirectory twice. The size comes from
`lstat`, the data from a later read. In the device table `rdev` changes only if
major and minor are not 0, the type changes without a check, a count may add a
name twice, an entry below something that is no directory is lost, and an `l`
line for a new name ends the program.

**`jffs2reader`, `sumtool`, `jffs2dump`.** `collectdir` ends when it comes to
the entry it took last, by comparing pointers (539); if that entry lies right
behind padding it steps over it and does not end. `-f` prints the first data
node only; `..` fails at the root; `resolveinode` goes by any entry, also a
deleted one. `sumtool` repeats a failing read for ever, and a node too large
for a block with a summary gives a negative padding. Obsolete nodes are accurate in the image `sumtool` makes. `jffs2dump -e` does not
write xrefs and unknown nodes (609-619, 736-738), so that what follows moves;
`-c` with it makes obsolete nodes accurate (222). It does not truncate its output
(495), looks at no result of `write`, and exits with 0 when the output cannot be
opened. `jffs2reader` does "a recursive 'ls' on the whole filesystem" (35) but
leaves out the entry of version 0 and what is below it.

**`mkfs.ubifs`.** The error of `readdir` is overwritten (1446), that of
`add_idx_node` ignored (1758, 1836). Entries made from the table take their
group from the root directory (1536-1537), against `devtable.c` 27; with a table
and without `-r`, `add_directory` reads before address 0. The help says two
opposite things of `-X` (183-185, 207-209). `squash_owner` does not touch the
root; table entries in a directory that is nowhere are lost. The attributes of
a file with several links are those of the link read last (1370).
`is_contained` looks for a part of a string (279). The size is checked after
everything is written (1884); options are checked with `lpt_lebs` and
`jhead_cnt` still 0. `lsave` may name LEBs behind the last. An error while
looking whether a volume is empty counts as "not empty". `hashtable_expand`
clears, in its plan B, through a pointer that is not set (109); the callers of
`hashtable_iterator` do not look whether it is NULL.

**`sunxi-tools`.** `fel` copies one byte more than asked when a short move upwards ends before its
source is aligned. `fill` and `clear` ask for one argument less than they read. `exe` skips
three arguments though it has one (1270: "in order of appearance"). `writel`,
`memmove` and `exe` do not look at the U-Boot they may overwrite. `--dev` with
a `--sid` that does not match takes the board of `--dev`. `usb_error` exits
without giving the device back to its driver. `spiflash-read` leaves the SRAM
cleared when `spi0_init` refuses. `nand-part` uses its record after `free`
(246), does not notice a write that fails (250-251), and looks at the number of partitions after the arrays are filled.
`nand-image-builder` tests the page size where it means the OOB size (980), and
does not end when the usable part of a page is smaller than a step. `fexc`
accepts a bank one too many (`script_fex.c:270`, `script.h:22`), ignores errors
of its text output and of `generate_dram_struct` (`script_uboot.c:250`). It splits
lines, comments too, that are longer than its buffer (`script_fex.c` 185-186), and
writes names and strings as they are (95-118), so that a string with a newline or
an odd name of a binary (`script_bin.c` 244-249) may read back as another tree. The "singular matrix" branch of
`libfec` (451-453) cannot be reached.

**`CHIP-tools`.** `chip-update-firmware.sh` exits with 0 after a failed
download and after "FLASH VERIFICATION FAILED", and takes an incomplete cache
for a complete one. `chip-fel-flash.sh` loses failures in `|| ( echo ... &&
exit $? )`, so that `assert_error` 129 to 131 are never reached. `verify.sh`
prints success after three failures. What U-Boot's script could not write to the
NAND nobody is told. `chip-legacy-update.sh` always exits with
1 (`|| echo ... && exit 1`).

**`kconfig`.** Two rules of `expr_eliminate_dups2` (577, 592) do not hold where
a value is m; the comment of one rule of `expr_join_and` says m and the code y.
`sym_calc_choice` forgets the user's choice when not all visible values have
been set. When the last rename of `conf_write` fails, a second try writes a
file without symbols. A number that `conf_read` gave up is not taken up again when
it is set to the same value (`symbol.c` 674-677). `menu_is_visible` marks an
invisible symbol with a visible one below it as set by the user, so `conf` never
asks for it and its default is lost (`menu.c` 493-498). `sym_check_deps` returns nothing when it starts on a
symbol of the cycle, so that `conf_parse` only prints. An `endif` or `endmenu`
on the last line of an included file without a newline is reported as being in
a different file; a file that includes itself is found at the second time.

## Further proofs

In the order of what they would add: the loops of `FlashTools` (`nandtest`,
`flash_erase`, `flashcp`), whose invariants are of the same kind as those of
`ubiformat`; `NandPart`, whose four copies are written in order; `ChipFlash`.
