----------------------------- MODULE NandWrite ------------------------------
(***************************************************************************)
(* nandwrite (nandwrite.c): write an image to NAND page by page, skip bad  *)
(* eraseblocks, and after a failed write erase the block, mark it bad if   *)
(* asked to, and replay the pages of the block into the next one.          *)
(*                                                                         *)
(* Offsets on the device are counted in pages.  The input is a sequence of *)
(* units, of which PageUnits make the data of a page and OobUnits its OOB. *)
(* A unit is named by its place in the input.                              *)
(***************************************************************************)
EXTENDS Integers, Sequences, FiniteSets, FiniteSetsExt

CONSTANTS EbCnt, PagesPerEb,    \* the device
          PageUnits, OobUnits,  \* mtd.min_io_size, mtd.oob_size
          Options,              \* the command lines, see Arguments
          MaxFaults             \* bound: failing operations

DevPages == EbCnt * PagesPerEb
DevEbs == 0 .. EbCnt - 1
EbOf(page) == page \div PagesPerEb

(* What a unit of flash holds, when it is not a unit of the input. *)
Ff == -1        \* erased
Mess == -2      \* unknown: a failed write, or two writes
Old == -3       \* data from before

VARIABLES flash, bad,       \* the device
          wpc, opt,         \* where the program is, its arguments
          pos, imglen,      \* place in the input, bytes still expected
          mtdoffset, blockstart,
          filebuf, writebuf,    \* writebuf: offset in filebuf, -1 is NULL
          faults, hole          \* a block was given up without marking it

writeVars == <<flash, bad, wpc, opt, pos, imglen, mtdoffset, blockstart,
               filebuf, writebuf, faults, hole>>

Min2(a, b) == IF a < b THEN a ELSE b
Input(from, n) == [i \in 1 .. Min2(n, opt.len - from) |-> from + i]

PageLen == PageUnits + (IF opt.writeoob THEN OobUnits ELSE 0)
VPages == opt.align * PagesPerEb            \* ebsize_aligned
BlockStart(off) == (off \div VPages) * VPages

(* start is in pages; len is that of the file, skip and size those of      *)
(* --input-skip and --input-size.                                          *)
Arguments ==
    [start : Nat, align : {1, 2, 4}, len : Nat, skip : Nat, size : Nat,
     stdin : BOOLEAN, pad : BOOLEAN, markbad : BOOLEAN, noskipbad : BOOLEAN,
     writeoob : BOOLEAN, onlyoob : BOOLEAN]

(* process_options: what it lets through. *)
Accepted(o) ==
    /\ o.onlyoob => o.writeoob
    /\ o.pad /\ o.writeoob => o.onlyoob

(* The length of the input before anything is read. *)
FirstLen(o, plen) ==
    IF o.stdin THEN (IF o.size > 0 THEN o.size ELSE plen)
    ELSE IF o.size > 0 THEN o.size ELSE o.len - o.skip

(* main, before the loop: what makes the program refuse. *)
Refused(o) ==
    LET plen == PageUnits + (IF o.writeoob THEN OobUnits ELSE 0)
        len == FirstLen(o, plen)
    IN  \/ o.stdin /\ o.skip > 0
        \/ ~o.pad /\ len % plen # 0
        \/ len \div plen > DevPages - o.start

Blank == [i \in 1 .. PageUnits + OobUnits |-> Ff]
Page(u) == [i \in 1 .. PageUnits + OobUnits |-> u]

(* The pages before the start and those of bad eraseblocks hold something  *)
(* already; the rest has been erased.                                      *)
WriteInit ==
    /\ opt \in {o \in Options : o \in Arguments /\ Accepted(o) /\ o.skip <= o.len}
    /\ bad \in SUBSET DevEbs
    /\ flash = [p \in 0 .. DevPages - 1 |->
                   IF EbOf(p) \in bad \/ p < opt.start THEN Page(Old) ELSE Blank]
    /\ wpc = IF Refused(opt) THEN "failed" ELSE "loop"
    /\ pos = opt.skip
    /\ imglen = FirstLen(opt, PageLen)
    /\ mtdoffset = opt.start /\ blockstart = -1
    /\ filebuf = <<>> /\ writebuf = -1
    /\ faults = 0 /\ hole = FALSE

-----------------------------------------------------------------------------
(* The condition of the outer loop, which the inner one does not test. *)
LoopCondition ==
    (imglen > 0 \/ writebuf < Len(filebuf)) /\ mtdoffset < DevPages
InBody == wpc = "block" \/ (wpc = "loop" /\ LoopCondition)

CheckedEbFirst(offs) == EbOf(opt.start)   \* mutant: always that of the start
(* The eraseblock whose bad mark is read for the offset offs. *)
CheckedEb(offs) == offs \div VPages

(* One iteration of the inner loop: a new block, is it bad? *)
CheckBlock ==
    /\ InBody /\ blockstart # BlockStart(mtdoffset)
    /\ LET start == BlockStart(mtdoffset)
           checked == {CheckedEb(start + k * PagesPerEb) : k \in 0 .. opt.align - 1}
           next == start + VPages
       IN  /\ blockstart' = start
           /\ filebuf' = IF writebuf # 0 THEN <<>> ELSE filebuf
           /\ writebuf' = 0
           /\ IF opt.noskipbad \/ checked \cap bad = {}
              THEN mtdoffset' = mtdoffset
              ELSE mtdoffset' = next
           /\ wpc' = IF /\ ~opt.noskipbad
                        /\ \/ checked \ DevEbs # {}
                           \/ checked \cap bad # {} /\ next > DevPages
                     THEN "failed" ELSE "block"
    /\ UNCHANGED <<flash, bad, opt, pos, imglen, faults, hole>>

(* One of the two read loops: fill the buffer up to n units behind place,  *)
(* if they are not there yet.                                              *)
Fetch(b, place, n, from, len) ==
    LET already == Len(b) - place
        got == IF already >= n THEN <<>> ELSE Input(from, n - already)
        tinycnt == already + Len(got)
        eof == tinycnt < n      \* the last read returned 0
    IN  [buf |-> b \o got, pos |-> from + Len(got), tinycnt |-> tinycnt,
         short |-> eof,
         len |-> IF already >= n THEN len
                 ELSE IF opt.stdin THEN (IF eof THEN 0 ELSE len)
                 ELSE len - Len(got)]

Padded(b, n) == [i \in 1 .. n |-> IF i <= Len(b) THEN b[i] ELSE Ff]

(* The input of one page: data, padded if allowed, then OOB. *)
Data == Fetch(filebuf, writebuf, PageUnits, pos, imglen)
WithPad == Padded(Data.buf, writebuf + PageUnits)
Oob == Fetch(IF Data.short THEN WithPad ELSE Data.buf,
             writebuf + PageUnits, IF opt.writeoob THEN OobUnits ELSE 0,
             Data.pos, Data.len)

NoMore == Data.tinycnt = 0
TooShort == (Data.short /\ ~opt.pad) \/ Oob.short
AtPage == InBody /\ blockstart = BlockStart(mtdoffset)

(* The end of the program: the last test of main, 572-574. *)
ExitStatus(len, wbuf, fbuf) ==
    IF (~opt.stdin /\ len > 0) \/ wbuf < Len(fbuf) THEN "failed" ELSE "done"

EndOfInput ==
    /\ AtPage /\ NoMore
    /\ LET len == IF opt.stdin THEN 0 ELSE imglen
       IN  imglen' = len /\ wpc' = ExitStatus(len, writebuf, filebuf)
    /\ UNCHANGED <<flash, bad, opt, pos, mtdoffset, blockstart, filebuf,
                   writebuf, faults, hole>>

ShortInput ==
    /\ AtPage /\ ~NoMore /\ TooShort
    /\ wpc' = "failed"
    /\ UNCHANGED <<flash, bad, opt, pos, imglen, mtdoffset, blockstart,
                   filebuf, writebuf, faults, hole>>

(* The device, external: programming a page that is not erased spoils it. *)
Program(old, new) ==
    IF new = Ff THEN old ELSE IF old = Ff THEN new ELSE Mess
Written(old, b) ==
    [i \in 1 .. PageUnits + OobUnits |->
        IF i <= PageUnits
        THEN IF opt.onlyoob THEN old[i] ELSE Program(old[i], b[i])
        ELSE IF opt.writeoob THEN Program(old[i], b[i]) ELSE old[i]]

Consume ==
    /\ AtPage /\ ~NoMore /\ ~TooShort
    /\ filebuf' = Oob.buf /\ pos' = Oob.pos /\ imglen' = Oob.len

(* The page is written.  Past the end of the device mtd_write refuses. *)
WritePage ==
    /\ Consume
    /\ IF mtdoffset >= DevPages
       THEN wpc' = "failed" /\ UNCHANGED <<flash, mtdoffset, writebuf>>
       ELSE /\ wpc' = "loop"
            /\ flash' = [flash EXCEPT ![mtdoffset] =
                   Written(@, SubSeq(Oob.buf, writebuf + 1, writebuf + PageLen))]
            /\ mtdoffset' = mtdoffset + 1
            /\ writebuf' = writebuf + PageLen
    /\ UNCHANGED <<bad, opt, blockstart, faults, hole>>

ReplayFromPage == writebuf                \* mutant: goes on with the failed page
(* A failed block is written again from its first byte. *)
ReplayFrom == 0

(* It fails with EIO: erase the block (each erase may fail with EIO too, a *)
(* bad eraseblock's always does), mark it, and replay it in the next one.  *)
WriteFails ==
    /\ Consume /\ mtdoffset < DevPages /\ faults < MaxFaults
    /\ faults' = faults + 1
    /\ LET ebs == {EbOf(p) : p \in blockstart .. blockstart + VPages - 1}
       IN  /\ wpc' = IF ebs \subseteq DevEbs THEN "loop" ELSE "failed"
           /\ \E erased \in SUBSET ((ebs \cap DevEbs) \ bad) :
                flash' = [p \in DOMAIN flash |->
                            IF EbOf(p) \in erased THEN Blank
                            ELSE IF p = mtdoffset THEN Page(Mess) ELSE flash[p]]
    /\ bad' = IF opt.markbad /\ wpc' = "loop" THEN bad \cup {EbOf(mtdoffset)} ELSE bad
    /\ hole' = (hole \/ ~opt.markbad)
    /\ writebuf' = ReplayFrom
    /\ mtdoffset' = blockstart + VPages
    /\ UNCHANGED <<opt, blockstart>>

(* Another error of the device, of the bad-block test or of the input. *)
GiveUp ==
    /\ InBody /\ faults < MaxFaults
    /\ wpc' = "failed" /\ faults' = faults + 1
    /\ UNCHANGED <<flash, bad, opt, pos, imglen, mtdoffset, blockstart,
                   filebuf, writebuf, hole>>

Finish ==
    /\ wpc = "loop" /\ ~LoopCondition
    /\ wpc' = ExitStatus(imglen, writebuf, filebuf)
    /\ UNCHANGED <<flash, bad, opt, pos, imglen, mtdoffset, blockstart,
                   filebuf, writebuf, faults, hole>>

WriteNext ==
    \/ CheckBlock \/ EndOfInput \/ ShortInput \/ WritePage \/ WriteFails
    \/ GiveUp \/ Finish

-----------------------------------------------------------------------------
(* A bad eraseblock is left alone: every eraseblock is tested before its   *)
(* first page is written, the one a failed block is replayed into and the  *)
(* one after a skipped one included (comment at 372-377), as long as the   *)
(* block is a single eraseblock: with -b the test (405) reads the mark of  *)
(* another eraseblock.                                                     *)
BadNotWritten ==
    [][opt.align = 1 /\ ~opt.noskipbad =>
          \A p \in DOMAIN flash : flash'[p] # flash[p] => EbOf(p) \notin bad]_writeVars

-----------------------------------------------------------------------------
(***************************************************************************)
(* nandwrite writes an image, then nanddump reads it back from the same    *)
(* start address.  nandwrite.c (12-14) calls the one the "inverse          *)
(* operation" of the other.                                                *)
(***************************************************************************)

CONSTANT Methods

VARIABLES dpc, dopt,            \* where nanddump is, its arguments
          ofs, end_addr,
          dblock, badblock,     \* blockstart and badblock; dblock = -1: firstblock
          out                   \* the dump file

(* nanddump (nanddump.c): write the pages of a device to a file, with or   *)
(* without their OOB, and skip, pad or dump those of bad eraseblocks.      *)

DumpPages == EbCnt * PagesPerEb
DumpBlock(off) == (off \div PagesPerEb) * PagesPerEb
FfPage == [i \in 1 .. PageUnits + OobUnits |-> -1]

DumpOff ==
    /\ dpc = "off" /\ dopt = [start |-> 0, length |-> 0, oob |-> FALSE, method |-> "skipbad"]
    /\ ofs = 0 /\ end_addr = 0 /\ dblock = -1 /\ badblock = FALSE /\ out = <<>>

(* main, before the loop; length = 0: to the end of the device. *)
DumpStart(start, length, oob, method) ==
    /\ dpc = "off" /\ method \in Methods
    /\ dpc' = "dump"
    /\ dopt' = [start |-> start, length |-> length, oob |-> oob, method |-> method]
    /\ ofs' = start
    /\ end_addr' = IF length = 0 \/ start + length > DumpPages
                   THEN DumpPages ELSE start + length
    /\ UNCHANGED <<dblock, badblock, out>>

Shown(page) == SubSeq(page, 1, PageUnits + (IF dopt.oob THEN OobUnits ELSE 0))

PageRead(isbad) == IF isbad THEN FfPage ELSE flash[ofs]

(* One iteration.  The mark is read again when the offset has left the     *)
(* block it was read for.  A bad eraseblock that is skipped moves the end. *)
DumpPage ==
    /\ dpc = "dump" /\ ofs < end_addr
    /\ LET test == dopt.method # "dumpbad" /\ dblock # DumpBlock(ofs)
           isbad == IF dopt.method = "dumpbad" THEN FALSE
                    ELSE IF test THEN ofs \div PagesPerEb \in bad ELSE badblock
       IN  /\ dblock' = IF test THEN DumpBlock(ofs) ELSE dblock
           /\ badblock' = isbad
           /\ IF isbad /\ dopt.method = "skipbad"
              THEN /\ ofs' = ofs + PagesPerEb
                   /\ end_addr' = IF end_addr + PagesPerEb > DumpPages
                                  THEN DumpPages ELSE end_addr + PagesPerEb
                   /\ out' = out
              ELSE /\ ofs' = ofs + 1 /\ end_addr' = end_addr
                   /\ out' = Append(out, Shown(PageRead(isbad)))
    /\ UNCHANGED <<dpc, dopt>>

DumpFails ==
    /\ dpc = "dump" /\ ofs < end_addr /\ dpc' = "failed"
    /\ UNCHANGED <<dopt, ofs, end_addr, dblock, badblock, out>>

DumpEnd ==
    /\ dpc = "dump" /\ ofs >= end_addr /\ dpc' = "done"
    /\ UNCHANGED <<dopt, ofs, end_addr, dblock, badblock, out>>

DumpNext == DumpPage \/ DumpFails \/ DumpEnd

(* With padbad and dumpbad a page of the dump is where it is on the device *)
(* (help text: "substituting 0xFF for any bad blocks"), however the bad    *)
(* eraseblocks lie and wherever in an eraseblock the dump starts.          *)
DumpKeepsPlace ==
    dpc = "done" /\ dopt.method # "skipbad" =>
        /\ Len(out) = end_addr - dopt.start
        /\ \A i \in DOMAIN out :
              LET p == dopt.start + i - 1 IN
              out[i] = Shown(IF dopt.method = "padbad" /\ p \div PagesPerEb \in bad
                             THEN FfPage ELSE flash[p])

dumpVars == <<dpc, dopt, ofs, end_addr, dblock, badblock, out>>
rtVars == <<writeVars, dumpVars>>

(* Nothing runs: for compositions in which another tool is at work. *)
RtOff ==
    /\ flash = <<>> /\ bad = {} /\ wpc = "off" /\ opt = [align |-> 0]
    /\ pos = 0 /\ imglen = 0 /\ mtdoffset = 0 /\ blockstart = -1
    /\ filebuf = <<>> /\ writebuf = -1 /\ faults = 0 /\ hole = FALSE
    /\ DumpOff

RtInit == WriteInit /\ DumpOff

(* The units of the input that count, and the pages they fill. *)
Wanted == opt.len - opt.skip
ImagePages == (Wanted + PageLen - 1) \div PageLen

Readback ==
    /\ wpc = "done" /\ ImagePages > 0
    /\ \E m \in Methods : DumpStart(opt.start, ImagePages, opt.writeoob, m)
    /\ UNCHANGED writeVars

RtNext ==
    \/ WriteNext /\ UNCHANGED dumpVars
    \/ Readback
    \/ DumpNext /\ UNCHANGED writeVars

RtDone == wpc = "failed" \/ (wpc = "done" /\ ImagePages <= 0) \/ dpc \in {"done", "failed"}
RtSpec == RtInit /\ [][RtNext \/ (RtDone /\ UNCHANGED rtVars)]_rtVars

-----------------------------------------------------------------------------
Same(i, j) ==
    LET want == (i - 1) * PageLen + j
        u == out[i][j]
    IN  IF opt.onlyoob /\ j <= PageUnits THEN TRUE
        ELSE u = IF want <= Wanted THEN opt.skip + want ELSE Ff

(* What nandwrite reported as written is what nanddump reads back, through *)
(* bad eraseblocks and write errors, with each page in its place once.     *)
(* It needs: an input that was read to its end (a device that is full ends *)
(* the loop, and standard input is exempt from the last test, 572), single *)
(* eraseblocks (405), failed blocks marked bad (without -m they stay as    *)
(* holes), bad blocks skipped, and a start that nanddump and nandwrite do  *)
(* not skip differently: from the middle of a bad eraseblock nandwrite     *)
(* goes to the start of the next one and nanddump to its middle.           *)
Comparable ==
    /\ opt.align = 1 /\ ~opt.noskipbad /\ ~hole /\ opt.size = 0
    /\ opt.stdin => imglen = 0
    /\ EbOf(opt.start) \in bad => opt.start % PagesPerEb = 0

InverseOfNanddump ==
    dpc = "done" /\ dopt.method = "skipbad" /\ Comparable =>
        /\ Len(out) = ImagePages
        /\ \A i \in DOMAIN out : \A j \in 1 .. PageLen : Same(i, j)
=============================================================================
