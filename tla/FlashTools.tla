----------------------------- MODULE FlashTools -----------------------------
(***************************************************************************)
(* nandtest (nandtest.c): erase, write and read back the eraseblocks of a  *)
(* range, in several passes, and with -k put their contents back.          *)
(* Offsets are counted in eraseblocks; offset and length are uint32_t.     *)
(***************************************************************************)
EXTENDS Integers, Sequences, FiniteSets

CONSTANTS TestEbs,          \* eraseblocks of the device
          Uint32,           \* 2^32 in eraseblocks
          TestOptions,      \* sets of [offset, length, passes, reads, keep, markbad]
          TestMaxFaults     \* bound: failing operations

VARIABLES tflash, tbad,     \* the device
          tpc, topt, pass, test_ofs, kbuf,
          reported,         \* eraseblocks an error was printed for
          tfaults

testVars == <<tflash, tbad, tpc, topt, pass, test_ofs, kbuf, reported, tfaults>>

Device == 0 .. TestEbs - 1
Kept(b) == <<"old", b>>     \* what was in the eraseblock b at first
Test == <<"test", 0>>       \* the random data of a test
Broken == <<"broken", 0>>
Empty == <<"empty", 0>>

TestOff ==
    /\ tflash = <<>> /\ tbad = {} /\ tpc = "off" /\ topt = <<>> /\ pass = 0
    /\ test_ofs = 0 /\ kbuf = Empty /\ reported = {} /\ tfaults = 0

(* length = Uint32 - 1 stands for -1, the whole device. *)
Length(o) == IF o.length = Uint32 - 1 THEN TestEbs ELSE o.length
End(o) == (o.offset + Length(o)) % Uint32

TestInit ==
    /\ topt \in TestOptions
    /\ tbad \in SUBSET Device
    /\ tflash = [b \in Device |-> Kept(b)]
    /\ tpc = IF End(topt) > TestEbs THEN "exit" ELSE "block"
    /\ pass = 0 /\ test_ofs = topt.offset
    /\ kbuf = Empty /\ reported = {} /\ tfaults = 0

InPass == tpc = "block" /\ pass < topt.passes
AtBlock == InPass /\ test_ofs < End(topt)

Fault == tfaults < TestMaxFaults /\ tfaults' = tfaults + 1

(* An error of MEMGETBADBLOCK is taken for a bad eraseblock. *)
Skip ==
    /\ AtBlock
    /\ \/ test_ofs \in tbad /\ UNCHANGED tfaults
       \/ Fault
    /\ test_ofs' = test_ofs + 1
    /\ UNCHANGED <<tflash, tbad, tpc, topt, pass, kbuf, reported>>

(* With -k the contents are read first; a read that fails ends the program *)
(* (where ssize_t is wider than erasesize, else a result of -1 is not seen *)
(* at 295).                                                                *)
Read ==
    /\ AtBlock /\ test_ofs \notin tbad
    /\ \/ /\ tpc' = "test"
          /\ kbuf' = IF topt.keep THEN tflash[test_ofs] ELSE kbuf
          /\ UNCHANGED tfaults
       \/ topt.keep /\ Fault /\ tpc' = "exit" /\ UNCHANGED kbuf
    /\ UNCHANGED <<tflash, tbad, topt, pass, test_ofs, reported>>

(* erase_and_write.  It returns 1 when the erase or the write fails, which *)
(* may mark the eraseblock bad, or when a read finds other data; a short   *)
(* write and a failing read end the program.  reads = 0 finds nothing out. *)
EraseAndWrite(data, reads, returned0, returned1) ==
    \/ /\ tflash' = [tflash EXCEPT ![test_ofs] = data]
       /\ returned0 /\ UNCHANGED <<tbad, reported, tfaults>>
    \/ /\ Fault /\ reads = 0
       /\ tflash' = [tflash EXCEPT ![test_ofs] = Broken]
       /\ returned0 /\ UNCHANGED <<tbad, reported>>
    \/ /\ Fault /\ reported' = reported \cup {test_ofs}
       /\ tflash' = [tflash EXCEPT ![test_ofs] = Broken]
       /\ tbad' \in {tbad} \cup (IF topt.markbad THEN {tbad \cup {test_ofs}} ELSE {})
       /\ returned1
    \/ /\ Fault /\ reported' = reported \cup {test_ofs}
       /\ \E c \in {data, Broken} : tflash' = [tflash EXCEPT ![test_ofs] = c]
       /\ tpc' = "exit" /\ UNCHANGED <<tbad, test_ofs>>

NextBlock == tpc' = "block" /\ test_ofs' = test_ofs + 1

WriteTest ==
    /\ tpc = "test"
    /\ EraseAndWrite(Test, topt.reads,
           IF topt.keep THEN tpc' = "restore" /\ test_ofs' = test_ofs ELSE NextBlock,
           NextBlock)
    /\ UNCHANGED <<topt, pass, kbuf>>

Restore ==
    /\ tpc = "restore"
    /\ EraseAndWrite(kbuf, 1, NextBlock, NextBlock)
    /\ UNCHANGED <<topt, pass, kbuf>>

EndPass ==
    /\ InPass /\ test_ofs >= End(topt)
    /\ pass' = pass + 1 /\ test_ofs' = topt.offset
    /\ UNCHANGED <<tflash, tbad, tpc, topt, kbuf, reported, tfaults>>

EndTest ==
    /\ tpc = "block" /\ pass >= topt.passes /\ tpc' = "done"
    /\ UNCHANGED <<tflash, tbad, topt, pass, test_ofs, kbuf, reported, tfaults>>

TestNext == Skip \/ Read \/ WriteTest \/ Restore \/ EndPass \/ EndTest

-----------------------------------------------------------------------------
(* -k, "Restore existing contents after test": through all passes and      *)
(* wherever the program exits, an eraseblock it printed no error for holds *)
(* what it held at first; only the one under test may hold test data.      *)
KeepsContents ==
    topt # <<>> /\ topt.keep =>
        \A b \in Device \ reported :
            \/ tflash[b] = Kept(b)
            \/ b = test_ofs /\ tpc \in {"restore", "exit"}

(* Eraseblocks outside the range are left alone, also when offset and      *)
(* length wrap around, and so are the bad ones in it, those excepted that  *)
(* turned bad, for which an error was printed (nandtest.c:255-285).        *)
OnlyTheRange ==
    topt # <<>> =>
        \A b \in Device : tflash[b] # Kept(b) =>
            /\ topt.offset <= b /\ b < topt.offset + Length(topt)
            /\ b \in tbad => b \in reported

-----------------------------------------------------------------------------
(***************************************************************************)
(* flash_erase (flash_erase.c): erase eraseblocks from an offset on, skip  *)
(* the bad ones, and with -j write a JFFS2 cleanmarker into each.          *)
(* eb, eb_start and eb_cnt are unsigned int.                               *)
(***************************************************************************)

CONSTANTS EraseEbs,         \* eraseblocks of the device
          Uint,             \* UINT_MAX + 1
          EraseOptions,     \* sets of [start, cnt, jffs2, noskipbad, unlock, isNAND]
          EraseMaxFaults    \* bound: failing operations

VARIABLES eflash, ebad,     \* the device
          epc, eopt, eb,
          told,             \* eraseblocks an error was printed for
          efaults

eraseVars == <<eflash, ebad, epc, eopt, eb, told, efaults>>

AllEbs == 0 .. EraseEbs - 1

EraseOff ==
    /\ eflash = <<>> /\ ebad = {} /\ epc = "off" /\ eopt = <<>> /\ eb = 0
    /\ told = {} /\ efaults = 0

EbStart(o) == o.start           \* start / mtd.eb_size
CountLess(o) == IF o.cnt = 0 THEN (EraseEbs - 1 - EbStart(o)) % Uint ELSE o.cnt   \* mutant
Count(o) == IF o.cnt = 0 THEN (EraseEbs - EbStart(o)) % Uint ELSE o.cnt
Stop(o) == (EbStart(o) + Count(o)) % Uint

(* The cleanmarker of a NAND goes into its OOB: refused for MLC, without   *)
(* the layout, and without room in it.                                     *)
NoMarker(o) == IF o.jffs2 /\ o.isNAND THEN {"exit"} ELSE {}

EraseInit ==
    /\ eopt \in EraseOptions
    /\ ebad \in IF eopt.isNAND THEN SUBSET AllEbs ELSE {{}}
    /\ eflash = [b \in AllEbs |-> "old"]
    /\ epc \in {"loop"} \cup NoMarker(eopt) /\ eb = EbStart(eopt)
    /\ told = {} /\ efaults = 0

EFault == efaults < EraseMaxFaults /\ efaults' = efaults + 1
At == epc = "loop" /\ eb < Stop(eopt)
Valid == eb \in AllEbs

SkipBad ==
    /\ At /\ ~eopt.noskipbad /\ eb \in ebad
    /\ eb' = eb + 1
    /\ UNCHANGED <<eflash, ebad, epc, eopt, told, efaults>>

(* The test of the mark fails, or the block is past the end: give up.  The *)
(* way on for a device without bad blocks (250-253) is never taken:        *)
(* mtd_is_bad does not ask the kernel there.                               *)
NoTest ==
    /\ At /\ ~eopt.noskipbad
    /\ \/ ~Valid /\ UNCHANGED efaults
       \/ Valid /\ eopt.isNAND /\ EFault
    /\ epc' = "exit"
    /\ UNCHANGED <<eflash, ebad, eopt, eb, told>>

(* An operation on this eraseblock failed: said so, and on to the next. *)
Told == told' = told \cup {eb} /\ eb' = eb + 1

(* A bad eraseblock is not erased by the kernel, external. *)
Erase ==
    /\ At /\ (eopt.noskipbad \/ (Valid /\ eb \notin ebad))
    /\ \/ Valid /\ eb \notin ebad /\ ~eopt.jffs2
          /\ eflash' = [eflash EXCEPT ![eb] = "blank"]
          /\ eb' = eb + 1 /\ UNCHANGED <<told, efaults>>
       \/ Valid /\ eb \notin ebad /\ eopt.jffs2
          /\ eflash' = [eflash EXCEPT ![eb] = "marker"]
          /\ eb' = eb + 1 /\ UNCHANGED <<told, efaults>>
       \/ Valid /\ eb \notin ebad /\ eopt.jffs2 /\ EFault
          /\ eflash' = [eflash EXCEPT ![eb] = "mess"] /\ Told
       \/ Valid /\ eopt.unlock /\ EFault /\ Told /\ UNCHANGED eflash
       \/ Valid /\ eb \notin ebad /\ EFault
          /\ eflash' = [eflash EXCEPT ![eb] = "mess"] /\ Told
       \/ (~Valid \/ eb \in ebad) /\ Told /\ UNCHANGED <<eflash, efaults>>
    /\ UNCHANGED <<ebad, epc, eopt>>

EraseEnd ==
    /\ epc = "loop" /\ eb >= Stop(eopt) /\ epc' = "done"
    /\ UNCHANGED <<eflash, ebad, eopt, eb, told, efaults>>

EraseNext == SkipBad \/ NoTest \/ Erase \/ EraseEnd

-----------------------------------------------------------------------------
(* At the end every good eraseblock from the start on, as many as asked    *)
(* for and to the end of the device for 0, is erased, with a cleanmarker   *)
(* for -j, or an error was printed for it; a start or a count past the end *)
(* included.  Nothing else has changed, bad eraseblocks least of all.      *)
EraseExact ==
    epc = "done" =>
        \A b \in AllEbs :
            LET asked == b >= EbStart(eopt) /\ (eopt.cnt = 0 \/ b < EbStart(eopt) + eopt.cnt)
            IN  IF asked /\ b \notin ebad
                THEN eflash[b] = (IF eopt.jffs2 THEN "marker" ELSE "blank") \/ b \in told
                ELSE eflash[b] = "old"

-----------------------------------------------------------------------------
(***************************************************************************)
(* flashcp (flashcp.c): erase as much of a device as a file needs, write   *)
(* the file in pieces of BUFSIZE and compare both again.  The file may     *)
(* change while the program runs, and a write that succeeds may still have *)
(* stored something else.                                                  *)
(***************************************************************************)

CONSTANTS CpEbs, CpEbSize,  \* the device, sizes in units
          BufSize,
          FileSizes,
          CpMaxFaults       \* bound: failures, bad writes and changes

VARIABLES cflash, file,     \* the device, the file
          cpc, st_size,     \* where the program is, filestat.st_size
          verbose, start,   \* erase.start in eraseblocks
          written,
          compared,         \* what was read from the file to be compared
          cfaults

cpVars == <<cflash, file, cpc, st_size, verbose, start, written, compared, cfaults>>

Units == 0 .. CpEbs * CpEbSize - 1
Byte(i, v) == <<i, v>>      \* the unit i of version v of the file
Ones == <<"ff">>
Rubbish == <<"rubbish">>
Former == <<"former">>

CpOff ==
    /\ cflash = <<>> /\ file = <<>> /\ cpc = "off" /\ st_size = 0 /\ verbose = FALSE
    /\ start = 0 /\ written = 0 /\ compared = <<>> /\ cfaults = 0

CpInit ==
    /\ st_size \in FileSizes /\ verbose \in BOOLEAN
    /\ file = [i \in 1 .. st_size |-> Byte(i, 0)]
    /\ cflash = [u \in Units |-> Former]
    /\ cpc = IF st_size > CpEbs * CpEbSize THEN "failed" ELSE "erase"
    /\ start = 0 /\ written = 0 /\ compared = <<>> /\ cfaults = 0

CFault == cfaults < CpMaxFaults /\ cfaults' = cfaults + 1
Blocks == (st_size + CpEbSize - 1) \div CpEbSize
InBlocks(S) == {u \in Units : u \div CpEbSize \in S}

(* One block at a time when verbose, all of them at once otherwise. *)
EraseBlocks ==
    /\ cpc = "erase" /\ start < Blocks
    /\ LET now == IF verbose THEN {start} ELSE 0 .. Blocks - 1 IN
       \/ /\ cflash' = [u \in Units |-> IF u \in InBlocks(now) THEN Ones ELSE cflash[u]]
          /\ start' = IF verbose THEN start + 1 ELSE Blocks
          /\ UNCHANGED <<cpc, cfaults>>
       \/ /\ CFault /\ cpc' = "failed"
          /\ cflash' = [u \in Units |-> IF u \in InBlocks(now) THEN Rubbish ELSE cflash[u]]
          /\ UNCHANGED start
    /\ UNCHANGED <<file, st_size, verbose, written, compared>>

EraseDone ==
    /\ cpc = "erase" /\ start >= Blocks /\ cpc' = "write"
    /\ UNCHANGED <<cflash, file, st_size, verbose, start, written, compared, cfaults>>

Piece == IF st_size - written < BufSize THEN st_size - written ELSE BufSize
ShortRead == written + Piece > Len(file)

(* NOR can be programmed again, but only to clear bits. *)
Burn(old, new) == IF old = Ones THEN new ELSE IF old = new THEN old ELSE Rubbish

WritePiece ==
    /\ cpc = "write" /\ written < st_size
    /\ \/ /\ ShortRead /\ cpc' = "failed"
          /\ UNCHANGED <<cflash, written, cfaults>>
       \/ /\ ~ShortRead
          /\ cflash' = [u \in Units |-> IF u \in written .. written + Piece - 1
                                        THEN Burn(cflash[u], file[u + 1]) ELSE cflash[u]]
          /\ written' = written + Piece /\ UNCHANGED <<cpc, cfaults>>
       \/ /\ ~ShortRead /\ CFault
          /\ cflash' = [cflash EXCEPT ![written] = Rubbish]
          /\ \/ written' = written + Piece /\ cpc' = cpc
             \/ written' = written /\ cpc' = "failed"
    /\ UNCHANGED <<file, st_size, verbose, start, compared>>

Rewind ==
    /\ cpc = "write" /\ written >= st_size
    /\ cpc' = "verify" /\ written' = 0
    /\ UNCHANGED <<cflash, file, st_size, verbose, start, compared, cfaults>>

VerifyPiece ==
    /\ cpc = "verify" /\ written < st_size
    /\ LET src == SubSeq(file, written + 1, written + Piece)
           differs == ShortRead \/ src # [i \in 1 .. Piece |-> cflash[written + i - 1]]
       IN  \/ /\ ~differs /\ cpc' = cpc
              /\ written' = written + Piece /\ compared' = compared \o src
              /\ UNCHANGED cfaults
           \/ /\ IF differs THEN UNCHANGED cfaults ELSE CFault
              /\ cpc' = "failed" /\ UNCHANGED <<written, compared>>
    /\ UNCHANGED <<cflash, file, st_size, verbose, start>>

CpEnd ==
    /\ cpc = "verify" /\ written >= st_size /\ cpc' = "done"
    /\ UNCHANGED <<cflash, file, st_size, verbose, start, written, compared, cfaults>>

(* Someone else writes the file, or cuts it, external. *)
FileChanges ==
    /\ cpc \in {"erase", "write", "verify"} /\ CFault
    /\ \/ \E i \in DOMAIN file : file' = [file EXCEPT ![i] = Byte(i, 1)]
       \/ Len(file) > 0 /\ file' = SubSeq(file, 1, Len(file) - 1)
    /\ UNCHANGED <<cflash, cpc, st_size, verbose, start, written, compared>>

CpNext ==
    \/ EraseBlocks \/ EraseDone \/ WritePiece \/ Rewind \/ VerifyPiece \/ CpEnd
    \/ FileChanges

-----------------------------------------------------------------------------
(* Success means that the device holds the file, all of it, as it was read *)
(* for the comparison, whatever happened to the file or the writes; behind *)
(* it the last eraseblock is erased, and the other eraseblocks are as they *)
(* were.                                                                   *)
CopyVerified ==
    cpc = "done" =>
        /\ compared = [i \in 1 .. st_size |-> cflash[i - 1]]
        /\ \A u \in Units : u >= st_size =>
              cflash[u] = IF u < Blocks * CpEbSize THEN Ones ELSE Former
=============================================================================
