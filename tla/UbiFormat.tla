----------------------------- MODULE UbiFormat -----------------------------
(***************************************************************************)
(* ubiformat (ubi-utils/ubiformat.c): scan an MTD device, flash a UBI      *)
(* image to it or format it, keep the erase counters of the eraseblocks    *)
(* and mark those bad that do not work.  The program may be cut short at   *)
(* any step, and started again.                                            *)
(*                                                                         *)
(* The device is part of the model: what an eraseblock holds after an      *)
(* operation that failed, or was cut short, is not known to the program.   *)
(***************************************************************************)
EXTENDS Integers, FiniteSets

CONSTANTS EbCnt,            \* mtd->eb_cnt, eraseblocks of the device
          EcMax,            \* EC_MAX
          ImageSizes,       \* sizes of images, in eraseblocks
          ForcedEcs,        \* values given with -e
          Majority, Enough, \* 50 and 95 percent of valid counters
          MaxConsecutive,   \* MAX_CONSECUTIVE_BAD_BLOCKS
          OldEcs, OldKinds, \* counters, and other contents, found at first
          MaxFaults,        \* bound: failing operations of the device
          MaxRuns           \* bound: how often the program is started

ASSUME UbiAssumption ==
    /\ EbCnt \in Nat \ {0} /\ EcMax \in Nat
    /\ ImageSizes \subseteq Nat \ {0}
    /\ ForcedEcs \subseteq 0 .. EcMax - 1
    /\ OldEcs \subseteq 0 .. EcMax
    /\ OldKinds \subseteq {"empty", "alien", "corrupted"}
    /\ Majority \in Nat /\ Enough \in Nat /\ MaxConsecutive \in Nat \ {0}
    /\ MaxFaults \in Nat /\ MaxRuns \in Nat

Ebs == 0 .. EbCnt - 1

(* The values of si->ec[] that are no counters, beyond EC_MAX + 1. *)
EB_BAD == EcMax + 2
EB_ALIEN == EcMax + 3
EB_CORRUPTED == EcMax + 4
EB_EMPTY == EcMax + 5

(* What an eraseblock holds.  A header comes with what follows it: nothing, *)
(* one of the two copies of the layout volume, or a block of the image.     *)
Free == -1
Layout(lnum) == -2 - lnum
Damaged == -4
Hdr(ec, seq, body) == [kind |-> "hdr", ec |-> ec, seq |-> seq, body |-> body]
Other(kind) == [kind |-> kind, ec |-> 0, seq |-> 0, body |-> Free]
Blank == Other("empty")
Alien == Other("alien")
Corrupt == Other("corrupted")
Junk == {Blank, Alien, Corrupt}
IsHdr(c) == c.kind = "hdr"

VARIABLES
    flash, bad,                 \* the device
    pc,                         \* where the program is
    image_seq, image, novtbl,   \* its arguments; image = 0: none
    override_ec, forced_ec,     \* args.override_ec, args.ec
    si_ec, mean_ec,             \* the result of the scan
    eb,                         \* the eraseblock of the loop
    written_ebs, skip_data_read, buf, fpos,     \* flash_image
    eb1, eb2,                   \* format
    caller, pattern,            \* mtd_torture: for whom, which pattern
    prev_bb, consecutive_bad_blocks,
    wear,                       \* erases since a counter was last made up
    passed,                     \* eraseblocks that passed the torture test
    bad0,                       \* the bad eraseblocks that the scan found
    faults, runs

argVars == <<image_seq, image, novtbl, override_ec, forced_ec, mean_ec, bad0, runs>>
imgVars == <<written_ebs, skip_data_read, buf, fpos>>
vtblVars == <<eb1, eb2>>
badVars == <<bad, si_ec, prev_bb, consecutive_bad_blocks>>
tortVars == <<caller, pattern, passed>>
vars == <<flash, bad, pc, image_seq, image, novtbl, override_ec, forced_ec,
          si_ec, mean_ec, eb, written_ebs, skip_data_read, buf, fpos, eb1, eb2,
          caller, pattern, prev_bb, consecutive_bad_blocks, wear, passed, bad0,
          faults, runs>>

Contents == [kind : {"hdr", "empty", "alien", "corrupted"}, ec : Nat, seq : Nat,
             body : Int]
Phases == {"off", "flash", "flash_write", "format", "format_write", "torture",
           "mark_bad", "layout1", "layout2", "done", "failed"}

(* Every eraseblock has a counter, is empty, or holds something else. *)
Init ==
    /\ flash \in [Ebs -> {Other(k) : k \in OldKinds} \cup {Hdr(e, 0, Free) : e \in OldEcs}]
    /\ bad \in SUBSET Ebs
    /\ wear = [b \in Ebs |-> flash[b].ec]
    /\ pc = "off" /\ image_seq = 0 /\ image = 0 /\ novtbl = FALSE
    /\ override_ec = FALSE /\ forced_ec = 0
    /\ si_ec = [b \in Ebs |-> EB_EMPTY] /\ mean_ec = 0 /\ bad0 = bad
    /\ eb = 0 /\ written_ebs = 0 /\ skip_data_read = FALSE
    /\ buf = 0 /\ fpos = 0 /\ eb1 = -1 /\ eb2 = -1
    /\ caller = "flash" /\ pattern = 0 /\ passed = {}
    /\ prev_bb = -1 /\ consecutive_bad_blocks = 1
    /\ faults = 0 /\ runs = 0

-----------------------------------------------------------------------------
(* ubi_scan: the counter, or the state, of every eraseblock. *)
Scanned(b) ==
    IF b \in bad THEN EB_BAD
    ELSE IF IsHdr(flash[b]) THEN flash[b].ec
    ELSE IF flash[b] = Blank THEN EB_EMPTY
    ELSE IF flash[b] = Alien THEN EB_ALIEN
    ELSE EB_CORRUPTED

ScanEc == [b \in Ebs |-> Scanned(b)]

(* It refuses a counter that is too large. *)
ScanRefuses == \E b \in Ebs \ bad : IsHdr(flash[b]) /\ flash[b].ec > EcMax

HasCounter(s) == {b \in Ebs : s[b] <= EcMax}
IsGood(s) == {b \in Ebs : s[b] # EB_BAD}
IsEmpty(s) == {b \in Ebs : s[b] = EB_EMPTY}

Counter(s, b) == IF b \in HasCounter(s) THEN s[b] ELSE 0
SumEc(s) ==
    LET sum[n \in 0 .. EbCnt] == IF n = 0 THEN 0 ELSE sum[n - 1] + Counter(s, n - 1)
    IN  sum[EbCnt]

MeanEc(s) ==
    IF HasCounter(s) = {} THEN 0 ELSE SumEc(s) \div Cardinality(HasCounter(s))

(* main: which counters to use, when the user gave none.  The code warns    *)
(* when they are few and may ask; a user who says no ends the program.      *)
ChooseEc(s, forced) ==
    LET good == Cardinality(IsGood(s))
        percent == (Cardinality(HasCounter(s)) * 100) \div good
    IN  IF forced >= 0 THEN <<TRUE, forced>>
        ELSE IF Cardinality(IsEmpty(s)) >= good THEN <<FALSE, 0>>
        ELSE IF percent < Majority THEN <<TRUE, 0>>
        ELSE IF percent < Enough THEN <<TRUE, MeanEc(s)>>
        ELSE <<FALSE, 0>>

(* The memory of a program that is not running. *)
Afresh ==
    /\ eb' = 0 /\ written_ebs' = 0 /\ skip_data_read' = FALSE
    /\ buf' = 0 /\ fpos' = 0 /\ eb1' = -1 /\ eb2' = -1
    /\ caller' = "flash" /\ pattern' = 0 /\ passed' = {} /\ bad0' = bad
    /\ prev_bb' = -1 /\ consecutive_bad_blocks' = 1

(* Started with -e, -f and -n. *)
Start ==
    /\ pc \in {"off", "done", "failed"}
    /\ runs < MaxRuns /\ runs' = runs + 1
    /\ \E forced \in ForcedEcs \cup {-1}, f \in ImageSizes \cup {0}, n \in BOOLEAN :
         LET s == ScanEc
             good == Cardinality(IsGood(s))
         IN  /\ f > 0 => ~n
             /\ image' = f /\ novtbl' = n /\ si_ec' = s /\ mean_ec' = MeanEc(s)
             /\ IF \/ ScanRefuses \/ good = 0 
                   \/ good < 2 /\ (~n \/ f > 0)
                   \/ f > good
                THEN /\ pc' = "failed"
                     /\ override_ec' = (forced >= 0) /\ forced_ec' = 0
                ELSE /\ pc' \in {"failed", IF f > 0 THEN "flash" ELSE "format"}
                     /\ override_ec' = ChooseEc(s, forced)[1]
                     /\ forced_ec' = ChooseEc(s, forced)[2]
    /\ image_seq' = runs + 1
    /\ Afresh
    /\ UNCHANGED <<flash, bad, wear, faults>>

-----------------------------------------------------------------------------
(* The device. *)

Fault == faults < MaxFaults /\ faults' = faults + 1

(* mtd_erase. *)
Erase(b) ==
    /\ flash' = [flash EXCEPT ![b] = Blank]
    /\ wear' = [wear EXCEPT ![b] = wear[b] + 1]
    /\ UNCHANGED faults

EraseFails(b) ==
    /\ Fault
    /\ \E c \in Junk \cup {flash[b]} : flash' = [flash EXCEPT ![b] = c]
    /\ UNCHANGED wear

(* The counter for eraseblock b: the one given, its own, or the mean. *)
OwnCounter(b) == ~override_ec /\ si_ec[b] <= EcMax
SameEc(b) == IF override_ec THEN forced_ec
             ELSE IF si_ec[b] <= EcMax THEN si_ec[b]
             ELSE mean_ec
NewEc(b) == IF override_ec THEN forced_ec
            ELSE IF si_ec[b] <= EcMax THEN si_ec[b] + 1
            ELSE mean_ec

(* mtd_write of an EC header with what follows it. *)
Programmed(b, body) ==
    /\ flash' = [flash EXCEPT ![b] = Hdr(NewEc(b), image_seq, body)]
    /\ wear' = IF OwnCounter(b) THEN wear ELSE [wear EXCEPT ![b] = NewEc(b)]

Spoiled(b) ==
    /\ \E c \in Junk : flash' = [flash EXCEPT ![b] = c]
    /\ UNCHANGED wear

Write(b, body) == Programmed(b, body) /\ UNCHANGED faults

(* A write that fails may have got beyond the header. *)
WriteFails(b) == Fault /\ (Spoiled(b) \/ Programmed(b, Damaged))

-----------------------------------------------------------------------------
(* mtd_torture, for an eraseblock that could not be written: erase it and   *)
(* write a pattern, three times.  It returns -1 whatever comes out of it.   *)
Patterns == 3

TortureResult(ok) == -1

(* Back in the loop that called it. *)
AfterTorture(ok) ==
    IF TortureResult(ok) # 0 THEN pc' = "mark_bad" /\ UNCHANGED eb
                             ELSE pc' = caller /\ eb' = eb + 1

Torture ==
    /\ pc = "torture"
    /\ \/ /\ flash' = [flash EXCEPT ![eb] = Alien]
          /\ wear' = [wear EXCEPT ![eb] = wear[eb] + 1]
          /\ pattern' = pattern + 1
          /\ IF pattern' = Patterns
             THEN passed' = passed \cup {eb} /\ AfterTorture(TRUE)
             ELSE UNCHANGED <<passed, pc, eb>>
          /\ UNCHANGED faults
       \/ /\ Fault /\ Spoiled(eb) /\ AfterTorture(FALSE)
          /\ UNCHANGED <<pattern, passed>>
    /\ UNCHANGED <<argVars, imgVars, vtblVars, badVars, caller>>

(* consecutive_bad_check: how many eraseblocks in a row have been marked. *)
NotStatic(b) == 1
InARow(b) ==
    IF prev_bb # -1 /\ b = prev_bb + 1 THEN consecutive_bad_blocks + 1 ELSE 1

(* mark_bad.  The user may refuse, and the device may not take the mark. *)
MarkBad ==
    /\ pc = "mark_bad"
    /\ \/ /\ bad' = bad \cup {eb}
          /\ si_ec' = [si_ec EXCEPT ![eb] = EB_BAD]
          /\ consecutive_bad_blocks' = InARow(eb) /\ prev_bb' = eb
          /\ IF consecutive_bad_blocks' >= MaxConsecutive
             THEN pc' = "failed" /\ UNCHANGED eb
             ELSE pc' = caller /\ eb' = eb + 1
       \/ pc' = "failed" /\ UNCHANGED <<badVars, eb>>
    /\ UNCHANGED <<flash, wear, faults, argVars, imgVars, vtblVars, tortVars>>

(* A failed write or erase: with EIO the eraseblock is dealt with, with any *)
(* other error the program ends.                                            *)
OnError(from, to) ==
    /\ pc' \in {to, "failed"} /\ caller' = from /\ pattern' = 0
    /\ UNCHANGED <<passed, eb>>

-----------------------------------------------------------------------------
(* Both loops leave out the eraseblocks known to be bad. *)
SkipsNone == FALSE
SkipsBad == si_ec[eb] = EB_BAD

(* flash_image. *)

FlashSkipBad ==
    /\ pc = "flash" /\ eb < EbCnt /\ SkipsBad
    /\ eb' = eb + 1
    /\ UNCHANGED <<flash, wear, faults, pc, argVars, imgVars, vtblVars, badVars, tortVars>>

(* The next block of the image, unless the last one has not been written    *)
(* yet: buf is then still where it was on the stack.                        *)
ReadData ==
    /\ IF skip_data_read THEN UNCHANGED <<buf, fpos>>
                         ELSE buf' = fpos /\ fpos' = fpos + 1
    /\ skip_data_read' = FALSE

(* A block that cannot be read or has no EC header ends the program. *)
FlashErase ==
    /\ pc = "flash" /\ eb < EbCnt /\ ~SkipsBad
    /\ \/ /\ Erase(eb)
          /\ pc' \in {"flash_write", "failed"}
          /\ ReadData
          /\ UNCHANGED <<eb, tortVars>>
       \/ /\ EraseFails(eb) /\ OnError("flash", "mark_bad")
          /\ UNCHANGED <<buf, fpos, skip_data_read>>
    /\ UNCHANGED <<argVars, written_ebs, vtblVars, badVars>>

(* The rest of the device is formatted, with the layout of the image. *)
ThenFormat == pc' = "format" /\ eb' = eb + 1 /\ novtbl' = TRUE

FlashWrite ==
    /\ pc = "flash_write"
    /\ \/ /\ Write(eb, buf)
          /\ written_ebs' = written_ebs + 1
          /\ IF written_ebs' >= image THEN ThenFormat
             ELSE pc' = "flash" /\ eb' = eb + 1 /\ UNCHANGED novtbl
          /\ UNCHANGED <<tortVars, skip_data_read>>
       \/ /\ WriteFails(eb) /\ OnError("flash", "torture")
          /\ skip_data_read' = TRUE
          /\ UNCHANGED <<written_ebs, novtbl>>
    /\ UNCHANGED <<image_seq, image, override_ec, forced_ec, mean_ec, bad0, runs,
                   buf, fpos, vtblVars, badVars>>

FlashEnd ==
    /\ pc = "flash" /\ eb >= EbCnt
    /\ ThenFormat
    /\ UNCHANGED <<flash, wear, faults, image_seq, image, override_ec, forced_ec,
                   mean_ec, bad0, runs, imgVars, vtblVars, badVars, tortVars>>

-----------------------------------------------------------------------------
(* format. *)

FormatSkipBad ==
    /\ pc = "format" /\ eb < EbCnt /\ SkipsBad
    /\ eb' = eb + 1
    /\ UNCHANGED <<flash, wear, faults, pc, argVars, imgVars, vtblVars, badVars, tortVars>>

(* The first two eraseblocks that can be erased are kept for the volume     *)
(* table.                                                                   *)
KeepTwice == eb1' = (IF eb1 = -1 THEN eb ELSE eb1) /\ eb2' = eb
KeepForVtbl == IF eb1 = -1 THEN eb1' = eb /\ UNCHANGED eb2
                           ELSE eb2' = eb /\ UNCHANGED eb1

FormatErase ==
    /\ pc = "format" /\ eb < EbCnt /\ ~SkipsBad
    /\ \/ /\ Erase(eb)
          /\ IF ~novtbl /\ (eb1 = -1 \/ eb2 = -1)
             THEN KeepForVtbl /\ eb' = eb + 1 /\ UNCHANGED pc
             ELSE pc' = "format_write" /\ UNCHANGED <<eb, vtblVars>>
          /\ UNCHANGED tortVars
       \/ EraseFails(eb) /\ OnError("format", "mark_bad") /\ UNCHANGED vtblVars
    /\ UNCHANGED <<argVars, imgVars, badVars>>

FormatWrite ==
    /\ pc = "format_write"
    /\ \/ /\ Write(eb, Free)
          /\ pc' = "format" /\ eb' = eb + 1
          /\ UNCHANGED tortVars
       \/ WriteFails(eb) /\ OnError("format", "torture")
    /\ UNCHANGED <<argVars, imgVars, vtblVars, badVars>>

FormatEnd ==
    /\ pc = "format" /\ eb >= EbCnt
    /\ pc' = CASE novtbl                           -> "done"
               [] ~novtbl /\ (eb1 = -1 \/ eb2 = -1) -> "failed"
               [] ~novtbl /\ eb1 # -1 /\ eb2 # -1   -> "layout1"
    /\ UNCHANGED <<flash, wear, faults, eb, argVars, imgVars, vtblVars, badVars, tortVars>>

(* ubigen_write_layout_vol: two copies of an empty volume table. *)
WriteLayout(from, b, lnum, to) ==
    /\ pc = from
    /\ \/ Write(b, Layout(lnum)) /\ pc' = to
       \/ WriteFails(b) /\ pc' = "failed"
    /\ UNCHANGED <<eb, argVars, imgVars, vtblVars, badVars, tortVars>>

-----------------------------------------------------------------------------
(* Power is cut, or the program killed, in the middle of an operation. *)
Target == CASE pc = "layout1" -> eb1
            [] pc = "layout2" -> eb2
            [] pc \notin {"layout1", "layout2"} -> eb

Writing == pc \in {"flash_write", "format_write", "layout1", "layout2"}

Crash ==
    /\ pc \notin {"off", "done", "failed"}
    /\ pc' = "off"
    /\ \/ UNCHANGED <<flash, wear>>
       \/ pc # "mark_bad" /\ Target < EbCnt /\ si_ec[Target] # EB_BAD /\ Spoiled(Target)
       \/ Writing /\ Programmed(Target, Damaged)
    /\ Afresh
    /\ image_seq' = 0 /\ image' = 0 /\ novtbl' = FALSE
    /\ override_ec' = FALSE /\ forced_ec' = 0
    /\ si_ec' = [b \in Ebs |-> EB_EMPTY] /\ mean_ec' = 0
    /\ UNCHANGED <<bad, faults, runs>>

Terminated == pc \in {"off", "done", "failed"} /\ runs = MaxRuns /\ UNCHANGED vars

Next ==
    \/ Start \/ Torture \/ MarkBad
    \/ FlashSkipBad \/ FlashErase \/ FlashWrite \/ FlashEnd
    \/ FormatSkipBad \/ FormatErase \/ FormatWrite \/ FormatEnd
    \/ WriteLayout("layout1", eb1, 0, "layout2")
    \/ WriteLayout("layout2", eb2, 1, "done")
    \/ Crash \/ Terminated

Spec == Init /\ [][Next]_vars

-----------------------------------------------------------------------------
TypeOK ==
    /\ flash \in [Ebs -> Contents] /\ wear \in [Ebs -> Nat]
    /\ bad \subseteq Ebs /\ passed \subseteq Ebs /\ bad0 \subseteq Ebs
    /\ pc \in Phases /\ caller \in {"flash", "format"}
    /\ image_seq \in Nat /\ image \in Nat /\ novtbl \in BOOLEAN
    /\ override_ec \in BOOLEAN /\ forced_ec \in Nat
    /\ si_ec \in [Ebs -> Nat] /\ mean_ec \in Nat
    /\ eb \in Nat /\ eb1 \in Ebs \cup {-1} /\ eb2 \in Ebs \cup {-1}
    /\ written_ebs \in Nat /\ skip_data_read \in BOOLEAN
    /\ buf \in Nat /\ fpos \in Nat /\ pattern \in 0 .. Patterns
    /\ prev_bb \in Ebs \cup {-1} /\ consecutive_bad_blocks \in Nat
    /\ faults \in Nat /\ runs \in Nat

Good == Ebs \ bad

(* The erase counters are what they say: whatever fails and whenever the    *)
(* program is cut short, a counter on the device that was carried over from *)
(* the one before it (ubiformat.c:490-495, 582-587) counts every erase of   *)
(* the eraseblock, and none twice.                                          *)
CountersExact == \A b \in Ebs : IsHdr(flash[b]) => flash[b].ec = wear[b]

(* An exit status of 0 (ubiformat.c:912-929) means a device that UBI can     *)
(* attach: every eraseblock that is not bad has an EC header of this run,   *)
(* so that no image_seq of an earlier, interrupted run is left.             *)
OneImageSeq ==
    pc = "done" => \A b \in Good : IsHdr(flash[b]) /\ flash[b].seq = image_seq

(* A formatted device (552-680) has both copies of the volume table, once   *)
(* each and on different eraseblocks, unless -n was given, and nothing else.*)
VolumeTable ==
    pc = "done" /\ image = 0 =>
        LET with(body) == {b \in Good : flash[b].body = body} IN
        IF novtbl THEN with(Free) = Good
        ELSE /\ Cardinality(with(Layout(0))) = 1
             /\ Cardinality(with(Layout(1))) = 1
             /\ with(Free) = Good \ (with(Layout(0)) \cup with(Layout(1)))

(* A flashed device (418-550) holds the blocks of the image in their order, *)
(* each once, on the first eraseblocks that are not bad, though writes fail *)
(* and eraseblocks turn bad in between; only when no eraseblock is left are *)
(* blocks missing.                                                          *)
Before(b) == Cardinality({a \in Good : a < b})
ImageInOrder ==
    pc = "done" /\ image > 0 =>
        \A b \in Good : flash[b].body = IF Before(b) < image THEN Before(b) ELSE Free

(* All of it, for a program cut short and started again at any point: an    *)
(* exit status of 0 (ubiformat.c:912-929) means that every good eraseblock  *)
(* has an EC header of this run, that a formatted device has both copies of *)
(* the volume table and nothing else (552-680), and that a flashed one      *)
(* holds the blocks of the image in their order (418-550).                  *)
Formatted == TypeOK /\ OneImageSeq /\ VolumeTable /\ ImageInOrder

(* A run in which MaxConsecutive eraseblocks in a row turn bad ends there,  *)
(* whichever loops they turned bad in (362-384, 411-412).                   *)
NoRunaway ==
    (\E b \in Ebs : b .. b + MaxConsecutive - 1 \subseteq bad \ bad0) => pc = "failed"

(* An eraseblock marked bad is never erased or written again.  (The scan    *)
(* must have seen it, libscan.c:89-98, and both loops skip it.)             *)
BadUntouched == [][\A b \in bad : flash'[b] = flash[b] /\ b \in bad']_vars

-----------------------------------------------------------------------------
(* What the program says of itself, and does not do. *)

(* "PEB %d passed torture test, do not mark it a bad" (libmtd.c:1004). *)
PassedIsNotBad == passed \cap bad = {}

(* A file that does not fit "is too large" (ubiformat.c:431-435): exit      *)
(* status 0 means that all of the image has been written.                   *)
WholeImage == pc = "done" /\ image > 0 => written_ebs = image
=============================================================================
