-------------------------- MODULE UbiLoops_proofs ---------------------------
(***************************************************************************)
(* The loops of flash_image and format and mtd_torture keep the inductive  *)
(* invariant.  A step of theirs works on one eraseblock (lemma StepOK), and *)
(* what is left to show of each is where it leaves the program and what it *)
(* leaves on that eraseblock.                                              *)
(***************************************************************************)
EXTENDS UbiDevice_proofs

(* A minute for every leaf that does not name a prover. *)
USE SMTT(60)

(* Both loops: an eraseblock known to be bad is left out. *)
LEMMA SkipKept ==
    ASSUME IInv, FlashSkipBad \/ FormatSkipBad
    PROVE  IInv' /\ BadKept
  <1> USE DEF argVars, imgVars, vtblVars, badVars, tortVars
  <1>   /\ UNCHANGED <<flash, wear, faults, pc, argVars, imgVars, vtblVars, badVars, tortVars>>
        /\ pc \in {"flash", "format"} /\ eb < EbCnt /\ si_ec[eb] = EB_BAD /\ eb' = eb + 1
    BY DEF FlashSkipBad, FormatSkipBad, SkipsBad
  <1>   /\ TypeOK /\ DeviceOK /\ ScanOK /\ LoopOK /\ CountersExact
        /\ WearOK /\ PassedOK /\ ImageOK /\ RowOK
    BY DEF IInv
  <1>   eb \in Nat /\ eb \in Ebs /\ eb \notin Good
    BY Consts DEF TypeOK, ScanOK, Running, Good, Ebs
  <1>   Good' = Good /\ \A b : Before(b)' = Before(b)
    BY SameGood
  <1>5. Before(eb + 1) = Before(eb)
    BY GoodFacts, BelowNext
  <1>6. \A b \in Good : b \in Nat /\ b # eb
    BY GoodFacts
  <1>7. TypeOK' /\ DeviceOK' /\ CountersExact' /\ ScanOK'
    BY DEF TypeOK, DeviceOK, CountersExact, ScanOK, Running
  <1>8. LoopOK'
    BY Consts DEF LoopOK, TypeOK, Running, AtBlock, InFlash
  <1>9. WearOK'
    BY <1>6 DEF WearOK, Running, OwnCounter, Tested, Waiting
  <1>10. PassedOK'
    <2>1. \A b \in Good : b < eb' => b < eb
      BY <1>6
    <2>2. \A b \in Good : b < eb /\ b # eb1 /\ b # eb2 => Holds(b, BodyOf(b))
      BY Zenon DEF PassedOK, Running
    <2>3. \A b \in Good : b < eb' /\ b # eb1 /\ b # eb2 => Holds(b, BodyOf(b))'
      BY <2>1, <2>2, ZenonT(30) DEF Holds, BodyOf
    <2> QED
      BY <2>3 DEF PassedOK
  <1>11. ImageOK'
    BY <1>5, Consts DEF ImageOK, TypeOK, Running, InFlash, HasRead
  <1>12. RowOK'
    BY DEF RowOK, TypeOK, Running, NewBad, Ebs
  <1> QED
    BY <1>7, <1>8, <1>9, <1>10, <1>11, <1>12 DEF IInv, BadKept

(* The file is written, or no eraseblock is left: the rest is formatted. *)
LEMMA FlashEndKept ==
    ASSUME IInv, FlashEnd
    PROVE  IInv' /\ BadKept
  <1> USE DEF argVars, imgVars, vtblVars, badVars, tortVars
  <1>   /\ UNCHANGED <<flash, wear, faults, image_seq, image, override_ec, forced_ec,
                       mean_ec, bad0, runs, imgVars, vtblVars, badVars, tortVars>>
        /\ pc = "flash" /\ eb >= EbCnt
        /\ pc' = "format" /\ eb' = eb + 1 /\ novtbl' = TRUE
    BY DEF FlashEnd, ThenFormat
  <1>   /\ TypeOK /\ DeviceOK /\ ScanOK /\ LoopOK /\ CountersExact
        /\ WearOK /\ PassedOK /\ ImageOK /\ RowOK
    BY DEF IInv
  <1>   eb \in Nat
    BY DEF TypeOK
  <1>   Good' = Good /\ \A b : Before(b)' = Before(b)
    BY SameGood
  <1>5. \A b \in Good : b \in Nat /\ b < eb
    BY GoodFacts, Consts DEF Ebs
  <1>6. novtbl' \in BOOLEAN
    BY ZenonT(30)
  <1>7. TypeOK' /\ DeviceOK' /\ CountersExact' /\ ScanOK'
    BY <1>6
    DEF TypeOK, DeviceOK, CountersExact, ScanOK, Running, Phases
  <1>8. LoopOK'
    BY Consts DEF LoopOK, TypeOK, Running, AtBlock, InFlash
  <1>9. WearOK'
    BY <1>5 DEF WearOK, Running, OwnCounter, Tested, Waiting
  <1>10. PassedOK'
    BY <1>5, Zenon DEF PassedOK, Running, Holds, BodyOf
  <1>11. ImageOK'
    <2>1. ~InFlash' /\ eb' >= EbCnt
      BY Consts DEF InFlash
    <2> QED
      BY <2>1, Zenon DEF ImageOK
  <1>12. RowOK'
    BY DEF RowOK, TypeOK, Running, NewBad, Ebs
  <1> QED
    BY <1>7, <1>8, <1>9, <1>10, <1>11, <1>12 DEF IInv, BadKept

(* The end of format. *)
LEMMA FormatEndKept ==
    ASSUME IInv, FormatEnd
    PROVE  IInv' /\ BadKept
  <1> USE DEF argVars, imgVars, vtblVars, badVars, tortVars
  <1>   /\ UNCHANGED <<flash, wear, faults, eb, argVars, imgVars, vtblVars, badVars, tortVars>>
        /\ pc = "format" /\ eb >= EbCnt
    BY DEF FormatEnd
  <1>   /\ TypeOK /\ DeviceOK /\ ScanOK /\ LoopOK /\ CountersExact
        /\ WearOK /\ PassedOK /\ ImageOK /\ RowOK
    BY DEF IInv
  <1>   \/ pc' = "done" /\ novtbl
        \/ pc' = "failed"
        \/ pc' = "layout1" /\ ~novtbl /\ eb1 # -1 /\ eb2 # -1
    BY DEF FormatEnd
  <1>   Good' = Good /\ \A b : Before(b)' = Before(b)
    BY SameGood
  <1>5. \A b \in Good : b \in Nat /\ b < eb /\ b # eb
    <2>1. eb \in Nat /\ Good \subseteq Ebs
      BY GoodFacts, Zenon DEF TypeOK
    <2> QED
      BY <2>1, Consts DEF Ebs
  <1>6. TypeOK' /\ DeviceOK' /\ CountersExact' /\ ScanOK'
    BY ZenonT(30) DEF TypeOK, DeviceOK, CountersExact, ScanOK, Running, Phases
  <1>7. LoopOK'
    BY DEF LoopOK, Running, AtBlock, InFlash
  <1>8. WearOK'
    BY <1>5 DEF WearOK, Running, OwnCounter, Tested, Waiting
  <1>9. PassedOK'
    BY Zenon DEF PassedOK, LoopOK, Running, Holds, BodyOf
  <1>10. ImageOK' /\ RowOK'
    BY Zenon DEF ImageOK, RowOK, Running, InFlash, NewBad
  <1> QED
    BY <1>6, <1>7, <1>8, <1>9, <1>10 DEF IInv, BadKept


-----------------------------------------------------------------------------
(* flash_image. *)

(* The eraseblock is erased, and the block of the image read. *)
LEMMA FlashErased ==
    ASSUME IInv, pc = "flash", eb < EbCnt, ~SkipsBad, Erase(eb),
           pc' \in {"flash_write", "failed"}, ReadData,
           UNCHANGED <<eb, tortVars, argVars, written_ebs, vtblVars, badVars>>
    PROVE  IInv' /\ BadKept
  <1> USE DEF tortVars, argVars, vtblVars, badVars
  <1> TypeOK /\ DeviceOK /\ CountersExact /\ LoopOK /\ ImageOK
    BY DEF IInv
  <1> /\ eb \in Nat /\ eb \in Ebs /\ eb \in Good
      /\ OwnCounter(eb) => wear[eb] = si_ec[eb]
    BY AtEb
  <1> Touches(eb) /\ wear'[eb] = wear[eb] + 1 /\ faults' = faults
    BY EraseTouches
  <1>1. TypeOK'
    <2>1. buf' \in Nat /\ fpos' \in Nat
      BY DEF TypeOK, ReadData
    <2>2. skip_data_read' \in BOOLEAN
      BY ZenonT(30) DEF ReadData
    <2> QED
      BY <2>1, <2>2 DEF TypeOK, Touches, Phases
  <1>2. CASE pc' = "flash_write"
    <2>1. LoopOK'
      BY <1>2, SameGood DEF LoopOK, Running, AtBlock, InFlash
    <2>2. ImageOK'
      BY <1>2, SameGood DEF ImageOK, TypeOK, Running, InFlash, HasRead, ReadData
    <2> QED
      BY <1>1, <1>2, <2>1, <2>2, StepOK DEF Loops
  <1> QED
    BY <1>1, <1>2, EndOK

(* It cannot be erased. *)
LEMMA FlashEraseFailed ==
    ASSUME IInv, pc = "flash", eb < EbCnt, ~SkipsBad, EraseFails(eb),
           OnError("flash", "mark_bad"),
           UNCHANGED <<imgVars, argVars, vtblVars, badVars>>
    PROVE  IInv' /\ BadKept
  <1> USE DEF imgVars, argVars, vtblVars, badVars
  <1> TypeOK /\ DeviceOK /\ CountersExact /\ LoopOK /\ ImageOK
    BY DEF IInv
  <1> eb \in Nat /\ eb \in Ebs /\ eb \in Good
    BY AtEb
  <1> Touches(eb) /\ faults' \in Nat
    BY EraseFailsTouches
  <1> /\ pc' \in {"mark_bad", "failed"} /\ caller' = "flash" /\ pattern' = 0
      /\ passed' = passed /\ eb' = eb
    BY DEF OnError
  <1>1. TypeOK'
    BY DEF TypeOK, Touches, Phases, Patterns
  <1>2. CASE pc' = "mark_bad"
    <2>1. LoopOK'
      BY <1>2, SameGood DEF LoopOK, Running, AtBlock, InFlash
    <2>2. ImageOK'
      BY <1>2, SameGood DEF ImageOK, Running, InFlash, HasRead
    <2> QED
      BY <1>1, <1>2, <2>1, <2>2, StepOK DEF Loops
  <1> QED
    BY <1>1, <1>2, EndOK

(* The block of the image is written, and the loop is left after the last. *)
LEMMA FlashWritten ==
    ASSUME IInv, pc = "flash_write", Write(eb, buf), written_ebs' = written_ebs + 1,
           IF written_ebs' >= image THEN ThenFormat
           ELSE pc' = "flash" /\ eb' = eb + 1 /\ UNCHANGED novtbl,
           UNCHANGED <<tortVars, skip_data_read, image_seq, image, override_ec,
                       forced_ec, mean_ec, bad0, runs, buf, fpos, vtblVars, badVars>>
    PROVE  IInv' /\ BadKept
  <1> USE DEF tortVars, vtblVars, badVars
  <1> TypeOK /\ DeviceOK /\ CountersExact /\ LoopOK /\ ImageOK
    BY DEF IInv
  <1> /\ eb \in Nat /\ eb \in Ebs /\ eb \in Good
      /\ OwnCounter(eb) => wear[eb] = si_ec[eb] + 1
      /\ Before(eb + 1) = Before(eb) + 1 /\ Before(eb) \in Nat
    BY AtEb
  <1> /\ written_ebs = Before(eb) /\ written_ebs < image /\ buf = written_ebs
      /\ fpos = written_ebs + 1 /\ ~skip_data_read /\ image \in Nat
    BY DEF ImageOK, Running, InFlash, HasRead, TypeOK
  <1>1. /\ Touches(eb)
        /\ IsHdr(flash'[eb]) /\ flash'[eb].seq = image_seq /\ flash'[eb].body = buf
        /\ OwnCounter(eb) => wear'[eb] = wear[eb]
        /\ faults' = faults
    BY ProgrammedTouches DEF Write, TypeOK
  <1> /\ pc' \in {"flash", "format"} /\ eb' = eb + 1
      /\ written_ebs + 1 >= image => pc' = "format" /\ novtbl' = TRUE
      /\ ~(written_ebs + 1 >= image) => pc' = "flash" /\ novtbl' = novtbl
    BY DEF ThenFormat
  <1>2. TypeOK'
    <2>1. novtbl' \in BOOLEAN
      BY ZenonT(30) DEF TypeOK
    <2> QED
      BY <1>1, <2>1 DEF TypeOK, Touches, Phases
  <1>3. LoopOK'
    <2>1. image > 0 /\ eb1 = -1 /\ eb2 = -1 /\ ~novtbl /\ eb + 1 <= EbCnt
      BY Consts DEF LoopOK, Running, InFlash, Ebs
    <2> QED
      BY <2>1 DEF LoopOK, AtBlock, InFlash
  <1>4. ImageOK'
    BY SameGood DEF ImageOK, Running, InFlash, HasRead
  <1>5. flash'[eb].body = BodyOf(eb)
    BY <1>1 DEF BodyOf
  <1> QED
    BY <1>1, <1>2, <1>3, <1>4, <1>5, StepOK DEF Loops

(* It cannot be written: the block of the image waits for the next. *)
LEMMA FlashWriteFailed ==
    ASSUME IInv, pc = "flash_write", WriteFails(eb), OnError("flash", "torture"),
           skip_data_read' = TRUE,
           UNCHANGED <<written_ebs, novtbl, image_seq, image, override_ec,
                       forced_ec, mean_ec, bad0, runs, buf, fpos, vtblVars, badVars>>
    PROVE  IInv' /\ BadKept
  <1> USE DEF vtblVars, badVars
  <1> TypeOK /\ DeviceOK /\ CountersExact /\ LoopOK /\ ImageOK
    BY DEF IInv
  <1> /\ eb \in Nat /\ eb \in Ebs /\ eb \in Good
      /\ OwnCounter(eb) => wear[eb] = si_ec[eb] + 1
    BY AtEb
  <1> Touches(eb) /\ faults' \in Nat
    BY WriteFailsTouches
  <1> /\ pc' \in {"torture", "failed"} /\ caller' = "flash" /\ pattern' = 0
      /\ passed' = passed /\ eb' = eb
    BY DEF OnError
  <1>1. TypeOK'
    BY DEF TypeOK, Touches, Phases, Patterns
  <1>2. CASE pc' = "torture"
    <2>1. LoopOK'
      <3>1. pattern' < Patterns
        BY DEF Patterns
      <3> QED
        BY <1>2, <3>1, SameGood, ZenonT(30) DEF LoopOK, Running, AtBlock, InFlash
    <2>2. ImageOK'
      BY <1>2, SameGood DEF ImageOK, Running, InFlash, HasRead
    <2> QED
      BY <1>1, <1>2, <2>1, <2>2, StepOK DEF Loops
  <1> QED
    BY <1>1, <1>2, EndOK

-----------------------------------------------------------------------------
(* mtd_torture. *)

(* One pattern of the torture test, or its end. *)
LEMMA TortureKept ==
    ASSUME IInv, Torture
    PROVE  IInv' /\ BadKept
  <1> USE DEF argVars, imgVars, vtblVars, badVars, tortVars
  <1> /\ UNCHANGED <<argVars, imgVars, vtblVars, badVars, caller, eb>>
      /\ pc = "torture" /\ pc' \in {"torture", "mark_bad"}
    BY DEF Torture, AfterTorture, TortureResult
  <1> TypeOK /\ DeviceOK /\ CountersExact /\ LoopOK /\ ImageOK
    BY DEF IInv
  <1> eb \in Nat /\ eb \in Ebs /\ eb \in Good
    BY AtEb
  <1> Touches(eb)
    BY PatternTouches, SpoiledTouches, ZenonT(30) DEF Torture
  <1>1. /\ faults' \in Nat /\ pattern' \in 0 .. Patterns
        /\ pc' = "torture" => pattern' < Patterns
    BY DEF Torture, Fault, TypeOK, LoopOK, Running, Patterns, AfterTorture, TortureResult
  <1>2. passed' \subseteq Ebs
    BY ZenonT(30) DEF Torture, TypeOK
  <1>3. TypeOK'
    BY <1>1, <1>2 DEF TypeOK, Touches, Phases
  <1>4. LoopOK'
    BY <1>1, SameGood DEF LoopOK, Running, AtBlock, InFlash
  <1>5. ImageOK'
    BY SameGood, ZenonT(30) DEF ImageOK, Running, InFlash, HasRead
  <1> QED
    BY <1>3, <1>4, <1>5, StepOK DEF Loops

-----------------------------------------------------------------------------
(* format. *)

(* One of the first two eraseblocks that can be erased. *)
LEMMA FormatKeeps ==
    ASSUME IInv, pc = "format", eb < EbCnt, ~SkipsBad, Erase(eb),
           ~novtbl, eb1 = -1 \/ eb2 = -1, KeepForVtbl, eb' = eb + 1, pc' = pc,
           UNCHANGED <<argVars, imgVars, badVars, tortVars>>
    PROVE  IInv' /\ BadKept
  <1> USE DEF argVars, imgVars, badVars, tortVars
  <1> TypeOK /\ DeviceOK /\ CountersExact /\ LoopOK /\ ImageOK
    BY DEF IInv
  <1> /\ eb \in Nat /\ eb \in Ebs /\ eb \in Good
      /\ OwnCounter(eb) => wear[eb] = si_ec[eb]
    BY AtEb
  <1> Touches(eb) /\ wear'[eb] = wear[eb] + 1 /\ faults' = faults
    BY EraseTouches
  <1> /\ eb1 = -1 => eb1' = eb /\ eb2' = eb2
      /\ eb1 # -1 => eb1' = eb1 /\ eb2' = eb
    BY DEF KeepForVtbl
  <1>1. TypeOK'
    BY DEF TypeOK, Touches
  <1>2. image = 0 /\ (eb1 = -1 => eb2 = -1)
    BY DEF LoopOK, Running, InFlash, TypeOK
  <1>3. LoopOK'
    BY <1>2, SameGood DEF LoopOK, Running, AtBlock, InFlash, TypeOK, Ebs
  <1>4. ImageOK'
    <2>1. ~InFlash' /\ ~(image' > 0)
      BY <1>2 DEF InFlash
    <2> QED
      BY <2>1, ZenonT(30) DEF ImageOK
  <1> QED
    BY <1>1, <1>2, <1>3, <1>4, StepOK DEF Loops

(* It is erased, to be written next. *)
LEMMA FormatErased ==
    ASSUME IInv, pc = "format", eb < EbCnt, ~SkipsBad, Erase(eb), pc' = "format_write",
           UNCHANGED <<eb, argVars, imgVars, badVars, tortVars, vtblVars>>
    PROVE  IInv' /\ BadKept
  <1> USE DEF argVars, imgVars, badVars, tortVars, vtblVars
  <1> TypeOK /\ DeviceOK /\ CountersExact /\ LoopOK /\ ImageOK
    BY DEF IInv
  <1> /\ eb \in Nat /\ eb \in Ebs /\ eb \in Good
      /\ OwnCounter(eb) => wear[eb] = si_ec[eb]
    BY AtEb
  <1> Touches(eb) /\ wear'[eb] = wear[eb] + 1 /\ faults' = faults
    BY EraseTouches, ZenonT(30)
  <1>1. TypeOK'
    BY ZenonT(30) DEF TypeOK, Touches, Phases
  <1>2. LoopOK'
    BY SameGood DEF LoopOK, Running, AtBlock, InFlash
  <1>3. ImageOK'
    BY SameGood, Zenon DEF ImageOK, Running, InFlash, HasRead
  <1> QED
    BY <1>1, <1>2, <1>3, StepOK DEF Loops

(* It cannot be erased. *)
LEMMA FormatEraseFailed ==
    ASSUME IInv, pc = "format", eb < EbCnt, ~SkipsBad, EraseFails(eb),
           OnError("format", "mark_bad"),
           UNCHANGED <<argVars, imgVars, vtblVars, badVars>>
    PROVE  IInv' /\ BadKept
  <1> USE DEF imgVars, argVars, vtblVars, badVars
  <1> TypeOK /\ DeviceOK /\ CountersExact /\ LoopOK /\ ImageOK
    BY DEF IInv
  <1> eb \in Nat /\ eb \in Ebs /\ eb \in Good
    BY AtEb
  <1> Touches(eb) /\ faults' \in Nat
    BY EraseFailsTouches
  <1> /\ pc' \in {"mark_bad", "failed"} /\ caller' = "format" /\ pattern' = 0
      /\ passed' = passed /\ eb' = eb
    BY ZenonT(30) DEF OnError
  <1>1. TypeOK'
    BY DEF TypeOK, Touches, Phases, Patterns
  <1>2. CASE pc' = "mark_bad"
    <2>1. LoopOK'
      BY <1>2, SameGood, ZenonT(30) DEF LoopOK, Running, AtBlock, InFlash
    <2>2. ImageOK'
      BY <1>2, SameGood, ZenonT(30) DEF ImageOK, Running, InFlash, HasRead
    <2> QED
      BY <1>1, <1>2, <2>1, <2>2, StepOK DEF Loops
  <1> QED
    BY <1>1, <1>2, EndOK

(* It gets a header and nothing else. *)
LEMMA FormatWritten ==
    ASSUME IInv, pc = "format_write", Write(eb, Free), pc' = "format", eb' = eb + 1,
           UNCHANGED <<argVars, imgVars, vtblVars, badVars, tortVars>>
    PROVE  IInv' /\ BadKept
  <1> USE DEF imgVars, argVars, vtblVars, badVars, tortVars
  <1> TypeOK /\ DeviceOK /\ CountersExact /\ LoopOK /\ ImageOK
    BY ZenonT(30) DEF IInv
  <1> /\ eb \in Nat /\ eb \in Ebs /\ eb \in Good
      /\ OwnCounter(eb) => wear[eb] = si_ec[eb] + 1
      /\ Before(eb + 1) = Before(eb) + 1 /\ Before(eb) \in Nat
      /\ Before(eb) >= image /\ image \in Nat
    BY AtEb DEF InFlash, TypeOK
  <1> Free \in Int /\ Programmed(eb, Free) /\ faults' = faults
    BY DEF Write, Free
  <1>1. /\ Touches(eb)
        /\ IsHdr(flash'[eb]) /\ flash'[eb].seq = image_seq /\ flash'[eb].body = Free
        /\ OwnCounter(eb) => wear'[eb] = wear[eb]
    BY ProgrammedTouches, ZenonT(30)
  <1>2. TypeOK'
    BY <1>1 DEF TypeOK, Touches, Phases
  <1>3. LoopOK'
    <2>1. \A b \in Good : b < eb => b < eb + 1
      BY GoodFacts
    <2> QED
      BY <2>1, SameGood, ZenonT(30) DEF LoopOK, Running, AtBlock, InFlash
  <1>4. ImageOK'
    <2>1. ~InFlash'
      BY ZenonT(30) DEF InFlash
    <2>2. Before(eb)' = Before(eb + 1)
      BY SameGood DEF Before
    <2>3. Before(eb)' >= image'
      BY <2>2
    <2> QED
      BY <2>1, <2>3, ZenonT(30) DEF ImageOK
  <1>5. flash'[eb].body = BodyOf(eb)
    BY <1>1 DEF BodyOf
  <1> QED
    BY <1>1, <1>2, <1>3, <1>4, <1>5, StepOK, ZenonT(30) DEF Loops

(* It cannot be written. *)
LEMMA FormatWriteFailed ==
    ASSUME IInv, pc = "format_write", WriteFails(eb), OnError("format", "torture"),
           UNCHANGED <<argVars, imgVars, vtblVars, badVars>>
    PROVE  IInv' /\ BadKept
  <1> USE DEF imgVars, argVars, vtblVars, badVars
  <1> TypeOK /\ DeviceOK /\ CountersExact /\ LoopOK /\ ImageOK
    BY DEF IInv
  <1> /\ eb \in Nat /\ eb \in Ebs /\ eb \in Good
      /\ OwnCounter(eb) => wear[eb] = si_ec[eb] + 1
    BY AtEb
  <1> Touches(eb) /\ faults' \in Nat
    BY WriteFailsTouches
  <1> /\ pc' \in {"torture", "failed"} /\ caller' = "format" /\ pattern' = 0
      /\ passed' = passed /\ eb' = eb
    BY ZenonT(30) DEF OnError
  <1>1. TypeOK'
    BY DEF TypeOK, Touches, Phases, Patterns
  <1>2. CASE pc' = "torture"
    <2>1. LoopOK'
      <3>1. pattern' < Patterns
        BY DEF Patterns
      <3> QED
        BY <1>2, <3>1, SameGood, ZenonT(30) DEF LoopOK, Running, AtBlock, InFlash
    <2>2. ImageOK'
      BY <1>2, SameGood, Zenon DEF ImageOK, Running, InFlash, HasRead
    <2> QED
      BY <1>1, <1>2, <2>1, <2>2, StepOK DEF Loops
  <1> QED
    BY <1>1, <1>2, EndOK
=============================================================================
