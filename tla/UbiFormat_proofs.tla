------------------------- MODULE UbiFormat_proofs ---------------------------
(***************************************************************************)
(* The theorems about ubiformat, for every size of the device, every       *)
(* image, any number of failing operations and any number of starts: the   *)
(* inductive invariant always holds, and what it says of a program that    *)
(* has ended with exit status 0.                                           *)
(***************************************************************************)
EXTENDS UbiLoops_proofs

(* A minute for every leaf that does not name a prover. *)
USE SMTT(60)

(* The eraseblocks before the one that turns bad keep their places, and the *)
(* row of bad ones is as long as consecutive_bad_blocks says.               *)
LEMMA MarkBadKept ==
    ASSUME IInv, MarkBad
    PROVE  IInv' /\ BadKept
  <1> USE DEF argVars, imgVars, vtblVars, badVars, tortVars
  <1>   /\ UNCHANGED <<flash, wear, faults, argVars, imgVars, vtblVars, tortVars>>
        /\ pc = "mark_bad"
    BY Zenon DEF MarkBad
  <1>   /\ TypeOK /\ DeviceOK /\ ScanOK /\ LoopOK /\ CountersExact
        /\ WearOK /\ PassedOK /\ ImageOK /\ RowOK
    BY DEF IInv
  <1>   eb \in Nat /\ eb \in Ebs /\ eb \in Good
    BY GoodFacts DEF LoopOK, AtBlock, Running
  <1>   DeviceOK' /\ CountersExact'
    BY Zenon DEF DeviceOK, CountersExact
  <1>5. CASE pc' = "failed" /\ UNCHANGED <<badVars, eb>>
    <2>1. TypeOK'
      BY <1>5 DEF TypeOK, Phases
    <2> QED
      BY <1>5, <2>1, StopOK DEF BadKept
  <1>6. CASE /\ bad' = bad \cup {eb}
             /\ si_ec' = [si_ec EXCEPT ![eb] = EB_BAD]
             /\ consecutive_bad_blocks' = InARow(eb) /\ prev_bb' = eb
             /\ IF consecutive_bad_blocks' >= MaxConsecutive
                THEN pc' = "failed" /\ UNCHANGED eb
                ELSE pc' = caller /\ eb' = eb + 1
    <2>1. BadKept
      BY <1>6 DEF BadKept
    <2>   TypeOK'
      <3>1. si_ec' \in [Ebs -> Nat] /\ bad' \subseteq Ebs
        BY <1>6, Consts DEF TypeOK, EB_BAD
      <3>2. pc' \in Phases /\ eb' \in Nat
        BY <1>6 DEF TypeOK, Phases
      <3>3. consecutive_bad_blocks' \in Nat /\ prev_bb' \in Ebs
        BY <1>6 DEF TypeOK, InARow
      <3> QED
        BY <3>1, <3>2, <3>3 DEF TypeOK
    <2>3. CASE consecutive_bad_blocks' < MaxConsecutive
      <3>   pc' = caller /\ eb' = eb + 1 /\ caller \in {"flash", "format"}
        BY <1>6, <2>3, Consts DEF TypeOK
      <3>   Good' = Good \ {eb} /\ \A b \in Good : b \in Nat
        BY <1>6, GoodFacts DEF Good
      <3>3. \A b \in Nat : b <= eb => Before(b)' = Before(b)
        <4>1. \A b : Before(b)' = CountBelow(Good', b)
          BY DEF Before, CountBelow
        <4> QED
          BY <4>1, GoodFacts, BelowWithout, Zenon
      <3>4. \A b : b = eb + 1 => Before(b)' = Before(eb)
        <4>1. \A b : Before(b)' = CountBelow(Good', b)
          BY DEF Before, CountBelow
        <4>2. Good \subseteq Ebs /\ Good \ {eb} \subseteq Ebs /\ eb <= eb
          BY GoodFacts
        <4>3. CountBelow(Good \ {eb}, eb + 1) = CountBelow(Good \ {eb}, eb)
          BY <4>2, BelowNext, Zenon
        <4>4. CountBelow(Good \ {eb}, eb) = CountBelow(Good, eb)
          BY <4>2, BelowWithout, ZenonT(30)
        <4>5. CountBelow(Good, eb) = Before(eb)
          BY GoodFacts
        <4> QED
          BY <4>1, <4>3, <4>4, <4>5
      <3>5. ScanOK'
        BY <1>6, ZenonT(30) DEF ScanOK, Running, TypeOK
      <3>6. LoopOK'
        BY <1>6, Consts
        DEF LoopOK, Running, AtBlock, InFlash, TypeOK, Ebs
      <3>7. WearOK'
        BY <1>6
        DEF WearOK, Running, OwnCounter, Tested, Waiting, TypeOK, Good
      <3>8. PassedOK'
        BY <1>6, <3>3
        DEF PassedOK, Running, Holds, BodyOf
      <3>9. ImageOK'
        <4>1. Before(eb)' = Before(eb)
          BY <3>4
        <4> QED
          BY <1>6, <4>1, Consts
          DEF ImageOK, Running, InFlash, HasRead, Ebs
      <3>10. RowOK'
        <4>   NewBad' = (bad \cup {eb}) \ bad0
          BY <1>6 DEF NewBad
        <4>2. \A x \in NewBad : x <= prev_bb /\ x \in Nat
          BY DEF RowOK, NewBad, TypeOK, Ebs
        <4>   prev_bb < eb /\ prev_bb \in Int
          BY DEF RowOK, Running, TypeOK, Ebs
        <4>4. \A x \in NewBad' : x <= eb
          BY <4>2 DEF NewBad
        <4>5. eb - consecutive_bad_blocks' \notin NewBad'
          <5>1. CASE prev_bb # -1 /\ eb = prev_bb + 1
            <6>1. /\ consecutive_bad_blocks' = consecutive_bad_blocks + 1
                  /\ consecutive_bad_blocks \in Nat
                  /\ prev_bb - consecutive_bad_blocks \notin NewBad
              BY <1>6, <5>1 DEF InARow, TypeOK, RowOK
            <6>2. /\ eb - consecutive_bad_blocks' = prev_bb - consecutive_bad_blocks
                  /\ eb - consecutive_bad_blocks' # eb
              BY <5>1, <6>1
            <6> QED
              BY <6>1, <6>2 DEF NewBad
          <5>2. CASE ~(prev_bb # -1 /\ eb = prev_bb + 1)
            <6>1. consecutive_bad_blocks' = 1
              BY <1>6, <5>2 DEF InARow
            <6>2. eb - 1 \notin NewBad
              BY <4>2, <5>2
            <6>3. eb - 1 # eb
              OBVIOUS
            <6> QED
              BY <6>1, <6>2, <6>3 DEF NewBad
          <5> QED
            BY <5>1, <5>2
        <4>6. ASSUME NEW x \in Ebs, x .. x + MaxConsecutive - 1 \subseteq NewBad'
              PROVE FALSE
          <5>1. ~(x .. x + MaxConsecutive - 1 \subseteq NewBad)
            BY DEF RowOK
          <5>2. eb \in x .. x + MaxConsecutive - 1
            BY <4>6, <5>1 DEF NewBad
          <5>   x + MaxConsecutive - 1 \in x .. x + MaxConsecutive - 1 /\ x \in Nat
            BY Consts DEF Ebs
          <5>4. x + MaxConsecutive - 1 <= eb
            BY <4>4, <4>6
          <5>5. consecutive_bad_blocks' \in Nat
            BY DEF TypeOK
          <5>6. eb - consecutive_bad_blocks' \in x .. x + MaxConsecutive - 1
            <6>1. eb = x + MaxConsecutive - 1
              BY <5>2, <5>4, Consts
            <6>2. PICK c \in Nat : c = consecutive_bad_blocks'
              BY <5>5
            <6>3. c < MaxConsecutive
              BY <2>3, <6>2
            <6>4. eb - c \in x .. x + MaxConsecutive - 1
              BY <6>1, <6>3, Consts
            <6> QED
              BY <6>2, <6>4, ZenonT(30)
          <5> QED
            BY <4>5, <4>6, <5>6
        <4> QED
          BY <1>6, <2>3, <4>4, <4>5, <4>6 DEF RowOK
      <3> QED
        BY <2>1, <3>5, <3>6, <3>7, <3>8, <3>9, <3>10, ZenonT(30) DEF IInv
    <2>4. CASE ~(consecutive_bad_blocks' < MaxConsecutive)
      <3>1. pc' = "failed"
        BY <1>6, <2>4, Consts DEF TypeOK
      <3> QED
        BY <2>1, <3>1, StopOK, ZenonT(30)
    <2> QED
      BY <2>3, <2>4
  <1> QED
    BY <1>5, <1>6 DEF MarkBad

(* ubigen_write_layout_vol: a copy of the volume table on b. *)
LEMMA LayoutKept ==
    ASSUME IInv, NEW from, NEW b, NEW lnum, NEW to, WriteLayout(from, b, lnum, to),
           \/ from = "layout1" /\ b = eb1 /\ lnum = 0 /\ to = "layout2"
           \/ from = "layout2" /\ b = eb2 /\ lnum = 1 /\ to = "done"
    PROVE  IInv' /\ BadKept
  <1> USE DEF argVars, imgVars, vtblVars, badVars, tortVars
  <1>   UNCHANGED <<eb, argVars, imgVars, vtblVars, badVars, tortVars>> /\ pc = from
    BY DEF WriteLayout
  <1>   /\ TypeOK /\ DeviceOK /\ ScanOK /\ LoopOK /\ CountersExact
        /\ WearOK /\ PassedOK /\ ImageOK /\ RowOK
    BY DEF IInv
  <1>   /\ eb >= EbCnt /\ eb1 \in Good /\ eb2 \in Good /\ eb1 # eb2 /\ ~novtbl
        /\ eb1 < eb /\ eb2 < eb /\ image = 0 /\ eb1 # -1
    BY DEF LoopOK, Running, InFlash, TypeOK
  <1>   Good' = Good /\ \A a : Before(a)' = Before(a)
    BY SameGood
  <1>   b \in Good /\ b \in Ebs /\ b \in Nat /\ b < eb /\ b # eb
    BY GoodFacts DEF TypeOK
  <1>   OwnCounter(b) => wear[b] = si_ec[b] + 1
    BY DEF WearOK, Running, Waiting, Tested, TypeOK
  <1>7. CASE Write(b, Layout(lnum)) /\ pc' = to
    <2>0. Layout(lnum) \in Int
      BY DEF Layout
    <2>   /\ Touches(b)
          /\ IsHdr(flash'[b]) /\ flash'[b].seq = image_seq
          /\ flash'[b].body = Layout(lnum)
          /\ OwnCounter(b) => wear'[b] = wear[b]
          /\ faults' = faults
      BY <1>7, <2>0, ProgrammedTouches, ZenonT(30) DEF Write
    <2>2. TypeOK'
      BY <1>7, Zenon DEF TypeOK, Touches, Phases
    <2>3. DeviceOK' /\ CountersExact' /\ BadKept
      BY Zenon DEF Touches, BadKept, Good, TypeOK
    <2>4. ScanOK' /\ LoopOK' /\ RowOK' /\ ImageOK'
      BY <1>7, Zenon
      DEF ScanOK, LoopOK, RowOK, ImageOK, Running, AtBlock, InFlash, NewBad
    <2>5. WearOK'
      BY <1>7, ZenonT(30)
      DEF WearOK, Running, OwnCounter, Tested, Waiting, Touches, Good
    <2>6. PassedOK'
      <3>1. \A a \in Good : a < eb /\ a # eb1 /\ a # eb2 => Holds(a, BodyOf(a))
        BY Zenon DEF PassedOK, Running
      <3>2. \A a \in Good : a # b => flash'[a] = flash[a]
        BY Zenon DEF Touches, Good
      <3>3. \A a \in Good : a < eb /\ a # eb1 /\ a # eb2 => Holds(a, BodyOf(a))'
        BY <3>1, <3>2, Zenon DEF Holds, BodyOf
      <3>4. CASE from = "layout1" /\ b = eb1 /\ lnum = 0 /\ to = "layout2"
        BY <1>7, <3>3, <3>4, ZenonT(30) DEF PassedOK, Holds
      <3>5. CASE from = "layout2" /\ b = eb2 /\ lnum = 1 /\ to = "done"
        <4>1. Holds(eb1, Layout(0))
          BY <3>5 DEF PassedOK
        <4> QED
          BY <1>7, <3>2, <3>3, <3>5, <4>1 DEF PassedOK, Holds
      <3> QED
        BY <3>4, <3>5
    <2> QED
      BY <2>2, <2>3, <2>4, <2>5, <2>6, ZenonT(30) DEF IInv
  <1>8. CASE WriteFails(b) /\ pc' = "failed"
    <2>1. Touches(b) /\ faults' \in Nat
      BY <1>8, WriteFailsTouches, ZenonT(30)
    <2>2. TypeOK'
      BY <1>8, <2>1, ZenonT(30) DEF TypeOK, Touches, Phases
    <2>3. DeviceOK' /\ CountersExact' /\ BadKept
      BY <2>1 DEF Touches, BadKept, Good, TypeOK
    <2> QED
      BY <1>8, <2>2, <2>3, StopOK, ZenonT(30)
  <1> QED
    BY <1>7, <1>8 DEF WriteLayout

LEMMA NextKept ==
    ASSUME IInv, [Next]_vars
    PROVE  IInv' /\ BadKept
  <1>1. CASE WriteLayout("layout1", eb1, 0, "layout2")
    BY <1>1, LayoutKept
  <1>2. CASE WriteLayout("layout2", eb2, 1, "done")
    BY <1>2, LayoutKept
  <1>3. CASE Terminated
    BY <1>3, StutterKept DEF Terminated
  <1>4. CASE FlashErase
    BY <1>4, FlashErased, FlashEraseFailed DEF FlashErase, imgVars
  <1>5. CASE FlashWrite
    BY <1>5, FlashWritten, FlashWriteFailed, ZenonT(30) DEF FlashWrite
  <1>6. CASE FormatErase
    BY <1>6, FormatKeeps, FormatErased, FormatEraseFailed, ZenonT(30) DEF FormatErase
  <1>7. CASE FormatWrite
    BY <1>7, FormatWritten, FormatWriteFailed, ZenonT(30) DEF FormatWrite
  <1> QED
    BY <1>1, <1>2, <1>3, <1>4, <1>5, <1>6, <1>7, StutterKept, StartKept, TortureKept, ZenonT(30),
       MarkBadKept, SkipKept, FlashEndKept, FormatEndKept, CrashKept
    DEF Next

-----------------------------------------------------------------------------
(* What a run that ends with exit status 0 leaves behind. *)

LEMMA DoneHolds ==
    ASSUME IInv, pc = "done"
    PROVE  /\ \A b \in Good : b # eb1 /\ b # eb2 => Holds(b, BodyOf(b))
           /\ image > 0 \/ novtbl => eb1 = -1 /\ eb2 = -1
           /\ image = 0 /\ ~novtbl => /\ eb1 \in Good /\ eb2 \in Good /\ eb1 # eb2
                                      /\ Holds(eb1, Layout(0)) /\ Holds(eb2, Layout(1))
           /\ -1 \notin Good /\ image \in Nat
           /\ image = 0 => \A b : BodyOf(b) = Free
  <1>1. TypeOK /\ PassedOK
    BY DEF IInv
  <1>2. eb >= EbCnt /\ eb \in Nat /\ image \in Nat
    BY <1>1 DEF PassedOK, TypeOK
  <1>3. \A b \in Good : b \in Nat /\ b < eb
    BY <1>1, <1>2, GoodFacts, Consts DEF Ebs
  <1>4. image = 0 => \A b : BodyOf(b) = Free
    BY <1>1, GoodFacts DEF BodyOf
  <1> QED
    BY <1>1, <1>2, <1>3, <1>4 DEF PassedOK

LEMMA InvFormatted ==
    ASSUME IInv
    PROVE  Formatted
  <1>1. OneImageSeq
    BY DoneHolds DEF OneImageSeq, Holds, TypeOK, IInv
  <1>2. ImageInOrder
    BY DoneHolds, Zenon DEF ImageInOrder, Holds, BodyOf
  <1>3. VolumeTable
    <2> DEFINE with(body) == {b \in Good : flash[b].body = body}
    <2> SUFFICES ASSUME pc = "done", image = 0
                 PROVE  IF novtbl THEN with(Free) = Good
                        ELSE /\ Cardinality(with(Layout(0))) = 1
                             /\ Cardinality(with(Layout(1))) = 1
                             /\ with(Free) = Good \ (with(Layout(0)) \cup with(Layout(1)))
      BY DEF VolumeTable
    <2>1. CASE novtbl
      <3>1. \A b \in Good : flash[b].body = Free
        BY <2>1, DoneHolds DEF Holds
      <3> QED
        BY <2>1, <3>1
    <2>2. CASE ~novtbl
      <3>1. /\ eb1 \in Good /\ eb2 \in Good /\ eb1 # eb2
            /\ flash[eb1].body = Layout(0) /\ flash[eb2].body = Layout(1)
            /\ \A b \in Good : b # eb1 /\ b # eb2 => flash[b].body = Free
        BY <2>2, DoneHolds DEF Holds
      <3>2. Layout(0) # Layout(1) /\ Layout(0) # Free /\ Layout(1) # Free
        BY DEF Layout, Free
      <3>3. with(Layout(0)) = {eb1} /\ with(Layout(1)) = {eb2}
        BY <3>1, <3>2
      <3>4. with(Free) = Good \ {eb1, eb2}
        BY <3>1, <3>2
      <3>5. Cardinality({eb1}) = 1 /\ Cardinality({eb2}) = 1
        BY FS_Singleton, Zenon
      <3> QED
        BY <2>2, <3>3, <3>4, <3>5, ZenonT(30)
    <2> QED
      BY <2>1, <2>2, ZenonT(30)
  <1> QED
    BY <1>1, <1>2, <1>3, ZenonT(30) DEF Formatted, IInv

-----------------------------------------------------------------------------
(* The inductive invariant holds of every behaviour of the program          *)
(* (ubiformat.c:362-680, 900-930), power cuts and failing operations        *)
(* included.                                                                *)
THEOREM UbiInvariance == Spec => []IInv
  <1>1. Init => IInv
    BY InitOK
  <1>2. IInv /\ [Next]_vars => IInv'
    BY NextKept
  <1> QED
    BY <1>1, <1>2, PTL DEF Spec

(* The counters on the device count every erase, and none twice, whatever   *)
(* fails and whenever the program is cut short (ubiformat.c:490-495,        *)
(* 582-587).                                                                *)
THEOREM CountersAreExact == Spec => []CountersExact
  <1>1. IInv => CountersExact
    BY DEF IInv
  <1> QED
    BY <1>1, UbiInvariance, PTL

(* Exit status 0 (ubiformat.c:912-929) means a device that UBI can attach:  *)
(* headers of this run everywhere, and the volume table or the image where  *)
(* they belong.                                                             *)
THEOREM ExitZeroIsFormatted == Spec => []Formatted
  <1>1. IInv => Formatted
    BY InvFormatted
  <1> QED
    BY <1>1, UbiInvariance, PTL

(* consecutive_bad_check (ubiformat.c:362-384) ends the run when            *)
(* MaxConsecutive eraseblocks in a row have turned bad, and its two static  *)
(* variables do not lose count between the loops.                           *)
THEOREM RowOfBadEndsRun == Spec => []NoRunaway
  <1>1. IInv => NoRunaway
    BY DEF IInv, RowOK, NoRunaway, NewBad
  <1> QED
    BY <1>1, UbiInvariance, PTL

(* No step, of this run or a later one, changes an eraseblock marked bad or *)
(* takes the mark away (libscan.c:89-98, ubiformat.c:455, 579).             *)
THEOREM BadIsLeftAlone == Spec => BadUntouched
  <1>1. IInv /\ [Next]_vars => [\A b \in bad : flash'[b] = flash[b] /\ b \in bad']_vars
    BY NextKept DEF BadKept
  <1> QED
    BY <1>1, UbiInvariance, PTL DEF Spec, BadUntouched
=============================================================================
