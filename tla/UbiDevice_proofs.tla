-------------------------- MODULE UbiDevice_proofs --------------------------
(***************************************************************************)
(* ubiformat: the inductive invariant, and what the operations of the      *)
(* device, a step that works on one eraseblock, the start of the program   *)
(* (the scan and the choice of counters) and a power cut do to it.         *)
(***************************************************************************)
EXTENDS UbiFormat, FiniteSetTheorems, Sums

(* A minute for every leaf that does not name a prover. *)
USE SMTT(60)

-----------------------------------------------------------------------------
(* The inductive invariant. *)

Running == pc \notin {"off", "done", "failed"}

(* The program is busy with eraseblock eb. *)
AtBlock == pc \in {"flash_write", "format_write", "torture", "mark_bad"}

(* It is in flash_image. *)
InFlash == \/ pc \in {"flash", "flash_write"}
           \/ pc \in {"torture", "mark_bad"} /\ caller = "flash"

(* What does not look like a header is blank, alien or corrupted. *)
DeviceOK == \A b \in Ebs : IsHdr(flash[b]) \/ flash[b] \in Junk

(* si_ec tells the bad eraseblocks, as long as the program runs. *)
ScanOK == Running => \A b \in Ebs : si_ec[b] = EB_BAD <=> b \in bad

(* The places of the two loops, the pattern of the torture test, and the    *)
(* eraseblocks kept for the volume table.                                   *)
LoopOK ==
    Running =>
        /\ pc = "torture" => pattern < Patterns
        /\ AtBlock => eb \in Good
        /\ InFlash => eb <= EbCnt /\ image > 0
        /\ image > 0 => (novtbl <=> ~InFlash)
        /\ image > 0 \/ novtbl => eb1 = -1
        /\ eb1 = -1 => eb2 = -1
        /\ eb1 # -1 => eb1 \in Good /\ eb1 < eb
        /\ eb2 # -1 => eb2 \in Good /\ eb2 < eb /\ eb1 # eb2
        /\ pc \in {"layout1", "layout2"} => eb >= EbCnt /\ eb1 # -1 /\ eb2 # -1

(* How often an eraseblock was erased in this run, if its counter is        *)
(* carried over: not at all before its turn, then once.                     *)
Waiting(b) == b > eb \/ (b = eb /\ pc \in {"flash", "format"})
Tested(b) == b = eb /\ pc \in {"torture", "mark_bad"}

WearOK ==
    Running =>
        \A b \in Good :
            OwnCounter(b) /\ ~Tested(b) =>
                wear[b] = IF Waiting(b) THEN si_ec[b] ELSE si_ec[b] + 1

(* What an eraseblock holds when both loops have passed it. *)
BodyOf(b) == IF Before(b) < image THEN Before(b) ELSE Free
Holds(b, body) ==
    IsHdr(flash[b]) /\ flash[b].seq = image_seq /\ flash[b].body = body

PassedOK ==
    /\ Running \/ pc = "done" =>
         \A b \in Good : b < eb /\ b # eb1 /\ b # eb2 => Holds(b, BodyOf(b))
    /\ pc = "layout2" => Holds(eb1, Layout(0))
    /\ pc = "done" => /\ eb >= EbCnt
                      /\ image > 0 \/ novtbl => eb1 = -1 /\ eb2 = -1
                      /\ image = 0 /\ ~novtbl =>
                           /\ eb1 \in Good /\ eb2 \in Good /\ eb1 # eb2
                           /\ Holds(eb1, Layout(0)) /\ Holds(eb2, Layout(1))

(* flash_image: the block of the image that is next. *)
HasRead == skip_data_read \/ pc = "flash_write"
ImageOK ==
    Running =>
        /\ InFlash =>
             /\ written_ebs = Before(eb) /\ written_ebs < image
             /\ fpos = IF HasRead THEN written_ebs + 1 ELSE written_ebs
             /\ HasRead => buf = written_ebs
             /\ pc = "flash_write" => ~skip_data_read
             /\ pc = "torture" => skip_data_read
        /\ ~InFlash /\ image > 0 => eb >= EbCnt \/ Before(eb) >= image

(* consecutive_bad_check: the eraseblocks that turned bad in a row. *)
NewBad == bad \ bad0
RowOK ==
    pc # "failed" =>
        /\ \A x \in NewBad : x <= prev_bb
        /\ Running => prev_bb < eb
        /\ prev_bb # -1 => prev_bb - consecutive_bad_blocks \notin NewBad
        /\ prev_bb # -1 => consecutive_bad_blocks < MaxConsecutive
        /\ \A x \in Ebs : ~(x .. x + MaxConsecutive - 1 \subseteq NewBad)

IInv ==
    /\ TypeOK /\ DeviceOK /\ ScanOK /\ LoopOK
    /\ CountersExact /\ WearOK
    /\ PassedOK /\ ImageOK /\ RowOK

-----------------------------------------------------------------------------
(* Sizes, and the number of good eraseblocks below one. *)

LEMMA Consts ==
    EbCnt \in Nat /\ EbCnt > 0 /\ EcMax \in Nat /\ MaxConsecutive \in Nat
      /\ MaxConsecutive > 0
  BY UbiAssumption

CountBelow(S, b) == Cardinality({a \in S : a < b})

(* A part of the device is finite, and can be counted. *)
LEMMA BelowIsNat ==
    ASSUME NEW S, S \subseteq Ebs, NEW b
    PROVE  IsFiniteSet({a \in S : a < b}) /\ CountBelow(S, b) \in Nat
  <1>1. IsFiniteSet(Ebs)
    BY Consts, FS_Interval DEF Ebs
  <1>2. {a \in S : a < b} \subseteq Ebs
    OBVIOUS
  <1>3. IsFiniteSet({a \in S : a < b})
    BY <1>1, <1>2, FS_Subset
  <1> QED
    BY <1>3, FS_CardinalityType DEF CountBelow

(* One further on, there is one more, or not. *)
LEMMA BelowNext ==
    ASSUME NEW S, S \subseteq Ebs, NEW b \in Nat
    PROVE  /\ b \in S => CountBelow(S, b + 1) = CountBelow(S, b) + 1
           /\ b \notin S => CountBelow(S, b + 1) = CountBelow(S, b)
  <1> DEFINE low == {a \in S : a < b}
  <1>1. \A a \in S : a \in Int
    BY DEF Ebs
  <1>2. IsFiniteSet(low) /\ b \notin low
    BY BelowIsNat
  <1>3. ASSUME b \in S PROVE {a \in S : a < b + 1} = low \cup {b}
    <2>1. \A a \in S : a < b + 1 <=> a < b \/ a = b
      BY <1>1
    <2> QED
      BY <1>3, <2>1, Zenon
  <1>4. ASSUME b \notin S PROVE {a \in S : a < b + 1} = low
    BY <1>1, <1>4
  <1>5. Cardinality(low \cup {b}) = Cardinality(low) + 1
    BY <1>2, FS_AddElement
  <1> QED
    BY <1>3, <1>4, <1>5 DEF CountBelow

(* There are no fewer further on. *)
LEMMA BelowMonotonic ==
    ASSUME NEW S, S \subseteq Ebs, NEW b \in Nat, NEW c \in Nat, b <= c
    PROVE  CountBelow(S, b) <= CountBelow(S, c)
  <1>1. \A a \in S : a \in Int
    BY DEF Ebs
  <1>2. {a \in S : a < b} \subseteq {a \in S : a < c}
    BY <1>1
  <1>3. IsFiniteSet({a \in S : a < c})
    BY BelowIsNat
  <1> QED
    BY <1>2, <1>3, FS_Subset DEF CountBelow

(* An eraseblock that turns bad does not count for those before it. *)
LEMMA BelowWithout ==
    ASSUME NEW S, S \subseteq Ebs, NEW e \in Nat, NEW b \in Nat, b <= e
    PROVE  CountBelow(S \ {e}, b) = CountBelow(S, b)
  <1>1. \A a \in S : a \in Int
    BY DEF Ebs
  <1>2. {a \in S \ {e} : a < b} = {a \in S : a < b}
    BY <1>1
  <1> QED
    BY <1>2 DEF CountBelow

-----------------------------------------------------------------------------
(* The device. *)

(* What holds after any operation on eraseblock b. *)
Touches(b) ==
    /\ flash' \in [Ebs -> Contents] /\ wear' \in [Ebs -> Nat]
    /\ DeviceOK' /\ CountersExact'
    /\ \A a \in Ebs : a # b => flash'[a] = flash[a] /\ wear'[a] = wear[a]

LEMMA JunkFacts == \A c \in Junk : c \in Contents /\ ~IsHdr(c)
  BY DEF Junk, Blank, Alien, Corrupt, Other, Contents, IsHdr, Free

(* Eraseblock b gets contents c, and its wear is w. *)
LEMMA PutTouches ==
    ASSUME TypeOK, DeviceOK, CountersExact, NEW b \in Ebs, NEW c \in Contents,
           NEW w \in Nat, IsHdr(c) \/ c \in Junk, IsHdr(c) => c.ec = w,
           flash' = [flash EXCEPT ![b] = c], wear' = [wear EXCEPT ![b] = w]
    PROVE  Touches(b) /\ flash'[b] = c /\ wear'[b] = w
  <1>1. flash \in [Ebs -> Contents] /\ wear \in [Ebs -> Nat]
    BY DEF TypeOK
  <1>2. /\ flash' \in [Ebs -> Contents] /\ wear' \in [Ebs -> Nat]
        /\ flash'[b] = c /\ wear'[b] = w
        /\ \A a \in Ebs : a # b => flash'[a] = flash[a] /\ wear'[a] = wear[a]
    BY <1>1
  <1>3. DeviceOK'
    BY <1>2 DEF DeviceOK
  <1>4. CountersExact'
    BY <1>2 DEF CountersExact
  <1> QED
    BY <1>2, <1>3, <1>4 DEF Touches

(* mtd_erase. *)
LEMMA EraseTouches ==
    ASSUME TypeOK, DeviceOK, CountersExact, NEW b \in Ebs, Erase(b)
    PROVE  Touches(b) /\ wear'[b] = wear[b] + 1 /\ faults' = faults
  <1>1. Blank \in Junk
    BY DEF Junk
  <1>2. wear[b] + 1 \in Nat
    BY DEF TypeOK
  <1> QED
    BY <1>1, <1>2, JunkFacts, PutTouches, Zenon DEF Erase

(* An operation that puts something unreadable in place. *)
LEMMA SpoiledTouches ==
    ASSUME TypeOK, DeviceOK, CountersExact, NEW b \in Ebs, Spoiled(b)
    PROVE  Touches(b) /\ wear' = wear
  <1>1. PICK c \in Junk : flash' = [flash EXCEPT ![b] = c]
    BY Zenon DEF Spoiled
  <1>2. wear' = wear /\ wear' = [wear EXCEPT ![b] = wear[b]] /\ wear[b] \in Nat
    BY DEF Spoiled, TypeOK
  <1> QED
    BY <1>1, <1>2, JunkFacts, PutTouches, Zenon

LEMMA EraseFailsTouches ==
    ASSUME TypeOK, DeviceOK, CountersExact, NEW b \in Ebs, EraseFails(b)
    PROVE  Touches(b) /\ wear' = wear /\ faults' \in Nat
  <1>1. PICK c \in Junk \cup {flash[b]} : flash' = [flash EXCEPT ![b] = c]
    BY Zenon DEF EraseFails
  <1>2. wear' = wear /\ wear' = [wear EXCEPT ![b] = wear[b]] /\ wear[b] \in Nat
    BY DEF EraseFails, TypeOK
  <1>3. c \in Contents /\ (IsHdr(c) \/ c \in Junk) /\ (IsHdr(c) => c.ec = wear[b])
    BY <1>1, JunkFacts DEF TypeOK, DeviceOK, CountersExact
  <1>4. faults' \in Nat
    BY DEF EraseFails, Fault, TypeOK
  <1> QED
    BY <1>1, <1>2, <1>3, <1>4, PutTouches, Zenon

(* mtd_torture: erased, and written with a pattern. *)
LEMMA PatternTouches ==
    ASSUME TypeOK, DeviceOK, CountersExact, NEW b \in Ebs,
           flash' = [flash EXCEPT ![b] = Alien],
           wear' = [wear EXCEPT ![b] = wear[b] + 1]
    PROVE  Touches(b)
  <1>1. Alien \in Junk
    BY DEF Junk
  <1>2. wear[b] + 1 \in Nat
    BY DEF TypeOK
  <1> QED
    BY <1>1, <1>2, JunkFacts, PutTouches, Zenon

(* mtd_write of an EC header: the counter is the wear, if it is carried     *)
(* over and the eraseblock was erased once since the scan.                  *)
LEMMA ProgrammedTouches ==
    ASSUME TypeOK, DeviceOK, CountersExact, NEW b \in Ebs, NEW body \in Int,
           OwnCounter(b) => wear[b] = si_ec[b] + 1, Programmed(b, body)
    PROVE  /\ Touches(b)
           /\ IsHdr(flash'[b]) /\ flash'[b].seq = image_seq /\ flash'[b].body = body
           /\ OwnCounter(b) => wear'[b] = wear[b]
  <1> DEFINE c == Hdr(NewEc(b), image_seq, body)
             w == IF OwnCounter(b) THEN wear[b] ELSE NewEc(b)
  <1>1. /\ wear \in [Ebs -> Nat] /\ si_ec[b] \in Nat /\ forced_ec \in Nat
        /\ mean_ec \in Nat /\ image_seq \in Nat /\ wear[b] \in Nat
    BY DEF TypeOK
  <1>2. NewEc(b) \in Nat /\ w \in Nat
    BY <1>1 DEF NewEc
  <1>3. NewEc(b) = w
    BY DEF OwnCounter, NewEc
  <1>4. /\ c \in Contents /\ IsHdr(c) /\ c.ec = w
        /\ c.seq = image_seq /\ c.body = body
    BY <1>1, <1>2, <1>3 DEF Hdr, Contents, IsHdr
  <1>5. flash' = [flash EXCEPT ![b] = c]
    BY DEF Programmed
  <1>6. wear' = [wear EXCEPT ![b] = w]
    BY <1>1, Zenon DEF Programmed
  <1>8. OwnCounter(b) => w = wear[b]
    OBVIOUS
  <1> HIDE DEF c, w
  <1>7. Touches(b) /\ flash'[b] = c /\ wear'[b] = w
    BY <1>2, <1>4, <1>5, <1>6, PutTouches, ZenonT(30)
  <1> QED
    BY <1>4, <1>7, <1>8
LEMMA WriteFailsTouches ==
    ASSUME TypeOK, DeviceOK, CountersExact, NEW b \in Ebs,
           OwnCounter(b) => wear[b] = si_ec[b] + 1, WriteFails(b)
    PROVE  Touches(b) /\ faults' \in Nat
  <1>1. faults' \in Nat
    BY DEF WriteFails, Fault, TypeOK
  <1>2. Damaged \in Int
    BY DEF Damaged
  <1> QED
    BY <1>1, <1>2, SpoiledTouches, ProgrammedTouches DEF WriteFails

-----------------------------------------------------------------------------
(* Where nothing happens to the device. *)

LEMMA GoodFacts ==
    ASSUME TypeOK
    PROVE  /\ Good \subseteq Ebs /\ Good \subseteq Nat
           /\ \A b : Before(b) = CountBelow(Good, b) /\ Before(b) \in Nat
  <1>1. Good \subseteq Ebs
    BY DEF Good
  <1>2. \A b : Before(b) = CountBelow(Good, b)
    BY DEF Before, CountBelow
  <1>3. \A b : CountBelow(Good, b) \in Nat
    BY <1>1, BelowIsNat, Zenon
  <1>4. Good \subseteq Nat
    BY <1>1 DEF Ebs
  <1> QED
    BY <1>1, <1>2, <1>3, <1>4

LEMMA SameGood ==
    ASSUME bad' = bad
    PROVE  Good' = Good /\ \A b : Before(b)' = Before(b)
  BY DEF Good, Before

(* No eraseblock marked bad is touched. *)
BadKept == \A b \in bad : flash'[b] = flash[b] /\ b \in bad'

(* A program that has ended owes nothing but the state of the device. *)
LEMMA StopOK ==
    ASSUME TypeOK', DeviceOK', CountersExact', pc' = "failed"
    PROVE  IInv'
  BY DEF IInv, ScanOK, LoopOK, WearOK, PassedOK, ImageOK, RowOK, Running

(* The same when it is not running and no eraseblock has turned bad. *)
LEMMA OffOK ==
    ASSUME TypeOK', DeviceOK', CountersExact', pc' = "off", bad0' = bad', prev_bb' = -1
    PROVE  IInv'
  <1>1. RowOK'
    BY Consts DEF RowOK, NewBad, Running, Ebs
  <1> QED
    BY <1>1 DEF IInv, ScanOK, LoopOK, WearOK, PassedOK, ImageOK, Running

-----------------------------------------------------------------------------
(* Steps on one eraseblock. *)

Loops == {"flash", "flash_write", "format", "format_write", "torture", "mark_bad"}

LEMMA Beyond == \A x, y \in Nat : x > y + 1 \/ x = y + 1 <=> x > y
  OBVIOUS

(* A step of the loops that works on eraseblock eb.  It stays with eb, or   *)
(* it goes on to the next when eb is written or kept for the volume table.  *)
LEMMA StepOK ==
    ASSUME IInv, pc \in Loops, pc' \in Loops, eb \in Good, Touches(eb),
           UNCHANGED <<bad, si_ec, bad0, prev_bb, consecutive_bad_blocks>>,
           UNCHANGED <<image_seq, image, override_ec>>,
           \/ eb' = eb /\ pc' \in {"flash_write", "format_write", "torture", "mark_bad"}
           \/ eb' = eb + 1 /\ pc' \in {"flash", "format"},
           pc' \notin {"torture", "mark_bad"} /\ OwnCounter(eb) =>
               wear'[eb] = si_ec[eb] + 1,
           eb1' = eb1 \/ eb1 = -1, eb2' = eb2 \/ eb2 = -1,
           eb' = eb + 1 => \/ eb = eb1' \/ eb = eb2'
                           \/ /\ IsHdr(flash'[eb]) /\ flash'[eb].seq = image_seq
                              /\ flash'[eb].body = BodyOf(eb),
           TypeOK', LoopOK', ImageOK'
    PROVE  IInv' /\ BadKept
  <1> TypeOK /\ ScanOK /\ WearOK /\ PassedOK /\ RowOK
    BY DEF IInv
  <1> Good' = Good /\ Good \subseteq Nat /\ \A b : Before(b)' = Before(b)
    BY SameGood, GoodFacts
  <1> eb \in Nat /\ Running /\ Running'
    BY DEF Loops, Running
  <1> /\ \A b \in Good : b \in Nat /\ b # -1
      /\ \A b \in Good : b # eb => flash'[b] = flash[b] /\ wear'[b] = wear[b]
    BY DEF Touches, Good
  <1>1. DeviceOK' /\ CountersExact' /\ BadKept
    BY DEF Touches, BadKept, Good, TypeOK
  <1>2. ScanOK'
    BY DEF ScanOK
  <1>3. RowOK'
    <2>1. pc # "failed"
      BY DEF Loops
    <2>2. prev_bb < eb
      BY <2>1, ZenonT(30) DEF RowOK
    <2>3. prev_bb \in Int
      BY Consts DEF TypeOK, Ebs
    <2>4. prev_bb < eb'
      BY <2>2, <2>3
    <2> QED
      BY <2>1, <2>4 DEF RowOK, NewBad
  <1>4. WearOK'
    <2> SUFFICES ASSUME NEW b \in Good, OwnCounter(b)', ~Tested(b)'
                 PROVE  wear'[b] = IF Waiting(b)' THEN si_ec[b] ELSE si_ec[b] + 1
      BY Zenon DEF WearOK
    <2> OwnCounter(b)
      BY DEF OwnCounter
    <2>1. CASE b = eb
      BY <2>1 DEF Waiting, Tested
    <2>2. CASE b # eb
      <3>1. (Waiting(b)' <=> Waiting(b)) /\ ~Tested(b)
        <4>1. b > eb + 1 \/ b = eb + 1 <=> b > eb
          BY Beyond, Zenon
        <4> QED
          BY <2>2, <4>1 DEF Waiting, Tested
      <3>2. wear[b] = IF Waiting(b) THEN si_ec[b] ELSE si_ec[b] + 1
        BY <3>1 DEF WearOK
      <3> QED
        BY <2>2, <3>1, <3>2, ZenonT(30)
    <2> QED
      BY <2>1, <2>2
  <1>5. PassedOK'
    <2>1. \A b \in Good : b < eb /\ b # eb1 /\ b # eb2 => Holds(b, BodyOf(b))
      BY DEF PassedOK
    <2>2. ASSUME NEW b \in Good, b < eb', b # eb1', b # eb2'
          PROVE  Holds(b, BodyOf(b))'
      <3>1. CASE b = eb
        BY <2>2, <3>1 DEF Holds, BodyOf
      <3>2. CASE b # eb
        BY <2>1, <2>2, <3>2 DEF Holds, BodyOf
      <3> QED
        BY <3>1, <3>2
    <2> QED
      BY <2>2, ZenonT(30) DEF PassedOK, Loops
  <1> QED
    BY <1>1, <1>2, <1>3, <1>4, <1>5 DEF IInv

(* An operation on eb after which the program ends. *)
LEMMA EndOK ==
    ASSUME IInv, eb \in Good, Touches(eb), bad' = bad, pc' = "failed", TypeOK'
    PROVE  IInv' /\ BadKept
  <1>1. DeviceOK' /\ CountersExact' /\ BadKept
    BY DEF Touches, BadKept, Good, TypeOK, IInv
  <1> QED
    BY <1>1, StopOK

(* Where the program works on eb. *)
LEMMA AtEb ==
    ASSUME IInv, \/ pc \in {"flash", "format"} /\ eb < EbCnt /\ ~SkipsBad
                 \/ pc \in {"flash_write", "format_write", "torture", "mark_bad"}
    PROVE  /\ eb \in Nat /\ eb \in Ebs /\ eb \in Good
           /\ pc \in {"flash_write", "format_write"} /\ OwnCounter(eb) =>
                wear[eb] = si_ec[eb] + 1
           /\ pc \in {"flash", "format"} /\ OwnCounter(eb) => wear[eb] = si_ec[eb]
           /\ Before(eb + 1) = Before(eb) + 1 /\ Before(eb) \in Nat
           /\ ~InFlash => Before(eb) >= image
  <1> TypeOK /\ ScanOK /\ LoopOK /\ WearOK /\ ImageOK
    BY DEF IInv
  <1> Running /\ eb \in Nat /\ image \in Nat
    BY DEF Running, TypeOK
  <1>1. eb \in Good
    BY Consts DEF LoopOK, AtBlock, ScanOK, SkipsBad, Good, Ebs
  <1>2. eb \in Ebs /\ eb < EbCnt
    BY <1>1, Consts DEF Good, Ebs
  <1>3. /\ pc \in {"flash_write", "format_write"} /\ OwnCounter(eb) =>
             wear[eb] = si_ec[eb] + 1
        /\ pc \in {"flash", "format"} /\ OwnCounter(eb) => wear[eb] = si_ec[eb]
    BY <1>1 DEF WearOK, Waiting, Tested
  <1>4. Before(eb + 1) = Before(eb) + 1 /\ Before(eb) \in Nat
    BY <1>1, GoodFacts, BelowNext, Zenon
  <1>5. ~InFlash => Before(eb) >= image
    BY <1>2, <1>4, Consts DEF ImageOK
  <1> QED
    BY <1>1, <1>2, <1>3, <1>4, <1>5

-----------------------------------------------------------------------------
(* Steps that leave the device alone: the loops skip an eraseblock, or end. *)


(* Before the first start. *)
LEMMA InitOK == Init => IInv
  <1> SUFFICES ASSUME Init PROVE IInv
    OBVIOUS
  <1> DEFINE first == {Other(k) : k \in OldKinds} \cup {Hdr(e, 0, Free) : e \in OldEcs}
  <1>1. \A c \in first : c \in Contents /\ (IsHdr(c) \/ c \in Junk)
    <2>1. \A e \in OldEcs : Hdr(e, 0, Free) \in Contents /\ IsHdr(Hdr(e, 0, Free))
      BY UbiAssumption DEF Hdr, Free, Contents, IsHdr
    <2>2. \A k \in OldKinds : Other(k) \in Contents /\ Other(k) \in Junk
      <3>1. \A k \in OldKinds : k \in {"empty", "alien", "corrupted"}
        BY UbiAssumption
      <3>2. {Other("empty"), Other("alien"), Other("corrupted")} = Junk
        BY DEF Junk, Blank, Alien, Corrupt
      <3>3. \A k \in OldKinds : Other(k) \in Junk
        BY <3>1, <3>2, Zenon
      <3> QED
        BY <3>3, JunkFacts
    <2> QED
      BY <2>1, <2>2
  <1>2. flash \in [Ebs -> first]
    BY DEF Init
  <1> HIDE DEF first
  <1>3. flash \in [Ebs -> Contents] /\ DeviceOK
    BY <1>1, <1>2 DEF DeviceOK
  <1>4. \A c \in Contents : c.ec \in Nat
    BY DEF Contents
  <1>5. wear = [b \in Ebs |-> flash[b].ec]
    BY DEF Init
  <1>6. wear \in [Ebs -> Nat] /\ CountersExact
    BY <1>3, <1>4, <1>5 DEF CountersExact
  <1>7. si_ec \in [Ebs -> Nat]
    BY Consts DEF Init, EB_EMPTY
  <1>8. TypeOK
    <2>1. novtbl \in BOOLEAN /\ override_ec \in BOOLEAN /\ skip_data_read \in BOOLEAN
      BY Zenon DEF Init
    <2>2. /\ bad \subseteq Ebs /\ passed \subseteq Ebs /\ bad0 \subseteq Ebs
          /\ pc \in Phases /\ caller \in {"flash", "format"}
      BY Zenon DEF Init, Phases
    <2> QED
      BY <1>3, <1>6, <1>7, <2>1, <2>2 DEF Init, TypeOK, Patterns
  <1>9. RowOK
    BY Consts DEF Init, RowOK, NewBad, Running, Ebs
  <1> QED
    BY <1>3, <1>6, <1>8, <1>9
    DEF Init, IInv, ScanOK, LoopOK, WearOK, PassedOK, ImageOK, Running

(* Nothing happens. *)
LEMMA StutterKept ==
    ASSUME IInv, UNCHANGED vars
    PROVE  IInv' /\ BadKept
  <1>1. bad' = bad /\ flash' = flash
    BY DEF vars
  <1>2. TypeOK' /\ DeviceOK' /\ CountersExact'
    BY DEF IInv, vars, TypeOK, DeviceOK, CountersExact
  <1>3. ScanOK' /\ LoopOK'
    BY DEF IInv, vars, ScanOK, LoopOK, Running, AtBlock, InFlash, Good
  <1>4. WearOK' /\ RowOK'
    BY DEF IInv, vars, WearOK, RowOK, Running, OwnCounter, Waiting, Tested, NewBad, Good
  <1>5. PassedOK' /\ ImageOK'
    BY <1>1, SameGood, Zenon
    DEF IInv, vars, PassedOK, ImageOK, Running, Holds, BodyOf, InFlash, HasRead
  <1> QED
    BY <1>1, <1>2, <1>3, <1>4, <1>5 DEF IInv, BadKept

-----------------------------------------------------------------------------
(* The scan, and the start. *)

(* The result of the scan: bad eraseblocks are told from the others, and a  *)
(* counter is the wear of its eraseblock.                                   *)
LEMMA ScanFacts ==
    ASSUME TypeOK, DeviceOK, CountersExact
    PROVE  /\ ScanEc \in [Ebs -> Nat]
           /\ \A b \in Ebs : b \in bad => ScanEc[b] = EB_BAD
           /\ \A b \in Good : ScanEc[b] <= EcMax => ScanEc[b] = wear[b]
           /\ ~ScanRefuses => \A b \in Good : ScanEc[b] # EB_BAD
  <1>   EcMax \in Nat /\ EB_BAD \in Nat /\ EB_EMPTY \in Nat /\ EB_ALIEN \in Nat
          /\ EB_CORRUPTED \in Nat /\ EB_BAD > EcMax /\ EB_EMPTY > EB_BAD
          /\ EB_ALIEN > EB_BAD /\ EB_CORRUPTED > EB_BAD
    BY Consts DEF EB_BAD, EB_EMPTY, EB_ALIEN, EB_CORRUPTED
  <1>2. ASSUME NEW b \in Ebs
        PROVE  \/ b \in bad /\ ScanEc[b] = EB_BAD
               \/ /\ b \in Good /\ IsHdr(flash[b])
                  /\ ScanEc[b] = flash[b].ec /\ flash[b].ec \in Nat /\ flash[b].ec = wear[b]
               \/ b \in Good /\ ScanEc[b] \in {EB_EMPTY, EB_ALIEN, EB_CORRUPTED}
    <2>1. flash[b] \in Contents /\ flash[b].ec \in Nat
      BY DEF TypeOK, Contents
    <2>2. IsHdr(flash[b]) => flash[b] \notin Junk
      BY JunkFacts
    <2>3. ScanEc[b] = Scanned(b)
      BY DEF ScanEc
    <2> QED
      BY <2>1, <2>2, <2>3 DEF Scanned, Good, CountersExact
  <1>4. \A b \in Ebs : ScanEc[b] \in Nat
    BY <1>2
  <1>5. ScanEc \in [Ebs -> Nat]
    BY <1>4 DEF ScanEc
  <1>6. \A b \in Ebs : b \in bad => ScanEc[b] = EB_BAD
    BY <1>2 DEF Good
  <1>   \A b \in Good : b \in Ebs /\ b \notin bad
    BY DEF Good
  <1>8. \A b \in Good : ScanEc[b] <= EcMax => ScanEc[b] = wear[b]
    BY <1>2
  <1>9. ASSUME ~ScanRefuses, NEW b \in Good PROVE ScanEc[b] # EB_BAD
    <2>1. IsHdr(flash[b]) /\ flash[b].ec \in Nat => flash[b].ec <= EcMax
      BY <1>9 DEF ScanRefuses
    <2> QED
      BY <1>2, <2>1
  <1> QED
    BY <1>5, <1>6, <1>8, <1>9

(* The mean of the counters is a counter. *)
LEMMA MeanIsNat ==
    ASSUME NEW s \in [Ebs -> Nat]
    PROVE  MeanEc(s) \in Nat
  <1> DEFINE v == [b \in Ebs |-> Counter(s, b)]
             Sum(f) == [n \in 0 .. EbCnt |->
                           IF n = 0 THEN 0 ELSE f[n - 1] + Counter(s, n - 1)]
  <1>1. v \in [0 .. EbCnt - 1 -> Nat]
    BY DEF Ebs, Counter
  <1>2. SumEc(s) \in Nat
    <2>1. \A n \in 0 .. EbCnt : n # 0 => v[n - 1] = Counter(s, n - 1)
      BY Consts DEF Ebs
    <2> HIDE DEF v
    <2>2. \A f : Sum(f) = [n \in 0 .. EbCnt |-> IF n = 0 THEN 0 ELSE f[n - 1] + v[n - 1]]
      BY <2>1
    <2>3. \E f : f = Sum(f)
      <3>1. PICK f : IsSums(f, v, EbCnt)
        BY Consts, SumsExist
      <3>2. f = Sum(f)
        BY <2>2, <3>1, Zenon DEF IsSums
      <3> QED
        BY <3>2, Zenon
    <2>4. PICK f : f = Sum(f) /\ SumEc(s) = f[EbCnt]
      BY <2>3, Zenon DEF SumEc
    <2>5. IsSums(f, v, EbCnt)
      BY <2>2, <2>4, Zenon DEF IsSums
    <2>6. SumUpTo(v, EbCnt) \in Nat
      BY <1>1, Consts, SumIsNat, ZenonT(30)
    <2> QED
      BY <2>4, <2>5, <2>6, Consts, SumsUnique
  <1>3. IsFiniteSet(Ebs) /\ HasCounter(s) \subseteq Ebs
    BY Consts, FS_Interval DEF Ebs, HasCounter
  <1>4. /\ Cardinality(HasCounter(s)) \in Nat
        /\ HasCounter(s) # {} => Cardinality(HasCounter(s)) # 0
    BY <1>3, FS_Subset, FS_CardinalityType, FS_EmptySet
  <1> QED
    BY <1>2, <1>4 DEF MeanEc

(* So is the one that main chooses. *)
LEMMA ChoiceFacts ==
    ASSUME NEW s \in [Ebs -> Nat], NEW forced \in ForcedEcs \cup {-1}
    PROVE  ChooseEc(s, forced)[1] \in BOOLEAN /\ ChooseEc(s, forced)[2] \in Nat
  <1>1. MeanEc(s) \in Nat
    BY MeanIsNat
  <1>2. forced \in Int
    BY UbiAssumption
  <1>3. \/ ChooseEc(s, forced) = <<TRUE, forced>> /\ forced >= 0
        \/ ChooseEc(s, forced) = <<FALSE, 0>>
        \/ ChooseEc(s, forced) = <<TRUE, 0>>
        \/ ChooseEc(s, forced) = <<TRUE, MeanEc(s)>>
    BY Zenon DEF ChooseEc
  <1>4. \A t \in BOOLEAN, e \in Nat : <<t, e>>[1] \in BOOLEAN /\ <<t, e>>[2] \in Nat
    OBVIOUS
  <1>5. ChooseEc(s, forced) = <<TRUE, forced>> /\ forced >= 0 => forced \in Nat
    BY <1>2
  <1> QED
    BY <1>1, <1>3, <1>4, <1>5, ZenonT(30)

(* The scan, and the choice of the counters. *)
LEMMA StartKept ==
    ASSUME IInv, Start
    PROVE  IInv' /\ BadKept
  <1>   /\ UNCHANGED <<flash, bad, wear, faults>>
        /\ eb' = 0 /\ written_ebs' = 0 /\ skip_data_read' = FALSE
        /\ buf' = 0 /\ fpos' = 0 /\ eb1' = -1 /\ eb2' = -1
        /\ caller' = "flash" /\ pattern' = 0 /\ passed' = {} /\ bad0' = bad
        /\ prev_bb' = -1 /\ consecutive_bad_blocks' = 1
        /\ runs' = runs + 1 /\ image_seq' = runs + 1
    BY DEF Start, Afresh
  <1>   TypeOK /\ DeviceOK /\ CountersExact
    BY DEF IInv
  <1>3. DeviceOK' /\ CountersExact' /\ BadKept
    BY DEF DeviceOK, CountersExact, BadKept
  <1>4. PICK forced \in ForcedEcs \cup {-1}, f \in ImageSizes \cup {0}, n \in BOOLEAN :
          /\ f > 0 => ~n
          /\ image' = f /\ novtbl' = n /\ si_ec' = ScanEc /\ mean_ec' = MeanEc(ScanEc)
          /\ \/ pc' = "failed" /\ override_ec' = (forced >= 0) /\ forced_ec' = 0
             \/ /\ ~ScanRefuses
                /\ pc' \in {"failed", IF f > 0 THEN "flash" ELSE "format"}
                /\ override_ec' = ChooseEc(ScanEc, forced)[1]
                /\ forced_ec' = ChooseEc(ScanEc, forced)[2]
    BY ZenonT(30) DEF Start
  <1>5. si_ec' \in [Ebs -> Nat] /\ mean_ec' \in Nat
    BY <1>4, ScanFacts, MeanIsNat
  <1>   image' \in Nat /\ (image' > 0 => ~novtbl') /\ novtbl' \in BOOLEAN
    BY <1>4, UbiAssumption
  <1>7. override_ec' \in BOOLEAN /\ forced_ec' \in Nat
    <2>1. (forced >= 0) \in BOOLEAN
      OBVIOUS
    <2>2. ChooseEc(ScanEc, forced)[1] \in BOOLEAN /\ ChooseEc(ScanEc, forced)[2] \in Nat
      BY ScanFacts, ChoiceFacts
    <2>3. override_ec' \in BOOLEAN
      BY <1>4, <2>1, <2>2, ZenonT(30)
    <2>4. forced_ec' \in Nat
      BY <1>4, <2>2
    <2> QED
      BY <2>3, <2>4
  <1>8. TypeOK'
    <2>1. skip_data_read' \in BOOLEAN
      BY Zenon
    <2>2. pc' \in Phases
      BY <1>4, ZenonT(30) DEF Phases
    <2>3. passed' \subseteq Ebs /\ bad0' \subseteq Ebs
      BY DEF TypeOK
    <2> QED
      BY <1>5, <1>7, <2>1, <2>2, <2>3 DEF TypeOK, Patterns
  <1>9. CASE pc' # "failed"
    <2>   /\ ~ScanRefuses
          /\ image' > 0 => pc' = "flash"
          /\ ~(image' > 0) => pc' = "format" /\ image' = 0
      BY <1>4, <1>9
    <2>   Good' = Good /\ Good \subseteq Nat /\ Good \subseteq Ebs
      BY SameGood, GoodFacts, ZenonT(30)
    <2>3. ScanOK'
      BY <1>4, ScanFacts, ZenonT(30) DEF ScanOK, Good
    <2>4. LoopOK'
      BY Consts DEF LoopOK, AtBlock, InFlash
    <2>5. WearOK'
      <3>1. \A b \in Good : si_ec'[b] <= EcMax => wear'[b] = si_ec'[b]
        BY <1>4, ScanFacts
      <3>2. pc' \in {"flash", "format"} /\ eb' = 0
        BY ZenonT(30)
      <3> QED
        BY <3>1, <3>2 DEF WearOK, OwnCounter, Waiting
    <2>6. PassedOK'
      BY DEF PassedOK
    <2>7. ImageOK'
      <3>0. \A b \in Good' : ~(b < 0)
        OBVIOUS
      <3>1. {b \in Good' : b < 0} = {}
        BY <3>0, ZenonT(30)
      <3>2. \A e : e = 0 => Before(e)' = 0
        BY <3>1, FS_EmptySet DEF Before
      <3>3. Before(eb)' = 0
        BY <3>2
      <3> QED
        BY <3>3 DEF ImageOK, InFlash, HasRead
    <2>8. RowOK'
      BY Consts DEF RowOK, NewBad, Ebs
    <2> QED
      BY <1>3, <1>8, <2>3, <2>4, <2>5, <2>6, <2>7, <2>8, ZenonT(30) DEF IInv
  <1> QED
    BY <1>3, <1>8, <1>9, StopOK, ZenonT(30)

-----------------------------------------------------------------------------
(* A crash. *)

(* Where the program may be in the middle of a write, the eraseblock is not *)
(* bad and has been erased.                                                 *)
LEMMA TargetFacts ==
    ASSUME IInv, Running
    PROVE  /\ pc # "mark_bad" /\ Target < EbCnt /\ si_ec[Target] # EB_BAD => Target \in Good
           /\ Writing => /\ Target \in Good
                         /\ OwnCounter(Target) => wear[Target] = si_ec[Target] + 1
  <1>   TypeOK /\ ScanOK /\ LoopOK /\ WearOK
    BY DEF IInv
  <1>   /\ pc = "layout1" => Target = eb1
        /\ pc = "layout2" => Target = eb2
        /\ pc \notin {"layout1", "layout2"} => Target = eb
    BY DEF Target
  <1>   pc \in {"layout1", "layout2"} => /\ eb1 \in Good /\ eb1 < eb /\ eb1 \in Nat
                                         /\ eb2 \in Good /\ eb2 < eb /\ eb2 \in Nat
    BY GoodFacts DEF LoopOK
  <1>4. Writing => Target \in Good
    BY DEF Writing, LoopOK, AtBlock
  <1>5. pc # "mark_bad" /\ Target < EbCnt /\ si_ec[Target] # EB_BAD => Target \in Good
    <2>1. CASE pc \in {"layout1", "layout2"}
      BY <2>1
    <2>2. CASE pc \notin {"layout1", "layout2"}
      <3>1. Target = eb /\ eb \in Nat
        BY <2>2 DEF TypeOK
      <3>2. eb < EbCnt => eb \in Ebs
        BY <3>1, Consts DEF Ebs
      <3> QED
        BY <3>1, <3>2 DEF ScanOK, Good
    <2> QED
      BY <2>1, <2>2
  <1>6. ASSUME Writing, OwnCounter(Target) PROVE wear[Target] = si_ec[Target] + 1
    <2>1. ~Waiting(Target) /\ ~Tested(Target)
      BY <1>6 DEF Waiting, Tested, Writing, TypeOK
    <2> QED
      BY <1>4, <1>6, <2>1 DEF WearOK
  <1> QED
    BY <1>4, <1>5, <1>6

(* Power is cut. *)
LEMMA CrashKept ==
    ASSUME IInv, Crash
    PROVE  IInv' /\ BadKept
  <1>   /\ UNCHANGED <<bad, faults, runs>> /\ pc' = "off" /\ Running
        /\ eb' = 0 /\ written_ebs' = 0 /\ skip_data_read' = FALSE
        /\ buf' = 0 /\ fpos' = 0 /\ eb1' = -1 /\ eb2' = -1
        /\ caller' = "flash" /\ pattern' = 0 /\ passed' = {} /\ bad0' = bad
        /\ prev_bb' = -1 /\ consecutive_bad_blocks' = 1
        /\ image_seq' = 0 /\ image' = 0 /\ novtbl' = FALSE
        /\ override_ec' = FALSE /\ forced_ec' = 0
        /\ si_ec' = [b \in Ebs |-> EB_EMPTY] /\ mean_ec' = 0
    BY DEF Crash, Afresh, Running
  <1>   TypeOK /\ DeviceOK /\ CountersExact
    BY ZenonT(30) DEF IInv
  <1>3. /\ flash' \in [Ebs -> Contents] /\ wear' \in [Ebs -> Nat]
        /\ DeviceOK' /\ CountersExact' /\ BadKept
    <2>1. CASE UNCHANGED <<flash, wear>>
      BY <2>1, ZenonT(30) DEF TypeOK, DeviceOK, CountersExact, BadKept
    <2>2. CASE pc # "mark_bad" /\ Target < EbCnt /\ si_ec[Target] # EB_BAD /\ Spoiled(Target)
      <3>1. Target \in Good /\ Target \in Ebs
        BY <2>2, TargetFacts, GoodFacts
      <3>2. Touches(Target)
        BY <2>2, <3>1, SpoiledTouches, ZenonT(30)
      <3> QED
        BY <3>1, <3>2 DEF Touches, BadKept, Good, TypeOK
    <2>3. CASE Writing /\ Programmed(Target, Damaged)
      <3>1. /\ Target \in Good /\ Target \in Ebs
            /\ OwnCounter(Target) => wear[Target] = si_ec[Target] + 1
        BY <2>3, TargetFacts, GoodFacts
      <3>2. Damaged \in Int
        BY DEF Damaged
      <3>3. Touches(Target)
        BY <2>3, <3>1, <3>2, ProgrammedTouches, ZenonT(30)
      <3> QED
        BY <3>1, <3>3, ZenonT(30) DEF Touches, BadKept, Good, TypeOK
    <2> QED
      BY <2>1, <2>2, <2>3, ZenonT(30) DEF Crash
  <1>4. si_ec' \in [Ebs -> Nat]
    BY Consts DEF EB_EMPTY
  <1>5. novtbl' \in BOOLEAN /\ override_ec' \in BOOLEAN /\ skip_data_read' \in BOOLEAN
    BY Zenon
  <1>6. passed' \subseteq Ebs /\ bad0' \subseteq Ebs /\ pc' \in Phases
    BY ZenonT(30) DEF TypeOK, Phases
  <1>7. TypeOK'
    BY <1>3, <1>4, <1>5, <1>6 DEF TypeOK, Patterns
  <1> QED
    BY <1>3, <1>7, OffOK, ZenonT(30)
=============================================================================
