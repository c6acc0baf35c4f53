-------------------------- MODULE RecvImage_proofs --------------------------
(***************************************************************************)
(* The theorems about the receiver, for every number of blocks, every size *)
(* of packets and eraseblocks, every set of bad blocks and any number of   *)
(* failing writes: the decode loop keeps the inductive invariant, what the *)
(* invariant says, and that the receiver implements ImageDelivery.         *)
(***************************************************************************)
EXTENDS RecvLoop_proofs

(* A minute for every leaf that does not name a prover. *)
USE SMTT(60)

-----------------------------------------------------------------------------
(* The decode loop. *)

(* What the invariant says while the decode loop runs. *)
LEMMA InDecode ==
    ASSUME IInv, Allocated, phase \in {"decode", "write"}
    PROVE  /\ TypeOK /\ DecodeOK
           /\ block_nr \in Blocks /\ block_nr \in Nat
           /\ eraseblocks \in [Blocks -> Eraseblock]
           /\ eraseblocks[block_nr] \in Eraseblock
           /\ eraseblocks[block_nr].eb \in Nat
           /\ mtdoffset \in Nat /\ dfails \in Nat /\ image_crc \in Images
           /\ phase = "write" => eraseblocks[block_nr].eb \in EbNumbers
  <1>1. TypeOK /\ DecodeOK
    BY DEF IInv
  <1>2. /\ block_nr \in Blocks /\ eraseblocks \in [Blocks -> Eraseblock]
        /\ mtdoffset \in Nat /\ dfails \in Nat /\ image_crc \in Images
    BY <1>1 DEF TypeOK, Allocated
  <1>3. eraseblocks[block_nr] \in Eraseblock /\ block_nr \in Nat
    BY <1>2 DEF Blocks
  <1>4. eraseblocks[block_nr].eb \in Nat
    BY <1>3 DEF Eraseblock
  <1>5. phase = "write" => eraseblocks[block_nr].eb \in EbNumbers
    BY <1>1 DEF DecodeOK
  <1> QED
    BY <1>1, <1>2, <1>3, <1>4, <1>5

(* flash_offset set to the start of an eraseblock. *)
LEMMA AtFacts ==
    ASSUME NEW e \in Eraseblock, NEW eb \in Nat
    PROVE  At(e, eb) \in Eraseblock /\ At(e, eb).eb = eb
  BY Sizes DEF At, Eraseblock

(* What the steps of the decode loop have in common: they change the       *)
(* eraseblock of block block_nr and possibly eraseblocks behind mtdoffset,  *)
(* so the blocks still to come keep their packets.                          *)
LEMMA PendingKept ==
    ASSUME IInv, Allocated, phase \in {"decode", "write"}, TypeOK',
           Pending' \subseteq Pending \ {block_nr}, image_crc' = image_crc,
           \A b \in Blocks : b # block_nr => eraseblocks'[b] = eraseblocks[b],
           \A eb \in EbNumbers :
              eb # eraseblocks[block_nr].eb => flash'[eb] = flash[eb],
           mtdoffset <= mtdoffset',
           \/ eraseblocks'[block_nr].eb = eraseblocks[block_nr].eb
           \/ mtdoffset <= eraseblocks'[block_nr].eb
    PROVE  \A b \in Pending' :
              /\ BlockOK(flash, image_crc, b, eraseblocks[b])'
              /\ eraseblocks'[b].eb < mtdoffset'
              /\ \A a \in Blocks : eraseblocks'[a].eb = eraseblocks'[b].eb => a = b
  <1> SUFFICES ASSUME NEW b \in Pending'
               PROVE  /\ BlockOK(flash, image_crc, b, eraseblocks[b])'
                      /\ eraseblocks'[b].eb < mtdoffset'
                      /\ \A a \in Blocks :
                            eraseblocks'[a].eb = eraseblocks'[b].eb => a = b
    OBVIOUS
  <1>1. b \in Pending /\ b \in Blocks /\ b # block_nr /\ block_nr \in Blocks
    BY InDecode DEF Pending
  <1>2. DecodeOK
    BY InDecode
  <1>3. /\ BlockOK(flash, image_crc, b, eraseblocks[b])
        /\ eraseblocks[b].eb < mtdoffset
        /\ \A a \in Blocks : eraseblocks[a].eb = eraseblocks[b].eb => a = b
    BY <1>1, <1>2 DEF DecodeOK
  <1>4. eraseblocks'[b] = eraseblocks[b] /\ eraseblocks[b].eb # eraseblocks[block_nr].eb
    BY <1>1, <1>3
  <1>5. BlockOK(flash', image_crc', b, eraseblocks'[b])
    BY <1>3, <1>4, BlockStable
  <1>6. /\ eraseblocks[b].eb \in Nat /\ mtdoffset \in Nat /\ mtdoffset' \in Nat
        /\ eraseblocks'[block_nr].eb \in Nat
    <2>1. /\ eraseblocks[b] \in Eraseblock /\ eraseblocks'[block_nr] \in Eraseblock
          /\ mtdoffset \in Nat /\ mtdoffset' \in Nat
      BY <1>1, InDecode DEF TypeOK
    <2> QED
      BY <2>1 DEF Eraseblock
  <1>7. eraseblocks'[b].eb < mtdoffset'
    BY <1>3, <1>4, <1>6
  <1>8. eraseblocks'[block_nr].eb # eraseblocks'[b].eb
    BY <1>3, <1>4, <1>6
  <1> QED
    BY <1>1, <1>3, <1>4, <1>5, <1>7, <1>8 DEF BlockOK

(* One block is read back, decoded and its eraseblock erased. *)
LEMMA DecodeBlockOK ==
    ASSUME IInv, Allocated, DecodeBlock
    PROVE  IInv'
  <1> DEFINE e == eraseblocks[block_nr]
  <1>1. /\ TypeOK /\ DecodeOK /\ phase = "decode" /\ block_nr \in Blocks
        /\ block_nr \in Pending /\ e \in Eraseblock
        /\ eraseblocks \in [Blocks -> Eraseblock]
        /\ block_nr \in Nat
    BY InDecode DEF DecodeBlock, Pending
  <1>2. e.eb \in EbNumbers
    <2>1. e.cell > 0
      BY Sizes DEF DecodeBlock, Recoverable
    <2>2. BlockOK(flash, image_crc, block_nr, e)
      BY <1>1 DEF DecodeOK
    <2> QED
      BY <2>1, <2>2 DEF BlockOK
  <1>3. e.eb \in Nat
    BY <1>1 DEF Eraseblock
  <1>4. /\ eraseblocks' = [eraseblocks EXCEPT ![block_nr] = At(e, e.eb)]
        /\ flash' = CleanedOfPackets(e.eb)
        /\ phase' = "write" /\ image_crc' = image_crc /\ mtdoffset' = mtdoffset
        /\ total_pkts' = total_pkts /\ block_nr' = block_nr /\ bad' = bad
        /\ wfails' = wfails /\ dfails' = dfails
    BY DEF DecodeBlock
  <1> HIDE DEF e
  <1>5. At(e, e.eb) \in Eraseblock /\ At(e, e.eb).eb = e.eb
    BY <1>1, <1>3, AtFacts, ZenonT(30)
  <1>6. /\ \A b \in Blocks : b # block_nr => eraseblocks'[b] = eraseblocks[b]
        /\ \A b \in Blocks : eraseblocks'[b].eb = eraseblocks[b].eb
        /\ eraseblocks' \in [Blocks -> Eraseblock]
    BY <1>1, <1>4, <1>5 DEF e
  <1>7. /\ flash' \in FlashType
        /\ \A a \in EbNumbers : a # e.eb => flash'[a] = flash[a]
        /\ ~FileMode => \A c \in CellNumbers : flash'[e.eb][c] = Erased
    <2>1. CASE FileMode
      BY <1>1, <1>4, <2>1 DEF CleanedOfPackets, TypeOK, FlashType
    <2>2. CASE ~FileMode
      BY <1>1, <1>2, <1>4, <2>2, EraseFacts DEF CleanedOfPackets
    <2> QED
      BY <2>1, <2>2
  <1>8. TypeOK'
    BY <1>1, <1>4, <1>6, <1>7 DEF TypeOK, FlashType
  <1>9. Pending' \subseteq Pending \ {block_nr}
    BY <1>1, <1>4 DEF Pending, Blocks
  <1>10. \A b \in Pending' :
            /\ BlockOK(flash, image_crc, b, eraseblocks[b])'
            /\ eraseblocks'[b].eb < mtdoffset'
            /\ \A a \in Blocks : eraseblocks'[a].eb = eraseblocks'[b].eb => a = b
    <2>1. mtdoffset <= mtdoffset'
      BY <1>1, <1>4 DEF TypeOK
    <2> QED
      BY <1>1, <1>4, <1>6, <1>7, <1>8, <1>9, <2>1, PendingKept DEF e
  <1>11. HomesGood(eraseblocks)'
    BY <1>1, <1>4, <1>6 DEF DecodeOK, HomesGood
  <1>12. ASSUME dfails' = 0
         PROVE  HomesBelow(eraseblocks, mtdoffset)' /\ FreshFrom(flash, mtdoffset)'
    <2>1. HomesBelow(eraseblocks, mtdoffset) /\ FreshFrom(flash, mtdoffset)
      BY <1>1, <1>4, <1>12 DEF DecodeOK
    <2>2. \A a \in EbNumbers : a >= mtdoffset => a # e.eb
      BY <1>1, <1>3, <2>1 DEF HomesBelow, EbNumbers, e, TypeOK
    <2>3. HomesBelow(eraseblocks, mtdoffset)'
      BY <1>4, <1>6, <2>1 DEF HomesBelow
    <2>4. FreshFrom(flash, mtdoffset)'
      BY <1>4, <1>7, <2>1, <2>2 DEF FreshFrom
    <2> QED
      BY <2>3, <2>4
  <1>13. eraseblocks'[block_nr'].eb \in EbNumbers
    BY <1>1, <1>2, <1>4, <1>6 DEF e
  <1>14. ASSUME dfails' <= 1
         PROVE  /\ HomesApart(eraseblocks)'
                /\ \A b \in Blocks : b < block_nr' =>
                      Written(flash, image_crc, b, eraseblocks[b])'
                /\ ~FileMode =>
                     \A c \in CellNumbers : flash'[eraseblocks'[block_nr'].eb][c] = Erased
    <2>1. /\ HomesApart(eraseblocks)
          /\ \A b \in Blocks : b < block_nr =>
                Written(flash, image_crc, b, eraseblocks[b])
      BY <1>1, <1>4, <1>14 DEF DecodeOK
    <2>2. HomesApart(eraseblocks)'
      BY <1>6, <2>1 DEF HomesApart
    <2>3. ASSUME NEW b \in Blocks, b < block_nr
          PROVE  Written(flash, image_crc, b, eraseblocks[b])'
      <3>1. b # block_nr /\ eraseblocks[b].eb # e.eb
        BY <1>1, <2>1, <2>3 DEF HomesApart, e, Blocks
      <3> QED
        BY <1>4, <1>6, <1>7, <2>1, <2>3, <3>1 DEF Written
    <2>4. ~FileMode =>
             \A c \in CellNumbers : flash'[eraseblocks'[block_nr'].eb][c] = Erased
      BY <1>1, <1>4, <1>6, <1>7 DEF e
    <2> QED
      BY <1>4, <2>2, <2>3, <2>4
  <1>15. DecodeOK'
    BY <1>8, <1>10, <1>11, <1>12, <1>13, <1>14 DEF DecodeOK
  <1> QED
    BY <1>4, <1>8, <1>15 DEF IInv, Allocated

(* The decoded block is written. *)
LEMMA WriteBlockOK ==
    ASSUME IInv, Allocated, WriteBlock
    PROVE  IInv'
  <1> DEFINE e == eraseblocks[block_nr]
  <1>1. /\ TypeOK /\ DecodeOK /\ phase = "write" /\ block_nr \in Blocks
        /\ e \in Eraseblock /\ e.eb \in EbNumbers /\ block_nr \in Nat
        /\ image_crc \in Images
    BY InDecode DEF WriteBlock
  <1>2. /\ flash' = [flash EXCEPT ![e.eb] =
                       [c \in CellNumbers |->
                          Programmed(flash[e.eb][c], Decoded(image_crc, block_nr))]]
        /\ image_crc' = image_crc /\ eraseblocks' = eraseblocks
        /\ mtdoffset' = mtdoffset /\ total_pkts' = total_pkts /\ bad' = bad
        /\ wfails' = wfails /\ dfails' = dfails
    BY DEF WriteBlock
  <1>3. \/ block_nr = NrBlocks - 1 /\ phase' = "done" /\ block_nr' = block_nr
        \/ /\ block_nr # NrBlocks - 1
           /\ phase' = "decode" /\ block_nr' = block_nr + 1
    BY DEF WriteBlock, IsLast
  <1>4. block_nr' \in Blocks
    BY <1>1, <1>3, RecvAssumption DEF Blocks
  <1> HIDE DEF e
  <1>5. /\ flash' \in FlashType
        /\ \A a \in EbNumbers : a # e.eb => flash'[a] = flash[a]
        /\ \A c \in CellNumbers : flash'[e.eb][c] =
              Programmed(flash[e.eb][c], Decoded(image_crc, block_nr))
    <2>1. flash \in [EbNumbers -> [CellNumbers -> Contents]]
      BY <1>1 DEF TypeOK
    <2>2. \A x : Programmed(x, Decoded(image_crc, block_nr)) \in Contents
      BY <1>1 DEF Programmed, Contents, Decoded
    <2> QED
      BY <1>1, <1>2, <2>1, <2>2 DEF FlashType
  <1>6. TypeOK'
    BY <1>1, <1>2, <1>3, <1>4, <1>5 DEF TypeOK, FlashType
  <1>7. Pending' \subseteq Pending \ {block_nr}
    BY <1>1, <1>3 DEF Pending, Blocks
  <1>8. \A b \in Pending' :
            /\ BlockOK(flash, image_crc, b, eraseblocks[b])'
            /\ eraseblocks'[b].eb < mtdoffset'
            /\ \A a \in Blocks : eraseblocks'[a].eb = eraseblocks'[b].eb => a = b
    <2>1. mtdoffset <= mtdoffset'
      BY <1>1, <1>2 DEF TypeOK
    <2> QED
      BY <1>1, <1>2, <1>5, <1>6, <1>7, <2>1, PendingKept, ZenonT(30) DEF e
  <1>9. HomesGood(eraseblocks)'
    BY <1>1, <1>2 DEF DecodeOK, HomesGood
  <1>10. ASSUME dfails' = 0
         PROVE  HomesBelow(eraseblocks, mtdoffset)' /\ FreshFrom(flash, mtdoffset)'
    <2>1. HomesBelow(eraseblocks, mtdoffset) /\ FreshFrom(flash, mtdoffset)
      BY <1>1, <1>2, <1>10 DEF DecodeOK
    <2>2. \A a \in EbNumbers : a >= mtdoffset => a # e.eb
      BY <1>1, <2>1 DEF HomesBelow, EbNumbers, e, TypeOK
    <2>3. HomesBelow(eraseblocks, mtdoffset)'
      BY <1>2, <2>1 DEF HomesBelow
    <2>4. FreshFrom(flash, mtdoffset)'
      BY <1>2, <1>5, <2>1, <2>2 DEF FreshFrom
    <2> QED
      BY <2>3, <2>4
  <1>11. ASSUME dfails' <= 1
         PROVE  /\ HomesApart(eraseblocks)'
                /\ \A b \in Blocks : b <= block_nr =>
                      Written(flash, image_crc, b, eraseblocks[b])'
    <2>1. /\ HomesApart(eraseblocks)
          /\ \A b \in Blocks : b < block_nr =>
                Written(flash, image_crc, b, eraseblocks[b])
          /\ ~FileMode => \A c \in CellNumbers : flash[e.eb][c] = Erased
      BY <1>1, <1>2, <1>11 DEF DecodeOK, e
    <2>2. HomesApart(eraseblocks)'
      BY <1>2, <2>1 DEF HomesApart
    <2>3. ASSUME NEW b \in Blocks, b < block_nr
          PROVE  Written(flash, image_crc, b, eraseblocks[b])'
      <3>1. eraseblocks[b].eb # e.eb
        BY <1>1, <2>1, <2>3 DEF HomesApart, e, Blocks
      <3> QED
        BY <1>2, <1>5, <2>1, <2>3, <3>1 DEF Written
    <2>4. Written(flash', image_crc', block_nr, eraseblocks'[block_nr])
      BY <1>1, <1>2, <1>5, <2>1 DEF Written, Programmed, e
    <2>5. ASSUME NEW b \in Blocks, b <= block_nr
          PROVE  Written(flash, image_crc, b, eraseblocks[b])'
      <3>1. b < block_nr \/ b = block_nr
        BY <1>1, <2>5 DEF Blocks
      <3> QED
        BY <2>3, <2>4, <3>1 DEF Written
    <2> QED
      BY <2>2, <2>5
  <1>12. CASE phase' = "decode"
    <2>1. \A b \in Blocks : b < block_nr' => b <= block_nr
      BY <1>1, <1>3, <1>12 DEF Blocks
    <2>2. DecodeOK'
      BY <1>6, <1>8, <1>9, <1>10, <1>11, <1>12, <2>1 DEF DecodeOK
    <2> QED
      BY <1>2, <1>6, <1>12, <2>2 DEF IInv, Allocated
  <1>13. CASE phase' = "done"
    <2>1. \A b \in Blocks : b <= block_nr
      BY <1>3, <1>13, RecvAssumption DEF Blocks
    <2>2. EndOK'
      BY <1>9, <1>11, <2>1 DEF EndOK
    <2> QED
      BY <1>2, <1>6, <1>13, <2>2 DEF IInv, Allocated
  <1> QED
    BY <1>3, <1>12, <1>13

(* The write of the decoded block fails, and the block is moved. *)
LEMMA WriteBlockFailsOK ==
    ASSUME IInv, Allocated, WriteBlockFails
    PROVE  IInv'
  <1> DEFINE e == eraseblocks[block_nr]
  <1>1. /\ TypeOK /\ DecodeOK /\ phase = "write" /\ block_nr \in Blocks
        /\ e \in Eraseblock /\ e.eb \in EbNumbers /\ block_nr \in Nat
        /\ eraseblocks \in [Blocks -> Eraseblock]
        /\ mtdoffset \in Nat /\ dfails \in Nat /\ ~FileMode
    BY InDecode DEF WriteBlockFails
  <1>2. PICK n \in EbNumbers :
           /\ NextGood(mtdoffset, n)
           /\ mtdoffset' = n
           /\ eraseblocks' = [eraseblocks EXCEPT ![block_nr] = At(e, n)]
    BY ZenonT(30) DEF WriteBlockFails
  <1>3. /\ flash' = EraseBlock(e.eb) /\ dfails' = dfails + 1
        /\ phase' = phase /\ image_crc' = image_crc /\ total_pkts' = total_pkts
        /\ block_nr' = block_nr /\ bad' = bad /\ wfails' = wfails
    BY DEF WriteBlockFails
  <1>4. n \in Nat /\ mtdoffset <= n /\ n \notin bad
    BY <1>2 DEF NextGood, EbNumbers
  <1> HIDE DEF e
  <1>5. At(e, n) \in Eraseblock /\ At(e, n).eb = n
    BY <1>1, <1>4, AtFacts
  <1>6. /\ \A b \in Blocks : b # block_nr => eraseblocks'[b] = eraseblocks[b]
        /\ eraseblocks'[block_nr].eb = n
        /\ eraseblocks' \in [Blocks -> Eraseblock]
    BY <1>1, <1>2, <1>5
  <1>7. /\ flash' \in FlashType
        /\ \A a \in EbNumbers : a # e.eb => flash'[a] = flash[a]
        /\ \A c \in CellNumbers : flash'[e.eb][c] = Erased
    BY <1>1, <1>3, EraseFacts
  <1>8. TypeOK'
    BY <1>1, <1>2, <1>3, <1>4, <1>6, <1>7 DEF TypeOK, FlashType
  <1>9. Pending' \subseteq Pending \ {block_nr}
    BY <1>1, <1>3 DEF Pending, Blocks
  <1>10. \A b \in Pending' :
            /\ BlockOK(flash, image_crc, b, eraseblocks[b])'
            /\ eraseblocks'[b].eb < mtdoffset'
            /\ \A a \in Blocks : eraseblocks'[a].eb = eraseblocks'[b].eb => a = b
    BY <1>1, <1>2, <1>3, <1>4, <1>6, <1>7, <1>8, <1>9, PendingKept DEF e
  <1>11. HomesGood(eraseblocks)'
    BY <1>1, <1>3, <1>4, <1>6 DEF DecodeOK, HomesGood
  <1>12. dfails' # 0
    BY <1>1, <1>3
  <1>13. ASSUME dfails' <= 1
         PROVE  /\ HomesApart(eraseblocks)'
                /\ \A b \in Blocks : b < block_nr' =>
                      Written(flash, image_crc, b, eraseblocks[b])'
                /\ \A c \in CellNumbers : flash'[eraseblocks'[block_nr'].eb][c] = Erased
    <2>1. dfails = 0
      BY <1>1, <1>3, <1>13
    <2>2. /\ HomesApart(eraseblocks) /\ HomesBelow(eraseblocks, mtdoffset)
          /\ FreshFrom(flash, mtdoffset)
          /\ \A b \in Blocks : b < block_nr =>
                Written(flash, image_crc, b, eraseblocks[b])
      BY <1>1, <2>1 DEF DecodeOK
    <2>3. \A b \in Blocks : eraseblocks[b].eb \in Nat /\ eraseblocks[b].eb # n
      <3>1. ASSUME NEW b \in Blocks
            PROVE  eraseblocks[b].eb \in Nat /\ eraseblocks[b].eb < mtdoffset
        BY <1>1, <2>2 DEF HomesBelow, Eraseblock
      <3> QED
        BY <1>1, <1>4, <3>1
    <2>4. HomesApart(eraseblocks)'
      BY <1>6, <2>2, <2>3, ZenonT(30) DEF HomesApart
    <2>5. ASSUME NEW b \in Blocks, b < block_nr
          PROVE  Written(flash, image_crc, b, eraseblocks[b])'
      <3>1. b # block_nr /\ eraseblocks[b].eb # e.eb
        BY <1>1, <2>2, <2>5 DEF HomesApart, e, Blocks
      <3> QED
        BY <1>3, <1>6, <1>7, <2>2, <2>5, <3>1 DEF Written
    <2>6. \A c \in CellNumbers : flash'[n][c] = Erased
      <3>1. \A c \in CellNumbers : flash[n][c] = Erased
        BY <1>4, <2>2 DEF FreshFrom
      <3>2. n # e.eb
        BY <1>1, <2>3, ZenonT(30) DEF e
      <3> QED
        BY <1>7, <3>1, <3>2
    <2> QED
      BY <1>3, <1>6, <2>4, <2>5, <2>6
  <1>14. DecodeOK'
    BY <1>3, <1>6, <1>8, <1>10, <1>11, <1>12, <1>13 DEF DecodeOK
  <1> QED
    BY <1>1, <1>3, <1>8, <1>14 DEF IInv, Allocated

(* Every step keeps the invariant. *)
LEMMA StepOK == IInv /\ [Next]_vars => IInv'
  <1> SUFFICES ASSUME IInv, [Next]_vars PROVE IInv'
    OBVIOUS
  <1>1. ASSUME NEW p \in Packets, FirstPacket(p) PROVE IInv'
    BY <1>1, FirstPacketOK
  <1>2. ASSUME NEW p \in Packets, NextPacket(p) PROVE IInv'
    BY <1>2, NextPacketOK
  <1>3. ASSUME NEW p \in Packets, FatalPacket(p) PROVE IInv'
    BY <1>3, Exit1OK DEF FatalPacket
  <1>4. CASE ReadError
    BY <1>4, ReadErrorOK
  <1>5. CASE DecodeFails \/ WriteBlockExit
    <2>1. CASE DecodeFails
      BY <2>1, Exit1OK DEF DecodeFails
    <2>2. CASE WriteBlockExit
      <3>1. Allocated /\ TypeOK
        BY <2>2 DEF IInv, WriteBlockExit
      <3>2. flash' \in FlashType
        BY <2>2, <3>1, SpoiledFacts DEF WriteBlockExit
      <3> QED
        BY <2>2, <3>1, <3>2, ExitOK DEF WriteBlockExit
    <2> QED
      BY <1>5, <2>1, <2>2
  <1>6. CASE DecodeBlock \/ WriteBlock \/ WriteBlockFails
    <2>1. Allocated
      BY <1>6 DEF IInv, DecodeBlock, WriteBlock, WriteBlockFails
    <2> QED
      BY <1>6, <2>1, DecodeBlockOK, WriteBlockOK, WriteBlockFailsOK
  <1>7. CASE UNCHANGED vars
    <2> USE <1>7 DEF vars
    <2>1. TypeOK' = TypeOK /\ Allocated' = Allocated
      BY DEF TypeOK, Allocated
    <2>2. FreshFrom(flash, 0)' = FreshFrom(flash, 0)
      BY DEF FreshFrom
    <2>3. /\ HomesApart(eraseblocks)' = HomesApart(eraseblocks)
          /\ HomesGood(eraseblocks)' = HomesGood(eraseblocks)
          /\ HomesBelow(eraseblocks, mtdoffset)' = HomesBelow(eraseblocks, mtdoffset)
          /\ FreshFrom(flash, mtdoffset)' = FreshFrom(flash, mtdoffset)
      BY DEF HomesApart, HomesGood, HomesBelow, FreshFrom
    <2>4. Pending' = Pending
      BY ZenonT(30) DEF Pending
    <2>5. ASSUME NEW b \in Blocks
          PROVE  /\ BlockOK(flash, image_crc, b, eraseblocks[b])' =
                      BlockOK(flash, image_crc, b, eraseblocks[b])
                 /\ Written(flash, image_crc, b, eraseblocks[b])' =
                      Written(flash, image_crc, b, eraseblocks[b])
      BY DEF BlockOK, Written
    <2>6. StoreOK(flash, image_crc, eraseblocks, mtdoffset)' =
            StoreOK(flash, image_crc, eraseblocks, mtdoffset)
      BY <2>3, <2>5, Zenon DEF StoreOK
    <2>7. EndOK' = EndOK
      BY <2>3, <2>5, Zenon DEF EndOK
    <2>8. DecodeOK' = DecodeOK
      BY <2>3, <2>4, <2>5, Zenon DEF DecodeOK
    <2> QED
      BY <2>1, <2>2, <2>6, <2>7, <2>8 DEF IInv
  <1> QED
    BY <1>1, <1>2, <1>3, <1>4, <1>5, <1>6, <1>7
       DEF Next, Receive, Decode, Terminated

(* What the invariant says. *)
LEMMA InvariantImplies ==
    IInv => CompleteIsRecoverable /\ HomesDisjoint /\ Delivered
  <1> SUFFICES ASSUME IInv
               PROVE  CompleteIsRecoverable /\ HomesDisjoint /\ Delivered
    BY ZenonT(30)
  <1>1. CompleteIsRecoverable
    <2> SUFFICES ASSUME NEW b \in Pending, Allocated,
                        eraseblocks[b].nr_pkts >= pkts_per_block
                 PROVE  Recoverable(b)
      BY DEF CompleteIsRecoverable
    <2> DEFINE e == eraseblocks[b]
    <2>1. b \in Blocks /\ e \in Eraseblock /\ e.nr_pkts \in Nat
      BY ZenonT(30) DEF Pending, IInv, TypeOK, Eraseblock
    <2>2. BlockOK(flash, image_crc, b, e)
      BY <2>1 DEF Pending, IInv, StoreOK, DecodeOK
    <2>3. e.nr_pkts >= pkts_per_block
      OBVIOUS
    <2> HIDE DEF e
    <2>4. Distinct(e.pkt_indices) /\ Aligned(e) /\ Len(e.pkt_indices) = pkts_per_block
      <3>1. ~(e.nr_pkts < pkts_per_block)
        BY <2>1, <2>3, Sizes
      <3> QED
        BY <2>2, <3>1 DEF BlockOK
    <2>5. e.cell = Cells
      BY <2>1, <2>4, AlignedFacts
    <2>6. \A c \in CellNumbers : HoldsSlice(flash[e.eb][c], image_crc, b, c, e.pkt_indices)
      <3>1. e.eb \in EbNumbers
        BY <2>2, <2>5, Sizes, ZenonT(30) DEF BlockOK
      <3>2. \A c \in CellNumbers : c < e.cell
        BY <2>5, Sizes DEF CellNumbers
      <3> QED
        BY <2>2, <3>1, <3>2 DEF BlockOK
    <2> QED
      BY <2>4, <2>5, <2>6 DEF Recoverable, e
  <1>2. HomesDisjoint
    BY DEF HomesDisjoint, IInv, TypeOK, StoreOK, DecodeOK, EndOK, HomesApart, HomesGood
  <1>3. Delivered
    BY DEF Delivered, Installed, IInv, TypeOK, DecodeOK, EndOK
  <1> QED
    BY <1>1, <1>2, <1>3

(* IInv holds in every state of the receiver: the receive loop keeps the    *)
(* packets of each block in place (recv_image.c:159-351) and the decode     *)
(* loop disturbs neither the blocks to come nor those installed (357-474).  *)
THEOREM Invariance == Spec => []IInv
  BY InitOK, StepOK, PTL DEF Spec

(* The variables keep their types; in particular no packet is ever stored  *)
(* beyond the last cell of an eraseblock (the indexing of wbuf and          *)
(* flash_offset in recv_image.c:278-343).                                   *)
THEOREM TypeCorrect == Spec => []TypeOK
  <1>1. IInv => TypeOK
    BY DEF IInv
  <1> QED
    BY <1>1, Invariance, PTL

(* The decode loop never meets a block it cannot rebuild from what the      *)
(* receive loop has stored (recv_image.c:240-343 against 357-404).          *)
THEOREM StoredBlocksDecode == Spec => []CompleteIsRecoverable
  BY Invariance, InvariantImplies, PTL

(* Blocks keep eraseblocks of their own (recv_image.c:197-213, 293-338 and  *)
(* 427-466), up to one failing write of decoded data.                       *)
THEOREM BlocksKeepApart == Spec => []HomesDisjoint
  BY Invariance, InvariantImplies, PTL

(* What is written stays, and the program ends with the whole image         *)
(* (recv_image.c:357-474), up to one failing write of decoded data.         *)
THEOREM ImageIsDelivered == Spec => []Delivered
  BY Invariance, InvariantImplies, PTL

-----------------------------------------------------------------------------
(* The receiver implements ImageDelivery. *)

LEMMA MovesBounded == Spec => [](dfails <= MaxDecodeFails)
  <1>1. Init => dfails <= MaxDecodeFails
    BY RecvAssumption DEF Init
  <1>2. TypeOK /\ dfails <= MaxDecodeFails /\ [Next]_vars => (dfails <= MaxDecodeFails)'
    <2> SUFFICES ASSUME TypeOK, dfails <= MaxDecodeFails, [Next]_vars
                 PROVE  dfails' <= MaxDecodeFails
      OBVIOUS
    <2>1. dfails \in Nat /\ MaxDecodeFails \in Nat
      BY RecvAssumption DEF TypeOK
    <2>2. CASE dfails' = dfails
      BY <2>2, ZenonT(30)
    <2>3. CASE WriteBlockFails
      BY <2>1, <2>3 DEF WriteBlockFails
    <2>4. ASSUME NEW p, NEW ebs, NEW m, Process(p, ebs, m) PROVE dfails' = dfails
      BY <2>4
      DEF Process, Discard, IgnoreExtra, BufferPacket, FlushPacket, FlushFailsRelocate,
          FlushFailsExit, StoreAndLoop
    <2>5. ASSUME NEW p \in Packets, Receive(p) PROVE dfails' = dfails
      BY <2>4, <2>5, ZenonT(30) DEF Receive, FirstPacket, NextPacket, FatalPacket, Exit1
    <2>6. CASE ReadError \/ DecodeBlock \/ DecodeFails \/ WriteBlock \/ WriteBlockExit
               \/ UNCHANGED vars
      BY <2>6 DEF ReadError, DecodeBlock, DecodeFails, Exit1, WriteBlock, WriteBlockExit, vars
    <2> QED
      BY <2>2, <2>3, <2>5, <2>6, Zenon DEF Next, Decode, Terminated
  <1> QED
    BY <1>1, <1>2, TypeCorrect, PTL DEF Spec

(* The values of delivered and status. *)
Done == {b \in Blocks : Installed(b)}
Status == IF phase = "done" /\ Allocated THEN "complete"
          ELSE IF phase \in {"done", "failed"} THEN "stopped" ELSE "running"

(* What is delivered in each phase. *)
DoneOK ==
    /\ phase = "recv" \/ ~Allocated => Done = {}
    /\ phase \in {"decode", "write"} => Done = {b \in Blocks : b < block_nr}
    /\ phase = "done" /\ Allocated => Done = Blocks

LEMMA DoneFacts == IInv /\ dfails <= 1 => DoneOK
  <1> SUFFICES ASSUME IInv, dfails <= 1 PROVE DoneOK
    OBVIOUS
  <1>1. phase = "recv" \/ ~Allocated => Done = {}
    BY DEF Done, Installed
  <1>2. ASSUME phase \in {"decode", "write"}
        PROVE  Done = {b \in Blocks : b < block_nr}
    <2>1. Allocated
      BY <1>2, ZenonT(30) DEF IInv
    <2>2. \A b \in Blocks : b < block_nr => Written(flash, image_crc, b, eraseblocks[b])
      BY <1>2, <2>1 DEF IInv, DecodeOK
    <2> QED
      BY <1>2, <2>1, <2>2 DEF Done, Installed
  <1>3. ASSUME phase = "done", Allocated PROVE Done = Blocks
    <2>1. \A b \in Blocks : Written(flash, image_crc, b, eraseblocks[b])
      BY <1>3 DEF IInv, EndOK
    <2> QED
      BY <1>3, <2>1 DEF Done, Installed
  <1> QED
    BY <1>1, <1>2, <1>3 DEF DoneOK

(* A block whose packets are still raw has not been written. *)
LEMMA PacketsNotWritten ==
    ASSUME NEW fl, NEW img, NEW img2, NEW b, NEW e, BlockOK(fl, img, b, e)
    PROVE  ~Written(fl, img2, b, e)
  <1> SUFFICES ASSUME Written(fl, img2, b, e) PROVE FALSE
    OBVIOUS
  <1>1. 0 \in CellNumbers
    BY Sizes DEF CellNumbers
  <1>2. fl[e.eb][0] = Decoded(img2, b) /\ e.eb \in EbNumbers
    BY <1>1, ZenonT(30) DEF Written
  <1>3. fl[e.eb][0] \in RawContents \/ fl[e.eb][0] = Erased
    BY <1>1, <1>2 DEF BlockOK, HoldsSlice
  <1> QED
    BY <1>2, <1>3 DEF Decoded, Erased, RawContents

(* The program gives up: what is installed stays. *)
LEMMA ExitMaps ==
    ASSUME IInv, dfails <= 1, DoneOK, phase \in {"recv", "decode", "write"},
           phase' = "failed",
           image_crc' = image_crc, eraseblocks' = eraseblocks, block_nr' = block_nr,
           \/ flash' = flash /\ phase # "write"
           \/ phase = "write" /\ flash' \in Spoiled(eraseblocks[block_nr].eb)
           \/ phase = "recv" /\ \E b \in Blocks : flash' \in Spoiled(eraseblocks[b].eb)
    PROVE  Done' = Done
  <1> DEFINE W(b) == Written(flash', image_crc, b, eraseblocks[b])
  <1>1. Allocated' = Allocated
    BY DEF Allocated
  <1>2. \A b : Installed(b)' <=> Allocated /\ W(b)
    BY <1>1 DEF Installed, Written
  <1>3. CASE ~Allocated
    BY <1>2, <1>3 DEF Done, DoneOK
  <1>4. ASSUME NEW eb, flash' \in Spoiled(eb), NEW b \in Blocks
        PROVE  /\ eraseblocks[b].eb = eb => ~W(b)
               /\ eraseblocks[b].eb # eb =>
                    (W(b) <=> Written(flash, image_crc, b, eraseblocks[b]))
    <2>1. PICK x \in {Erased, Garbage} :
             flash' = [flash EXCEPT ![eb] = [c \in CellNumbers |-> x]]
      BY <1>4 DEF Spoiled
    <2>2. \A a \in EbNumbers : flash'[a] = IF a = eb THEN [c \in CellNumbers |-> x]
                                                     ELSE flash[a]
      BY <2>1 DEF IInv, TypeOK
    <2>3. 0 \in CellNumbers /\ x # Decoded(image_crc, b)
      BY Sizes DEF CellNumbers, Decoded, Erased, Garbage
    <2>4. CASE eraseblocks[b].eb = eb
      BY <2>2, <2>3, <2>4, ZenonT(30) DEF Written
    <2>5. CASE eraseblocks[b].eb # eb
      BY <2>2, <2>5 DEF Written
    <2> QED
      BY <2>4, <2>5
  <1>5. CASE Allocated /\ phase = "recv"
    <2>1. \A b \in Blocks : BlockOK(flash, image_crc, b, eraseblocks[b])
      BY <1>5 DEF IInv, StoreOK
    <2>2. \A b \in Blocks : ~Written(flash, image_crc, b, eraseblocks[b])
      BY <2>1, PacketsNotWritten
    <2>3. \A b \in Blocks : ~W(b)
      BY <1>4, <1>5, <2>2, Zenon
    <2> QED
      BY <1>2, <1>5, <2>3 DEF Done, DoneOK
  <1>6. CASE Allocated /\ phase \in {"decode", "write"}
    <2>1. /\ DecodeOK /\ block_nr \in Blocks /\ \A b \in Blocks : b \in Int
      BY <1>6 DEF IInv, TypeOK, Blocks
    <2>2. ASSUME NEW b \in Blocks, b < block_nr
          PROVE  Written(flash, image_crc, b, eraseblocks[b])
      BY <2>1, <2>2, ZenonT(30) DEF DecodeOK
    <2>3. ASSUME NEW b \in Blocks, ~(b < block_nr), ~(phase = "write" /\ b = block_nr)
          PROVE  ~Written(flash, image_crc, b, eraseblocks[b])
      <3>1. b \in Pending
        BY <1>6, <2>1, <2>3 DEF Pending
      <3> QED
        BY <2>1, <3>1, PacketsNotWritten DEF DecodeOK
    <2>4. \A b \in Blocks : W(b) <=> b < block_nr
      <3>1. CASE flash' = flash /\ phase = "decode"
        BY <2>2, <2>3, <3>1
      <3>2. CASE phase = "write" /\ flash' \in Spoiled(eraseblocks[block_nr].eb)
        <4>1. \A b \in Blocks : eraseblocks[b].eb = eraseblocks[block_nr].eb => b = block_nr
          BY <2>1 DEF DecodeOK, HomesApart
        <4>2. ~(block_nr < block_nr)
          BY <2>1
        <4> HIDE DEF W
        <4> QED
          BY <1>4, <2>1, <2>2, <2>3, <3>2, <4>1, <4>2, ZenonT(30)
      <3> QED
        BY <1>6, <3>1, <3>2
    <2> HIDE DEF W
    <2>5. Done' = {b \in Blocks : b < block_nr}
      BY <1>2, <1>6, <2>4 DEF Done
    <2> QED
      BY <1>6, <2>5 DEF DoneOK
  <1> QED
    BY <1>3, <1>5, <1>6

(* The iterations of the receive loop. *)
LEMMA ReceiveMaps ==
    ASSUME IInv, dfails <= 1, DoneOK, DoneOK', NEW p \in Packets, Receive(p)
    PROVE  /\ Done' = Done
           /\ Status = "running" /\ Status' \in {"running", "stopped"}
  <1>1. phase = "recv"
    BY DEF Receive, FirstPacket, NextPacket, FatalPacket
  <1>2. block_nr = 0 /\ Done = {} /\ Status = "running" /\ TypeOK
    BY <1>1 DEF IInv, DoneOK, Status
  <1>3. ASSUME phase' \in {"recv", "decode"}, block_nr' = block_nr PROVE Done' = {}
    <2>1. \A b \in Blocks : ~(b < 0)
      BY DEF Blocks
    <2> QED
      BY <1>2, <1>3, <2>1 DEF DoneOK
  <1>4. ASSUME NEW ebs, NEW m, Process(p, ebs, m), ~FlushFailsExit(p, ebs, m)
        PROVE  phase' \in {"recv", "decode"} /\ block_nr' = block_nr
    BY <1>1, <1>4
    DEF Process, Discard, IgnoreExtra, BufferPacket, FlushPacket, FlushFailsRelocate,
        StoreAndLoop
  <1>5. ASSUME phase' \in {"recv", "decode"}, block_nr' = block_nr
        PROVE  Done' = Done /\ Status' = "running"
    BY <1>2, <1>3, <1>5 DEF Status
  <1>6. ASSUME phase' = "failed" PROVE Status' = "stopped"
    BY <1>6 DEF Status
  <1>7. CASE FirstPacket(p)
    <2>1. PICK h \in Allocations :
             Process(p, [b \in Blocks |-> Fresh(h[b])], h[NrBlocks - 1] + 1)
      BY <1>7, ZenonT(30) DEF FirstPacket
    <2> DEFINE ebs == [b \in Blocks |-> Fresh(h[b])]
    <2>2. ebs[p.block].wbuf_ofs = 0
      <3>1. p.block \in Blocks
        BY <1>7, RecvAssumption DEF FirstPacket, Packets, Blocks
      <3> QED
        BY <3>1 DEF Fresh
    <2>3. ~FlushFailsExit(p, ebs, h[NrBlocks - 1] + 1)
      <3> HIDE DEF ebs
      <3> QED
        BY <2>2, Sizes DEF FlushFailsExit
    <2> QED
      BY <1>2, <1>4, <1>5, <2>1, <2>3
  <1>8. CASE NextPacket(p)
    <2>1. /\ Process(p, eraseblocks, mtdoffset) /\ image_crc' = image_crc
          /\ p.block \in Blocks
      BY <1>8, RecvAssumption DEF NextPacket, Packets, Blocks
    <2>2. CASE FlushFailsExit(p, eraseblocks, mtdoffset)
      <3>1. /\ phase' = "failed" /\ flash' \in Spoiled(eraseblocks[p.block].eb)
            /\ eraseblocks' = eraseblocks /\ block_nr' = block_nr
        BY <2>2, ZenonT(30) DEF FlushFailsExit
      <3>2. Done' = Done
        BY <1>1, <2>1, <3>1, ExitMaps
      <3> QED
        BY <1>2, <1>6, <3>1, <3>2, ZenonT(30)
    <2>3. CASE ~FlushFailsExit(p, eraseblocks, mtdoffset)
      BY <1>2, <1>4, <1>5, <2>1, <2>3
    <2> QED
      BY <2>2, <2>3
  <1>9. CASE FatalPacket(p)
    <2>1. /\ phase' = "failed" /\ flash' = flash /\ image_crc' = image_crc
          /\ eraseblocks' = eraseblocks /\ block_nr' = block_nr
      BY <1>9 DEF FatalPacket, Exit1
    <2>2. Done' = Done
      BY <1>1, <2>1, ExitMaps
    <2> QED
      BY <1>2, <1>6, <2>1, <2>2
  <1> QED
    BY <1>7, <1>8, <1>9 DEF Receive

(* A decoded block is written: one more is installed, and the last one      *)
(* completes the image.                                                     *)
LEMMA WriteMaps ==
    ASSUME IInv, DoneOK, DoneOK', WriteBlock
    PROVE  /\ Status = "running"
           /\ \E b \in Blocks \ Done : Done' = Done \cup {b}
           /\ Status' = IF Done' = Blocks THEN "complete" ELSE "running"
  <1>1. /\ phase = "write" /\ Allocated /\ Allocated' /\ block_nr \in Blocks
        /\ \A b \in Blocks : b \in Int /\ b <= NrBlocks - 1
    BY DEF WriteBlock, IInv, TypeOK, Allocated, Blocks
  <1>2. Done = {b \in Blocks : b < block_nr} /\ Status = "running"
    BY <1>1 DEF DoneOK, Status
  <1>3. CASE block_nr = NrBlocks - 1
    <2>1. phase' = "done"
      BY <1>3 DEF WriteBlock, IsLast
    <2>2. Done' = Blocks /\ Status' = "complete"
      BY <1>1, <2>1 DEF DoneOK, Status
    <2>3. Blocks = Done \cup {block_nr} /\ block_nr \notin Done
      <3>1. \A b \in Blocks : b < block_nr \/ b = block_nr
        BY <1>1, <1>3, RecvAssumption
      <3>2. ~(block_nr < block_nr)
        BY <1>1
      <3> QED
        BY <1>1, <1>2, <3>1, <3>2, Zenon
    <2> QED
      BY <1>1, <1>2, <2>2, <2>3
  <1>4. CASE block_nr # NrBlocks - 1
    <2>1. phase' = "decode" /\ block_nr' = block_nr + 1
      BY <1>4 DEF WriteBlock, IsLast
    <2>2. Done' = {b \in Blocks : b < block_nr + 1} /\ Status' = "running"
      BY <1>1, <2>1 DEF DoneOK, Status
    <2>3. Done' = Done \cup {block_nr} /\ block_nr \notin Done
      BY <1>1, <1>2, <2>2
    <2>4. block_nr + 1 \in Blocks /\ block_nr + 1 \notin Done'
      BY <1>1, <1>4, <2>2, RecvAssumption DEF Blocks
    <2> QED
      BY <1>1, <1>2, <2>2, <2>3, <2>4
  <1> QED
    BY <1>3, <1>4

LEMMA StepMaps ==
    ASSUME IInv, dfails <= 1, DoneOK, DoneOK', [Next]_vars
    PROVE  [Delivery!Next]_<<Done, Status>>
  <1>1. ASSUME Done' = Done, Status' = Status PROVE [Delivery!Next]_<<Done, Status>>
    BY <1>1
  <1>2. ASSUME Done' = Done, Status = "running", Status' = "stopped"
        PROVE  Delivery!Next
    BY <1>2 DEF Delivery!Next, Delivery!GiveUp, Done, Status
  <1>3. ASSUME NEW p \in Packets, Receive(p) PROVE [Delivery!Next]_<<Done, Status>>
    BY <1>1, <1>2, <1>3, ReceiveMaps
  <1>4. CASE ReadError
    <2>1. /\ phase = "recv" /\ Allocated' = Allocated /\ block_nr' = block_nr
          /\ phase' = IF Allocated THEN "decode" ELSE "done"
      BY <1>4 DEF ReadError, Allocated
    <2>2. Done = {} /\ Status = "running" /\ block_nr = 0
      BY <2>1 DEF IInv, DoneOK, Status
    <2>3. Done' = {}
      <3>1. \A b \in Blocks : ~(b < 0)
        BY DEF Blocks
      <3> QED
        BY <2>1, <2>2, <3>1 DEF DoneOK
    <2>4. Status' = IF Allocated THEN "running" ELSE "stopped"
      BY <2>1 DEF Status
    <2> QED
      BY <1>1, <1>2, <2>2, <2>3, <2>4
  <1>5. CASE DecodeBlock \/ WriteBlockFails
    <2>1. /\ phase \in {"decode", "write"} /\ phase' \in {"decode", "write"}
          /\ block_nr' = block_nr
      BY <1>5 DEF DecodeBlock, WriteBlockFails
    <2>2. Done' = Done /\ Status' = Status
      BY <2>1 DEF DoneOK, Status
    <2> QED
      BY <1>1, <2>2
  <1>6. CASE DecodeFails \/ WriteBlockExit
    <2>1. /\ phase' = "failed" /\ image_crc' = image_crc /\ eraseblocks' = eraseblocks
          /\ block_nr' = block_nr
          /\ \/ phase = "decode" /\ flash' = flash
             \/ phase = "write" /\ flash' \in Spoiled(eraseblocks[block_nr].eb)
      BY <1>6 DEF DecodeFails, WriteBlockExit, Exit1
    <2>2. Done' = Done
      BY <2>1, ExitMaps
    <2>3. Status = "running" /\ Status' = "stopped"
      BY <2>1 DEF Status
    <2> QED
      BY <1>2, <2>2, <2>3
  <1>7. CASE WriteBlock
    <2>1. /\ Status = "running"
          /\ \E b \in Blocks \ Done : Done' = Done \cup {b}
          /\ Status' = IF Done' = Blocks THEN "complete" ELSE "running"
      BY <1>7, WriteMaps
    <2> QED
      BY <2>1, Zenon DEF Delivery!Next, Delivery!Install, Done, Status
  <1>8. CASE UNCHANGED vars
    <2>1. Done' = Done /\ Status' = Status
      BY <1>8 DEF vars, Done, Installed, Written, Allocated, Status
    <2> QED
      BY <1>1, <2>1
  <1> QED
    BY <1>3, <1>4, <1>5, <1>6, <1>7, <1>8, Zenon DEF Next, Decode, Terminated

(* recv_image (recv_image.c:159-484) keeps the promise of ImageDelivery:    *)
(* blocks are installed one by one, an installed block is never lost, not   *)
(* even when the program gives up, and it ends well only with the whole     *)
(* image.  At most one write of decoded data may fail: with two the promise *)
(* is broken (AllDelivered).                                                *)
THEOREM ReceiverDelivers ==
    ASSUME MaxDecodeFails <= 1
    PROVE  Spec => DeliverySpec
  <1>1. Init => Delivery!Init
    BY DEF Init, Delivery!Init, Installed, Allocated
  <1>2. IInv /\ dfails <= MaxDecodeFails => dfails <= 1
    BY RecvAssumption DEF IInv, TypeOK
  <1>3. IInv /\ dfails <= 1 /\ DoneOK /\ DoneOK' /\ [Next]_vars =>
           [Delivery!Next]_<<{b \in Blocks : Installed(b)},
              IF phase = "done" /\ Allocated THEN "complete"
              ELSE IF phase \in {"done", "failed"} THEN "stopped" ELSE "running">>
    BY StepMaps DEF Done, Status
  <1> QED
    BY <1>1, <1>2, <1>3, Invariance, MovesBounded, DoneFacts, PTL
    DEF Spec, DeliverySpec, Delivery!Spec
=============================================================================
