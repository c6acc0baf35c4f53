-------------------------- MODULE RecvLoop_proofs ---------------------------
(***************************************************************************)
(* The receive loop keeps the inductive invariant of the receiver, for     *)
(* every size of packets and eraseblocks: the arithmetic of packets and    *)
(* cells, what one more packet, one more cell or a move to another         *)
(* eraseblock does to a block and to its neighbours, and then the loop.    *)
(***************************************************************************)
EXTENDS RecvImage, TLAPS

(* A minute for every leaf that does not name a prover. *)
USE SMTT(60)

(* Integer division, as the provers know it. *)
LEMMA DivBounds ==
    ASSUME NEW a \in Nat, NEW d \in Nat, d > 0
    PROVE  /\ a \div d \in Nat
           /\ (a \div d) * d <= a
           /\ a < (a \div d) * d + d
  BY Z3

(* pkts_per_block packets fill the cells of an eraseblock, and no more. *)
LEMMA KBounds ==
    /\ pkts_per_block \in Nat
    /\ pkts_per_block * PktSize >= Cells * WbufSize
    /\ pkts_per_block * PktSize < Cells * WbufSize + PktSize
    /\ PktSize \in Nat /\ PktSize > 0 /\ WbufSize \in Nat /\ PktSize < WbufSize
    /\ Cells \in Nat /\ Cells > 0
  <1> DEFINE a == Cells * WbufSize + PktSize - 1
  <1>1. /\ PktSize \in Nat /\ PktSize > 0 /\ WbufSize \in Nat
        /\ PktSize < WbufSize /\ Cells \in Nat /\ Cells > 0
    BY RecvAssumption
  <1>2. a \in Nat
    BY <1>1
  <1>3. pkts_per_block = a \div PktSize
    BY DEF pkts_per_block, EraseSize
  <1> HIDE DEF a
  <1>4. /\ a \div PktSize \in Nat
        /\ (a \div PktSize) * PktSize <= a
        /\ a < (a \div PktSize) * PktSize + PktSize
    BY <1>1, <1>2, DivBounds
  <1>5. Cells * WbufSize \in Nat /\ a = Cells * WbufSize + PktSize - 1
    BY <1>1 DEF a
  <1> QED
    BY <1>1, <1>2, <1>3, <1>4, <1>5

(* The sizes are numbers, and one packet fits in the write buffer. *)
LEMMA Sizes ==
    /\ PktSize \in Nat /\ PktSize > 0 /\ WbufSize \in Nat /\ PktSize < WbufSize
    /\ Cells \in Nat /\ Cells > 0
    /\ pkts_per_block \in Nat
  BY KBounds

(* Multiplication is monotonic. *)
LEMMA MulMono ==
    ASSUME NEW a \in Nat, NEW b \in Nat, NEW w \in Nat, a <= b
    PROVE  a * w <= b * w
  BY Z3

(* A block that holds n packets has filled no more cells than there are,   *)
(* fewer while packets are missing, and all of them once it is complete.   *)
LEMMA CellsFilled ==
    ASSUME NEW n \in Nat, NEW cell \in Nat, NEW ofs \in 0 .. WbufSize - 1,
           n * PktSize = cell * WbufSize + ofs
    PROVE  /\ n <= pkts_per_block => cell <= Cells
           /\ n < pkts_per_block => cell < Cells
           /\ n = pkts_per_block => cell = Cells
  <1> USE KBounds
  <1>0. /\ Cells * WbufSize \in Nat /\ cell * WbufSize \in Nat
        /\ n * PktSize \in Nat /\ pkts_per_block * PktSize \in Nat
    OBVIOUS
  <1>1. ASSUME n <= pkts_per_block PROVE cell <= Cells
    <2>1. n * PktSize <= pkts_per_block * PktSize
      BY <1>1, MulMono
    <2>2. SUFFICES ASSUME Cells + 1 <= cell PROVE FALSE
      OBVIOUS
    <2>3. (Cells + 1) * WbufSize <= cell * WbufSize
      BY <2>2, MulMono
    <2>4. (Cells + 1) * WbufSize = Cells * WbufSize + WbufSize
      OBVIOUS
    <2> HIDE DEF pkts_per_block
    <2> QED
      BY <1>0, <2>1, <2>3, <2>4
  <1>2. ASSUME n < pkts_per_block PROVE cell < Cells
    <2>1. (n + 1) * PktSize <= pkts_per_block * PktSize
      BY <1>2, MulMono
    <2>2. (n + 1) * PktSize = n * PktSize + PktSize
      OBVIOUS
    <2>3. SUFFICES ASSUME Cells <= cell PROVE FALSE
      OBVIOUS
    <2>4. Cells * WbufSize <= cell * WbufSize
      BY <2>3, MulMono
    <2> QED
      BY <1>0, <2>1, <2>2, <2>4
  <1>3. ASSUME n = pkts_per_block PROVE cell = Cells
    <2>1. SUFFICES ASSUME cell + 1 <= Cells PROVE FALSE
      BY <1>1, <1>3
    <2>2. (cell + 1) * WbufSize <= Cells * WbufSize
      BY <2>1, MulMono
    <2>3. (cell + 1) * WbufSize = cell * WbufSize + WbufSize
      OBVIOUS
    <2> QED
      BY <1>0, <1>3, <2>2, <2>3
  <1> QED
    BY <1>1, <1>2, <1>3

(* One more packet, in the write buffer or with a cell written out. *)
LEMMA StreamStep ==
    ASSUME NEW n \in Nat, NEW cell \in Nat, NEW ofs \in Nat,
           n * PktSize = cell * WbufSize + ofs
    PROVE  /\ (n + 1) * PktSize = cell * WbufSize + (ofs + PktSize)
           /\ (n + 1) * PktSize =
                (cell + 1) * WbufSize + (PktSize - (WbufSize - ofs))
  BY Sizes

-----------------------------------------------------------------------------
(* The blocks in store, as the receive loop changes them. *)

(* Appending a packet that is not there yet. *)
LEMMA AppendFacts ==
    ASSUME NEW s \in Seq(Pkts), NEW x \in Pkts
    PROVE  /\ Append(s, x) \in Seq(Pkts)
           /\ Len(Append(s, x)) = Len(s) + 1
           /\ \A i \in 1 .. Len(s) : Append(s, x)[i] = s[i]
           /\ Append(s, x)[Len(s) + 1] = x
           /\ Len(s) \in Nat
           /\ DOMAIN s = 1 .. Len(s)
           /\ DOMAIN Append(s, x) = 1 .. Len(s) + 1
  OBVIOUS

(* A sequence without repetitions stays so when a new element is added. *)
LEMMA AppendDistinct ==
    ASSUME NEW s \in Seq(Pkts), NEW x \in Pkts, Distinct(s),
           \A i \in DOMAIN s : s[i] # x
    PROVE  Distinct(Append(s, x))
  BY AppendFacts DEF Distinct

(* The same for the struct of a block. *)
LEMMA AlignedFacts ==
    ASSUME NEW e \in Eraseblock, Aligned(e)
    PROVE  /\ Len(e.pkt_indices) < pkts_per_block => e.cell < Cells
           /\ Len(e.pkt_indices) = pkts_per_block => e.cell = Cells
  <1>1. /\ Len(e.pkt_indices) \in Nat /\ e.cell \in Nat
        /\ e.wbuf_ofs \in 0 .. WbufSize - 1
    BY Sizes DEF Eraseblock
  <1> QED
    BY <1>1, CellsFilled DEF Aligned

(* How far a block has got: the write buffer lies within the stream of packets. *)
LEMMA OffsetFacts ==
    ASSUME NEW e \in Eraseblock
    PROVE  /\ e.cell \in 0 .. Cells
           /\ e.cell < Cells => e.cell + 1 \in 0 .. Cells
           /\ e.wbuf_ofs + PktSize < WbufSize =>
                e.wbuf_ofs + PktSize \in 0 .. WbufSize - 1
           /\ e.wbuf_ofs + PktSize >= WbufSize =>
                LeftOver(e.wbuf_ofs) \in 0 .. WbufSize - 1
  <1>1. e.cell \in 0 .. Cells /\ e.wbuf_ofs \in 0 .. WbufSize - 1
    BY DEF Eraseblock
  <1>2. e.cell < Cells => e.cell + 1 \in 0 .. Cells
    BY <1>1, Sizes
  <1>3. e.wbuf_ofs + PktSize < WbufSize =>
          e.wbuf_ofs + PktSize \in 0 .. WbufSize - 1
    BY <1>1, Sizes
  <1>4. e.wbuf_ofs + PktSize >= WbufSize =>
          LeftOver(e.wbuf_ofs) \in 0 .. WbufSize - 1
    BY <1>1, Sizes DEF LeftOver
  <1> QED
    BY <1>1, <1>2, <1>3, <1>4

(* A block that buffers one more packet stays aligned. *)
LEMMA BufferAligned ==
    ASSUME NEW e \in Eraseblock, NEW e2, Aligned(e),
           Len(e2.pkt_indices) = Len(e.pkt_indices) + 1,
           e2.cell = e.cell, e2.wbuf_ofs = e.wbuf_ofs + PktSize
    PROVE  Aligned(e2)
  <1>1. Len(e.pkt_indices) \in Nat /\ e.cell \in Nat /\ e.wbuf_ofs \in Nat
    BY Sizes DEF Eraseblock
  <1> QED
    BY <1>1, StreamStep DEF Aligned

(* A block that writes out its buffer with one more packet stays aligned. *)
LEMMA FlushAligned ==
    ASSUME NEW e \in Eraseblock, NEW e2, Aligned(e),
           Len(e2.pkt_indices) = Len(e.pkt_indices) + 1,
           e2.cell = e.cell + 1, e2.wbuf_ofs = LeftOver(e.wbuf_ofs)
    PROVE  Aligned(e2)
  <1>1. Len(e.pkt_indices) \in Nat /\ e.cell \in Nat /\ e.wbuf_ofs \in Nat
    BY Sizes DEF Eraseblock
  <1> QED
    BY <1>1, StreamStep DEF Aligned, LeftOver

(* A slice written for a prefix of the packets is a slice of them all. *)
LEMMA SliceOfMore ==
    ASSUME NEW s \in Seq(Pkts), NEW x \in Pkts, NEW content, NEW img, NEW b,
           NEW c, HoldsSlice(content, img, b, c, s)
    PROVE  HoldsSlice(content, img, b, c, Append(s, x))
  <1>1. content.pkts \in Seq(Pkts)
    BY DEF HoldsSlice, RawContents
  <1>2. Len(content.pkts) \in Nat
    BY <1>1
  <1> QED
    BY <1>1, <1>2, AppendFacts DEF HoldsSlice, SamePrefix

(* A block on a part of the flash that does not change stays as it is. *)
LEMMA BlockStable ==
    ASSUME NEW fl, NEW fl2, NEW img, NEW b, NEW e, BlockOK(fl, img, b, e),
           e.eb \in EbNumbers => fl2[e.eb] = fl[e.eb]
    PROVE  BlockOK(fl2, img, b, e)
  BY DEF BlockOK

(* One block changes, with its eraseblock only; all the others keep apart. *)
LEMMA StoreUpdate ==
    ASSUME NEW fl, NEW fl2, NEW img, NEW ebs \in [Blocks -> Eraseblock],
           NEW m \in Nat, NEW b \in Blocks, NEW e \in Eraseblock,
           StoreOK(fl, img, ebs, m),
           e.eb = ebs[b].eb,
           \A eb \in EbNumbers : eb # e.eb => fl2[eb] = fl[eb],
           BlockOK(fl2, img, b, e)
    PROVE  StoreOK(fl2, img, [ebs EXCEPT ![b] = e], m)
  <1> DEFINE new == [ebs EXCEPT ![b] = e]
  <1>1. /\ new[b] = e
        /\ \A a \in Blocks : a # b => new[a] = ebs[a]
        /\ \A a \in Blocks : new[a].eb = ebs[a].eb
    OBVIOUS
  <1>2. e.eb \in Nat /\ e.eb < m
    BY DEF StoreOK, HomesBelow, Eraseblock
  <1> HIDE DEF new
  <1>3. HomesApart(new) /\ HomesGood(new) /\ HomesBelow(new, m)
    BY <1>1 DEF StoreOK, HomesApart, HomesGood, HomesBelow
  <1>4. FreshFrom(fl2, m)
    BY <1>2 DEF StoreOK, FreshFrom, EbNumbers
  <1>5. ASSUME NEW a \in Blocks PROVE BlockOK(fl2, img, a, new[a])
    <2>1. CASE a = b
      BY <1>1, <2>1
    <2>2. CASE a # b
      <3>1. BlockOK(fl, img, a, ebs[a]) /\ ebs[a].eb # e.eb
        BY <2>2 DEF StoreOK, HomesApart
      <3> QED
        BY <1>1, <2>2, <3>1, BlockStable
    <2> QED
      BY <2>1, <2>2
  <1>6. new = [ebs EXCEPT ![b] = e]
    BY DEF new
  <1> QED
    BY <1>3, <1>4, <1>5, <1>6 DEF StoreOK

(* The struct of a block with one more packet. *)
IsWith(e2, e, p, cell, wbuf_ofs) ==
    /\ e2 \in Eraseblock
    /\ e2.eb = e.eb /\ e2.cell = cell /\ e2.wbuf_ofs = wbuf_ofs
    /\ e2.nr_pkts = e.nr_pkts + 1
    /\ e2.pkt_indices = Append(e.pkt_indices, p.pkt)

(* The struct of a block with one more packet, field by field. *)
LEMMA WithPacketFacts ==
    ASSUME NEW e \in Eraseblock, NEW p \in Packets, NEW cell \in 0 .. Cells,
           NEW ofs \in 0 .. WbufSize - 1
    PROVE  IsWith(WithPacket(e, p, cell, ofs), e, p, cell, ofs)
  <1>1. /\ e.eb \in Nat /\ e.nr_pkts + 1 \in Nat /\ p.pkt \in Pkts
        /\ Append(e.pkt_indices, p.pkt) \in Seq(Pkts)
    BY DEF Eraseblock, Packets
  <1> QED
    BY <1>1 DEF IsWith, WithPacket, Eraseblock

(* The packet list of such a block. *)
LEMMA PacketListFacts ==
    ASSUME NEW fl, NEW img, NEW b, NEW e \in Eraseblock, NEW p \in Packets,
           BlockOK(fl, img, b, e), e.nr_pkts < pkts_per_block,
           ~IsDuplicate(e, p), NEW cell, NEW ofs, NEW e2,
           IsWith(e2, e, p, cell, ofs)
    PROVE  /\ Distinct(e2.pkt_indices) /\ Aligned(e)
           /\ Len(e2.pkt_indices) = Len(e.pkt_indices) + 1
           /\ Len(e2.pkt_indices) = IF e2.nr_pkts < pkts_per_block
                                    THEN e2.nr_pkts ELSE pkts_per_block
           /\ e.cell < Cells
  <1>1. e.pkt_indices \in Seq(Pkts) /\ p.pkt \in Pkts /\ e.nr_pkts \in Nat
    BY DEF Eraseblock, Packets
  <1>2. Distinct(e.pkt_indices) /\ Len(e.pkt_indices) = e.nr_pkts /\ Aligned(e)
    BY DEF BlockOK
  <1>3. Distinct(e2.pkt_indices)
    BY <1>1, <1>2, AppendDistinct DEF IsWith, IsDuplicate
  <1>4. Len(e2.pkt_indices) = Len(e.pkt_indices) + 1
    BY <1>1, AppendFacts DEF IsWith
  <1>5. e.cell < Cells
    BY <1>2, AlignedFacts
  <1>6. e2.nr_pkts = e.nr_pkts + 1
    BY DEF IsWith
  <1> QED
    BY <1>1, <1>2, <1>3, <1>4, <1>5, <1>6, Sizes

(* What the cells written before hold is still a slice of the packets. *)
LEMMA CellsKept ==
    ASSUME NEW fl, NEW img, NEW b, NEW e \in Eraseblock, NEW p \in Packets,
           BlockOK(fl, img, b, e), e.eb \in EbNumbers,
           NEW c \in CellNumbers
    PROVE  /\ c < e.cell =>
                HoldsSlice(fl[e.eb][c], img, b, c, Append(e.pkt_indices, p.pkt))
           /\ ~(c < e.cell) => fl[e.eb][c] = Erased
  <1>1. e.pkt_indices \in Seq(Pkts) /\ p.pkt \in Pkts
    BY DEF Eraseblock, Packets
  <1> QED
    BY <1>1, SliceOfMore DEF BlockOK

(* The packet goes into the write buffer. *)
LEMMA BufferBlock ==
    ASSUME NEW fl, NEW img, NEW b, NEW e \in Eraseblock, NEW p \in Packets,
           BlockOK(fl, img, b, e), e.nr_pkts < pkts_per_block,
           ~IsDuplicate(e, p), NEW e2,
           IsWith(e2, e, p, e.cell, e.wbuf_ofs + PktSize)
    PROVE  BlockOK(fl, img, b, e2)
  <1>1. /\ e2.eb = e.eb /\ e2.cell = e.cell
        /\ e2.wbuf_ofs = e.wbuf_ofs + PktSize
        /\ e2.pkt_indices = Append(e.pkt_indices, p.pkt)
    BY DEF IsWith
  <1>2. /\ Distinct(e2.pkt_indices) /\ Aligned(e)
        /\ Len(e2.pkt_indices) = Len(e.pkt_indices) + 1
        /\ Len(e2.pkt_indices) = IF e2.nr_pkts < pkts_per_block
                                 THEN e2.nr_pkts ELSE pkts_per_block
    BY PacketListFacts
  <1>3. Aligned(e2)
    BY <1>1, <1>2, BufferAligned
  <1>4. ASSUME e2.eb \in EbNumbers, NEW c \in CellNumbers
        PROVE  IF c < e2.cell THEN HoldsSlice(fl[e2.eb][c], img, b, c, e2.pkt_indices)
                              ELSE fl[e2.eb][c] = Erased
    BY <1>1, <1>4, CellsKept
  <1>5. e2.cell > 0 => e2.eb \in EbNumbers
    BY <1>1 DEF BlockOK
  <1> QED
    BY <1>2, <1>3, <1>4, <1>5 DEF BlockOK

(* Writing a slice of the packets to a cell that is still erased. *)
LEMMA WriteSlice ==
    ASSUME NEW fl \in [EbNumbers -> [CellNumbers -> Contents]], NEW img \in Images,
           NEW b \in Blocks, NEW eb \in EbNumbers, NEW c \in CellNumbers,
           NEW pkts \in Seq(Pkts), fl[eb][c] = Erased,
           NEW fl2, fl2 = WriteCell(fl, eb, c, Raw(img, b, c, pkts))
    PROVE  /\ fl2 \in [EbNumbers -> [CellNumbers -> Contents]]
           /\ \A a \in EbNumbers : a # eb => fl2[a] = fl[a]
           /\ HoldsSlice(fl2[eb][c], img, b, c, pkts)
           /\ \A k \in CellNumbers : k # c => fl2[eb][k] = fl[eb][k]
  <1> DEFINE raw == Raw(img, b, c, pkts)
  <1>1. raw \in RawContents /\ Programmed(fl[eb][c], raw) = raw
    BY DEF Raw, RawContents, Programmed
  <1>2. HoldsSlice(raw, img, b, c, pkts)
    BY <1>1 DEF HoldsSlice, SamePrefix, Raw
  <1>3. fl[eb] \in [CellNumbers -> Contents] /\ raw \in Contents
    BY <1>1 DEF Contents
  <1>4. fl2 = [fl EXCEPT ![eb] = [fl[eb] EXCEPT ![c] = raw]]
    BY <1>1 DEF WriteCell
  <1> HIDE DEF raw
  <1>5. /\ fl2 \in [EbNumbers -> [CellNumbers -> Contents]]
        /\ \A a \in EbNumbers : a # eb => fl2[a] = fl[a]
        /\ fl2[eb][c] = raw
        /\ \A k \in CellNumbers : k # c => fl2[eb][k] = fl[eb][k]
    BY <1>3, <1>4
  <1> QED
    BY <1>2, <1>5

(* The write buffer goes to the next cell, which is still erased. *)
Flushed(fl, img, b, e, p) ==
    WriteCell(fl, e.eb, e.cell, Raw(img, b, e.cell, Append(e.pkt_indices, p.pkt)))

IsFlushed(e2, e, p) == IsWith(e2, e, p, e.cell + 1, LeftOver(e.wbuf_ofs))

(* A block whose buffer has gone to the next cell is in order. *)
LEMMA FlushBlock ==
    ASSUME NEW fl \in [EbNumbers -> [CellNumbers -> Contents]], NEW img \in Images,
           NEW b \in Blocks, NEW e \in Eraseblock, NEW p \in Packets,
           BlockOK(fl, img, b, e), e.nr_pkts < pkts_per_block,
           ~IsDuplicate(e, p), e.eb \in EbNumbers, NEW e2,
           IsFlushed(e2, e, p)
    PROVE  /\ BlockOK(Flushed(fl, img, b, e, p), img, b, e2)
           /\ Flushed(fl, img, b, e, p) \in [EbNumbers -> [CellNumbers -> Contents]]
           /\ \A eb \in EbNumbers :
                 eb # e.eb => Flushed(fl, img, b, e, p)[eb] = fl[eb]
  <1> DEFINE idx == Append(e.pkt_indices, p.pkt)
             fl2 == Flushed(fl, img, b, e, p)
  <1>1. /\ e2.eb = e.eb /\ e2.cell = e.cell + 1
        /\ e2.wbuf_ofs = LeftOver(e.wbuf_ofs) /\ e2.pkt_indices = idx
    BY DEF IsWith, IsFlushed
  <1>2. /\ Distinct(e2.pkt_indices) /\ Aligned(e)
        /\ Len(e2.pkt_indices) = Len(e.pkt_indices) + 1
        /\ Len(e2.pkt_indices) = IF e2.nr_pkts < pkts_per_block
                                 THEN e2.nr_pkts ELSE pkts_per_block
        /\ e.cell < Cells
    BY PacketListFacts DEF IsFlushed
  <1>3. e.cell \in Nat /\ idx \in Seq(Pkts)
    BY Sizes DEF Eraseblock, Packets
  <1>4. e.cell \in CellNumbers
    BY <1>2, <1>3, Sizes DEF CellNumbers
  <1>5. \A c \in CellNumbers :
           /\ c < e.cell => HoldsSlice(fl[e.eb][c], img, b, c, idx)
           /\ ~(c < e.cell) => fl[e.eb][c] = Erased
    BY CellsKept
  <1>11. fl2 = WriteCell(fl, e.eb, e.cell, Raw(img, b, e.cell, idx))
    BY DEF Flushed
  <1> HIDE DEF idx, fl2
  <1>6. fl[e.eb][e.cell] = Erased
    BY <1>3, <1>4, <1>5
  <1>7. /\ fl2 \in [EbNumbers -> [CellNumbers -> Contents]]
        /\ \A a \in EbNumbers : a # e.eb => fl2[a] = fl[a]
        /\ HoldsSlice(fl2[e.eb][e.cell], img, b, e.cell, idx)
        /\ \A k \in CellNumbers : k # e.cell => fl2[e.eb][k] = fl[e.eb][k]
    BY <1>3, <1>4, <1>6, <1>11, WriteSlice
  <1>8. Aligned(e2)
    BY <1>1, <1>2, FlushAligned
  <1>9. ASSUME NEW c \in CellNumbers
        PROVE  IF c < e2.cell THEN HoldsSlice(fl2[e2.eb][c], img, b, c, e2.pkt_indices)
                              ELSE fl2[e2.eb][c] = Erased
    <2>1. c \in Nat
      BY DEF CellNumbers
    <2> QED
      BY <1>1, <1>3, <1>5, <1>7, <2>1
  <1>10. e2.eb \in EbNumbers
    BY <1>1
  <1> QED
    <2>1. BlockOK(fl2, img, b, e2)
      BY <1>2, <1>8, <1>9, <1>10 DEF BlockOK
    <2> QED
      BY <1>7, <2>1 DEF fl2

(* A block that has not got any packet yet. *)
LEMMA FreshFacts ==
    ASSUME NEW eb \in Nat
    PROVE  /\ Fresh(eb) \in Eraseblock
           /\ Fresh(eb).eb = eb /\ Fresh(eb).cell = 0 /\ Fresh(eb).wbuf_ofs = 0
           /\ Fresh(eb).nr_pkts = 0 /\ Fresh(eb).pkt_indices = << >>
  <1>1. Fresh(eb) \in Eraseblock
    BY Sizes DEF Fresh, Eraseblock
  <1> QED
    BY <1>1 DEF Fresh

(* Such a block is in order on an eraseblock that is still erased. *)
LEMMA FreshBlock ==
    ASSUME NEW fl, NEW img, NEW b, NEW eb \in Nat,
           eb \in EbNumbers => \A c \in CellNumbers : fl[eb][c] = Erased
    PROVE  BlockOK(fl, img, b, Fresh(eb))
  <1> DEFINE e == Fresh(eb)
  <1>1. /\ e.eb = eb /\ e.cell = 0 /\ e.wbuf_ofs = 0
        /\ e.nr_pkts = 0 /\ e.pkt_indices = << >>
    BY FreshFacts
  <1> HIDE DEF e
  <1>2. Len(e.pkt_indices) = 0 /\ DOMAIN e.pkt_indices = {}
    BY <1>1
  <1>3. Distinct(e.pkt_indices)
    BY <1>2 DEF Distinct
  <1>4. Aligned(e)
    BY <1>1, <1>2, Sizes DEF Aligned
  <1>5. \A c \in CellNumbers : ~(c < e.cell)
    BY <1>1 DEF CellNumbers
  <1>6. BlockOK(fl, img, b, e)
    BY <1>1, <1>2, <1>3, <1>4, <1>5, Sizes DEF BlockOK
  <1> QED
    BY <1>6 DEF e

(* The first packet of a block on another eraseblock. *)
LEMMA FirstOfBlock ==
    ASSUME NEW fl, NEW p \in Packets, p.block \in Blocks, NEW n \in Nat,
           n \in EbNumbers => \A c \in CellNumbers : fl[n][c] = Erased,
           NEW e2, e2 = WithPacket(Fresh(n), p, 0, PktSize),
           0 < pkts_per_block
    PROVE  e2 \in Eraseblock /\ e2.eb = n /\ BlockOK(fl, p.img, p.block, e2)
  <1> DEFINE e == Fresh(n)
  <1>1. BlockOK(fl, p.img, p.block, e)
    BY FreshBlock
  <1>2. /\ e \in Eraseblock /\ e.eb = n /\ e.cell = 0 /\ e.wbuf_ofs = 0
        /\ e.nr_pkts = 0 /\ e.pkt_indices = << >>
    BY FreshFacts
  <1>3. e2 = WithPacket(e, p, 0, PktSize)
    OBVIOUS
  <1> HIDE DEF e
  <1>4. /\ 0 \in 0 .. Cells /\ PktSize \in 0 .. WbufSize - 1
        /\ 0 + PktSize = PktSize /\ 0 < pkts_per_block
    BY Sizes
  <1>5. IsWith(e2, e, p, 0, PktSize)
    <2>1. IsWith(WithPacket(e, p, 0, PktSize), e, p, 0, PktSize)
      BY <1>2, <1>4, WithPacketFacts
    <2> QED
      BY <1>3, <2>1
  <1>6. IsWith(e2, e, p, e.cell, e.wbuf_ofs + PktSize)
    BY <1>2, <1>4, <1>5
  <1>7. ~IsDuplicate(e, p) /\ e.nr_pkts < pkts_per_block
    BY <1>2, <1>4 DEF IsDuplicate
  <1>8. BlockOK(fl, p.img, p.block, e2)
    BY <1>1, <1>2, <1>6, <1>7, BufferBlock
  <1> QED
    BY <1>2, <1>5, <1>8 DEF IsWith

(* A block moves to the eraseblock n, its old eraseblock is erased. *)
LEMMA StoreMove ==
    ASSUME NEW fl, NEW fl2, NEW img, NEW ebs \in [Blocks -> Eraseblock],
           NEW m \in Nat, NEW b \in Blocks, NEW e \in Eraseblock, NEW n \in Nat,
           StoreOK(fl, img, ebs, m), e.eb = n, m <= n, n \notin bad,
           NEW m2 \in Nat, m2 = n + 1,
           \A eb \in EbNumbers : eb # ebs[b].eb => fl2[eb] = fl[eb],
           BlockOK(fl2, img, b, e)
    PROVE  StoreOK(fl2, img, [ebs EXCEPT ![b] = e], m2)
  <1> DEFINE new == [ebs EXCEPT ![b] = e]
  <1>1. /\ new[b] = e
        /\ \A a \in Blocks : a # b => new[a] = ebs[a]
    OBVIOUS
  <1>2. new = [ebs EXCEPT ![b] = e]
    OBVIOUS
  <1>3. \A a \in Blocks : ebs[a].eb \in Nat /\ ebs[a].eb < m
    BY DEF StoreOK, HomesBelow, Eraseblock
  <1> HIDE DEF new
  <1>4. \A a \in Blocks : a # b => new[a].eb < n /\ new[a].eb # n
    BY <1>1, <1>3
  <1>5. HomesApart(new)
    BY <1>1, <1>4 DEF StoreOK, HomesApart
  <1>6. HomesGood(new)
    BY <1>1 DEF StoreOK, HomesGood
  <1>7. HomesBelow(new, m2)
    BY <1>1, <1>3 DEF HomesBelow
  <1>8. FreshFrom(fl2, m2)
    <2>1. ASSUME NEW eb \in EbNumbers, eb >= m2 PROVE eb >= m /\ eb # ebs[b].eb
      BY <1>3, <2>1 DEF EbNumbers
    <2> QED
      BY <2>1 DEF StoreOK, FreshFrom
  <1>9. ASSUME NEW a \in Blocks PROVE BlockOK(fl2, img, a, new[a])
    <2>1. CASE a = b
      BY <1>1, <2>1
    <2>2. CASE a # b
      <3>1. BlockOK(fl, img, a, ebs[a]) /\ ebs[a].eb # ebs[b].eb
        BY <2>2 DEF StoreOK, HomesApart
      <3> QED
        BY <1>1, <2>2, <3>1, BlockStable
    <2> QED
      BY <2>1, <2>2
  <1> QED
    BY <1>2, <1>5, <1>6, <1>7, <1>8, <1>9 DEF StoreOK

-----------------------------------------------------------------------------
(* The device. *)

FlashType == [EbNumbers -> [CellNumbers -> Contents]]

(* An erased eraseblock, on a device of the right type. *)
LEMMA EraseFacts ==
    ASSUME TypeOK, NEW eb \in EbNumbers
    PROVE  /\ EraseBlock(eb) \in FlashType
           /\ \A a \in EbNumbers : a # eb => EraseBlock(eb)[a] = flash[a]
           /\ \A c \in CellNumbers : EraseBlock(eb)[eb][c] = Erased
  <1>1. [c \in CellNumbers |-> Erased] \in [CellNumbers -> Contents]
    BY DEF Contents
  <1>2. flash \in [EbNumbers -> [CellNumbers -> Contents]]
    BY DEF TypeOK
  <1> QED
    BY <1>1, <1>2 DEF EraseBlock, FlashType

(* An eraseblock whose write or erase failed. *)
LEMMA SpoiledFacts ==
    ASSUME TypeOK, NEW eb, NEW fl \in Spoiled(eb)
    PROVE  fl \in FlashType
  <1>1. PICK x \in {Erased, Garbage} :
           fl = [flash EXCEPT ![eb] = [c \in CellNumbers |-> x]]
    BY DEF Spoiled
  <1>2. [c \in CellNumbers |-> x] \in [CellNumbers -> Contents]
    BY <1>1 DEF Contents
  <1>3. flash \in [EbNumbers -> [CellNumbers -> Contents]]
    BY DEF TypeOK
  <1> QED
    BY <1>1, <1>2, <1>3, ZenonT(30) DEF FlashType

-----------------------------------------------------------------------------
(* The body of the receive loop. *)

(* The step ends with blocks in store for image img. *)
StoredFor(img) ==
    /\ phase' \in {"recv", "decode"}
    /\ eraseblocks' \in [Blocks -> Eraseblock]
    /\ mtdoffset' \in Nat /\ total_pkts' \in Int
    /\ flash' \in FlashType /\ wfails' \in Nat
    /\ StoreOK(flash', img, eraseblocks', mtdoffset')

(* A packet beyond pkts_per_block is counted, and ignored. *)
LEMMA IgnoreExtraOK ==
    ASSUME TypeOK, NEW p \in Packets, p.block \in Blocks, phase = "recv",
           NEW STATE ebs, ebs \in [Blocks -> Eraseblock],
           NEW STATE m, m \in Nat,
           StoreOK(flash, p.img, ebs, m),
           ebs[p.block].nr_pkts >= pkts_per_block,
           IgnoreExtra(p, ebs, m)
    PROVE  StoredFor(p.img)
  <1> DEFINE b == p.block
             e == ebs[p.block]
             e2 == Counted(e)
  <1>0. b \in Blocks
    OBVIOUS
  <1>1. e \in Eraseblock
    OBVIOUS
  <1>2. BlockOK(flash, p.img, b, e)
    BY DEF StoreOK
  <1>3. /\ eraseblocks' = [ebs EXCEPT ![b] = e2]
        /\ mtdoffset' = m /\ phase' = phase /\ total_pkts' = total_pkts
        /\ flash' = flash /\ wfails' = wfails
    BY DEF IgnoreExtra, Discard
  <1>4. e.nr_pkts >= pkts_per_block
    OBVIOUS
  <1> HIDE DEF b, e
  <1>5. /\ e2 \in Eraseblock /\ e2.eb = e.eb /\ e2.cell = e.cell
        /\ e2.wbuf_ofs = e.wbuf_ofs /\ e2.pkt_indices = e.pkt_indices
        /\ e2.nr_pkts = e.nr_pkts + 1 /\ e.nr_pkts \in Nat
    BY <1>1 DEF Counted, Eraseblock
  <1> HIDE DEF e2
  <1>6. BlockOK(flash, p.img, b, e2)
    <2>1. ~(e.nr_pkts < pkts_per_block) /\ ~(e2.nr_pkts < pkts_per_block)
      BY <1>4, <1>5, Sizes
    <2> QED
      BY <1>2, <1>5, <2>1 DEF BlockOK, Aligned
  <1>7. StoreOK(flash, p.img, [ebs EXCEPT ![b] = e2], m)
    BY <1>0, <1>5, <1>6, StoreUpdate, ZenonT(30) DEF e, b
  <1>8. [ebs EXCEPT ![b] = e2] \in [Blocks -> Eraseblock]
    BY <1>5, ZenonT(30)
  <1> QED
    BY <1>3, <1>7, <1>8 DEF StoredFor, TypeOK, FlashType

(* A packet that fits in the write buffer. *)
LEMMA BufferPacketOK ==
    ASSUME TypeOK, NEW p \in Packets, p.block \in Blocks, phase = "recv",
           NEW STATE ebs, ebs \in [Blocks -> Eraseblock],
           NEW STATE m, m \in Nat,
           StoreOK(flash, p.img, ebs, m),
           ebs[p.block].nr_pkts < pkts_per_block,
           ~IsDuplicate(ebs[p.block], p),
           BufferPacket(p, ebs, m)
    PROVE  StoredFor(p.img)
  <1> DEFINE b == p.block
             e == ebs[p.block]
             e2 == WithPacket(e, p, e.cell, e.wbuf_ofs + PktSize)
  <1>1. e \in Eraseblock /\ b \in Blocks /\ e = ebs[b]
    OBVIOUS
  <1>2. BlockOK(flash, p.img, b, e)
    BY DEF StoreOK
  <1>3. /\ eraseblocks' = [ebs EXCEPT ![b] = e2]
        /\ mtdoffset' = m /\ total_pkts' = total_pkts + 1
        /\ phase' \in {"recv", "decode"}
        /\ flash' = flash /\ wfails' = wfails
        /\ e.wbuf_ofs + PktSize < WbufSize
    BY DEF BufferPacket, StoreAndLoop
  <1>4. e.nr_pkts < pkts_per_block /\ ~IsDuplicate(e, p)
    OBVIOUS
  <1> HIDE DEF b, e
  <1>5. e.cell \in 0 .. Cells /\ e.wbuf_ofs + PktSize \in 0 .. WbufSize - 1
    BY <1>1, <1>3, OffsetFacts
  <1>6. IsWith(e2, e, p, e.cell, e.wbuf_ofs + PktSize)
    BY <1>1, <1>5, WithPacketFacts
  <1> HIDE DEF e2
  <1>7. BlockOK(flash, p.img, b, e2)
    BY <1>1, <1>2, <1>4, <1>6, BufferBlock
  <1>8. e2 \in Eraseblock /\ e2.eb = ebs[b].eb
    BY <1>1, <1>6 DEF IsWith
  <1>9. StoreOK(flash, p.img, [ebs EXCEPT ![b] = e2], m)
    BY <1>1, <1>7, <1>8, StoreUpdate, ZenonT(30)
  <1>10. [ebs EXCEPT ![b] = e2] \in [Blocks -> Eraseblock]
    BY <1>8, ZenonT(30)
  <1> QED
    BY <1>3, <1>9, <1>10 DEF StoredFor, TypeOK, FlashType

(* A packet that fills the write buffer, which is written to flash. *)
LEMMA FlushPacketOK ==
    ASSUME TypeOK, NEW p \in Packets, p.block \in Blocks, phase = "recv",
           NEW STATE ebs, ebs \in [Blocks -> Eraseblock],
           NEW STATE m, m \in Nat,
           StoreOK(flash, p.img, ebs, m),
           ebs[p.block].nr_pkts < pkts_per_block,
           ~IsDuplicate(ebs[p.block], p),
           FlushPacket(p, ebs, m)
    PROVE  StoredFor(p.img)
  <1> DEFINE b == p.block
             e == ebs[p.block]
             e2 == WithPacket(e, p, e.cell + 1, LeftOver(e.wbuf_ofs))
  <1>1. e \in Eraseblock /\ b \in Blocks /\ e = ebs[b]
    OBVIOUS
  <1>2. BlockOK(flash, p.img, b, e)
    BY DEF StoreOK
  <1>3. /\ eraseblocks' = [ebs EXCEPT ![b] = e2]
        /\ mtdoffset' = m /\ total_pkts' = total_pkts + 1
        /\ phase' \in {"recv", "decode"}
        /\ wfails' = wfails
        /\ e.wbuf_ofs + PktSize >= WbufSize
        /\ e.eb \in EbNumbers
        /\ flash' = WriteCell(flash, e.eb, e.cell,
                        Raw(p.img, b, e.cell, Append(e.pkt_indices, p.pkt)))
    BY DEF FlushPacket, StoreAndLoop
  <1>4. e.nr_pkts < pkts_per_block /\ ~IsDuplicate(e, p)
    OBVIOUS
  <1>5. flash \in [EbNumbers -> [CellNumbers -> Contents]] /\ p.img \in Images
    BY DEF TypeOK, Packets
  <1> HIDE DEF b, e
  <1>6. e.cell < Cells
    <2>1. Aligned(e) /\ Len(e.pkt_indices) < pkts_per_block
      BY <1>2, <1>4 DEF BlockOK
    <2> QED
      BY <1>1, <2>1, AlignedFacts
  <1>7. e.cell + 1 \in 0 .. Cells
    BY <1>1, <1>6, OffsetFacts, ZenonT(30)
  <1>8. LeftOver(e.wbuf_ofs) \in 0 .. WbufSize - 1
    BY <1>1, <1>3, OffsetFacts, ZenonT(30)
  <1>9. IsFlushed(e2, e, p)
    BY <1>1, <1>7, <1>8, WithPacketFacts, ZenonT(30) DEF IsFlushed
  <1> HIDE DEF e2
  <1>10. /\ BlockOK(flash', p.img, b, e2)
         /\ flash' \in [EbNumbers -> [CellNumbers -> Contents]]
         /\ \A eb \in EbNumbers : eb # e.eb => flash'[eb] = flash[eb]
    <2>1. flash' = Flushed(flash, p.img, b, e, p)
      BY <1>3 DEF Flushed
    <2>2. e.eb \in EbNumbers
      BY <1>3
    <2> QED
      <3> DEFINE fl2 == Flushed(flash, p.img, b, e, p)
      <3>1. /\ BlockOK(fl2, p.img, b, e2)
            /\ fl2 \in [EbNumbers -> [CellNumbers -> Contents]]
            /\ \A eb \in EbNumbers : eb # e.eb => fl2[eb] = flash[eb]
        BY <1>1, <1>2, <1>4, <1>5, <1>9, <2>2, FlushBlock
      <3> QED
        BY <2>1, <3>1, ZenonT(30)
  <1>11. e2 \in Eraseblock /\ e2.eb = ebs[b].eb
    BY <1>1, <1>9 DEF IsWith, IsFlushed
  <1>12. StoreOK(flash', p.img, [ebs EXCEPT ![b] = e2], m)
    BY <1>1, <1>10, <1>11, StoreUpdate, ZenonT(30)
  <1>13. [ebs EXCEPT ![b] = e2] \in [Blocks -> Eraseblock]
    BY <1>11, ZenonT(30)
  <1> QED
    BY <1>3, <1>10, <1>12, <1>13 DEF StoredFor, TypeOK, FlashType

(* The write fails, and the block starts again on the next good eraseblock. *)
LEMMA RelocateOK ==
    ASSUME TypeOK, NEW p \in Packets, p.block \in Blocks, phase = "recv",
           NEW STATE ebs, ebs \in [Blocks -> Eraseblock],
           NEW STATE m, m \in Nat,
           StoreOK(flash, p.img, ebs, m),
           ebs[p.block].nr_pkts < pkts_per_block,
           FlushFailsRelocate(p, ebs, m)
    PROVE  StoredFor(p.img)
  <1> DEFINE b == p.block
             e == ebs[p.block]
  <1>1. e \in Eraseblock /\ b \in Blocks /\ e = ebs[b] /\ e.eb \in EbNumbers
    BY ZenonT(30) DEF FlushFailsRelocate
  <1>2. PICK n \in EbNumbers :
           /\ NextGood(m, n)
           /\ StoreAndLoop(b, WithPacket(Fresh(n), p, 0, PktSize), ebs,
                           DropPackets(total_pkts, e) + 1)
           /\ mtdoffset' = PassOver(n)
    BY DEF FlushFailsRelocate
  <1> DEFINE e2 == WithPacket(Fresh(n), p, 0, PktSize)
  <1>3. /\ eraseblocks' = [ebs EXCEPT ![b] = e2]
        /\ mtdoffset' = n + 1 /\ n \in Nat /\ m <= n /\ n \notin bad
        /\ total_pkts' = total_pkts - e.nr_pkts + 1
        /\ phase' \in {"recv", "decode"}
        /\ wfails' = wfails + 1
        /\ flash' = EraseBlock(e.eb)
    <2>1. wfails' = wfails + 1 /\ flash' = EraseBlock(e.eb)
      BY ZenonT(30) DEF FlushFailsRelocate
    <2>2. n \in Nat /\ m <= n /\ n \notin bad /\ mtdoffset' = n + 1
      BY <1>2 DEF NextGood, PassOver, EbNumbers
    <2> HIDE DEF b, e, e2
    <2>3. /\ eraseblocks' = [ebs EXCEPT ![b] = e2]
          /\ total_pkts' = total_pkts - e.nr_pkts + 1
          /\ phase' \in {"recv", "decode"}
      BY <1>2 DEF StoreAndLoop, DropPackets, e2
    <2> QED
      BY <2>1, <2>2, <2>3, ZenonT(30)
  <1>4. 0 < pkts_per_block /\ e.nr_pkts \in Nat
    <2>1. e.nr_pkts \in Nat /\ e.nr_pkts < pkts_per_block
      BY <1>1 DEF Eraseblock
    <2> HIDE DEF e
    <2> QED
      BY <2>1, Sizes
  <1> HIDE DEF b, e
  <1>5. /\ flash' \in FlashType
        /\ \A a \in EbNumbers : a # e.eb => flash'[a] = flash[a]
    BY <1>1, <1>3, EraseFacts, ZenonT(30)
  <1>6. \A c \in CellNumbers : flash'[n][c] = Erased
    <2>1. n # e.eb
      BY <1>1, <1>3 DEF StoreOK, HomesBelow, Eraseblock
    <2>2. \A c \in CellNumbers : flash[n][c] = Erased
      BY <1>3 DEF StoreOK, FreshFrom
    <2> QED
      BY <1>5, <2>1, <2>2, ZenonT(30)
  <1>11. e2 \in Eraseblock /\ e2.eb = n /\ BlockOK(flash', p.img, b, e2)
    <2>1. e2 = WithPacket(Fresh(n), p, 0, PktSize) /\ n \in Nat
      BY <1>3, ZenonT(30)
    <2> HIDE DEF e2
    <2>2. ASSUME NEW fl, fl = flash' PROVE BlockOK(fl, p.img, b, e2)
      BY <1>4, <1>6, <2>1, <2>2, FirstOfBlock DEF b
    <2>3. e2 \in Eraseblock /\ e2.eb = n
      BY <1>4, <1>6, <2>1, FirstOfBlock
    <2> QED
      BY <2>2, <2>3
  <1> HIDE DEF e2
  <1>13. mtdoffset' \in Nat /\ total_pkts' \in Int /\ wfails' \in Nat
    BY <1>3, <1>4 DEF TypeOK
  <1>14. StoreOK(flash', p.img, [ebs EXCEPT ![b] = e2], mtdoffset')
    <2>1. \A a \in EbNumbers : a # ebs[b].eb => flash'[a] = flash[a]
      BY <1>1, <1>5
    <2>2. mtdoffset' = n + 1 /\ n \in Nat /\ m <= n /\ n \notin bad
      BY <1>3
    <2>3. b \in Blocks
      BY <1>1
    <2> QED
      BY <1>11, <1>13, <2>1, <2>2, <2>3, StoreMove, ZenonT(30)
  <1>15. [ebs EXCEPT ![b] = e2] \in [Blocks -> Eraseblock]
    BY <1>11, ZenonT(30)
  <1> QED
    BY <1>3, <1>5, <1>13, <1>14, <1>15, ZenonT(30) DEF StoredFor

(* Every way through the body of the loop. *)
LEMMA ProcessOK ==
    ASSUME TypeOK, NEW p \in Packets, p.block \in Blocks, phase = "recv",
           NEW STATE ebs, ebs \in [Blocks -> Eraseblock],
           NEW STATE m, m \in Nat,
           StoreOK(flash, p.img, ebs, m),
           Process(p, ebs, m)
    PROVE  /\ bad' = bad /\ dfails' = dfails /\ block_nr' = block_nr
           /\ \/ StoredFor(p.img)
              \/ /\ phase' = "failed"
                 /\ ebs[p.block].wbuf_ofs + PktSize >= WbufSize
                 /\ flash' \in FlashType
                 /\ UNCHANGED <<eraseblocks, mtdoffset, total_pkts, wfails>>
  <1>1. ASSUME Discard(ebs, m) PROVE StoredFor(p.img)
    BY <1>1 DEF Discard, StoredFor, TypeOK, FlashType
  <1>2. bad' = bad /\ dfails' = dfails /\ block_nr' = block_nr
    BY ZenonT(30) DEF Process, Discard, IgnoreExtra, BufferPacket, FlushPacket,
           FlushFailsRelocate, FlushFailsExit, StoreAndLoop
  <1>3. ASSUME FlushFailsExit(p, ebs, m)
        PROVE  /\ phase' = "failed"
               /\ ebs[p.block].wbuf_ofs + PktSize >= WbufSize
               /\ flash' \in FlashType
               /\ UNCHANGED <<eraseblocks, mtdoffset, total_pkts, wfails>>
    BY <1>3, SpoiledFacts, ZenonT(30) DEF FlushFailsExit
  <1> QED
    BY <1>1, <1>2, <1>3, IgnoreExtraOK, BufferPacketOK, FlushPacketOK, RelocateOK, ZenonT(30)
       DEF Process

-----------------------------------------------------------------------------
(* The inductive invariant. *)

(* The receiver starts with nothing allocated and an erased device. *)
LEMMA InitOK == Init => IInv
  <1> SUFFICES ASSUME Init PROVE IInv
    OBVIOUS
  <1>1. Fresh(0) \in Eraseblock
    BY Sizes DEF Fresh, Eraseblock
  <1>2. [c \in CellNumbers |-> Erased] \in [CellNumbers -> Contents]
    BY DEF Contents
  <1>3. 0 \in Blocks
    BY RecvAssumption DEF Blocks
  <1>4. TypeOK
    BY <1>1, <1>2, <1>3 DEF Init, TypeOK
  <1>5. FreshFrom(flash, 0)
    BY DEF Init, FreshFrom
  <1>6. ~Allocated
    BY ZenonT(30) DEF Init, Allocated
  <1> QED
    BY <1>4, <1>5, <1>6 DEF Init, IInv

(* The decode loop starts with what the receive loop leaves. *)
LEMMA EnterDecode ==
    ASSUME TypeOK', bad' = bad, dfails' = 0, block_nr' = 0, phase' = "decode",
           StoreOK(flash', image_crc', eraseblocks', mtdoffset')
    PROVE  DecodeOK'
  <1>1. HomesGood(eraseblocks)'
    BY DEF StoreOK, HomesGood
  <1>2. /\ HomesApart(eraseblocks)' /\ HomesBelow(eraseblocks, mtdoffset)'
        /\ FreshFrom(flash, mtdoffset)'
        /\ \A b \in Blocks : BlockOK(flash, image_crc, b, eraseblocks[b])'
    BY DEF StoreOK, HomesApart, HomesBelow, FreshFrom
  <1>3. \A b \in Blocks : ~(b < block_nr')
    BY DEF Blocks
  <1>4. \A b \in Pending' : b \in Blocks
    BY DEF Pending
  <1> QED
    BY <1>1, <1>2, <1>3, <1>4 DEF DecodeOK, HomesApart, HomesBelow

(* What an iteration of the loop leaves satisfies the invariant. *)
LEMMA StoredIInv ==
    ASSUME IInv, NEW img \in Images, image_crc' = img, StoredFor(img),
           bad' = bad, dfails' = dfails, block_nr' = block_nr,
           dfails = 0, block_nr = 0
    PROVE  IInv'
  <1>1. TypeOK'
    BY DEF IInv, TypeOK, StoredFor, FlashType
  <1>2. Allocated'
    BY NoImageAssumption DEF Allocated
  <1>3. StoreOK(flash, image_crc, eraseblocks, mtdoffset)'
    BY DEF StoredFor, StoreOK, HomesApart, HomesGood, HomesBelow, FreshFrom
  <1>4. CASE phase' = "recv"
    BY <1>1, <1>2, <1>3, <1>4 DEF IInv
  <1>5. CASE phase' = "decode"
    <2>1. DecodeOK'
      BY <1>1, <1>5, EnterDecode DEF StoredFor
    <2> QED
      BY <1>1, <1>2, <1>5, <2>1 DEF IInv
  <1> QED
    BY <1>4, <1>5 DEF StoredFor

(* The program ends, with an exit status of 1; what is on the flash no      *)
(* longer matters to it.                                                    *)
LEMMA ExitOK ==
    ASSUME IInv, phase' = "failed", flash' \in FlashType,
           ~Allocated => flash' = flash,
           UNCHANGED <<image_crc, eraseblocks, mtdoffset, total_pkts, block_nr,
                       bad, wfails, dfails>>
    PROVE  IInv'
  <1>1. TypeOK'
    BY DEF IInv, TypeOK, FlashType
  <1>2. CASE ~Allocated
    BY <1>1, <1>2 DEF IInv, Allocated, FreshFrom
  <1>3. CASE Allocated
    <2>1. dfails <= 1 => HomesApart(eraseblocks) /\ HomesGood(eraseblocks)
      BY <1>3 DEF IInv, TypeOK, StoreOK, DecodeOK, EndOK
    <2>2. EndOK'
      BY <2>1 DEF EndOK, HomesApart, HomesGood
    <2> QED
      BY <1>1, <1>3, <2>2 DEF IInv, Allocated
  <1> QED
    BY <1>2, <1>3

(* The exits that touch nothing. *)
LEMMA Exit1OK == IInv /\ Exit1 => IInv'
  <1>1. IInv => flash \in FlashType
    BY DEF IInv, TypeOK, FlashType
  <1> QED
    BY <1>1, ExitOK DEF Exit1

(* The eraseblocks that the first packet makes the receiver hand out. *)
LEMMA AllocationOK ==
    ASSUME TypeOK, FreshFrom(flash, 0), NEW img, NEW h \in Allocations,
           NEW ebs, ebs = [b \in Blocks |-> Fresh(h[b])],
           NEW m, m = h[NrBlocks - 1] + 1
    PROVE  /\ ebs \in [Blocks -> Eraseblock] /\ m \in Nat
           /\ \A b \in Blocks : ebs[b].wbuf_ofs = 0
           /\ StoreOK(flash, img, ebs, m)
  <1> DEFINE last == NrBlocks - 1
  <1>1. /\ last \in Blocks /\ \A b \in Blocks : b \in Int /\ b <= last
    BY RecvAssumption DEF Blocks
  <1>2. /\ \A b \in Blocks : h[b] \in Nat /\ h[b] \notin bad
        /\ \A a, b \in Blocks : a < b => h[a] < h[b]
    BY DEF Allocations, IsAllocation
  <1>3. m = h[last] + 1
    OBVIOUS
  <1> HIDE DEF last
  <1>4. ASSUME NEW b \in Blocks
        PROVE  /\ ebs[b] \in Eraseblock /\ ebs[b].eb = h[b] /\ ebs[b].wbuf_ofs = 0
               /\ BlockOK(flash, img, b, ebs[b])
    <2>1. ebs[b] = Fresh(h[b]) /\ h[b] \in Nat
      BY <1>2, ZenonT(30)
    <2>2. ASSUME NEW k \in Nat
          PROVE  /\ Fresh(k) \in Eraseblock /\ Fresh(k).eb = k
                 /\ Fresh(k).wbuf_ofs = 0 /\ BlockOK(flash, img, b, Fresh(k))
      <3>1. k \in EbNumbers => \A c \in CellNumbers : flash[k][c] = Erased
        BY DEF FreshFrom, EbNumbers
      <3> QED
        BY <3>1, FreshFacts, FreshBlock
    <2> QED
      BY <2>1, <2>2
  <1>5. m \in Nat /\ \A b \in Blocks : h[b] < m
    <2>1. ASSUME NEW b \in Blocks PROVE h[b] <= h[last]
      BY <1>1, <1>2
    <2>2. h[last] \in Nat
      BY <1>1, <1>2
    <2>3. ASSUME NEW b \in Blocks PROVE h[b] < h[last] + 1
      BY <1>2, <2>1, <2>2
    <2> QED
      BY <1>3, <2>2, <2>3
  <1>6. HomesApart(ebs)
    <2>1. ASSUME NEW a \in Blocks, NEW b \in Blocks, h[a] = h[b] PROVE a = b
      <3>1. a \in Int /\ b \in Int /\ h[a] \in Nat /\ h[b] \in Nat
        BY <1>1, <1>2
      <3>2. ~(a < b) /\ ~(b < a)
        BY <1>2, <2>1, <3>1
      <3> QED
        BY <3>1, <3>2
    <2> QED
      BY <1>4, <2>1 DEF HomesApart
  <1>7. HomesGood(ebs) /\ HomesBelow(ebs, m)
    BY <1>2, <1>4, <1>5 DEF HomesGood, HomesBelow
  <1>8. FreshFrom(flash, m)
    BY <1>5 DEF FreshFrom, EbNumbers
  <1>9. ebs \in [Blocks -> Eraseblock]
    BY <1>4
  <1> QED
    BY <1>4, <1>5, <1>6, <1>7, <1>8, <1>9 DEF StoreOK

(* The first packet: eraseblocks are handed out, then it is stored. *)
LEMMA FirstPacketOK ==
    ASSUME IInv, NEW p \in Packets, FirstPacket(p)
    PROVE  IInv'
  <1>1. /\ phase = "recv" /\ image_crc = NoImage /\ p.block \in Blocks
        /\ p.img \in Images /\ TypeOK
    BY RecvAssumption DEF FirstPacket, Packets, Blocks, IInv
  <1>2. FreshFrom(flash, 0) /\ dfails = 0 /\ block_nr = 0
    BY <1>1 DEF IInv, Allocated
  <1>3. PICK h \in Allocations :
           /\ image_crc' = p.img
           /\ Process(p, [b \in Blocks |-> Fresh(h[b])], h[NrBlocks - 1] + 1)
    BY DEF FirstPacket
  <1> DEFINE ebs == [b \in Blocks |-> Fresh(h[b])]
             m == h[NrBlocks - 1] + 1
  <1>4. /\ ebs \in [Blocks -> Eraseblock] /\ m \in Nat
        /\ \A b \in Blocks : ebs[b].wbuf_ofs = 0
        /\ StoreOK(flash, p.img, ebs, m)
    BY <1>1, <1>2, AllocationOK, ZenonT(30)
  <1>5. Process(p, ebs, m)
    BY <1>3
  <1> HIDE DEF ebs, m
  <1>6. ~(ebs[p.block].wbuf_ofs + PktSize >= WbufSize)
    BY <1>1, <1>4, Sizes
  <1>7. /\ bad' = bad /\ dfails' = dfails /\ block_nr' = block_nr
        /\ StoredFor(p.img)
    BY <1>1, <1>4, <1>5, <1>6, ProcessOK
  <1> QED
    BY <1>1, <1>2, <1>3, <1>7, StoredIInv

(* Any later packet. *)
LEMMA NextPacketOK ==
    ASSUME IInv, NEW p \in Packets, NextPacket(p)
    PROVE  IInv'
  <1>1. /\ phase = "recv" /\ image_crc = p.img /\ p.block \in Blocks
        /\ p.img \in Images /\ TypeOK /\ image_crc' = image_crc
        /\ Process(p, eraseblocks, mtdoffset)
    BY RecvAssumption DEF NextPacket, SameImage, Packets, Blocks, IInv
  <1>2. Allocated
    BY <1>1, NoImageAssumption DEF Allocated
  <1>3. /\ dfails = 0 /\ block_nr = 0
        /\ StoreOK(flash, p.img, eraseblocks, mtdoffset)
    BY <1>1, <1>2 DEF IInv
  <1>4. eraseblocks \in [Blocks -> Eraseblock] /\ mtdoffset \in Nat
    BY <1>1 DEF TypeOK
  <1>5. /\ bad' = bad /\ dfails' = dfails /\ block_nr' = block_nr
        /\ \/ StoredFor(p.img)
           \/ /\ phase' = "failed"
              /\ flash' \in FlashType
              /\ UNCHANGED <<eraseblocks, mtdoffset, total_pkts, wfails>>
    BY <1>1, <1>3, <1>4, ProcessOK
  <1>6. CASE StoredFor(p.img)
    BY <1>1, <1>3, <1>5, <1>6, StoredIInv
  <1>7. CASE /\ phase' = "failed"
             /\ flash' \in FlashType
             /\ UNCHANGED <<eraseblocks, mtdoffset, total_pkts, wfails>>
    BY <1>1, <1>2, <1>5, <1>7, ExitOK
  <1> QED
    BY <1>5, <1>6, <1>7

(* A read from the socket that fails ends the loop. *)
LEMMA ReadErrorOK == IInv /\ ReadError => IInv'
  <1> SUFFICES ASSUME IInv, ReadError PROVE IInv'
    OBVIOUS
  <1>1. TypeOK'
    BY DEF IInv, TypeOK, ReadError
  <1>2. CASE ~Allocated
    BY <1>1, <1>2 DEF IInv, Allocated, FreshFrom, ReadError
  <1>3. CASE Allocated
    <2>1. /\ phase' = "decode" /\ dfails' = 0 /\ block_nr' = 0 /\ bad' = bad
          /\ StoreOK(flash', image_crc', eraseblocks', mtdoffset')
      BY <1>3 DEF IInv, ReadError, Allocated
    <2>2. DecodeOK'
      BY <1>1, <2>1, EnterDecode
    <2> QED
      BY <1>1, <1>3, <2>1, <2>2 DEF IInv, Allocated, ReadError
  <1> QED
    BY <1>2, <1>3

=============================================================================
