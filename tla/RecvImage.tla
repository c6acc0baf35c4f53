----------------------------- MODULE RecvImage -----------------------------
(***************************************************************************)
(* recv_image: the receiver of a multicast image (recv_image.c).           *)
(*                                                                         *)
(* serve_image sends, for every eraseblock of an image, more packets than  *)
(* are needed to rebuild it (forward error correction).  The receiver      *)
(* stores the first pkts_per_block distinct packets of each block, raw,    *)
(* in the flash eraseblock where the image block will live (phase          *)
(* "recv"), and once every block has enough packets it reads them back,    *)
(* decodes the block, erases the eraseblock and writes the decoded data    *)
(* (phases "decode" and "write").                                          *)
(*                                                                         *)
(* Data is abstracted to what has to be told apart.  flash_offset, a byte  *)
(* offset in the code, is the pair of an eraseblock number and a count of  *)
(* WBUF_SIZE cells in it; the contents of a cell say which slice of which  *)
(* packet stream was programmed there.  The block CRC of a packet header   *)
(* is determined by the image and the block, so the CRC comparison of the  *)
(* decode phase is the comparison of those.  Statistics and messages are   *)
(* left out.                                                               *)
(***************************************************************************)
EXTENDS Integers, Sequences, FiniteSets

CONSTANTS
    Images,        \* the images (totcrc values) a server may send
    WrongSize,     \* the images among them served with another erasesize
    NrBlocks,      \* hdr.nr_blocks
    PktSize,       \* PKT_SIZE
    WbufSize,      \* WBUF_SIZE
    Cells,         \* meminfo.erasesize / WBUF_SIZE
    DevBlocks,     \* meminfo.size / meminfo.erasesize
    FileMode,      \* file_mode
    MaxBad,        \* bound: eraseblocks marked bad in the initial state
    MaxWriteFails, \* bound: failing writes of a wbuf
    MaxDecodeFails,\* bound: failing writes of decoded data
    MaxIgnored     \* bound: packets counted beyond pkts_per_block

EraseSize == Cells * WbufSize

(* The least number of packets that holds an eraseblock. *)
pkts_per_block == (EraseSize + PktSize - 1) \div PktSize

(* hdr.nr_pkts, what the server computes: half as many again. *)
total_pkts_per_block == (pkts_per_block * 3) \div 2

ASSUME RecvAssumption ==
    /\ NrBlocks \in Nat \ {0}
    /\ PktSize \in Nat \ {0}
    /\ WbufSize \in Nat /\ PktSize < WbufSize
    /\ Cells \in Nat \ {0}
    /\ DevBlocks \in Nat \ {0}
    /\ FileMode \in BOOLEAN
    /\ FileMode => NrBlocks <= DevBlocks
    /\ WrongSize \subseteq Images
    /\ MaxBad \in Nat /\ MaxWriteFails \in Nat
    /\ MaxDecodeFails \in Nat /\ MaxIgnored \in Nat

Blocks == 0 .. NrBlocks - 1
Pkts == 0 .. total_pkts_per_block - 1
EbNumbers == 0 .. DevBlocks - 1
CellNumbers == 0 .. Cells - 1

NoImage == "no image"
ASSUME NoImageAssumption == NoImage \notin Images

(* A packet as read from the socket.  block = NrBlocks is a header that    *)
(* names a block the image does not have; good is the data checksum.       *)
Packets == [img : Images, block : 0 .. NrBlocks, pkt : Pkts, good : BOOLEAN]

(* Contents of a flash cell. *)
Erased == [kind |-> "erased"]
Garbage == [kind |-> "garbage"]
Raw(img, b, slice, pkts) ==
    [kind |-> "raw", img |-> img, block |-> b, slice |-> slice, pkts |-> pkts]
Decoded(img, b) == [kind |-> "image", img |-> img, block |-> b]

RawContents == [kind : {"raw"}, img : Images, block : Blocks,
                slice : CellNumbers, pkts : Seq(Pkts)]
Contents == {Erased, Garbage} \cup RawContents
              \cup [kind : {"image"}, img : Images, block : Blocks]

VARIABLES
    phase,       \* where main() is: recv, decode, write, done, failed
    image_crc,   \* NoImage until the first packet (eraseblocks == NULL)
    eraseblocks, \* the struct eraseblock of every image block
    mtdoffset,   \* the next eraseblock to hand out
    total_pkts,
    block_nr,    \* the block the decode loop is at
    flash,       \* contents of the device
    bad,         \* eraseblocks MEMGETBADBLOCK reports
    wfails,      \* failed wbuf writes so far
    dfails       \* failed writes of decoded data so far

vars == <<phase, image_crc, eraseblocks, mtdoffset, total_pkts, block_nr,
          flash, bad, wfails, dfails>>

(* struct eraseblock; flash_offset is eb * erasesize + cell * WBUF_SIZE. *)
Eraseblock == [eb : Nat, cell : 0 .. Cells, wbuf_ofs : 0 .. WbufSize - 1,
               nr_pkts : Nat, pkt_indices : Seq(Pkts)]

Fresh(eb) == [eb |-> eb, cell |-> 0, wbuf_ofs |-> 0, nr_pkts |-> 0,
              pkt_indices |-> << >>]

Init ==
    /\ phase = "recv"
    /\ image_crc = NoImage
    /\ eraseblocks = [b \in Blocks |-> Fresh(0)]
    /\ mtdoffset = 0
    /\ total_pkts = 0
    /\ block_nr = 0
    /\ flash = [eb \in EbNumbers |-> [c \in CellNumbers |-> Erased]]
    /\ bad \in SUBSET EbNumbers
    /\ Cardinality(bad) <= MaxBad
    /\ FileMode => bad = {}
    /\ wfails = 0
    /\ dfails = 0

-----------------------------------------------------------------------------
(* The flash device. *)

(* Programming a cell that is not erased leaves neither the old nor the new *)
(* data; a file takes the new data.                                         *)
Programmed(old, new) == IF FileMode \/ old = Erased THEN new ELSE Garbage

WriteCell(fl, eb, c, new) ==
    [fl EXCEPT ![eb] = [fl[eb] EXCEPT ![c] = Programmed(fl[eb][c], new)]]

EraseBlock(eb) == [flash EXCEPT ![eb] = [c \in CellNumbers |-> Erased]]

(* The search for the next eraseblock: skip the bad ones from m on, and     *)
(* give up at the end of the device.                                        *)
NextGood(m, n) ==
    /\ n \in EbNumbers /\ m <= n /\ n \notin bad
    /\ \A k \in m .. n - 1 : k \in bad

(* An eraseblock after a write or an erase that failed for good. *)
Spoiled(eb) ==
    {[flash EXCEPT ![eb] = [c \in CellNumbers |-> x]] : x \in {Erased, Garbage}}

(* exit(1) *)
Exit1 ==
    /\ phase' = "failed"
    /\ UNCHANGED <<image_crc, eraseblocks, mtdoffset, total_pkts, block_nr,
                   flash, bad, wfails, dfails>>

-----------------------------------------------------------------------------
(* The receive loop. *)

(* mutant of IsAllocation: mtdoffset only moves on an MTD device. *)
AdvancesOnMtd(h) ==
    /\ \A i, j \in Blocks : i < j => IF FileMode THEN h[i] = h[j] ELSE h[i] < h[j]
    /\ \A i \in Blocks : h[i] \notin bad
    /\ \A n \in 0 .. h[NrBlocks - 1] : n \in bad \/ \E i \in Blocks : h[i] = n

(* The allocation loop gives the i-th block the i-th eraseblock that is not *)
(* bad.  It checks for the end of the device before it skips bad blocks     *)
(* and not after, so the last block may be given the offset just behind     *)
(* the device.                                                              *)
IsAllocation(h) ==
    /\ \A i, j \in Blocks : i < j => h[i] < h[j]
    /\ \A i \in Blocks : h[i] \notin bad
    /\ \A n \in 0 .. h[NrBlocks - 1] : n \in bad \/ \E i \in Blocks : h[i] = n

Allocations == {h \in [Blocks -> 0 .. DevBlocks + NrBlocks - 1] : IsAllocation(h)}

RunsOut(h) == ~FileMode /\ \E i \in Blocks : i > 0 /\ h[i - 1] + 1 >= DevBlocks

(* A packet that leaves the blocks as they are. *)
Discard(ebs, m) ==
    /\ eraseblocks' = ebs
    /\ mtdoffset' = m
    /\ UNCHANGED <<phase, total_pkts, block_nr, flash, bad, wfails, dfails>>

(* More packets than needed are only counted. *)
Counted(e) ==
    [eb |-> e.eb, cell |-> e.cell, wbuf_ofs |-> e.wbuf_ofs,
     nr_pkts |-> e.nr_pkts + 1, pkt_indices |-> e.pkt_indices]

IgnoreExtra(p, ebs, m) ==
    /\ ebs[p.block].nr_pkts < pkts_per_block + MaxIgnored
    /\ Discard([ebs EXCEPT ![p.block] = Counted(@)], m)

(* The end of an iteration: leave the loop when every block is complete.    *)
StoreAndLoop(b, e, ebs, total) ==
    /\ eraseblocks' = [ebs EXCEPT ![b] = e]
    /\ total_pkts' = total
    /\ phase' = IF e.nr_pkts = pkts_per_block
                   /\ total = NrBlocks * pkts_per_block
                THEN "decode" ELSE "recv"
    /\ UNCHANGED <<block_nr, bad, dfails>>

(* pkt_indices[nr_pkts++] = pkt_nr, and the data in the cells and the write *)
(* buffer.                                                                  *)
WithPacket(e, p, cell, wbuf_ofs) ==
    [eb |-> e.eb, cell |-> cell, wbuf_ofs |-> wbuf_ofs,
     nr_pkts |-> e.nr_pkts + 1, pkt_indices |-> Append(e.pkt_indices, p.pkt)]

(* The packet fits in the write buffer. *)
BufferPacket(p, ebs, m) ==
    LET e == ebs[p.block] IN
    /\ e.wbuf_ofs + PktSize < WbufSize
    /\ StoreAndLoop(p.block, WithPacket(e, p, e.cell, e.wbuf_ofs + PktSize),
                    ebs, total_pkts + 1)
    /\ mtdoffset' = m
    /\ UNCHANGED <<flash, wfails>>

(* What does not fit goes to the start of the emptied write buffer. *)
LeftOver(ofs) == PktSize - (WbufSize - ofs)

(* The write buffer is full and is written out. *)
FlushPacket(p, ebs, m) ==
    LET e == ebs[p.block]
        slice == Raw(p.img, p.block, e.cell, Append(e.pkt_indices, p.pkt))
    IN
    /\ e.wbuf_ofs + PktSize >= WbufSize
    /\ e.eb \in EbNumbers
    /\ flash' = WriteCell(flash, e.eb, e.cell, slice)
    /\ StoreAndLoop(p.block,
                    WithPacket(e, p, e.cell + 1, LeftOver(e.wbuf_ofs)),
                    ebs, total_pkts + 1)
    /\ mtdoffset' = m
    /\ UNCHANGED wfails

(* The write fails (always so behind the end of the device), and so may    *)
(* the erase of the eraseblock; if not, the block starts afresh in the next *)
(* good eraseblock with this packet (goto pkt_again), which then fits in    *)
(* the empty write buffer.                                                  *)
WriteFails(e) == e.eb \notin EbNumbers \/ wfails < MaxWriteFails

(* mtdoffset moves past the eraseblock that was handed out. *)
StayAt(n) == n
PassOver(n) == n + 1

(* The packets in the failing eraseblock are no longer counted. *)
KeepPackets(total, e) == total
DropPackets(total, e) == total - e.nr_pkts

FlushFailsRelocate(p, ebs, m) ==
    LET e == ebs[p.block] IN
    /\ e.wbuf_ofs + PktSize >= WbufSize
    /\ ~FileMode /\ WriteFails(e) /\ e.eb \in EbNumbers
    /\ \E n \in EbNumbers :
         /\ NextGood(m, n)
         /\ StoreAndLoop(p.block, WithPacket(Fresh(n), p, 0, PktSize), ebs,
                         DropPackets(total_pkts, e) + 1)
         /\ mtdoffset' = PassOver(n)
    /\ flash' = EraseBlock(e.eb)
    /\ wfails' = wfails + 1

FlushFailsExit(p, ebs, m) ==
    /\ ebs[p.block].wbuf_ofs + PktSize >= WbufSize
    /\ WriteFails(ebs[p.block])
    /\ phase' = "failed"
    /\ flash' \in Spoiled(ebs[p.block].eb)
    /\ UNCHANGED <<eraseblocks, mtdoffset, total_pkts, block_nr, bad, wfails,
                   dfails>>

(* The search for pkt_nr among the packets stored.  It runs to nr_pkts,     *)
(* which counts ignored packets too, while pkt_indices has pkts_per_block   *)
(* entries: what it finds behind them may be equal to pkt_nr (MayMatch).    *)
LastDuplicate(e, p) == e.pkt_indices # << >> /\ p.pkt = e.pkt_indices[Len(e.pkt_indices)]
IsDuplicate(e, p) == \E i \in DOMAIN e.pkt_indices : e.pkt_indices[i] = p.pkt

MayMatch(e) == e.nr_pkts > pkts_per_block

(* The body of the loop for a packet of the image being received. *)
Process(p, ebs, m) ==
    LET e == ebs[p.block] IN
    \/ (IsDuplicate(e, p) \/ MayMatch(e)) /\ Discard(ebs, m)
    \/ /\ ~IsDuplicate(e, p)
       /\ \/ e.nr_pkts >= pkts_per_block /\ IgnoreExtra(p, ebs, m)
          \/ e.nr_pkts < pkts_per_block /\ ~p.good /\ Discard(ebs, m)
          \/ /\ e.nr_pkts < pkts_per_block /\ p.good
             /\ \/ BufferPacket(p, ebs, m)
                \/ FlushPacket(p, ebs, m)
                \/ FlushFailsRelocate(p, ebs, m)
                \/ FlushFailsExit(p, ebs, m)

(* A first packet makes the receiver allocate the blocks of its image. *)
FirstPacket(p) ==
    /\ phase = "recv" /\ image_crc = NoImage
    /\ p.img \notin WrongSize
    /\ p.block < NrBlocks
    /\ \E h \in Allocations :
         /\ ~RunsOut(h)
         /\ image_crc' = p.img
         /\ Process(p, [b \in Blocks |-> Fresh(h[b])], h[NrBlocks - 1] + 1)

(* The packet belongs to the image being received. *)
AnyImage(p) == image_crc # NoImage
SameImage(p) == image_crc = p.img

NextPacket(p) ==
    /\ phase = "recv" /\ SameImage(p)
    /\ p.block < NrBlocks
    /\ Process(p, eraseblocks, mtdoffset)
    /\ UNCHANGED image_crc

(* The packets that end the program: another erasesize, no room, another    *)
(* image, or a block the image does not have.                               *)
FatalPacket(p) ==
    /\ phase = "recv"
    /\ \/ image_crc = NoImage /\ p.img \in WrongSize
       \/ image_crc = NoImage /\ \E h \in Allocations : RunsOut(h)
       \/ image_crc # NoImage /\ ~SameImage(p)
       \/ p.block >= NrBlocks
    /\ Exit1

(* read() fails: break out of the loop.  Without a single packet there are  *)
(* no blocks to decode and main() returns 0.                                *)
ReadError ==
    /\ phase = "recv"
    /\ phase' = IF image_crc = NoImage THEN "done" ELSE "decode"
    /\ UNCHANGED <<image_crc, eraseblocks, mtdoffset, total_pkts, block_nr,
                   flash, bad, wfails, dfails>>

Receive(p) == FirstPacket(p) \/ NextPacket(p) \/ FatalPacket(p)

-----------------------------------------------------------------------------
(* The decode loop. *)

(* The packets of a block, as they come back from its eraseblock and the    *)
(* write buffer, are pkts_per_block different packets, each where           *)
(* pkt_indices says.  Only then does fec_decode() return the image block    *)
(* and the block CRC match.                                                 *)
SamePrefix(s, t) == Len(s) <= Len(t) /\ \A i \in 1 .. Len(s) : s[i] = t[i]

HoldsSlice(content, img, b, c, pkts) ==
    /\ content \in RawContents
    /\ content.img = img /\ content.block = b /\ content.slice = c
    /\ SamePrefix(content.pkts, pkts)

Aligned(e) == Len(e.pkt_indices) * PktSize = e.cell * WbufSize + e.wbuf_ofs

Distinct(s) == \A i, j \in DOMAIN s : s[i] = s[j] => i = j

Recoverable(b) ==
    LET e == eraseblocks[b] IN
    /\ e.cell = Cells
    /\ Len(e.pkt_indices) = pkts_per_block
    /\ Distinct(e.pkt_indices)
    /\ Aligned(e)
    /\ \A c \in CellNumbers :
          HoldsSlice(flash[e.eb][c], image_crc, b, c, e.pkt_indices)

(* flash_offset at the start of an eraseblock. *)
At(e, eb) ==
    [eb |-> eb, cell |-> 0, wbuf_ofs |-> e.wbuf_ofs, nr_pkts |-> e.nr_pkts,
     pkt_indices |-> e.pkt_indices]

(* MEMERASE, but not on a file. *)
NotErased(eb) == flash
CleanedOfPackets(eb) == IF FileMode THEN flash ELSE EraseBlock(eb)

(* flash_offset -= erasesize; read back, decode, compare the CRC, and erase *)
(* the eraseblock (in file mode there is nothing to erase).                 *)
DecodeBlock ==
    /\ phase = "decode"
    /\ Recoverable(block_nr)
    /\ eraseblocks' = [eraseblocks EXCEPT ![block_nr] = At(@, @.eb)]
    /\ flash' = CleanedOfPackets(eraseblocks[block_nr].eb)
    /\ phase' = "write"
    /\ UNCHANGED <<image_crc, mtdoffset, total_pkts, block_nr, bad, wfails,
                   dfails>>

(* The read fails, the decoded block has the wrong CRC, or the erase fails. *)
DecodeFails == phase = "decode" /\ Exit1

(* The end of the loop over the blocks. *)
BeforeLast(b) == b >= NrBlocks - 2
IsLast(b) == b = NrBlocks - 1

(* write_again: the decoded block is written. *)
WriteBlock ==
    LET eb == eraseblocks[block_nr].eb IN
    /\ phase = "write"
    /\ flash' = [flash EXCEPT ![eb] =
                    [c \in CellNumbers |->
                        Programmed(flash[eb][c], Decoded(image_crc, block_nr))]]
    /\ IF IsLast(block_nr)
       THEN phase' = "done" /\ block_nr' = block_nr
       ELSE phase' = "decode" /\ block_nr' = block_nr + 1
    /\ UNCHANGED <<image_crc, eraseblocks, mtdoffset, total_pkts, bad, wfails,
                   dfails>>

(* The write fails: erase the eraseblock and try again in the next good one. *)
(* mtdoffset is left where the search stopped, on that very eraseblock.      *)
WriteBlockFails ==
    LET eb == eraseblocks[block_nr].eb IN
    /\ phase = "write"
    /\ ~FileMode /\ dfails < MaxDecodeFails
    /\ \E n \in EbNumbers :
         /\ NextGood(mtdoffset, n)
         /\ mtdoffset' = n
         /\ eraseblocks' = [eraseblocks EXCEPT ![block_nr] = At(@, n)]
    /\ flash' = EraseBlock(eb)
    /\ dfails' = dfails + 1
    /\ UNCHANGED <<phase, image_crc, total_pkts, block_nr, bad, wfails>>

(* The write fails, and there is no way on: a file, a failing erase, or no  *)
(* eraseblock left.                                                         *)
WriteBlockExit ==
    /\ phase = "write" /\ dfails < MaxDecodeFails
    /\ phase' = "failed"
    /\ flash' \in Spoiled(eraseblocks[block_nr].eb)
    /\ UNCHANGED <<image_crc, eraseblocks, mtdoffset, total_pkts, block_nr, bad,
                   wfails, dfails>>

Decode == DecodeBlock \/ DecodeFails \/ WriteBlock \/ WriteBlockFails \/ WriteBlockExit

(* main() has returned or exited. *)
Terminated == phase \in {"done", "failed"} /\ UNCHANGED vars

Next ==
    \/ \E p \in Packets : Receive(p)
    \/ ReadError
    \/ Decode
    \/ Terminated

Spec == Init /\ [][Next]_vars

-----------------------------------------------------------------------------
(* Properties *)

Allocated == image_crc # NoImage

TypeOK ==
    /\ phase \in {"recv", "decode", "write", "done", "failed"}
    /\ image_crc \in Images \cup {NoImage}
    /\ eraseblocks \in [Blocks -> Eraseblock]
    /\ mtdoffset \in Nat
    /\ total_pkts \in Int
    /\ block_nr \in Blocks
    /\ flash \in [EbNumbers -> [CellNumbers -> Contents]]
    /\ bad \in SUBSET EbNumbers
    /\ wfails \in Nat
    /\ dfails \in Nat

(* The blocks that the decode loop has not started on. *)
Pending == {b \in Blocks : \/ phase = "recv"
                           \/ phase = "decode" /\ b >= block_nr
                           \/ phase = "write" /\ b > block_nr}

(* A block that has collected pkts_per_block packets can be decoded from   *)
(* then on until its turn comes: whatever duplicates, failed writes and    *)
(* relocations came in between, what is in its eraseblock and its write    *)
(* buffer is the packets pkt_indices lists, all different, exactly filling *)
(* the eraseblock ("This cannot happen" of recv_image.c:383).              *)
CompleteIsRecoverable ==
    \A b \in Pending :
        Allocated /\ eraseblocks[b].nr_pkts >= pkts_per_block => Recoverable(b)

(* No two blocks of the image share an eraseblock, and none is put in an   *)
(* eraseblock marked bad, for as long as at most one decoded block had to  *)
(* move.                                                                   *)
HomesDisjoint ==
    Allocated /\ dfails <= 1 =>
        /\ \A a, b \in Blocks : eraseblocks[a].eb = eraseblocks[b].eb => a = b
        /\ \A b \in Blocks : eraseblocks[b].eb \notin bad

(* The packets counted for the loop's exit: at most pkts_per_block a block. *)
Needed(b) == IF eraseblocks[b].nr_pkts < pkts_per_block
             THEN eraseblocks[b].nr_pkts ELSE pkts_per_block

(* The sum over the first n blocks of the packets they need. *)
NeededUpTo[n \in 0 .. NrBlocks] ==
    IF n = 0 THEN 0 ELSE NeededUpTo[n - 1] + Needed(n - 1)

(* total_pkts, which the receiver adjusts when a failed write throws       *)
(* packets away, is the number of useful packets in store, so the receive  *)
(* loop ends when and only when every block is complete.                   *)
TotalIsExact == Allocated => total_pkts = NeededUpTo[NrBlocks]

(* The decoded data of the block with struct e is on the flash. *)
Written(fl, img, b, e) ==
    /\ e.eb \in EbNumbers
    /\ \A c \in CellNumbers : fl[e.eb][c] = Decoded(img, b)

(* A block that the decode loop has written. *)
Installed(b) ==
    /\ \/ phase \in {"decode", "write"} /\ b < block_nr
       \/ phase \in {"done", "failed"}
    /\ Allocated
    /\ Written(flash, image_crc, b, eraseblocks[b])

(* Every block that the decode loop has left behind is installed, intact,  *)
(* and stays so to the end, if at most one decoded block had to move.      *)
Delivered ==
    Allocated /\ dfails <= 1 =>
        \A b \in Blocks :
            \/ phase \in {"decode", "write"} /\ b < block_nr
            \/ phase = "done"
            => Installed(b)

(* The same without the restriction: every block reported with "wrote      *)
(* image block" (recv_image.c:471) is on the flash when the program ends.  *)
AllDelivered == Allocated /\ phase = "done" => \A b \in Blocks : Installed(b)

(* The receiver implements ImageDelivery. *)
Delivery == INSTANCE ImageDelivery WITH
    delivered <- {b \in Blocks : Installed(b)},
    status <- IF phase = "done" /\ Allocated THEN "complete"
              ELSE IF phase \in {"done", "failed"} THEN "stopped"
              ELSE "running"

DeliverySpec == Delivery!Spec

-----------------------------------------------------------------------------
(* The inductive invariant behind CompleteIsRecoverable, HomesDisjoint and  *)
(* Delivered.                                                               *)

(* An image block whose packets are being collected, given as struct e, on *)
(* flash fl: the packets stored are different, fill the cells and the write *)
(* buffer, and the rest of the eraseblock is erased.                        *)
BlockOK(fl, img, b, e) ==
    /\ Distinct(e.pkt_indices)
    /\ Len(e.pkt_indices) = IF e.nr_pkts < pkts_per_block
                            THEN e.nr_pkts ELSE pkts_per_block
    /\ Aligned(e)
    /\ e.cell > 0 => e.eb \in EbNumbers
    /\ e.eb \in EbNumbers =>
         \A c \in CellNumbers :
            IF c < e.cell THEN HoldsSlice(fl[e.eb][c], img, b, c, e.pkt_indices)
                          ELSE fl[e.eb][c] = Erased

(* Nothing has been written from eraseblock m on. *)
FreshFrom(fl, m) ==
    \A eb \in EbNumbers : eb >= m => \A c \in CellNumbers : fl[eb][c] = Erased

(* The eraseblocks handed out are different, not bad, and lie before m. *)
HomesApart(ebs) == \A a, b \in Blocks : ebs[a].eb = ebs[b].eb => a = b
HomesGood(ebs) == \A b \in Blocks : ebs[b].eb \notin bad
HomesBelow(ebs, m) == \A b \in Blocks : ebs[b].eb < m

StoreOK(fl, img, ebs, m) ==
    /\ HomesApart(ebs)
    /\ HomesGood(ebs)
    /\ HomesBelow(ebs, m)
    /\ FreshFrom(fl, m)
    /\ \A b \in Blocks : BlockOK(fl, img, b, ebs[b])

(* While the blocks are decoded, those still to come stay apart from all    *)
(* others.  Up to the second move of a decoded block the others stay apart  *)
(* too, and are installed.                                                  *)
DecodeOK ==
    /\ HomesGood(eraseblocks)
    /\ \A b \in Pending :
         /\ BlockOK(flash, image_crc, b, eraseblocks[b])
         /\ eraseblocks[b].eb < mtdoffset
         /\ \A a \in Blocks : eraseblocks[a].eb = eraseblocks[b].eb => a = b
    /\ dfails = 0 => HomesBelow(eraseblocks, mtdoffset) /\ FreshFrom(flash, mtdoffset)
    /\ phase = "write" => eraseblocks[block_nr].eb \in EbNumbers
    /\ dfails <= 1 =>
         /\ HomesApart(eraseblocks)
         /\ \A b \in Blocks : 
               b < block_nr => Written(flash, image_crc, b, eraseblocks[b])
         /\ phase = "write" /\ ~FileMode =>
              \A c \in CellNumbers : flash[eraseblocks[block_nr].eb][c] = Erased

EndOK ==
    dfails <= 1 =>
        /\ HomesApart(eraseblocks)
        /\ HomesGood(eraseblocks)
        /\ phase = "done" =>
             \A b \in Blocks : Written(flash, image_crc, b, eraseblocks[b])

IInv ==
    /\ TypeOK
    /\ ~Allocated => /\ phase \in {"recv", "done", "failed"}
                     /\ dfails = 0 /\ block_nr = 0
                     /\ FreshFrom(flash, 0)
    /\ Allocated /\ phase = "recv" =>
         /\ dfails = 0 /\ block_nr = 0
         /\ StoreOK(flash, image_crc, eraseblocks, mtdoffset)
    /\ Allocated /\ phase \in {"decode", "write"} => DecodeOK
    /\ Allocated /\ phase \in {"done", "failed"} => EndOK
=============================================================================
